----------------------------- MODULE J1939Claim -----------------------------
(***************************************************************************)
(* The address claim of the J1939 nodes of one CAN bus                     *)
(* (crates/taktora-connector-j1939): the engine of each node               *)
(* (addr_claim.rs), the dispatcher task that steps it, transmits its       *)
(* frames and reflects its events onto the health and the gate             *)
(* (dispatcher.rs), and the application's gated writer (writer.rs).        *)
(*                                                                         *)
(* A node has one interface.  A NAME is a natural number; the smaller one  *)
(* has priority.  The bus delivers the frames of a node in order, to the   *)
(* nodes whose socket is open; a frame names its kind, its source address  *)
(* and a NAME.  The wait of a claim runs out at any time after it began,   *)
(* however long the frames of the other nodes have been waiting.           *)
(* The frames of the transport protocol are those of J1939Tp: here they    *)
(* only degrade the health.  A Commanded Address has nine bytes and the    *)
(* engine drops a shorter one, so only a CAN FD frame can command; one     *)
(* reassembled by the transport goes to the readers (publish_tp_completed) *)
(* and never to the engine.  The identifier of a frame and the matching of *)
(* channels are at the end.                                                *)
(***************************************************************************)
EXTENDS ConnectorCore, Sequences, FiniteSets, SequencesExt

CONSTANTS
    Nodes,          \* the nodes; each runs one connector
    Name,           \* NAME of each node
    Configured,     \* source_addr of each node's interface
    Addresses,      \* the source addresses in use
    Commandable,    \* those a Commanded Address may assign
    Null,           \* NULL_ADDRESS
    None,           \* no address
    MaxInputs       \* bound on the frames of the management tool, the messages
                    \* of the applications and the bus errors

VARIABLES
    eng,        \* AddrClaimEngine: sa, state, wait and out
    events,     \* ac_events of the iteration
    pc,         \* where the dispatcher of a node is
    gate,       \* ClaimGate
    health,     \* the aggregate of CanHealthMonitor
    inbox,      \* frames in the receive queue of a node's socket
    writer,     \* where the application's send is
    closed,     \* nodes whose socket a failed reopening left closed
    queued,     \* messages in the outbound channel of a node
    missed,     \* history: nodes that reopened their socket
    stray,      \* history: nodes that sent data under an address they do not hold
    budget      \* what is left of the bound

vars == <<eng, events, pc, gate, health, inbox, writer, closed, queued, missed, stray,
          budget>>

States == {"Claiming", "Claimed", "CannotClaim"}
Waits == {"none", "running", "elapsed"}
Claim(sa, name) == [kind |-> "claim", sa |-> sa, name |-> name]
(* A Commanded Address in a CAN FD frame; one in a classical frame, which  *)
(* has no room for the address.                                            *)
Command(sa, name) == [kind |-> "command", sa |-> sa, name |-> name]
ShortCommand(name) == [kind |-> "short", sa |-> Null, name |-> name]
Request == [kind |-> "request", sa |-> Null, name |-> 0]
Frames ==
    [kind : {"claim", "command", "short", "request"}, sa : Addresses \cup {Null},
     name : Range(Name) \cup {0}]

TypeOK ==
    /\ eng \in [Nodes -> [sa : Addresses \cup {Null}, state : States, wait : Waits,
                          out : Seq(Frames)]]
    /\ events \in [Nodes -> Seq(States)]
    /\ pc \in [Nodes -> {"unregistered", "top", "reflect", "failed"}]
    /\ gate \in [Nodes -> States] /\ health \in [Nodes -> Kinds]
    /\ inbox \in [Nodes -> Seq(Frames)]
    /\ writer \in [Nodes -> {"idle", "checked"}] /\ queued \in [Nodes -> Nat]
    /\ closed \subseteq Nodes /\ missed \subseteq Nodes /\ stray \subseteq Nodes
    /\ budget \in 0..MaxInputs

----------------------------------------------------------------------------
(* The engine.  A result is the engine and the event it reports, if any.   *)

Quiet(e) == [eng |-> e, events |-> <<>>]
Reports(e, event) == [eng |-> e, events |-> <<event>>]

emit(e, sa, name) == [e EXCEPT !.out = Append(@, Claim(sa, name))]

\* Mutant of poll: every poll renews the deadline of the wait.
pollRenews(e, name) ==
    CASE e.state # "Claiming" -> Quiet(e)
      [] e.state = "Claiming" /\ e.wait = "none" ->
            Reports(emit([e EXCEPT !.wait = "running"], e.sa, name), "Claiming")
      [] e.state = "Claiming" /\ e.wait # "none" -> Quiet([e EXCEPT !.wait = "running"])

poll(e, name) ==
    CASE e.state # "Claiming" -> Quiet(e)
      [] e.state = "Claiming" /\ e.wait = "none" ->
            Reports(emit([e EXCEPT !.wait = "running"], e.sa, name), "Claiming")
      [] e.state = "Claiming" /\ e.wait = "running" -> Quiet(e)
      [] e.state = "Claiming" /\ e.wait = "elapsed" ->
            Reports([e EXCEPT !.state = "Claimed"], "Claimed")

Arbitrates(e, frame, name) ==
    /\ e.state # "CannotClaim" /\ frame.sa = e.sa /\ frame.name # name

on_address_claimedMute(e, frame, name) ==
    IF Arbitrates(e, frame, name) /\ frame.name < name
    THEN Reports(emit([e EXCEPT !.state = "CannotClaim", !.sa = Null, !.wait = "none"],
                      Null, name), "CannotClaim")
    ELSE Quiet(e)

on_address_claimed(e, frame, name) ==
    CASE ~Arbitrates(e, frame, name) -> Quiet(e)
      [] Arbitrates(e, frame, name) /\ frame.name < name ->
            Reports(emit([e EXCEPT !.state = "CannotClaim", !.sa = Null, !.wait = "none"],
                         Null, name), "CannotClaim")
      [] Arbitrates(e, frame, name) /\ frame.name > name -> Quiet(emit(e, e.sa, name))

on_request(e, name) ==
    Quiet(emit(e, IF e.state = "CannotClaim" THEN Null ELSE e.sa, name))

on_commanded_address(e, frame, name) ==
    IF frame.kind = "short" \/ frame.name # name THEN Quiet(e)
    ELSE Reports(emit([e EXCEPT !.sa = frame.sa, !.state = "Claiming", !.wait = "running"],
                      frame.sa, name), "Claiming")

on_frame(e, frame, name) ==
    CASE frame.kind = "claim" -> on_address_claimed(e, frame, name)
      [] frame.kind = "request" -> on_request(e, name)
      [] frame.kind \in {"command", "short"} -> on_commanded_address(e, frame, name)

----------------------------------------------------------------------------
(* The dispatcher task of a node.                                          *)

Running(n) == pc[n] \in {"top", "reflect"}

Spend == budget > 0 /\ budget' = budget - 1

Listens(n) == pc[n] # "unregistered" /\ n \notin closed

(* Every node whose socket is open, other than the sender, gets the frames. *)
Broadcast(frames, from) ==
    inbox' = [n \in Nodes |-> IF n # from /\ Listens(n) THEN inbox[n] \o frames ELSE inbox[n]]

(* AddrClaimEngine::new and ClaimGate::new.                                *)
NewEngine(n) == [sa |-> Configured[n], state |-> "Claiming", wait |-> "none", out |-> <<>>]
NewGate == "Claiming"

Init ==
    /\ eng = [n \in Nodes |-> NewEngine(n)]
    /\ events = [n \in Nodes |-> <<>>] /\ pc = [n \in Nodes |-> "unregistered"]
    /\ gate = [n \in Nodes |-> NewGate] /\ health = [n \in Nodes |-> "Connecting"]
    /\ inbox = [n \in Nodes |-> <<>>] /\ writer = [n \in Nodes |-> "idle"]
    /\ closed = {} /\ queued = [n \in Nodes |-> 0] /\ missed = {} /\ stray = {}
    /\ budget = MaxInputs

(* register_with spawns the task; the drivers were opened just before.     *)
register_with(n) ==
    /\ pc[n] = "unregistered" /\ pc' = [pc EXCEPT ![n] = "top"]
    /\ UNCHANGED <<eng, events, gate, health, inbox, writer, closed, queued, missed, stray,
                   budget>>

(* send_outbound_once drains the channels under the configured address,    *)
(* whatever the state of the claim.  A closed socket must have nothing to  *)
(* send: SendFails is the other case.                                      *)
send_outbound_once(n) ==
    /\ n \in closed => queued[n] = 0
    /\ queued' = [queued EXCEPT ![n] = 0]
    /\ stray' = IF queued[n] > 0 /\ (eng[n].state # "Claimed" \/ eng[n].sa # Configured[n])
                THEN stray \cup {n} ELSE stray

(* The first half of dispatch_iteration_inner: drain the channels,         *)
(* poll the engine, and take one frame of the receive queue, if any.       *)
Step(n, result) ==
    /\ eng' = [eng EXCEPT ![n] = result.eng]
    /\ events' = [events EXCEPT ![n] = result.events]
    /\ pc' = [pc EXCEPT ![n] = "reflect"]

ReceiveNothing(n) ==
    /\ pc[n] = "top" /\ n \notin closed /\ inbox[n] = <<>>
    /\ send_outbound_once(n) /\ Step(n, poll(eng[n], Name[n]))
    /\ UNCHANGED <<gate, health, inbox, writer, closed, missed, budget>>

Receive(n) ==
    /\ pc[n] = "top" /\ inbox[n] # <<>> /\ send_outbound_once(n)
    /\ LET polled == poll(eng[n], Name[n])
           heard == on_frame(polled.eng, Head(inbox[n]), Name[n])
       IN  Step(n, [eng |-> heard.eng, events |-> polled.events \o heard.events])
    /\ inbox' = [inbox EXCEPT ![n] = Tail(@)]
    /\ UNCHANGED <<gate, health, writer, closed, missed, budget>>

(* classify_error of anything but a bus-off: Warning and Passive degrade   *)
(* the health; the other kinds, like a remote frame, change nothing.       *)
ReceiveError(n) ==
    /\ pc[n] = "top" /\ n \notin closed /\ Spend
    /\ send_outbound_once(n) /\ Step(n, poll(eng[n], Name[n]))
    /\ \E h \in {health[n], Transition(health[n], "Degraded")} : health' = [health EXCEPT ![n] = h]
    /\ UNCHANGED <<gate, inbox, writer, closed, missed>>

(* apply_tp_events: a transfer of the transport is aborted or refused in   *)
(* this iteration, before the events of the claim are reflected.           *)
degrade_health(n) ==
    /\ pc[n] = "reflect" /\ Spend
    /\ health' = [health EXCEPT ![n] = Transition(@, "Degraded")]
    /\ UNCHANGED <<eng, events, pc, gate, inbox, writer, closed, queued, missed, stray>>

(* The socket is opened anew, without the frames of the old one, and the   *)
(* health goes down and up again: classify_error of a bus-off.             *)
Reopened(kind) == Transition(Transition(Transition(kind, "Down"), "Connecting"), "Up")

BusOff(n) ==
    /\ pc[n] = "top" /\ n \notin closed /\ Spend
    /\ send_outbound_once(n) /\ Step(n, poll(eng[n], Name[n]))
    /\ health' = [health EXCEPT ![n] = Reopened(@)]
    /\ inbox' = [inbox EXCEPT ![n] = <<>>] /\ missed' = missed \cup {n}
    /\ UNCHANGED <<gate, writer, closed>>

(* recv finds the socket closed.  A reopening that fails leaves it closed  *)
(* and the health down, and the next iteration tries again.                *)
reconnect_once(n) ==
    /\ pc[n] = "top" /\ IF n \in closed THEN UNCHANGED budget ELSE Spend
    /\ send_outbound_once(n) /\ Step(n, poll(eng[n], Name[n]))
    /\ \/ closed' = closed \ {n} /\ health' = [health EXCEPT ![n] = Reopened(@)]
       \/ closed' = closed \cup {n} /\ health' = [health EXCEPT ![n] = Transition(@, "Down")]
    /\ inbox' = [inbox EXCEPT ![n] = <<>>] /\ missed' = missed \cup {n}
    /\ UNCHANGED <<gate, writer>>

HealthOf(state) ==
    CASE state = "Claiming" -> "Connecting" [] state = "Claimed" -> "Up"
      [] state = "CannotClaim" -> "Down"

(* apply_ac_events: every event in turn sets the gate and tries to set the *)
(* health; an illegal transition is dropped.                               *)
apply_ac_events(n) ==
    /\ gate' = [gate EXCEPT ![n] = FoldLeft(LAMBDA g, event : event, @, events[n])]
    /\ health' = [health EXCEPT ![n] =
                    FoldLeft(LAMBDA h, event : Transition(h, HealthOf(event)), @, events[n])]

(* The second half of the iteration: reflect the events, then transmit     *)
(* what the engine queued.                                                 *)
Reflect(n) ==
    /\ pc[n] = "reflect" /\ (n \in closed => eng[n].out = <<>>)
    /\ apply_ac_events(n) /\ Broadcast(eng[n].out, n)
    /\ eng' = [eng EXCEPT ![n].out = <<>>] /\ events' = [events EXCEPT ![n] = <<>>]
    /\ pc' = [pc EXCEPT ![n] = "top"]
    /\ UNCHANGED <<writer, closed, queued, missed, stray, budget>>

(* An error ends dispatcher_loop, and the task drops it: of the first half *)
(* (send, recv, or the reopening after a bus-off, which has taken the      *)
(* health down), of the transport's part of the second, or of transmitting *)
(* a frame of the claim, after the events are reflected and the frames     *)
(* before it are sent.                                                     *)
Ends(n) ==
    /\ pc' = [pc EXCEPT ![n] = "failed"]
    /\ \/ pc[n] = "top" /\ UNCHANGED <<gate, health, inbox>>
       \/ /\ pc[n] = "top" /\ health' = [health EXCEPT ![n] = Transition(@, "Down")]
          /\ UNCHANGED <<gate, inbox>>
       \/ pc[n] = "reflect" /\ UNCHANGED <<gate, health, inbox>>
       \/ /\ pc[n] = "reflect" /\ eng[n].out # <<>> /\ apply_ac_events(n)
          /\ \E k \in 0..(IF n \in closed THEN 0 ELSE Len(eng[n].out) - 1) :
                Broadcast(SubSeq(eng[n].out, 1, k), n)
    /\ UNCHANGED <<eng, events, writer, closed, queued, missed, stray>>

Fail(n) == Running(n) /\ Spend /\ Ends(n)

(* Nothing can be sent through a closed socket.                            *)
SendFails(n) ==
    /\ n \in closed
    /\ \/ pc[n] = "top" /\ queued[n] > 0
       \/ pc[n] = "reflect" /\ eng[n].out # <<>>
    /\ Ends(n) /\ UNCHANGED budget

----------------------------------------------------------------------------
(* The environment: the clock, a management tool, the applications.        *)

WaitElapses(n) ==
    /\ Running(n) /\ eng[n].wait = "running" /\ eng[n].state = "Claiming"
    /\ eng' = [eng EXCEPT ![n].wait = "elapsed"]
    /\ UNCHANGED <<events, pc, gate, health, inbox, writer, closed, queued, missed, stray, budget>>

(* A Request or a Commanded Address.  demux_inbound hands both to the      *)
(* engine.  The latter goes to every node, and all but the one it names    *)
(* drop it.                                                                *)
Manage ==
    /\ Spend
    /\ \/ inbox' = [n \in Nodes |-> IF Listens(n) THEN Append(inbox[n], Request) ELSE inbox[n]]
       \/ \E n \in Nodes :
             /\ Listens(n)
             /\ \E frame \in {ShortCommand(Name[n])}
                             \cup {Command(sa, Name[n]) : sa \in Commandable} :
                    inbox' = [inbox EXCEPT ![n] = Append(@, frame)]
    /\ UNCHANGED <<eng, events, pc, gate, health, writer, closed, queued, missed, stray>>

(* J1939Writer::send: ensure_claimed, then the inner writer's send.        *)
ensure_claimed(n) ==
    /\ writer[n] = "idle" /\ gate[n] = "Claimed" /\ Spend
    /\ writer' = [writer EXCEPT ![n] = "checked"]
    /\ UNCHANGED <<eng, events, pc, gate, health, inbox, closed, queued, missed, stray>>

InnerSend(n) ==
    /\ writer[n] = "checked" /\ writer' = [writer EXCEPT ![n] = "idle"]
    /\ queued' = [queued EXCEPT ![n] = @ + 1]
    /\ UNCHANGED <<eng, events, pc, gate, health, inbox, closed, missed, stray, budget>>

Iterate(n) ==
    ReceiveNothing(n) \/ Receive(n) \/ reconnect_once(n) \/ Reflect(n) \/ SendFails(n)

Next ==
    \/ Manage
    \/ \E n \in Nodes : register_with(n) \/ Iterate(n) \/ ReceiveError(n) \/ degrade_health(n)
                        \/ BusOff(n) \/ Fail(n) \/ WaitElapses(n) \/ ensure_claimed(n)
                        \/ InnerSend(n)

(* The runtime polls a spawned task again and again, and time passes.      *)
Spec ==
    /\ Init /\ [][Next]_vars
    /\ \A n \in Nodes : WF_vars(Iterate(n)) /\ WF_vars(WaitElapses(n))

----------------------------------------------------------------------------
(* Properties.                                                             *)

(* Two nodes that have begun to claim, whose tasks run and whose sockets   *)
(* lost no frame hold or claim the same address only while a claim one     *)
(* made for it is still on its way to the other: on_address_claimed of the *)
(* node with the larger NAME gives the address up, in every order in which *)
(* nodes start, are commanded and have their waits run out.                *)
Holds(n) == eng[n].state # "CannotClaim" /\ eng[n].wait # "none"
UnderWay(n, m) ==
    Claim(eng[n].sa, Name[n]) \in Range(eng[n].out) \cup Range(inbox[m])
OneOwner ==
    \A n, m \in {i \in Nodes : Running(i) /\ Holds(i)} \ missed :
        n # m /\ eng[n].sa = eng[m].sa => UnderWay(n, m) \/ UnderWay(m, n)

(* Between two iterations the gate the writers read is the state of the    *)
(* claim, whatever sequence of events the iteration collected.             *)
GateIsState == \A n \in Nodes : pc[n] = "top" => gate[n] = eng[n].state

(* Once the management tool is silent, every running node comes to own an  *)
(* address or to know that it cannot: no exchange of claims goes on for    *)
(* ever.                                                                   *)
Settled == \A n \in Nodes : pc[n] = "top" => gate[n] # "Claiming" /\ inbox[n] = <<>>

(* REQ_0898: outbound transmission is gated until the address is claimed.  *)
(* No node sends application data under an address it does not hold.       *)
SendsUnderClaim == stray = {}

(* REQ_0898: a node that cannot claim its address is Down.                 *)
CannotClaimIsDown ==
    \A n \in Nodes : pc[n] = "top" /\ eng[n].state = "CannotClaim" => health[n] = "Down"

----------------------------------------------------------------------------
(* The 29-bit identifier (decode.rs) and the routing of a channel          *)
(* (routing.rs): from the top, priority (3 bits), data page (2), PDU       *)
(* format (8), PDU specific (8) and source address (8).                    *)

GLOBAL_ADDRESS == 255
PDU2_FORMAT_THRESHOLD == 240
PGN_MAX == 262143

pdu_format(pgn) == (pgn \div 256) % 256
is_pdu1(pgn) == pdu_format(pgn) < PDU2_FORMAT_THRESHOLD

(* Pgn::new accepts every value of 18 bits.                                *)
Valid(pgn) == pgn <= PGN_MAX

encode_extended_id(r) ==
    LET dest == IF r.dest_addr = None THEN GLOBAL_ADDRESS ELSE r.dest_addr
        ps == IF is_pdu1(r.pgn) THEN dest ELSE r.pgn % 256
    IN  (r.priority % 8) * 2 ^ 26 + ((r.pgn \div 2 ^ 16) % 4) * 2 ^ 24
        + pdu_format(r.pgn) * 2 ^ 16 + ps * 2 ^ 8 + r.source_addr

decode_extended_idNarrow(id) ==
    LET pf == (id \div 2 ^ 16) % 256
        ps == (id \div 2 ^ 8) % 256
        page == (id \div 2 ^ 24) % 2
        pdu1 == pf < PDU2_FORMAT_THRESHOLD
    IN  [priority |-> (id \div 2 ^ 26) % 8,
         pgn |-> page * 2 ^ 16 + pf * 2 ^ 8 + (IF pdu1 THEN 0 ELSE ps),
         source_addr |-> id % 256,
         dest_addr |-> IF pdu1 THEN ps ELSE None]

decode_extended_id(id) ==
    LET pf == (id \div 2 ^ 16) % 256
        ps == (id \div 2 ^ 8) % 256
        page == (id \div 2 ^ 24) % 4
        pdu1 == pf < PDU2_FORMAT_THRESHOLD
    IN  [priority |-> (id \div 2 ^ 26) % 8,
         pgn |-> page * 2 ^ 16 + pf * 2 ^ 8 + (IF pdu1 THEN 0 ELSE ps),
         source_addr |-> id % 256,
         dest_addr |-> IF pdu1 THEN ps ELSE None]

(* J1939Routing::matches.                                                  *)
matches(r, decoded) ==
    /\ r.pgn = decoded.pgn
    /\ r.source_addr \in {None, decoded.source_addr}
    /\ r.dest_addr \in {None, decoded.dest_addr}

(* A frame sent for one routing is published to a channel of another just  *)
(* when the parameter group of the frame is the channel's, and the         *)
(* channel's source and destination, where it names them, are those of the *)
(* frame.  The group of a PDU1 frame has no low byte: a channel routed to  *)
(* one with a low byte never matches.  A PDU2 frame has no destination: a  *)
(* channel that names one never matches.                                   *)
Group(pgn) == IF is_pdu1(pgn) THEN pgn - (pgn % 256) ELSE pgn
Destination(r) ==
    CASE ~is_pdu1(r.pgn) -> None
      [] is_pdu1(r.pgn) /\ r.dest_addr = None -> GLOBAL_ADDRESS
      [] is_pdu1(r.pgn) /\ r.dest_addr # None -> r.dest_addr
RoutedAsAddressed(out, inb) ==
    Valid(out.pgn) =>
        (matches(inb, decode_extended_id(encode_extended_id(out)))
            <=> /\ inb.pgn = Group(out.pgn)
                /\ inb.source_addr \in {None, out.source_addr}
                /\ inb.dest_addr \in {None, Destination(out)})
=============================================================================
