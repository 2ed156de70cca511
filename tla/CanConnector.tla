---------------------------- MODULE CanConnector ----------------------------
(***************************************************************************)
(* The CAN connector (crates/taktora-connector-can): one dispatcher task   *)
(* per interface (dispatcher.rs), the shared channel registry              *)
(* (registry.rs), the health monitor that aggregates the interfaces        *)
(* (health.rs over connector-core's health.rs), and an application that    *)
(* creates channels and sends while the tasks run (connector.rs).          *)
(*                                                                         *)
(* One action per lock region, driver call or await.  The driver is        *)
(* external: a frame, an error or a closed socket may be received at any   *)
(* time, and any call of it may fail.  A socket that has just been opened  *)
(* accepts every identifier.  Each interface has one outbound channel,     *)
(* whose envelopes are numbered in the order they are sent.                *)
(***************************************************************************)
EXTENDS Naturals, Sequences

CONSTANTS
    Ifaces,        \* options.ifaces()
    Ids,           \* identifiers (with their masks) of inbound channels
    MaxChannels,   \* bound: inbound channels of each interface
    MaxSends       \* bound: envelopes sent on each interface

ASSUME CanAssumption ==
    Ifaces # {} /\ MaxChannels \in [Ifaces -> Nat] /\ MaxSends \in [Ifaces -> Nat]

VARIABLES
    pc,            \* step of each dispatcher task
    inbound,       \* registry: identifiers of the inbound channels, as registered
    outbox,        \* envelopes in the outbound channel of each interface
    filter,        \* the driver's filter: identifiers that pass
    lastFilter, lastCount,   \* last_filter and last_inbound_count of the task
    count, compiled,         \* current_count and recompiled
    jobs,          \* frames collected and not yet sent
    kind,          \* IfaceState.kind
    agg,           \* kind of the aggregate ConnectorHealth
    stop,          \* CanState.stop
    sent           \* history: what the driver has sent

filterVars == <<filter, lastFilter, lastCount, count, compiled>>
healthVars == <<kind, agg>>
vars == <<pc, inbound, outbox, filterVars, jobs, healthVars, stop, sent>>

Kinds == {"Connecting", "Up", "Degraded", "Down"}

Steps == {"new", "start", "bringup", "top", "compile", "apply", "drain", "send", "rx",
          "busoff", "closed", "delay", "reopened", "connecting", "up", "ended"}

Numbers(n) == [k \in 1..n |-> k]

\* The identifiers an interface has channels for: compile_iface_filter.
Wanted(i) == {inbound[i][k] : k \in DOMAIN inbound[i]}

(* is_legal_transition *)
Legal(from, to) ==
    <<from, to>> \in {<<"Connecting", "Up">>, <<"Connecting", "Degraded">>,
                      <<"Connecting", "Down">>, <<"Up", "Degraded">>, <<"Up", "Down">>,
                      <<"Degraded", "Up">>, <<"Degraded", "Connecting">>,
                      <<"Degraded", "Down">>, <<"Down", "Connecting">>}

(* aggregate: the worst of the interfaces, as far as they are brought up.  *)
Aggregate(k) ==
    IF \A i \in Ifaces : k[i] = "Down" THEN "Down"
    ELSE IF \A i \in Ifaces : k[i] \in {"Connecting", "Down"} THEN "Connecting"
    ELSE IF \E i \in Ifaces : k[i] \in {"Degraded", "Down"} THEN "Degraded"
    ELSE "Up"

(* set_iface: the monitor moves if it may; an illegal move is an error     *)
(* that every caller ignores.                                              *)
SetIface(i, k) ==
    /\ kind' = [kind EXCEPT ![i] = k]
    /\ agg' = IF Legal(agg, Aggregate(kind')) THEN Aggregate(kind') ELSE agg

Goto(i, step) == pc' = [pc EXCEPT ![i] = step]

Init ==
    /\ pc = [i \in Ifaces |-> "new"]
    /\ inbound = [i \in Ifaces |-> <<>>]
    /\ outbox = [i \in Ifaces |-> <<>>]
    /\ filter = [i \in Ifaces |-> Ids]
    /\ lastFilter = [i \in Ifaces |-> {}]
    /\ lastCount = [i \in Ifaces |-> 0]
    /\ count = [i \in Ifaces |-> 0]
    /\ compiled = [i \in Ifaces |-> {}]
    /\ jobs = [i \in Ifaces |-> <<>>]
    /\ kind = [i \in Ifaces |-> "Connecting"]
    /\ agg = "Connecting"
    /\ stop = FALSE
    /\ sent = [i \in Ifaces |-> <<>>]

-----------------------------------------------------------------------------
(* The application *)

(* register_with takes the drivers and spawns the tasks, once.             *)
RegisterWith ==
    /\ \A i \in Ifaces : pc[i] = "new"
    /\ pc' = [i \in Ifaces |-> "start"]
    /\ UNCHANGED <<inbound, outbox, filterVars, jobs, healthVars, stop, sent>>

CreateReader(i, id) ==
    /\ Len(inbound[i]) < MaxChannels[i]
    /\ inbound' = [inbound EXCEPT ![i] = Append(@, id)]
    /\ UNCHANGED <<pc, outbox, filterVars, jobs, healthVars, stop, sent>>

Written(i) == Len(sent[i]) + Len(jobs[i]) + Len(outbox[i])

WriterSend(i) ==
    /\ Written(i) < MaxSends[i]
    /\ outbox' = [outbox EXCEPT ![i] = Append(@, Written(i) + 1)]
    /\ UNCHANGED <<pc, inbound, filterVars, jobs, healthVars, stop, sent>>

StopDispatchers ==
    /\ ~stop
    /\ stop' = TRUE
    /\ UNCHANGED <<pc, inbound, outbox, filterVars, jobs, healthVars, sent>>

-----------------------------------------------------------------------------
(* A dispatcher task: bring-up *)

CompileInitial(i) ==
    /\ pc[i] = "start"
    /\ compiled' = [compiled EXCEPT ![i] = Wanted(i)]
    /\ Goto(i, "bringup")
    /\ UNCHANGED <<inbound, outbox, filter, lastFilter, lastCount, count, jobs, healthVars,
                   stop, sent>>

(* The driver takes a filter, or the call fails.                           *)
ApplyFilter(i, F) == filter' = [filter EXCEPT ![i] = F]

BringUp(i) ==
    /\ pc[i] = "bringup"
    /\ \/ /\ IF compiled[i] = {} THEN UNCHANGED filter ELSE ApplyFilter(i, compiled[i])
          /\ lastFilter' = [lastFilter EXCEPT ![i] = compiled[i]]
          /\ SetIface(i, "Up")
          /\ Goto(i, "top")
       \/ /\ compiled[i] # {}
          /\ SetIface(i, "Down")
          /\ Goto(i, "ended")
          /\ UNCHANGED <<filter, lastFilter>>
    /\ UNCHANGED <<inbound, outbox, lastCount, count, compiled, jobs, stop, sent>>

-----------------------------------------------------------------------------
(* One iteration *)

Changed(i) == Len(inbound[i]) # lastCount[i]

\* Mutant of Top: the loop does not test the stop flag.
TopNoStop(i) ==
    /\ pc[i] = "top"
    /\ count' = [count EXCEPT ![i] = Len(inbound[i])]
    /\ Goto(i, IF Changed(i) THEN "compile" ELSE "drain")
    /\ UNCHANGED <<inbound, outbox, filter, lastFilter, lastCount, compiled, jobs, healthVars,
                   stop, sent>>

(* The stop flag, then inbound_count under the registry lock.              *)
Top(i) ==
    /\ pc[i] = "top"
    /\ \/ stop /\ Goto(i, "ended") /\ UNCHANGED count
       \/ /\ ~stop
          /\ count' = [count EXCEPT ![i] = Len(inbound[i])]
          /\ Goto(i, IF Changed(i) THEN "compile" ELSE "drain")
    /\ UNCHANGED <<inbound, outbox, filter, lastFilter, lastCount, compiled, jobs, healthVars,
                   stop, sent>>

Recompile(i) ==
    /\ pc[i] = "compile"
    /\ compiled' = [compiled EXCEPT ![i] = Wanted(i)]
    /\ Goto(i, "apply")
    /\ UNCHANGED <<inbound, outbox, filter, lastFilter, lastCount, count, jobs, healthVars,
                   stop, sent>>

\* Mutant of Remembered: the count is read again after the filter was compiled.
RememberedAgain(i) == Len(inbound[i])

(* What last_inbound_count becomes.                                        *)
Remembered(i) == count[i]

Apply(i) ==
    /\ pc[i] = "apply"
    /\ \/ /\ IF compiled[i] = lastFilter[i] THEN UNCHANGED filter
             ELSE ApplyFilter(i, compiled[i])
          /\ lastFilter' = [lastFilter EXCEPT ![i] = compiled[i]]
          /\ lastCount' = [lastCount EXCEPT ![i] = Remembered(i)]
          /\ Goto(i, "drain")
       \/ /\ compiled[i] # lastFilter[i]
          /\ Goto(i, "ended")
          /\ UNCHANGED <<filter, lastFilter, lastCount>>
    /\ UNCHANGED <<inbound, outbox, count, compiled, jobs, healthVars, stop, sent>>

(* collect_outbound_jobs: every pending envelope, under the registry lock. *)
Drain(i) ==
    /\ pc[i] = "drain"
    /\ \/ /\ jobs' = [jobs EXCEPT ![i] = outbox[i]]
          /\ outbox' = [outbox EXCEPT ![i] = <<>>]
          /\ Goto(i, "send")
       \/ Goto(i, "ended") /\ UNCHANGED <<jobs, outbox>>
    /\ UNCHANGED <<inbound, filterVars, healthVars, stop, sent>>

(* A frame the driver does not take ends the task; the jobs are dropped.   *)
FailedSend(i) ==
    /\ Goto(i, "ended")
    /\ jobs' = [jobs EXCEPT ![i] = <<>>]
    /\ UNCHANGED sent

Send(i) ==
    /\ pc[i] = "send"
    /\ \/ /\ jobs[i] = <<>>
          /\ Goto(i, "rx")
          /\ UNCHANGED <<jobs, sent>>
       \/ /\ jobs[i] # <<>>
          /\ sent' = [sent EXCEPT ![i] = Append(@, Head(jobs[i]))]
          /\ jobs' = [jobs EXCEPT ![i] = Tail(@)]
          /\ UNCHANGED pc
       \/ jobs[i] # <<>> /\ FailedSend(i)
    /\ UNCHANGED <<inbound, outbox, filterVars, healthVars, stop>>

(* The tick passes, or a frame that moves no state: data that is demuxed,  *)
(* a remote frame, an error of class ArbitrationLost or Other.  A failed   *)
(* publish or receive ends the task and leaves its health as it is.        *)
Receive(i) ==
    /\ pc[i] = "rx"
    /\ \/ Goto(i, "top")
       \/ Goto(i, "ended")
    /\ UNCHANGED <<inbound, outbox, filterVars, jobs, healthVars, stop, sent>>

(* classify_error: a warning, error passive or bus-off; a closed socket.   *)
ReceiveError(i) ==
    /\ pc[i] = "rx"
    /\ \/ SetIface(i, "Degraded") /\ Goto(i, "top")
       \/ SetIface(i, "Down") /\ Goto(i, "busoff")
       \/ SetIface(i, "Down") /\ Goto(i, "closed")
    /\ UNCHANGED <<inbound, outbox, filterVars, jobs, stop, sent>>

GiveUp == stop

(* reconnect_until_open, the head of the loop: stopped, or the policy's    *)
(* delay begins.                                                           *)
Retry(i) ==
    /\ pc[i] = "closed"
    /\ Goto(i, IF GiveUp THEN "ended" ELSE "delay")
    /\ UNCHANGED <<inbound, outbox, filterVars, jobs, healthVars, stop, sent>>

(* After the delay: one attempt after a bus-off, without a filter;         *)
(* attempts until stopped after a close.                                   *)
Reopen(i) ==
    /\ \/ /\ pc[i] \in {"busoff", "delay"}
          /\ ApplyFilter(i, Ids)
          /\ Goto(i, IF pc[i] = "busoff" THEN "connecting" ELSE "reopened")
       \/ /\ pc[i] \in {"busoff", "delay"}
          /\ Goto(i, IF pc[i] = "busoff" THEN "ended" ELSE "closed")
          /\ UNCHANGED filter
    /\ UNCHANGED <<inbound, outbox, lastFilter, lastCount, count, compiled, jobs, healthVars,
                   stop, sent>>

(* The closed path compiles the filter again; a failure to apply it is     *)
(* ignored, last_filter is set all the same.                               *)
Reapply(i) ==
    /\ pc[i] = "reopened"
    /\ ApplyFilter(i, Wanted(i)) \/ UNCHANGED filter
    /\ lastFilter' = [lastFilter EXCEPT ![i] = Wanted(i)]
    /\ Goto(i, "connecting")
    /\ UNCHANGED <<inbound, outbox, lastCount, count, compiled, jobs, healthVars, stop, sent>>

\* Mutant of Reconnecting: the interface goes from Down to Up directly.
ReconnectingDirect(i) ==
    /\ pc[i] = "connecting"
    /\ Goto(i, "up")
    /\ UNCHANGED <<inbound, outbox, filterVars, jobs, healthVars, stop, sent>>

Reconnecting(i) ==
    /\ pc[i] = "connecting"
    /\ SetIface(i, "Connecting")
    /\ Goto(i, "up")
    /\ UNCHANGED <<inbound, outbox, filterVars, jobs, stop, sent>>

Reconnected(i) ==
    /\ pc[i] = "up"
    /\ SetIface(i, "Up")
    /\ Goto(i, "top")
    /\ UNCHANGED <<inbound, outbox, filterVars, jobs, stop, sent>>

-----------------------------------------------------------------------------
Task(i) ==
    \/ CompileInitial(i) \/ BringUp(i)
    \/ Top(i) \/ Recompile(i) \/ Apply(i) \/ Drain(i) \/ Send(i)
    \/ Receive(i) \/ ReceiveError(i)
    \/ Retry(i) \/ Reopen(i) \/ Reapply(i) \/ Reconnecting(i) \/ Reconnected(i)

Ended == (\A i \in Ifaces : pc[i] = "ended") /\ UNCHANGED vars

Next ==
    \/ RegisterWith \/ StopDispatchers
    \/ \E i \in Ifaces, id \in Ids : CreateReader(i, id)
    \/ \E i \in Ifaces : WriterSend(i)
    \/ \E i \in Ifaces : Task(i)
    \/ Ended

(* The runtime polls every task: each await has a deadline (the tick, the  *)
(* policy's delay) or is a driver call that returns.                       *)
Spec == Init /\ [][Next]_vars /\ \A i \in Ifaces : WF_vars(Task(i))

-----------------------------------------------------------------------------
(* Types: the counts a task remembers are counts the registry has had, and *)
(* an envelope is in one place at a time.                                  *)
TypeOK ==
    /\ pc \in [Ifaces -> Steps]
    /\ \A i \in Ifaces :
         /\ Len(inbound[i]) <= MaxChannels[i] /\ Wanted(i) \subseteq Ids
         /\ lastCount[i] \in 0..Len(inbound[i]) /\ count[i] \in 0..Len(inbound[i])
         /\ filter[i] \cup lastFilter[i] \cup compiled[i] \subseteq Ids
         /\ Written(i) <= MaxSends[i]
    /\ kind \in [Ifaces -> Kinds]
    /\ agg \in Kinds
    /\ stop \in BOOLEAN

(* health.rs "should not happen under correct dispatcher operation": the   *)
(* reported health is the aggregate of the interfaces (REQ_0630) although  *)
(* an illegal transition of the monitor is ignored by every caller, with   *)
(* one exception.  The monitor has no way from Up to Connecting, so Up is  *)
(* reported while the only interface that was up is down and another one   *)
(* is being brought up, whose task then corrects it.                       *)
AggregateTruthful ==
    \/ agg = Aggregate(kind)
    \/ /\ agg = "Up" /\ Aggregate(kind) = "Connecting"
       /\ \E i \in Ifaces : kind[i] = "Connecting" /\ pc[i] \in {"start", "bringup", "up"}

(* dispatcher_loop recompiles the filter only when the number of inbound   *)
(* channels has changed: when it has not, every channel passes the filter  *)
(* the driver has, whenever channels are created and sockets reopened.     *)
FilterCurrent ==
    \A i \in Ifaces :
        pc[i] \in {"send", "rx"} /\ lastCount[i] = Len(inbound[i]) => Wanted(i) \subseteq filter[i]

(* Every envelope is sent once and in order (drain_outbound_once), over    *)
(* all bus-offs and reconnects, as long as the task runs.                  *)
SentInOrder ==
    \A i \in Ifaces : pc[i] # "ended" => sent[i] \o jobs[i] \o outbox[i] = Numbers(Written(i))

(* A task serves its channels and its queue whatever happens to its bus.   *)
CanServed == FilterCurrent /\ SentInOrder

Stopping == stop /\ \A i \in Ifaces : pc[i] # "new"
AllEnded == \A i \in Ifaces : pc[i] = "ended"

(* Every task ends after stop_dispatchers, whatever it is waiting for.     *)
StopEnds == Stopping ~> AllEnded

(* A channel created while the task runs is let through by the driver's    *)
(* filter in the end, unless the task ends or its socket stays closed.     *)
ChannelsServed ==
    \A i \in Ifaces :
        []<>(pc[i] \in {"new", "ended", "closed", "delay"} \/ Wanted(i) \subseteq filter[i])
=============================================================================
