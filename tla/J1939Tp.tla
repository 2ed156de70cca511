------------------------------ MODULE J1939Tp ------------------------------
(***************************************************************************)
(* The J1939 transport-protocol engines (tp.rs) of the nodes of one CAN    *)
(* bus, stepped by their interface dispatchers (dispatcher.rs): broadcast  *)
(* announce (BAM), connection mode (RTS/CTS) and the extended protocol     *)
(* (ETP), inbound and outbound.                                            *)
(*                                                                         *)
(* Sizes are counted in packets of seven bytes, of which the last is not   *)
(* full.  Packet i of message m is the pair <<m, i>>, so that a            *)
(* reassembled payload tells which messages it was made of.  The three     *)
(* inbound tables of an engine are one partial function, keyed by          *)
(* protocol, peer and transported PGN; so are the two outbound ones.       *)
(* The age of a session (now - last_activity) is `idle`, counted up to the *)
(* longest timer plus one.                                                 *)
(*                                                                         *)
(* The bus delivers the frames of a node in the order of their sending; a  *)
(* receiver may lose a frame (an overrun of its receive queue).            *)
(***************************************************************************)
EXTENDS Naturals, Sequences, FiniteSets, Functions

CONSTANTS
    Nodes,           \* addresses on the bus
    Global,          \* the global address, 0xFF
    Configurations,  \* the instances to check
    MinTp,           \* packets of the smallest multi-packet message
    MaxTp,           \* packets of the largest connection-mode message
    MaxEtp,          \* max_etp_bytes of each node, in packets
    CtsWindow,       \* cts_window
    NoLimit,         \* CTS_NO_LIMIT
    T1, T2, T3       \* the timers, in ticks

Protos == {"bam", "tp", "etp"}

(* What a configuration fixes: the protocols, PGNs and sizes in use, the   *)
(* per-burst limits senders announce, max_sessions, the frames a receiver  *)
(* may lose, the nodes that send, and the bound on the messages sent.      *)
IsConfiguration(c) ==
    /\ DOMAIN c = {"protos", "pgns", "sizes", "limits", "sessions", "loss", "senders",
                 "transfers"}
    /\ c.protos \subseteq Protos /\ c.sizes \subseteq Nat /\ c.sessions \in Nat \ {0}
    /\ c.limits \subseteq Nat \cup {NoLimit}
    /\ c.loss \in {"none", "data", "any"} /\ c.senders \subseteq Nodes
    /\ c.transfers \in Nat

ASSUME Timers == /\ T1 \in Nat /\ T2 \in Nat /\ T3 \in Nat
                 /\ MinTp \in Nat \ {0} /\ MaxTp \in Nat /\ CtsWindow \in Nat \ {0}
                 /\ MaxEtp \in [Nodes -> Nat]
ASSUME Instances == \A c \in Configurations : IsConfiguration(c)

VARIABLES
    conf,      \* the configuration of this behaviour
    rx,        \* sessions, rx_conn and etp_rx of each engine
    tx,        \* tx_conn and etp_tx of each engine
    inbox,     \* frames on their way to each node
    dead,      \* nodes whose dispatcher task has panicked
    msgs,      \* history: the messages sent
    got,       \* history: how often each message was published by its receiver
    mixed,     \* history: a published payload is not one whole message
    acked,     \* history: messages whose sender saw an EndOfMsgAck
    failed     \* history: messages whose sender saw an abort or a timeout

vars == <<conf, rx, tx, inbox, dead, msgs, got, mixed, acked, failed>>

MinOf(a, b) == IF a <= b THEN a ELSE b
MaxOf(a, b) == IF a >= b THEN a ELSE b
MaxIdle == MaxOf(T1, MaxOf(T2, T3)) + 1

Put(f, k, v) == [x \in DOMAIN f \cup {k} |-> IF x = k THEN v ELSE f[x]]
Drop(f, k) == Restrict(f, DOMAIN f \ {k})

---------------------------------------------------------------------------
(* Frames.  `p` says on which pair of wire PGNs a frame travels: ETP has   *)
(* its own, BAM shares the ones of connection mode and is told apart by    *)
(* its control byte and the global destination.                            *)

Bam(src, pgn, size) == [t |-> "bam", p |-> "bam", src |-> src, dst |-> Global, pgn |-> pgn,
                        size |-> size]
Rts(p, src, dst, pgn, size, limit) ==
    [t |-> "rts", p |-> p, src |-> src, dst |-> dst, pgn |-> pgn, size |-> size, limit |-> limit]
Cts(p, src, dst, pgn, num, next) ==
    [t |-> "cts", p |-> p, src |-> src, dst |-> dst, pgn |-> pgn, num |-> num, next |-> next]
Dpo(src, dst, pgn, num, offset) ==
    [t |-> "dpo", p |-> "etp", src |-> src, dst |-> dst, pgn |-> pgn, num |-> num,
     offset |-> offset]
Dt(p, src, dst, seq, data) ==
    [t |-> "dt", p |-> p, src |-> src, dst |-> dst, seq |-> seq, data |-> data]
Eoma(p, src, dst, pgn) == [t |-> "eoma", p |-> p, src |-> src, dst |-> dst, pgn |-> pgn]
Abort(p, src, dst, pgn) == [t |-> "abort", p |-> p, src |-> src, dst |-> dst, pgn |-> pgn]

(* The packets number first to last of message m, numbered on the wire     *)
(* from seq0.                                                              *)
Packets(p, src, dst, m, first, last, seq0) ==
    [i \in 1..(last + 1 - first) |-> Dt(p, src, dst, seq0 + i - 1, <<m, first + i - 1>>)]

---------------------------------------------------------------------------
(* What handling a frame leaves behind: the tables, pending_out, the       *)
(* published payloads and what the sender learns of its messages.          *)
Engine(n) == [rx |-> rx[n], tx |-> tx[n], out |-> <<>>, done |-> {}, acked |-> {},
              failed |-> {}, panic |-> FALSE]

GrantWindow(remaining, limit) ==
    LET ours == MinOf(remaining, CtsWindow)
    IN  MaxOf(1, IF limit = NoLimit THEN ours ELSE MinOf(ours, MaxOf(1, limit)))

EtpGrant(remaining) == MaxOf(1, MinOf(remaining, CtsWindow))

Session(f, window, limit) ==
    [us |-> f.dst, size |-> f.size, next |-> 1, window |-> window, offset |-> 0,
     limit |-> limit, buf |-> <<>>, idle |-> 0]

FullOwnTable(n, key) ==
    /\ key \notin DOMAIN rx[n]
    /\ Cardinality({k \in DOMAIN rx[n] : k[1] = key[1]}) >= conf.sessions

(* A new session is refused past the cap; an announce for a key that is    *)
(* open restarts its session in place.                                     *)
Full(n, key) ==
    /\ key \notin DOMAIN rx[n]
    /\ Cardinality(DOMAIN rx[n]) >= conf.sessions

OnBamCm(n, f) ==
    LET key == <<"bam", f.src, f.pgn>> IN
    IF f.size \notin MinTp..MaxTp \/ Full(n, key)
    THEN {Engine(n)}
    ELSE {[Engine(n) EXCEPT !.rx = Put(@, key, Session(f, 0, NoLimit))]}

OnRts(n, f) ==
    LET key == <<"tp", f.src, f.pgn>>
        window == GrantWindow(f.size, f.limit)
    IN  IF f.size \notin MinTp..MaxTp THEN {Engine(n)}
        ELSE IF Full(n, key)
        THEN {[Engine(n) EXCEPT !.out = <<Abort("tp", f.dst, f.src, f.pgn)>>]}
        ELSE {[Engine(n) EXCEPT !.rx = Put(@, key, Session(f, window, f.limit)),
                                !.out = <<Cts("tp", f.dst, f.src, f.pgn, window, 1)>>]}

(* The size cap is enforced before a buffer exists.  The first burst has   *)
(* no window until its ETP.DPO arrives.                                    *)
OnEtpRts(n, f) ==
    LET key == <<"etp", f.src, f.pgn>> IN
    IF f.size <= MaxTp THEN {Engine(n)}
    ELSE IF f.size > MaxEtp[n] \/ Full(n, key)
    THEN {[Engine(n) EXCEPT !.out = <<Abort("etp", f.dst, f.src, f.pgn)>>]}
    ELSE {[Engine(n) EXCEPT !.rx = Put(@, key, Session(f, 0, NoLimit)),
                            !.out = <<Cts("etp", f.dst, f.src, f.pgn, EtpGrant(f.size), 1)>>]}

OnDpo(n, f) ==
    LET key == <<"etp", f.src, f.pgn>> IN
    IF key \notin DOMAIN rx[n] THEN {Engine(n)}
    ELSE {[Engine(n) EXCEPT !.rx[key].offset = f.offset, !.rx[key].window = f.num,
                            !.rx[key].idle = 0]}

(* Only the packet that is due is taken; all others are dropped.           *)
Accepts(s, f) == s.offset + f.seq = s.next

Completes(s) == s.next > s.size

(* The packet the next grant asks for.                                     *)
Requested(s) == s.next

(* The session with the packet of f stored.                                *)
Taken(s, f) == [s EXCEPT !.buf = Append(@, f.data), !.next = @ + 1, !.idle = 0,
                         !.window = IF @ = 0 THEN 0 ELSE @ - 1]

Left(s) == s.size - (s.next - 1)

Finished(n, key, s) ==
    [Engine(n) EXCEPT !.rx = Drop(@, key), !.done = {[key |-> key, buf |-> s.buf]}]

OnBamDt(n, f, key) ==
    LET s == Taken(rx[n][key], f)
    IN  CASE ~ Accepts(rx[n][key], f) -> Engine(n)
          [] Accepts(rx[n][key], f) /\ Completes(s) -> Finished(n, key, s)
          [] OTHER -> [Engine(n) EXCEPT !.rx[key] = s]

OnConnDt(n, f, key) ==
    LET s == Taken(rx[n][key], f)
        window == GrantWindow(Left(s), s.limit)
    IN  CASE ~ Accepts(rx[n][key], f) -> Engine(n)
          [] Accepts(rx[n][key], f) /\ Completes(s) ->
               [Finished(n, key, s) EXCEPT !.out = <<Eoma("tp", s.us, f.src, key[3])>>]
          [] Accepts(rx[n][key], f) /\ ~ Completes(s) /\ s.window > 0 ->
               [Engine(n) EXCEPT !.rx[key] = s]
          [] OTHER ->
               [Engine(n) EXCEPT
                  !.rx[key] = [s EXCEPT !.window = window],
                  !.out = <<Cts("tp", s.us, f.src, key[3], window, Requested(s))>>]

(* The window of the next burst is set by its ETP.DPO.                     *)
OnEtpDt(n, f, key) ==
    LET s == Taken(rx[n][key], f)
    IN  CASE ~ Accepts(rx[n][key], f) -> Engine(n)
          [] Accepts(rx[n][key], f) /\ Completes(s) ->
               [Finished(n, key, s) EXCEPT !.out = <<Eoma("etp", s.us, f.src, key[3])>>]
          [] Accepts(rx[n][key], f) /\ ~ Completes(s) /\ s.window > 0 ->
               [Engine(n) EXCEPT !.rx[key] = s]
          [] OTHER ->
               [Engine(n) EXCEPT
                  !.rx[key] = s,
                  !.out = <<Cts("etp", s.us, f.src, key[3], EtpGrant(Left(s)), Requested(s))>>]

(* A data frame names no PGN: the session is any one of its sender, in the *)
(* order of the hash map.                                                  *)
OnDt(n, f) ==
    LET keys == {k \in DOMAIN rx[n] : k[1] = f.p /\ k[2] = f.src}
    IN  CASE keys = {} -> {Engine(n)}
          [] keys # {} /\ f.p = "bam" -> {OnBamDt(n, f, k) : k \in keys}
          [] keys # {} /\ f.p = "tp" -> {OnConnDt(n, f, k) : k \in keys}
          [] OTHER -> {OnEtpDt(n, f, k) : k \in keys}

BurstUnlimited(s, next, num) == s.size

(* The last packet of a burst: sequence numbers past the end are skipped.  *)
Burst(s, next, num) == MinOf(next + num - 1, s.size)

DtBurst(n, f, s) ==
    IF f.next > s.size THEN <<>>
    ELSE Packets("tp", n, f.src, s.msg, f.next, Burst(s, f.next, f.num), f.next)

EtpBurst(n, f, s) ==
    LET last == Burst(s, f.next, f.num)
    IN  <<Dpo(n, f.src, f.pgn, last + 1 - f.next, f.next - 1)>>
        \o Packets("etp", n, f.src, s.msg, f.next, last, 1)

(* A grant of nothing only holds the sender's timer.                       *)
OnCts(n, f) ==
    LET key == <<"tp", f.src, f.pgn>> IN
    IF key \notin DOMAIN tx[n] THEN {Engine(n)}
    ELSE {[Engine(n) EXCEPT !.tx[key].idle = 0,
                            !.out = IF f.num = 0 THEN <<>> ELSE DtBurst(n, f, tx[n][key])]}

(* An ETP burst has at least one packet, even when the one asked for lies  *)
(* past the end of the payload: slicing the payload then panics.           *)
OnEtpCts(n, f) ==
    LET key == <<"etp", f.src, f.pgn>> IN
    IF key \notin DOMAIN tx[n] THEN {Engine(n)}
    ELSE LET s == tx[n][key]
             past == f.next > s.size
         IN  {[Engine(n) EXCEPT !.tx[key].idle = 0,
                                !.panic = f.num # 0 /\ past,
                                !.out = IF f.num = 0 \/ past THEN <<>> ELSE EtpBurst(n, f, s)]}

OnEoma(n, f) ==
    LET key == <<f.p, f.src, f.pgn>> IN
    IF key \notin DOMAIN tx[n] THEN {Engine(n)}
    ELSE {[Engine(n) EXCEPT !.tx = Drop(@, key), !.acked = {tx[n][key].msg}]}

(* An abort ends the sessions of its key in both directions.               *)
OnAbort(n, f) ==
    LET key == <<f.p, f.src, f.pgn>> IN
    {[Engine(n) EXCEPT !.rx = Drop(@, key), !.tx = Drop(@, key),
                       !.failed = {tx[n][k].msg : k \in {key} \cap DOMAIN tx[n]}]}

(* An unknown control byte is ignored.                                     *)
OnFrame(n, f) ==
    CASE f.t = "bam" -> OnBamCm(n, f)
      [] f.t = "rts" /\ f.p = "tp" -> OnRts(n, f)
      [] f.t = "rts" /\ f.p = "etp" -> OnEtpRts(n, f)
      [] f.t = "dpo" -> OnDpo(n, f)
      [] f.t = "dt" -> OnDt(n, f)
      [] f.t = "cts" /\ f.p = "tp" -> OnCts(n, f)
      [] f.t = "cts" /\ f.p = "etp" -> OnEtpCts(n, f)
      [] f.t = "eoma" -> OnEoma(n, f)
      [] f.t = "abort" -> OnAbort(n, f)
      [] OTHER -> {Engine(n)}

ExpiredRx(r) == {k \in DOMAIN r.rx : r.rx[k].idle > (IF k[1] = "bam" THEN T1 ELSE T2)}

ExpiredTx(r) == {k \in DOMAIN r.tx : r.tx[k].idle > T3}

(* The members of a set in some order, each once: the order of a hash map. *)
SetToSeq(S) == CHOOSE f \in [1..Cardinality(S) -> S] : IsInjective(f)

(* A broadcast that expires has no peer to tell; a connection has.         *)
PollTimeouts(n, r) ==
    LET rxAborts == {Abort(k[1], r.rx[k].us, k[2], k[3]) : k \in
                       {x \in ExpiredRx(r) : x[1] # "bam"}}
        txAborts == {Abort(k[1], n, k[2], k[3]) : k \in ExpiredTx(r)}
    IN  [r EXCEPT !.rx = Restrict(@, DOMAIN @ \ ExpiredRx(r)),
                  !.tx = Restrict(@, DOMAIN @ \ ExpiredTx(r)),
                  !.out = @ \o SetToSeq(rxAborts) \o SetToSeq(txAborts),
                  !.failed = @ \cup {r.tx[k].msg : k \in ExpiredTx(r)}]

---------------------------------------------------------------------------
(* Message m, as its receiver should publish it.                           *)
Whole(m) == [i \in 1..msgs[m].size |-> <<m, i>>]

Published(n, d) ==
    {m \in DOMAIN msgs : /\ d.buf = Whole(m) /\ msgs[m].to \in {n, Global}
                         /\ d.key = <<msgs[m].p, msgs[m].from, msgs[m].pgn>>}

(* Every other node hears a frame, whatever its destination: an engine     *)
(* does not know its own address and answers in the name of the address it *)
(* was asked under.                                                        *)
Transmit(n, queues, frames) ==
    [k \in Nodes |-> IF k = n THEN queues[k] ELSE queues[k] \o frames]

(* The end of an iteration: tables, transmissions and what was observed.   *)
Commit(n, r, queues) ==
    /\ rx' = [rx EXCEPT ![n] = r.rx]
    /\ tx' = [tx EXCEPT ![n] = r.tx]
    /\ dead' = IF r.panic THEN dead \cup {n} ELSE dead
    /\ inbox' = Transmit(n, queues, r.out)
    /\ got' = [m \in DOMAIN msgs |->
                 got[m] + Cardinality({d \in r.done : m \in Published(n, d)})]
    /\ mixed' = (mixed \/ \E d \in r.done : Published(n, d) = {})
    /\ acked' = acked \cup r.acked
    /\ failed' = failed \cup r.failed
    /\ UNCHANGED <<conf, msgs>>

Empty == [k \in {} |-> {}]

Init ==
    /\ conf \in Configurations
    /\ rx = [n \in Nodes |-> Empty]
    /\ tx = [n \in Nodes |-> Empty]
    /\ inbox = [n \in Nodes |-> <<>>]
    /\ dead = {}
    /\ msgs = <<>>
    /\ got = <<>>
    /\ mixed = FALSE
    /\ acked = {}
    /\ failed = {}

NewMessage(p, from, to, pgn, size) ==
    /\ Len(msgs) < conf.transfers
    /\ p \in conf.protos /\ from \in conf.senders \ dead
    /\ pgn \in conf.pgns /\ size \in conf.sizes
    /\ msgs' = Append(msgs, [p |-> p, from |-> from, to |-> to, pgn |-> pgn, size |-> size])
    /\ got' = Append(got, 0)

(* collect_outbound_jobs and segment_outbound: a queued message of a TP    *)
(* channel goes out whole, the announce and its packets back to back.      *)
SegmentOutbound(n, pgn, size) ==
    /\ size \in MinTp..MaxTp
    /\ NewMessage("bam", n, Global, pgn, size)
    /\ inbox' = Transmit(n, inbox, <<Bam(n, pgn, size)>>
                           \o Packets("bam", n, Global, Len(msgs) + 1, 1, size, 1))
    /\ UNCHANGED <<conf, rx, tx, dead, mixed, acked, failed>>

(* start_outbound_connection and start_outbound_etp.  J1939-21 allows a    *)
(* sender one connection to a destination; the engine leaves that to its   *)
(* caller, and this caller obeys.                                          *)
StartOutbound(n, p, dest, pgn, size, limit) ==
    /\ dest # n
    /\ size \in (IF p = "tp" THEN MinTp..MaxTp ELSE (MaxTp + 1)..MaxEtp[n])
    /\ \A k \in DOMAIN tx[n] : k[1] # p \/ k[2] # dest
    /\ NewMessage(p, n, dest, pgn, size)
    /\ tx' = [tx EXCEPT ![n] = Put(@, <<p, dest, pgn>>,
                                  [msg |-> Len(msgs) + 1, size |-> size, idle |-> 0])]
    /\ inbox' = Transmit(n, inbox, <<Rts(p, n, dest, pgn, size, limit)>>)
    /\ UNCHANGED <<conf, rx, dead, mixed, acked, failed>>

(* dispatch_iteration_inner with a frame: handle it, sweep the timers,     *)
(* transmit what both queued.  A panic ends the task before the sweep.     *)
Receive(n) ==
    /\ n \notin dead /\ inbox[n] # <<>>
    /\ \E r \in OnFrame(n, Head(inbox[n])) :
         Commit(n, IF r.panic THEN r ELSE PollTimeouts(n, r), [inbox EXCEPT ![n] = Tail(@)])

(* ... and without one: the receive timed out.                             *)
Poll(n) ==
    /\ n \notin dead
    /\ ExpiredRx(Engine(n)) \cup ExpiredTx(Engine(n)) # {}
    /\ Commit(n, PollTimeouts(n, Engine(n)), inbox)

(* The environment: a receiver loses a frame; time passes.                 *)
Lose(n) ==
    /\ inbox[n] # <<>>
    /\ \/ conf.loss = "any"
       \/ conf.loss = "data" /\ Head(inbox[n]).t = "dt"
    /\ inbox' = [inbox EXCEPT ![n] = Tail(@)]
    /\ UNCHANGED <<conf, rx, tx, dead, msgs, got, mixed, acked, failed>>

Older(f) == [k \in DOMAIN f |-> [f[k] EXCEPT !.idle = MinOf(@ + 1, MaxIdle)]]

Tick ==
    /\ rx' = [n \in Nodes |-> Older(rx[n])]
    /\ tx' = [n \in Nodes |-> Older(tx[n])]
    /\ UNCHANGED <<conf, inbox, dead, msgs, got, mixed, acked, failed>>

Iterate(n) == Receive(n) \/ Poll(n)

Next ==
    \/ \E n \in Nodes, pgn \in conf.pgns, size \in conf.sizes : SegmentOutbound(n, pgn, size)
    \/ \E n, dest \in Nodes, p \in {"tp", "etp"} :
         \E pgn \in conf.pgns, size \in conf.sizes, limit \in conf.limits :
             StartOutbound(n, p, dest, pgn, size, limit)
    \/ \E n \in Nodes : Iterate(n)
    \/ \E n \in Nodes : Lose(n)
    \/ Tick

(* Each dispatcher task iterates, frames arrive and time goes on; nothing  *)
(* obliges an application to send.                                         *)
Fairness == WF_vars(Tick) /\ \A n \in Nodes : WF_vars(Iterate(n))

Spec == Init /\ [][Next]_vars /\ Fairness

---------------------------------------------------------------------------
InSession(n, k, s) ==
    /\ s.us \in Nodes \cup {Global}
    /\ s.size \in (IF k[1] = "etp" THEN (MaxTp + 1)..MaxEtp[n] ELSE MinTp..MaxTp)
    /\ s.next \in 1..s.size
    /\ Len(s.buf) = s.next - 1
    /\ s.window \in 0..CtsWindow
    /\ s.offset \in 0..s.size
    /\ s.idle \in 0..MaxIdle

(* The state has its type: a reassembly buffer holds exactly the packets   *)
(* before the one that is due, fewer than the size its announce was        *)
(* checked for (on_conn_dt, on_etp_dt, on_bam_dt).                         *)
TypeOK ==
    /\ conf \in Configurations
    /\ \A n \in Nodes : \A k \in DOMAIN rx[n] : InSession(n, k, rx[n][k])
    /\ \A n \in Nodes : \A k \in DOMAIN tx[n] :
         tx[n][k].msg \in DOMAIN msgs /\ tx[n][k].idle \in 0..MaxIdle
    /\ dead \subseteq Nodes
    /\ Len(got) = Len(msgs) /\ Len(msgs) <= conf.transfers
    /\ mixed \in BOOLEAN
    /\ acked \subseteq DOMAIN msgs /\ failed \subseteq DOMAIN msgs

(* A reassembly buffer holds the packets before the one that is due, fewer *)
(* than were announced; of a broadcast or a connection each is at its      *)
(* place, whichever message it came from.                                  *)
Reassembling(n, k, s) ==
    /\ s.size <= (IF k[1] = "etp" THEN MaxEtp[n] ELSE MaxTp)
    /\ s.next \in 1..s.size /\ Len(s.buf) = s.next - 1
    /\ k[1] # "etp" => \A i \in 1..Len(s.buf) : s.buf[i][2] = i

(* The inbound sessions of an interface, over all three protocols          *)
(* together, never exceed max_sessions (total_inbound in on_bam_cm, on_rts *)
(* and on_etp_rts), and no session outgrows the size it was accepted with  *)
(* or stores a packet out of its place, whatever is lost, late or sent     *)
(* again (on_bam_dt, on_conn_dt, on_etp_dt).                               *)
SessionBound ==
    \A n \in Nodes : /\ Cardinality(DOMAIN rx[n]) <= conf.sessions
                     /\ \A k \in DOMAIN rx[n] : Reassembling(n, k, rx[n][k])

(* No node sends more than another one accepts.                            *)
Receivable == \A n \in Nodes, size \in conf.sizes : size <= MaxEtp[n]

(* What a receiver publishes is one whole message of the sender and PGN it *)
(* is published under, once: never the packets of two messages, although   *)
(* data frames name no message (on_bam_dt, on_conn_dt, on_etp_dt), lost    *)
(* packets leave sessions behind, transfers are given up and started again *)
(* and grants arrive late.  It takes that no control frame is lost, that   *)
(* no announce is refused for its size (on_etp_rts then leaves a session   *)
(* of the same key open), and that a sender with several PGNs has lost     *)
(* neither a packet nor a transfer.                                        *)
PayloadIntact ==
    \/ conf.loss = "any"
    \/ ~ Receivable
    \/ Cardinality(conf.pgns) > 1 /\ (conf.loss # "none" \/ failed # {})
    \/ ~ mixed /\ \A m \in DOMAIN msgs : got[m] <= 1

(* "BAM is one active session per source address, so the session is        *)
(* located by source address alone" (on_bam_dt): no published payload is   *)
(* made of the packets of two messages.                                    *)
NeverMixed == ~ mixed

SameKey(k, m) == /\ msgs[k].p = msgs[m].p /\ msgs[k].pgn = msgs[m].pgn
                 /\ msgs[k].from = msgs[m].from /\ msgs[k].to = msgs[m].to

Retried(m) == \E k \in 1..(m - 1) : SameKey(k, m) /\ k \in failed

(* A sender that frees its session on EndOfMsgAck (on_end_of_msg_ack) has  *)
(* had its message published by the receiver, unless it had given up an    *)
(* earlier transfer of the same key, whose acknowledgement may come late.  *)
AckedIsPublished ==
    conf.loss # "any" => \A m \in acked : got[m] = 1 \/ Retried(m)

(* The receiver's flow control is honoured (on_cts, build_dt_burst,        *)
(* build_etp_burst): between two grants at most a window of packets of a   *)
(* connection is under way, as long as no transfer was given up and no     *)
(* control frame was lost (without its ETP.DPO, a burst is granted anew by *)
(* each of its packets).                                                   *)
WindowRespected ==
    \A n \in Nodes : \A p \in {"tp", "etp"} :
        \/ failed # {}
        \/ conf.loss = "any"
        \/ Len(SelectSeq(inbox[n], LAMBDA f : f.t = "dt" /\ f.p = p)) <= CtsWindow

(* What is delivered is what was sent, at the pace the receiver grants.    *)
Delivered == PayloadIntact /\ AckedIsPublished /\ WindowRespected

(* No session is kept for ever: whatever is lost, each inbound and         *)
(* outbound session completes, is aborted or times out (poll_timeouts).    *)
NoSession == \A n \in Nodes \ dead : DOMAIN rx[n] = {} /\ DOMAIN tx[n] = {}

============================================================================
