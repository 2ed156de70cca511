-------------------------------- MODULE DltLog --------------------------------
(***************************************************************************)
(* The DLT log backend (crates/taktora-log-dlt/src/{backend,flusher,ring,  *)
(* level_table,control,transport}.rs): producers hand encoded records to a *)
(* flusher thread through a bounded channel and, when that is full, to the *)
(* bounded ring the flusher drains when it reconnects to the daemon.       *)
(*                                                                         *)
(* A record is its number in the order of emission; its encoding, context  *)
(* and arguments are left out.  A write the kernel accepts may still be    *)
(* lost with the connection, which the flusher cannot tell.                *)
(***************************************************************************)
EXTENDS Naturals, Sequences, FiniteSets, SequencesExt

CONSTANTS
    Producers,
    QueueCap,          \* PRODUCER_QUEUE_CAP
    RingCap,           \* OfflineRing.capacity
    InitialBackoff, MaxBackoff,
    MaxRecords, MaxBreaks, MaxControls

VARIABLES
    queue,             \* the channel to the flusher
    ring, drops,       \* OfflineRing
    prod,              \* per producer, the record try_send gave back, or 0
    flusher,           \* pc, iter, backoff and transport of `run`
    daemon,            \* is the daemon listening?
    owner,             \* of the backend: "open", "stopped" or "gone"
    level,             \* LevelTable.default: 0 for Error only, 1 for Info too
    written,           \* the records the kernel accepted, in order
    dropped,           \* history: the records the ring evicted
    missed,            \* .. after the count was read and before it was reset
    reported,          \* the sum of the counts in the summaries written
    steps              \* records emitted, breaks, control messages

logVars == <<written, dropped, missed, reported>>
vars == <<queue, ring, drops, prod, flusher, daemon, owner, level, logVars, steps>>

(* DltBackendBuilder::build and spawn_flusher. *)
Init ==
    /\ queue = <<>> /\ ring = <<>> /\ drops = 0
    /\ prod = [p \in Producers |-> 0]
    /\ flusher = [pc |-> "top", iter |-> <<>>, backoff |-> InitialBackoff, transport |-> "none"]
    /\ daemon \in BOOLEAN
    /\ owner = "open"
    /\ level = 1
    /\ written = <<>> /\ dropped = {} /\ missed = 0 /\ reported = 0
    /\ steps = [records |-> 0, breaks |-> 0, controls |-> 0]

-----------------------------------------------------------------------------
(* OfflineRing::push: the oldest record makes room and is counted. *)
push(record) ==
    IF Len(ring) = RingCap
    THEN /\ ring' = Append(Tail(ring), record)
         /\ drops' = drops + 1
         /\ dropped' = dropped \cup {Head(ring)}
         /\ missed' = IF flusher.pc = "drain" THEN missed + 1 ELSE missed
    ELSE /\ ring' = Append(ring, record)
         /\ UNCHANGED <<drops, dropped, missed>>

(* OfflineRing::drain_all *)
drain_all == ring' = <<>> /\ drops' = 0

(* LevelTable::current, for a context without a level of its own. *)
enabled(l) == l <= level

-----------------------------------------------------------------------------
(* DltBackend::emit: try_send .. *)
emit(p) ==
    /\ owner # "gone" /\ prod[p] = 0 /\ steps.records < MaxRecords
    /\ \E l \in 0..2 : enabled(l)
    /\ LET record == steps.records + 1
           sent == Len(queue) < QueueCap /\ flusher.pc # "exited"
       IN  /\ queue' = IF sent THEN Append(queue, record) ELSE queue
           /\ prod' = [prod EXCEPT ![p] = IF sent THEN 0 ELSE record]
    /\ steps' = [steps EXCEPT !.records = @ + 1]
    /\ UNCHANGED <<ring, drops, flusher, daemon, owner, level, logVars>>

(* .. and the ring takes what the channel gave back. *)
Overflow(p) ==
    /\ prod[p] # 0
    /\ push(prod[p])
    /\ prod' = [prod EXCEPT ![p] = 0]
    /\ UNCHANGED <<queue, flusher, daemon, owner, level, written, reported, steps>>

-----------------------------------------------------------------------------
At(pc) == flusher.pc = pc

Go(pc) == flusher' = [flusher EXCEPT !.pc = pc]

Grown == IF flusher.backoff * 2 < MaxBackoff THEN flusher.backoff * 2 ELSE MaxBackoff

unseen == <<prod, daemon, owner, level, steps>>

(* Transport::write_all on the connection: it fails only once it is broken *)
(* and may still accept bytes then.                                        *)
Accepts == flusher.transport \in {"open", "broken"}

Refuses == flusher.transport = "broken"

(* The head of the loop. *)
Top ==
    /\ At("top")
    /\ Go(IF owner = "stopped" THEN "exited"
          ELSE IF flusher.transport = "none" THEN "connect" ELSE "recv")
    /\ UNCHANGED <<queue, ring, drops, logVars, unseen>>

(* The connection, or a sleep; without one the channel is not read. *)
try_connect ==
    /\ At("connect")
    /\ flusher' = IF daemon THEN [flusher EXCEPT !.pc = "summary", !.transport = "open"]
                  ELSE [flusher EXCEPT !.pc = "top", !.backoff = Grown]
    /\ UNCHANGED <<queue, ring, drops, logVars, unseen>>

(* The count read here is written as a record of its own; on a failure the *)
(* transport is discarded and the counter kept.                            *)
emit_drop_summary ==
    /\ At("summary")
    /\ \/ /\ drops = 0
          /\ Go("drain") /\ UNCHANGED reported
       \/ /\ drops > 0 /\ Accepts
          /\ Go("drain") /\ reported' = reported + drops
       \/ /\ drops > 0 /\ Refuses
          /\ flusher' = [flusher EXCEPT !.pc = "top", !.transport = "none", !.backoff = Grown]
          /\ UNCHANGED reported
    /\ UNCHANGED <<queue, ring, drops, written, dropped, missed, unseen>>

(* The transport is adopted, the backoff reset, the ring taken .. *)
Drain ==
    /\ At("drain")
    /\ drain_all
    /\ flusher' = [flusher EXCEPT !.pc = "write", !.iter = ring, !.backoff = InitialBackoff]
    /\ UNCHANGED <<queue, logVars, unseen>>

(* Mutant of drain_ring_into_transport: the record whose write failed is   *)
(* not put back.                                                           *)
drain_ring_into_transportLossy ==
    /\ At("write")
    /\ \/ /\ flusher.iter # <<>> /\ Accepts
          /\ written' = Append(written, Head(flusher.iter))
          /\ flusher' = [flusher EXCEPT !.iter = Tail(@)]
       \/ /\ flusher.iter # <<>> /\ Refuses
          /\ flusher' = [flusher EXCEPT !.pc = "rebuffer", !.iter = Tail(@)]
          /\ UNCHANGED written
       \/ /\ flusher.iter = <<>>
          /\ Go("recv") /\ UNCHANGED written
    /\ UNCHANGED <<queue, ring, drops, dropped, missed, reported, unseen>>

(* .. and written record by record. *)
drain_ring_into_transport ==
    /\ At("write")
    /\ \/ /\ flusher.iter # <<>> /\ Accepts
          /\ written' = Append(written, Head(flusher.iter))
          /\ flusher' = [flusher EXCEPT !.iter = Tail(@)]
       \/ /\ flusher.iter # <<>> /\ Refuses
          /\ Go("rebuffer") /\ UNCHANGED written
       \/ /\ flusher.iter = <<>>
          /\ Go("recv") /\ UNCHANGED written
    /\ UNCHANGED <<queue, ring, drops, dropped, missed, reported, unseen>>

(* The record whose write failed and the rest go back to the ring, behind  *)
(* what producers pushed meanwhile.                                        *)
Rebuffer ==
    /\ At("rebuffer")
    /\ IF flusher.iter # <<>>
       THEN /\ push(Head(flusher.iter))
            /\ flusher' = [flusher EXCEPT !.iter = Tail(@)]
       ELSE /\ flusher' = [flusher EXCEPT !.pc = "recv", !.transport = "none"]
            /\ UNCHANGED <<ring, drops, dropped, missed>>
    /\ UNCHANGED <<queue, written, reported, unseen>>

(* One record of the channel: written, or buffered. *)
handle_channel_bytes ==
    /\ At("recv") /\ queue # <<>>
    /\ queue' = Tail(queue)
    /\ \/ /\ Accepts
          /\ written' = Append(written, Head(queue))
          /\ Go("top") /\ UNCHANGED <<ring, drops, dropped, missed>>
       \/ /\ Refuses \/ flusher.transport = "none"
          /\ push(Head(queue))
          /\ flusher' = [flusher EXCEPT !.pc = "top", !.transport = "none"]
          /\ UNCHANGED written
    /\ UNCHANGED <<reported, unseen>>

(* The channel stays empty: the read side is polled, which tells of a      *)
(* closed connection and delivers control messages.  The sender is gone    *)
(* once the backend is dropped.                                            *)
handle_idle ==
    /\ At("recv") /\ queue = <<>>
    /\ \/ /\ owner = "gone" /\ Go("exited") /\ UNCHANGED <<level, steps>>
       \/ /\ owner # "gone"
          /\ flusher' = [flusher EXCEPT !.pc = "top",
                                        !.transport = IF @ = "broken" THEN "none" ELSE @]
          /\ \/ UNCHANGED <<level, steps>>
             \/ /\ flusher.transport = "open" /\ steps.controls < MaxControls
                /\ level' \in {0, 1}
                /\ steps' = [steps EXCEPT !.controls = @ + 1]
    /\ UNCHANGED <<queue, ring, drops, logVars, prod, daemon, owner>>

-----------------------------------------------------------------------------
(* FlusherHandle::shutdown, or the backend is dropped without it. *)
Shutdown ==
    /\ owner = "open" /\ \A p \in Producers : prod[p] = 0
    /\ owner' \in {"stopped", "gone"}
    /\ UNCHANGED <<queue, ring, drops, prod, flusher, daemon, level, logVars, steps>>

(* The daemon goes away with its connections, and comes back. *)
Break ==
    /\ steps.breaks < MaxBreaks
    /\ daemon' = ~daemon
    /\ flusher' = [flusher EXCEPT !.transport = IF daemon /\ @ = "open" THEN "broken" ELSE @]
    /\ steps' = [steps EXCEPT !.breaks = @ + 1]
    /\ UNCHANGED <<queue, ring, drops, prod, owner, level, logVars>>

Flush ==
    \/ Top \/ try_connect \/ emit_drop_summary \/ Drain \/ drain_ring_into_transport
    \/ Rebuffer \/ handle_channel_bytes \/ handle_idle

Next ==
    \/ \E p \in Producers : emit(p) \/ Overflow(p)
    \/ Flush
    \/ Shutdown
    \/ Break

Spec == Init /\ [][Next]_vars /\ WF_vars(Flush)

-----------------------------------------------------------------------------
Emitted == 1..steps.records

Held ==
    ToSet(queue) \cup ToSet(ring) \cup ToSet(flusher.iter)
        \cup {prod[p] : p \in {q \in Producers : prod[q] # 0}}

(* Every record emitted is written once, evicted from the ring, or still   *)
(* held, whatever connection broke in the middle of a drain                *)
(* (drain_ring_into_transport, TEST_0814 "no silent loss of un-sent        *)
(* records").  Every eviction is in one summary written or in the counter  *)
(* of the next, except one that falls between the summary, which reads the *)
(* counter, and drain_all, which resets it.                                *)
NothingLost ==
    /\ Emitted = ToSet(written) \cup dropped \cup Held
    /\ Len(written) + Cardinality(dropped) + Cardinality(Held) = steps.records
    /\ Cardinality(dropped) = reported + missed + (IF At("drain") THEN 0 ELSE drops)

(* Every eviction is in a summary already written or in the counter of the *)
(* next one (REQ_0815).                                                    *)
DropsReported == ~ At("drain") => Cardinality(dropped) = reported + drops

(* A shutdown ends the flusher, with or without a daemon, as long as the   *)
(* writes return: FlusherHandle::shutdown waits for it.                    *)
ShutDown == owner = "stopped"
Exited == At("exited")

==============================================================================
