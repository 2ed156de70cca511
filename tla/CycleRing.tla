------------------------------ MODULE CycleRing ------------------------------
(***************************************************************************)
(* The telemetry exporter (crates/taktora-telemetry-export/src/            *)
(* {ring,writer,observer}.rs): the executor's thread pushes cycle records  *)
(* into an overwriting ring whose slots carry sequence numbers, and a      *)
(* drain thread copies them out and writes them to a sink.  The payload    *)
(* of a slot is written and copied word by word with no synchronisation    *)
(* but the sequence number; a record is its number in every word.          *)
(***************************************************************************)
EXTENDS Naturals, Sequences

CONSTANTS
    Cap,               \* mask + 1
    Words,             \* words of a PodRecord
    MaxPushes

(* What the code requires of the constants. *)
ASSUME CycleAssumption == Cap \in Nat \ {0} /\ MaxPushes \in Nat /\ Words # {}

VARIABLES
    head,
    slot,              \* per slot: seq, writing, rec
    pc, done,          \* the producer: where push is, and the words it wrote
    at, next, loaded,  \* the consumer: where try_recv is, next, the head it loaded
    s1, rec, copied,   \* its first load of the sequence number, the words copied
    stop,              \* the writer's stop flag
    written, lapped,   \* DrainSummary: the records in the sink, and those lost
    refused            \* history: records the sink did not take

producerVars == <<head, slot, pc, done>>
recvVars == <<at, loaded, s1, rec, copied>>
sinkVars == <<next, written, lapped, refused>>
vars == <<producerVars, recvVars, sinkVars, stop>>

Slots == 0..(Cap - 1)

Blank == [k \in Words |-> 0]

(* CycleRing::with_capacity, split, spawn *)
Init ==
    /\ head = 0
    /\ slot = [i \in Slots |-> [seq |-> 0, writing |-> TRUE, rec |-> Blank]]
    /\ pc = "idle" /\ done = {}
    /\ at = "head" /\ next = 0 /\ loaded = 0
    /\ s1 = 0 /\ rec = Blank /\ copied = {}
    /\ stop = FALSE
    /\ written = <<>> /\ lapped = 0 /\ refused = 0

-----------------------------------------------------------------------------
(* The slot of the next push. *)
Current == slot[head % Cap]

Put(s) == slot' = [slot EXCEPT ![head % Cap] = s]

(* Producer::push, from the observer's on_cycle_stats: the marker .. *)
Mark ==
    /\ pc = "idle" /\ ~stop /\ head < MaxPushes
    /\ Put([seq |-> head, writing |-> TRUE, rec |-> Current.rec])
    /\ pc' = "marked" /\ done' = {}
    /\ UNCHANGED <<head, recvVars, sinkVars, stop>>

(* .. the payload, in any order .. *)
WriteWord ==
    /\ pc = "marked"
    /\ \E k \in Words \ done :
          /\ Put([seq |-> Current.seq, writing |-> TRUE, rec |-> [Current.rec EXCEPT ![k] = head]])
          /\ done' = done \cup {k}
    /\ UNCHANGED <<head, pc, recvVars, sinkVars, stop>>

(* Mutant of Seal: the sequence number is published before the payload is  *)
(* complete.                                                               *)
SealEarly ==
    /\ pc = "marked" /\ done # {}
    /\ Put([seq |-> Current.seq, writing |-> FALSE, rec |-> Current.rec])
    /\ pc' = "sealed"
    /\ UNCHANGED <<head, done, recvVars, sinkVars, stop>>

(* .. the sequence number .. *)
Seal ==
    /\ pc = "marked" /\ done = Words
    /\ Put([seq |-> Current.seq, writing |-> FALSE, rec |-> Current.rec])
    /\ pc' = "sealed"
    /\ UNCHANGED <<head, done, recvVars, sinkVars, stop>>

(* .. and the head, last. *)
Publish ==
    /\ pc = "sealed"
    /\ head' = head + 1
    /\ pc' = "idle"
    /\ UNCHANGED <<slot, done, recvVars, sinkVars, stop>>

-----------------------------------------------------------------------------
(* Consumer::try_recv, in the loop of the drain thread. *)
Here == slot[next % Cap]

(* The head is loaded; the thread ends on an empty ring once told to, with *)
(* the summary or with the error of the flush.                             *)
LoadHead ==
    /\ at = "head"
    /\ at' = IF next >= head THEN "empty" ELSE "check"
    /\ loaded' = head
    /\ UNCHANGED <<producerVars, s1, rec, copied, sinkVars, stop>>

Empty ==
    /\ at = "empty"
    /\ IF stop THEN at' \in {"finished", "failed"} ELSE at' = "head"
    /\ UNCHANGED <<producerVars, loaded, s1, rec, copied, sinkVars, stop>>

(* The reader fell behind: it skips to the oldest resident record. *)
Lapped ==
    /\ at = "check" /\ loaded - next > Cap
    /\ next' = loaded - Cap
    /\ lapped' = lapped + (next' - next)
    /\ at' = "head"
    /\ UNCHANGED <<producerVars, loaded, s1, rec, copied, written, refused, stop>>

(* The sequence number before the copy; a slot that is being written or    *)
(* has moved on sends the reader back.                                     *)
LoadFirst ==
    /\ at = "check" /\ loaded - next <= Cap
    /\ IF Here.writing \/ Here.seq # next
       THEN at' = "head" /\ UNCHANGED <<s1, rec, copied>>
       ELSE at' = "copy" /\ s1' = Here.seq /\ rec' = Blank /\ copied' = {}
    /\ UNCHANGED <<producerVars, loaded, sinkVars, stop>>

CopyWord ==
    /\ at = "copy"
    /\ \E k \in Words \ copied :
          /\ rec' = [rec EXCEPT ![k] = Here.rec[k]]
          /\ copied' = copied \cup {k}
    /\ UNCHANGED <<producerVars, at, loaded, s1, sinkVars, stop>>

(* The sequence number after it: the copy is kept or discarded. *)
LoadSecond ==
    /\ at = "copy" /\ copied = Words
    /\ at' = "head"
    /\ IF Here.writing \/ Here.seq # s1
       THEN UNCHANGED sinkVars
       ELSE next' = next + 1 /\ written' = Append(written, rec) /\ UNCHANGED <<lapped, refused>>
    /\ UNCHANGED <<producerVars, loaded, s1, rec, copied, stop>>

(* The sink refuses the record that was kept: the error of write_ndjson    *)
(* ends the thread, and finish returns it in place of the summary.         *)
Refuse ==
    /\ at = "copy" /\ copied = Words /\ ~Here.writing /\ Here.seq = s1
    /\ at' = "failed" /\ next' = next + 1 /\ refused' = refused + 1
    /\ UNCHANGED <<producerVars, loaded, s1, rec, copied, written, lapped, stop>>

(* NdjsonWriter::finish, called once the producer has stopped. *)
finish ==
    /\ ~stop /\ pc = "idle"
    /\ stop' = TRUE
    /\ UNCHANGED <<producerVars, recvVars, sinkVars>>

try_recv == LoadHead \/ Empty \/ Lapped \/ LoadFirst \/ CopyWord \/ LoadSecond

Next == Mark \/ WriteWord \/ Seal \/ Publish \/ try_recv \/ Refuse \/ finish

Spec == Init /\ [][Next]_vars /\ WF_vars(try_recv)

-----------------------------------------------------------------------------
(* The drain thread was told to end, and has. *)
Finishing == stop
Drained == at \in {"finished", "failed"}

(* No record that reaches the sink is torn: its words are those of one     *)
(* push, however the copy and the writes interleave (the seqlock of a      *)
(* slot, "A tear-free record was delivered").                              *)
Untorn ==
    \A i \in DOMAIN written : \E n \in 0..MaxPushes : written[i] = [k \in Words |-> n]

(* The records reach the sink in order and each at most once, and one that *)
(* does not was counted as lapped (RecvOutcome::Lapped, "the lost count is *)
(* reported, never silently dropped") or refused by the sink, whose error  *)
(* finish returns.                                                         *)
Accounted ==
    /\ \A i, j \in DOMAIN written, k \in Words : i < j => written[i][k] < written[j][k]
    /\ next = Len(written) + lapped + refused

(* What the sink holds is what was pushed: whole records, in order, and    *)
(* every other one counted.                                                *)
RecordsFaithful == Untorn /\ Accounted

(* With the producer stopped before finish, a drain that returns its       *)
(* summary has every record written or counted ("then performs a final     *)
(* drain pass so records published just before shutdown are not lost").    *)
FinalPass == at = "finished" => next = head
==============================================================================
