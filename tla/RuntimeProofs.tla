---------------------------- MODULE RuntimeProofs ----------------------------
(***************************************************************************)
(* Proofs about three components of the runtime.                           *)
(*                                                                         *)
(* CycleRing: the seqlock of the telemetry ring delivers no torn record,   *)
(* and every record in order or counted as lost, for any capacity, any     *)
(* number of words in a record and any number of pushes.                   *)
(*                                                                         *)
(* RunLoop: the heartbeat of the run loop misses no deadline and bounds    *)
(* how late a run with a deadline ends, for any period and stall.          *)
(*                                                                         *)
(* BoundedAlloc: a block of the partitioned allocator has one owner, for   *)
(* any number of threads and any sizes of the pools.                       *)
(***************************************************************************)
EXTENDS CycleRing, Integers, FiniteSets, TLAPS

(* The telemetry ring (CycleRing). *)
Records == [Words -> Nat]

TypeOK ==
    /\ head \in Nat
    /\ slot \in [Slots -> [seq : Nat, writing : BOOLEAN, rec : Records]]
    /\ pc \in {"idle", "marked", "sealed"} /\ done \subseteq Words
    /\ at \in {"head", "empty", "check", "copy", "finished", "failed"}
    /\ next \in Nat /\ loaded \in Nat /\ s1 \in Nat
    /\ rec \in Records /\ copied \subseteq Words
    /\ written \in Seq(Records) /\ lapped \in Nat /\ refused \in Nat

(* The producer's side: the slot it writes carries the number of the push,  *)
(* a slot that is not being written holds one record, and only the one just *)
(* sealed is not older than the head.                                       *)
Pushes ==
    /\ head <= MaxPushes /\ (pc # "idle" => head < MaxPushes)
    /\ \A i \in Slots : slot[i].seq <= head
    /\ pc # "idle" => slot[head % Cap].seq = head
    /\ pc = "marked" => /\ slot[head % Cap].writing
                        /\ \A k \in done : slot[head % Cap].rec[k] = head
    /\ \A i \in Slots : ~slot[i].writing =>
          /\ \A k \in Words : slot[i].rec[k] = slot[i].seq
          /\ slot[i].seq < head \/ pc = "sealed"

(* The consumer's side: while the slot it copies still has the number it    *)
(* had at first, nothing was written to it, and what was copied is of that  *)
(* number.                                                                  *)
Copies ==
    at = "copy" =>
        /\ s1 = next
        /\ s1 <= Here.seq
        /\ Here.seq = s1 => /\ ~Here.writing
                            /\ \A k \in copied : rec[k] = s1

(* The records in the sink are older than the next one. *)
Older == \A i \in DOMAIN written, k \in Words : written[i][k] < next

IInv == TypeOK /\ Pushes /\ Copies /\ Older /\ Untorn /\ Accounted

-----------------------------------------------------------------------------
(* A number has its slot. *)
LEMMA SlotOf ==
    ASSUME NEW n \in Nat
    PROVE  n % Cap \in Slots
BY CycleAssumption, SMT DEF Slots

LEMMA InitIInv ==
    ASSUME Init
    PROVE  IInv
<1>1. TypeOK
  BY SMT DEF Init, TypeOK, Records, Blank
<1>2. Pushes
  BY CycleAssumption, SMT DEF Init, Pushes
<1>3. Copies /\ Older /\ Untorn /\ Accounted
  BY SMT DEF Init, Copies, Older, Untorn, Accounted
<1> QED BY <1>1, <1>2, <1>3 DEF IInv

(* The properties of the sink depend on the sink only. *)
LEMMA SinkKept ==
    ASSUME IInv, UNCHANGED sinkVars
    PROVE  Older' /\ Untorn' /\ Accounted'
BY DEF IInv, sinkVars, Older, Untorn, Accounted

LEMMA MarkStep ==
    ASSUME IInv, Mark
    PROVE  IInv'
<1> USE DEF IInv
<1>1. head % Cap \in Slots /\ next % Cap \in Slots
  BY SlotOf DEF TypeOK
<1>2. UNCHANGED <<head, at, loaded, s1, rec, copied, next, written, lapped, refused, stop>>
  BY DEF Mark, recvVars, sinkVars
<1>3. TypeOK'
  BY <1>1, <1>2, SMT DEF Mark, Put, Current, TypeOK
<1>4. /\ slot'[head % Cap].seq = head /\ slot'[head % Cap].writing = TRUE
      /\ \A i \in Slots : i # head % Cap => slot'[i] = slot[i]
  BY <1>1, SMT DEF Mark, Put, Current, TypeOK
<1>5. Pushes'
  <2>1. pc = "idle" /\ pc' = "marked" /\ done' = {} /\ head < MaxPushes
    BY DEF Mark
  <2>2. \A i \in Slots : slot[i].seq \in Nat
    BY SMT DEF TypeOK
  <2>3. \A i \in Slots : slot'[i].seq <= head
    BY <1>1, <1>4, <2>2, SMT DEF TypeOK, Pushes
  <2>4. ASSUME NEW i \in Slots, ~slot'[i].writing
        PROVE  (\A k \in Words : slot'[i].rec[k] = slot'[i].seq) /\ slot'[i].seq < head
    BY <1>4, <2>1, <2>4 DEF Pushes
  <2> QED BY <1>2, <1>4, <2>1, <2>3, <2>4 DEF Pushes
<1>6. Copies'
  BY <1>1, <1>2, <1>4, SMT DEF Mark, TypeOK, Pushes, Copies, Here
<1> QED BY <1>3, <1>5, <1>6, SinkKept DEF Mark

LEMMA WriteWordStep ==
    ASSUME IInv, WriteWord
    PROVE  IInv'
<1> USE DEF IInv
<1>1. head % Cap \in Slots /\ next % Cap \in Slots
  BY SlotOf DEF TypeOK
<1>2. UNCHANGED <<head, pc, at, loaded, s1, rec, copied, next, written, lapped, refused, stop>>
  BY DEF WriteWord, recvVars, sinkVars
<1>3. PICK k \in Words \ done :
          /\ Put([seq |-> Current.seq, writing |-> TRUE, rec |-> [Current.rec EXCEPT ![k] = head]])
          /\ done' = done \cup {k}
  BY Zenon DEF WriteWord
<1>4. TypeOK'
  BY <1>1, <1>2, <1>3, SMT DEF Put, Current, TypeOK, Records
<1>5. pc = "marked" /\ slot[head % Cap].writing /\ slot[head % Cap].seq = head
  BY SMTT(20) DEF WriteWord, Pushes
<1>6. /\ slot'[head % Cap].seq = head /\ slot'[head % Cap].writing = TRUE
      /\ \A j \in done' : slot'[head % Cap].rec[j] = head
      /\ \A i \in Slots : i # head % Cap => slot'[i] = slot[i]
  BY <1>1, <1>3, <1>5, SMT DEF Put, Current, TypeOK, Records, Pushes
<1>7. Pushes'
  <2>1. \A i \in Slots : slot'[i].seq <= head
    BY <1>1, <1>6, SMT DEF TypeOK, Pushes
  <2>2. ASSUME NEW i \in Slots, ~slot'[i].writing
        PROVE  (\A word \in Words : slot'[i].rec[word] = slot'[i].seq) /\ slot'[i].seq < head
    BY <1>5, <1>6, <2>2 DEF Pushes
  <2> QED BY <1>2, <1>5, <1>6, <2>1, <2>2 DEF Pushes
<1>8. Copies'
  BY <1>1, <1>2, <1>5, <1>6, SMT DEF TypeOK, Copies, Here
<1> QED BY <1>4, <1>7, <1>8, SinkKept DEF WriteWord

LEMMA SealStep ==
    ASSUME IInv, Seal
    PROVE  IInv'
<1> USE DEF IInv
<1>1. head % Cap \in Slots /\ next % Cap \in Slots
  BY SlotOf DEF TypeOK
<1>2. UNCHANGED <<head, done, at, loaded, s1, rec, copied, next, written, lapped, refused, stop>>
  BY DEF Seal, recvVars, sinkVars
<1>3. TypeOK'
  BY <1>1, <1>2, SMT DEF Seal, Put, Current, TypeOK
<1>4. pc = "marked" /\ slot[head % Cap].writing /\ slot[head % Cap].seq = head
  BY DEF Seal, Pushes
<1>5. /\ slot'[head % Cap].seq = head /\ slot'[head % Cap].writing = FALSE
      /\ \A j \in Words : slot'[head % Cap].rec[j] = head
      /\ \A i \in Slots : i # head % Cap => slot'[i] = slot[i]
  BY <1>1, <1>4, SMT DEF Seal, Put, Current, TypeOK, Pushes
<1>6. Pushes'
  <2>1. pc' = "sealed" /\ head < MaxPushes
    BY <1>4 DEF Seal, Pushes
  <2>2. \A i \in Slots : slot'[i].seq <= head
    BY <1>1, <1>5, SMT DEF TypeOK, Pushes
  <2>3. ASSUME NEW i \in Slots, ~slot'[i].writing
        PROVE  \A k \in Words : slot'[i].rec[k] = slot'[i].seq
    BY <1>5, <2>3 DEF Pushes
  <2> QED BY <1>2, <1>5, <2>1, <2>2, <2>3 DEF Pushes
<1>7. Copies'
  BY <1>1, <1>2, <1>4, <1>5, SMT DEF TypeOK, Copies, Here
<1> QED BY <1>3, <1>6, <1>7, SinkKept DEF Seal

LEMMA PublishStep ==
    ASSUME IInv, Publish
    PROVE  IInv'
<1> USE DEF IInv
<1>1. head % Cap \in Slots /\ next % Cap \in Slots
  BY SlotOf DEF TypeOK
<1>2. UNCHANGED <<slot, done, at, loaded, s1, rec, copied, next, written, lapped, refused, stop>>
  BY DEF Publish, recvVars, sinkVars
<1>3. TypeOK'
  BY <1>2, SMT DEF Publish, TypeOK
<1>4. Pushes'
  BY <1>1, <1>2, CycleAssumption, SMT DEF Publish, TypeOK, Pushes
<1>5. Copies'
  BY <1>1, <1>2, SMT DEF Publish, TypeOK, Pushes, Copies, Here
<1> QED BY <1>3, <1>4, <1>5, SinkKept DEF Publish

-----------------------------------------------------------------------------
(* A step of the consumer that leaves the sink alone and starts no copy. *)
LEMMA ConsumerMoves ==
    ASSUME IInv, UNCHANGED producerVars, UNCHANGED sinkVars, TypeOK', at' # "copy"
    PROVE  IInv'
<1>1. Pushes' /\ Copies'
  BY DEF IInv, producerVars, Pushes, Copies
<1> QED BY <1>1, SinkKept DEF IInv

LEMMA LappedStep ==
    ASSUME IInv, Lapped
    PROVE  IInv'
<1> USE DEF IInv
<1>1. /\ UNCHANGED <<head, slot, pc, done, loaded, s1, rec, copied, written, refused, stop>>
      /\ at' = "head"
  BY DEF Lapped, producerVars
<1>2. PICK lost \in Nat : next' = next + lost /\ lapped' = lapped + lost
  <2>1. (loaded - Cap) - next \in Nat /\ next + ((loaded - Cap) - next) = loaded - Cap
    BY CycleAssumption, SMT DEF Lapped, TypeOK
  <2> QED BY <2>1 DEF Lapped
<1>3. TypeOK'
  <2>1. lapped' \in Nat /\ next' \in Nat
    BY <1>2, SMTT(20) DEF TypeOK
  <2> QED BY <1>1, <1>2, <2>1 DEF TypeOK
<1>4. Pushes' /\ Copies'
  BY <1>1 DEF Pushes, Copies
<1>5. Older'
  <2> SUFFICES ASSUME NEW i \in DOMAIN written', NEW k \in Words
               PROVE  written'[i][k] < next'
    BY DEF Older
  <2>1. written[i] \in Records /\ written[i][k] < next
    BY <1>1 DEF Older, TypeOK
  <2> QED BY <1>1, <1>2, <2>1, SMT DEF TypeOK, Records
<1>6. Untorn'
  BY <1>1 DEF Untorn
<1>7. Accounted'
  BY <1>1, <1>2, SMT DEF Accounted, TypeOK
<1> QED BY <1>3, <1>4, <1>5, <1>6, <1>7

LEMMA LoadFirstStep ==
    ASSUME IInv, LoadFirst
    PROVE  IInv'
<1> USE DEF IInv
<1>1. next % Cap \in Slots
  BY SlotOf DEF TypeOK
<1>2. UNCHANGED <<head, slot, pc, done, loaded, next, written, lapped, refused, stop>>
  BY DEF LoadFirst, producerVars, sinkVars
<1>3. CASE Here.writing \/ Here.seq # next
  <2>1. TypeOK' /\ at' # "copy"
    BY <1>2, <1>3, SMT DEF LoadFirst, TypeOK
  <2> QED BY <2>1, ConsumerMoves DEF LoadFirst
<1>4. CASE ~(Here.writing \/ Here.seq # next)
  <2>1. at' = "copy" /\ s1' = next /\ rec' = Blank /\ copied' = {}
    BY <1>4 DEF LoadFirst
  <2>2. TypeOK'
    BY <1>2, <2>1, SMT DEF TypeOK, Blank, Records
  <2>3. Here' = Here
    BY <1>2 DEF Here
  <2>4. Copies'
    BY <1>2, <1>4, <2>1, <2>3, SMT DEF TypeOK, Copies
  <2>5. Pushes'
    BY <1>2 DEF Pushes
  <2> QED BY <2>2, <2>4, <2>5, SinkKept DEF LoadFirst
<1> QED BY <1>3, <1>4

LEMMA CopyWordStep ==
    ASSUME IInv, CopyWord
    PROVE  IInv'
<1> USE DEF IInv
<1>1. next % Cap \in Slots
  BY SlotOf DEF TypeOK
<1>2. UNCHANGED <<head, slot, pc, done, at, loaded, s1, next, written, lapped, refused, stop>>
  BY DEF CopyWord, producerVars, sinkVars
<1>3. PICK k \in Words \ copied :
          rec' = [rec EXCEPT ![k] = Here.rec[k]] /\ copied' = copied \cup {k}
  BY Zenon DEF CopyWord
<1>4. Here.rec[k] \in Nat
  BY <1>1, <1>3, SMT DEF Here, TypeOK, Records
<1>5. TypeOK'
  BY <1>2, <1>3, <1>4, SMTT(20) DEF TypeOK, Records
<1>6. Copies'
  <2>1. Here' = Here
    BY <1>2 DEF Here
  <2>2. Here.seq = s1 => Here.rec[k] = s1
    BY <1>1, <1>3, SMT DEF CopyWord, Copies, Pushes, Here
  <2>3. \A j \in copied' : rec'[j] = IF j = k THEN Here.rec[k] ELSE rec[j]
    BY <1>3, SMTT(20) DEF TypeOK, Records
  <2> QED BY <1>2, <1>3, <2>1, <2>2, <2>3, SMT DEF CopyWord, Copies
<1>7. Pushes'
  BY <1>2 DEF Pushes
<1> QED BY <1>5, <1>6, <1>7, SinkKept DEF CopyWord

(* The record that is kept has the number of its slot in every word. *)
LEMMA LoadSecondStep ==
    ASSUME IInv, LoadSecond
    PROVE  IInv'
<1> USE DEF IInv
<1>1. next % Cap \in Slots
  BY SlotOf DEF TypeOK
<1>2. /\ UNCHANGED <<head, slot, pc, done, loaded, s1, rec, copied, stop>>
      /\ at = "copy" /\ copied = Words /\ at' = "head"
  BY DEF LoadSecond, producerVars
<1>3. CASE Here.writing \/ Here.seq # s1
  <2>1. UNCHANGED sinkVars
    BY <1>3 DEF LoadSecond
  <2>2. TypeOK'
    BY <1>2, <2>1, SMT DEF sinkVars, TypeOK
  <2> QED BY <1>2, <2>1, <2>2, ConsumerMoves DEF producerVars
<1>4. CASE ~(Here.writing \/ Here.seq # s1)
  <2>1. /\ next' = next + 1 /\ written' = Append(written, rec)
        /\ lapped' = lapped /\ refused' = refused
    BY <1>4 DEF LoadSecond
  <2>2. s1 = next /\ s1 = Here.seq /\ \A k \in Words : rec[k] = s1
    BY <1>2, <1>4 DEF Copies
  <2>3. rec = [k \in Words |-> s1]
    BY <2>2, SMT DEF TypeOK, Records
  <2>4. s1 \in 0..MaxPushes
    BY <1>1, <2>2, CycleAssumption, SMT DEF Here, TypeOK, Pushes
  <2>5. TypeOK'
    BY <1>2, <2>1, SMT DEF TypeOK
  <2>6. /\ DOMAIN written' = 1..(Len(written) + 1) /\ DOMAIN written = 1..Len(written)
        /\ Len(written) \in Nat /\ Len(written') = Len(written) + 1
        /\ \A i \in 1..Len(written) : written'[i] = written[i] /\ written[i] \in Records
        /\ written'[Len(written) + 1] = rec
    BY <2>1, SMTT(20) DEF TypeOK
  <2>7. Pushes' /\ Copies'
    BY <1>2 DEF Pushes, Copies
  <2>8. Older'
    <3> SUFFICES ASSUME NEW i \in DOMAIN written', NEW k \in Words
                 PROVE  written'[i][k] < next'
      BY DEF Older
    <3>1. CASE i = Len(written) + 1
      <4>1. written'[i][k] = next
        BY <2>2, <2>6, <3>1
      <4> QED BY <2>1, <4>1, SMT DEF TypeOK
    <3>2. CASE i # Len(written) + 1
      <4>1. i \in 1..Len(written)
        BY <2>6, <3>2, SMT
      <4>2. written'[i][k] = written[i][k] /\ written[i][k] \in Nat /\ written[i][k] < next
        BY <2>6, <4>1 DEF Older, Records
      <4> QED BY <2>1, <4>2, SMT DEF TypeOK
    <3> QED BY <3>1, <3>2
  <2>9. Untorn'
    <3> SUFFICES ASSUME NEW i \in DOMAIN written'
                 PROVE  \E n \in 0..MaxPushes : written'[i] = [k \in Words |-> n]
      BY DEF Untorn
    <3>1. CASE i = Len(written) + 1
      BY <2>3, <2>4, <2>6, <3>1, Zenon
    <3>2. CASE i # Len(written) + 1
      <4>1. i \in 1..Len(written)
        BY <2>6, <3>2, SMT
      <4> QED BY <2>6, <4>1 DEF Untorn
    <3> QED BY <3>1, <3>2
  <2>10. Accounted'
    <3>1. ASSUME NEW i \in DOMAIN written', NEW j \in DOMAIN written', NEW k \in Words, i < j
          PROVE  written'[i][k] < written'[j][k]
      <4>1. i \in 1..Len(written)
        BY <2>6, <3>1, SMT
      <4>2. CASE j = Len(written) + 1
        <5>1. written'[j][k] = next
          BY <2>2, <2>6, <4>2
        <5> QED BY <2>6, <4>1, <5>1 DEF Older
      <4>3. CASE j # Len(written) + 1
        <5>1. j \in 1..Len(written)
          BY <2>6, <4>3, SMT
        <5> QED BY <2>6, <3>1, <4>1, <5>1 DEF Accounted
      <4> QED BY <4>2, <4>3
    <3>2. next' = Len(written') + lapped' + refused'
      BY <2>1, <2>6, SMT DEF Accounted, TypeOK
    <3> QED BY <3>1, <3>2 DEF Accounted
  <2> QED BY <2>5, <2>7, <2>8, <2>9, <2>10
<1> QED BY <1>3, <1>4

LEMMA RefuseStep ==
    ASSUME IInv, Refuse
    PROVE  IInv'
<1> USE DEF IInv
<1>1. /\ UNCHANGED <<head, slot, pc, done, loaded, s1, rec, copied, written, lapped, stop>>
      /\ at' = "failed" /\ next' = next + 1 /\ refused' = refused + 1
  BY DEF Refuse, producerVars
<1>2. TypeOK'
  BY <1>1, SMT DEF TypeOK
<1>3. Pushes' /\ Copies'
  BY <1>1 DEF Pushes, Copies
<1>4. Older'
  <2> SUFFICES ASSUME NEW i \in DOMAIN written', NEW k \in Words
               PROVE  written'[i][k] < next'
    BY DEF Older
  <2>1. written[i] \in Records /\ written[i][k] < next
    BY <1>1 DEF Older, TypeOK
  <2> QED BY <1>1, <2>1, SMT DEF TypeOK, Records
<1>5. Untorn' /\ Accounted'
  <2>1. Untorn'
    BY <1>1 DEF Untorn
  <2>2. Len(written) \in Nat
    BY SMT DEF TypeOK
  <2> QED BY <1>1, <2>1, <2>2, SMT DEF Accounted, TypeOK
<1> QED BY <1>2, <1>3, <1>4, <1>5

LEMMA TryRecvStep ==
    ASSUME IInv, try_recv
    PROVE  IInv'
<1>1. CASE LoadHead
  <2>1. TypeOK' /\ at' # "copy"
    BY <1>1, SMT DEF LoadHead, producerVars, sinkVars, IInv, TypeOK
  <2> QED BY <1>1, <2>1, ConsumerMoves DEF LoadHead
<1>2. CASE Empty
  <2>1. TypeOK' /\ at' # "copy"
    BY <1>2, SMT DEF Empty, producerVars, sinkVars, IInv, TypeOK
  <2> QED BY <1>2, <2>1, ConsumerMoves DEF Empty
<1> QED BY <1>1, <1>2, LappedStep, LoadFirstStep, CopyWordStep, LoadSecondStep DEF try_recv

-----------------------------------------------------------------------------
LEMMA Inductive == Spec => []IInv
<1>1. Init => IInv
  BY InitIInv
<1>2. IInv /\ [Next]_vars => IInv'
  <2> SUFFICES ASSUME IInv, [Next]_vars PROVE IInv'
    OBVIOUS
  <2>1. CASE Mark
    BY <2>1, MarkStep
  <2>2. CASE WriteWord
    BY <2>2, WriteWordStep
  <2>3. CASE Seal
    BY <2>3, SealStep
  <2>4. CASE Publish
    BY <2>4, PublishStep
  <2>5. CASE try_recv
    BY <2>5, TryRecvStep
  <2>6. CASE UNCHANGED <<producerVars, recvVars, sinkVars>>
    <3>1. TypeOK' /\ Pushes' /\ Copies'
      BY <2>6 DEF producerVars, recvVars, sinkVars, IInv, TypeOK, Pushes, Copies, Here
    <3> QED BY <2>6, <3>1, SinkKept, SMTT(20) DEF IInv
  <2>7. CASE Refuse
    BY <2>7, RefuseStep
  <2> QED BY <2>1, <2>2, <2>3, <2>4, <2>5, <2>6, <2>7 DEF Next, finish, vars
<1> QED BY <1>1, <1>2, PTL DEF Spec

(* No record that reaches the sink mixes two pushes; records reach it in    *)
(* order, and one that does not is counted or ended the drain.              *)
THEOREM RecordsSafe == Spec => []RecordsFaithful
<1>1. IInv => RecordsFaithful
  BY DEF IInv, RecordsFaithful
<1> QED BY <1>1, Inductive, PTL

-----------------------------------------------------------------------------
(* The partitioned allocator (BoundedAlloc). *)
CONSTANTS Threads, MAX_BLOCKS, BLOCK_SIZE, WordBits, Align, QmFirst, MaxAllocs
VARIABLES bitmap, count, locked, thread, live

Alloc == INSTANCE BoundedAlloc

(* What the library's theorems on finite sets say of the sets below, and *)
(* that a set of numbers has a least element (proved at the end).        *)
Counting ==
    /\ Cardinality({}) = 0
    /\ \A x : Cardinality({x}) = 1
    /\ \A S : IsFiniteSet(S) => Cardinality(S) \in Nat
    /\ \A S : IsFiniteSet(S) => \A T \in SUBSET S : IsFiniteSet(T)
    /\ \A a, b \in Int : IsFiniteSet(a..b)
    /\ \A S : IsFiniteSet(S) =>
          \A x : /\ x \notin S => Cardinality(S \cup {x}) = Cardinality(S) + 1
                 /\ x \in S => Cardinality(S \ {x}) = Cardinality(S) - 1

Least == \A S \in SUBSET Nat : S # {} => \E x \in S : \A y \in S : x <= y

Blocks(p) == 0..(MAX_BLOCKS[p] - 1)

(* The instance has its own names for what FiniteSets defines. *)
LEMMA SameSets ==
    /\ \A S : Alloc!IsFiniteSet(S) <=> IsFiniteSet(S)
    /\ \A S : Alloc!Cardinality(S) = Cardinality(S)
<1>1. \A S : Alloc!IsFiniteSet(S) <=> IsFiniteSet(S)
  BY Zenon DEF Alloc!IsFiniteSet, IsFiniteSet
<1>2. ASSUME NEW S PROVE Alloc!Cardinality(S) = Cardinality(S)
  BY Zenon DEF Alloc!Cardinality, Cardinality
<1> QED BY <1>1, <1>2, Zenon

-----------------------------------------------------------------------------
LEMMA Quotient ==
    ASSUME NEW d \in Nat \ {0}, NEW q \in Nat, NEW r \in 0..(d - 1)
    PROVE  (q * d + r) \div d = q /\ (q * d + r) % d = r
  BY SMT

LEMMA Split ==
    ASSUME NEW d \in Nat \ {0}, NEW n \in Nat
    PROVE  n \div d \in Nat /\ n % d \in 0..(d - 1) /\ (n \div d) * d + (n % d) = n
<1>1. n = d * (n \div d) + (n % d) /\ (n \div d) \in Int
  BY SMT
<1>2. n % d \in 0..(d - 1)
  BY SMT
<1>3. n \div d \in Nat
  BY SMT
<1> DEFINE q == n \div d
<1>4. d * q = q * d
  BY <1>3, SMT
<1> HIDE DEF q
<1>5. q * d + (n % d) = n
  BY <1>1, <1>4 DEF q
<1> QED BY <1>2, <1>3, <1>5 DEF q

LEMMA Monotone ==
    ASSUME NEW d \in Nat \ {0}, NEW m \in Nat, NEW n \in Nat, m < n
    PROVE  m * d \in Nat /\ m * d + d <= n * d
<1>1. (n - m - 1) * d >= 0 /\ (n - m - 1) * d = n * d - m * d - d
  BY SMT
<1> QED BY <1>1, SMT

(* The words of a bitmap hold a bit for every block. *)
LEMMA Covered ==
    ASSUME NEW d \in Nat \ {0}, NEW n \in Nat, NEW b \in 0..(n - 1)
    PROVE  /\ b \div d \in 0..(((n + d - 1) \div d) - 1)
           /\ b < ((n + d - 1) \div d) * d
<1> DEFINE w == (n + d - 1) \div d
           q == b \div d
<1>1. w \in Nat /\ (n + d - 1) % d \in 0..(d - 1) /\ w * d + ((n + d - 1) % d) = n + d - 1
  <2>1. n + d - 1 \in Nat
    OBVIOUS
  <2> QED BY <2>1, Split, Zenon
<1>2. q \in Nat /\ b % d \in 0..(d - 1) /\ q * d + (b % d) = b
  <2>1. b \in Nat
    OBVIOUS
  <2> QED BY <2>1, Split, Zenon
<1> HIDE DEF w, q
<1>3. w * d \in Nat /\ q * d \in Nat
  BY <1>1, <1>2, SMT
<1>4. b < w * d
  BY <1>1, <1>3
<1>5. ~ (w <= q)
  <2> SUFFICES ASSUME w <= q PROVE FALSE
    OBVIOUS
  <2>1. w = q \/ w < q
    BY <1>1, <1>2
  <2>2. w * d <= q * d
    <3>1. CASE w = q
      BY <3>1, <1>3
    <3>2. CASE w < q
      <4>1. w * d + d <= q * d
        BY <1>1, <1>2, <3>2, Monotone
      <4> QED BY <4>1, <1>3
    <3> QED BY <2>1, <3>1, <3>2
  <2>3. q * d <= b
    <3> DEFINE x == q * d
               y == b % d
    <3>1. x \in Nat /\ y \in Nat /\ x + y = b
      BY <1>2, <1>3
    <3> HIDE DEF x, y
    <3>2. x <= b
      BY <3>1
    <3> QED BY <3>2 DEF x
  <2> QED BY <2>2, <2>3, <1>3, <1>4
<1> QED BY <1>1, <1>2, <1>4, <1>5 DEF w, q

LEMMA AddressesApart ==
    ASSUME Alloc!Layout, NEW p \in Alloc!Pools, NEW b \in Blocks(p)
    PROVE  /\ Alloc!owning_pool(Alloc!as_mut_ptr(p, b)) = p
           /\ Alloc!block_index_of(p, Alloc!as_mut_ptr(p, b)) = b
<1> DEFINE s == BLOCK_SIZE
           n == MAX_BLOCKS["sc"]
           m == MAX_BLOCKS["qm"]
           x == b * s
<1>1. s \in Nat \ {0} /\ n \in Nat /\ m \in Nat /\ b \in Nat /\ Alloc!stride = s /\ p \in {"sc", "qm"}
  BY DEF Alloc!Layout, Alloc!Pools, Blocks
<1>2. x \in Nat /\ n * s \in Nat /\ m * s \in Nat /\ x \div s = b
  <2>1. x + 0 = x /\ x \in Nat /\ n * s \in Nat /\ m * s \in Nat
    BY <1>1, SMT
  <2>2. (b * s + 0) \div s = b
    BY <1>1, Quotient
  <2> QED BY <2>1, <2>2
<1>3. (p = "sc" => x + s <= n * s) /\ (p = "qm" => x + s <= m * s)
  BY <1>1, Monotone DEF Blocks
<1>4. /\ QmFirst => Alloc!arena("qm") = 0 /\ Alloc!arena("sc") = m * s
      /\ ~ QmFirst => Alloc!arena("sc") = 0 /\ Alloc!arena("qm") = n * s
  BY <1>1 DEF Alloc!arena, Alloc!Layout
<1>5. Alloc!as_mut_ptr(p, b) = Alloc!arena(p) + x
  BY <1>1 DEF Alloc!as_mut_ptr
<1>6. Alloc!capacity_bytes("sc") = n * s
  BY DEF Alloc!capacity_bytes
<1> DEFINE N == n * s
           M == m * s
           base == Alloc!arena("sc")
           a == Alloc!arena(p)
<1>7. N \in Nat /\ M \in Nat /\ a \in Nat /\ base \in Nat
  BY <1>1, <1>2, <1>4 DEF Alloc!Layout
<1>8. /\ p = "sc" => a = base
      /\ QmFirst => base = M /\ (p = "qm" => a = 0)
      /\ ~ QmFirst => base = 0 /\ (p = "qm" => a = N)
  BY <1>4
<1>a. (p = "sc" => x + s <= N) /\ (p = "qm" => x + s <= M)
  BY <1>3
<1>b. Alloc!owning_pool(a + x) = IF base <= a + x /\ a + x < base + N THEN "sc" ELSE "qm"
  BY <1>6 DEF Alloc!owning_pool
<1>0. Alloc!stride = s
  BY <1>1
<1> HIDE DEF s, x
<1>c. ~ (a + x < a) => Alloc!block_index_of(p, a + x) = ((a + x) - a) \div s
  BY <1>0, Zenon DEF Alloc!block_index_of
<1>d. x \div s = b /\ x \in Nat
  BY <1>2
<1>e. Alloc!as_mut_ptr(p, b) = a + x /\ QmFirst \in BOOLEAN
  BY <1>5 DEF Alloc!Layout
<1> HIDE DEF N, M, base, a, x, n, m, s
<1>f. Alloc!owning_pool(a + x) = p
  BY <1>1, <1>7, <1>8, <1>a, <1>b, <1>d, <1>e
<1>g. (a + x) - a = x /\ ~ (a + x < a)
  BY <1>7, <1>d
<1>h. Alloc!block_index_of(p, a + x) = b
  BY <1>c, <1>d, <1>g
<1> QED BY <1>e, <1>f, <1>h

LEMMA LeastBit ==
    ASSUME Least, NEW S \in SUBSET Nat, S # {}
    PROVE  Alloc!Min(S) \in S
  BY Zenon DEF Least, Alloc!Min

-----------------------------------------------------------------------------
Holding == {"claimed", "counting", "counted"}
Counted == {"counted", "released", "uncounting"}
Between == {"counting", "uncounting"}

IsFree(p, b) == b % WordBits \in bitmap[p][b \div WordBits]
Out(p, b) == Alloc!as_mut_ptr(p, b) \in live
Has(t, p, b) ==
    thread[t].pc \in Holding /\ thread[t].pool = p /\ thread[t].block = b
Busy(p) == {t \in Threads : thread[t].pc \in Counted /\ thread[t].pool = p}
At(p, s) == {t \in Threads : thread[t].pc = s /\ thread[t].pool = p}

Bits == 0..(WordBits - 1)
Tally == [allocs : Int, deallocs : Int, in_use : Int, peak : Int]
WordsOf(p) == 0..(Alloc!BITMAP_WORDS(p) - 1)

(* A call of the allocator at its step. *)
CallOK(c) ==
    /\ c.pc \in {"idle", "panicked", "load", "cas", "claimed", "counting", "counted", "released",
                 "uncounting"}
    /\ c.pc = "load" => c \in [pc : {"load"}, pool : Alloc!Pools, word : Nat] /\ c.word \in WordsOf(c.pool)
    /\ c.pc = "cas" => /\ c.pool \in Alloc!Pools /\ c.word \in WordsOf(c.pool)
                       /\ c.seen \in SUBSET Bits /\ c.seen # {}
                       /\ c.word * WordBits + Alloc!Min(c.seen) < MAX_BLOCKS[c.pool]
    /\ c.pc \in Holding => c.pool \in Alloc!Pools /\ c.block \in Blocks(c.pool)
    /\ c.pc = "counted" => c.in_use_after \in Int
    /\ c.pc \in {"released", "uncounting"} => c.pool \in Alloc!Pools

AllocType ==
    /\ thread = [t \in Threads |-> thread[t]]
    /\ \A t \in Threads : CallOK(thread[t])
    /\ bitmap = [p \in Alloc!Pools |-> bitmap[p]]
    /\ \A p \in Alloc!Pools : bitmap[p] \in [WordsOf(p) -> SUBSET Bits]
    /\ count \in [Alloc!Pools -> Tally]
    /\ \A ptr \in live : \E p \in Alloc!Pools : \E b \in Blocks(p) : ptr = Alloc!as_mut_ptr(p, b)

(* A block is free, claimed by one thread, or handed out. *)
Exclusive(p, b) ==
    /\ IsFree(p, b) \/ Out(p, b) \/ \E t \in Threads : Has(t, p, b)
    /\ ~ (IsFree(p, b) /\ Out(p, b))
    /\ \A t \in Threads : Has(t, p, b) => ~ IsFree(p, b) /\ ~ Out(p, b)
    /\ \A t, u \in Threads : Has(t, p, b) /\ Has(u, p, b) => t = u

Owned == \A p \in Alloc!Pools : \A b \in Blocks(p) : Exclusive(p, b)

(* in_use lags behind the two running counts by the calls that have       *)
(* changed one of them and not yet in_use.                                *)
Balanced(p) ==
    count[p].in_use + Cardinality(At(p, "counting"))
        = count[p].allocs - count[p].deallocs + Cardinality(At(p, "uncounting"))

(* in_use counts the blocks handed out and the calls between their counter *)
(* and the pointer; the high-water mark is at least that, or is about to be. *)
Tallied(p) ==
    /\ Balanced(p)
    /\ count[p].in_use = Cardinality(Alloc!Handed(p)) + Cardinality(Busy(p))
    /\ \/ count[p].in_use <= count[p].peak
       \/ \E t \in Threads : /\ thread[t].pc = "counted" /\ thread[t].pool = p
                             /\ count[p].in_use <= thread[t].in_use_after

AllocInv == AllocType /\ Owned /\ \A p \in Alloc!Pools : Tallied(p)

-----------------------------------------------------------------------------
LEMMA Constants ==
    ASSUME Alloc!Layout
    PROVE  /\ WordBits \in Nat \ {0} /\ IsFiniteSet(Threads)
           /\ \A p \in Alloc!Pools : /\ MAX_BLOCKS[p] \in Nat \ {0}
                                     /\ Alloc!BITMAP_WORDS(p) \in Nat
                                     /\ 0 \in WordsOf(p)
                                     /\ \A b \in Blocks(p) : b \in Nat /\ b \div WordBits \in WordsOf(p)
                                          /\ b % WordBits \in Bits
                                          /\ b < Alloc!BITMAP_WORDS(p) * WordBits
<1>1. WordBits \in Nat \ {0} /\ IsFiniteSet(Threads) /\ \A p \in Alloc!Pools : MAX_BLOCKS[p] \in Nat \ {0}
  <2>1. MAX_BLOCKS \in [Alloc!Pools -> Nat \ {0}] /\ WordBits \in Nat \ {0} /\ IsFiniteSet(Threads)
    BY SameSets, Zenon DEF Alloc!Layout
  <2>2. \A p \in Alloc!Pools : MAX_BLOCKS[p] \in Nat \ {0}
    BY <2>1, SMT
  <2> QED BY <2>1, <2>2, Zenon
<1>2. ASSUME NEW p \in Alloc!Pools, NEW b \in Blocks(p)
      PROVE  b \in Nat /\ b \div WordBits \in WordsOf(p) /\ b % WordBits \in Bits
             /\ b < Alloc!BITMAP_WORDS(p) * WordBits
  <2>1. b \in 0..(MAX_BLOCKS[p] - 1) /\ MAX_BLOCKS[p] \in Nat /\ b \in Nat
    BY <1>1 DEF Blocks
  <2>2. b \div WordBits \in WordsOf(p) /\ b < Alloc!BITMAP_WORDS(p) * WordBits
    BY <1>1, <2>1, Covered, Zenon DEF WordsOf, Alloc!BITMAP_WORDS
  <2>3. b % WordBits \in Bits
    BY <1>1, <2>1, Split, Zenon DEF Bits
  <2> QED BY <2>1, <2>2, <2>3, Zenon
<1>3. ASSUME NEW p \in Alloc!Pools PROVE Alloc!BITMAP_WORDS(p) \in Nat /\ 0 \in WordsOf(p)
  <2>1. MAX_BLOCKS[p] + WordBits - 1 \in Nat /\ 0 \in Blocks(p)
    BY <1>1 DEF Blocks
  <2>2. Alloc!BITMAP_WORDS(p) \in Nat
    BY <1>1, <2>1, Split, Zenon DEF Alloc!BITMAP_WORDS
  <2>3. 0 \div WordBits \in WordsOf(p) /\ 0 \div WordBits \in Nat
    BY <1>1, <1>2, <2>1, Split DEF Blocks
  <2> QED BY <2>2, <2>3 DEF WordsOf
<1> QED BY <1>1, <1>2, <1>3, Zenon

(* The bit that a claim clears is that of its block and of no other. *)
LEMMA BitOfBlock ==
    ASSUME Alloc!Layout, NEW p \in Alloc!Pools, NEW w \in WordsOf(p), NEW i \in Bits,
           w * WordBits + i < MAX_BLOCKS[p]
    PROVE  /\ w * WordBits + i \in Blocks(p)
           /\ (w * WordBits + i) \div WordBits = w /\ (w * WordBits + i) % WordBits = i
           /\ \A b \in Blocks(p) : b \div WordBits = w /\ b % WordBits = i => b = w * WordBits + i
<1>1. WordBits \in Nat \ {0} /\ MAX_BLOCKS[p] \in Nat /\ w \in Nat /\ i \in 0..(WordBits - 1) /\ i \in Nat
  BY Constants DEF WordsOf, Bits
<1>2. (w * WordBits + i) \div WordBits = w /\ (w * WordBits + i) % WordBits = i
  BY <1>1, Quotient, Zenon
<1>3. w * WordBits + i \in Blocks(p)
  <2> DEFINE x == w * WordBits
  <2>1. x \in Nat
    BY <1>1, SMT
  <2>2. x + i < MAX_BLOCKS[p]
    OBVIOUS
  <2> HIDE DEF x
  <2>3. x + i \in 0..(MAX_BLOCKS[p] - 1)
    BY <1>1, <2>1, <2>2
  <2> QED BY <2>3 DEF x, Blocks
<1>4. ASSUME NEW b \in Blocks(p), b \div WordBits = w, b % WordBits = i
      PROVE  b = w * WordBits + i
  <2>1. b \in Nat
    BY <1>1 DEF Blocks
  <2>2. (b \div WordBits) * WordBits + (b % WordBits) = b
    BY <1>1, <2>1, Split, Zenon
  <2> QED BY <2>2, <1>4, Zenon
<1> QED BY <1>2, <1>3, <1>4, Zenon

(* A pointer names one block. *)
LEMMA OnePointer ==
    ASSUME Alloc!Layout, NEW p \in Alloc!Pools, NEW b \in Blocks(p),
           NEW q \in Alloc!Pools, NEW c \in Blocks(q),
           Alloc!as_mut_ptr(p, b) = Alloc!as_mut_ptr(q, c)
    PROVE  p = q /\ b = c
<1>1. p = Alloc!owning_pool(Alloc!as_mut_ptr(p, b)) /\ q = Alloc!owning_pool(Alloc!as_mut_ptr(q, c))
  BY AddressesApart, Zenon
<1>2. p = q
  BY <1>1, Zenon
<1>3. b = Alloc!block_index_of(p, Alloc!as_mut_ptr(p, b)) /\ c = Alloc!block_index_of(q, Alloc!as_mut_ptr(q, c))
  BY AddressesApart, Zenon
<1> QED BY <1>2, <1>3, Zenon

LEMMA GoTo ==
    ASSUME AllocType, NEW t \in Threads, NEW c, Alloc!Go(t, c)
    PROVE  /\ thread'[t] = c /\ \A u \in Threads : u # t => thread'[u] = thread[u]
           /\ thread' = [u \in Threads |-> thread'[u]]
<1>1. thread = [u \in Threads |-> thread[u]] /\ thread' = [thread EXCEPT ![t] = c]
  BY Zenon DEF AllocType, Alloc!Go
<1> QED BY <1>1, Zenon

(* A step of a call that is not between the counters of the pool. *)
LEMMA BalanceKept ==
    ASSUME NEW t \in Threads, NEW p \in Alloc!Pools, Balanced(p),
           \A u \in Threads : u # t => thread'[u] = thread[u],
           thread[t].pc \in Between => thread[t].pool # p,
           thread'[t].pc \in Between => thread'[t].pool # p,
           /\ count'[p].in_use = count[p].in_use /\ count'[p].allocs = count[p].allocs
           /\ count'[p].deallocs = count[p].deallocs
    PROVE  Balanced(p)'
<1>1. ASSUME NEW s \in Between PROVE At(p, s)' = At(p, s)
  BY Zenon DEF At
<1>2. At(p, "counting")' = At(p, "counting") /\ At(p, "uncounting")' = At(p, "uncounting")
  BY <1>1, Zenon DEF Between
<1> QED BY <1>2, Zenon DEF Balanced

Calm == {"idle", "panicked", "load", "cas"}

(* A step of a call that neither holds a block nor is being counted. *)
LEMMA CalmStep ==
    ASSUME AllocInv, NEW t \in Threads, NEW c, Alloc!Go(t, c),
           bitmap' = bitmap, count' = count, live' = live,
           thread[t].pc \in Calm, c.pc \in Calm, CallOK(c)
    PROVE  AllocInv'
<1>1. /\ thread'[t] = c /\ \A u \in Threads : u # t => thread'[u] = thread[u]
      /\ thread' = [u \in Threads |-> thread'[u]]
  BY GoTo, Zenon DEF AllocInv
<1>2. ~ (thread[t].pc \in Holding \cup Counted) /\ ~ (c.pc \in Holding \cup Counted)
  BY Zenon DEF Calm, Holding, Counted
<1>3. ASSUME NEW u \in Threads, NEW p, NEW b PROVE Has(u, p, b)' <=> Has(u, p, b)
  <2>1. CASE u # t
    BY <1>1, <2>1, Zenon DEF Has
  <2>2. CASE u = t
    BY <1>1, <1>2, <2>2, Zenon DEF Has
  <2> QED BY <2>1, <2>2, Zenon
<1>4. \A p : Busy(p)' = Busy(p)
  BY <1>1, <1>2, Zenon DEF Busy
<1>5. AllocType'
  <2>1. \A u \in Threads : CallOK(thread'[u])
    BY <1>1, Zenon DEF AllocInv, AllocType
  <2>2. (\A u \in Threads : CallOK(thread[u]))'
    BY <2>1, Zenon DEF CallOK
  <2> QED BY <1>1, <2>2, Zenon DEF AllocInv, AllocType
<1>6. Owned'
  <2> SUFFICES ASSUME NEW p \in Alloc!Pools, NEW b \in Blocks(p)
               PROVE  Exclusive(p, b)'
    BY Zenon DEF Owned, Blocks
  <2>1. (IsFree(p, b)' <=> IsFree(p, b)) /\ (Out(p, b)' <=> Out(p, b))
    BY Zenon DEF IsFree, Out, Alloc!as_mut_ptr
  <2>2. Exclusive(p, b)
    BY Zenon DEF AllocInv, Owned
  <2> QED BY <1>3, <2>1, <2>2, Zenon DEF Exclusive
<1>7. ASSUME NEW p \in Alloc!Pools PROVE Tallied(p)'
  <2>1. Alloc!Handed(p)' = Alloc!Handed(p)
    BY Zenon DEF Alloc!Handed
  <2>2. ASSUME NEW u \in Threads, thread[u].pc = "counted"
        PROVE  thread'[u] = thread[u]
    <3>1. u # t
      BY <1>2, <2>2, Zenon DEF Counted
    <3> QED BY <1>1, <3>1, Zenon
  <2>3. Tallied(p)
    BY Zenon DEF AllocInv
  <2>4. \/ count'[p].in_use <= count'[p].peak
        \/ \E u \in Threads : /\ thread'[u].pc = "counted" /\ thread'[u].pool = p
                               /\ count'[p].in_use <= thread'[u].in_use_after
    BY <2>2, <2>3, Zenon DEF Tallied
  <2>5. Balanced(p)'
    <3>1. ~ (thread[t].pc \in Between) /\ ~ (thread'[t].pc \in Between)
      BY <1>1, <1>2, Zenon DEF Between, Holding, Counted
    <3> QED BY <1>1, <2>3, <3>1, BalanceKept, Zenon DEF Tallied
  <2> QED BY <1>4, <2>1, <2>3, <2>4, <2>5, Zenon DEF Tallied
<1> QED BY <1>5, <1>6, <1>7, Zenon DEF AllocInv

(* A step that touches neither the threads nor the blocks. *)
LEMMA AllocSame ==
    ASSUME AllocInv, bitmap' = bitmap, count' = count, live' = live, thread' = thread
    PROVE  AllocInv'
<1>1. AllocType'
  BY Zenon DEF AllocInv, AllocType, CallOK
<1>2. Owned'
  <2> SUFFICES ASSUME NEW p \in Alloc!Pools, NEW b \in Blocks(p)
               PROVE  Exclusive(p, b)'
    BY Zenon DEF Owned, Blocks
  <2>1. (IsFree(p, b)' <=> IsFree(p, b)) /\ (Out(p, b)' <=> Out(p, b))
    BY Zenon DEF IsFree, Out, Alloc!as_mut_ptr
  <2>2. \A t \in Threads : Has(t, p, b)' <=> Has(t, p, b)
    BY Zenon DEF Has
  <2>3. Exclusive(p, b)
    BY Zenon DEF AllocInv, Owned
  <2> QED BY <2>1, <2>2, <2>3, Zenon DEF Exclusive
<1>3. ASSUME NEW p \in Alloc!Pools PROVE Tallied(p)'
  <2>1. Alloc!Handed(p)' = Alloc!Handed(p) /\ Busy(p)' = Busy(p)
    BY Zenon DEF Alloc!Handed, Busy
  <2>2. Tallied(p)
    BY Zenon DEF AllocInv
  <2>3. Balanced(p)'
    BY <2>2, Zenon DEF Tallied, Balanced, At
  <2> QED BY <2>1, <2>2, <2>3, Zenon DEF Tallied
<1> QED BY <1>1, <1>2, <1>3, Zenon DEF AllocInv

LEMMA AllocAlloc ==
    ASSUME Alloc!Layout, AllocInv, NEW t \in Threads, NEW q \in Alloc!Pools, Alloc!alloc(t, q)
    PROVE  AllocInv'
<1> DEFINE c == IF locked[q] THEN [pc |-> "panicked"] ELSE [pc |-> "load", pool |-> q, word |-> 0]
<1>1. /\ Alloc!Go(t, c) /\ bitmap' = bitmap /\ count' = count /\ live' = live
      /\ thread[t] = [pc |-> "idle"]
  BY Zenon DEF Alloc!alloc, Alloc!Idle
<1>2. 0 \in WordsOf(q)
  BY Constants, Zenon
<1>3. c.pc \in Calm /\ CallOK(c)
  BY <1>2 DEF CallOK, Calm, Holding
<1>4. thread[t].pc \in Calm
  BY <1>1 DEF Calm
<1> HIDE DEF c
<1> QED BY <1>1, <1>3, <1>4, CalmStep, Zenon

LEMMA AllocLoad ==
    ASSUME Alloc!Layout, AllocInv, NEW t \in Threads, Alloc!Load(t)
    PROVE  AllocInv'
<1> DEFINE c == thread[t]
           p == c.pool
           w == c.word
           word == bitmap[p][w]
           d == IF word # {} /\ w * WordBits + Alloc!Min(word) < MAX_BLOCKS[p]
                THEN [pc |-> "cas", pool |-> p, word |-> w, seen |-> word]
                ELSE IF w + 1 < Alloc!BITMAP_WORDS(p)
                THEN [c EXCEPT !.word = @ + 1]
                ELSE Alloc!Idle
<1>1. /\ Alloc!Go(t, d) /\ bitmap' = bitmap /\ count' = count /\ live' = live /\ c.pc = "load"
  BY ZenonT(30) DEF Alloc!Load
<1>2. c \in [pc : {"load"}, pool : Alloc!Pools, word : Nat] /\ w \in WordsOf(p) /\ p \in Alloc!Pools /\ w \in Nat
  BY <1>1 DEF AllocInv, AllocType, CallOK
<1>3. word \in SUBSET Bits
  BY <1>2 DEF AllocInv, AllocType
<1>4. ASSUME word # {}, w * WordBits + Alloc!Min(word) < MAX_BLOCKS[p]
      PROVE  d.pc \in Calm /\ CallOK(d)
  <2> DEFINE e == [pc |-> "cas", pool |-> p, word |-> w, seen |-> word]
  <2>1. e.pc = "cas" /\ e.pool = p /\ e.word = w /\ e.seen = word
    BY Zenon
  <2>2. d = e
    BY <1>4, Zenon
  <2> HIDE DEF e, word, p, w
  <2>3. CallOK(e)
    BY <1>2, <1>3, <1>4, <2>1 DEF CallOK, Holding
  <2> QED BY <2>1, <2>2, <2>3, Zenon DEF Calm
<1>5. ASSUME ~ (word # {} /\ w * WordBits + Alloc!Min(word) < MAX_BLOCKS[p]),
             w + 1 < Alloc!BITMAP_WORDS(p)
      PROVE  d.pc \in Calm /\ CallOK(d)
  <2>1. d = [c EXCEPT !.word = @ + 1]
    BY <1>5, ZenonT(30)
  <2>2. d.pc = "load" /\ d.pool = p /\ d.word = w + 1 /\ d \in [pc : {"load"}, pool : Alloc!Pools, word : Nat]
    BY <1>2, <2>1
  <2>3. w + 1 \in WordsOf(p)
    BY <1>2, <1>5, Constants DEF WordsOf
  <2> HIDE DEF d, p, w
  <2> QED BY <2>2, <2>3 DEF CallOK, Calm, Holding
<1>6. ASSUME d = Alloc!Idle PROVE d.pc \in Calm /\ CallOK(d)
  <2> HIDE DEF d
  <2> QED
  BY <1>6 DEF CallOK, Calm, Holding, Alloc!Idle
<1>7. d.pc \in Calm /\ CallOK(d)
  <2>1. \/ word # {} /\ w * WordBits + Alloc!Min(word) < MAX_BLOCKS[p]
        \/ ~ (word # {} /\ w * WordBits + Alloc!Min(word) < MAX_BLOCKS[p]) /\ w + 1 < Alloc!BITMAP_WORDS(p)
        \/ d = Alloc!Idle
    BY Zenon
  <2> QED BY <1>4, <1>5, <1>6, <2>1, Zenon
<1>8. thread[t].pc \in Calm
  BY <1>1, Zenon DEF Calm
<1> HIDE DEF d
<1> QED BY <1>1, <1>7, <1>8, CalmStep, Zenon

(* The blocks handed out and the calls being counted are finitely many. *)
LEMMA Finite ==
    ASSUME Counting, Alloc!Layout, NEW p \in Alloc!Pools
    PROVE  /\ IsFiniteSet(Busy(p)) /\ Cardinality(Busy(p)) \in Nat
           /\ \A s : IsFiniteSet(At(p, s)) /\ Cardinality(At(p, s)) \in Nat
           /\ IsFiniteSet(Alloc!Handed(p)) /\ Cardinality(Alloc!Handed(p)) \in Nat
<1>1. IsFiniteSet(Threads) /\ Busy(p) \in SUBSET Threads
  BY Constants, Zenon DEF Busy
<1>2. MAX_BLOCKS[p] \in Nat
  BY Constants
<1>3. IsFiniteSet(0..(MAX_BLOCKS[p] - 1)) /\ Alloc!Handed(p) \in SUBSET (0..(MAX_BLOCKS[p] - 1))
  <2>1. 0 \in Int /\ MAX_BLOCKS[p] - 1 \in Int
    BY <1>2
  <2> QED BY <2>1, Zenon DEF Alloc!Handed, Counting
<1>4. IsFiniteSet(Busy(p)) /\ IsFiniteSet(Alloc!Handed(p))
  BY <1>1, <1>3, Zenon DEF Counting
<1>5. ASSUME NEW s PROVE IsFiniteSet(At(p, s)) /\ Cardinality(At(p, s)) \in Nat
  <2>1. At(p, s) \in SUBSET Threads
    BY Zenon DEF At
  <2>2. IsFiniteSet(At(p, s))
    BY <1>1, <2>1, Zenon DEF Counting
  <2> QED BY <2>2, Zenon DEF Counting
<1> QED BY <1>4, <1>5, Zenon DEF Counting

(* A claim that finds the word as it saw it takes one free block. *)
LEMMA AllocCas ==
    ASSUME Least, Alloc!Layout, AllocInv, NEW t \in Threads, Alloc!Cas(t)
    PROVE  AllocInv'
<1> DEFINE c == thread[t]
           P == c.pool
           w == c.word
           i == Alloc!Min(c.seen)
           B == w * WordBits + i
           n == [pc |-> "claimed", pool |-> P, block |-> B]
           l == [pc |-> "load", pool |-> P, word |-> w]
<1>1. /\ c.pc = "cas" /\ count' = count /\ live' = live
      /\ \/ /\ bitmap[P][w] = c.seen /\ Alloc!Go(t, n)
            /\ bitmap' = [bitmap EXCEPT ![P][w] = c.seen \ {i}]
         \/ bitmap' = bitmap /\ Alloc!Go(t, l)
  BY Zenon DEF Alloc!Cas
<1>2. /\ P \in Alloc!Pools /\ w \in WordsOf(P) /\ c.seen \in SUBSET Bits /\ c.seen # {}
      /\ w * WordBits + i < MAX_BLOCKS[P]
  BY <1>1, Zenon DEF AllocInv, AllocType, CallOK
<1>3. ASSUME bitmap' = bitmap, Alloc!Go(t, l) PROVE AllocInv'
  <2>1. l.pc = "load" /\ l.pool = P /\ l.word = w
    BY Zenon
  <2>2. w \in Nat
    BY <1>2, Constants DEF WordsOf
  <2>3. l \in [pc : {"load"}, pool : Alloc!Pools, word : Nat]
    BY <1>2, <2>2
  <2> HIDE DEF l, P, w
  <2>4. CallOK(l)
    BY <1>2, <2>1, <2>3 DEF CallOK, Holding
  <2>5. thread[t].pc \in Calm /\ l.pc \in Calm
    BY <1>1, <2>1, Zenon DEF Calm
  <2> QED BY <1>1, <1>3, <2>4, <2>5, CalmStep, Zenon
<1>4. ASSUME bitmap[P][w] = c.seen, Alloc!Go(t, n),
             bitmap' = [bitmap EXCEPT ![P][w] = c.seen \ {i}]
      PROVE  AllocInv'
  <2>1. i \in c.seen /\ i \in Bits
    <3>1. c.seen \in SUBSET Nat
      BY <1>2, Constants DEF Bits
    <3> QED BY <1>2, <3>1, LeastBit, Zenon
  <2>2. /\ B \in Blocks(P) /\ B \div WordBits = w /\ B % WordBits = i
        /\ \A b \in Blocks(P) : b \div WordBits = w /\ b % WordBits = i => b = B
    <3> HIDE DEF P, w, i, c
    <3> QED BY <1>2, <2>1, BitOfBlock, Zenon DEF B
  <2>3. n.pc = "claimed" /\ n.pool = P /\ n.block = B
    BY Zenon
  <2>4. /\ thread'[t] = n /\ \A u \in Threads : u # t => thread'[u] = thread[u]
        /\ thread' = [u \in Threads |-> thread'[u]]
    BY <1>4, GoTo, Zenon DEF AllocInv
  <2>5. /\ bitmap' = [p \in Alloc!Pools |-> bitmap'[p]]
        /\ \A p \in Alloc!Pools : p # P => bitmap'[p] = bitmap[p]
        /\ bitmap'[P] = [bitmap[P] EXCEPT ![w] = c.seen \ {i}]
    <3>1. bitmap = [p \in Alloc!Pools |-> bitmap[p]]
      BY Zenon DEF AllocInv, AllocType
    <3> HIDE DEF P, w, c, i
    <3> QED BY <1>2, <1>4, <3>1, Zenon
  <2>6. \A p \in Alloc!Pools : bitmap[p] \in [WordsOf(p) -> SUBSET Bits]
    BY Zenon DEF AllocInv, AllocType
  <2> HIDE DEF B, n, c, P, w, i
  <2>7. /\ bitmap'[P] \in [WordsOf(P) -> SUBSET Bits] /\ bitmap'[P][w] = c.seen \ {i}
        /\ \A v \in WordsOf(P) : v # w => bitmap'[P][v] = bitmap[P][v]
    BY <1>2, <2>5, <2>6, Zenon
  <2>8. ASSUME NEW p \in Alloc!Pools, NEW b \in Blocks(p)
        PROVE  /\ IsFree(p, b)' <=> IsFree(p, b) /\ ~ (p = P /\ b = B)
               /\ Out(p, b)' <=> Out(p, b)
               /\ \A u \in Threads : Has(u, p, b)' <=> Has(u, p, b) \/ (u = t /\ p = P /\ b = B)
    <3>1. b \div WordBits \in WordsOf(p)
      BY Constants, Zenon
    <3>2. IsFree(p, b)' <=> b % WordBits \in bitmap'[p][b \div WordBits]
      BY Zenon DEF IsFree
    <3>3. IsFree(p, b)' <=> IsFree(p, b) /\ ~ (p = P /\ b = B)
      <4>1. CASE p # P
        BY <2>5, <3>2, <4>1, Zenon DEF IsFree
      <4>2. CASE p = P /\ b \div WordBits # w
        BY <2>2, <2>7, <3>1, <3>2, <4>2, Zenon DEF IsFree
      <4>3. CASE p = P /\ b \div WordBits = w
        <5>1. b % WordBits = i <=> b = B
          BY <2>2, <4>3, Zenon
        <5> QED BY <1>4, <2>7, <3>2, <4>3, <5>1, Zenon DEF IsFree
      <4> QED BY <4>1, <4>2, <4>3, Zenon
    <3>4. Out(p, b)' <=> Out(p, b)
      BY <1>1, Zenon DEF Out, Alloc!as_mut_ptr
    <3>5. ASSUME NEW u \in Threads
          PROVE  Has(u, p, b)' <=> Has(u, p, b) \/ (u = t /\ p = P /\ b = B)
      <4>1. CASE u # t
        BY <2>4, <4>1, Zenon DEF Has
      <4>2. CASE u = t
        <5>1. ~ Has(t, p, b)
          BY <1>1 DEF Has, Holding, c
        <5>2. Has(t, p, b)' <=> P = p /\ B = b
          BY <2>3, <2>4, Zenon DEF Has, Holding
        <5> QED BY <4>2, <5>1, <5>2, Zenon
      <4> QED BY <4>1, <4>2, Zenon
    <3> QED BY <3>3, <3>4, <3>5, Zenon
  <2>9. IsFree(P, B)
    BY <1>4, <2>1, <2>2, Zenon DEF IsFree
  <2>a. Owned'
    <3> SUFFICES ASSUME NEW p \in Alloc!Pools, NEW b \in Blocks(p)
                 PROVE  Exclusive(p, b)'
      BY Zenon DEF Owned, Blocks
    <3>1. Exclusive(p, b) /\ (p = P /\ b = B => IsFree(p, b))
      BY <2>9, Zenon DEF AllocInv, Owned
    <3> QED BY <2>8, <3>1, Zenon DEF Exclusive
  <2>b. AllocType'
    <3>1. CallOK(n)
      BY <1>2, <2>2, <2>3 DEF CallOK, Holding
    <3>2. \A u \in Threads : CallOK(thread'[u])
      BY <2>4, <3>1, Zenon DEF AllocInv, AllocType
    <3>3. (\A u \in Threads : CallOK(thread[u]))'
      BY <3>2, Zenon DEF CallOK
    <3>4. \A p \in Alloc!Pools : bitmap'[p] \in [WordsOf(p) -> SUBSET Bits]
      BY <2>5, <2>6, <2>7, Zenon
    <3> QED BY <1>1, <2>4, <2>5, <3>3, <3>4, Zenon DEF AllocInv, AllocType
  <2>c. ASSUME NEW p \in Alloc!Pools PROVE Tallied(p)'
    <3>1. Alloc!Handed(p)' = Alloc!Handed(p)
      BY <1>1, Zenon DEF Alloc!Handed
    <3>2. Busy(p)' = Busy(p)
      <4>1. ~ (thread[t].pc \in Counted) /\ ~ (thread'[t].pc \in Counted)
        BY <1>1, <2>3, <2>4 DEF c, Counted
      <4> QED BY <2>4, <4>1, Zenon DEF Busy
    <3>3. Tallied(p)
      BY Zenon DEF AllocInv
    <3>6. Balanced(p)'
      <4>1. ~ (thread[t].pc \in Between) /\ ~ (thread'[t].pc \in Between)
        BY <1>1, <2>3, <2>4 DEF c, Between
      <4> QED BY <1>1, <2>4, <3>3, <4>1, BalanceKept, Zenon DEF Tallied
    <3>4. ASSUME NEW u \in Threads, thread[u].pc = "counted" PROVE thread'[u] = thread[u]
      <4>1. u # t
        BY <1>1, <3>4 DEF c
      <4> QED BY <2>4, <4>1, Zenon
    <3>5. \/ count'[p].in_use <= count'[p].peak
          \/ \E u \in Threads : /\ thread'[u].pc = "counted" /\ thread'[u].pool = p
                                 /\ count'[p].in_use <= thread'[u].in_use_after
      BY <1>1, <3>3, <3>4, Zenon DEF Tallied
    <3> QED BY <1>1, <3>1, <3>2, <3>3, <3>5, <3>6, Zenon DEF Tallied
  <2> QED BY <2>a, <2>b, <2>c, Zenon DEF AllocInv
<1> QED BY <1>1, <1>3, <1>4, Zenon

(* What a step does to the record of one thread. *)
LEMMA CallsKept ==
    ASSUME AllocInv, NEW t \in Threads, NEW n, Alloc!Go(t, n), CallOK(n)
    PROVE  /\ thread'[t] = n /\ \A u \in Threads : u # t => thread'[u] = thread[u]
           /\ thread' = [u \in Threads |-> thread'[u]]
           /\ (\A u \in Threads : CallOK(thread[u]))'
<1>1. /\ thread'[t] = n /\ \A u \in Threads : u # t => thread'[u] = thread[u]
      /\ thread' = [u \in Threads |-> thread'[u]]
  BY GoTo, Zenon DEF AllocInv
<1>2. \A u \in Threads : CallOK(thread'[u])
  BY <1>1, Zenon DEF AllocInv, AllocType
<1>3. (\A u \in Threads : CallOK(thread[u]))'
  BY <1>2, Zenon DEF CallOK
<1> QED BY <1>1, <1>3, Zenon

(* The counters of one pool change. *)
LEMMA CountKept ==
    ASSUME AllocInv, NEW P \in Alloc!Pools, NEW r,
           count' = [count EXCEPT ![P] = r],
           r \in Tally
    PROVE  /\ count' \in [Alloc!Pools -> Tally]
           /\ count'[P] = r /\ \A p \in Alloc!Pools : p # P => count'[p] = count[p]
<1>1. count \in [Alloc!Pools -> Tally]
  BY Zenon DEF AllocInv, AllocType
<1> QED BY <1>1, Zenon

(* One of the counters of a pool changes. *)
LEMMA TallyAllocs ==
    ASSUME NEW k \in Tally, NEW m \in Int, NEW r, r = [k EXCEPT !.allocs = m]
    PROVE  /\ r \in Tally
           /\ r.allocs = m /\ r.deallocs = k.deallocs
           /\ r.in_use = k.in_use /\ r.peak = k.peak
<1>1. r \in Tally
  BY DEF Tally
<1>2. r.allocs = m
  BY DEF Tally
<1>3. r.deallocs = k.deallocs
  BY DEF Tally
<1>4. r.in_use = k.in_use
  BY DEF Tally
<1>5. r.peak = k.peak
  BY DEF Tally
<1> QED BY <1>1, <1>2, <1>3, <1>4, <1>5, Zenon

LEMMA TallyDeallocs ==
    ASSUME NEW k \in Tally, NEW m \in Int, NEW r, r = [k EXCEPT !.deallocs = m]
    PROVE  /\ r \in Tally
           /\ r.allocs = k.allocs /\ r.deallocs = m
           /\ r.in_use = k.in_use /\ r.peak = k.peak
<1>1. r \in Tally
  BY DEF Tally
<1>2. r.allocs = k.allocs
  BY DEF Tally
<1>3. r.deallocs = m
  BY DEF Tally
<1>4. r.in_use = k.in_use
  BY DEF Tally
<1>5. r.peak = k.peak
  BY DEF Tally
<1> QED BY <1>1, <1>2, <1>3, <1>4, <1>5, Zenon

LEMMA TallyInUse ==
    ASSUME NEW k \in Tally, NEW m \in Int, NEW r, r = [k EXCEPT !.in_use = m]
    PROVE  /\ r \in Tally
           /\ r.allocs = k.allocs /\ r.deallocs = k.deallocs
           /\ r.in_use = m /\ r.peak = k.peak
<1>1. r \in Tally
  BY DEF Tally
<1>2. r.allocs = k.allocs
  BY DEF Tally
<1>3. r.deallocs = k.deallocs
  BY DEF Tally
<1>4. r.in_use = m
  BY DEF Tally
<1>5. r.peak = k.peak
  BY DEF Tally
<1> QED BY <1>1, <1>2, <1>3, <1>4, <1>5, Zenon

LEMMA TallyPeak ==
    ASSUME NEW k \in Tally, NEW m \in Int, NEW r, r = [k EXCEPT !.peak = m]
    PROVE  /\ r \in Tally
           /\ r.allocs = k.allocs /\ r.deallocs = k.deallocs
           /\ r.in_use = k.in_use /\ r.peak = m
<1>1. r \in Tally
  BY DEF Tally
<1>2. r.allocs = k.allocs
  BY DEF Tally
<1>3. r.deallocs = k.deallocs
  BY DEF Tally
<1>4. r.in_use = k.in_use
  BY DEF Tally
<1>5. r.peak = m
  BY DEF Tally
<1> QED BY <1>1, <1>2, <1>3, <1>4, <1>5, Zenon

Tallies(P, r) == count' = [count EXCEPT ![P] = r]

(* What a call goes on with when it changes a counter of its pool. *)
Follows(n, c, P) ==
    /\ c.pool = P
    /\ n.pc \in Holding <=> c.pc \in Holding
    /\ n.pc \in Holding => n.block = c.block
    /\ n.pc \in Holding \cup Counted => n.pool = P

(* A call changes a counter of its pool: the blocks stay where they are,  *)
(* and the other pool is as it was.                                       *)
LEMMA CounterStep ==
    ASSUME AllocInv, NEW t \in Threads, NEW n, CallOK(n), Alloc!Go(t, n),
           bitmap' = bitmap, live' = live,
           NEW P \in Alloc!Pools, NEW r \in Tally, Tallies(P, r),
           Follows(n, thread[t], P)
    PROVE  /\ AllocType' /\ Owned'
           /\ \A p \in Alloc!Pools : p # P => Tallied(p)'
           /\ \A p : Alloc!Handed(p)' = Alloc!Handed(p)
           /\ thread'[t] = n /\ \A u \in Threads : u # t => thread'[u] = thread[u]
           /\ count'[P] = r
<1>1. /\ thread'[t] = n /\ \A u \in Threads : u # t => thread'[u] = thread[u]
      /\ thread' = [u \in Threads |-> thread'[u]]
      /\ (\A u \in Threads : CallOK(thread[u]))'
  BY CallsKept, Zenon
<1>2. /\ count' \in [Alloc!Pools -> Tally]
      /\ count'[P] = r /\ \A p \in Alloc!Pools : p # P => count'[p] = count[p]
  BY CountKept, Zenon DEF Tallies
<1>3. AllocType'
  BY <1>1, <1>2, Zenon DEF AllocInv, AllocType
<1>4. Owned'
  <2> SUFFICES ASSUME NEW p \in Alloc!Pools, NEW b \in Blocks(p)
               PROVE  Exclusive(p, b)'
    BY Zenon DEF Owned, Blocks
  <2>1. (IsFree(p, b)' <=> IsFree(p, b)) /\ (Out(p, b)' <=> Out(p, b))
    BY Zenon DEF IsFree, Out, Alloc!as_mut_ptr
  <2>2. ASSUME NEW u \in Threads PROVE Has(u, p, b)' <=> Has(u, p, b)
    <3>1. CASE u # t
      BY <1>1, <3>1, Zenon DEF Has
    <3>2. CASE u = t
      BY <1>1, <3>2, Zenon DEF Has, Follows
    <3> QED BY <3>1, <3>2, Zenon
  <2>3. Exclusive(p, b)
    BY Zenon DEF AllocInv, Owned
  <2> QED BY <2>1, <2>2, <2>3, Zenon DEF Exclusive
<1>5. \A p : Alloc!Handed(p)' = Alloc!Handed(p)
  BY Zenon DEF Alloc!Handed
<1>6. ASSUME NEW p \in Alloc!Pools, p # P PROVE Tallied(p)'
  <2>1. Tallied(p) /\ count'[p] = count[p]
    BY <1>2, <1>6, Zenon DEF AllocInv
  <2>2. thread[t].pool # p /\ (thread'[t].pc \in Holding \cup Counted => thread'[t].pool # p)
    BY <1>1, <1>6, Zenon DEF Follows
  <2>3. Busy(p)' = Busy(p)
    BY <1>1, <2>2, Zenon DEF Busy
  <2>4. \/ count'[p].in_use <= count'[p].peak
        \/ \E u \in Threads : /\ thread'[u].pc = "counted" /\ thread'[u].pool = p
                               /\ count'[p].in_use <= thread'[u].in_use_after
    BY <1>1, <2>1, <2>2, Zenon DEF Tallied
  <2>5. Balanced(p)'
    <3>1. thread'[t].pc \in Between => thread'[t].pool # p
      BY <2>2, Zenon DEF Between, Holding, Counted
    <3> QED BY <1>1, <2>1, <2>2, <3>1, BalanceKept, Zenon DEF Tallied
  <2> QED BY <1>5, <2>1, <2>3, <2>4, <2>5, Zenon DEF Tallied
<1> QED BY <1>1, <1>2, <1>3, <1>4, <1>5, <1>6, Zenon

(* The calls at a step, when one enters or leaves it. *)
LEMMA AtStep ==
    ASSUME Counting, Alloc!Layout, NEW p \in Alloc!Pools, NEW t \in Threads, NEW s,
           \A u \in Threads : u # t => thread'[u] = thread[u]
    PROVE  /\ Cardinality(At(p, s)) \in Nat
           /\ thread[t].pc # s /\ thread'[t].pc = s /\ thread'[t].pool = p
                => Cardinality(At(p, s)') = Cardinality(At(p, s)) + 1
           /\ thread[t].pc = s /\ thread[t].pool = p /\ thread'[t].pc # s
                => Cardinality(At(p, s)') = Cardinality(At(p, s)) - 1
           /\ thread[t].pc # s /\ thread'[t].pc # s => At(p, s)' = At(p, s)
<1>1. IsFiniteSet(At(p, s)) /\ Cardinality(At(p, s)) \in Nat
  BY Finite, Zenon
<1>2. ASSUME thread[t].pc # s, thread'[t].pc = s, thread'[t].pool = p
      PROVE  Cardinality(At(p, s)') = Cardinality(At(p, s)) + 1
  <2>1. At(p, s)' = At(p, s) \cup {t} /\ t \notin At(p, s)
    BY <1>2, Zenon DEF At
  <2> QED BY <1>1, <2>1, Zenon DEF Counting
<1>3. ASSUME thread[t].pc = s, thread[t].pool = p, thread'[t].pc # s
      PROVE  Cardinality(At(p, s)') = Cardinality(At(p, s)) - 1
  <2>1. t \in At(p, s)
    BY <1>3, Zenon DEF At
  <2>2. At(p, s)' = At(p, s) \ {t}
    BY <1>3, Zenon DEF At
  <2> QED BY <1>1, <2>1, <2>2, Zenon DEF Counting
<1>4. ASSUME thread[t].pc # s, thread'[t].pc # s PROVE At(p, s)' = At(p, s)
  BY <1>4, Zenon DEF At
<1> QED BY <1>1, <1>2, <1>3, <1>4, Zenon

(* alloc_count: in_use lags behind by one call more. *)
LEMMA AllocCount ==
    ASSUME Counting, Alloc!Layout, AllocInv, NEW t \in Threads, Alloc!Count(t)
    PROVE  AllocInv'
<1> DEFINE c == thread[t]
           P == c.pool
           k == count[P]
           m == k.allocs + 1
           r == [k EXCEPT !.allocs = m]
           n == [pc |-> "counting", pool |-> P, block |-> c.block]
<1>1. /\ c.pc = "claimed" /\ bitmap' = bitmap /\ live' = live /\ Alloc!Go(t, n)
      /\ count' = [count EXCEPT ![c.pool].allocs = @ + 1]
  BY Zenon DEF Alloc!Count
<1>2. P \in Alloc!Pools /\ c.block \in Blocks(P)
  BY <1>1, Zenon DEF AllocInv, AllocType, CallOK, Holding
<1>3. count \in [Alloc!Pools -> Tally] /\ k \in Tally
  BY <1>2, Zenon DEF AllocInv, AllocType
<1>4. count' = [count EXCEPT ![P] = r]
  BY <1>1, <1>2, <1>3, Zenon
<1>5. k.in_use \in Int /\ k.allocs \in Int /\ m \in Int /\ k.deallocs \in Int /\ k.peak \in Int
  BY <1>3 DEF Tally
<1>6. n.pc = "counting" /\ n.pool = P /\ n.block = c.block
  BY Zenon
<1>7. PICK kk, rr, mm : kk = k /\ rr = r /\ mm = m
  BY Zenon
<1>8. kk \in Tally /\ mm \in Int /\ rr = [kk EXCEPT !.allocs = mm]
  BY <1>3, <1>5, <1>7, Zenon
<1> HIDE DEF c, P, k, m, r, n
<1>9. /\ r \in Tally /\ r.allocs = m /\ r.deallocs = k.deallocs
      /\ r.in_use = k.in_use /\ r.peak = k.peak
  <2>1. /\ rr \in Tally /\ rr.allocs = mm /\ rr.deallocs = kk.deallocs
        /\ rr.in_use = kk.in_use /\ rr.peak = kk.peak
    BY <1>8, TallyAllocs
  <2> QED BY <1>7, <2>1, Zenon
<1>a. CallOK(n)
  BY <1>2, <1>6 DEF CallOK, Holding
<1>b. /\ AllocType' /\ Owned' /\ \A p \in Alloc!Pools : p # P => Tallied(p)'
      /\ \A p : Alloc!Handed(p)' = Alloc!Handed(p)
      /\ thread'[t] = n /\ \A u \in Threads : u # t => thread'[u] = thread[u]
      /\ count'[P] = r
  <2>1. /\ thread[t].pool = P /\ n.pc \in Holding /\ thread[t].pc \in Holding
        /\ n.block = thread[t].block /\ n.pool = P
    BY <1>1, <1>6, Zenon DEF Holding, c, P
  <2>2. Follows(n, thread[t], P)
    BY <2>1, Zenon DEF Follows
  <2>3. /\ bitmap' = bitmap /\ live' = live /\ Alloc!Go(t, n) /\ Tallies(P, r)
        /\ P \in Alloc!Pools /\ r \in Tally
    BY <1>1, <1>2, <1>4, <1>9, Zenon DEF Tallies
  <2>4. PICK nn, pp, qq : nn = n /\ pp = P /\ qq = r
    BY Zenon
  <2>5. /\ bitmap' = bitmap /\ live' = live /\ Alloc!Go(t, nn) /\ Tallies(pp, qq)
        /\ pp \in Alloc!Pools /\ qq \in Tally /\ CallOK(nn) /\ Follows(nn, thread[t], pp)
    BY <1>a, <2>2, <2>3, <2>4, Zenon
  <2>6. /\ AllocType' /\ Owned' /\ \A p \in Alloc!Pools : p # pp => Tallied(p)'
        /\ \A p : Alloc!Handed(p)' = Alloc!Handed(p)
        /\ thread'[t] = nn /\ \A u \in Threads : u # t => thread'[u] = thread[u]
        /\ count'[pp] = qq
    BY <2>5, CounterStep
  <2> QED BY <2>4, <2>6, Zenon
<1>c. ASSUME NEW q \in Alloc!Pools, q = P PROVE Tallied(q)'
  <2>1. Tallied(q)
    BY Zenon DEF AllocInv
  <2>2. thread[t].pc = "claimed" /\ thread'[t].pc = "counting" /\ thread'[t].pool = q
    BY <1>1, <1>6, <1>b, <1>c, Zenon DEF c
  <2>3. /\ Cardinality(At(q, "counting")') = Cardinality(At(q, "counting")) + 1
        /\ Cardinality(At(q, "counting")) \in Nat /\ Cardinality(At(q, "uncounting")) \in Nat
        /\ At(q, "uncounting")' = At(q, "uncounting")
    <3>1. /\ thread[t].pc # "counting" /\ thread[t].pc # "uncounting"
          /\ thread'[t].pc = "counting" /\ thread'[t].pc # "uncounting"
      BY <2>2
    <3> QED BY <1>b, <2>2, <3>1, AtStep, Zenon
  <2>4. Balanced(q)'
    <3> DEFINE a == Cardinality(At(q, "counting"))
               b == Cardinality(At(q, "uncounting"))
    <3>1. k.in_use + a = k.allocs - k.deallocs + b /\ a \in Nat /\ b \in Nat
      BY <1>c, <2>1, <2>3, Zenon DEF Tallied, Balanced, k
    <3> HIDE DEF a, b
    <3>2. k.in_use + (a + 1) = (k.allocs + 1) - k.deallocs + b
      BY <1>5, <3>1
    <3>3. r.in_use + (a + 1) = r.allocs - r.deallocs + b
      BY <1>9, <3>2, Zenon DEF m
    <3> QED BY <1>b, <1>c, <2>3, <3>3, Zenon DEF Balanced, a, b
  <2>5. Busy(q)' = Busy(q)
    <3>1. ~ (thread[t].pc \in Counted) /\ ~ (thread'[t].pc \in Counted)
      BY <2>2 DEF Counted
    <3> QED BY <1>b, <3>1, Zenon DEF Busy
  <2>6. ASSUME NEW u \in Threads, thread[u].pc = "counted" PROVE thread'[u] = thread[u]
    <3>1. u # t
      BY <2>2, <2>6
    <3> QED BY <1>b, <3>1, Zenon
  <2>7. count'[q].in_use = count[q].in_use /\ count'[q].peak = count[q].peak
    BY <1>9, <1>b, <1>c, Zenon DEF k
  <2>8. \/ count'[q].in_use <= count'[q].peak
        \/ \E u \in Threads : /\ thread'[u].pc = "counted" /\ thread'[u].pool = q
                               /\ count'[q].in_use <= thread'[u].in_use_after
    BY <2>1, <2>6, <2>7, Zenon DEF Tallied
  <2> QED BY <1>b, <1>c, <2>1, <2>4, <2>5, <2>7, <2>8, Zenon DEF Tallied
<1> QED BY <1>2, <1>b, <1>c, Zenon DEF AllocInv

(* in_use: the call joins those that are counted. *)
LEMMA AllocEnter ==
    ASSUME Counting, Alloc!Layout, AllocInv, NEW t \in Threads, Alloc!Enter(t)
    PROVE  AllocInv'
<1> DEFINE c == thread[t]
           P == c.pool
           k == count[P]
           m == k.in_use + 1
           r == [k EXCEPT !.in_use = m]
           n == [pc |-> "counted", pool |-> P, block |-> c.block, in_use_after |-> m]
<1>1. /\ c.pc = "counting" /\ bitmap' = bitmap /\ live' = live /\ Alloc!Go(t, n)
      /\ count' = [count EXCEPT ![c.pool].in_use = @ + 1]
  BY Zenon DEF Alloc!Enter
<1>2. P \in Alloc!Pools /\ c.block \in Blocks(P)
  BY <1>1, Zenon DEF AllocInv, AllocType, CallOK, Holding
<1>3. count \in [Alloc!Pools -> Tally] /\ k \in Tally
  BY <1>2, Zenon DEF AllocInv, AllocType
<1>4. count' = [count EXCEPT ![P] = r]
  BY <1>1, <1>2, <1>3, Zenon
<1>5. k.in_use \in Int /\ k.allocs \in Int /\ m \in Int /\ k.deallocs \in Int /\ k.peak \in Int
  BY <1>3 DEF Tally
<1>6. n.pc = "counted" /\ n.pool = P /\ n.block = c.block /\ n.in_use_after = m
  BY Zenon
<1>7. PICK kk, rr, mm : kk = k /\ rr = r /\ mm = m
  BY Zenon
<1>8. kk \in Tally /\ mm \in Int /\ rr = [kk EXCEPT !.in_use = mm]
  BY <1>3, <1>5, <1>7, Zenon
<1> HIDE DEF c, P, k, m, r, n
<1>9. /\ r \in Tally /\ r.allocs = k.allocs /\ r.deallocs = k.deallocs
      /\ r.in_use = m /\ r.peak = k.peak
  <2>1. /\ rr \in Tally /\ rr.allocs = kk.allocs /\ rr.deallocs = kk.deallocs
        /\ rr.in_use = mm /\ rr.peak = kk.peak
    BY <1>8, TallyInUse
  <2> QED BY <1>7, <2>1, Zenon
<1>a. CallOK(n)
  BY <1>2, <1>5, <1>6 DEF CallOK, Holding
<1>b. /\ AllocType' /\ Owned' /\ \A p \in Alloc!Pools : p # P => Tallied(p)'
      /\ \A p : Alloc!Handed(p)' = Alloc!Handed(p)
      /\ thread'[t] = n /\ \A u \in Threads : u # t => thread'[u] = thread[u]
      /\ count'[P] = r
  <2>1. /\ thread[t].pool = P /\ n.pc \in Holding /\ thread[t].pc \in Holding
        /\ n.block = thread[t].block /\ n.pool = P
    BY <1>1, <1>6, Zenon DEF Holding, c, P
  <2>2. Follows(n, thread[t], P)
    BY <2>1, Zenon DEF Follows
  <2>3. /\ bitmap' = bitmap /\ live' = live /\ Alloc!Go(t, n) /\ Tallies(P, r)
        /\ P \in Alloc!Pools /\ r \in Tally
    BY <1>1, <1>2, <1>4, <1>9, Zenon DEF Tallies
  <2>4. PICK nn, pp, qq : nn = n /\ pp = P /\ qq = r
    BY Zenon
  <2>5. /\ bitmap' = bitmap /\ live' = live /\ Alloc!Go(t, nn) /\ Tallies(pp, qq)
        /\ pp \in Alloc!Pools /\ qq \in Tally /\ CallOK(nn) /\ Follows(nn, thread[t], pp)
    BY <1>a, <2>2, <2>3, <2>4, Zenon
  <2>6. /\ AllocType' /\ Owned' /\ \A p \in Alloc!Pools : p # pp => Tallied(p)'
        /\ \A p : Alloc!Handed(p)' = Alloc!Handed(p)
        /\ thread'[t] = nn /\ \A u \in Threads : u # t => thread'[u] = thread[u]
        /\ count'[pp] = qq
    BY <2>5, CounterStep
  <2> QED BY <2>4, <2>6, Zenon
<1>c. ASSUME NEW q \in Alloc!Pools, q = P PROVE Tallied(q)'
  <2>1. Tallied(q)
    BY Zenon DEF AllocInv
  <2>2. /\ thread[t].pc = "counting" /\ thread[t].pool = q
        /\ thread'[t].pc = "counted" /\ thread'[t].pool = q /\ thread'[t].in_use_after = m
    BY <1>1, <1>6, <1>b, <1>c, Zenon DEF c, P
  <2>3. /\ Cardinality(At(q, "counting")') = Cardinality(At(q, "counting")) - 1
        /\ Cardinality(At(q, "counting")) \in Nat /\ Cardinality(At(q, "uncounting")) \in Nat
        /\ At(q, "uncounting")' = At(q, "uncounting")
    <3>1. /\ thread[t].pc = "counting" /\ thread[t].pc # "uncounting"
          /\ thread'[t].pc # "counting" /\ thread'[t].pc # "uncounting"
      BY <2>2
    <3> QED BY <1>b, <2>2, <3>1, AtStep, Zenon
  <2>4. Balanced(q)'
    <3> DEFINE a == Cardinality(At(q, "counting"))
               b == Cardinality(At(q, "uncounting"))
    <3>1. k.in_use + a = k.allocs - k.deallocs + b /\ a \in Nat /\ b \in Nat
      BY <1>c, <2>1, <2>3, Zenon DEF Tallied, Balanced, k
    <3> HIDE DEF a, b
    <3>2. (k.in_use + 1) + (a - 1) = k.allocs - k.deallocs + b
      BY <1>5, <3>1
    <3>3. r.in_use + (a - 1) = r.allocs - r.deallocs + b
      BY <1>9, <3>2, Zenon DEF m
    <3> QED BY <1>b, <1>c, <2>3, <3>3, Zenon DEF Balanced, a, b
  <2>5. Busy(q)' = Busy(q) \cup {t} /\ t \notin Busy(q)
    <3>1. ~ (thread[t].pc \in Counted) /\ thread'[t].pc \in Counted
      BY <2>2 DEF Counted
    <3> QED BY <1>b, <2>2, <3>1, Zenon DEF Busy
  <2>6. /\ Cardinality(Busy(q)') = Cardinality(Busy(q)) + 1 /\ Cardinality(Busy(q)) \in Nat
        /\ Cardinality(Alloc!Handed(q)) \in Nat
    BY <2>5, Finite, Zenon DEF Counting
  <2>7. k.in_use = Cardinality(Alloc!Handed(q)) + Cardinality(Busy(q))
    BY <1>c, <2>1, Zenon DEF Tallied, k
  <2>8. r.in_use = Cardinality(Alloc!Handed(q)) + Cardinality(Busy(q)')
    BY <1>9, <2>6, <2>7 DEF m
  <2>9. m <= m
    BY <1>5
  <2>a. \E u \in Threads : /\ thread'[u].pc = "counted" /\ thread'[u].pool = q
                           /\ count'[q].in_use <= thread'[u].in_use_after
    BY <1>9, <1>b, <1>c, <2>2, <2>9, Zenon
  <2> QED BY <1>b, <1>c, <2>4, <2>8, <2>a, Zenon DEF Tallied
<1> QED BY <1>2, <1>b, <1>c, Zenon DEF AllocInv

LEMMA HighWater ==
    ASSUME NEW a \in Int, NEW b \in Int
    PROVE  /\ Alloc!Max({a, b}) \in Int
           /\ a <= Alloc!Max({a, b}) /\ b <= Alloc!Max({a, b})
<1>1. \E x \in {a, b} : \A y \in {a, b} : x >= y
  <2>1. CASE a >= b
    BY <2>1
  <2>2. CASE b >= a
    BY <2>2
  <2> QED BY <2>1, <2>2
<1>2. /\ Alloc!Max({a, b}) \in {a, b}
      /\ \A y \in {a, b} : Alloc!Max({a, b}) >= y
  BY <1>1, Zenon DEF Alloc!Max
<1> DEFINE m == Alloc!Max({a, b})
<1> HIDE DEF m
<1>3. m \in {a, b} /\ m >= a /\ m >= b
  BY <1>2, Zenon DEF m
<1>4. m \in Int /\ a <= m /\ b <= m
  BY <1>3
<1> QED BY <1>4, Zenon DEF m

(* The pointer is returned: the block passes from the call to the program. *)
LEMMA AllocReturn ==
    ASSUME Counting, Alloc!Layout, AllocInv, NEW t \in Threads, Alloc!Return(t)
    PROVE  AllocInv'
<1> DEFINE c == thread[t]
           P == c.pool
           B == c.block
           k == count[P]
           m == Alloc!Max({k.peak, c.in_use_after})
           r == [k EXCEPT !.peak = m]
           n == Alloc!Idle
<1>1. /\ c.pc = "counted" /\ bitmap' = bitmap /\ Alloc!Go(t, n)
      /\ live' = live \cup {Alloc!as_mut_ptr(P, B)}
      /\ count' = [count EXCEPT ![c.pool].peak = Alloc!Max({@, c.in_use_after})]
  BY Zenon DEF Alloc!Return
<1>2. P \in Alloc!Pools /\ B \in Blocks(P) /\ c.in_use_after \in Int
  BY <1>1, Zenon DEF AllocInv, AllocType, CallOK, Holding
<1>3. count \in [Alloc!Pools -> Tally] /\ k \in Tally
  BY <1>2, Zenon DEF AllocInv, AllocType
<1>4. count' = [count EXCEPT ![P] = r]
  BY <1>1, <1>2, <1>3, Zenon
<1>5. k.in_use \in Int /\ k.allocs \in Int /\ k.deallocs \in Int /\ k.peak \in Int
  BY <1>3 DEF Tally
<1>6. n.pc = "idle"
  BY Zenon DEF Alloc!Idle
<1>7. m \in Int /\ k.peak <= m /\ c.in_use_after <= m
  BY <1>2, <1>5, HighWater, Zenon
<1>8. r \in Tally /\ r.in_use = k.in_use /\ r.allocs = k.allocs /\ r.deallocs = k.deallocs /\ r.peak = m
  <2>1. PICK kk, rr, mm : kk = k /\ rr = r /\ mm = m
    BY Zenon
  <2>2. kk \in Tally /\ mm \in Int /\ rr = [kk EXCEPT !.peak = mm]
    BY <1>3, <1>7, <2>1, Zenon
  <2> HIDE DEF k, r, m
  <2>3. /\ rr \in Tally
        /\ rr.allocs = kk.allocs /\ rr.deallocs = kk.deallocs
        /\ rr.in_use = kk.in_use /\ rr.peak = mm
    BY <2>2, TallyPeak
  <2> QED BY <2>1, <2>3, Zenon
<1> HIDE DEF c, P, B, k, r, n, m
<1>9. CallOK(n)
  BY <1>6 DEF CallOK, Holding
<1>a. /\ thread'[t] = n /\ \A u \in Threads : u # t => thread'[u] = thread[u]
      /\ thread' = [u \in Threads |-> thread'[u]]
      /\ (\A u \in Threads : CallOK(thread[u]))'
  BY <1>1, <1>9, CallsKept, Zenon
<1>b. /\ count' \in [Alloc!Pools -> Tally]
      /\ count'[P] = r /\ \A p \in Alloc!Pools : p # P => count'[p] = count[p]
  BY <1>2, <1>4, <1>8, CountKept, Zenon
<1>c. AllocType'
  <2>1. \A ptr \in live' : \E p \in Alloc!Pools : \E b \in Blocks(p) : ptr = Alloc!as_mut_ptr(p, b)
    BY <1>1, <1>2, Zenon DEF AllocInv, AllocType
  <2> QED BY <1>1, <1>a, <1>b, <2>1, Zenon DEF AllocInv, AllocType, Blocks, Alloc!as_mut_ptr
<1>d. Has(t, P, B) /\ \A p, b : Has(t, p, b) => p = P /\ b = B
  BY <1>1, Zenon DEF Has, Holding, c, P, B
<1>e. ASSUME NEW p \in Alloc!Pools, NEW b \in Blocks(p)
      PROVE  /\ IsFree(p, b)' <=> IsFree(p, b)
             /\ Out(p, b)' <=> Out(p, b) \/ (p = P /\ b = B)
             /\ \A u \in Threads : Has(u, p, b)' <=> Has(u, p, b) /\ u # t
  <2>1. IsFree(p, b)' <=> IsFree(p, b)
    BY <1>1, Zenon DEF IsFree
  <2>2. Out(p, b)' <=> Out(p, b) \/ Alloc!as_mut_ptr(p, b) = Alloc!as_mut_ptr(P, B)
    BY <1>1, Zenon DEF Out, Alloc!as_mut_ptr
  <2>3. Alloc!as_mut_ptr(p, b) = Alloc!as_mut_ptr(P, B) <=> p = P /\ b = B
    BY <1>2, OnePointer, Zenon
  <2>4. ASSUME NEW u \in Threads PROVE Has(u, p, b)' <=> Has(u, p, b) /\ u # t
    <3>1. CASE u # t
      BY <1>a, <3>1, Zenon DEF Has
    <3>2. CASE u = t
      BY <1>6, <1>a, <3>2 DEF Has, Holding
    <3> QED BY <3>1, <3>2, Zenon
  <2> QED BY <2>1, <2>2, <2>3, <2>4, Zenon
<1>f. Exclusive(P, B) /\ ~ Out(P, B)
  BY <1>2, <1>d, Zenon DEF AllocInv, Owned, Exclusive
<1>g. Owned'
  <2> SUFFICES ASSUME NEW p \in Alloc!Pools, NEW b \in Blocks(p)
               PROVE  Exclusive(p, b)'
    BY Zenon DEF Owned, Blocks
  <2>1. Exclusive(p, b)
    BY Zenon DEF AllocInv, Owned
  <2>2. CASE p = P /\ b = B
    <3>1. /\ ~ IsFree(p, b)' /\ Out(p, b)'
          /\ \A u \in Threads : Has(u, p, b) => u = t
      BY <1>d, <1>e, <2>1, <2>2, Zenon DEF Exclusive
    <3>2. \A u \in Threads : ~ Has(u, p, b)'
      BY <1>e, <3>1, Zenon
    <3> QED BY <3>1, <3>2, Zenon DEF Exclusive
  <2>3. CASE ~ (p = P /\ b = B)
    <3>1. /\ IsFree(p, b)' <=> IsFree(p, b)
          /\ Out(p, b)' <=> Out(p, b)
          /\ ~ Has(t, p, b)
      BY <1>d, <1>e, <2>3, Zenon
    <3>2. \A u \in Threads : Has(u, p, b)' <=> Has(u, p, b)
      BY <1>e, <3>1, Zenon
    <3> QED BY <2>1, <3>1, <3>2, Zenon DEF Exclusive
  <2> QED BY <2>2, <2>3, Zenon
<1>h. ASSUME NEW p \in Alloc!Pools PROVE Tallied(p)'
  <2>1. Tallied(p)
    BY Zenon DEF AllocInv
  <2>4. ~ (thread[t].pc \in Between) /\ ~ (thread'[t].pc \in Between)
    BY <1>1, <1>6, <1>a DEF Between, c
  <2>2. CASE p # P
    <3>1. thread[t].pool # p
      BY <2>2, Zenon DEF c, P
    <3>2. Busy(p)' = Busy(p)
      <4>1. ~ (thread'[t].pc \in Counted)
        BY <1>6, <1>a DEF Counted
      <4> QED BY <1>a, <3>1, <4>1, Zenon DEF Busy
    <3>3. Alloc!Handed(p)' = Alloc!Handed(p)
      <4>1. \A b \in Blocks(p) : Alloc!as_mut_ptr(p, b) \in live' <=> Alloc!as_mut_ptr(p, b) \in live
        BY <1>e, <2>2, Zenon DEF Out, Alloc!as_mut_ptr
      <4> QED BY <4>1, Zenon DEF Alloc!Handed, Blocks, Alloc!as_mut_ptr
    <3>4. count'[p] = count[p]
      BY <1>b, <2>2, Zenon
    <3>5. \/ count'[p].in_use <= count'[p].peak
          \/ \E u \in Threads : /\ thread'[u].pc = "counted" /\ thread'[u].pool = p
                                 /\ count'[p].in_use <= thread'[u].in_use_after
      BY <1>a, <2>1, <3>1, <3>4, Zenon DEF Tallied
    <3>6. Balanced(p)'
      BY <1>a, <2>1, <2>4, <3>4, BalanceKept, Zenon DEF Tallied
    <3> QED BY <2>1, <3>2, <3>3, <3>4, <3>5, <3>6, Zenon DEF Tallied
  <2>3. CASE p = P
    <3>1. Busy(p)' = Busy(p) \ {t} /\ t \in Busy(p)
      <4>1. /\ thread[t].pc = "counted" /\ thread[t].pool = p
            /\ ~ (thread'[t].pc \in Counted)
        BY <1>1, <1>6, <1>a, <2>3 DEF c, P, Counted
      <4> QED BY <1>a, <4>1, Zenon DEF Busy, Counted
    <3>2. Alloc!Handed(p)' = Alloc!Handed(p) \cup {B} /\ B \notin Alloc!Handed(p)
      <4>1. \A b \in Blocks(p) : Alloc!as_mut_ptr(p, b) \in live' <=> Alloc!as_mut_ptr(p, b) \in live \/ b = B
        BY <1>e, <2>3, Zenon DEF Out, Alloc!as_mut_ptr
      <4>2. B \in Blocks(p)
        BY <1>2, <2>3, Zenon
      <4>3. Alloc!Handed(p)' = Alloc!Handed(p) \cup {B}
        BY <4>1, <4>2, Zenon DEF Alloc!Handed, Blocks, Alloc!as_mut_ptr
      <4> QED BY <1>f, <2>3, <4>3, Zenon DEF Alloc!Handed, Out
    <3>3. /\ Cardinality(Busy(p)') = Cardinality(Busy(p)) - 1 /\ Cardinality(Busy(p)) \in Nat
          /\ Cardinality(Alloc!Handed(p)') = Cardinality(Alloc!Handed(p)) + 1
          /\ Cardinality(Alloc!Handed(p)) \in Nat
      <4>1. Cardinality(Busy(p)') = Cardinality(Busy(p)) - 1 /\ Cardinality(Busy(p)) \in Nat
        BY <3>1, Finite, Zenon DEF Counting
      <4>2. /\ Cardinality(Alloc!Handed(p)') = Cardinality(Alloc!Handed(p)) + 1
            /\ Cardinality(Alloc!Handed(p)) \in Nat
        BY <3>2, Finite, Zenon DEF Counting
      <4> QED BY <4>1, <4>2, Zenon
    <3>4. k.in_use = Cardinality(Alloc!Handed(p)) + Cardinality(Busy(p))
      BY <2>1, <2>3, Zenon DEF Tallied, k
    <3>5. Balanced(p)'
      BY <1>8, <1>a, <1>b, <2>1, <2>3, <2>4, BalanceKept, Zenon DEF Tallied, k
    <3>6. r.in_use = Cardinality(Alloc!Handed(p)') + Cardinality(Busy(p)')
      BY <1>8, <3>3, <3>4
    <3>7. \/ r.in_use <= r.peak
          \/ \E u \in Threads : /\ thread'[u].pc = "counted" /\ thread'[u].pool = p
                                 /\ r.in_use <= thread'[u].in_use_after
      <4>2. ASSUME NEW u \in Threads, thread[u].pc = "counted", thread[u].pool = p,
                   k.in_use <= thread[u].in_use_after
            PROVE  \/ k.in_use <= m
                   \/ \E v \in Threads : /\ thread'[v].pc = "counted" /\ thread'[v].pool = p
                                 /\ k.in_use <= thread'[v].in_use_after
        <5>1. CASE u = t
          <6>1. k.in_use <= c.in_use_after
            BY <4>2, <5>1, Zenon DEF c
          <6>2. k.in_use <= m
            BY <1>2, <1>5, <1>7, <6>1
          <6> QED BY <6>2, Zenon
        <5>2. CASE u # t
          BY <1>a, <4>2, <5>2, Zenon
        <5> QED BY <5>1, <5>2, Zenon
      <4>3. \/ k.in_use <= k.peak
            \/ \E u \in Threads : /\ thread[u].pc = "counted" /\ thread[u].pool = p
                                 /\ k.in_use <= thread[u].in_use_after
        BY <2>1, <2>3, Zenon DEF Tallied, k
      <4>4. \/ k.in_use <= m
            \/ \E v \in Threads : /\ thread'[v].pc = "counted" /\ thread'[v].pool = p
                                 /\ k.in_use <= thread'[v].in_use_after
        <5>1. CASE k.in_use <= k.peak
          <6>1. k.in_use <= m
            BY <1>5, <1>7, <5>1
          <6> QED BY <6>1, Zenon
        <5> QED BY <4>2, <4>3, <5>1, Zenon
      <4> QED BY <1>8, <4>4, Zenon
    <3> QED BY <1>b, <2>3, <3>5, <3>6, <3>7, Zenon DEF Tallied
  <2> QED BY <2>2, <2>3, Zenon
<1> QED BY <1>c, <1>g, <1>h, Zenon DEF AllocInv

(* A block is freed: the pointer leads back to the pool and the block it *)
(* was made from, and only their bit is set.                             *)
LEMMA AllocDealloc ==
    ASSUME Counting, Alloc!Layout, AllocInv, NEW t \in Threads, NEW ptr \in live, Alloc!dealloc(t, ptr)
    PROVE  AllocInv'
<1>0. PICK P \in Alloc!Pools : \E b \in Blocks(P) : ptr = Alloc!as_mut_ptr(P, b)
  BY Zenon DEF AllocInv, AllocType
<1>1. PICK B \in Blocks(P) : ptr = Alloc!as_mut_ptr(P, B)
  BY <1>0, Zenon
<1>2. Alloc!owning_pool(ptr) = P /\ Alloc!block_index_of(P, ptr) = B
  BY <1>1, AddressesApart, Zenon
<1>3. /\ WordBits \in Nat \ {0} /\ B \in Nat /\ B \div WordBits \in WordsOf(P) /\ B % WordBits \in Bits
      /\ B < Alloc!BITMAP_WORDS(P) * WordBits /\ Alloc!BITMAP_WORDS(P) \in Nat
  BY <1>1, Constants, Zenon
<1>4. ~ (B >= Alloc!BITMAP_WORDS(P) * WordBits)
  <2> DEFINE x == Alloc!BITMAP_WORDS(P) * WordBits
  <2>1. x \in Nat /\ B < x
    BY <1>3, SMT
  <2> HIDE DEF x
  <2>2. ~ (B >= x)
    BY <1>3, <2>1
  <2> QED BY <2>2 DEF x
<1> DEFINE w == B \div WordBits
           i == B % WordBits
           n == [pc |-> "released", pool |-> P]
<1>5. /\ thread[t] = Alloc!Idle /\ live' = live \ {ptr} /\ count' = count /\ Alloc!Go(t, n)
      /\ bitmap' = [bitmap EXCEPT ![P][w] = @ \cup {i}]
  BY <1>2, <1>4, Zenon DEF Alloc!dealloc
<1>6. n.pc = "released" /\ n.pool = P
  BY Zenon
<1>7. thread[t].pc = "idle"
  BY <1>5 DEF Alloc!Idle
<1> HIDE DEF n
<1>8. CallOK(n)
  BY <1>1, <1>6 DEF CallOK, Holding
<1>9. /\ thread'[t] = n /\ \A u \in Threads : u # t => thread'[u] = thread[u]
      /\ thread' = [u \in Threads |-> thread'[u]]
      /\ (\A u \in Threads : CallOK(thread[u]))'
  BY <1>5, <1>8, CallsKept, Zenon
<1>a. \A p \in Alloc!Pools : bitmap[p] \in [WordsOf(p) -> SUBSET Bits]
  BY Zenon DEF AllocInv, AllocType
<1>b. /\ bitmap' = [p \in Alloc!Pools |-> bitmap'[p]]
      /\ \A p \in Alloc!Pools : p # P => bitmap'[p] = bitmap[p]
      /\ bitmap'[P] = [bitmap[P] EXCEPT ![w] = bitmap[P][w] \cup {i}]
  <2>1. bitmap = [p \in Alloc!Pools |-> bitmap[p]]
    BY Zenon DEF AllocInv, AllocType
  <2> HIDE DEF w, i
  <2> QED BY <1>1, <1>5, <2>1, Zenon
<1>c. w \in WordsOf(P) /\ i \in Bits
  BY <1>3, Zenon
<1>d. /\ \A b \in Blocks(P) : b \div WordBits = w /\ b % WordBits = i => b = B
  <2>1. ASSUME NEW b \in Blocks(P), b \div WordBits = w, b % WordBits = i PROVE b = B
    <3>1. b \in Nat
      BY Constants, <1>1, Zenon
    <3>2. /\ (b \div WordBits) * WordBits + (b % WordBits) = b
          /\ (B \div WordBits) * WordBits + (B % WordBits) = B
      BY <1>3, <3>1, Split, Zenon
    <3> QED BY <2>1, <3>2, Zenon
  <2> QED BY <2>1, Zenon
<1>e. B \div WordBits = w /\ B % WordBits = i
  BY Zenon
<1> HIDE DEF w, i
<1>f. /\ bitmap'[P] \in [WordsOf(P) -> SUBSET Bits] /\ bitmap'[P][w] = bitmap[P][w] \cup {i}
      /\ \A v \in WordsOf(P) : v # w => bitmap'[P][v] = bitmap[P][v]
  <2>1. bitmap[P] \in [WordsOf(P) -> SUBSET Bits] /\ bitmap[P][w] \cup {i} \in SUBSET Bits
    BY <1>1, <1>a, <1>c, Zenon
  <2> QED BY <1>b, <1>c, <2>1, Zenon
<1>g. AllocType'
  <2>1. \A p \in Alloc!Pools : bitmap'[p] \in [WordsOf(p) -> SUBSET Bits]
    BY <1>a, <1>b, <1>f, Zenon
  <2>2. \A q \in live' : \E p \in Alloc!Pools : \E b \in Blocks(p) : q = Alloc!as_mut_ptr(p, b)
    BY <1>5, Zenon DEF AllocInv, AllocType
  <2> QED BY <1>5, <1>9, <1>b, <2>1, <2>2, Zenon DEF AllocInv, AllocType
<1>h. ASSUME NEW p \in Alloc!Pools, NEW b \in Blocks(p)
      PROVE  /\ IsFree(p, b)' <=> IsFree(p, b) \/ (p = P /\ b = B)
             /\ Out(p, b)' <=> Out(p, b) /\ ~ (p = P /\ b = B)
             /\ \A u \in Threads : Has(u, p, b)' <=> Has(u, p, b)
  <2>1. b \div WordBits \in WordsOf(p)
    BY Constants, Zenon
  <2>2. IsFree(p, b)' <=> b % WordBits \in bitmap'[p][b \div WordBits]
    BY Zenon DEF IsFree
  <2>3. IsFree(p, b)' <=> IsFree(p, b) \/ (p = P /\ b = B)
    <3>1. CASE p # P
      BY <1>b, <2>2, <3>1, Zenon DEF IsFree
    <3>2. CASE p = P /\ b \div WordBits # w
      BY <1>e, <1>f, <2>1, <2>2, <3>2, Zenon DEF IsFree
    <3>3. CASE p = P /\ b \div WordBits = w
      <4>1. b % WordBits = i <=> b = B
        BY <1>d, <1>e, <3>3, Zenon
      <4> QED BY <1>f, <2>2, <3>3, <4>1, Zenon DEF IsFree
    <3> QED BY <3>1, <3>2, <3>3, Zenon
  <2>4. Alloc!as_mut_ptr(p, b) = ptr <=> p = P /\ b = B
    BY <1>1, OnePointer, Zenon
  <2>5. Out(p, b)' <=> Out(p, b) /\ ~ (p = P /\ b = B)
    BY <1>5, <2>4, Zenon DEF Out, Alloc!as_mut_ptr
  <2>6. ASSUME NEW u \in Threads PROVE Has(u, p, b)' <=> Has(u, p, b)
    <3>1. CASE u # t
      BY <1>9, <3>1, Zenon DEF Has
    <3>2. CASE u = t
      BY <1>6, <1>7, <1>9, <3>2 DEF Has, Holding
    <3> QED BY <3>1, <3>2, Zenon
  <2> QED BY <2>3, <2>5, <2>6, Zenon
<1>i. Out(P, B)
  BY <1>1, Zenon DEF Out
<1>j. Owned'
  <2> SUFFICES ASSUME NEW p \in Alloc!Pools, NEW b \in Blocks(p)
               PROVE  Exclusive(p, b)'
    BY Zenon DEF Owned, Blocks
  <2>1. Exclusive(p, b)
    BY Zenon DEF AllocInv, Owned
  <2>2. CASE p = P /\ b = B
    <3>1. Out(p, b)
      BY <1>i, <2>2, Zenon
    <3>2. IsFree(p, b)' /\ ~ Out(p, b)' /\ \A u \in Threads : ~ Has(u, p, b)'
      BY <1>h, <2>1, <2>2, <3>1, Zenon DEF Exclusive
    <3> QED BY <3>2, Zenon DEF Exclusive
  <2>3. CASE ~ (p = P /\ b = B)
    <3>1. /\ IsFree(p, b)' <=> IsFree(p, b)
          /\ Out(p, b)' <=> Out(p, b)
          /\ \A u \in Threads : Has(u, p, b)' <=> Has(u, p, b)
      BY <1>h, <2>3, Zenon
    <3> QED BY <2>1, <3>1, Zenon DEF Exclusive
  <2> QED BY <2>2, <2>3, Zenon
<1>k. ASSUME NEW p \in Alloc!Pools PROVE Tallied(p)'
  <2>1. Tallied(p) /\ count'[p] = count[p]
    BY <1>5, Zenon DEF AllocInv
  <2>2. ASSUME NEW u \in Threads, thread[u].pc = "counted" PROVE thread'[u] = thread[u]
    <3>1. u # t
      BY <1>7, <2>2
    <3> QED BY <1>9, <3>1, Zenon
  <2>3. \/ count'[p].in_use <= count'[p].peak
        \/ \E u \in Threads : /\ thread'[u].pc = "counted" /\ thread'[u].pool = p
                               /\ count'[p].in_use <= thread'[u].in_use_after
    BY <2>1, <2>2, Zenon DEF Tallied
  <2>6. Balanced(p)'
    <3>1. ~ (thread[t].pc \in Between) /\ ~ (thread'[t].pc \in Between)
      BY <1>6, <1>7, <1>9 DEF Between
    <3> QED BY <1>9, <2>1, <3>1, BalanceKept, Zenon DEF Tallied
  <2>4. CASE p # P
    <3>1. Busy(p)' = Busy(p)
      <4>1. ~ (thread[t].pc \in Counted) /\ thread'[t].pool # p
        BY <1>6, <1>7, <1>9, <2>4 DEF Counted
      <4> QED BY <1>9, <4>1, Zenon DEF Busy
    <3>2. Alloc!Handed(p)' = Alloc!Handed(p)
      <4>1. \A b \in Blocks(p) : Alloc!as_mut_ptr(p, b) \in live' <=> Alloc!as_mut_ptr(p, b) \in live
        BY <1>h, <2>4, Zenon DEF Out, Alloc!as_mut_ptr
      <4> QED BY <4>1, Zenon DEF Alloc!Handed, Blocks, Alloc!as_mut_ptr
    <3> QED BY <2>1, <2>3, <2>6, <3>1, <3>2, Zenon DEF Tallied
  <2>5. CASE p = P
    <3>1. Busy(p)' = Busy(p) \cup {t} /\ t \notin Busy(p)
      <4>1. ~ (thread[t].pc \in Counted) /\ thread'[t].pc \in Counted /\ thread'[t].pool = p
        BY <1>6, <1>7, <1>9, <2>5 DEF Counted
      <4> QED BY <1>9, <4>1, Zenon DEF Busy
    <3>2. Alloc!Handed(p)' = Alloc!Handed(p) \ {B} /\ B \in Alloc!Handed(p)
      <4>1. \A b \in Blocks(p) : Alloc!as_mut_ptr(p, b) \in live' <=> Alloc!as_mut_ptr(p, b) \in live /\ b # B
        BY <1>h, <2>5, Zenon DEF Out, Alloc!as_mut_ptr
      <4>2. B \in Blocks(p)
        BY <1>1, <2>5, Zenon
      <4>3. Alloc!Handed(p)' = Alloc!Handed(p) \ {B}
        BY <4>1, Zenon DEF Alloc!Handed, Blocks, Alloc!as_mut_ptr
      <4> QED BY <1>i, <2>5, <4>2, <4>3, Zenon DEF Alloc!Handed, Out, Blocks
    <3>3. Cardinality(Busy(p)') = Cardinality(Busy(p)) + 1 /\ Cardinality(Busy(p)) \in Nat
      BY <3>1, Finite, Zenon DEF Counting
    <3>4. /\ Cardinality(Alloc!Handed(p)') = Cardinality(Alloc!Handed(p)) - 1
          /\ Cardinality(Alloc!Handed(p)) \in Nat
      BY <3>2, Finite, Zenon DEF Counting
    <3>5. count[p].in_use = Cardinality(Alloc!Handed(p)) + Cardinality(Busy(p))
      BY <2>1, Zenon DEF Tallied
    <3>6. count[p].in_use = Cardinality(Alloc!Handed(p)') + Cardinality(Busy(p)')
      BY <3>3, <3>4, <3>5
    <3> QED BY <2>1, <2>3, <2>6, <3>6, Zenon DEF Tallied
  <2> QED BY <2>4, <2>5, Zenon
<1> QED BY <1>g, <1>j, <1>k, Zenon DEF AllocInv

(* dealloc_count: in_use is ahead by one call more. *)
LEMMA AllocUncount ==
    ASSUME Counting, Alloc!Layout, AllocInv, NEW t \in Threads, Alloc!Uncount(t)
    PROVE  AllocInv'
<1> DEFINE c == thread[t]
           P == c.pool
           k == count[P]
           m == k.deallocs + 1
           r == [k EXCEPT !.deallocs = m]
           n == [pc |-> "uncounting", pool |-> P]
<1>1. /\ c.pc = "released" /\ bitmap' = bitmap /\ live' = live /\ Alloc!Go(t, n)
      /\ count' = [count EXCEPT ![c.pool].deallocs = @ + 1]
  BY Zenon DEF Alloc!Uncount
<1>2. P \in Alloc!Pools
  BY <1>1, Zenon DEF AllocInv, AllocType, CallOK
<1>3. count \in [Alloc!Pools -> Tally] /\ k \in Tally
  BY <1>2, Zenon DEF AllocInv, AllocType
<1>4. count' = [count EXCEPT ![P] = r]
  BY <1>1, <1>2, <1>3, Zenon
<1>5. k.in_use \in Int /\ k.allocs \in Int /\ m \in Int /\ k.deallocs \in Int /\ k.peak \in Int
  BY <1>3 DEF Tally
<1>6. n.pc = "uncounting" /\ n.pool = P
  BY Zenon
<1>7. PICK kk, rr, mm : kk = k /\ rr = r /\ mm = m
  BY Zenon
<1>8. kk \in Tally /\ mm \in Int /\ rr = [kk EXCEPT !.deallocs = mm]
  BY <1>3, <1>5, <1>7, Zenon
<1> HIDE DEF c, P, k, m, r, n
<1>9. /\ r \in Tally /\ r.allocs = k.allocs /\ r.deallocs = m
      /\ r.in_use = k.in_use /\ r.peak = k.peak
  <2>1. /\ rr \in Tally /\ rr.allocs = kk.allocs /\ rr.deallocs = mm
        /\ rr.in_use = kk.in_use /\ rr.peak = kk.peak
    BY <1>8, TallyDeallocs
  <2> QED BY <1>7, <2>1, Zenon
<1>a. CallOK(n)
  BY <1>2, <1>6 DEF CallOK, Holding
<1>b. /\ AllocType' /\ Owned' /\ \A p \in Alloc!Pools : p # P => Tallied(p)'
      /\ \A p : Alloc!Handed(p)' = Alloc!Handed(p)
      /\ thread'[t] = n /\ \A u \in Threads : u # t => thread'[u] = thread[u]
      /\ count'[P] = r
  <2>1. thread[t].pool = P /\ ~ (n.pc \in Holding) /\ ~ (thread[t].pc \in Holding) /\ n.pool = P
    BY <1>1, <1>6 DEF Holding, c, P
  <2>2. Follows(n, thread[t], P)
    BY <2>1, Zenon DEF Follows
  <2>3. /\ bitmap' = bitmap /\ live' = live /\ Alloc!Go(t, n) /\ Tallies(P, r)
        /\ P \in Alloc!Pools /\ r \in Tally
    BY <1>1, <1>2, <1>4, <1>9, Zenon DEF Tallies
  <2>4. PICK nn, pp, qq : nn = n /\ pp = P /\ qq = r
    BY Zenon
  <2>5. /\ bitmap' = bitmap /\ live' = live /\ Alloc!Go(t, nn) /\ Tallies(pp, qq)
        /\ pp \in Alloc!Pools /\ qq \in Tally /\ CallOK(nn) /\ Follows(nn, thread[t], pp)
    BY <1>a, <2>2, <2>3, <2>4, Zenon
  <2>6. /\ AllocType' /\ Owned' /\ \A p \in Alloc!Pools : p # pp => Tallied(p)'
        /\ \A p : Alloc!Handed(p)' = Alloc!Handed(p)
        /\ thread'[t] = nn /\ \A u \in Threads : u # t => thread'[u] = thread[u]
        /\ count'[pp] = qq
    BY <2>5, CounterStep
  <2> QED BY <2>4, <2>6, Zenon
<1>c. ASSUME NEW q \in Alloc!Pools, q = P PROVE Tallied(q)'
  <2>1. Tallied(q)
    BY Zenon DEF AllocInv
  <2>2. /\ thread[t].pc = "released" /\ thread[t].pool = q
        /\ thread'[t].pc = "uncounting" /\ thread'[t].pool = q
    BY <1>1, <1>6, <1>b, <1>c, Zenon DEF c, P
  <2>3. /\ Cardinality(At(q, "uncounting")') = Cardinality(At(q, "uncounting")) + 1
        /\ Cardinality(At(q, "counting")) \in Nat /\ Cardinality(At(q, "uncounting")) \in Nat
        /\ At(q, "counting")' = At(q, "counting")
    <3>1. /\ thread[t].pc # "counting" /\ thread[t].pc # "uncounting"
          /\ thread'[t].pc # "counting" /\ thread'[t].pc = "uncounting"
      BY <2>2
    <3> QED BY <1>b, <2>2, <3>1, AtStep, Zenon
  <2>4. Balanced(q)'
    <3> DEFINE a == Cardinality(At(q, "counting"))
               b == Cardinality(At(q, "uncounting"))
    <3>1. k.in_use + a = k.allocs - k.deallocs + b /\ a \in Nat /\ b \in Nat
      BY <1>c, <2>1, <2>3, Zenon DEF Tallied, Balanced, k
    <3> HIDE DEF a, b
    <3>2. k.in_use + a = k.allocs - (k.deallocs + 1) + (b + 1)
      BY <1>5, <3>1
    <3>3. r.in_use + a = r.allocs - r.deallocs + (b + 1)
      BY <1>9, <3>2, Zenon DEF m
    <3> QED BY <1>b, <1>c, <2>3, <3>3, Zenon DEF Balanced, a, b
  <2>5. Busy(q)' = Busy(q)
    <3>1. thread[t].pc \in Counted /\ thread'[t].pc \in Counted
      BY <2>2 DEF Counted
    <3> QED BY <1>b, <2>2, <3>1, Zenon DEF Busy
  <2>6. ASSUME NEW u \in Threads, thread[u].pc = "counted" PROVE thread'[u] = thread[u]
    <3>1. u # t
      BY <2>2, <2>6
    <3> QED BY <1>b, <3>1, Zenon
  <2>7. count'[q].in_use = count[q].in_use /\ count'[q].peak = count[q].peak
    BY <1>9, <1>b, <1>c, Zenon DEF k
  <2>8. \/ count'[q].in_use <= count'[q].peak
        \/ \E u \in Threads : /\ thread'[u].pc = "counted" /\ thread'[u].pool = q
                               /\ count'[q].in_use <= thread'[u].in_use_after
    BY <2>1, <2>6, <2>7, Zenon DEF Tallied
  <2> QED BY <1>b, <1>c, <2>1, <2>4, <2>5, <2>7, <2>8, Zenon DEF Tallied
<1> QED BY <1>2, <1>b, <1>c, Zenon DEF AllocInv

(* in_use: the call is no longer counted. *)
LEMMA AllocLeave ==
    ASSUME Counting, Alloc!Layout, AllocInv, NEW t \in Threads, Alloc!Leave(t)
    PROVE  AllocInv'
<1> DEFINE c == thread[t]
           P == c.pool
           k == count[P]
           m == k.in_use - 1
           r == [k EXCEPT !.in_use = m]
           n == Alloc!Idle
<1>1. /\ c.pc = "uncounting" /\ bitmap' = bitmap /\ live' = live /\ Alloc!Go(t, n)
      /\ count' = [count EXCEPT ![c.pool].in_use = @ - 1]
  BY Zenon DEF Alloc!Leave
<1>2. P \in Alloc!Pools
  BY <1>1, Zenon DEF AllocInv, AllocType, CallOK
<1>3. count \in [Alloc!Pools -> Tally] /\ k \in Tally
  BY <1>2, Zenon DEF AllocInv, AllocType
<1>4. count' = [count EXCEPT ![P] = r]
  BY <1>1, <1>2, <1>3, Zenon
<1>5. k.in_use \in Int /\ k.allocs \in Int /\ m \in Int /\ k.deallocs \in Int /\ k.peak \in Int
  BY <1>3 DEF Tally
<1>6. n.pc = "idle"
  BY Zenon DEF Alloc!Idle
<1>7. PICK kk, rr, mm : kk = k /\ rr = r /\ mm = m
  BY Zenon
<1>8. kk \in Tally /\ mm \in Int /\ rr = [kk EXCEPT !.in_use = mm]
  BY <1>3, <1>5, <1>7, Zenon
<1> HIDE DEF c, P, k, m, r, n
<1>9. /\ r \in Tally /\ r.allocs = k.allocs /\ r.deallocs = k.deallocs
      /\ r.in_use = m /\ r.peak = k.peak
  <2>1. /\ rr \in Tally /\ rr.allocs = kk.allocs /\ rr.deallocs = kk.deallocs
        /\ rr.in_use = mm /\ rr.peak = kk.peak
    BY <1>8, TallyInUse
  <2> QED BY <1>7, <2>1, Zenon
<1>a. CallOK(n)
  BY <1>6 DEF CallOK, Holding
<1>b. /\ AllocType' /\ Owned' /\ \A p \in Alloc!Pools : p # P => Tallied(p)'
      /\ \A p : Alloc!Handed(p)' = Alloc!Handed(p)
      /\ thread'[t] = n /\ \A u \in Threads : u # t => thread'[u] = thread[u]
      /\ count'[P] = r
  <2>1. thread[t].pool = P /\ ~ (n.pc \in Holding) /\ ~ (n.pc \in Counted) /\ ~ (thread[t].pc \in Holding)
    BY <1>1, <1>6 DEF Holding, Counted, c, P
  <2>2. Follows(n, thread[t], P)
    BY <2>1, Zenon DEF Follows
  <2>3. /\ bitmap' = bitmap /\ live' = live /\ Alloc!Go(t, n) /\ Tallies(P, r)
        /\ P \in Alloc!Pools /\ r \in Tally
    BY <1>1, <1>2, <1>4, <1>9, Zenon DEF Tallies
  <2>4. PICK nn, pp, qq : nn = n /\ pp = P /\ qq = r
    BY Zenon
  <2>5. /\ bitmap' = bitmap /\ live' = live /\ Alloc!Go(t, nn) /\ Tallies(pp, qq)
        /\ pp \in Alloc!Pools /\ qq \in Tally /\ CallOK(nn) /\ Follows(nn, thread[t], pp)
    BY <1>a, <2>2, <2>3, <2>4, Zenon
  <2>6. /\ AllocType' /\ Owned' /\ \A p \in Alloc!Pools : p # pp => Tallied(p)'
        /\ \A p : Alloc!Handed(p)' = Alloc!Handed(p)
        /\ thread'[t] = nn /\ \A u \in Threads : u # t => thread'[u] = thread[u]
        /\ count'[pp] = qq
    BY <2>5, CounterStep
  <2> QED BY <2>4, <2>6, Zenon
<1>c. ASSUME NEW q \in Alloc!Pools, q = P PROVE Tallied(q)'
  <2>1. Tallied(q)
    BY Zenon DEF AllocInv
  <2>2. thread[t].pc = "uncounting" /\ thread[t].pool = q /\ thread'[t].pc = "idle"
    BY <1>1, <1>6, <1>b, <1>c, Zenon DEF c, P
  <2>3. /\ Cardinality(At(q, "uncounting")') = Cardinality(At(q, "uncounting")) - 1
        /\ Cardinality(At(q, "counting")) \in Nat /\ Cardinality(At(q, "uncounting")) \in Nat
        /\ At(q, "counting")' = At(q, "counting")
    <3>1. /\ thread[t].pc # "counting" /\ thread[t].pc = "uncounting"
          /\ thread'[t].pc # "counting" /\ thread'[t].pc # "uncounting"
      BY <2>2
    <3> QED BY <1>b, <2>2, <3>1, AtStep, Zenon
  <2>4. Balanced(q)'
    <3> DEFINE a == Cardinality(At(q, "counting"))
               b == Cardinality(At(q, "uncounting"))
    <3>1. k.in_use + a = k.allocs - k.deallocs + b /\ a \in Nat /\ b \in Nat
      BY <1>c, <2>1, <2>3, Zenon DEF Tallied, Balanced, k
    <3> HIDE DEF a, b
    <3>2. (k.in_use - 1) + a = k.allocs - k.deallocs + (b - 1)
      BY <1>5, <3>1
    <3>3. r.in_use + a = r.allocs - r.deallocs + (b - 1)
      BY <1>9, <3>2, Zenon DEF m
    <3> QED BY <1>b, <1>c, <2>3, <3>3, Zenon DEF Balanced, a, b
  <2>5. Busy(q)' = Busy(q) \ {t} /\ t \in Busy(q)
    <3>1. thread[t].pc \in Counted /\ ~ (thread'[t].pc \in Counted)
      BY <2>2 DEF Counted
    <3> QED BY <1>b, <2>2, <3>1, Zenon DEF Busy
  <2>6. /\ Cardinality(Busy(q)') = Cardinality(Busy(q)) - 1 /\ Cardinality(Busy(q)) \in Nat
        /\ Cardinality(Alloc!Handed(q)) \in Nat
    BY <2>5, Finite, Zenon DEF Counting
  <2>7. k.in_use = Cardinality(Alloc!Handed(q)) + Cardinality(Busy(q))
    BY <1>c, <2>1, Zenon DEF Tallied, k
  <2>8. r.in_use = Cardinality(Alloc!Handed(q)) + Cardinality(Busy(q)')
    BY <1>9, <2>6, <2>7 DEF m
  <2>9. \/ k.in_use <= k.peak
        \/ \E u \in Threads : /\ thread[u].pc = "counted" /\ thread[u].pool = q
                               /\ k.in_use <= thread[u].in_use_after
    BY <1>c, <2>1, Zenon DEF Tallied, k
  <2>a. ASSUME k.in_use <= k.peak PROVE r.in_use <= r.peak
    BY <1>5, <1>9, <2>a DEF m
  <2>b. ASSUME NEW u \in Threads, thread[u].pc = "counted", thread[u].pool = q,
               k.in_use <= thread[u].in_use_after
        PROVE  /\ thread'[u].pc = "counted" /\ thread'[u].pool = q
               /\ r.in_use <= thread'[u].in_use_after
    <3>1. u # t
      BY <2>2, <2>b
    <3>2. thread'[u] = thread[u] /\ thread[u].in_use_after \in Int
      BY <1>b, <2>b, <3>1, Zenon DEF AllocInv, AllocType, CallOK
    <3>3. r.in_use <= thread[u].in_use_after
      BY <1>5, <1>9, <2>b, <3>2 DEF m
    <3> QED BY <2>b, <3>2, <3>3, Zenon
  <2>c. \/ r.in_use <= r.peak
        \/ \E u \in Threads : /\ thread'[u].pc = "counted" /\ thread'[u].pool = q
                               /\ r.in_use <= thread'[u].in_use_after
    BY <2>9, <2>a, <2>b, Zenon
  <2> QED BY <1>b, <1>c, <2>4, <2>8, <2>c, Zenon DEF Tallied
<1> QED BY <1>2, <1>b, <1>c, Zenon DEF AllocInv

LEMMA AllocStart ==
    ASSUME Counting, Alloc!Layout, Alloc!Init
    PROVE  AllocInv
<1> DEFINE z == [allocs |-> 0, deallocs |-> 0, in_use |-> 0, peak |-> 0]
<1>1. /\ bitmap = [p \in Alloc!Pools |-> [w \in WordsOf(p) |-> Bits]]
      /\ count = [p \in Alloc!Pools |-> z] /\ live = {}
      /\ thread = [t \in Threads |-> Alloc!Idle]
  BY Zenon DEF Alloc!Init, WordsOf, Bits
<1>2. /\ z \in Tally /\ z.allocs = 0 /\ z.deallocs = 0 /\ z.in_use = 0 /\ z.peak = 0
      /\ z.in_use <= z.peak
  BY DEF Tally
<1> HIDE DEF z
<1>3. \A t \in Threads : thread[t].pc = "idle"
  BY <1>1 DEF Alloc!Idle
<1>4. \A p \in Alloc!Pools : count[p] = z /\ bitmap[p] = [w \in WordsOf(p) |-> Bits]
  BY <1>1, Zenon
<1>5. AllocType
  <2>1. \A t \in Threads : CallOK(thread[t])
    BY <1>3 DEF CallOK, Holding
  <2>2. \A p \in Alloc!Pools : bitmap[p] \in [WordsOf(p) -> SUBSET Bits]
    BY <1>4, Zenon
  <2>3. thread = [t \in Threads |-> thread[t]] /\ bitmap = [p \in Alloc!Pools |-> bitmap[p]]
    BY <1>1, Zenon
  <2>4. count \in [Alloc!Pools -> Tally]
    BY <1>1, <1>2, Zenon
  <2> QED BY <1>1, <2>1, <2>2, <2>3, <2>4, Zenon DEF AllocType
<1>6. Owned
  <2> SUFFICES ASSUME NEW p \in Alloc!Pools, NEW b \in Blocks(p)
               PROVE  Exclusive(p, b)
    BY Zenon DEF Owned
  <2>1. IsFree(p, b)
    BY <1>4, Constants, Zenon DEF IsFree
  <2>2. ~ Out(p, b)
    BY <1>1, Zenon DEF Out
  <2>3. \A t \in Threads : ~ Has(t, p, b)
    BY <1>3 DEF Has, Holding
  <2> QED BY <2>1, <2>2, <2>3, Zenon DEF Exclusive
<1>7. ASSUME NEW p \in Alloc!Pools PROVE Tallied(p)
  <2>1. Busy(p) = {} /\ At(p, "counting") = {} /\ At(p, "uncounting") = {}
    BY <1>3 DEF Busy, At, Counted
  <2>2. Alloc!Handed(p) = {}
    BY <1>1, Zenon DEF Alloc!Handed
  <2>3. Cardinality({}) = 0
    BY Zenon DEF Counting
  <2>4. z.in_use = Cardinality(Alloc!Handed(p)) + Cardinality(Busy(p))
    BY <1>2, <2>1, <2>2, <2>3
  <2>5. z.in_use + Cardinality(At(p, "counting"))
            = z.allocs - z.deallocs + Cardinality(At(p, "uncounting"))
    BY <1>2, <2>1, <2>3
  <2> QED BY <1>2, <1>4, <2>4, <2>5, Zenon DEF Tallied, Balanced
<1> QED BY <1>5, <1>6, <1>7, Zenon DEF AllocInv

-----------------------------------------------------------------------------
(* One owner of a block, in the words of OneOwner. *)
LEMMA OwnersCounted ==
    ASSUME Counting, Alloc!Layout, AllocInv
    PROVE  Alloc!OneOwner
<1> SUFFICES ASSUME NEW p \in Alloc!Pools
             PROVE  /\ \A b \in Blocks(p) :
                          Alloc!Cardinality({t \in Threads : b \in Alloc!Claimed(p, t)})
                            + (IF b \in Alloc!Handed(p) THEN 1 ELSE 0)
                            + (IF b \in Alloc!Free(p) THEN 1 ELSE 0) = 1
                    /\ \A t \in Threads : Alloc!Claimed(p, t) \subseteq Blocks(p)
  BY Zenon DEF Alloc!OneOwner, Blocks
<1>1. ASSUME NEW b \in Blocks(p)
      PROVE  Alloc!Cardinality({t \in Threads : b \in Alloc!Claimed(p, t)})
               + (IF b \in Alloc!Handed(p) THEN 1 ELSE 0)
               + (IF b \in Alloc!Free(p) THEN 1 ELSE 0) = 1
  <2> DEFINE S == {t \in Threads : b \in Alloc!Claimed(p, t)}
             x == IF b \in Alloc!Handed(p) THEN 1 ELSE 0
             y == IF b \in Alloc!Free(p) THEN 1 ELSE 0
  <2>1. \A t \in Threads : t \in S <=> Has(t, p, b)
    BY Zenon DEF Alloc!Claimed, Has, Holding
  <2>2. (b \in Alloc!Handed(p) <=> Out(p, b)) /\ (b \in Alloc!Free(p) <=> IsFree(p, b))
    BY Zenon DEF Alloc!Handed, Alloc!Free, Out, IsFree, Blocks
  <2>3. Exclusive(p, b)
    BY Zenon DEF AllocInv, Owned
  <2>4. S \subseteq Threads
    BY Zenon
  <2>5. Alloc!Cardinality(S) = Cardinality(S) /\ Cardinality({}) = 0
    BY SameSets, Zenon DEF Counting
  <2>6. /\ x = 1 <=> Out(p, b) 
        /\ x \in {0, 1}
        /\ y = 1 <=> IsFree(p, b) 
        /\ y \in {0, 1}
    BY <2>2
  <2> HIDE DEF S, x, y
  <2>7. CASE \E u \in Threads : Has(u, p, b)
    <3>1. PICK u \in Threads : Has(u, p, b)
      BY <2>7, Zenon
    <3>2. S = {u}
      BY <2>1, <2>3, <2>4, <3>1, Zenon DEF Exclusive
    <3>3. Cardinality(S) = 1
      BY <3>2, Zenon DEF Counting
    <3>4. ~ Out(p, b) /\ ~ IsFree(p, b)
      BY <2>3, <3>1, Zenon DEF Exclusive
    <3>5. Alloc!Cardinality(S) = 1 /\ x = 0 /\ y = 0
      BY <2>5, <2>6, <3>3, <3>4
    <3>6. Alloc!Cardinality(S) + x + y = 1
      BY <3>5
    <3> QED BY <3>6, Zenon DEF S, x, y
  <2>8. CASE ~ \E u \in Threads : Has(u, p, b)
    <3>1. S = {}
      BY <2>1, <2>4, <2>8, Zenon
    <3>2. Alloc!Cardinality(S) = 0
      BY <2>5, <3>1, Zenon
    <3>3. (Out(p, b) /\ ~ IsFree(p, b)) \/ (~ Out(p, b) /\ IsFree(p, b))
      BY <2>3, <2>8, Zenon DEF Exclusive
    <3>4. Alloc!Cardinality(S) + x + y = 1
      BY <2>6, <3>2, <3>3
    <3> QED BY <3>4, Zenon DEF S, x, y
  <2> QED BY <2>7, <2>8, Zenon
<1>2. ASSUME NEW t \in Threads PROVE Alloc!Claimed(p, t) \subseteq Blocks(p)
  BY Zenon DEF Alloc!Claimed, AllocInv, AllocType, CallOK, Holding
<1> QED BY <1>1, <1>2, Zenon

LEMMA CountsTrue ==
    ASSUME Counting, Alloc!Layout, AllocInv
    PROVE  Alloc!CountsLive
<1> SUFFICES ASSUME NEW p \in Alloc!Pools
             PROVE  /\ count[p].in_use >= Alloc!Cardinality(Alloc!Handed(p))
                    /\ (\A t \in Threads : thread[t] = Alloc!Idle) =>
                          /\ count[p].in_use = Alloc!Cardinality(Alloc!Handed(p))
                          /\ count[p].in_use = count[p].allocs - count[p].deallocs
                          /\ count[p].peak >= count[p].in_use
  BY Zenon DEF Alloc!CountsLive
<1> DEFINE h == Cardinality(Alloc!Handed(p))
           u == Cardinality(Busy(p))
           k == count[p]
<1>1. Tallied(p) /\ k \in Tally
  BY Zenon DEF AllocInv, AllocType
<1>2. h \in Nat /\ u \in Nat /\ Alloc!Cardinality(Alloc!Handed(p)) = h
  BY Finite, SameSets, Zenon
<1>3. /\ k.in_use = h + u /\ k.in_use \in Int /\ k.peak \in Int
      /\ k.allocs \in Int /\ k.deallocs \in Int
  BY <1>1 DEF Tallied, Tally
<1>4. ASSUME \A t \in Threads : thread[t] = Alloc!Idle
      PROVE  u = 0 /\ k.in_use <= k.peak /\ k.in_use = k.allocs - k.deallocs
  <2>1. \A t \in Threads : thread[t].pc = "idle"
    BY <1>4 DEF Alloc!Idle
  <2>2. Busy(p) = {} /\ At(p, "counting") = {} /\ At(p, "uncounting") = {}
    BY <2>1 DEF Busy, At, Counted
  <2>3. ~ \E t \in Threads : thread[t].pc = "counted"
    BY <2>1
  <2>4. k.in_use <= k.peak
    BY <1>1, <2>3, Zenon DEF Tallied
  <2>5. u = 0 /\ Cardinality(At(p, "counting")) = 0 /\ Cardinality(At(p, "uncounting")) = 0
    BY <2>2, Zenon DEF Counting
  <2>6. k.in_use + 0 = k.allocs - k.deallocs + 0
    BY <1>1, <2>5, Zenon DEF Tallied, Balanced
  <2> HIDE DEF u, k
  <2> QED BY <1>3, <2>4, <2>5, <2>6
<1> HIDE DEF h, u, k
<1>5. k.in_use >= h
  BY <1>2, <1>3
<1>6. (u = 0 => k.in_use = h) /\ (k.in_use <= k.peak => k.peak >= k.in_use)
  BY <1>2, <1>3
<1> QED BY <1>2, <1>3, <1>4, <1>5, <1>6, Zenon DEF k

LEMMA FreedRight ==
    ASSUME Alloc!Layout, AllocInv
    PROVE  Alloc!FreedToItsPool
<1> SUFFICES ASSUME NEW ptr \in live
             PROVE  \E b \in Alloc!Handed(Alloc!owning_pool(ptr)) :
                       Alloc!as_mut_ptr(Alloc!owning_pool(ptr), b) = ptr
  BY Zenon DEF Alloc!FreedToItsPool
<1>1. PICK p \in Alloc!Pools : \E b \in Blocks(p) : ptr = Alloc!as_mut_ptr(p, b)
  BY Zenon DEF AllocInv, AllocType
<1>2. PICK b \in Blocks(p) : ptr = Alloc!as_mut_ptr(p, b)
  BY <1>1, Zenon
<1>3. Alloc!owning_pool(ptr) = p
  BY <1>2, AddressesApart, Zenon
<1>4. b \in Alloc!Handed(p)
  BY <1>2, Zenon DEF Alloc!Handed, Blocks
<1> QED BY <1>2, <1>3, <1>4, Zenon

LEMMA AllocStep ==
    ASSUME Counting, Least, Alloc!Layout, AllocInv, [Alloc!Next]_(Alloc!vars)
    PROVE  AllocInv'
<1>1. ASSUME NEW p \in Alloc!Pools, Alloc!lock(p) PROVE AllocInv'
  BY <1>1, AllocSame, Zenon DEF Alloc!lock
<1>2. CASE UNCHANGED Alloc!vars
  BY <1>2, AllocSame, Zenon DEF Alloc!vars
<1>3. CASE Alloc!Next
  BY <1>1, <1>3, AllocAlloc, AllocLoad, AllocCas, AllocCount, AllocEnter, AllocReturn,
     AllocDealloc, AllocUncount, AllocLeave, Zenon DEF Alloc!Next
<1> QED BY <1>2, <1>3, Zenon

-----------------------------------------------------------------------------
(* The run loop and its heartbeat (RunLoop). *)
CONSTANTS Modes, Hosts, Period, HealthCap, MaxStall, MaxClock, MaxRuns, MaxSignals, Never
VARIABLES mode, host, clock, loop, wakeAt, now, interrupted, since, deadline, iterations,
          iterErr, heartbeat, health, ready, stopFlag, stopNote, owner, released, runs,
          result, signals

Loop == INSTANCE RunLoop

Beat == heartbeat.next_due

(* The heartbeat: its deadline is a multiple of the period, and at most one *)
(* period ahead of the clock and of the last tick.                         *)
Beats ==
    /\ mode \in Modes /\ clock \in Nat /\ now \in Nat /\ since \in Nat
    /\ deadline \in Nat /\ signals \in Nat /\ wakeAt \in Nat
    /\ interrupted \in BOOLEAN
    /\ loop \in {"off", "top", "wait", "grid", "after", "done"}
    /\ heartbeat \in [seq : Nat, next_due : Nat]
    /\ Beat = (heartbeat.seq + 1) * Period
    /\ Beat <= clock + Period /\ Beat <= since + Period

(* Where the clock can be: a wait ends at the deadline of the heartbeat, or *)
(* at once when that is past.                                              *)
Gaps ==
    /\ loop = "top" => clock <= since + Period + MaxStall
    /\ loop = "wait" => /\ clock <= wakeAt /\ Beat <= wakeAt
                        /\ wakeAt = Beat \/ wakeAt <= clock
                        /\ wakeAt <= since + Period + MaxStall
    /\ loop = "grid" => now = clock /\ clock <= since + Period + 2 * MaxStall
    /\ loop = "after" => clock <= since + Period + MaxStall

(* How far a run with a deadline is past it: every wake that no signal     *)
(* ended evaluates the deadline.                                           *)
Past(n) == clock <= deadline + signals * Period + n

Ends ==
    /\ loop = "top" => Past(0)
    /\ loop = "wait" => wakeAt <= deadline + signals * Period + Period
    /\ loop \in {"grid", "after"} /\ interrupted => Past(0)
    /\ loop = "grid" => Past(Period + MaxStall)
    /\ loop = "after" => Past(Period + 2 * MaxStall)

LoopInv == Beats /\ (Period > 0 => Gaps /\ (mode.kind = "Until" => Ends))

LEMMA MaxOfTwo ==
    ASSUME NEW a \in Nat, NEW b \in Nat
    PROVE  /\ Loop!Max({a, b}) \in {a, b}
           /\ Loop!Max({a, b}) >= a /\ Loop!Max({a, b}) >= b
<1>1. \E x \in {a, b} : \A y \in {a, b} : x >= y
  BY SMT
<1> QED BY <1>1 DEF Loop!Max

LEMMA LoopInit == ASSUME Loop!Times, Loop!Init PROVE LoopInv
<1> DEFINE h == [seq |-> 0, next_due |-> Period]
<1>0. h \in [seq : Nat, next_due : Nat] /\ h.next_due = (h.seq + 1) * Period
  BY SMT DEF Loop!Times
<1> HIDE DEF h
<1>a. heartbeat = h /\ h.next_due = Period
  BY Zenon DEF Loop!Init, h
<1>b. Beat \in Nat /\ Beat <= 0 + Period
  BY <1>0, <1>a DEF Beat, Loop!Times
<1>c. /\ clock = 0 /\ now = 0 /\ since = 0 /\ deadline = 0 /\ signals = 0 /\ wakeAt = Never
      /\ mode \in Modes /\ interrupted = FALSE /\ loop = "off" /\ Never \in Nat
  BY Zenon DEF Loop!Init, Loop!Times
<1>d. 0 \in Nat
  OBVIOUS
<1>1. Beats
  BY <1>0, <1>a, <1>b, <1>c, <1>d, Zenon DEF Beats, Beat
<1>2. loop = "off"
  BY DEF Loop!Init
<1> QED BY <1>1, <1>2, Zenon DEF LoopInv, Gaps, Ends

LEMMA LoopRun == ASSUME Loop!Times, LoopInv, Loop!run_inner PROVE LoopInv'
<1>1. Beats'
  BY DEF Loop!run_inner, Loop!Times, LoopInv, Beats, Beat, Loop!beatVars
<1>2. Gaps'
  BY <1>1, SMTT(20) DEF Loop!run_inner, Loop!Times, LoopInv, Beats, Gaps
<1>3. Ends'
  BY <1>1 DEF Loop!run_inner, Loop!Times, LoopInv, Beats, Ends, Past
<1> QED BY <1>1, <1>2, <1>3, Zenon DEF LoopInv

LEMMA LoopBeginWait == ASSUME Loop!Times, LoopInv, Loop!BeginWait PROVE LoopInv'
<1>1. CASE Period = 0
  <2>1. Beats'
    BY <1>1 DEF Loop!BeginWait, Loop!heartbeat_bounded_timeout, Loop!Times, LoopInv, Beats, Beat, Loop!beatVars
  <2> QED BY <1>1, <2>1, SMT DEF LoopInv
<1>2. CASE Period > 0
  <2> DEFINE w == Loop!Max({clock, Beat})
  <2>1. w \in {clock, Beat} /\ w >= clock /\ w >= Beat
    BY MaxOfTwo DEF LoopInv, Beats, Beat
  <2>2. wakeAt' = w /\ heartbeat' = heartbeat /\ clock' = clock /\ since' = since /\ deadline' = deadline
        /\ signals' = signals /\ loop' = "wait" /\ loop = "top" /\ mode' = mode /\ now' = now
        /\ interrupted' = interrupted
    BY <1>2 DEF Loop!BeginWait, Loop!heartbeat_bounded_timeout, Loop!beatVars, Beat, Loop!Times
  <2> HIDE DEF w
  <2>3. Beats'
    BY <2>1, <2>2 DEF LoopInv, Beats, Beat
  <2>4. Gaps'
    BY <1>2, <2>1, <2>2 DEF LoopInv, Beats, Beat, Gaps, Loop!Times
  <2>5. ASSUME mode.kind = "Until" PROVE Ends'
    <3> DEFINE S == signals * Period
    <3>1. S \in Nat
      BY SMT DEF LoopInv, Beats, Loop!Times
    <3>2. clock <= deadline + S + 0
      BY <1>2, <2>2, <2>5, Zenon DEF LoopInv, Ends, Past
    <3> HIDE DEF S
    <3>3. w <= deadline + S + Period
      BY <2>1, <3>1, <3>2 DEF LoopInv, Beats, Beat, Loop!Times
    <3> QED BY <2>2, <3>3 DEF Ends, S
  <2> QED BY <2>2, <2>3, <2>4, <2>5, Zenon DEF LoopInv
<1> QED BY <1>1, <1>2 DEF Loop!Times

(* A wake, which takes up to MaxStall. *)
LEMMA LoopWake == ASSUME Loop!Times, LoopInv, Loop!Wake PROVE LoopInv'
<1>1. PICK d \in 0..MaxStall : clock' = clock + d /\ now' = clock + d
  BY Zenon DEF Loop!Wake
<1>2. /\ heartbeat' = heartbeat /\ since' = since /\ deadline' = deadline /\ wakeAt' = wakeAt
      /\ signals' = signals /\ loop' = "grid" /\ loop = "wait" /\ mode' = mode
      /\ interrupted' = FALSE
  BY Zenon DEF Loop!Wake, Loop!beatVars
<1>a. clock \in Nat /\ Beat \in Nat /\ Period \in Nat /\ Beat <= clock + Period
  BY DEF LoopInv, Beats, Beat, Loop!Times
<1>b. clock' \in Nat /\ now' \in Nat /\ Beat <= clock' + Period
  BY <1>1, <1>a DEF Loop!Times
<1>3. Beats'
  BY <1>b, <1>2, Zenon DEF LoopInv, Beats, Beat
<1>4. ASSUME Period > 0 PROVE Gaps'
  BY <1>1, <1>2, <1>4 DEF LoopInv, Beats, Beat, Gaps, Loop!Times
<1>5. ASSUME Period > 0, mode.kind = "Until" PROVE Ends'
  <2> DEFINE S == signals * Period
  <2>1. S \in Nat
    BY SMT DEF LoopInv, Beats, Loop!Times
  <2>2. wakeAt <= deadline + S + Period /\ clock <= wakeAt
    BY <1>2, <1>5, Zenon DEF LoopInv, Ends, Gaps
  <2> HIDE DEF S
  <2>3. clock + d <= deadline + S + (Period + MaxStall)
    BY <1>1, <2>1, <2>2 DEF LoopInv, Beats, Loop!Times
  <2>4. Past(Period + MaxStall)'
    BY <1>1, <1>2, <2>3, Zenon DEF Past, S
  <2> QED BY <1>2, <2>4, Zenon DEF Ends
<1> QED BY <1>2, <1>3, <1>4, <1>5, Zenon DEF LoopInv

(* A signal ends the wait early, and adds a period to the run. *)
LEMMA LoopInterrupt == ASSUME Loop!Times, LoopInv, Loop!Interrupt PROVE LoopInv'
<1>1. /\ heartbeat' = heartbeat /\ since' = since /\ deadline' = deadline /\ wakeAt' = wakeAt
      /\ signals' = signals + 1 /\ loop' = "grid" /\ loop = "wait" /\ mode' = mode
      /\ interrupted' = TRUE /\ clock' = clock /\ now' = clock
  BY Zenon DEF Loop!Interrupt, Loop!beatVars
<1>2. Beats'
  BY <1>1, SMTT(20) DEF LoopInv, Beats, Beat
<1>3. ASSUME Period > 0 PROVE Gaps'
  BY <1>1, <1>3 DEF LoopInv, Beats, Beat, Gaps, Loop!Times
<1>4. ASSUME Period > 0, mode.kind = "Until" PROVE Ends'
  <2> DEFINE S == signals * Period
             T == (signals + 1) * Period
  <2>1. S \in Nat /\ T \in Nat /\ T = S + Period
    BY SMT DEF LoopInv, Beats, Loop!Times
  <2>2. wakeAt <= deadline + S + Period /\ clock <= wakeAt
    BY <1>1, <1>4, Zenon DEF LoopInv, Ends, Gaps
  <2> HIDE DEF S, T
  <2>3. clock <= deadline + T + 0 /\ clock <= deadline + T + (Period + MaxStall)
    BY <2>1, <2>2 DEF LoopInv, Beats, Loop!Times
  <2>4. Past(0)' /\ Past(Period + MaxStall)'
    BY <1>1, <2>3, Zenon DEF Past, T
  <2> QED BY <1>1, <2>4, Zenon DEF Ends
<1> QED BY <1>1, <1>2, <1>3, <1>4, Zenon DEF LoopInv

(* The tick: its deadline was not after the time read, and moves on by one *)
(* period.                                                                 *)
LEMMA LoopGridPass == ASSUME Loop!Times, LoopInv, Loop!GridPass PROVE LoopInv'
<1>1. PICK d \in 0..MaxStall : clock' = clock + d /\ (interrupted => d = 0)
  BY Zenon DEF Loop!GridPass
<1>2. /\ deadline' = deadline /\ wakeAt' = wakeAt /\ signals' = signals /\ now' = now
      /\ loop' = "after" /\ loop = "grid" /\ mode' = mode /\ interrupted' = interrupted
  BY Zenon DEF Loop!GridPass
<1>3. \/ /\ Period > 0 /\ now >= Beat /\ since' = now
         /\ heartbeat' = [seq |-> heartbeat.seq + 1, next_due |-> Beat + Period]
      \/ /\ ~ (Period > 0 /\ now >= Beat)
         /\ heartbeat' = heartbeat /\ since' = since
  BY Zenon DEF Loop!GridPass, Loop!emit_heartbeat_if_due, Beat
<1>4. ASSUME Period > 0, now >= Beat, since' = now,
             heartbeat' = [seq |-> heartbeat.seq + 1, next_due |-> Beat + Period]
      PROVE  Beats' /\ Gaps'
  <2>1. now = clock
    BY <1>2, <1>4, Zenon DEF LoopInv, Gaps
  <2>2. heartbeat' \in [seq : Nat, next_due : Nat] /\ Beat' = Beat + Period /\ heartbeat'.seq = heartbeat.seq + 1
    BY <1>4 DEF LoopInv, Beats, Beat, Loop!Times
  <2>3. Beat' = (heartbeat'.seq + 1) * Period
    BY <2>2 DEF LoopInv, Beats, Loop!Times
  <2>4. Beat \in Nat /\ clock \in Nat /\ Period \in Nat /\ MaxStall \in Nat
    BY SMTT(20) DEF LoopInv, Beats, Beat, Loop!Times
  <2>5. Beat' <= clock' + Period /\ Beat' <= since' + Period /\ clock' \in Nat
    BY <1>1, <1>4, <2>1, <2>2, <2>4
  <2>6. Beats'
    BY <1>2, <1>4, <2>2, <2>3, <2>5, ZenonT(30) DEF LoopInv, Beats
  <2>7. clock' <= since' + Period + MaxStall
    BY <1>1, <1>4, <2>1, <2>4
  <2> QED BY <1>2, <2>6, <2>7, Zenon DEF Gaps
<1>5. ASSUME ~ (Period > 0 /\ now >= Beat), heartbeat' = heartbeat, since' = since
      PROVE  Beats' /\ (Period > 0 => Gaps')
  <2>1. Beats'
    BY <1>1, <1>2, <1>5 DEF LoopInv, Beats, Beat, Loop!Times
  <2>a. /\ clock \in Nat /\ Beat \in Nat /\ Period \in Nat /\ MaxStall \in Nat /\ since \in Nat
        /\ Beat <= since + Period
    BY DEF LoopInv, Beats, Beat, Loop!Times
  <2>2. ASSUME Period > 0 PROVE clock' <= since' + Period + MaxStall
    <3>1. now = clock /\ ~ (now >= Beat)
      BY <1>2, <1>5, <2>2, Zenon DEF LoopInv, Gaps
    <3> QED BY <1>1, <1>5, <2>a, <3>1
  <2> QED BY <1>2, <2>1, <2>2, Zenon DEF Gaps
<1>6. Beats' /\ (Period > 0 => Gaps')
  BY <1>3, <1>4, <1>5, Zenon
<1>7. ASSUME Period > 0, mode.kind = "Until" PROVE Ends'
  <2> DEFINE S == signals * Period
  <2>1. S \in Nat
    BY SMT DEF LoopInv, Beats, Loop!Times
  <2>2. /\ interrupted => clock <= deadline + S + 0
        /\ clock <= deadline + S + (Period + MaxStall)
    BY <1>2, <1>7, Zenon DEF LoopInv, Ends, Past
  <2> HIDE DEF S
  <2>3. interrupted => clock + d <= deadline + S + 0
    BY <1>1, <2>1, <2>2 DEF LoopInv, Beats, Loop!Times
  <2>4. clock + d <= deadline + S + (Period + 2 * MaxStall)
    BY <1>1, <2>1, <2>2 DEF LoopInv, Beats, Loop!Times
  <2>5. (interrupted' => Past(0)') /\ Past(Period + 2 * MaxStall)'
    BY <1>1, <1>2, <2>3, <2>4, Zenon DEF Past, S
  <2> QED BY <1>2, <2>5, Zenon DEF Ends
<1> QED BY <1>2, <1>6, <1>7, Zenon DEF LoopInv

(* A wake that goes on has found the deadline ahead, or was interrupted. *)
LEMMA LoopAfter == ASSUME Loop!Times, LoopInv, Loop!after_callback PROVE LoopInv'
<1>1. /\ heartbeat' = heartbeat /\ since' = since /\ deadline' = deadline /\ wakeAt' = wakeAt
      /\ signals' = signals /\ loop = "after" /\ mode' = mode /\ clock' = clock /\ now' = now
      /\ interrupted' = interrupted /\ loop' \in {"top", "done"}
  BY DEF Loop!after_callback, Loop!beatVars, Loop!Ends
<1>2. ASSUME loop' = "top", mode.kind = "Until" PROVE interrupted \/ ~ (clock >= deadline)
  BY <1>2 DEF Loop!after_callback, Loop!Ends, Loop!ReachedLimit
<1>3. Beats'
  BY <1>1, Zenon DEF LoopInv, Beats, Beat
<1>4. ASSUME Period > 0 PROVE Gaps'
  BY <1>1, <1>4, Zenon DEF LoopInv, Gaps
<1>5. ASSUME Period > 0, mode.kind = "Until", loop' = "top" PROVE Past(0)
  <2> DEFINE S == signals * Period
  <2>1. S \in Nat
    BY SMT DEF LoopInv, Beats, Loop!Times
  <2>2. interrupted => clock <= deadline + S + 0
    BY <1>1, <1>5, Zenon DEF LoopInv, Ends, Past
  <2> HIDE DEF S
  <2>3. clock <= deadline + S + 0
    BY <1>2, <1>5, <2>1, <2>2 DEF LoopInv, Beats
  <2> QED BY <2>3, Zenon DEF Past, S
<1>6. ASSUME Period > 0, mode.kind = "Until" PROVE Ends'
  BY <1>1, <1>5, <1>6, Zenon DEF Ends, Past
<1> QED BY <1>1, <1>3, <1>4, <1>6, Zenon DEF LoopInv

LEMMA LoopPass == ASSUME Loop!Times, LoopInv, Loop!Pass PROVE LoopInv'
<1>1. /\ heartbeat' = heartbeat /\ since' = since /\ deadline' = deadline /\ wakeAt' = wakeAt
      /\ signals' = signals /\ loop' = loop /\ mode' = mode /\ clock' = clock + 1 /\ now' = now
      /\ interrupted' = interrupted /\ loop \in {"off", "wait", "done"}
      /\ (loop = "wait" => ~ (clock >= wakeAt))
  BY Zenon DEF Loop!Pass, Loop!beatVars, Loop!loopVars, Loop!Due
<1>2. Beats'
  BY <1>1, SMTT(20) DEF LoopInv, Beats, Beat, Loop!Times
<1>3. ASSUME Period > 0 PROVE Gaps'
  BY <1>1, <1>3 DEF LoopInv, Beats, Beat, Gaps, Loop!Times
<1>4. ASSUME Period > 0, mode.kind = "Until" PROVE Ends'
  BY <1>1, <1>4, Zenon DEF LoopInv, Ends
<1> QED BY <1>1, <1>2, <1>3, <1>4, Zenon DEF LoopInv

(* What the others do leaves the clock and the heartbeat alone, or ends the *)
(* run.                                                                     *)
LEMMA LoopOthers ==
    ASSUME LoopInv,
           \/ Loop!Terminate \/ Loop!start \/ Loop!Stop \/ Loop!Join \/ Loop!Fire
           \/ Loop!try_next \/ UNCHANGED Loop!vars
    PROVE  LoopInv'
<1>1. /\ heartbeat' = heartbeat /\ since' = since /\ deadline' = deadline /\ wakeAt' = wakeAt
      /\ signals' = signals /\ mode' = mode /\ clock' = clock /\ now' = now
      /\ interrupted' = interrupted /\ (loop' = loop \/ loop' = "done")
  BY Zenon DEF Loop!Terminate, Loop!start, Loop!Stop, Loop!Join, Loop!Fire, Loop!try_next,
               Loop!vars, Loop!loopVars, Loop!beatVars
<1>2. Beats'
  BY <1>1, Zenon DEF LoopInv, Beats, Beat
<1>3. ASSUME Period > 0 PROVE Gaps'
  BY <1>1, <1>3, Zenon DEF LoopInv, Gaps, Beat
<1>4. ASSUME Period > 0, mode.kind = "Until" PROVE Ends'
  BY <1>1, <1>4, Zenon DEF LoopInv, Ends, Past
<1> QED BY <1>1, <1>2, <1>3, <1>4, Zenon DEF LoopInv

(* A clock between two multiples of the period. *)
LEMMA Ticks ==
    ASSUME NEW c \in Nat, NEW q \in Nat, NEW P \in Nat, P > 0,
           q * P <= c, c < (q + 1) * P
    PROVE  c \div P = q
  OBVIOUS

LEMMA LoopSafe ==
    ASSUME Loop!Times, LoopInv
    PROVE  Loop!EveryDeadlineTicked /\ Loop!TickGapBounded /\ Loop!HeartbeatEndsRunFor
<1>1. Loop!EveryDeadlineTicked
  <2> SUFFICES ASSUME Period > 0, loop = "wait", ~ Loop!Due
               PROVE  heartbeat.seq = clock \div Period
    BY Zenon DEF Loop!EveryDeadlineTicked
  <2>1. ~ (clock >= wakeAt) /\ (wakeAt = Beat \/ wakeAt <= clock)
    BY Zenon DEF Loop!Due, LoopInv, Gaps
  <2> DEFINE q == heartbeat.seq
  <2>2. q \in Nat /\ clock \in Nat /\ Period \in Nat /\ Beat \in Nat /\ wakeAt \in Nat
    BY DEF LoopInv, Beats, Beat, Loop!Times
  <2>3. Beat = (q + 1) * Period /\ Beat <= clock + Period
    BY Zenon DEF LoopInv, Beats
  <2> HIDE DEF q
  <2>4. clock < Beat
    BY <2>1, <2>2
  <2>5. (q + 1) * Period = q * Period + Period /\ q * Period \in Nat
    BY <2>2, SMT
  <2>6. q * Period <= clock
    BY <2>2, <2>3, <2>5, SMTT(20)
  <2>7. clock \div Period = q
    BY <2>2, <2>3, <2>4, <2>6, Ticks, SMTT(20)
  <2> QED BY <2>7 DEF q
<1>2. Loop!TickGapBounded
  BY DEF Loop!TickGapBounded, Loop!Running, LoopInv, Gaps, Beats, Beat, Loop!Times
<1>3. Loop!HeartbeatEndsRunFor
  <2> SUFFICES ASSUME Period > 0, Loop!Running, mode.kind = "Until"
               PROVE  clock <= deadline + (1 + signals) * Period + 2 * MaxStall
    BY Zenon DEF Loop!HeartbeatEndsRunFor
  <2> DEFINE S == signals * Period
             T == (1 + signals) * Period
  <2>1. S \in Nat /\ T \in Nat /\ T = S + Period
    BY SMT DEF LoopInv, Beats, Loop!Times
  <2>2. /\ loop = "top" => clock <= deadline + S + 0
        /\ loop = "wait" => wakeAt <= deadline + S + Period /\ clock <= wakeAt
        /\ loop = "grid" => clock <= deadline + S + (Period + MaxStall)
        /\ loop = "after" => clock <= deadline + S + (Period + 2 * MaxStall)
    BY Zenon DEF LoopInv, Ends, Past, Gaps
  <2> HIDE DEF S, T
  <2>3. clock <= deadline + T + 2 * MaxStall
    BY <2>1, <2>2 DEF LoopInv, Beats, Loop!Times, Loop!Running
  <2> QED BY <2>3 DEF T
<1> QED BY <1>1, <1>2, <1>3, Zenon

(* For every period, stall and run mode: no deadline of the heartbeat passes *)
(* without its tick, two ticks are at most a period and two stalls apart,    *)
(* and a run with a deadline ends within the beats that the signals delayed  *)
(* (heartbeat_bounded_timeout, the heartbeat of dispatch_loop).              *)
THEOREM HeartbeatSafe ==
    ASSUME Loop!Times
    PROVE  Loop!Spec => [](/\ Loop!EveryDeadlineTicked /\ Loop!TickGapBounded
                           /\ Loop!HeartbeatEndsRunFor)
<1>1. Loop!Init => LoopInv
  BY LoopInit, Zenon
<1>2. LoopInv /\ [Loop!Next]_(Loop!vars) => LoopInv'
  BY LoopRun, LoopBeginWait, LoopWake, LoopInterrupt, LoopGridPass, LoopAfter, LoopPass,
     LoopOthers, Zenon DEF Loop!Next, Loop!Thread
<1>3. LoopInv => /\ Loop!EveryDeadlineTicked /\ Loop!TickGapBounded
                 /\ Loop!HeartbeatEndsRunFor
  BY LoopSafe, Zenon
<1> QED BY <1>1, <1>2, <1>3, PTL DEF Loop!Spec

-----------------------------------------------------------------------------
(* The facts on finite sets that the allocator needs, and its theorem. *)
FST == INSTANCE FiniteSetTheorems

(* The instance names these sets apart. *)
LEMMA LibrarySets == /\ \A S : FST!IsFiniteSet(S) <=> IsFiniteSet(S)
    /\ \A S : FST!Cardinality(S) = Cardinality(S)
<1>1. \A S : FST!IsFiniteSet(S) <=> IsFiniteSet(S)
  BY Zenon DEF FST!IsFiniteSet, IsFiniteSet
<1>2. ASSUME NEW S PROVE FST!Cardinality(S) = Cardinality(S)
  BY Zenon DEF FST!Cardinality, Cardinality
<1> QED BY <1>1, <1>2, Zenon

LEMMA CountingHolds == Counting
<1>1. Cardinality({}) = 0
  BY LibrarySets, FST!FS_EmptySet, Zenon
<1>2. \A x : Cardinality({x}) = 1
  BY LibrarySets, FST!FS_Singleton, Zenon
<1>3. \A S : IsFiniteSet(S) => Cardinality(S) \in Nat
  BY LibrarySets, FST!FS_CardinalityType, Zenon
<1>4. \A S : IsFiniteSet(S) => \A T \in SUBSET S : IsFiniteSet(T)
  BY LibrarySets, FST!FS_Subset, Zenon
<1>5. \A a, b \in Int : IsFiniteSet(a..b)
  BY LibrarySets, FST!FS_Interval, Zenon
<1>6. ASSUME NEW S, IsFiniteSet(S), NEW x, x \notin S PROVE Cardinality(S \cup {x}) = Cardinality(S) + 1
  BY <1>6, LibrarySets, FST!FS_AddElement, Zenon
<1>7. ASSUME NEW S, IsFiniteSet(S), NEW x, x \in S PROVE Cardinality(S \ {x}) = Cardinality(S) - 1
  BY <1>7, LibrarySets, FST!FS_RemoveElement, Zenon
<1> QED BY <1>1, <1>2, <1>3, <1>4, <1>5, <1>6, <1>7, Zenon DEF Counting

LEMMA LeastHolds == Least
<1> SUFFICES ASSUME NEW S \in SUBSET Nat, S # {} PROVE \E x \in S : \A y \in S : x <= y
  BY Zenon DEF Least
<1> DEFINE Less == {p \in Nat \X Nat : p[1] < p[2]}
<1>1. FST!IsWellFoundedOn(Less, Nat)
  BY FST!NatLessThanWellFounded, Zenon DEF FST!OpToRel
<1>2. PICK x \in S : \A y \in S : ~ (<<y, x>> \in Less)
  BY <1>1, FST!WFMin, Zenon
<1>3. ASSUME NEW y \in S PROVE x <= y
  <2>1. ~ (y < x)
    BY <1>2, Zenon
  <2> QED BY <2>1, SMT
<1> QED BY <1>3, Zenon

(* For every number of threads, every size of the two pools and of a bitmap *)
(* word, and whichever pool lies first in memory, every block is free,      *)
(* being handed out by one thread, or in the program's hands, and in one of *)
(* these only; in_use is never below the blocks handed out and equal to     *)
(* them between calls, the high-water mark having kept up; and dealloc      *)
(* finds the pool a pointer came from (try_claim_block, alloc_in, dealloc). *)
THEOREM BlocksSafe ==
    ASSUME Alloc!Layout
    PROVE  Alloc!Spec => [](Alloc!OneOwner /\ Alloc!CountsLive /\ Alloc!FreedToItsPool)
<1>1. Alloc!Init => AllocInv
  BY CountingHolds, AllocStart, Zenon
<1>2. AllocInv /\ [Alloc!Next]_(Alloc!vars) => AllocInv'
  BY CountingHolds, LeastHolds, AllocStep, Zenon
<1>3. AllocInv => Alloc!OneOwner /\ Alloc!CountsLive /\ Alloc!FreedToItsPool
  BY CountingHolds, OwnersCounted, CountsTrue, FreedRight, Zenon
<1> QED BY <1>1, <1>2, <1>3, PTL DEF Alloc!Spec
==============================================================================
