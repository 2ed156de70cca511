--------------------------- MODULE ReadyRingProofs ---------------------------
(***************************************************************************)
(* `ReadyRing` implements `ReadyQueue`, for every number of producers,     *)
(* every capacity and any number of pushes between two resets that the     *)
(* index word can count.  The cursors then never wrap: a distance that     *)
(* `wrapping_sub` makes huge is one that is negative.                      *)
(***************************************************************************)
EXTENDS ReadyRing, FiniteSetTheorems, TLAPS

Storing(p, i) == pc[p] = "store" /\ tl[p] = i
Reserved(i) == \E p \in Producers : Storing(p, i)
Cleared(i) == cpc = "bump" /\ i = head

Types ==
    /\ buf \in [0..Capacity - 1 -> Values \union {SENTINEL}]
    /\ head \in Nat /\ tail \in Nat
    /\ pc \in [Producers -> {"idle", "load_tail", "load_head", "cas", "store"}]
    /\ tl \in [Producers -> Nat]
    /\ val \in [Producers -> Values \union {None}]
    /\ cpc \in {"idle", "spin", "clear", "bump"}
    /\ pushes \in 0..MaxPushes

(* Every push that has yet to advance tail has been counted. *)
Cursors ==
    /\ head <= tail /\ tail <= head + Capacity
    /\ IsFiniteSet(Waiting) /\ tail + Cardinality(Waiting) <= pushes

(* A push that may advance tail has seen room; one that did owns its slot. *)
Producing ==
    \A p \in Producers :
        /\ p \in Waiting => tl[p] <= tail /\ val[p] \in Values
        /\ pc[p] = "cas" => tl[p] < head + Capacity
        /\ pc[p] = "store" =>
             /\ head <= tl[p] /\ tl[p] < tail /\ val[p] \in Values
             /\ \A q \in Producers : Storing(q, tl[p]) => q = p

(* A slot is empty when it is free, when its producer has not stored yet,  *)
(* and when the consumer has cleared it.                                   *)
Slots ==
    /\ \A i \in head..tail - 1 : buf[Slot(i)] = SENTINEL <=> Reserved(i) \/ Cleared(i)
    /\ \A i \in tail..head + Capacity - 1 : buf[Slot(i)] = SENTINEL

Consuming ==
    /\ cpc # "idle" => head < tail
    /\ cpc \in {"clear", "bump"} => ~ Reserved(head) /\ cval \in Values
    /\ cpc = "clear" => cval = buf[Slot(head)]

RInv == Types /\ Cursors /\ Producing /\ Slots /\ Consuming

-----------------------------------------------------------------------------
(* The slots of fewer than Capacity consecutive indices are distinct.            *)
LEMMA Euclid ==
    ASSUME NEW C \in Nat \ {0}, NEW x \in Nat
    PROVE  \E q \in Int : x = C * q + (x % C)
<1>1. x = C * (x \div C) + (x % C) /\ (x \div C) \in Int
  BY SMT
<1> QED BY <1>1, Zenon

LEMMA Multiple == ASSUME NEW C \in Nat \ {0}, NEW q \in Int, C * q > 0 PROVE C * q >= C
BY SMT

LEMMA DistinctSlots ==
    ASSUME NEW C \in Nat \ {0}, NEW x \in Nat, NEW y \in Nat, x < y, y < x + C
    PROVE  x % C # y % C
<1> SUFFICES ASSUME x % C = y % C PROVE FALSE
  OBVIOUS
<1>1. PICK q \in Int : x = C * q + (x % C)
  BY Euclid, Zenon
<1>2. PICK r \in Int : y = C * r + (y % C)
  BY Euclid, Zenon
<1>3. x % C \in Int /\ C * q \in Int /\ C * r \in Int
  BY SMT
<1>4. y - x = C * r - C * q
  BY <1>1, <1>2, <1>3
<1>5. C * r - C * q = C * (r - q)
  BY SMT
<1>6. C * (r - q) > 0 /\ C * (r - q) < C
  BY <1>4, <1>5
<1> QED BY <1>6, Multiple

(* The slot that the consumer frees is the one after the last of the ring.  *)
LEMMA SlotReturns == ASSUME NEW C \in Nat \ {0}, NEW x \in Nat PROVE (x + C) % C = x % C
<1>1. PICK q \in Int : x = C * q + (x % C)
  BY Euclid, Zenon
<1>2. PICK r \in Int : x + C = C * r + ((x + C) % C)
  <2>1. x + C \in Nat
    OBVIOUS
  <2> QED BY <2>1, Euclid, Zenon
<1>3. x % C \in 0..C - 1 /\ (x + C) % C \in 0..C - 1 /\ C * q \in Int /\ C * r \in Int
  BY SMT
<1>4. C * (r - q - 1) = C * r - C * q - C /\ C * (q + 1 - r) = C * q + C - C * r
  BY SMT
<1>5. ~ (C * (r - q - 1) > 0)
  BY <1>1, <1>2, <1>3, <1>4, Multiple
<1>6. ~ (C * (q + 1 - r) > 0)
  BY <1>1, <1>2, <1>3, <1>4, Multiple
<1> QED BY <1>1, <1>2, <1>3, <1>4, <1>5, <1>6

(* Two indices of the window of the ring share a slot only if they are one. *)
LEMMA OneIndex ==
    ASSUME RingAssumption, NEW h \in Nat,
           NEW i \in h..h + Capacity - 1, NEW j \in h..h + Capacity - 1, Slot(i) = Slot(j)
    PROVE  i = j
<1>1. Capacity \in Nat \ {0} /\ i \in Nat /\ j \in Nat
  BY DEF RingAssumption
<1>2. ASSUME i < j PROVE FALSE
  <2>1. j < i + Capacity
    BY <1>1
  <2>2. i % Capacity # j % Capacity
    BY <1>1, <1>2, <2>1, DistinctSlots, Zenon
  <2> QED BY <2>2, Zenon DEF Slot
<1>3. ASSUME j < i PROVE FALSE
  <2>1. i < j + Capacity
    BY <1>1
  <2>2. j % Capacity # i % Capacity
    BY <1>1, <1>3, <2>1, DistinctSlots, Zenon
  <2> QED BY <2>2, Zenon DEF Slot
<1> QED BY <1>1, <1>2, <1>3

LEMMA Positive == RingAssumption => Capacity \in Nat \ {0}
BY DEF RingAssumption

LEMMA SlotRange == ASSUME RingAssumption, NEW i \in Nat PROVE Slot(i) \in 0..Capacity - 1
BY DEF RingAssumption, Slot

(* The cursors count pushes since the last reset: they do not wrap.         *)
LEMMA NoWrap ==
    ASSUME RingAssumption, RInv
    PROVE  /\ Capacity \in Nat \ {0} /\ Word \in Nat /\ MaxPushes \in Nat
           /\ head + Capacity < Word /\ tail + Capacity < Word
           /\ Occupied = tail - head
           /\ \A i \in 0..MaxPushes : i % Word = i
<1>1. Cardinality(Waiting) \in Nat
  BY FS_CardinalityType DEF RInv, Cursors
<1>2. Capacity \in Nat \ {0} /\ Word \in Nat /\ MaxPushes \in Nat /\ Word > Capacity + MaxPushes
  BY DEF RingAssumption
<1>3. head \in Nat /\ tail \in Nat /\ head <= tail /\ tail <= MaxPushes
  BY <1>1, <1>2 DEF RInv, Types, Cursors
<1>4. (tail + Word - head) % Word = tail - head
  BY <1>2, <1>3
<1>5. \A i \in 0..MaxPushes : i % Word = i
  BY <1>2
<1> QED BY <1>2, <1>3, <1>4, <1>5 DEF Occupied, Sub

(* The distance of a waiting push, with its sign.                           *)
LEMMA Distance ==
    ASSUME RingAssumption, RInv, NEW p \in Waiting
    PROVE  /\ Ahead(p) = tl[p] - head
           /\ Sub(tl[p], head) >= Capacity <=> tl[p] < head \/ tl[p] >= head + Capacity
<1>1. /\ Capacity \in Nat \ {0} /\ Word \in Nat /\ head \in Nat /\ tl[p] \in Nat /\ tail \in Nat
      /\ head + Capacity < Word /\ tl[p] + Capacity < Word
      /\ tl[p] <= head + Capacity
  BY NoWrap DEF RInv, Types, Cursors, Producing, Waiting
<1>2. CASE tl[p] < head
  <2>1. tl[p] + Word - head \in 0..Word - 1
    BY <1>1, <1>2
  <2>2. Sub(tl[p], head) = tl[p] + Word - head
    BY <1>1, <2>1 DEF Sub
  <2> QED BY <1>1, <1>2, <2>2 DEF Ahead
<1>3. CASE tl[p] >= head
  <2>1. tl[p] + Word - head \in Word..2 * Word - 1
    BY <1>1, <1>3
  <2>2. Sub(tl[p], head) = tl[p] - head
    BY <1>1, <2>1 DEF Sub
  <2> QED BY <1>1, <1>3, <2>2 DEF Ahead
<1> QED BY <1>1, <1>2, <1>3

-----------------------------------------------------------------------------
(* The invariant is kept: first what a step of one producer does to the set *)
(* of waiting pushes.                                                       *)
States == {"idle", "load_tail", "load_head", "cas", "store"}
Waits == {"load_tail", "load_head", "cas"}

LEMMA Enters ==
    ASSUME RInv, NEW p \in Producers, NEW w \in Waits, pc' = [pc EXCEPT ![p] = w]
    PROVE  /\ Waiting' = Waiting \cup {p} /\ IsFiniteSet(Waiting')
           /\ p \in Waiting => Cardinality(Waiting') = Cardinality(Waiting)
           /\ p \notin Waiting => Cardinality(Waiting') = Cardinality(Waiting) + 1
<1>1. Waiting' = Waiting \cup {p}
  BY DEF Waiting, Waits, RInv, Types
<1>2. IsFiniteSet(Waiting)
  BY DEF RInv, Cursors
<1>3. p \in Waiting => Waiting' = Waiting
  BY <1>1
<1> QED BY <1>1, <1>2, <1>3, FS_AddElement

LEMMA Leaves ==
    ASSUME RInv, NEW p \in Waiting, NEW w \in States \ Waits, pc' = [pc EXCEPT ![p] = w]
    PROVE  /\ Waiting' = Waiting \ {p} /\ IsFiniteSet(Waiting')
           /\ Cardinality(Waiting') = Cardinality(Waiting) - 1
<1>1. Waiting' = Waiting \ {p}
  BY DEF Waiting, Waits, States, RInv, Types
<1>2. IsFiniteSet(Waiting)
  BY DEF RInv, Cursors
<1> QED BY <1>1, <1>2, FS_RemoveElement

LEMMA Counts == ASSUME RInv PROVE Cardinality(Waiting) \in Nat
BY FS_CardinalityType DEF RInv, Cursors

(* A producer that neither owned a slot nor gets one leaves slots and       *)
(* consumer as they are.                                                    *)
LEMMA Elsewhere ==
    ASSUME RInv, NEW p \in Producers, pc[p] # "store", NEW w \in States \ {"store"},
           pc' = [pc EXCEPT ![p] = w],
           tl' = tl \/ tl' = [tl EXCEPT ![p] = tail],
           UNCHANGED <<buf, head, tail, cpc, cval>>
    PROVE  /\ \A q \in Producers : \A i : Storing(q, i)' <=> Storing(q, i)
           /\ Slots' /\ Consuming'
<1>1. pc'[p] # "store" /\ \A q \in Producers \ {p} : pc'[q] = pc[q] /\ tl'[q] = tl[q]
  BY DEF RInv, Types
<1>2. \A q \in Producers : \A i : Storing(q, i)' <=> Storing(q, i)
  BY <1>1 DEF Storing
<1>3. \A i : /\ Reserved(i)' <=> Reserved(i)
             /\ Cleared(i)' <=> Cleared(i)
  BY <1>2 DEF Reserved, Cleared
<1>4. Slots'
  BY <1>3 DEF RInv, Slots, Slot
<1>5. Consuming'
  BY <1>3 DEF RInv, Consuming, Slot
<1> QED BY <1>2, <1>4, <1>5

LEMMA BeginStep ==
    ASSUME RingAssumption, RInv, NEW p \in Producers, NEW v \in Values, PushBegin(p, v)
    PROVE  RInv'
<1>1. p \notin Waiting
  BY DEF PushBegin, Waiting
<1>2. /\ Waiting' = Waiting \cup {p} /\ IsFiniteSet(Waiting')
      /\ Cardinality(Waiting') = Cardinality(Waiting) + 1
  BY <1>1, Enters, Zenon DEF PushBegin, Waits
<1>3. Types'
  <2>1. pushes' \in 0..MaxPushes
    BY NoWrap DEF PushBegin, RInv, Types
  <2> QED BY <2>1 DEF PushBegin, RInv, Types, consumerVars
<1>4. Cursors'
  BY <1>2, Counts DEF PushBegin, RInv, Types, Cursors
<1>5. (\A q \in Producers : \A i : Storing(q, i)' <=> Storing(q, i)) /\ Slots' /\ Consuming'
  BY Elsewhere, Zenon DEF PushBegin, States, consumerVars
<1>6. Producing'
  BY <1>2, <1>5 DEF PushBegin, RInv, Types, Producing
<1> QED BY <1>3, <1>4, <1>5, <1>6 DEF RInv

LEMMA RetryStep ==
    ASSUME RingAssumption, RInv, NEW p \in Producers, PushRetry(p)
    PROVE  RInv'
<1>1. p \in Waiting
  BY DEF PushRetry, Waiting
<1>2. Waiting' = Waiting
  BY <1>1, Enters, Zenon DEF PushRetry, Waits
<1>3. Types'
  BY DEF PushRetry, RInv, Types, consumerVars
<1>4. Cursors'
  BY <1>2 DEF PushRetry, RInv, Cursors
<1>5. (\A q \in Producers : \A i : Storing(q, i)' <=> Storing(q, i)) /\ Slots' /\ Consuming'
  BY Elsewhere, Zenon DEF PushRetry, States, consumerVars
<1>6. Producing'
  BY <1>1, <1>2, <1>5 DEF PushRetry, RInv, Types, Producing
<1> QED BY <1>3, <1>4, <1>5, <1>6 DEF RInv

LEMMA LoadHeadStep ==
    ASSUME RingAssumption, RInv, NEW p \in Producers, PushLoadHead(p)
    PROVE  RInv'
<1>1. p \in Waiting
  BY DEF PushLoadHead, Waiting
<1>2. CASE Sub(tl[p], head) >= Capacity
  <2>1. Waiting' = Waiting \ {p} /\ IsFiniteSet(Waiting')
        /\ Cardinality(Waiting') = Cardinality(Waiting) - 1
    BY <1>1, <1>2, Leaves DEF PushLoadHead, Waits, States
  <2>2. Types'
    BY <1>2 DEF PushLoadHead, RInv, Types, consumerVars
  <2>3. Cursors'
    BY <2>1, Counts DEF PushLoadHead, RInv, Types, Cursors
  <2>4. (\A q \in Producers : \A i : Storing(q, i)' <=> Storing(q, i)) /\ Slots' /\ Consuming'
    BY <1>2, Elsewhere DEF PushLoadHead, States, consumerVars
  <2>5. Producing'
    BY <1>2, <2>1, <2>4 DEF PushLoadHead, RInv, Types, Producing
  <2> QED BY <2>2, <2>3, <2>4, <2>5 DEF RInv
<1>3. CASE ~ (Sub(tl[p], head) >= Capacity)
  <2>1. Waiting' = Waiting
    BY <1>1, <1>3, Enters DEF PushLoadHead, Waits
  <2>2. Types'
    BY <1>3 DEF PushLoadHead, RInv, Types, consumerVars
  <2>3. Cursors'
    BY <2>1 DEF PushLoadHead, RInv, Cursors
  <2>4. (\A q \in Producers : \A i : Storing(q, i)' <=> Storing(q, i)) /\ Slots' /\ Consuming'
    BY <1>3, Elsewhere DEF PushLoadHead, States, consumerVars
  <2>5. tl[p] < head + Capacity
    <3>1. ~ (tl[p] < head \/ tl[p] >= head + Capacity)
      BY <1>1, <1>3, Distance, Zenon
    <3>2. tl[p] \in Nat /\ head \in Nat /\ Capacity \in Nat
      BY NoWrap DEF RInv, Types
    <3> QED BY <3>1, <3>2
  <2>6. Producing'
    BY <1>3, <2>1, <2>4, <2>5 DEF PushLoadHead, RInv, Types, Producing
  <2> QED BY <2>2, <2>3, <2>4, <2>6 DEF RInv
<1> QED BY <1>2, <1>3

(* A compare_exchange that succeeds reserves the first free slot, which is  *)
(* empty.                                                                   *)
LEMMA CasMoves ==
    ASSUME RingAssumption, RInv, NEW p \in Producers, PushCas(p), tail = tl[p]
    PROVE  /\ tail' = tail + 1 /\ tail < head + Capacity
           /\ pc' = [pc EXCEPT ![p] = "store"]
           /\ Waiting' = Waiting \ {p} /\ IsFiniteSet(Waiting')
           /\ Cardinality(Waiting') = Cardinality(Waiting) - 1
           /\ \A i \in Nat : Reserved(i)' <=> Reserved(i) \/ i = tail
<1>1. p \in Waiting
  BY DEF PushCas, Waiting
<1>2. pc' = [pc EXCEPT ![p] = "store"] /\ tl' = tl
  BY DEF PushCas
<1>3. tail + 1 < Word /\ Word \in Nat /\ tail \in Nat
  BY NoWrap DEF RInv, Types
<1>4. tail' = tail + 1
  BY <1>3 DEF PushCas
<1>5. tail < head + Capacity
  BY DEF PushCas, RInv, Producing
<1>6. /\ Waiting' = Waiting \ {p} /\ IsFiniteSet(Waiting')
      /\ Cardinality(Waiting') = Cardinality(Waiting) - 1
  BY <1>1, <1>2, Leaves, Zenon DEF Waits, States
<1>7. pc[p] # "store" /\ pc'[p] = "store" /\ \A q \in Producers \ {p} : pc'[q] = pc[q]
  BY <1>2 DEF PushCas, RInv, Types
<1>8. \A i \in Nat : Reserved(i)' <=> Reserved(i) \/ i = tail
  BY <1>2, <1>7 DEF Reserved, Storing
<1> QED BY <1>2, <1>4, <1>5, <1>6, <1>8

LEMMA CasStep ==
    ASSUME RingAssumption, RInv, NEW p \in Producers, PushCas(p)
    PROVE  RInv'
<1>1. CASE tail = tl[p]
  <2>1. /\ tail' = tail + 1 /\ tail < head + Capacity
        /\ pc' = [pc EXCEPT ![p] = "store"]
        /\ Waiting' = Waiting \ {p} /\ IsFiniteSet(Waiting')
        /\ Cardinality(Waiting') = Cardinality(Waiting) - 1
        /\ \A i \in Nat : Reserved(i)' <=> Reserved(i) \/ i = tail
    BY <1>1, CasMoves
  <2>2. UNCHANGED <<buf, head, tl, val, cpc, cval, pushes>>
    BY DEF PushCas, consumerVars
  <2>3. Types'
    BY <2>1, <2>2 DEF RInv, Types
  <2>4. Cursors'
    BY <2>1, <2>2, Counts, Positive DEF RInv, Types, Cursors
  <2>5. Producing'
    BY <1>1, <2>1, <2>2 DEF PushCas, RInv, Types, Cursors, Producing, Storing, Waiting
  <2>6. \A i \in Nat : Cleared(i)' <=> Cleared(i)
    BY <2>2 DEF Cleared
  <2>7. Slots'
    <3>1. head \in Nat /\ tail \in Nat /\ Capacity \in Nat /\ head <= tail
      BY Positive DEF RInv, Types, Cursors
    <3>2. \A i \in head..tail : buf[Slot(i)] = SENTINEL <=> Reserved(i) \/ Cleared(i) \/ i = tail
      BY <2>1, <3>1 DEF RInv, Slots
    <3>3. \A i \in head..tail' - 1 : buf'[Slot(i)] = SENTINEL <=> Reserved(i)' \/ Cleared(i)'
      BY <2>1, <2>2, <2>6, <3>1, <3>2
    <3>4. \A i \in tail'..head + Capacity - 1 : buf'[Slot(i)] = SENTINEL
      BY <2>1, <2>2, <3>1 DEF RInv, Slots
    <3> QED BY <2>2, <3>3, <3>4 DEF Slots, Slot
  <2>8. Consuming'
    BY <2>1, <2>2 DEF RInv, Types, Cursors, Consuming, Slot
  <2> QED BY <2>3, <2>4, <2>5, <2>7, <2>8 DEF RInv
<1>2. CASE tail # tl[p]
  <2>1. p \in Waiting
    BY DEF PushCas, Waiting
  <2>2. Waiting' = Waiting
    BY <1>2, <2>1, Enters DEF PushCas, Waits
  <2>3. Types'
    BY <1>2 DEF PushCas, RInv, Types, consumerVars
  <2>4. Cursors'
    BY <1>2, <2>2 DEF PushCas, RInv, Cursors
  <2>5. (\A q \in Producers : \A i : Storing(q, i)' <=> Storing(q, i)) /\ Slots' /\ Consuming'
    BY <1>2, Elsewhere DEF PushCas, States, consumerVars
  <2>6. Producing'
    BY <1>2, <2>2, <2>5 DEF PushCas, RInv, Types, Producing
  <2> QED BY <2>3, <2>4, <2>5, <2>6 DEF RInv
<1> QED BY <1>1, <1>2

(* A store fills the slot that its producer owns, and no other.             *)
LEMMA StoreMoves ==
    ASSUME RingAssumption, RInv, NEW p \in Producers, PushStore(p)
    PROVE  /\ tl[p] \in head..tail - 1 /\ ~ Cleared(tl[p])
           /\ buf'[Slot(tl[p])] = val[p] /\ val[p] \in Values
           /\ \A i \in head..head + Capacity - 1 : i # tl[p] => buf'[Slot(i)] = buf[Slot(i)]
           /\ ~ Reserved(tl[p])'
           /\ \A i : i # tl[p] => (Reserved(i)' <=> Reserved(i))
<1>1. pc[p] = "store" /\ buf' = [buf EXCEPT ![Slot(tl[p])] = val[p]] /\ tl' = tl
      /\ pc' = [pc EXCEPT ![p] = "idle"]
  BY DEF PushStore
<1>2. /\ tl[p] \in head..tail - 1 /\ tl[p] \in head..head + Capacity - 1
      /\ tl[p] \in Nat /\ val[p] \in Values
  BY <1>1, NoWrap DEF RInv, Types, Cursors, Producing
<1>3. ~ Cleared(tl[p])
  BY <1>1 DEF Cleared, RInv, Consuming, Reserved, Storing
<1>4. Slot(tl[p]) \in 0..Capacity - 1 /\ DOMAIN buf = 0..Capacity - 1
  BY <1>2, SlotRange DEF RInv, Types
<1>5. buf'[Slot(tl[p])] = val[p]
  BY <1>1, <1>4
<1>6. \A i \in head..head + Capacity - 1 : i # tl[p] => buf'[Slot(i)] = buf[Slot(i)]
  <2> TAKE i \in head..head + Capacity - 1
  <2> HAVE i # tl[p]
  <2>1. Slot(i) # Slot(tl[p])
    BY <1>2, OneIndex, Zenon DEF RInv, Types
  <2>2. i \in Nat
    BY Positive DEF RInv, Types
  <2>3. Slot(i) \in 0..Capacity - 1
    BY <2>2, SlotRange, Zenon
  <2> QED BY <1>1, <1>4, <2>1, <2>3
<1>7. pc'[p] = "idle" /\ \A q \in Producers \ {p} : pc'[q] = pc[q]
  BY <1>1 DEF RInv, Types
<1>8. ~ Reserved(tl[p])'
  BY <1>1, <1>7 DEF Reserved, Storing, RInv, Producing
<1>9. \A i : i # tl[p] => (Reserved(i)' <=> Reserved(i))
  BY <1>1, <1>7 DEF Reserved, Storing
<1> QED BY <1>2, <1>3, <1>5, <1>6, <1>8, <1>9

LEMMA StoreStep ==
    ASSUME RingAssumption, RInv, NEW p \in Producers, PushStore(p)
    PROVE  RInv'
<1>1. /\ tl[p] \in head..tail - 1 /\ ~ Cleared(tl[p])
      /\ buf'[Slot(tl[p])] = val[p] /\ val[p] \in Values
      /\ \A i \in head..head + Capacity - 1 : i # tl[p] => buf'[Slot(i)] = buf[Slot(i)]
      /\ ~ Reserved(tl[p])'
      /\ \A i : i # tl[p] => (Reserved(i)' <=> Reserved(i))
  BY StoreMoves
<1>2. UNCHANGED <<head, tail, tl, val, cpc, cval, pushes>> /\ pc' = [pc EXCEPT ![p] = "idle"]
      /\ pc[p] = "store"
  BY DEF PushStore, consumerVars
<1>3. Waiting' = Waiting
  BY <1>2 DEF Waiting, RInv, Types
<1>4. Types'
  BY <1>1, <1>2, Zenon DEF PushStore, RInv, Types
<1>5. Cursors'
  BY <1>2, <1>3 DEF RInv, Cursors
<1>6. Producing'
  BY <1>2, <1>3 DEF RInv, Types, Producing, Storing
<1>7. \A i : Cleared(i)' <=> Cleared(i)
  BY <1>2 DEF Cleared
<1>8. SENTINEL \notin Values
  BY DEF RingAssumption
<1>9. Slots'
  <2>1. head \in Nat /\ tail \in Nat /\ Capacity \in Nat /\ head <= tail /\ tail <= head + Capacity
    BY Positive DEF RInv, Types, Cursors
  <2>2. ASSUME NEW i \in head..tail - 1
        PROVE  buf'[Slot(i)] = SENTINEL <=> Reserved(i)' \/ Cleared(i)'
    <3>1. CASE i = tl[p]
      BY <1>1, <1>2, <1>7, <1>8, <3>1, Zenon
    <3>2. CASE i # tl[p]
      <4>1. i \in head..head + Capacity - 1
        BY <2>1
      <4>2. buf'[Slot(i)] = buf[Slot(i)]
        BY <1>1, <3>2, <4>1
      <4> QED BY <1>1, <1>7, <3>2, <4>2, Zenon DEF RInv, Slots
    <3> QED BY <3>1, <3>2
  <2>3. \A i \in tail..head + Capacity - 1 : buf'[Slot(i)] = SENTINEL
    BY <1>1, <2>1 DEF RInv, Slots
  <2> QED BY <1>2, <2>2, <2>3 DEF Slots, Slot
<1>10. Consuming'
  <2>1. cpc \in {"clear", "bump"} => head # tl[p]
    BY <1>2 DEF RInv, Consuming, Reserved, Storing
  <2>2. head \in head..head + Capacity - 1
    BY NoWrap DEF RInv, Types
  <2> QED BY <1>1, <1>2, <2>1, <2>2 DEF RInv, Consuming, Slot
<1> QED BY <1>4, <1>5, <1>6, <1>9, <1>10 DEF RInv

LEMMA PopBeginStep == ASSUME RingAssumption, RInv, PopBegin PROVE RInv'
<1>1. UNCHANGED <<buf, head, tail, pc, tl, val, cval, pushes>> /\ cpc = "idle" /\ cpc' = "spin"
  BY DEF PopBegin, producerVars
<1>2. Waiting' = Waiting /\ \A i : (Reserved(i)' <=> Reserved(i)) /\ ~ Cleared(i) /\ ~ Cleared(i)'
  BY <1>1 DEF Waiting, Reserved, Storing, Cleared
<1>3. Types' /\ Cursors' /\ Producing'
  BY <1>1, <1>2 DEF RInv, Types, Cursors, Producing, Storing
<1>4. Slots'
  BY <1>1, <1>2 DEF RInv, Slots, Slot
<1>5. Consuming'
  BY <1>1 DEF PopBegin, RInv, Types, Cursors, Consuming
<1> QED BY <1>3, <1>4, <1>5 DEF RInv

(* The value that ends the spin was stored by the slot's producer, which is *)
(* done with it.                                                            *)
LEMMA PopLoadSlotStep == ASSUME RingAssumption, RInv, PopLoadSlot PROVE RInv'
<1>1. /\ UNCHANGED <<buf, head, tail, pc, tl, val, pushes>> /\ cpc = "spin" /\ cpc' = "clear"
      /\ buf[Slot(head)] # SENTINEL /\ cval' = buf[Slot(head)]
  BY DEF PopLoadSlot, producerVars
<1>2. Waiting' = Waiting /\ \A i : (Reserved(i)' <=> Reserved(i)) /\ ~ Cleared(i) /\ ~ Cleared(i)'
  BY <1>1 DEF Waiting, Reserved, Storing, Cleared
<1>3. Types' /\ Cursors' /\ Producing'
  BY <1>1, <1>2 DEF RInv, Types, Cursors, Producing, Storing
<1>4. Slots'
  BY <1>1, <1>2 DEF RInv, Slots, Slot
<1>5. head < tail /\ head \in head..tail - 1
  BY <1>1 DEF RInv, Consuming, Types
<1>6. ~ Reserved(head)'
  BY <1>1, <1>2, <1>5 DEF RInv, Slots
<1>7. cval' \in Values
  BY <1>1, SlotRange DEF RInv, Types
<1>8. Consuming'
  BY <1>1, <1>5, <1>6, <1>7 DEF Consuming, Slot
<1> QED BY <1>3, <1>4, <1>8 DEF RInv

LEMMA PopClearStep == ASSUME RingAssumption, RInv, PopClear PROVE RInv'
<1>1. /\ UNCHANGED <<head, tail, pc, tl, val, cval, pushes>> /\ cpc = "clear" /\ cpc' = "bump"
      /\ buf' = [buf EXCEPT ![Slot(head)] = SENTINEL]
  BY DEF PopClear, producerVars
<1>2. /\ Waiting' = Waiting
      /\ \A i : (Reserved(i)' <=> Reserved(i)) /\ ~ Cleared(i) /\ (Cleared(i)' <=> i = head)
  BY <1>1 DEF Waiting, Reserved, Storing, Cleared
<1>3. /\ head \in Nat /\ tail \in Nat /\ Capacity \in Nat \ {0}
      /\ head < tail /\ tail <= head + Capacity
  BY <1>1, Positive DEF RInv, Types, Cursors, Consuming
<1>4. Types' /\ Cursors' /\ Producing'
  BY <1>1, <1>2, <1>3, SlotRange, Zenon DEF RInv, Types, Cursors, Producing, Storing
<1>5. Slot(head) \in 0..Capacity - 1 /\ DOMAIN buf = 0..Capacity - 1
  BY <1>3, SlotRange DEF RInv, Types
<1>6. ASSUME NEW i \in head..head + Capacity - 1, i # head PROVE buf'[Slot(i)] = buf[Slot(i)]
  <2>1. head \in head..head + Capacity - 1 /\ i \in Nat
    BY <1>3
  <2>2. Slot(i) # Slot(head)
    BY <1>3, <1>6, <2>1, OneIndex, Zenon
  <2>3. Slot(i) \in 0..Capacity - 1
    BY <2>1, SlotRange, Zenon
  <2> QED BY <1>1, <1>5, <2>2, <2>3
<1>7. ASSUME NEW i \in head..tail - 1 PROVE buf'[Slot(i)] = SENTINEL <=> Reserved(i)' \/ Cleared(i)'
  <2>1. CASE i = head
    BY <1>1, <1>2, <1>5, <2>1
  <2>2. CASE i # head
    <3>1. buf'[Slot(i)] = buf[Slot(i)]
      BY <1>3, <1>6, <2>2
    <3> QED BY <1>2, <2>2, <3>1, Zenon DEF RInv, Slots
  <2> QED BY <2>1, <2>2
<1>8. ASSUME NEW i \in tail..head + Capacity - 1 PROVE buf'[Slot(i)] = SENTINEL
  BY <1>3, <1>6 DEF RInv, Slots
<1>9. Slots'
  BY <1>1, <1>7, <1>8 DEF Slots, Slot
<1>10. Consuming'
  BY <1>1, <1>2 DEF RInv, Consuming
<1> QED BY <1>4, <1>9, <1>10 DEF RInv

LEMMA PopBumpStep == ASSUME RingAssumption, RInv, PopBump PROVE RInv'
<1>1. UNCHANGED <<buf, tail, pc, tl, val, cval, pushes>> /\ cpc = "bump" /\ cpc' = "idle"
  BY DEF PopBump, producerVars
<1>2. /\ head \in Nat /\ tail \in Nat /\ Capacity \in Nat \ {0}
      /\ head < tail /\ tail <= head + Capacity
  BY <1>1, Positive DEF RInv, Types, Cursors, Consuming
<1>3. head' = head + 1
  <2>1. head + 1 < Word /\ Word \in Nat
    BY <1>2, NoWrap
  <2> QED BY <1>2, <2>1 DEF PopBump
<1>4. /\ Waiting' = Waiting /\ ~ Reserved(head)
      /\ \A i : (Reserved(i)' <=> Reserved(i)) /\ (Cleared(i) <=> i = head) /\ ~ Cleared(i)'
  BY <1>1 DEF Waiting, Reserved, Storing, Cleared, RInv, Consuming
<1>5. Types' /\ Cursors'
  BY <1>1, <1>2, <1>3, <1>4 DEF RInv, Types, Cursors
<1>6. Producing'
  BY <1>1, <1>2, <1>3, <1>4 DEF RInv, Types, Producing, Reserved, Storing
<1>7. \A i \in head + 1..tail - 1 : buf[Slot(i)] = SENTINEL <=> Reserved(i)' \/ Cleared(i)'
  BY <1>2, <1>4 DEF RInv, Slots
<1>8. buf[Slot(head)] = SENTINEL
  BY <1>2, <1>4 DEF RInv, Slots
<1>9. Slot(head + Capacity) = Slot(head)
  BY <1>2, SlotReturns, Zenon DEF Slot
<1>10. \A i \in tail..head + 1 + Capacity - 1 : buf[Slot(i)] = SENTINEL
  <2> TAKE i \in tail..head + 1 + Capacity - 1
  <2>1. CASE i = head + Capacity
    BY <1>8, <1>9, <2>1
  <2>2. CASE i # head + Capacity
    BY <1>2, <2>2 DEF RInv, Slots
  <2> QED BY <2>1, <2>2
<1>11. Slots'
  BY <1>1, <1>3, <1>7, <1>10 DEF Slots, Slot
<1>12. Consuming'
  BY <1>1 DEF Consuming
<1> QED BY <1>5, <1>6, <1>11, <1>12 DEF RInv

LEMMA ResetStep == ASSUME RingAssumption, RInv, Reset PROVE RInv'
<1>1. /\ UNCHANGED <<pc, tl, val, cpc, cval>> /\ cpc = "idle" /\ \A p \in Producers : pc[p] = "idle"
      /\ buf' = [i \in 0..Capacity - 1 |-> SENTINEL] /\ head' = 0 /\ tail' = 0 /\ pushes' = 0
  BY DEF Reset, producerVars, consumerVars
<1>2. Waiting' = {}
  BY <1>1 DEF Waiting
<1>3. Capacity \in Nat \ {0} /\ MaxPushes \in Nat
  BY DEF RingAssumption
<1>4. Types'
  BY <1>1, <1>3 DEF RInv, Types
<1>5. Cursors'
  BY <1>1, <1>2, <1>3, FS_EmptySet DEF Cursors
<1>6. Producing'
  BY <1>1, <1>2 DEF Producing
<1>7. \A i \in Nat : buf'[Slot(i)] = SENTINEL
  BY <1>1, SlotRange
<1>8. Slots'
  BY <1>1, <1>3, <1>7 DEF Slots, Slot
<1>9. Consuming'
  BY <1>1 DEF Consuming
<1> QED BY <1>4, <1>5, <1>6, <1>8, <1>9 DEF RInv

LEMMA Inductive == ASSUME RingAssumption, RInv, [Next]_vars PROVE RInv'
<1>1. ASSUME UNCHANGED vars PROVE RInv'
  BY <1>1 DEF vars, RInv, Types, Cursors, Producing, Slots, Consuming, Waiting, Reserved, Storing,
              Cleared, Slot
<1> QED BY <1>1, BeginStep, RetryStep, LoadHeadStep, CasStep, StoreStep, PopBeginStep,
           PopLoadSlotStep, PopClearStep, PopBumpStep, ResetStep DEF Next, Push, Pop

LEMMA Starts == ASSUME RingAssumption, Init PROVE RInv
<1>1. Waiting = {}
  BY DEF Init, Waiting
<1>2. Capacity \in Nat \ {0} /\ MaxPushes \in Nat
  BY DEF RingAssumption
<1>3. Types
  BY <1>2 DEF Init, Types
<1>4. Cursors
  BY <1>1, <1>2, FS_EmptySet DEF Init, Cursors
<1>5. Producing
  BY <1>1 DEF Init, Producing
<1>6. \A i \in Nat : buf[Slot(i)] = SENTINEL
  BY SlotRange DEF Init
<1>7. Slots
  BY <1>2, <1>6 DEF Init, Slots
<1>8. Consuming
  BY DEF Init, Consuming
<1> QED BY <1>3, <1>4, <1>5, <1>7, <1>8 DEF RInv

LEMMA Invariance == ASSUME RingAssumption PROVE Spec => []RInv
<1>1. Init => RInv
  BY Starts
<1>2. RInv /\ [Next]_vars => RInv'
  BY Inductive
<1> QED BY <1>1, <1>2, PTL DEF Spec

(* Between the compare_exchange on tail and the store, the slot belongs to  *)
(* one producer and nobody's value is in it, whatever the other producers   *)
(* and the consumer do.                                                     *)
THEOREM SlotsSafe == ASSUME RingAssumption PROVE Spec => []NoOverwrite
<1>1. ASSUME RInv PROVE NoOverwrite
  <2> SUFFICES ASSUME NEW p \in Producers, pc[p] = "store"
               PROVE  /\ buf[Slot(tl[p])] = SENTINEL
                      /\ \A q \in Producers \ {p} : pc[q] = "store" => Slot(tl[q]) # Slot(tl[p])
    BY DEF NoOverwrite
  <2>1. head \in Nat /\ tail \in Nat /\ Capacity \in Nat \ {0} /\ tail <= head + Capacity
    BY <1>1, Positive DEF RInv, Types, Cursors
  <2>2. ASSUME NEW q \in Producers, pc[q] = "store"
        PROVE  tl[q] \in head..tail - 1 /\ tl[q] \in head..head + Capacity - 1
    BY <1>1, <2>1, <2>2 DEF RInv, Types, Producing
  <2>3. buf[Slot(tl[p])] = SENTINEL
    BY <1>1, <2>2 DEF RInv, Slots, Reserved, Storing
  <2>4. ASSUME NEW q \in Producers, q # p, pc[q] = "store" PROVE Slot(tl[q]) # Slot(tl[p])
    <3>1. tl[q] # tl[p]
      BY <1>1, <2>4 DEF RInv, Producing, Storing
    <3> QED BY <2>1, <2>2, <2>4, <3>1, OneIndex, Zenon
  <2> QED BY <2>3, <2>4
<1>2. RInv => NoOverwrite
  BY <1>1
<1> QED BY <1>2, Invariance, PTL

-----------------------------------------------------------------------------
(* The refinement.  What the mapping shows of a state that satisfies the    *)
(* invariant, free of wrapping and of the choice of a producer.             *)
Held(i) ==
    /\ Cleared(i) => Content(i) = cval
    /\ \A p \in Producers : ~ Cleared(i) /\ Storing(p, i) => Content(i) = val[p]
    /\ ~ Cleared(i) /\ ~ Reserved(i) => Content(i) = buf[Slot(i)]

View ==
    /\ head \in Nat /\ tail \in Nat /\ head <= tail
    /\ Queued \in Seq(Values) /\ Len(Queued) = tail - head
    /\ \A k \in head..tail - 1 : Queued[k - head + 1] = Content(k)
    /\ \A i \in head..tail - 1 : Held(i)
    /\ Position = [p \in Producers |-> IF p \in Waiting THEN tl[p] - head ELSE 0]

LEMMA HeldOf ==
    ASSUME RingAssumption, RInv, NEW i \in head..tail - 1
    PROVE  Held(i) /\ Content(i) \in Values
<1>1. Cleared(i) => Content(i) = cval /\ cval \in Values
  BY DEF Cleared, Content, RInv, Consuming
<1>2. ASSUME NEW p \in Producers, ~ Cleared(i), Storing(p, i)
      PROVE  Content(i) = val[p] /\ val[p] \in Values
  <2> DEFINE owner == CHOOSE q \in Producers : pc[q] = "store" /\ tl[q] = i
  <2>1. owner \in Producers /\ pc[owner] = "store" /\ tl[owner] = i
    BY <1>2 DEF Storing
  <2>2. owner = p
    BY <1>2, <2>1 DEF Storing, RInv, Producing
  <2>3. Content(i) = val[owner]
    BY <1>2, <2>1 DEF Content, Cleared
  <2> QED BY <1>2, <2>2, <2>3 DEF RInv, Producing, Storing
<1>3. ASSUME ~ Cleared(i), ~ Reserved(i) PROVE Content(i) = buf[Slot(i)] /\ buf[Slot(i)] \in Values
  <2>1. Content(i) = buf[Slot(i)]
    BY <1>3 DEF Content, Cleared, Reserved, Storing
  <2>2. Slot(i) \in 0..Capacity - 1
    BY SlotRange DEF RInv, Types
  <2> QED BY <1>3, <2>1, <2>2 DEF RInv, Types, Slots
<1>4. Held(i)
  BY <1>1, <1>2, <1>3 DEF Held
<1> QED BY <1>1, <1>2, <1>3, <1>4 DEF Reserved

LEMMA ViewOf == ASSUME RingAssumption, RInv PROVE View
<1>1. head \in Nat /\ tail \in Nat /\ head <= tail /\ tail - head \in Nat
  BY DEF RInv, Types, Cursors
<1>2. Occupied = tail - head
  BY NoWrap
<1>3. ASSUME NEW i \in 1..tail - head
      PROVE  (head + i - 1) % Word = head + i - 1 /\ head + i - 1 \in head..tail - 1
  BY <1>1, NoWrap
<1>4. Queued = [i \in 1..tail - head |-> Content(head + i - 1)]
  BY <1>2, <1>3 DEF Queued
<1>5. \A i \in 1..tail - head : Content(head + i - 1) \in Values
  BY <1>3, HeldOf, Zenon
<1>6. Queued \in [1..tail - head -> Values]
  BY <1>4, <1>5
<1>7. Queued \in Seq(Values) /\ Len(Queued) = tail - head
  BY <1>1, <1>6
<1>8. ASSUME NEW k \in head..tail - 1 PROVE Queued[k - head + 1] = Content(k)
  <2>1. k - head + 1 \in 1..tail - head /\ head + (k - head + 1) - 1 = k
    BY <1>1
  <2> QED BY <1>4, <2>1
<1>9. \A p \in Waiting : Ahead(p) = tl[p] - head
  BY Distance
<1>10. Position = [p \in Producers |-> IF p \in Waiting THEN tl[p] - head ELSE 0]
  BY <1>9 DEF Position
<1> QED BY <1>1, <1>7, <1>8, <1>10, HeldOf DEF View

LEMMA Shifted ==
    ASSUME NEW h \in Nat, NEW t \in Nat, NEW i \in 1..t - h
    PROVE  \E k \in h..t - 1 : i = k - h + 1
<1>1. h + i - 1 \in h..t - 1 /\ i = (h + i - 1) - h + 1
  OBVIOUS
<1> QED BY <1>1

LEMMA Kept ==
    ASSUME View, View', UNCHANGED <<head, tail>>,
           \A i \in head..tail - 1 : Content(i)' = Content(i)
    PROVE  Queued' = Queued
<1>1. ASSUME NEW i \in 1..tail - head PROVE Queued'[i] = Queued[i]
  <2>1. PICK k \in head..tail - 1 : i = k - head + 1
    BY Shifted DEF View
  <2> QED BY <2>1, Zenon DEF View
<1> QED BY <1>1 DEF View

(* A producer that owns no slot before or after its step leaves the queue.  *)
LEMMA QueueKept ==
    ASSUME View, View', UNCHANGED <<buf, head, tail, cpc, cval>>,
           \A q \in Producers : \A i : Storing(q, i)' <=> Storing(q, i),
           \A q \in Producers : pc[q] = "store" => val'[q] = val[q]
    PROVE  Queued' = Queued
<1>1. ASSUME NEW i \in head..tail - 1 PROVE Content(i)' = Content(i)
  <2>1. Held(i) /\ Held(i)'
    BY DEF View
  <2>2. (Cleared(i)' <=> Cleared(i)) /\ (Reserved(i)' <=> Reserved(i))
    BY DEF Cleared, Reserved
  <2>3. CASE Cleared(i)
    BY <2>1, <2>2, <2>3 DEF Held
  <2>4. CASE ~ Cleared(i) /\ Reserved(i)
    BY <2>1, <2>2, <2>4 DEF Held, Reserved, Storing
  <2>5. CASE ~ Cleared(i) /\ ~ Reserved(i)
    BY <2>1, <2>2, <2>5 DEF Held, Slot
  <2> QED BY <2>3, <2>4, <2>5
<1> QED BY <1>1, Kept

LEMMA BeginMaps ==
    ASSUME RingAssumption, RInv, View, View', NEW p \in Producers, NEW v \in Values, PushBegin(p, v)
    PROVE  Abstract!Begin(p, v)
<1>1. p \notin Waiting /\ Waiting' = Waiting \cup {p}
  BY Enters, Zenon DEF PushBegin, Waiting, Waits
<1>2. /\ UNCHANGED <<buf, head, tail, cpc, cval, out>>
      /\ val' = [val EXCEPT ![p] = v] /\ tl' = [tl EXCEPT ![p] = tail] /\ pc[p] = "idle"
  BY DEF PushBegin, consumerVars
<1>3. Queued' = Queued
  <2>1. \A q \in Producers : \A i : Storing(q, i)' <=> Storing(q, i)
    BY Elsewhere, Zenon DEF PushBegin, States, consumerVars
  <2>2. \A q \in Producers : pc[q] = "store" => val'[q] = val[q]
    BY <1>2 DEF RInv, Types
  <2> QED BY <1>2, <2>1, <2>2, QueueKept
<1>4. Pushing[p] = None /\ Pushing' = [Pushing EXCEPT ![p] = v]
  BY <1>1, <1>2, Zenon DEF Pushing, RInv, Types
<1>5. Position' = [Position EXCEPT ![p] = Len(Queued)]
  BY <1>1, <1>2, Zenon DEF View, RInv, Types
<1> QED BY <1>2, <1>3, <1>4, <1>5 DEF Abstract!Begin

LEMMA NotNone ==
    ASSUME RingAssumption, RInv, NEW p \in Waiting
    PROVE  Pushing[p] = val[p] /\ val[p] # None
BY DEF RingAssumption, RInv, Producing, Pushing, Waiting

LEMMA RetryMaps ==
    ASSUME RingAssumption, RInv, View, View', NEW p \in Producers, PushRetry(p)
    PROVE  Abstract!Retry(p)
<1>1. p \in Waiting /\ Waiting' = Waiting
  BY Enters DEF PushRetry, Waiting, Waits
<1>2. UNCHANGED <<buf, head, tail, cpc, cval, out, val>> /\ tl' = [tl EXCEPT ![p] = tail]
  BY DEF PushRetry, consumerVars
<1>3. Queued' = Queued
  <2>1. \A q \in Producers : \A i : Storing(q, i)' <=> Storing(q, i)
    BY Elsewhere, Zenon DEF PushRetry, States, consumerVars
  <2> QED BY <1>2, <2>1, QueueKept
<1>4. Pushing[p] # None /\ Pushing' = Pushing
  BY <1>1, <1>2, NotNone, Zenon DEF Pushing
<1>5. Position' = [Position EXCEPT ![p] = Len(Queued)]
  BY <1>1, <1>2, Zenon DEF View, RInv, Types
<1> QED BY <1>2, <1>3, <1>4, <1>5 DEF Abstract!Retry

(* push returns Err(()): it saw a full ring, or an index that the consumer  *)
(* had passed.                                                              *)
LEMMA LoadHeadMaps ==
    ASSUME RingAssumption, RInv, View, View', NEW p \in Producers, PushLoadHead(p)
    PROVE  Abstract!Fail(p) \/ UNCHANGED <<Queued, Pushing, Position, out>>
<1>1. p \in Waiting
  BY DEF PushLoadHead, Waiting
<1>2. UNCHANGED <<buf, head, tail, tl, val, cpc, cval, out>>
  BY DEF PushLoadHead, consumerVars
<1>3. Queued' = Queued
  <2>1. \A q \in Producers : \A i : Storing(q, i)' <=> Storing(q, i)
    BY Elsewhere DEF PushLoadHead, States, consumerVars
  <2> QED BY <1>2, <2>1, QueueKept
<1>4. CASE Sub(tl[p], head) >= Capacity
  <2>1. Waiting' = Waiting \ {p}
    BY <1>1, <1>4, Leaves DEF PushLoadHead, Waits, States
  <2>2. tl[p] < head \/ tl[p] >= head + Capacity
    BY <1>1, <1>4, Distance
  <2>3. Position[p] = tl[p] - head
    BY <1>1 DEF View
  <2>4. Position[p] < 0 \/ Position[p] >= Capacity
    BY <2>2, <2>3, Positive DEF RInv, Types
  <2>5. Pushing[p] # None /\ Pushing' = [Pushing EXCEPT ![p] = None]
    BY <1>1, <1>2, <2>1, NotNone, Zenon DEF Pushing
  <2>6. Position' = [Position EXCEPT ![p] = 0]
    BY <1>2, <2>1, SMTT(20) DEF View
  <2> QED BY <1>2, <1>3, <2>4, <2>5, <2>6 DEF Abstract!Fail, Abstract!End
<1>5. CASE ~ (Sub(tl[p], head) >= Capacity)
  <2>1. Waiting' = Waiting
    BY <1>1, <1>5, Enters DEF PushLoadHead, Waits
  <2>2. Pushing' = Pushing
    BY <1>2, <2>1 DEF Pushing
  <2>3. Position' = Position
    BY <1>2, <2>1 DEF View
  <2> QED BY <1>2, <1>3, <2>2, <2>3
<1> QED BY <1>4, <1>5

(* The compare_exchange is the point at which a value enters the queue.     *)
LEMMA CasMaps ==
    ASSUME RingAssumption, RInv, View, View', NEW p \in Producers, PushCas(p)
    PROVE  Abstract!Publish(p) \/ UNCHANGED <<Queued, Pushing, Position, out>>
<1>1. p \in Waiting
  BY DEF PushCas, Waiting
<1>2. UNCHANGED <<buf, head, tl, val, cpc, cval, out>>
  BY DEF PushCas, consumerVars
<1>3. CASE tail = tl[p]
  <2>1. /\ tail' = tail + 1 /\ tail < head + Capacity
        /\ pc' = [pc EXCEPT ![p] = "store"]
        /\ Waiting' = Waiting \ {p}
        /\ \A i \in Nat : Reserved(i)' <=> Reserved(i) \/ i = tail
    BY <1>3, CasMoves
  <2>2. head \in Nat /\ tail \in Nat /\ Capacity \in Nat /\ head <= tail
    BY Positive DEF RInv, Types, Cursors
  <2>3. pc[p] = "cas" /\ pc'[p] = "store" /\ \A q \in Producers \ {p} : pc'[q] = pc[q]
    BY <2>1 DEF PushCas, RInv, Types
  <2>4. ASSUME NEW i \in head..tail - 1 PROVE Content(i)' = Content(i)
    <3>1. Held(i) /\ Held(i)'
      BY <2>1, <2>2, <1>2 DEF View
    <3>2. (Cleared(i)' <=> Cleared(i)) /\ (Reserved(i)' <=> Reserved(i))
      BY <1>2, <2>1, <2>2 DEF Cleared
    <3>3. \A q \in Producers : Storing(q, i) => Storing(q, i)'
      BY <1>2, <2>3, SMTT(20) DEF Storing
    <3>4. CASE Cleared(i)
      BY <1>2, <3>1, <3>2, <3>4, SMTT(20) DEF Held
    <3>5. CASE ~ Cleared(i) /\ Reserved(i)
      BY <1>2, <3>1, <3>2, <3>3, <3>5 DEF Held, Reserved
    <3>6. CASE ~ Cleared(i) /\ ~ Reserved(i)
      BY <1>2, <3>1, <3>2, <3>6 DEF Held, Slot
    <3> QED BY <3>4, <3>5, <3>6
  <2>5. PICK t \in Nat : t = tail
    BY <2>2
  <2>6. Content(t)' = val[p]
    <3>1. Held(t)'
      BY <1>2, <2>1, <2>2, <2>5 DEF View
    <3>2. ~ Cleared(t)'
      BY <1>2, <2>5 DEF Cleared, RInv, Consuming
    <3>3. Storing(p, t)'
      BY <1>2, <1>3, <2>3, <2>5, SMTT(20) DEF Storing
    <3> QED BY <1>2, <3>1, <3>2, <3>3 DEF Held
  <2>7. Pushing[p] = val[p] /\ val[p] # None /\ val[p] \in Values
    BY <1>1, NotNone DEF RInv, Producing
  <2>8. Queued' = Append(Queued, Pushing[p])
    <3>1. /\ Queued \in Seq(Values) /\ Len(Queued) = tail - head
          /\ Queued' \in Seq(Values) /\ Len(Queued') = tail + 1 - head
      BY <1>2, <2>1 DEF View
    <3>2. ASSUME NEW i \in 1..tail - head PROVE Queued'[i] = Queued[i]
      <4>1. PICK k \in head..tail - 1 : i = k - head + 1
        BY <2>2, Shifted
      <4>2. k \in head..tail' - 1
        BY <2>1, <2>2
      <4>3. Queued[i] = Content(k) /\ Queued'[i] = Content(k)'
        BY <1>2, <4>1, <4>2, Zenon DEF View
      <4> QED BY <2>4, <4>3
    <3>3. Queued'[tail + 1 - head] = val[p]
      <4>1. t \in head..tail' - 1
        BY <2>1, <2>2, <2>5
      <4>2. Queued'[t - head + 1] = Content(t)'
        BY <1>2, <4>1, Zenon DEF View
      <4>3. t - head + 1 = tail + 1 - head
        BY <2>2, <2>5
      <4> QED BY <2>6, <4>2, <4>3
    <3> QED BY <2>2, <2>7, <3>1, <3>2, <3>3
  <2>9. Len(Queued) < Capacity
    BY <2>1, <2>2 DEF View
  <2>10. Pushing' = [Pushing EXCEPT ![p] = None]
    BY <1>1, <1>2, <2>1, Zenon DEF Pushing
  <2>11. Position' = [Position EXCEPT ![p] = 0]
    BY <1>2, <2>1, Zenon DEF View
  <2> QED BY <1>2, <2>7, <2>8, <2>9, <2>10, <2>11 DEF Abstract!Publish, Abstract!End
<1>4. CASE tail # tl[p]
  <2>1. Waiting' = Waiting /\ UNCHANGED tail
    BY <1>1, <1>4, Enters DEF PushCas, Waits
  <2>2. Queued' = Queued
    <3>1. \A q \in Producers : \A i : Storing(q, i)' <=> Storing(q, i)
      BY <1>4, Elsewhere DEF PushCas, States, consumerVars
    <3> QED BY <1>2, <2>1, <3>1, QueueKept
  <2>3. Pushing' = Pushing
    BY <1>2, <2>1 DEF Pushing
  <2>4. Position' = Position
    BY <1>2, <2>1 DEF View
  <2> QED BY <1>2, <2>2, <2>3, <2>4
<1> QED BY <1>3, <1>4

(* The store, and the consumer up to its store of head, show nothing.       *)
LEMMA StoreMaps ==
    ASSUME RingAssumption, RInv, View, View', NEW p \in Producers, PushStore(p)
    PROVE  UNCHANGED <<Queued, Pushing, Position, out>>
<1>1. /\ tl[p] \in head..tail - 1 /\ ~ Cleared(tl[p])
      /\ buf'[Slot(tl[p])] = val[p]
      /\ \A i \in head..head + Capacity - 1 : i # tl[p] => buf'[Slot(i)] = buf[Slot(i)]
      /\ ~ Reserved(tl[p])'
      /\ \A i : i # tl[p] => (Reserved(i)' <=> Reserved(i))
  BY StoreMoves
<1>2. UNCHANGED <<head, tail, tl, val, cpc, cval, out>> /\ pc' = [pc EXCEPT ![p] = "idle"]
      /\ pc[p] = "store"
  BY DEF PushStore, consumerVars
<1>3. Waiting' = Waiting
  BY <1>2 DEF Waiting, RInv, Types
<1>4. head \in Nat /\ tail \in Nat /\ Capacity \in Nat /\ tail <= head + Capacity
  BY Positive DEF RInv, Types, Cursors
<1>5. \A q \in Producers \ {p} : pc'[q] = pc[q]
  BY <1>2 DEF RInv, Types
<1>6. ASSUME NEW i \in head..tail - 1 PROVE Content(i)' = Content(i)
  <2>1. Held(i) /\ Held(i)'
    BY <1>2 DEF View
  <2>2. Cleared(i)' <=> Cleared(i)
    BY <1>2, SMTT(20) DEF Cleared
  <2>3. CASE i = tl[p]
    <3>1. Content(i) = val[p]
      BY <1>1, <1>2, <2>1, <2>3, Zenon DEF Held, Storing
    <3>2. ~ Cleared(i)' /\ ~ Reserved(i)'
      BY <1>1, <1>2, <2>2, <2>3, Zenon
    <3>3. Content(i)' = buf'[Slot(i)]
      BY <2>1, <3>2, Zenon DEF Held, Slot
    <3> QED BY <1>1, <2>3, <3>1, <3>3
  <2>4. CASE i # tl[p]
    <3>1. (Reserved(i)' <=> Reserved(i)) /\ buf'[Slot(i)] = buf[Slot(i)]
      BY <1>1, <1>4, <2>4
    <3>2. \A q \in Producers : Storing(q, i) => Storing(q, i)'
      BY <1>2, <1>5, <2>4, SMTT(20) DEF Storing
    <3>3. CASE Cleared(i)
      BY <1>2, <2>1, <2>2, <3>3, SMTT(20) DEF Held
    <3>4. CASE ~ Cleared(i) /\ Reserved(i)
      BY <1>2, <2>1, <2>2, <3>2, <3>4 DEF Held, Reserved
    <3>5. CASE ~ Cleared(i) /\ ~ Reserved(i)
      BY <2>1, <2>2, <3>1, <3>5 DEF Held, Slot
    <3> QED BY <3>3, <3>4, <3>5
  <2> QED BY <2>3, <2>4
<1>7. Queued' = Queued
  BY <1>2, <1>6, Kept
<1>8. Pushing' = Pushing
  BY <1>2, <1>3 DEF Pushing
<1>9. Position' = Position
  BY <1>2, <1>3 DEF View
<1> QED BY <1>2, <1>7, <1>8, <1>9, SMTT(20)

LEMMA PopHides ==
    ASSUME RingAssumption, RInv, View, View', PopBegin \/ PopLoadSlot \/ PopClear
    PROVE  UNCHANGED <<Queued, Pushing, Position, out>>
<1>1. UNCHANGED <<head, tail, pc, tl, val, out>> /\ cpc # "bump"
  BY DEF PopBegin, PopLoadSlot, PopClear, producerVars
<1>2. Waiting' = Waiting /\ \A q, i : Storing(q, i)' <=> Storing(q, i)
  BY <1>1 DEF Waiting, Storing
<1>3. \A i : ~ Cleared(i) /\ (Reserved(i)' <=> Reserved(i))
  BY <1>1, <1>2 DEF Cleared, Reserved
<1>4. ASSUME NEW i \in head..tail - 1 PROVE Content(i)' = Content(i)
  <2>1. Held(i) /\ Held(i)'
    BY <1>1 DEF View
  <2>2. CASE PopBegin \/ PopLoadSlot
    <3>1. buf' = buf /\ ~ Cleared(i)'
      BY <2>2 DEF PopBegin, PopLoadSlot, Cleared
    <3>2. CASE Reserved(i)
      BY <1>1, <1>2, <1>3, <2>1, <3>1, <3>2 DEF Held, Reserved
    <3>3. CASE ~ Reserved(i)
      BY <1>3, <2>1, <3>1, <3>3 DEF Held, Slot
    <3> QED BY <3>2, <3>3
  <2>3. CASE PopClear
    <3>1. /\ cpc = "clear" /\ cpc' = "bump" /\ cval' = cval
          /\ buf' = [buf EXCEPT ![Slot(head)] = SENTINEL]
      BY <2>3 DEF PopClear
    <3>2. ~ Reserved(head) /\ cval = buf[Slot(head)]
      BY <3>1 DEF RInv, Consuming
    <3>3. CASE i = head
      <4>1. Cleared(i)'
        BY <1>1, <3>1, <3>3 DEF Cleared
      <4>2. Content(i)' = cval
        BY <2>1, <3>1, <4>1 DEF Held
      <4>3. Content(i) = buf[Slot(i)]
        BY <1>3, <2>1, <3>2, <3>3 DEF Held
      <4> QED BY <3>2, <3>3, <4>2, <4>3
    <3>4. CASE i # head
      <4>1. ~ Cleared(i)'
        BY <1>1, <3>4 DEF Cleared
      <4>2. buf'[Slot(i)] = buf[Slot(i)]
        <5>1. /\ head \in Nat /\ Capacity \in Nat \ {0} /\ i \in Nat
              /\ i \in head..head + Capacity - 1 /\ head \in head..head + Capacity - 1
          BY Positive DEF RInv, Types, Cursors
        <5>2. Slot(i) # Slot(head)
          BY <3>4, <5>1, OneIndex, Zenon
        <5>3. Slot(i) \in 0..Capacity - 1
          BY <5>1, SlotRange, Zenon
        <5> QED BY <3>1, <5>2, <5>3 DEF RInv, Types
      <4>3. CASE Reserved(i)
        BY <1>1, <1>2, <1>3, <2>1, <4>1, <4>3, SMTT(20) DEF Held, Reserved
      <4>4. CASE ~ Reserved(i)
        BY <1>3, <2>1, <4>1, <4>2, <4>4 DEF Held, Slot
      <4> QED BY <4>3, <4>4
    <3> QED BY <3>3, <3>4
  <2> QED BY <2>2, <2>3
<1>5. Queued' = Queued
  BY <1>1, <1>4, Kept
<1>6. Pushing' = Pushing
  BY <1>1, <1>2 DEF Pushing
<1>7. Position' = Position
  BY <1>1, <1>2 DEF View
<1> QED BY <1>1, <1>5, <1>6, <1>7

(* Its store of head removes the value it has read.                         *)
LEMMA BumpMaps == ASSUME RingAssumption, RInv, View, View', PopBump PROVE Abstract!Take
<1>1. UNCHANGED <<buf, tail, pc, tl, val, cval>> /\ cpc = "bump" /\ cpc' = "idle" /\ out' = cval
  BY DEF PopBump, producerVars
<1>2. head \in Nat /\ tail \in Nat /\ head < tail
  BY <1>1 DEF RInv, Types, Consuming
<1>3. head' = head + 1
  <2>1. head + 1 < Word /\ Word \in Nat
    BY <1>2, NoWrap
  <2> QED BY <1>2, <2>1 DEF PopBump
<1>4. Waiting' = Waiting /\ \A q, i : Storing(q, i)' <=> Storing(q, i)
  BY <1>1 DEF Waiting, Storing
<1>5. \A i : ~ Cleared(i)' /\ (Cleared(i) <=> i = head) /\ (Reserved(i)' <=> Reserved(i))
  BY <1>1, <1>4 DEF Cleared, Reserved
<1>6. ASSUME NEW i \in head + 1..tail - 1 PROVE Content(i)' = Content(i)
  <2>1. Held(i) /\ Held(i)'
    BY <1>1, <1>2, <1>3 DEF View
  <2>2. i # head
    BY <1>2, SMTT(20)
  <2>3. CASE Reserved(i)
    BY <1>1, <1>4, <1>5, <2>1, <2>2, <2>3, SMTT(20) DEF Held, Reserved
  <2>4. CASE ~ Reserved(i)
    BY <1>1, <1>5, <2>1, <2>2, <2>4 DEF Held, Slot
  <2> QED BY <2>3, <2>4
<1>7. /\ Queued \in Seq(Values) /\ Len(Queued) = tail - head
      /\ Queued' \in Seq(Values) /\ Len(Queued') = tail - head - 1
  BY <1>1, <1>2, <1>3 DEF View
<1>8. Queued # <<>>
  BY <1>2, <1>7
<1>9. ASSUME NEW i \in 1..tail - head - 1 PROVE Queued'[i] = Queued[i + 1]
  <2>1. PICK k \in head + 1..tail - 1 : i = k - (head + 1) + 1
    BY <1>2, Shifted
  <2>2. Queued'[i] = Content(k)'
    BY <1>1, <1>3, <2>1 DEF View
  <2>3. i + 1 = k - head + 1 /\ k \in head..tail - 1
    BY <1>2, <2>1
  <2>4. Queued[i + 1] = Content(k)
    BY <2>3 DEF View
  <2> QED BY <1>6, <2>2, <2>4
<1>10. Queued' = Tail(Queued)
  BY <1>2, <1>7, <1>8, <1>9
<1>11. out' = Head(Queued)
  <2>1. head \in head..tail - 1 /\ head - head + 1 = 1
    BY <1>2
  <2>2. Queued[1] = Content(head) /\ Held(head)
    BY <2>1, SMTT(20) DEF View
  <2>3. Content(head) = cval
    BY <1>5, <2>2 DEF Held
  <2> QED BY <1>1, <1>7, <1>8, <2>2, <2>3
<1>12. Pushing' = Pushing
  BY <1>1, <1>4 DEF Pushing
<1>13. \A p \in Producers : Pushing[p] = None <=> p \notin Waiting
  BY NotNone, Zenon DEF Pushing
<1>14. Position' = [p \in Producers |-> IF Pushing[p] = None THEN 0 ELSE Position[p] - 1]
  <2>1. \A p \in Producers : tl[p] - (head + 1) = tl[p] - head - 1
    BY <1>2 DEF RInv, Types
  <2>2. /\ Position = [p \in Producers |-> IF p \in Waiting THEN tl[p] - head ELSE 0]
        /\ Position' = [p \in Producers |-> IF p \in Waiting THEN tl[p] - (head + 1) ELSE 0]
    BY <1>1, <1>3, <1>4 DEF View
  <2> QED BY <1>13, <2>1, <2>2
<1> QED BY <1>8, <1>10, <1>11, <1>12, <1>14 DEF Abstract!Take

LEMMA ResetMaps == ASSUME RingAssumption, RInv, View, View', Reset PROVE Abstract!Clear
<1>1. /\ UNCHANGED <<pc, tl, val, out>> /\ \A p \in Producers : pc[p] = "idle"
      /\ head' = 0 /\ tail' = 0
  BY DEF Reset, producerVars, consumerVars
<1>2. Waiting = {} /\ Waiting' = {}
  BY <1>1 DEF Waiting
<1>3. Queued' = <<>>
  BY <1>1 DEF View
<1>4. (\A p \in Producers : Pushing[p] = None) /\ Pushing' = Pushing
  BY <1>2, SMTT(20) DEF Pushing
<1>5. Position' = Position
  BY <1>2 DEF View
<1> QED BY <1>1, <1>3, <1>4, <1>5 DEF Abstract!Clear

LEMMA InitMaps == ASSUME RingAssumption, Init, View PROVE Abstract!Init
<1>1. Waiting = {} /\ head = 0 /\ tail = 0 /\ out = None
  BY DEF Init, Waiting
<1>2. Queued = <<>>
  BY <1>1 DEF View
<1>3. Pushing = [p \in Producers |-> None]
  BY <1>1 DEF Pushing
<1>4. Position = [p \in Producers |-> 0]
  BY <1>1 DEF View
<1> QED BY <1>1, <1>2, <1>3, <1>4 DEF Abstract!Init

LEMMA StepMaps ==
    ASSUME RingAssumption, RInv, View, View', [Next]_vars
    PROVE  [Abstract!Next]_(Abstract!vars)
<1> DEFINE Hidden == UNCHANGED <<Queued, Pushing, Position, out>>
<1>1. ASSUME NEW p \in Producers, NEW v \in Values, PushBegin(p, v) PROVE Abstract!Next
  BY <1>1, BeginMaps DEF Abstract!Next
<1>2. ASSUME NEW p \in Producers, Push(p) PROVE Abstract!Next \/ Hidden
  <2>1. CASE PushRetry(p)
    BY <2>1, RetryMaps DEF Abstract!Next
  <2>2. CASE PushLoadHead(p)
    BY <2>2, LoadHeadMaps DEF Abstract!Next
  <2>3. CASE PushCas(p)
    BY <2>3, CasMaps DEF Abstract!Next
  <2>4. CASE PushStore(p)
    BY <2>4, StoreMaps
  <2> QED BY <1>2, <2>1, <2>2, <2>3, <2>4 DEF Push
<1>3. CASE PopBegin \/ PopLoadSlot \/ PopClear
  BY <1>3, PopHides DEF Abstract!vars
<1>4. CASE PopBump
  BY <1>4, BumpMaps DEF Abstract!Next
<1>5. CASE Reset
  BY <1>5, ResetMaps DEF Abstract!Next
<1>6. CASE UNCHANGED vars
  <2>1. Waiting' = Waiting /\ UNCHANGED <<head, tail, val, tl, out>>
    BY <1>6 DEF vars, Waiting
  <2>2. Queued' = Queued
    BY <1>6, QueueKept DEF vars, Storing
  <2>3. Pushing' = Pushing
    BY <2>1 DEF Pushing
  <2>4. Position' = Position
    BY <2>1 DEF View
  <2> QED BY <2>1, <2>2, <2>3, <2>4 DEF Abstract!vars
<1> QED BY <1>1, <1>2, <1>3, <1>4, <1>5, <1>6 DEF Next, Pop, Abstract!vars

(* push and pop are a first-in-first-out queue: a value enters once, at the *)
(* compare_exchange of its push, and leaves once, at the consumer's store   *)
(* of head, in that order; Err(()) is returned only by a push that found    *)
(* the ring full or whose slot the consumer had passed.                     *)
THEOREM ReadyRingRefines == ASSUME RingAssumption PROVE Spec => ImplementsReadyQueue
<1>1. RInv => View
  BY ViewOf
<1>2. Init => RInv
  BY Starts
<1>3. Init /\ View => Abstract!Init
  BY InitMaps
<1>4. RInv /\ View /\ View' /\ [Next]_vars => [Abstract!Next]_(Abstract!vars)
  BY StepMaps
<1> QED BY <1>1, <1>2, <1>3, <1>4, Invariance, PTL DEF Spec, ImplementsReadyQueue, Abstract!Spec
==============================================================================
