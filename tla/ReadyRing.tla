----------------------------- MODULE ReadyRing ------------------------------
(***************************************************************************)
(* `ReadyRing` of crates/taktora-executor/src/ready_ring.rs: the bounded   *)
(* multi-producer single-consumer ring through which pool workers tell the *)
(* WaitSet thread that a graph vertex became ready.  One action per atomic *)
(* access.  Loads are acquire and stores release in the code, and every    *)
(* value a thread uses was published before the index that guards it, so   *)
(* the steps interleave as in a sequentially consistent memory.            *)
(***************************************************************************)
EXTENDS Integers, Sequences, FiniteSets

CONSTANTS
    Producers,    \* pool workers
    Values,       \* vertex indices
    SENTINEL,     \* usize::MAX, the content of an empty slot
    None,         \* no value
    MinCapacity,  \* argument of ReadyRing::new, the number of vertices
    Word,         \* indices are computed modulo Word (2^64 in the code)
    MaxPushes     \* bound: pushes begun between two resets

Min(S) == CHOOSE x \in S : \A y \in S : x <= y

\* `min_capacity.max(2).next_power_of_two()`
Capacity == Min({2^k : k \in 1..MinCapacity} \cap {n \in 2..2^MinCapacity : n >= MinCapacity})

\* What the code requires of the constants; that Capacity is defined is a fact about
\* powers of two.
RingAssumption ==
    /\ MinCapacity \in Nat \ {0} /\ Capacity \in Nat \ {0}
    /\ MaxPushes \in Nat
    /\ Word \in Nat
    /\ Word > Capacity + MaxPushes
    /\ Word % Capacity = 0
    /\ SENTINEL \notin Values /\ None \notin Values

VARIABLES
    buf, head, tail,    \* the shared ring
    pc, tl, val,        \* per producer: step, tail it loaded, value it pushes
    result,             \* per producer: what its last push returned
    cpc, cval,          \* consumer: step, value it read from the slot
    out,                \* the last Some(v) that pop returned
    pushes              \* pushes begun since the last reset

vars == <<buf, head, tail, pc, tl, val, result, cpc, cval, out, pushes>>
producerVars == <<pc, tl, val, result>>
consumerVars == <<cpc, cval, out>>

Sub(a, b) == (a + Word - b) % Word          \* usize::wrapping_sub
Occupied == Sub(tail, head)
Slot(i) == i % Capacity                     \* i & mask
Waiting == {p \in Producers : pc[p] \in {"load_tail", "load_head", "cas"}}

\* The state has its type: what pop hands out is a value, never the sentinel of an
\* empty slot that it spins on (ready_ring.rs:103).
TypeOK ==
    /\ buf \in [0..Capacity - 1 -> Values \union {SENTINEL}]
    /\ head \in 0..Word - 1 /\ tail \in 0..Word - 1
    /\ pc \in [Producers -> {"idle", "load_tail", "load_head", "cas", "store"}]
    /\ tl \in [Producers -> 0..Word - 1]
    /\ val \in [Producers -> Values \union {None}]
    /\ result \in [Producers -> {"ok", "err"}]
    /\ cpc \in {"idle", "spin", "clear", "bump"}
    /\ cval \in Values \union {None} /\ out \in Values \union {None}
    /\ pushes \in 0..MaxPushes

Init ==
    /\ buf = [i \in 0..Capacity - 1 |-> SENTINEL]
    /\ head = 0 /\ tail = 0
    /\ pc = [p \in Producers |-> "idle"]
    /\ tl = [p \in Producers |-> 0]
    /\ val = [p \in Producers |-> None]
    /\ result = [p \in Producers |-> "ok"]
    /\ cpc = "idle" /\ cval = None /\ out = None
    /\ pushes = 0

\* Call of push(v), up to and including the load of `tail`.
PushBegin(p, v) ==
    /\ pc[p] = "idle"
    /\ pushes < MaxPushes
    /\ pushes' = pushes + 1
    /\ val' = [val EXCEPT ![p] = v]
    /\ tl' = [tl EXCEPT ![p] = tail]
    /\ pc' = [pc EXCEPT ![p] = "load_head"]
    /\ UNCHANGED <<buf, head, tail, result, consumerVars>>

\* The loop's next turn after a lost compare_exchange.
PushRetry(p) ==
    /\ pc[p] = "load_tail"
    /\ tl' = [tl EXCEPT ![p] = tail]
    /\ pc' = [pc EXCEPT ![p] = "load_head"]
    /\ UNCHANGED <<buf, head, tail, val, result, consumerVars, pushes>>

\* The load of `head`, with the test for a full ring and its early return.
PushLoadHead(p) ==
    /\ pc[p] = "load_head"
    /\ IF Sub(tl[p], head) >= Capacity
       THEN /\ pc' = [pc EXCEPT ![p] = "idle"]
            /\ result' = [result EXCEPT ![p] = "err"]
       ELSE /\ pc' = [pc EXCEPT ![p] = "cas"]
            /\ UNCHANGED result
    /\ UNCHANGED <<buf, head, tail, tl, val, consumerVars, pushes>>

PushCas(p) ==
    /\ pc[p] = "cas"
    /\ IF tail = tl[p]
       THEN /\ tail' = (tail + 1) % Word
            /\ pc' = [pc EXCEPT ![p] = "store"]
       ELSE /\ pc' = [pc EXCEPT ![p] = "load_tail"]
            /\ UNCHANGED tail
    /\ UNCHANGED <<buf, head, tl, val, result, consumerVars, pushes>>

PushStore(p) ==
    /\ pc[p] = "store"
    /\ buf' = [buf EXCEPT ![Slot(tl[p])] = val[p]]
    /\ pc' = [pc EXCEPT ![p] = "idle"]
    /\ result' = [result EXCEPT ![p] = "ok"]
    /\ UNCHANGED <<head, tail, tl, val, consumerVars, pushes>>

\* Call of pop: None on an empty ring, else go and read the slot.
PopBegin ==
    /\ cpc = "idle"
    /\ head # tail
    /\ cpc' = "spin"
    /\ UNCHANGED <<buf, head, tail, producerVars, cval, out, pushes>>

\* The slot load that ends the spin loop: the reserved slot has been filled.
PopLoadSlot ==
    /\ cpc = "spin"
    /\ buf[Slot(head)] # SENTINEL
    /\ cval' = buf[Slot(head)]
    /\ cpc' = "clear"
    /\ UNCHANGED <<buf, head, tail, producerVars, out, pushes>>

PopClear ==
    /\ cpc = "clear"
    /\ buf' = [buf EXCEPT ![Slot(head)] = SENTINEL]
    /\ cpc' = "bump"
    /\ UNCHANGED <<head, tail, producerVars, cval, out, pushes>>

\* Mutant of PopBump: pop returns what is in the slot after it was cleared.
PopBumpReread ==
    /\ cpc = "bump"
    /\ head' = (head + 1) % Word
    /\ out' = buf[Slot(head)]
    /\ cpc' = "idle"
    /\ UNCHANGED <<buf, tail, producerVars, cval, pushes>>

PopBump ==
    /\ cpc = "bump"
    /\ head' = (head + 1) % Word
    /\ out' = cval
    /\ cpc' = "idle"
    /\ UNCHANGED <<buf, tail, producerVars, cval, pushes>>

\* reset(): its caller guarantees that no push or pop is in flight.
Reset ==
    /\ cpc = "idle" /\ \A p \in Producers : pc[p] = "idle"
    /\ buf' = [i \in 0..Capacity - 1 |-> SENTINEL]
    /\ head' = 0 /\ tail' = 0
    /\ pushes' = 0
    /\ UNCHANGED <<producerVars, consumerVars>>

Push(p) == PushRetry(p) \/ PushLoadHead(p) \/ PushCas(p) \/ PushStore(p)
Pop == PopBegin \/ PopLoadSlot \/ PopClear \/ PopBump

Next ==
    \/ \E p \in Producers, v \in Values : PushBegin(p, v)
    \/ \E p \in Producers : Push(p)
    \/ Pop
    \/ Reset

\* A started push is a thread that keeps running; the consumer keeps popping.
Fairness == WF_vars(Pop) /\ \A p \in Producers : WF_vars(Push(p))

Spec == Init /\ [][Next]_vars /\ Fairness

-----------------------------------------------------------------------------
(* Properties *)

\* A reserved slot is written exactly by its reserver: no producer about to
\* store (after its compare_exchange on tail) overwrites a value that pop has
\* not taken yet, and no two producers store into the same slot.
NoOverwrite ==
    \A p \in Producers : pc[p] = "store" =>
        /\ buf[Slot(tl[p])] = SENTINEL
        /\ \A q \in Producers \ {p} : pc[q] = "store" => Slot(tl[q]) # Slot(tl[p])

\* The queue the ring stands for: a reserved slot counts with the value its
\* producer is about to store, a slot the consumer has cleared with the value
\* the consumer holds until it advances head.
Content(i) ==
    IF cpc = "bump" /\ i = head THEN cval
    ELSE IF \E p \in Producers : pc[p] = "store" /\ tl[p] = i
         THEN val[CHOOSE p \in Producers : pc[p] = "store" /\ tl[p] = i]
         ELSE buf[Slot(i)]

\* tl[p] - head as a signed number: few pushes separate the two.
Ahead(p) == LET d == Sub(tl[p], head) IN IF d <= Capacity THEN d ELSE d - Word

Queued == [i \in 1..Occupied |-> Content((head + i - 1) % Word)]
Pushing == [p \in Producers |-> IF p \in Waiting THEN val[p] ELSE None]
Position == [p \in Producers |-> IF p \in Waiting THEN Ahead(p) ELSE 0]

Abstract == INSTANCE ReadyQueue WITH
    Capacity <- Capacity, queue <- Queued, pushing <- Pushing, ahead <- Position

\* push and pop implement the queue the graph scheduler relies on: values come
\* out once, in the order of the tail reservations, and Err(()) is returned only
\* by a push that found the ring full or whose slot the consumer had passed.
ImplementsReadyQueue == Abstract!Spec

\* The spin in pop ends: the producer that reserved the slot stores its value
\* without waiting for anybody, so a pop that found head # tail returns.
Spinning == cpc = "spin"
Popped == cpc = "idle"

\* ready_ring.rs, on push: Err(()) is "by construction unreachable ... because
\* the ring is sized to n_vertices and every vertex becomes ready at most once
\* per dispatch": with no more pushes than slots, no push returns Err(()).
SizedPushNeverFails == \A p \in Producers : result[p] = "ok"
=============================================================================
