----------------------------- MODULE ReadyQueue -----------------------------
(***************************************************************************)
(* What the graph scheduler gets from `ReadyRing` (ready_ring.rs): a       *)
(* first-in-first-out queue with many producers (pool workers) and one     *)
(* consumer (the WaitSet thread).  `ReadyRing` implements this module.     *)
(*                                                                         *)
(* A push is in progress from its load of `tail` until it returns.         *)
(* `ahead[p]` is the tail it loaded minus the current head: the number of  *)
(* values in front of the slot it hopes for, negative once the consumer    *)
(* has passed that slot.  The push may return Err(()) when the slots in    *)
(* front fill the ring, and also when ahead[p] is negative, because the    *)
(* code then computes tail - head in unsigned arithmetic.                  *)
(***************************************************************************)
EXTENDS Integers, Sequences

CONSTANTS
    Producers,   \* pool workers
    Values,      \* vertex indices
    None,        \* no value
    Capacity     \* slots of the ring

VARIABLES
    queue,       \* the values published and not yet taken, oldest first
    pushing,     \* per producer: the value of the push in progress, or None
    ahead,       \* per producer: position of its push in progress, else 0
    out          \* the value the last removal returned, None before the first

vars == <<queue, pushing, ahead, out>>

Init ==
    /\ queue = <<>>
    /\ pushing = [p \in Producers |-> None]
    /\ ahead = [p \in Producers |-> 0]
    /\ out = None

Begin(p, v) ==
    /\ pushing[p] = None
    /\ pushing' = [pushing EXCEPT ![p] = v]
    /\ ahead' = [ahead EXCEPT ![p] = Len(queue)]
    /\ UNCHANGED <<queue, out>>

\* The push lost a race for the slot and starts over.
Retry(p) ==
    /\ pushing[p] # None
    /\ ahead' = [ahead EXCEPT ![p] = Len(queue)]
    /\ UNCHANGED <<queue, pushing, out>>

End(p) ==
    /\ pushing[p] # None
    /\ pushing' = [pushing EXCEPT ![p] = None]
    /\ ahead' = [ahead EXCEPT ![p] = 0]
    /\ UNCHANGED out

Publish(p) ==
    /\ Len(queue) < Capacity
    /\ queue' = Append(queue, pushing[p])
    /\ End(p)

Fail(p) ==
    /\ ahead[p] < 0 \/ ahead[p] >= Capacity
    /\ End(p)
    /\ UNCHANGED queue

Take ==
    /\ queue # <<>>
    /\ queue' = Tail(queue)
    /\ out' = Head(queue)
    /\ ahead' = [p \in Producers |-> IF pushing[p] = None THEN 0 ELSE ahead[p] - 1]
    /\ UNCHANGED pushing

\* `reset`: called between runs, with no push in progress.
Clear ==
    /\ \A p \in Producers : pushing[p] = None
    /\ queue' = <<>>
    /\ UNCHANGED <<pushing, ahead, out>>

Next ==
    \/ \E p \in Producers, v \in Values : Begin(p, v)
    \/ \E p \in Producers : Retry(p) \/ Publish(p) \/ Fail(p)
    \/ Take
    \/ Clear

Spec == Init /\ [][Next]_vars
=============================================================================
