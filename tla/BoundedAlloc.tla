----------------------------- MODULE BoundedAlloc -----------------------------
(***************************************************************************)
(* The partitioned bounded allocator (crates/taktora-bounded-alloc/src/    *)
(* lib.rs): two pools of blocks, each with a bitmap of free bits claimed   *)
(* by compare-and-exchange, counters kept beside it, and a deallocation    *)
(* that finds the pool and the block of a pointer from its address.        *)
(* Threads allocate and free concurrently, and any thread may free what    *)
(* another one allocated.  A bitmap word is the set of its one bits.       *)
(***************************************************************************)
EXTENDS Integers, FiniteSets

CONSTANTS
    Threads,
    MAX_BLOCKS,        \* per pool
    BLOCK_SIZE,
    WordBits, Align,   \* 64 and 64
    QmFirst,           \* the order the compiler gives the two pools
    MaxAllocs

Pools == {"sc", "qm"}      \* IntegrityLevel

Max(S) == CHOOSE x \in S : \A y \in S : x >= y
Min(S) == CHOOSE x \in S : \A y \in S : x <= y

VARIABLES
    bitmap,            \* per pool and word, the free bits
    count,             \* per pool: allocs, deallocs, in_use, peak
    locked,
    thread,            \* per thread, its call
    live               \* the pointers handed out and not freed

vars == <<bitmap, count, locked, thread, live>>

BITMAP_WORDS(p) == (MAX_BLOCKS[p] + WordBits - 1) \div WordBits

(* size_of::<Block<BLOCK_SIZE>>() *)
stride == ((BLOCK_SIZE + Align - 1) \div Align) * Align

arena(p) == IF (p = "qm") = QmFirst THEN 0
            ELSE MAX_BLOCKS[IF QmFirst THEN "qm" ELSE "sc"] * stride

(* A block fills its stride: BLOCK_SIZE is a multiple of the alignment. *)
Layout ==
    /\ IsFiniteSet(Threads) /\ MAX_BLOCKS \in [Pools -> Nat \ {0}]
    /\ WordBits \in Nat \ {0} /\ BLOCK_SIZE \in Nat \ {0} /\ stride = BLOCK_SIZE
    /\ QmFirst \in BOOLEAN

as_mut_ptr(p, block) == arena(p) + block * stride

capacity_bytes(p) == MAX_BLOCKS[p] * BLOCK_SIZE

Idle == [pc |-> "idle"]

(* BoundedAllocator::new: every bit is one, the bits past MAX_BLOCKS too. *)
Init ==
    /\ bitmap = [p \in Pools |-> [w \in 0..(BITMAP_WORDS(p) - 1) |-> 0..(WordBits - 1)]]
    /\ count = [p \in Pools |-> [allocs |-> 0, deallocs |-> 0, in_use |-> 0, peak |-> 0]]
    /\ locked = [p \in Pools |-> FALSE]
    /\ thread = [t \in Threads |-> Idle]
    /\ live = {}

Go(t, call) == thread' = [thread EXCEPT ![t] = call]

-----------------------------------------------------------------------------
(* lock of each pool; one way. *)
lock(p) ==
    /\ ~ locked[p]
    /\ p = "qm" => locked["sc"]
    /\ locked' = [locked EXCEPT ![p] = TRUE]
    /\ UNCHANGED <<bitmap, count, thread, live>>

(* alloc_in: a locked pool panics, which ends the process; a layout that   *)
(* is too large or too strict gets a null pointer and changes nothing.     *)
alloc(t, p) ==
    /\ thread[t] = Idle /\ count[p].allocs < MaxAllocs
    /\ Go(t, IF locked[p] THEN [pc |-> "panicked"] ELSE [pc |-> "load", pool |-> p, word |-> 0])
    /\ UNCHANGED <<bitmap, count, locked, live>>

(* try_claim_block: a word without a usable bit sends the scan on, and     *)
(* past the last word to a null pointer.                                   *)
Load(t) ==
    LET c == thread[t]
        word == bitmap[c.pool][c.word]
        bit == Min(word)
    IN  /\ c.pc = "load"
        /\ Go(t, IF word # {} /\ c.word * WordBits + bit < MAX_BLOCKS[c.pool]
                 THEN [pc |-> "cas", pool |-> c.pool, word |-> c.word, seen |-> word]
                 ELSE IF c.word + 1 < BITMAP_WORDS(c.pool)
                 THEN [c EXCEPT !.word = @ + 1]
                 ELSE Idle)
        /\ UNCHANGED <<bitmap, count, locked, live>>

(* Mutant of Cas: the word is stored without being compared. *)
CasBlind(t) ==
    LET c == thread[t]
        bit == Min(c.seen)
    IN  /\ c.pc = "cas"
        /\ bitmap' = [bitmap EXCEPT ![c.pool][c.word] = c.seen \ {bit}]
        /\ Go(t, [pc |-> "claimed", pool |-> c.pool, block |-> c.word * WordBits + bit])
        /\ UNCHANGED <<count, locked, live>>

Cas(t) ==
    LET c == thread[t]
        bit == Min(c.seen)
    IN  /\ c.pc = "cas"
        /\ IF bitmap[c.pool][c.word] = c.seen
           THEN /\ bitmap' = [bitmap EXCEPT ![c.pool][c.word] = c.seen \ {bit}]
                /\ Go(t, [pc |-> "claimed", pool |-> c.pool, block |-> c.word * WordBits + bit])
           ELSE /\ Go(t, [pc |-> "load", pool |-> c.pool, word |-> c.word])
                /\ UNCHANGED bitmap
        /\ UNCHANGED <<count, locked, live>>

(* alloc_count .. *)
Count(t) ==
    LET c == thread[t]
    IN  /\ c.pc = "claimed"
        /\ count' = [count EXCEPT ![c.pool].allocs = @ + 1]
        /\ Go(t, [pc |-> "counting", pool |-> c.pool, block |-> c.block])
        /\ UNCHANGED <<bitmap, locked, live>>

(* .. then in_use .. *)
Enter(t) ==
    LET c == thread[t]
    IN  /\ c.pc = "counting"
        /\ count' = [count EXCEPT ![c.pool].in_use = @ + 1]
        /\ Go(t, [pc |-> "counted", pool |-> c.pool, block |-> c.block,
                  in_use_after |-> count[c.pool].in_use + 1])
        /\ UNCHANGED <<bitmap, locked, live>>

(* .. the high-water mark, and the pointer is returned. *)
Return(t) ==
    LET c == thread[t]
    IN  /\ c.pc = "counted"
        /\ count' = [count EXCEPT ![c.pool].peak = Max({@, c.in_use_after})]
        /\ live' = live \cup {as_mut_ptr(c.pool, c.block)}
        /\ Go(t, Idle)
        /\ UNCHANGED <<bitmap, locked>>

-----------------------------------------------------------------------------
(* PartitionedBoundedAllocator::dealloc: the range check on the address. *)
owning_pool(ptr) ==
    IF arena("sc") <= ptr /\ ptr < arena("sc") + capacity_bytes("sc") THEN "sc" ELSE "qm"

(* block_index_of; below the arena the subtraction wraps, which is past    *)
(* every bitmap.                                                           *)
block_index_of(p, ptr) ==
    IF ptr < arena(p) THEN BITMAP_WORDS(p) * WordBits ELSE (ptr - arena(p)) \div stride

(* release_block; an index past the bitmap panics. *)
dealloc(t, ptr) ==
    LET p == owning_pool(ptr)
        block == block_index_of(p, ptr)
    IN  /\ thread[t] = Idle /\ ptr \in live
        /\ live' = live \ {ptr}
        /\ IF block >= BITMAP_WORDS(p) * WordBits
           THEN Go(t, [pc |-> "panicked"]) /\ UNCHANGED bitmap
           ELSE /\ bitmap' = [bitmap EXCEPT ![p][block \div WordBits] =
                                 @ \cup {block % WordBits}]
                /\ Go(t, [pc |-> "released", pool |-> p])
        /\ UNCHANGED <<count, locked>>

(* dealloc_count .. *)
Uncount(t) ==
    LET c == thread[t]
    IN  /\ c.pc = "released"
        /\ count' = [count EXCEPT ![c.pool].deallocs = @ + 1]
        /\ Go(t, [pc |-> "uncounting", pool |-> c.pool])
        /\ UNCHANGED <<bitmap, locked, live>>

(* .. then in_use. *)
Leave(t) ==
    LET c == thread[t]
    IN  /\ c.pc = "uncounting"
        /\ count' = [count EXCEPT ![c.pool].in_use = @ - 1]
        /\ Go(t, Idle)
        /\ UNCHANGED <<bitmap, locked, live>>

Next ==
    \/ \E p \in Pools : lock(p)
    \/ \E t \in Threads :
          \/ \E p \in Pools : alloc(t, p)
          \/ Load(t) \/ Cas(t) \/ Count(t) \/ Enter(t) \/ Return(t)
          \/ \E ptr \in live : dealloc(t, ptr)
          \/ Uncount(t) \/ Leave(t)

Spec == Init /\ [][Next]_vars

-----------------------------------------------------------------------------
Free(p) == {b \in 0..(MAX_BLOCKS[p] - 1) : b % WordBits \in bitmap[p][b \div WordBits]}

(* The blocks of a pool a thread has claimed and not returned yet. *)
Claimed(p, t) ==
    IF thread[t].pc \in {"claimed", "counting", "counted"} /\ thread[t].pool = p
    THEN {thread[t].block} ELSE {}

Handed(p) == {b \in 0..(MAX_BLOCKS[p] - 1) : as_mut_ptr(p, b) \in live}

(* Every block of a pool is free, being handed out by one thread, or in    *)
(* the hands of the program, and in one of these only: no two allocations  *)
(* share a block, no block is lost, whichever threads claim and free at    *)
(* once and whatever else the address of a pointer might be taken for      *)
(* (try_claim_block, dealloc).                                             *)
OneOwner ==
    \A p \in Pools :
        /\ \A b \in 0..(MAX_BLOCKS[p] - 1) :
              Cardinality({t \in Threads : b \in Claimed(p, t)})
                + (IF b \in Handed(p) THEN 1 ELSE 0) + (IF b \in Free(p) THEN 1 ELSE 0) = 1
        /\ \A t \in Threads : Claimed(p, t) \subseteq 0..(MAX_BLOCKS[p] - 1)

(* in_use is never less than the blocks in the program's hands, although   *)
(* it and the two running counts are three atomics that calls of several   *)
(* threads change at different times; between calls it is their number     *)
(* and the difference of the two ("Live block count (alloc_count -         *)
(* dealloc_count, atomically)"), and the high-water mark has seen it.      *)
CountsLive ==
    \A p \in Pools :
        /\ count[p].in_use >= Cardinality(Handed(p))
        /\ (\A t \in Threads : thread[t] = Idle) =>
              /\ count[p].in_use = Cardinality(Handed(p))
              /\ count[p].in_use = count[p].allocs - count[p].deallocs
              /\ count[p].peak >= count[p].in_use

(* dealloc finds the pool a pointer came from ("We correctly identify the  *)
(* owning pool via pointer range check").                                  *)
FreedToItsPool ==
    \A ptr \in live : \E b \in Handed(owning_pool(ptr)) : as_mut_ptr(owning_pool(ptr), b) = ptr

(* The high-water mark is one of simultaneously live blocks                *)
(* (peak_blocks_used): it does not exceed the blocks there are.            *)
PeakIsLive == \A p \in Pools : count[p].peak <= MAX_BLOCKS[p]
==============================================================================
