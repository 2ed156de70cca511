------------------------------ MODULE MCRuntime ------------------------------
(* The ring of cycle records and, one at a time, other parts of the executor
   and of its telemetry: the ready ring, the graph scheduler and builder,
   stop, the run loop, the log, the allocator, the cycle statistics.  A
   behaviour is one of one component; all but the ring of cycle records share
   the variables, since only one of them runs. *)
EXTENDS CycleRing

VARIABLES
    part,    \* the component that runs
    x1, x2, x3, x4, x5, x6, x7, x8, x9, x10, x11, x12, x13, x14, x15, x16, x17, x18, x19,
    x20, x21, x22, x23, x24, x25, x26, x27, x28, x29, x30, x31

CONSTANTS
    Parts,       \* the components to run
    Successors,  \* GraphDispatch: the graph
    AllPools,    \* GraphDispatch: the pools
    Outcomes,    \* GraphDispatch: what its items return
    Dispatches,  \* GraphDispatch: bound on the dispatches of the graph
    None,        \* no value
    SENTINEL     \* usize::MAX

\* While another component runs, the ring of cycle records is empty.
Quiet == Init

(* ReadyRing *)
Producers == {"p1", "p2"}
Indices == {"v1", "v2"}

(* GraphDispatch *)
Vertices == DOMAIN Successors

\* Two branches that join, and one vertex behind a branch:
\* 0 -> 1, 2;  1, 2 -> 3;  2 -> 4
SuccJoin == [v \in 0..4 |-> <<<<1, 2>>, <<3>>, <<3, 4>>, <<>>, <<>>>>[v + 1]]

\* Three predecessors of one vertex, and an independent vertex:
\* 0 -> 1, 2, 3, 4;  1, 2, 3 -> 5
SuccFanIn == [v \in 0..5 |-> <<<<1, 2, 3, 4>>, <<5>>, <<5>>, <<5>>, <<>>, <<>>>>[v + 1]]

\* The inline pool, one worker, two workers.
Threads == {"w1", "w2"}
TwoWorkers == {[workers |-> Threads, inline |-> FALSE]}
SmallPools ==
    TwoWorkers \cup {[workers |-> {"w1"}, inline |-> b] : b \in BOOLEAN}

\* Requests to the graph builder: up to three vertices and edges, indices within
\* and out of range.
GraphRequests ==
    UNION {[n : {n}, edges : UNION {[1..m -> (0..n) \X (0..n)] : m \in 0..3}, root : (0..n) \cup {None}] : n \in 0..3}

(* Executor: a cyclic graph and an event-driven chain on one worker, run_for, *)
(* with a heartbeat.                                                          *)
Tasks == {1, 2}
GraphAndChain ==
    {[kind |-> [t \in Tasks |-> IF t = 2 THEN "chain" ELSE "graph"], budgeted |-> {},
      handled |-> {}, cyclic |-> {1}, owner |-> [l \in {"l2", "l3"} |-> 2], budget |-> TRUE,
      workers |-> 1, heartbeat |-> TRUE, mode |-> "until", limit |-> 2, maxWakes |-> 2,
      maxOverruns |-> 1]}

(* RunLoop: run, run_for with a deadline that is past, run_n, run_until. *)
Modes == {[kind |-> "Forever", n |-> 0], [kind |-> "Until", n |-> 0],
          [kind |-> "Iterations", n |-> 2], [kind |-> "Predicate", n |-> 0]}
Hosts == {"direct", "runner", "deferred"}

(* BoundedAlloc *)
Blocks == [sc |-> 3, qm |-> 1]

(* CycleStats: windows that a few cycles fill; and the buckets as fine as in  *)
(* the code: short durations, and those about a power of two.                 *)
Durations == 0..300 \cup UNION {{2^k - 1, 2^k, 2^k + 1} : k \in 9..15}
Devices == {"d"}
Cycles == {[measured |-> {}, stale |-> {}], [measured |-> {}, stale |-> {"d"}],
           [measured |-> {1}, stale |-> {}], [measured |-> {3}, stale |-> {"d"}],
           [measured |-> {6}, stale |-> {}]}

Ring == INSTANCE ReadyRing WITH
    Values <- Indices, MinCapacity <- 2, Word <- 8, MaxPushes <- 3, buf <- x1, head <- x2,
    tail <- x3, pc <- x4, tl <- x5, val <- x6, result <- x7, cpc <- x8, cval <- x9,
    out <- x10, pushes <- x11

Graph == INSTANCE GraphDispatch WITH
    Succ <- Successors, Workers <- Threads, Pools <- AllPools, Word <- 32,
    MaxRuns <- Dispatches, counters <- x1, pending <- x2, stopFlag <- x3,
    stopChainSeen <- x4, firstErr <- x5, ready <- x6, pushing <- x7, ahead <- x8, out <- x9,
    pool <- x10, chan <- x11, mpc <- x12, cursor <- x13, sending <- x14, wpc <- x15,
    job <- x16, todo <- x17, stack <- x18, runs <- x19, returned <- x20, ran <- x21,
    ended <- x22, aborted <- x23

Exec == INSTANCE Executor WITH
    Configurations <- GraphAndChain, ChainLen <- 2, MaxRuns <- 1, TookBits <- 3,
    IntBits <- 5, conf <- x1, pc <- x2, result <- x3, fired <- x4, due <- x5, target <- x6,
    seen <- x7, iterations <- x8, outcome <- x9, runs <- x10, wakes <- x11, pending <- x12,
    job <- x13, run <- x14, took <- x15, iterErr <- x16, taskFault <- x17, overruns <- x18,
    execFault <- x19, execIdx <- x20, stopFlag <- x21, stopToken <- x22, stopper <- x23,
    expired <- x24, triggered <- x25, starts <- x26, halted <- x27, records <- x28,
    errs <- x29, announced <- x30, execAnnounced <- x31

Loop == INSTANCE RunLoop WITH
    Period <- 2, HealthCap <- 1, MaxStall <- 1, MaxClock <- 4, MaxRuns <- 2,
    MaxSignals <- 1, Never <- 99, mode <- x1, host <- x2, clock <- x3, loop <- x4,
    wakeAt <- x5, now <- x6, interrupted <- x7, since <- x8, deadline <- x9,
    iterations <- x10, iterErr <- x11, heartbeat <- x12, health <- x13, ready <- x14,
    stopFlag <- x15, stopNote <- x16, owner <- x17, released <- x18, runs <- x19,
    result <- x20, signals <- x21

Log == INSTANCE DltLog WITH
    QueueCap <- 1, RingCap <- 1, InitialBackoff <- 1, MaxBackoff <- 2, MaxRecords <- 4,
    MaxBreaks <- 2, MaxControls <- 1, queue <- x1, ring <- x2, drops <- x3, prod <- x4,
    flusher <- x5, daemon <- x6, owner <- x7, level <- x8, written <- x9, dropped <- x10,
    missed <- x11, reported <- x12,
    steps <- x13

Alloc == INSTANCE BoundedAlloc WITH
    MAX_BLOCKS <- Blocks, BLOCK_SIZE <- 4, WordBits <- 2, Align <- 4, QmFirst <- FALSE,
    MaxAllocs <- 2, bitmap <- x1, count <- x2, locked <- x3, thread <- x4, live <- x5

Stats == INSTANCE CycleStats WITH
    M <- 2, Octaves <- 3, S <- 2, Window <- 4, W <- 3, MaxCycles <- 6, hist <- x1,
    minmax <- x2, runs <- x3, max_stale <- x4, pub <- x5, log <- x6

Hist == INSTANCE CycleStats WITH
    M <- 64, Octaves <- 36, S <- 2, Window <- 4, W <- 3, MaxCycles <- 6, hist <- x1,
    minmax <- x2, runs <- x3, max_stale <- x4, pub <- x5, log <- x6

\* A component uses the first n of the variables.
Unused(n) ==
    /\ (n < 6 => x6 = 0) /\ (n < 7 => x7 = 0) /\ (n < 8 => x8 = 0) /\ (n < 9 => x9 = 0)
    /\ (n < 10 => x10 = 0) /\ (n < 11 => x11 = 0) /\ (n < 12 => x12 = 0) /\ (n < 13 => x13 = 0)
    /\ (n < 14 => x14 = 0) /\ (n < 15 => x15 = 0) /\ (n < 16 => x16 = 0) /\ (n < 17 => x17 = 0)
    /\ (n < 18 => x18 = 0) /\ (n < 19 => x19 = 0) /\ (n < 20 => x20 = 0) /\ (n < 21 => x21 = 0)
    /\ (n < 22 => x22 = 0) /\ (n < 23 => x23 = 0) /\ (n < 24 => x24 = 0) /\ (n < 25 => x25 = 0)
    /\ (n < 26 => x26 = 0) /\ (n < 27 => x27 = 0) /\ (n < 28 => x28 = 0) /\ (n < 29 => x29 = 0)
    /\ (n < 30 => x30 = 0) /\ (n < 31 => x31 = 0)

Kept(n) ==
    /\ (n < 6 => x6' = x6) /\ (n < 7 => x7' = x7) /\ (n < 8 => x8' = x8) /\ (n < 9 => x9' = x9)
    /\ (n < 10 => x10' = x10) /\ (n < 11 => x11' = x11) /\ (n < 12 => x12' = x12) /\ (n < 13 => x13' = x13)
    /\ (n < 14 => x14' = x14) /\ (n < 15 => x15' = x15) /\ (n < 16 => x16' = x16) /\ (n < 17 => x17' = x17)
    /\ (n < 18 => x18' = x18) /\ (n < 19 => x19' = x19) /\ (n < 20 => x20' = x20) /\ (n < 21 => x21' = x21)
    /\ (n < 22 => x22' = x22) /\ (n < 23 => x23' = x23) /\ (n < 24 => x24' = x24) /\ (n < 25 => x25' = x25)
    /\ (n < 26 => x26' = x26) /\ (n < 27 => x27' = x27) /\ (n < 28 => x28' = x28) /\ (n < 29 => x29' = x29)
    /\ (n < 30 => x30' = x30) /\ (n < 31 => x31' = x31)

mcVars == <<part, vars, x1, x2, x3, x4, x5, x6, x7, x8, x9, x10, x11, x12, x13, x14, x15, x16, x17,
          x18, x19, x20, x21, x22, x23, x24, x25, x26, x27, x28, x29, x30, x31>>

MCInit ==
    /\ part \in Parts
    /\ \/ part = "cycles" /\ Init /\ x1 = 0 /\ x2 = 0 /\ x3 = 0 /\ x4 = 0 /\ x5 = 0 /\ Unused(5)
       \/ part = "ring" /\ Ring!Init /\ Unused(11) /\ Quiet
       \/ part = "graph" /\ Graph!Init /\ Unused(23) /\ Quiet
       \/ part = "stop" /\ Exec!Init /\ Unused(31) /\ Quiet
       \/ part = "loop" /\ Loop!Init /\ Unused(21) /\ Quiet
       \/ part = "log" /\ Log!Init /\ Unused(13) /\ Quiet
       \/ part = "alloc" /\ Alloc!Init /\ Unused(5) /\ Quiet
       \/ part = "stats" /\ Stats!Init /\ Unused(6) /\ Quiet
       \/ part = "build" /\ x1 \in GraphRequests /\ x2 = 0 /\ x3 = 0 /\ x4 = 0 /\ x5 = 0 /\ Unused(5) /\ Quiet
       \/ part = "bucket" /\ x1 \in Durations /\ x2 = 0 /\ x3 = 0 /\ x4 = 0 /\ x5 = 0 /\ Unused(5) /\ Quiet

MCNext ==
    \/ part = "cycles" /\ Next /\ UNCHANGED <<part, x1, x2, x3, x4, x5, x6, x7, x8, x9, x10, x11, x12, x13, x14, x15, x16, x17, x18,
        x19, x20, x21, x22, x23, x24, x25, x26, x27, x28, x29, x30, x31>>
    \/ part = "ring" /\ Ring!Next /\ Kept(11) /\ UNCHANGED <<part, vars>>
    \/ part = "graph" /\ Graph!Next /\ Kept(23) /\ UNCHANGED <<part, vars>>
    \/ part = "stop" /\ Exec!Next /\ Kept(31) /\ UNCHANGED <<part, vars>>
    \/ part = "loop" /\ Loop!Next /\ Kept(21) /\ UNCHANGED <<part, vars>>
    \/ part = "log" /\ Log!Next /\ Kept(13) /\ UNCHANGED <<part, vars>>
    \/ part = "alloc" /\ Alloc!Next /\ Kept(5) /\ UNCHANGED <<part, vars>>
    \/ part = "stats" /\ Stats!Next /\ Kept(6) /\ UNCHANGED <<part, vars>>
    \/ part \in {"cycles", "loop", "log", "alloc", "stats", "build", "bucket"} /\ UNCHANGED mcVars

\* What each component assumes of its threads, while it is the one that runs.
MCFairness ==
    /\ WF_(Ring!vars)(part = "ring" /\ Ring!Pop)
    /\ \A p \in Producers : WF_(Ring!vars)(part = "ring" /\ Ring!Push(p))
    /\ WF_(Graph!vars)(part = "graph" /\ Graph!Driver)
    /\ \A w \in Threads : WF_(Graph!vars)(part = "graph" /\ Graph!Worker(w))
    /\ WF_(Exec!vars)(part = "stop" /\ Exec!DispatchThread)
    /\ \A t \in Tasks : WF_(Exec!vars)(part = "stop" /\ Exec!Job(t))
    /\ WF_(Exec!vars)(part = "stop" /\ Exec!StopGoesOn)
    /\ WF_(Exec!vars)(part = "stop" /\ Exec!WokenByStop)
    /\ WF_(Loop!vars)(part = "loop" /\ Loop!Thread)
    /\ WF_(Loop!vars)(part = "loop" /\ Loop!StopGoesOn)
    /\ WF_(Loop!vars)(part = "loop" /\ Loop!Join)
    /\ WF_(Log!vars)(part = "log" /\ Log!Flush)
    /\ WF_vars(part = "cycles" /\ try_recv)

MCSpec == MCInit /\ [][MCNext]_mcVars /\ MCFairness

ASSUME Ring!RingAssumption /\ Graph!GraphAssumption /\ Loop!Times /\ Alloc!Layout

------------------------------------------------------------------------------
(* Properties; those of the ring of cycle records are its own. *)

\* ReadyRing: push and pop implement the queue the graph scheduler relies on,
\* values come out once and in the order of the tail reservations.
ImplementsReadyQueue ==
    /\ part = "ring" => Ring!Abstract!Init
    /\ [][part = "ring" => [Ring!Abstract!Next]_(Ring!Abstract!vars)]_mcVars

\* Graph::run_once_borrowed runs every item once, after its predecessors, never
\* a running one again, and returns the truth when nothing is left to run;
\* GraphBuilder::finish accepts exactly the rooted acyclic graphs.
GraphSound ==
    /\ part = "graph" => /\ Graph!InDegreeDiscipline /\ Graph!CellNeverBusy
                         /\ Graph!ReturnsComplete /\ Graph!OutcomeFaithful
    /\ part = "build" => Graph!AcceptsRootedDags(x1)

\* GraphDispatch, run_once_borrowed: "Dispatch this graph once and block until
\* completion."  When it decides to return, no item is executing, no worker will
\* start one, and every item has run unless some item stopped the graph.
ReturnsComplete == part = "graph" => Graph!ReturnsComplete

\* The heartbeat of the run loop ticks once for each of its deadlines, and the
\* ticks of a run are never further apart than a period and the stalls of a wake;
\* run_for outlives its deadline by no more than the heartbeat lets it.
HeartbeatKept ==
    part = "loop" => /\ Loop!EveryDeadlineTicked /\ Loop!TickGapBounded
                     /\ Loop!HeartbeatEndsRunFor

\* Every log record is written, evicted or still held, and every eviction is
\* counted but those between the summary that reads the counter and the drain that
\* resets it; the published cycle statistics are those of the samples in their
\* windows, and the bucket of a duration holds it to one percent.
NothingLost ==
    /\ part = "log" => Log!NothingLost
    /\ part = "stats" => Stats!PublishedIsExact /\ Stats!LongestRun
    /\ part = "bucket" => Hist!BucketHolds(x1)

\* Every block of the bounded allocator has one owner, the live count is never less
\* than the blocks handed out and is their number between calls; every reserved
\* slot of the ready ring has one writer and is empty until that one fills it.
SlotsOwned ==
    /\ part = "alloc" => Alloc!OneOwner /\ Alloc!CountsLive
    /\ part = "ring" => Ring!NoOverwrite

Begun ==
    CASE part = "ring" -> Ring!Spinning
      [] part = "graph" -> Graph!Dispatching
      [] part = "stop" -> Exec!Stopping
      [] part = "loop" -> Loop!Stopping
      [] part = "log" -> Log!ShutDown
      [] part = "cycles" -> Finishing
      [] OTHER -> FALSE

Ended ==
    CASE part = "ring" -> Ring!Popped
      [] part = "graph" -> Graph!Dispatched
      [] part = "stop" -> Exec!Returned
      [] part = "loop" -> Loop!Joined
      [] part = "log" -> Log!Exited
      [] part = "cycles" -> Drained
      [] OTHER -> FALSE

\* What is begun ends: the spin of pop, the dispatch of a graph, a run that was
\* stopped, Runner::stop, the shutdown of the log and of the cycle writer.
OperationsEnd == Begun ~> Ended
==============================================================================
