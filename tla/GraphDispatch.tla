---------------------------- MODULE GraphDispatch ---------------------------
(***************************************************************************)
(* The graph scheduler of crates/taktora-executor/src/graph.rs:            *)
(* `Graph::run_once_borrowed` on the WaitSet thread, the vertex closures   *)
(* of `prepare_dispatch` on the pool workers, and the ready ring between   *)
(* them, here the `ReadyQueue` that `ReadyRing` implements.                *)
(*                                                                         *)
(* One action per access to an atomic shared by the threads.  `done_cv` is *)
(* left out: the driver waits on it for 5 ms at most, so that it may go on *)
(* at any moment whether it is notified or not.                            *)
(* `GraphBuilder::finish`, at the end, decides what may become a graph.    *)
(***************************************************************************)
EXTENDS Integers, Sequences, FiniteSets, SequencesExt

CONSTANTS
    Vertices,    \* 0..n-1
    Succ,        \* successors: per vertex, in the order of the edges
    Workers,     \* pool workers
    Pools,       \* the pools to start from: their workers, and whether they are inline
                 \* (no thread of its own, submit_shared runs the job on the driver)
    Outcomes,    \* what items may return: subset of {"continue", "stop", "error"}
    None,        \* no vertex
    Word,        \* counters are computed modulo Word (2^64 in the code)
    MaxRuns      \* bound: dispatches of the graph in a behaviour

N == Cardinality(Vertices)
MAX == Word - 1                               \* usize::MAX
Edges == UNION {{<<v, k>> : k \in 1..Len(Succ[v])} : v \in Vertices}
InEdges == [j \in Vertices |-> {e \in Edges : Succ[e[1]][e[2]] = j}]
Preds == [j \in Vertices |-> {e[1] : e \in InEdges[j]}]
InDegree == [j \in Vertices |-> Cardinality(InEdges[j])]
RingCapacity == CHOOSE c \in {2^k : k \in 1..N} :    \* N.max(2).next_power_of_two()
                    c >= N /\ (c = 2 \/ c < 2 * N)

\* What the code requires of the constants.
GraphAssumption ==
    /\ Succ \in [Vertices -> Seq(Vertices)]
    /\ Vertices = 0..N - 1
    /\ Word > Cardinality(Edges) + N + 1
    /\ None \notin Vertices
    /\ Outcomes \subseteq {"continue", "stop", "error"}
    /\ Pools \subseteq [workers : SUBSET Workers \ {{}}, inline : BOOLEAN]
    /\ \A p \in Pools : p.inline => Cardinality(p.workers) = 1

VARIABLES
    counters, pending, stopFlag, stopChainSeen, firstErr,    \* GraphShared
    ready, pushing, ahead, out,                            \* its ready ring
    pool, chan,            \* the pool the executor was built with, its job channel
    mpc, cursor, sending,  \* driver: step, index of the seed loop, vertex it submits
    wpc, job, todo, stack, \* worker: step, vertex, successors left, cancel stack
    runs,                  \* dispatches so far
    returned,              \* GraphRunOutcome of the last dispatch
    ran,                   \* history: times each item was executed in this dispatch
    ended,                 \* history: item -> its result in this dispatch, or None
    aborted                \* the process aborted, with the reason, or None

ringVars == <<ready, pushing, ahead, out>>
sharedVars == <<counters, pending, stopFlag, stopChainSeen, firstErr>>
workerVars == <<wpc, job, todo, stack>>
driverVars == <<mpc, cursor, sending, runs, returned>>
historyVars == <<ran, ended>>
vars == <<sharedVars, ringVars, pool, chan, workerVars, driverVars, historyVars, aborted>>

Ring == INSTANCE ReadyQueue WITH
    Producers <- Workers, Values <- Vertices, Capacity <- RingCapacity, queue <- ready

Capacity == 4 * Cardinality(pool.workers)     \* of the channel

NoOutcome == [error |-> None, stoppedChain |-> FALSE]

\* The state has its type: pending never wraps below zero, whatever finalises a
\* vertex (graph.rs:326-351), and ring and job channel stay within their capacity.
TypeOK ==
    /\ counters \in [Vertices -> 0..MAX]
    /\ pending \in 0..N
    /\ stopFlag \in BOOLEAN /\ stopChainSeen \in BOOLEAN
    /\ firstErr \in Vertices \union {None}
    /\ Len(ready) <= RingCapacity /\ pool \in Pools /\ Len(chan) <= Capacity
    /\ mpc \in {"start", "seed", "drain", "send", "inline", "check", "wait", "return",
                "barrier", "end"}
    /\ sending \in Vertices \union {None}
    /\ wpc \in [Workers -> {"idle", "start", "skip", "run", "stop", "err", "sub", "decide",
                            "release", "push", "cancel", "csub"}]
    /\ job \in [Workers -> Vertices \union {None}]
    /\ runs \in 0..MaxRuns

Init ==
    /\ counters = InDegree
    /\ pending = N
    /\ stopFlag = FALSE /\ stopChainSeen = FALSE /\ firstErr = None
    /\ Ring!Init
    /\ pool \in Pools /\ chan = <<>>
    /\ mpc = "start" /\ cursor = 0 /\ sending = None
    /\ wpc = [w \in Workers |-> "idle"]
    /\ job = [w \in Workers |-> None]
    /\ todo = [w \in Workers |-> <<>>]
    /\ stack = [w \in Workers |-> <<>>]
    /\ runs = 0 /\ returned = NoOutcome
    /\ ran = [v \in Vertices |-> 0]
    /\ ended = [v \in Vertices |-> None]
    /\ aborted = None

\* Worker w goes to step s; a worker that returns to run_worker has no job.
Goto(w, s) ==
    /\ wpc' = [wpc EXCEPT ![w] = s]
    /\ job' = [job EXCEPT ![w] = IF s = "idle" THEN None ELSE @]
Dec(x) == (x + Word - 1) % Word          \* fetch_sub(1) leaves this

-----------------------------------------------------------------------------
(* The vertex closure, on worker w *)

\* run_worker takes the next job.  A busy ExclusiveCell is fatal.
TakeJob(w) ==
    /\ wpc[w] = "idle" /\ chan # <<>>
    /\ chan' = Tail(chan)
    /\ job' = [job EXCEPT ![w] = Head(chan)]
    /\ wpc' = [wpc EXCEPT ![w] = "start"]
    /\ aborted' = IF \E x \in Workers \ {w} : wpc[x] # "idle" /\ job[x] = Head(chan)
                  THEN "busy" ELSE None
    /\ UNCHANGED <<pool, sharedVars, ringVars, todo, stack, driverVars, historyVars>>

Begin(w) ==
    /\ wpc[w] = "start"
    /\ IF stopFlag
       THEN Goto(w, "skip") /\ UNCHANGED ran
       ELSE Goto(w, "run") /\ ran' = [ran EXCEPT ![job[w]] = @ + 1]
    /\ UNCHANGED <<pool, sharedVars, ringVars, chan, todo, stack, driverVars, ended, aborted>>

\* The item returns.  A panic in it has become an error.
ItemReturns(w) ==
    /\ wpc[w] = "run"
    /\ \E r \in Outcomes :
          /\ ended' = [ended EXCEPT ![job[w]] = r]
          /\ Goto(w, IF r = "continue" THEN "sub" ELSE "stop")
          /\ stopChainSeen' = (stopChainSeen \/ r = "stop")
    /\ UNCHANGED <<pool, counters, pending, stopFlag, firstErr, ringVars, chan, todo, stack,
                   driverVars, ran, aborted>>

SetStop(w) ==
    /\ wpc[w] = "stop"
    /\ stopFlag' = TRUE
    /\ Goto(w, IF ended[job[w]] = "error" THEN "err" ELSE "sub")
    /\ UNCHANGED <<pool, counters, pending, stopChainSeen, firstErr, ringVars, chan, todo,
                   stack, driverVars, historyVars, aborted>>

SetFirstErr(w) ==
    /\ wpc[w] = "err"
    /\ firstErr' = IF firstErr = None THEN job[w] ELSE firstErr
    /\ Goto(w, "sub")
    /\ UNCHANGED <<pool, counters, pending, stopFlag, stopChainSeen, ringVars, chan, todo,
                   stack, driverVars, historyVars, aborted>>

\* `pending.fetch_sub(1)` of a vertex that ran.
Finalise(w) ==
    /\ wpc[w] = "sub"
    /\ pending' = Dec(pending)
    /\ Goto(w, IF pending = 1 THEN "idle" ELSE "decide")
    /\ UNCHANGED <<pool, counters, stopFlag, stopChainSeen, firstErr, ringVars, chan, todo,
                   stack, driverVars, historyVars, aborted>>

\* finalise_skipped: the job found the stop flag set.
FinaliseSkipped(w) ==
    /\ wpc[w] = "skip"
    /\ pending' = Dec(pending)
    /\ IF pending = 1
       THEN Goto(w, "idle") /\ UNCHANGED todo
       ELSE Goto(w, "cancel") /\ todo' = [todo EXCEPT ![w] = Succ[job[w]]]
    /\ UNCHANGED <<pool, counters, stopFlag, stopChainSeen, firstErr, ringVars, chan,
                   stack, driverVars, historyVars, aborted>>

Decide(w) ==
    /\ wpc[w] = "decide"
    /\ todo' = [todo EXCEPT ![w] = Succ[job[w]]]
    /\ Goto(w, IF stopFlag THEN "cancel" ELSE "release")
    /\ UNCHANGED <<pool, sharedVars, ringVars, chan, stack, driverVars, historyVars, aborted>>

JobDone(w) ==
    /\ wpc[w] \in {"release", "cancel"}
    /\ todo[w] = <<>> /\ stack[w] = <<>>
    /\ Goto(w, "idle")
    /\ UNCHANGED <<pool, sharedVars, ringVars, chan, todo, stack, driverVars, historyVars,
                   aborted>>

\* Mutant of Release: the vertex is ready one predecessor too early.
ReleaseEager(w) ==
    /\ wpc[w] = "release" /\ todo[w] # <<>>
    /\ LET j == Head(todo[w]) IN
          /\ counters' = [counters EXCEPT ![j] = Dec(@)]
          /\ todo' = [todo EXCEPT ![w] = Tail(@)]
          /\ IF counters[j] = InDegree[j]
             THEN Goto(w, "push") /\ Ring!Begin(w, j)
             ELSE UNCHANGED <<wpc, job, ringVars>>
    /\ UNCHANGED <<pool, pending, stopFlag, stopChainSeen, firstErr, chan, stack, driverVars,
                   historyVars, aborted>>

\* One turn of the loop that counts down the successors; the last predecessor
\* calls ready_ring.push.
Release(w) ==
    /\ wpc[w] = "release" /\ todo[w] # <<>>
    /\ LET j == Head(todo[w]) IN
          /\ counters' = [counters EXCEPT ![j] = Dec(@)]
          /\ todo' = [todo EXCEPT ![w] = Tail(@)]
          /\ IF counters[j] = 1
             THEN Goto(w, "push") /\ Ring!Begin(w, j)
             ELSE UNCHANGED <<wpc, job, ringVars>>
    /\ UNCHANGED <<pool, pending, stopFlag, stopChainSeen, firstErr, chan, stack, driverVars,
                   historyVars, aborted>>

\* push returns; Err(()) panics and the pool aborts the process.
Push(w) ==
    /\ wpc[w] = "push"
    /\ \/ Ring!Publish(w) /\ Goto(w, "release") /\ UNCHANGED aborted
       \/ Ring!Fail(w) /\ aborted' = "ring" /\ UNCHANGED <<wpc, job>>
    /\ UNCHANGED <<pool, sharedVars, chan, todo, stack, driverVars, historyVars>>

\* cancel_subtree: the next root, or the next vertex of the stack.
CancelRoot(w) ==
    /\ wpc[w] = "cancel" /\ stack[w] = <<>> /\ todo[w] # <<>>
    /\ stack' = [stack EXCEPT ![w] = <<Head(todo[w])>>]
    /\ todo' = [todo EXCEPT ![w] = Tail(@)]
    /\ UNCHANGED <<pool, sharedVars, ringVars, chan, wpc, job, driverVars, historyVars, aborted>>

Top(w) == stack[w][Len(stack[w])]
Popped(w) == SubSeq(stack[w], 1, Len(stack[w]) - 1)

CancelSwap(w) ==
    /\ wpc[w] = "cancel" /\ stack[w] # <<>>
    /\ counters' = [counters EXCEPT ![Top(w)] = MAX]
    /\ IF counters[Top(w)] = MAX
       THEN stack' = [stack EXCEPT ![w] = Popped(w)] /\ UNCHANGED <<wpc, job>>
       ELSE Goto(w, "csub") /\ UNCHANGED stack
    /\ UNCHANGED <<pool, pending, stopFlag, stopChainSeen, firstErr, ringVars, chan, todo,
                   driverVars, historyVars, aborted>>

\* The vertex at the top of the stack has just been cancelled.
CancelSub(w) ==
    /\ wpc[w] = "csub"
    /\ pending' = Dec(pending)
    /\ stack' = [stack EXCEPT ![w] = IF pending = 1 THEN <<>> ELSE Popped(w) \o Succ[Top(w)]]
    /\ Goto(w, "cancel")
    /\ UNCHANGED <<pool, counters, stopFlag, stopChainSeen, firstErr, ringVars, chan, todo,
                   driverVars, historyVars, aborted>>

-----------------------------------------------------------------------------
(* run_once_borrowed, on the WaitSet thread *)

\* The reset at the head of run_once_borrowed, after the last wake's barrier.
Start ==
    /\ mpc = "start" /\ runs < MaxRuns
    /\ runs' = runs + 1
    /\ counters' = InDegree /\ pending' = N
    /\ stopFlag' = FALSE /\ stopChainSeen' = FALSE /\ firstErr' = None
    /\ Ring!Clear
    /\ ran' = [v \in Vertices |-> 0] /\ ended' = [v \in Vertices |-> None]
    /\ mpc' = "seed" /\ cursor' = 0 /\ returned' = NoOutcome
    /\ UNCHANGED <<pool, chan, workerVars, sending, aborted>>

\* One turn of the loop that dispatches the vertices of in-degree zero.
Seed ==
    /\ mpc = "seed"
    /\ \/ cursor = N /\ mpc' = "drain" /\ UNCHANGED <<cursor, sending>>
       \/ /\ cursor < N
          /\ cursor' = cursor + 1
          /\ IF InDegree[cursor] = 0
             THEN sending' = cursor /\ mpc' = "send"
             ELSE UNCHANGED <<sending, mpc>>
    /\ UNCHANGED <<pool, sharedVars, ringVars, chan, workerVars, runs, returned, historyVars, aborted>>

\* dispatch_vertex: submit_shared on the pool.
Dispatch ==
    /\ mpc = "send" /\ Len(chan) < Capacity
    /\ chan' = Append(chan, sending)
    /\ sending' = None
    /\ mpc' = IF pool.inline THEN "inline" ELSE "seed"
    /\ UNCHANGED <<pool, sharedVars, ringVars, workerVars, cursor, runs, returned, historyVars, aborted>>

Quiet == chan = <<>> /\ \A w \in Workers : wpc[w] = "idle"

\* The inline pool runs the job inside submit_shared.
InlineDone ==
    /\ mpc = "inline" /\ Quiet
    /\ mpc' = "seed"
    /\ UNCHANGED <<pool, sharedVars, ringVars, chan, workerVars, cursor, sending, runs, returned,
                   historyVars, aborted>>

Drain ==
    /\ mpc = "drain"
    /\ IF ready = <<>>
       THEN mpc' = "check" /\ UNCHANGED <<ringVars, sending>>
       ELSE Ring!Take /\ sending' = Head(ready) /\ mpc' = "send"
    /\ UNCHANGED <<pool, sharedVars, chan, workerVars, cursor, runs, returned, historyVars, aborted>>

\* Either load of `pending`; "wait" is the bounded wait on done_cv.
CheckPending ==
    /\ mpc = "check"
    /\ mpc' = IF pending = 0 THEN "return" ELSE "wait"
    /\ UNCHANGED <<pool, sharedVars, ringVars, chan, workerVars, cursor, sending, runs, returned,
                   historyVars, aborted>>

WaitOver ==
    /\ mpc = "wait"
    /\ mpc' = "drain"
    /\ UNCHANGED <<pool, sharedVars, ringVars, chan, workerVars, cursor, sending, runs, returned,
                   historyVars, aborted>>

\* The final drain throws away what the ring may still hold.
Return ==
    /\ mpc = "return"
    /\ ready' = <<>>
    /\ returned' = [error |-> firstErr, stoppedChain |-> stopChainSeen]
    /\ firstErr' = None
    /\ mpc' = "barrier"
    /\ UNCHANGED <<pool, counters, pending, stopFlag, stopChainSeen, pushing, ahead, out, chan,
                   workerVars, cursor, sending, runs, historyVars, aborted>>

\* The pool barrier that ends the wake (barrier_and_record).
Barrier ==
    /\ mpc = "barrier" /\ Quiet
    /\ mpc' = IF runs < MaxRuns THEN "start" ELSE "end"
    /\ UNCHANGED <<pool, sharedVars, ringVars, chan, workerVars, cursor, sending, runs, returned,
                   historyVars, aborted>>

Stopped == (aborted # None \/ mpc = "end") /\ UNCHANGED vars

-----------------------------------------------------------------------------
WorkerStep(w) ==
    \/ TakeJob(w) \/ Begin(w) \/ ItemReturns(w) \/ SetStop(w) \/ SetFirstErr(w)
    \/ Finalise(w) \/ FinaliseSkipped(w) \/ Decide(w) \/ JobDone(w) \/ Release(w) \/ Push(w)
    \/ CancelRoot(w) \/ CancelSwap(w) \/ CancelSub(w)
DriverStep ==
    \/ Start \/ Seed \/ Dispatch \/ InlineDone \/ Drain \/ CheckPending \/ WaitOver
    \/ Return \/ Barrier

Driver == aborted = None /\ DriverStep
Worker(w) == aborted = None /\ w \in pool.workers /\ WorkerStep(w)

Next == Driver \/ (\E w \in Workers : Worker(w)) \/ Stopped

\* Threads are scheduled, items return, and the wait on done_cv times out.
Fairness ==
    /\ WF_vars(Driver)
    /\ \A w \in Workers : WF_vars(Worker(w))

Spec == Init /\ [][Next]_vars /\ Fairness

-----------------------------------------------------------------------------
(* Properties *)

Executing == {v \in Vertices : ran[v] > 0 /\ ended[v] = None}
Failed == {v \in Vertices : ended[v] = "error"}

\* The in-degree discipline: in one dispatch an item runs at most once, and only
\* after all its predecessors have returned Continue.
InDegreeDiscipline ==
    \A v \in Vertices : ran[v] > 0 =>
        ran[v] = 1 /\ \A p \in Preds[v] : ended[p] = "continue"

\* No vertex is submitted while its closure is still running: the expect on
\* ExclusiveCell ("graph in-degree invariant breach") never fires.
CellNeverBusy == aborted # "busy"

\* run_once_borrowed: "Dispatch this graph once and block until completion."
\* When it decides to return, no item is executing, no worker will start one,
\* and every item has run unless some item stopped the graph.
ReturnsComplete ==
    mpc \in {"return", "barrier"} =>
        /\ Executing = {} /\ chan = <<>>
        /\ \A w \in Workers : wpc[w] \notin {"start", "skip"}
        /\ (\A v \in Vertices : ran[v] = 1) \/ \E v \in Vertices : ended[v] \in {"stop", "error"}

\* The outcome tells the truth: an error is returned exactly when some item of
\* this dispatch failed, and it is one of those; stopped_chain likewise.
OutcomeFaithful ==
    mpc = "barrier" =>
        /\ IF Failed = {} THEN returned.error = None ELSE returned.error \in Failed
        /\ returned.stoppedChain = \E v \in Vertices : ended[v] = "stop"

\* Each dispatch ends, with a return or an abort.
Dispatching == mpc = "seed"
Dispatched == mpc = "barrier" \/ aborted # None

------------------------------------------------------------------------------
(* GraphBuilder::finish: which vertices, edges and root make a graph.  A   *)
(* request g has n vertices, 0 .. n - 1, edges in their order and a root;  *)
(* indices may be those of another builder, out of range here.  The loops  *)
(* are folds over as many turns as they can take.                          *)

Turns(n) == [i \in 1..n |-> i]
Within(n) == 0..(n - 1)

validate_root(g) == g.n # 0 /\ g.root # None /\ g.root < g.n

EdgesInRange(g) == \A i \in DOMAIN g.edges : g.edges[i][1] < g.n /\ g.edges[i][2] < g.n

NoSelfLoop(g) == \A i \in DOMAIN g.edges : g.edges[i][1] # g.edges[i][2]

\* build_adjacency: a repeated edge is a repeated successor, counted twice.
successors(g, u) ==
    LET out_of_u == SelectSeq(g.edges, LAMBDA e : e[1] = u)
    IN  [i \in DOMAIN out_of_u |-> out_of_u[i][2]]

in_degree(g) == [v \in Within(g.n) |-> Len(SelectSeq(g.edges, LAMBDA e : e[2] = v))]

\* One successor of a visited vertex: its count falls, at zero it is queued.
Released(state, v) ==
    LET k == [state.k_in EXCEPT ![v] = @ - 1]
    IN  [k_in |-> k, queue |-> IF k[v] = 0 THEN Append(state.queue, v) ELSE state.queue,
         visited |-> state.visited]

\* Kahn's algorithm visits a vertex at most once.
assert_acyclic(g) ==
    LET visit(state, i) ==
            IF state.queue = <<>> THEN state
            ELSE FoldLeft(Released, [state EXCEPT !.queue = Front(@), !.visited = @ + 1],
                          successors(g, Last(state.queue)))
        start == [k_in |-> in_degree(g), visited |-> 0,
                  queue |-> SelectSeq([i \in 1..g.n |-> i - 1], LAMBDA v : in_degree(g)[v] = 0)]
    IN  FoldLeft(visit, start, Turns(g.n)).visited = g.n

\* The depth-first walk puts the successors of a vertex on its stack once.
assert_reachable(g) ==
    LET walk(state, i) ==
            IF state.stack = <<>> THEN state
            ELSE LET u == Last(state.stack)
                 IN  IF u \in state.reach THEN [state EXCEPT !.stack = Front(@)]
                     ELSE [stack |-> Front(state.stack) \o successors(g, u),
                           reach |-> state.reach \cup {u}]
        end == FoldLeft(walk, [stack |-> <<g.root>>, reach |-> {}], Turns(Len(g.edges) + 1))
    IN  end.reach = Within(g.n)

finish(g) ==
    /\ validate_root(g) /\ EdgesInRange(g) /\ NoSelfLoop(g)
    /\ assert_acyclic(g) /\ assert_reachable(g)

\* The reference: the vertices of S and those up to g.n edges further.
Reach(g, S) ==
    FoldLeft(LAMBDA T, i : T \cup {v \in Within(g.n) : \E u \in T : <<u, v>> \in ToSet(g.edges)},
             S, Turns(g.n))

After(g, u) == Reach(g, {v \in Within(g.n) : <<u, v>> \in ToSet(g.edges)})

IsRootedDag(g) ==
    /\ g.n > 0 /\ g.root \in Within(g.n) /\ ToSet(g.edges) \subseteq Within(g.n) \X Within(g.n)
    /\ \A v \in Within(g.n) : v \notin After(g, v)
    /\ \A v \in Within(g.n) \ {g.root} : v \in After(g, g.root)

\* finish accepts exactly the acyclic graphs in which the root reaches every
\* vertex, and in those the root alone starts with no predecessor to wait for,
\* so that seeding it is enough to release every vertex (run_once_borrowed).
AcceptsRootedDags(g) ==
    /\ finish(g) <=> IsRootedDag(g)
    /\ finish(g) => \A v \in Within(g.n) : in_degree(g)[v] = 0 <=> v = g.root
=============================================================================
