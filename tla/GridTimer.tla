------------------------------ MODULE GridTimer -----------------------------
(***************************************************************************)
(* Grid-timed cyclic dispatch: `GridTimer` (taktora-executor grid.rs), the *)
(* master timerfd that wakes it (executor-sys os.rs), and the lateness     *)
(* grid that `record_cycle_for` (executor.rs) keeps per task from the two  *)
(* numbers the timer hands over, `skipped` and `late_by`.                  *)
(*                                                                         *)
(* Time is a natural number.  The scheduling and the telemetry clock are   *)
(* read at the same instant: the telemetry only ever subtracts its own     *)
(* readings, so that an offset between the clocks has no effect.           *)
(***************************************************************************)
EXTENDS Integers, FiniteSets, Functions

CONSTANTS
    Tasks,        \* cyclic tasks
    Period,       \* their declared periods, in ns
    None,         \* no value yet
    MAX,          \* u64::MAX
    Phase,        \* the timerfd is armed this long after the epoch was read
    MaxLatency,   \* bound: a tick is handled at most this late
    Prompt,       \* a tick handled no later than this is handled promptly
    Interrupts,   \* may a handled signal interrupt the wait
    MaxRuns,      \* bound: calls of run
    Horizon       \* bound: last instant

\* What the code requires of the constants.
GridAssumption ==
    /\ IsFiniteSet(Tasks)
    /\ MAX \in Nat /\ Horizon \in Nat /\ Phase \in Nat /\ MaxLatency \in Nat /\ Prompt \in Nat
    /\ Period \in [Tasks -> 1..MAX]
    /\ \A i \in Tasks : Horizon + 2 * Period[i] < MAX
    /\ Interrupts \in BOOLEAN /\ MaxRuns \in Nat

VARIABLES
    now,                       \* both clocks
    running, runs,             \* inside dispatch_loop; calls so far
    epoch, next, carry, served,    \* GridTimer
    drained,                   \* expirations of the timerfd read so far
    gridEpoch, gridSlot,       \* TaskEntry: the lateness grid
    obs,                       \* the last CycleObservation of each task, or None
    lastPass,                  \* history: instant of the last grid pass of this run
    prompt                     \* history: every tick of this run was handled promptly

timerVars == <<epoch, next, carry, served>>
telemetryVars == <<gridEpoch, gridSlot, obs>>
historyVars == <<lastPass, prompt>>
vars == <<now, running, runs, timerVars, drained, telemetryVars, historyVars>>

SatAdd(a, b) == IF a + b > MAX THEN MAX ELSE a + b
SatSub(a, b) == IF a < b THEN 0 ELSE a - b

Gcd[p \in Nat \X Nat] == IF p[2] = 0 THEN p[1] ELSE Gcd[<<p[2], p[1] % p[2]>>]

\* base_period: the greatest common divisor of the periods.
BasePeriod == FoldFunction(LAMBDA p, acc : Gcd[<<acc, p>>], 0, Period)

\* Expirations of the timerfd since it was armed, and the instant of the k-th.
Expirations == SatSub(now, epoch + Phase) \div BasePeriod
TickTime(k) == epoch + Phase + k * BasePeriod

\* The state has its type: no lateness or number of skipped slots exceeds the time
\* that has passed (take_due saturates instead of wrapping).
TypeOK ==
    /\ now \in 0..Horizon
    /\ running \in BOOLEAN /\ runs \in 0..MaxRuns /\ prompt \in BOOLEAN
    /\ epoch \in 0..Horizon
    /\ next \in [Tasks -> 0..MAX]
    /\ carry \in [Tasks -> 0..Horizon]
    /\ served \in [Tasks -> BOOLEAN]
    /\ drained \in Nat
    /\ gridEpoch \in [Tasks -> 0..Horizon \union {None}]
    /\ gridSlot \in [Tasks -> 0..Horizon]
    /\ \A i \in Tasks : obs[i] = None \/
          /\ obs[i].pre \in 0..Horizon /\ obs[i].target \in 0..MAX
          /\ obs[i].skipped \in 0..Horizon /\ obs[i].lateBy \in 0..Horizon
          /\ obs[i].lateness \in Int

Init ==
    /\ now = 0 /\ running = FALSE /\ runs = 0
    /\ epoch = 0
    /\ next = [i \in Tasks |-> 0] /\ carry = [i \in Tasks |-> 0]
    /\ served = [i \in Tasks |-> FALSE]
    /\ drained = 0 /\ lastPass = 0 /\ prompt = TRUE
    /\ gridEpoch = [i \in Tasks |-> None] /\ gridSlot = [i \in Tasks |-> 0]
    /\ obs = [i \in Tasks |-> None]

-----------------------------------------------------------------------------
\* A tick waits to be handled no longer than MaxLatency.
Elapse ==
    /\ now < Horizon
    /\ running /\ Expirations > drained => now < TickTime(drained + 1) + MaxLatency
    /\ now' = now + 1
    /\ prompt' = (prompt /\ (running /\ Expirations > drained
                                => now < TickTime(drained + 1) + Prompt))
    /\ UNCHANGED <<running, runs, timerVars, drained, telemetryVars, lastPass>>

\* dispatch_loop is entered: GridTimer::new, and the timerfd is armed.
Enter ==
    /\ ~running /\ runs < MaxRuns
    /\ running' = TRUE /\ runs' = runs + 1
    /\ epoch' = now
    /\ next' = [i \in Tasks |-> SatAdd(now, Period[i])]
    /\ carry' = [i \in Tasks |-> 0]
    /\ served' = [i \in Tasks |-> FALSE]
    /\ drained' = 0 /\ lastPass' = now /\ prompt' = TRUE
    /\ UNCHANGED <<now, telemetryVars>>

\* dispatch_loop returns; the telemetry of the tasks survives.
Leave ==
    /\ running /\ runs < MaxRuns
    /\ running' = FALSE
    /\ UNCHANGED <<now, runs, timerVars, drained, telemetryVars, historyVars>>

-----------------------------------------------------------------------------
(* take_due: what it leaves for task i and what it reports about it *)

Due == {i \in Tasks : now >= next[i]}
Stepped(i) == SatAdd(next[i], Period[i])

\* The next future grid point after whole slots were missed.
Snapped(i) == SatAdd(epoch, (SatSub(now, epoch) \div Period[i] + 1) * Period[i])

NextTarget(i) ==
    IF i \in Due THEN IF Stepped(i) > now THEN Stepped(i) ELSE Snapped(i) ELSE next[i]

\* Mutant of Carry: the first dispatch of a task leaves a carry, too.
CarryUnserved(i) ==
    IF i \in Due THEN IF Stepped(i) <= now THEN SatSub(Snapped(i), Stepped(i)) \div Period[i]
                      ELSE 0
    ELSE carry[i]

\* The carry is taken by this dispatch; a realignment sets it for the next one.
Carry(i) ==
    IF i \in Due
    THEN IF Stepped(i) <= now /\ served[i]
         THEN SatSub(Snapped(i), Stepped(i)) \div Period[i]
         ELSE 0
    ELSE carry[i]

LateBy(i) == SatSub(now, SatSub(NextTarget(i), Period[i]))

\* record_cycle_for: where the grid of task i is anchored, and its slot.
Anchor(i) == IF gridEpoch[i] = None THEN SatSub(now, LateBy(i)) ELSE gridEpoch[i]
Slot(i) == IF gridEpoch[i] = None THEN 0 ELSE gridSlot[i] + 1 + carry[i]

Observation(i) ==
    [pre |-> now, target |-> next[i], skipped |-> carry[i], lateBy |-> LateBy(i),
     lateness |-> (now - Anchor(i)) - Slot(i) * Period[i]]

\* A wake that finds the timer expired: every due task is dispatched once, and
\* after the barrier its cycle is recorded.
GridPass ==
    /\ running /\ Expirations > drained
    /\ drained' = Expirations
    /\ lastPass' = now
    /\ next' = [i \in Tasks |-> NextTarget(i)]
    /\ carry' = [i \in Tasks |-> Carry(i)]
    /\ served' = [i \in Tasks |-> served[i] \/ i \in Due]
    /\ gridEpoch' = [i \in Tasks |-> IF i \in Due THEN Anchor(i) ELSE gridEpoch[i]]
    /\ gridSlot' = [i \in Tasks |-> IF i \in Due THEN Slot(i) ELSE gridSlot[i]]
    /\ obs' = [i \in Tasks |-> IF i \in Due THEN Observation(i) ELSE obs[i]]
    /\ UNCHANGED <<now, running, runs, epoch, prompt>>

\* The wait ends with Interrupt and the timer has expired meanwhile: `drain`
\* reads the expirations, run_grid_cyclic_pass returns early.
Interrupted ==
    /\ Interrupts /\ running /\ Expirations > drained
    /\ drained' = Expirations
    /\ prompt' = FALSE
    /\ UNCHANGED <<now, running, runs, timerVars, telemetryVars, lastPass>>

AtHorizon == now = Horizon /\ UNCHANGED vars

Next == Elapse \/ Enter \/ Leave \/ GridPass \/ Interrupted \/ AtHorizon

Spec == Init /\ [][Next]_vars

-----------------------------------------------------------------------------
(* Properties *)

GridPoints(i) == {epoch + k * Period[i] : k \in 1..Horizon}

\* take_due never slides and never bursts: after each pass the target of every
\* task is the first point of the absolute grid after that pass, whatever the
\* lateness of the wakes.
TargetOnGrid ==
    running => \A i \in Tasks :
        /\ next[i] \in GridPoints(i) /\ next[i] > lastPass
        /\ \A g \in GridPoints(i) : g > lastPass => next[i] <= g

\* How far the lateness grid of task i lies before the timer's grid: the slot
\* after the one last recorded, plus the slots to be reported as skipped, against
\* the timer's next target.
Shift(i) == next[i] - (gridEpoch[i] + (gridSlot[i] + 1 + carry[i]) * Period[i])

\* The slot signals are exact: the lateness grid that the telemetry reconstructs
\* from `skipped` and the first `late_by` is the timer's grid, and no number of
\* late, missed or swallowed ticks moves one against the other within a run.
SlotsKept ==
    running /\ running' => \A i \in Tasks :
        /\ served[i] => Shift(i)' = Shift(i)
        /\ gridEpoch[i] = None /\ served'[i] => Shift(i)' = 0

\* As long as wakes are prompt the master timer at the base period serves every
\* grid point of every task at its own tick: none is late by more than the
\* handling of that tick, and none is skipped.
PromptlyServed ==
    running /\ prompt => \A i \in Tasks :
        /\ now <= next[i] + Phase + Prompt
        /\ served[i] => obs[i].skipped = 0

\* REQ_0106: lateness is "the signed offset between the task's actual task-logic
\* start [...] and the nominal periodic grid point at which it was due to start".
LatenessHonest ==
    \A i \in Tasks : obs[i] # None =>
        obs[i].lateness \in {obs[i].pre - obs[i].target, obs[i].lateBy}
=============================================================================
