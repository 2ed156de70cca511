----------------------------- MODULE MCExecutor -----------------------------
(* The dispatch loop of the executor, and, one at a time, parts of it that
   are modelled on their own: the grid timer and the fault words.  They share
   the variables, since only one of them runs. *)
EXTENDS Executor

VARIABLES
    part,    \* the component that runs
    x1, x2, x3, x4, x5, x6, x7, x8, x9, x10, x11, x12, x13

CONSTANT Parts    \* the components to run

(* Executor: small task tables and run calls, tasks 1 and 2. *)
Base ==
    [kind |-> [t \in Tasks |-> "single"], budgeted |-> {1, 2}, handled |-> {},
     cyclic |-> {1}, owner |-> [l \in {"l2", "l3"} |-> 2], budget |-> TRUE, workers |-> 2,
     heartbeat |-> FALSE, mode |-> "iterations", limit |-> 2,
     maxWakes |-> 3, maxOverruns |-> 1]

\* A cyclic and an event-driven item on two workers, run_n.
TwoWorkers == [Base EXCEPT !.maxWakes = 2]

\* Two cyclic items on two workers, run_for.
TwoCyclic ==
    [Base EXCEPT !.cyclic = {1, 2}, !.owner = [l \in {} |-> 2], !.mode = "until",
                 !.maxWakes = 2]

\* The first configuration inline, the cyclic item with a fault handler, run_until.
InlineHandler ==
    [Base EXCEPT !.workers = 0, !.handled = {1}, !.mode = "predicate",
                 !.maxWakes = 2]

\* A cyclic graph and an event-driven chain on one worker, run_for, with a heartbeat.
GraphAndChain ==
    [Base EXCEPT !.kind = [t \in Tasks |-> IF t = 2 THEN "chain" ELSE "graph"],
                 !.budgeted = {}, !.workers = 1, !.heartbeat = TRUE, !.mode = "until"]

Safe == {TwoWorkers, TwoCyclic, InlineHandler, GraphAndChain}

\* While another component runs, the executor is at rest.
Quiet == conf = TwoWorkers /\ Init

(* GridTimer: two cyclic tasks whose periods have a common divisor below both. *)
Cyclics == {"fast", "slow"}
Period46 == [i \in Cyclics |-> IF i = "fast" THEN 4 ELSE 6]

(* The fault words: durations within and beyond what their fields hold. *)
Faults == [state : FaultStates, took : 0..34, since : 0..34]

Grid == INSTANCE GridTimer WITH
    Tasks <- Cyclics, Period <- Period46, MAX <- 1000, Phase <- 1, MaxLatency <- 8,
    Prompt <- 1, Interrupts <- TRUE, MaxRuns <- 2, Horizon <- 24, now <- x1, running <- x2,
    runs <- x3, epoch <- x4, next <- x5, carry <- x6, served <- x7, drained <- x8,
    gridEpoch <- x9, gridSlot <- x10, obs <- x11, lastPass <- x12, prompt <- x13

\* A component uses the first n of the variables.
Unused(n) ==
    /\ (n < 2 => x2 = 0) /\ (n < 3 => x3 = 0) /\ (n < 4 => x4 = 0) /\ (n < 5 => x5 = 0)
    /\ (n < 6 => x6 = 0) /\ (n < 7 => x7 = 0) /\ (n < 8 => x8 = 0) /\ (n < 9 => x9 = 0)
    /\ (n < 10 => x10 = 0) /\ (n < 11 => x11 = 0) /\ (n < 12 => x12 = 0) /\ (n < 13 => x13 = 0)

Kept(n) ==
    /\ (n < 2 => x2' = x2) /\ (n < 3 => x3' = x3) /\ (n < 4 => x4' = x4) /\ (n < 5 => x5' = x5)
    /\ (n < 6 => x6' = x6) /\ (n < 7 => x7' = x7) /\ (n < 8 => x8' = x8) /\ (n < 9 => x9' = x9)
    /\ (n < 10 => x10' = x10) /\ (n < 11 => x11' = x11) /\ (n < 12 => x12' = x12) /\ (n < 13 => x13' = x13)

mcVars == <<part, vars, x1, x2, x3, x4, x5, x6, x7, x8, x9, x10, x11, x12, x13>>

MCInit ==
    /\ part \in Parts
    /\ \/ part = "executor" /\ Init /\ x1 = 0 /\ Unused(1)
       \/ part = "grid" /\ Grid!Init /\ Unused(13) /\ Quiet
       \/ part = "word" /\ x1 \in Faults /\ Unused(1) /\ Quiet

MCNext ==
    \/ part = "executor" /\ Next /\ UNCHANGED <<part, x1, x2, x3, x4, x5, x6, x7, x8, x9, x10, x11, x12, x13>>
    \/ part = "grid" /\ Grid!Next /\ Kept(13) /\ UNCHANGED <<part, vars>>
    \/ part \in {"word"} /\ UNCHANGED mcVars

MCSpec == MCInit /\ [][MCNext]_mcVars

ASSUME Grid!GridAssumption

------------------------------------------------------------------------------
(* Properties; those of the executor are its own. *)

\* GridTimer: the targets stay on the absolute grid, prompt wakes serve every
\* point of it, and no tick moves the lateness grid of the telemetry against it.
GridKept ==
    /\ [](part = "grid" => Grid!TargetOnGrid /\ Grid!PromptlyServed)
    /\ [][part = "grid" => Grid!SlotsKept]_mcVars

\* GridTimer, REQ_0106: lateness is "the signed offset between the task's actual
\* task-logic start [...] and the nominal periodic grid point at which it was due
\* to start".
LatenessHonest == part = "grid" => Grid!LatenessHonest

\* Executor: a fault survives its packing into the words of FaultAtomic.
EncodingsSound == part = "word" => FaultSurvives(x1)
==============================================================================
