------------------------------ MODULE Executor ------------------------------
(***************************************************************************)
(* The dispatch loop of taktora-executor (executor.rs): one thread waits   *)
(* for triggers, marks and submits the triggered tasks, barriers, folds    *)
(* the telemetry and decides whether to go on; pool workers run the items  *)
(* and detect budget overruns on shared atomics (fault.rs); other threads  *)
(* ask the loop to stop (context.rs).  Between two calls of run the owner  *)
(* of the executor clears faults.                                          *)
(*                                                                         *)
(* The pool is used through what Pool.tla shows of it: a submitted job     *)
(* runs once, at most NWorkers at a time, and the barrier waits for all.   *)
(* The iceoryx2 WaitSet is external: a wait ends with any set of ready     *)
(* attachments.  Durations are abstracted to the budgets they exceed.      *)
(***************************************************************************)
EXTENDS Naturals, FiniteSets

CONSTANTS
    Tasks,            \* the task table, indices
    Configurations,   \* what the builder, add and run are called with: see below
    ChainLen,         \* items of a chain
    None,
    MaxRuns,          \* bound: calls of run
    TookBits, IntBits \* widths of the packed fault words: 30 bits of took_ms, u32

\* kind[t]: "single", "chain" or "graph"; budgeted: tasks with a budget of their own,
\* handled: with a fault handler (both single only); cyclic: with a scan period, due
\* on the grid; owner: the task each event trigger belongs to (validate_decls: a task is
\* cyclic or event-driven); budget: is there an executor-wide budget; workers: 0 when
\* jobs run inline on the dispatch thread; heartbeat: it bounds the wait, which may end
\* with nothing ready; mode and limit: of run; maxWakes, maxOverruns: bounds.
IsConfiguration(c) ==
    /\ c.kind \in [Tasks -> {"single", "chain", "graph"}]
    /\ c.budgeted \union c.handled \subseteq {t \in Tasks : c.kind[t] = "single"}
    /\ c.cyclic \subseteq Tasks
    /\ \A l \in DOMAIN c.owner : c.owner[l] \in Tasks \ c.cyclic
    /\ c.budget \in BOOLEAN /\ c.heartbeat \in BOOLEAN /\ c.workers \in Nat
    /\ c.mode \in {"forever", "iterations", "until", "predicate"} /\ c.limit \in Nat
    /\ c.maxWakes \in Nat /\ c.maxOverruns \in Nat

ASSUME ExecutorAssumption ==
    /\ Tasks \subseteq Nat /\ IsFiniteSet(Tasks)
    /\ \A c \in Configurations : IsConfiguration(c)
    /\ ChainLen \in Nat \ {0} /\ MaxRuns \in Nat
    /\ None \notin Tasks

VARIABLES
    conf,                    \* the configuration, fixed when run is called
    pc, result, fired, due, target, seen,   \* the dispatch thread
    iterations, outcome, runs, wakes,
    pending,                 \* TaskEntry.pending_cycle: "none", "run", "faulted"
    job, run,                \* per task: the job in the pool and its locals
    took,                    \* last_took_ns holds a sample
    iterErr,                 \* task whose error is in the error slot, or None
    taskFault, overruns,     \* FaultAtomic and overrun_count per task
    execFault, execIdx,      \* whose took_ms is in ExecutorFaultAtomic; exec_fault_task_idx
    stopFlag, stopToken, stopper,   \* Stoppable: flag, notification, a caller of stop
    expired,                 \* the deadline of run_for has passed
    \* history
    triggered, starts, halted, records, errs, announced, execAnnounced

loopVars == <<pc, result, fired, due, target, seen, iterations, outcome, runs, wakes>>
jobVars == <<job, run, took, iterErr, errs>>
faultVars == <<taskFault, overruns, execFault, execIdx, announced, execAnnounced>>
stopVars == <<stopFlag, stopToken, stopper, expired>>
wakeVars == <<triggered, starts, halted, records>>
vars == <<conf, loopVars, pending, jobVars, faultVars, stopVars, wakeVars>>

Kind == conf.kind
Budgeted == conf.budgeted
Handled == conf.handled
Cyclic == conf.cyclic
Owner == conf.owner
Listeners == DOMAIN conf.owner
NWorkers == conf.workers

Attachments == Listeners \union {"stop", "timer"}
AllIdle == \A t \in Tasks : job[t] = "idle"

\* With an inline pool the dispatch thread is busy while a job runs.
MainFree == NWorkers = 0 => AllIdle

\* What a job remembers: whether it runs the main item, which item of a chain, the
\* budgets that the item exceeded and what it returned.
Locals(main, item, breach, res) ==
    [main |-> main, item |-> item, breach |-> breach, res |-> res]

Init ==
    /\ conf \in Configurations
    /\ pc = "idle" /\ result = "normal" /\ fired = {} /\ due = {}
    /\ target = None /\ seen = [exec |-> FALSE, task |-> "running"]
    /\ iterations = 0 /\ outcome = "ok" /\ runs = 0 /\ wakes = 0
    /\ pending = [t \in Tasks |-> "none"]
    /\ job = [t \in Tasks |-> "idle"]
    /\ run = [t \in Tasks |-> Locals(TRUE, 1, {}, "ok")]
    /\ took = [t \in Tasks |-> FALSE]
    /\ iterErr = None /\ errs = {}
    /\ taskFault = [t \in Tasks |-> "running"] /\ overruns = [t \in Tasks |-> 0]
    /\ execFault = None /\ execIdx = None
    /\ stopFlag = FALSE /\ stopToken = FALSE /\ stopper = "ready" /\ expired = FALSE
    /\ triggered = {} /\ starts = [t \in Tasks |-> 0]
    /\ halted = {} /\ records = [t \in Tasks |-> 0]
    /\ announced = [t \in Tasks |-> 0] /\ execAnnounced = 0

\* The state has its type; overruns and iterations stay within what the wakes and jobs
\* of the bounds can produce (post_execute_detect_fault, after_callback).
TypeOK ==
    /\ conf \in Configurations
    /\ pc \in {"idle", "wait", "callback", "grid", "after"}
    /\ result \in {"normal", "interrupt", "termination", "error"}
    /\ fired \subseteq Attachments /\ due \subseteq Cyclic
    /\ target \in Tasks \union {None}
    /\ seen \in [exec : BOOLEAN, task : {"running", "budget", "executor"}]
    /\ iterations \in 0..(conf.maxWakes + 1) /\ runs \in 0..MaxRuns
    /\ outcome \in {"ok", "item", "waitset", "rejected"}
    /\ pending \in [Tasks -> {"none", "run", "faulted"}]
    /\ job \in [Tasks -> {"idle", "queued", "item", "overrun", "swap_task",
                          "store_idx", "swap_exec", "finish"}]
    /\ took \in [Tasks -> BOOLEAN]
    /\ iterErr \in Tasks \union {None}
    /\ taskFault \in [Tasks -> {"running", "budget", "executor"}]
    /\ overruns \in [Tasks -> 0..conf.maxOverruns]
    /\ {execFault, execIdx} \subseteq Tasks \union {None}

-----------------------------------------------------------------------------
(* The owner of the executor, between two runs *)

\* run_inner: admission, then dispatch_loop sweeps the tokens of an earlier run.
Enter ==
    /\ pc = "idle" /\ runs < MaxRuns
    /\ runs' = runs + 1 /\ wakes' = 0 /\ iterations' = 0
    /\ pc' = "wait" /\ outcome' = "ok"
    /\ expired' = FALSE
    /\ pending' = [t \in Tasks |-> "none"]
    /\ iterErr' = None /\ errs' = {}
    /\ UNCHANGED <<conf, result, fired, due, target, seen, job, run, took, faultVars, stopFlag,
                   stopToken, stopper, triggered, starts, halted, records>>

\* The admission check rejects: nothing is dispatched.
EnterRejected ==
    /\ pc = "idle" /\ runs < MaxRuns
    /\ runs' = runs + 1
    /\ outcome' = "rejected" /\ errs' = {}
    /\ UNCHANGED <<conf, pc, result, fired, due, target, seen, iterations, wakes, pending, job, run,
                   took, iterErr, faultVars, stopVars, wakeVars>>

\* clear_task_fault
ClearTaskFault(t) ==
    /\ pc = "idle"
    /\ taskFault[t] # "running"
    /\ taskFault' = [taskFault EXCEPT ![t] = "running"]
    /\ announced' = [announced EXCEPT ![t] = 0]
    /\ UNCHANGED <<conf, loopVars, pending, jobVars, overruns, execFault, execIdx, execAnnounced,
                   stopVars, wakeVars>>

\* Mutant of Cascaded: the cascade is cleared for the offending task only.
CascadedOffender == {t \in Tasks : taskFault[t] = "executor" /\ t = execIdx}

\* The tasks that clear_executor_fault clears with the executor.
Cascaded == {t \in Tasks : taskFault[t] = "executor"}

ClearExecutorFault ==
    /\ pc = "idle"
    /\ execFault # None
    /\ execFault' = None /\ execAnnounced' = 0
    /\ taskFault' = [t \in Tasks |-> IF t \in Cascaded THEN "running" ELSE taskFault[t]]
    /\ announced' = [t \in Tasks |-> IF t \in Cascaded THEN 0 ELSE announced[t]]
    /\ UNCHANGED <<conf, loopVars, pending, jobVars, overruns, execIdx, stopVars, wakeVars>>

-----------------------------------------------------------------------------
(* Stopping *)

StopFlag ==
    /\ stopFlag' = TRUE
    /\ UNCHANGED <<conf, loopVars, pending, jobVars, faultVars, stopToken, expired, wakeVars>>

StopNotify ==
    /\ stopToken' = TRUE
    /\ UNCHANGED <<conf, loopVars, pending, jobVars, faultVars, stopFlag, expired, wakeVars>>

\* Stoppable::stop, first the flag, then the notification.
Stop ==
    \/ stopper = "ready" /\ stopper' = "stopping" /\ StopFlag
    \/ stopper = "stopping" /\ stopper' = "done" /\ StopNotify

\* The deadline of run_for passes.
Expire ==
    /\ conf.mode = "until" /\ pc # "idle" /\ ~expired
    /\ expired' = TRUE
    /\ UNCHANGED <<conf, loopVars, pending, jobVars, faultVars, stopFlag, stopToken, stopper, wakeVars>>

-----------------------------------------------------------------------------
(* One wake of the dispatch thread *)

\* wait_and_process_once_with_timeout returns; callbacks run only on a normal wake.
Wake(r, A) ==
    /\ pc = "wait"
    /\ \/ r = "normal" /\ (A # {} \/ conf.heartbeat) /\ ("stop" \in A => stopToken)
          /\ (A = {"stop"} \/ wakes < conf.maxWakes)
       \/ r # "normal" /\ A = {} /\ wakes < conf.maxWakes
    /\ result' = r /\ fired' = A
    /\ wakes' = IF wakes < conf.maxWakes THEN wakes + 1 ELSE wakes
    /\ pc' = "callback"
    /\ triggered' = {} /\ starts' = [t \in Tasks |-> 0] /\ records' = [t \in Tasks |-> 0]
    /\ halted' = {t \in Tasks : execFault # None \/ taskFault[t] # "running"}
    /\ UNCHANGED <<conf, due, target, seen, iterations, outcome, runs, pending, jobVars, faultVars,
                   stopVars>>

\* dispatch_task: the task has not been dispatched in this wake.
Fresh(t) == pending[t] = "none"

\* dispatch_task up to the loads of handle_fault_routing; a graph is not routed
\* but run to its end, vertices on the pool, driven by this thread.
Dispatch(t) ==
    /\ triggered' = triggered \union {t}
    /\ \/ /\ ~Fresh(t)
          /\ UNCHANGED <<target, seen, pending, jobVars, starts>>
       \/ /\ Fresh(t) /\ Kind[t] # "graph"
          /\ target' = t
          /\ seen' = [exec |-> execFault # None, task |-> taskFault[t]]
          /\ UNCHANGED <<pending, jobVars, starts>>
       \/ /\ Fresh(t) /\ Kind[t] = "graph"
          /\ pending' = [pending EXCEPT ![t] = "run"]
          /\ starts' = [starts EXCEPT ![t] = @ + 1]
          /\ \/ UNCHANGED <<iterErr, errs>>
             \/ /\ iterErr' = IF iterErr = None THEN t ELSE iterErr
                /\ errs' = errs \union {t}
          /\ UNCHANGED <<target, seen, job, run, took>>

\* process_attachment: drain the stop listener, dispatch the task that fired.
ProcessAttachment(a) ==
    /\ pc = "callback" /\ target = None /\ MainFree
    /\ a \in fired
    /\ fired' = fired \ {a}
    /\ stopToken' = FALSE
    /\ \/ a \in Listeners /\ Dispatch(Owner[a])
       \/ a \notin Listeners
          /\ UNCHANGED <<target, seen, pending, jobVars, starts, triggered>>
    /\ UNCHANGED <<conf, pc, result, due, iterations, outcome, runs, wakes, faultVars, stopFlag, stopper,
                   expired, halted, records>>

Submit(t, main) ==
    /\ job' = [job EXCEPT ![t] = "queued"]
    /\ run' = [run EXCEPT ![t] = Locals(main, 1, {}, "ok")]

\* handle_fault_routing: the executor or the task is faulted.
RoutedFaulted(t) == seen.exec \/ seen.task # "running"

\* handle_fault_routing after its loads (the lazy cascade is silent), and the
\* rest of dispatch_task.
Route ==
    /\ pc \in {"callback", "grid"} /\ target # None
    /\ target' = None
    /\ LET t == target IN
         /\ taskFault' = IF seen.exec /\ seen.task = "running"
                         THEN [taskFault EXCEPT ![t] = "executor"] ELSE taskFault
         /\ pending' = [pending EXCEPT ![t] = IF RoutedFaulted(t) THEN "faulted" ELSE "run"]
         /\ \/ ~RoutedFaulted(t) /\ Submit(t, TRUE) /\ starts' = [starts EXCEPT ![t] = @ + 1]
            \/ RoutedFaulted(t) /\ t \in Handled /\ Submit(t, FALSE)
               /\ starts' = [starts EXCEPT ![t] = @ + 1]
            \/ RoutedFaulted(t) /\ t \notin Handled /\ UNCHANGED <<job, run, starts>>
    /\ UNCHANGED <<conf, pc, result, fired, due, seen, iterations, outcome, runs, wakes, took, iterErr,
                   errs, overruns, execFault, execIdx, announced, execAnnounced, stopVars,
                   triggered, halted, records>>

\* run_grid_cyclic_pass: nothing on an interrupted or a stopping wake, otherwise
\* the tasks that take_due finds due (GridTimer.tla).
GridPass(D) ==
    /\ pc = "callback" /\ fired = {} /\ target = None /\ MainFree
    /\ stopFlag \/ result \in {"interrupt", "termination"} => D = {}
    /\ due' = D
    /\ pc' = "grid"
    /\ UNCHANGED <<conf, result, fired, target, seen, iterations, outcome, runs, wakes, pending, jobVars,
                   faultVars, stopVars, wakeVars>>

\* dispatch_cyclic, in the order of the task table
DispatchCyclic ==
    /\ pc = "grid" /\ target = None /\ MainFree
    /\ \E t \in due : /\ \A u \in due : t <= u
                      /\ due' = due \ {t}
                      /\ Dispatch(t)
    /\ UNCHANGED <<conf, pc, result, fired, iterations, outcome, runs, wakes, faultVars, stopVars,
                   halted, records>>

\* Mutant of Folded: the sample is read and left in place.
FoldedKept(t) == FALSE

\* record_cycle_for swaps the sample of a cyclic task for the sentinel.
Folded(t) == t \in Cyclic /\ pending[t] # "none"

\* What pool.barrier() waits for.
Quiescent == AllIdle

\* barrier_and_record: wait for every job, then take each token once and record
\* the cycle of each cyclic task; last_took_ns is swapped for its sentinel.
BarrierAndRecord ==
    /\ pc = "grid" /\ due = {} /\ target = None
    /\ Quiescent
    /\ pc' = "after"
    /\ records' = [t \in Tasks |->
                     IF t \in Cyclic /\ pending[t] # "none" THEN records[t] + 1 ELSE records[t]]
    /\ took' = [t \in Tasks |-> IF Folded(t) THEN FALSE ELSE took[t]]
    /\ pending' = [t \in Tasks |-> "none"]
    /\ UNCHANGED <<conf, result, fired, due, target, seen, iterations, outcome, runs, wakes, job, run,
                   iterErr, errs, faultVars, stopVars, triggered, starts, halted>>

\* The run-mode limit, evaluated with the iteration just counted.
LimitReached(n) ==
    CASE conf.mode = "forever" -> {FALSE}
      [] conf.mode = "iterations" -> {n >= conf.limit}
      [] conf.mode = "until" -> {expired}
      [] conf.mode = "predicate" -> BOOLEAN

Leave(o) == pc' = "idle" /\ outcome' = o
Continue == pc' = "wait" /\ UNCHANGED outcome

\* An interrupted wake is not an iteration.
Counted == result # "interrupt"

\* Mutant of SlotError: the stop flag is tested before the slot is read.
SlotErrorUnstopped == IF stopFlag THEN None ELSE iterErr

\* The error that after_callback takes from the slot.
SlotError == iterErr

\* after_callback, in the order of its tests; the error slot is reset at the top
\* of the loop.
AfterCallback ==
    /\ pc = "after"
    /\ \/ result = "error" /\ Leave("waitset") /\ UNCHANGED <<iterations, iterErr>>
       \/ result = "termination" /\ Leave("ok") /\ UNCHANGED <<iterations, iterErr>>
       \/ /\ result \in {"normal", "interrupt"}
          /\ iterErr' = None
          /\ \/ SlotError # None /\ Leave("item") /\ UNCHANGED iterations
             \/ SlotError = None /\ stopFlag /\ Leave("ok") /\ UNCHANGED iterations
             \/ /\ SlotError = None /\ ~stopFlag /\ ~Counted
                /\ Continue /\ UNCHANGED iterations
             \/ /\ SlotError = None /\ ~stopFlag /\ Counted
                /\ iterations' = iterations + 1
                /\ \E limit \in LimitReached(iterations + 1) :
                      IF limit THEN Leave("ok") ELSE Continue
    /\ errs' = IF pc' = "wait" THEN {} ELSE errs
    /\ UNCHANGED <<conf, result, fired, due, target, seen, runs, wakes, pending, job, run, took,
                   faultVars, stopVars, wakeVars>>

-----------------------------------------------------------------------------
(* A job on a pool worker: build_single_job, build_handler_job, build_chain_job *)

Goto(t, l) == job' = [job EXCEPT ![t] = l]

Active == {t \in Tasks : job[t] \notin {"idle", "queued"}}

Start(t) ==
    /\ job[t] = "queued"
    /\ Cardinality(Active) < (IF NWorkers = 0 THEN 1 ELSE NWorkers)
    /\ Goto(t, "item")
    /\ UNCHANGED <<conf, loopVars, pending, run, took, iterErr, errs, faultVars, stopVars, wakeVars>>

\* The budgets this execution of an item may turn out to have exceeded.
Breaches(t) ==
    SUBSET ((IF t \in Budgeted /\ overruns[t] < conf.maxOverruns THEN {"task"} ELSE {})
            \union (IF conf.budget THEN {"iteration"} ELSE {}))

\* run_item_catch_unwind: the item returns, errs or panics (an error, too).
Execute(t) ==
    /\ job[t] = "item"
    /\ \E B \in Breaches(t), res \in {"ok", "stop_chain", "err"} :
         /\ res = "stop_chain" => Kind[t] = "chain"
         /\ run' = [run EXCEPT ![t] = Locals(run[t].main, run[t].item, B, res)]
    /\ Goto(t, "overrun")
    /\ UNCHANGED <<conf, loopVars, pending, took, iterErr, errs, faultVars, stopVars, wakeVars>>

\* post_execute_detect_fault, the budget of the task: count every breach ...
CountOverrun(t) ==
    /\ job[t] = "overrun"
    /\ overruns' = IF "task" \in run[t].breach THEN [overruns EXCEPT ![t] = @ + 1] ELSE overruns
    /\ Goto(t, IF "task" \in run[t].breach THEN "swap_task" ELSE "store_idx")
    /\ UNCHANGED <<conf, loopVars, pending, run, took, iterErr, errs, taskFault, execFault, execIdx,
                   announced, execAnnounced, stopVars, wakeVars>>

\* The swap returned Running: this is the transition to report.
Transition(t) == taskFault[t] = "running"

\* ... and swap the state; the observer hears of the transition.
SwapTaskFault(t) ==
    /\ job[t] = "swap_task"
    /\ taskFault' = [taskFault EXCEPT ![t] = "budget"]
    /\ announced' = [announced EXCEPT ![t] = IF Transition(t) THEN @ + 1 ELSE @]
    /\ Goto(t, "store_idx")
    /\ UNCHANGED <<conf, loopVars, pending, run, took, iterErr, errs, overruns, execFault, execIdx,
                   execAnnounced, stopVars, wakeVars>>

Offender(t) == "iteration" \in run[t].breach

\* The executor-wide budget: the offender's index has an atomic of its own.
StoreExecIdx(t) ==
    /\ job[t] = "store_idx"
    /\ execIdx' = IF Offender(t) THEN t ELSE execIdx
    /\ Goto(t, IF "iteration" \in run[t].breach THEN "swap_exec" ELSE "finish")
    /\ UNCHANGED <<conf, loopVars, pending, run, took, iterErr, errs, taskFault, overruns, execFault,
                   announced, execAnnounced, stopVars, wakeVars>>

\* Mutant of ExecTransition: the observer hears of every breach.
ExecTransitionAlways == TRUE

\* The swap returned Running.
ExecTransition == execFault = None

SwapExecFault(t) ==
    /\ job[t] = "swap_exec"
    /\ execFault' = t
    /\ execAnnounced' = IF ExecTransition THEN execAnnounced + 1 ELSE execAnnounced
    /\ Goto(t, "finish")
    /\ UNCHANGED <<conf, loopVars, pending, run, took, iterErr, errs, taskFault, overruns, execIdx,
                   announced, stopVars, wakeVars>>

Sampled(t) == run[t].main

\* record_first_err; a chain goes on with its next item; last_took_ns is stored
\* by the main job only.
Finish(t) ==
    /\ job[t] = "finish"
    /\ iterErr' = IF run[t].res = "err" /\ iterErr = None THEN t ELSE iterErr
    /\ errs' = IF run[t].res = "err" THEN errs \union {t} ELSE errs
    /\ \/ /\ Kind[t] = "chain" /\ run[t].res = "ok" /\ run[t].item < ChainLen
          /\ run' = [run EXCEPT ![t] = Locals(@.main, @.item + 1, @.breach, @.res)]
          /\ Goto(t, "item")
          /\ UNCHANGED took
       \/ /\ ~(Kind[t] = "chain" /\ run[t].res = "ok" /\ run[t].item < ChainLen)
          /\ Goto(t, "idle")
          /\ took' = IF Sampled(t) THEN [took EXCEPT ![t] = TRUE] ELSE took
          /\ run' = [run EXCEPT ![t] = Locals(@.main, 1, {}, "ok")]
    /\ UNCHANGED <<conf, loopVars, pending, faultVars, stopVars, wakeVars>>

-----------------------------------------------------------------------------
\* Nothing to do: no trigger fires, or the executor is not run again.
Rest == pc \in {"idle", "wait"} /\ UNCHANGED vars

DispatchThread ==
    \/ \E a \in Attachments : ProcessAttachment(a)
    \/ Route
    \/ \E D \in SUBSET Cyclic : GridPass(D)
    \/ DispatchCyclic
    \/ BarrierAndRecord
    \/ AfterCallback

Job(t) ==
    \/ Start(t) \/ Execute(t) \/ CountOverrun(t) \/ SwapTaskFault(t)
    \/ StoreExecIdx(t) \/ SwapExecFault(t) \/ Finish(t)

Next ==
    \/ Enter \/ EnterRejected \/ ClearExecutorFault \/ \E t \in Tasks : ClearTaskFault(t)
    \/ Stop \/ Expire
    \/ \E r \in {"normal", "interrupt", "termination", "error"}, A \in SUBSET Attachments :
          Wake(r, A)
    \/ DispatchThread
    \/ \E t \in Tasks : Job(t)
    \/ Rest

\* A stop that was begun goes on, and its notification wakes the loop.
StopGoesOn == stopper = "stopping" /\ Stop
WokenByStop == \E A \in SUBSET Attachments : "stop" \in A /\ Wake("normal", A)

\* The dispatch thread and the workers are scheduled and items return; a call of
\* stop goes on; a notified stop listener wakes the WaitSet.  No trigger is fair.
Fairness ==
    /\ WF_vars(DispatchThread)
    /\ \A t \in Tasks : WF_vars(Job(t))
    /\ WF_vars(StopGoesOn)
    /\ WF_vars(WokenByStop)

Spec == Init /\ [][Next]_vars /\ Fairness

-----------------------------------------------------------------------------
(* FaultAtomic and ExecutorFaultAtomic: a fault state in one integer, its  *)
(* discriminant above the measured time above the time of the fault.  A    *)
(* fault f is its state and the durations measured.                        *)

FaultStates == {"Running", "BudgetExceeded", "ExecutorFaulted"}

\* duration_to_ms_sat: milliseconds, saturated at u32::MAX.
duration_to_ms_sat(d) == IF d > 2^IntBits - 1 THEN 2^IntBits - 1 ELSE d

took_ms(f) == IF f.state = "BudgetExceeded" THEN duration_to_ms_sat(f.took) ELSE 0

since_ms(f) == duration_to_ms_sat(f.since)

Disc == [Running |-> 0, BudgetExceeded |-> 1, ExecutorFaulted |-> 2]

\* Mutant of pack: the time of the fault spills into the bits of took_ms.
packNarrow(f) ==
    IF f.state = "Running" THEN 0
    ELSE Disc[f.state] * 2^(TookBits + IntBits)
         + (took_ms(f) % 2^TookBits) * 2^(IntBits - 1) + since_ms(f)

\* took_ms is masked to its field.
pack(f) ==
    IF f.state = "Running" THEN 0
    ELSE Disc[f.state] * 2^(TookBits + IntBits)
         + (took_ms(f) % 2^TookBits) * 2^IntBits + since_ms(f)

\* unpack: the reserved discriminant reads as Running.
unpack(w) ==
    LET d == (w \div 2^(TookBits + IntBits)) % 4
        t == (w \div 2^IntBits) % 2^TookBits
        s == w % 2^IntBits
    IN  CASE d = 1 -> [state |-> "BudgetExceeded", took |-> t, since |-> s]
          [] d = 2 -> [state |-> "ExecutorFaulted", took |-> 0, since |-> s]
          [] OTHER -> [state |-> "Running", took |-> 0, since |-> 0]

-----------------------------------------------------------------------------
(* Properties *)

\* REQ_0854: however many of a task's attachments fire in one wake,
\* it is started at most once, and every triggered cyclic task, run or routed away,
\* gets exactly one telemetry record.
DispatchedOnce ==
    \A t \in Tasks :
        /\ starts[t] <= 1
        /\ pc = "after" => records[t] = IF t \in triggered \intersect Cyclic THEN 1 ELSE 0

\* The sample that record_cycle_for folds is the one the main item of this wake
\* stored: a skipped or handled cycle leaves none, none survives its wake.
SamplesFresh ==
    /\ pc = "grid" /\ due = {} /\ target = None /\ AllIdle =>
          \A t \in Cyclic : took[t] <=> pending[t] = "run" /\ Kind[t] # "graph"
    /\ pc \in {"wait", "idle"} => \A t \in Cyclic : ~took[t]

\* A task is started at most once in a wake, each triggered cyclic task gets one
\* telemetry record, and the sample it folds is one of this wake.
CyclesRecorded == DispatchedOnce /\ SamplesFresh

\* The loop never goes on over an item error, and run returns it unless the wait
\* itself failed: errors of workers reach the slot before it is read.
ErrorSurfaces ==
    /\ pc = "wait" => errs = {}
    /\ pc = "idle" /\ errs # {} => outcome = "item" \/ (outcome = "waitset" /\ result = "error")

\* REQ_0072, fault.rs:67: a task that was faulted, or whose executor was, when the
\* wake began does not run its normal item in that wake.  (A graph is not routed and
\* runs on.)
FaultedHalts == \A t \in halted : Kind[t] # "graph" => pending[t] # "run"

\* A cascade ends with the executor's fault: no task stays ExecutorFaulted when
\* the executor is running, although each is marked lazily, at its own dispatch.
CascadeScoped == execFault = None => \A t \in Tasks : taskFault[t] # "executor"

\* Faults are routed as they stand: a faulted task, or one whose executor is, does
\* not run its normal item, and a cascade ends with the fault of the executor.
FaultsRouted == FaultedHalts /\ CascadeScoped

\* Each fault is announced once between two clears, however many workers breach
\* a budget at the same time; the executor's is announced whenever it is set.
AnnouncedOnce ==
    /\ \A t \in Tasks : announced[t] <= 1
    /\ execAnnounced = IF execFault = None THEN 0 ELSE 1

\* REQ_0073: a task without a handler that is in its own fault state has been
\* reported through on_task_fault.  (A handler that breaches the budget during an
\* executor fault is not reported: its task was not Running.)
FaultVisible ==
    \A t \in Tasks \ Handled : taskFault[t] = "budget" => announced[t] >= 1

\* Every fault is announced, and once only.
FaultsAnnounced == AnnouncedOnce /\ FaultVisible

\* A call of stop is never lost, wherever it falls between the draining of the stop
\* listener and the test of the flag: the loop returns.
Stopping == stopper = "stopping"
Returned == pc = "idle"

\* A fault that is stored is the fault that is read: its kind, when it happened
\* (saturated), and how long the item took as long as that fits its field; a
\* fault never reads as Running (pack, unpack).
FaultSurvives(f) ==
    LET read == unpack(pack(f))
    IN  /\ read.state = f.state
        /\ f.state # "Running" => read.since = since_ms(f)
        /\ took_ms(f) < 2^TookBits => read.took = took_ms(f)
=============================================================================
