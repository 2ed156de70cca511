--------------------------- MODULE ExecutorBinding ---------------------------
(***************************************************************************)
(* The executor binding of the diagnostics stack: one task's slot of       *)
(* relaxed atomics, written by the executor's hooks and read by the        *)
(* gateway (crates/taktora-medkit-binding-executor/src/lib.rs).  A writer  *)
(* is a thread that executes the task: one for a single item or a chain,   *)
(* one per vertex that runs at the same time for a graph, whose vertices   *)
(* all report under the graph's task id.  Every atomic access is a step.   *)
(* The order of the hooks is that of the executor's jobs.                  *)
(***************************************************************************)
EXTENDS Integers, FiniteSets, TLC

CONSTANTS
    Writers,
    Tooks,             \* execution times, in nanoseconds
    Sentinel,          \* u64::MAX, the minimum before the first execution
    MaxRuns

VARIABLES
    slot,              \* the TaskSlot
    executor,          \* executor_up, executor_faulted
    run,               \* per writer, where its execution is
    runs, past         \* history: executions begun; times of those recorded

vars == <<slot, executor, run, runs, past>>

Idle == [pc |-> "idle", took |-> 0, ok |-> TRUE, read |-> 0]

(* TaskSlot::new, ExecutorBinding::with_tasks *)
Init ==
    /\ slot = [state |-> "unknown", starts |-> 0, stops |-> 0, errors |-> 0, executions |-> 0,
               last |-> 0, ewma |-> 0, min |-> Sentinel, max |-> 0]
    /\ executor = [up |-> FALSE, faulted |-> FALSE]
    /\ run = [w \in Writers |-> Idle]
    /\ runs = 0 /\ past = {}

At(w, pc) == run[w].pc = pc

Go(w, pc) == run' = [run EXCEPT ![w].pc = pc]

-----------------------------------------------------------------------------
(* Executor hooks. *)

on_executor_up ==
    /\ ~ executor.up /\ executor' = [executor EXCEPT !.up = TRUE]
    /\ UNCHANGED <<slot, run, runs, past>>

(* on_executor_down, or on_executor_error. *)
on_executor_down ==
    /\ executor.up /\ \A w \in Writers : At(w, "idle")
    /\ \/ executor' = [executor EXCEPT !.up = FALSE]
       \/ executor' = [up |-> FALSE, faulted |-> TRUE]
    /\ UNCHANGED <<slot, run, runs, past>>

on_executor_fault ==
    /\ executor.up /\ ~ executor.faulted
    /\ executor' = [executor EXCEPT !.faulted = TRUE]
    /\ UNCHANGED <<slot, run, runs, past>>

(* clear_executor_fault clears the tasks too. *)
on_executor_clear ==
    /\ executor.faulted /\ \A w \in Writers : At(w, "idle")
    /\ executor' = [executor EXCEPT !.faulted = FALSE]
    /\ slot' = [slot EXCEPT !.state = "running"]
    /\ UNCHANGED <<run, runs, past>>

-----------------------------------------------------------------------------
(* One execution: on_app_start, record_took, and the outcome. *)

on_app_start(w) ==
    /\ executor.up /\ At(w, "idle") /\ runs < MaxRuns
    /\ slot' = [slot EXCEPT !.starts = @ + 1, !.state = "running"]
    /\ \E t \in Tooks, ok \in BOOLEAN :
          run' = [run EXCEPT ![w] = [pc |-> "count", took |-> t, ok |-> ok, read |-> 0]]
    /\ runs' = runs + 1
    /\ UNCHANGED <<executor, past>>

(* executions.fetch_add and last_took_ns.store *)
Count(w) ==
    /\ At(w, "count")
    /\ run' = [run EXCEPT ![w].pc = "min", ![w].read = slot.executions]
    /\ slot' = [slot EXCEPT !.executions = @ + 1, !.last = run[w].took]
    /\ past' = past \cup {run[w].took}
    /\ UNCHANGED <<executor, runs>>

(* The minimum and the maximum are loaded, compared and stored. *)
LoadMin(w) ==
    /\ At(w, "min")
    /\ Go(w, IF run[w].took < slot.min THEN "store_min" ELSE "max")
    /\ UNCHANGED <<slot, executor, runs, past>>

StoreMin(w) ==
    /\ At(w, "store_min") /\ Go(w, "max")
    /\ slot' = [slot EXCEPT !.min = run[w].took]
    /\ UNCHANGED <<executor, runs, past>>

LoadMax(w) ==
    /\ At(w, "max")
    /\ Go(w, IF run[w].took > slot.max THEN "store_max" ELSE "ewma")
    /\ UNCHANGED <<slot, executor, runs, past>>

StoreMax(w) ==
    /\ At(w, "store_max") /\ Go(w, "ewma")
    /\ slot' = [slot EXCEPT !.max = run[w].took]
    /\ UNCHANGED <<executor, runs, past>>

(* old - old/8 + took/8, or the first time itself. *)
Ewma(prior, old, took) == IF prior = 0 THEN took ELSE old - (old \div 8) + (took \div 8)

LoadEwma(w) ==
    /\ At(w, "ewma")
    /\ run' = [run EXCEPT ![w].pc = "store_ewma", ![w].read = Ewma(@, slot.ewma, run[w].took)]
    /\ UNCHANGED <<slot, executor, runs, past>>

StoreEwma(w) ==
    /\ At(w, "store_ewma")
    /\ slot' = [slot EXCEPT !.ewma = run[w].read]
    /\ Go(w, IF run[w].ok THEN "stop" ELSE "error")
    /\ UNCHANGED <<executor, runs, past>>

(* post_execute counts a failed execution, and on_app_error counts it. *)
on_app_error(w) ==
    /\ At(w, "error") /\ Go(w, "stop")
    /\ slot' = [slot EXCEPT !.errors = @ + 2, !.state = "error"]
    /\ UNCHANGED <<executor, runs, past>>

(* A stop does not hide an error. *)
on_app_stop(w) ==
    /\ At(w, "stop")
    /\ run' = [run EXCEPT ![w] = Idle]
    /\ slot' = [slot EXCEPT !.stops = @ + 1, !.state = IF @ = "running" THEN "stopped" ELSE @]
    /\ UNCHANGED <<executor, runs, past>>

Next ==
    \/ on_executor_up \/ on_executor_down \/ on_executor_fault \/ on_executor_clear
    \/ \E w \in Writers :
          \/ on_app_start(w) \/ Count(w) \/ LoadMin(w) \/ StoreMin(w) \/ LoadMax(w) \/ StoreMax(w)
          \/ LoadEwma(w) \/ StoreEwma(w) \/ on_app_error(w) \/ on_app_stop(w)

Spec == Init /\ [][Next]_vars

-----------------------------------------------------------------------------
(* app_data: what the gateway shows of the slot. *)
app_data ==
    [online |-> slot.state = "running", last |-> slot.last, ewma |-> slot.ewma,
     min |-> IF slot.executions = 0 THEN 0 ELSE slot.min, max |-> slot.max]

health == IF slot.state = "error" THEN "Error" ELSE "Ok"

Quiet == \A w \in Writers : At(w, "idle")

(* Between executions the timing that the gateway shows is exact: the      *)
(* shortest and the longest execution so far, with the last one and the    *)
(* smoothed one between them (record_took, "Exact minimum execution        *)
(* duration observed").                                                    *)
TimingExact ==
    (Quiet /\ past # {}) =>
        /\ app_data.min \in past /\ app_data.max \in past
        /\ \A t \in past : app_data.min <= t /\ t <= app_data.max
        /\ app_data.min <= app_data.ewma /\ app_data.ewma <= app_data.max
        /\ app_data.min <= app_data.last /\ app_data.last <= app_data.max
==============================================================================
