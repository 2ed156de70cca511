--------------------------- MODULE ExecutorProofs ---------------------------
(***************************************************************************)
(* The executor starts a task once in a wake and records its cycle, loses  *)
(* no error, routes faults as they stand and announces each once: for any  *)
(* task table, any triggers, any number of workers and any mode of run.    *)
(***************************************************************************)
EXTENDS Executor, TLAPS

Faults == {"running", "budget", "executor"}

JobLocals == [main : BOOLEAN, item : Nat, breach : SUBSET {"task", "iteration"},
              res : {"ok", "stop_chain", "err"}]

Types ==
    /\ conf \in Configurations
    /\ pc \in {"idle", "wait", "callback", "grid", "after"}
    /\ result \in {"normal", "interrupt", "termination", "error"}
    /\ due \subseteq Cyclic
    /\ target \in Tasks \cup {None}
    /\ seen \in [exec : BOOLEAN, task : Faults]
    /\ pending \in [Tasks -> {"none", "run", "faulted"}]
    /\ job \in [Tasks -> {"idle", "queued", "item", "overrun", "swap_task",
                          "store_idx", "swap_exec", "finish"}]
    /\ run \in [Tasks -> JobLocals]
    /\ took \in [Tasks -> BOOLEAN]
    /\ iterErr \in Tasks \cup {None} /\ errs \subseteq Tasks
    /\ taskFault \in [Tasks -> Faults] /\ execFault \in Tasks \cup {None}
    /\ announced \in [Tasks -> Nat] /\ execAnnounced \in Nat
    /\ starts \in [Tasks -> Nat] /\ records \in [Tasks -> Nat]
    /\ triggered \subseteq Tasks /\ halted \subseteq Tasks

InWake == pc \in {"callback", "grid"}

(* Jobs exist only between a wake and its barrier, and only of tasks that  *)
(* were dispatched in it.  What handle_fault_routing has loaded of the     *)
(* task it is about to route still holds: no job of that task is running.  *)
Phases ==
    /\ ~InWake => target = None /\ \A t \in Tasks : job[t] = "idle" /\ pending[t] = "none"
    /\ pc # "callback" => fired = {}
    /\ pc # "grid" => due = {}
    /\ \A t \in Tasks : pending[t] = "none" => job[t] = "idle"
    /\ target # None =>
          /\ pending[target] = "none" /\ Kind[target] # "graph"
          /\ seen.task = taskFault[target]
          /\ seen.exec => execFault # None

(* A task is dispatched when one of its triggers has fired, and started    *)
(* when it was dispatched.                                                 *)
Records ==
    /\ \A t \in Tasks : starts[t] <= 1
    /\ InWake => \A t \in Tasks :
          /\ records[t] = 0
          /\ pending[t] = "none" => starts[t] = 0
          /\ t \in triggered <=> pending[t] # "none" \/ target = t
    /\ pc = "after" => \A t \in Tasks :
          records[t] = IF t \in triggered \cap Cyclic THEN 1 ELSE 0

(* A cyclic task has a sample when its main item has run in this wake.     *)
Samples ==
    \A t \in Cyclic :
        /\ ~InWake => ~took[t]
        /\ job[t] = "idle" => (took[t] <=> pending[t] = "run" /\ Kind[t] # "graph")
        /\ job[t] # "idle" => /\ ~took[t] /\ Kind[t] # "graph"
                              /\ run[t].main <=> pending[t] = "run"

(* The slot holds an error when there was one, and a wake that dispatches  *)
(* nothing has none.                                                       *)
Errors ==
    /\ pc # "idle" /\ errs # {} => iterErr # None
    /\ pc # "idle" /\ pc # "wait" /\ result \in {"interrupt", "termination"} =>
          /\ fired = {} /\ due = {} /\ target = None /\ errs = {}
          /\ \A t \in Tasks : job[t] = "idle"
    /\ ErrorSurfaces

(* What was faulted when the wake began stays so until it ends.            *)
Halts ==
    /\ InWake => \A t \in halted : execFault # None \/ taskFault[t] # "running"
    /\ target # None /\ target \in halted => seen.exec \/ seen.task # "running"
    /\ FaultedHalts

(* A task that is not faulted has announced nothing.  Without a handler it *)
(* runs only when it is not faulted, so that no cascade hides its fault.   *)
Announced ==
    /\ \A t \in Tasks : taskFault[t] = "running" => announced[t] = 0
    /\ \A t \in Tasks \ Handled : job[t] # "idle" => taskFault[t] # "executor"
    /\ FaultsAnnounced

IInv ==
    /\ Types /\ Phases /\ Records /\ Samples /\ Errors /\ Halts
    /\ CascadeScoped /\ Announced

-----------------------------------------------------------------------------
LEMMA Configured ==
    ASSUME Types
    PROVE  Cyclic \subseteq Tasks /\ \A a \in Listeners : Owner[a] \in Tasks
BY ExecutorAssumption, Zenon DEF Types, IsConfiguration, Cyclic, Listeners, Owner

LEMMA InitIInv == Init => IInv
<1> SUFFICES ASSUME Init PROVE IInv
  OBVIOUS
<1>1. Types
  BY ExecutorAssumption, Zenon DEF Init, Types, Faults, Locals, JobLocals, Cyclic
<1>2. Cyclic \subseteq Tasks
  BY <1>1, Configured, Zenon
<1>3. Phases /\ Records /\ Samples
  BY <1>2, SMTT(60) DEF Init, Phases, InWake, Records, Samples
<1>4. Errors /\ Halts /\ CascadeScoped /\ Announced
  BY SMTT(60) DEF Init, InWake, Errors, ErrorSurfaces, Halts, FaultedHalts, CascadeScoped, Announced,
             FaultsAnnounced, AnnouncedOnce, FaultVisible
<1> QED BY <1>1, <1>3, <1>4, Zenon DEF IInv

(* Steps that touch nothing the invariant speaks of, except that an        *)
(* attachment was looked at or a due task was found dispatched already.    *)
Kept ==
    /\ fired' \subseteq fired /\ due' \subseteq due
    /\ UNCHANGED <<conf, pc, result, target, seen, outcome, pending, job, run, took, iterErr, errs>>
    /\ UNCHANGED <<taskFault, execFault, announced, execAnnounced>>
    /\ UNCHANGED <<triggered, starts, halted, records>>

LEMMA KeptStep ==
    ASSUME IInv, Kept
    PROVE  IInv'
<1> USE DEF IInv, Kept
<1>1. Types' /\ Phases'
  BY Zenon DEF Types, Phases, InWake, Cyclic, Kind
<1>2. Records' /\ Samples'
  BY Zenon DEF Records, Samples, InWake, Cyclic, Kind
<1>3. Errors'
  BY Zenon DEF Errors, ErrorSurfaces
<1>4. Halts' /\ CascadeScoped'
  BY Zenon DEF Halts, InWake, FaultedHalts, Kind, CascadeScoped
<1>5. Announced'
  BY Zenon DEF Announced, FaultsAnnounced, AnnouncedOnce, FaultVisible, Handled
<1> QED BY <1>1, <1>2, <1>3, <1>4, <1>5, Zenon

-----------------------------------------------------------------------------
(* The owner of the executor: everything is at rest. *)
LEMMA EnterStep ==
    ASSUME IInv, Enter
    PROVE  IInv'
<1> USE DEF IInv
<1>1. /\ pc = "idle" /\ pc' = "wait" /\ errs' = {}
      /\ UNCHANGED <<conf, result, fired, due, target, seen, job, run, took, taskFault, execFault,
                     announced, execAnnounced, triggered, starts, halted, records>>
      /\ pending' = [t \in Tasks |-> "none"] /\ iterErr' = None
  BY Zenon DEF Enter, faultVars
<1>2. pending' = pending
  BY <1>1, Zenon DEF Types, Phases, InWake
<1>3. Types' /\ Phases'
  BY <1>1, <1>2, Zenon DEF Types, Phases, InWake, Cyclic, Kind
<1>4. Records' /\ Samples'
  BY <1>1, <1>2, Zenon DEF Records, Samples, InWake, Cyclic, Kind
<1>5. Errors'
  BY <1>1, Zenon DEF Errors, ErrorSurfaces
<1>6. Halts' /\ CascadeScoped'
  BY <1>1, <1>2, Zenon DEF Halts, InWake, FaultedHalts, Kind, CascadeScoped
<1>7. Announced'
  BY <1>1, Zenon DEF Announced, FaultsAnnounced, AnnouncedOnce, FaultVisible, Handled
<1> QED BY <1>3, <1>4, <1>5, <1>6, <1>7, Zenon

LEMMA EnterRejectedStep ==
    ASSUME IInv, EnterRejected
    PROVE  IInv'
<1> USE DEF IInv
<1>1. /\ pc = "idle" /\ pc' = pc /\ errs' = {}
      /\ UNCHANGED <<conf, result, fired, due, target, seen, pending, job, run, took, iterErr,
                     taskFault, execFault, announced, execAnnounced, triggered, starts, halted,
                     records>>
  BY Zenon DEF EnterRejected, faultVars, wakeVars
<1>2. Types' /\ Phases'
  BY <1>1, Zenon DEF Types, Phases, InWake, Cyclic, Kind
<1>3. Records' /\ Samples'
  BY <1>1, Zenon DEF Records, Samples, InWake, Cyclic, Kind
<1>4. Errors'
  BY <1>1, Zenon DEF Errors, ErrorSurfaces
<1>5. Halts' /\ CascadeScoped'
  BY <1>1, Zenon DEF Halts, InWake, FaultedHalts, Kind, CascadeScoped
<1>6. Announced'
  BY <1>1, Zenon DEF Announced, FaultsAnnounced, AnnouncedOnce, FaultVisible, Handled
<1> QED BY <1>2, <1>3, <1>4, <1>5, <1>6, Zenon

(* A clear: a task that is cleared has announced nothing since. *)
Cleared ==
    /\ taskFault' \in [Tasks -> Faults] /\ announced' \in [Tasks -> Nat]
    /\ \A t \in Tasks : \/ taskFault'[t] = "running" /\ announced'[t] = 0
                        \/ taskFault'[t] = taskFault[t] /\ announced'[t] = announced[t]
    /\ \/ execFault' = execFault /\ execAnnounced' = execAnnounced
       \/ /\ execFault' = None /\ execAnnounced' = 0
          /\ \A t \in Tasks : taskFault'[t] # "executor"

LEMMA ClearStep ==
    ASSUME IInv, ClearExecutorFault \/ \E t \in Tasks : ClearTaskFault(t)
    PROVE  IInv'
<1> USE DEF IInv
<1>1. /\ pc = "idle"
      /\ UNCHANGED <<conf, pc, result, fired, due, target, seen, outcome, pending, job, run, took,
                     iterErr, errs, triggered, starts, halted, records>>
  BY Zenon DEF ClearExecutorFault, ClearTaskFault, loopVars, jobVars, wakeVars
<1>2. Cleared
  <2>1. CASE ClearExecutorFault
    BY <2>1, Zenon DEF ClearExecutorFault, Cascaded, Cleared, Types, Faults
  <2>2. ASSUME NEW t \in Tasks, ClearTaskFault(t) PROVE Cleared
    BY <2>2, Zenon DEF ClearTaskFault, Cleared, Types, Faults
  <2> QED BY <2>1, <2>2, Zenon
<1>3. Types' /\ Phases'
  BY <1>1, <1>2, ExecutorAssumption, SMTT(60) DEF Cleared, Types, Phases, InWake, Cyclic, Kind
<1>4. Records' /\ Samples'
  BY <1>1, Zenon DEF Records, Samples, InWake, Cyclic, Kind
<1>5. Errors'
  BY <1>1, Zenon DEF Errors, ErrorSurfaces
<1>6. Halts' /\ CascadeScoped'
  BY <1>1, <1>2, Zenon DEF Cleared, Phases, Halts, InWake, FaultedHalts, Kind, CascadeScoped
<1>7. Announced'
  BY <1>1, <1>2, SMTT(60) DEF Cleared, Announced, FaultsAnnounced, AnnouncedOnce, FaultVisible,
                         Handled, Phases, InWake, Types
<1> QED BY <1>3, <1>4, <1>5, <1>6, <1>7, Zenon

-----------------------------------------------------------------------------
(* A wake: what is faulted now is what halts in it. *)
LEMMA WakeStep ==
    ASSUME IInv, NEW r \in {"normal", "interrupt", "termination", "error"},
           NEW A \in SUBSET Attachments, Wake(r, A)
    PROVE  IInv'
<1> USE DEF IInv
<1>1. /\ pc = "wait" /\ pc' = "callback" /\ result' = r /\ fired' = A
      /\ r # "normal" => A = {}
      /\ UNCHANGED <<conf, due, target, seen, outcome, pending, job, run, took, iterErr, errs,
                     taskFault, execFault, announced, execAnnounced>>
  BY Zenon DEF Wake, jobVars, faultVars
<1>2. /\ triggered' = {} /\ starts' = [t \in Tasks |-> 0] /\ records' = [t \in Tasks |-> 0]
      /\ halted' = {t \in Tasks : execFault # None \/ taskFault[t] # "running"}
  BY Zenon DEF Wake
<1>3. target = None /\ due = {} /\ \A t \in Tasks : job[t] = "idle" /\ pending[t] = "none"
  BY <1>1, Zenon DEF Phases, InWake
<1>4. Types' /\ Phases'
  BY <1>1, <1>2, <1>3, Zenon DEF Types, Phases, InWake, Cyclic
<1>5. Records'
  BY <1>1, <1>2, <1>3, ExecutorAssumption, SMTT(60) DEF Records, InWake
<1>6. Samples'
  BY <1>1, <1>3, Configured, Zenon DEF Samples, InWake, Cyclic, Kind
<1>7. Errors'
  BY <1>1, <1>3, Zenon DEF Errors, ErrorSurfaces
<1>8. Halts' /\ CascadeScoped'
  BY <1>1, <1>2, <1>3, Zenon DEF Halts, InWake, FaultedHalts, Kind, CascadeScoped
<1>9. Announced'
  BY <1>1, Zenon DEF Announced, FaultsAnnounced, AnnouncedOnce, FaultVisible, Handled
<1> QED BY <1>4, <1>5, <1>6, <1>7, <1>8, <1>9, Zenon

(* dispatch_task on a task that is fresh in this wake, or is not. *)
LEMMA DispatchStep ==
    ASSUME IInv, InWake, target = None, result \notin {"interrupt", "termination"},
           NEW t \in Tasks, Dispatch(t), fired' \subseteq fired, due' \subseteq due,
           UNCHANGED <<conf, pc, result, outcome, faultVars, halted, records>>
    PROVE  IInv'
<1> USE DEF IInv
<1>1. /\ UNCHANGED <<conf, pc, result, outcome, job, run, took, taskFault, execFault, announced,
                     execAnnounced, halted, records>>
      /\ triggered' = triggered \cup {t}
  BY Zenon DEF Dispatch, faultVars, jobVars
<1>2. CASE ~Fresh(t)
  <2>1. UNCHANGED <<target, seen, pending, job, run, took, iterErr, errs, starts>>
    BY <1>2, Zenon DEF Dispatch, jobVars
  <2>2. triggered' = triggered
    BY <1>1, <1>2, Zenon DEF Fresh, Records
  <2> QED BY <1>1, <2>1, <2>2, KeptStep, Zenon DEF Kept
<1>3. CASE Fresh(t) /\ Kind[t] # "graph"
  <2>1. /\ target' = t /\ pending[t] = "none"
        /\ seen' = [exec |-> execFault # None, task |-> taskFault[t]]
        /\ UNCHANGED <<pending, iterErr, errs, starts>>
    BY <1>3, Zenon DEF Dispatch, Fresh, jobVars
  <2>2. /\ seen' \in [exec : BOOLEAN, task : Faults]
        /\ seen'.exec <=> execFault # None
        /\ seen'.task = taskFault[t]
    BY <2>1, Zenon DEF Types
  <2>3. Types'
    BY <1>1, <2>1, <2>2, Zenon DEF Types, Cyclic
  <2>4. Phases'
    BY <1>1, <1>3, <2>1, <2>2, ExecutorAssumption, Zenon DEF Phases, InWake, Kind
  <2>5. Records' /\ Samples'
    BY <1>1, <2>1, ExecutorAssumption, Zenon DEF Types, Records, Samples, InWake, Cyclic, Kind
  <2>6. Errors'
    BY <1>1, <2>1, Zenon DEF InWake, Errors, ErrorSurfaces
  <2>7. Halts' /\ CascadeScoped'
    BY <1>1, <2>1, <2>2, Zenon DEF Halts, InWake, FaultedHalts, Kind, CascadeScoped
  <2>8. Announced'
    BY <1>1, <2>1, Zenon DEF Announced, FaultsAnnounced, AnnouncedOnce, FaultVisible, Handled
  <2> QED BY <2>3, <2>4, <2>5, <2>6, <2>7, <2>8, Zenon
<1>4. CASE Fresh(t) /\ Kind[t] = "graph"
  <2>1. /\ pending[t] = "none" /\ pending' = [pending EXCEPT ![t] = "run"]
        /\ starts' = [starts EXCEPT ![t] = @ + 1]
        /\ UNCHANGED <<target, seen>>
        /\ \/ UNCHANGED <<iterErr, errs>>
           \/ /\ iterErr' = IF iterErr = None THEN t ELSE iterErr
              /\ errs' = errs \cup {t}
    BY <1>4, Zenon DEF Dispatch, Fresh
  <2>2. Types'
    BY <1>1, <2>1, SMTT(60) DEF Types, Cyclic
  <2>3. Phases'
    BY <1>1, <2>1, Zenon DEF Types, Phases, InWake
  <2>4. Records'
    BY <1>1, <2>1, SMTT(60) DEF Types, Records, InWake, Cyclic
  <2>5. Samples'
    BY <1>1, <1>4, <2>1, Configured, Zenon DEF Types, Phases, Samples, InWake, Cyclic, Kind
  <2>6. Errors'
    BY <1>1, <2>1, ExecutorAssumption, Zenon DEF InWake, Errors, ErrorSurfaces
  <2>7. Halts' /\ CascadeScoped'
    BY <1>1, <1>4, <2>1, Zenon DEF Types, Halts, InWake, FaultedHalts, Kind, CascadeScoped
  <2>8. Announced'
    BY <1>1, Zenon DEF Announced, FaultsAnnounced, AnnouncedOnce, FaultVisible, Handled
  <2> QED BY <2>2, <2>3, <2>4, <2>5, <2>6, <2>7, <2>8, Zenon
<1> QED BY <1>2, <1>3, <1>4, Zenon

LEMMA ProcessAttachmentStep ==
    ASSUME IInv, NEW a \in Attachments, ProcessAttachment(a)
    PROVE  IInv'
<1>1. /\ pc = "callback" /\ target = None /\ a \in fired /\ fired' \subseteq fired
      /\ UNCHANGED <<conf, pc, result, due, outcome, faultVars, halted, records>>
  BY Zenon DEF ProcessAttachment
<1>2. CASE a \in Listeners /\ Dispatch(Owner[a])
  <2>1. Owner[a] \in Tasks
    BY <1>2, Configured, Zenon DEF IInv
  <2>2. result \notin {"interrupt", "termination"}
    BY <1>1, Zenon DEF IInv, Errors
  <2> QED BY <1>1, <1>2, <2>1, <2>2, DispatchStep, Zenon DEF InWake
<1>3. CASE UNCHANGED <<target, seen, pending, jobVars, starts, triggered>>
  BY <1>1, <1>3, KeptStep, Zenon DEF Kept, faultVars, jobVars
<1> QED BY <1>2, <1>3, Zenon DEF ProcessAttachment

LEMMA DispatchCyclicStep ==
    ASSUME IInv, DispatchCyclic
    PROVE  IInv'
<1>1. /\ pc = "grid" /\ target = None
      /\ UNCHANGED <<conf, pc, result, fired, outcome, faultVars, halted, records>>
  BY Zenon DEF DispatchCyclic
<1>2. PICK t \in due : due' = due \ {t} /\ Dispatch(t)
  BY Zenon DEF DispatchCyclic
<1>3. t \in Tasks
  BY Configured, Zenon DEF IInv, Types
<1>4. result \notin {"interrupt", "termination"}
  BY <1>1, Zenon DEF IInv, Errors
<1> QED BY <1>1, <1>2, <1>3, <1>4, DispatchStep, Zenon DEF InWake

(* A record of Boolean fields is typed by its constructor alone. *)
LEMMA LocalsTyped ==
    ASSUME NEW m \in BOOLEAN, NEW i \in Nat, NEW B \in SUBSET {"task", "iteration"},
           NEW r \in {"ok", "stop_chain", "err"}
    PROVE  /\ Locals(m, i, B, r) \in JobLocals
           /\ Locals(m, i, B, r).main <=> m
           /\ Locals(m, i, B, r).breach = B
BY Zenon DEF Locals, JobLocals

(* The rest of dispatch_task: what it has loaded still holds. *)
LEMMA RouteStep ==
    ASSUME IInv, Route
    PROVE  IInv'
<1> USE DEF IInv
<1>1. PICK t \in Tasks : t = target
  BY Zenon DEF Route, Types
<1> DEFINE faulted == seen.exec \/ seen.task # "running"
<1>2. /\ pc \in {"callback", "grid"} /\ target # None /\ target' = None
      /\ UNCHANGED <<conf, pc, result, fired, due, seen, outcome, took, iterErr, errs, execFault,
                     announced, execAnnounced, triggered, halted, records>>
  BY Zenon DEF Route
<1>3. /\ pending[t] = "none" /\ job[t] = "idle" /\ Kind[t] # "graph"
      /\ seen.task = taskFault[t] /\ (seen.exec => execFault # None)
      /\ t \in halted => faulted
  BY <1>1, <1>2, Zenon DEF Phases, Halts
<1>4. /\ taskFault' \in [Tasks -> Faults]
      /\ \A u \in Tasks : u # t => taskFault'[u] = taskFault[u]
      /\ \/ taskFault'[t] = taskFault[t]
         \/ taskFault[t] = "running" /\ taskFault'[t] = "executor" /\ seen.exec
  <2>1. \/ seen.exec /\ seen.task = "running" /\ taskFault' = [taskFault EXCEPT ![t] = "executor"]
        \/ taskFault' = taskFault
    BY <1>1, Zenon DEF Route
  <2> QED BY <1>3, <2>1, Zenon DEF Types, Faults
<1>5. /\ pending' \in [Tasks -> {"none", "run", "faulted"}]
      /\ pending'[t] = IF faulted THEN "faulted" ELSE "run"
      /\ \A u \in Tasks : u # t => pending'[u] = pending[u]
  BY <1>1, Zenon DEF Route, RoutedFaulted, Types
<1>6. \/ UNCHANGED <<job, run, starts>> /\ faulted /\ t \notin Handled
      \/ /\ starts' = [starts EXCEPT ![t] = @ + 1] /\ job' = [job EXCEPT ![t] = "queued"]
         /\ \/ run' = [run EXCEPT ![t] = Locals(TRUE, 1, {}, "ok")] /\ ~faulted
            \/ run' = [run EXCEPT ![t] = Locals(FALSE, 1, {}, "ok")] /\ faulted /\ t \in Handled
  BY <1>1, Zenon DEF Route, RoutedFaulted, Submit
<1> HIDE DEF faulted
<1>7. /\ starts' \in [Tasks -> Nat]
      /\ \A u \in Tasks : u # t => starts'[u] = starts[u]
      /\ starts'[t] \in {starts[t], starts[t] + 1}
  <2>1. starts' = starts \/ starts' = [starts EXCEPT ![t] = @ + 1]
    BY <1>6, Zenon
  <2> QED BY <2>1, SMTT(60) DEF Types
<1>8. /\ job' \in [Tasks -> {"idle", "queued", "item", "overrun", "swap_task",
                          "store_idx", "swap_exec", "finish"}]
      /\ \A u \in Tasks : u # t => job'[u] = job[u]
      /\ \/ job'[t] = "idle" /\ faulted
         \/ job'[t] = "queued" /\ (~faulted \/ t \in Handled)
  <2>1. \/ job' = job /\ faulted
        \/ job' = [job EXCEPT ![t] = "queued"] /\ (~faulted \/ t \in Handled)
    BY <1>6, Zenon
  <2> QED BY <1>3, <2>1, Zenon DEF Types
<1>9. /\ run' \in [Tasks -> JobLocals]
      /\ \A u \in Tasks : u # t => run'[u] = run[u]
      /\ job'[t] = "queued" => (run'[t].main <=> ~faulted)
  <2>1. CASE job' = job /\ run' = run
    BY <1>3, <2>1, Zenon DEF Types
  <2>2. CASE run' = [run EXCEPT ![t] = Locals(TRUE, 1, {}, "ok")] /\ ~faulted
    <3>1. Locals(TRUE, 1, {}, "ok") \in JobLocals /\ Locals(TRUE, 1, {}, "ok").main
      BY LocalsTyped, Zenon
    <3> QED BY <2>2, <3>1, Zenon DEF Types
  <2>3. CASE run' = [run EXCEPT ![t] = Locals(FALSE, 1, {}, "ok")] /\ faulted
    <3>1. Locals(FALSE, 1, {}, "ok") \in JobLocals /\ ~Locals(FALSE, 1, {}, "ok").main
      BY LocalsTyped, Zenon
    <3> QED BY <2>3, <3>1, Zenon DEF Types
  <2> QED BY <1>6, <2>1, <2>2, <2>3, Zenon
<1>10. Types'
  BY <1>2, <1>4, <1>5, <1>7, <1>8, <1>9, Zenon DEF Types, Cyclic
<1>11. Phases'
  BY <1>1, <1>2, <1>3, <1>5, <1>8, Zenon DEF Types, Phases, InWake, Kind
<1>12. Records'
  BY <1>1, <1>2, <1>3, <1>5, <1>7, ExecutorAssumption, SMTT(60) DEF Types, Records, InWake, Cyclic
<1>13. Samples'
  BY <1>2, <1>3, <1>5, <1>8, <1>9, Configured, SMTT(60) DEF Samples, InWake, Cyclic, Kind
<1>14. Errors'
  BY <1>2, Zenon DEF Errors, ErrorSurfaces
<1>15. Halts'
  BY <1>1, <1>2, <1>3, <1>4, <1>5, Zenon DEF Types, Halts, InWake, FaultedHalts, Kind
<1>16. CascadeScoped'
  BY <1>2, <1>3, <1>4, Zenon DEF CascadeScoped
<1>17. Announced'
  BY <1>2, <1>3, <1>4, <1>8, SMTT(60) DEF Types, Announced, FaultsAnnounced, AnnouncedOnce,
                                     FaultVisible, Handled, faulted
<1> QED BY <1>10, <1>11, <1>12, <1>13, <1>14, <1>15, <1>16, <1>17, Zenon

LEMMA GridPassStep ==
    ASSUME IInv, NEW D \in SUBSET Cyclic, GridPass(D)
    PROVE  IInv'
<1> USE DEF IInv
<1>1. /\ pc = "callback" /\ pc' = "grid" /\ fired = {} /\ target = None /\ due' = D
      /\ result \in {"interrupt", "termination"} => D = {}
      /\ UNCHANGED <<conf, result, fired, target, seen, outcome, pending, job, run, took, iterErr,
                     errs, taskFault, execFault, announced, execAnnounced, triggered, starts,
                     halted, records>>
  BY Zenon DEF GridPass, jobVars, faultVars, wakeVars
<1>2. Types' /\ Phases'
  BY <1>1, Zenon DEF Types, Phases, InWake, Cyclic
<1>3. Records' /\ Samples'
  BY <1>1, Zenon DEF Records, Samples, InWake, Cyclic, Kind
<1>4. Errors'
  BY <1>1, Zenon DEF Errors, ErrorSurfaces
<1>5. Halts' /\ CascadeScoped'
  BY <1>1, Zenon DEF Halts, InWake, FaultedHalts, Kind, CascadeScoped
<1>6. Announced'
  BY <1>1, Zenon DEF Announced, FaultsAnnounced, AnnouncedOnce, FaultVisible, Handled
<1> QED BY <1>2, <1>3, <1>4, <1>5, <1>6, Zenon

LEMMA BarrierAndRecordStep ==
    ASSUME IInv, BarrierAndRecord
    PROVE  IInv'
<1> USE DEF IInv
<1>1. /\ pc = "grid" /\ due = {} /\ target = None /\ pc' = "after"
      /\ \A t \in Tasks : job[t] = "idle"
      /\ UNCHANGED <<conf, result, fired, due, target, seen, outcome, job, run, iterErr, errs,
                     taskFault, execFault, announced, execAnnounced, triggered, starts, halted>>
  BY Zenon DEF BarrierAndRecord, Quiescent, AllIdle, faultVars
<1>2. /\ records' = [t \in Tasks |->
                       IF t \in Cyclic /\ pending[t] # "none" THEN records[t] + 1 ELSE records[t]]
      /\ pending' = [t \in Tasks |-> "none"]
  BY Zenon DEF BarrierAndRecord
<1>3. /\ took' \in [Tasks -> BOOLEAN]
      /\ \A t \in Cyclic : took'[t] <=> pending[t] = "none" /\ took[t]
  <2>1. took' = [t \in Tasks |-> IF t \in Cyclic /\ pending[t] # "none" THEN FALSE ELSE took[t]]
    BY Zenon DEF BarrierAndRecord, Folded
  <2>2. took' \in [Tasks -> BOOLEAN]
    BY <2>1, Zenon DEF Types
  <2> QED BY <2>1, <2>2, Configured, Zenon
<1>4. Types' /\ Phases'
  BY <1>1, <1>2, <1>3, SMTT(60) DEF Types, Phases, InWake, Cyclic
<1>5. Records'
  BY <1>1, <1>2, ExecutorAssumption, SMTT(60) DEF Records, InWake, Cyclic
<1>6. Samples'
  BY <1>1, <1>2, <1>3, Configured, Zenon DEF Samples, InWake, Cyclic, Kind
<1>7. Errors'
  BY <1>1, Zenon DEF Errors, ErrorSurfaces
<1>8. Halts' /\ CascadeScoped'
  BY <1>1, <1>2, Zenon DEF Types, Halts, InWake, FaultedHalts, Kind, CascadeScoped
<1>9. Announced'
  BY <1>1, Zenon DEF Announced, FaultsAnnounced, AnnouncedOnce, FaultVisible, Handled
<1> QED BY <1>4, <1>5, <1>6, <1>7, <1>8, <1>9, Zenon

LEMMA AfterCallbackStep ==
    ASSUME IInv, AfterCallback
    PROVE  IInv'
<1> USE DEF IInv
<1>1. /\ pc = "after"
      /\ UNCHANGED <<conf, result, fired, due, target, seen, pending, job, run, took, taskFault,
                     execFault, announced, execAnnounced, triggered, starts, halted, records>>
  BY Zenon DEF AfterCallback, faultVars, wakeVars
<1>2. /\ iterErr' \in {iterErr, None}
      /\ errs' = IF pc' = "wait" THEN {} ELSE errs
      /\ \/ pc' = "wait"
         \/ /\ pc' = "idle"
            /\ \/ outcome' = "waitset" /\ result = "error"
               \/ outcome' = "item"
               \/ result = "termination" \/ iterErr = None
  BY Zenon DEF AfterCallback, Leave, Continue, SlotError
<1>3. Types'
  BY <1>1, <1>2, Zenon DEF Types, Cyclic
<1>4. Phases' /\ Records' /\ Samples'
  BY <1>1, <1>2, Zenon DEF Phases, Records, Samples, InWake, Cyclic, Kind
<1>5. Errors'
  BY <1>1, <1>2, Zenon DEF Errors, ErrorSurfaces
<1>6. Halts' /\ CascadeScoped'
  BY <1>1, <1>2, Zenon DEF Halts, InWake, FaultedHalts, Kind, CascadeScoped
<1>7. Announced'
  BY <1>1, Zenon DEF Announced, FaultsAnnounced, AnnouncedOnce, FaultVisible, Handled
<1> QED BY <1>3, <1>4, <1>5, <1>6, <1>7, Zenon

-----------------------------------------------------------------------------
(* A worker takes a step of its job, which goes on; fault states of other  *)
(* tasks are left alone and nothing is cleared.                            *)
Works(t) ==
    /\ job[t] # "idle" /\ job'[t] # "idle"
    /\ job' \in [Tasks -> {"idle", "queued", "item", "overrun", "swap_task",
                           "store_idx", "swap_exec", "finish"}]
    /\ run' \in [Tasks -> JobLocals] /\ (run'[t].main <=> run[t].main)
    /\ \A u \in Tasks : u # t => job'[u] = job[u] /\ run'[u] = run[u]
    /\ taskFault' \in [Tasks -> Faults] /\ execFault' \in Tasks \cup {None}
    /\ announced' \in [Tasks -> Nat] /\ execAnnounced' \in Nat
    /\ \A u \in Tasks : u # t => taskFault'[u] = taskFault[u]
    /\ taskFault'[t] = "running" => taskFault[t] = "running"
    /\ execFault' = None => execFault = None
    /\ UNCHANGED <<conf, pc, result, fired, due, target, seen, outcome, pending, took>>
    /\ UNCHANGED <<triggered, starts, halted, records>>

LEMMA WorksStep ==
    ASSUME IInv, NEW t \in Tasks, Works(t), iterErr' \in Tasks \cup {None}, errs' \subseteq Tasks,
           errs' # {} => iterErr' # None
    PROVE  Types' /\ Phases' /\ Records' /\ Samples' /\ Errors' /\ Halts'
<1> USE DEF IInv, Works
<1>1. pc \in {"callback", "grid"} /\ pending[t] # "none" /\ target # t
  BY ExecutorAssumption, ZenonT(30) DEF Phases, InWake
<1>2. Types'
  BY Zenon DEF Types, Cyclic
<1>3. Phases'
  BY <1>1, Zenon DEF Types, Phases, InWake, Kind
<1>4. Records'
  BY Zenon DEF Records, InWake, Cyclic
<1>5. Samples'
  BY <1>1, Configured, Zenon DEF Samples, InWake, Cyclic, Kind
<1>6. Errors'
  BY <1>1, Zenon DEF Errors, ErrorSurfaces
<1>7. Halts'
  BY <1>1, Zenon DEF Types, Halts, InWake, FaultedHalts, Kind
<1> QED BY <1>2, <1>3, <1>4, <1>5, <1>6, <1>7, Zenon

(* The same for a step that leaves every fault state alone. *)
LEMMA GoesOnStep ==
    ASSUME IInv, NEW t \in Tasks, Works(t), iterErr' \in Tasks \cup {None}, errs' \subseteq Tasks,
           errs' # {} => iterErr' # None,
           UNCHANGED <<taskFault, execFault, announced, execAnnounced>>
    PROVE  IInv'
<1>1. Types' /\ Phases' /\ Records' /\ Samples' /\ Errors' /\ Halts'
  BY WorksStep, Zenon
<1>2. CascadeScoped'
  BY Zenon DEF IInv, CascadeScoped
<1>3. Announced'
  BY Zenon DEF IInv, Announced, FaultsAnnounced, AnnouncedOnce, FaultVisible, Handled, Works
<1> QED BY <1>1, <1>2, <1>3, Zenon DEF IInv

(* A job moves to label l and nothing else of its state changes. *)
LEMMA GotoMoves ==
    ASSUME IInv, NEW t \in Tasks, job[t] # "idle", UNCHANGED run,
           NEW l \in {"item", "overrun", "swap_task", "store_idx", "swap_exec", "finish"}, Goto(t, l)
    PROVE  /\ job'[t] # "idle"
           /\ job' \in [Tasks -> {"idle", "queued", "item", "overrun", "swap_task",
                                  "store_idx", "swap_exec", "finish"}]
           /\ run' \in [Tasks -> JobLocals] /\ (run'[t].main <=> run[t].main)
           /\ \A u \in Tasks : u # t => job'[u] = job[u] /\ run'[u] = run[u]
<1>1. job' = [job EXCEPT ![t] = l] /\ job \in [Tasks -> {"idle", "queued", "item", "overrun",
                         "swap_task", "store_idx", "swap_exec", "finish"}]
  BY Zenon DEF Goto, IInv, Types
<1>2. /\ job'[t] # "idle"
      /\ job' \in [Tasks -> {"idle", "queued", "item", "overrun", "swap_task",
                             "store_idx", "swap_exec", "finish"}]
      /\ \A u \in Tasks : u # t => job'[u] = job[u]
  BY <1>1, Zenon
<1> QED BY <1>2, Zenon DEF IInv, Types

LEMMA StartStep ==
    ASSUME IInv, NEW t \in Tasks, Start(t)
    PROVE  IInv'
<1>1. /\ job[t] = "queued" /\ Goto(t, "item")
      /\ UNCHANGED <<conf, pc, result, fired, due, target, seen, outcome, pending, run, took,
                     iterErr, errs, taskFault, execFault, announced, execAnnounced, triggered,
                     starts, halted, records>>
  BY Zenon DEF Start, loopVars, faultVars, wakeVars
<1>2. pc # "idle"
  BY <1>1, Zenon DEF IInv, Phases, InWake
<1>3. Works(t)
  BY <1>1, GotoMoves, Zenon DEF IInv, Types, Works
<1> QED BY <1>1, <1>2, <1>3, GoesOnStep, Zenon DEF IInv, Types, Errors

LEMMA ExecuteStep ==
    ASSUME IInv, NEW t \in Tasks, Execute(t)
    PROVE  IInv'
<1>1. /\ job[t] = "item" /\ job' = [job EXCEPT ![t] = "overrun"]
      /\ UNCHANGED <<conf, pc, result, fired, due, target, seen, outcome, pending, took,
                     iterErr, errs, taskFault, execFault, announced, execAnnounced, triggered,
                     starts, halted, records>>
  BY Zenon DEF Execute, Goto, loopVars, faultVars, wakeVars
<1>2. PICK B \in SUBSET {"task", "iteration"}, res \in {"ok", "stop_chain", "err"} :
          run' = [run EXCEPT ![t] = Locals(run[t].main, run[t].item, B, res)]
  BY Zenon DEF Execute, Breaches
<1>3. run \in [Tasks -> JobLocals] /\ run[t].main \in BOOLEAN /\ run[t].item \in Nat
  BY Zenon DEF IInv, Types, JobLocals
<1>4. /\ Locals(run[t].main, run[t].item, B, res) \in JobLocals
      /\ Locals(run[t].main, run[t].item, B, res).main <=> run[t].main
  BY <1>3, LocalsTyped, Zenon
<1>5. /\ run' \in [Tasks -> JobLocals] /\ (run'[t].main <=> run[t].main)
      /\ \A u \in Tasks : u # t => run'[u] = run[u]
  BY <1>2, <1>3, <1>4, Zenon
<1>6. /\ job'[t] # "idle"
      /\ job' \in [Tasks -> {"idle", "queued", "item", "overrun", "swap_task",
                             "store_idx", "swap_exec", "finish"}]
      /\ \A u \in Tasks : u # t => job'[u] = job[u]
  BY <1>1, Zenon DEF IInv, Types
<1>7. Works(t)
  BY <1>1, <1>5, <1>6, Zenon DEF IInv, Types, Works
<1>8. pc # "idle"
  BY <1>1, Zenon DEF IInv, Phases, InWake
<1> QED BY <1>1, <1>7, <1>8, GoesOnStep, Zenon DEF IInv, Types, Errors

LEMMA CountOverrunStep ==
    ASSUME IInv, NEW t \in Tasks, CountOverrun(t)
    PROVE  IInv'
<1>1. /\ job[t] = "overrun" /\ (Goto(t, "swap_task") \/ Goto(t, "store_idx"))
      /\ UNCHANGED <<conf, pc, result, fired, due, target, seen, outcome, pending, run, took,
                     iterErr, errs, taskFault, execFault, announced, execAnnounced, triggered,
                     starts, halted, records>>
  BY Zenon DEF CountOverrun, loopVars, wakeVars, Goto
<1>2. pc # "idle"
  BY <1>1, Zenon DEF IInv, Phases, InWake
<1>3. Works(t)
  BY <1>1, GotoMoves, Zenon DEF IInv, Types, Works
<1> QED BY <1>1, <1>2, <1>3, GoesOnStep, Zenon DEF IInv, Types, Errors

LEMMA StoreExecIdxStep ==
    ASSUME IInv, NEW t \in Tasks, StoreExecIdx(t)
    PROVE  IInv'
<1>1. /\ job[t] = "store_idx" /\ (Goto(t, "swap_exec") \/ Goto(t, "finish"))
      /\ UNCHANGED <<conf, pc, result, fired, due, target, seen, outcome, pending, run, took,
                     iterErr, errs, taskFault, execFault, announced, execAnnounced, triggered,
                     starts, halted, records>>
  BY Zenon DEF StoreExecIdx, loopVars, wakeVars, Goto
<1>2. pc # "idle"
  BY <1>1, Zenon DEF IInv, Phases, InWake
<1>3. Works(t)
  BY <1>1, GotoMoves, Zenon DEF IInv, Types, Works
<1> QED BY <1>1, <1>2, <1>3, GoesOnStep, Zenon DEF IInv, Types, Errors

(* Without a handler the task was running or had its own fault already. *)
LEMMA SwapTaskFaultStep ==
    ASSUME IInv, NEW t \in Tasks, SwapTaskFault(t)
    PROVE  IInv'
<1>1. /\ job[t] = "swap_task" /\ Goto(t, "store_idx")
      /\ UNCHANGED <<conf, pc, result, fired, due, target, seen, outcome, pending, run, took,
                     iterErr, errs, execFault, execAnnounced, triggered, starts, halted, records>>
  BY Zenon DEF SwapTaskFault, loopVars, wakeVars
<1>2. pc # "idle"
  BY <1>1, Zenon DEF IInv, Phases, InWake
<1>3. /\ taskFault' \in [Tasks -> Faults] /\ announced' \in [Tasks -> Nat]
      /\ taskFault'[t] = "budget"
      /\ \A u \in Tasks : u # t => taskFault'[u] = taskFault[u] /\ announced'[u] = announced[u]
      /\ announced'[t] = IF taskFault[t] = "running" THEN announced[t] + 1 ELSE announced[t]
  BY SMTT(60) DEF SwapTaskFault, Transition, IInv, Types, Faults
<1>4. /\ job'[t] # "idle"
      /\ job' \in [Tasks -> {"idle", "queued", "item", "overrun", "swap_task",
                             "store_idx", "swap_exec", "finish"}]
      /\ run' \in [Tasks -> JobLocals] /\ (run'[t].main <=> run[t].main)
      /\ \A u \in Tasks : u # t => job'[u] = job[u] /\ run'[u] = run[u]
  BY <1>1, GotoMoves, Zenon
<1>5. Works(t)
  BY <1>1, <1>3, <1>4, Zenon DEF IInv, Types, Works
<1>6. Types' /\ Phases' /\ Records' /\ Samples' /\ Errors' /\ Halts'
  BY <1>1, <1>2, <1>5, WorksStep, Zenon DEF IInv, Types, Errors
<1>7. CascadeScoped'
  BY <1>1, <1>3, Zenon DEF IInv, CascadeScoped
<1>8. Announced'
  BY <1>1, <1>3, <1>4, SMTT(60) DEF IInv, Types, Faults, Announced, FaultsAnnounced, AnnouncedOnce,
                               FaultVisible, Handled
<1> QED BY <1>6, <1>7, <1>8, Zenon DEF IInv

LEMMA SwapExecFaultStep ==
    ASSUME IInv, NEW t \in Tasks, SwapExecFault(t)
    PROVE  IInv'
<1>1. /\ job[t] = "swap_exec" /\ Goto(t, "finish") /\ execFault' = t
      /\ execAnnounced' = IF execFault = None THEN execAnnounced + 1 ELSE execAnnounced
      /\ UNCHANGED <<conf, pc, result, fired, due, target, seen, outcome, pending, run, took,
                     iterErr, errs, taskFault, announced, triggered, starts, halted, records>>
  BY Zenon DEF SwapExecFault, ExecTransition, loopVars, wakeVars
<1>2. pc # "idle" /\ t # None
  BY <1>1, ExecutorAssumption, Zenon DEF IInv, Phases, InWake
<1>3. /\ job'[t] # "idle"
      /\ job' \in [Tasks -> {"idle", "queued", "item", "overrun", "swap_task",
                             "store_idx", "swap_exec", "finish"}]
      /\ run' \in [Tasks -> JobLocals] /\ (run'[t].main <=> run[t].main)
      /\ \A u \in Tasks : u # t => job'[u] = job[u] /\ run'[u] = run[u]
  BY <1>1, GotoMoves, Zenon
<1>4. execAnnounced' \in Nat
  BY <1>1 DEF IInv, Types
<1>5. Works(t)
  BY <1>1, <1>2, <1>3, <1>4, Zenon DEF IInv, Types, Works
<1>6. Types' /\ Phases' /\ Records' /\ Samples' /\ Errors' /\ Halts'
  BY <1>1, <1>2, <1>5, WorksStep, Zenon DEF IInv, Types, Errors
<1>7. CascadeScoped'
  BY <1>1, <1>2, Zenon DEF CascadeScoped
<1>8. Announced'
  BY <1>1, <1>2, <1>3, SMTT(60) DEF IInv, Types, Announced, FaultsAnnounced, AnnouncedOnce,
                               FaultVisible, Handled
<1> QED BY <1>6, <1>7, <1>8, Zenon DEF IInv

(* The end of an item: its error is in the slot before the job is idle. *)
LEMMA FinishStep ==
    ASSUME IInv, NEW t \in Tasks, Finish(t)
    PROVE  IInv'
<1>1. /\ job[t] = "finish"
      /\ UNCHANGED <<conf, pc, result, fired, due, target, seen, outcome, pending, taskFault,
                     execFault, announced, execAnnounced, triggered, starts, halted, records>>
  BY Zenon DEF Finish, loopVars, faultVars, wakeVars
<1>2. /\ pc \in {"callback", "grid"} /\ pending[t] # "none" /\ target # t
      /\ result \notin {"interrupt", "termination"}
  BY <1>1, ExecutorAssumption, Zenon DEF IInv, Phases, Errors, InWake
<1>3. /\ iterErr' \in Tasks \cup {None} /\ errs' \subseteq Tasks
      /\ errs' # {} => iterErr' # None
  <2>1. \/ iterErr' = iterErr /\ errs' = errs
        \/ iterErr' = (IF iterErr = None THEN t ELSE iterErr) /\ errs' = errs \cup {t}
    BY Zenon DEF Finish
  <2> QED BY <1>2, <2>1, ExecutorAssumption, Zenon DEF IInv, Types, Errors
<1>4. run \in [Tasks -> JobLocals] /\ run[t] \in JobLocals
  BY Zenon DEF IInv, Types
<1>5. /\ run[t].main \in BOOLEAN /\ run[t].item \in Nat
      /\ run[t].breach \in SUBSET {"task", "iteration"} /\ run[t].res \in {"ok", "stop_chain", "err"}
  BY <1>4, Zenon DEF JobLocals
<1>6. CASE Goto(t, "item") /\ UNCHANGED took
           /\ run' = [run EXCEPT ![t] = Locals(@.main, @.item + 1, @.breach, @.res)]
  <2> DEFINE l == Locals(run[t].main, run[t].item + 1, run[t].breach, run[t].res)
  <2>1. l \in JobLocals /\ (l.main <=> run[t].main)
    <3>1. run[t].item + 1 \in Nat
      BY <1>5
    <3> QED BY <1>5, <3>1, LocalsTyped, Zenon
  <2>2. run' = [run EXCEPT ![t] = l]
    BY <1>4, <1>6, Zenon
  <2> HIDE DEF l
  <2>3. /\ run' \in [Tasks -> JobLocals] /\ (run'[t].main <=> run[t].main)
        /\ \A u \in Tasks : u # t => run'[u] = run[u]
    BY <1>4, <2>1, <2>2, Zenon
  <2>4. /\ job'[t] # "idle"
        /\ job' \in [Tasks -> {"idle", "queued", "item", "overrun", "swap_task",
                               "store_idx", "swap_exec", "finish"}]
        /\ \A u \in Tasks : u # t => job'[u] = job[u]
    BY <1>1, <1>6, Zenon DEF IInv, Types, Goto
  <2>5. Works(t)
    BY <1>1, <1>6, <2>3, <2>4, Zenon DEF IInv, Types, Works
  <2> QED BY <1>1, <1>3, <2>5, GoesOnStep, Zenon
<1>7. CASE Goto(t, "idle") /\ took' = (IF Sampled(t) THEN [took EXCEPT ![t] = TRUE] ELSE took)
           /\ run' = [run EXCEPT ![t] = Locals(@.main, 1, {}, "ok")]
  <2> DEFINE l == Locals(run[t].main, 1, {}, "ok")
  <2>1. l \in JobLocals
    BY <1>5, LocalsTyped, Zenon
  <2>2. run' = [run EXCEPT ![t] = l]
    BY <1>4, <1>7, Zenon
  <2> HIDE DEF l
  <2>3. run' \in [Tasks -> JobLocals] /\ \A u \in Tasks : u # t => run'[u] = run[u]
    BY <1>4, <2>1, <2>2, Zenon
  <2>4. /\ job'[t] = "idle"
        /\ job' \in [Tasks -> {"idle", "queued", "item", "overrun", "swap_task",
                               "store_idx", "swap_exec", "finish"}]
        /\ \A u \in Tasks : u # t => job'[u] = job[u]
    BY <1>1, <1>7, Zenon DEF IInv, Types, Goto
  <2>5. /\ took' \in [Tasks -> BOOLEAN]
        /\ took'[t] <=> took[t] \/ run[t].main
        /\ \A u \in Tasks : u # t => (took'[u] <=> took[u])
    <3>1. took \in [Tasks -> BOOLEAN]
      BY Zenon DEF IInv, Types
    <3> QED BY <1>7, <3>1, Zenon DEF Sampled
  <2>6. Types'
    BY <1>1, <1>3, <2>3, <2>4, <2>5, Zenon DEF IInv, Types, Cyclic
  <2>7. Phases'
    BY <1>1, <1>2, <2>4, Zenon DEF IInv, Types, Phases, InWake, Kind
  <2>8. Records'
    BY <1>1, Zenon DEF IInv, Records, InWake, Cyclic
  <2>9. Samples'
    BY <1>1, <1>2, <2>3, <2>4, <2>5, Configured DEF IInv, Samples, InWake, Cyclic, Kind
  <2>10. Errors'
    BY <1>1, <1>2, <1>3, Zenon DEF Errors, ErrorSurfaces
  <2>11. Halts' /\ CascadeScoped'
    BY <1>1, Zenon DEF IInv, Halts, InWake, FaultedHalts, Kind, CascadeScoped
  <2>12. Announced'
    BY <1>1, <2>4, Zenon DEF IInv, Announced, FaultsAnnounced, AnnouncedOnce, FaultVisible, Handled
  <2> QED BY <2>6, <2>7, <2>8, <2>9, <2>10, <2>11, <2>12, Zenon DEF IInv
<1> QED BY <1>6, <1>7, Zenon DEF Finish

-----------------------------------------------------------------------------
LEMMA Inductive == IInv /\ [Next]_vars => IInv'
<1> SUFFICES ASSUME IInv, [Next]_vars PROVE IInv'
  OBVIOUS
<1>1. CASE Enter
  BY <1>1, EnterStep, Zenon
<1>2. CASE EnterRejected
  BY <1>2, EnterRejectedStep, Zenon
<1>3. CASE ClearExecutorFault \/ \E t \in Tasks : ClearTaskFault(t)
  BY <1>3, ClearStep, Zenon
<1>4. CASE Stop \/ Expire \/ Rest \/ UNCHANGED vars
  BY <1>4, KeptStep, Zenon DEF Kept, Stop, StopFlag, StopNotify, Expire, Rest, vars, loopVars, jobVars,
                        faultVars, wakeVars
<1>5. ASSUME NEW r \in {"normal", "interrupt", "termination", "error"},
             NEW A \in SUBSET Attachments, Wake(r, A)
      PROVE  IInv'
  BY <1>5, WakeStep, Zenon
<1>6. CASE DispatchThread
  <2>1. ASSUME NEW a \in Attachments, ProcessAttachment(a) PROVE IInv'
    BY <2>1, ProcessAttachmentStep, Zenon
  <2>2. ASSUME NEW D \in SUBSET Cyclic, GridPass(D) PROVE IInv'
    BY <2>2, GridPassStep, Zenon
  <2> QED BY <1>6, <2>1, <2>2, RouteStep, DispatchCyclicStep, BarrierAndRecordStep,
             AfterCallbackStep, Zenon DEF DispatchThread
<1>7. ASSUME NEW t \in Tasks, Job(t) PROVE IInv'
  BY <1>7, StartStep, ExecuteStep, CountOverrunStep, SwapTaskFaultStep, StoreExecIdxStep,
     SwapExecFaultStep, FinishStep, Zenon DEF Job
<1> QED BY <1>1, <1>2, <1>3, <1>4, <1>5, <1>6, <1>7, Zenon DEF Next

LEMMA Invariance == Spec => []IInv
BY InitIInv, Inductive, PTL DEF Spec

(* However many attachments of a task fire in a wake (dispatch_task's      *)
(* pending token), it starts once, a cyclic task that was triggered is     *)
(* recorded once, and record_cycle_for folds a sample of that wake only.   *)
THEOREM CyclesSafe == Spec => []CyclesRecorded
<1>1. IInv => CyclesRecorded
  BY Configured, Zenon DEF IInv, Records, Samples, CyclesRecorded, DispatchedOnce, SamplesFresh, AllIdle,
                    InWake
<1> QED BY <1>1, Invariance, PTL

(* record_first_err and after_callback: an error of an item, on whichever  *)
(* worker it happens, ends the run and is what the run returns, unless the *)
(* wait itself failed.                                                     *)
THEOREM ErrorsSafe == Spec => []ErrorSurfaces
<1>1. IInv => ErrorSurfaces
  BY Zenon DEF IInv, Errors
<1> QED BY <1>1, Invariance, PTL

(* handle_fault_routing acts on loads that are stale by the time it acts;  *)
(* still no task that was faulted when the wake began runs its normal item *)
(* in it, and no cascaded mark outlives the fault of the executor.         *)
THEOREM RoutingSafe == Spec => []FaultsRouted
<1>1. IInv => FaultsRouted
  BY Zenon DEF IInv, Halts, FaultsRouted
<1> QED BY <1>1, Invariance, PTL

(* post_execute_detect_fault: of all the workers that breach a budget, one *)
(* announces the fault, and none is set without an announcement.           *)
THEOREM AnnouncementsSafe == Spec => []FaultsAnnounced
<1>1. IInv => FaultsAnnounced
  BY Zenon DEF IInv, Announced
<1> QED BY <1>1, Invariance, PTL
=============================================================================
