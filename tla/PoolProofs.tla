----------------------------- MODULE PoolProofs -----------------------------
(***************************************************************************)
(* The quiescence handshake of the worker pool is correct for any number   *)
(* of workers and any number of jobs.                                      *)
(***************************************************************************)
EXTENDS Pool, FiniteSetTheorems, TLAPS

\* Every submitted job is completed, in the channel, inside a worker, or about
\* to be sent.
Counting ==
    ~aborted => submitted = completed + queued + Cardinality(Busy)
                            + (IF mpc = "send" THEN 1 ELSE 0)

\* Who holds Tracker::lock.
LockHeld ==
    /\ lock = Main <=> mpc \in {"publish", "check", "park", "reset", "unlock"}
    /\ \A w \in Workers : lock = w <=> wpc[w] = "unlock"

\* `waiting` is TRUE exactly from its publication to its reset.
WaitingPublished ==
    waiting <=> mpc \in {"check", "park", "asleep", "wake", "reset"}

\* NoLostWakeup, with the fact that makes it inductive: a worker that will wake
\* a waiter still holding the lock before its park has not passed by the lock.
WakePending ==
    submitted = completed =>
        /\ mpc = "park" => \E w \in Workers : wpc[w] \in {"flag", "lockreq"}
        /\ mpc = "asleep" => \E w \in Workers :
                                 wpc[w] \in {"flag", "lockreq", "unlock", "notify"}

IndInv ==
    /\ TypeOK
    /\ Counting
    /\ LockHeld
    /\ WaitingPublished
    /\ WakePending
    /\ BarrierQuiescent

-----------------------------------------------------------------------------
(* The set of workers inside a job, when one worker moves. *)

\* The set of busy workers is finite: there are finitely many workers.
LEMMA BusyFinite ==
    /\ IsFiniteSet(Busy) /\ Cardinality(Busy) \in Nat
    /\ Cardinality(Workers) \in Nat /\ ChanCap \in Nat
  <1>1. Busy \in SUBSET Workers
    BY DEF Busy
  <1>2. IsFiniteSet(Busy)
    BY <1>1, FS_Subset, PoolAssumption
  <1>. QED
    BY <1>2, FS_CardinalityType, PoolAssumption DEF ChanCap

\* A worker that takes a job from the channel adds itself to the busy ones.
LEMMA BusyAdd ==
    ASSUME TypeOK, NEW w \in Workers, Goto(w, "recv", "run")
    PROVE  Cardinality(Busy') = Cardinality(Busy) + 1
  <1>1. Busy' = Busy \union {w} /\ w \notin Busy
    BY DEF TypeOK, Goto, Busy
  <1>. QED
    BY <1>1, BusyFinite, FS_AddElement

\* A worker that counts its completion leaves them.
LEMMA BusyRemove ==
    ASSUME TypeOK, NEW w \in Workers, Goto(w, "complete", "flag")
    PROVE  /\ Cardinality(Busy') = Cardinality(Busy) - 1
           /\ Cardinality(Busy) > 0
  <1>1. Busy' = Busy \ {w} /\ w \in Busy
    BY DEF TypeOK, Goto, Busy
  <1>2. Cardinality(Busy') = Cardinality(Busy) - 1
    BY <1>1, BusyFinite, FS_RemoveElement
  <1>3. Cardinality(Busy) # 0
    BY <1>1, BusyFinite, FS_EmptySet
  <1>. QED
    BY <1>2, <1>3, BusyFinite

\* Every other step of a worker keeps it on the same side.
LEMMA BusySame ==
    ASSUME TypeOK, NEW w \in Workers, NEW s \in WorkerSteps,
           wpc' = [wpc EXCEPT ![w] = s],
           wpc[w] \in {"run", "complete"} <=> s \in {"run", "complete"}
    PROVE  Busy' = Busy
  BY DEF TypeOK, Busy, WorkerSteps

-----------------------------------------------------------------------------
\* The initial state of Pool::new satisfies the invariant.
LEMMA InitIndInv == Init => IndInv
  <1> SUFFICES ASSUME Init PROVE IndInv
    OBVIOUS
  <1>1. TypeOK
    <2>1. wpc \in [Workers -> WorkerSteps]
      BY DEF Init, WorkerSteps
    <2>2. 0 \in 0..MaxSubmits /\ 0 \in 0..ChanCap
      BY BusyFinite, PoolAssumption
    <2>. QED
      BY <2>1, <2>2, Zenon DEF Init, TypeOK, MainSteps
  <1>2. Busy = {}
    BY DEF Init, Busy
  <1>3. Counting
    BY <1>2, FS_EmptySet DEF Init, Counting
  <1>4. LockHeld
    BY PoolAssumption DEF Init, LockHeld
  <1>5. WaitingPublished /\ WakePending /\ BarrierQuiescent
    BY DEF Init, WaitingPublished, WakePending, BarrierQuiescent
  <1>. QED
    BY <1>1, <1>3, <1>4, <1>5 DEF IndInv

\* Every step of the WaitSet thread preserves it.
LEMMA MainStepIndInv == IndInv /\ ~aborted /\ MainStep => IndInv'
  <1> SUFFICES ASSUME IndInv, ~aborted, MainStep PROVE IndInv'
    OBVIOUS
  <1> USE BusyFinite, PoolAssumption DEF IndInv, GotoMain, trackerVars
  <1> USE DEF MainStep, BarrierStep, SubmitInline, Submit, Send, Barrier, LockMain,
           PublishWaiting, CheckQuiescence, Park, SpuriousWake, ResetWaiting,
           BarrierReturn, DropInline, DropShutdown, DropSender, JoinWorkers
  <1>0. wpc' = wpc /\ Busy' = Busy
    BY DEF Busy
  <1>1. TypeOK'
    <2>1. mode' = mode /\ mpc' \in MainSteps /\ lock' \in Workers \union {Main, Nobody}
      BY DEF TypeOK, MainSteps
    <2>2. submitted' \in 0..MaxSubmits /\ completed' \in 0..MaxSubmits
      BY DEF TypeOK, Counting
    <2>3. queued' \in 0..ChanCap
      BY DEF TypeOK
    <2>4. waiting' \in BOOLEAN /\ shutdown' \in BOOLEAN /\ closed' \in BOOLEAN
          /\ aborted' \in BOOLEAN
      BY Zenon DEF TypeOK
    <2>. QED
      BY <1>0, <2>1, <2>2, <2>3, <2>4, Zenon DEF TypeOK
  <1>2. Counting'
    BY <1>0, <1>1 DEF TypeOK, Counting
  <1>3. LockHeld'
    BY <1>0 DEF TypeOK, LockHeld
  <1>4. WaitingPublished'
    BY DEF TypeOK, WaitingPublished
  <1>5. WakePending'
    BY <1>0 DEF TypeOK, WakePending, LockHeld
  <1>6. BarrierQuiescent'
    <2>1. CASE CheckQuiescence
      <3>1. ASSUME submitted = completed PROVE queued = 0 /\ Cardinality(Busy) = 0
        BY <2>1, <3>1 DEF TypeOK, Counting, CheckQuiescence
      <3>2. ASSUME submitted = completed PROVE Busy = {}
        BY <3>1, <3>2, FS_EmptySet
      <3>. QED
        BY <2>1, <3>1, <3>2, <1>0 DEF BarrierQuiescent, CheckQuiescence
    <2>2. CASE ~CheckQuiescence
      BY <1>0, <2>2 DEF BarrierQuiescent
    <2>. QED
      BY <2>1, <2>2
  <1>. QED
    BY <1>1, <1>2, <1>3, <1>4, <1>5, <1>6

\* Every step of a worker preserves it.
LEMMA WorkerStepIndInv ==
    ASSUME IndInv, ~aborted, NEW w \in Workers, WorkerStep(w)
    PROVE  IndInv'
  <1> USE BusyFinite, PoolAssumption DEF IndInv, Goto, trackerVars
  <1>1. CASE LoopTop(w)
    <2>1. Busy' = Busy
      BY <1>1, BusySame, Zenon DEF LoopTop, WorkerSteps, TypeOK
    <2>2. TypeOK'
      BY <1>1 DEF LoopTop, TypeOK, WorkerSteps
    <2>. QED
      BY <1>1, <2>1, <2>2, SMTT(20) DEF LoopTop, TypeOK, Counting, LockHeld, WaitingPublished,
                              WakePending, BarrierQuiescent
  <1>2. CASE Recv(w)
    <2>1. CASE queued > 0
      <3>1. Goto(w, "recv", "run") /\ Cardinality(Busy') = Cardinality(Busy) + 1
        BY <1>2, <2>1, BusyAdd DEF Recv, TypeOK
      <3>2. TypeOK'
        BY <1>2, <2>1 DEF Recv, TypeOK, WorkerSteps
      <3>. QED
        BY <1>2, <2>1, <3>1, <3>2 DEF Recv, TypeOK, Counting, LockHeld,
                              WaitingPublished, WakePending, BarrierQuiescent
    <2>2. CASE queued = 0
      <3>1. Busy' = Busy
        BY <1>2, <2>2, BusySame DEF Recv, WorkerSteps, TypeOK
      <3>2. TypeOK'
        BY <1>2, <2>2 DEF Recv, TypeOK, WorkerSteps
      <3>. QED
        BY <1>2, <2>2, <3>1, <3>2 DEF Recv, TypeOK, Counting, LockHeld,
                              WaitingPublished, WakePending, BarrierQuiescent
    <2>. QED
      BY <2>1, <2>2 DEF TypeOK
  <1>3. CASE Run(w)
    <2>1. Busy' = Busy
      BY <1>3, BusySame DEF Run, WorkerSteps, TypeOK, Busy
    <2>2. TypeOK'
      <3>1. aborted' \in BOOLEAN
        BY <1>3, Zenon DEF Run, TypeOK
      <3>. QED
        BY <1>3, <3>1 DEF Run, TypeOK, WorkerSteps
    <2>. QED
      BY <1>3, <2>1, <2>2 DEF Run, TypeOK, Counting, LockHeld, WaitingPublished,
                              WakePending, BarrierQuiescent
  <1>4. CASE Complete(w)
    <2>1. /\ Cardinality(Busy') = Cardinality(Busy) - 1
          /\ Cardinality(Busy) > 0
      BY <1>4, BusyRemove, Zenon DEF Complete
    <2>2. completed' \in 0..MaxSubmits
      BY <1>4, <2>1 DEF Complete, TypeOK, Counting
    <2>3. TypeOK'
      BY <1>4, <2>2 DEF Complete, TypeOK, WorkerSteps
    <2>4. Counting'
      BY <1>4, <2>1 DEF Complete, TypeOK, Counting
    <2>5. BarrierQuiescent'
      BY <1>4 DEF Complete, BarrierQuiescent, Busy
    <2>6. WakePending'
      BY <1>4 DEF Complete, TypeOK, WakePending
    <2>. QED
      BY <1>4, <2>3, <2>4, <2>5, <2>6 DEF Complete, TypeOK, LockHeld, WaitingPublished
  <1>5. CASE LoadWaiting(w)
    <2>1. Busy' = Busy
      BY <1>5, BusySame, Zenon DEF LoadWaiting, WorkerSteps, TypeOK
    <2>2. TypeOK'
      BY <1>5 DEF LoadWaiting, TypeOK, WorkerSteps
    <2>3. WakePending'
      BY <1>5 DEF LoadWaiting, TypeOK, WakePending, WaitingPublished
    <2>. QED
      BY <1>5, <2>1, <2>2, <2>3, SMTT(20) DEF LoadWaiting, TypeOK, Counting, LockHeld,
                              WaitingPublished, BarrierQuiescent
  <1>6. CASE LockWorker(w)
    <2>1. Busy' = Busy
      BY <1>6, BusySame, Zenon DEF LockWorker, WorkerSteps, TypeOK
    <2>2. TypeOK'
      BY <1>6 DEF LockWorker, TypeOK, WorkerSteps
    <2>3. LockHeld'
      BY <1>6 DEF LockWorker, TypeOK, LockHeld
    <2>4. WakePending'
      BY <1>6 DEF LockWorker, TypeOK, WakePending, LockHeld
    <2>. QED
      BY <1>6, <2>1, <2>2, <2>3, <2>4 DEF LockWorker, TypeOK, Counting,
                              WaitingPublished, BarrierQuiescent
  <1>7. CASE UnlockWorker(w)
    <2>1. Busy' = Busy
      BY <1>7, BusySame, Zenon DEF UnlockWorker, WorkerSteps, TypeOK
    <2>2. TypeOK'
      BY <1>7 DEF UnlockWorker, TypeOK, WorkerSteps
    <2>3. LockHeld'
      BY <1>7 DEF UnlockWorker, TypeOK, LockHeld
    <2>4. WakePending'
      BY <1>7 DEF UnlockWorker, TypeOK, WakePending, LockHeld
    <2>. QED
      BY <1>7, <2>1, <2>2, <2>3, <2>4 DEF UnlockWorker, TypeOK, Counting,
                              WaitingPublished, BarrierQuiescent
  <1>8. CASE NotifyOne(w)
    <2>1. Busy' = Busy
      BY <1>8, BusySame, Zenon DEF NotifyOne, WorkerSteps, TypeOK
    <2>2. TypeOK'
      BY <1>8 DEF NotifyOne, TypeOK, WorkerSteps, MainSteps
    <2>3. LockHeld' /\ WaitingPublished'
      BY <1>8 DEF NotifyOne, TypeOK, LockHeld, WaitingPublished
    <2>4. WakePending'
      BY <1>8 DEF NotifyOne, TypeOK, WakePending
    <2>. QED
      BY <1>8, <2>1, <2>2, <2>3, <2>4 DEF NotifyOne, TypeOK, Counting, BarrierQuiescent
  <1>. QED
    BY <1>1, <1>2, <1>3, <1>4, <1>5, <1>6, <1>7, <1>8 DEF WorkerStep

\* The invariant is inductive.
LEMMA NextIndInv == IndInv /\ [Next]_vars => IndInv'
  <1> SUFFICES ASSUME IndInv, [Next]_vars PROVE IndInv'
    OBVIOUS
  <1>1. CASE UNCHANGED vars
    BY <1>1 DEF vars, trackerVars, IndInv, TypeOK, Counting, LockHeld, WaitingPublished,
                WakePending, BarrierQuiescent, Busy
  <1>2. CASE ~aborted /\ MainStep
    BY <1>2, MainStepIndInv
  <1>3. CASE ~aborted /\ \E w \in Workers : WorkerStep(w)
    BY <1>3, WorkerStepIndInv
  <1>. QED
    BY <1>1, <1>2, <1>3 DEF Next, Stopped

\* The invariant holds in every reachable state of the pool.
THEOREM Invariance == Spec => []IndInv
  BY InitIndInv, NextIndInv, PTL DEF Spec

\* Pool's counters, lock and program counters keep their types; in particular
\* `completed` never overtakes the number of submissions.
THEOREM TypeCorrect == Spec => []TypeOK
  BY Invariance, PTL DEF IndInv

\* wait_for_quiescence returns only when no job is queued or running.
THEOREM BarrierSafety == Spec => []BarrierQuiescent
  BY Invariance, PTL DEF IndInv

\* A waiter that sleeps, or is about to, while all jobs are complete has a
\* worker's notify_one ahead of it.
THEOREM WakeupSafety == Spec => []NoLostWakeup
  <1>1. IndInv => NoLostWakeup
    BY DEF IndInv, WakePending, NoLostWakeup, Notifying
  <1>. QED
    BY <1>1, Invariance, PTL
=============================================================================
