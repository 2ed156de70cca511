-------------------------------- MODULE Pool --------------------------------
(***************************************************************************)
(* The worker pool of crates/taktora-executor/src/pool.rs: `Pool` (inline  *)
(* or threaded), `run_worker`, and `Tracker`, the quiescence handshake     *)
(* behind `Pool::barrier`.  The WaitSet thread ("main" below) is the only  *)
(* submitter and the only waiter.                                          *)
(*                                                                         *)
(* One action per atomic access, lock operation or channel operation.  The *)
(* SeqCst fences of `complete` and `wait_for_quiescence` order the store   *)
(* of each side before the load of the other, so the steps interleave as   *)
(* in a sequentially consistent memory.  A job is what it does to the      *)
(* pool: it takes some time, then it returns, or a panic of the framework  *)
(* reaches `guard_or_fatal` and the process aborts.                        *)
(***************************************************************************)
EXTENDS Naturals, FiniteSets

CONSTANTS
    Workers,     \* the worker threads
    Main,        \* the WaitSet thread
    Nobody,      \* no lock holder
    MaxSubmits   \* bound: submissions in a behaviour

ASSUME PoolAssumption ==
    /\ IsFiniteSet(Workers)
    /\ Main \notin Workers
    /\ Nobody \notin Workers \union {Main}
    /\ MaxSubmits \in Nat

\* `bounded(n_workers * 4)`
ChanCap == 4 * Cardinality(Workers)

VARIABLES
    mode,        \* PoolMode
    submitted, completed, waiting,   \* Tracker's atomics
    lock,        \* holder of Tracker::lock
    queued,      \* jobs in the channel
    shutdown,    \* the workers' exit flag
    closed,      \* the channel's sender is gone
    mpc,         \* step of the WaitSet thread
    wpc,         \* step of each worker
    aborted      \* the process has aborted

trackerVars == <<submitted, completed, waiting, lock>>
vars == <<mode, trackerVars, queued, shutdown, closed, mpc, wpc, aborted>>

MainSteps == {"idle", "send", "lock", "publish", "check", "park", "asleep",
              "wake", "reset", "unlock", "close", "join", "dropped"}
WorkerSteps == {"loop", "recv", "run", "complete", "flag", "lockreq",
                "unlock", "notify", "exit"}

\* The state has its type: the job channel never holds more than its capacity
\* (Pool::new), and no job is counted complete more often than jobs are submitted.
TypeOK ==
    /\ mode \in {"inline", "threaded"}
    /\ submitted \in 0..MaxSubmits
    /\ completed \in 0..MaxSubmits
    /\ waiting \in BOOLEAN
    /\ lock \in Workers \union {Main, Nobody}
    /\ queued \in 0..ChanCap
    /\ shutdown \in BOOLEAN /\ closed \in BOOLEAN /\ aborted \in BOOLEAN
    /\ mpc \in MainSteps
    /\ wpc \in [Workers -> WorkerSteps]

Init ==
    /\ mode \in {"inline", "threaded"}
    /\ submitted = 0 /\ completed = 0
    /\ waiting = FALSE
    /\ lock = Nobody
    /\ queued = 0
    /\ shutdown = FALSE /\ closed = FALSE
    /\ mpc = "idle"
    /\ wpc = [w \in Workers |-> IF mode = "inline" THEN "exit" ELSE "loop"]
    /\ aborted = FALSE

GotoMain(from, to) == mpc = from /\ mpc' = to
Goto(w, from, to) == wpc[w] = from /\ wpc' = [wpc EXCEPT ![w] = to]

-----------------------------------------------------------------------------
(* submit, submit_shared *)

\* The inline pool runs the job on the calling thread: nobody else is there.
SubmitInline ==
    /\ mode = "inline" /\ mpc = "idle" /\ submitted < MaxSubmits
    /\ submitted' = submitted + 1
    /\ \/ completed' = completed + 1 /\ UNCHANGED aborted
       \/ aborted' = TRUE /\ UNCHANGED completed
    /\ UNCHANGED <<mode, waiting, lock, queued, shutdown, closed, mpc, wpc>>

Submit ==
    /\ mode = "threaded" /\ submitted < MaxSubmits
    /\ GotoMain("idle", "send")
    /\ submitted' = submitted + 1
    /\ UNCHANGED <<mode, completed, waiting, lock, queued, shutdown, closed, wpc, aborted>>

\* `tx.send` blocks while the channel is full.
Send ==
    /\ queued < ChanCap
    /\ GotoMain("send", "idle")
    /\ queued' = queued + 1
    /\ UNCHANGED <<mode, trackerVars, shutdown, closed, wpc, aborted>>

-----------------------------------------------------------------------------
(* Tracker::wait_for_quiescence, called by barrier *)

Barrier ==
    /\ GotoMain("idle", "lock")
    /\ UNCHANGED <<mode, trackerVars, queued, shutdown, closed, wpc, aborted>>

LockMain ==
    /\ lock = Nobody /\ lock' = Main
    /\ \/ GotoMain("lock", "publish")
       \/ GotoMain("wake", "check")     \* cv.wait returns with the lock held
    /\ UNCHANGED <<mode, submitted, completed, waiting, queued, shutdown, closed, wpc, aborted>>

PublishWaiting ==
    /\ GotoMain("publish", "check")
    /\ waiting' = TRUE
    /\ UNCHANGED <<mode, submitted, completed, lock, queued, shutdown, closed, wpc, aborted>>

\* Mutant of CheckQuiescence: the count of completions is off by one.
CheckQuiescenceOffByOne ==
    /\ mpc = "check"
    /\ mpc' = IF submitted <= completed + 1 THEN "reset" ELSE "park"
    /\ UNCHANGED <<mode, trackerVars, queued, shutdown, closed, wpc, aborted>>

CheckQuiescence ==
    /\ mpc = "check"
    /\ mpc' = IF submitted = completed THEN "reset" ELSE "park"
    /\ UNCHANGED <<mode, trackerVars, queued, shutdown, closed, wpc, aborted>>

\* cv.wait releases the lock and parks in one step.
Park ==
    /\ GotoMain("park", "asleep")
    /\ lock' = Nobody
    /\ UNCHANGED <<mode, submitted, completed, waiting, queued, shutdown, closed, wpc, aborted>>

\* A condition variable may wake its waiter for no reason.
SpuriousWake ==
    /\ GotoMain("asleep", "wake")
    /\ UNCHANGED <<mode, trackerVars, queued, shutdown, closed, wpc, aborted>>

ResetWaiting ==
    /\ GotoMain("reset", "unlock")
    /\ waiting' = FALSE
    /\ UNCHANGED <<mode, submitted, completed, lock, queued, shutdown, closed, wpc, aborted>>

BarrierReturn ==
    /\ GotoMain("unlock", "idle")
    /\ lock' = Nobody
    /\ UNCHANGED <<mode, submitted, completed, waiting, queued, shutdown, closed, wpc, aborted>>

-----------------------------------------------------------------------------
(* run_worker and Tracker::complete *)

LoopTop(w) ==
    /\ wpc[w] = "loop"
    /\ wpc' = [wpc EXCEPT ![w] = IF shutdown THEN "exit" ELSE "recv"]
    /\ UNCHANGED <<mode, trackerVars, queued, shutdown, closed, mpc, aborted>>

Recv(w) ==
    /\ \/ queued > 0 /\ Goto(w, "recv", "run") /\ queued' = queued - 1
       \/ queued = 0 /\ closed /\ Goto(w, "recv", "exit") /\ UNCHANGED queued
    /\ UNCHANGED <<mode, trackerVars, shutdown, closed, mpc, aborted>>

Run(w) ==
    /\ \/ Goto(w, "run", "complete") /\ UNCHANGED aborted
       \/ wpc[w] = "run" /\ aborted' = TRUE /\ UNCHANGED wpc
    /\ UNCHANGED <<mode, trackerVars, queued, shutdown, closed, mpc>>

Complete(w) ==
    /\ Goto(w, "complete", "flag")
    /\ completed' = completed + 1
    /\ UNCHANGED <<mode, submitted, waiting, lock, queued, shutdown, closed, mpc, aborted>>

\* Mutant of LoadWaiting: the waiter is notified without passing by the lock.
LoadWaitingNoLock(w) ==
    /\ wpc[w] = "flag"
    /\ wpc' = [wpc EXCEPT ![w] = IF waiting THEN "notify" ELSE "loop"]
    /\ UNCHANGED <<mode, trackerVars, queued, shutdown, closed, mpc, aborted>>

LoadWaiting(w) ==
    /\ wpc[w] = "flag"
    /\ wpc' = [wpc EXCEPT ![w] = IF waiting THEN "lockreq" ELSE "loop"]
    /\ UNCHANGED <<mode, trackerVars, queued, shutdown, closed, mpc, aborted>>

LockWorker(w) ==
    /\ lock = Nobody /\ lock' = w
    /\ Goto(w, "lockreq", "unlock")
    /\ UNCHANGED <<mode, submitted, completed, waiting, queued, shutdown, closed, mpc, aborted>>

UnlockWorker(w) ==
    /\ lock' = Nobody
    /\ Goto(w, "unlock", "notify")
    /\ UNCHANGED <<mode, submitted, completed, waiting, queued, shutdown, closed, mpc, aborted>>

NotifyOne(w) ==
    /\ Goto(w, "notify", "loop")
    /\ mpc' = IF mpc = "asleep" THEN "wake" ELSE mpc
    /\ UNCHANGED <<mode, trackerVars, queued, shutdown, closed, aborted>>

-----------------------------------------------------------------------------
(* Drop for Pool *)

\* An inline pool has nothing to stop.
DropInline ==
    /\ mode = "inline"
    /\ GotoMain("idle", "dropped")
    /\ UNCHANGED <<mode, trackerVars, queued, shutdown, closed, wpc, aborted>>

DropShutdown ==
    /\ mode = "threaded"
    /\ GotoMain("idle", "close")
    /\ shutdown' = TRUE
    /\ UNCHANGED <<mode, trackerVars, queued, closed, wpc, aborted>>

\* Mutant of DropSender: the sender outlives the pool.
DropSenderKept ==
    /\ GotoMain("close", "join")
    /\ UNCHANGED <<mode, trackerVars, queued, shutdown, closed, wpc, aborted>>

DropSender ==
    /\ GotoMain("close", "join")
    /\ closed' = TRUE
    /\ UNCHANGED <<mode, trackerVars, queued, shutdown, wpc, aborted>>

JoinWorkers ==
    /\ \A w \in Workers : wpc[w] = "exit"
    /\ GotoMain("join", "dropped")
    /\ UNCHANGED <<mode, trackerVars, queued, shutdown, closed, wpc, aborted>>

\* The process has aborted, or the pool is gone.
Stopped ==
    /\ aborted \/ mpc = "dropped"
    /\ UNCHANGED vars

-----------------------------------------------------------------------------
BarrierStep == LockMain \/ PublishWaiting \/ CheckQuiescence \/ Park \/ SpuriousWake
               \/ ResetWaiting \/ BarrierReturn
MainStep == SubmitInline \/ Submit \/ Send \/ Barrier \/ BarrierStep
            \/ DropInline \/ DropShutdown \/ DropSender \/ JoinWorkers
WorkerStep(w) == LoopTop(w) \/ Recv(w) \/ Run(w) \/ Complete(w) \/ LoadWaiting(w)
                 \/ LockWorker(w) \/ UnlockWorker(w) \/ NotifyOne(w)

Next ==
    \/ ~aborted /\ MainStep
    \/ ~aborted /\ \E w \in Workers : WorkerStep(w)
    \/ Stopped

\* Threads are scheduled and jobs end: every started operation goes on.  The
\* mutex serves a thread that keeps asking, hence strong fairness on the lock.
\* Nothing forces a submission, a barrier, a drop or a spurious wake-up.
Fairness ==
    /\ WF_vars(~aborted /\ (Send \/ PublishWaiting \/ CheckQuiescence \/ Park
                            \/ ResetWaiting \/ BarrierReturn \/ DropSender \/ JoinWorkers))
    /\ SF_vars(~aborted /\ LockMain)
    /\ \A w \in Workers : /\ WF_vars(~aborted /\ WorkerStep(w))
                          /\ SF_vars(~aborted /\ LockWorker(w))

Spec == Init /\ [][Next]_vars /\ Fairness

-----------------------------------------------------------------------------
(* Properties *)

Busy == {w \in Workers : wpc[w] \in {"run", "complete"}}
Notifying == {w \in Workers : wpc[w] \in {"flag", "lockreq", "unlock", "notify"}}

\* `barrier` blocks "until every job submitted so far has completed": when
\* wait_for_quiescence is past its loop, no job is queued and no worker is
\* inside one, whatever woke the waiter.
BarrierQuiescent ==
    mpc \in {"reset", "unlock"} =>
        submitted = completed /\ queued = 0 /\ Busy = {}

\* The quiescence handshake loses no wake-up: when every job has completed and
\* the waiter sleeps, or has decided to, some worker still has its notify_one
\* ahead of it.
NoLostWakeup ==
    (mpc \in {"park", "asleep"} /\ submitted = completed) => Notifying # {}

\* A barrier returns, unless the process aborts.
BarrierReturns == (mpc = "lock") ~> (mpc = "idle" \/ aborted)

\* Drop for Pool joins every worker: each leaves its blocking recv.
DropTerminates == (mpc = "close") ~> (mpc = "dropped" \/ aborted)

\* Every call of barrier returns, and so does drop.
PoolReturns == BarrierReturns /\ DropTerminates
=============================================================================
