------------------------------- MODULE RunLoop -------------------------------
(***************************************************************************)
(* How a run of the executor sleeps, beats and ends: Executor::run,        *)
(* run_for, run_n and run_until, the wait of dispatch_loop bounded by the  *)
(* liveness heartbeat, the decision after each wake, the Runner that hosts *)
(* a run on a thread of its own, and the bridge that turns heartbeats into *)
(* health events.  What a wake dispatches is the subject of Executor; here *)
(* it takes time, may fail and may ask for a stop.                         *)
(*                                                                         *)
(* Time is discrete and never passes while the thread could wake (OS       *)
(* latency is left out); the items of a wake take up to MaxStall before    *)
(* dispatch_loop reads the clock and up to MaxStall in the barrier after.  *)
(***************************************************************************)
EXTENDS Naturals

\* Modes: run modes [kind, n]; Hosts: who calls run ("direct" with any mode,
\* "runner" and "deferred": a Runner, which calls run()); Period: of the
\* heartbeat, 0 for none; HealthCap: slots of the bridge's channel; Never: a
\* time after MaxClock; MaxClock, MaxRuns, MaxSignals:
\* bounds.
CONSTANTS Modes, Hosts, Period, HealthCap, MaxStall, MaxClock, MaxRuns, MaxSignals,
          Never

Max(S) == CHOOSE x \in S : \A y \in S : x >= y
Min(S) == CHOOSE x \in S : \A y \in S : x <= y

(* Times are counted in one unit. *)
Times ==
    /\ Period \in Nat /\ MaxStall \in Nat /\ MaxClock \in Nat /\ Never \in Nat
    /\ \A m \in Modes : m.n \in Nat

VARIABLES
    mode, host,             \* chosen once
    clock,
    loop,                   \* "off" "top" "wait" "grid" "after" "done"
    wakeAt,                 \* when the wait times out
    now,                    \* now_nanos read after the wait
    interrupted,            \* the wait ended with EINTR
    since,                  \* when this run, then its last tick, happened
    deadline,               \* of RunMode::Until
    iterations,             \* iterations_done, counted up to n
    iterErr,                \* the wake recorded an item error
    heartbeat,              \* [seq, next_due]
    health,                 \* events in the bridge's channel
    ready,                  \* an attachment of a task is ready
    stopFlag, stopNote,     \* Stoppable: its flag and its notification
    owner,                  \* "holds" "release" "flag" "notify" "join" "joined"
    released,               \* the deferred start was sent
    runs, result,
    signals                 \* waits ended by EINTR, counted

loopVars == <<loop, wakeAt, now, interrupted, since, deadline, iterations, iterErr, result, runs, signals>>
beatVars == <<heartbeat, health>>
wakeVars == <<ready, stopFlag, stopNote>>
ownerVars == <<owner, released>>
vars == <<mode, host, clock, loopVars, beatVars, wakeVars, ownerVars>>

TypeOK ==
    /\ mode \in Modes /\ host \in Hosts /\ clock \in 0..MaxClock
    /\ loop \in {"off", "top", "wait", "grid", "after", "done"}
    /\ wakeAt \in (0..(MaxClock + Period)) \cup {Never} /\ now \in 0..MaxClock
    /\ {interrupted, iterErr, ready, stopFlag, stopNote, released} \subseteq BOOLEAN
    /\ heartbeat \in [seq : Nat, next_due : Nat] /\ health \in 0..HealthCap
    /\ owner \in {"holds", "release", "flag", "notify", "join", "joined"}
    /\ result \in {"none", "ok", "error", "rejected"} /\ runs \in 0..MaxRuns

Init ==
    /\ mode \in Modes /\ host \in Hosts
    /\ host # "direct" => mode.kind = "Forever"
    /\ clock = 0 /\ loop = "off" /\ wakeAt = Never /\ now = 0 /\ interrupted = FALSE
    /\ since = 0 /\ deadline = 0 /\ iterations = 0 /\ iterErr = FALSE
    /\ heartbeat = [seq |-> 0, next_due |-> Period] /\ health = 0
    /\ ready = FALSE /\ stopFlag = FALSE /\ stopNote = FALSE
    /\ owner = "holds" /\ released = (host # "deferred") /\ runs = 0 /\ result = "none"
    /\ signals = 0

------------------------------------------------------------------------------
(* The run. *)

\* run_inner up to dispatch_loop: the admission check admits or rejects.
run_inner ==
    /\ loop \in {"off", "done"} /\ released /\ runs < MaxRuns
    /\ loop = "done" => host = "direct"
    /\ runs' = runs + 1 /\ iterations' = 0 /\ iterErr' = FALSE /\ since' = clock
    /\ deadline' = clock + mode.n
    /\ \/ loop' = "top" /\ result' = "none"
       \/ loop' = "done" /\ result' = "rejected"
    /\ UNCHANGED <<mode, host, clock, wakeAt, now, interrupted, signals, beatVars, wakeVars,
                   ownerVars>>

\* The wait is bounded by the heartbeat's deadline only.
heartbeat_bounded_timeout == IF Period = 0 THEN Never ELSE Max({clock, heartbeat.next_due})

BeginWait ==
    /\ loop = "top" /\ loop' = "wait" /\ wakeAt' = heartbeat_bounded_timeout
    /\ UNCHANGED <<mode, host, clock, now, interrupted, since, deadline, iterations, iterErr, result,
                   runs, signals, beatVars, wakeVars, ownerVars>>

Due == ready \/ stopNote \/ clock >= wakeAt

\* Context::stop_executor: an item of this wake asks for the stop, after the
\* wake drained the stop listener.
stop_executor(asked) == stopFlag' = (stopFlag \/ asked) /\ stopNote' = asked

\* The wait returns and its callbacks run; the clock is read after them.  The
\* stop listener is drained when anything fired; a task's attachment stays
\* ready unless the application drains it.
Wake ==
    /\ loop = "wait" /\ Due
    /\ \E d \in 0..MaxStall, still \in BOOLEAN, does \in {"returns", "fails", "stops"} :
          /\ (~ready => d = 0 /\ does = "returns" /\ ~still) /\ clock + d <= MaxClock
          /\ clock' = clock + d /\ now' = clock + d
          /\ ready' = still /\ iterErr' = (does = "fails")
          /\ stop_executor(does = "stops")
    /\ interrupted' = FALSE /\ loop' = "grid"
    /\ UNCHANGED <<mode, host, wakeAt, since, deadline, iterations, result, runs, signals, beatVars,
                   ownerVars>>

\* A handled signal ends the wait with EINTR.
Interrupt ==
    /\ loop = "wait" /\ signals < MaxSignals /\ signals' = signals + 1
    /\ loop' = "grid" /\ interrupted' = TRUE /\ now' = clock
    /\ UNCHANGED <<mode, host, clock, wakeAt, since, deadline, iterations, iterErr, result, runs,
                   beatVars, wakeVars, ownerVars>>

\* SIGINT or SIGTERM, latched by iceoryx2: the wait returns TerminationRequest.
Terminate ==
    /\ loop = "wait" /\ loop' = "done" /\ result' = "ok"
    /\ UNCHANGED <<mode, host, clock, wakeAt, now, interrupted, since, deadline, iterations, iterErr,
                   runs, signals, beatVars, wakeVars, ownerVars>>

\* HeartbeatHealthBridge::on_heartbeat: try_send, a full channel drops it.
on_heartbeat(h) == IF h < HealthCap THEN h + 1 ELSE h

\* Mutant of emit_heartbeat_if_due: the next deadline counts from now.
emit_heartbeat_if_dueFromNow ==
    IF Period > 0 /\ now >= heartbeat.next_due
    THEN /\ heartbeat' = [seq |-> heartbeat.seq + 1, next_due |-> now + Period]
         /\ health' = on_heartbeat(health) /\ since' = now
    ELSE UNCHANGED <<heartbeat, health, since>>

\* One tick at most per wake; the deadline advances by one period.
emit_heartbeat_if_due ==
    IF Period > 0 /\ now >= heartbeat.next_due
    THEN /\ heartbeat' = [seq |-> heartbeat.seq + 1, next_due |-> heartbeat.next_due + Period]
         /\ health' = on_heartbeat(health) /\ since' = now
    ELSE UNCHANGED <<heartbeat, health, since>>

\* The grid pass and its barrier, then the heartbeat, with the time read before.
GridPass ==
    /\ loop = "grid" /\ loop' = "after"
    /\ \E d \in 0..MaxStall : /\ interrupted => d = 0
                              /\ clock + d <= MaxClock /\ clock' = clock + d
    /\ emit_heartbeat_if_due
    /\ UNCHANGED <<mode, host, wakeAt, now, interrupted, deadline, iterations, iterErr, result, runs,
                   signals, wakeVars, ownerVars>>

Counted == IF mode.kind = "Iterations" THEN Min({iterations + 1, mode.n}) ELSE iterations

ReachedLimit ==
    CASE mode.kind = "Iterations" -> Counted >= mode.n
      [] mode.kind = "Until" -> clock >= deadline
      [] OTHER -> FALSE

Ends(r) == loop' = "done" /\ result' = r /\ UNCHANGED iterations

\* The item error first, then the stop flag, then the limit of the run mode,
\* which an interrupted wake does not evaluate.
after_callback ==
    /\ loop = "after"
    /\ CASE iterErr -> Ends("error")
         [] ~iterErr /\ stopFlag -> Ends("ok")
         [] ~iterErr /\ ~stopFlag /\ interrupted -> loop' = "top" /\ UNCHANGED <<iterations, result>>
         [] OTHER ->
              /\ iterations' = Counted
              /\ \/ /\ ReachedLimit \/ mode.kind = "Predicate"
                    /\ loop' = "done" /\ result' = "ok"
                 \/ ~ReachedLimit /\ loop' = "top" /\ UNCHANGED result
    /\ iterErr' = FALSE
    /\ UNCHANGED <<mode, host, clock, wakeAt, now, interrupted, since, deadline, runs, signals,
                   beatVars, wakeVars, ownerVars>>

------------------------------------------------------------------------------
(* The owner of the Runner, or the holder of a Stoppable. *)

\* Runner::start sends the deferred start once.
start ==
    /\ owner = "holds" /\ ~released /\ released' = TRUE
    /\ UNCHANGED <<mode, host, clock, loopVars, beatVars, wakeVars, owner>>

\* Mutant of stop: the deferred thread is not released first.
stopUnreleased ==
    \/ owner = "holds" /\ owner' = "flag" /\ UNCHANGED <<released, stopFlag, stopNote>>
    \/ owner = "flag" /\ owner' = "notify" /\ stopFlag' = TRUE /\ UNCHANGED <<released, stopNote>>
    \/ owner = "notify" /\ owner' = "join" /\ stopNote' = TRUE /\ UNCHANGED <<released, stopFlag>>

\* Runner::stop, which drop calls too: release the deferred thread, raise the
\* flag, notify, then join.
stop ==
    \/ owner = "holds" /\ owner' = "flag" /\ released' = TRUE /\ UNCHANGED <<stopFlag, stopNote>>
    \/ owner = "flag" /\ owner' = "notify" /\ stopFlag' = TRUE /\ UNCHANGED <<released, stopNote>>
    \/ owner = "notify" /\ owner' = "join" /\ stopNote' = TRUE /\ UNCHANGED <<released, stopFlag>>

Stop ==
    /\ stop
    /\ UNCHANGED <<mode, host, clock, loopVars, beatVars, ready>>

\* A Runner joins its thread; a bare Stoppable has nothing to join.
Join ==
    /\ owner = "join" /\ (host # "direct" => loop = "done") /\ owner' = "joined"
    /\ UNCHANGED <<mode, host, clock, loopVars, beatVars, wakeVars, released>>

------------------------------------------------------------------------------
(* The environment. *)

\* A trigger of a task fires.
Fire ==
    /\ ~ready /\ ready' = TRUE
    /\ UNCHANGED <<mode, host, clock, loopVars, beatVars, stopFlag, stopNote, ownerVars>>

\* HealthSubscription::try_next takes the oldest event.
try_next ==
    /\ health > 0 /\ health' = health - 1
    /\ UNCHANGED <<mode, host, clock, loopVars, heartbeat, wakeVars, ownerVars>>

Pass ==
    /\ clock < MaxClock /\ (loop = "wait" => ~Due) /\ loop \in {"off", "wait", "done"}
    /\ clock' = clock + 1
    /\ UNCHANGED <<mode, host, loopVars, beatVars, wakeVars, ownerVars>>

Thread == run_inner \/ BeginWait \/ Wake \/ GridPass \/ after_callback

Next ==
    \/ Thread \/ Interrupt \/ Terminate \/ start \/ Stop \/ Join \/ Fire \/ try_next
    \/ Pass

StopGoesOn == owner # "holds" /\ Stop

\* The executor's thread and a caller inside stop keep running; nothing obliges
\* a trigger to fire or an owner to call stop.
Fairness == WF_vars(Thread) /\ WF_vars(StopGoesOn) /\ WF_vars(Join)

Spec == Init /\ [][Next]_vars /\ Fairness

------------------------------------------------------------------------------
(* Properties. *)

Running == loop \in {"top", "wait", "grid", "after"}

\* Every deadline of the heartbeat is ticked exactly once: whenever the thread
\* sleeps, as many ticks were emitted as periods have passed since the executor
\* was built, whatever the items of earlier wakes took (emit_heartbeat_if_due
\* catches up one period per wake, heartbeat_bounded_timeout lets it).
EveryDeadlineTicked ==
    Period > 0 /\ loop = "wait" /\ ~Due => heartbeat.seq = clock \div Period

\* While a run is going on, the last tick (or the start of the run) is at most
\* a period and the stalls of a wake ago: the bound an external watchdog
\* relies on (ExecutorBuilder::heartbeat).
TickGapBounded ==
    Period > 0 /\ Running => clock <= since + Period + 2 * MaxStall

\* run_for returns within a heartbeat period, and one more for each wait a signal
\* ended, and the stalls of a wake of its deadline, because the heartbeat wakes
\* the loop (after_callback evaluates the deadline only after a wake, and not
\* after an interrupted one).
HeartbeatEndsRunFor ==
    Period > 0 /\ Running /\ mode.kind = "Until" =>
        clock <= deadline + (1 + signals) * Period + 2 * MaxStall

\* Runner::stop, and so dropping a Runner, returns: the thread is released if
\* its start was deferred, woken, and ends.
Stopping == owner \in {"flag", "notify", "join"}
Joined == owner = "joined"

\* "Run for at most `max` wall-clock duration, then return": run_for has returned
\* once its deadline and the stalls of a wake have passed.
RunForReturns ==
    Running /\ mode.kind = "Until" => clock <= deadline + 2 * MaxStall
==============================================================================
