------------------------------- MODULE Motion -------------------------------
(***************************************************************************)
(* The numeric-control cycle of taktora-motion: one AxisRuntime per axis   *)
(* (power state machine, unwrapper, trajectory generator, command tokens), *)
(* the coupling topology, and NcCycle::step, which drains the commands,    *)
(* ticks the axes masters first, exchanges the process image with the      *)
(* drives and stops the engaged subtree of every faulted axis.             *)
(*                                                                         *)
(* The owner calls step with &mut self: between the commands of a step and *)
(* its cycle nothing else happens; faults, stale inputs, movement by hand, *)
(* coupling changes and request_power happen between steps.  Positions are *)
(* integers (half units, so that the trapezoidal integration of            *)
(* VelocityMove is exact) and a point-to-point profile is abstracted to    *)
(* its endpoints and its duration: it moves one half unit a tick and is    *)
(* done when the time is up (MotionCore checks the shapes).                *)
(***************************************************************************)
EXTENDS Integers, Sequences, FiniteSets, FiniteSetsExt, SequencesExt

CONSTANTS
    N,            \* number of axes, numbered 0 .. N - 1
    Edges,        \* declared <<master, slave>> pairs (NcCycle::add_edge)
    Commands,     \* command kinds the commander issues
    Targets,      \* values of CommandParams::target_pos
    MaxCommands,  \* bound on commands issued and on calls of request_power
    MaxTrouble,   \* bound on injected faults, stale inputs and hand movements
    MaxPos        \* bound on positions: no step is taken outside

VARIABLES
    ax, drive, engaged,
    batch,        \* the axes that the step has given a command so far
    issued, trouble

vars == <<ax, drive, engaged, batch, issued, trouble>>

Axes == 0 .. N - 1
NoAxis == -1
AbsOf(n) == IF n < 0 THEN -n ELSE n
Sign(n) == IF n < 0 THEN -1 ELSE 1

----------------------------------------------------------------------------
(* CiA 402: the drive's state and the controlword that moves it.           *)

Faulted(sw) == sw \in {"Fault", "FaultReactionActive"}

next_controlword(target, sw) ==
    CASE Faulted(sw) -> "FaultReset"
      [] ~Faulted(sw) /\ target = "Disabled" -> "DisableVoltage"
      [] ~Faulted(sw) /\ target = "QuickStop" ->
            IF sw \in {"OperationEnabled", "QuickStopActive"} THEN "QuickStop" ELSE "DisableVoltage"
      [] ~Faulted(sw) /\ target = "Enabled" ->
            CASE sw = "ReadyToSwitchOn" -> "SwitchOn"
              [] sw \in {"SwitchedOn", "OperationEnabled"} -> "EnableOperation"
              [] sw = "QuickStopActive" -> "DisableVoltage"
              [] OTHER -> "Shutdown"

\* The virtual drive's answer to the controlword; it follows the target
\* once it is in OperationEnabled (MotionCore checks the wrapping counter).
NextStatus(sw, cw) ==
    CASE sw = "SwitchOnDisabled" /\ cw = "Shutdown" -> "ReadyToSwitchOn"
      [] sw = "ReadyToSwitchOn" /\ cw = "SwitchOn" -> "SwitchedOn"
      [] sw = "SwitchedOn" /\ cw = "EnableOperation" -> "OperationEnabled"
      [] sw = "Fault" /\ cw = "FaultReset" -> "SwitchOnDisabled"
      [] OTHER -> sw

advance_drive(d) ==
    IF d.faulted
    THEN [d EXCEPT !.sw = "Fault"]
    ELSE LET sw == NextStatus(d.sw, d.cw)
         IN [d EXCEPT !.sw = sw,
                      !.pos = IF sw = "OperationEnabled" THEN d.target ELSE @]

----------------------------------------------------------------------------
(* Coupling topology.                                                      *)

\* The lowest axis that declares an edge to s.
direct_master(s) ==
    LET ms == {m \in Axes : m # s /\ <<m, s>> \in Edges}
    IN IF ms = {} THEN NoAxis ELSE Min(ms)

\* Kahn's algorithm, lowest index first; identity if a cycle blocks it.
KahnOrder ==
    LET f[done \in SUBSET Axes] ==
            LET ready == {i \in Axes \ done : \A m \in Axes :
                            (m # i /\ <<m, i>> \in Edges) => m \in done}
            IN IF ready = {} THEN <<>> ELSE <<Min(ready)>> \o f[done \cup {Min(ready)}]
    IN f[{}]

\* Mutant of TickOrder: the axes in the order of their indices.
TickOrderByIndex == [k \in 1 .. N |-> k - 1]

TickOrder == IF Len(KahnOrder) = N THEN KahnOrder ELSE [k \in 1 .. N |-> k - 1]

\* Everything reachable from a along engaged edges.
engaged_downstream(a) ==
    LET grow(seen) == seen \cup {s \in Axes : \E m \in seen : <<m, s>> \in engaged}
        f[k \in 0 .. N] == IF k = 0 THEN {s \in Axes : <<a, s>> \in engaged} ELSE grow(f[k - 1])
    IN f[N]

----------------------------------------------------------------------------
(* Trajectory generators (taktora-motion-core).                            *)

Core(pos, vel) == [pos |-> pos, vel |-> vel]
At(pos) == Core(pos, 0)

Idle(pos) == [kind |-> "Idle", pos |-> pos]
Velocity(start, vel) == [kind |-> "Velocity", pos |-> start.pos, vel |-> start.vel, target |-> vel]
Profile(start, target) == [kind |-> "Profile", from |-> start, to |-> target, t |-> 0]
Gear(ratio) == [kind |-> "Gear", ratio |-> ratio]
NoOverlay == [kind |-> "None"]

Total(p) == AbsOf(p.to - p.from)
Done(p) == p.t >= Total(p)
ProfileAt(p) ==
    IF Done(p) THEN At(p.to)
    ELSE Core(p.from + Sign(p.to - p.from) * p.t, Sign(p.to - p.from))

\* Time stops to matter once the profile is done.
ProfileTicked(p) == IF Done(p) THEN p ELSE [p EXCEPT !.t = @ + 1]

\* Motion::update: the generator after one tick and the state it commands.
MotionTicked(m) ==
    CASE m.kind = "Velocity" ->
            LET dv == m.target - m.vel
                vel == IF dv > 1 THEN m.vel + 1 ELSE IF dv < -1 THEN m.vel - 1 ELSE m.target
            IN [m EXCEPT !.vel = vel, !.pos = @ + m.vel + vel]
      [] m.kind = "Profile" -> ProfileTicked(m)
      [] OTHER -> m

MotionState(m, master) ==
    CASE m.kind = "Idle" -> At(m.pos)
      [] m.kind = "Velocity" -> Core(m.pos, m.vel)
      [] m.kind = "Profile" -> ProfileAt(m)
      [] m.kind = "Gear" -> Core(m.ratio * master.pos, m.ratio * master.vel)

\* Motion::status
MotionStatus(m) ==
    CASE m.kind = "Idle" -> "Standstill"
      [] m.kind = "Velocity" -> "ContinuousMotion"
      [] m.kind = "Profile" -> IF Done(m) THEN "Standstill" ELSE "DiscreteMotion"
      [] m.kind = "Gear" -> "SynchronizedMotion"

\* Axis::apply_superimposed: the overlay goes on adding its offset when done.
apply_superimposed(overlay, base) ==
    IF overlay = NoOverlay THEN base
    ELSE LET d == ProfileAt(overlay) IN Core(base.pos + d.pos, base.vel + d.vel)

----------------------------------------------------------------------------
(* AxisRuntime.                                                            *)

NewAxis ==
    [power |-> "Disabled",
     motion |-> Idle(0), state |-> At(0), overlay |-> NoOverlay,
     enabled |-> FALSE, error_stop |-> FALSE, token |-> 0, tstate |-> "Idle",
     finite |-> FALSE,
     status |-> [state |-> "Disabled", actual |-> 0]]

request_power(a, on) ==
    [a EXCEPT !.error_stop = FALSE, !.power = IF on THEN "Enabled" ELSE "Disabled"]

request_quick_stop(a) == [a EXCEPT !.power = "QuickStop"]

force_error_stop(a) ==
    [a EXCEPT !.error_stop = TRUE, !.status.state = "ErrorStop",
              !.motion = Idle(a.state.pos), !.finite = FALSE]

Moving(a, motion, finite) ==
    [a EXCEPT !.motion = motion, !.finite = finite, !.tstate = "Active"]

Rejected(a) == [a EXCEPT !.tstate = "Error"]

\* The mapping of a command to the axis, once its token is latched.
Mapped(a, cmd, master) ==
    CASE cmd.kind \in {"Power", "Reset"} ->
            [request_power(a, TRUE) EXCEPT !.finite = FALSE, !.tstate = "Active"]
      [] cmd.kind = "MoveVelocity" -> Moving(a, Velocity(a.state, cmd.value), FALSE)
      [] cmd.kind \in {"Stop", "Halt"} -> Moving(a, Velocity(a.state, 0), FALSE)
      [] cmd.kind = "MoveAbsolute" ->
            IF cmd.valid THEN Moving(a, Profile(a.state.pos, cmd.value), TRUE) ELSE Rejected(a)
      [] cmd.kind = "MoveRelative" ->
            IF cmd.valid THEN Moving(a, Profile(a.state.pos, a.state.pos + cmd.value), TRUE)
            ELSE Rejected(a)
      [] cmd.kind = "GearIn" ->
            IF master # NoAxis THEN Moving(a, Gear(cmd.value), FALSE) ELSE Rejected(a)
      [] cmd.kind = "Superimpose" ->
            IF cmd.valid THEN [a EXCEPT !.overlay = Profile(0, cmd.value), !.tstate = "Active"]
            ELSE Rejected(a)
      [] cmd.kind \in {"CamIn", "FlyingSaw"} -> Rejected(a)

\* Mutant of apply_command: every command counts as a rising edge.
apply_commandLevel(a, cmd, master) ==
    LET latched == [a EXCEPT !.token = cmd.token]
    IN IF a.error_stop /\ cmd.kind \notin {"Power", "Reset"}
       THEN Rejected(latched)
       ELSE Mapped(latched, cmd, master)

\* last_aborted_token, which only an accessor reads, is left out.
apply_command(a, cmd, master) ==
    IF cmd.token = a.token /\ a.tstate # "Idle" THEN a
    ELSE LET latched == [a EXCEPT !.token = cmd.token]
         IN IF a.error_stop /\ cmd.kind \notin {"Power", "Reset"}
            THEN Rejected(latched)
            ELSE Mapped(latched, cmd, master)

\* The enabled branch of AxisRuntime::tick: tick the generator and the
\* overlay, and complete a finite move whose generator stands still.
Ticked(a, master) ==
    LET motion == MotionTicked(a.motion)
        overlay == IF a.overlay = NoOverlay THEN a.overlay ELSE ProfileTicked(a.overlay)
        arrived == a.finite /\ a.tstate = "Active" /\ MotionStatus(motion) = "Standstill"
    IN [a EXCEPT !.motion = motion, !.overlay = overlay,
                 !.state = apply_superimposed(overlay, MotionState(motion, master)),
                 !.tstate = IF arrived THEN "Done" ELSE @,
                 !.finite = @ /\ ~arrived]

\* The disabled branch: hold at the live actual (bumpless start).
Reseeded(a, actual) == [a EXCEPT !.motion = Idle(actual), !.state = At(actual)]

PublishedState(a, sw) ==
    IF a.error_stop \/ Faulted(sw) THEN "ErrorStop"
    ELSE IF a.enabled THEN MotionStatus(a.motion)
    ELSE "Disabled"

\* AxisRuntime::tick on the input image of drive d.  The status repeats the
\* token fields and the commanded position, which are read here from the axis.
tick(a, d, master) ==
    LET seen == [a EXCEPT !.enabled = d.sw = "OperationEnabled"]
        moved == IF seen.enabled THEN Ticked(seen, master) ELSE Reseeded(seen, d.pos)
    IN [moved EXCEPT !.status = [state |-> PublishedState(moved, d.sw), actual |-> d.pos]]

----------------------------------------------------------------------------
(* NcCycle::step.                                                          *)

\* Phase 2: tick every axis in order; a slave sees its master's state of
\* this very cycle.
TickedAxes(as) ==
    FoldLeft(LAMBDA acc, i :
               [acc EXCEPT ![i] = tick(acc[i], drive[i],
                    IF direct_master(i) = NoAxis THEN At(0) ELSE acc[direct_master(i)].state)],
             as, TickOrder)

Written(a, d) == [d EXCEPT !.cw = next_controlword(a.power, d.sw), !.target = a.state.pos]

\* Phase 4: the axes in error, and what they drag down.
Failing(ds) == {i \in Axes : drive[i].stale \/ Faulted(ds[i].sw)}

React(as, failing) ==
    LET down == UNION {engaged_downstream(a) : a \in failing}
    IN [i \in Axes |->
            LET stopped == IF i \in down THEN request_quick_stop(as[i]) ELSE as[i]
            IN IF i \in failing \cup down THEN force_error_stop(stopped) ELSE stopped]

\* Phase 1: a command is given to each axis of addressed; a step takes any
\* number.  A fresh command has a token the axes have not seen.
FreshToken == Min((1 .. N + 1) \ {ax[i].token : i \in Axes})

Command ==
    /\ issued < MaxCommands
    /\ \E addressed \in SUBSET Axes \ {{}}, k \in Commands, v \in Targets, valid \in BOOLEAN :
          /\ valid \/ k \in {"MoveAbsolute", "Superimpose"}
          /\ ax' = [i \in Axes |->
                IF i \in addressed
                THEN apply_command(ax[i], [kind |-> k, value |-> v, valid |-> valid,
                                           token |-> FreshToken], direct_master(i))
                ELSE ax[i]]
          /\ batch' = batch \cup addressed
    /\ issued' = issued + 1
    /\ UNCHANGED <<drive, engaged, trouble>>

\* A command with the token of the axis's last one is no rising edge.
Reissue(i) ==
    /\ ax[i].token > 0 /\ i \notin batch
    /\ \E k \in Commands, v \in Targets :
          ax' = [ax EXCEPT ![i] = apply_command(@, [kind |-> k, value |-> v, valid |-> TRUE,
                                                    token |-> @.token], direct_master(i))]
    /\ batch' = batch \cup {i}
    /\ UNCHANGED <<drive, engaged, issued, trouble>>

\* Phases 2 to 4.
step ==
    /\ \A i \in Axes : AbsOf(ax[i].state.pos) <= MaxPos
    /\ \E ticked \in {TickedAxes(ax)} :
       \E sent \in {[i \in Axes |-> Written(ticked[i], drive[i])]} :
          /\ drive' = [i \in Axes |-> IF sent[i].stale THEN sent[i] ELSE advance_drive(sent[i])]
          /\ ax' = React(ticked, Failing(drive'))
    /\ batch' = {}
    /\ UNCHANGED <<engaged, issued, trouble>>

----------------------------------------------------------------------------
(* The owner, the drives' troubles and the coupling, between two steps.    *)

\* NcCycle::request_power
RequestPower(i, on) ==
    /\ batch = {}
    /\ issued < MaxCommands /\ issued' = issued + 1
    /\ ax' = [ax EXCEPT ![i] = request_power(@, on)]
    /\ UNCHANGED <<drive, engaged, batch, trouble>>

Trouble(i, d) ==
    /\ batch = {}
    /\ trouble < MaxTrouble
    /\ trouble' = trouble + 1
    /\ drive' = [drive EXCEPT ![i] = d]
    /\ UNCHANGED <<ax, engaged, batch, issued>>

inject_fault(i) == ~drive[i].faulted /\ Trouble(i, [drive[i] EXCEPT !.faulted = TRUE])

inject_stale(i) == Trouble(i, [drive[i] EXCEPT !.stale = ~@])

\* A shaft that is not under power is turned by hand.
MovedByHand(i) ==
    drive[i].sw # "OperationEnabled" /\ Trouble(i, [drive[i] EXCEPT !.pos = @ + 1])

clear_fault(i) ==
    /\ batch = {} /\ drive[i].faulted
    /\ drive' = [drive EXCEPT ![i].faulted = FALSE]
    /\ UNCHANGED <<ax, engaged, batch, issued, trouble>>

set_engaged(e) ==
    /\ batch = {}
    /\ engaged' = IF e \in engaged THEN engaged \ {e} ELSE engaged \cup {e}
    /\ trouble < MaxTrouble /\ trouble' = trouble + 1
    /\ UNCHANGED <<ax, drive, batch, issued>>

Init ==
    /\ ax = [i \in Axes |-> NewAxis]
    /\ drive = [i \in Axes |-> [sw |-> "SwitchOnDisabled", cw |-> "DisableVoltage", target |-> 0,
                                pos |-> 0, faulted |-> FALSE, stale |-> FALSE]]
    /\ engaged = Edges
    /\ batch = {}
    /\ issued = 0
    /\ trouble = 0

Next ==
    \/ Command
    \/ step
    \/ \E i \in Axes, on \in BOOLEAN : RequestPower(i, on)
    \/ \E i \in Axes : Reissue(i) \/ inject_fault(i) \/ inject_stale(i) \/ MovedByHand(i) \/ clear_fault(i)
    \/ \E e \in Edges : set_engaged(e)

Spec == Init /\ [][Next]_vars

----------------------------------------------------------------------------
Steady(i) == ax[i].overlay = NoOverlay

\* cycle.rs 110-113 (same-cycle following): after every step an enabled axis
\* in gear commands the ratio times what its master commands in that cycle,
\* whatever the index order of the two axes.
SlaveFollows ==
    \A i \in Axes : (batch = {} /\ ax[i].enabled /\ ax[i].motion.kind = "Gear" /\ Steady(i)) =>
        ax[i].state.pos = ax[i].motion.ratio * ax[direct_master(i)].state.pos

\* apply_command's fault guard and force_error_stop: a latched axis is
\* published as ErrorStop and its base generator holds, whatever commands it
\* received since.
LatchedHolds ==
    \A i \in Axes : ax[i].error_stop =>
        ax[i].status.state = "ErrorStop" /\ ax[i].motion.kind = "Idle"

Stepped == batch' = {} /\ issued' = issued /\ ax' # ax

\* cycle.rs 254-295: a step in which a drive faults or its input is stale
\* latches that axis and everything engaged below it before it returns.  A
\* latched axis commands the position it was frozen at, plus its overlay.  No
\* step releases a latch: a command does with a new token, or request_power,
\* and what is released does not start to move by it.
SubtreeStopped ==
    /\ Stepped =>
        \A i \in Axes : (drive[i].stale \/ Faulted(drive'[i].sw)) =>
              \A s \in {i} \cup engaged_downstream(i) : ax'[s].status.state = "ErrorStop"
    /\ Stepped =>
        \A i \in Axes : ax[i].error_stop =>
            /\ ax'[i].error_stop
            /\ ax'[i].enabled =>
                  ax'[i].state = apply_superimposed(ax'[i].overlay, At(ax[i].motion.pos))
    /\ \A i \in Axes : (ax[i].error_stop /\ ~ax'[i].error_stop) =>
            /\ i \in batch' => ax'[i].token # ax[i].token /\ ax'[i].power = "Enabled"
            /\ ax'[i].motion.kind = "Idle"

\* axis.rs 226-232 ("freezing the generator here makes the safe-state reaction
\* coherent"): a latched axis under power stands.  False with an overlay, which
\* is added to the frozen position again in every cycle.
LatchedStands ==
    [][\A i \in Axes : (Stepped /\ ax[i].error_stop /\ ax'[i].enabled) =>
          ax'[i].state.pos = ax[i].state.pos]_vars

StartsBumpless(i) ==
    (~ax[i].enabled /\ ax'[i].enabled /\ i \notin batch) =>
        ax'[i].state.pos = ax[i].status.actual

\* axis.rs 160-162 (bumpless start): the first position commanded after an
\* enable is the actual position the axis had in its last disabled cycle.
BumplessStart == [][\A i \in Axes : StartsBumpless(i)]_vars

=============================================================================
