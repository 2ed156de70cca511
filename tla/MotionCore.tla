----------------------------- MODULE MotionCore -----------------------------
(***************************************************************************)
(* taktora-motion-core, with taktora-motion's scale.rs.                    *)
(*                                                                         *)
(* The phase machine of couple/flying_saw.rs: catch up with the line       *)
(* (SyncOn), follow it one to one (Synchronous), peel out (Return) and     *)
(* rest at home (Waiting).  Time is in cycles.  A quintic segment is its   *)
(* end points and its clock (QuinticSound says that the polynomial meets   *)
(* them); in between its position is InFlight.                             *)
(*                                                                         *)
(* The arithmetic: the trapezoidal and the seven-segment S-curve plans,    *)
(* the velocity ramp, the quintic, cam lookup and evaluation, and the      *)
(* unwrapping of a drive's position counter.  The code computes in f64;    *)
(* here every quantity is an integer: positions are scaled so that halves  *)
(* and sixths are exact, and only inputs whose roots and quotients are     *)
(* integers are taken.                                                     *)
(***************************************************************************)
EXTENDS Integers, Sequences, FiniteSets, FiniteSetsExt, SequencesExt

CONSTANTS
    Home, TOn, TSync,  \* the arguments of plan
    VMax, AMax,        \* Limits::v_max and a_max
    Speeds,            \* velocities the line may have
    InFlight,          \* a position inside a quintic
    MaxEngagements,    \* bound on rearm
    Width              \* bits of the position counter (32 in the code)

VARIABLES saw, master, coupled, engagements

vars == <<saw, master, coupled, engagements>>

Core(pos, vel, acc) == [pos |-> pos, vel |-> vel, acc |-> acc]
At(pos) == Core(pos, 0, 0)
Abs(n) == Max({n, -n})
Quintic(from, to) == [from |-> from, to |-> to, t |-> 0]

\* FlyingSaw::plan for a line at state m.
Plan(m) ==
    LET sync == m.pos + m.vel * TOn
    IN [v_m |-> m.vel, offset |-> 0, t_in_sync |-> 0,
        sync_on |-> Quintic(At(Home), Core(sync, m.vel, 0)),
        ret |-> Quintic(Core(sync + m.vel * TSync, m.vel, 0), At(Home)),
        phase |-> "SyncOn", cur |-> At(Home), breached |-> FALSE]

\* Quintic::advance and ::done
Sampled(q) == IF q.t + 1 >= TOn THEN q.to ELSE [q.to EXCEPT !.pos = InFlight]
Clocked(q) == [q EXCEPT !.t = @ + 1]
Finished(q) == q.t + 1 >= TOn

step_sync_on(s, m) ==
    LET cur == Sampled(s.sync_on)
        moved == [s EXCEPT !.sync_on = Clocked(@), !.cur = cur]
    IN IF ~Finished(s.sync_on) THEN moved
       ELSE [moved EXCEPT !.offset = IF coupled THEN cur.pos - m.pos ELSE 0,
                          !.t_in_sync = 0, !.phase = "Synchronous"]

\* The return is planned again from where the saw is, without its
\* acceleration.
step_synchronous(s, m) ==
    LET out == IF coupled THEN Core(m.pos + s.offset, m.vel, m.acc)
               ELSE Core(s.cur.pos + s.v_m, s.v_m, 0)
        beyond == coupled /\ (Abs(m.vel) > VMax \/ Abs(m.acc) > AMax)
        moved == [s EXCEPT !.t_in_sync = @ + 1, !.cur = out, !.breached = @ \/ beyond]
    IN IF s.t_in_sync + 1 < TSync THEN moved
       ELSE [moved EXCEPT !.ret = Quintic(Core(out.pos, out.vel, 0), At(Home)), !.phase = "Return"]

\* Mutant of step_return: the clock is tested a cycle ahead of the sample.
step_returnEarly(s) ==
    LET next == Clocked(s.ret)
    IN [s EXCEPT !.ret = next, !.cur = Sampled(s.ret),
                 !.phase = IF Finished(next) THEN "Waiting" ELSE "Return"]

step_return(s) ==
    IF Finished(s.ret) THEN [s EXCEPT !.ret = Clocked(@), !.phase = "Waiting", !.cur = At(Home)]
    ELSE [s EXCEPT !.ret = Clocked(@), !.cur = Sampled(s.ret)]

\* A cycle: the line moves, possibly changing its speed, then the saw.
update ==
    /\ saw.phase # "Waiting"
    /\ \E v \in Speeds : master' = Core(master.pos + v, v, v - master.vel)
    /\ saw' = CASE saw.phase = "SyncOn" -> step_sync_on(saw, master')
                [] saw.phase = "Synchronous" -> step_synchronous(saw, master')
                [] saw.phase = "Return" -> step_return(saw)
    /\ UNCHANGED <<coupled, engagements>>

\* The owner re-arms the saw, in whatever phase it is, for the next piece, from
\* whose arrival at home positions count; planning may find the catch-up
\* infeasible, which leaves the saw as it is.
rearm ==
    /\ engagements < MaxEngagements
    /\ \/ UNCHANGED <<saw, master>>
       \/ \E v \in Speeds : master' = Core(Home, v, 0) /\ saw' = Plan(master')
    /\ engagements' = engagements + 1
    /\ UNCHANGED coupled

Init ==
    /\ \E v \in Speeds : master = Core(Home, v, 0)
    /\ saw = Plan(master)
    /\ coupled \in BOOLEAN
    /\ engagements = 1

Next == update \/ rearm

\* The motion tick runs every cycle.
Spec == Init /\ [][Next]_vars /\ WF_vars(update)

Peels == saw.phase = "Synchronous" /\ saw'.phase = "Return"

\* flying_saw.rs 347-386: from the cycle that completes the catch-up to the
\* one that starts the return the saw moves exactly as the line does, even if
\* the line's speed has drifted from the one the plan assumed (no jump at the
\* seam), a line beyond the limits in either direction is flagged, and the
\* return starts at the position and velocity that the saw has reached.
MovesWithLine ==
    (saw.phase = "Synchronous" /\ coupled /\ engagements' = engagements) =>
        /\ saw'.cur.pos - saw.cur.pos = master'.pos - master.pos
        /\ Abs(master'.vel) > VMax => saw'.breached
        /\ Peels => saw'.ret.from = [saw'.cur EXCEPT !.acc = 0]

\* flying_saw.rs 379-381 ("the seam is C2 regardless of any master drift"):
\* false when the line accelerates in the last synchronous cycle.
SeamIsC2 == [][Peels => saw'.ret.from = saw'.cur]_vars

\* flying_saw.rs 388-396: every engagement ends at rest at home, also one that
\* another one replaced.
CatchingUp == saw.phase = "SyncOn"
AtHome == saw.phase = "Waiting" /\ saw.cur = At(Home)

----------------------------------------------------------------------------
Divides(d, n) == n % d = 0
Roots(n) == {r \in 0 .. n : r * r = n}
CubeRoots(n) == {r \in 0 .. n : r * r * r = n}
TheRoot(rs) == CHOOSE r \in rs : TRUE

----------------------------------------------------------------------------
(* profile/trapezoid.rs; positions doubled.                                *)

\* The plans whose times are integers.
TrapExact(d, v, a) ==
    IF v * v <= a * d
    THEN Divides(a, v) /\ Divides(v, d - (v * v) \div a)
    ELSE \E r \in Roots(a * d) : Divides(a, r)

TrapPlan(d, v, a) ==
    IF d = 0 THEN [v_peak |-> 0, t_acc |-> 0, t_flat |-> 0]
    ELSE IF v * v <= a * d
    THEN [v_peak |-> v, t_acc |-> v \div a, t_flat |-> (d - (v * v) \div a) \div v]
    ELSE LET r == TheRoot(Roots(a * d)) IN [v_peak |-> r, t_acc |-> r \div a, t_flat |-> 0]

TrapTotal(p) == 2 * p.t_acc + p.t_flat

\* TrapState::update at time t: twice the position, and the velocity.
TrapAt(p, d, a, t) ==
    LET ramp == a * p.t_acc * p.t_acc
        flat == 2 * p.v_peak * p.t_flat
        td == t - p.t_acc - p.t_flat
    IN IF t >= TrapTotal(p) THEN [pos |-> 2 * d, vel |-> 0]
       ELSE IF t < p.t_acc THEN [pos |-> a * t * t, vel |-> a * t]
       ELSE IF t < p.t_acc + p.t_flat
       THEN [pos |-> ramp + 2 * p.v_peak * (t - p.t_acc), vel |-> p.v_peak]
       ELSE [pos |-> ramp + flat + 2 * p.v_peak * td - a * td * td, vel |-> p.v_peak - a * td]

\* trapezoid.rs: within the limits at every cycle, each cycle's travel is the
\* mean of the velocities at its ends, and the last one meets the target: the
\* plan neither overshoots nor jumps when it hands over to at(pf).
TrapSound(d, v, a) ==
    LET p == TrapPlan(d, v, a)
        S(t) == TrapAt(p, d, a, t)
    IN \A t \in 0 .. TrapTotal(p) :
          /\ S(t).vel \in 0 .. v
          /\ t > 0 => S(t).pos - S(t - 1).pos = S(t).vel + S(t - 1).vel

----------------------------------------------------------------------------
(* profile/scurve.rs; positions times six, velocities doubled.             *)

AccReached(v, a, j) == v * j >= a * a

RampTimes(v, a, j) ==
    IF AccReached(v, a, j) THEN [tj |-> a \div j, ta |-> a \div j + v \div a]
    ELSE LET tj == TheRoot(Roots(v \div j)) IN [tj |-> tj, ta |-> 2 * tj]

RampExact(v, a, j) ==
    IF AccReached(v, a, j) THEN Divides(j, a) /\ Divides(a, v)
    ELSE Divides(j, v) /\ Roots(v \div j) # {}

\* v_max is not reached; is a_max?  The code asks whether ta >= 2 tj for the
\* ta below, that is sqrt(tj^2 + 4 d / a) >= 3 tj.
StillAccReached(d, a, j) == d * j * j >= 2 * a * a * a

\* ta = tj / 2 + sqrt(tj^2 / 4 + d / a), so (2 ta - tj)^2 = tj^2 + 4 d / a.
ShrunkTa(d, a, j) ==
    LET tj == a \div j IN (tj + TheRoot(Roots(tj * tj + (4 * d) \div a))) \div 2

ShrunkExact(d, a, j) ==
    IF StillAccReached(d, a, j)
    THEN /\ Divides(j, a) /\ Divides(a, 4 * d)
         /\ \E r \in Roots((a \div j) * (a \div j) + (4 * d) \div a) : Divides(2, a \div j + r)
    ELSE Divides(2 * j, d) /\ CubeRoots(d \div (2 * j)) # {}

Shrunk(d, v, a, j) ==
    LET c == TheRoot(CubeRoots(d \div (2 * j)))
    IN IF StillAccReached(d, a, j) THEN [tj |-> a \div j, ta |-> ShrunkTa(d, a, j), tv |-> 0]
       ELSE [tj |-> c, ta |-> 2 * c, tv |-> 0]

Cruises(d, v, a, j) == d > RampTimes(v, a, j).ta * v

SCurveExact(d, v, a, j) ==
    /\ RampExact(v, a, j)
    /\ IF Cruises(d, v, a, j) THEN Divides(v, d) ELSE ShrunkExact(d, a, j)

\* The durations of the seven segments.
SCurvePlan(d, v, a, j) ==
    LET r == RampTimes(v, a, j)
        s == IF Cruises(d, v, a, j) THEN [tj |-> r.tj, ta |-> r.ta, tv |-> d \div v - r.ta]
             ELSE Shrunk(d, v, a, j)
        t_const == Max({s.ta - 2 * s.tj, 0})
    IN IF d = 0 THEN [i \in 1 .. 7 |-> 0]
       ELSE <<s.tj, t_const, s.tj, s.tv, s.tj, t_const, s.tj>>

J_SIGN == <<1, 0, -1, 0, -1, 0, 1>>

Rest == [pos |-> 0, vel |-> 0, acc |-> 0]

\* One segment of jerk j for a time tau.
Advance(s, j, tau) ==
    [pos |-> s.pos + 3 * s.vel * tau + 3 * s.acc * tau * tau + j * tau * tau * tau,
     vel |-> s.vel + 2 * s.acc * tau + j * tau * tau,
     acc |-> s.acc + j * tau]

\* SCurveState::update's walk to time t, not cut short at the total: the
\* state in which the walk hands over to at(pf).
SCurveAt(dur, j, t) ==
    FoldLeft(LAMBDA w, i : LET tau == Min({dur[i], w.left})
                           IN [left |-> w.left - tau, at |-> Advance(w.at, J_SIGN[i] * j, tau)],
             [left |-> t, at |-> Rest], [i \in 1 .. 7 |-> i]).at

\* scurve.rs: whichever limits are reached, the walk ends on the target, at
\* rest and without acceleration, and stays within the limits on the way.
SCurveSound(d, v, a, j) ==
    LET dur == SCurvePlan(d, v, a, j)
        total == FoldLeft(LAMBDA x, y : x + y, 0, dur)
        S(t) == SCurveAt(dur, j, t)
    IN /\ S(total) = [pos |-> 6 * d, vel |-> 0, acc |-> 0]
       /\ \A t \in 0 .. total : S(t).vel \in 0 .. 2 * v /\ S(t).acc \in -a .. a

----------------------------------------------------------------------------
(* profile/velocity.rs.                                                    *)

RampStep(vel, target, a) ==
    LET dv == target - vel
    IN IF dv > a THEN vel + a ELSE IF dv < -a THEN vel - a ELSE target

\* velocity.rs: the ramp never passes its target velocity and reaches it in
\* the fewest cycles the acceleration limit allows.
RampSound(vel, target, a) ==
    LET gap(w) == Max({w - target, target - w})
        next == RampStep(vel, target, a)
    IN /\ gap(next) = Max({gap(vel) - a, 0})
       /\ (next - target) * (vel - target) >= 0

----------------------------------------------------------------------------
(* couple/flying_saw.rs: the coefficients of a quintic, each times 2 T^k.  *)

QuinticCoeffs(q) ==
    LET h == q.p1 - q.p0
        T == q.t
    IN <<20 * h - (8 * q.v1 + 12 * q.v0) * T - (3 * q.a0 - q.a1) * T * T,
         -30 * h + (14 * q.v1 + 16 * q.v0) * T + (3 * q.a0 - 2 * q.a1) * T * T,
         12 * h - (6 * q.v1 + 6 * q.v0) * T - (q.a0 - q.a1) * T * T>>

\* flying_saw.rs 29-36: at the end of a segment position, velocity and
\* acceleration all meet the boundary values that it was planned with.
QuinticSound(q) ==
    LET c == QuinticCoeffs(q)
        T == q.t
    IN /\ 2 * q.p0 + 2 * q.v0 * T + q.a0 * T * T + c[1] + c[2] + c[3] = 2 * q.p1
       /\ 2 * q.v0 * T + 2 * q.a0 * T * T + 3 * c[1] + 4 * c[2] + 5 * c[3] = 2 * q.v1 * T
       /\ 2 * q.a0 * T * T + 6 * c[1] + 12 * c[2] + 20 * c[3] = 2 * q.a1 * T * T

----------------------------------------------------------------------------
(* couple/cam.rs.                                                          *)

\* fmod keeps the sign of its dividend.
fmod(x, m) == IF x >= 0 THEN x % m ELSE -((-x) % m)
rem_euclid(x, m) == LET r == fmod(x, m) IN IF r < 0 THEN r + m ELSE r

\* The binary search, on the ascending master positions where segments start.
segment_index(starts, s) ==
    LET f[lo \in 1 .. Len(starts), hi \in 2 .. Len(starts) + 1] ==
            IF hi - lo <= 1 THEN lo
            ELSE LET mid == lo + (hi - lo) \div 2
                 IN IF starts[mid] <= s THEN f[mid, hi] ELSE f[lo, mid]
    IN f[1, Len(starts) + 1]

\* CamSegment::eval by Horner (four of the six coefficients are enough to
\* tell the terms apart).
CamEval(c, u) ==
    [p |-> c[1] + u * (c[2] + u * (c[3] + u * c[4])),
     dp |-> c[2] + u * (2 * c[3] + u * (3 * c[4])),
     ddp |-> 2 * c[3] + u * (6 * c[4])]

CamUpdate(cam, m) ==
    LET s == rem_euclid(m.pos, cam.period)
        e == CamEval(cam.coeffs, s - cam.starts[segment_index(cam.starts, s)])
    IN [pos |-> e.p, vel |-> e.dp * m.vel, acc |-> e.ddp * m.vel * m.vel + e.dp * m.acc]

\* cam.rs: the slave is on the profile of the last segment that starts at or
\* before the master's place in the period (the first, before any), and its
\* derivatives are those of the composed motion.
CamSound(cam, m) ==
    LET s == m.pos % cam.period
        before == {i \in DOMAIN cam.starts : cam.starts[i] <= s}
        u == s - cam.starts[IF before = {} THEN 1 ELSE Max(before)]
        c == cam.coeffs
        slope == c[2] + 2 * c[3] * u + 3 * c[4] * u * u
    IN CamUpdate(cam, m) =
          [pos |-> c[1] + c[2] * u + c[3] * u * u + c[4] * u * u * u,
           vel |-> slope * m.vel,
           acc |-> (2 * c[3] + 6 * c[4] * u) * m.vel * m.vel + slope * m.acc]

----------------------------------------------------------------------------
(* scale.rs: the counter wraps at Width bits, the unwrapper adds up steps. *)

Half == 2 ^ (Width - 1)
Wrapped(n) == ((n + Half) % (2 * Half)) - Half

to_increments(units, scale) == Wrapped(units * scale.inc_per_unit + scale.zero_offset)

UnwrapperUpdate(u, raw) ==
    [seen |-> TRUE, last_raw |-> raw,
     accum |-> IF u.seen THEN u.accum + Wrapped(raw - u.last_raw) ELSE raw]

Unwrap(raws) ==
    FoldLeft(UnwrapperUpdate, [seen |-> FALSE, last_raw |-> 0, accum |-> 0], raws).accum

\* scale.rs: as long as a cycle moves less than half a turn of the counter,
\* the unwrapped position has moved by what the axis was told to move, however
\* often the counter wrapped.
UnwrapSound(path, scale) ==
    LET raws == [k \in DOMAIN path |-> to_increments(path[k], scale)]
    IN Unwrap(raws) - raws[1] = (path[Len(path)] - path[1]) * scale.inc_per_unit

----------------------------------------------------------------------------
\* The inputs whose results are integers.
Exact(i) ==
    CASE i.kind = "trap" -> TrapExact(i.d, i.v, i.a)
      [] i.kind = "scurve" -> SCurveExact(i.d, i.v, i.a, i.j)
      [] OTHER -> TRUE

\* The arithmetic is right on an input (see each *Sound above).
ArithmeticSound(i) ==
    CASE i.kind = "trap" -> TrapSound(i.d, i.v, i.a)
      [] i.kind = "scurve" -> SCurveSound(i.d, i.v, i.a, i.j)
      [] i.kind = "ramp" -> RampSound(i.vel, i.target, i.a)
      [] i.kind = "quintic" -> QuinticSound(i)
      [] i.kind = "cam" -> CamSound(i.cam, i.m)
      [] i.kind = "unwrap" -> UnwrapSound(i.path, i.scale)
=============================================================================
