------------------------------ MODULE CycleStats ------------------------------
(***************************************************************************)
(* The cycle statistics (crates/taktora-stats/src/{histogram,minmax,       *)
(* cyclestats,connector,execcycle}.rs): a histogram over a ring of         *)
(* segments, an exact windowed minimum and maximum over monotonic deques,  *)
(* and the per-bus record that folds a cycle into them.  The deque of the  *)
(* code is a ring of W places; here it is a sequence.  The published       *)
(* scalars are the values last computed.                                   *)
(***************************************************************************)
EXTENDS Integers, Sequences, FiniteSets, FiniteSetsExt, SequencesExt

CONSTANTS
    M,                 \* sub-buckets of an octave, 64
    Octaves,           \* 36
    S,                 \* segments
    Window,            \* of the histogram
    W,                 \* of minimum and maximum
    Devices,
    Cycles,            \* the cycles there are: measurement, if any, and stale devices
    MaxCycles

VARIABLES
    hist, minmax,      \* CycleStatsCore
    runs, max_stale,   \* per device: consecutive stale cycles, and the most
    pub,               \* the published percentile, minimum and maximum
    log                \* history: the cycles folded

vars == <<hist, minmax, runs, max_stale, pub, log>>

-----------------------------------------------------------------------------
(* The buckets of the histogram: every octave of the positive integers is  *)
(* cut into M equal parts.                                                 *)
BUCKETS == Octaves * M

ilog2(v) == CHOOSE k \in 0..Octaves + 1 : 2^k <= v /\ v < 2^(k + 1)

bucket_index(value_ns) ==
    LET value == Max({value_ns, 1})
        octave == ilog2(value)
        sub == ((value - 2^octave) * M) \div 2^octave
    IN  Min({octave * M + sub, BUCKETS - 1})

bucket_lower(i) == LET base == 2^(i \div M) IN base + (base * (i % M)) \div M

(* The geometric centre, rounded. *)
bucket_midpoint(i) ==
    LET prod == bucket_lower(i) * bucket_lower(i + 1)
        root == CHOOSE r \in bucket_lower(i)..bucket_lower(i + 1) :
                    r * r <= prod /\ (r + 1) * (r + 1) > prod
    IN  IF prod - root * root > root THEN root + 1 ELSE root

-----------------------------------------------------------------------------
(* RollingHistogram *)
NoCounts == [b \in 0..(BUCKETS - 1) |-> 0]

seg_capacity == Max({Window \div S, 1})

hist_record(h, value_ns) ==
    LET full == h.n_in_cur >= seg_capacity
        cur == IF full THEN (h.cur + 1) % S ELSE h.cur
        seg == IF full THEN [h.seg EXCEPT ![cur] = NoCounts] ELSE h.seg
    IN  [seg |-> [seg EXCEPT ![cur][bucket_index(value_ns)] = @ + 1],
         cur |-> cur,
         n_in_cur |-> IF full THEN 1 ELSE h.n_in_cur + 1]

InBucket(h, b) == FoldFunction(LAMBDA s, n : s[b] + n, 0, h.seg)

(* The number of samples in the buckets up to b. *)
Cumulated(h, b) == FoldFunctionOnSet(LAMBDA x, y : x + y, 0, [i \in 0..b |-> InBucket(h, i)], 0..b)

count(h) == Cumulated(h, BUCKETS - 1)

percentile(h, permille) ==
    LET target == (count(h) * permille + 999) \div 1000
    IN  IF count(h) = 0 THEN 0
        ELSE bucket_midpoint(Min({b \in 0..(BUCKETS - 1) : Cumulated(h, b) >= target}))

-----------------------------------------------------------------------------
(* MinMaxDeque: entries are <<index, value>>.  A new one makes those that  *)
(* are not below it (sign 1, the minimum) or not above it (sign -1, the    *)
(* maximum) useless.                                                       *)
Deque(d, entry, window_start, sign) ==
    LET kept == SelectSeq(d, LAMBDA e : e[1] >= window_start)
        useful == {i \in 0..Len(kept) : i = 0 \/ sign * (kept[i][2] - entry[2]) < 0}
    IN  Append(SubSeq(kept, 1, Max(useful)), entry)

minmax_record(mm, value) ==
    LET idx == mm.next
        window_start == IF idx + 1 < W THEN 0 ELSE idx + 1 - W
    IN  [min_d |-> Deque(mm.min_d, <<idx, value>>, window_start, 1),
         max_d |-> Deque(mm.max_d, <<idx, value>>, window_start, -1),
         next |-> idx + 1]

-----------------------------------------------------------------------------
(* CycleStatsCore::record, and what is published of it. *)
Publish(h, mm) ==
    [p50 |-> percentile(h, 500), p99 |-> percentile(h, 990),
     min |-> Head(mm.min_d)[2], max |-> Head(mm.max_d)[2]]

Init ==
    /\ hist = [seg |-> [s \in 0..(S - 1) |-> NoCounts], cur |-> 0, n_in_cur |-> 0]
    /\ minmax = [min_d |-> <<>>, max_d |-> <<>>, next |-> 0]
    /\ runs = [d \in Devices |-> 0]
    /\ max_stale = [d \in Devices |-> 0]
    /\ pub = [p50 |-> 0, p99 |-> 0, min |-> 0, max |-> 0]
    /\ log = <<>>

(* record_cycle: a faulted cycle has no measurement and is left out of the *)
(* aggregates; a run of stale cycles ends with a fresh one.                *)
record_cycle(measured, stale) ==
    /\ Len(log) < MaxCycles
    /\ hist' = FoldSet(LAMBDA v, h : hist_record(h, v), hist, measured)
    /\ minmax' = FoldSet(LAMBDA v, d : minmax_record(d, v), minmax, measured)
    /\ pub' = IF measured = {} THEN pub ELSE Publish(hist', minmax')
    /\ runs' = [d \in Devices |-> IF d \in stale THEN runs[d] + 1 ELSE 0]
    /\ max_stale' = [d \in Devices |-> Max({max_stale[d], runs'[d]})]
    /\ log' = Append(log, [measured |-> measured, stale |-> stale])

Next == \E c \in Cycles : record_cycle(c.measured, c.stale)

Spec == Init /\ [][Next]_vars

-----------------------------------------------------------------------------
(* The measurements, oldest first, and the last n of them. *)
Measured == FoldLeft(LAMBDA s, c : s \o SetToSeq(c.measured), <<>>, log)
Recent(n) == SubSeq(Measured, Max({1, Len(Measured) - n + 1}), Len(Measured))

(* The nearest-rank percentile of a sequence of values. *)
NearestRank(s, permille) ==
    LET target == (Len(s) * permille + 999) \div 1000
    IN  Min({v \in ToSet(s) : Cardinality({i \in DOMAIN s : s[i] <= v}) >= target})

(* What is published is what the samples still in the windows say: exact   *)
(* extremes over the last W, and the bucket of the nearest-rank percentile *)
(* over the last whole segments (RollingHistogram, MinMaxDeque); the       *)
(* deques never outgrow the W places they have.                            *)
PublishedIsExact ==
    LET n == count(hist)
        s == Recent(n)
    IN  Measured # <<>> =>
        /\ pub.min = Min(ToSet(Recent(W))) /\ pub.max = Max(ToSet(Recent(W)))
        /\ Len(minmax.min_d) <= W /\ Len(minmax.max_d) <= W
        /\ n = Len(s)
        /\ Len(Measured) >= S * seg_capacity =>
              (S - 1) * seg_capacity < n /\ n <= S * seg_capacity
        /\ \A b \in 0..(BUCKETS - 1) :
              InBucket(hist, b) = Cardinality({i \in DOMAIN s : bucket_index(s[i]) = b})
        /\ pub.p50 = bucket_midpoint(bucket_index(NearestRank(s, 500)))
        /\ pub.p99 = bucket_midpoint(bucket_index(NearestRank(s, 990)))

(* The stale maximum of a device is the longest run of consecutive stale   *)
(* cycles there has been (per_device_max_stale).                           *)
LongestRun ==
    \A d \in Devices :
        max_stale[d] = Max({0} \cup {b - a + 1 : <<a, b>> \in
            {<<x, y>> \in (DOMAIN log) \X (DOMAIN log) :
                x <= y /\ \A i \in x..y : d \in log[i].stale}})

(* The percentage of v by which x is off, at most p. *)
Within(x, v, p) == (IF x > v THEN x - v ELSE v - x) * 100 <= p * v

(* A value, zero counting as one, is in the bucket that starts at or below *)
(* it and the next one does not; the representative of its bucket is       *)
(* within one percent of it from 100 ns on (REQ_0852,                      *)
(* PERCENTILE_MAX_REL_ERR_PCT); and the buckets follow the values.         *)
BucketHolds(v) ==
    LET i == bucket_index(v)
    IN  /\ bucket_lower(i) <= Max({v, 1}) /\ v < bucket_lower((i \div M + 1) * M)
        /\ v >= M => v < bucket_lower(i + 1)
        /\ v >= 100 => Within(bucket_midpoint(i), v, 1)
        /\ i <= bucket_index(v + 1)
==============================================================================
