---------------------------- MODULE J1939TpProofs ----------------------------
(***************************************************************************)
(* The bounds of the inbound sessions hold for any bus, any PGNs, sizes    *)
(* and timers and any loss of frames: an interface holds at most           *)
(* max_sessions of them, and what each has stored is a prefix of what was  *)
(* announced, every packet at its place.                                   *)
(***************************************************************************)
EXTENDS J1939Tp, FiniteSetTheorems, TLAPS

Bounded(S) == IsFiniteSet(S) /\ Cardinality(S) <= conf.sessions

(* What a receiver relies on in a frame that the engines of this bus send. *)
Sound(f) ==
    /\ f.t = "rts" => f.size \in Nat /\ f.limit \in Nat \cup {NoLimit}
    /\ f.t = "cts" => f.num \in Nat /\ f.next \in Nat
    /\ f.t = "dt" /\ f.p # "etp" => f.seq \in Nat /\ f.data[2] = f.seq

SoundSeq(q) == \E S : q \in Seq(S) /\ \A f \in S : Sound(f)

(* An inbound session of node n under key k.  Only ETP.DPO moves the       *)
(* offset, so a packet of the other protocols is stored at its number.     *)
Good(n, k, s) ==
    /\ DOMAIN s = {"us", "size", "next", "window", "offset", "limit", "buf", "idle"}
    /\ s.size \in Nat /\ s.size <= (IF k[1] = "etp" THEN MaxEtp[n] ELSE MaxTp)
    /\ s.next \in 1..s.size
    /\ s.limit \in Nat \cup {NoLimit}
    /\ \E S : s.buf \in Seq(S)
    /\ Len(s.buf) = s.next - 1
    /\ k[1] # "etp" => s.offset = 0 /\ \A i \in 1..Len(s.buf) : s.buf[i][2] = i

(* The tables of an engine, and what a handler leaves behind.              *)
Inbound(n, t) == Bounded(DOMAIN t) /\ \A k \in DOMAIN t : Good(n, k, t[k])

Outbound(t) ==
    /\ IsFiniteSet(DOMAIN t)
    /\ \A k \in DOMAIN t : DOMAIN t[k] = {"msg", "size", "idle"} /\ t[k].size \in Nat

Within(n, r) ==
    /\ DOMAIN r = {"rx", "tx", "out", "done", "acked", "failed", "panic"}
    /\ Inbound(n, r.rx) /\ Outbound(r.tx) /\ SoundSeq(r.out)

(* The frames under way are part of the invariant: a packet is at its      *)
(* place because the one that carried it was numbered like it.             *)
IInv ==
    /\ conf \in Configurations
    /\ DOMAIN rx = Nodes /\ DOMAIN tx = Nodes /\ DOMAIN inbox = Nodes
    /\ \A n \in Nodes : Inbound(n, rx[n]) /\ Outbound(tx[n]) /\ SoundSeq(inbox[n])

LEMMA Sessions == conf \in Configurations => conf.sessions \in Nat \ {0}
BY Instances DEF IsConfiguration

LEMMA Sizes ==
    conf \in Configurations => conf.sizes \subseteq Nat /\ conf.limits \subseteq Nat \cup {NoLimit}
BY Instances DEF IsConfiguration

-----------------------------------------------------------------------------
(* Sequences of sound frames.                                              *)

LEMMA FramesOf == ASSUME NEW S, NEW q \in Seq(S), \A f \in S : Sound(f) PROVE SoundSeq(q)
BY DEF SoundSeq

LEMMA NoFrames == SoundSeq(<<>>)
<1> DEFINE q == <<>>
           S == {}
<1>1. q \in Seq(S)
  BY SMT
<1>2. \A f \in S : Sound(f)
  BY Zenon
<1> HIDE DEF q, S
<1>3. SoundSeq(q)
  BY <1>1, <1>2, FramesOf, Zenon
<1> QED BY <1>3 DEF q

LEMMA OneFrame == ASSUME NEW f, Sound(f) PROVE SoundSeq(<<f>>)
<1> DEFINE q == <<f>>
           S == {f}
<1>1. q \in Seq(S)
  OBVIOUS
<1>2. \A g \in S : Sound(g)
  OBVIOUS
<1> HIDE DEF q, S
<1>3. SoundSeq(q)
  BY <1>1, <1>2, FramesOf
<1> QED BY <1>3 DEF q

LEMMA MoreFrames == ASSUME NEW q, NEW r, SoundSeq(q), SoundSeq(r) PROVE SoundSeq(q \o r)
<1>1. PICK S : q \in Seq(S) /\ \A f \in S : Sound(f)
  BY DEF SoundSeq
<1>2. PICK T : r \in Seq(T) /\ \A f \in T : Sound(f)
  BY DEF SoundSeq
<1>3. q \in Seq(S \cup T) /\ r \in Seq(S \cup T)
  BY <1>1, <1>2
<1>4. q \o r \in Seq(S \cup T)
  BY <1>3
<1>5. \A f \in S \cup T : Sound(f)
  BY <1>1, <1>2
<1> QED BY <1>4, <1>5 DEF SoundSeq

LEMMA NextFrame ==
    ASSUME NEW q, SoundSeq(q), q # <<>>
    PROVE  Sound(Head(q)) /\ SoundSeq(Tail(q))
<1>1. PICK S : q \in Seq(S) /\ \A f \in S : Sound(f)
  BY DEF SoundSeq
<1>2. Head(q) \in S /\ Tail(q) \in Seq(S)
  BY <1>1
<1> QED BY <1>1, <1>2 DEF SoundSeq

(* A function on an interval is a sequence. *)
LEMMA IntervalSeq ==
    ASSUME NEW e \in Int, NEW S, NEW q \in [1..e -> S]
    PROVE  q \in Seq(S)
<1> DEFINE l == IF e < 0 THEN 0 ELSE e
<1>1. l \in Nat /\ 1..l = 1..e
  OBVIOUS
<1>2. q \in [1..l -> S]
  BY <1>1
<1> HIDE DEF l
<1> QED BY <1>1, <1>2

LEMMA PacketsSound ==
    ASSUME NEW p, NEW src, NEW dst, NEW m, NEW first \in Nat, NEW last \in Int, NEW seq0,
           p = "etp" \/ seq0 = first
    PROVE  SoundSeq(Packets(p, src, dst, m, first, last, seq0))
<1> DEFINE Frame(i) == Dt(p, src, dst, seq0 + i - 1, <<m, first + i - 1>>)
           e == last + 1 - first
           S == {Frame(i) : i \in 1..e}
<1>1. e \in Int
  OBVIOUS
<1>2. Packets(p, src, dst, m, first, last, seq0) \in [1..e -> S]
  BY Zenon DEF Packets
<1>3. ASSUME NEW i \in 1..e PROVE Sound(Frame(i))
  <2>1. /\ Frame(i).t = "dt" /\ Frame(i).p = p /\ Frame(i).seq = seq0 + i - 1
        /\ Frame(i).data = <<m, first + i - 1>>
    BY Zenon DEF Dt
  <2>2. <<m, first + i - 1>>[2] = first + i - 1
    OBVIOUS
  <2>3. i \in Int /\ i >= 1
    BY <1>1
  <2>4. first + i - 1 \in Nat
    BY <2>3
  <2> HIDE DEF Frame
  <2> QED BY <2>1, <2>2, <2>4, Zenon DEF Sound
<1>4. \A f \in S : Sound(f)
  BY <1>3, Zenon
<1> HIDE DEF S, e
<1> QED BY <1>1, <1>2, <1>4, IntervalSeq DEF SoundSeq

(* The image of a finite set is finite. *)
LEMMA FiniteImage ==
    ASSUME NEW S, IsFiniteSet(S), NEW g
    PROVE  IsFiniteSet({g[x] : x \in S})
<1> DEFINE T == {g[x] : x \in S}
           h == [x \in S |-> g[x]]
<1>1. h \in Surjection(S, T)
  BY Zenon DEF Surjection
<1> HIDE DEF h, T
<1>2. IsFiniteSet(T)
  BY <1>1, FS_Surjection
<1> QED BY <1>2 DEF T

(* The aborts of a sweep are sent in the order of the hash map. *)
LEMMA SetSound ==
    ASSUME NEW S, IsFiniteSet(S), \A f \in S : Sound(f)
    PROVE  SoundSeq(SetToSeq(S))
<1>1. Cardinality(S) \in Nat /\ ExistsBijection(1..Cardinality(S), S)
  BY FS_CardinalityType
<1>2. \E f \in [1..Cardinality(S) -> S] : IsInjective(f)
  BY <1>1, Zenon DEF ExistsBijection, Bijection, Injection
<1>3. SetToSeq(S) \in [1..Cardinality(S) -> S]
  BY <1>2, Zenon DEF SetToSeq
<1>4. SetToSeq(S) \in Seq(S)
  BY <1>1, <1>3, IntervalSeq
<1> QED BY <1>4 DEF SoundSeq

-----------------------------------------------------------------------------
(* The tables.                                                             *)

LEMMA BoundedSubset ==
    ASSUME conf \in Configurations, NEW S, NEW T \in SUBSET S, Bounded(S)
    PROVE  Bounded(T)
<1>1. /\ IsFiniteSet(T) /\ Cardinality(T) <= Cardinality(S)
      /\ Cardinality(S) \in Nat /\ Cardinality(T) \in Nat
  BY FS_Subset, FS_CardinalityType DEF Bounded
<1> QED BY <1>1, Sessions DEF Bounded

LEMMA BoundedAdd ==
    ASSUME conf \in Configurations, NEW S, NEW x, Bounded(S),
           x \in S \/ ~ (Cardinality(S) >= conf.sessions)
    PROVE  Bounded(S \cup {x})
<1>1. CASE x \in S
  <2>1. S \cup {x} = S
    BY <1>1
  <2> QED BY <2>1
<1>2. CASE x \notin S
  <2>1. /\ IsFiniteSet(S \cup {x}) /\ Cardinality(S \cup {x}) = Cardinality(S) + 1
        /\ Cardinality(S) \in Nat
    BY <1>2, FS_AddElement, FS_CardinalityType DEF Bounded
  <2> QED BY <1>2, <2>1, Sessions DEF Bounded
<1> QED BY <1>1, <1>2

(* A new session opens below the cap, or replaces one of its key. *)
LEMMA PutInbound ==
    ASSUME IInv, NEW n \in Nodes, NEW key, NEW s, ~ Full(n, key), Good(n, key, s)
    PROVE  Inbound(n, Put(rx[n], key, s))
<1>1. DOMAIN Put(rx[n], key, s) = DOMAIN rx[n] \cup {key}
  BY Zenon DEF Put
<1>2. Bounded(DOMAIN rx[n] \cup {key})
  BY BoundedAdd DEF IInv, Full, Inbound
<1>3. \A k \in DOMAIN rx[n] \cup {key} : Put(rx[n], key, s)[k] = IF k = key THEN s ELSE rx[n][k]
  BY Zenon DEF Put
<1>4. \A k \in DOMAIN rx[n] : Good(n, k, rx[n][k])
  BY Zenon DEF IInv, Inbound
<1> QED BY <1>1, <1>2, <1>3, <1>4, Zenon DEF Inbound

LEMMA UpdateInbound ==
    ASSUME NEW n, NEW t, Inbound(n, t), NEW key, NEW s, key \in DOMAIN t => Good(n, key, s)
    PROVE  Inbound(n, [t EXCEPT ![key] = s])
BY Zenon DEF Inbound

LEMMA RestrictInbound ==
    ASSUME IInv, NEW n, NEW t, Inbound(n, t), NEW S \in SUBSET DOMAIN t
    PROVE  Inbound(n, Restrict(t, S))
<1>1. DOMAIN Restrict(t, S) = S /\ \A k \in S : Restrict(t, S)[k] = t[k]
  BY Zenon DEF Restrict
<1>2. Bounded(S)
  BY BoundedSubset DEF Inbound, IInv
<1> QED BY <1>1, <1>2, Zenon DEF Inbound

LEMMA DropInbound ==
    ASSUME IInv, NEW n, NEW t, Inbound(n, t), NEW key
    PROVE  Inbound(n, Drop(t, key))
<1>1. DOMAIN t \ {key} \in SUBSET DOMAIN t
  OBVIOUS
<1> QED BY <1>1, RestrictInbound, Zenon DEF Drop

LEMMA PutOutbound ==
    ASSUME NEW t, Outbound(t), NEW key, NEW m, NEW size \in Nat, NEW idle
    PROVE  Outbound(Put(t, key, [msg |-> m, size |-> size, idle |-> idle]))
<1> DEFINE s == [msg |-> m, size |-> size, idle |-> idle]
<1>1. DOMAIN Put(t, key, s) = DOMAIN t \cup {key}
  BY Zenon DEF Put
<1>2. IsFiniteSet(DOMAIN t \cup {key})
  BY FS_AddElement DEF Outbound
<1>3. \A k \in DOMAIN t \cup {key} : Put(t, key, s)[k] = IF k = key THEN s ELSE t[k]
  BY Zenon DEF Put
<1>4. DOMAIN s = {"msg", "size", "idle"} /\ s.size \in Nat
  BY Zenon
<1> HIDE DEF s
<1>5. Outbound(Put(t, key, s))
  BY <1>1, <1>2, <1>3, <1>4, Zenon DEF Outbound
<1> QED BY <1>5 DEF s

LEMMA RestrictOutbound ==
    ASSUME NEW t, Outbound(t), NEW S \in SUBSET DOMAIN t
    PROVE  Outbound(Restrict(t, S))
<1>1. DOMAIN Restrict(t, S) = S /\ \A k \in S : Restrict(t, S)[k] = t[k]
  BY Zenon DEF Restrict
<1>2. IsFiniteSet(S)
  BY FS_Subset DEF Outbound
<1> QED BY <1>1, <1>2, Zenon DEF Outbound

LEMMA DropOutbound == ASSUME NEW t, Outbound(t), NEW key PROVE Outbound(Drop(t, key))
<1>1. DOMAIN t \ {key} \in SUBSET DOMAIN t
  OBVIOUS
<1> QED BY <1>1, RestrictOutbound, Zenon DEF Drop

(* An outbound session whose timer is held. *)
LEMMA HeldOutbound ==
    ASSUME NEW t, Outbound(t), NEW key, NEW i
    PROVE  Outbound([t EXCEPT ![key].idle = i])
BY Zenon DEF Outbound

-----------------------------------------------------------------------------
(* One inbound session.                                                    *)

LEMMA NewSession ==
    ASSUME NEW n, NEW key, NEW f, NEW window, NEW limit \in Nat \cup {NoLimit},
           f.size \in Nat, f.size >= 1,
           f.size <= (IF key[1] = "etp" THEN MaxEtp[n] ELSE MaxTp)
    PROVE  Good(n, key, Session(f, window, limit))
<1> DEFINE s == Session(f, window, limit)
<1>1. /\ DOMAIN s = {"us", "size", "next", "window", "offset", "limit", "buf", "idle"}
      /\ s.size = f.size /\ s.next = 1 /\ s.limit = limit /\ s.offset = 0 /\ s.buf = <<>>
  BY Zenon DEF Session
<1>2. \E S : <<>> \in Seq(S)
  OBVIOUS
<1>3. Len(<<>>) = 0
  OBVIOUS
<1> HIDE DEF s
<1>4. s.next \in 1..s.size /\ Len(s.buf) = s.next - 1 /\ 1..Len(s.buf) = {}
  BY <1>1, <1>3
<1>5. Good(n, key, s)
  BY <1>1, <1>2, <1>4, Zenon DEF Good
<1> QED BY <1>5 DEF s

LEMMA SameSession ==
    ASSUME NEW n, NEW key, NEW s, Good(n, key, s), NEW t, DOMAIN t = DOMAIN s,
           t.size = s.size, t.next = s.next, t.limit = s.limit, t.buf = s.buf,
           key[1] = "etp" \/ t.offset = s.offset
    PROVE  Good(n, key, t)
BY Zenon DEF Good

LEMMA AnyWindow ==
    ASSUME NEW n, NEW key, NEW s, Good(n, key, s), NEW w
    PROVE  Good(n, key, [s EXCEPT !.window = w])
<1> DEFINE t == [s EXCEPT !.window = w]
<1>1. /\ DOMAIN t = DOMAIN s /\ t.size = s.size /\ t.next = s.next /\ t.limit = s.limit
      /\ t.buf = s.buf /\ t.offset = s.offset
  BY Zenon DEF Good
<1> HIDE DEF t
<1>2. Good(n, key, t)
  BY <1>1, SameSession, Zenon
<1> QED BY <1>2 DEF t

LEMMA AnyIdle ==
    ASSUME NEW n, NEW key, NEW s, Good(n, key, s), NEW i
    PROVE  Good(n, key, [s EXCEPT !.idle = i])
<1> DEFINE t == [s EXCEPT !.idle = i]
<1>1. /\ DOMAIN t = DOMAIN s /\ t.size = s.size /\ t.next = s.next /\ t.limit = s.limit
      /\ t.buf = s.buf /\ t.offset = s.offset
  BY Zenon DEF Good
<1> HIDE DEF t
<1>2. Good(n, key, t)
  BY <1>1, SameSession, Zenon
<1> QED BY <1>2 DEF t

(* The packet that is due is stored at its place. *)
LEMMA TakenGood ==
    ASSUME NEW n, NEW key, NEW s, Good(n, key, s), NEW f, Sound(f), f.t = "dt", key[1] = f.p,
           Accepts(s, f), ~ Completes(Taken(s, f))
    PROVE  Good(n, key, Taken(s, f))
<1> DEFINE t == Taken(s, f)
<1>1. /\ DOMAIN t = DOMAIN s /\ t.size = s.size /\ t.next = s.next + 1 /\ t.limit = s.limit
      /\ t.buf = Append(s.buf, f.data) /\ t.offset = s.offset
  BY Zenon DEF Good, Taken
<1>2. PICK S : s.buf \in Seq(S)
  BY Zenon DEF Good
<1>3. t.size \in Nat /\ s.next \in Nat /\ s.next >= 1 /\ t.next \in 1..t.size
  BY <1>1 DEF Good, Completes
<1>4. s.buf \in Seq(S \cup {f.data})
  BY <1>2
<1>5. /\ t.buf \in Seq(S \cup {f.data}) /\ Len(t.buf) = Len(s.buf) + 1
      /\ \A i \in 1..Len(t.buf) : t.buf[i] = IF i = Len(s.buf) + 1 THEN f.data ELSE s.buf[i]
      /\ Len(s.buf) \in Nat
  BY <1>1, <1>4
<1>6. Len(s.buf) = s.next - 1
  BY DEF Good
<1>7. Len(t.buf) = t.next - 1
  BY <1>1, <1>3, <1>5, <1>6
<1>8. ASSUME key[1] # "etp", NEW i \in 1..Len(t.buf) PROVE t.buf[i][2] = i
  <2>1. f.seq \in Nat /\ f.data[2] = f.seq /\ s.offset = 0
    BY <1>8, Zenon DEF Sound, Good
  <2>2. f.data[2] = s.next
    BY <1>3, <2>1 DEF Accepts
  <2>3. CASE i = Len(s.buf) + 1
    BY <1>3, <1>5, <1>6, <2>2, <2>3
  <2>4. CASE i # Len(s.buf) + 1
    <3>1. i \in 1..Len(s.buf)
      BY <1>5, <2>4
    <3>2. s.buf[i][2] = i
      BY <1>8, <3>1, Zenon DEF Good
    <3> QED BY <1>5, <2>4, <3>2
  <2> QED BY <2>3, <2>4
<1> HIDE DEF t
<1>9. Good(n, key, t)
  <2>1. /\ t.size <= (IF key[1] = "etp" THEN MaxEtp[n] ELSE MaxTp)
        /\ DOMAIN t = {"us", "size", "next", "window", "offset", "limit", "buf", "idle"}
        /\ t.limit \in Nat \cup {NoLimit}
        /\ key[1] # "etp" => t.offset = 0
    BY <1>1, Zenon DEF Good
  <2> QED BY <1>3, <1>5, <1>7, <1>8, <2>1, Zenon DEF Good
<1> QED BY <1>9 DEF t

-----------------------------------------------------------------------------
(* The control frames.                                                     *)

LEMMA ControlSound ==
    ASSUME NEW p, NEW src, NEW dst, NEW pgn, NEW a, NEW b
    PROVE  /\ Sound(Bam(src, pgn, a)) /\ Sound(Dpo(src, dst, pgn, a, b))
           /\ Sound(Eoma(p, src, dst, pgn)) /\ Sound(Abort(p, src, dst, pgn))
<1>1. /\ Bam(src, pgn, a).t = "bam" /\ Dpo(src, dst, pgn, a, b).t = "dpo"
      /\ Eoma(p, src, dst, pgn).t = "eoma" /\ Abort(p, src, dst, pgn).t = "abort"
  BY Zenon DEF Bam, Dpo, Eoma, Abort
<1> QED BY <1>1, Zenon DEF Sound

LEMMA CtsSound ==
    ASSUME NEW p, NEW src, NEW dst, NEW pgn, NEW num \in Nat, NEW next \in Nat
    PROVE  Sound(Cts(p, src, dst, pgn, num, next))
<1> DEFINE f == Cts(p, src, dst, pgn, num, next)
<1>1. f.t = "cts" /\ f.num = num /\ f.next = next
  BY Zenon DEF Cts
<1> HIDE DEF f
<1>2. Sound(f)
  BY <1>1, Zenon DEF Sound
<1> QED BY <1>2 DEF f

LEMMA RtsSound ==
    ASSUME NEW p, NEW src, NEW dst, NEW pgn, NEW size \in Nat, NEW limit \in Nat \cup {NoLimit}
    PROVE  Sound(Rts(p, src, dst, pgn, size, limit))
<1> DEFINE f == Rts(p, src, dst, pgn, size, limit)
<1>1. f.t = "rts" /\ f.size = size /\ f.limit = limit
  BY Zenon DEF Rts
<1> HIDE DEF f
<1>2. Sound(f)
  BY <1>1, Zenon DEF Sound
<1> QED BY <1>2 DEF f

LEMMA Granted ==
    ASSUME NEW remaining \in Int
    PROVE  /\ EtpGrant(remaining) \in Nat
           /\ \A limit \in Nat \cup {NoLimit} : GrantWindow(remaining, limit) \in Nat
BY Timers DEF GrantWindow, EtpGrant, MinOf, MaxOf

-----------------------------------------------------------------------------
(* What a handler leaves behind.                                           *)

LEMMA EngineWithin == ASSUME IInv, NEW n \in Nodes PROVE Within(n, Engine(n))
BY NoFrames, Zenon DEF IInv, Within, Engine

LEMMA AnswerWithin ==
    ASSUME IInv, NEW n \in Nodes, NEW f, Sound(f)
    PROVE  Within(n, [Engine(n) EXCEPT !.out = <<f>>])
<1>1. SoundSeq(<<f>>)
  BY OneFrame
<1> QED BY <1>1, Zenon DEF IInv, Within, Engine

(* The three announces, each behind the same test of the cap. *)
LEMMA OpenWithin ==
    ASSUME IInv, NEW n \in Nodes, NEW key, NEW s, ~ Full(n, key), Good(n, key, s)
    PROVE  /\ Within(n, [Engine(n) EXCEPT !.rx = Put(@, key, s)])
           /\ \A f : Sound(f) =>
                Within(n, [Engine(n) EXCEPT !.rx = Put(@, key, s), !.out = <<f>>])
<1>1. Inbound(n, Put(rx[n], key, s)) /\ Outbound(tx[n])
  BY PutInbound DEF IInv
<1>2. Within(n, [Engine(n) EXCEPT !.rx = Put(@, key, s)])
  BY <1>1, NoFrames, Zenon DEF Within, Engine
<1>3. ASSUME NEW f, Sound(f)
      PROVE  Within(n, [Engine(n) EXCEPT !.rx = Put(@, key, s), !.out = <<f>>])
  <2>1. SoundSeq(<<f>>)
    BY <1>3, OneFrame
  <2> QED BY <1>1, <2>1, Zenon DEF Within, Engine
<1> QED BY <1>2, <1>3, Zenon

LEMMA BamWithin ==
    ASSUME IInv, NEW n \in Nodes, NEW f, NEW r \in OnBamCm(n, f)
    PROVE  Within(n, r)
<1> DEFINE key == <<"bam", f.src, f.pgn>>
<1>1. CASE f.size \notin MinTp..MaxTp \/ Full(n, key)
  BY <1>1, EngineWithin, Zenon DEF OnBamCm
<1>2. CASE ~ (f.size \notin MinTp..MaxTp \/ Full(n, key))
  <2>1. r = [Engine(n) EXCEPT !.rx = Put(@, key, Session(f, 0, NoLimit))]
    BY <1>2, Zenon DEF OnBamCm
  <2>2. f.size \in Nat /\ f.size >= 1 /\ f.size <= MaxTp
    BY <1>2, Timers
  <2>3. key[1] # "etp"
    OBVIOUS
  <2> HIDE DEF key
  <2>4. Good(n, key, Session(f, 0, NoLimit))
    BY <2>2, <2>3, NewSession, Zenon
  <2> QED BY <1>2, <2>1, <2>4, OpenWithin, Zenon
<1> QED BY <1>1, <1>2

LEMMA RtsWithin ==
    ASSUME IInv, NEW n \in Nodes, NEW f, Sound(f), f.t = "rts", NEW r \in OnRts(n, f)
    PROVE  Within(n, r)
<1> DEFINE key == <<"tp", f.src, f.pgn>>
           window == GrantWindow(f.size, f.limit)
<1>1. CASE f.size \notin MinTp..MaxTp
  BY <1>1, EngineWithin, Zenon DEF OnRts
<1>2. CASE f.size \in MinTp..MaxTp /\ Full(n, key)
  BY <1>2, AnswerWithin, ControlSound, Zenon DEF OnRts
<1>3. CASE f.size \in MinTp..MaxTp /\ ~ Full(n, key)
  <2> DEFINE s == Session(f, window, f.limit)
             answer == Cts("tp", f.dst, f.src, f.pgn, window, 1)
  <2>1. r = [Engine(n) EXCEPT !.rx = Put(@, key, s), !.out = <<answer>>]
    BY <1>3, Zenon DEF OnRts
  <2>2. f.size \in Nat /\ f.size \in Int /\ f.size >= 1 /\ f.size <= MaxTp
    BY <1>3, Timers
  <2>3. key[1] # "etp" /\ f.limit \in Nat \cup {NoLimit}
    BY Zenon DEF Sound
  <2>4. window \in Nat
    BY <2>2, <2>3, Granted, Zenon
  <2> HIDE DEF key, window
  <2>5. Good(n, key, s)
    BY <2>2, <2>3, NewSession, Zenon
  <2>6. Sound(answer)
    BY <2>4, CtsSound, 1 \in Nat, Zenon
  <2> HIDE DEF s, answer
  <2> QED BY <1>3, <2>1, <2>5, <2>6, OpenWithin, Zenon
<1> QED BY <1>1, <1>2, <1>3

LEMMA EtpRtsWithin ==
    ASSUME IInv, NEW n \in Nodes, NEW f, Sound(f), f.t = "rts", NEW r \in OnEtpRts(n, f)
    PROVE  Within(n, r)
<1> DEFINE key == <<"etp", f.src, f.pgn>>
<1>1. CASE f.size <= MaxTp
  BY <1>1, EngineWithin, Zenon DEF OnEtpRts
<1>2. CASE ~ (f.size <= MaxTp) /\ (f.size > MaxEtp[n] \/ Full(n, key))
  BY <1>2, AnswerWithin, ControlSound, Zenon DEF OnEtpRts
<1>3. CASE ~ (f.size <= MaxTp) /\ ~ (f.size > MaxEtp[n] \/ Full(n, key))
  <2> DEFINE s == Session(f, 0, NoLimit)
             answer == Cts("etp", f.dst, f.src, f.pgn, EtpGrant(f.size), 1)
  <2>1. r = [Engine(n) EXCEPT !.rx = Put(@, key, s), !.out = <<answer>>]
    BY <1>3, Zenon DEF OnEtpRts
  <2>2. f.size \in Nat
    BY Zenon DEF Sound
  <2>3. MaxEtp[n] \in Nat /\ MaxTp \in Nat
    BY Timers
  <2>4. f.size >= 1 /\ f.size <= MaxEtp[n]
    BY <1>3, <2>2, <2>3
  <2>5. EtpGrant(f.size) \in Nat
    <3>1. f.size \in Int
      BY <2>2
    <3> QED BY <3>1, Granted, Zenon
  <2>6. key[1] = "etp"
    OBVIOUS
  <2> HIDE DEF key
  <2>7. Good(n, key, s)
    BY <2>2, <2>4, <2>6, NewSession, Zenon
  <2>8. Sound(answer)
    BY <2>5, CtsSound, 1 \in Nat, Zenon
  <2> HIDE DEF s, answer
  <2> QED BY <1>3, <2>1, <2>7, <2>8, OpenWithin, Zenon
<1> QED BY <1>1, <1>2, <1>3

(* A packet is stored in a session that is open, or completes and closes it. *)
LEMMA StoreWithin ==
    ASSUME IInv, NEW n \in Nodes, NEW key, NEW s, Good(n, key, s)
    PROVE  /\ Within(n, [Engine(n) EXCEPT !.rx[key] = s])
           /\ \A f : Sound(f) => Within(n, [Engine(n) EXCEPT !.rx[key] = s, !.out = <<f>>])
<1>1. Inbound(n, [rx[n] EXCEPT ![key] = s]) /\ Outbound(tx[n])
  BY UpdateInbound DEF IInv
<1>2. Within(n, [Engine(n) EXCEPT !.rx[key] = s])
  BY <1>1, NoFrames, Zenon DEF Within, Engine
<1>3. ASSUME NEW f, Sound(f) PROVE Within(n, [Engine(n) EXCEPT !.rx[key] = s, !.out = <<f>>])
  <2>1. SoundSeq(<<f>>)
    BY <1>3, OneFrame
  <2> QED BY <1>1, <2>1, Zenon DEF Within, Engine
<1> QED BY <1>2, <1>3, Zenon

LEMMA FinishedWithin ==
    ASSUME IInv, NEW n \in Nodes, NEW key, NEW s
    PROVE  /\ Within(n, Finished(n, key, s))
           /\ \A f : Sound(f) => Within(n, [Finished(n, key, s) EXCEPT !.out = <<f>>])
<1>1. Inbound(n, Drop(rx[n], key)) /\ Outbound(tx[n])
  BY DropInbound DEF IInv
<1>2. Within(n, Finished(n, key, s))
  BY <1>1, NoFrames, Zenon DEF Within, Engine, Finished
<1>3. ASSUME NEW f, Sound(f) PROVE Within(n, [Finished(n, key, s) EXCEPT !.out = <<f>>])
  <2>1. SoundSeq(<<f>>)
    BY <1>3, OneFrame
  <2> QED BY <1>1, <2>1, Zenon DEF Within, Engine, Finished
<1> QED BY <1>2, <1>3

LEMMA PacketWithin ==
    ASSUME IInv, NEW n \in Nodes, NEW f, Sound(f), f.t = "dt",
           NEW key \in DOMAIN rx[n], key[1] = f.p
    PROVE  /\ Within(n, OnBamDt(n, f, key))
           /\ Within(n, OnConnDt(n, f, key))
           /\ Within(n, OnEtpDt(n, f, key))
<1> DEFINE old == rx[n][key]
           s == Taken(old, f)
<1>1. Within(n, Engine(n))
  BY EngineWithin
<1>2. Good(n, key, old)
  BY Zenon DEF IInv, Inbound
<1>3. Accepts(old, f) /\ ~ Completes(s) => Good(n, key, s)
  BY <1>2, TakenGood, Zenon
<1>4. CASE ~ Accepts(old, f)
  BY <1>1, <1>4, Zenon DEF OnBamDt, OnConnDt, OnEtpDt
<1>5. CASE Accepts(old, f) /\ Completes(s)
  BY <1>5, FinishedWithin, ControlSound, Zenon DEF OnBamDt, OnConnDt, OnEtpDt
<1>6. CASE Accepts(old, f) /\ ~ Completes(s)
  <2> DEFINE window == GrantWindow(Left(s), s.limit)
             again == Cts("tp", s.us, f.src, key[3], window, Requested(s))
             etpAgain == Cts("etp", s.us, f.src, key[3], EtpGrant(Left(s)), Requested(s))
  <2>1. Good(n, key, s)
    BY <1>3, <1>6
  <2>2. /\ OnBamDt(n, f, key) = [Engine(n) EXCEPT !.rx[key] = s]
        /\ \/ OnConnDt(n, f, key) = [Engine(n) EXCEPT !.rx[key] = s]
           \/ OnConnDt(n, f, key) = [Engine(n) EXCEPT !.rx[key] = [s EXCEPT !.window = window],
                                                      !.out = <<again>>]
        /\ \/ OnEtpDt(n, f, key) = [Engine(n) EXCEPT !.rx[key] = s]
           \/ OnEtpDt(n, f, key) = [Engine(n) EXCEPT !.rx[key] = s, !.out = <<etpAgain>>]
    BY <1>6, Zenon DEF OnBamDt, OnConnDt, OnEtpDt
  <2> HIDE DEF s
  <2>3. Left(s) \in Int /\ Requested(s) \in Nat /\ s.limit \in Nat \cup {NoLimit}
    BY <2>1 DEF Left, Requested, Good
  <2>4. window \in Nat /\ EtpGrant(Left(s)) \in Nat
    BY <2>3, Granted, Zenon
  <2>5. Sound(again) /\ Sound(etpAgain)
    BY <2>3, <2>4, CtsSound, Zenon
  <2>6. Good(n, key, [s EXCEPT !.window = window])
    BY <2>1, AnyWindow, Zenon
  <2> HIDE DEF window, again, etpAgain
  <2> DEFINE stored == [Engine(n) EXCEPT !.rx[key] = s]
             granted == [Engine(n) EXCEPT !.rx[key] = [s EXCEPT !.window = window],
                                          !.out = <<again>>]
             etpGranted == [Engine(n) EXCEPT !.rx[key] = s, !.out = <<etpAgain>>]
  <2>7. Within(n, stored)
    BY <2>1, StoreWithin, Zenon
  <2>8. Within(n, granted)
    BY <2>5, <2>6, StoreWithin, Zenon
  <2>9. Within(n, etpGranted)
    BY <2>1, <2>5, StoreWithin, Zenon
  <2>10. /\ OnBamDt(n, f, key) = stored
         /\ OnConnDt(n, f, key) \in {stored, granted}
         /\ OnEtpDt(n, f, key) \in {stored, etpGranted}
    BY <2>2, Zenon
  <2> HIDE DEF stored, granted, etpGranted
  <2> QED BY <2>7, <2>8, <2>9, <2>10, Zenon
<1> QED BY <1>4, <1>5, <1>6

LEMMA DtWithin ==
    ASSUME IInv, NEW n \in Nodes, NEW f, Sound(f), f.t = "dt", NEW r \in OnDt(n, f)
    PROVE  Within(n, r)
<1>1. \/ r = Engine(n)
      \/ \E k \in DOMAIN rx[n] :
            k[1] = f.p /\ r \in {OnBamDt(n, f, k), OnConnDt(n, f, k), OnEtpDt(n, f, k)}
  BY Zenon DEF OnDt
<1> QED BY <1>1, EngineWithin, PacketWithin, Zenon

(* ETP.DPO moves the offset of an ETP session only. *)
LEMMA DpoWithin ==
    ASSUME IInv, NEW n \in Nodes, NEW f, NEW r \in OnDpo(n, f)
    PROVE  Within(n, r)
<1> DEFINE key == <<"etp", f.src, f.pgn>>
<1>1. CASE key \notin DOMAIN rx[n]
  BY <1>1, EngineWithin, Zenon DEF OnDpo
<1>2. CASE key \in DOMAIN rx[n]
  <2> DEFINE old == rx[n][key]
             s == [[[old EXCEPT !.offset = f.offset] EXCEPT !.window = f.num] EXCEPT !.idle = 0]
  <2>1. r = [Engine(n) EXCEPT !.rx[key].offset = f.offset, !.rx[key].window = f.num,
                              !.rx[key].idle = 0]
    BY <1>2, Zenon DEF OnDpo
  <2>2. key[1] = "etp"
    OBVIOUS
  <2> HIDE DEF key
  <2>3. Good(n, key, old)
    BY <1>2, Zenon DEF IInv, Inbound
  <2>4. Good(n, key, s)
    <3>1. /\ DOMAIN s = DOMAIN old /\ s.size = old.size /\ s.next = old.next
          /\ s.limit = old.limit /\ s.buf = old.buf
      BY <2>3, Zenon DEF Good
    <3> HIDE DEF s, old
    <3> QED BY <2>2, <2>3, <3>1, SameSession, Zenon
  <2>5. Inbound(n, [rx[n] EXCEPT ![key] = s]) /\ Outbound(tx[n]) /\ Inbound(n, rx[n])
    BY <2>4, UpdateInbound, Zenon DEF IInv
  <2>6. r.rx = [rx[n] EXCEPT ![key] = s]
    BY <1>2, <2>1, Zenon DEF Engine
  <2>7. DOMAIN r = DOMAIN Engine(n) /\ r.tx = tx[n] /\ r.out = <<>>
    BY <2>1, Zenon DEF Engine
  <2>8. DOMAIN Engine(n) = {"rx", "tx", "out", "done", "acked", "failed", "panic"}
    BY Zenon DEF Engine
  <2> HIDE DEF s
  <2> QED BY <2>5, <2>6, <2>7, <2>8, NoFrames, Zenon DEF Within
<1> QED BY <1>1, <1>2

(* A grant is answered by packets of the payload, numbered as they are stored. *)
LEMMA BurstSound ==
    ASSUME NEW n, NEW f, Sound(f), f.t = "cts", NEW s, s.size \in Nat
    PROVE  SoundSeq(DtBurst(n, f, s)) /\ SoundSeq(EtpBurst(n, f, s))
<1> DEFINE last == Burst(s, f.next, f.num)
<1>1. f.next \in Nat /\ f.num \in Nat
  BY Zenon DEF Sound
<1>2. last \in Int
  BY <1>1 DEF Burst, MinOf
<1> HIDE DEF last
<1>3. \A m : SoundSeq(Packets("tp", n, f.src, m, f.next, last, f.next))
  BY <1>1, <1>2, PacketsSound, Zenon
<1>4. \A m : SoundSeq(Packets("etp", n, f.src, m, f.next, last, 1))
  BY <1>1, <1>2, PacketsSound, Zenon
<1>5. SoundSeq(<<Dpo(n, f.src, f.pgn, last + 1 - f.next, f.next - 1)>>)
  BY ControlSound, OneFrame, Zenon
<1>6. SoundSeq(DtBurst(n, f, s))
  BY <1>3, NoFrames, Zenon DEF DtBurst, last
<1>7. SoundSeq(EtpBurst(n, f, s))
  BY <1>4, <1>5, MoreFrames, Zenon DEF EtpBurst, last
<1> QED BY <1>6, <1>7

LEMMA CtsWithin ==
    ASSUME IInv, NEW n \in Nodes, NEW f, Sound(f), f.t = "cts",
           NEW r \in OnCts(n, f) \cup OnEtpCts(n, f)
    PROVE  Within(n, r)
<1>1. \A key, out : SoundSeq(out) =>
        /\ Within(n, [Engine(n) EXCEPT !.tx[key].idle = 0, !.out = out])
        /\ \A panic : Within(n, [Engine(n) EXCEPT !.tx[key].idle = 0, !.panic = panic, !.out = out])
  <2> SUFFICES ASSUME NEW key, NEW out, SoundSeq(out)
               PROVE  /\ Within(n, [Engine(n) EXCEPT !.tx[key].idle = 0, !.out = out])
                      /\ \A panic : Within(n, [Engine(n) EXCEPT !.tx[key].idle = 0,
                                                                !.panic = panic, !.out = out])
    BY Zenon
  <2>1. Inbound(n, rx[n]) /\ Outbound([tx[n] EXCEPT ![key].idle = 0])
    BY HeldOutbound, Zenon DEF IInv
  <2> QED BY <2>1, Zenon DEF Within, Engine
<1>2. ASSUME NEW key \in DOMAIN tx[n] PROVE tx[n][key].size \in Nat
  BY <1>2, Zenon DEF IInv, Outbound
<1>3. CASE r \in OnCts(n, f)
  <2> DEFINE key == <<"tp", f.src, f.pgn>>
             out == IF f.num = 0 THEN <<>> ELSE DtBurst(n, f, tx[n][key])
  <2>1. CASE key \notin DOMAIN tx[n]
    BY <1>3, <2>1, EngineWithin, Zenon DEF OnCts
  <2>2. CASE key \in DOMAIN tx[n]
    <3>1. r = [Engine(n) EXCEPT !.tx[key].idle = 0, !.out = out]
      BY <1>3, <2>2, Zenon DEF OnCts
    <3>2. SoundSeq(out)
      BY <1>2, <2>2, BurstSound, NoFrames, Zenon
    <3> HIDE DEF key, out
    <3> QED BY <1>1, <3>1, <3>2, Zenon
  <2> QED BY <2>1, <2>2
<1>4. CASE r \in OnEtpCts(n, f)
  <2> DEFINE key == <<"etp", f.src, f.pgn>>
             past == f.next > tx[n][key].size
             out == IF f.num = 0 \/ past THEN <<>> ELSE EtpBurst(n, f, tx[n][key])
  <2>1. CASE key \notin DOMAIN tx[n]
    BY <1>4, <2>1, EngineWithin, Zenon DEF OnEtpCts
  <2>2. CASE key \in DOMAIN tx[n]
    <3>1. r = [Engine(n) EXCEPT !.tx[key].idle = 0, !.panic = f.num # 0 /\ past, !.out = out]
      BY <1>4, <2>2, Zenon DEF OnEtpCts
    <3>2. SoundSeq(out)
      BY <1>2, <2>2, BurstSound, NoFrames, Zenon
    <3> HIDE DEF key, past, out
    <3> QED BY <1>1, <3>1, <3>2, Zenon
  <2> QED BY <2>1, <2>2
<1> QED BY <1>3, <1>4

LEMMA EndWithin ==
    ASSUME IInv, NEW n \in Nodes, NEW f, NEW r \in OnEoma(n, f) \cup OnAbort(n, f)
    PROVE  Within(n, r)
<1> DEFINE key == <<f.p, f.src, f.pgn>>
<1>1. Inbound(n, rx[n]) /\ Outbound(tx[n])
  BY Zenon DEF IInv
<1>2. Inbound(n, Drop(rx[n], key)) /\ Outbound(Drop(tx[n], key))
  BY <1>1, DropInbound, DropOutbound, Zenon
<1>3. \A a : Within(n, [Engine(n) EXCEPT !.tx = Drop(@, key), !.acked = a])
  BY <1>1, <1>2, NoFrames, Zenon DEF Within, Engine
<1>4. \A a : Within(n, [Engine(n) EXCEPT !.rx = Drop(@, key), !.tx = Drop(@, key), !.failed = a])
  BY <1>2, NoFrames, Zenon DEF Within, Engine
<1>5. CASE r \in OnEoma(n, f)
  BY <1>3, <1>5, EngineWithin, Zenon DEF OnEoma
<1>6. CASE r \in OnAbort(n, f)
  BY <1>4, <1>6, Zenon DEF OnAbort
<1> QED BY <1>5, <1>6

LEMMA FrameWithin ==
    ASSUME IInv, NEW n \in Nodes, NEW f, Sound(f), NEW r \in OnFrame(n, f)
    PROVE  Within(n, r)
<1>1. \/ r \in OnBamCm(n, f)
      \/ f.t = "rts" /\ r \in OnRts(n, f)
      \/ f.t = "rts" /\ r \in OnEtpRts(n, f)
      \/ r \in OnDpo(n, f)
      \/ f.t = "dt" /\ r \in OnDt(n, f)
      \/ f.t = "cts" /\ r \in OnCts(n, f) \cup OnEtpCts(n, f)
      \/ r \in OnEoma(n, f) \cup OnAbort(n, f)
      \/ r = Engine(n)
  BY Zenon DEF OnFrame
<1> QED BY <1>1, BamWithin, RtsWithin, EtpRtsWithin, DpoWithin, DtWithin, CtsWithin, EndWithin,
           EngineWithin, Zenon

(* The sweep only removes sessions, and tells their peers. *)
LEMMA PollWithin ==
    ASSUME IInv, NEW n \in Nodes, NEW r, Within(n, r)
    PROVE  Within(n, PollTimeouts(n, r))
<1> DEFINE old == {x \in ExpiredRx(r) : x[1] # "bam"}
           rxAbort == [k \in old |-> Abort(k[1], r.rx[k].us, k[2], k[3])]
           txAbort == [k \in ExpiredTx(r) |-> Abort(k[1], n, k[2], k[3])]
           rxAborts == {Abort(k[1], r.rx[k].us, k[2], k[3]) : k \in old}
           txAborts == {Abort(k[1], n, k[2], k[3]) : k \in ExpiredTx(r)}
<1>1. old \in SUBSET DOMAIN r.rx /\ ExpiredTx(r) \in SUBSET DOMAIN r.tx
  BY Zenon DEF ExpiredRx, ExpiredTx
<1>2. IsFiniteSet(DOMAIN r.rx) /\ IsFiniteSet(DOMAIN r.tx)
  BY Zenon DEF Within, Inbound, Outbound, Bounded
<1>3. IsFiniteSet(old) /\ IsFiniteSet(ExpiredTx(r))
  BY <1>1, <1>2, FS_Subset
<1>4. /\ rxAborts = {rxAbort[k] : k \in old}
      /\ txAborts = {txAbort[k] : k \in ExpiredTx(r)}
  BY Zenon
<1>5. IsFiniteSet(rxAborts) /\ IsFiniteSet(txAborts)
  <2> HIDE DEF old, rxAbort, txAbort, rxAborts, txAborts
  <2> QED BY <1>3, <1>4, FiniteImage, Zenon
<1>6. (\A f \in rxAborts : Sound(f)) /\ \A f \in txAborts : Sound(f)
  BY ControlSound, Zenon
<1>7. PollTimeouts(n, r) =
        [r EXCEPT !.rx = Restrict(@, DOMAIN @ \ ExpiredRx(r)),
                  !.tx = Restrict(@, DOMAIN @ \ ExpiredTx(r)),
                  !.out = @ \o SetToSeq(rxAborts) \o SetToSeq(txAborts),
                  !.failed = @ \cup {r.tx[k].msg : k \in ExpiredTx(r)}]
  BY Zenon DEF PollTimeouts
<1> HIDE DEF rxAborts, txAborts
<1>8. SoundSeq(r.out \o SetToSeq(rxAborts) \o SetToSeq(txAborts))
  <2>1. SoundSeq(SetToSeq(rxAborts)) /\ SoundSeq(SetToSeq(txAborts))
    BY <1>5, <1>6, SetSound, Zenon
  <2>2. SoundSeq(r.out)
    BY Zenon DEF Within
  <2> QED BY <2>1, <2>2, MoreFrames, Zenon
<1>9. DOMAIN r.rx \ ExpiredRx(r) \in SUBSET DOMAIN r.rx
  OBVIOUS
<1>10. DOMAIN r.tx \ ExpiredTx(r) \in SUBSET DOMAIN r.tx
  OBVIOUS
<1>11. Inbound(n, Restrict(r.rx, DOMAIN r.rx \ ExpiredRx(r)))
  BY <1>9, RestrictInbound, Zenon DEF Within
<1>12. Outbound(Restrict(r.tx, DOMAIN r.tx \ ExpiredTx(r)))
  BY <1>10, RestrictOutbound, Zenon DEF Within
<1>13. DOMAIN r = {"rx", "tx", "out", "done", "acked", "failed", "panic"}
  BY Zenon DEF Within
<1>14. LET q == PollTimeouts(n, r)
       IN  /\ DOMAIN q = DOMAIN r
           /\ q.rx = Restrict(r.rx, DOMAIN r.rx \ ExpiredRx(r))
           /\ q.tx = Restrict(r.tx, DOMAIN r.tx \ ExpiredTx(r))
           /\ q.out = r.out \o SetToSeq(rxAborts) \o SetToSeq(txAborts)
  BY <1>7, <1>13, Zenon
<1> QED BY <1>8, <1>11, <1>12, <1>13, <1>14, Zenon DEF Within

-----------------------------------------------------------------------------
(* The steps.                                                              *)

LEMMA TransmitSound ==
    ASSUME NEW n, NEW queues, NEW frames, SoundSeq(frames),
           \A k \in Nodes : SoundSeq(queues[k])
    PROVE  LET q == Transmit(n, queues, frames)
           IN  DOMAIN q = Nodes /\ \A k \in Nodes : SoundSeq(q[k])
<1>1. \A k \in Nodes : SoundSeq(queues[k] \o frames)
  BY MoreFrames, Zenon
<1> QED BY <1>1, Zenon DEF Transmit

LEMMA CommitStep ==
    ASSUME IInv, NEW n \in Nodes, NEW r, Within(n, r),
           NEW queues, \A k \in Nodes : SoundSeq(queues[k]), Commit(n, r, queues)
    PROVE  IInv'
<1>1. /\ rx' = [rx EXCEPT ![n] = r.rx] /\ tx' = [tx EXCEPT ![n] = r.tx]
      /\ inbox' = Transmit(n, queues, r.out) /\ conf' = conf
  BY DEF Commit
<1>2. Inbound(n, r.rx) /\ Outbound(r.tx) /\ SoundSeq(r.out)
  BY Zenon DEF Within
<1>3. DOMAIN inbox' = Nodes /\ \A k \in Nodes : SoundSeq(inbox'[k])
  BY <1>1, <1>2, TransmitSound, Zenon
<1>4. DOMAIN rx' = Nodes /\ \A k \in Nodes : Inbound(k, rx'[k])
  BY <1>1, <1>2, Zenon DEF IInv
<1>5. DOMAIN tx' = Nodes /\ \A k \in Nodes : Outbound(tx'[k])
  BY <1>1, <1>2, Zenon DEF IInv
<1> QED BY <1>1, <1>3, <1>4, <1>5, Zenon DEF IInv, Inbound, Bounded

LEMMA SegmentStep ==
    ASSUME IInv, NEW n \in Nodes, NEW pgn, NEW size \in conf.sizes, SegmentOutbound(n, pgn, size)
    PROVE  IInv'
<1> DEFINE m == Len(msgs) + 1
           frames == <<Bam(n, pgn, size)>> \o Packets("bam", n, Global, m, 1, size, 1)
<1>1. inbox' = Transmit(n, inbox, frames) /\ UNCHANGED <<conf, rx, tx>>
  BY Zenon DEF SegmentOutbound
<1>2. size \in Int /\ 1 \in Nat
  BY Sizes DEF IInv
<1>3. SoundSeq(<<Bam(n, pgn, size)>>)
  BY ControlSound, OneFrame, Zenon
<1>4. SoundSeq(Packets("bam", n, Global, m, 1, size, 1))
  BY <1>2, PacketsSound, Zenon
<1>5. SoundSeq(frames)
  BY <1>3, <1>4, MoreFrames, Zenon
<1> HIDE DEF frames
<1>6. \A k \in Nodes : SoundSeq(inbox[k])
  BY Zenon DEF IInv
<1>7. DOMAIN inbox' = Nodes /\ \A k \in Nodes : SoundSeq(inbox'[k])
  BY <1>1, <1>5, <1>6, TransmitSound, Zenon
<1> QED BY <1>1, <1>7, Zenon DEF IInv, Inbound, Bounded

LEMMA StartStep ==
    ASSUME IInv, NEW n \in Nodes, NEW p, NEW dest, NEW pgn, NEW size \in conf.sizes,
           NEW limit \in conf.limits, StartOutbound(n, p, dest, pgn, size, limit)
    PROVE  IInv'
<1> DEFINE session == [msg |-> Len(msgs) + 1, size |-> size, idle |-> 0]
           frames == <<Rts(p, n, dest, pgn, size, limit)>>
           key == <<p, dest, pgn>>
<1>1. /\ tx' = [tx EXCEPT ![n] = Put(tx[n], key, session)]
      /\ inbox' = Transmit(n, inbox, frames) /\ UNCHANGED <<conf, rx>>
  BY Zenon DEF StartOutbound
<1>2. size \in Nat /\ limit \in Nat \cup {NoLimit}
  BY Sizes DEF IInv
<1>3. SoundSeq(frames)
  BY <1>2, RtsSound, OneFrame, Zenon
<1>4. Outbound(Put(tx[n], key, session))
  BY <1>2, PutOutbound, Zenon DEF IInv
<1> HIDE DEF session, frames, key
<1>5. \A k \in Nodes : SoundSeq(inbox[k])
  BY Zenon DEF IInv
<1>6. DOMAIN inbox' = Nodes /\ \A k \in Nodes : SoundSeq(inbox'[k])
  BY <1>1, <1>3, <1>5, TransmitSound, Zenon
<1>7. DOMAIN tx' = Nodes /\ \A k \in Nodes : Outbound(tx'[k])
  BY <1>1, <1>4, Zenon DEF IInv
<1> QED BY <1>1, <1>6, <1>7, Zenon DEF IInv, Inbound, Bounded

LEMMA ReceiveStep == ASSUME IInv, NEW n \in Nodes, Receive(n) PROVE IInv'
<1> DEFINE queues == [inbox EXCEPT ![n] = Tail(inbox[n])]
<1>1. PICK r \in OnFrame(n, Head(inbox[n])) :
         Commit(n, IF r.panic THEN r ELSE PollTimeouts(n, r), queues)
  BY Zenon DEF Receive
<1>2. Sound(Head(inbox[n])) /\ SoundSeq(Tail(inbox[n]))
  BY NextFrame, Zenon DEF Receive, IInv
<1>3. \A k \in Nodes : SoundSeq(queues[k])
  BY <1>2, Zenon DEF IInv
<1>4. Within(n, r)
  BY <1>2, FrameWithin, Zenon
<1>5. Within(n, IF r.panic THEN r ELSE PollTimeouts(n, r))
  BY <1>4, PollWithin, Zenon
<1> HIDE DEF queues
<1> QED BY <1>1, <1>3, <1>5, CommitStep, Zenon

LEMMA PollStep == ASSUME IInv, NEW n \in Nodes, Poll(n) PROVE IInv'
<1>1. Within(n, PollTimeouts(n, Engine(n)))
  BY EngineWithin, PollWithin, Zenon
<1>2. \A k \in Nodes : SoundSeq(inbox[k])
  BY Zenon DEF IInv
<1> QED BY <1>1, <1>2, CommitStep, Zenon DEF Poll

LEMMA LoseStep == ASSUME IInv, NEW n \in Nodes, Lose(n) PROVE IInv'
<1>1. inbox' = [inbox EXCEPT ![n] = Tail(inbox[n])] /\ UNCHANGED <<conf, rx, tx>>
  BY Zenon DEF Lose
<1>2. SoundSeq(Tail(inbox[n]))
  BY NextFrame, Zenon DEF Lose, IInv
<1>3. DOMAIN inbox' = Nodes /\ \A k \in Nodes : SoundSeq(inbox'[k])
  BY <1>1, <1>2, Zenon DEF IInv
<1> QED BY <1>1, <1>3, Zenon DEF IInv, Inbound, Bounded

LEMMA TickStep == ASSUME IInv, Tick PROVE IInv'
<1>1. /\ rx' = [n \in Nodes |-> Older(rx[n])] /\ tx' = [n \in Nodes |-> Older(tx[n])]
      /\ UNCHANGED <<conf, inbox>>
  BY Zenon DEF Tick
<1>2. ASSUME NEW n \in Nodes PROVE Inbound(n, Older(rx[n]))
  <2>1. Inbound(n, rx[n])
    BY Zenon DEF IInv
  <2>2. /\ DOMAIN Older(rx[n]) = DOMAIN rx[n]
        /\ \A k \in DOMAIN rx[n] :
             Older(rx[n])[k] = [rx[n][k] EXCEPT !.idle = MinOf(rx[n][k].idle + 1, MaxIdle)]
    BY Zenon DEF Older
  <2>3. ASSUME NEW k \in DOMAIN rx[n] PROVE Good(n, k, Older(rx[n])[k])
    <3>1. Good(n, k, rx[n][k])
      BY <2>1, Zenon DEF Inbound
    <3>2. \A i : Good(n, k, [rx[n][k] EXCEPT !.idle = i])
      BY <3>1, AnyIdle, Zenon
    <3> QED BY <2>2, <3>2, Zenon
  <2> QED BY <2>1, <2>2, <2>3, Zenon DEF Inbound
<1>3. ASSUME NEW n \in Nodes PROVE Outbound(Older(tx[n]))
  <2>1. Outbound(tx[n])
    BY Zenon DEF IInv
  <2>2. /\ DOMAIN Older(tx[n]) = DOMAIN tx[n]
        /\ \A k \in DOMAIN tx[n] :
             Older(tx[n])[k] = [tx[n][k] EXCEPT !.idle = MinOf(tx[n][k].idle + 1, MaxIdle)]
    BY Zenon DEF Older
  <2> QED BY <2>1, <2>2, Zenon DEF Outbound
<1>4. DOMAIN rx' = Nodes /\ \A n \in Nodes : Inbound(n, rx'[n])
  BY <1>1, <1>2, Zenon
<1>5. DOMAIN tx' = Nodes /\ \A n \in Nodes : Outbound(tx'[n])
  BY <1>1, <1>3, Zenon
<1> QED BY <1>1, <1>4, <1>5, Zenon DEF IInv, Inbound, Bounded

LEMMA Inductive == IInv /\ [Next]_vars => IInv'
<1> SUFFICES ASSUME IInv, [Next]_vars PROVE IInv'
  OBVIOUS
<1>1. CASE UNCHANGED vars
  BY <1>1, Zenon DEF vars, IInv, Inbound, Bounded
<1> QED BY <1>1, SegmentStep, StartStep, ReceiveStep, PollStep, LoseStep, TickStep, Zenon
        DEF Next, Iterate

(* total_inbound in on_bam_cm, on_rts and on_etp_rts, and the checks of    *)
(* on_bam_dt, on_conn_dt and on_etp_dt: an interface never holds more than *)
(* max_sessions inbound sessions over the three protocols together, and    *)
(* each has stored fewer packets than were announced, in sequence and,     *)
(* outside ETP, every packet at the place of its number; for any number of *)
(* nodes, PGNs, sizes and transfers, whatever is lost, late or sent again. *)
THEOREM SessionsSafe == Spec => []SessionBound
<1>1. Init => IInv
  <2> SUFFICES ASSUME Init PROVE IInv
    OBVIOUS
  <2>1. /\ DOMAIN rx = Nodes /\ \A n \in Nodes : DOMAIN rx[n] = {}
        /\ DOMAIN tx = Nodes /\ \A n \in Nodes : DOMAIN tx[n] = {}
        /\ DOMAIN inbox = Nodes /\ \A n \in Nodes : inbox[n] = <<>>
        /\ conf \in Configurations
    BY Zenon DEF Init, Empty
  <2>2. Bounded({}) /\ IsFiniteSet({})
    BY <2>1, Sessions, FS_EmptySet DEF Bounded
  <2>3. \A n \in Nodes : Inbound(n, rx[n]) /\ Outbound(tx[n])
    BY <2>1, <2>2, Zenon DEF Inbound, Outbound
  <2> QED BY <2>1, <2>3, NoFrames, Zenon DEF IInv
<1>2. IInv => SessionBound
  <2>1. ASSUME NEW n, NEW k, NEW s, Good(n, k, s) PROVE Reassembling(n, k, s)
    BY <2>1, Zenon DEF Good, Reassembling
  <2> QED BY <2>1, Zenon DEF IInv, Inbound, Bounded, SessionBound
<1> QED BY <1>1, <1>2, Inductive, PTL DEF Spec
=============================================================================
