----------------------------- MODULE PlantProofs -----------------------------
(***************************************************************************)
(* A lock of the diagnostics gateway that has not expired is safe from     *)
(* other clients, for any number of handlers, clients and entities, any    *)
(* expirations and any number of requests that were overtaken between      *)
(* their reading of the clock and the registry's mutex.                    *)
(*                                                                         *)
(* The tables that the tools generate from a network configuration guard   *)
(* every output and keep the slices of channels apart (BusConfig), for any *)
(* document and any units of time.                                         *)
(***************************************************************************)
EXTENDS MedkitLocks, SequenceTheorems, WellFoundedInduction, TLAPS

IInv == TypeOK /\ ReadIsPast

(* The steps of a request under the mutex. *)
Serve(h) == acquire(h) \/ extend(h) \/ release(h) \/ look(h)

-----------------------------------------------------------------------------
(* What a request that is served writes: nothing, one entry under the key  *)
(* it names, or the removal of that entry.                                 *)
LEMMA ServeWrites ==
    ASSUME IInv, NEW h \in Handlers, Serve(h)
    PROVE  /\ req[h] \in RequestType /\ req' = [req EXCEPT ![h] = NoCall]
           /\ clock' = clock /\ next' = next
           /\ \/ locks' = locks
              \/ /\ req[h].op \in {"acquire", "extend"}
                 /\ locks' = Put(req[h].key, [lock_id |-> req[h].lock_id,
                                              holder |-> req[h].holder,
                                              expires_at |-> req[h].now + req[h].ttl])
              \/ locks' = [x \in DOMAIN locks \ {req[h].key} |-> locks[x]]
<1> DEFINE r == req[h]
<1>1. r # NoCall /\ req' = [req EXCEPT ![h] = NoCall] /\ clock' = clock /\ next' = next
  BY DEF Serve, acquire, extend, release, look, Done
<1>2. r \in RequestType
  BY <1>1 DEF IInv, TypeOK
<1>3. CASE acquire(h)
  BY <1>1, <1>2, <1>3 DEF acquire
<1>4. CASE extend(h)
  BY <1>1, <1>2, <1>4 DEF extend
<1>5. CASE release(h)
  BY <1>1, <1>2, <1>5 DEF release
<1>6. CASE look(h)
  BY <1>1, <1>2, <1>6 DEF look
<1> QED BY <1>3, <1>4, <1>5, <1>6 DEF Serve

LEMMA ServeStep ==
    ASSUME IInv, NEW h \in Handlers, Serve(h)
    PROVE  IInv'
<1> DEFINE r == req[h]
<1>1. /\ r \in RequestType /\ req' = [req EXCEPT ![h] = NoCall]
      /\ clock' = clock /\ next' = next
  BY ServeWrites, Zenon
<1>2. r.key \in Keys /\ r.holder \in Clients /\ r.now + r.ttl \in Nat /\ r.lock_id \in Nat
  <2>1. r.key \in Keys /\ r.holder \in Clients /\ r.now \in Nat /\ r.ttl \in Ttls /\ r.lock_id \in Nat
    BY <1>1 DEF RequestType
  <2>2. r.ttl \in Nat
    BY <2>1, LocksAssumption, Zenon
  <2> QED BY <2>1, <2>2, SMT
<1>3. /\ req' \in [Handlers -> {NoCall} \cup RequestType]
      /\ \A g \in Handlers : req'[g] # NoCall => req'[g].now <= clock'
  BY <1>1, SMT DEF IInv, TypeOK, ReadIsPast
<1>4. /\ DOMAIN locks' \subseteq Keys
      /\ \A k \in DOMAIN locks' : locks'[k] \in Entries
  <2>1. CASE locks' = locks
    BY <2>1 DEF IInv, TypeOK
  <2>2. CASE /\ r.op \in {"acquire", "extend"}
             /\ locks' = Put(r.key, [lock_id |-> r.lock_id, holder |-> r.holder,
                                     expires_at |-> r.now + r.ttl])
    BY <1>2, <2>2, SMT DEF Put, Entries, IInv, TypeOK
  <2>3. CASE locks' = [x \in DOMAIN locks \ {r.key} |-> locks[x]]
    BY <2>3, SMT DEF IInv, TypeOK
  <2> QED BY <2>1, <2>2, <2>3, ServeWrites
<1> QED BY <1>1, <1>3, <1>4 DEF IInv, TypeOK, ReadIsPast

LEMMA ReceiveStep ==
    ASSUME IInv, NEW h \in Handlers, NEW r \in Requests, Receive(h, r)
    PROVE  IInv'
<1>1. r \in RequestType /\ r.now = clock /\ next' \in Nat
  BY LocksAssumption, SMT DEF Receive, Requests, RequestType, IInv, TypeOK
<1>2. req' = [req EXCEPT ![h] = r] /\ clock' = clock /\ locks' = locks
  BY DEF Receive
<1>3. /\ req' \in [Handlers -> {NoCall} \cup RequestType]
      /\ \A g \in Handlers : req'[g] # NoCall => req'[g].now <= clock'
  BY <1>1, <1>2, SMT DEF IInv, TypeOK, ReadIsPast
<1> QED BY <1>1, <1>2, <1>3 DEF IInv, TypeOK, ReadIsPast

LEMMA AdvanceStep ==
    ASSUME IInv, Advance
    PROVE  IInv'
<1>1. clock' \in Nat /\ clock <= clock' /\ next' = next /\ locks' = locks /\ req' = req
  BY SMT DEF Advance, IInv, TypeOK
<1>2. ReadIsPast'
  <2> SUFFICES ASSUME NEW h \in Handlers, req[h] # NoCall PROVE req[h].now <= clock'
    BY <1>1 DEF ReadIsPast
  <2>1. req[h].now \in Nat /\ req[h].now <= clock
    BY SMT DEF IInv, TypeOK, ReadIsPast, RequestType
  <2> QED BY <1>1, <2>1, SMT DEF IInv, TypeOK
<1> QED BY <1>1, <1>2 DEF IInv, TypeOK

LEMMA Inductive == Spec => []IInv
<1>1. Init => IInv
  BY SMT DEF Init, IInv, TypeOK, ReadIsPast
<1>2. IInv /\ [Next]_vars => IInv'
  <2> SUFFICES ASSUME IInv, [Next]_vars PROVE IInv'
    OBVIOUS
  <2>1. CASE Advance
    BY <2>1, AdvanceStep
  <2>2. ASSUME NEW h \in Handlers, NEW r \in Requests, Receive(h, r) PROVE IInv'
    BY <2>2, ReceiveStep
  <2>3. ASSUME NEW h \in Handlers, Serve(h) PROVE IInv'
    BY <2>3, ServeStep
  <2>4. CASE UNCHANGED vars
    BY <2>4 DEF vars, IInv, TypeOK, ReadIsPast
  <2> QED BY <2>1, <2>2, <2>3, <2>4 DEF Next, Serve
<1> QED BY <1>1, <1>2, PTL DEF Spec

-----------------------------------------------------------------------------
(* A request that changes a live lock is its holder's, or breaks it: what  *)
(* it compared the expiry with is not later than the clock.                *)
LEMMA ServeKeeps ==
    ASSUME IInv, NEW h \in Handlers, Serve(h)
    PROVE  KeepsLive
<1> DEFINE r == req[h]
<1>1. r \in RequestType /\ r # NoCall /\ req'[h] = NoCall
  <2>1. r \in RequestType /\ req' = [req EXCEPT ![h] = NoCall]
    BY ServeWrites, Zenon
  <2>2. r # NoCall
    BY <2>1, LocksAssumption
  <2> QED BY <2>1, <2>2 DEF IInv, TypeOK
<1>2. r.now \in Nat /\ r.now <= clock /\ clock \in Nat
  BY <1>1, SMT DEF IInv, TypeOK, ReadIsPast, RequestType
<1> SUFFICES ASSUME NEW k \in DOMAIN locks, locks[k].expires_at > clock,
                    ~(k \in DOMAIN locks' /\ locks'[k] = locks[k])
             PROVE  r.holder = locks[k].holder \/ (r.op = "acquire" /\ r.break_lock)
  BY <1>1 DEF KeepsLive, Acts
<1>3. k = r.key
  <2> SUFFICES ASSUME k # r.key PROVE k \in DOMAIN locks' /\ locks'[k] = locks[k]
    OBVIOUS
  <2>1. CASE locks' = locks
    BY <2>1
  <2>2. CASE locks' = Put(r.key, [lock_id |-> r.lock_id, holder |-> r.holder,
                                  expires_at |-> r.now + r.ttl])
    BY <2>2 DEF Put
  <2>3. CASE locks' = [x \in DOMAIN locks \ {r.key} |-> locks[x]]
    BY <2>3
  <2> QED BY <2>1, <2>2, <2>3, ServeWrites, SMTT(20)
<1>4. locks[k].expires_at > r.now
  <2>1. locks[k].expires_at \in Nat
    BY SMT DEF IInv, TypeOK, Entries
  <2> QED BY <1>2, <2>1, SMT
<1>5. locks' # locks
  OBVIOUS
<1>6. CASE acquire(h)
  BY <1>3, <1>4, <1>5, <1>6 DEF acquire
<1>7. CASE extend(h)
  BY <1>3, <1>5, <1>7 DEF extend
<1>8. CASE release(h)
  BY <1>3, <1>5, <1>8 DEF release
<1>9. CASE look(h)
  BY <1>5, <1>9 DEF look
<1> QED BY <1>6, <1>7, <1>8, <1>9 DEF Serve

(* However late a request reaches the registry, a lock that has not        *)
(* expired is changed only by its holder or by an acquire with break_lock. *)
THEOREM LiveLocksSafe == Spec => LiveLockIsKept
<1>1. IInv /\ [Next]_vars => [KeepsLive]_vars
  <2> SUFFICES ASSUME IInv, [Next]_vars PROVE [KeepsLive]_vars
    OBVIOUS
  <2>1. CASE locks' = locks
    BY <2>1 DEF KeepsLive
  <2>2. ASSUME NEW h \in Handlers, Serve(h) PROVE KeepsLive
    BY <2>2, ServeKeeps
  <2> QED BY <2>1, <2>2 DEF Next, Serve, Advance, Receive, vars
<1> QED BY <1>1, Inductive, PTL DEF Spec, LiveLockIsKept

-----------------------------------------------------------------------------
(***************************************************************************)
(* The tables that the configuration tools generate, for every document,   *)
(* every size of the registers and every tick.  The invariant says that    *)
(* each stage has what the earlier ones checked: parse the watchdogs,      *)
(* validate the channels.                                                  *)
(***************************************************************************)
CONSTANTS Documents, None, Tick, Ms, MaxU16, MaxU32, SdoMin, SdoMax, FirstAddress, OverflowChecks
VARIABLES doc, stage, error, config, generated

Net == INSTANCE BusConfig

Less == {p \in Nat \X Nat : p[1] < p[2]}

(* A set of numbers has a least element. *)
LEMMA MinInSet ==
    ASSUME NEW S \in SUBSET Nat, S # {}
    PROVE  Net!Min(S) \in S /\ \A y \in S : Net!Min(S) <= y
<1>1. IsWellFoundedOn(Less, Nat)
  BY NatLessThanWellFounded, Zenon DEF OpToRel, Less
<1>2. PICK x \in S : \A y \in S : ~ (<<y, x>> \in Less)
  BY <1>1, WFMin, Zenon
<1>3. ASSUME NEW y \in S PROVE x <= y
  <2>1. ~ (y < x)
    BY <1>2, Zenon DEF Less
  <2> QED BY <2>1, SMT
<1> QED BY <1>3, Zenon DEF Net!Min

(* The length of a sequence that is written as a function. *)
LEMMA LenOfFunction ==
    ASSUME NEW n \in Nat, NEW f, f = [i \in 1..n |-> f[i]]
    PROVE  Len(f) = n
<1>1. f \in [1..n -> {f[i] : i \in 1..n}]
  OBVIOUS
<1>2. f \in Seq({f[i] : i \in 1..n})
  BY <1>1, SeqDef
<1>3. Len(f) \in Nat /\ DOMAIN f = 1..Len(f)
  BY <1>2, LenProperties, Zenon
<1>4. DOMAIN f = 1..n
  BY <1>1
<1> QED BY <1>3, <1>4, SMT

(* FirstError finds an error if there is one. *)
LEMMA FirstErrorNone ==
    ASSUME NEW n \in Nat, NEW f, f = [i \in 1..n |-> f[i]], Net!FirstError(f) = "none"
    PROVE  \A i \in 1..n : f[i] = "none"
<1> DEFINE bad == {i \in 1..n : f[i] # "none"}
<1>1. Len(f) = n
  BY LenOfFunction
<1>2. Net!FirstError(f) = IF bad = {} THEN "none" ELSE f[Net!Min(bad)]
  BY <1>1, Zenon DEF Net!FirstError, Net!Indices
<1>3. SUFFICES ASSUME bad # {} PROVE FALSE
  BY Zenon
<1>4. bad \in SUBSET Nat
  BY SMT
<1>5. Net!Min(bad) \in bad
  BY <1>3, <1>4, MinInSet, Zenon
<1> QED BY <1>2, <1>3, <1>5, Zenon

(* A bounded set of numbers has a greatest element. *)
LEMMA MaxInSet ==
    ASSUME NEW n \in Nat, NEW S \in SUBSET (1..n), S # {}
    PROVE  Net!Max(S) \in S
<1> DEFINE T == {n - x : x \in S}
<1>1. T \in SUBSET Nat /\ T # {}
  <2>1. \A x \in S : n - x \in Nat
    BY SMT
  <2> QED BY <2>1, Zenon
<1>2. Net!Min(T) \in T /\ \A y \in T : Net!Min(T) <= y
  BY <1>1, MinInSet, Zenon
<1>3. PICK x \in S : Net!Min(T) = n - x
  BY <1>2, Zenon
<1>4. ASSUME NEW y \in S PROVE x >= y
  <2>1. n - y \in T
    BY Zenon
  <2>2. n - x <= n - y
    BY <1>2, <1>3, <2>1, Zenon
  <2> QED BY <2>2, SMT
<1> QED BY <1>4, Zenon DEF Net!Max

Half == Net!ftti_half(doc.bus)

(* The inductive invariant. *)
NetInv ==
    /\ doc \in Documents
    /\ stage \in {"parse", "validate", "generate", "done", "failed"}
    /\ stage \in {"validate", "generate", "done"} =>
          /\ config = Net!NetworkConfig
          /\ \A i \in 1..Len(doc.devices) : Net!ResolveError(doc.devices[i], Half) = "none"
    /\ stage \in {"generate", "done"} => Net!validation_error = "none"
    /\ stage = "done" =>
          generated = [pdo_map |-> Net!PdoMap, routing |-> Net!Routing,
                       identities |-> Net!ExpectedIdentities]

(* parse: every device was resolved without an error. *)
LEMMA ParseStep ==
    ASSUME Net!Written, NetInv, Net!parse PROVE NetInv'
<1>1. stage = "parse" /\ doc' = doc /\ doc \in Documents
  BY Zenon DEF Net!parse, NetInv
<1>2. CASE Net!parse_error # "none"
  <2>1. stage' = "failed"
    BY <1>2, Zenon DEF Net!parse
  <2> QED BY <1>1, <2>1, Zenon DEF NetInv
<1>3. CASE Net!parse_error = "none"
  <2> DEFINE n == Len(doc.devices)
             f == [i \in 1..n |-> Net!ResolveError(doc.devices[i], Half)]
  <2>1. stage' = "validate" /\ config' = Net!NetworkConfig
    BY <1>3, Zenon DEF Net!parse
  <2>2. config' = Net!NetworkConfig'
    BY <1>1, <2>1, Zenon DEF Net!NetworkConfig
  <2>3. Net!FirstError(f) = "none"
    BY <1>3, SMT DEF Net!parse_error, Net!Indices, Half
  <2>4. n \in Nat
    BY <1>1, Zenon DEF Net!Written
  <2>5. f = [i \in 1..n |-> f[i]]
    BY Zenon
  <2>6. \A i \in 1..n : f[i] = "none"
    <3> HIDE DEF f, n
    <3> QED BY <2>3, <2>4, <2>5, FirstErrorNone, Zenon
  <2>7. \A i \in 1..Len(doc.devices) : Net!ResolveError(doc.devices[i], Half) = "none"
    BY <2>6, Zenon
  <2>8. (\A i \in 1..Len(doc.devices) : Net!ResolveError(doc.devices[i], Half) = "none")'
    BY <1>1, <2>7, Zenon DEF Half
  <2> QED BY <1>1, <2>1, <2>2, <2>8, Zenon DEF NetInv
<1> QED BY <1>2, <1>3, Zenon

(* What validate finds depends on the configuration only. *)
LEMMA SameValidation ==
    ASSUME config' = config PROVE Net!validation_error' = Net!validation_error
<1>1. \A i : Net!device_address(i)' = Net!device_address(i)
  BY Zenon DEF Net!device_address
<1>2. \A l : Net!Labelled(l)' = Net!Labelled(l)
  BY Zenon DEF Net!Labelled
<1>3. \A c : Net!ChannelError(c)' = Net!ChannelError(c)
  <2> TAKE c
  <2>1. Net!device_by_label(c.device)' = Net!device_by_label(c.device)
    BY <1>2, Zenon DEF Net!device_by_label
  <2> QED BY <1>2, <2>1, SMT DEF Net!ChannelError
<1>4. Net!DuplicateName' = Net!DuplicateName
  BY SMT DEF Net!DuplicateName
<1>5. Net!DuplicateAddress' = Net!DuplicateAddress
  BY <1>1, SMT DEF Net!DuplicateAddress
<1>6. Net!OverlappingSlices' = Net!OverlappingSlices
  BY SMT DEF Net!OverlappingSlices
<1>7. [i \in Net!Indices(config.channels) |-> Net!ChannelError(config.channels[i])]'
        = [i \in Net!Indices(config.channels) |-> Net!ChannelError(config.channels[i])]
  BY <1>3, SMT
<1> QED BY <1>4, <1>5, <1>6, <1>7, SMT DEF Net!validation_error

(* Every stage rests on what the stages before it have checked. *)
LEMMA ConfigStep ==
    ASSUME Net!Written, NetInv, Net!Next PROVE NetInv'
<1>1. CASE Net!parse
  BY <1>1, ParseStep, Zenon
<1>2. CASE Net!validate
  <2>1. stage = "validate" /\ doc' = doc /\ config' = config /\ generated' = generated
    BY <1>2, Zenon DEF Net!validate
  <2>2. stage' = IF Net!validation_error = "none" THEN "generate" ELSE "failed"
    BY <1>2, Zenon DEF Net!validate
  <2>3. Net!validation_error' = Net!validation_error
    BY <2>1, SameValidation, Zenon
  <2>4. Net!NetworkConfig' = Net!NetworkConfig /\ Half' = Half
    BY <2>1, Zenon DEF Net!NetworkConfig, Half
  <2>5. CASE Net!validation_error = "none"
    <3>1. stage' = "generate"
      BY <2>2, <2>5, Zenon
    <3> QED BY <2>1, <2>3, <2>4, <2>5, <3>1, Zenon DEF NetInv
  <2>6. CASE Net!validation_error # "none"
    <3>1. stage' = "failed"
      BY <2>2, <2>6, Zenon
    <3> QED BY <2>1, <3>1, Zenon DEF NetInv
  <2> QED BY <2>5, <2>6, Zenon
<1>3. CASE Net!generate
  <2>1. stage = "generate" /\ stage' = "done" /\ doc' = doc /\ config' = config
    BY <1>3, Zenon DEF Net!generate
  <2>2. generated' = [pdo_map |-> Net!PdoMap, routing |-> Net!Routing,
                      identities |-> Net!ExpectedIdentities]
    BY <1>3, Zenon DEF Net!generate
  <2>3. Net!validation_error' = Net!validation_error
    BY <2>1, SameValidation, Zenon
  <2>4. Net!NetworkConfig' = Net!NetworkConfig /\ Half' = Half
    BY <2>1, Zenon DEF Net!NetworkConfig, Half
  <2>5. Net!PdoMap' = Net!PdoMap /\ Net!Routing' = Net!Routing
    BY <2>1, Zenon DEF Net!PdoMap, Net!Routing, Net!device_address, Net!device_by_label, Net!Labelled
  <2>6. Net!ExpectedIdentities' = Net!ExpectedIdentities
    BY <2>1, Zenon DEF Net!ExpectedIdentities, Net!device_address
  <2> QED BY <2>1, <2>2, <2>3, <2>4, <2>5, <2>6, Zenon DEF NetInv
<1> QED BY <1>1, <1>2, <1>3, Zenon DEF Net!Next

(* Times are numbers, and so are the bits of the channels. *)
LEMMA ConfigTypes ==
    ASSUME Net!Units, Net!Written, NetInv
    PROVE  /\ Half \in Nat
           /\ Len(doc.devices) \in Nat /\ Len(doc.channels) \in Nat
           /\ \A i \in 1..Len(doc.devices) : Net!Timeout(doc.devices[i], Half) \in Nat
           /\ \A i \in 1..Len(doc.channels) :
                  doc.channels[i].bit_offset \in Nat /\ doc.channels[i].bit_length \in Nat
<1>1. doc \in Documents
  BY Zenon DEF NetInv
<1>2. /\ doc.bus.ftti \in Nat /\ Len(doc.devices) \in Nat /\ Len(doc.channels) \in Nat
      /\ \A i \in 1..Len(doc.devices) : doc.devices[i].sm_watchdog_timeout \in Nat \cup {None}
      /\ \A i \in 1..Len(doc.channels) :
             doc.channels[i].bit_offset \in Nat /\ doc.channels[i].bit_length \in Nat
  BY <1>1, Zenon DEF Net!Written
<1>3. Ms \in Nat
  BY Zenon DEF Net!Units
<1>4. doc.bus.ftti * Ms \in Nat
  BY <1>2, <1>3, SMT
<1>5. Half \in Nat
  BY <1>4, SMT DEF Half, Net!ftti_half
<1>6. ASSUME NEW i \in 1..Len(doc.devices) PROVE Net!Timeout(doc.devices[i], Half) \in Nat
  <2> DEFINE t == doc.devices[i].sm_watchdog_timeout
  <2>1. t \in Nat => t * Ms \in Nat
    BY <1>3, SMT
  <2>2. t = None \/ t \in Nat
    BY <1>2, Zenon
  <2> QED BY <1>5, <2>1, <2>2, Zenon DEF Net!Timeout
<1> QED BY <1>2, <1>5, <1>6, Zenon

(* sm_watchdog_intervals never yields the disabling zero, nor more than    *)
(* its register holds.                                                     *)
LEMMA IntervalsType ==
    ASSUME Net!Units, NEW us \in Nat
    PROVE  Net!sm_watchdog_intervals(us) \in 1..MaxU16
<1>1. Tick \in Nat \ {0} /\ MaxU16 \in Nat \ {0}
  BY Zenon DEF Net!Units
<1> DEFINE ticks == (us + Tick - 1) \div Tick
<1>2. us + Tick - 1 \in Nat
  BY <1>1, SMT
<1>3. ticks \in Int
  BY <1>1, <1>2, SMT
<1> HIDE DEF ticks
<1>4. (IF ticks < 1 THEN 1 ELSE Net!Saturating(ticks)) \in 1..MaxU16
  BY <1>1, <1>3, SMT DEF Net!Saturating
<1> QED BY <1>4, Zenon DEF Net!sm_watchdog_intervals, ticks

(* An output device that resolve_and_validate_watchdog accepts. *)
LEMMA WatchdogNone ==
    ASSUME NEW d, NEW half, Net!ResolveError(d, half) = "none", Net!Source(d).rx # <<>>
    PROVE  /\ ~ (Net!effective_timeout(Net!sm_watchdog_intervals(Net!Timeout(d, half))) > half)
           /\ Net!WatchdogArmed(d)
<1>1. Net!WatchdogError(d, half) = "none"
  BY SMT DEF Net!ResolveError
<1> DEFINE long == Net!Timeout(d, half) > MaxU32
           late == Net!effective_timeout(Net!sm_watchdog_intervals(Net!Timeout(d, half))) > half
<1>2. Net!WatchdogError(d, half) =
        CASE Net!Source(d).rx = <<>> -> "none"
          [] Net!Source(d).rx # <<>> /\ long -> "panic"
          [] Net!Source(d).rx # <<>> /\ ~ long /\ late -> "SmWatchdogTimeoutTooLong"
          [] OTHER -> IF Net!WatchdogArmed(d) THEN "none"
                      ELSE IF d.esi = None THEN "SmWatchdogNotAttested" ELSE "SmWatchdogDisabled"
  BY Zenon DEF Net!WatchdogError
<1> HIDE DEF long, late
<1>3. ~ late /\ Net!WatchdogArmed(d)
  BY <1>1, <1>2, SMT
<1> QED BY <1>3, Zenon DEF late

(* The watchdogs of the generated table. *)
LEMMA Guarded ==
    ASSUME Net!Units, Net!Written, NetInv PROVE Net!OutputsGuarded
<1>1. SUFFICES ASSUME stage = "done", NEW i \in Net!Indices(generated.pdo_map),
                      generated.pdo_map[i].expected_wkc \in {1, 3}
               PROVE  /\ generated.pdo_map[i].sm_watchdog \in 1..MaxU16
                      /\ Net!effective_timeout(generated.pdo_map[i].sm_watchdog)
                             <= Net!ftti_half(config.bus)
  BY Zenon DEF Net!OutputsGuarded
<1> DEFINE d == doc.devices[i]
           inst == Net!Instance(d, Half)
           w == Net!sm_watchdog_intervals(Net!Timeout(d, Half))
<1>2. config = Net!NetworkConfig /\ generated.pdo_map = Net!PdoMap
  BY <1>1, SMT DEF NetInv
<1>3. config.bus = doc.bus
  BY <1>2, Zenon DEF Net!NetworkConfig
<1>4. config.devices = [k \in 1..Len(doc.devices) |-> Net!Instance(doc.devices[k], Half)]
  BY <1>2, Zenon DEF Net!NetworkConfig, Net!Indices, Half
<1>5. Len(doc.devices) \in Nat
  BY ConfigTypes, Zenon
<1>6. Len(config.devices) = Len(doc.devices)
  <2> DEFINE f == config.devices
  <2>1. f = [k \in 1..Len(doc.devices) |-> f[k]]
    BY <1>4, Zenon
  <2> HIDE DEF f
  <2>2. Len(f) = Len(doc.devices)
    BY <1>5, <2>1, LenOfFunction, Zenon
  <2> QED BY <2>2, Zenon DEF f
<1>7. Net!PdoMap = [k \in 1..Len(doc.devices) |-> Net!PdoMap[k]]
  BY <1>6, SMT DEF Net!PdoMap, Net!Indices
<1>8. Len(Net!PdoMap) = Len(doc.devices)
  BY <1>5, <1>7, LenOfFunction, Zenon
<1>9. i \in 1..Len(doc.devices)
  BY <1>1, <1>2, <1>8, Zenon DEF Net!Indices
<1>10. config.devices[i] = inst
  BY <1>4, <1>9, Zenon
<1>11. Net!PdoMap[i].expected_wkc = Net!expected_wkc(inst) /\ Net!PdoMap[i].sm_watchdog = inst.sm_watchdog
  BY <1>6, <1>9, <1>10, SMT DEF Net!PdoMap, Net!Indices
<1>12. inst.rx = Net!Source(d).rx
  BY Zenon DEF Net!Instance
<1>13. Net!Source(d).rx # <<>>
  <2>1. Net!expected_wkc(inst) \in {1, 3}
    BY <1>1, <1>2, <1>11, Zenon
  <2> HIDE DEF inst
  <2>2. inst.rx # <<>>
    BY <2>1, SMT DEF Net!expected_wkc
  <2> QED BY <1>12, <2>2, Zenon
<1>14. inst.sm_watchdog = w
  BY <1>13, SMT DEF Net!Instance
<1>15. Net!ResolveError(d, Half) = "none"
  BY <1>1, <1>9, Zenon DEF NetInv
<1>16. ~ (Net!effective_timeout(w) > Half)
  BY <1>13, <1>15, WatchdogNone, Zenon
<1>17. w \in 1..MaxU16
  BY <1>9, ConfigTypes, IntervalsType, Zenon
<1>18. Half \in Nat /\ Tick \in Nat /\ MaxU16 \in Nat
  BY ConfigTypes, Zenon DEF Net!Units
<1> HIDE DEF w
<1>19. Net!effective_timeout(w) \in Int
  BY <1>17, <1>18, SMT DEF Net!effective_timeout
<1>20. Net!effective_timeout(w) <= Half
  BY <1>16, <1>18, <1>19, SMT
<1> QED BY <1>2, <1>3, <1>11, <1>14, <1>17, <1>20, Zenon DEF Half

(* What generate starts from. *)
LEMMA Validated ==
    ASSUME Net!Written, NetInv, stage = "done"
    PROVE  /\ config.channels = doc.channels
           /\ Len(config.channels) \in Nat /\ Len(config.devices) \in Nat
           /\ \A i \in 1..Len(config.channels) : Net!ChannelError(config.channels[i]) = "none"
           /\ ~ Net!DuplicateAddress
           /\ ~ Net!OverlappingSlices
<1>1. config = Net!NetworkConfig /\ Net!validation_error = "none" /\ doc \in Documents
  BY SMT DEF NetInv
<1>2. config.channels = doc.channels
  BY <1>1, Zenon DEF Net!NetworkConfig
<1>3. Len(config.channels) \in Nat /\ Len(doc.devices) \in Nat
  BY <1>1, <1>2, Zenon DEF Net!Written
<1>4. Len(config.devices) \in Nat
  <2> DEFINE f == config.devices
  <2>1. f = [k \in 1..Len(doc.devices) |-> Net!Instance(doc.devices[k], Half)]
    BY <1>1, Zenon DEF Net!NetworkConfig, Net!Indices, Half
  <2>2. f = [k \in 1..Len(doc.devices) |-> f[k]]
    BY <2>1, Zenon
  <2> HIDE DEF f
  <2>3. Len(f) = Len(doc.devices)
    BY <1>3, <2>2, LenOfFunction, Zenon
  <2> QED BY <1>3, <2>3, Zenon DEF f
<1> DEFINE n == Len(config.channels)
           g == [i \in 1..n |-> Net!ChannelError(config.channels[i])]
<1>5. Net!validation_error =
        CASE Net!FirstError(g) # "none" -> Net!FirstError(g)
          [] Net!FirstError(g) = "none" /\ Net!DuplicateName -> "DuplicateChannelName"
          [] Net!FirstError(g) = "none" /\ ~ Net!DuplicateName /\ Net!DuplicateAddress ->
               "DuplicateAddress"
          [] OTHER -> IF Net!OverlappingSlices THEN "OverlappingSlices" ELSE "none"
  BY Zenon DEF Net!validation_error, Net!Indices
<1>6. g = [i \in 1..n |-> g[i]]
  BY Zenon
<1> HIDE DEF g, n
<1>7. Net!FirstError(g) = "none" /\ ~ Net!DuplicateAddress /\ ~ Net!OverlappingSlices
  BY <1>1, <1>5, SMT
<1>8. n \in Nat
  BY <1>3, Zenon DEF n
<1>9. \A i \in 1..n : g[i] = "none"
  BY <1>6, <1>7, <1>8, FirstErrorNone, Zenon
<1>10. \A i \in 1..Len(config.channels) : Net!ChannelError(config.channels[i]) = "none"
  BY <1>9, Zenon DEF g, n
<1> QED BY <1>2, <1>3, <1>4, <1>7, <1>10, Zenon

(* A channel that validate_channel accepts. *)
LEMMA ChannelNone ==
    ASSUME NEW c, Net!ChannelError(c) = "none"
    PROVE  /\ Net!Labelled(c.device) # {}
           /\ ~ (Net!Overflows(c) /\ OverflowChecks)
           /\ Net!SliceEnd(c)
                  <= Net!image_bits(config.devices[Net!device_by_label(c.device)], c.direction)
<1> DEFINE zero == c.bit_length = 0
           within == Net!SliceEnd(c)
               <= Net!image_bits(config.devices[Net!device_by_label(c.device)], c.direction)
           unknown == Net!Labelled(c.device) = {}
<1>1. Net!ChannelError(c) =
        CASE zero -> "ZeroLengthSlice"
          [] ~ zero /\ unknown -> "UnknownDevice"
          [] OTHER -> IF Net!Overflows(c) /\ OverflowChecks THEN "panic"
                      ELSE IF within THEN "none" ELSE "SliceOutOfImage"
  BY Zenon DEF Net!ChannelError
<1> HIDE DEF zero, within, unknown
<1>2. ~ unknown /\ ~ (Net!Overflows(c) /\ OverflowChecks) /\ within
  BY <1>1, SMT
<1> QED BY <1>2, Zenon DEF unknown, within

(* A channel is routed to a device of its label. *)
LEMMA RoutedTo ==
    ASSUME Net!Written, NetInv, stage = "done", NEW i \in 1..Len(config.channels)
    PROVE  LET c == config.channels[i]
               k == Net!device_by_label(c.device)
           IN  /\ k \in 1..Len(config.devices)
               /\ config.devices[k].label = c.device
               /\ generated.routing[i].address = Net!device_address(k)
               /\ generated.routing[i].direction = c.direction
               /\ generated.routing[i].bit_offset = c.bit_offset
               /\ generated.routing[i].bit_length = c.bit_length
<1> DEFINE c == config.channels[i]
           labelled == Net!Labelled(c.device)
<1>1. Net!ChannelError(c) = "none" /\ Len(config.devices) \in Nat
  BY Validated, Zenon
<1>2. labelled # {}
  BY <1>1, ChannelNone, Zenon
<1>3. labelled \in SUBSET (1..Len(config.devices))
  BY Zenon DEF Net!Labelled, Net!Indices
<1>4. Net!Max(labelled) \in labelled
  <2> HIDE DEF labelled
  <2> QED BY <1>1, <1>2, <1>3, MaxInSet, Zenon
<1>5. Net!device_by_label(c.device) \in labelled
  BY <1>4, Zenon DEF Net!device_by_label
<1>6. /\ Net!device_by_label(c.device) \in 1..Len(config.devices)
      /\ config.devices[Net!device_by_label(c.device)].label = c.device
  BY <1>5, Zenon DEF Net!Labelled, Net!Indices
<1>7. generated.routing = Net!Routing
  BY SMT DEF NetInv
<1>8. generated.routing[i] = [address |-> Net!device_address(Net!device_by_label(c.device)),
                              direction |-> c.direction, bit_offset |-> c.bit_offset,
                              bit_length |-> c.bit_length]
  BY <1>7, Zenon DEF Net!Routing, Net!Indices
<1> DEFINE r == generated.routing[i]
           address == Net!device_address(Net!device_by_label(c.device))
<1>9. /\ r.address = address /\ r.direction = c.direction
      /\ r.bit_offset = c.bit_offset /\ r.bit_length = c.bit_length
  <2> HIDE DEF c, address
  <2> QED BY <1>8, SMT DEF address
<1> QED BY <1>6, <1>9, Zenon

(* The end of an accepted slice did not overflow. *)
LEMMA NoWrap ==
    ASSUME Net!Units, OverflowChecks = TRUE, NEW c, Net!ChannelError(c) = "none",
           c.bit_offset \in Nat, c.bit_length \in Nat
    PROVE  Net!SliceEnd(c) = c.bit_offset + c.bit_length
<1>1. ~ Net!Overflows(c)
  BY ChannelNone, Zenon
<1>2. MaxU32 \in Nat
  BY Zenon DEF Net!Units
<1> DEFINE o == c.bit_offset
           b == c.bit_length
<1>3. o \in Nat /\ b \in Nat /\ ~ (o + b > MaxU32)
  BY <1>1, Zenon DEF Net!Overflows
<1>4. Net!SliceEnd(c) = (o + b) % (MaxU32 + 1)
  BY Zenon DEF Net!SliceEnd
<1> HIDE DEF o, b
<1>5. (o + b) % (MaxU32 + 1) = o + b
  BY <1>2, <1>3, SMT
<1> QED BY <1>4, <1>5, Zenon DEF o, b

(* One routing constant per channel. *)
LEMMA RoutingLength ==
    ASSUME Net!Written, NetInv, stage = "done"
    PROVE  Net!Indices(generated.routing) = 1..Len(config.channels)
<1>1. generated.routing = Net!Routing
  BY SMT DEF NetInv
<1>2. Net!Routing = [i \in 1..Len(config.channels) |-> Net!Routing[i]]
  BY SMT DEF Net!Routing, Net!Indices
<1>3. Len(Net!Routing) = Len(config.channels)
  BY <1>2, LenOfFunction, Validated, Zenon
<1> QED BY <1>1, <1>3, Zenon DEF Net!Indices

(* Equal addresses come from one device, hence from one label, for which   *)
(* the slices were compared.                                               *)
LEMMA Apart ==
    ASSUME Net!Units, Net!Written, OverflowChecks = TRUE, NetInv PROVE Net!SlicesApart
<1>1. SUFFICES ASSUME stage = "done",
                      NEW i \in 1..Len(config.channels), NEW k \in 1..Len(config.channels),
                      i # k, generated.routing[i].address = generated.routing[k].address,
                      generated.routing[i].direction = generated.routing[k].direction,
                      ~ config.channels[i].allow_overlap, ~ config.channels[k].allow_overlap
               PROVE  \/ generated.routing[i].bit_offset + generated.routing[i].bit_length
                             <= generated.routing[k].bit_offset
                      \/ generated.routing[k].bit_offset + generated.routing[k].bit_length
                             <= generated.routing[i].bit_offset
  BY RoutingLength, Zenon DEF Net!SlicesApart
<1> DEFINE a == config.channels[i]
           b == config.channels[k]
           x == Net!device_by_label(a.device)
           y == Net!device_by_label(b.device)
<1>2. /\ x \in 1..Len(config.devices) /\ config.devices[x].label = a.device
      /\ y \in 1..Len(config.devices) /\ config.devices[y].label = b.device
  BY <1>1, RoutedTo, Zenon
<1>3. /\ generated.routing[i].address = Net!device_address(x)
      /\ generated.routing[i].direction = a.direction
      /\ generated.routing[i].bit_offset = a.bit_offset
      /\ generated.routing[i].bit_length = a.bit_length
      /\ generated.routing[k].address = Net!device_address(y)
      /\ generated.routing[k].direction = b.direction
      /\ generated.routing[k].bit_offset = b.bit_offset
      /\ generated.routing[k].bit_length = b.bit_length
  BY <1>1, RoutedTo, Zenon
<1>4. Net!device_address(x) = Net!device_address(y) /\ a.direction = b.direction
  BY <1>1, <1>3, Zenon
<1>5. a.device = b.device
  <2>1. ~ Net!DuplicateAddress
    BY <1>1, Validated, Zenon
  <2>2. x = y
    BY <1>2, <1>4, <2>1, Zenon DEF Net!DuplicateAddress, Net!Indices
  <2> QED BY <1>2, <2>2, Zenon
<1>6. ~ Net!Overlap(a, b)
  BY <1>1, Validated, Zenon DEF Net!OverlappingSlices, Net!Indices
<1>7. ~ (a.bit_offset < Net!SliceEnd(b) /\ b.bit_offset < Net!SliceEnd(a))
  BY <1>1, <1>4, <1>5, <1>6, Zenon DEF Net!Overlap
<1>8. /\ a.bit_offset \in Nat /\ a.bit_length \in Nat /\ Net!ChannelError(a) = "none"
      /\ b.bit_offset \in Nat /\ b.bit_length \in Nat /\ Net!ChannelError(b) = "none"
  BY <1>1, Validated, ConfigTypes, Zenon
<1>9. /\ Net!SliceEnd(a) = a.bit_offset + a.bit_length
      /\ Net!SliceEnd(b) = b.bit_offset + b.bit_length
  BY <1>8, NoWrap, Zenon
<1>10. \/ a.bit_offset + a.bit_length <= b.bit_offset
       \/ b.bit_offset + b.bit_length <= a.bit_offset
  BY <1>7, <1>8, <1>9, SMT
<1> QED BY <1>3, <1>10, Zenon

(* The image that a slice was compared with is that of the device it is    *)
(* routed to.                                                              *)
LEMMA InImage ==
    ASSUME Net!Units, Net!Written, OverflowChecks = TRUE, NetInv PROVE Net!SlicesInImage
<1>1. SUFFICES ASSUME stage = "done", NEW i \in 1..Len(config.channels)
               PROVE  \E k \in Net!Indices(config.devices) :
                          /\ generated.pdo_map[k].address = generated.routing[i].address
                          /\ generated.routing[i].bit_offset + generated.routing[i].bit_length
                                 <= Net!image_bits(config.devices[k], generated.routing[i].direction)
  BY RoutingLength, Zenon DEF Net!SlicesInImage
<1> DEFINE c == config.channels[i]
           x == Net!device_by_label(c.device)
<1>2. x \in 1..Len(config.devices)
  BY <1>1, RoutedTo, Zenon
<1>3. /\ generated.routing[i].address = Net!device_address(x)
      /\ generated.routing[i].direction = c.direction
      /\ generated.routing[i].bit_offset = c.bit_offset
      /\ generated.routing[i].bit_length = c.bit_length
  BY <1>1, RoutedTo, Zenon
<1>4. Net!ChannelError(c) = "none" /\ c.bit_offset \in Nat /\ c.bit_length \in Nat
  BY <1>1, Validated, ConfigTypes, Zenon
<1>5. c.bit_offset + c.bit_length <= Net!image_bits(config.devices[x], c.direction)
  BY <1>4, ChannelNone, NoWrap, Zenon
<1>6. generated.pdo_map = Net!PdoMap
  BY <1>1, SMT DEF NetInv
<1>7. generated.pdo_map[x].address = Net!device_address(x)
  <2>1. \A k \in 1..Len(config.devices) : Net!PdoMap[k].address = Net!device_address(k)
    BY SMT DEF Net!PdoMap, Net!Indices
  <2> QED BY <1>2, <1>6, <2>1, Zenon
<1> QED BY <1>2, <1>3, <1>5, <1>7, Zenon DEF Net!Indices

(* Half the FTTI is a whole number of ticks, so quantizing it does not     *)
(* exceed it.                                                              *)
LEMMA Inherited ==
    ASSUME Net!Units, Net!Written, NetInv PROVE Net!InheritedFits
<1>1. SUFFICES ASSUME NEW i \in 1..Len(doc.devices),
                      doc.devices[i].sm_watchdog_timeout = None, Half \in 1..MaxU32
               PROVE  Net!WatchdogError(doc.devices[i], Half) # "SmWatchdogTimeoutTooLong"
  BY Zenon DEF Net!InheritedFits, Net!Indices, Half
<1> DEFINE d == doc.devices[i]
           w == Net!sm_watchdog_intervals(Half)
<1>2. Net!Timeout(d, Half) = Half
  BY <1>1, Zenon DEF Net!Timeout
<1>3. Half \in Nat \ {0} /\ doc.bus.ftti \in Nat /\ Tick \in Nat \ {0} /\ Ms \in Nat /\ MaxU16 \in Nat \ {0}
  <2>1. doc \in Documents
    BY Zenon DEF NetInv
  <2>2. doc.bus.ftti \in Nat
    BY <2>1, Zenon DEF Net!Written
  <2>3. Half \in Nat /\ MaxU32 \in Nat
    BY ConfigTypes, Zenon DEF Net!Units
  <2>4. Half # 0
    BY <1>1, <2>3, SMT
  <2> QED BY <2>2, <2>3, <2>4, Zenon DEF Net!Units
<1>4. PICK n \in Nat : Half = Tick * n
  <2> DEFINE q == Ms \div (2 * Tick)
             f == doc.bus.ftti
  <2>1. q \in Nat /\ Ms = (2 * Tick) * q
    <3>1. Ms % (2 * Tick) = 0
      BY Zenon DEF Net!Units
    <3>2. 2 * Tick \in Nat \ {0}
      BY <1>3, SMT
    <3> QED BY <1>3, <3>1, <3>2, SMT
  <2> HIDE DEF q
  <2>2. Half = (f * Ms) \div 2 /\ f \in Nat
    BY <1>3, Zenon DEF Half, Net!ftti_half
  <2> HIDE DEF f
  <2>3. f * Ms = 2 * (Tick * (f * q)) /\ f * q \in Nat /\ Tick * (f * q) \in Nat
    BY <1>3, <2>1, <2>2, SMT
  <2>4. Half = Tick * (f * q)
    <3> DEFINE m == Tick * (f * q)
    <3>1. m \in Nat /\ Half = (2 * m) \div 2
      BY <2>2, <2>3, Zenon
    <3> HIDE DEF m
    <3>2. Half = m
      BY <3>1, SMT
    <3> QED BY <3>2 DEF m
  <2> QED BY <2>3, <2>4, Zenon
<1>5. (Half + Tick - 1) \div Tick = n
  BY <1>3, <1>4, SMT
<1>6. n >= 1
  BY <1>3, <1>4, SMT
<1>7. w \in Nat /\ w <= n
  <2>1. w = IF n < 1 THEN 1 ELSE Net!Saturating(n)
    BY <1>5, Zenon DEF Net!sm_watchdog_intervals
  <2> HIDE DEF w
  <2> QED BY <1>3, <1>6, <2>1, SMT DEF Net!Saturating
<1>8. Net!effective_timeout(w) <= Half
  <2> HIDE DEF w
  <2>1. Tick * w <= Tick * n
    BY <1>3, <1>7, SMT
  <2> QED BY <1>4, <2>1, Zenon DEF Net!effective_timeout
<1>9. ~ (Net!effective_timeout(w) > Half)
  <2> HIDE DEF w
  <2>1. Net!effective_timeout(w) \in Int
    BY <1>3, <1>7, SMT DEF Net!effective_timeout
  <2> QED BY <1>3, <1>8, <2>1, SMT
<1> DEFINE late == Net!effective_timeout(Net!sm_watchdog_intervals(Net!Timeout(d, Half))) > Half
           long == Net!Timeout(d, Half) > MaxU32
<1>10. Net!WatchdogError(d, Half) =
        CASE Net!Source(d).rx = <<>> -> "none"
          [] Net!Source(d).rx # <<>> /\ long -> "panic"
          [] Net!Source(d).rx # <<>> /\ ~ long /\ late -> "SmWatchdogTimeoutTooLong"
          [] OTHER -> IF Net!WatchdogArmed(d) THEN "none"
                      ELSE IF d.esi = None THEN "SmWatchdogNotAttested" ELSE "SmWatchdogDisabled"
  BY Zenon DEF Net!WatchdogError
<1>11. ~ late
  BY <1>2, <1>9, Zenon
<1> HIDE DEF late, long, d
<1>12. Net!WatchdogError(d, Half) # "SmWatchdogTimeoutTooLong"
  BY <1>10, <1>11, SMT
<1> QED BY <1>12, Zenon DEF d

(* In the generated tables every output device is guarded by a watchdog     *)
(* that trips within half the FTTI, a device that inherits its timeout is  *)
(* not refused for it, and the slices lie in the image of the device they  *)
(* are routed to and share no bit, when additions that overflow are caught *)
(* (OutputsGuarded, InheritedFits, SlicesApart, SlicesInImage).            *)
THEOREM ConfigurationSafe ==
    ASSUME Net!Units, Net!Written, OverflowChecks = TRUE
    PROVE  Net!Spec => [](/\ Net!OutputsGuarded /\ Net!InheritedFits
                          /\ Net!SlicesApart /\ Net!SlicesInImage)
<1>1. Net!Init => NetInv
  BY Zenon DEF Net!Init, NetInv
<1>2. NetInv /\ [Net!Next]_(Net!vars) => NetInv'
  <2>1. NetInv /\ Net!Next => NetInv'
    BY ConfigStep, Zenon
  <2>2. ASSUME NetInv, UNCHANGED Net!vars PROVE NetInv'
    <3>1. doc' = doc /\ stage' = stage /\ config' = config /\ generated' = generated
      BY <2>2, Zenon DEF Net!vars
    <3>2. Net!validation_error' = Net!validation_error
      BY <3>1, SameValidation, Zenon
    <3>3. Net!NetworkConfig' = Net!NetworkConfig /\ Half' = Half
      BY <3>1, Zenon DEF Net!NetworkConfig, Half
    <3>4. Net!PdoMap' = Net!PdoMap /\ Net!Routing' = Net!Routing
      BY <3>1, Zenon DEF Net!PdoMap, Net!Routing, Net!device_address, Net!device_by_label, Net!Labelled
    <3>5. Net!ExpectedIdentities' = Net!ExpectedIdentities
      BY <3>1, Zenon DEF Net!ExpectedIdentities, Net!device_address
    <3> QED BY <2>2, <3>1, <3>2, <3>3, <3>4, <3>5, Zenon DEF NetInv
  <2> QED BY <2>1, <2>2, Zenon
<1>3. NetInv => /\ Net!OutputsGuarded /\ Net!InheritedFits
                /\ Net!SlicesApart /\ Net!SlicesInImage
  BY Guarded, Inherited, Apart, InImage, Zenon
<1> QED BY <1>1, <1>2, <1>3, PTL DEF Net!Spec
==============================================================================
