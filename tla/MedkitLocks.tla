----------------------------- MODULE MedkitLocks -----------------------------
(***************************************************************************)
(* The lock registry of the diagnostics gateway                            *)
(* (crates/taktora-medkit-gateway-axum/src/locks.rs): one lock per entity, *)
(* held by a diagnostic client until it expires.  Every request reads the  *)
(* clock first and takes the registry's mutex later, so what it decides    *)
(* under the mutex rests on an instant that may have passed.  The clock is *)
(* taken to be monotonic.  A request without a valid X-Client-Id is        *)
(* refused before it reaches the registry and is left out; scopes are      *)
(* opaque and left out.                                                    *)
(***************************************************************************)
EXTENDS Naturals

CONSTANTS
    Handlers,          \* the tasks that serve requests
    Clients,           \* values of X-Client-Id
    Keys,              \* ResourceKey: kind and id of an entity
    Ttls,              \* lock_expiration of a request
    NoCall,            \* a handler without a request
    MaxClock, MaxLocks

RequestType ==
    [op : {"acquire", "extend", "release", "look"}, key : Keys, holder : Clients,
     now : Nat, lock_id : Nat, ttl : Ttls, break_lock : BOOLEAN]

(* What the code requires of the constants. *)
ASSUME LocksAssumption ==
    /\ Ttls \subseteq Nat
    /\ NoCall \notin RequestType

VARIABLES
    clock,
    next,              \* LockRegistry.next
    locks,             \* LockRegistry.locks
    req                \* per handler, its request and the instant it read

vars == <<clock, next, locks, req>>

Init ==
    /\ clock = 0
    /\ next = 1
    /\ locks = [k \in {} |-> 0]
    /\ req = [h \in Handlers |-> NoCall]

-----------------------------------------------------------------------------
Advance == clock < MaxClock /\ clock' = clock + 1 /\ UNCHANGED <<next, locks, req>>

(* A route of lock_routes takes a request and reads the clock; an acquire  *)
(* draws its id as well.                                                   *)
Receive(h, r) ==
    /\ req[h] = NoCall
    /\ r.now = clock
    /\ IF r.op = "acquire"
       THEN next <= MaxLocks /\ r.lock_id = next /\ next' = next + 1
       ELSE r.lock_id < next /\ UNCHANGED next
    /\ req' = [req EXCEPT ![h] = r]
    /\ UNCHANGED <<clock, locks>>

Put(k, entry) == [x \in DOMAIN locks \cup {k} |-> IF x = k THEN entry ELSE locks[x]]
Done(h) == req' = [req EXCEPT ![h] = NoCall] /\ UNCHANGED <<clock, next>>

(* Mutant of acquire: the expiry of the incumbent is compared with the     *)
(* expiry of the new lock.                                                 *)
acquireEarly(h) ==
    LET r == req[h]
    IN  /\ r # NoCall /\ r.op = "acquire"
        /\ locks' = IF /\ r.key \in DOMAIN locks
                       /\ locks[r.key].expires_at > r.now + r.ttl
                       /\ locks[r.key].holder # r.holder
                       /\ ~r.break_lock
                    THEN locks
                    ELSE Put(r.key, [lock_id |-> r.lock_id, holder |-> r.holder,
                                     expires_at |-> r.now + r.ttl])
        /\ Done(h)

(* acquire: Conflict when another client holds the key at the instant      *)
(* read, unless break_lock.                                                *)
acquire(h) ==
    LET r == req[h]
    IN  /\ r # NoCall /\ r.op = "acquire"
        /\ locks' = IF /\ r.key \in DOMAIN locks
                       /\ locks[r.key].expires_at > r.now
                       /\ locks[r.key].holder # r.holder
                       /\ ~r.break_lock
                    THEN locks
                    ELSE Put(r.key, [lock_id |-> r.lock_id, holder |-> r.holder,
                                     expires_at |-> r.now + r.ttl])
        /\ Done(h)

(* The entry extend and release act on: live at the instant read and under *)
(* the id they name.                                                       *)
Found(r) ==
    /\ r.key \in DOMAIN locks
    /\ locks[r.key].lock_id = r.lock_id
    /\ locks[r.key].expires_at > r.now

extend(h) ==
    LET r == req[h]
    IN  /\ r # NoCall /\ r.op = "extend"
        /\ locks' = IF Found(r) /\ locks[r.key].holder = r.holder
                    THEN Put(r.key, [lock_id |-> r.lock_id, holder |-> r.holder,
                                     expires_at |-> r.now + r.ttl])
                    ELSE locks
        /\ Done(h)

release(h) ==
    LET r == req[h]
    IN  /\ r # NoCall /\ r.op = "release"
        /\ locks' = IF Found(r) /\ locks[r.key].holder = r.holder
                    THEN [x \in DOMAIN locks \ {r.key} |-> locks[x]]
                    ELSE locks
        /\ Done(h)

(* list_for and get_one only read. *)
look(h) == req[h] # NoCall /\ req[h].op = "look" /\ UNCHANGED locks /\ Done(h)

Requests ==
    [op : {"acquire", "extend", "release", "look"}, key : Keys, holder : Clients,
     now : {clock}, lock_id : 1..next, ttl : Ttls, break_lock : BOOLEAN]

(* The fields a request does not carry have one value. *)
Sent(r) ==
    /\ r.op # "acquire" => r.break_lock = FALSE
    /\ r.op \in {"release", "look"} => r.ttl = CHOOSE t \in Ttls : TRUE
    /\ r.op = "look" => r.lock_id = 1

Next ==
    \/ Advance
    \/ \E h \in Handlers, r \in Requests : Sent(r) /\ Receive(h, r)
    \/ \E h \in Handlers : acquire(h) \/ extend(h) \/ release(h) \/ look(h)

Spec == Init /\ [][Next]_vars

-----------------------------------------------------------------------------
Entries == [lock_id : Nat, holder : Clients, expires_at : Nat]

TypeOK ==
    /\ clock \in Nat /\ next \in Nat
    /\ DOMAIN locks \subseteq Keys
    /\ \A k \in DOMAIN locks : locks[k] \in Entries
    /\ req \in [Handlers -> {NoCall} \cup RequestType]

(* No request has read an instant that lies ahead. *)
ReadIsPast == \A h \in Handlers : req[h] # NoCall => req[h].now <= clock

(* Step of handler h on behalf of client c. *)
Acts(h, c) == req[h] # NoCall /\ req[h].holder = c /\ req'[h] = NoCall

(* However late a request that read the clock reaches the registry, a lock *)
(* that has not expired is changed only by a request of its holder or by   *)
(* an acquire with break_lock (acquire, extend, release).                  *)
KeepsLive ==
    \A k \in DOMAIN locks :
        (locks[k].expires_at > clock /\ ~(k \in DOMAIN locks' /\ locks'[k] = locks[k])) =>
            \E h \in Handlers :
                \/ Acts(h, locks[k].holder)
                \/ req[h] # NoCall /\ req[h].op = "acquire" /\ req[h].break_lock /\ req'[h] = NoCall

LiveLockIsKept == [][KeepsLive]_vars
==============================================================================
