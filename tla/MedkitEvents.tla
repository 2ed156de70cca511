----------------------------- MODULE MedkitEvents -----------------------------
(***************************************************************************)
(* Change events of the diagnostics gateway, end to end: a connector's     *)
(* health feeds the binding's trouble codes, the refresh loop polls the    *)
(* provider, diffs two views and publishes the events to a replay ring and *)
(* a broadcast channel, and clients follow them over event streams that    *)
(* they may leave and resume with the last id they saw                     *)
(* (crates/taktora-medkit-gateway-axum/src/triggers.rs, with MedkitView).  *)
(* The provider has two entities: the connector's component "bus" and an   *)
(* app whose faults come and go.  The broadcast channel is external: it    *)
(* keeps the last EventBuffer events, and a receiver that is further       *)
(* behind skips to the oldest one kept.                                    *)
(***************************************************************************)
EXTENDS MedkitView

CONSTANTS
    Clients,
    StreamKinds,       \* of "faults", "events" and "trigger"
    AppFaults,         \* the fault maps the app can have
    Specs,             \* TriggerSpecs: entity ("" for any), severity floor
    ReplayRing, EventBuffer,
    MaxEvents, MaxHealth, MaxConnects

VARIABLES
    conn,              \* the connector's health
    store,             \* the binding's State
    app,               \* the app's faults
    loop,              \* the refresh loop: previous view, events to publish
    ring,              \* the replay ring
    sent,              \* everything sent on the broadcast channel
    triggers,          \* TriggerStore.triggers by number
    stream,            \* per client, the connection
    seen,              \* history: per client, the ids received
    excused,           \* history: per client, whether it was overrun
    steps              \* health transitions so far

provider == <<conn, store, app, steps>>
clientVars == <<stream, seen, excused>>
vars == <<provider, loop, ring, sent, triggers, clientVars>>

Health == INSTANCE ConnectorCore

-----------------------------------------------------------------------------
(* The connector binding (crates/taktora-medkit-binding-connector): every  *)
(* operation holds the store's mutex throughout, so it is one step.        *)
(* Reasons and timestamps are left out; a freeze frame is the sample it    *)
(* holds.                                                                  *)

DTC_NOT_OPERATIONAL == "FIELDBUS_NOT_OPERATIONAL"
DTC_DEGRADED == "FIELDBUS_DEGRADED"

(* Health levels of taktora-medkit-model, worst last. *)
Levels == [Ok |-> 0, Warning |-> 1, Error |-> 2, Critical |-> 3]

map_health(kind) ==
    CASE kind = "Up"                          -> Levels.Ok
      [] kind \in {"Connecting", "Degraded"}  -> Levels.Warning
      [] kind = "Down"                        -> Levels.Error

(* State::default: nominally up, nothing observed. *)
DefaultState == [current |-> "Up", last_sample |-> "none", dtcs |-> [c \in {} |-> 0]]

observe_sample(state, sample) == [state EXCEPT !.last_sample = sample]

(* DtcRecord::new *)
DtcRecord(severity) ==
    [severity |-> severity, active |-> FALSE, confirmed |-> FALSE, occurrence_count |-> 0,
     freeze_frame |-> "none"]

status_raw(dtc) ==
    IF dtc.active THEN "CONFIRMED" ELSE IF dtc.confirmed THEN "HEALED" ELSE "PENDING"

(* Without a sample the frame is made of the transition itself. *)
capture_sample(state) == IF state.last_sample = "none" THEN "synthesized" ELSE state.last_sample

(* A condition that persists leaves count and frame as they were. *)
raise(state, code, severity) ==
    LET entry == IF code \in DOMAIN state.dtcs THEN state.dtcs[code] ELSE DtcRecord(severity)
        raised == IF entry.active THEN entry
                  ELSE [entry EXCEPT !.occurrence_count = @ + 1, !.active = TRUE,
                                     !.confirmed = TRUE,
                                     !.freeze_frame = capture_sample(state)]
    IN  [state EXCEPT !.dtcs = (code :> raised) @@ @]

heal(state, code) ==
    IF code \in DOMAIN state.dtcs THEN [state EXCEPT !.dtcs[code].active = FALSE] ELSE state

heal_all(state) ==
    [state EXCEPT !.dtcs = [c \in DOMAIN @ |-> [@[c] EXCEPT !.active = FALSE]]]

(* MedkitProvider::apply: each of degraded and down supersedes the other. *)
apply(state, to) ==
    LET now == [state EXCEPT !.current = to]
    IN  CASE to = "Up"         -> heal_all(now)
          [] to = "Connecting" -> now
          [] to = "Degraded"   -> raise(heal(now, DTC_NOT_OPERATIONAL), DTC_DEGRADED, 1)
          [] to = "Down"       -> raise(heal(now, DTC_DEGRADED), DTC_NOT_OPERATIONAL, 3)

Active(state) == {c \in DOMAIN state.dtcs : state.dtcs[c].active}

worst_active_health(state) ==
    CHOOSE h \in {0} \cup {state.dtcs[c].severity : c \in Active(state)} :
        \A c \in Active(state) : state.dtcs[c].severity <= h

current_health(state) ==
    IF map_health(state.current) >= worst_active_health(state)
    THEN map_health(state.current) ELSE worst_active_health(state)

(* DtcRecord::summary of every record, healed ones included. *)
faults(state) ==
    [c \in DOMAIN state.dtcs |-> [severity |-> state.dtcs[c].severity,
                                  status |-> status_raw(state.dtcs[c])]]

(* freeze_frames: the environment of every confirmed record. *)
fault_environments(state) == [c \in DOMAIN state.dtcs |-> state.dtcs[c].freeze_frame]

-----------------------------------------------------------------------------
(* What the provider's snapshot holds now. *)
TheSnapshot ==
    Snapshot(<<declared_entity("Component", "bus", ""), declared_entity("App", "app", "")>>, <<>>,
             ("bus" :> faults(store)) @@ ("app" :> app), Empty)

View == merge(<<TheSnapshot>>, [areas |-> <<>>, components |-> <<>>, parents |-> Empty])

Off(kind, connects) ==
    [kind |-> kind, connects |-> connects, pc |-> "off", pos |-> 0, replay |-> <<>>, max_replayed |-> 0, spec |-> Empty]

Init ==
    /\ conn = "Up" /\ store = DefaultState /\ app = Empty /\ steps = 0
    /\ loop = [prev |-> View, pending |-> <<>>, at |-> "tick"]
    /\ ring = <<>> /\ sent = <<>>
    /\ triggers = Empty
    /\ stream \in [Clients -> {Off(k, 0) : k \in StreamKinds}]
    /\ seen = [c \in Clients |-> <<>>]
    /\ excused = [c \in Clients |-> FALSE]

-----------------------------------------------------------------------------
(* The provider. *)

(* on_health_event, with every legal transition of the connector. *)
on_health_event ==
    /\ steps < MaxHealth
    /\ \E to \in Health!Kinds :
          /\ Health!LegalTransition(conn, to)
          /\ conn' = to
          /\ store' = apply(store, to)
    /\ steps' = steps + 1
    /\ UNCHANGED <<app, loop, ring, sent, triggers, clientVars>>

Change ==
    /\ app' \in AppFaults \ {app}
    /\ UNCHANGED <<conn, store, steps, loop, ring, sent, triggers, clientVars>>

-----------------------------------------------------------------------------
(* refresh_loop *)

Published == Len(sent) + Len(loop.pending)

(* One tick: the new view, its events numbered from the next id on. *)
Tick ==
    /\ loop.at = "tick"
    /\ LET events == diff_events(loop.prev, View)
       IN  /\ Len(sent) + Len(events) <= MaxEvents
           /\ loop' = [prev |-> View,
                       pending |-> [k \in DOMAIN events |->
                                      [id |-> Len(sent) + k, event |-> events[k]]],
                       at |-> IF events = <<>> THEN "tick" ELSE "retain"]
    /\ View # loop.prev
    /\ UNCHANGED <<provider, ring, sent, triggers, clientVars>>

(* retain: the ring drops its oldest event when it is full. *)
retain(e) == Append(IF Len(ring) = ReplayRing THEN Tail(ring) ELSE ring, e)

After == [loop EXCEPT !.pending = Tail(@), !.at = IF Len(loop.pending) = 1 THEN "tick" ELSE "retain"]

(* Mutant of Publish: the event is broadcast before it is retained. *)
PublishLate ==
    LET e == Head(loop.pending)
    IN  \/ /\ loop.at = "retain"
           /\ sent' = Append(sent, e)
           /\ loop' = [loop EXCEPT !.at = "send"]
           /\ UNCHANGED <<provider, ring, triggers, clientVars>>
        \/ /\ loop.at = "send"
           /\ ring' = retain(e)
           /\ loop' = After
           /\ UNCHANGED <<provider, sent, triggers, clientVars>>

(* Each event is retained, then broadcast. *)
Publish ==
    LET e == Head(loop.pending)
    IN  \/ /\ loop.at = "retain"
           /\ ring' = retain(e)
           /\ loop' = [loop EXCEPT !.at = "send"]
           /\ UNCHANGED <<provider, sent, triggers, clientVars>>
        \/ /\ loop.at = "send"
           /\ sent' = Append(sent, e)
           /\ loop' = After
           /\ UNCHANGED <<provider, ring, triggers, clientVars>>

-----------------------------------------------------------------------------
(* The trigger store. *)

(* Trigger::matches: the entity, and a severity floor. *)
TriggerMatches(t, event) ==
    /\ t.entity_id = "" \/ t.entity_id = event.entity
    /\ event.severity >= t.severity

any_matches(event) == \E i \in DOMAIN triggers : TriggerMatches(triggers[i], event)

create_trigger ==
    /\ triggers = Empty
    /\ \E spec \in Specs : triggers' = 1 :> spec
    /\ UNCHANGED <<provider, loop, ring, sent, clientVars>>

update_trigger ==
    \E i \in DOMAIN triggers, spec \in Specs :
        /\ spec.entity_id = triggers[i].entity_id /\ spec # triggers[i]
        /\ triggers' = [triggers EXCEPT ![i] = spec]
        /\ UNCHANGED <<provider, loop, ring, sent, clientVars>>

delete_trigger ==
    \E i \in DOMAIN triggers :
        /\ triggers' = Empty
        /\ UNCHANGED <<provider, loop, ring, sent, clientVars>>

-----------------------------------------------------------------------------
(* Event streams. *)

(* last_event_id: the last frame the client received. *)
Floor(c) == IF seen[c] = <<>> THEN 0 ELSE Last(seen[c])

(* The filter of each endpoint: none, any trigger as it is now, or the     *)
(* trigger as it was when the stream was opened.                           *)
pass(c, event) ==
    CASE stream[c].kind = "faults"  -> TRUE
      [] stream[c].kind = "events"  -> any_matches(event)
      [] stream[c].kind = "trigger" -> TriggerMatches(stream[c].spec, event)

(* build_sse subscribes to the broadcast first .. *)
Subscribe(c) ==
    /\ stream[c].pc = "off" /\ stream[c].connects < MaxConnects
    /\ stream[c].kind = "trigger" => triggers # Empty
    /\ stream' = [stream EXCEPT ![c] = [Off(stream[c].kind, stream[c].connects + 1) EXCEPT
                                 !.pc = "subscribed", !.pos = Len(sent) + 1,
                                 !.spec = IF stream[c].kind = "trigger" THEN triggers[1] ELSE Empty]]
    /\ UNCHANGED <<provider, loop, ring, sent, triggers, seen, excused>>

(* .. and copies the ring later.  What the ring has dropped is lost. *)
SnapshotRing(c) ==
    LET replayed == SelectSeq(ring, LAMBDA e : e.id > Floor(c) /\ pass(c, e.event))
    IN  /\ stream[c].pc = "subscribed"
        /\ stream' = [stream EXCEPT ![c].pc = "open", ![c].replay = replayed,
                                    ![c].max_replayed = IF replayed = <<>> THEN Floor(c)
                                                        ELSE Last(replayed).id]
        /\ excused' = [excused EXCEPT ![c] = @ \/ (ring # <<>> /\ ring[1].id > Floor(c) + 1)]
        /\ UNCHANGED <<provider, loop, ring, sent, triggers, seen>>

(* The replayed events go out first. *)
Replay(c) ==
    /\ stream[c].pc = "open" /\ stream[c].replay # <<>>
    /\ seen' = [seen EXCEPT ![c] = Append(@, Head(stream[c].replay).id)]
    /\ stream' = [stream EXCEPT ![c].replay = Tail(@)]
    /\ UNCHANGED <<provider, loop, ring, sent, triggers, excused>>

(* Then the live side; a receiver that was overrun skips what it lost. *)
Receive(c) ==
    LET oldest == IF Len(sent) > EventBuffer THEN Len(sent) - EventBuffer + 1 ELSE 1
        pos == IF stream[c].pos < oldest THEN oldest ELSE stream[c].pos
        e == sent[pos]
    IN  /\ stream[c].pc = "open" /\ stream[c].replay = <<>>
        /\ pos <= Len(sent)
        /\ stream' = [stream EXCEPT ![c].pos = pos + 1]
        /\ seen' = IF e.id > stream[c].max_replayed /\ pass(c, e.event)
                   THEN [seen EXCEPT ![c] = Append(@, e.id)] ELSE seen
        /\ excused' = [excused EXCEPT ![c] = @ \/ pos # stream[c].pos]
        /\ UNCHANGED <<provider, loop, ring, sent, triggers>>

(* The client goes away; what was still to be sent to it is dropped. *)
Disconnect(c) ==
    /\ stream[c].pc = "open"
    /\ stream[c].connects < MaxConnects
    /\ stream' = [stream EXCEPT ![c] = Off(stream[c].kind, stream[c].connects)]
    /\ UNCHANGED <<provider, loop, ring, sent, triggers, seen, excused>>

Next ==
    \/ on_health_event \/ Change \/ Tick \/ Publish
    \/ create_trigger \/ update_trigger \/ delete_trigger
    \/ \E c \in Clients : \/ Subscribe(c) \/ SnapshotRing(c) \/ Replay(c) \/ Receive(c)
                          \/ Disconnect(c)

Spec == Init /\ [][Next]_vars

-----------------------------------------------------------------------------
(* The fault stream hands a client, across all its connections, the events *)
(* in order and each of them once; it misses one only when the ring or the *)
(* broadcast channel overran it (build_sse: "the hand-off neither gaps nor *)
(* duplicates").                                                           *)
NoGapNoDuplicate ==
    \A c \in Clients :
        /\ \A i \in 1..(Len(seen[c]) - 1) : seen[c][i] < seen[c][i + 1]
        /\ (stream[c].kind = "faults" /\ ~excused[c]) =>
              \A i \in DOMAIN seen[c] : seen[c][i] = i

(* When the connector is up again after a fault, the refresh loop reports  *)
(* that the component's health has changed.                                *)
HealAnnounced ==
    [][ (Tick /\ loop.prev.faults["bus"] # Empty
              /\ (\E c \in DOMAIN loop.prev.faults["bus"] :
                     loop.prev.faults["bus"][c].status = "CONFIRMED")
              /\ current_health(store) = 0)
        => \E k \in DOMAIN loop'.pending :
              /\ loop'.pending[k].event.entity = "bus"
              /\ loop'.pending[k].event.type \in {"health_changed", "fault_cleared"} ]_vars

(* The binding has at most one active code, and it is the one that the     *)
(* connector's health implies (apply).                                     *)
OneActiveCode ==
    /\ conn = "Up" => Active(store) = {}
    /\ conn = "Degraded" => Active(store) = {DTC_DEGRADED}
    /\ conn = "Down" => Active(store) = {DTC_NOT_OPERATIONAL}
    /\ current_health(store) = CASE conn = "Up" -> 0
                                     [] conn = "Degraded" -> 1
                                     [] conn = "Down" -> 3
                                     [] OTHER -> current_health(store)
==============================================================================
