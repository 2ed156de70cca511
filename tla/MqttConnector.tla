----------------------------- MODULE MqttConnector -----------------------------
(***************************************************************************)
(* The MQTT connector (crates/taktora-connector-mqtt): channels, routes    *)
(* and reference-counted subscriptions (connector.rs, inbound.rs), the     *)
(* pump of the real session that reconnects (real.rs), the dispatcher      *)
(* (dispatcher.rs) and the watcher that maps the connection onto health    *)
(* and replays subscriptions after a reconnect (connector.rs, health.rs).  *)
(*                                                                         *)
(* The client library and the broker are external: requests wait in a      *)
(* queue of RequestCap until the connection takes them, a broker forgets   *)
(* the subscriptions of a clean session when the connection ends.  The     *)
(* inbound bridge and its latch are as in ZenohConnector and are left out. *)
(***************************************************************************)
EXTENDS ConnectorCore, Sequences, FiniteSets

CONSTANTS
    Readers,       \* reader channels, in the order of their creation
    FilterOf,      \* their subscription filters
    Matches,       \* the filters that match the topic of inbound messages
    RequestCap,    \* REQUEST_CHANNEL_CAP
    Ceiling,       \* reconnect_attempt_ceiling
    MaxLosses, MaxSends, MaxInbound

VARIABLES
    connection,    \* MqttConnectionState
    reconnect_attempts, pump,
    requests,      \* the client's request channel
    broker,        \* filters the broker holds for this client
    delivered,     \* what the broker was sent
    slot,
    routes, subscriptions, creating,
    out, sent,
    inbox,         \* messages each reader received
    watcher, last_state, state, replaying,
    health,
    losses, inbound,
    skipped        \* history: filters whose replay failed since the last poll

connVars == <<connection, reconnect_attempts, pump>>
clientVars == <<requests, broker, delivered>>
tableVars == <<slot, routes, subscriptions, creating>>
dataVars == <<out, sent, inbox, inbound>>
watchVars == <<watcher, last_state, state, replaying, skipped>>
vars == <<connVars, clientVars, tableVars, dataVars, watchVars, health, losses>>

Filters == {FilterOf[c] : c \in DOMAIN FilterOf}

Channels == {Readers[i] : i \in DOMAIN Readers}

Init ==
    /\ connection = "Connecting" /\ reconnect_attempts = 0 /\ pump = "poll"
    /\ requests = <<>> /\ broker = {} /\ delivered = <<>>
    /\ slot = TRUE /\ routes = <<>>
    /\ subscriptions = [f \in Filters |-> 0]
    /\ creating = "none"
    /\ out = <<>> /\ sent = 0
    /\ inbox = [c \in Channels |-> 0] /\ inbound = 0
    /\ watcher = "none" /\ last_state = "Connecting" /\ state = "Connecting" /\ replaying = {}
    /\ health = "Connecting"
    /\ losses = 0 /\ skipped = {}

-----------------------------------------------------------------------------
(* run_pump: a CONNACK, a refusal that ends the pump, or an error after    *)
(* which it backs off and polls again.                                     *)
on_connack ==
    /\ pump = "poll" /\ connection = "Connecting"
    /\ connection' = "Connected"
    /\ reconnect_attempts' = 0
    /\ UNCHANGED <<pump, clientVars, tableVars, dataVars, watchVars, health, losses>>

ConnectionRefused ==
    /\ pump = "poll" /\ connection = "Connecting"
    /\ losses < MaxLosses
    /\ losses' = losses + 1
    /\ connection' = "AuthRejected"
    /\ pump' = "ended"
    /\ UNCHANGED <<reconnect_attempts, clientVars, tableVars, dataVars, watchVars, health>>

on_connection_error ==
    /\ pump = "poll"
    /\ losses < MaxLosses
    /\ losses' = losses + 1
    /\ connection' = "Connecting"
    /\ reconnect_attempts' = reconnect_attempts + 1
    /\ broker' = {}
    /\ pump' = "backoff"
    /\ UNCHANGED <<requests, delivered, tableVars, dataVars, watchVars, health>>

Backoff ==
    /\ pump = "backoff"
    /\ pump' = "poll"
    /\ UNCHANGED <<connection, reconnect_attempts, clientVars, tableVars, dataVars, watchVars, health, losses>>

(* External: the event loop takes a request and the broker executes it. *)
TakeRequest ==
    /\ pump = "poll" /\ connection = "Connected"
    /\ requests # <<>>
    /\ requests' = Tail(requests)
    /\ IF Head(requests)[1] = "subscribe"
       THEN broker' = broker \cup {Head(requests)[2]} /\ UNCHANGED delivered
       ELSE delivered' = Append(delivered, Head(requests)[2]) /\ UNCHANGED broker
    /\ UNCHANGED <<connVars, tableVars, dataVars, watchVars, health, losses>>

(* AsyncClient: a request waits for room .. *)
Request(kind, what) ==
    /\ Len(requests) < RequestCap
    /\ requests' = Append(requests, <<kind, what>>)
    /\ UNCHANGED losses

(* .. or is refused. *)
RequestFails ==
    /\ losses < MaxLosses
    /\ losses' = losses + 1
    /\ UNCHANGED requests

-----------------------------------------------------------------------------
Created == Len(routes)

(* register_inbound: the route is added first; a filter without a          *)
(* subscription needs the session of the slot to subscribe, which a        *)
(* registered connector no longer has, and the call fails.                 *)
add_route ==
    /\ creating = "none" /\ Created < Len(Readers)
    /\ LET c == Readers[Created + 1] IN
       /\ routes' = Append(routes, c)
       /\ IF subscriptions[FilterOf[c]] > 0
          THEN /\ subscriptions' = [subscriptions EXCEPT ![FilterOf[c]] = @ + 1]
               /\ UNCHANGED creating
          ELSE /\ creating' = IF slot THEN FilterOf[c] ELSE "none"
               /\ UNCHANGED subscriptions
    /\ UNCHANGED <<connVars, clientVars, slot, dataVars, watchVars, health, losses>>

(* A subscribe that fails leaves the route without a subscription. *)
record_subscription ==
    /\ creating # "none"
    /\ creating' = "none"
    /\ \/ /\ Request("subscribe", creating)
          /\ subscriptions' = [subscriptions EXCEPT ![creating] = 1]
       \/ RequestFails /\ UNCHANGED subscriptions
    /\ UNCHANGED <<connVars, broker, delivered, slot, routes, dataVars, watchVars, health>>

(* apply_target: Up to Connecting goes through Degraded. *)
apply_target(target) ==
    health' = IF health = "Up" /\ target = "Connecting" THEN "Connecting"
              ELSE Transition(health, target)

register_with ==
    /\ slot /\ creating = "none"
    /\ slot' = FALSE
    /\ health' = IF connection = "Connected" THEN Transition(health, "Up") ELSE health
    /\ watcher' = "start"
    /\ UNCHANGED <<connVars, clientVars, routes, subscriptions, creating, dataVars, last_state, state,
                   replaying, skipped, losses>>

stop_dispatcher ==
    /\ watcher = "sleep"
    /\ watcher' = "stopped"
    /\ UNCHANGED <<connVars, clientVars, tableVars, dataVars, last_state, state, replaying, skipped, health,
                   losses>>

-----------------------------------------------------------------------------
PluginSend ==
    /\ sent < MaxSends
    /\ sent' = sent + 1
    /\ out' = Append(out, sent + 1)
    /\ UNCHANGED <<connVars, clientVars, tableVars, inbox, inbound, watchVars, health, losses>>

dispatch_outbound_once ==
    /\ watcher \notin {"none", "stopped"}
    /\ out # <<>>
    /\ Request("publish", Head(out)) \/ RequestFails
    /\ out' = Tail(out)
    /\ UNCHANGED <<connVars, broker, delivered, tableVars, sent, inbox, inbound, watchVars, health>>

(* A message of the broker is handed to every route whose filter matches. *)
route_inbound ==
    /\ pump = "poll" /\ connection = "Connected"
    /\ inbound < MaxInbound
    /\ broker \cap Matches # {}
    /\ inbound' = inbound + 1
    /\ inbox' = [c \in Channels |->
                    inbox[c] + Cardinality({i \in DOMAIN routes : routes[i] = c /\ FilterOf[c] \in Matches})]
    /\ UNCHANGED <<connVars, clientVars, tableVars, out, sent, watchVars, health, losses>>

-----------------------------------------------------------------------------
active_filters == {f \in Filters : subscriptions[f] > 0}

is_reconnect(last, now) == now = "Connected" /\ last # "Connected"

map_health(now, attempts) ==
    CASE now = "AuthRejected" -> "Down"
      [] now # "AuthRejected" /\ attempts > Ceiling -> "Down"
      [] now = "Connected" /\ attempts <= Ceiling -> "Up"
      [] OTHER -> "Connecting"

WatcherStart ==
    /\ watcher = "start"
    /\ watcher' = "sleep"
    /\ last_state' = connection
    /\ UNCHANGED <<connVars, clientVars, tableVars, dataVars, state, replaying, skipped, health, losses>>

(* After the sleep: read the state, and on a reconnect start the replay. *)
WatcherPoll ==
    /\ watcher = "sleep"
    /\ state' = connection
    /\ replaying' = IF is_reconnect(last_state, connection) THEN active_filters ELSE {}
    /\ watcher' = "replay"
    /\ skipped' = {}
    /\ UNCHANGED <<connVars, clientVars, tableVars, dataVars, last_state, health, losses>>

(* A subscribe that fails is skipped. *)
replay_subscriptions(f) ==
    /\ watcher = "replay" /\ f \in replaying
    /\ replaying' = replaying \ {f}
    /\ \/ Request("subscribe", f) /\ UNCHANGED skipped
       \/ RequestFails /\ skipped' = skipped \cup {f}
    /\ UNCHANGED <<connVars, broker, delivered, tableVars, dataVars, watcher, last_state, state, health>>

(* Mutant of WatcherApply: Down does not end the watcher. *)
WatcherApplyForever ==
    /\ watcher = "replay" /\ replaying = {}
    /\ apply_target(map_health(state, reconnect_attempts))
    /\ last_state' = state
    /\ watcher' = "sleep"
    /\ UNCHANGED <<connVars, clientVars, tableVars, dataVars, state, replaying, skipped, losses>>

(* The replay is done: the state read before it and the attempts of now    *)
(* give the health; Down ends the watcher.                                 *)
WatcherApply ==
    /\ watcher = "replay" /\ replaying = {}
    /\ LET target == map_health(state, reconnect_attempts) IN
       /\ apply_target(target)
       /\ watcher' = IF target = "Down" THEN "ended" ELSE "sleep"
    /\ last_state' = state
    /\ UNCHANGED <<connVars, clientVars, tableVars, dataVars, state, replaying, skipped, losses>>

Next ==
    \/ on_connack \/ ConnectionRefused \/ on_connection_error \/ Backoff \/ TakeRequest
    \/ add_route \/ record_subscription \/ register_with \/ stop_dispatcher
    \/ PluginSend \/ dispatch_outbound_once \/ route_inbound
    \/ WatcherStart \/ WatcherPoll \/ WatcherApply
    \/ \E f \in Filters : replay_subscriptions(f)

(* The runtime polls the pump, the dispatcher and the watcher; a           *)
(* connection takes the requests waiting for it.                           *)
Fairness ==
    /\ WF_vars(Backoff) /\ WF_vars(TakeRequest) /\ WF_vars(record_subscription)
    /\ WF_vars(WatcherStart) /\ WF_vars(WatcherPoll) /\ WF_vars(WatcherApply)
    /\ WF_vars(\E f \in Filters : replay_subscriptions(f))

Spec == Init /\ [][Next]_vars /\ Fairness

-----------------------------------------------------------------------------
TypeOK ==
    /\ connection \in {"Connecting", "Connected", "AuthRejected"}
    /\ health \in Kinds
    /\ Len(requests) <= RequestCap

Watching == watcher \in {"start", "sleep", "replay"}

(* Down is final: once authentication is refused or the attempts exceed    *)
(* the ceiling, health stays Down whatever the connection does.            *)
StaysDown == health = "Down" => health' = "Down"

(* A reconnect that the watcher saw restores every subscription: if its    *)
(* last poll found the connection down and it is up again, the broker      *)
(* holds every active filter in the end, unless the connection is lost     *)
(* once more or the client refused the request.                            *)
SeenReconnect(f) ==
    /\ watcher = "sleep" /\ last_state # "Connected" /\ connection = "Connected"
    /\ f \in active_filters
Restored(f) ==
    f \in broker \/ f \in skipped \/ connection # "Connected" \/ watcher \in {"stopped", "ended"}

(* "replays active SUBSCRIBEs on each reconnect CONNACK" (register_with):  *)
(* a connector that stays connected has its subscriptions at the broker.   *)
ReconnectRestores ==
    \A f \in Filters :
        (Watching /\ connection = "Connected" /\ f \in active_filters) ~> Restored(f)

-----------------------------------------------------------------------------
(* Topics and filters (topic.rs, matcher.rs).  A topic is the sequence of  *)
(* its levels, a level a word or a wildcard; "a+" and "a#" stand for a     *)
(* level that contains a wildcard without being one.  The limits on length *)
(* and on the null and space characters are left out.                      *)

(* MqttTopic::new: a topic to publish on has no wildcard. *)
ValidTopic(t) == \A i \in DOMAIN t : t[i] \notin {"+", "#", "a+", "a#"}

(* MqttTopicFilter::new *)
wildcard_violation(f) ==
    \E i \in DOMAIN f : \/ f[i] \in {"a+", "a#"}
                        \/ f[i] = "#" /\ i # Len(f)

(* The loop of topic_matches, from level i on. *)
topic_matches(f, t) ==
    LET from[i \in 1..(Len(f) + 1)] ==
            IF i = Len(f) + 1 THEN i = Len(t) + 1
            ELSE IF f[i] = "#" THEN TRUE
            ELSE IF i = Len(t) + 1 THEN FALSE
            ELSE IF f[i] = "+" \/ f[i] = t[i] THEN from[i + 1]
            ELSE FALSE
    IN  from[1]

LevelMatches(f, t, i) == f[i] = "+" \/ f[i] = t[i]

(* MQTT 3.1.1, 4.7.1: '+' stands for one level, a final '#' for its parent *)
(* and any number of levels below it.                                      *)
Denotes(f, t) ==
    IF f[Len(f)] = "#"
    THEN Len(t) >= Len(f) - 1 /\ \A i \in 1..(Len(f) - 1) : LevelMatches(f, t, i)
    ELSE Len(t) = Len(f) /\ \A i \in DOMAIN f : LevelMatches(f, t, i)

(* Every filter that MqttTopicFilter::new accepts matches exactly the      *)
(* topics it denotes.                                                      *)
MatchesWhatItDenotes(f, t) ==
    ~wildcard_violation(f) /\ ValidTopic(t) => (topic_matches(f, t) <=> Denotes(f, t))
==============================================================================
