---------------------------- MODULE ZenohConnector ----------------------------
(***************************************************************************)
(* The publish/subscribe side of the Zenoh connector                       *)
(* (crates/taktora-connector-zenoh): the channels and the session slot     *)
(* (connector.rs, registry.rs), the dispatcher that drains writers into    *)
(* session.publish, the session's callbacks that push samples through a    *)
(* BridgedInboundPublish on zenoh's threads (dispatcher.rs, bridge.rs),    *)
(* and the watcher that maps the session's state and peer count onto       *)
(* health (connector.rs, health.rs).                                       *)
(*                                                                         *)
(* The session is external: its state and its peer count change at any     *)
(* time, Closed is final.  A sample is a number.  The sleep of the watcher *)
(* and of the dispatcher is the gap between two steps.                     *)
(***************************************************************************)
EXTENDS ConnectorCore, Sequences, FiniteSets

CONSTANTS
    Threads,       \* zenoh's callback threads
    Capacity,      \* inbound_bridge_capacity
    Threshold,     \* inbound_drop_threshold
    MinPeers,      \* min_peers; 0 stands for None
    MaxChanges, MaxSamples, MaxSends, MaxFailures

VARIABLES
    session,       \* SessionState
    peers,         \* peer_count
    slot,          \* the session is still in session_slot
    writer, reader,\* the channels were created
    out,           \* .out: what the plugin sent and the dispatcher not drained
    sent, wire,    \* history: sent by the plugin; taken or refused by zenoh
    watcher, current_state, last_state, last_peers,
    health, degraded_due_to_drops,
    at,            \* where each callback thread is
    tokens, dropped,
    published, failed, \* how many samples reached .in, and how many it refused
    samples, changes \* bounds

channelVars == <<slot, writer, reader>>
outboundVars == <<out, sent, wire>>
watchVars == <<watcher, current_state, last_state, last_peers>>
inboundVars == <<at, tokens, dropped, published, failed, samples>>
vars == <<session, peers, channelVars, outboundVars, watchVars, health, degraded_due_to_drops,
          inboundVars, changes>>

Init ==
    /\ session = "Connecting" /\ peers = 0
    /\ slot = TRUE /\ writer = FALSE /\ reader = FALSE
    /\ out = <<>> /\ sent = 0 /\ wire = <<>>
    /\ watcher = "none" /\ current_state = "Connecting" /\ last_state = "Connecting" /\ last_peers = 0
    /\ health = "Connecting" /\ degraded_due_to_drops = FALSE
    /\ at = [t \in Threads |-> "idle"]
    /\ tokens = 0 /\ dropped = 0 /\ published = 0 /\ failed = 0 /\ samples = 0
    /\ changes = 0

-----------------------------------------------------------------------------
(* External: zenoh changes its state or its links. *)
SessionChanges ==
    /\ session # "Closed"
    /\ changes < MaxChanges
    /\ changes' = changes + 1
    /\ \/ session' \in {"Connecting", "Alive", "Closed"} \ {session} /\ UNCHANGED peers
       \/ peers' \in (0..MinPeers) \ {peers} /\ UNCHANGED session
    /\ UNCHANGED <<channelVars, outboundVars, watchVars, health, degraded_due_to_drops, inboundVars>>

create_writer ==
    /\ ~writer
    /\ writer' = TRUE
    /\ UNCHANGED <<session, peers, slot, reader, outboundVars, watchVars, health, degraded_due_to_drops,
                   inboundVars, changes>>

(* subscribe needs the session of the slot; without it the call fails. *)
create_reader ==
    /\ ~reader /\ slot
    /\ reader' = TRUE
    /\ UNCHANGED <<session, peers, slot, writer, outboundVars, watchVars, health, degraded_due_to_drops,
                   inboundVars, changes>>

(* A second call finds the slot empty and fails. *)
register_with ==
    /\ slot
    /\ slot' = FALSE
    /\ watcher' = "start"
    /\ UNCHANGED <<session, peers, writer, reader, outboundVars, current_state, last_state, last_peers, health,
                   degraded_due_to_drops, inboundVars, changes>>

-----------------------------------------------------------------------------
PluginSend ==
    /\ writer /\ sent < MaxSends
    /\ sent' = sent + 1
    /\ out' = Append(out, sent + 1)
    /\ UNCHANGED <<session, peers, channelVars, wire, watchVars, health, degraded_due_to_drops,
                   inboundVars, changes>>

(* drain_outbound_once on a writer: a chunk zenoh refuses is dropped. *)
DrainOutbound ==
    /\ watcher \notin {"none", "stopped"} /\ out # <<>>
    /\ out' = Tail(out)
    /\ wire' = IF session = "Alive" THEN Append(wire, Head(out)) ELSE wire
    /\ UNCHANGED <<session, peers, channelVars, sent, watchVars, health, degraded_due_to_drops,
                   inboundVars, changes>>

-----------------------------------------------------------------------------
(* publish_bytes on a callback thread: a token or a drop .. *)
TrySend(t) ==
    /\ reader /\ session = "Alive"
    /\ at[t] = "idle" /\ samples < MaxSamples
    /\ samples' = samples + 1
    /\ IF tokens < Capacity
       THEN /\ tokens' = tokens + 1
            /\ at' = [at EXCEPT ![t] = "token"]
            /\ UNCHANGED dropped
       ELSE /\ dropped' = dropped + 1
            /\ at' = [at EXCEPT ![t] = "drop"]
            /\ UNCHANGED tokens
    /\ UNCHANGED <<session, peers, channelVars, outboundVars, watchVars, health, degraded_due_to_drops,
                   published, failed, changes>>

(* Mutant of TakeBack: the token stays in the bridge. *)
TakeBackNot(t) ==
    /\ at[t] = "token"
    /\ at' = [at EXCEPT ![t] = "write"]
    /\ UNCHANGED <<session, peers, channelVars, outboundVars, watchVars, health, degraded_due_to_drops,
                   tokens, dropped, published, failed, samples, changes>>

(* .. the token is taken back before the write .. *)
TakeBack(t) ==
    /\ at[t] = "token"
    /\ at' = [at EXCEPT ![t] = "write"]
    /\ tokens' = tokens - 1
    /\ UNCHANGED <<session, peers, channelVars, outboundVars, watchVars, health, degraded_due_to_drops,
                   dropped, published, failed, samples, changes>>

(* .. whose error the callback ignores. *)
Publish(t) ==
    /\ at[t] = "write"
    /\ at' = [at EXCEPT ![t] = "idle"]
    /\ \/ published' = published + 1 /\ UNCHANGED failed
       \/ failed < MaxFailures /\ failed' = failed + 1 /\ UNCHANGED published
    /\ UNCHANGED <<session, peers, channelVars, outboundVars, watchVars, health, degraded_due_to_drops,
                   tokens, dropped, samples, changes>>

(* record_inbound_drop: the latch is read without the lock, the state      *)
(* changed under it, and the latch set after it is released.               *)
record_inbound_drop(t) ==
    /\ at[t] = "drop"
    /\ \/ /\ dropped < Threshold \/ degraded_due_to_drops
          /\ at' = [at EXCEPT ![t] = "idle"]
          /\ UNCHANGED health
       \/ /\ dropped >= Threshold /\ ~degraded_due_to_drops
          /\ at' = [at EXCEPT ![t] = "latch"]
          /\ health' = IF health = "Up" THEN "Degraded" ELSE health
    /\ UNCHANGED <<session, peers, channelVars, outboundVars, watchVars, degraded_due_to_drops,
                   tokens, dropped, published, failed, samples, changes>>

LatchDrops(t) ==
    /\ at[t] = "latch"
    /\ at' = [at EXCEPT ![t] = "idle"]
    /\ degraded_due_to_drops' = TRUE
    /\ UNCHANGED <<session, peers, channelVars, outboundVars, watchVars, health,
                   tokens, dropped, published, failed, samples, changes>>

-----------------------------------------------------------------------------
BelowFloor(n) == MinPeers > 0 /\ n < MinPeers

TargetOf(state, n) ==
    CASE state = "Connecting" -> "Connecting"
      [] state = "Alive" -> IF BelowFloor(n) THEN "Degraded" ELSE "Up"
      [] OTHER -> "Down"

(* apply_observation: Connecting to Degraded goes through Up; reaching Up  *)
(* re-arms the latch.                                                      *)
apply_observation(state, n) ==
    LET target == TargetOf(state, n)
        from == IF health = "Connecting" /\ target = "Degraded" THEN "Up" ELSE health
    IN  /\ health' = Transition(from, target)
        /\ degraded_due_to_drops' =
            IF target = "Up" /\ health' # health THEN FALSE ELSE degraded_due_to_drops

WatcherStart ==
    /\ watcher = "start"
    /\ watcher' = "watch"
    /\ current_state' = session /\ last_state' = session /\ last_peers' = peers
    /\ apply_observation(session, peers)
    /\ UNCHANGED <<session, peers, channelVars, outboundVars, inboundVars, changes>>

(* The state is read before the peer count. *)
WatcherRead ==
    /\ watcher = "watch"
    /\ watcher' = "read"
    /\ current_state' = session
    /\ UNCHANGED <<session, peers, channelVars, outboundVars, last_state, last_peers, health,
                   degraded_due_to_drops, inboundVars, changes>>

crossed_floor ==
    last_state = "Alive" /\ current_state = "Alive" /\ BelowFloor(last_peers) # BelowFloor(peers)


(* The watcher compares with its last observation and ends once the        *)
(* session is closed.                                                      *)
WatcherPoll ==
    /\ watcher = "read"
    /\ IF current_state # last_state \/ crossed_floor
       THEN /\ apply_observation(current_state, peers)
            /\ last_state' = current_state /\ last_peers' = peers
       ELSE UNCHANGED <<health, degraded_due_to_drops, last_state, last_peers>>
    /\ watcher' = IF current_state = "Closed" THEN "exited" ELSE "watch"
    /\ UNCHANGED <<session, peers, channelVars, outboundVars, current_state, inboundVars, changes>>

(* Both loops end at their next look at the flag. *)
stop_dispatcher ==
    /\ watcher = "watch"
    /\ watcher' = "stopped"
    /\ UNCHANGED <<session, peers, channelVars, outboundVars, current_state, last_state, last_peers,
                   health, degraded_due_to_drops, inboundVars, changes>>

Next ==
    \/ SessionChanges \/ create_writer \/ create_reader \/ register_with
    \/ PluginSend \/ DrainOutbound
    \/ \E t \in Threads : TrySend(t) \/ TakeBack(t) \/ Publish(t) \/ record_inbound_drop(t) \/ LatchDrops(t)
    \/ WatcherStart \/ WatcherRead \/ WatcherPoll \/ stop_dispatcher

(* The gateway's runtime polls the watcher and the dispatcher. *)
Fairness == WF_vars(WatcherStart) /\ WF_vars(WatcherRead) /\ WF_vars(WatcherPoll) /\ WF_vars(DrainOutbound)

Spec == Init /\ [][Next]_vars /\ Fairness

-----------------------------------------------------------------------------
TypeOK ==
    /\ health \in Kinds
    /\ tokens \in 0..Capacity
    /\ at \in [Threads -> {"idle", "token", "write", "drop", "latch"}]

Watching == watcher \in {"start", "watch", "read"}
Gone == watcher = "stopped"

(* A registered connector whose session rests in a state is reported in    *)
(* it: closed as Down, below the floor of peers as Degraded, and a session *)
(* with its peers as Up unless drops degraded it (run by the watcher of    *)
(* register_with, which compares successive polls).                        *)
SessionClosed == Watching /\ session = "Closed"
FewPeers == Watching /\ session = "Alive" /\ BelowFloor(peers)
EnoughPeers == Watching /\ session = "Alive" /\ ~BelowFloor(peers)

ReportedDown == health = "Down" \/ Gone
ReportedDegraded == health = "Degraded" \/ Gone \/ session # "Alive" \/ ~BelowFloor(peers)
ReportedUp == health = "Up" \/ dropped > 0 \/ Gone \/ session # "Alive" \/ BelowFloor(peers)

(* A sample is dropped only while Capacity callbacks are between the two   *)
(* calls of the bridge, whatever writes are under way, and every sample is *)
(* written, counted as dropped, or one the service refused, of which no    *)
(* counter tells (publish_bytes and the callback of create_reader).        *)
SamplesAccounted ==
    /\ samples = published + failed + dropped
                   + Cardinality({t \in Threads : at[t] \in {"token", "write"}})
    /\ tokens = Cardinality({t \in Threads : at[t] = "token"})
==============================================================================
