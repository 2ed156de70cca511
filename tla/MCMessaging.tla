----------------------------- MODULE MCMessaging -----------------------------
(* The channel between publishers and an item of the executor and, one at a
   time, the connectors that carry messages and the user interface: the
   iceoryx2 channel, the Zenoh and MQTT connectors, the pump and the
   commands, and what the diagnostics gateway shows its clients: the merged
   view, the write surface and the timing slots.  All but the first share
   variables, since only one component runs. *)
EXTENDS ExecChannel, TLC

VARIABLES
    part,    \* the component that runs
    x1, x2, x3, x4, x5, x6, x7, x8, x9, x10, x11, x12, x13, x14, x15, x16, x17, x18, x19,
    x20, x21

VARIABLE aim    \* which of the component's promises is followed

CONSTANTS
    Parts,   \* the components to run
    None     \* no value

\* While another component runs, nothing is sent to the item of the executor.
Quiet == item = "raw" /\ Init

(* UiPump: one client, two values. *)
Users == {"u1"}
Written == <<"a", "b">>

(* UiCommand *)
Commands == <<"c1", "c2">>

(* MqttConnector: two channels share a filter. *)
Readers == <<"r1", "r2", "r3">>
FilterOf == [c \in {"r1", "r2", "r3"} |-> IF c = "r3" THEN "f2" ELSE "f1"]
FilterNames == <<"f1", "f2">>
LevelSeqs(S) == UNION {[1..n -> S] : n \in 1..3}
TopicPairs ==
    [filter : LevelSeqs({"a", "b", "", "+", "#", "a+", "a#"}), topic : LevelSeqs({"a", "b", ""})]

(* MedkitMerge: up to three entities of a provider, with and without a parent. *)
V == INSTANCE MedkitView
E(k, i, p) == [id |-> i, kind |-> k, parent |-> p, node |-> IF k = "App" THEN "n" ELSE ""]
Entities == {E("Component", "c", ""), E("Component", "d", "c"), E("App", "x", ""), E("App", "x", "c")}
ReportsOf ==
    {<<>>} \cup {<<a>> : a \in Entities} \cup {<<a, b>> : a, b \in Entities}
      \cup {<<E("Component", "c", "a"), E("Component", "d", "c"), E("App", "x", "d")>>}
EdgesOf == {<<>>, <<V!Edge("c", "Hosts", E("App", "x", ""))>>}
FaultMapsOf ==
    {V!Empty, "x" :> ("f" :> [severity |-> 2, status |-> "PENDING"]),
     "d" :> ("f" :> [severity |-> 1, status |-> "CONFIRMED"] @@ "g" :> [severity |-> 3, status |-> "HEALED"])}
ManifestsOf ==
    {[areas |-> <<>>, components |-> <<>>, parents |-> V!Empty],
     [areas |-> <<"a">>, components |-> <<[id |-> "c", area |-> "a"]>>, parents |-> "x" :> "c"],
     [areas |-> <<"a">>, components |-> <<>>, parents |-> "x" :> "d" @@ "c" :> "a"]}

(* MedkitActions: calls of one family, or of two, on two entities of one   *)
(* id or of one kind.                                                      *)
App(id) == <<"app", id>>

Targets == {App("k"), App("l"), <<"component", "k">>}

Families ==
    [families : {{"scripts"}, {"operations", "updates"}, {"bulk"}, {"configurations", "lifecycle"}, {"logs"}},
     keys : {Targets \ {App("l")}}]
    \cup [families : {{"cyclic"}}, keys : {Targets \ {App("l")}, Targets \ {<<"component", "k">>}}]

Pump == INSTANCE UiPump WITH
    Clients <- Users, Script <- Written, ReadRetryLimit <- 2, MaxUpsets <- 3,
    cell <- x1, setter <- x2, gate <- x3, pump <- x4,
    last <- x5, had_subscribers <- x6, subs <- x7, inbox <- x8, view <- x9, retained <- x10,
    health <- x11, registered <- x12, stop <- x13, bounds <- x14, due <- x15, late <- x16

Command == INSTANCE UiCommand WITH
    Ports <- Commands, Idempotent <- {"c2"}, DedupeCapacity <- 1, ChannelCapacity <- 1,
    MaxAttempts <- 2, MaxInvokes <- 2, MaxEpoch <- 2, MaxUpsets <- 1,
    server <- x1, gate <- x2, effects <- x3, dedupe <- x4, cursor <- x5, answering <- x6,
    requests <- x7, sent <- x8, replies <- x9, replied <- x10, fresh <- x11,
    announced <- x12, client <- x13, upsets <- x14, used <- x15

Iox == INSTANCE IoxChannel WITH
    Values <- {"a", "b"}, SeqMod <- 3, BufferSize <- 2, MaxSends <- 4, MaxFaults <- 2,
    typed <- x1, sequence <- x2, queue <- x3, history <- x4, joined <- x5,
    expected_sequence <- x6, crc_errors <- x7, sequence_gaps <- x8, sends <- x9,
    faults <- x10, log <- x11

Query == INSTANCE ZenohQuery WITH
    Queries <- {"q"}, Upstream <- {"u"}, BufferSize <- 2, MaxReplies <- 2, MaxSaid <- 3,
    MaxRefused <- 1, query_out <- x1, task <- x2, callback <- x3, replies <- x4,
    sealed_queries <- x5, evicting <- x6, reply_in <- x7, got <- x8, on_query_at <- x9, correlation_map <- x10,
    query_in <- x11, asked <- x12, reply_out <- x13, said <- x14, upstream_got <- x15,
    dispatcher <- x16, outlived <- x17, refused <- x18

Zenoh == INSTANCE ZenohConnector WITH
    Threads <- {"t1", "t2"}, Capacity <- 1, Threshold <- 1, MinPeers <- 1, MaxChanges <- 3,
    MaxSamples <- 2, MaxSends <- 1, MaxFailures <- 1, session <- x1, peers <- x2, slot <- x3, writer <- x4,
    reader <- x5, out <- x6, sent <- x7, wire <- x8, watcher <- x9, current_state <- x10,
    last_state <- x11, last_peers <- x12, health <- x13, degraded_due_to_drops <- x14,
    at <- x15, tokens <- x16, dropped <- x17, published <- x18, failed <- x19,
    samples <- x20, changes <- x21

Mqtt == INSTANCE MqttConnector WITH
    Matches <- {"f1"}, RequestCap <- 1, Ceiling <- 1, MaxLosses <- 3, MaxSends <- 1,
    MaxInbound <- 1, connection <- x1, reconnect_attempts <- x2, pump <- x3, requests <- x4,
    broker <- x5, delivered <- x6, slot <- x7, routes <- x8, subscriptions <- x9,
    creating <- x10, out <- x11, sent <- x12, inbox <- x13, watcher <- x14,
    last_state <- x15, state <- x16, replaying <- x17, health <- x18, losses <- x19,
    inbound <- x20, skipped <- x21

Merge == INSTANCE MedkitMerge WITH
    Reports <- ReportsOf, FaultMaps <- FaultMapsOf, Edges <- EdgesOf,
    Manifests <- ManifestsOf, snapshots <- x1, manifest <- x2, view <- x3

Actions == INSTANCE MedkitActions WITH
    Handlers <- {"h1", "h2"}, Keys <- Targets, Catalogue <- {<<App("k"), 0>>},
    Names <- {"n"}, Values <- {0}, Surfaces <- Families, MaxIds <- 2, MaxWrites <- 4,
    m <- x1, next <- x2, cyclic <- x3, req <- x4, given <- x5, surface <- x6, writes <- x7

Slot == INSTANCE ExecutorBinding WITH
    Writers <- {"w"}, Tooks <- {3, 9, 20}, Sentinel <- 999, MaxRuns <- 3, slot <- x1,
    executor <- x2, run <- x3, runs <- x4, past <- x5

\* A component uses the first n of the variables.
Unused(n) ==
    /\ (n < 4 => x4 = 0) /\ (n < 5 => x5 = 0) /\ (n < 6 => x6 = 0) /\ (n < 7 => x7 = 0)
    /\ (n < 8 => x8 = 0) /\ (n < 9 => x9 = 0) /\ (n < 10 => x10 = 0) /\ (n < 11 => x11 = 0)
    /\ (n < 12 => x12 = 0) /\ (n < 13 => x13 = 0) /\ (n < 14 => x14 = 0) /\ (n < 15 => x15 = 0)
    /\ (n < 16 => x16 = 0) /\ (n < 17 => x17 = 0) /\ (n < 18 => x18 = 0) /\ (n < 19 => x19 = 0)
    /\ (n < 20 => x20 = 0) /\ (n < 21 => x21 = 0)

Kept(n) ==
    /\ (n < 4 => x4' = x4) /\ (n < 5 => x5' = x5) /\ (n < 6 => x6' = x6) /\ (n < 7 => x7' = x7)
    /\ (n < 8 => x8' = x8) /\ (n < 9 => x9' = x9) /\ (n < 10 => x10' = x10) /\ (n < 11 => x11' = x11)
    /\ (n < 12 => x12' = x12) /\ (n < 13 => x13' = x13) /\ (n < 14 => x14' = x14) /\ (n < 15 => x15' = x15)
    /\ (n < 16 => x16' = x16) /\ (n < 17 => x17' = x17) /\ (n < 18 => x18' = x18) /\ (n < 19 => x19' = x19)
    /\ (n < 20 => x20' = x20) /\ (n < 21 => x21' = x21)

mcVars == <<part, vars, x1, x2, x3, x4, x5, x6, x7, x8, x9, x10, x11, x12, x13, x14, x15, x16, x17,
          x18, x19, x20, x21>>

\* Every promise of a component is followed from each initial state.
Followed == aim \in CASE part = "zenoh" -> 1..3 [] part = "mqtt" -> 1..2 [] OTHER -> {1}

MCInit ==
    /\ part \in Parts /\ Followed
    /\ \/ part = "channel" /\ Init /\ x1 = 0 /\ x2 = 0 /\ x3 = 0 /\ Unused(3)
       \/ part = "pump" /\ Pump!Init /\ Unused(16) /\ Quiet
       \/ part = "command" /\ Command!Init /\ Unused(15) /\ Quiet
       \/ part = "iox" /\ Iox!Init /\ Unused(11) /\ Quiet
       \/ part = "query" /\ Query!Init /\ Unused(18) /\ Quiet
       \/ part = "zenoh" /\ Zenoh!Init /\ Unused(21) /\ Quiet
       \/ part = "topic" /\ x1 \in TopicPairs /\ x2 = 0 /\ x3 = 0 /\ Unused(3) /\ Quiet
       \/ part = "mqtt" /\ Mqtt!Init /\ Unused(21) /\ Quiet
       \/ part = "merge" /\ Merge!Init /\ Unused(3) /\ Quiet
       \/ part = "actions" /\ Actions!Init /\ Unused(7) /\ Quiet
       \/ part = "slot" /\ Slot!Init /\ Unused(5) /\ Quiet

MCNext ==
    \/ part = "channel" /\ Next /\ UNCHANGED <<part, x1, x2, x3, x4, x5, x6, x7, x8, x9, x10, x11, x12, x13, x14, x15, x16, x17, x18,
        x19, x20, x21>>
    \/ part = "pump" /\ Pump!Next /\ Kept(16) /\ UNCHANGED <<part, vars>>
    \/ part = "command" /\ Command!Next /\ Kept(15) /\ UNCHANGED <<part, vars>>
    \/ part = "iox" /\ Iox!Next /\ Kept(11) /\ UNCHANGED <<part, vars>>
    \/ part = "query" /\ Query!Next /\ Kept(18) /\ UNCHANGED <<part, vars>>
    \/ part = "zenoh" /\ Zenoh!Next /\ Kept(21) /\ UNCHANGED <<part, vars>>
    \/ part = "mqtt" /\ Mqtt!Next /\ Kept(21) /\ UNCHANGED <<part, vars>>
    \/ part = "actions" /\ Actions!Next /\ Kept(7) /\ UNCHANGED <<part, vars>>
    \/ part = "slot" /\ Slot!Next /\ Kept(5) /\ UNCHANGED <<part, vars>>
    \/ part \in {"channel", "pump", "command", "iox", "query", "zenoh", "topic", "mqtt", "merge",
                 "actions", "slot"} /\ UNCHANGED mcVars

MCFairness ==
    /\ WF_(Pump!vars)(part = "pump" /\ Pump!write)
    /\ WF_(Pump!vars)(part = "pump" /\ Pump!PumpStep)
    /\ WF_(Pump!vars)(part = "pump" /\ Pump!register_with)
    /\ \A u \in Users : /\ WF_(Pump!vars)(part = "pump" /\ Pump!poll_view_model(u))
                        /\ WF_(Pump!vars)(part = "pump" /\ Pump!poll_can_execute(u))
    /\ WF_(Query!vars)(part = "query" /\ Query!DrainQuery)
    /\ WF_(Query!vars)(part = "query" /\ Query!DrainReply)
    /\ WF_(Query!vars)(part = "query" /\ Query!dispatcher_loop)
    /\ WF_(Query!vars)(part = "query" /\ Query!TryRecv)
    /\ WF_(Query!vars)(part = "query" /\ (Query!Resolved("q") \/ Query!Elapsed("q")))
    /\ WF_(Query!vars)(part = "query" /\ Query!on_done("q"))
    /\ WF_(Query!vars)(part = "query" /\ Query!TimeoutArm("q"))
    /\ WF_(Query!vars)(part = "query" /\ Query!Evict("q"))
    /\ WF_(Zenoh!vars)(part = "zenoh" /\ Zenoh!WatcherStart)
    /\ WF_(Zenoh!vars)(part = "zenoh" /\ Zenoh!WatcherRead)
    /\ WF_(Zenoh!vars)(part = "zenoh" /\ Zenoh!WatcherPoll)
    /\ WF_(Zenoh!vars)(part = "zenoh" /\ Zenoh!DrainOutbound)
    /\ WF_(Mqtt!vars)(part = "mqtt" /\ Mqtt!Backoff)
    /\ WF_(Mqtt!vars)(part = "mqtt" /\ Mqtt!TakeRequest)
    /\ WF_(Mqtt!vars)(part = "mqtt" /\ Mqtt!record_subscription)
    /\ WF_(Mqtt!vars)(part = "mqtt" /\ Mqtt!WatcherStart)
    /\ WF_(Mqtt!vars)(part = "mqtt" /\ Mqtt!WatcherPoll)
    /\ WF_(Mqtt!vars)(part = "mqtt" /\ Mqtt!WatcherApply)
    /\ WF_(Mqtt!vars)(part = "mqtt" /\ \E f \in Mqtt!Filters : Mqtt!replay_subscriptions(f))

MCSpec == MCInit /\ [][MCNext /\ UNCHANGED aim]_<<mcVars, aim>> /\ MCFairness

------------------------------------------------------------------------------
(* Properties; NoSampleStranded is the channel's own. *)

\* UiPump: no client sees an image that mixes two sets, and the value set last
\* before a shutdown reaches its watchers.
PumpFaithful == part = "pump" => Pump!Untorn /\ Pump!FinalDrain

\* UiCommand: in one run of the server an invocation takes effect a second time
\* only after the bounded cache had to forget it, and what was acknowledged as
\* accepted was enqueued.
CommandsOnce == part = "command" => Command!OncePerCached /\ Command!AcceptedIsEnqueued

\* A lost or damaged envelope shows in the reader's counters (IoxChannel), and a
\* Zenoh sample is written, counted as dropped, or refused by the service, a drop
\* only when the bridge is full (ZenohConnector).
LossCounted ==
    /\ part = "iox" => Iox!CountersTellLoss
    /\ part = "zenoh" => Zenoh!SamplesAccounted

\* ZenohQuery: a querier sees at most one terminator, as the last frame, unless
\* zenoh called back after the seal of the query was evicted, and a peer gets the
\* frames the plugin sent for its query.  MqttConnector: topic_matches decides
\* what the filter denotes.
RightlyRouted ==
    /\ part = "query" => Query!OneTerminator /\ Query!PeerGetsReplies
    /\ part = "topic" => Mqtt!MatchesWhatItDenotes(x1.filter, x1.topic)

\* MqttConnector: Down is final.  UiCommand: a command that is not idempotent is
\* not sent again under the manifest of a new server.
NeverAgain ==
    [][/\ part = "mqtt" => Mqtt!StaysDown
       /\ part = "command" => Command!SendsNothingKnown]_mcVars

\* MedkitMerge: every reported or declared entity is in the view once, its
\* edges, faults, data and health are those of the reports, and what the
\* gateway advertises it serves.  MedkitActions: what a client was told it
\* created is found under its id.  ExecutorBinding: between executions the
\* timing shown is exact.
ViewFaithful ==
    /\ part = "merge" =>
        /\ Merge!MergedOnce /\ Merge!EdgesFollowParents /\ Merge!SourcesFollowHosts
        /\ Merge!FaultsResolve /\ Merge!DataResolves /\ Merge!RollsUpWorst
        /\ Merge!AdvertisedIsServed
    /\ part = "actions" => Actions!CreatedIsFound
    /\ part = "slot" => Slot!TimingExact

\* MedkitActions: a request changes nothing that the sink shows of another
\* entity, nor the cyclic subscriptions of an entity of another id.
KeysIsolated == [][part = "actions" => \A h \in {"h1", "h2"} : Actions!Isolated(h)]_mcVars

Begun ==
    CASE part = "pump" -> TRUE
      [] part = "query" -> Query!Asked("q")
      [] part = "zenoh" -> (CASE aim = 1 -> Zenoh!SessionClosed
                              [] aim = 2 -> Zenoh!FewPeers
                              [] aim = 3 -> Zenoh!EnoughPeers)
      [] part = "mqtt" -> Mqtt!SeenReconnect(FilterNames[aim])
      [] OTHER -> FALSE

Completed ==
    CASE part = "pump" -> \A u \in Users : Pump!CaughtUp(u)
      [] part = "query" -> Query!Answered("q")
      [] part = "zenoh" -> (CASE aim = 1 -> Zenoh!ReportedDown
                              [] aim = 2 -> Zenoh!ReportedDegraded
                              [] aim = 3 -> Zenoh!ReportedUp)
      [] part = "mqtt" -> Mqtt!Restored(FilterNames[aim])
      [] OTHER -> FALSE

==============================================================================
