------------------------------ MODULE ZenohQuery ------------------------------
(***************************************************************************)
(* Queries through the Zenoh connector (crates/taktora-connector-zenoh).   *)
(*                                                                         *)
(* Outward, a ZenohQuerier sends on .query.out; the dispatcher spawns a    *)
(* task per query that races session.query against a timeout; the          *)
(* callbacks zenoh holds and the timeout arm publish frames on .reply.in   *)
(* under the lock of the sealed set (dispatcher.rs, real.rs).  Inward, the *)
(* callback of a queryable stores a replier in the correlation map and     *)
(* publishes on .query.in; the plugin answers on .reply.out, which the     *)
(* dispatcher forwards.                                                    *)
(*                                                                         *)
(* The iceoryx2 channels are external: first in first out, a full one      *)
(* makes its writer wait.  Zenoh is external too: it calls back any number *)
(* of times, drops the callback once, and resolves session.query when it   *)
(* likes.                                                                  *)
(***************************************************************************)
EXTENDS Naturals, Sequences, FiniteSets

CONSTANTS
    Queries,       \* ids of the plugin's own queries
    Upstream,      \* ids minted for the queries of peers
    BufferSize, MaxReplies, MaxSaid,
    MaxRefused     \* publications that are dropped or fail

VARIABLES
    query_out,     \* .query.out
    task,          \* the task of each query
    callback,      \* the closure zenoh holds: "none", "live" or "dropped"
    replies,       \* bound: how often zenoh called on_reply
    sealed_queries, evicting,
    reply_in,      \* .reply.in
    got,           \* history: frames the querier received for each id
    on_query_at,   \* where zenoh's callback for a peer's query is
    correlation_map, query_in,
    asked,         \* ids the plugin received
    reply_out,
    said,          \* history: frames the plugin sent for each id
    upstream_got,  \* history: what the peer received
    dispatcher,
    outlived,      \* history: queries whose callback outlived their seal
    refused        \* history: the frames no channel took

taskVars == <<task, callback, replies, sealed_queries, evicting, reply_in, got, outlived>>
querierVars == <<query_out, taskVars>>
queryableVars == <<on_query_at, correlation_map, query_in, asked, reply_out, said, upstream_got>>
vars == <<querierVars, queryableVars, dispatcher, refused>>

Terminators == {"EndOfStream", "Timeout"}

Init ==
    /\ query_out = <<>>
    /\ task = [q \in Queries |-> "none"]
    /\ callback = [q \in Queries |-> "none"]
    /\ replies = [q \in Queries |-> 0]
    /\ sealed_queries = {} /\ evicting = {}
    /\ reply_in = <<>>
    /\ got = [q \in Queries |-> <<>>]
    /\ on_query_at = [u \in Upstream |-> "none"]
    /\ correlation_map = {}
    /\ query_in = <<>> /\ asked = {}
    /\ reply_out = <<>>
    /\ said = [u \in Upstream |-> <<>>]
    /\ upstream_got = [u \in Upstream |-> <<>>]
    /\ dispatcher = "query"
    /\ outlived = {} /\ refused = <<>>

-----------------------------------------------------------------------------
(* The querier: send mints an id and writes; try_recv reads one frame. *)
Send(q) ==
    /\ task[q] = "none"
    /\ Len(query_out) < BufferSize
    /\ query_out' = Append(query_out, q)
    /\ task' = [task EXCEPT ![q] = "sent"]
    /\ UNCHANGED <<callback, replies, sealed_queries, evicting, reply_in, got, outlived,
                   queryableVars, dispatcher, refused>>

TryRecv ==
    /\ reply_in # <<>>
    /\ got' = [got EXCEPT ![Head(reply_in)[1]] = Append(@, Head(reply_in)[2])]
    /\ reply_in' = Tail(reply_in)
    /\ UNCHANGED <<query_out, task, callback, replies, sealed_queries, evicting, outlived,
                   queryableVars, dispatcher, refused>>

(* The bridge is full or the service refuses the frame; every caller       *)
(* ignores the error.                                                      *)
Refuse(id, frame) ==
    /\ Len(refused) < MaxRefused
    /\ refused' = Append(refused, <<id, frame>>)

publish_with_correlation(q, frame) ==
    \/ /\ Len(reply_in) < BufferSize
       /\ reply_in' = Append(reply_in, <<q, frame>>)
       /\ UNCHANGED refused
    \/ Refuse(q, frame) /\ UNCHANGED reply_in

(* The claim of on_done and of the timeout arm: insert into the sealed set *)
(* and publish the terminator, or do nothing if the id is in it already.   *)
Claim(q, frame) ==
    \/ /\ q \in sealed_queries
       /\ UNCHANGED <<sealed_queries, reply_in, refused>>
    \/ /\ q \notin sealed_queries
       /\ sealed_queries' = sealed_queries \cup {q}
       /\ publish_with_correlation(q, frame)

(* Mutant of on_reply: the sealed set is not consulted. *)
on_replyUnsealed(q) ==
    /\ callback[q] = "live"
    /\ replies[q] < MaxReplies
    /\ replies' = [replies EXCEPT ![q] = @ + 1]
    /\ publish_with_correlation(q, "Data")
    /\ UNCHANGED <<query_out, task, callback, sealed_queries, evicting, got, outlived, queryableVars,
                   dispatcher>>

on_reply(q) ==
    /\ callback[q] = "live"
    /\ replies[q] < MaxReplies
    /\ replies' = [replies EXCEPT ![q] = @ + 1]
    /\ \/ q \in sealed_queries /\ UNCHANGED <<reply_in, refused>>
       \/ q \notin sealed_queries /\ publish_with_correlation(q, "Data")
    /\ UNCHANGED <<query_out, task, callback, sealed_queries, evicting, got, outlived, queryableVars,
                   dispatcher>>

(* DoneOnDrop: zenoh drops the closure, on_done runs. *)
on_done(q) ==
    /\ callback[q] = "live"
    /\ callback' = [callback EXCEPT ![q] = "dropped"]
    /\ Claim(q, "EndOfStream")
    /\ UNCHANGED <<query_out, task, replies, evicting, got, outlived, queryableVars, dispatcher>>

(* session.query resolves, with or without an error. *)
Resolved(q) ==
    /\ task[q] = "asking"
    /\ task' = [task EXCEPT ![q] = "ended"]
    /\ UNCHANGED <<query_out, callback, replies, sealed_queries, evicting, reply_in, got, outlived,
                   queryableVars, dispatcher, refused>>

(* The timer fires first: the future is dropped before the arm runs. *)
Elapsed(q) ==
    /\ task[q] = "asking"
    /\ task' = [task EXCEPT ![q] = "elapsed"]
    /\ UNCHANGED <<query_out, callback, replies, sealed_queries, evicting, reply_in, got, outlived,
                   queryableVars, dispatcher, refused>>

TimeoutArm(q) ==
    /\ task[q] = "elapsed"
    /\ task' = [task EXCEPT ![q] = "ended"]
    /\ Claim(q, "Timeout")
    /\ evicting' = evicting \cup {q}
    /\ UNCHANGED <<query_out, callback, replies, got, outlived, queryableVars, dispatcher>>

(* One more effective_timeout later, whether or not zenoh has dropped the  *)
(* callback by then.                                                       *)
Evict(q) ==
    /\ q \in evicting
    /\ evicting' = evicting \ {q}
    /\ sealed_queries' = sealed_queries \ {q}
    /\ outlived' = IF callback[q] = "live" THEN outlived \cup {q} ELSE outlived
    /\ UNCHANGED <<query_out, task, callback, replies, reply_in, got, queryableVars, dispatcher, refused>>

-----------------------------------------------------------------------------
(* The callback of create_queryable: mint an id, keep the replier, publish. *)
on_query(u) ==
    /\ \/ /\ on_query_at[u] = "none"
          /\ on_query_at' = [on_query_at EXCEPT ![u] = "mapped"]
          /\ correlation_map' = correlation_map \cup {u}
          /\ UNCHANGED <<query_in, refused>>
       \/ /\ on_query_at[u] = "mapped"
          /\ on_query_at' = [on_query_at EXCEPT ![u] = "published"]
          /\ \/ /\ Len(query_in) < BufferSize
                /\ query_in' = Append(query_in, u)
                /\ UNCHANGED refused
             \/ Refuse(u, "Query") /\ UNCHANGED query_in
          /\ UNCHANGED correlation_map
    /\ UNCHANGED <<querierVars, asked, reply_out, said, upstream_got, dispatcher>>

QueryableRecv ==
    /\ query_in # <<>>
    /\ asked' = asked \cup {Head(query_in)}
    /\ query_in' = Tail(query_in)
    /\ UNCHANGED <<querierVars, on_query_at, correlation_map, reply_out, said, upstream_got, dispatcher,
                   refused>>

(* reply and terminate: nothing keeps the plugin from calling them for an  *)
(* id it has terminated.                                                   *)
QueryableSend(u, frame) ==
    /\ u \in asked
    /\ Len(said[u]) < MaxSaid
    /\ Len(reply_out) < BufferSize
    /\ reply_out' = Append(reply_out, <<u, frame>>)
    /\ said' = [said EXCEPT ![u] = Append(@, frame)]
    /\ UNCHANGED <<querierVars, on_query_at, correlation_map, query_in, asked, upstream_got, dispatcher,
                   refused>>

-----------------------------------------------------------------------------
(* One drain_outbound_once drains .query.out, then .reply.out. *)
DrainQuery ==
    /\ dispatcher = "query"
    /\ \/ /\ query_out # <<>>
          /\ query_out' = Tail(query_out)
          /\ task' = [task EXCEPT ![Head(query_out)] = "asking"]
          /\ callback' = [callback EXCEPT ![Head(query_out)] = "live"]
          /\ UNCHANGED dispatcher
       \/ /\ query_out = <<>>
          /\ dispatcher' = "reply"
          /\ UNCHANGED <<query_out, task, callback>>
    /\ UNCHANGED <<replies, sealed_queries, evicting, reply_in, got, outlived, queryableVars, refused>>

(* Data goes to the replier, if it is still in the map; EndOfStream        *)
(* removes and terminates it.                                              *)
ForwardReply(u, frame) ==
    \/ /\ u \notin correlation_map
       /\ UNCHANGED <<correlation_map, upstream_got>>
    \/ /\ u \in correlation_map
       /\ correlation_map' = IF frame = "EndOfStream" THEN correlation_map \ {u} ELSE correlation_map
       /\ upstream_got' = [upstream_got EXCEPT ![u] = Append(@, frame)]

DrainReply ==
    /\ dispatcher = "reply"
    /\ \/ /\ reply_out # <<>>
          /\ reply_out' = Tail(reply_out)
          /\ ForwardReply(Head(reply_out)[1], Head(reply_out)[2])
          /\ UNCHANGED dispatcher
       \/ /\ reply_out = <<>>
          /\ dispatcher' = "sleep"
          /\ UNCHANGED <<reply_out, correlation_map, upstream_got>>
    /\ UNCHANGED <<querierVars, on_query_at, query_in, asked, said, refused>>

(* After the sleep; stop, which is read nowhere else, may have been set by *)
(* then (stop_dispatcher, Drop).                                           *)
dispatcher_loop ==
    /\ dispatcher = "sleep"
    /\ dispatcher' \in {"query", "ended"}
    /\ UNCHANGED <<querierVars, queryableVars, refused>>

Next ==
    \/ \E q \in Queries :
        Send(q) \/ on_reply(q) \/ on_done(q) \/ Resolved(q) \/ Elapsed(q) \/ TimeoutArm(q) \/ Evict(q)
    \/ \E u \in Upstream : on_query(u) \/ \E f \in {"Data", "EndOfStream"} : QueryableSend(u, f)
    \/ TryRecv \/ QueryableRecv
    \/ DrainQuery \/ DrainReply \/ dispatcher_loop

(* The runtime polls the dispatcher and its tasks, zenoh drops every       *)
(* callback in the end, the plugin keeps reading its replies.              *)
Fairness ==
    /\ WF_vars(DrainQuery) /\ WF_vars(DrainReply) /\ WF_vars(dispatcher_loop)
    /\ WF_vars(TryRecv)
    /\ \A q \in Queries : WF_vars(Resolved(q) \/ Elapsed(q))
    /\ \A q \in Queries : WF_vars(on_done(q)) /\ WF_vars(TimeoutArm(q)) /\ WF_vars(Evict(q))

Spec == Init /\ [][Next]_vars /\ Fairness

-----------------------------------------------------------------------------
TypeOK ==
    /\ task \in [Queries -> {"none", "sent", "asking", "elapsed", "ended"}]
    /\ sealed_queries \subseteq Queries /\ evicting \subseteq Queries
    /\ correlation_map \subseteq Upstream

UpTo(frames) ==
    LET ends == {k \in DOMAIN frames : frames[k] = "EndOfStream"} IN
    IF ends = {} THEN frames ELSE SubSeq(frames, 1, CHOOSE k \in ends : \A j \in ends : k <= j)

FramesOf(queue, id) ==
    LET mine == SelectSeq(queue, LAMBDA e : e[1] = id) IN [k \in DOMAIN mine |-> mine[k][2]]

(* At most one terminator is published per query id and nothing follows    *)
(* it, whoever wins the race of reply, end of stream, timeout and          *)
(* eviction, as long as zenoh drops its callback before the seal of a      *)
(* timed-out query is evicted (spawn_query_with_timeout).                  *)
OneTerminator ==
    \A q \in Queries \ outlived :
        LET frames == got[q] \o FramesOf(reply_in, q) IN
        \A k \in DOMAIN frames : frames[k] \in Terminators => k = Len(frames)

(* A query the dispatcher took is answered: its querier receives a         *)
(* terminator in the end, unless the channel refused it.                   *)
Asked(q) == task[q] = "asking"
Answered(q) ==
    \/ \E k \in DOMAIN got[q] : got[q][k] \in Terminators
    \/ \E k \in DOMAIN refused : refused[k][1] = q /\ refused[k][2] \in Terminators

(* A peer receives exactly what the plugin said up to its first            *)
(* termination: no reply is lost because its replier is not in the         *)
(* correlation map yet, none reaches a finished query.                     *)
PeerGetsReplies ==
    \A u \in Upstream : UpTo(upstream_got[u] \o FramesOf(reply_out, u)) = UpTo(said[u])

(* "Entries evict after one more effective_timeout so the set remains      *)
(* bounded" (the comment on SealedQueries).                                *)
SealsEvict == \A q \in Queries : (q \in sealed_queries) ~> (q \notin sealed_queries)
==============================================================================
