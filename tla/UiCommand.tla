------------------------------ MODULE UiCommand ------------------------------
(***************************************************************************)
(* The command plane of the UI connector: a client that invokes commands   *)
(* one at a time and retries a timed-out request under the same            *)
(* correlation id (crates/taktora-connector-ui-client: client.rs,          *)
(* command.rs, binding.rs, discovery.rs), and the handler thread that      *)
(* answers from a bounded LRU of accepted ids or enqueues the effect       *)
(* (crates/taktora-connector-ui/src/command.rs).  The server may crash and *)
(* come back as a new process: a new epoch, an empty cache, perhaps a new  *)
(* contract (manifest.rs, binding.rs).  Each command has a request and a   *)
(* reply service with a history of one (external): the history of a writer *)
(* reaches a reader that joined late with the writer's next send, and the  *)
(* buffers hold more than the bounded number of requests.  A command with  *)
(* a malformed argument or a dropped receiver is refused like one whose    *)
(* gate is shut.                                                           *)
(***************************************************************************)
EXTENDS Naturals, Sequences, FiniteSets, SequencesExt

CONSTANTS
    Ports,             \* the commands, in the order they were added
    Idempotent,        \* those authored with #[command(idempotent)]
    DedupeCapacity, ChannelCapacity,
    MaxAttempts,       \* RetryPolicy.max_attempts
    MaxInvokes, MaxEpoch,
    MaxUpsets          \* gates flipped, requests and replies that cannot be sent

VARIABLES
    server,            \* the process: epoch, contract, whether it runs
    gate,              \* CanExecute per command
    effects,           \* how many wait in the bounded effect channels
    dedupe,            \* DedupeCache.order: accepted ids, oldest first
    cursor,            \* IoxCommandTransport.cursor
    answering,         \* the invocation between resolve and reply
    requests, sent,    \* request queues and their history
    replies, replied,  \* reply queues and their history
    fresh,             \* the services whose reader joined after the last send
    announced,         \* the newest manifest in the client's queue
    client,
    upsets,
    used               \* history: the ids answered Accepted, and which ran

handlerVars == <<gate, effects, dedupe, cursor, answering, used>>
requestVars == <<requests, sent>>
replyVars == <<replies, replied>>
channelVars == <<requestVars, replyVars, fresh, announced>>
vars == <<server, handlerVars, channelVars, client, upsets>>

Commands == ToSet(Ports)
Each(x) == [c \in Commands |-> x]
Manifest == [epoch |-> server.epoch, contract |-> server.contract]

Init ==
    /\ server = [epoch |-> 1, contract |-> "same", up |-> TRUE]
    /\ gate = Each(TRUE)
    /\ effects = Each(0)
    /\ dedupe = <<>>
    /\ cursor = 1
    /\ answering = <<>>
    /\ requests = Each(<<>>) /\ sent = Each(<<>>)
    /\ replies = Each(<<>>) /\ replied = Each(<<>>)
    /\ fresh = {}
    /\ announced = Manifest
    /\ client = [pc |-> "idle", manifest |-> Manifest, command |-> Ports[1], id |-> 0,
                 attempts |-> 0, start_epoch |-> 0, outcome |-> "none"]
    /\ upsets = 0
    /\ used = <<>>

Upset == upsets < MaxUpsets /\ upsets' = upsets + 1

(* External: what a send puts into the reader's queue. *)
Delivered(service, c, queue, history, item) ==
    [queue EXCEPT ![c] = @ \o (IF <<service, c>> \in fresh THEN history[c] ELSE <<>>) \o <<item>>]

-----------------------------------------------------------------------------
(* The handler thread. *)

(* touch: an id that is used again becomes the newest. *)
touch(order, id) == Append(SelectSeq(order, LAMBDA x : x # id), id)

(* Mutant of insert: the cache keeps one id less than its capacity. *)
insertTight(order, id) ==
    IF Len(order) + 1 >= DedupeCapacity THEN Tail(Append(order, id)) ELSE Append(order, id)

(* insert evicts the oldest id when the cache is over its capacity. *)
insert(order, id) ==
    IF Len(order) >= DedupeCapacity THEN Append(Tail(order), id) ELSE Append(order, id)

(* dispatch: the gate, then the effect channel. *)
dispatch(c) ==
    IF ~gate[c] THEN "CanExecuteFalse"
    ELSE IF effects[c] >= ChannelCapacity THEN "BackPressure"
    ELSE "Accepted"

Use(c, id, runs) ==
    used' = Append(used, [epoch |-> server.epoch, command |-> c, id |-> id, runs |-> runs])

Enqueue(c, id) ==
    /\ effects' = [effects EXCEPT ![c] = @ + 1]
    /\ Use(c, id, TRUE)

(* A cached id is answered without a second effect; only acceptance is     *)
(* cached.                                                                 *)
resolve(c, id) ==
    IF id \in ToSet(dedupe)
    THEN /\ dedupe' = touch(dedupe, id)
         /\ answering' = <<[command |-> c, id |-> id, ack |-> "Accepted"]>>
         /\ Use(c, id, FALSE)
         /\ UNCHANGED effects
    ELSE /\ answering' = <<[command |-> c, id |-> id, ack |-> dispatch(c)]>>
         /\ IF dispatch(c) = "Accepted"
            THEN Enqueue(c, id) /\ dedupe' = insert(dedupe, id)
            ELSE UNCHANGED <<effects, used, dedupe>>

(* try_recv: the ports in turn from the cursor, the first with a request.  *)
Turn(k) == ((cursor + k - 1) % Len(Ports)) + 1
try_recv(k) ==
    /\ requests[Ports[Turn(k)]] # <<>>
    /\ \A j \in 0..(k - 1) : requests[Ports[Turn(j)]] = <<>>
    /\ cursor' = (Turn(k) % Len(Ports)) + 1
    /\ requests' = [requests EXCEPT ![Ports[Turn(k)]] = Tail(@)]

poll ==
    /\ server.up /\ answering = <<>>
    /\ \E k \in 0..(Len(Ports) - 1) :
        /\ try_recv(k)
        /\ resolve(Ports[Turn(k)], Head(requests[Ports[Turn(k)]]))
    /\ UNCHANGED <<server, gate, sent, replyVars, fresh, announced, client, upsets>>

(* A reply that cannot be sent is logged; the id stays cached. *)
reply ==
    /\ server.up /\ answering # <<>>
    /\ answering' = <<>>
    /\ LET c == answering[1].command
           r == [id |-> answering[1].id, ack |-> answering[1].ack]
       IN  \/ /\ replies' = Delivered("reply", c, replies, replied, r)
              /\ replied' = [replied EXCEPT ![c] = <<r>>]
              /\ fresh' = fresh \ {<<"reply", c>>}
              /\ UNCHANGED upsets
           \/ Upset /\ UNCHANGED <<replyVars, fresh>>
    /\ UNCHANGED <<server, gate, effects, dedupe, cursor, used, requestVars, announced, client>>

(* The application: its task drains an effect, flips a gate. *)
DrainEffect(c) ==
    /\ server.up /\ effects[c] > 0
    /\ effects' = [effects EXCEPT ![c] = @ - 1]
    /\ UNCHANGED <<server, gate, dedupe, cursor, answering, used, channelVars, client, upsets>>

SetGate(c) ==
    /\ server.up /\ Upset
    /\ gate' = [gate EXCEPT ![c] = ~@]
    /\ UNCHANGED <<server, effects, dedupe, cursor, answering, used, channelVars, client>>

(* The pump publishes the manifest every tick. *)
manifest_entry ==
    /\ server.up /\ announced # Manifest
    /\ announced' = Manifest
    /\ UNCHANGED <<server, handlerVars, requestVars, replyVars, fresh, client, upsets>>

(* The process dies, and a new one registers its connector. *)
Crash ==
    /\ server.up /\ server.epoch < MaxEpoch
    /\ server' = [server EXCEPT !.up = FALSE]
    /\ effects' = Each(0) /\ dedupe' = <<>> /\ cursor' = 1 /\ answering' = <<>>
    /\ gate' = Each(TRUE)
    /\ requests' = Each(<<>>) /\ replied' = Each(<<>>)
    /\ UNCHANGED <<used, sent, replies, fresh, announced, client, upsets>>

Restart ==
    /\ ~server.up
    /\ \E contract \in {"same", "other"} :
        server' = [epoch |-> server.epoch + 1, contract |-> contract, up |-> TRUE]
    /\ fresh' = fresh \cup {<<"request", c>> : c \in Commands}
    /\ UNCHANGED <<handlerVars, requestVars, replyVars, announced, client, upsets>>

-----------------------------------------------------------------------------
(* The client. *)

(* bind_mode_for: a client built against the contract "same" may invoke. *)
ReadWrite(manifest) == manifest.contract = "same"

(* refresh_manifest, by the UI between two invocations. *)
refresh_manifest ==
    /\ client.pc = "idle" /\ client.manifest # announced
    /\ client' = [client EXCEPT !.manifest = announced]
    /\ UNCHANGED <<server, handlerVars, channelVars, upsets>>

(* invoke returns, and its local state is gone. *)
Returned(outcome) ==
    [client EXCEPT !.pc = "idle", !.outcome = outcome, !.command = Ports[1], !.attempts = 0,
                   !.start_epoch = 0]

invoke(c) ==
    /\ client.pc = "idle" /\ ReadWrite(client.manifest) /\ client.id < MaxInvokes
    /\ client' = [client EXCEPT !.pc = "send", !.command = c, !.id = @ + 1, !.attempts = 0,
                                !.start_epoch = client.manifest.epoch, !.outcome = "none"]
    /\ UNCHANGED <<server, handlerVars, channelVars, upsets>>

(* send_and_await_ack: delivered to the server's reader if there is one; a *)
(* send that fails ends the invocation.                                    *)
send_and_await_ack ==
    /\ client.pc = "send"
    /\ LET c == client.command IN
        \/ /\ client' = [client EXCEPT !.pc = "await", !.attempts = @ + 1]
           /\ sent' = [sent EXCEPT ![c] = <<client.id>>]
           /\ IF server.up
              THEN /\ requests' = Delivered("request", c, requests, sent, client.id)
                   /\ fresh' = fresh \ {<<"request", c>>}
              ELSE UNCHANGED <<requests, fresh>>
           /\ UNCHANGED upsets
        \/ /\ Upset
           /\ client' = Returned("Error")
           /\ UNCHANGED <<requestVars, fresh>>
    /\ UNCHANGED <<server, handlerVars, replyVars, announced>>

(* await_ack: a reply to another id is discarded. *)
await_ack ==
    /\ client.pc = "await" /\ replies[client.command] # <<>>
    /\ LET r == Head(replies[client.command]) IN
        client' = IF r.id = client.id THEN Returned(r.ack) ELSE client
    /\ replies' = [replies EXCEPT ![client.command] = Tail(@)]
    /\ UNCHANGED <<server, handlerVars, requestVars, replied, fresh, announced, upsets>>

(* The deadline passed after the last look at the replies. *)
AckTimeout ==
    /\ client.pc = "await" /\ replies[client.command] = <<>>
    /\ client' = [client EXCEPT !.pc = "timed_out"]
    /\ UNCHANGED <<server, handlerVars, channelVars, upsets>>

(* Mutant of retry_decision: the epoch is not looked at. *)
retry_decisionBlind(idempotent, epoch_changed, attempts) ==
    IF attempts < MaxAttempts THEN "Retry" ELSE "GiveUp"

retry_decision(idempotent, epoch_changed, attempts) ==
    IF epoch_changed /\ ~idempotent THEN "OutcomeUnknown"
    ELSE IF attempts < MaxAttempts THEN "Retry"
    ELSE "GiveUp"

(* on_ack_timeout: the manifest is refreshed first.  A new contract makes  *)
(* the client read-only; a new epoch opens new ports for the retry: a      *)
(* writer without a history, a reader with an empty queue.                 *)
on_ack_timeout ==
    /\ client.pc = "timed_out"
    /\ LET c == client.command
           changed == announced.epoch # client.start_epoch
           decision == retry_decision(c \in Idempotent, changed, client.attempts)
           retries == ReadWrite(announced) /\ decision = "Retry"
           outcome == IF ReadWrite(announced) THEN decision ELSE "ReadOnly"
       IN  /\ client' = [(IF retries THEN [client EXCEPT !.pc = "send"] ELSE Returned(outcome))
                            EXCEPT !.manifest = announced]
           /\ IF retries /\ changed
              THEN /\ sent' = [sent EXCEPT ![c] = <<>>]
                   /\ replies' = [replies EXCEPT ![c] = <<>>]
                   /\ fresh' = fresh \cup {<<"reply", c>>}
              ELSE UNCHANGED <<sent, replies, fresh>>
    /\ UNCHANGED <<server, handlerVars, requests, replied, announced, upsets>>

Next ==
    \/ poll \/ reply \/ manifest_entry \/ Crash \/ Restart
    \/ refresh_manifest \/ send_and_await_ack \/ await_ack \/ AckTimeout \/ on_ack_timeout
    \/ \E c \in Commands : invoke(c) \/ DrainEffect(c) \/ SetGate(c)

Spec == Init /\ [][Next]_vars

-----------------------------------------------------------------------------
(* Within one process the effect of an invocation runs a second time only  *)
(* after DedupeCapacity other ids were accepted or answered from the cache *)
(* since its first run, however the retries of several commands interleave *)
(* in the round-robin and whichever replies are lost: the cache evicts the *)
(* least recently used (resolve, insert, touch, try_recv).                 *)
Others(i, j) == {used[k].id : k \in (i + 1)..(j - 1)} \ {used[i].id}
OncePerCached ==
    \A i, j \in DOMAIN used :
        i < j /\ used[i].epoch = used[j].epoch /\ used[i].id = used[j].id /\ used[j].runs
          => Cardinality(Others(i, j)) >= DedupeCapacity

(* A client that is told Accepted has had its effect enqueued, by this     *)
(* process or an earlier one (resolve, await_ack).                         *)
AcceptedIsEnqueued ==
    client.outcome = "Accepted" => \E k \in DOMAIN used : used[k].id = client.id /\ used[k].runs

(* A request is sent only under a contract the client was built for, and   *)
(* one of a command that is not idempotent only while the client's         *)
(* manifest is of the epoch in which the invocation began: a restart the   *)
(* client has learned of by the time of a retry ends it (retry_decision,   *)
(* on_ack_timeout).  A restart it learns of later is not covered.          *)
SendsNothingKnown ==
    client'.attempts > client.attempts =>
        /\ ReadWrite(client.manifest)
        /\ client.command \in Idempotent \/ client.manifest.epoch = client.start_epoch

(* "at-most-once delivery": the effect of a non-idempotent invocation is   *)
(* enqueued once in all, evictions and restarts included (retry_decision). *)
AtMostOnce ==
    \A i, j \in DOMAIN used :
        /\ used[i].runs /\ used[j].runs /\ used[i].id = used[j].id
        /\ used[i].command \notin Idempotent
        => i = j
==============================================================================
