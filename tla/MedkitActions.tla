---------------------------- MODULE MedkitActions ----------------------------
(***************************************************************************)
(* The write surface of the diagnostics gateway: the routes, the           *)
(* ActionSink calls behind them and the in-memory SimActionSink            *)
(* (crates/taktora-medkit-provider/src/action.rs,                          *)
(* taktora-medkit-gateway-axum/src/{actions,configurations,bulkdata,       *)
(* scripts,updates,lifecycle,logs,cyclic}.rs).  Handlers run concurrently. *)
(* A call that takes one lock is one step; a call of the sink that creates *)
(* something checks, takes a number from the counter its families share,   *)
(* and inserts in three steps; an update or a deletion of a cyclic         *)
(* subscription looks it up and acts in two.  Contents and values are      *)
(* small sets; names and the wording of errors are left out.               *)
(***************************************************************************)
EXTENDS Naturals, FiniteSets, TLC

CONSTANTS
    Handlers,
    Keys,              \* entities: <<kind, id>>
    Catalogue,         \* set of <<key, operation>>
    Names,             \* configuration ids and bulk categories
    Values,
    Surfaces,          \* the calls of a behaviour: families of them, entities
    None,              \* the owner of what has none
    MaxIds, MaxWrites

VARIABLES
    m,                 \* the maps of SimActionSink
    next,              \* SimActionSink.next
    cyclic,            \* the CyclicStore
    req,               \* per handler, the request it serves
    given,             \* history: resources clients were told of, not deleted
    surface, writes

vars == <<m, next, cyclic, req, given, surface, writes>>

Empty == [x \in {} |-> 0]

With(f, k, x) == (k :> x) @@ f

Without(f, k) == [x \in DOMAIN f \ {k} |-> f[x]]

NoRequest == [pc |-> "idle"]

(* SimActionSink::default *)
Init ==
    /\ m = [executions |-> Empty, configs |-> Empty, bulk |-> Empty, scripts |-> Empty,
            script_execs |-> Empty, updates |-> Empty, lifecycle |-> Empty, log_configs |-> Empty]
    /\ next = 0
    /\ cyclic = [next |-> 0, subscriptions |-> Empty]
    /\ req = [h \in Handlers |-> NoRequest]
    /\ given = {}
    /\ surface \in Surfaces
    /\ writes = 0

-----------------------------------------------------------------------------
(* The requests of each family: call, entity, owner (operation, category,  *)
(* configuration or script), and the id in the path.                       *)

Request(calls, keys, owners, ids) == [call : calls, key : keys, of : owners, id : ids]

Ids == 0..(MaxIds - 1)

Family(name, keys, owners) ==
    CASE name = "operations"     -> Request({"start_operation", "cancel_execution"}, keys, owners, Ids)
      [] name = "configurations" -> Request({"set_configuration", "delete_configuration",
                                             "delete_configurations"}, keys, Names, Values)
      [] name = "bulk"           -> Request({"upload_bulk", "delete_bulk"}, keys, Names, Ids)
      [] name = "scripts"        -> Request({"upload_script", "delete_script", "start_script",
                                             "cancel_script_execution"}, keys, Ids, Ids)
      [] name = "updates"        -> Request({"register_update", "prepare_update", "execute_update",
                                             "automated_update", "delete_update"}, {<<None, None>>}, {None}, Ids)
      [] name = "lifecycle"      -> Request({"request_transition"}, keys,
                                            {"start", "restart", "force-restart", "shutdown",
                                             "force-shutdown", "bogus"}, {0})
      [] name = "logs"           -> Request({"set_log_configuration"}, keys, {None}, Values)
      [] name = "cyclic"         -> Request({"create_for_entity", "update_scoped", "delete_scoped"},
                                            keys, Values, Ids)

(* What a call answers, and the maps it leaves. *)
Ok(status, maps, body) == [status |-> status, m |-> maps, body |-> body]

NotFound == [status |-> 404, m |-> m, body |-> {}]

Answered(found, body) == IF found THEN Ok(200, m, body) ELSE NotFound

(* A record under the id that is of the request's entity and owner. *)
Owned(f, r) == r.id \in DOMAIN f /\ f[r.id] = [key |-> r.key, of |-> r.of]

Owns(f, r) == {i \in DOMAIN f : f[i] = [key |-> r.key, of |-> r.of]}

-----------------------------------------------------------------------------
(* Operations. *)

has_operation(r) == <<r.key, r.of>> \in Catalogue

operations(r) == Ok(200, m, {o \in {c[2] : c \in Catalogue} : <<r.key, o>> \in Catalogue})

executions(r) == Answered(has_operation(r), Owns(m.executions, r))

execution(r) == Answered(Owned(m.executions, r), {r.id})

cancel_execution(r) ==
    IF Owned(m.executions, r)
    THEN Ok(204, [m EXCEPT !.executions = Without(@, r.id)], {})
    ELSE NotFound

-----------------------------------------------------------------------------
(* Configurations: a value per entity and name. *)

configurations(r) == Ok(200, m, {k \in DOMAIN m.configs : k[1] = r.key})

configuration(r) == Answered(<<r.key, r.of>> \in DOMAIN m.configs, {})

set_configuration(r) == Ok(200, [m EXCEPT !.configs = With(@, <<r.key, r.of>>, r.id)], {r.id})

delete_configuration(r) ==
    IF <<r.key, r.of>> \in DOMAIN m.configs
    THEN Ok(204, [m EXCEPT !.configs = Without(@, <<r.key, r.of>>)], {})
    ELSE NotFound

delete_configurations(r) ==
    Ok(204, [m EXCEPT !.configs = [k \in {k \in DOMAIN @ : k[1] # r.key} |-> @[k]]], {})

-----------------------------------------------------------------------------
(* Bulk data: files by id under an entity and a category. *)

bulk_categories(r) ==
    Ok(200, m, {c \in Names : \E i \in DOMAIN m.bulk : m.bulk[i] = [key |-> r.key, of |-> c]})

bulk_descriptors(r) == Ok(200, m, Owns(m.bulk, r))

download_bulk(r) == Answered(Owned(m.bulk, r), {r.id})

delete_bulk(r) ==
    IF Owned(m.bulk, r) THEN Ok(204, [m EXCEPT !.bulk = Without(@, r.id)], {}) ELSE NotFound

-----------------------------------------------------------------------------
(* Scripts, and their executions, which outlive the script. *)

Script(r) == [key |-> r.key, of |-> None]

has_script(r, script) == script \in DOMAIN m.scripts /\ m.scripts[script] = Script(r)

scripts(r) == Ok(200, m, {i \in DOMAIN m.scripts : m.scripts[i] = Script(r)})

script(r) == Answered(has_script(r, r.id), {r.id})

delete_script(r) ==
    IF has_script(r, r.id) THEN Ok(204, [m EXCEPT !.scripts = Without(@, r.id)], {}) ELSE NotFound

script_execution(r) == Answered(Owned(m.script_execs, r), {r.id})

cancel_script_execution(r) ==
    IF Owned(m.script_execs, r)
    THEN Ok(204, [m EXCEPT !.script_execs = Without(@, r.id)], {})
    ELSE NotFound

-----------------------------------------------------------------------------
(* Updates are global; any transition is accepted in any state. *)

updates == Ok(200, m, DOMAIN m.updates)

update(r) == Answered(r.id \in DOMAIN m.updates, {r.id})

transition_update(r, status) ==
    IF r.id \in DOMAIN m.updates
    THEN Ok(202, [m EXCEPT !.updates[r.id] = status], {r.id})
    ELSE NotFound

prepare_update(r) == transition_update(r, "prepared")

execute_update(r) == transition_update(r, "executed")

automated_update(r) == transition_update(r, "executed")

delete_update(r) ==
    IF r.id \in DOMAIN m.updates THEN Ok(204, [m EXCEPT !.updates = Without(@, r.id)], {}) ELSE NotFound

-----------------------------------------------------------------------------
(* Lifecycle and log configuration: one value per entity, with a default. *)

Of(f, k, default) == IF k \in DOMAIN f THEN f[k] ELSE default

lifecycle_status(r) == Ok(200, m, {Of(m.lifecycle, r.key, "running")})

request_transition(r) ==
    LET state == IF r.of \in {"start", "restart", "force-restart"} THEN "running" ELSE "stopped"
    IN  IF r.of \in {"start", "restart", "force-restart", "shutdown", "force-shutdown"}
        THEN Ok(202, [m EXCEPT !.lifecycle = With(@, r.key, state)], {state})
        ELSE [status |-> 400, m |-> m, body |-> {}]

log_configuration(r) == Ok(200, m, {Of(m.log_configs, r.key, "info")})

set_log_configuration(r) == Ok(200, [m EXCEPT !.log_configs = With(@, r.key, r.id)], {r.id})

-----------------------------------------------------------------------------
(* The routes: the calls that take one lock, by method and path. *)

operation_routes(r) == cancel_execution(r)

configuration_routes(r) ==
    CASE r.call = "set_configuration"     -> set_configuration(r)
      [] r.call = "delete_configuration"  -> delete_configuration(r)
      [] r.call = "delete_configurations" -> delete_configurations(r)

bulk_data_routes(r) == delete_bulk(r)

script_routes(r) ==
    CASE r.call = "delete_script"           -> delete_script(r)
      [] r.call = "cancel_script_execution" -> cancel_script_execution(r)

update_routes(r) ==
    CASE r.call = "prepare_update"   -> prepare_update(r)
      [] r.call = "execute_update"   -> execute_update(r)
      [] r.call = "automated_update" -> automated_update(r)
      [] r.call = "delete_update"    -> delete_update(r)

lifecycle_routes(r) == request_transition(r)

log_routes(r) == set_log_configuration(r)

Cyclic == {"create_for_entity", "update_scoped", "delete_scoped"}

Creates == {"start_operation", "upload_bulk", "upload_script", "start_script", "register_update"}

Route(r) ==
    CASE r.call = "cancel_execution" -> operation_routes(r)
      [] r.call \in {"set_configuration", "delete_configuration", "delete_configurations"} ->
            configuration_routes(r)
      [] r.call = "delete_bulk" -> bulk_data_routes(r)
      [] r.call \in {"delete_script", "cancel_script_execution"} -> script_routes(r)
      [] r.call \in {"prepare_update", "execute_update", "automated_update", "delete_update"} ->
            update_routes(r)
      [] r.call = "request_transition" -> lifecycle_routes(r)
      [] r.call = "set_log_configuration" -> log_routes(r)

(* A request reaches a handler. *)
Receive(h) ==
    /\ req[h] = NoRequest /\ writes < MaxWrites
    /\ \E f \in surface.families : \E r \in Family(f, surface.keys, {c[2] : c \in Catalogue}) :
          req' = [req EXCEPT ![h] = [pc |-> "called", r |-> r]]
    /\ writes' = writes + 1
    /\ UNCHANGED <<m, next, cyclic, given, surface>>

Serve(h) ==
    /\ req[h].pc = "called" /\ req[h].r.call \notin Creates \cup Cyclic
    /\ LET r == req[h].r
           a == Route(r)
       IN  /\ m' = a.m
           /\ given' = {g \in given : ~ (a.status = 204 /\ g.id = r.id
                                         /\ r.call \notin {"delete_configuration", "delete_configurations"})}
    /\ req' = [req EXCEPT ![h] = NoRequest]
    /\ UNCHANGED <<next, cyclic, surface, writes>>

(* start_operation and start_script look the operation or script up. *)
Check(h) ==
    LET r == req[h].r
        known == CASE r.call = "start_operation" -> has_operation(r)
                   [] r.call = "start_script"    -> has_script(r, r.of)
                   [] OTHER                      -> TRUE
    IN  /\ req[h].pc = "called" /\ r.call \in Creates
        /\ req' = [req EXCEPT ![h] = IF known THEN [pc |-> "checked", r |-> r] ELSE NoRequest]
        /\ UNCHANGED <<m, next, cyclic, given, surface, writes>>

(* Mutant of Number: the counter is read here and stored by a later step. *)
NumberRacy(h) ==
    /\ req[h].pc = "checked" /\ next < MaxIds
    /\ req' = [req EXCEPT ![h] = [pc |-> "numbered", r |-> [@.r EXCEPT !.id = next]]]
    /\ next' = IF \E g \in Handlers \ {h} : req[g].pc = "numbered" THEN next ELSE next + 1
    /\ UNCHANGED <<m, cyclic, given, surface, writes>>

(* fetch_add *)
Number(h) ==
    /\ req[h].pc = "checked" /\ next < MaxIds
    /\ req' = [req EXCEPT ![h] = [pc |-> "numbered", r |-> [@.r EXCEPT !.id = next]]]
    /\ next' = next + 1
    /\ UNCHANGED <<m, cyclic, given, surface, writes>>

(* The insertions; the client is answered 201 or 202 with the id. *)
start_operation(r) == [m EXCEPT !.executions = With(@, r.id, [key |-> r.key, of |-> r.of])]

upload_bulk(r) == [m EXCEPT !.bulk = With(@, r.id, [key |-> r.key, of |-> r.of])]

upload_script(r) == [m EXCEPT !.scripts = With(@, r.id, Script(r))]

start_script(r) == [m EXCEPT !.script_execs = With(@, r.id, [key |-> r.key, of |-> r.of])]

register_update(r) == [m EXCEPT !.updates = With(@, r.id, "registered")]

Insert(h) ==
    LET r == req[h].r
    IN  /\ req[h].pc = "numbered"
        /\ m' = CASE r.call = "start_operation" -> start_operation(r)
                  [] r.call = "upload_bulk"     -> upload_bulk(r)
                  [] r.call = "upload_script"   -> upload_script(r)
                  [] r.call = "start_script"    -> start_script(r)
                  [] r.call = "register_update" -> register_update(r)
        /\ given' = given \cup {r}
        /\ req' = [req EXCEPT ![h] = NoRequest]
        /\ UNCHANGED <<next, cyclic, surface, writes>>

-----------------------------------------------------------------------------
(* Cyclic subscriptions, by number: the id of an entity, without its kind, *)
(* and an interval; one store serves the routes of every kind.             *)

(* Mutant of create: numbers are the length of the list, and come back. *)
createAgain(r) ==
    LET id == Cardinality(DOMAIN cyclic.subscriptions)
    IN  [cyclic EXCEPT !.subscriptions = With(@, id, [entity_id |-> r.key[2], interval |-> r.of])]

create(r) ==
    [next |-> cyclic.next + 1,
     subscriptions |-> With(cyclic.subscriptions, cyclic.next, [entity_id |-> r.key[2], interval |-> r.of])]

list_for_entity(id) ==
    {<<i, cyclic.subscriptions[i]>> :
        i \in {j \in DOMAIN cyclic.subscriptions : cyclic.subscriptions[j].entity_id = id}}

create_for_entity(h) ==
    /\ req[h].pc = "called" /\ req[h].r.call = "create_for_entity" /\ cyclic.next < MaxIds
    /\ cyclic' = create(req[h].r)
    /\ req' = [req EXCEPT ![h] = NoRequest]
    /\ UNCHANGED <<m, next, given, surface, writes>>

(* The subscription is looked up under its entity .. *)
scoped_subscription(h) ==
    LET r == req[h].r
        found == r.id \in DOMAIN cyclic.subscriptions /\ cyclic.subscriptions[r.id].entity_id = r.key[2]
    IN  /\ req[h].pc = "called" /\ r.call \in {"update_scoped", "delete_scoped"}
        /\ req' = [req EXCEPT ![h] = IF found THEN [pc |-> "scoped", r |-> r] ELSE NoRequest]
        /\ UNCHANGED <<m, next, cyclic, given, surface, writes>>

(* .. and the store is locked again to change or remove it by its number. *)
update_scoped(h) ==
    LET r == req[h].r
    IN  /\ req[h].pc = "scoped" /\ r.call = "update_scoped"
        /\ cyclic' = IF r.id \in DOMAIN cyclic.subscriptions
                     THEN [cyclic EXCEPT !.subscriptions[r.id].interval = r.of] ELSE cyclic
        /\ req' = [req EXCEPT ![h] = NoRequest]
        /\ UNCHANGED <<m, next, given, surface, writes>>

delete_scoped(h) ==
    /\ req[h].pc = "scoped" /\ req[h].r.call = "delete_scoped"
    /\ cyclic' = [cyclic EXCEPT !.subscriptions = Without(@, req[h].r.id)]
    /\ req' = [req EXCEPT ![h] = NoRequest]
    /\ UNCHANGED <<m, next, given, surface, writes>>

Next ==
    \E h \in Handlers :
        \/ Receive(h) \/ Serve(h) \/ Check(h) \/ Number(h) \/ Insert(h)
        \/ create_for_entity(h) \/ scoped_subscription(h) \/ update_scoped(h) \/ delete_scoped(h)

Spec == Init /\ [][Next]_vars

-----------------------------------------------------------------------------
Found(g) ==
    CASE g.call = "start_operation" -> execution(g).status = 200 /\ g.id \in executions(g).body
      [] g.call = "upload_bulk"     -> /\ download_bulk(g).status = 200
                                       /\ g.id \in bulk_descriptors(g).body
                                       /\ g.of \in bulk_categories(g).body
      [] g.call = "upload_script"   -> script(g).status = 200 /\ g.id \in scripts(g).body
      [] g.call = "start_script"    -> script_execution(g).status = 200
      [] g.call = "register_update" -> update(g).status = 200 /\ g.id \in updates.body

(* Whatever a client was told it has created is found under the id it was  *)
(* given, alone and in the lists, until it is deleted; no other entity     *)
(* shows it; and no two of them have the same id (SimActionSink).          *)
CreatedIsFound ==
    /\ \A g \in given :
          /\ Found(g)
          /\ g.call # "register_update" => \A k \in Keys \ {g.key} : ~ Found([g EXCEPT !.key = k])
    /\ \A a, b \in given : a.id = b.id => a = b

(* What the sink shows of an entity. *)
Shown(k) ==
    [operations |-> operations([key |-> k]).body, configurations |-> configurations([key |-> k]).body,
     set |-> [n \in Names |-> configuration([key |-> k, of |-> n]).status],
     categories |-> bulk_categories([key |-> k]).body, scripts |-> scripts([key |-> k]).body,
     executions |-> {executions([key |-> k, of |-> c[2]]).body : c \in Catalogue},
     status |-> lifecycle_status([key |-> k]).body, log |-> log_configuration([key |-> k]).body]

(* What the other entities show, and the entities of another id. *)
Others(h) ==
    LET k == req[h].r.key
    IN  [sink   |-> [o \in Keys \ {k} |-> Shown(o)],
         cyclic |-> [o \in {o \in Keys : o[2] # k[2]} |-> list_for_entity(o[2])]]

Isolated(h) ==
    (req[h] # NoRequest /\ req'[h] # req[h]) =>
        LET k == req[h].r.key
        IN  Others(h) = [sink   |-> [o \in Keys \ {k} |-> Shown(o)'],
                         cyclic |-> [o \in {o \in Keys : o[2] # k[2]} |-> list_for_entity(o[2])']]

(* A request changes nothing that the action sink shows of another entity, *)
(* of whatever kind and id, nor the cyclic subscriptions of an entity of   *)
(* another id, whatever happened between its look-up and its effect        *)
(* (ResourceKey of SimActionSink, scoped_subscription).                    *)
KeysIsolated == [][\A h \in Handlers : Isolated(h)]_vars

(* "The entity-scoped view never reveals another entity's subscriptions":  *)
(* false for entities of one id and two kinds.                             *)
ScopedByEntity ==
    [][\A h \in Handlers : (req[h] # NoRequest /\ req'[h] # req[h]) =>
          \A o \in Keys \ {req[h].r.key} : list_for_entity(o[2])' = list_for_entity(o[2])]_vars
==============================================================================
