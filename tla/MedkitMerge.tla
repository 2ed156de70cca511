----------------------------- MODULE MedkitMerge -----------------------------
(***************************************************************************)
(* The merge and the resolvers of MedkitView on every small input: two     *)
(* providers that may report the same entity, and a manifest that declares *)
(* some of them and places others.  At the end, the HTTP surface of the    *)
(* gateway: what its router mounts, and what its root and entity documents *)
(* advertise (crates/taktora-medkit-gateway-axum/src/lib.rs,               *)
(* taktora-medkit-gateway/src/view.rs).                                    *)
(***************************************************************************)
EXTENDS MedkitView

CONSTANTS
    Reports,           \* sequences of entities a provider can report
    FaultMaps,         \* faults by entity that a provider can report
    Edges,             \* relationships a provider can report
    Manifests

VARIABLES snapshots, manifest, view

vars == <<snapshots, manifest, view>>

(* The data of the app: topic "a" with the field "b". *)
Tree == {<<"a">>, <<"a", "b">>}

(* A provider is asked for the faults of the entities it reports. *)
Init ==
    /\ snapshots \in {<<Snapshot(a, r, f, "x" :> Tree), Snapshot(b, <<>>, Empty, Empty)>> :
                         a \in Reports, b \in Reports, f \in FaultMaps, r \in Edges}
    /\ \A id \in DOMAIN snapshots[1].faults :
          \E i \in DOMAIN snapshots[1].entities : snapshots[1].entities[i].id = id
    /\ manifest \in Manifests
    /\ view = merge(snapshots, manifest)

Spec == Init /\ [][FALSE]_vars

-----------------------------------------------------------------------------
(* The HTTP surface.  An endpoint is a method, a collection ("" for the    *)
(* global ones) and a path below it.                                       *)

At(methods, kind, path) == {<<m, kind, path>> : m \in methods}

kind_relations(kind) ==
    CASE kind = "Area"      -> {"contains", "components"}
      [] kind = "Component" -> {"subcomponents", "hosts", "depends-on"}
      [] kind = "App"       -> {"is-located-on", "belongs-to", "depends-on"}
      [] kind = "Function"  -> {"hosts"}

kind_routes(kind) ==
    At({"GET"}, kind, "") \cup At({"GET"}, kind, "{id}") \cup At({"GET"}, kind, "faults")
        \cup At({"GET", "DELETE"}, kind, "faults/{code}") \cup At({"GET"}, kind, "data")
        \cup UNION {At({"GET"}, kind, r) : r \in kind_relations(kind)}

trigger_routes(kind) == At({"GET", "POST"}, kind, "triggers")

cyclic_routes(kind) == At({"GET", "POST"}, kind, "cyclic-subscriptions")

lock_routes(kind) == At({"GET", "POST"}, kind, "locks")

operation_routes(kind) == At({"GET"}, kind, "operations") \cup At({"GET", "POST"}, kind, "executions")

configuration_routes(kind) ==
    At({"GET", "DELETE"}, kind, "configurations")
        \cup At({"GET", "PUT", "DELETE"}, kind, "configurations/{id}")

bulk_data_routes(kind) == At({"GET"}, kind, "bulk-data") \cup At({"GET", "POST"}, kind, "bulk-data/{id}")

script_routes(kind) == At({"GET", "POST"}, kind, "scripts")

lifecycle_routes(kind) == At({"GET"}, kind, "status") \cup At({"PUT"}, kind, "status/{transition}")

log_routes(kind) == At({"GET"}, kind, "logs")

global_routes ==
    At({"GET"}, "", "root") \cup At({"GET"}, "", "version-info") \cup At({"GET"}, "", "health")
        \cup At({"GET", "DELETE"}, "", "faults") \cup At({"GET"}, "", "faults/stream")
        \cup At({"GET", "POST"}, "", "triggers") \cup At({"GET"}, "", "triggers/events")

update_routes == At({"GET", "POST"}, "", "updates")

auth_router == UNION {At({"POST"}, "", p) : p \in {"auth/token", "auth/authorize", "auth/revoke"}}

api_router ==
    global_routes \cup update_routes \cup auth_router
        \cup UNION {kind_routes(k) \cup trigger_routes(k) \cup operation_routes(k)
                       \cup configuration_routes(k) \cup log_routes(k) : k \in Kinds}
        \cup UNION {cyclic_routes(k) : k \in Kinds \ {"Area"}}
        \cup UNION {lock_routes(k) \cup bulk_data_routes(k) \cup script_routes(k)
                       \cup lifecycle_routes(k) : k \in {"App", "Component"}}

-----------------------------------------------------------------------------
(* What an entity's document links to. *)
entity_capabilities(kind) ==
    CASE kind = "App"       -> {"status", "data", "operations", "configurations", "faults", "logs",
                                "bulk-data", "cyclic-subscriptions", "triggers", "is-located-on",
                                "belongs-to", "locks"}
      [] kind = "Component" -> {"status", "data", "operations", "configurations", "faults", "logs",
                                "subcomponents", "hosts", "bulk-data", "cyclic-subscriptions",
                                "triggers", "locks"}
      [] kind = "Function"  -> {"hosts", "data", "operations", "configurations", "faults", "logs",
                                "bulk-data", "cyclic-subscriptions", "triggers"}
      [] kind = "Area"      -> {"data", "operations", "configurations", "faults", "logs", "triggers",
                                "contains", "components"}

(* What the root document lists. *)
endpoint_catalogue ==
    global_routes \cup update_routes \cup auth_router
        \cup UNION {At({"GET"}, k, "") \cup At({"GET"}, k, "{id}") \cup At({"GET"}, k, "faults")
                       \cup At({"GET"}, k, "faults/{code}") \cup At({"GET"}, k, "data")
                       \cup At({"GET", "POST"}, k, "triggers")
                       \cup At({"GET"}, k, "operations") \cup At({"POST"}, k, "executions")
                       \cup At({"GET"}, k, "configurations") \cup At({"PUT"}, k, "configurations/{id}")
                       \cup At({"GET"}, k, "logs") : k \in Kinds}
        \cup UNION {At({"GET", "POST"}, k, "cyclic-subscriptions") : k \in Kinds \ {"Area"}}
        \cup UNION {At({"GET", "POST"}, k, "locks") \cup At({"GET"}, k, "bulk-data")
                       \cup At({"POST"}, k, "bulk-data/{id}") \cup At({"GET", "POST"}, k, "scripts")
                       \cup At({"GET"}, k, "status") \cup At({"PUT"}, k, "status/{transition}") :
                          k \in {"App", "Component"}}

-----------------------------------------------------------------------------
Reported == snapshots[1].entities \o snapshots[2].entities

ReportedIds == {Reported[i].id : i \in DOMAIN Reported}

Declared == declared_entities(manifest)

(* What an id stands for: its declaration, or else the last report of it,  *)
(* under the parent the manifest gives it.                                 *)
Meant(id) ==
    LET last(s) == s[CHOOSE i \in DOMAIN s : s[i].id = id /\ \A j \in DOMAIN s : s[j].id = id => j <= i]
        e == IF \E i \in DOMAIN Declared : Declared[i].id = id THEN last(Declared)
             ELSE last(Reported)
    IN  IF parent_of(manifest, id) = "" THEN e ELSE [e EXCEPT !.parent = parent_of(manifest, id)]

(* Every id that is reported or declared is one entity of the view, the    *)
(* one it stands for, and is listed under its kind only (merge).           *)
MergedOnce ==
    LET ids == ReportedIds \cup {Declared[i].id : i \in DOMAIN Declared}
    IN  /\ DOMAIN view.by_id = ids /\ Len(view.entities) = Cardinality(ids)
        /\ \A id \in ids :
              /\ entity(view, id) = Meant(id)
              /\ \A k \in Kinds :
                    Cardinality({i \in DOMAIN list(view, k) : list(view, k)[i].id = id})
                        = (IF k = Meant(id).kind THEN 1 ELSE 0)
        /\ \A k \in Kinds : health_document(view)[k] = Len(list(view, k))

(* With a manifest, an entity lists exactly its children, under the        *)
(* relations of their kinds, and what a provider related to it, each of    *)
(* them once (apply_manifest, relationship).                               *)
EdgesFollowParents ==
    ~ is_empty(manifest) =>
        \A p, c \in ReportedIds \cup {Declared[i].id : i \in DOMAIN Declared} :
            LET relations == synthesized_relations(Meant(p).kind, Meant(c).kind)
                listed(r) == SelectSeq(relationship(view, Meant(p).kind, p, r),
                                       LAMBDA e : e.item.id = c)
            IN  \A r \in {"Components", "Contains", "Hosts", "Subcomponents"} :
                    Len(listed(r)) =
                        (IF \/ Meant(c).parent = p /\ \E k \in DOMAIN relations : relations[k] = r
                            \/ \E k \in DOMAIN snapshots[1].relationships :
                                  EdgeKey(snapshots[1].relationships[k]) = <<p, r, c>>
                         THEN 1 ELSE 0)

(* Mounted or advertised, a relation of MedkitView is one of the routes. *)
Segment == [Components |-> "components", Contains |-> "contains", Hosts |-> "hosts",
            Subcomponents |-> "subcomponents"]

(* The aggregated sources of a component are the nodes of the apps it      *)
(* lists as hosted, and every relation an entity lists is served under its *)
(* collection (aggregation_sources, kind_relations).                       *)
SourcesFollowHosts ==
    \A i \in DOMAIN view.relationships :
        LET e == view.relationships[i]
        IN  /\ e.from \in DOMAIN view.by_id =>
                  Segment[e.relation] \in kind_relations(entity(view, e.from).kind)
            /\ (e.relation = "Hosts" /\ e.item.node # "") =>
                  \E k \in DOMAIN aggregation_sources(view, e.from) :
                      aggregation_sources(view, e.from)[k] = e.item.node

(* A fault is in the global list, under a filter, exactly when an entity   *)
(* lists it under that filter, and its detail agrees with the filter       *)
(* (global_faults, entity_faults, fault_detail).                           *)
FaultsResolve ==
    \A f \in {"Pending", "Confirmed", "Healed", "All"} :
        /\ global_faults(view, f) =
              UNION {DOMAIN entity_faults(view, entity(view, id).kind, id, f) : id \in DOMAIN view.by_id}
        /\ \A id \in DOMAIN view.by_id :
              \A c \in DOMAIN entity_faults(view, entity(view, id).kind, id, f) :
                 LET d == fault_detail(view, entity(view, id).kind, id, c)
                 IN  /\ f = "Pending" => d.pending /\ ~ d.confirmed
                     /\ f = "Confirmed" => d.confirmed /\ d.aggregated = "active"
                     /\ f = "Healed" => ~ d.test_failed

(* A path resolves under the entity of its kind only, with every path it   *)
(* extends, and however many slashes separate its segments (data).         *)
DataResolves ==
    \A k \in Kinds : \A p \in {<<>>, <<"a">>, <<"a", "b">>, <<"b">>} :
        /\ data(view, k, "x", p) = (entity(view, "x").kind = k /\ (p = <<>> \/ p \in Tree))
        /\ \A i \in 0..Len(p) :
              data(view, k, "x", InsertAt(p, i + 1, "")) = data(view, k, "x", p)

-----------------------------------------------------------------------------
(* Worst-wins roll-up over the provider's own parents. *)

Own(id) == health_of(Lookup(snapshots[1].faults, id, Empty))

(* The ids from which a chain of parents leads to id. *)
Below(id) ==
    LET up(S) == S \cup {e.id : e \in {Reported[i] : i \in {j \in DOMAIN Reported : Reported[j].parent \in S}}}
    IN  up(up(up({id})))

(* The health of an entity is the worst of itself and all that is below it *)
(* (Gateway::rolled_up_health).                                            *)
RollsUpWorst ==
    LET entities == snapshots[1].entities
    IN  (snapshots[2].entities = <<>>) =>
            \A id \in ReportedIds :
                roll_up(entities, [x \in ReportedIds |-> Own(x)], id) = WorstOf({Own(x) : x \in Below(id)})

(* Everything the root document lists is mounted, and so is everything an  *)
(* entity's document links to, but for the bulk data of functions, which   *)
(* falls through to the not-implemented answer (endpoint_catalogue,        *)
(* entity_capabilities, api_router).                                       *)
AdvertisedIsServed ==
    /\ endpoint_catalogue \subseteq api_router
    /\ \A k \in Kinds : \A p \in entity_capabilities(k) :
          <<"GET", k, p>> \in api_router \/ <<k, p>> = <<"Function", "bulk-data">>
==============================================================================
