------------------------------ MODULE MedkitView ------------------------------
(***************************************************************************)
(* The read model of the diagnostics gateway: provider snapshots folded    *)
(* into one view, a manifest that places the entities, the resolvers the   *)
(* routes call, and the diff of two views into change events               *)
(* (crates/taktora-medkit-gateway/src/{view,lib}.rs,                       *)
(* taktora-medkit-manifest, taktora-medkit-provider/src/lib.rs,            *)
(* taktora-medkit-gateway-axum/src/triggers.rs).                           *)
(*                                                                         *)
(* An entity is a record of its id, kind, parent and node, where "" is an  *)
(* absent parent or node; a fault is a record of its severity (0..3) and   *)
(* status; a JSON document is the set of the paths that resolve in it.     *)
(* Names, links and descriptions are left out.                             *)
(***************************************************************************)
EXTENDS Integers, Sequences, FiniteSets, SequencesExt, TLC

Kinds == {"Area", "Component", "Function", "App"}

(* Option<T> of a map lookup. *)
Lookup(f, k, none) == IF k \in DOMAIN f THEN f[k] ELSE none

Empty == [x \in {} |-> 0]

-----------------------------------------------------------------------------
(* Providers. *)

(* Provider::snapshot: what a provider hands to the merge. *)
Snapshot(entities, relationships, faults, data) ==
    [entities |-> entities, relationships |-> relationships, faults |-> faults,
     fault_environments |-> Empty, data |-> data, logs |-> Empty, telemetry |-> Empty]

severity_to_health(severity) == severity

-----------------------------------------------------------------------------
(* The manifest: areas, components with their area, and the parents of     *)
(* tasks ("app:..") and sub-devices ("component:..") by raw id.            *)

is_empty(m) == m.areas = <<>> /\ m.components = <<>> /\ m.parents = Empty

declared_entity(kind, id, parent) == [id |-> id, kind |-> kind, parent |-> parent, node |-> ""]

declared_entities(m) ==
    [i \in DOMAIN m.areas |-> declared_entity("Area", m.areas[i], "")] \o
    [i \in DOMAIN m.components |->
        declared_entity("Component", m.components[i].id, m.components[i].area)]

parent_of(m, id) == Lookup(m.parents, id, "")

-----------------------------------------------------------------------------
(* The merge. *)

EmptyView ==
    [entities |-> <<>>, by_id |-> Empty, relationships |-> <<>>, faults |-> Empty,
     fault_environments |-> Empty, data |-> Empty, logs |-> Empty, telemetry |-> Empty]

(* An entity replaces the one under its id, or is new. *)
upsert(view, e) ==
    IF e.id \in DOMAIN view.by_id
    THEN [view EXCEPT !.entities[view.by_id[e.id]] = e]
    ELSE [view EXCEPT !.entities = Append(@, e),
                      !.by_id = (e.id :> Len(view.entities) + 1) @@ @]

(* One snapshot: entities upserted, edges appended, the maps extended.     *)
(* Environments are extended per entity, everything else is replaced.      *)
fold_snapshot(view, s) ==
    [FoldLeft(upsert, view, s.entities) EXCEPT
        !.relationships = @ \o s.relationships,
        !.faults = s.faults @@ @,
        !.fault_environments =
            [id \in DOMAIN s.fault_environments \cup DOMAIN @ |->
                Lookup(s.fault_environments, id, Empty)
                    @@ Lookup(view.fault_environments, id, Empty)],
        !.data = s.data @@ @,
        !.logs = s.logs @@ @,
        !.telemetry = s.telemetry @@ @]

synthesized_relations(parent, child) ==
    CASE parent = "Area" /\ child = "Component"                    -> <<"Components", "Contains">>
      [] parent = "Area" /\ child # "Component"                    -> <<"Contains">>
      [] parent \in {"Component", "Function"} /\ child = "App"     -> <<"Hosts">>
      [] parent = "Component" /\ child = "Component"               -> <<"Subcomponents">>
      [] OTHER                                                     -> <<>>

rel_item(e) == [e EXCEPT !.parent = ""]

Edge(from, relation, item) == [from |-> from, relation |-> relation, item |-> item]

EdgeKey(edge) == <<edge.from, edge.relation, edge.item.id>>

(* The edges of one entity to its parent, the ones already there left out. *)
link_child(view, child) ==
    LET parents == {i \in DOMAIN view.entities : view.entities[i].id = child.parent}
        add(edges, relation) ==
            LET edge == Edge(child.parent, relation, rel_item(child))
            IN  IF \E i \in DOMAIN edges : EdgeKey(edges[i]) = EdgeKey(edge)
                THEN edges
                ELSE Append(edges, edge)
    IN  IF parents = {} THEN view
        ELSE [view EXCEPT !.relationships =
                FoldLeft(add, @,
                         synthesized_relations(view.entities[CHOOSE i \in parents : TRUE].kind,
                                               child.kind))]

(* Declared entities win, raw entities are placed, edges follow. *)
apply_manifest(view, m) ==
    LET declared == FoldLeft(upsert, view, declared_entities(m))
        place(e) == IF parent_of(m, e.id) # "" THEN [e EXCEPT !.parent = parent_of(m, e.id)] ELSE e
        placed == [declared EXCEPT !.entities = [i \in DOMAIN @ |-> place(@[i])]]
    IN  FoldLeft(link_child, placed, placed.entities)

(* MergePipeline::merge *)
merge(snapshots, m) ==
    LET view == FoldLeft(fold_snapshot, EmptyView, snapshots)
    IN  IF is_empty(m) THEN view ELSE apply_manifest(view, m)

-----------------------------------------------------------------------------
(* The resolvers. *)

entity(view, id) ==
    IF id \in DOMAIN view.by_id THEN view.entities[view.by_id[id]]
    ELSE declared_entity("none", "", "")

require(view, kind, id) == entity(view, id).kind = kind

list(view, kind) == SelectSeq(view.entities, LAMBDA e : e.kind = kind)

relationship(view, kind, id, relation) ==
    IF require(view, kind, id)
    THEN SelectSeq(view.relationships, LAMBDA e : e.from = id /\ e.relation = relation)
    ELSE <<>>

matches(filter, status) ==
    CASE filter = "All"       -> TRUE
      [] filter = "Pending"   -> status \in {"PREFAILED", "PENDING"}
      [] filter = "Confirmed" -> status = "CONFIRMED"
      [] filter = "Cleared"   -> status = "CLEARED"
      [] filter = "Healed"    -> status = "HEALED"

(* The codes of every entity, each once. *)
global_faults(view, filter) ==
    UNION {{c \in DOMAIN view.faults[id] : matches(filter, view.faults[id][c].status)} :
              id \in DOMAIN view.faults}

(* The faults of an entity by code; the component's aggregation is left to *)
(* aggregation_sources.                                                    *)
entity_faults(view, kind, id, filter) ==
    LET faults == Lookup(view.faults, id, Empty)
        codes == {c \in DOMAIN faults : matches(filter, faults[c].status)}
    IN  IF require(view, kind, id) THEN [c \in codes |-> faults[c]] ELSE Empty

aggregation_sources(view, id) ==
    LET hosts == SelectSeq(view.relationships,
                           LAMBDA e : e.from = id /\ e.relation = "Hosts" /\ e.item.node # "")
    IN  [i \in DOMAIN hosts |-> hosts[i].item.node]

(* fault_detail: the status bits of a fault, and whether the environment   *)
(* the binding captured is shown instead of the occurrence-only one.       *)
detail_from_summary(fault, captured) ==
    LET pending == fault.status \in {"PREFAILED", "PENDING"}
        confirmed == fault.status = "CONFIRMED"
    IN  [aggregated |-> IF confirmed THEN "active" ELSE "pending",
         test_failed |-> confirmed \/ pending, confirmed |-> confirmed, pending |-> pending,
         captured |-> captured]

(* delete_fault answers as fault_detail does and changes nothing. *)
fault_detail(view, kind, id, code) ==
    LET faults == entity_faults(view, kind, id, "All")
    IN  IF code \in DOMAIN faults
        THEN detail_from_summary(faults[code],
                                 code \in DOMAIN Lookup(view.fault_environments, id, Empty))
        ELSE {}

(* A path with empty segments names what the path without them names. *)
data(view, kind, id, path) ==
    LET segments == SelectSeq(path, LAMBDA s : s # "")
    IN  require(view, kind, id) /\ (segments = <<>> \/ segments \in Lookup(view.data, id, {}))

(* The entity counts win over the telemetry of a provider. *)
health_document(view) ==
    [k \in Kinds |-> Cardinality({i \in DOMAIN view.entities : view.entities[i].kind = k})]
        @@ view.telemetry

(* Gateway::rolled_up_health, over the parents the provider gives. *)
children_index(entities, id) ==
    {entities[i].id : i \in {j \in DOMAIN entities : entities[j].parent = id}}

WorstOf(S) == CHOOSE x \in S : \A y \in S : y <= x

RECURSIVE roll_up(_, _, _)
roll_up(entities, health, id) ==
    WorstOf({health[id]} \cup
            {roll_up(entities, health, c) : c \in children_index(entities, id)})

-----------------------------------------------------------------------------
(* Change events. *)

(* The entities with faults, and their faults by code. *)
fault_index(view) ==
    [id \in {view.entities[i].id : i \in {j \in DOMAIN view.entities :
                 Lookup(view.faults, view.entities[j].id, Empty) # Empty}} |-> view.faults[id]]

health_of(faults) ==
    WorstOf({0} \cup {severity_to_health(faults[c].severity) : c \in DOMAIN faults})

worst_fault(faults) ==
    CHOOSE c \in DOMAIN faults :
        \A d \in DOMAIN faults : faults[d].severity <= faults[c].severity

make_event(type, id, code, fault) ==
    [type |-> type, entity |-> id, code |-> code, severity |-> fault.severity]

(* The events between two views: raised, then cleared, then health_changed *)
(* with the worst fault there is or, if none is left, the worst there was. *)
diff_events(prev, next) ==
    LET before == fault_index(prev)
        after == fault_index(next)
        of(index, id) == Lookup(index, id, Empty)
        new(a, b) == {<<id, c>> \in UNION {{<<i, c>> : c \in DOMAIN a[i]} : i \in DOMAIN a} :
                         c \notin DOMAIN of(b, id)}
        events(type, S, index) ==
            [k \in 1..Cardinality(S) |->
                LET p == SetToSeq(S)[k] IN make_event(type, p[1], p[2], index[p[1]][p[2]])]
        changed == {id \in DOMAIN before \cup DOMAIN after :
                       health_of(of(before, id)) # health_of(of(after, id))}
        health(id) ==
            LET faults == IF id \in DOMAIN after THEN after[id] ELSE before[id]
            IN  make_event("health_changed", id, worst_fault(faults), faults[worst_fault(faults)])
    IN  events("fault_raised", new(after, before), after)
            \o events("fault_cleared", new(before, after), before)
            \o [k \in 1..Cardinality(changed) |-> health(SetToSeq(changed)[k])]
==============================================================================
