---------------------------- MODULE ConnectorCore ----------------------------
(***************************************************************************)
(* What the connectors share (crates/taktora-connector-core): the kinds of *)
(* health and the transitions between them (health.rs), and the budget of  *)
(* a reconnect policy (reconnect.rs).  The reason of a state and the time  *)
(* since when it holds are left out; delays are multiples of `initial`.    *)
(***************************************************************************)
EXTENDS Naturals

Kinds == {"Connecting", "Up", "Degraded", "Down"}

(* is_legal_transition *)
LegalTransition(from, to) ==
    <<from, to>> \in {<<"Connecting", "Up">>, <<"Connecting", "Degraded">>,
                      <<"Connecting", "Down">>, <<"Up", "Degraded">>, <<"Up", "Down">>,
                      <<"Degraded", "Up">>, <<"Degraded", "Connecting">>,
                      <<"Degraded", "Down">>, <<"Down", "Connecting">>}

(* HealthMonitor::try_transition_to: an illegal transition changes nothing. *)
Transition(from, to) == IF LegalTransition(from, to) THEN to ELSE from

(* next_backoff: a policy with a budget is exhausted after that many       *)
(* attempts; without one (0) it never is.                                  *)
Exhausted(attempts, budget) == budget > 0 /\ attempts >= budget

==============================================================================
