--------------------------- MODULE AdmissionPool ---------------------------
(***************************************************************************)
(* What the delegate scheduler promises its callers: tasks enter one by one,  *)
(* never more than there is room for, and never two that may write the same   *)
(* path; they leave as they like, all at once when the process stops.        *)
(***************************************************************************)
EXTENDS Naturals, FiniteSets

CONSTANTS Task, Provider, Path, ProviderOf, ScopeOf, Max, Limit

VARIABLE inside   \* the tasks that run

Of(S, p) == {t \in S : ProviderOf[t] = p}

Room(S) ==
    /\ Cardinality(S) <= Max
    /\ \A p \in Provider : Limit[p] > 0 => Cardinality(Of(S, p)) <= Limit[p]
    /\ \A t, u \in S : t # u => ScopeOf[t] \cap ScopeOf[u] = {}

Init == inside = {}

Enter(t) ==
    /\ t \notin inside
    /\ inside' = inside \cup {t}
    /\ Room(inside')

Leave == inside' \subseteq inside

Spec == Init /\ [][Leave \/ \E t \in Task : Enter(t)]_inside
=============================================================================
