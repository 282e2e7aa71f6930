---------------------------- MODULE DelegatesMC ----------------------------
(* Instances of Delegates for TLC.                                          *)
EXTENDS Delegates

(* A reader and two writers whose scopes overlap; one provider is limited.   *)
TwoProviders == [t \in Task |-> IF t = 3 THEN "fast" ELSE "slow"]
OneShared == [t \in Task |-> CASE t = 1 -> {"p"} [] t = 2 -> {} [] t = 3 -> {"p", "q"}]
SlowLimited == [p \in Provider |-> IF p = "slow" THEN 1 ELSE 0]
OneReport == [t \in Task |-> IF t = 1 THEN 1 ELSE 0]
=============================================================================
