---------------------------- MODULE GoalGraphMC ----------------------------
(* Instances of GoalGraph for TLC: plans, lanes, envelopes.                 *)
EXTENDS GoalGraphProperties, TLC

(* Workspace contents are interchangeable.                                   *)
Contents == Permutations(Token)

(* What still matters of a state: an attempt that ended without a result is   *)
(* looked at again only for its verdict, its worker, its worktree, its usage  *)
(* and what is in doubt about it.                                            *)
Live(h) ==
    [h EXCEPT !.attempts = [n \in Node |-> [k \in DOMAIN h.attempts[n] |->
        LET a == h.attempts[n][k]
        IN  IF a.state \in {"running", "accepted", "candidate"} THEN a
            ELSE <<a.state, a.worker, a.tree, a.billed, a.cached, a.pending.kind,
                   "interrupted" \in a.failures>>]]]
LiveState == <<Live(graph), Live(disk), world, up, pass, inDoubt>>

(* A plan from its nodes' dependencies, executions, write scopes and texts;   *)
(* node ids outside ns get neutral entries.                                  *)
MakePlan(ns, deps, exec, scope, text) ==
    [nodes |-> ns,
     deps |-> [n \in Node |-> IF n \in ns THEN deps[n] ELSE {}],
     exec |-> [n \in Node |-> IF n \in ns THEN exec[n] ELSE "primary"],
     scope |-> [n \in Node |-> IF n \in ns THEN scope[n] ELSE {}],
     text |-> [n \in Node |-> IF n \in ns THEN text[n] ELSE "-"]]

Lanes(r, w) == [e \in Workers |-> IF e = "read_only" THEN r ELSE w]
OneWorker == Lanes(1, 1)
TwoWorkers == Lanes(2, 2)
ThreeStarts == Lanes(3, 3)

One == {1}
Two == {1, 2}
Three == {1, 2, 3}

(* Research, then the change that consumes it; the same with another change. *)
ResearchThenChange ==
    MakePlan(Two, <<{}, {1}>>, <<"read_only", "primary">>, <<{}, {}>>, <<"a", "b">>)
ReworkedChange ==
    MakePlan(Two, <<{}, {1}>>, <<"read_only", "primary">>, <<{}, {}>>, <<"a", "c">>)

OneChange ==
    MakePlan(One, <<{}>>, <<"primary">>, <<{}>>, <<"a">>)

(* Three writers; the first and the last may run together.                   *)
ThreeWriters ==
    MakePlan(Three, <<{}, {}, {}>>,
             <<"isolated_write", "isolated_write", "isolated_write">>,
             <<{"p"}, {"p", "q"}, {"q"}>>, <<"a", "b", "c">>)

SingleChange == {OneChange}
ResearchPlans == {ResearchThenChange, ReworkedChange}
ResearchOnly == {ResearchThenChange}
WriterWave == {ThreeWriters}
=============================================================================
