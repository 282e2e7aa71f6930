--------------------------- MODULE GoalGraphState ---------------------------
(***************************************************************************)
(* The durable snapshot of an Orchestrated Goal (goalgraph.Snapshot) and    *)
(* the private helpers of goalgraph/graph.go that the public operations     *)
(* compose: readiness, outcome reduction, invalidation, exhaustion and      *)
(* snapshot validation.  A helper takes the snapshot h it finds under the   *)
(* lock and returns the snapshot it leaves.                                 *)
(*                                                                          *)
(* Node ids double as plan positions.  An attempt is named by its node and  *)
(* its index in attempts[node]; used[node] is len(node.AttemptIDs), so the  *)
(* node still holds the last used[node] entries and a revision that drops   *)
(* and re-adds a node leaves older ones behind, as the code does.           *)
(***************************************************************************)
EXTENDS Naturals, FiniteSets, Sequences

CONSTANTS
    Node,          \* node ids any plan may use
    Plan,          \* the logical plans an approval or a revision may install
    FirstPlan,     \* the plan the user approved
    Token,         \* workspace contents, as the state token tells them apart
    NoToken,       \* "": no token could be observed
    Lane,          \* [read_only, isolated_write]: concurrent automatic workers
    Starts,        \* [read_only, isolated_write]: automatic starts in one envelope
    Attempts,      \* attempts per node in one envelope
    Envelope,      \* aggregate allowance of one envelope
    MaxRevisions   \* accepted revisions

Executions == {"primary", "read_only", "isolated_write"}
Workers == {"read_only", "isolated_write"}

(* ValidateExecutableSpec: isolated writers are terminal leaves of a plan     *)
(* without primary nodes.                                                    *)
Executable(p) ==
    \A w \in p.nodes : p.exec[w] = "isolated_write" =>
        \A n \in p.nodes : p.exec[n] # "primary" /\ w \notin p.deps[n]

(* dependencyCycle: among any nodes of a plan, one waits for none of them.    *)
Acyclic(p) == \A C \in SUBSET p.nodes : C # {} => \E n \in C : p.deps[n] \cap C = {}

ASSUME NodeAssumption == Node \subseteq Nat \ {0} /\ IsFiniteSet(Node)

ASSUME PlanAssumption ==
    /\ FirstPlan \in Plan
    /\ \A p \in Plan :
        /\ p.nodes \in SUBSET Node /\ p.nodes # {}
        /\ p.deps \in [Node -> SUBSET Node]
        /\ p.exec \in [Node -> Executions]
        /\ \A n \in p.nodes : p.deps[n] \subseteq p.nodes
        /\ Executable(p)
        /\ Acyclic(p)

ASSUME TokenAssumption == NoToken \notin Token

ASSUME BoundAssumption ==
    /\ Lane \in [Workers -> Nat \ {0}]
    /\ Starts \in [Workers -> Nat \ {0}]
    /\ Attempts \in Nat \ {0}
    /\ Envelope \in Nat \ {0}
    /\ MaxRevisions \in Nat

NodeStates == {"absent", "proposed", "ready", "running", "retryable", "stale",
               "blocked", "awaiting_review", "integrated", "cancelled",
               "budget_exhausted", "done"}
AttemptStates == {"running", "retryable", "failed", "blocked", "cancelled",
                  "budget_exhausted", "accepted", "candidate", "interrupted"}
Outcomes == {"none", "done", "blocked", "cancelled", "budget_exhausted",
             "awaiting_review", "awaiting_verification"}
Observation == Token \cup {NoToken}

(* A tool's risk decides its write-ahead record: every non-read action is    *)
(* non-replayable, and writes and commands may also change the workspace.    *)
Mutating == {"write", "execute"}
NonReplayable == Mutating \cup {"external"}
Kinds == NonReplayable \cup {"read"}
Action == [kind : Kinds \cup {"none"}, base : Observation, mutation : Nat]
NoAction == [kind |-> "none", base |-> NoToken, mutation |-> 0]

(* Unresolved failures, as the completion gate tells them apart.             *)
Hard == {"policy", "interrupted"}
Recoverable == {"retryable", "drift"}
Failures == Hard \cup Recoverable \cup {"plain"}

(* The retained worktree of a writer: kept on disk, seen by a reconciliation, *)
(* discarded by the user.  The worker of an attempt is out until its result   *)
(* is back, and gone once the process that ran it has stopped.                *)
Trees == {"none", "kept", "seen", "discarded"}

Attempt == [state : AttemptStates, base : Observation, mutation : Nat,
            pending : Action, mutated : BOOLEAN, wrote : BOOLEAN,
            worked : BOOLEAN, failures : SUBSET Failures,
            proofs : SUBSET (Nat \X Observation), nudges : 0 .. 3,
            billed : BOOLEAN, cached : BOOLEAN, tree : Trees,
            candidate : BOOLEAN,
            worker : {"none", "out", "back", "gone"}]

NewAttempt(h, token, worker) ==
    [state |-> "running", base |-> token, mutation |-> h.mutation,
     pending |-> NoAction, mutated |-> FALSE, wrote |-> FALSE,
     worked |-> FALSE, failures |-> {}, proofs |-> {}, nudges |-> 0,
     billed |-> FALSE, cached |-> FALSE, tree |-> "none",
     candidate |-> FALSE, worker |-> worker]

Snapshot == [plan : Plan, generation : Nat, state : [Node -> NodeStates],
             active : [Node -> Nat], accepted : [Node -> Nat],
             used : [Node -> Nat], attempts : [Node -> Seq(Attempt)],
             outcome : Outcomes, pause : {"off", "requested", "reached"},
             clock : BOOLEAN, token : Observation, mutation : Nat,
             spent : Nat, limit : Nat, cap : Nat, extensions : Nat,
             starts : [Workers -> Nat], maxStarts : [Workers -> Nat],
             retired : SUBSET Node, waived : SUBSET Node]

-----------------------------------------------------------------------------
(* Lookups.                                                                 *)

Last(h, n) == h.attempts[n][Len(h.attempts[n])]
Held(h, n) == {k \in DOMAIN h.attempts[n] : k + h.used[n] > Len(h.attempts[n])}
InState(h, s) == {n \in h.plan.nodes : h.state[n] = s}
InLane(h, ns, e) == {n \in ns : h.plan.exec[n] = e}
Ready(h, e) == InLane(h, InState(h, "ready"), e)
Running(h, e) == InLane(h, InState(h, "running"), e)

HasRunningAttempt(h) ==
    \E n \in Node : \E k \in DOMAIN h.attempts[n] :
        h.attempts[n][k].state = "running"

HasPendingAction(h) ==
    \E n \in Node : \E k \in DOMAIN h.attempts[n] :
        h.attempts[n][k].state = "running" /\ h.attempts[n][k].pending # NoAction

First(S) == CHOOSE n \in S : \A m \in S : n <= m
Latest(S) == CHOOSE k \in S : \A j \in S : j <= k
HeldIn(h, n, s) == {k \in Held(h, n) : h.attempts[n][k].state = s}
LatestIn(h, n, s) == Latest(HeldIn(h, n, s))

(* Every node n depends on, directly or not: the least set that contains its *)
(* dependencies and theirs.                                                  *)
Upstream(p, n) ==
    {m \in p.nodes : \A C \in SUBSET p.nodes :
        (p.deps[n] \subseteq C /\ \A c \in C : p.deps[c] \subseteq C) => m \in C}

SameDefinition(p, q, n) ==
    n \in p.nodes /\ p.deps[n] = q.deps[n] /\ p.exec[n] = q.exec[n]
    /\ p.text[n] = q.text[n] /\ p.scope[n] = q.scope[n]

-----------------------------------------------------------------------------
(* Readiness and outcome.                                                   *)

DependenciesDone(h, n) == \A d \in h.plan.deps[n] : h.state[d] = "done"

(* Mutant of Refreshed: stale nodes are forgotten.                            *)
RefreshedForgetsStale(h) ==
    [h EXCEPT !.state = [n \in Node |->
        IF /\ n \in h.plan.nodes
           /\ h.state[n] \in {"proposed", "retryable"}
           /\ DependenciesDone(h, n)
        THEN IF h.used[n] < h.cap THEN "ready" ELSE "budget_exhausted"
        ELSE h.state[n]]]

(* refreshReadyLocked: only proposed, retryable and stale nodes are looked   *)
(* at; a node that is already ready is left ready.                           *)
Refreshed(h) ==
    [h EXCEPT !.state = [n \in Node |->
        IF /\ n \in h.plan.nodes
           /\ h.state[n] \in {"proposed", "retryable", "stale"}
           /\ DependenciesDone(h, n)
        THEN IF h.used[n] < h.cap THEN "ready" ELSE "budget_exhausted"
        ELSE h.state[n]]]

(* Every way to end a graph stops the active clock and drops the pause.      *)
Terminated(h, o) == [h EXCEPT !.outcome = o, !.clock = FALSE, !.pause = "off"]

(* reduceOutcomeLocked: the outcome the node states alone determine, most    *)
(* urgent first; nothing but completion ends a graph with a running node.    *)
Verdict(h) ==
    IF \A n \in h.plan.nodes : h.state[n] = "done" THEN "done"
    ELSE IF InState(h, "running") # {} THEN "none"
    ELSE IF InState(h, "blocked") # {} THEN "blocked"
    ELSE IF InState(h, "budget_exhausted") # {} THEN "budget_exhausted"
    ELSE IF InState(h, "integrated") # {} THEN "awaiting_verification"
    ELSE IF InState(h, "awaiting_review") # {} THEN "awaiting_review"
    ELSE "none"

Reduced(h) ==
    IF h.outcome # "none" \/ Verdict(h) = "none" THEN h
    ELSE Terminated(h, Verdict(h))

-----------------------------------------------------------------------------
(* Attempts.                                                                *)

(* One more running attempt for every node of the wave, in lane e.           *)
Started(h, wave, token, e) ==
    [h EXCEPT
        !.attempts = [n \in Node |->
            IF n \in wave
            THEN Append(h.attempts[n], NewAttempt(h, token,
                            IF e = "primary" THEN "none" ELSE "out"))
            ELSE h.attempts[n]],
        !.active = [n \in Node |->
            IF n \in wave THEN Len(h.attempts[n]) + 1 ELSE h.active[n]],
        !.used = [n \in Node |-> IF n \in wave THEN h.used[n] + 1 ELSE h.used[n]],
        !.starts = [w \in Workers |->
            IF w = e THEN h.starts[w] + Cardinality(wave) ELSE h.starts[w]],
        !.state = [n \in Node |-> IF n \in wave THEN "running" ELSE h.state[n]]]

(* n's active attempt becomes a and the node moves to state s.               *)
Settled(h, n, a, s) ==
    [h EXCEPT !.attempts[n][h.active[n]] = a, !.state[n] = s,
              !.accepted[n] = IF s = "done" THEN h.active[n] ELSE h.accepted[n],
              !.active[n] = 0]

(* Mutant of RunningEnded: accepted attempts end too.                         *)
AcceptedEnded(h, a) ==
    [n \in Node |-> [k \in DOMAIN h.attempts[n] |->
        IF h.attempts[n][k].state \in {"running", "accepted"}
        THEN [h.attempts[n][k] EXCEPT !.state = a]
        ELSE h.attempts[n][k]]]

(* Every running attempt ends in state a; nodes are the caller's to move.    *)
RunningEnded(h, a) ==
    [n \in Node |-> [k \in DOMAIN h.attempts[n] |->
        IF h.attempts[n][k].state = "running"
        THEN [h.attempts[n][k] EXCEPT !.state = a]
        ELSE h.attempts[n][k]]]

-----------------------------------------------------------------------------
(* Invalidation.                                                            *)

(* Mutants of AllDoneStale: stale nodes keep their accepted attempt; only the *)
(* outcome is cleared.                                                       *)
StaleStillAccepted(h) ==
    [h EXCEPT !.state = [n \in Node |->
                  IF n \in InState(h, "done") THEN "stale" ELSE h.state[n]],
              !.outcome = "none"]
OutcomeCleared(h) == [h EXCEPT !.outcome = "none"]

(* invalidateAllDoneLocked also clears the outcome, whatever it was.         *)
AllDoneStale(h) ==
    [h EXCEPT !.state = [n \in Node |->
                  IF n \in InState(h, "done") THEN "stale" ELSE h.state[n]],
              !.accepted = [n \in Node |->
                  IF n \in InState(h, "done") THEN 0 ELSE h.accepted[n]],
              !.outcome = "none"]

Differs(h, token) ==
    h.token # NoToken /\ token # NoToken /\ h.token # token

(* What every scheduling call does with the token it observed: stale all     *)
(* accepted work on a difference, and adopt the token only if none was known.*)
Noticed(h, token) ==
    LET d == IF Differs(h, token) THEN AllDoneStale(h) ELSE h
    IN  Refreshed([d EXCEPT !.token = IF @ = NoToken THEN token ELSE @])

(* invalidateUnconsumedReadsLocked and invalidateDependentsLocked.           *)
UnconsumedStale(h, n) ==
    LET unconsumed == {m \in InState(h, "done") \ (Upstream(h.plan, n) \cup {n}) :
                          ~h.attempts[m][h.accepted[m]].mutated}
        dependent == {m \in h.plan.nodes :
                          /\ Upstream(h.plan, m) \cap unconsumed # {}
                          /\ h.state[m] \in {"done", "ready", "proposed"}}
        hit == unconsumed \cup dependent
    IN  [h EXCEPT !.state = [m \in Node |-> IF m \in hit THEN "stale" ELSE h.state[m]],
                  !.accepted = [m \in Node |-> IF m \in hit THEN 0 ELSE h.accepted[m]]]

-----------------------------------------------------------------------------
(* Budget.  One resource stands for iterations, tokens, cost and active wall.*)

Over(h, boundary) == IF boundary THEN h.spent >= h.limit ELSE h.spent > h.limit

(* exhaustAggregateLocked: done and awaiting_review nodes alone are kept.    *)
KeptDone(h) == InState(h, "done")   \* mutant of Kept
Kept(h) == InState(h, "done") \cup InState(h, "awaiting_review")

Exhausted(h) ==
    LET hit == h.plan.nodes \ Kept(h)
    IN  Terminated(
          [h EXCEPT !.attempts = RunningEnded(h, "budget_exhausted"),
                    !.state = [n \in Node |->
                        IF n \in hit THEN "budget_exhausted" ELSE h.state[n]],
                    !.active = [n \in Node |-> IF n \in hit THEN 0 ELSE h.active[n]]],
          "budget_exhausted")

Enforced(h, boundary) == IF Over(h, boundary) THEN Exhausted(h) ELSE h

(* finishBlockedLocked *)
BlockedBy(h, n, a) ==
    Reduced(Settled(h, n, [a EXCEPT !.state = "blocked"], "blocked"))

-----------------------------------------------------------------------------
(* ValidateSnapshot: what Restore demands of a saved snapshot.               *)

PauseWellFormed(h) ==
    /\ h.outcome # "none" => ~h.clock /\ h.pause = "off"
    /\ h.pause = "reached" => ~h.clock

NodesWellFormed(h) ==
    \A n \in h.plan.nodes :
        /\ (h.state[n] = "running") = (h.active[n] # 0)
        /\ (h.state[n] = "done") = (h.accepted[n] # 0)
        /\ h.active[n] # 0 =>
            h.active[n] \in DOMAIN h.attempts[n]
            /\ h.attempts[n][h.active[n]].state = "running"
        /\ h.accepted[n] # 0 =>
            h.accepted[n] \in DOMAIN h.attempts[n]
            /\ h.attempts[n][h.accepted[n]].state = "accepted"
        /\ h.used[n] <= h.cap /\ h.used[n] <= Len(h.attempts[n])

PendingWellFormed(h) ==
    \A n \in Node : \A k \in DOMAIN h.attempts[n] :
        h.attempts[n][k].pending # NoAction =>
            h.attempts[n][k].state \in {"running", "interrupted"}

AttemptsWellFormed(h) ==
    \A n \in Node : \A k \in DOMAIN h.attempts[n] :
        /\ n \in h.plan.nodes
        /\ h.attempts[n][k].state = "candidate" =>
            h.attempts[n][k].candidate /\ h.state[n] = "awaiting_review"

LanesWellFormed(h) ==
    LET lane(e) == Cardinality(Running(h, e))
    IN  /\ lane("primary") <= 1
        /\ \A e \in Workers : lane(e) <= Lane[e]
        /\ Cardinality({e \in Executions : lane(e) > 0}) <= 1

OutcomeWellFormed(h) ==
    /\ h.outcome # "none" => InState(h, "running") = {}
    /\ h.outcome = "done" => InState(h, "done") = h.plan.nodes

BoundsWellFormed(h) ==
    /\ \A e \in Workers : h.starts[e] <= h.maxStarts[e]
    /\ h.generation <= MaxRevisions + 1
    /\ h.retired \cap h.plan.nodes = {}

ValidSnapshot(h) ==
    PauseWellFormed(h) /\ NodesWellFormed(h) /\ PendingWellFormed(h)
    /\ AttemptsWellFormed(h) /\ LanesWellFormed(h) /\ OutcomeWellFormed(h)
    /\ BoundsWellFormed(h)
=============================================================================
