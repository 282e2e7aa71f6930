--------------------------- MODULE GoalGraphSound ---------------------------
(***************************************************************************)
(* The graph's books: the inductive invariant of GoalGraph, and the proof    *)
(* that each helper of the runtime keeps it.                                 *)
(*                                                                          *)
(* Sound(h) says that a snapshot is well typed and that its books agree: the *)
(* attempts, the node states, the lanes, the limits and the outcome.         *)
(***************************************************************************)
EXTENDS GoalGraphProperties, FiniteSetTheorems, WellFoundedInduction, TLAPS

-----------------------------------------------------------------------------
(* The inductive invariant.                                                 *)

RunsOnce(h) ==
    \A n \in Node : \A k \in DOMAIN h.attempts[n] :
        h.attempts[n][k].state = "running" =>
            /\ k = h.active[n] /\ k = Len(h.attempts[n])
            /\ n \in h.plan.nodes /\ h.state[n] = "running"
            /\ h.outcome = "none"

ActiveRuns(h) ==
    \A n \in Node : h.active[n] # 0 =>
        h.active[n] \in DOMAIN h.attempts[n]
        /\ h.attempts[n][h.active[n]].state = "running"

RunningActive(h) ==
    \A n \in h.plan.nodes : h.state[n] = "running" => h.active[n] # 0

(* A worker is out only for the latest attempt of a planned node, and while   *)
(* the graph goes on that attempt runs; the primary lane has no worker.       *)
WorkersBelong(h) ==
    \A n \in Node : \A k \in DOMAIN h.attempts[n] :
        /\ h.attempts[n][k].worker = "out" =>
            /\ k = Len(h.attempts[n]) /\ n \in h.plan.nodes
            /\ h.outcome = "none" => h.attempts[n][k].state = "running"
        /\ h.attempts[n][k].state = "running" =>
            /\ h.attempts[n][k].nudges <= 2
            /\ h.plan.exec[n] = "primary" => h.attempts[n][k].worker = "none"

ResultsHeld(h) ==
    \A n \in h.plan.nodes :
        /\ (h.state[n] = "done") = (h.accepted[n] # 0)
        /\ h.accepted[n] # 0 =>
            h.accepted[n] \in DOMAIN h.attempts[n]
            /\ h.attempts[n][h.accepted[n]].state = "accepted"
        /\ h.state[n] = "integrated" =>
            \E k \in Held(h, n) : h.attempts[n][k].state = "accepted"

WithinCap(h) ==
    \A n \in h.plan.nodes :
        /\ h.used[n] <= h.cap /\ h.used[n] <= Len(h.attempts[n])
        /\ h.state[n] = "ready" => h.used[n] < h.cap

Ended(h) ==
    /\ PauseWellFormed(h)
    /\ h.outcome = "done" => \A n \in h.plan.nodes : h.state[n] = "done"

StartsBounded(h) == \A e \in Workers : h.starts[e] <= h.maxStarts[e]

Books(h) ==
    RunsOnce(h) /\ ActiveRuns(h) /\ RunningActive(h) /\ WorkersBelong(h)
    /\ ResultsHeld(h) /\ WithinCap(h) /\ LanesWellFormed(h) /\ Ended(h)
    /\ StartsBounded(h)

Sound(h) == h \in Snapshot /\ Books(h)

NobodyOut(h) ==
    \A n \in Node : \A k \in DOMAIN h.attempts[n] : h.attempts[n][k].worker # "out"

IInv == TypeOK /\ Books(graph) /\ Books(disk) /\ (~up => NobodyOut(graph))

-----------------------------------------------------------------------------
(* Sequences, extrema and lanes.                                            *)

(* Replacing one entry of a sequence keeps its length (attempts are edited in *)
(* place).                                                                   *)
LEMMA SeqEdit ==
    ASSUME NEW S, NEW s \in Seq(S), NEW i \in DOMAIN s, NEW a \in S
    PROVE  /\ [s EXCEPT ![i] = a] \in Seq(S)
           /\ Len([s EXCEPT ![i] = a]) = Len(s)
           /\ DOMAIN [s EXCEPT ![i] = a] = DOMAIN s
           /\ \A k \in DOMAIN s : [s EXCEPT ![i] = a][k] = IF k = i THEN a ELSE s[k]
  OBVIOUS

(* Mapping a sequence over its domain keeps its length (RunningEnded).        *)
LEMMA SeqMap ==
    ASSUME NEW S, NEW s \in Seq(S), NEW t,
           t = [k \in DOMAIN s |-> t[k]], \A k \in DOMAIN s : t[k] \in S
    PROVE  t \in Seq(S) /\ Len(t) = Len(s) /\ DOMAIN t = DOMAIN s
<1>1. DOMAIN s = 1 .. Len(s) /\ Len(s) \in Nat
  OBVIOUS
<1> QED BY <1>1

(* A plan's nodes are known and finite, and each has one execution class.     *)
LEMMA PlanNodes ==
    ASSUME NEW h \in Snapshot
    PROVE  /\ h.plan \in Plan /\ h.plan.nodes \subseteq Node /\ h.plan.nodes # {}
           /\ IsFiniteSet(h.plan.nodes)
           /\ \A n \in Node : h.plan.exec[n] \in Executions
<1>1. h.plan \in Plan
  BY DEF Snapshot
<1>2. h.plan.nodes \subseteq Node /\ h.plan.nodes # {} /\ h.plan.exec \in [Node -> Executions]
  BY <1>1, PlanAssumption
<1>3. IsFiniteSet(h.plan.nodes)
  BY <1>2, NodeAssumption, FS_Subset
<1> QED BY <1>1, <1>2, <1>3

(* The first of a set of nodes is one of them (claims follow plan order).     *)
LEMMA FirstIsMember ==
    ASSUME NEW S \in SUBSET Node, S # {} PROVE First(S) \in S
<1>1. S \subseteq Nat
  BY NodeAssumption
<1>2. PICK n \in S : \A m \in S : <<m, n>> \notin OpToRel(<, Nat)
  BY <1>1, NatLessThanWellFounded, WFMin
<1>3. \A m \in S : ~ (m < n)
  BY <1>1, <1>2, Zenon DEF OpToRel
<1>4. \A m \in S : n <= m
  BY <1>1, <1>3
<1> QED BY <1>4 DEF First

(* What runs in h is all that runs in g: no step but a claim adds to a lane.  *)
LEMMA LanesShrink ==
    ASSUME NEW h \in Snapshot, NEW g, g.plan = h.plan,
           \A n \in h.plan.nodes : g.state[n] = "running" => h.state[n] = "running",
           LanesWellFormed(h)
    PROVE  LanesWellFormed(g)
<1>1. \A e \in Executions : Running(g, e) \subseteq Running(h, e)
  BY DEF Running, InLane, InState
<1>2. \A e \in Executions : IsFiniteSet(Running(h, e))
  BY PlanNodes, FS_Subset DEF Running, InLane, InState
<1>3. \A e \in Executions :
        /\ Cardinality(Running(g, e)) <= Cardinality(Running(h, e))
        /\ Cardinality(Running(g, e)) \in Nat
        /\ Cardinality(Running(h, e)) \in Nat
  BY <1>1, <1>2, FS_Subset, FS_CardinalityType
<1> DEFINE busy(x) == {e \in Executions : Cardinality(Running(x, e)) > 0}
<1>4. busy(g) \subseteq busy(h)
  BY <1>3
<1>5. IsFiniteSet(Executions)
  <2>1. Executions = ({"primary"} \cup {"read_only"}) \cup {"isolated_write"}
    BY DEF Executions
  <2> QED BY <2>1, FS_Singleton, FS_Union
<1>6. IsFiniteSet(busy(h))
  BY <1>5, FS_Subset
<1>7. Cardinality(busy(g)) <= Cardinality(busy(h))
      /\ Cardinality(busy(g)) \in Nat /\ Cardinality(busy(h)) \in Nat
  BY <1>4, <1>6, FS_Subset, FS_CardinalityType
<1>8. Cardinality(Running(g, "primary")) <= 1
  BY <1>3 DEF LanesWellFormed, Executions
<1>9. \A e \in Workers : Cardinality(Running(g, e)) <= Lane[e]
  BY <1>3, BoundAssumption DEF LanesWellFormed, Executions, Workers
<1> QED BY <1>7, <1>8, <1>9 DEF LanesWellFormed

(* An idle graph is in no lane.                                              *)
LEMMA NoLanes ==
    ASSUME NEW g, \A n \in g.plan.nodes : g.state[n] # "running"
    PROVE  LanesWellFormed(g)
<1>1. \A e : Running(g, e) = {}
  BY DEF Running, InLane, InState
<1>2. \A e : Cardinality(Running(g, e)) = 0
  BY <1>1, FS_EmptySet
<1>3. {e \in Executions : Cardinality(Running(g, e)) > 0} = {}
  BY <1>2
<1>4. Cardinality({e \in Executions : Cardinality(Running(g, e)) > 0}) = 0
  BY <1>3, FS_EmptySet
<1> QED BY <1>2, <1>4, BoundAssumption DEF LanesWellFormed, Workers

-----------------------------------------------------------------------------
(* Helpers keep a snapshot sound.                                           *)

(* b is attempt a edited in place: it ended or not as before, and no worker of *)
(* it went out.                                                              *)
InPlace(b, a) ==
    /\ b.state = a.state
    /\ a.state = "running" => b.nudges <= 2
    /\ \/ b.worker = a.worker
       \/ a.worker # "none" /\ b.worker # "out"

(* g is h with attempts edited in place.                                      *)
EditOf(g, h) ==
    /\ g.plan = h.plan /\ g.state = h.state /\ g.active = h.active
    /\ g.accepted = h.accepted /\ g.used = h.used /\ g.cap = h.cap
    /\ g.outcome = h.outcome /\ g.pause = h.pause /\ g.clock \in {h.clock, FALSE}
    /\ g.starts = h.starts /\ g.maxStarts = h.maxStarts
    /\ \A n \in Node :
        /\ DOMAIN g.attempts[n] = DOMAIN h.attempts[n]
        /\ Len(g.attempts[n]) = Len(h.attempts[n])
        /\ \A k \in DOMAIN h.attempts[n] : InPlace(g.attempts[n][k], h.attempts[n][k])

(* Editing attempts in place keeps the books (usage, tools, worktrees).       *)
LEMMA EditSound ==
    ASSUME NEW h \in Snapshot, Books(h), NEW g \in Snapshot, EditOf(g, h)
    PROVE  Sound(g)
<1>1. RunsOnce(g)
  BY DEF EditOf, InPlace, Books, RunsOnce
<1>2. ActiveRuns(g) /\ RunningActive(g)
  BY DEF EditOf, InPlace, Books, ActiveRuns, RunningActive
<1>3. WorkersBelong(g)
  BY DEF EditOf, InPlace, Books, WorkersBelong
<1>4. ResultsHeld(g) /\ WithinCap(g)
  <2>1. h.plan.nodes \subseteq Node
    BY PlanNodes
  <2>2. \A n \in Node : Held(g, n) = Held(h, n)
    BY DEF EditOf, Held
  <2>3. \A n \in Node : Held(h, n) \subseteq DOMAIN h.attempts[n]
    BY DEF Held
  <2> QED BY <2>1, <2>2, <2>3 DEF EditOf, InPlace, Books, ResultsHeld, WithinCap
<1>5. LanesWellFormed(g)
  BY LanesShrink DEF EditOf, Books
<1>6. Ended(g) /\ StartsBounded(g)
  BY DEF EditOf, Books, Ended, PauseWellFormed, StartsBounded
<1> QED BY <1>1, <1>2, <1>3, <1>4, <1>5, <1>6 DEF Sound, Books

(* Readying nodes keeps the books: a node with no attempt left is not readied.*)
LEMMA RefreshedSound ==
    ASSUME NEW h, Sound(h) PROVE Sound(Refreshed(h))
<1> DEFINE g == Refreshed(h)
           moved(n) == /\ n \in h.plan.nodes
                       /\ h.state[n] \in {"proposed", "retryable", "stale"}
                       /\ DependenciesDone(h, n)
<1>1. h \in Snapshot /\ h.state \in [Node -> NodeStates]
  BY DEF Sound, Snapshot
<1>2. \A n \in Node : g.state[n] =
        IF moved(n) THEN IF h.used[n] < h.cap THEN "ready" ELSE "budget_exhausted"
        ELSE h.state[n]
  BY <1>1 DEF Refreshed, Snapshot
<1>3. g.state \in [Node -> NodeStates]
  BY <1>1 DEF Refreshed, Snapshot, NodeStates
<1>4. g \in Snapshot
  BY <1>1, <1>3 DEF Refreshed, Snapshot
<1>5. /\ g.plan = h.plan /\ g.active = h.active /\ g.accepted = h.accepted
      /\ g.used = h.used /\ g.cap = h.cap /\ g.attempts = h.attempts
      /\ g.outcome = h.outcome /\ g.pause = h.pause /\ g.clock = h.clock
      /\ g.starts = h.starts /\ g.maxStarts = h.maxStarts
  BY <1>1 DEF Refreshed, Snapshot
<1>6. \A n \in Node :
        /\ g.state[n] \in {"done", "running", "integrated"} => g.state[n] = h.state[n]
        /\ h.state[n] \in {"done", "running", "integrated"} => g.state[n] = h.state[n]
        /\ n \in h.plan.nodes /\ g.state[n] = "ready" /\ h.state[n] # "ready"
             => h.used[n] < h.cap
  BY <1>2
<1>7. h.plan.nodes \subseteq Node
  BY <1>1, PlanNodes
<1> HIDE DEF g
<1>8. RunsOnce(g) /\ ActiveRuns(g) /\ RunningActive(g)
  BY <1>5, <1>6, <1>7 DEF Sound, Books, RunsOnce, ActiveRuns, RunningActive
<1>9. WorkersBelong(g)
  BY <1>5 DEF Sound, Books, WorkersBelong
<1>10. ResultsHeld(g)
  BY <1>5, <1>6, <1>7 DEF Sound, Books, ResultsHeld, Held
<1>11. WithinCap(g)
  BY <1>5, <1>6, <1>7 DEF Sound, Books, WithinCap
<1>12. LanesWellFormed(g)
  BY <1>1, <1>5, <1>6, <1>7, LanesShrink DEF Sound, Books
<1>13. Ended(g) /\ StartsBounded(g)
  BY <1>5, <1>6, <1>7 DEF Sound, Books, Ended, PauseWellFormed, StartsBounded
<1> QED BY <1>4, <1>8, <1>9, <1>10, <1>11, <1>12, <1>13 DEF Sound, Books, g

(* Ending a graph in which nothing runs keeps the books.                     *)
LEMMA TerminatedSound ==
    ASSUME NEW h, Sound(h), NEW o \in Outcomes \ {"none"},
           \A n \in h.plan.nodes : h.state[n] # "running",
           o = "done" => \A n \in h.plan.nodes : h.state[n] = "done"
    PROVE  Sound(Terminated(h, o))
<1> DEFINE g == Terminated(h, o)
<1>1. h \in Snapshot
  BY DEF Sound
<1>2. g \in Snapshot
  BY <1>1 DEF Terminated, Snapshot
<1>3. /\ g.plan = h.plan /\ g.active = h.active /\ g.accepted = h.accepted
      /\ g.used = h.used /\ g.cap = h.cap /\ g.attempts = h.attempts
      /\ g.outcome = o /\ g.pause = "off" /\ g.clock = FALSE
      /\ g.starts = h.starts /\ g.maxStarts = h.maxStarts /\ g.state = h.state
  BY <1>1 DEF Terminated, Snapshot
<1> HIDE DEF g
<1>4. \A n \in Node : \A k \in DOMAIN h.attempts[n] : h.attempts[n][k].state # "running"
  BY DEF Sound, Books, RunsOnce
<1>5. RunsOnce(g) /\ ActiveRuns(g) /\ RunningActive(g)
  BY <1>3, <1>4 DEF Sound, Books, RunsOnce, ActiveRuns, RunningActive
<1>6. WorkersBelong(g)
  BY <1>3, <1>4 DEF Sound, Books, WorkersBelong
<1>7. ResultsHeld(g) /\ WithinCap(g)
  BY <1>3 DEF Sound, Books, ResultsHeld, Held, WithinCap
<1>8. LanesWellFormed(g)
  BY <1>3, NoLanes
<1>9. Ended(g) /\ StartsBounded(g)
  BY <1>3 DEF Sound, Books, Ended, PauseWellFormed, StartsBounded
<1> QED BY <1>2, <1>5, <1>6, <1>7, <1>8, <1>9 DEF Sound, Books, g

(* reduceOutcomeLocked ends only graphs in which nothing runs.                *)
LEMMA ReducedSound ==
    ASSUME NEW h, Sound(h) PROVE Sound(Reduced(h))
<1>1. CASE h.outcome # "none" \/ Verdict(h) = "none"
  BY <1>1 DEF Reduced
<1>2. CASE ~(h.outcome # "none" \/ Verdict(h) = "none")
  <2>1. Verdict(h) \in Outcomes \ {"none"}
    BY <1>2 DEF Verdict, Outcomes
  <2>2. \A n \in h.plan.nodes : h.state[n] # "running"
    BY <1>2 DEF Verdict, InState
  <2>3. Verdict(h) = "done" => \A n \in h.plan.nodes : h.state[n] = "done"
    BY DEF Verdict
  <2> HIDE DEF Verdict
  <2>4. Sound(Terminated(h, Verdict(h)))
    BY <2>1, <2>2, <2>3, TerminatedSound
  <2> QED BY <1>2, <2>4 DEF Reduced
<1> QED BY <1>1, <1>2

(* With no worker out of the plan's nodes, none is out at all.                *)
LEMMA BoundaryNobodyOut ==
    ASSUME NEW h, Sound(h), Out(h) = {} PROVE NobodyOut(h)
<1>1. \A n \in Node : h.attempts[n] \in Seq(Attempt)
  BY DEF Sound, Snapshot
<1>2. SUFFICES ASSUME NEW n \in Node, NEW k \in DOMAIN h.attempts[n],
                      h.attempts[n][k].worker = "out"
               PROVE FALSE
  BY DEF NobodyOut
<1>3. k = Len(h.attempts[n]) /\ n \in h.plan.nodes
  BY <1>2 DEF Sound, Books, WorkersBelong
<1>4. h.attempts[n] # <<>>
  BY <1>1, <1>2
<1> QED BY <1>2, <1>3, <1>4 DEF Out, Last

(* Staling accepted work keeps the books, unless it reopens a graph whose     *)
(* workers are still out.                                                    *)
LEMMA AllDoneStaleSound ==
    ASSUME NEW h, Sound(h), h.outcome = "none" \/ NobodyOut(h)
    PROVE  Sound(AllDoneStale(h)) /\ AllDoneStale(h).outcome = "none"
           /\ AllDoneStale(h).attempts = h.attempts
<1> DEFINE g == AllDoneStale(h)
<1>1. h \in Snapshot
  BY DEF Sound
<1>2. /\ g.plan = h.plan /\ g.active = h.active
      /\ g.used = h.used /\ g.cap = h.cap /\ g.attempts = h.attempts
      /\ g.outcome = "none" /\ g.pause = h.pause /\ g.clock = h.clock
      /\ g.starts = h.starts /\ g.maxStarts = h.maxStarts
  BY <1>1 DEF AllDoneStale, Snapshot
<1>3. \A n \in Node :
        /\ g.state[n] = IF n \in InState(h, "done") THEN "stale" ELSE h.state[n]
        /\ g.accepted[n] = IF n \in InState(h, "done") THEN 0 ELSE h.accepted[n]
  BY <1>1 DEF AllDoneStale, Snapshot
<1>4. g \in Snapshot
  BY <1>1 DEF AllDoneStale, Snapshot, NodeStates, Outcomes
<1>5. h.plan.nodes \subseteq Node
  BY <1>1, PlanNodes
<1> HIDE DEF g
<1>6. RunsOnce(g) /\ ActiveRuns(g) /\ RunningActive(g)
  BY <1>2, <1>3, <1>5 DEF Sound, Books, RunsOnce, ActiveRuns, RunningActive, InState
<1>7. WorkersBelong(g)
  BY <1>2 DEF Sound, Books, WorkersBelong, NobodyOut
<1>8. ResultsHeld(g)
  BY <1>2, <1>3, <1>5 DEF Sound, Books, ResultsHeld, InState, Held
<1>9. WithinCap(g)
  BY <1>2, <1>3, <1>5 DEF Sound, Books, WithinCap, InState
<1>10. LanesWellFormed(g)
  BY <1>1, <1>2, <1>3, <1>5, LanesShrink DEF Sound, Books, InState
<1>11. Ended(g) /\ StartsBounded(g)
  BY <1>2 DEF Sound, Books, Ended, PauseWellFormed, StartsBounded
<1> QED BY <1>2, <1>4, <1>6, <1>7, <1>8, <1>9, <1>10, <1>11 DEF Sound, Books, g

(* A scheduling call's look at the workspace keeps the books and starts       *)
(* nothing.                                                                  *)
LEMMA NoticedSound ==
    ASSUME NEW h, Sound(h), h.outcome = "none", NEW token \in Observation
    PROVE  /\ Sound(Noticed(h, token))
           /\ Noticed(h, token).outcome = "none"
           /\ Noticed(h, token).attempts = h.attempts
<1> DEFINE d == IF Differs(h, token) THEN AllDoneStale(h) ELSE h
           t == [d EXCEPT !.token = IF @ = NoToken THEN token ELSE @]
<1>1. Sound(d) /\ d.outcome = "none" /\ d.attempts = h.attempts
  BY AllDoneStaleSound
<1> HIDE DEF d
<1>2. t \in Snapshot /\ EditOf(t, d) /\ t.outcome = d.outcome /\ t.attempts = d.attempts
  <2>1. d \in Snapshot /\ Books(d)
    BY <1>1 DEF Sound
  <2>2. t \in Snapshot
    BY <2>1 DEF Snapshot
  <2>3. /\ t.plan = d.plan /\ t.state = d.state /\ t.active = d.active
        /\ t.accepted = d.accepted /\ t.used = d.used /\ t.cap = d.cap
        /\ t.outcome = d.outcome /\ t.pause = d.pause /\ t.clock = d.clock
        /\ t.starts = d.starts /\ t.maxStarts = d.maxStarts /\ t.attempts = d.attempts
    BY <2>1 DEF Snapshot
  <2> HIDE DEF t
  <2>4. \A n \in Node : \A k \in DOMAIN d.attempts[n] :
            d.attempts[n][k].state = "running" => d.attempts[n][k].nudges <= 2
    BY <2>1 DEF Books, WorkersBelong
  <2>5. EditOf(t, d)
    BY <2>3, <2>4 DEF EditOf, InPlace
  <2> QED BY <2>2, <2>3, <2>5
<1> HIDE DEF t
<1>3. Sound(t)
  BY <1>1, <1>2, EditSound DEF Sound
<1>4. Refreshed(t).outcome = t.outcome /\ Refreshed(t).attempts = t.attempts
  BY <1>2 DEF Refreshed, Snapshot
<1>5. Noticed(h, token) = Refreshed(t)
  BY DEF Noticed, t, d
<1> QED BY <1>1, <1>2, <1>3, <1>4, <1>5, RefreshedSound

(* A new attempt has a type, runs, and has a worker unless it is primary.     *)
LEMMA NewAttemptType ==
    ASSUME NEW h \in Snapshot, NEW token \in Observation, NEW worker \in {"none", "out"}
    PROVE  /\ NewAttempt(h, token, worker) \in Attempt
           /\ NewAttempt(h, token, worker).state = "running"
           /\ NewAttempt(h, token, worker).nudges = 0
           /\ NewAttempt(h, token, worker).worker = worker
  BY DEF NewAttempt, Attempt, Snapshot, AttemptStates, Action, NoAction, Kinds,
         NonReplayable, Mutating, Observation, Trees

(* Claiming a wave that fits an idle graph keeps the books: every claimed     *)
(* node runs its latest attempt, in one lane, within its attempts and starts. *)
LEMMA StartedSound ==
    ASSUME NEW h, Sound(h), h.outcome = "none", ~HasRunningAttempt(h),
           NEW e \in Executions, NEW wave \in SUBSET Ready(h, e),
           NEW token \in Observation,
           e = "primary" => Cardinality(wave) <= 1,
           e # "primary" => /\ Cardinality(wave) <= Lane[e]
                            /\ h.starts[e] + Cardinality(wave) <= h.maxStarts[e]
    PROVE  Sound(Started(h, wave, token, e))
<1> DEFINE g == Started(h, wave, token, e)
           a == NewAttempt(h, token, IF e = "primary" THEN "none" ELSE "out")
<1>1. h \in Snapshot
  BY DEF Sound
<1>2. /\ wave \subseteq h.plan.nodes /\ h.plan.nodes \subseteq Node
      /\ \A n \in wave : h.state[n] = "ready" /\ h.plan.exec[n] = e
  BY <1>1, PlanNodes DEF Ready, InLane, InState
<1>3. IsFiniteSet(wave) /\ Cardinality(wave) \in Nat
  BY <1>1, <1>2, PlanNodes, FS_Subset, FS_CardinalityType
<1>4. /\ a \in Attempt /\ a.state = "running" /\ a.nudges = 0
      /\ a.worker = IF e = "primary" THEN "none" ELSE "out"
  BY <1>1, NewAttemptType
<1> HIDE DEF a
<1>5. /\ g.plan = h.plan /\ g.accepted = h.accepted /\ g.cap = h.cap
      /\ g.outcome = h.outcome /\ g.pause = h.pause /\ g.clock = h.clock
      /\ g.maxStarts = h.maxStarts
  BY <1>1 DEF Started, Snapshot
<1>6. \A n \in Node :
        /\ g.attempts[n] = IF n \in wave THEN Append(h.attempts[n], a) ELSE h.attempts[n]
        /\ g.active[n] = IF n \in wave THEN Len(h.attempts[n]) + 1 ELSE h.active[n]
        /\ g.used[n] = IF n \in wave THEN h.used[n] + 1 ELSE h.used[n]
        /\ g.state[n] = IF n \in wave THEN "running" ELSE h.state[n]
  BY <1>1 DEF Started, Snapshot, a
<1>7. \A w \in Workers :
        g.starts[w] = IF w = e THEN h.starts[w] + Cardinality(wave) ELSE h.starts[w]
  BY <1>1 DEF Started, Snapshot
<1>8. \A n \in Node : h.attempts[n] \in Seq(Attempt) /\ h.used[n] \in Nat
  BY <1>1 DEF Snapshot
<1>9. g \in Snapshot
  <2>1. [n \in Node |-> IF n \in wave THEN Append(h.attempts[n], a) ELSE h.attempts[n]]
            \in [Node -> Seq(Attempt)]
    BY <1>4, <1>8
  <2>2. [n \in Node |-> IF n \in wave THEN Len(h.attempts[n]) + 1 ELSE h.active[n]]
            \in [Node -> Nat]
    BY <1>1, <1>8 DEF Snapshot
  <2>3. [n \in Node |-> IF n \in wave THEN h.used[n] + 1 ELSE h.used[n]]
            \in [Node -> Nat]
    BY <1>8
  <2>4. [w \in Workers |-> IF w = e THEN h.starts[w] + Cardinality(wave) ELSE h.starts[w]]
            \in [Workers -> Nat]
    BY <1>1, <1>3 DEF Snapshot
  <2>5. [n \in Node |-> IF n \in wave THEN "running" ELSE h.state[n]] \in [Node -> NodeStates]
    BY <1>1 DEF Snapshot, NodeStates
  <2> QED BY <1>1, <2>1, <2>2, <2>3, <2>4, <2>5 DEF Started, Snapshot, a
<1> HIDE DEF g
<1>10. \A n \in Node : \A k \in DOMAIN h.attempts[n] : h.attempts[n][k].state # "running"
  BY DEF HasRunningAttempt
<1>11. \A n \in Node : h.active[n] = 0
  BY <1>10 DEF Sound, Books, ActiveRuns
<1>12. \A n \in wave :
        /\ DOMAIN g.attempts[n] = 1 .. Len(h.attempts[n]) + 1
        /\ Len(g.attempts[n]) = Len(h.attempts[n]) + 1
        /\ DOMAIN h.attempts[n] = 1 .. Len(h.attempts[n])
        /\ Len(h.attempts[n]) \in Nat
        /\ g.attempts[n][Len(h.attempts[n]) + 1] = a
        /\ \A k \in DOMAIN h.attempts[n] : g.attempts[n][k] = h.attempts[n][k]
  <2>1. ASSUME NEW s \in Seq(Attempt)
        PROVE  /\ DOMAIN Append(s, a) = 1 .. Len(s) + 1
               /\ Len(Append(s, a)) = Len(s) + 1
               /\ DOMAIN s = 1 .. Len(s) /\ Len(s) \in Nat
               /\ Append(s, a)[Len(s) + 1] = a
               /\ \A k \in DOMAIN s : Append(s, a)[k] = s[k]
    BY <1>4
  <2>2. \A n \in wave : n \in Node /\ g.attempts[n] = Append(h.attempts[n], a)
    BY <1>2, <1>6
  <2> QED BY <1>8, <2>1, <2>2
<1>13. \A n \in Node : \A k \in DOMAIN g.attempts[n] :
        IF n \in wave /\ k = Len(h.attempts[n]) + 1
        THEN g.attempts[n][k] = a
        ELSE k \in DOMAIN h.attempts[n] /\ g.attempts[n][k] = h.attempts[n][k]
  BY <1>6, <1>12
<1>14. RunsOnce(g) /\ ActiveRuns(g) /\ RunningActive(g)
  <2>1. RunsOnce(g)
    BY <1>2, <1>5, <1>6, <1>10, <1>12, <1>13 DEF RunsOnce
  <2>2. ActiveRuns(g)
    BY <1>2, <1>4, <1>6, <1>11, <1>12 DEF ActiveRuns
  <2>3. RunningActive(g)
    BY <1>2, <1>5, <1>6, <1>11, <1>12 DEF Sound, Books, RunningActive
  <2> QED BY <2>1, <2>2, <2>3
<1>15. WorkersBelong(g)
  BY <1>2, <1>4, <1>5, <1>6, <1>10, <1>12, <1>13 DEF Sound, Books, WorkersBelong
<1>16. ResultsHeld(g)
  <2>1. \A n \in h.plan.nodes \ wave : Held(g, n) = Held(h, n)
    BY <1>2, <1>6 DEF Held
  <2>2. \A n \in h.plan.nodes \ wave :
            g.attempts[n] = h.attempts[n] /\ g.state[n] = h.state[n]
    BY <1>2, <1>6
  <2>3. \A n \in wave : h.accepted[n] = 0 /\ g.state[n] = "running"
    BY <1>2, <1>6 DEF Sound, Books, ResultsHeld
  <2> QED BY <1>5, <2>1, <2>2, <2>3 DEF Sound, Books, ResultsHeld
<1>17. WithinCap(g)
  <2>1. h.cap \in Nat /\ \A n \in Node : h.used[n] \in Nat /\ Len(h.attempts[n]) \in Nat
    BY <1>1, <1>8 DEF Snapshot
  <2> QED BY <1>2, <1>5, <1>6, <1>12, <2>1 DEF Sound, Books, WithinCap
<1>18. LanesWellFormed(g)
  <2>1. \A x \in Executions : Running(g, x) = IF x = e THEN wave ELSE {}
    BY <1>2, <1>5, <1>6, <1>11 DEF Sound, Books, RunningActive, Running, InLane, InState
  <2>2. \A x \in Executions : Cardinality(Running(g, x)) = IF x = e THEN Cardinality(wave) ELSE 0
    BY <2>1, FS_EmptySet
  <2>3. {x \in Executions : Cardinality(Running(g, x)) > 0} \in SUBSET {e}
    BY <2>2
  <2>4. Cardinality({x \in Executions : Cardinality(Running(g, x)) > 0}) <= 1
    <3>1. IsFiniteSet({e}) /\ Cardinality({e}) = 1
      BY FS_Singleton
    <3> QED BY <2>3, <3>1, FS_Subset
  <2>5. Cardinality(Running(g, "primary")) <= 1
    BY <2>2 DEF Executions
  <2>6. \A x \in Workers : Cardinality(Running(g, x)) <= Lane[x]
    BY <2>2, BoundAssumption DEF Workers, Executions
  <2> QED BY <2>4, <2>5, <2>6 DEF LanesWellFormed
<1>19. Ended(g)
  BY <1>5 DEF Sound, Books, Ended, PauseWellFormed
<1>20. StartsBounded(g)
  BY <1>5, <1>7 DEF Sound, Books, StartsBounded, Workers
<1> QED BY <1>9, <1>14, <1>15, <1>16, <1>17, <1>18, <1>19, <1>20 DEF Sound, Books, g

(* Settling a running node keeps the books: its attempt ends with it.         *)
LEMMA SettledSound ==
    ASSUME NEW h, Sound(h), NEW n \in Node, h.active[n] # 0,
           NEW a \in Attempt, a.state # "running", a.worker # "out",
           NEW s \in NodeStates \ {"running", "ready", "integrated"},
           s = "done" => a.state = "accepted"
    PROVE  Sound(Settled(h, n, a, s)) /\ Settled(h, n, a, s).outcome = "none"
<1> DEFINE g == Settled(h, n, a, s)
           i == h.active[n]
<1>1. h \in Snapshot
  BY DEF Sound
<1>2. /\ i \in DOMAIN h.attempts[n] /\ h.attempts[n][i].state = "running"
      /\ i = Len(h.attempts[n]) /\ n \in h.plan.nodes /\ h.state[n] = "running"
      /\ h.outcome = "none"
  BY DEF Sound, Books, ActiveRuns, RunsOnce
<1>3. h.attempts[n] \in Seq(Attempt)
  BY <1>1 DEF Snapshot
<1>4. /\ [h.attempts[n] EXCEPT ![i] = a] \in Seq(Attempt)
      /\ Len([h.attempts[n] EXCEPT ![i] = a]) = Len(h.attempts[n])
      /\ DOMAIN [h.attempts[n] EXCEPT ![i] = a] = DOMAIN h.attempts[n]
      /\ \A k \in DOMAIN h.attempts[n] :
            [h.attempts[n] EXCEPT ![i] = a][k] = IF k = i THEN a ELSE h.attempts[n][k]
  BY <1>2, <1>3, SeqEdit
<1>5. /\ g.plan = h.plan /\ g.used = h.used /\ g.cap = h.cap
      /\ g.outcome = h.outcome /\ g.pause = h.pause /\ g.clock = h.clock
      /\ g.starts = h.starts /\ g.maxStarts = h.maxStarts
  BY <1>1 DEF Settled, Snapshot
<1>6. /\ g.attempts[n] = [h.attempts[n] EXCEPT ![i] = a]
      /\ g.active[n] = 0 /\ g.state[n] = s
      /\ g.accepted[n] = IF s = "done" THEN i ELSE h.accepted[n]
  BY <1>1 DEF Settled, Snapshot
<1>7. \A m \in Node : m # n =>
        /\ g.attempts[m] = h.attempts[m] /\ g.active[m] = h.active[m]
        /\ g.state[m] = h.state[m] /\ g.accepted[m] = h.accepted[m]
  BY <1>1 DEF Settled, Snapshot
<1>8. g \in Snapshot
  <2>1. [h.attempts EXCEPT ![n] = [h.attempts[n] EXCEPT ![i] = a]] \in [Node -> Seq(Attempt)]
    BY <1>1, <1>4 DEF Snapshot
  <2> QED BY <1>1, <2>1 DEF Snapshot, Settled
<1>9. h.plan.nodes \subseteq Node /\ i # 0
  BY <1>1, PlanNodes
<1> HIDE DEF g, i
<1>10. \A m \in Node :
        /\ DOMAIN g.attempts[m] = DOMAIN h.attempts[m]
        /\ Len(g.attempts[m]) = Len(h.attempts[m])
        /\ \A k \in DOMAIN h.attempts[m] :
            g.attempts[m][k] = IF m = n /\ k = i THEN a ELSE h.attempts[m][k]
  BY <1>4, <1>6, <1>7
<1>11. RunsOnce(g)
  BY <1>5, <1>6, <1>7, <1>10 DEF Sound, Books, RunsOnce, i
<1>12. ActiveRuns(g) /\ RunningActive(g)
  BY <1>5, <1>6, <1>7, <1>9, <1>10 DEF Sound, Books, ActiveRuns, RunningActive
<1>13. WorkersBelong(g)
  BY <1>5, <1>10 DEF Sound, Books, WorkersBelong
<1>14. ResultsHeld(g)
  <2>1. \A m \in Node : Held(g, m) = Held(h, m) /\ Held(h, m) \subseteq DOMAIN h.attempts[m]
    BY <1>5, <1>10 DEF Held
  <2>2. h.accepted[n] = 0
    BY <1>2 DEF Sound, Books, ResultsHeld
  <2>3. ASSUME NEW m \in h.plan.nodes, m # n
        PROVE  /\ (g.state[m] = "done") = (g.accepted[m] # 0)
               /\ g.accepted[m] # 0 =>
                   g.accepted[m] \in DOMAIN g.attempts[m]
                   /\ g.attempts[m][g.accepted[m]].state = "accepted"
               /\ g.state[m] = "integrated" =>
                   \E k \in Held(g, m) : g.attempts[m][k].state = "accepted"
    BY <1>7, <1>9, <2>1, <2>3 DEF Sound, Books, ResultsHeld
  <2>4. /\ (g.state[n] = "done") = (g.accepted[n] # 0)
        /\ g.accepted[n] # 0 =>
            g.accepted[n] \in DOMAIN g.attempts[n]
            /\ g.attempts[n][g.accepted[n]].state = "accepted"
        /\ g.state[n] # "integrated"
    BY <1>2, <1>6, <1>9, <1>10, <2>2
  <2> QED BY <1>5, <2>3, <2>4 DEF ResultsHeld
<1>15. WithinCap(g)
  BY <1>5, <1>6, <1>7, <1>9, <1>10 DEF Sound, Books, WithinCap
<1>16. LanesWellFormed(g)
  BY <1>1, <1>5, <1>6, <1>7, <1>9, LanesShrink DEF Sound, Books
<1>17. Ended(g) /\ StartsBounded(g)
  BY <1>2, <1>5 DEF Sound, Books, Ended, PauseWellFormed, StartsBounded
<1> QED BY <1>2, <1>5, <1>8, <1>11, <1>12, <1>13, <1>14, <1>15, <1>16, <1>17
        DEF Sound, Books, g

(* finishBlockedLocked                                                       *)
LEMMA BlockedBySound ==
    ASSUME NEW h, Sound(h), NEW n \in Node, h.active[n] # 0,
           NEW a \in Attempt, a.worker # "out"
    PROVE  Sound(BlockedBy(h, n, a))
<1>1. /\ [a EXCEPT !.state = "blocked"] \in Attempt
      /\ [a EXCEPT !.state = "blocked"].state = "blocked"
      /\ [a EXCEPT !.state = "blocked"].worker = a.worker
  BY DEF Attempt, AttemptStates
<1>2. "blocked" \in NodeStates \ {"running", "ready", "integrated"}
  BY DEF NodeStates
<1> QED BY <1>1, <1>2, SettledSound, ReducedSound DEF BlockedBy

(* A fresh mutation stales independent results, never a running node.         *)
LEMMA UnconsumedStaleSound ==
    ASSUME NEW h, Sound(h), h.outcome = "none", NEW n
    PROVE  Sound(UnconsumedStale(h, n))
<1> DEFINE unconsumed == {m \in InState(h, "done") \ (Upstream(h.plan, n) \cup {n}) :
                             ~h.attempts[m][h.accepted[m]].mutated}
           dependent == {m \in h.plan.nodes :
                             /\ Upstream(h.plan, m) \cap unconsumed # {}
                             /\ h.state[m] \in {"done", "ready", "proposed"}}
           hit == unconsumed \cup dependent
           g == UnconsumedStale(h, n)
<1>1. h \in Snapshot
  BY DEF Sound
<1>2. /\ hit \subseteq h.plan.nodes
      /\ \A m \in hit : h.state[m] \in {"done", "ready", "proposed"}
  BY DEF InState
<1> HIDE DEF unconsumed, dependent, hit
<1>3. g = [h EXCEPT !.state = [m \in Node |-> IF m \in hit THEN "stale" ELSE h.state[m]],
                    !.accepted = [m \in Node |-> IF m \in hit THEN 0 ELSE h.accepted[m]]]
  BY DEF UnconsumedStale, hit, dependent, unconsumed
<1> HIDE DEF g
<1>4. g \in Snapshot
  BY <1>1, <1>3 DEF Snapshot, NodeStates
<1>5. /\ g.plan = h.plan /\ g.active = h.active /\ g.attempts = h.attempts
      /\ g.used = h.used /\ g.cap = h.cap
      /\ g.outcome = "none" /\ g.pause = h.pause /\ g.clock = h.clock
      /\ g.starts = h.starts /\ g.maxStarts = h.maxStarts
  BY <1>1, <1>3 DEF Snapshot
<1>6. \A m \in Node :
        /\ g.state[m] = IF m \in hit THEN "stale" ELSE h.state[m]
        /\ g.accepted[m] = IF m \in hit THEN 0 ELSE h.accepted[m]
  BY <1>1, <1>3 DEF Snapshot
<1>7. h.plan.nodes \subseteq Node
  BY <1>1, PlanNodes
<1>8. RunsOnce(g) /\ ActiveRuns(g) /\ RunningActive(g)
  BY <1>2, <1>5, <1>6, <1>7 DEF Sound, Books, RunsOnce, ActiveRuns, RunningActive
<1>9. WorkersBelong(g)
  BY <1>5 DEF Sound, Books, WorkersBelong
<1>10. ResultsHeld(g)
  BY <1>5, <1>6, <1>7 DEF Sound, Books, ResultsHeld, Held
<1>11. WithinCap(g)
  BY <1>5, <1>6, <1>7 DEF Sound, Books, WithinCap
<1>12. LanesWellFormed(g)
  BY <1>1, <1>5, <1>6, <1>7, LanesShrink DEF Sound, Books
<1>13. Ended(g) /\ StartsBounded(g)
  BY <1>5 DEF Sound, Books, Ended, PauseWellFormed, StartsBounded
<1> QED BY <1>4, <1>8, <1>9, <1>10, <1>11, <1>12, <1>13 DEF Sound, Books, g

(* Ending every running attempt leaves a well-typed ledger of the same shape. *)
LEMMA RunningEndedLedger ==
    ASSUME NEW h \in Snapshot, NEW s \in AttemptStates \ {"running"}
    PROVE  LET l == RunningEnded(h, s)
           IN  /\ l \in [Node -> Seq(Attempt)]
               /\ \A n \in Node :
                    /\ DOMAIN l[n] = DOMAIN h.attempts[n]
                    /\ Len(l[n]) = Len(h.attempts[n])
                    /\ \A k \in DOMAIN h.attempts[n] :
                        /\ l[n][k].state # "running"
                        /\ l[n][k].worker = h.attempts[n][k].worker
                        /\ h.attempts[n][k].state # "running"
                            => l[n][k].state = h.attempts[n][k].state
<1> DEFINE l == RunningEnded(h, s)
<1>1. \A n \in Node : h.attempts[n] \in Seq(Attempt)
  BY DEF Snapshot
<1>2. \A n \in Node : l[n] = [k \in DOMAIN h.attempts[n] |->
        IF h.attempts[n][k].state = "running"
        THEN [h.attempts[n][k] EXCEPT !.state = s] ELSE h.attempts[n][k]]
  BY DEF RunningEnded
<1>3. l = [n \in Node |-> l[n]]
  BY DEF RunningEnded
<1> HIDE DEF l
<1>4. ASSUME NEW n \in Node
      PROVE  /\ l[n] = [k \in DOMAIN h.attempts[n] |-> l[n][k]]
             /\ \A k \in DOMAIN h.attempts[n] :
                /\ l[n][k] \in Attempt
                /\ l[n][k].state # "running"
                /\ l[n][k].worker = h.attempts[n][k].worker
                /\ h.attempts[n][k].state # "running"
                    => l[n][k].state = h.attempts[n][k].state
  <2>1. \A k \in DOMAIN h.attempts[n] : h.attempts[n][k] \in Attempt
    BY <1>1
  <2>2. s # "running"
    OBVIOUS
  <2>3. \A k \in DOMAIN h.attempts[n] :
            l[n][k] = IF h.attempts[n][k].state = "running"
                      THEN [h.attempts[n][k] EXCEPT !.state = s] ELSE h.attempts[n][k]
    BY <1>2
  <2>4. l[n] = [k \in DOMAIN h.attempts[n] |-> l[n][k]]
    BY <1>2
  <2>5. ASSUME NEW k \in DOMAIN h.attempts[n]
        PROVE  /\ l[n][k] \in Attempt
               /\ l[n][k].state # "running"
               /\ l[n][k].worker = h.attempts[n][k].worker
               /\ h.attempts[n][k].state # "running"
                    => l[n][k].state = h.attempts[n][k].state
    <3>1. CASE h.attempts[n][k].state = "running"
      <4> DEFINE a == h.attempts[n][k]
      <4>1. a \in Attempt /\ a.state = "running" /\ l[n][k] = [a EXCEPT !.state = s]
        BY <2>1, <2>3, <3>1
      <4> HIDE DEF a
      <4>2. /\ l[n][k] \in Attempt /\ l[n][k].state = s
            /\ l[n][k].worker = a.worker
        BY <4>1 DEF Attempt
      <4> QED BY <2>2, <4>1, <4>2 DEF a
    <3>2. CASE h.attempts[n][k].state # "running"
      BY <2>1, <2>3, <3>2
    <3> QED BY <3>1, <3>2
  <2> QED BY <2>4, <2>5
<1>5. ASSUME NEW n \in Node
      PROVE  /\ l[n] \in Seq(Attempt) /\ Len(l[n]) = Len(h.attempts[n])
             /\ DOMAIN l[n] = DOMAIN h.attempts[n]
  BY <1>1, <1>4, SeqMap
<1>6. l \in [Node -> Seq(Attempt)]
  BY <1>3, <1>5
<1> QED BY <1>4, <1>5, <1>6 DEF l

(* A graph with no active node runs no attempt.                              *)
LEMMA IdleRunsNothing ==
    ASSUME NEW h, Sound(h)
    PROVE  /\ \A n \in h.plan.nodes : h.state[n] = "running" => h.active[n] # 0
           /\ \A n \in Node : h.active[n] # 0 => n \in h.plan.nodes /\ h.state[n] = "running"
           /\ h.outcome # "none" => \A n \in Node : h.active[n] = 0
           /\ ~HasRunningAttempt(h) => \A n \in Node : h.active[n] = 0
  BY DEF Sound, Books, RunningActive, ActiveRuns, RunsOnce, HasRunningAttempt

(* What stopping everything keeps: results held in nodes it does not move.    *)
(* g ends every running attempt of h, moves no done node and adds no ready or *)
(* integrated ones.                                                          *)
StopOf(g, h) ==
    /\ g.plan = h.plan /\ g.used = h.used /\ g.cap = h.cap
    /\ g.accepted = h.accepted /\ g.starts = h.starts /\ g.maxStarts = h.maxStarts
    /\ \A n \in Node :
        /\ g.active[n] = 0
        /\ DOMAIN g.attempts[n] = DOMAIN h.attempts[n]
        /\ Len(g.attempts[n]) = Len(h.attempts[n])
        /\ \A k \in DOMAIN h.attempts[n] :
            /\ g.attempts[n][k].state # "running"
            /\ g.attempts[n][k].worker = h.attempts[n][k].worker
            /\ h.attempts[n][k].state # "running"
                => g.attempts[n][k].state = h.attempts[n][k].state
    /\ \A n \in h.plan.nodes :
        /\ g.state[n] # "running"
        /\ (g.state[n] = "done") = (h.state[n] = "done")
        /\ g.state[n] \in {"ready", "integrated"} => g.state[n] = h.state[n]
    /\ g.outcome = "none" => NobodyOut(h)
    /\ g.outcome # "done"
    /\ PauseWellFormed(g)

(* Stopping everything at once keeps the books (exhaustion and cancellation). *)
LEMMA StopSound ==
    ASSUME NEW h, Sound(h), NEW g \in Snapshot, StopOf(g, h)
    PROVE  Sound(g)
<1>1. h.plan.nodes \subseteq Node
  BY PlanNodes DEF Sound
<1>2. RunsOnce(g) /\ ActiveRuns(g) /\ RunningActive(g)
  BY DEF StopOf, RunsOnce, ActiveRuns, RunningActive
<1>3. WorkersBelong(g)
  BY DEF Sound, Books, StopOf, WorkersBelong, NobodyOut
<1>4. ResultsHeld(g)
  <2>1. \A n \in Node : Held(g, n) = Held(h, n) /\ Held(h, n) \subseteq DOMAIN h.attempts[n]
    BY DEF StopOf, Held
  <2>2. ASSUME NEW n \in h.plan.nodes
        PROVE  /\ (g.state[n] = "done") = (g.accepted[n] # 0)
               /\ g.accepted[n] # 0 =>
                   g.accepted[n] \in DOMAIN g.attempts[n]
                   /\ g.attempts[n][g.accepted[n]].state = "accepted"
    BY <1>1 DEF Sound, Books, StopOf, ResultsHeld
  <2>3. ASSUME NEW n \in h.plan.nodes, g.state[n] = "integrated"
        PROVE  \E k \in Held(g, n) : g.attempts[n][k].state = "accepted"
    <3>1. PICK k \in Held(h, n) : h.attempts[n][k].state = "accepted"
      BY <2>3 DEF Sound, Books, StopOf, ResultsHeld
    <3>2. g.attempts[n][k].state = "accepted"
      BY <1>1, <2>1, <3>1 DEF StopOf
    <3> QED BY <1>1, <2>1, <3>1, <3>2
  <2> QED BY <2>2, <2>3 DEF StopOf, ResultsHeld
<1>5. WithinCap(g)
  BY <1>1 DEF Sound, Books, StopOf, WithinCap
<1>6. LanesWellFormed(g)
  BY NoLanes DEF StopOf
<1>7. Ended(g) /\ StartsBounded(g)
  BY DEF Sound, Books, StopOf, Ended, StartsBounded
<1> QED BY <1>2, <1>3, <1>4, <1>5, <1>6, <1>7 DEF Sound, Books

(* Exhausting the envelope keeps the books, whatever was running.             *)
LEMMA ExhaustedSound ==
    ASSUME NEW h, Sound(h)
    PROVE  Sound(Exhausted(h)) /\ Exhausted(h).outcome = "budget_exhausted"
<1> DEFINE hit == h.plan.nodes \ Kept(h)
           l == RunningEnded(h, "budget_exhausted")
           g == Exhausted(h)
<1>1. h \in Snapshot
  BY DEF Sound
<1>2. "budget_exhausted" \in AttemptStates \ {"running"}
  BY DEF AttemptStates
<1>3. /\ l \in [Node -> Seq(Attempt)]
      /\ \A n \in Node :
          /\ DOMAIN l[n] = DOMAIN h.attempts[n]
          /\ Len(l[n]) = Len(h.attempts[n])
          /\ \A k \in DOMAIN h.attempts[n] :
              /\ l[n][k].state # "running"
              /\ l[n][k].worker = h.attempts[n][k].worker
              /\ h.attempts[n][k].state # "running"
                  => l[n][k].state = h.attempts[n][k].state
  BY <1>1, <1>2, RunningEndedLedger
<1> HIDE DEF l
<1>4. /\ g.plan = h.plan /\ g.used = h.used /\ g.cap = h.cap
      /\ g.accepted = h.accepted /\ g.starts = h.starts /\ g.maxStarts = h.maxStarts
      /\ g.attempts = l /\ g.outcome = "budget_exhausted"
      /\ g.clock = FALSE /\ g.pause = "off"
  BY <1>1 DEF Exhausted, Terminated, Snapshot, l
<1>5. \A n \in Node :
        /\ g.state[n] = IF n \in hit THEN "budget_exhausted" ELSE h.state[n]
        /\ g.active[n] = IF n \in hit THEN 0 ELSE h.active[n]
  BY <1>1 DEF Exhausted, Terminated, Snapshot
<1>6. g \in Snapshot
  BY <1>1, <1>3 DEF Exhausted, Terminated, Snapshot, NodeStates, Outcomes, l
<1>7. h.plan.nodes \subseteq Node
  BY <1>1, PlanNodes
<1> HIDE DEF g
<1>8. \A n \in h.plan.nodes \ hit : h.state[n] \in {"done", "awaiting_review"}
  BY DEF Kept, InState
<1>9. \A n \in Node : g.active[n] = 0
  BY <1>5, <1>7, <1>8, IdleRunsNothing
<1>10. \A n \in h.plan.nodes :
        /\ g.state[n] # "running"
        /\ (g.state[n] = "done") = (h.state[n] = "done")
        /\ g.state[n] \in {"ready", "integrated"} => g.state[n] = h.state[n]
  <2>1. \A n \in hit : h.state[n] # "done"
    BY DEF Kept, InState
  <2> QED BY <1>5, <1>7, <1>8, <2>1
<1>11. StopOf(g, h)
  BY <1>3, <1>4, <1>9, <1>10 DEF StopOf, PauseWellFormed
<1> QED BY <1>4, <1>6, <1>11, StopSound DEF g

(* enforceAggregateBudgetLocked                                              *)
LEMMA EnforcedSound ==
    ASSUME NEW h, Sound(h), NEW b PROVE Sound(Enforced(h, b))
  BY ExhaustedSound DEF Enforced

(* Moving the pause or the clock of a graph that goes on keeps the books.     *)
LEMMA PacedSound ==
    ASSUME NEW h, Sound(h), h.outcome = "none",
           NEW p \in {"off", "requested", "reached"}, NEW c \in BOOLEAN,
           p = "reached" => c = FALSE
    PROVE  Sound([h EXCEPT !.pause = p, !.clock = c])
<1> DEFINE g == [h EXCEPT !.pause = p, !.clock = c]
<1>1. h \in Snapshot
  BY DEF Sound
<1>2. g \in Snapshot
  BY <1>1 DEF Snapshot
<1>3. /\ g.plan = h.plan /\ g.active = h.active /\ g.accepted = h.accepted
      /\ g.used = h.used /\ g.cap = h.cap /\ g.attempts = h.attempts
      /\ g.outcome = "none" /\ g.pause = p /\ g.clock = c
      /\ g.starts = h.starts /\ g.maxStarts = h.maxStarts /\ g.state = h.state
  BY <1>1 DEF Snapshot
<1> HIDE DEF g
<1>4. RunsOnce(g) /\ ActiveRuns(g) /\ RunningActive(g)
  BY <1>3 DEF Sound, Books, RunsOnce, ActiveRuns, RunningActive
<1>5. WorkersBelong(g)
  BY <1>3 DEF Sound, Books, WorkersBelong
<1>6. ResultsHeld(g) /\ WithinCap(g)
  BY <1>3 DEF Sound, Books, ResultsHeld, Held, WithinCap
<1>7. LanesWellFormed(g)
  BY <1>1, <1>3, LanesShrink DEF Sound, Books
<1>8. Ended(g) /\ StartsBounded(g)
  BY <1>3 DEF Sound, Books, Ended, PauseWellFormed, StartsBounded
<1> QED BY <1>2, <1>4, <1>5, <1>6, <1>7, <1>8 DEF Sound, Books, g

(* Resuming or activating a graph that goes on keeps the books.               *)
LEMMA ResumedSound ==
    ASSUME NEW h, Sound(h), h.outcome = "none"
    PROVE  /\ Sound(Resumed(h))
           /\ h.pause # "reached" => Sound(Activated(h))
<1>1. h \in Snapshot
  BY DEF Sound
<1>2. Sound([h EXCEPT !.pause = "off", !.clock = TRUE])
  BY PacedSound
<1>3. Sound(Resumed(h))
  BY <1>2, EnforcedSound DEF Resumed
<1>4. ASSUME h.pause # "reached" PROVE Sound(Activated(h))
  <2>1. h.pause \in {"off", "requested", "reached"}
    BY <1>1 DEF Snapshot
  <2>2. [h EXCEPT !.clock = TRUE] = [h EXCEPT !.pause = h.pause, !.clock = TRUE]
    BY <1>1 DEF Snapshot
  <2>3. Sound([h EXCEPT !.pause = h.pause, !.clock = TRUE])
    BY <1>4, <2>1, PacedSound
  <2> QED BY <2>2, <2>3, EnforcedSound DEF Activated
<1> QED BY <1>3, <1>4

(* Moving one idle node of a graph that goes on keeps the books.              *)
LEMMA MovedSound ==
    ASSUME NEW h, Sound(h), h.outcome = "none", NEW n \in h.plan.nodes,
           h.state[n] \notin {"running", "done"},
           NEW s \in NodeStates \ {"running", "done", "ready", "integrated"}
    PROVE  Sound([h EXCEPT !.state[n] = s])
<1> DEFINE g == [h EXCEPT !.state[n] = s]
<1>1. h \in Snapshot
  BY DEF Sound
<1>2. h.plan.nodes \subseteq Node
  BY <1>1, PlanNodes
<1>3. /\ g.plan = h.plan /\ g.active = h.active /\ g.accepted = h.accepted
      /\ g.used = h.used /\ g.cap = h.cap /\ g.attempts = h.attempts
      /\ g.outcome = "none" /\ g.pause = h.pause /\ g.clock = h.clock
      /\ g.starts = h.starts /\ g.maxStarts = h.maxStarts
      /\ \A m \in Node : g.state[m] = IF m = n THEN s ELSE h.state[m]
  BY <1>1, <1>2 DEF Snapshot
<1>4. g \in Snapshot
  BY <1>1 DEF Snapshot
<1> HIDE DEF g
<1>5. RunsOnce(g) /\ ActiveRuns(g) /\ RunningActive(g)
  BY <1>2, <1>3 DEF Sound, Books, RunsOnce, ActiveRuns, RunningActive
<1>6. WorkersBelong(g)
  BY <1>3 DEF Sound, Books, WorkersBelong
<1>7. ResultsHeld(g)
  BY <1>2, <1>3 DEF Sound, Books, ResultsHeld, Held
<1>8. WithinCap(g)
  BY <1>2, <1>3 DEF Sound, Books, WithinCap
<1>9. LanesWellFormed(g)
  BY <1>1, <1>2, <1>3, LanesShrink DEF Sound, Books
<1>10. Ended(g) /\ StartsBounded(g)
  BY <1>3 DEF Sound, Books, Ended, PauseWellFormed, StartsBounded
<1> QED BY <1>4, <1>5, <1>6, <1>7, <1>8, <1>9, <1>10 DEF Sound, Books, g

(* Reopening an ended graph at a boundary keeps the books.                    *)
LEMMA ReopenedSound ==
    ASSUME NEW h, Sound(h), h.outcome # "none", NobodyOut(h)
    PROVE  Sound(Reopened(h)) /\ Reopened(h).outcome = "none"
           /\ Reopened(h).state = h.state /\ Reopened(h).plan = h.plan
<1> DEFINE g == Reopened(h)
<1>1. h \in Snapshot
  BY DEF Sound
<1>2. /\ g.plan = h.plan /\ g.active = h.active /\ g.accepted = h.accepted
      /\ g.used = h.used /\ g.cap = h.cap /\ g.attempts = h.attempts
      /\ g.outcome = "none" /\ g.pause = h.pause /\ g.clock = TRUE
      /\ g.starts = h.starts /\ g.maxStarts = h.maxStarts /\ g.state = h.state
  BY <1>1 DEF Reopened, Snapshot
<1>3. g \in Snapshot
  BY <1>1 DEF Reopened, Snapshot, Outcomes
<1> HIDE DEF g
<1>4. RunsOnce(g) /\ ActiveRuns(g) /\ RunningActive(g)
  BY <1>2 DEF Sound, Books, RunsOnce, ActiveRuns, RunningActive
<1>5. WorkersBelong(g)
  BY <1>2 DEF Sound, Books, WorkersBelong, NobodyOut
<1>6. ResultsHeld(g) /\ WithinCap(g)
  BY <1>2 DEF Sound, Books, ResultsHeld, Held, WithinCap
<1>7. LanesWellFormed(g)
  BY <1>1, <1>2, LanesShrink DEF Sound, Books
<1>8. Ended(g) /\ StartsBounded(g)
  BY <1>2 DEF Sound, Books, Ended, PauseWellFormed, StartsBounded
<1> QED BY <1>2, <1>3, <1>4, <1>5, <1>6, <1>7, <1>8 DEF Sound, Books, g

(* A second envelope keeps the books: it only raises limits.                  *)
LEMMA ExtendedSound ==
    ASSUME NEW h, Sound(h), h.outcome = "budget_exhausted", NobodyOut(h)
    PROVE  Sound(Extended(h)) /\ Extended(h).pause = "off"
<1> DEFINE g == [h EXCEPT
        !.extensions = @ + 1,
        !.limit = @ + Envelope,
        !.cap = @ + Attempts,
        !.maxStarts = [e \in Workers |-> @[e] + Starts[e]],
        !.state = [n \in Node |->
            IF n \in InState(h, "budget_exhausted") THEN "proposed" ELSE @[n]],
        !.outcome = "none"]
<1>1. h \in Snapshot
  BY DEF Sound
<1>2. h.plan.nodes \subseteq Node
  BY <1>1, PlanNodes
<1>3. /\ g.plan = h.plan /\ g.active = h.active /\ g.accepted = h.accepted
      /\ g.used = h.used /\ g.cap = h.cap + Attempts /\ g.attempts = h.attempts
      /\ g.outcome = "none" /\ g.pause = h.pause /\ g.clock = h.clock
      /\ g.starts = h.starts
      /\ \A e \in Workers : g.maxStarts[e] = h.maxStarts[e] + Starts[e]
      /\ \A n \in Node : g.state[n] =
            IF n \in InState(h, "budget_exhausted") THEN "proposed" ELSE h.state[n]
  BY <1>1 DEF Snapshot
<1>4. g \in Snapshot
  <2>1. [e \in Workers |-> h.maxStarts[e] + Starts[e]] \in [Workers -> Nat]
    BY <1>1, BoundAssumption DEF Snapshot
  <2>2. [n \in Node |->
            IF n \in InState(h, "budget_exhausted") THEN "proposed" ELSE h.state[n]]
          \in [Node -> NodeStates]
    BY <1>1 DEF Snapshot, NodeStates
  <2>3. /\ h.extensions + 1 \in Nat /\ h.limit + Envelope \in Nat
        /\ h.cap + Attempts \in Nat /\ "none" \in Outcomes
    BY <1>1, BoundAssumption DEF Snapshot, Outcomes
  <2> QED BY <1>1, <2>1, <2>2, <2>3 DEF Snapshot
<1>5. Extended(h) = Reduced(Refreshed(g))
  BY DEF Extended
<1> HIDE DEF g
<1>6. RunsOnce(g) /\ ActiveRuns(g) /\ RunningActive(g)
  BY <1>2, <1>3 DEF Sound, Books, RunsOnce, ActiveRuns, RunningActive, InState
<1>7. WorkersBelong(g)
  BY <1>3 DEF Sound, Books, WorkersBelong, NobodyOut
<1>8. ResultsHeld(g)
  BY <1>2, <1>3 DEF Sound, Books, ResultsHeld, InState, Held
<1>9. WithinCap(g)
  <2>1. h.cap \in Nat /\ h.cap < h.cap + Attempts /\ \A n \in Node : h.used[n] \in Nat
    BY <1>1, BoundAssumption DEF Snapshot
  <2>2. Attempts \in Nat
    BY BoundAssumption
  <2> QED BY <1>2, <1>3, <2>1, <2>2 DEF Sound, Books, WithinCap
<1>10. LanesWellFormed(g)
  BY <1>1, <1>2, <1>3, LanesShrink DEF Sound, Books
<1>11. Ended(g)
  BY <1>3 DEF Sound, Books, Ended, PauseWellFormed
<1>12. StartsBounded(g)
  <2>1. \A e \in Workers : h.starts[e] \in Nat /\ h.maxStarts[e] \in Nat /\ Starts[e] \in Nat
    BY <1>1, BoundAssumption DEF Snapshot
  <2> QED BY <1>3, <2>1 DEF Sound, Books, StartsBounded
<1>13. Sound(g)
  BY <1>4, <1>6, <1>7, <1>8, <1>9, <1>10, <1>11, <1>12 DEF Sound, Books
<1>14. Sound(Reduced(Refreshed(g)))
  BY <1>13, RefreshedSound, ReducedSound
<1>15. Refreshed(g).pause = "off"
  <2>1. h.pause = "off"
    BY DEF Sound, Books, Ended, PauseWellFormed
  <2> QED BY <1>3, <1>4, <2>1 DEF Refreshed, Snapshot
<1>16. Refreshed(g) \in Snapshot
  BY <1>13, RefreshedSound DEF Sound
<1>17. Reduced(Refreshed(g)).pause = "off"
  <2> DEFINE r == Refreshed(g)
  <2>1. r \in Snapshot /\ r.pause = "off"
    BY <1>15, <1>16
  <2> HIDE DEF r
  <2>2. \A o : Terminated(r, o).pause = "off"
    BY <2>1 DEF Terminated, Snapshot
  <2>3. Reduced(r).pause = "off"
    BY <2>1, <2>2 DEF Reduced
  <2> QED BY <2>3 DEF r
<1> QED BY <1>5, <1>14, <1>17

(* The user's cancellation keeps the books, whatever was running.             *)
LEMMA CancelledSound ==
    ASSUME NEW h, Sound(h)
    PROVE  Sound(Terminated(
              [h EXCEPT
                  !.attempts = RunningEnded(h, "cancelled"),
                  !.state = [n \in Node |->
                      IF h.active[n] # 0 THEN "cancelled" ELSE @[n]],
                  !.active = [n \in Node |-> 0]], "cancelled"))
<1> DEFINE l == RunningEnded(h, "cancelled")
           g == Terminated(
              [h EXCEPT
                  !.attempts = RunningEnded(h, "cancelled"),
                  !.state = [n \in Node |->
                      IF h.active[n] # 0 THEN "cancelled" ELSE @[n]],
                  !.active = [n \in Node |-> 0]], "cancelled")
<1>1. h \in Snapshot
  BY DEF Sound
<1>2. "cancelled" \in AttemptStates \ {"running"}
  BY DEF AttemptStates
<1>3. /\ l \in [Node -> Seq(Attempt)]
      /\ \A n \in Node :
          /\ DOMAIN l[n] = DOMAIN h.attempts[n]
          /\ Len(l[n]) = Len(h.attempts[n])
          /\ \A k \in DOMAIN h.attempts[n] :
              /\ l[n][k].state # "running"
              /\ l[n][k].worker = h.attempts[n][k].worker
              /\ h.attempts[n][k].state # "running"
                  => l[n][k].state = h.attempts[n][k].state
  BY <1>1, <1>2, RunningEndedLedger
<1> HIDE DEF l
<1>4. /\ g.plan = h.plan /\ g.used = h.used /\ g.cap = h.cap
      /\ g.accepted = h.accepted /\ g.starts = h.starts /\ g.maxStarts = h.maxStarts
      /\ g.attempts = l /\ g.outcome = "cancelled"
      /\ g.clock = FALSE /\ g.pause = "off"
  BY <1>1 DEF Terminated, Snapshot, l
<1>5. \A n \in Node :
        /\ g.state[n] = IF h.active[n] # 0 THEN "cancelled" ELSE h.state[n]
        /\ g.active[n] = 0
  BY <1>1 DEF Terminated, Snapshot
<1>6. g \in Snapshot
  BY <1>1, <1>3 DEF Terminated, Snapshot, NodeStates, Outcomes, l
<1>7. h.plan.nodes \subseteq Node
  BY <1>1, PlanNodes
<1> HIDE DEF g
<1>8. \A n \in h.plan.nodes :
        /\ g.state[n] # "running"
        /\ (g.state[n] = "done") = (h.state[n] = "done")
        /\ g.state[n] \in {"ready", "integrated"} => g.state[n] = h.state[n]
  BY <1>5, <1>7, IdleRunsNothing
<1>9. StopOf(g, h)
  BY <1>3, <1>4, <1>5, <1>8 DEF StopOf, PauseWellFormed
<1>10. Sound(g)
  BY <1>6, <1>9, StopSound
<1> QED BY <1>10 DEF g

(* Recovery keeps the books: no attempt of the stopped process still runs.    *)
LEMMA RecoveredSound ==
    ASSUME NEW h, Sound(h), NobodyOut(h), NEW token \in Observation
    PROVE  Sound(Recovered(h, token))
<1> DEFINE lost == {n \in Node : h.active[n] # 0}
           doubtful == {n \in lost : MayHaveActed(h, n)}
           ended(n) == [Last(h, n) EXCEPT
               !.state = "interrupted",
               !.failures = IF n \in doubtful THEN @ \cup {"interrupted"} ELSE @]
           l == [n \in Node |->
                   IF n \in lost THEN [h.attempts[n] EXCEPT ![h.active[n]] = ended(n)]
                   ELSE h.attempts[n]]
           st == [n \in Node |->
                   IF n \in doubtful THEN "blocked"
                   ELSE IF n \notin lost THEN h.state[n]
                   ELSE IF h.used[n] < h.cap THEN "retryable" ELSE "budget_exhausted"]
           r == [h EXCEPT !.attempts = l, !.state = st, !.active = [n \in Node |-> 0]]
<1>1. h \in Snapshot
  BY DEF Sound
<1>2. h.plan.nodes \subseteq Node
  BY <1>1, PlanNodes
<1>3. ASSUME NEW n \in lost
      PROVE  /\ h.active[n] \in DOMAIN h.attempts[n]
             /\ h.active[n] = Len(h.attempts[n])
             /\ h.attempts[n][h.active[n]].state = "running"
             /\ h.state[n] = "running"
             /\ h.attempts[n] \in Seq(Attempt)
             /\ Last(h, n) = h.attempts[n][h.active[n]] /\ Last(h, n) \in Attempt
  BY <1>1 DEF Sound, Books, ActiveRuns, RunsOnce, Last, Snapshot
<1>4. ASSUME NEW n \in lost
      PROVE  /\ ended(n) \in Attempt /\ ended(n).state = "interrupted"
             /\ ended(n).worker = h.attempts[n][h.active[n]].worker
  <2>1. Last(h, n) \in Attempt /\ Last(h, n) = h.attempts[n][h.active[n]]
    BY <1>3
  <2>2. "interrupted" \in Failures /\ "interrupted" \in AttemptStates
    BY DEF Failures, Hard, AttemptStates
  <2> DEFINE a == Last(h, n)
  <2> HIDE DEF a
  <2>3. a \in Attempt
    BY <2>1 DEF a
  <2>4. \A F \in SUBSET Failures :
            /\ [a EXCEPT !.state = "interrupted", !.failures = F] \in Attempt
            /\ [a EXCEPT !.state = "interrupted", !.failures = F].state = "interrupted"
            /\ [a EXCEPT !.state = "interrupted", !.failures = F].worker = a.worker
    BY <2>2, <2>3 DEF Attempt
  <2>5. a.failures \in SUBSET Failures /\ a.failures \cup {"interrupted"} \in SUBSET Failures
    BY <2>2, <2>3 DEF Attempt
  <2>6. ended(n) = [a EXCEPT !.state = "interrupted",
            !.failures = IF n \in doubtful THEN a.failures \cup {"interrupted"} ELSE a.failures]
    BY DEF a
  <2> HIDE DEF doubtful, ended
  <2>7. /\ ended(n) \in Attempt /\ ended(n).state = "interrupted" /\ ended(n).worker = a.worker
    BY <2>4, <2>5, <2>6
  <2> QED BY <2>1, <2>7 DEF a
<1> HIDE DEF ended
<1>5. ASSUME NEW n \in Node
      PROVE  /\ l[n] \in Seq(Attempt)
             /\ DOMAIN l[n] = DOMAIN h.attempts[n] /\ Len(l[n]) = Len(h.attempts[n])
             /\ \A k \in DOMAIN h.attempts[n] :
                /\ l[n][k].state # "running"
                /\ l[n][k].worker = h.attempts[n][k].worker
                /\ h.attempts[n][k].state # "running"
                    => l[n][k].state = h.attempts[n][k].state
  <2>1. CASE n \in lost
    <3>1. l[n] = [h.attempts[n] EXCEPT ![h.active[n]] = ended(n)]
      BY <2>1
    <3>2. /\ l[n] \in Seq(Attempt) /\ Len(l[n]) = Len(h.attempts[n])
          /\ DOMAIN l[n] = DOMAIN h.attempts[n]
          /\ \A k \in DOMAIN h.attempts[n] :
                l[n][k] = IF k = h.active[n] THEN ended(n) ELSE h.attempts[n][k]
      BY <2>1, <1>3, <1>4, <3>1, SeqEdit
    <3>3. \A k \in DOMAIN h.attempts[n] : h.attempts[n][k].state = "running" => k = h.active[n]
      BY DEF Sound, Books, RunsOnce
    <3> QED BY <1>3, <1>4, <2>1, <3>2, <3>3
  <2>2. CASE n \notin lost
    <3>1. l[n] = h.attempts[n] /\ h.attempts[n] \in Seq(Attempt)
      BY <1>1, <2>2 DEF Snapshot
    <3>2. \A k \in DOMAIN h.attempts[n] : h.attempts[n][k].state # "running"
      <4>1. h.attempts[n] \in Seq(Attempt)
        BY <3>1
      <4> QED BY <2>2, <4>1 DEF Sound, Books, RunsOnce
    <3> QED BY <3>1, <3>2
  <2> QED BY <2>1, <2>2
<1>6. l \in [Node -> Seq(Attempt)]
  BY <1>5
<1>7. \A n \in h.plan.nodes :
        /\ st[n] # "running"
        /\ (st[n] = "done") = (h.state[n] = "done")
        /\ st[n] \in {"ready", "integrated"} => st[n] = h.state[n]
  BY <1>2, <1>3, IdleRunsNothing
<1>8. st \in [Node -> NodeStates]
  BY <1>1 DEF Snapshot, NodeStates
<1> HIDE DEF l, st, lost, doubtful
<1>9. r \in Snapshot
  BY <1>1, <1>6, <1>8 DEF Snapshot
<1>10. /\ r.plan = h.plan /\ r.used = h.used /\ r.cap = h.cap
       /\ r.accepted = h.accepted /\ r.starts = h.starts /\ r.maxStarts = h.maxStarts
       /\ r.attempts = l /\ r.state = st /\ r.outcome = h.outcome
       /\ r.clock = h.clock /\ r.pause = h.pause
       /\ \A n \in Node : r.active[n] = 0
  BY <1>1 DEF Snapshot
<1>11. Recovered(h, token) = IF NothingLost(h, token) THEN h
            ELSE Reduced(Refreshed(IF Differs(h, token) THEN AllDoneStale(r) ELSE r))
  BY DEF Recovered, r, l, st, ended, doubtful, lost
<1> HIDE DEF r
<1>12. CASE ~NothingLost(h, token)
  <2>1. h.outcome = "none"
    BY <1>12 DEF NothingLost
  <2>2. StopOf(r, h)
    BY <1>5, <1>7, <1>10, <2>1 DEF StopOf, PauseWellFormed, Sound, Books, Ended
  <2>3. Sound(r) /\ r.outcome = "none"
    BY <1>9, <1>10, <2>1, <2>2, StopSound
  <2>4. Sound(IF Differs(h, token) THEN AllDoneStale(r) ELSE r)
    BY <2>3, AllDoneStaleSound
  <2>5. Sound(Refreshed(IF Differs(h, token) THEN AllDoneStale(r) ELSE r))
    BY <2>4, RefreshedSound
  <2>6. Sound(Reduced(Refreshed(IF Differs(h, token) THEN AllDoneStale(r) ELSE r)))
    BY <2>5, ReducedSound
  <2> QED BY <1>11, <1>12, <2>6
<1>13. CASE NothingLost(h, token)
  BY <1>11, <1>13
<1> QED BY <1>12, <1>13

(* A revision keeps the books: nothing runs on, and what stays done keeps the *)
(* attempt that did it.                                                      *)
LEMMA RevisedSound ==
    ASSUME Sound(graph), graph.outcome = "none", NobodyOut(graph), NEW p \in Plan
    PROVE  Sound(Revised(p))
<1> DEFINE old == graph.plan.nodes
           kept == {n \in p.nodes : SameDefinition(graph.plan, p, n)
                                    /\ graph.state[n] = "done"}
           fresh == {n \in kept : Upstream(p, n) \subseteq kept}
           l == RunningEnded(graph, "failed")
           st == [n \in Node |-> IF n \notin p.nodes THEN "absent"
                                 ELSE IF n \in fresh THEN "done"
                                 ELSE IF n \in kept THEN "stale" ELSE "proposed"]
           acc == [n \in Node |-> IF n \in fresh THEN graph.accepted[n] ELSE 0]
           us == [n \in Node |-> IF n \in p.nodes \cap old THEN graph.used[n] ELSE 0]
           g == [graph EXCEPT
               !.plan = p, !.generation = @ + 1, !.attempts = l, !.state = st,
               !.active = [n \in Node |-> 0], !.accepted = acc, !.used = us,
               !.retired = @ \cup {n \in old \ p.nodes : graph.state[n] # "done"}]
<1>1. graph \in Snapshot /\ Books(graph)
  BY DEF Sound
<1>2. old \subseteq Node /\ p.nodes \subseteq Node
  BY <1>1, PlanNodes, PlanAssumption
<1>3. \A n \in fresh : n \in old /\ n \in p.nodes /\ graph.state[n] = "done"
  BY DEF SameDefinition
<1>4. Revised(p) = Refreshed(g)
  BY DEF Revised
<1>5. "failed" \in AttemptStates \ {"running"}
  BY DEF AttemptStates
<1>6. /\ l \in [Node -> Seq(Attempt)]
      /\ \A n \in Node :
          /\ DOMAIN l[n] = DOMAIN graph.attempts[n]
          /\ Len(l[n]) = Len(graph.attempts[n])
          /\ \A k \in DOMAIN graph.attempts[n] :
              /\ l[n][k].state # "running"
              /\ l[n][k].worker = graph.attempts[n][k].worker
              /\ graph.attempts[n][k].state # "running"
                  => l[n][k].state = graph.attempts[n][k].state
  BY <1>1, <1>5, RunningEndedLedger
<1> HIDE DEF l, fresh, kept
<1>7. /\ st \in [Node -> NodeStates] /\ acc \in [Node -> Nat] /\ us \in [Node -> Nat]
      /\ \A n \in p.nodes : (st[n] = "done") = (n \in fresh)
                            /\ st[n] \in {"done", "stale", "proposed"}
      /\ \A n \in Node : acc[n] = IF n \in fresh THEN graph.accepted[n] ELSE 0
      /\ \A n \in Node : us[n] = IF n \in p.nodes \cap old THEN graph.used[n] ELSE 0
  BY <1>1, <1>2 DEF Snapshot, NodeStates
<1> HIDE DEF st, acc, us
<1>8. /\ g.plan = p /\ g.cap = graph.cap /\ g.outcome = "none"
      /\ g.pause = graph.pause /\ g.clock = graph.clock
      /\ g.starts = graph.starts /\ g.maxStarts = graph.maxStarts
      /\ g.attempts = l /\ g.state = st /\ g.accepted = acc /\ g.used = us
      /\ \A n \in Node : g.active[n] = 0
  BY <1>1 DEF Snapshot
<1>9. g \in Snapshot
  <2>1. graph.generation + 1 \in Nat
    BY <1>1 DEF Snapshot
  <2>2. graph.retired \cup {n \in old \ p.nodes : graph.state[n] # "done"} \in SUBSET Node
    BY <1>1, <1>2 DEF Snapshot
  <2>3. [n \in Node |-> 0] \in [Node -> Nat]
    OBVIOUS
  <2> QED BY <1>1, <1>6, <1>7, <2>1, <2>2, <2>3 DEF Snapshot
<1> HIDE DEF g
<1>10. RunsOnce(g) /\ ActiveRuns(g) /\ RunningActive(g)
  BY <1>2, <1>6, <1>7, <1>8 DEF RunsOnce, ActiveRuns, RunningActive
<1>11. WorkersBelong(g)
  BY <1>6, <1>8 DEF WorkersBelong, NobodyOut
<1>12. ResultsHeld(g)
  <2>1. ASSUME NEW n \in p.nodes
        PROVE  /\ (g.state[n] = "done") = (g.accepted[n] # 0)
               /\ g.accepted[n] # 0 =>
                   g.accepted[n] \in DOMAIN g.attempts[n]
                   /\ g.attempts[n][g.accepted[n]].state = "accepted"
               /\ g.state[n] # "integrated"
    <3>1. CASE n \in fresh
      <4>1. /\ graph.accepted[n] # 0 /\ graph.accepted[n] \in DOMAIN graph.attempts[n]
            /\ graph.attempts[n][graph.accepted[n]].state = "accepted"
        BY <1>1, <1>3, <3>1 DEF Books, ResultsHeld
      <4>2. n \in Node /\ g.attempts[n] = l[n] /\ g.state[n] = "done"
            /\ g.accepted[n] = graph.accepted[n]
        BY <1>2, <1>7, <1>8, <3>1
      <4>3. /\ DOMAIN l[n] = DOMAIN graph.attempts[n]
            /\ l[n][graph.accepted[n]].state = "accepted"
        BY <1>6, <4>1, <4>2
      <4> QED BY <4>1, <4>2, <4>3
    <3>2. CASE n \notin fresh
      BY <1>2, <1>7, <1>8, <3>2
    <3> QED BY <3>1, <3>2
  <2> QED BY <1>8, <2>1 DEF ResultsHeld
<1>13. WithinCap(g)
  <2>1. graph.cap \in Nat /\ \A n \in Node : Len(graph.attempts[n]) \in Nat
    BY <1>1 DEF Snapshot
  <2>2. ASSUME NEW n \in p.nodes
        PROVE  g.used[n] <= graph.cap /\ g.used[n] <= Len(g.attempts[n]) /\ g.state[n] # "ready"
    <3>1. n \in Node /\ Len(g.attempts[n]) = Len(graph.attempts[n]) /\ g.state[n] # "ready"
      BY <1>2, <1>6, <1>7, <1>8
    <3>2. g.used[n] = IF n \in old THEN graph.used[n] ELSE 0
      BY <1>7, <1>8, <3>1
    <3>3. n \in old => graph.used[n] <= graph.cap /\ graph.used[n] <= Len(graph.attempts[n])
      BY <1>1 DEF Books, WithinCap
    <3> QED BY <2>1, <3>1, <3>2, <3>3
  <2> QED BY <1>8, <2>2 DEF WithinCap
<1>14. LanesWellFormed(g)
  <2>1. \A n \in g.plan.nodes : g.state[n] # "running"
    BY <1>7, <1>8
  <2> QED BY <2>1, NoLanes
<1>15. Ended(g) /\ StartsBounded(g)
  BY <1>1, <1>8 DEF Books, Ended, PauseWellFormed, StartsBounded
<1>16. Sound(g)
  BY <1>9, <1>10, <1>11, <1>12, <1>13, <1>14, <1>15 DEF Sound, Books
<1> QED BY <1>4, <1>16, RefreshedSound

(* The largest index of a set of attempts is one of them.                     *)
LEMMA LatestIsMember ==
    ASSUME NEW N \in Nat, NEW S \in SUBSET (1 .. N), S # {}
    PROVE  Latest(S) \in S
<1> DEFINE T == {m \in Nat : \A j \in S : j <= m}
<1>1. N \in T /\ T \subseteq Nat
  OBVIOUS
<1> HIDE DEF T
<1>2. PICK k \in T : \A m \in T : <<m, k>> \notin OpToRel(<, Nat)
  BY <1>1, NatLessThanWellFounded, WFMin
<1>3. \A m \in T : ~ (m < k)
  BY <1>1, <1>2, Zenon DEF OpToRel
<1>4. k \in Nat /\ \A j \in S : j \in Nat /\ j >= 1 /\ j <= k
  BY DEF T
<1>5. k \in S
  <2>1. SUFFICES ASSUME k \notin S PROVE FALSE
    OBVIOUS
  <2>2. PICK j \in S : TRUE
    OBVIOUS
  <2>3. k - 1 \in Nat
    BY <1>4, <2>2
  <2>4. ASSUME NEW m \in S PROVE m <= k - 1
    <3>1. m # k
      BY <2>1
    <3> QED BY <1>4, <3>1
  <2>5. k - 1 \in T
    BY <2>3, <2>4 DEF T
  <2> QED BY <1>3, <1>4, <2>5
<1> QED BY <1>4, <1>5 DEF Latest

(* Accepting integrated nodes keeps the books: each has an accepted attempt.  *)
LEMMA AcceptIntegratedSound ==
    ASSUME IInv, Boundary, NEW waived \in BOOLEAN, AcceptIntegratedNodes(waived)
    PROVE  Sound(graph') /\ disk' = graph'
<1> DEFINE pending == InState(graph, "integrated")
           proof == <<graph.mutation, world>>
           l == [n \in Node |->
                  IF n \in pending /\ ~waived
                  THEN [graph.attempts[n] EXCEPT
                          ![LatestIn(graph, n, "accepted")].proofs = @ \cup {proof}]
                  ELSE graph.attempts[n]]
           acc == [n \in Node |-> IF n \in pending THEN LatestIn(graph, n, "accepted")
                                ELSE graph.accepted[n]]
           st == [n \in Node |-> IF n \in pending THEN "done" ELSE graph.state[n]]
           g == [graph EXCEPT
              !.outcome = "none",
              !.token = world,
              !.waived = IF waived THEN @ \cup pending ELSE @,
              !.accepted = acc, !.attempts = l, !.state = st]
<1>1. graph \in Snapshot /\ Books(graph) /\ Sound(graph) /\ world \in Token
  BY DEF IInv, TypeOK, Sound
<1>2. NobodyOut(graph)
  BY <1>1, BoundaryNobodyOut DEF Boundary
<1>3. graph.plan.nodes \subseteq Node /\ pending \subseteq graph.plan.nodes
  BY <1>1, PlanNodes DEF InState
<1>4. \A n \in Node : graph.attempts[n] \in Seq(Attempt)
  BY <1>1 DEF Snapshot
<1> DEFINE attempt(n) == LatestIn(graph, n, "accepted")
<1>5. ASSUME NEW n \in pending
      PROVE  /\ attempt(n) \in DOMAIN graph.attempts[n] /\ attempt(n) \in Nat \ {0}
             /\ graph.attempts[n][attempt(n)].state = "accepted"
  <2> DEFINE best == HeldIn(graph, n, "accepted")
  <2>1. best # {}
    BY <1>1, <1>3 DEF Books, ResultsHeld, InState, HeldIn
  <2>2. best \in SUBSET (1 .. Len(graph.attempts[n])) /\ Len(graph.attempts[n]) \in Nat
    BY <1>3, <1>4 DEF Held, HeldIn
  <2>3. \A k \in best : k \in DOMAIN graph.attempts[n] /\ graph.attempts[n][k].state = "accepted"
    BY DEF Held, HeldIn
  <2> HIDE DEF best
  <2>4. Latest(best) \in best
    BY <2>1, <2>2, LatestIsMember
  <2>5. attempt(n) = Latest(best)
    BY DEF LatestIn, best
  <2> HIDE DEF attempt
  <2>6. attempt(n) \in best
    BY <2>4, <2>5
  <2>7. best \subseteq Nat \ {0}
    BY <2>2
  <2> QED BY <2>3, <2>6, <2>7
<1> HIDE DEF attempt
<1>6. proof \in Nat \X Observation
  BY <1>1 DEF Snapshot, Observation
<1> HIDE DEF proof
<1>7. ASSUME NEW n \in Node
      PROVE  /\ l[n] \in Seq(Attempt)
             /\ DOMAIN l[n] = DOMAIN graph.attempts[n] /\ Len(l[n]) = Len(graph.attempts[n])
             /\ \A k \in DOMAIN graph.attempts[n] :
                /\ l[n][k].state = graph.attempts[n][k].state
                /\ l[n][k].worker = graph.attempts[n][k].worker
                /\ l[n][k].nudges = graph.attempts[n][k].nudges
  <2>1. CASE n \in pending /\ ~waived
    <3> DEFINE i == attempt(n)
               a == graph.attempts[n][i]
               b == [a EXCEPT !.proofs = @ \cup {proof}]
    <3>1. i \in DOMAIN graph.attempts[n] /\ a \in Attempt
      BY <1>4, <1>5, <2>1
    <3> HIDE DEF a
    <3>2. b \in Attempt /\ b.state = a.state /\ b.worker = a.worker /\ b.nudges = a.nudges
      BY <1>6, <3>1 DEF Attempt
    <3>3. l[n] = [graph.attempts[n] EXCEPT ![i] = b]
      BY <2>1 DEF a, attempt
    <3> HIDE DEF b, i, l
    <3>4. /\ l[n] \in Seq(Attempt) /\ Len(l[n]) = Len(graph.attempts[n])
          /\ DOMAIN l[n] = DOMAIN graph.attempts[n]
          /\ \A k \in DOMAIN graph.attempts[n] :
                l[n][k] = IF k = i THEN b ELSE graph.attempts[n][k]
      BY <1>4, <3>1, <3>2, <3>3, SeqEdit
    <3> QED BY <3>2, <3>4 DEF a
  <2>2. CASE ~(n \in pending /\ ~waived)
    BY <1>4, <2>2
  <2> QED BY <2>1, <2>2
<1>8. l \in [Node -> Seq(Attempt)]
  BY <1>7
<1>9. /\ acc \in [Node -> Nat] /\ st \in [Node -> NodeStates]
      /\ \A n \in Node : acc[n] = IF n \in pending THEN attempt(n) ELSE graph.accepted[n]
      /\ \A n \in Node : st[n] = IF n \in pending THEN "done" ELSE graph.state[n]
  <2>1. \A n \in pending : attempt(n) \in Nat
    BY <1>5
  <2> QED BY <1>1, <2>1 DEF Snapshot, NodeStates, attempt
<1>10. graph' = Reduced(Refreshed(g)) /\ disk' = graph'
  <2>1. g = Combined(graph, world, waived)
    BY DEF Combined, proof
  <2> HIDE DEF g
  <2> QED BY <2>1 DEF AcceptIntegratedNodes, Commit
<1> HIDE DEF l, acc, st
<1>11. g \in Snapshot
  <2>1. pending \in SUBSET Node /\ world \in Observation /\ "none" \in Outcomes
    BY <1>1, <1>3 DEF Observation, Outcomes
  <2> QED BY <1>1, <1>8, <1>9, <2>1 DEF Snapshot
<1>12. /\ g.plan = graph.plan /\ g.used = graph.used /\ g.cap = graph.cap
       /\ g.outcome = "none" /\ g.pause = graph.pause /\ g.clock = graph.clock
       /\ g.starts = graph.starts /\ g.maxStarts = graph.maxStarts
       /\ g.active = graph.active /\ g.attempts = l /\ g.accepted = acc /\ g.state = st
  BY <1>1 DEF Snapshot
<1> HIDE DEF g
<1>13. \A n \in pending : graph.state[n] = "integrated"
  BY DEF InState
<1> HIDE DEF pending
<1>14. RunsOnce(g) /\ ActiveRuns(g) /\ RunningActive(g)
  <2>1. RunsOnce(g)
    BY <1>1, <1>3, <1>7, <1>9, <1>12, <1>13 DEF Books, RunsOnce
  <2>2. ActiveRuns(g)
    BY <1>1, <1>7, <1>12 DEF Books, ActiveRuns
  <2>3. RunningActive(g)
    BY <1>1, <1>3, <1>9, <1>12 DEF Books, RunningActive
  <2> QED BY <2>1, <2>2, <2>3
<1>15. WorkersBelong(g)
  BY <1>1, <1>2, <1>7, <1>12 DEF Books, WorkersBelong, NobodyOut
<1>16. ResultsHeld(g)
  <2>1. \A n \in Node : Held(g, n) = Held(graph, n) /\ Held(g, n) \subseteq DOMAIN graph.attempts[n]
    BY <1>7, <1>12 DEF Held
  <2>2. ASSUME NEW n \in graph.plan.nodes
        PROVE  /\ (g.state[n] = "done") = (g.accepted[n] # 0)
               /\ g.accepted[n] # 0 =>
                   g.accepted[n] \in DOMAIN g.attempts[n]
                   /\ g.attempts[n][g.accepted[n]].state = "accepted"
               /\ g.state[n] = "integrated" =>
                   \E k \in Held(g, n) : g.attempts[n][k].state = "accepted"
    <3>1. CASE n \in pending
      BY <1>3, <1>5, <1>7, <1>9, <1>12, <3>1
    <3>2. CASE n \notin pending
      <4>1. /\ (graph.state[n] = "done") = (graph.accepted[n] # 0)
            /\ graph.accepted[n] # 0 =>
                graph.accepted[n] \in DOMAIN graph.attempts[n]
                /\ graph.attempts[n][graph.accepted[n]].state = "accepted"
            /\ graph.state[n] = "integrated" =>
                \E k \in Held(graph, n) : graph.attempts[n][k].state = "accepted"
        BY <1>1 DEF Books, ResultsHeld
      <4> QED BY <1>3, <1>7, <1>9, <1>12, <2>1, <3>2, <4>1
    <3> QED BY <3>1, <3>2
  <2> QED BY <1>12, <2>2 DEF ResultsHeld
<1>17. WithinCap(g)
  BY <1>1, <1>3, <1>7, <1>9, <1>12 DEF Books, WithinCap
<1>18. LanesWellFormed(g)
  BY <1>1, <1>3, <1>9, <1>12, LanesShrink DEF Books
<1>19. Ended(g) /\ StartsBounded(g)
  BY <1>1, <1>12 DEF Books, Ended, PauseWellFormed, StartsBounded
<1>20. Sound(g)
  BY <1>11, <1>14, <1>15, <1>16, <1>17, <1>18, <1>19 DEF Sound, Books
<1> QED BY <1>10, <1>20, RefreshedSound, ReducedSound

(* Publishing a candidate keeps the books: its attempt is now accepted, and   *)
(* nothing else counts as done.                                              *)
LEMMA IntegrateSound ==
    ASSUME IInv, NEW n \in Node, NEW w \in Token, IntegrateCandidate(n, w)
    PROVE  Sound(graph') /\ disk' = graph'
<1> DEFINE k == LatestIn(graph, n, "candidate")
           h == AllDoneStale(graph)
           a == [graph.attempts[n][k] EXCEPT !.state = "accepted",
                                             !.mutation = graph.mutation + 1]
           g == [h EXCEPT !.mutation = @ + 1,
                          !.attempts[n][k] = [@ EXCEPT !.state = "accepted",
                                                       !.mutation = graph.mutation + 1],
                          !.token = w,
                          !.state[n] = "integrated"]
<1>1. graph \in Snapshot /\ Sound(graph)
  BY DEF IInv, TypeOK, Sound
<1>2. NobodyOut(graph)
  BY <1>1, BoundaryNobodyOut DEF IntegrateCandidate, Boundary
<1>3. h \in Snapshot /\ Sound(h) /\ h.outcome = "none" /\ h.attempts = graph.attempts
  BY <1>1, <1>2, AllDoneStaleSound DEF Sound
<1>4. /\ h.plan = graph.plan /\ h.used = graph.used /\ h.mutation = graph.mutation
      /\ h.state[n] = "awaiting_review" /\ n \in h.plan.nodes
      /\ HeldIn(graph, n, "candidate") # {}
  BY <1>1 DEF IntegrateCandidate, AllDoneStale, Snapshot, InState
<1>5. graph.attempts[n] \in Seq(Attempt)
  BY <1>1 DEF Snapshot
<1>6. k \in Held(graph, n) /\ graph.attempts[n][k].state = "candidate"
      /\ k \in DOMAIN graph.attempts[n]
  <2> DEFINE best == HeldIn(graph, n, "candidate")
  <2>1. best \in SUBSET (1 .. Len(graph.attempts[n])) /\ Len(graph.attempts[n]) \in Nat
    BY <1>5 DEF Held, HeldIn
  <2>2. \A j \in best : /\ j \in Held(graph, n) /\ j \in DOMAIN graph.attempts[n]
                        /\ graph.attempts[n][j].state = "candidate"
    BY DEF Held, HeldIn
  <2>3. Latest(best) = k
    BY DEF LatestIn
  <2>4. best # {}
    BY <1>4
  <2> HIDE DEF best, k
  <2>5. k \in best
    BY <2>1, <2>3, <2>4, LatestIsMember
  <2> QED BY <2>2, <2>5
<1>7. graph' = Reduced(g) /\ disk' = graph'
  BY DEF IntegrateCandidate, Commit
<1> HIDE DEF k, h
<1>8. /\ a \in Attempt /\ a.state = "accepted" /\ a.worker = graph.attempts[n][k].worker
      /\ a.nudges = graph.attempts[n][k].nudges
  <2> DEFINE b == graph.attempts[n][k]
  <2>1. b \in Attempt /\ graph.mutation + 1 \in Nat
    BY <1>1, <1>5, <1>6 DEF Snapshot
  <2> HIDE DEF b
  <2>2. [b EXCEPT !.state = "accepted", !.mutation = graph.mutation + 1] \in Attempt
    BY <2>1 DEF Attempt, AttemptStates
  <2> QED BY <2>1, <2>2 DEF b, Attempt
<1>9. g.attempts[n] = [h.attempts[n] EXCEPT ![k] = a]
      /\ \A m \in Node : m # n => g.attempts[m] = h.attempts[m]
  <2>1. h.attempts[n][k] = graph.attempts[n][k] /\ k \in DOMAIN h.attempts[n]
        /\ h.attempts \in [Node -> Seq(Attempt)]
    BY <1>3, <1>6 DEF Snapshot
  <2> QED BY <1>3, <2>1 DEF Snapshot
<1>10. /\ [h.attempts[n] EXCEPT ![k] = a] \in Seq(Attempt)
       /\ Len([h.attempts[n] EXCEPT ![k] = a]) = Len(h.attempts[n])
       /\ DOMAIN [h.attempts[n] EXCEPT ![k] = a] = DOMAIN h.attempts[n]
       /\ \A j \in DOMAIN h.attempts[n] :
            [h.attempts[n] EXCEPT ![k] = a][j] = IF j = k THEN a ELSE h.attempts[n][j]
  <2> HIDE DEF a
  <2> QED BY <1>3, <1>5, <1>6, <1>8, SeqEdit
<1>11. /\ g.plan = h.plan /\ g.used = h.used /\ g.cap = h.cap /\ g.active = h.active
       /\ g.accepted = h.accepted /\ g.outcome = "none" /\ g.pause = h.pause
       /\ g.clock = h.clock /\ g.starts = h.starts /\ g.maxStarts = h.maxStarts
       /\ \A m \in Node : g.state[m] = IF m = n THEN "integrated" ELSE h.state[m]
  BY <1>3 DEF Snapshot
<1>12. g \in Snapshot
  <2>1. [h.attempts EXCEPT ![n] = [h.attempts[n] EXCEPT ![k] = a]] \in [Node -> Seq(Attempt)]
    BY <1>3, <1>10 DEF Snapshot
  <2>2. g = [h EXCEPT !.mutation = h.mutation + 1,
                !.attempts = [h.attempts EXCEPT ![n] = [h.attempts[n] EXCEPT ![k] = a]],
                !.token = w, !.state = [h.state EXCEPT ![n] = "integrated"]]
    <3>1. h.attempts[n][k] = graph.attempts[n][k] /\ k \in DOMAIN h.attempts[n]
        /\ h.attempts \in [Node -> Seq(Attempt)]
      BY <1>3, <1>6 DEF Snapshot
    <3> QED BY <1>3, <3>1 DEF Snapshot
  <2>3. h.mutation + 1 \in Nat /\ w \in Observation
        /\ [h.state EXCEPT ![n] = "integrated"] \in [Node -> NodeStates]
    BY <1>3 DEF Snapshot, Observation, NodeStates
  <2> HIDE DEF a, g
  <2> QED BY <1>3, <2>1, <2>2, <2>3 DEF Snapshot
<1> HIDE DEF a, g
<1>13. \A m \in Node :
        /\ DOMAIN g.attempts[m] = DOMAIN h.attempts[m]
        /\ Len(g.attempts[m]) = Len(h.attempts[m])
        /\ \A j \in DOMAIN h.attempts[m] :
            g.attempts[m][j] = IF m = n /\ j = k THEN a ELSE h.attempts[m][j]
  BY <1>9, <1>10
<1>14. h.attempts[n][k].state = "candidate" /\ h.plan.nodes \subseteq Node
  BY <1>3, <1>6, PlanNodes
<1>15. RunsOnce(g) /\ ActiveRuns(g) /\ RunningActive(g)
  <2>1. RunsOnce(g)
    BY <1>3, <1>4, <1>8, <1>11, <1>13, <1>14 DEF Sound, Books, RunsOnce
  <2>2. ActiveRuns(g)
    BY <1>3, <1>11, <1>13, <1>14 DEF Sound, Books, ActiveRuns
  <2>3. RunningActive(g)
    BY <1>3, <1>11, <1>14 DEF Sound, Books, RunningActive
  <2> QED BY <2>1, <2>2, <2>3
<1>16. WorkersBelong(g)
  <2>1. \A m \in Node : \A j \in DOMAIN h.attempts[m] : h.attempts[m][j].worker # "out"
    BY <1>2, <1>3 DEF NobodyOut
  <2>2. a.worker = h.attempts[n][k].worker
    BY <1>3, <1>8
  <2> QED BY <1>3, <1>6, <1>8, <1>11, <1>13, <2>1, <2>2 DEF Sound, Books, WorkersBelong
<1>17. ResultsHeld(g)
  <2>1. \A m \in Node : Held(g, m) = Held(h, m) /\ Held(h, m) \subseteq DOMAIN h.attempts[m]
    BY <1>11, <1>13 DEF Held
  <2>2. k \in Held(h, n)
    BY <1>3, <1>4, <1>6 DEF Held
  <2>3. ASSUME NEW m \in h.plan.nodes, m # n
        PROVE  /\ (g.state[m] = "done") = (g.accepted[m] # 0)
               /\ g.accepted[m] # 0 =>
                   g.accepted[m] \in DOMAIN g.attempts[m]
                   /\ g.attempts[m][g.accepted[m]].state = "accepted"
               /\ g.state[m] = "integrated" =>
                   \E j \in Held(g, m) : g.attempts[m][j].state = "accepted"
    <3>1. m \in Node /\ g.attempts[m] = h.attempts[m] /\ g.state[m] = h.state[m]
          /\ g.accepted[m] = h.accepted[m]
      BY <1>9, <1>11, <1>14, <2>3
    <3> QED BY <1>3, <2>1, <3>1 DEF Sound, Books, ResultsHeld
  <2>4. /\ g.state[n] = "integrated" /\ g.accepted[n] = 0
        /\ g.attempts[n][k].state = "accepted"
    BY <1>3, <1>4, <1>8, <1>11, <1>13, <1>6 DEF Sound, Books, ResultsHeld
  <2> QED BY <1>11, <2>1, <2>2, <2>3, <2>4 DEF ResultsHeld
<1>18. WithinCap(g)
  BY <1>3, <1>11, <1>13, <1>14 DEF Sound, Books, WithinCap
<1>19. LanesWellFormed(g)
  BY <1>3, <1>11, <1>14, LanesShrink DEF Sound, Books
<1>20. Ended(g) /\ StartsBounded(g)
  BY <1>3, <1>11 DEF Sound, Books, Ended, PauseWellFormed, StartsBounded
<1>21. Sound(g)
  BY <1>12, <1>15, <1>16, <1>17, <1>18, <1>19, <1>20 DEF Sound, Books
<1> QED BY <1>7, <1>21, ReducedSound

(* What the primary lane works on: the running, latest attempt of its node,   *)
(* which has no worker.                                                      *)
LEMMA PrimaryAttempt ==
    ASSUME NEW h, Sound(h), NEW n \in Running(h, "primary")
    PROVE  /\ n \in Node /\ n \in h.plan.nodes /\ h.active[n] # 0 /\ h.outcome = "none"
           /\ h.attempts[n] \in Seq(Attempt)
           /\ h.active[n] \in DOMAIN h.attempts[n]
           /\ h.active[n] = Len(h.attempts[n])
           /\ Last(h, n) \in Attempt /\ Last(h, n) = h.attempts[n][h.active[n]]
           /\ Last(h, n).state = "running"
           /\ Last(h, n).worker = "none" /\ Last(h, n).nudges <= 2
<1>1. h \in Snapshot /\ Books(h)
  BY DEF Sound
<1>2. n \in h.plan.nodes /\ h.state[n] = "running" /\ h.plan.exec[n] = "primary" /\ n \in Node
  BY <1>1, PlanNodes DEF Running, InLane, InState
<1>3. h.active[n] # 0 /\ h.attempts[n] \in Seq(Attempt)
  BY <1>1, <1>2 DEF Books, RunningActive, Snapshot
<1>4. /\ h.active[n] \in DOMAIN h.attempts[n]
      /\ h.attempts[n][h.active[n]].state = "running"
  BY <1>1, <1>2, <1>3 DEF Books, ActiveRuns
<1>5. h.active[n] = Len(h.attempts[n]) /\ h.outcome = "none"
  BY <1>1, <1>2, <1>4 DEF Books, RunsOnce
<1>6. /\ h.attempts[n][h.active[n]].worker = "none"
      /\ h.attempts[n][h.active[n]].nudges <= 2
  BY <1>1, <1>2, <1>4 DEF Books, WorkersBelong
<1>7. Last(h, n) = h.attempts[n][h.active[n]] /\ Last(h, n) \in Attempt
  BY <1>3, <1>4, <1>5 DEF Last
<1> QED BY <1>2, <1>3, <1>4, <1>5, <1>6, <1>7

(* What a worker that is out works on: its node's latest attempt, which runs  *)
(* while the graph goes on.                                                  *)
LEMMA OutAttempt ==
    ASSUME NEW h, Sound(h), NEW n \in Out(h)
    PROVE  /\ n \in Node /\ n \in h.plan.nodes
           /\ h.attempts[n] \in Seq(Attempt)
           /\ Len(h.attempts[n]) \in DOMAIN h.attempts[n]
           /\ Last(h, n) \in Attempt /\ Last(h, n) = h.attempts[n][Len(h.attempts[n])]
           /\ Last(h, n).worker = "out"
           /\ Last(h, n).state = "running" => Last(h, n).nudges <= 2
           /\ h.outcome = "none" =>
                /\ Last(h, n).state = "running" /\ h.active[n] # 0
                /\ h.active[n] = Len(h.attempts[n])
<1>1. h \in Snapshot /\ Books(h)
  BY DEF Sound
<1>2. n \in Node /\ n \in h.plan.nodes /\ h.attempts[n] # <<>> /\ Last(h, n).worker = "out"
  BY <1>1, PlanNodes DEF Out
<1>3. h.attempts[n] \in Seq(Attempt)
  BY <1>1, <1>2 DEF Snapshot
<1>4. Len(h.attempts[n]) \in DOMAIN h.attempts[n] /\ Len(h.attempts[n]) # 0
  BY <1>2, <1>3
<1>5. Last(h, n) \in Attempt /\ Last(h, n) = h.attempts[n][Len(h.attempts[n])]
  BY <1>3, <1>4 DEF Last
<1>6. /\ Last(h, n).state = "running" => Last(h, n).nudges <= 2
      /\ h.outcome = "none" => Last(h, n).state = "running"
  BY <1>1, <1>2, <1>4, <1>5 DEF Books, WorkersBelong
<1>7. h.outcome = "none" => h.active[n] # 0 /\ h.active[n] = Len(h.attempts[n])
  BY <1>1, <1>2, <1>4, <1>5, <1>6 DEF Books, RunsOnce
<1> QED BY <1>2, <1>3, <1>4, <1>5, <1>6, <1>7

(* Editing one attempt in place keeps the books.                             *)
LEMMA EditOneSound ==
    ASSUME NEW h, Sound(h), NEW n \in Node, NEW i \in DOMAIN h.attempts[n],
           NEW b \in Attempt, InPlace(b, h.attempts[n][i])
    PROVE  LET g == [h EXCEPT !.attempts[n][i] = b]
           IN  /\ Sound(g) /\ g.active = h.active /\ g.outcome = h.outcome
               /\ g.attempts[n] = [h.attempts[n] EXCEPT ![i] = b]
               /\ g.attempts[n][i] = b /\ Len(g.attempts[n]) = Len(h.attempts[n])
               /\ g.plan = h.plan /\ g.spent = h.spent
<1> DEFINE g == [h EXCEPT !.attempts[n][i] = b]
<1>1. h \in Snapshot /\ Books(h)
  BY DEF Sound
<1>2. h.attempts[n] \in Seq(Attempt)
  BY <1>1 DEF Snapshot
<1>3. /\ [h.attempts[n] EXCEPT ![i] = b] \in Seq(Attempt)
      /\ Len([h.attempts[n] EXCEPT ![i] = b]) = Len(h.attempts[n])
      /\ DOMAIN [h.attempts[n] EXCEPT ![i] = b] = DOMAIN h.attempts[n]
      /\ \A k \in DOMAIN h.attempts[n] :
            [h.attempts[n] EXCEPT ![i] = b][k] = IF k = i THEN b ELSE h.attempts[n][k]
  BY <1>2, SeqEdit
<1>4. /\ g.plan = h.plan /\ g.state = h.state /\ g.active = h.active
      /\ g.accepted = h.accepted /\ g.used = h.used /\ g.cap = h.cap
      /\ g.outcome = h.outcome /\ g.pause = h.pause /\ g.clock = h.clock
      /\ g.starts = h.starts /\ g.maxStarts = h.maxStarts /\ g.spent = h.spent
      /\ g.attempts[n] = [h.attempts[n] EXCEPT ![i] = b]
      /\ \A m \in Node : m # n => g.attempts[m] = h.attempts[m]
  BY <1>1 DEF Snapshot
<1>5. g \in Snapshot
  <2>1. [h.attempts EXCEPT ![n] = [h.attempts[n] EXCEPT ![i] = b]] \in [Node -> Seq(Attempt)]
    BY <1>1, <1>3 DEF Snapshot
  <2> QED BY <1>1, <2>1 DEF Snapshot
<1> HIDE DEF g
<1>6. \A m \in Node : \A k \in DOMAIN h.attempts[m] : InPlace(h.attempts[m][k], h.attempts[m][k])
  BY <1>1 DEF Books, WorkersBelong, InPlace
<1>7. \A m \in Node :
        /\ DOMAIN g.attempts[m] = DOMAIN h.attempts[m]
        /\ Len(g.attempts[m]) = Len(h.attempts[m])
        /\ \A k \in DOMAIN h.attempts[m] : InPlace(g.attempts[m][k], h.attempts[m][k])
  BY <1>3, <1>4, <1>6
<1>8. EditOf(g, h)
  BY <1>4, <1>7 DEF EditOf
<1>9. Sound(g)
  BY <1>1, <1>5, <1>8, EditSound
<1> QED BY <1>3, <1>4, <1>9 DEF g

(* What a graph has spent, seen and mutated is not in the books.              *)
LEMMA AccountsSound ==
    ASSUME NEW h, Sound(h), NEW t \in Observation, NEW m \in Nat, NEW s \in Nat
    PROVE  Sound([h EXCEPT !.token = t, !.mutation = m, !.spent = s])
<1> DEFINE g == [h EXCEPT !.token = t, !.mutation = m, !.spent = s]
<1>1. h \in Snapshot /\ Books(h)
  BY DEF Sound
<1>2. g \in Snapshot
  BY <1>1 DEF Snapshot
<1>3. /\ g.plan = h.plan /\ g.state = h.state /\ g.active = h.active
      /\ g.accepted = h.accepted /\ g.used = h.used /\ g.cap = h.cap
      /\ g.outcome = h.outcome /\ g.pause = h.pause /\ g.clock = h.clock
      /\ g.starts = h.starts /\ g.maxStarts = h.maxStarts /\ g.attempts = h.attempts
  BY <1>1 DEF Snapshot
<1> HIDE DEF g
<1>4. \A n \in Node : \A k \in DOMAIN h.attempts[n] : InPlace(h.attempts[n][k], h.attempts[n][k])
  BY <1>1 DEF Books, WorkersBelong, InPlace
<1>5. EditOf(g, h)
  BY <1>3, <1>4 DEF EditOf
<1> QED BY <1>1, <1>2, <1>5, EditSound DEF g
=============================================================================
