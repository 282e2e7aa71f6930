-------------------------- MODULE GoalGraphProofs --------------------------
(***************************************************************************)
(* Every step of GoalGraph keeps the books of GoalGraphSound, for every plan, *)
(* lane, envelope, workspace and environment; what follows from that.        *)
(***************************************************************************)
EXTENDS GoalGraphSound

-----------------------------------------------------------------------------
(* Steps keep the inductive invariant.                                      *)

(* A step of the running process that leaves a sound graph, saved or not.     *)
LEMMA StepKeeps ==
    ASSUME IInv, up, UNCHANGED up, Sound(graph'), disk' \in {disk, graph'},
           world' \in Token, pass' \in {<<>>} \cup {<<t>> : t \in Observation},
           inDoubt' \subseteq Node \X Nat
    PROVE  IInv'
<1>1. TypeOK'
  BY DEF IInv, TypeOK, Sound
<1>2. Books(graph)' /\ Books(disk)'
  BY DEF IInv, Sound
<1>3. ~up' => NobodyOut(graph)'
  OBVIOUS
<1> QED BY <1>1, <1>2, <1>3 DEF IInv

(* A scheduling call keeps the invariant: its three ways to end a claim.      *)
LEMMA ClaimKeeps ==
    ASSUME NEW h, Sound(h), h.outcome = "none", ~HasRunningAttempt(h),
           NEW token \in Observation, NEW e \in Workers,
           Claim(h, e, token) \/ (Ready(h, e) # {} /\ ExhaustReady(h, e))
    PROVE  Sound(graph') /\ disk' = graph' /\ pass' = <<>>
<1>1. CASE Claim(h, e, token)
  <2>1. PICK wave \in SUBSET Ready(h, e) :
            IsWave(h, e, wave) /\ Commit(Started(h, wave, token, e))
    BY <1>1 DEF Claim
  <2>2. /\ Cardinality(wave) <= Lane[e]
        /\ h.starts[e] + Cardinality(wave) <= h.maxStarts[e]
    BY <2>1 DEF IsWave, Fits
  <2>3. e \in Executions /\ e # "primary"
    BY DEF Workers, Executions
  <2>4. Sound(Started(h, wave, token, e))
    BY <2>2, <2>3, StartedSound
  <2> QED BY <1>1, <2>1, <2>4 DEF Claim, Commit
<1>2. CASE Ready(h, e) # {} /\ ExhaustReady(h, e)
  <2> DEFINE n == First(Ready(h, e))
             g == [h EXCEPT !.state[n] = "budget_exhausted"]
  <2>1. h \in Snapshot
    BY DEF Sound
  <2>2. Ready(h, e) \subseteq Node
    BY <2>1, PlanNodes DEF Ready, InLane, InState
  <2>3. n \in Ready(h, e)
    BY <1>2, <2>2, FirstIsMember
  <2>4. n \in h.plan.nodes /\ h.state[n] = "ready" /\ n \in Node
    BY <2>2, <2>3 DEF Ready, InLane, InState
  <2>5. graph' = Terminated(g, "budget_exhausted") /\ disk' = graph' /\ pass' = <<>>
    BY <1>2 DEF ExhaustReady, Commit
  <2> HIDE DEF n
  <2>6. "budget_exhausted" \in NodeStates \ {"running", "done", "ready", "integrated"}
    BY DEF NodeStates
  <2>7. Sound(g)
    BY <2>4, <2>6, MovedSound
  <2>8. g.plan = h.plan /\ \A m \in Node :
            g.state[m] = IF m = n THEN "budget_exhausted" ELSE h.state[m]
    BY <2>1, <2>4 DEF Snapshot
  <2> HIDE DEF g
  <2>9. \A m \in g.plan.nodes : g.state[m] # "running"
    BY <2>1, <2>8, PlanNodes, IdleRunsNothing
  <2>10. "budget_exhausted" \in Outcomes \ {"none"}
    BY DEF Outcomes
  <2>11. Sound(Terminated(g, "budget_exhausted"))
    BY <2>7, <2>9, <2>10, TerminatedSound
  <2> QED BY <2>5, <2>11
<1> QED BY <1>1, <1>2

(* Scheduling keeps the invariant.                                           *)
LEMMA ScheduleKeeps == ASSUME IInv, Schedule PROVE IInv'
<1>1. /\ graph \in Snapshot /\ Sound(graph) /\ world \in Token
      /\ pass \in {<<>>} \cup {<<t>> : t \in Observation} /\ inDoubt \subseteq Node \X Nat
  BY DEF IInv, TypeOK, Sound
<1>2. Observed \subseteq Observation
  BY <1>1 DEF Observed, Observation
<1>3. CASE EnforceAggregateBudget
  <2>1. Sound(Exhausted(graph))
    BY <1>1, ExhaustedSound
  <2> QED BY <1>1, <1>3, <2>1, StepKeeps DEF EnforceAggregateBudget, Boundary, Commit, Quiet, Still
<1>4. ASSUME NEW t \in Observed, StartReadyReads(t) PROVE IInv'
  <2> DEFINE h == Noticed(graph, t)
  <2>1. up /\ graph.outcome = "none" /\ ~HasRunningAttempt(graph) /\ Still
    BY <1>4 DEF StartReadyReads, Boundary, Schedulable
  <2>2. Sound(h) /\ h.outcome = "none" /\ h.attempts = graph.attempts
    BY <1>1, <1>2, <2>1, NoticedSound
  <2>3. ~HasRunningAttempt(h)
    BY <2>1, <2>2 DEF HasRunningAttempt
  <2>4. \/ Unsaved(h) /\ pass' = <<t>>
        \/ Ready(h, "read_only") # {} /\ ExhaustReady(h, "read_only")
        \/ Claim(h, "read_only", t)
    BY <1>4 DEF StartReadyReads
  <2> HIDE DEF h
  <2>5. CASE Unsaved(h) /\ pass' = <<t>>
    BY <1>1, <1>2, <2>1, <2>2, <2>5, StepKeeps DEF Unsaved, Still
  <2>6. CASE \/ Ready(h, "read_only") # {} /\ ExhaustReady(h, "read_only")
             \/ Claim(h, "read_only", t)
    <3>1. "read_only" \in Workers /\ t \in Observation
      BY <1>2 DEF Workers
    <3>2. Sound(graph') /\ disk' = graph' /\ pass' = <<>>
      BY <2>2, <2>3, <2>6, <3>1, ClaimKeeps
    <3> QED BY <1>1, <2>1, <3>2, StepKeeps DEF Still
  <2> QED BY <2>4, <2>5, <2>6
<1>5. ASSUME NEW t \in Observed, NEW clean \in BOOLEAN, StartReadyWriters(t, clean) PROVE IInv'
  <2> DEFINE h == Noticed(graph, t)
             n == First(Ready(h, "isolated_write"))
  <2>1. up /\ graph.outcome = "none" /\ ~HasRunningAttempt(graph) /\ Still
        /\ Ready(graph, "isolated_write") # {}
    BY <1>5 DEF StartReadyWriters, InPass, Schedulable
  <2>2. Sound(h) /\ h.outcome = "none" /\ h.attempts = graph.attempts
    BY <1>1, <1>2, <2>1, NoticedSound
  <2>3. ~HasRunningAttempt(h)
    BY <2>1, <2>2 DEF HasRunningAttempt
  <2>4. Ready(h, "isolated_write") # {}
    <3>1. PICK m \in graph.plan.nodes :
              graph.state[m] = "ready" /\ graph.plan.exec[m] = "isolated_write"
      BY <2>1 DEF Ready, InLane, InState
    <3>2. h.plan = graph.plan /\ h.state[m] = "ready"
      <4>1. m \in Node
        BY <1>1, PlanNodes
      <4>2. /\ AllDoneStale(graph) \in Snapshot /\ AllDoneStale(graph).plan = graph.plan
            /\ AllDoneStale(graph).state[m] = "ready"
        BY <1>1, <2>1, <3>1, <4>1, AllDoneStaleSound DEF AllDoneStale, Snapshot, InState, Sound
      <4> DEFINE d == IF Differs(graph, t) THEN AllDoneStale(graph) ELSE graph
                 c == [d EXCEPT !.token = IF @ = NoToken THEN t ELSE @]
      <4>3. d \in Snapshot /\ d.plan = graph.plan /\ d.state[m] = "ready"
        BY <1>1, <3>1, <4>2
      <4>4. h = Refreshed(c)
        BY DEF Noticed
      <4> HIDE DEF d
      <4>5. c.plan = graph.plan /\ c.state[m] = "ready" /\ c.state = d.state
        BY <4>3 DEF Snapshot
      <4>6. c \in Snapshot
        BY <1>2, <4>3 DEF Snapshot
      <4> HIDE DEF c
      <4> QED BY <4>1, <4>4, <4>5, <4>6 DEF Refreshed, Snapshot
    <3> QED BY <3>1, <3>2 DEF Ready, InLane, InState
  <2>5. \/ Commit(Reduced([h EXCEPT !.state[n] = "blocked"])) /\ pass' = <<>>
        \/ ExhaustReady(h, "isolated_write")
        \/ Claim(h, "isolated_write", t)
    BY <1>5 DEF StartReadyWriters
  <2>6. n \in h.plan.nodes /\ h.state[n] = "ready"
    <3>1. Ready(h, "isolated_write") \subseteq Node
      BY <2>2, PlanNodes DEF Sound, Ready, InLane, InState
    <3>2. n \in Ready(h, "isolated_write")
      BY <2>4, <3>1, FirstIsMember
    <3> QED BY <3>2 DEF Ready, InLane, InState
  <2> HIDE DEF h, n
  <2>7. CASE Commit(Reduced([h EXCEPT !.state[n] = "blocked"])) /\ pass' = <<>>
    <3>1. "blocked" \in NodeStates \ {"running", "done", "ready", "integrated"}
      BY DEF NodeStates
    <3>2. Sound([h EXCEPT !.state[n] = "blocked"])
      BY <2>2, <2>6, <3>1, MovedSound
    <3>3. Sound(Reduced([h EXCEPT !.state[n] = "blocked"]))
      BY <3>2, ReducedSound
    <3> QED BY <1>1, <2>1, <2>7, <3>3, StepKeeps DEF Commit, Still
  <2>8. CASE \/ ExhaustReady(h, "isolated_write")
             \/ Claim(h, "isolated_write", t)
    <3>1. "isolated_write" \in Workers /\ t \in Observation
      BY <1>2 DEF Workers
    <3>2. Sound(graph') /\ disk' = graph' /\ pass' = <<>>
      BY <2>2, <2>3, <2>4, <2>8, <3>1, ClaimKeeps
    <3> QED BY <1>1, <2>1, <3>2, StepKeeps DEF Still
  <2> QED BY <2>5, <2>7, <2>8
<1>6. CASE StartNext
  <2> DEFINE t == pass[1]
             h == Noticed(graph, t)
             n == First(Ready(h, "primary"))
  <2>1. up /\ graph.outcome = "none" /\ ~HasRunningAttempt(graph) /\ Still /\ pass' = <<>>
        /\ t \in Observation
    BY <1>1, <1>6 DEF StartNext, InPass, Schedulable
  <2>2. Sound(h) /\ h.outcome = "none" /\ h.attempts = graph.attempts
    BY <1>1, <2>1, NoticedSound
  <2>3. ~HasRunningAttempt(h)
    BY <2>1, <2>2 DEF HasRunningAttempt
  <2>4. \/ Ready(h, "primary") # {} /\ Commit(Started(h, {n}, t, "primary"))
        \/ Commit(Reduced(h))
    BY <1>6 DEF StartNext
  <2>5. Ready(h, "primary") # {} => n \in Ready(h, "primary")
    <3>1. Ready(h, "primary") \subseteq Node
      BY <2>2, PlanNodes DEF Sound, Ready, InLane, InState
    <3> QED BY <3>1, FirstIsMember
  <2> HIDE DEF t, h, n
  <2>6. CASE Ready(h, "primary") # {} /\ Commit(Started(h, {n}, t, "primary"))
    <3>1. {n} \in SUBSET Ready(h, "primary") /\ Cardinality({n}) <= 1 /\ "primary" \in Executions
      BY <2>5, <2>6, FS_Singleton DEF Executions
    <3>2. Sound(Started(h, {n}, t, "primary"))
      BY <2>1, <2>2, <2>3, <3>1, StartedSound
    <3> QED BY <1>1, <2>1, <2>6, <3>2, StepKeeps DEF Commit, Still
  <2>7. CASE Commit(Reduced(h))
    BY <1>1, <2>1, <2>2, <2>7, ReducedSound, StepKeeps DEF Commit, Still
  <2> QED BY <2>4, <2>6, <2>7
<1>7. CASE AbandonPass
  BY <1>1, <1>7, StepKeeps DEF AbandonPass, Still
<1>8. CASE ReachPause
  <2>1. Sound([graph EXCEPT !.pause = "reached", !.clock = FALSE])
    BY <1>1, <1>8, PacedSound DEF ReachPause
  <2> QED BY <1>1, <1>8, <2>1, StepKeeps DEF ReachPause, Boundary, Commit, Quiet, Still
<1> QED BY <1>3, <1>4, <1>5, <1>6, <1>7, <1>8 DEF Schedule

(* Each of the three, on its own.                                            *)
LEMMA AccountSound ==
    ASSUME NEW h, Sound(h), NEW t \in Observation, NEW m \in Nat, NEW s \in Nat
    PROVE  /\ Sound([h EXCEPT !.token = t])
           /\ Sound([h EXCEPT !.mutation = m])
           /\ Sound([h EXCEPT !.spent = s])
<1>1. h.token \in Observation /\ h.mutation \in Nat /\ h.spent \in Nat
  BY DEF Sound, Snapshot
<1>2. /\ [h EXCEPT !.token = t] =
           [h EXCEPT !.token = t, !.mutation = h.mutation, !.spent = h.spent]
      /\ [h EXCEPT !.mutation = m] =
           [h EXCEPT !.token = h.token, !.mutation = m, !.spent = h.spent]
      /\ [h EXCEPT !.spent = s] =
           [h EXCEPT !.token = h.token, !.mutation = h.mutation, !.spent = s]
  BY DEF Sound, Snapshot
<1>3. Sound([h EXCEPT !.token = t, !.mutation = h.mutation, !.spent = h.spent])
  BY <1>1, AccountsSound
<1>4. Sound([h EXCEPT !.token = h.token, !.mutation = m, !.spent = h.spent])
  BY <1>1, AccountsSound
<1>5. Sound([h EXCEPT !.token = h.token, !.mutation = h.mutation, !.spent = s])
  BY <1>1, AccountsSound
<1> QED BY <1>2, <1>3, <1>4, <1>5

(* The primary lane edits its running attempt.                               *)
LEMMA AttemptedSound ==
    ASSUME Sound(graph), NEW n \in Running(graph, "primary"),
           NEW b \in Attempt, b.state = "running", b.worker = "none", b.nudges <= 2
    PROVE  /\ Sound(Attempted(n, b))
           /\ Attempted(n, b).mutation = graph.mutation
           /\ Attempted(n, b).token = graph.token
<1>1. /\ n \in Node /\ graph.active[n] \in DOMAIN graph.attempts[n]
      /\ graph.attempts[n][graph.active[n]] = Last(graph, n)
      /\ Last(graph, n).state = "running" /\ Last(graph, n).worker = "none"
  BY PrimaryAttempt
<1>2. InPlace(b, graph.attempts[n][graph.active[n]])
  BY <1>1 DEF InPlace
<1>3. Sound(Attempted(n, b))
  BY <1>1, <1>2, EditOneSound DEF Attempted
<1> QED BY <1>3 DEF Attempted, Sound, Snapshot

(* Accepting an attempt keeps the books: its node is done by it, and a fresh  *)
(* mutation stales what did not see it.                                      *)
LEMMA AcceptedSound ==
    ASSUME Sound(graph), NEW n \in Running(graph, "primary"), NEW a \in Attempt,
           a.worker = "none", NEW t \in Observation
    PROVE  Sound(Accepted(n, a, t))
<1> DEFINE b == [a EXCEPT !.state = "accepted"]
           s == Settled(graph, n, b, "done")
           g == [s EXCEPT !.token = IF t # NoToken THEN t ELSE @]
           u == IF a.mutated THEN UnconsumedStale(g, n) ELSE g
<1>1. n \in Node /\ graph.active[n] # 0
  BY PrimaryAttempt
<1>2. b \in Attempt /\ b.state = "accepted" /\ b.worker = "none"
  BY DEF Attempt, AttemptStates
<1>3. "done" \in NodeStates \ {"running", "ready", "integrated"}
  BY DEF NodeStates
<1>4. Accepted(n, a, t) = Reduced(Refreshed(u))
  BY DEF Accepted
<1> HIDE DEF b
<1>5. Sound(s) /\ s.outcome = "none"
  BY <1>1, <1>2, <1>3, SettledSound
<1> HIDE DEF s
<1>6. g = [s EXCEPT !.token = IF t # NoToken THEN t ELSE s.token] /\ s.token \in Observation
  BY <1>5 DEF Sound, Snapshot
<1>7. Sound(g) /\ g.outcome = "none"
  BY <1>5, <1>6, AccountSound DEF Sound, Snapshot
<1> HIDE DEF g
<1>8. Sound(u)
  BY <1>7, UnconsumedStaleSound
<1> HIDE DEF u
<1> QED BY <1>4, <1>8, RefreshedSound, ReducedSound

(* A proposed completion keeps the books, whatever the gate decides.          *)
LEMMA ProposedSound ==
    ASSUME Sound(graph), NEW n \in Running(graph, "primary"), NEW t \in Observation,
           ProposeCompletion(n, t)
    PROVE  Sound(graph') /\ disk' \in {disk, graph'}
<1> DEFINE last == Last(graph, n)
           a == [last EXCEPT !.failures =
                   IF Differs(graph, t) THEN @ \cup {"drift"} ELSE @]
           more == [a EXCEPT !.nudges = @ + 1]
           again == [a EXCEPT !.state = "retryable"]
<1>1. /\ n \in Node /\ graph.active[n] # 0 /\ last \in Attempt
      /\ last.state = "running" /\ last.worker = "none"
  BY PrimaryAttempt
<1>2. \/ Commit(Refreshed(Settled(graph, n, again, "retryable")))
      \/ Commit(BlockedBy(graph, n, a))
      \/ MayNudge(a) /\ Note(Attempted(n, more))
      \/ ~MayNudge(a) /\ Commit(BlockedBy(graph, n, more))
      \/ Commit(Accepted(n, a, t))
  BY DEF ProposeCompletion
<1>3. a \in Attempt /\ a.state = "running" /\ a.worker = "none"
  BY <1>1 DEF Attempt, Failures, Recoverable
<1> HIDE DEF a
<1>4. again \in Attempt /\ again.state = "retryable" /\ again.worker = "none"
  BY <1>3 DEF Attempt, AttemptStates
<1>5. a.nudges \in 0 .. 2
  <2>1. a.nudges = last.nudges
    BY <1>1 DEF Attempt, a
  <2>2. last.nudges <= 2 /\ last.nudges \in 0 .. 3
    BY <1>1, PrimaryAttempt DEF Attempt
  <2> QED BY <2>1, <2>2
<1>6. more \in Attempt /\ more.state = "running" /\ more.worker = "none"
      /\ more.nudges = a.nudges + 1
  BY <1>3, <1>5 DEF Attempt
<1> HIDE DEF again, more
<1>7. CASE Commit(Refreshed(Settled(graph, n, again, "retryable")))
  <2>1. "retryable" \in NodeStates \ {"running", "ready", "integrated"}
    BY DEF NodeStates
  <2>2. Sound(Settled(graph, n, again, "retryable"))
    BY <1>1, <1>4, <2>1, SettledSound
  <2> QED BY <1>7, <2>2, RefreshedSound DEF Commit
<1>8. CASE Commit(BlockedBy(graph, n, a)) \/ Commit(BlockedBy(graph, n, more))
  BY <1>1, <1>3, <1>6, <1>8, BlockedBySound DEF Commit
<1>9. CASE MayNudge(a) /\ Note(Attempted(n, more))
  <2>1. Sound(Attempted(n, more))
    BY <1>5, <1>6, <1>9, AttemptedSound DEF MayNudge
  <2> QED BY <1>9, <2>1 DEF Note
<1>10. CASE Commit(Accepted(n, a, t))
  BY <1>3, <1>10, AcceptedSound DEF Commit
<1> QED BY <1>2, <1>7, <1>8, <1>9, <1>10

(* The primary lane keeps the invariant.                                     *)
LEMMA PrimaryKeeps == ASSUME IInv, NEW n \in Node, Primary(n) PROVE IInv'
<1>1. /\ graph \in Snapshot /\ Sound(graph) /\ world \in Token
      /\ pass \in {<<>>} \cup {<<t>> : t \in Observation} /\ inDoubt \subseteq Node \X Nat
  BY DEF IInv, TypeOK, Sound
<1>2. Observed \subseteq Observation /\ Token \subseteq Observation
  BY <1>1 DEF Observed, Observation
<1> DEFINE a == Last(graph, n)
<1>3. ASSUME n \in Running(graph, "primary")
      PROVE  /\ a \in Attempt /\ a.state = "running" /\ a.worker = "none" /\ a.nudges <= 2
             /\ graph.active[n] # 0
  BY <1>1, <1>3, PrimaryAttempt
<1>4. ASSUME Sound(graph'), disk' \in {disk, graph'}, up, UNCHANGED <<up, pass, inDoubt>>,
             world' \in Token
      PROVE  IInv'
  BY <1>1, <1>4, StepKeeps
<1> HIDE DEF a
<1>5. CASE RecordPrimaryUsage(n)
  <2> DEFINE h == [graph EXCEPT !.spent = @ + 1]
  <2>1. /\ graph.spent + 1 \in Nat /\ h = [graph EXCEPT !.spent = graph.spent + 1]
        /\ graph.token \in Observation /\ graph.mutation \in Nat
    BY <1>1 DEF Snapshot
  <2>2. Sound(h)
    BY <1>1, <2>1, AccountSound
  <2>3. Commit(Exhausted(h)) \/ Note(h)
    BY <1>5 DEF RecordPrimaryUsage
  <2> HIDE DEF h
  <2>4. Sound(graph') /\ disk' \in {disk, graph'}
    BY <2>2, <2>3, ExhaustedSound DEF Commit, Note
  <2> QED BY <1>1, <1>4, <1>5, <2>4 DEF RecordPrimaryUsage, Idling, Working, Quiet, Still
<1>6. ASSUME NEW kind \in ToolKinds, NEW t \in Observed, BeginTool(n, kind, t) PROVE IInv'
  <2> DEFINE mutating == kind \in Mutating
             pending == [kind |-> kind, mutation |-> a.mutation,
                         base |-> IF mutating THEN t ELSE NoToken]
             m == IF mutating THEN graph.mutation + 1 ELSE a.mutation
             mutated == a.mutated \/ mutating
             wrote == a.wrote \/ kind = "write"
             b == [a EXCEPT !.pending = pending, !.mutation = m,
                            !.mutated = mutated, !.wrote = wrote]
             c == [a EXCEPT !.failures = @ \cup {"policy"}]
             g == Attempted(n, b)
             h == [g EXCEPT !.mutation = IF mutating THEN @ + 1 ELSE @]
  <2>1. n \in Running(graph, "primary") /\ up
    BY <1>6 DEF BeginTool, Idling, Working
  <2>2. kind \in Kinds /\ t \in Observation /\ NoToken \in Observation
    BY <1>2, EnvironmentAssumption DEF Observation
  <2>3. pending \in Action
    BY <1>3, <2>1, <2>2 DEF Action, Attempt
  <2>4. Commit(Attempted(n, c)) \/ Logged(kind, h)
    <3>1. [a EXCEPT !.pending = pending,
                    !.mutation = IF mutating THEN graph.mutation + 1 ELSE @,
                    !.mutated = @ \/ mutating, !.wrote = @ \/ kind = "write"] = b
      BY <1>3, <2>1 DEF Attempt
    <3> QED BY <1>6, <3>1 DEF BeginTool, a
  <2>5. c \in Attempt /\ c.state = "running" /\ c.worker = "none" /\ c.nudges = a.nudges
    BY <1>3, <2>1 DEF Attempt, Failures, Hard
  <2>6. graph.mutation \in Nat /\ a.mutation \in Nat
    BY <1>1, <1>3, <2>1 DEF Snapshot, Attempt
  <2>6a. m \in Nat /\ mutated \in BOOLEAN /\ wrote \in BOOLEAN
    BY <2>6
  <2> HIDE DEF pending, mutating, m, mutated, wrote
  <2>7. b \in Attempt /\ b.state = "running" /\ b.worker = "none" /\ b.nudges = a.nudges
    BY <1>3, <2>1, <2>3, <2>6a DEF Attempt
  <2> HIDE DEF b, c
  <2>8. Sound(g) /\ g.mutation = graph.mutation
    BY <1>1, <1>3, <2>1, <2>7, AttemptedSound
  <2> HIDE DEF g
  <2>9. h = [g EXCEPT !.mutation = IF mutating THEN g.mutation + 1 ELSE g.mutation]
    BY <2>8 DEF Sound, Snapshot
  <2>10. (IF mutating THEN g.mutation + 1 ELSE g.mutation) \in Nat
    BY <2>6, <2>8
  <2>11. Sound(h)
    BY <1>2, <2>8, <2>9, <2>10, AccountSound
  <2>12. Sound(Attempted(n, c))
    BY <1>1, <1>3, <2>1, <2>5, AttemptedSound
  <2> HIDE DEF h
  <2>13. Sound(graph') /\ disk' \in {disk, graph'}
    BY <2>4, <2>11, <2>12 DEF Commit, Logged, Note
  <2> QED BY <1>1, <1>4, <1>6, <2>1, <2>13 DEF BeginTool, Quiet, Still
<1>7. ASSUME NEW w \in Token, NEW t \in Observation, NEW r \in ToolResults,
             FinishTool(n, w, t, r)
      PROVE  IInv'
  <2> DEFINE p == a.pending
             mutating == p.kind \in Mutating
             generation == IF mutating /\ t # NoToken /\ t = p.base
                           THEN p.mutation ELSE a.mutation
             done == [a EXCEPT !.pending = NoAction, !.mutation = generation]
             proof == IF r.verifies THEN {<<generation, t>>} ELSE {}
             bad == [done EXCEPT !.failures = @ \cup {r.failure}]
             good == [done EXCEPT !.worked = TRUE, !.failures = @ \ r.resolves,
                                  !.proofs = @ \cup proof]
             b == IF r.failed THEN bad ELSE good
             g == Attempted(n, b)
             h == [g EXCEPT !.token = IF mutating /\ t # NoToken THEN t ELSE @]
  <2>1. n \in Running(graph, "primary") /\ up /\ world' = w /\ UNCHANGED <<up, pass, inDoubt>>
    BY <1>7 DEF FinishTool, Working
  <2>2. Logged(p.kind, h)
    BY <1>7 DEF FinishTool, a
  <2>3. p \in Action /\ a.mutation \in Nat
    BY <1>3, <2>1 DEF Attempt
  <2>4. generation \in Nat
    BY <2>3 DEF Action
  <2>5. NoAction \in Action
    BY DEF Action, NoAction, Observation
  <2>6. r.failure \in Failures
    BY EnvironmentAssumption DEF ToolResults, Failed, Passed, Failures, Hard, Recoverable
  <2> HIDE DEF generation
  <2>7. proof \in SUBSET (Nat \X Observation)
    BY <2>4
  <2> HIDE DEF proof
  <2>8. done \in Attempt /\ done.state = "running" /\ done.worker = "none"
        /\ done.nudges = a.nudges
    BY <1>3, <2>1, <2>4, <2>5 DEF Attempt
  <2> HIDE DEF done
  <2>9. bad \in Attempt /\ bad.state = "running" /\ bad.worker = "none"
        /\ bad.nudges = a.nudges
    BY <2>6, <2>8 DEF Attempt
  <2>10. good \in Attempt /\ good.state = "running" /\ good.worker = "none"
        /\ good.nudges = a.nudges
    BY <2>7, <2>8 DEF Attempt
  <2> HIDE DEF bad, good
  <2>11. b \in Attempt /\ b.state = "running" /\ b.worker = "none" /\ b.nudges <= 2
    BY <1>3, <2>1, <2>9, <2>10
  <2> HIDE DEF b
  <2>12. Sound(g) /\ g.token = graph.token
    BY <1>1, <2>1, <2>11, AttemptedSound
  <2> HIDE DEF g, mutating
  <2>13. h = [g EXCEPT !.token = IF mutating /\ t # NoToken THEN t ELSE g.token]
         /\ g.token \in Observation
    BY <2>12 DEF Sound, Snapshot
  <2>14. Sound(h)
    BY <2>12, <2>13, AccountSound
  <2> HIDE DEF h
  <2>15. Sound(graph') /\ disk' \in {disk, graph'}
    BY <2>2, <2>14 DEF Logged, Commit, Note
  <2> QED BY <1>4, <2>1, <2>15
<1>8. ASSUME NEW f \in FailureKinds, RecordFailure(n, f) PROVE IInv'
  <2> DEFINE b == [a EXCEPT !.failures = @ \cup {f}]
  <2>1. n \in Running(graph, "primary") /\ up /\ Commit(Attempted(n, b))
    BY <1>8 DEF RecordFailure, Idling, Working, a
  <2>2. f \in Failures
    BY EnvironmentAssumption DEF Failures, Hard, Recoverable
  <2>3. b \in Attempt /\ b.state = "running" /\ b.worker = "none" /\ b.nudges = a.nudges
    BY <1>3, <2>1, <2>2 DEF Attempt
  <2> HIDE DEF b
  <2>4. Sound(Attempted(n, b))
    BY <1>1, <1>3, <2>1, <2>3, AttemptedSound
  <2> QED BY <1>1, <1>4, <1>8, <2>1, <2>4 DEF RecordFailure, Commit, Quiet, Still
<1>9. ASSUME NEW t \in Observed, ProposeCompletion(n, t) PROVE IInv'
  <2>1. n \in Running(graph, "primary") /\ up /\ Quiet
    BY <1>9 DEF ProposeCompletion, Idling, Working
  <2>2. Sound(graph') /\ disk' \in {disk, graph'}
    BY <1>1, <1>2, <1>9, <2>1, ProposedSound
  <2> QED BY <1>1, <1>4, <2>1, <2>2 DEF Quiet, Still
<1>10. CASE BlockActive(n)
  <2>1. n \in Running(graph, "primary") /\ up /\ Quiet /\ Commit(BlockedBy(graph, n, a))
    BY <1>10 DEF BlockActive, Idling, Working, a
  <2>2. Sound(BlockedBy(graph, n, a))
    BY <1>1, <1>3, <2>1, BlockedBySound
  <2> QED BY <1>1, <1>4, <2>1, <2>2 DEF Commit, Quiet, Still
<1>11. CASE ExhaustBudget(n)
  <2>1. up /\ Quiet /\ Commit(Exhausted(graph))
    BY <1>11 DEF ExhaustBudget, Idling, Working
  <2> QED BY <1>1, <1>4, <2>1, ExhaustedSound DEF Commit, Quiet, Still
<1> QED BY <1>5, <1>6, <1>7, <1>8, <1>9, <1>10, <1>11 DEF Primary

(* Charging a worker's latest attempt keeps the books.                        *)
LEMMA ChargedSound ==
    ASSUME NEW h, Sound(h), NEW n \in Out(h), NEW a \in Attempt,
           InPlace(a, Last(h, n)), NEW cost \in Nat
    PROVE  /\ Sound(Charged(h, n, a, cost))
           /\ Charged(h, n, a, cost).active = h.active
           /\ Charged(h, n, a, cost).outcome = h.outcome
<1> DEFINE i == Len(h.attempts[n])
           b == [a EXCEPT !.billed = TRUE]
           g == [h EXCEPT !.attempts[n][i] = b]
           s == IF Last(h, n).billed THEN h.spent ELSE h.spent + cost
<1>1. /\ n \in Node /\ i \in DOMAIN h.attempts[n] /\ Last(h, n) = h.attempts[n][i]
  BY OutAttempt
<1>2. b \in Attempt /\ InPlace(b, Last(h, n))
  BY DEF Attempt, InPlace
<1>3. h \in Snapshot /\ h.spent \in Nat
  BY DEF Sound, Snapshot
<1>4. Charged(h, n, a, cost) = [g EXCEPT !.spent = s]
  BY <1>3 DEF Charged, Snapshot
<1> HIDE DEF b
<1>4a. b \in Attempt /\ InPlace(b, h.attempts[n][i])
  BY <1>1, <1>2
<1> HIDE DEF i
<1>5. Sound(g) /\ g.active = h.active /\ g.outcome = h.outcome
  <2>1. Sound(g)
    BY <1>1, <1>4a, EditOneSound
  <2>2. g.active = h.active /\ g.outcome = h.outcome
    BY <1>3 DEF Snapshot
  <2> QED BY <2>1, <2>2
<1>6. s \in Nat /\ g.token \in Observation /\ g.mutation \in Nat
  BY <1>3, <1>5 DEF Sound, Snapshot
<1> HIDE DEF g, s
<1>7. Sound([g EXCEPT !.spent = s])
  BY <1>5, <1>6, AccountSound
<1>8. /\ [g EXCEPT !.spent = s].active = g.active
      /\ [g EXCEPT !.spent = s].outcome = g.outcome
  BY <1>5 DEF Sound, Snapshot
<1> QED BY <1>4, <1>5, <1>7, <1>8

(* A worker's return keeps the books.                                        *)
LEMMA BackSound ==
    ASSUME NEW h, Sound(h), NEW n \in Out(h)
    PROVE  /\ Sound(Back(h, n))
           /\ Back(h, n).attempts[n] \in Seq(Attempt)
           /\ DOMAIN Back(h, n).attempts[n] = DOMAIN h.attempts[n]
           /\ Len(Back(h, n).attempts[n]) = Len(h.attempts[n])
           /\ \A k \in DOMAIN h.attempts[n] :
                InPlace(Back(h, n).attempts[n][k], h.attempts[n][k])
<1> DEFINE i == Len(h.attempts[n])
           b == [Last(h, n) EXCEPT !.worker = "back"]
           g == [h EXCEPT !.attempts[n][i] = b]
<1>1. /\ n \in Node /\ i \in DOMAIN h.attempts[n] /\ Last(h, n) = h.attempts[n][i]
      /\ Last(h, n) \in Attempt /\ Last(h, n).worker = "out"
      /\ Last(h, n).state = "running" => Last(h, n).nudges <= 2
      /\ h.attempts[n] \in Seq(Attempt)
  BY OutAttempt
<1>2. b \in Attempt /\ InPlace(b, Last(h, n))
  BY <1>1 DEF Attempt, InPlace
<1>3. h \in Snapshot /\ Books(h)
  BY DEF Sound
<1>4. Back(h, n) = g
  BY <1>1, <1>3 DEF Back, Snapshot, Last
<1> HIDE DEF b
<1>5. /\ Sound(g) /\ g.attempts[n] = [h.attempts[n] EXCEPT ![i] = b]
  BY <1>1, <1>2, EditOneSound
<1>6. /\ [h.attempts[n] EXCEPT ![i] = b] \in Seq(Attempt)
      /\ Len([h.attempts[n] EXCEPT ![i] = b]) = Len(h.attempts[n])
      /\ DOMAIN [h.attempts[n] EXCEPT ![i] = b] = DOMAIN h.attempts[n]
      /\ \A k \in DOMAIN h.attempts[n] :
            [h.attempts[n] EXCEPT ![i] = b][k] = IF k = i THEN b ELSE h.attempts[n][k]
  BY <1>1, <1>2, SeqEdit
<1>7. \A k \in DOMAIN h.attempts[n] : InPlace(h.attempts[n][k], h.attempts[n][k])
  BY <1>1, <1>3 DEF Books, WorkersBelong, InPlace
<1> HIDE DEF g, i
<1> QED BY <1>1, <1>2, <1>4, <1>5, <1>6, <1>7

(* Stranding a wave of reads keeps the books: their attempts run on.          *)
LEMMA StrandSound ==
    ASSUME NEW h, Sound(h), NEW W \in SUBSET Out(h)
    PROVE  Sound([h EXCEPT !.attempts = [m \in Node |->
               IF m \in W THEN Back(h, m).attempts[m] ELSE @[m]]])
<1> DEFINE g == [h EXCEPT !.attempts = [m \in Node |->
               IF m \in W THEN Back(h, m).attempts[m] ELSE @[m]]]
<1>1. h \in Snapshot /\ Books(h)
  BY DEF Sound
<1>2. /\ g.plan = h.plan /\ g.state = h.state /\ g.active = h.active
      /\ g.accepted = h.accepted /\ g.used = h.used /\ g.cap = h.cap
      /\ g.outcome = h.outcome /\ g.pause = h.pause /\ g.clock = h.clock
      /\ g.starts = h.starts /\ g.maxStarts = h.maxStarts
      /\ \A m \in Node : g.attempts[m] =
            IF m \in W THEN Back(h, m).attempts[m] ELSE h.attempts[m]
  BY <1>1 DEF Snapshot
<1>3. g \in Snapshot
  <2>1. \A m \in Node : (IF m \in W THEN Back(h, m).attempts[m] ELSE h.attempts[m])
                            \in Seq(Attempt)
    BY <1>1, BackSound DEF Snapshot
  <2> QED BY <1>1, <2>1 DEF Snapshot
<1> HIDE DEF g
<1>4. ASSUME NEW m \in Node
      PROVE  /\ DOMAIN g.attempts[m] = DOMAIN h.attempts[m]
             /\ Len(g.attempts[m]) = Len(h.attempts[m])
             /\ \A k \in DOMAIN h.attempts[m] : InPlace(g.attempts[m][k], h.attempts[m][k])
  <2>1. CASE m \in W
    BY <1>2, <2>1, BackSound
  <2>2. CASE m \notin W
    BY <1>1, <1>2, <2>2 DEF Books, WorkersBelong, InPlace
  <2> QED BY <2>1, <2>2
<1>5. EditOf(g, h)
  BY <1>2, <1>4 DEF EditOf
<1> QED BY <1>1, <1>3, <1>5, EditSound DEF g

(* Refusing a wave before dispatch keeps the books: every node of it is       *)
(* blocked, and its worker never left.                                       *)
LEMMA RefusedSound ==
    ASSUME Sound(graph), RefuseWave
    PROVE  Sound(graph') /\ disk' = graph'
<1> DEFINE wave == OutIn("isolated_write")
           ended(n) == [Last(graph, n) EXCEPT !.state = "blocked",
                                              !.billed = TRUE, !.worker = "back"]
           l(n) == IF n \in wave
                   THEN [graph.attempts[n] EXCEPT ![Len(graph.attempts[n])] = ended(n)]
                   ELSE graph.attempts[n]
           h == [graph EXCEPT
                   !.attempts = [n \in Node |-> l(n)],
                   !.state = [n \in Node |-> IF n \in wave THEN "blocked" ELSE @[n]],
                   !.active = [n \in Node |-> IF n \in wave THEN 0 ELSE @[n]]]
<1>1. graph \in Snapshot /\ Books(graph) /\ graph.outcome = "none"
  BY DEF Sound, RefuseWave
<1>2. graph' = Reduced(h) /\ disk' = graph'
  BY <1>1 DEF RefuseWave, Commit, Snapshot
<1>3. ASSUME NEW n \in wave
      PROVE  /\ n \in Node /\ graph.active[n] = Len(graph.attempts[n])
             /\ l(n) \in Seq(Attempt)
             /\ DOMAIN l(n) = DOMAIN graph.attempts[n]
             /\ Len(l(n)) = Len(graph.attempts[n])
             /\ \A k \in DOMAIN graph.attempts[n] :
                  IF k = Len(graph.attempts[n])
                  THEN l(n)[k].state = "blocked" /\ l(n)[k].worker = "back"
                  ELSE l(n)[k] = graph.attempts[n][k]
             /\ graph.state[n] = "running" /\ graph.active[n] # 0
  <2> DEFINE i == Len(graph.attempts[n])
             b == ended(n)
  <2>1. n \in Out(graph)
    BY <1>3 DEF OutIn
  <2>2. /\ n \in Node /\ n \in graph.plan.nodes /\ i \in DOMAIN graph.attempts[n]
        /\ graph.attempts[n] \in Seq(Attempt)
        /\ Last(graph, n) \in Attempt /\ Last(graph, n) = graph.attempts[n][i]
        /\ Last(graph, n).state = "running" /\ graph.active[n] # 0
        /\ graph.active[n] = i
    BY <1>1, <2>1, OutAttempt
  <2>3. b \in Attempt /\ b.state = "blocked" /\ b.worker = "back"
    BY <2>2 DEF Attempt, AttemptStates
  <2>4. graph.state[n] = "running"
    BY <1>1, <2>2 DEF Books, RunsOnce
  <2> HIDE DEF b, i
  <2>5. /\ [graph.attempts[n] EXCEPT ![i] = b] \in Seq(Attempt)
        /\ Len([graph.attempts[n] EXCEPT ![i] = b]) = Len(graph.attempts[n])
        /\ DOMAIN [graph.attempts[n] EXCEPT ![i] = b] = DOMAIN graph.attempts[n]
        /\ \A k \in DOMAIN graph.attempts[n] :
             [graph.attempts[n] EXCEPT ![i] = b][k] =
                IF k = i THEN b ELSE graph.attempts[n][k]
    BY <2>2, <2>3, SeqEdit
  <2>6. l(n) = [graph.attempts[n] EXCEPT ![i] = b]
    BY <1>3 DEF b, i
  <2> HIDE DEF l, wave
  <2> QED BY <2>2, <2>3, <2>4, <2>5, <2>6 DEF i
<1>4. \A n \in Node \ wave : l(n) = graph.attempts[n]
  OBVIOUS
<1> HIDE DEF wave, l
<1>5. \A n \in Node :
        /\ l(n) \in Seq(Attempt)
        /\ DOMAIN l(n) = DOMAIN graph.attempts[n]
        /\ Len(l(n)) = Len(graph.attempts[n])
        /\ \A k \in DOMAIN graph.attempts[n] :
             IF n \in wave /\ k = Len(graph.attempts[n])
             THEN l(n)[k].state = "blocked" /\ l(n)[k].worker = "back"
             ELSE l(n)[k] = graph.attempts[n][k]
  BY <1>1, <1>3, <1>4 DEF Snapshot
<1>6. /\ h.plan = graph.plan /\ h.accepted = graph.accepted
      /\ h.used = graph.used /\ h.cap = graph.cap
      /\ h.outcome = "none" /\ h.pause = graph.pause /\ h.clock = graph.clock
      /\ h.starts = graph.starts /\ h.maxStarts = graph.maxStarts
      /\ \A n \in Node :
          /\ h.attempts[n] = l(n)
          /\ h.state[n] = IF n \in wave THEN "blocked" ELSE graph.state[n]
          /\ h.active[n] = IF n \in wave THEN 0 ELSE graph.active[n]
  BY <1>1 DEF Snapshot
<1>7. h \in Snapshot
  <2>1. [n \in Node |-> l(n)] \in [Node -> Seq(Attempt)]
    BY <1>5
  <2> QED BY <1>1, <2>1 DEF Snapshot, NodeStates
<1> HIDE DEF h
<1>8. graph.plan.nodes \subseteq Node
  BY <1>1, PlanNodes
<1>9. \A n \in Node :
        /\ DOMAIN h.attempts[n] = DOMAIN graph.attempts[n]
        /\ Len(h.attempts[n]) = Len(graph.attempts[n])
        /\ \A k \in DOMAIN graph.attempts[n] :
             IF n \in wave /\ k = Len(graph.attempts[n])
             THEN h.attempts[n][k].state = "blocked" /\ h.attempts[n][k].worker = "back"
             ELSE h.attempts[n][k] = graph.attempts[n][k]
  BY <1>5, <1>6
<1>10. RunsOnce(h)
  BY <1>1, <1>3, <1>6, <1>9 DEF Books, RunsOnce
<1>11. ActiveRuns(h) /\ RunningActive(h)
  <2>1. \A n \in Node \ wave : h.attempts[n] = graph.attempts[n]
    BY <1>4, <1>6
  <2> QED BY <1>1, <1>6, <1>8, <2>1 DEF Books, ActiveRuns, RunningActive
<1>12. WorkersBelong(h)
  BY <1>1, <1>6, <1>9 DEF Books, WorkersBelong
<1>13. ResultsHeld(h)
  <2>1. \A m \in Node : Held(h, m) = Held(graph, m) /\ Held(graph, m) \subseteq DOMAIN graph.attempts[m]
    BY <1>6, <1>9 DEF Held
  <2>2. ASSUME NEW m \in graph.plan.nodes, m \in wave
        PROVE  graph.accepted[m] = 0 /\ h.state[m] = "blocked"
    BY <1>1, <1>3, <1>6, <1>8, <2>2 DEF Books, ResultsHeld
  <2>3. \A m \in Node \ wave : h.attempts[m] = graph.attempts[m] /\ h.state[m] = graph.state[m]
    BY <1>4, <1>6
  <2> QED BY <1>1, <1>6, <1>8, <2>1, <2>2, <2>3 DEF Books, ResultsHeld
<1>14. WithinCap(h)
  BY <1>1, <1>6, <1>8, <1>9 DEF Books, WithinCap
<1>15. LanesWellFormed(h)
  BY <1>1, <1>6, <1>8, LanesShrink DEF Books
<1>16. Ended(h) /\ StartsBounded(h)
  BY <1>1, <1>6 DEF Books, Ended, PauseWellFormed, StartsBounded
<1>17. Sound(h)
  BY <1>7, <1>10, <1>11, <1>12, <1>13, <1>14, <1>15, <1>16 DEF Sound, Books
<1> QED BY <1>2, <1>17, ReducedSound

(* Settling a worker's attempt keeps the books, and so do the readying and    *)
(* the verdict that follow.                                                  *)
LEMMA ReturnedSound ==
    ASSUME NEW h, Sound(h), NEW n \in Node, h.active[n] # 0,
           NEW a \in Attempt, a.worker # "out",
           NEW s \in AttemptStates \ {"running"},
           NEW t \in NodeStates \ {"running", "ready", "integrated"},
           t = "done" => s = "accepted"
    PROVE  /\ Sound(Reduced(Settled(h, n, [a EXCEPT !.state = s], t)))
           /\ Sound(Reduced(Refreshed(Settled(h, n, [a EXCEPT !.state = s], t))))
<1> DEFINE b == [a EXCEPT !.state = s]
<1>1. b \in Attempt /\ b.state = s /\ b.worker # "out"
  BY DEF Attempt
<1> HIDE DEF b
<1>2. Sound(Settled(h, n, b, t))
  BY <1>1, SettledSound
<1>3. Sound(Reduced(Settled(h, n, b, t))) /\ Sound(Reduced(Refreshed(Settled(h, n, b, t))))
  BY <1>2, ReducedSound, RefreshedSound
<1> QED BY <1>3 DEF b

(* A read worker's result keeps the books.                                    *)
LEMMA FinishReadSound ==
    ASSUME Sound(graph), NEW n \in Node, NEW t, NEW s, FinishRead(n, t, s)
    PROVE  Sound(graph') /\ disk' = graph'
<1> DEFINE a == [Last(graph, n) EXCEPT !.worker = "back"]
           to(x, y) == Settled(graph, n, [a EXCEPT !.state = x], y)
<1>1. n \in Out(graph) /\ graph.outcome = "none"
  BY DEF FinishRead, OutIn
<1>2. Last(graph, n) \in Attempt /\ graph.active[n] # 0
  BY <1>1, OutAttempt
<1>3. a \in Attempt /\ a.worker = "back"
  BY <1>2 DEF Attempt
<1>4. \/ Commit(Reduced(Refreshed(to("accepted", "done"))))
      \/ Commit(Reduced(Refreshed(to("retryable", "retryable"))))
      \/ Commit(Reduced(to("blocked", "blocked")))
      \/ Commit(Reduced(to("budget_exhausted", "budget_exhausted")))
      \/ Commit(Reduced(to("cancelled", "blocked")))
  BY DEF FinishRead
<1> HIDE DEF a
<1>5. /\ {"accepted", "retryable", "blocked", "budget_exhausted", "cancelled"}
            \subseteq AttemptStates \ {"running"}
      /\ {"done", "retryable", "blocked", "budget_exhausted"}
            \subseteq NodeStates \ {"running", "ready", "integrated"}
  BY DEF AttemptStates, NodeStates
<1>6. \A x \in AttemptStates \ {"running"},
         y \in NodeStates \ {"running", "ready", "integrated"} :
        (y = "done" => x = "accepted") =>
            Sound(Reduced(to(x, y))) /\ Sound(Reduced(Refreshed(to(x, y))))
  BY <1>2, <1>3, ReturnedSound
<1> HIDE DEF to
<1> QED BY <1>4, <1>5, <1>6 DEF Commit

(* A writer's result keeps the books.                                         *)
LEMMA FinishWriterSound ==
    ASSUME Sound(graph), NEW n \in Node, NEW t, NEW s, NEW c \in BOOLEAN, NEW v,
           NEW x \in Costs, FinishWriter(n, t, s, c, v, x)
    PROVE  Sound(graph') /\ disk' = graph'
<1> DEFINE last == Last(graph, n)
           a == [last EXCEPT !.worker = "back", !.candidate = c,
                             !.tree = IF c THEN "kept" ELSE "none"]
           b == [a EXCEPT !.billed = TRUE]
           h == Charged(graph, n, a, x)
           to(y, z) == Reduced(Settled(h, n, [b EXCEPT !.state = y], z))
<1>1. n \in Out(graph) /\ x \in Nat
  BY EnvironmentAssumption DEF FinishWriter, OutIn
<1>2. last \in Attempt /\ last.worker = "out"
      /\ (last.state = "running" => last.nudges <= 2)
      /\ (graph.outcome = "none" => graph.active[n] # 0)
  BY <1>1, OutAttempt
<1>3. a \in Attempt /\ a.worker = "back" /\ a.state = last.state /\ a.nudges = last.nudges
  BY <1>2 DEF Attempt, Trees
<1>4. \/ Commit(h)
      \/ graph.outcome = "none" /\ \/ Commit(to("candidate", "awaiting_review"))
                                   \/ Commit(to("budget_exhausted", "budget_exhausted"))
                                   \/ Commit(to("cancelled", "blocked"))
                                   \/ Commit(to("blocked", "blocked"))
  <2>1. \A y : [a EXCEPT !.billed = TRUE, !.state = y] = [b EXCEPT !.state = y]
    BY <1>3 DEF Attempt
  <2> HIDE DEF b
  <2>2. \/ Commit(h)
        \/ graph.outcome = "none" /\ \/ Commit(to("candidate", "awaiting_review"))
                                     \/ Commit(to("budget_exhausted", "budget_exhausted"))
                                     \/ Commit(to(IF s = "cancelled" THEN "cancelled"
                                                  ELSE "blocked", "blocked"))
    BY <2>1 DEF FinishWriter
  <2> HIDE DEF to, h
  <2> QED BY <2>2
<1>5. InPlace(a, last)
  BY <1>2, <1>3 DEF InPlace
<1> HIDE DEF a
<1>6. b \in Attempt /\ b.worker = "back"
  BY <1>3 DEF Attempt
<1> HIDE DEF b
<1>7. Sound(h) /\ h.active = graph.active
  BY <1>1, <1>3, <1>5, ChargedSound
<1> HIDE DEF h
<1>8. /\ {"candidate", "blocked", "budget_exhausted", "cancelled"}
            \subseteq AttemptStates \ {"running"}
      /\ {"awaiting_review", "blocked", "budget_exhausted"}
            \subseteq NodeStates \ {"running", "ready", "integrated"}
  BY DEF AttemptStates, NodeStates
<1>9. graph.outcome = "none" =>
        \A y \in AttemptStates \ {"running"},
           z \in NodeStates \ {"running", "ready", "integrated"} :
             z # "done" => Sound(to(y, z))
  BY <1>2, <1>6, <1>7, ReturnedSound
<1> HIDE DEF to
<1> QED BY <1>4, <1>7, <1>8, <1>9 DEF Commit

(* Waves keep the invariant.                                                  *)
LEMMA WavesKeeps == ASSUME IInv, NEW n \in Node, Waves(n) PROVE IInv'
<1>1. /\ graph \in Snapshot /\ Sound(graph) /\ world \in Token
      /\ pass \in {<<>>} \cup {<<t>> : t \in Observation} /\ inDoubt \subseteq Node \X Nat
  BY DEF IInv, TypeOK, Sound
<1>2. ASSUME Sound(graph'), disk' \in {disk, graph'}, up, Quiet PROVE IInv'
  BY <1>1, <1>2, StepKeeps DEF Quiet, Still
<1>3. ASSUME NEW e \in Workers, NEW c \in Costs, NEW b \in BOOLEAN, RecordUsage(n, e, c, b)
      PROVE  IInv'
  <2> DEFINE a == [Last(graph, n) EXCEPT !.cached = b]
             h == Charged(graph, n, a, c)
  <2>1. n \in Out(graph) /\ c \in Nat /\ up /\ Quiet
    BY <1>3, EnvironmentAssumption DEF RecordUsage, OutIn
  <2>2. Commit(Exhausted(h)) \/ Note(h)
    BY <1>3 DEF RecordUsage
  <2>3. a \in Attempt /\ InPlace(a, Last(graph, n))
    <3>1. Last(graph, n) \in Attempt
          /\ (Last(graph, n).state = "running" => Last(graph, n).nudges <= 2)
      BY <1>1, <2>1, OutAttempt
    <3> QED BY <3>1 DEF Attempt, InPlace
  <2> HIDE DEF a
  <2>4. Sound(h)
    BY <1>1, <2>1, <2>3, ChargedSound
  <2> HIDE DEF h
  <2>5. Sound(graph') /\ disk' \in {disk, graph'}
    BY <2>2, <2>4, ExhaustedSound DEF Commit, Note
  <2> QED BY <1>2, <2>1, <2>5
<1>4. CASE StrandReads(n)
  <2> DEFINE W == OutIn("read_only")
  <2>1. W \in SUBSET Out(graph) /\ up /\ Quiet
    BY <1>4 DEF StrandReads, OutIn
  <2>2. Unsaved([graph EXCEPT !.attempts = [m \in Node |->
           IF m \in W THEN Back(graph, m).attempts[m] ELSE @[m]]])
    BY <1>4 DEF StrandReads
  <2> HIDE DEF W
  <2> QED BY <1>1, <1>2, <2>1, <2>2, StrandSound DEF Unsaved
<1>5. ASSUME NEW t \in Observed, NEW s \in Statuses, FinishRead(n, t, s) PROVE IInv'
  <2>1. up /\ Quiet
    BY <1>5 DEF FinishRead
  <2> QED BY <1>1, <1>2, <1>5, <2>1, FinishReadSound
<1>6. CASE DropRead(n)
  <2>1. up /\ Quiet /\ n \in Out(graph) /\ Unsaved(Back(graph, n))
    BY <1>6 DEF DropRead, OutIn
  <2> QED BY <1>1, <1>2, <2>1, BackSound DEF Unsaved
<1>7. CASE RecordWriterWorktree(n)
  <2> DEFINE i == graph.active[n]
             b == [graph.attempts[n][i] EXCEPT !.tree = "kept"]
  <2>1. up /\ Quiet /\ n \in Out(graph) /\ Last(graph, n).state = "running"
        /\ Commit([graph EXCEPT !.attempts[n][i].tree = "kept"])
    BY <1>7 DEF RecordWriterWorktree, OutIn
  <2>2. /\ n \in Node /\ Last(graph, n) \in Attempt /\ Last(graph, n).nudges <= 2
        /\ Len(graph.attempts[n]) \in DOMAIN graph.attempts[n]
        /\ Last(graph, n) = graph.attempts[n][Len(graph.attempts[n])]
    BY <1>1, <2>1, OutAttempt
  <2>3. i = Len(graph.attempts[n])
    BY <1>1, <2>1, <2>2 DEF Sound, Books, RunsOnce
  <2>4. b \in Attempt /\ InPlace(b, graph.attempts[n][i])
    BY <2>2, <2>3 DEF Attempt, Trees, InPlace
  <2>5. [graph EXCEPT !.attempts[n][i].tree = "kept"] = [graph EXCEPT !.attempts[n][i] = b]
    BY <1>1, <2>2, <2>3 DEF Snapshot
  <2> HIDE DEF b, i
  <2>6. Sound([graph EXCEPT !.attempts[n][i] = b])
    BY <1>1, <2>2, <2>3, <2>4, EditOneSound
  <2> QED BY <1>2, <2>1, <2>5, <2>6 DEF Commit
<1>8. ASSUME NEW t \in Observed, NEW s \in Statuses, NEW c \in BOOLEAN, NEW v \in BOOLEAN,
             NEW x \in Costs, FinishWriter(n, t, s, c, v, x)
      PROVE  IInv'
  <2>1. up /\ Quiet
    BY <1>8 DEF FinishWriter
  <2> QED BY <1>1, <1>2, <1>8, <2>1, FinishWriterSound
<1> QED BY <1>3, <1>4, <1>5, <1>6, <1>7, <1>8 DEF Waves

(* Recording what became of worktrees keeps the books.                        *)
LEMMA DisposedSound ==
    ASSUME Sound(graph), NEW ns, NEW from, NEW to \in Trees
    PROVE  Sound(Disposed(ns, from, to))
<1> DEFINE b(n, k) == IF n \in ns /\ graph.attempts[n][k].tree = from
                      THEN [graph.attempts[n][k] EXCEPT !.tree = to]
                      ELSE graph.attempts[n][k]
           l(n) == [k \in DOMAIN graph.attempts[n] |-> b(n, k)]
           g == Disposed(ns, from, to)
<1>1. graph \in Snapshot /\ Books(graph)
  BY DEF Sound
<1>2. g = [graph EXCEPT !.attempts = [n \in Node |-> l(n)]]
  BY <1>1 DEF Disposed, Snapshot
<1>3. ASSUME NEW n \in Node, NEW k \in DOMAIN graph.attempts[n]
      PROVE  b(n, k) \in Attempt /\ InPlace(b(n, k), graph.attempts[n][k])
  <2>1. graph.attempts[n][k] \in Attempt
        /\ (graph.attempts[n][k].state = "running" => graph.attempts[n][k].nudges <= 2)
    BY <1>1 DEF Snapshot, Books, WorkersBelong
  <2> QED BY <2>1 DEF Attempt, InPlace
<1> HIDE DEF b
<1>4. ASSUME NEW n \in Node
      PROVE  /\ l(n) \in Seq(Attempt) /\ DOMAIN l(n) = DOMAIN graph.attempts[n]
             /\ Len(l(n)) = Len(graph.attempts[n])
             /\ \A k \in DOMAIN graph.attempts[n] : l(n)[k] = b(n, k)
  <2>1. graph.attempts[n] \in Seq(Attempt)
    BY <1>1 DEF Snapshot
  <2>2. l(n) = [k \in DOMAIN graph.attempts[n] |-> l(n)[k]]
        /\ \A k \in DOMAIN graph.attempts[n] : l(n)[k] = b(n, k)
    OBVIOUS
  <2>3. \A k \in DOMAIN graph.attempts[n] : l(n)[k] \in Attempt
    BY <1>3, <2>2
  <2> HIDE DEF l
  <2> QED BY <2>1, <2>2, <2>3, SeqMap
<1> HIDE DEF l, g
<1>5. /\ g.plan = graph.plan /\ g.state = graph.state /\ g.active = graph.active
      /\ g.accepted = graph.accepted /\ g.used = graph.used /\ g.cap = graph.cap
      /\ g.outcome = graph.outcome /\ g.pause = graph.pause /\ g.clock = graph.clock
      /\ g.starts = graph.starts /\ g.maxStarts = graph.maxStarts
      /\ \A n \in Node : g.attempts[n] = l(n)
  BY <1>1, <1>2 DEF Snapshot
<1>6. g \in Snapshot
  <2>1. [n \in Node |-> l(n)] \in [Node -> Seq(Attempt)]
    BY <1>4
  <2> QED BY <1>1, <1>2, <2>1 DEF Snapshot
<1>7. EditOf(g, graph)
  BY <1>3, <1>4, <1>5 DEF EditOf
<1> QED BY <1>1, <1>6, <1>7, EditSound DEF g

(* What restoring a saved snapshot leaves is sound and has no worker out.     *)
LEMMA RestoredSound ==
    ASSUME NEW h, Sound(h)
    PROVE  Sound(Restored(h)) /\ NobodyOut(Restored(h))
<1> DEFINE b(n, k) == [h.attempts[n][k] EXCEPT
                          !.worker = IF @ = "none" THEN @ ELSE "gone"]
           l(n) == [k \in DOMAIN h.attempts[n] |-> b(n, k)]
           g == Restored(h)
<1>1. h \in Snapshot /\ Books(h)
  BY DEF Sound
<1>2. g = [h EXCEPT !.clock = FALSE, !.attempts = [n \in Node |-> l(n)]]
  BY <1>1 DEF Restored, Snapshot
<1>3. ASSUME NEW n \in Node, NEW k \in DOMAIN h.attempts[n]
      PROVE  b(n, k) \in Attempt /\ InPlace(b(n, k), h.attempts[n][k])
             /\ b(n, k).worker # "out"
  <2>1. h.attempts[n][k] \in Attempt
        /\ (h.attempts[n][k].state = "running" => h.attempts[n][k].nudges <= 2)
    BY <1>1 DEF Snapshot, Books, WorkersBelong
  <2> QED BY <2>1 DEF Attempt, InPlace
<1> HIDE DEF b
<1>4. ASSUME NEW n \in Node
      PROVE  /\ l(n) \in Seq(Attempt) /\ DOMAIN l(n) = DOMAIN h.attempts[n]
             /\ Len(l(n)) = Len(h.attempts[n])
             /\ \A k \in DOMAIN h.attempts[n] : l(n)[k] = b(n, k)
  <2>1. h.attempts[n] \in Seq(Attempt)
    BY <1>1 DEF Snapshot
  <2>2. l(n) = [k \in DOMAIN h.attempts[n] |-> l(n)[k]]
        /\ \A k \in DOMAIN h.attempts[n] : l(n)[k] = b(n, k)
    OBVIOUS
  <2>3. \A k \in DOMAIN h.attempts[n] : l(n)[k] \in Attempt
    BY <1>3, <2>2
  <2> HIDE DEF l
  <2> QED BY <2>1, <2>2, <2>3, SeqMap
<1> HIDE DEF l, g
<1>5. /\ g.plan = h.plan /\ g.state = h.state /\ g.active = h.active
      /\ g.accepted = h.accepted /\ g.used = h.used /\ g.cap = h.cap
      /\ g.outcome = h.outcome /\ g.pause = h.pause /\ g.clock = FALSE
      /\ g.starts = h.starts /\ g.maxStarts = h.maxStarts
      /\ \A n \in Node : g.attempts[n] = l(n)
  BY <1>1, <1>2 DEF Snapshot
<1>6. g \in Snapshot
  <2>1. [n \in Node |-> l(n)] \in [Node -> Seq(Attempt)]
    BY <1>4
  <2> QED BY <1>1, <1>2, <2>1 DEF Snapshot
<1>7. EditOf(g, h)
  BY <1>3, <1>4, <1>5 DEF EditOf
<1>8. NobodyOut(g)
  BY <1>3, <1>4, <1>5 DEF NobodyOut
<1> QED BY <1>1, <1>6, <1>7, <1>8, EditSound DEF g

(* The user's commands keep the invariant.                                    *)
LEMMA UserKeeps == ASSUME IInv, User PROVE IInv'
<1>1. /\ graph \in Snapshot /\ Sound(graph) /\ world \in Token
      /\ pass \in {<<>>} \cup {<<t>> : t \in Observation} /\ inDoubt \subseteq Node \X Nat
  BY DEF IInv, TypeOK, Sound
<1>2. ASSUME Sound(graph'), disk' \in {disk, graph'}, up, UNCHANGED <<up, pass, inDoubt>>,
             world' \in Token
      PROVE  IInv'
  BY <1>1, <1>2, StepKeeps
<1>3. ASSUME NEW h, Sound(h), Commit(h), up, Quiet PROVE IInv'
  BY <1>1, <1>2, <1>3 DEF Commit, Quiet, Still
<1>4. Boundary => up /\ NobodyOut(graph)
  BY <1>1, BoundaryNobodyOut DEF Boundary
<1>5. CASE RequestPause
  <2> DEFINE reached == ~HasRunningAttempt(graph)
             p == IF reached THEN "reached" ELSE "requested"
             c == graph.clock /\ ~reached
  <2>1. up /\ Quiet /\ graph.outcome = "none"
        /\ Commit([graph EXCEPT !.pause = p, !.clock = @ /\ ~reached])
    BY <1>5 DEF RequestPause
  <2>2. p \in {"off", "requested", "reached"} /\ c \in BOOLEAN /\ (p = "reached" => c = FALSE)
    OBVIOUS
  <2>3. [graph EXCEPT !.pause = p, !.clock = @ /\ ~reached]
            = [graph EXCEPT !.pause = p, !.clock = c]
    BY <1>1 DEF Snapshot
  <2> HIDE DEF p, c
  <2>4. Sound([graph EXCEPT !.pause = p, !.clock = c])
    BY <1>1, <2>1, <2>2, PacedSound
  <2> QED BY <1>3, <2>1, <2>3, <2>4
<1>6. CASE Resume
  BY <1>1, <1>3, <1>4, <1>6, ResumedSound DEF Resume
<1>7. CASE Cancel
  <2>1. Sound(Terminated(
              [graph EXCEPT
                  !.attempts = RunningEnded(graph, "cancelled"),
                  !.state = [n \in Node |->
                      IF graph.active[n] # 0 THEN "cancelled" ELSE @[n]],
                  !.active = [n \in Node |-> 0]], "cancelled"))
    BY <1>1, CancelledSound
  <2> QED BY <1>3, <1>7, <2>1 DEF Cancel
<1>8. CASE ExtendBudget
  <2> DEFINE h == Extended(graph)
  <2>1. Boundary /\ graph.outcome = "budget_exhausted" /\ Quiet
        /\ Commit(IF h.outcome = "none" THEN Activated(h) ELSE h)
    BY <1>8 DEF ExtendBudget
  <2>2. Sound(h) /\ h.pause = "off"
    BY <1>1, <1>4, <2>1, ExtendedSound
  <2> HIDE DEF h
  <2>3. Sound(IF h.outcome = "none" THEN Activated(h) ELSE h)
    BY <2>2, ResumedSound
  <2> QED BY <1>3, <1>4, <2>1, <2>3
<1>9. CASE ReconcileWorktrees
  <2>1. Sound(Disposed(Node, "kept", "seen"))
    BY <1>1, DisposedSound DEF Trees
  <2> QED BY <1>3, <1>4, <1>9, <2>1 DEF ReconcileWorktrees
<1>10. ASSUME NEW n \in Node, RetryNode(n) PROVE IInv'
  <2> DEFINE h == Reopened(graph)
             g == [h EXCEPT !.state[n] = "retryable"]
  <2>1. /\ Boundary /\ graph.outcome = "blocked" /\ Quiet
        /\ n \in graph.plan.nodes /\ graph.state[n] = "blocked"
        /\ Commit(IF Over(h, TRUE) THEN Exhausted(h) ELSE Reduced(Refreshed(g)))
    BY <1>10 DEF RetryNode, InState
  <2>2. Sound(h) /\ h.outcome = "none" /\ h.state = graph.state /\ h.plan = graph.plan
    BY <1>1, <1>4, <2>1, ReopenedSound
  <2> HIDE DEF h
  <2>3. "retryable" \in NodeStates \ {"running", "done", "ready", "integrated"}
    BY DEF NodeStates
  <2>4. Sound(g)
    BY <2>1, <2>2, <2>3, MovedSound
  <2> HIDE DEF g
  <2>5. Sound(IF Over(h, TRUE) THEN Exhausted(h) ELSE Reduced(Refreshed(g)))
    BY <2>2, <2>4, ExhaustedSound, RefreshedSound, ReducedSound
  <2> QED BY <1>3, <1>4, <2>1, <2>5
<1>11. ASSUME NEW n \in Node, DiscardWorktree(n) PROVE IInv'
  <2>1. Sound(Disposed({n}, "seen", "discarded"))
    BY <1>1, DisposedSound DEF Trees
  <2> QED BY <1>3, <1>4, <1>11, <2>1 DEF DiscardWorktree
<1>12. ASSUME NEW n \in Node, NEW w \in Token, IntegrateCandidate(n, w) PROVE IInv'
  <2>1. Sound(graph') /\ disk' = graph'
    BY <1>12, IntegrateSound
  <2>2. up /\ UNCHANGED <<up, pass, inDoubt>> /\ world' = w
    BY <1>12 DEF IntegrateCandidate, Boundary
  <2> QED BY <1>2, <2>1, <2>2
<1>13. ASSUME NEW waived \in BOOLEAN, AcceptIntegratedNodes(waived) PROVE IInv'
  <2>1. Boundary /\ up /\ Quiet
    BY <1>13 DEF AcceptIntegratedNodes, Boundary
  <2>2. Sound(graph') /\ disk' = graph'
    BY <1>13, <2>1, AcceptIntegratedSound
  <2> QED BY <1>1, <1>2, <2>1, <2>2 DEF Quiet, Still
<1> QED BY <1>5, <1>6, <1>7, <1>8, <1>9, <1>10, <1>11, <1>12, <1>13 DEF User

(* The approved plan is a sound graph.                                       *)
LEMMA InitialSound == Sound(InitialGraph)
<1> DEFINE g == [plan |-> FirstPlan, generation |-> 1,
        state |-> [n \in Node |->
            IF n \in FirstPlan.nodes THEN "proposed" ELSE "absent"],
        active |-> [n \in Node |-> 0], accepted |-> [n \in Node |-> 0],
        used |-> [n \in Node |-> 0], attempts |-> [n \in Node |-> <<>>],
        outcome |-> "none", pause |-> "off", clock |-> TRUE,
        token |-> NoToken, mutation |-> 0, spent |-> 0, limit |-> Envelope,
        cap |-> Attempts, extensions |-> 0, starts |-> [e \in Workers |-> 0],
        maxStarts |-> Starts, retired |-> {}, waived |-> {}]
<1>1. InitialGraph = Refreshed(g)
  BY DEF InitialGraph
<1>2. g \in Snapshot
  BY PlanAssumption, BoundAssumption DEF Snapshot, NodeStates, Outcomes, Observation
<1>3. /\ g.plan = FirstPlan /\ g.outcome = "none" /\ g.pause = "off" /\ g.clock = TRUE
      /\ g.cap \in Nat \ {0} /\ g.cap = Attempts
      /\ g.starts = [e \in Workers |-> 0] /\ g.maxStarts = Starts
      /\ \A n \in Node :
          /\ g.state[n] \in {"proposed", "absent"} /\ g.active[n] = 0
          /\ g.accepted[n] = 0 /\ g.used[n] = 0 /\ g.attempts[n] = <<>>
  BY BoundAssumption
<1> HIDE DEF g
<1>4. g.plan.nodes \subseteq Node
  BY <1>2, PlanNodes
<1>5. RunsOnce(g) /\ ActiveRuns(g) /\ RunningActive(g)
  BY <1>3, <1>4 DEF RunsOnce, ActiveRuns, RunningActive
<1>6. WorkersBelong(g)
  BY <1>3 DEF WorkersBelong
<1>7. ResultsHeld(g)
  BY <1>3, <1>4 DEF ResultsHeld
<1>8. WithinCap(g)
  BY <1>3, <1>4 DEF WithinCap
<1>9. LanesWellFormed(g)
  BY <1>3, <1>4, NoLanes
<1>10. Ended(g)
  BY <1>3 DEF Ended, PauseWellFormed
<1>11. StartsBounded(g)
  BY <1>3, BoundAssumption DEF StartsBounded
<1>12. Sound(g)
  BY <1>2, <1>5, <1>6, <1>7, <1>8, <1>9, <1>10, <1>11 DEF Sound, Books
<1> QED BY <1>1, <1>12, RefreshedSound

(* The books balance when the graph is approved.                              *)
LEMMA InitKeeps == ASSUME Init PROVE IInv
<1>1. Sound(InitialGraph)
  BY InitialSound
<1> HIDE DEF InitialGraph
<1>2. TypeOK
  BY <1>1 DEF Init, TypeOK, Sound
<1> QED BY <1>1, <1>2 DEF Init, IInv, Sound

(* A crash loses what was not saved, and leaves a sound graph nobody works on. *)
LEMMA CrashKeeps == ASSUME IInv, Crash PROVE IInv'
<1>1. Sound(disk) /\ world \in Token /\ graph \in Snapshot /\ inDoubt \subseteq Node \X Nat
  BY DEF IInv, TypeOK, Sound
<1>2. Sound(Restored(disk)) /\ NobodyOut(Restored(disk))
  BY <1>1, RestoredSound
<1>3. /\ graph' = Restored(disk) /\ disk' = Restored(disk) /\ up' = FALSE /\ pass' = <<>>
      /\ world' = world
  BY DEF Crash
<1>4. inDoubt' \subseteq Node \X Nat
  <2>1. \A n \in Node : graph.active[n] \in Nat
    BY <1>1 DEF Snapshot
  <2> QED BY <1>1, <2>1 DEF Crash
<1> HIDE DEF Restored
<1>5. TypeOK'
  BY <1>1, <1>2, <1>3, <1>4 DEF TypeOK, Sound
<1> QED BY <1>2, <1>3, <1>5 DEF IInv, Sound

(* Resuming a saved graph keeps the invariant.                                *)
LEMMA ResumeSavedKeeps ==
    ASSUME IInv, NEW t \in Observed, ResumeSaved(t) PROVE IInv'
<1> DEFINE h == Recovered(graph, t)
           g == IF h.outcome # "none" THEN h
                ELSE IF h.pause # "off" THEN Resumed(h) ELSE Activated(h)
<1>1. /\ Sound(graph) /\ world \in Token /\ inDoubt \subseteq Node \X Nat
      /\ pass \in {<<>>} \cup {<<x>> : x \in Observation}
  BY DEF IInv, TypeOK, Sound
<1>2. /\ ~up /\ up' = TRUE /\ Commit(g) /\ UNCHANGED <<world, pass, inDoubt>>
  BY DEF ResumeSaved
<1>3. t \in Observation /\ NobodyOut(graph)
  BY <1>1, <1>2 DEF IInv, Observed, Observation
<1>4. Sound(h)
  BY <1>1, <1>3, RecoveredSound
<1> HIDE DEF h
<1>5. Sound(g)
  BY <1>4, ResumedSound
<1> HIDE DEF g
<1>6. graph' = g /\ disk' = g
  BY <1>2 DEF Commit
<1>7. TypeOK'
  BY <1>1, <1>2, <1>5, <1>6 DEF TypeOK, Sound
<1> QED BY <1>2, <1>5, <1>6, <1>7 DEF IInv, Sound

(* Every step keeps the inductive invariant.                                  *)
LEMMA NextKeeps == ASSUME IInv, [Next]_vars PROVE IInv'
<1>1. /\ Sound(graph) /\ world \in Token /\ inDoubt \subseteq Node \X Nat
      /\ pass \in {<<>>} \cup {<<t>> : t \in Observation}
  BY DEF IInv, TypeOK, Sound
<1>2. CASE Schedule
  BY <1>2, ScheduleKeeps
<1>3. ASSUME NEW n \in Node, Primary(n) \/ Waves(n) PROVE IInv'
  BY <1>3, PrimaryKeeps, WavesKeeps
<1>4. CASE RefuseWave
  <2>1. Sound(graph') /\ disk' = graph'
    BY <1>1, <1>4, RefusedSound
  <2>2. up /\ Quiet
    BY <1>4 DEF RefuseWave
  <2> QED BY <1>1, <2>1, <2>2, StepKeeps DEF Quiet, Still
<1>5. ASSUME NEW p \in Plan, Revise(p) PROVE IInv'
  <2>1. Boundary /\ up /\ graph.outcome = "none" /\ Commit(Revised(p)) /\ Quiet
    BY <1>5 DEF Revise, Boundary
  <2>2. Sound(Revised(p))
    BY <1>1, <2>1, BoundaryNobodyOut, RevisedSound DEF Boundary
  <2> QED BY <1>1, <2>1, <2>2, StepKeeps DEF Commit, Quiet, Still
<1>6. CASE User
  BY <1>6, UserKeeps
<1>7. CASE Crash
  BY <1>7, CrashKeeps
<1>8. ASSUME NEW t \in Observed, ResumeSaved(t) PROVE IInv'
  BY <1>8, ResumeSavedKeeps
<1>9. CASE ExternalEdit
  BY <1>1, <1>9 DEF ExternalEdit, IInv, TypeOK, NobodyOut
<1>10. CASE UNCHANGED vars
  BY <1>10 DEF vars, IInv, TypeOK, NobodyOut
<1> QED BY <1>2, <1>3, <1>4, <1>5, <1>6, <1>7, <1>8, <1>9, <1>10 DEF Next

-----------------------------------------------------------------------------
(* The theorems.                                                            *)

(* The books of the graph balance in every reachable state, of the process    *)
(* and of the file that outlives it.                                         *)
THEOREM BooksBalance == Spec => []IInv
<1>1. Init => IInv
  BY InitKeeps
<1>2. IInv /\ [Next]_vars => IInv'
  BY NextKeeps
<1> QED BY <1>1, <1>2, PTL DEF Spec

(* Every reachable state is well typed.                                       *)
THEOREM TypeCorrect == Spec => []TypeOK
<1>1. IInv => TypeOK
  BY DEF IInv
<1> QED BY <1>1, BooksBalance, PTL

(* In every reachable state an attempt runs only as the active and latest one *)
(* of a running node of a graph that has not ended.                           *)
THEOREM OneActiveAttempt == Spec => []RunningIsActive
<1>1. IInv => RunningIsActive
  <2>1. ASSUME IInv PROVE RunsOnce(graph) /\ ActiveRuns(graph)
    BY <2>1 DEF IInv, Books
  <2> QED BY <2>1 DEF RunningIsActive, RunsOnce, ActiveRuns, InState, AttemptsOf
<1> QED BY <1>1, BooksBalance, PTL

(* No sequence of retries, crashes, edits and extensions gives a node more    *)
(* attempts than its envelopes allow.                                        *)
THEOREM AttemptsStayBounded == Spec => []AttemptsBounded
<1>1. IInv => AttemptsBounded
  BY DEF IInv, Books, WithinCap, AttemptsBounded
<1> QED BY <1>1, BooksBalance, PTL

(* Whatever instant the process stops at, the saved graph passes the checks   *)
(* of nodes, lanes, pause, outcome and starts that reopening makes.           *)
THEOREM SavedStateReopens == Spec => []SavedGraphRestores
<1>1. IInv => SavedGraphRestores
  <2> SUFFICES ASSUME IInv PROVE SavedGraphRestores
    OBVIOUS
  <2>1. disk \in Snapshot /\ Books(disk)
    BY DEF IInv, TypeOK
  <2>2. disk.plan.nodes \subseteq Node
    BY <2>1, PlanNodes
  <2>3. \A n \in disk.plan.nodes :
            disk.active[n] # 0 =>
                /\ disk.active[n] \in DOMAIN disk.attempts[n]
                /\ disk.attempts[n][disk.active[n]].state = "running"
                /\ disk.state[n] = "running" /\ disk.outcome = "none"
    BY <2>1, <2>2 DEF Books, ActiveRuns, RunsOnce
  <2>4. \A n \in disk.plan.nodes : (disk.state[n] = "running") = (disk.active[n] # 0)
    BY <2>1, <2>3 DEF Books, RunningActive
  <2>5. NodesWellFormed(disk)
    BY <2>1, <2>3, <2>4 DEF Books, ResultsHeld, WithinCap, NodesWellFormed
  <2>6. OutcomeWellFormed(disk)
    BY <2>1, <2>3, <2>4 DEF Books, Ended, OutcomeWellFormed, InState
  <2> QED BY <2>1, <2>5, <2>6 DEF Books, Ended, StartsBounded, SavedGraphRestores
<1> QED BY <1>1, BooksBalance, PTL
=============================================================================
