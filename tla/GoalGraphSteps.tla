--------------------------- MODULE GoalGraphSteps ---------------------------
(***************************************************************************)
(* What a step of GoalGraph may never do: forget an attempt or a worktree,   *)
(* start work after a stop, take a candidate out of review, run two writers  *)
(* on the same paths, count a result as done that nothing checked, repeat    *)
(* what may already have been done, leave a final outcome, or leave the      *)
(* scheduler without work or outcome.                                        *)
(***************************************************************************)
EXTENDS GoalGraphProofs

-----------------------------------------------------------------------------
(* The strengthened invariant.                                              *)

Disjoint(h) ==
    \A m, n \in Running(h, "isolated_write") :
        m # n => h.plan.scope[m] \cap h.plan.scope[n] = {}

(* Only writers are reviewed and integrated.                                 *)
Reviewed(h) ==
    \A n \in Node :
        h.state[n] \in {"awaiting_review", "integrated"} => h.plan.exec[n] = "isolated_write"

(* While a published candidate waits for its check, nothing is done, nobody   *)
(* works, and the graph has ended or still waits for what runs.              *)
Apart(h) == InState(h, "integrated") # {} => InState(h, "done") = {} /\ NobodyOut(h)
Alone(h) ==
    /\ Apart(h)
    /\ InState(h, "integrated") # {} /\ h.outcome = "none" => InState(h, "running") # {}

(* What the check of a last change must show of an attempt's evidence.        *)
Checked(a) ==
    a.mutated => \E p \in a.proofs :
        p[1] = a.mutation /\ p[2] # NoToken /\ (a.wrote => p[2] # a.base)

(* A verdict is earned by evidence.  A worker never changes the workspace      *)
(* itself, and only a worker leaves a candidate.                              *)
Earned(a) ==
    /\ a.state \in {"accepted", "candidate"} => a.failures = {} /\ Checked(a)
    /\ a.worker # "none" => ~a.mutated /\ (a.state = "running" => a.failures = {})
    /\ a.state = "candidate" => a.worker # "none"
Earnt(h) == \A n \in Node : \A k \in DOMAIN h.attempts[n] : Earned(h.attempts[n][k])

(* A writer's result is done only on a check of the combination, or a waiver.  *)
Vouches(h, n) ==
    \/ n \in h.waived
    \/ /\ h.accepted[n] \in DOMAIN h.attempts[n]
       /\ h.attempts[n][h.accepted[n]].proofs # {}
Vouched(h) ==
    \A n \in Node :
        n \in InState(h, "done") /\ h.plan.exec[n] = "isolated_write" => Vouches(h, n)

(* What runs has been counted against its node's attempts.                    *)
Counts(h) == \A n \in Node : h.state[n] = "running" => h.used[n] >= 1

(* What the file lacks of the graph is never a verdict, a worktree, a review   *)
(* or an action that could not be repeated.                                   *)
Unmoved(h, g) ==
    /\ g.plan = h.plan
    /\ \A n \in Node :
        /\ DOMAIN g.attempts[n] = DOMAIN h.attempts[n]
        /\ \A k \in DOMAIN h.attempts[n] :
              /\ g.attempts[n][k].state = h.attempts[n][k].state
              /\ g.attempts[n][k].tree = h.attempts[n][k].tree
              /\ g.attempts[n][k].pending.kind \in NonReplayable
                    <=> h.attempts[n][k].pending.kind \in NonReplayable
        /\ g.state[n] = "awaiting_review" <=> h.state[n] = "awaiting_review"

(* A scheduling pass goes on only while nothing runs and the envelope lasts.  *)
Passing ==
    pass # <<>> => /\ up /\ NobodyOut(graph) /\ ~HasRunningAttempt(graph)
                   /\ graph.spent < graph.limit

Settles(h) ==
    Disjoint(h) /\ Reviewed(h) /\ Alone(h) /\ Earnt(h) /\ Vouched(h) /\ Counts(h)
SInv == IInv /\ Settles(graph) /\ Settles(disk) /\ Unmoved(graph, disk) /\ Passing

-----------------------------------------------------------------------------
(* How snapshots follow each other.                                         *)

(* The next value b of an attempt a keeps its verdict and its worktree.        *)
Keeps(a, b) ==
    /\ a.state # "running" =>
          b.state = a.state \/ (a.state = "candidate" /\ b.state = "accepted")
    /\ a.tree # "none" =>
          /\ b.tree = "none" => a.worker = "out" /\ b.worker = "back"
          /\ b.tree = "discarded" => a.tree \in {"seen", "discarded"}
    /\ b.worker = "out" => a.worker = "out"

(* It also keeps its evidence, and a verdict it takes is earned.              *)
Onward(a, b) == Keeps(a, b) /\ a.proofs \subseteq b.proofs /\ (Earned(a) => Earned(b))

KeepsLedger(h, g) ==
    \A n \in Node :
        /\ DOMAIN g.attempts[n] = DOMAIN h.attempts[n]
        /\ \A k \in DOMAIN h.attempts[n] : Keeps(h.attempts[n][k], g.attempts[n][k])

Ledger(h, g) ==
    \A n \in Node :
        /\ DOMAIN g.attempts[n] = DOMAIN h.attempts[n]
        /\ \A k \in DOMAIN h.attempts[n] : Onward(h.attempts[n][k], g.attempts[n][k])

(* g starts nothing, and moves a node into review only if it is a writer.     *)
Onwards(h, g) ==
    /\ g.plan = h.plan /\ Ledger(h, g)
    /\ g.used = h.used /\ (Vouched(h) => Vouched(g))
    /\ \A n \in Node :
        /\ g.state[n] = "running" => h.state[n] = "running"
        /\ g.state[n] = "integrated" => h.state[n] = "integrated"
        /\ h.state[n] = "awaiting_review" => g.state[n] = "awaiting_review"
        /\ g.state[n] = "awaiting_review" =>
              h.state[n] = "awaiting_review" \/ h.plan.exec[n] = "isolated_write"

(* g differs from h in what is ready, stale or stopped, and in no attempt.    *)
Calm(h, g) ==
    /\ g.plan = h.plan /\ g.attempts = h.attempts
    /\ g.used = h.used /\ g.waived = h.waived
    /\ \A n \in Node :
        /\ g.state[n] = "running" <=> h.state[n] = "running"
        /\ g.state[n] = "awaiting_review" <=> h.state[n] = "awaiting_review"
        /\ g.state[n] \in {"integrated", "done"} => h.state[n] = g.state[n]
        /\ g.state[n] = "done" => g.accepted[n] = h.accepted[n]

LEMMA OnwardSelf == ASSUME NEW a PROVE Onward(a, a)
  BY DEF Onward, Keeps

(* b is a with another verdict, worktree, bill or place of its worker.         *)
SameWork(a, b) ==
    /\ b.mutated = a.mutated /\ b.wrote = a.wrote /\ b.base = a.base
    /\ b.mutation = a.mutation /\ b.failures = a.failures /\ b.proofs = a.proofs
    /\ b.worker = "none" <=> a.worker = "none"

LEMMA EarnedSame ==
    ASSUME NEW a, NEW b, SameWork(a, b),
           \/ b.state = a.state
           \/ b.state \notin {"accepted", "candidate", "running"}
           \/ a.worker # "none" /\ a.state = "running"
    PROVE  a.proofs \subseteq b.proofs /\ (Earned(a) => Earned(b))
<1>1. Checked(a) => Checked(b)
  BY DEF SameWork, Checked
<1>2. ~a.mutated => Checked(b)
  BY DEF SameWork, Checked
<1> QED BY <1>1, <1>2 DEF SameWork, Earned

LEMMA EarnedPrimary ==
    ASSUME NEW b, b.worker = "none", b.state \notin {"accepted", "candidate"}
    PROVE  Earned(b)
  BY DEF Earned

(* Who was vouched for still is, unless a step makes more nodes done.          *)
LEMMA VouchedOn ==
    ASSUME NEW h, NEW g, g.plan = h.plan, Ledger(h, g), h.waived \subseteq g.waived,
           \A n \in Node :
               g.state[n] = "done" /\ h.plan.exec[n] = "isolated_write" =>
                   h.state[n] = "done" /\ g.accepted[n] = h.accepted[n]
    PROVE  Vouched(h) => Vouched(g)
<1> SUFFICES ASSUME Vouched(h), NEW n \in Node, n \in h.plan.nodes,
                    g.state[n] = "done", h.plan.exec[n] = "isolated_write"
             PROVE  Vouches(g, n)
  BY DEF Vouched, InState
<1>1. Vouches(h, n) /\ g.accepted[n] = h.accepted[n]
  BY DEF Vouched, InState
<1>2. CASE n \in h.waived
  BY <1>2 DEF Vouches
<1>3. CASE /\ h.accepted[n] \in DOMAIN h.attempts[n]
           /\ h.attempts[n][h.accepted[n]].proofs # {}
  <2>1. /\ DOMAIN g.attempts[n] = DOMAIN h.attempts[n]
        /\ Onward(h.attempts[n][h.accepted[n]], g.attempts[n][h.accepted[n]])
    BY <1>3 DEF Ledger
  <2> QED BY <1>1, <1>3, <2>1 DEF Vouches, Onward
<1> QED BY <1>1, <1>2, <1>3 DEF Vouches

LEMMA CalmVouched ==
    ASSUME NEW h, NEW g, Calm(h, g) PROVE Vouched(h) => Vouched(g)
<1>1. Ledger(h, g)
  BY OnwardSelf DEF Calm, Ledger
<1> QED BY <1>1, VouchedOn DEF Calm

LEMMA CalmSteps ==
    ASSUME NEW h, NEW k, NEW g, Calm(k, g)
    PROVE  /\ Calm(h, k) => Calm(h, g)
           /\ Onwards(h, k) => Onwards(h, g)
           /\ Unmoved(h, k) => Unmoved(h, g)
<1>1. Vouched(k) => Vouched(g)
  BY CalmVouched
<1>2. Calm(h, k) => Calm(h, g)
  BY DEF Calm
<1>3. Onwards(h, k) => Onwards(h, g)
  BY <1>1 DEF Calm, Onwards, Ledger
<1>4. Unmoved(h, k) => Unmoved(h, g)
  BY DEF Calm, Unmoved
<1> QED BY <1>2, <1>3, <1>4

LEMMA CalmThenOnwards ==
    ASSUME NEW h, NEW k, NEW g, Calm(h, k), Onwards(k, g) PROVE Onwards(h, g)
<1>1. Vouched(h) => Vouched(k)
  BY CalmVouched
<1> QED BY <1>1 DEF Calm, Onwards, Ledger

LEMMA CalmOnwards ==
    ASSUME NEW h, NEW g, Calm(h, g) PROVE Onwards(h, g) /\ Unmoved(h, g)
  BY OnwardSelf, CalmVouched DEF Calm, Onwards, Ledger, Unmoved

(* Readying, reducing and noticing are calm.                                  *)
LEMMA CalmRefreshed ==
    ASSUME NEW h \in Snapshot
    PROVE  /\ Calm(h, Refreshed(h)) /\ Refreshed(h).outcome = h.outcome
           /\ Refreshed(h).spent = h.spent /\ Refreshed(h).limit = h.limit
<1> DEFINE s == [n \in Node |->
        IF /\ n \in h.plan.nodes
           /\ h.state[n] \in {"proposed", "retryable", "stale"}
           /\ DependenciesDone(h, n)
        THEN IF h.used[n] < h.cap THEN "ready" ELSE "budget_exhausted"
        ELSE h.state[n]]
<1>1. \A n \in Node : s[n] = h.state[n] \/ (h.state[n] \in {"proposed", "retryable", "stale"}
                                            /\ s[n] \in {"ready", "budget_exhausted"})
  OBVIOUS
<1>2. Refreshed(h) = [h EXCEPT !.state = s]
  BY DEF Refreshed
<1> HIDE DEF s
<1> QED BY <1>1, <1>2 DEF Calm, Snapshot

LEMMA RefreshedType == ASSUME NEW h \in Snapshot PROVE Refreshed(h) \in Snapshot
<1> DEFINE s == [n \in Node |->
        IF /\ n \in h.plan.nodes
           /\ h.state[n] \in {"proposed", "retryable", "stale"}
           /\ DependenciesDone(h, n)
        THEN IF h.used[n] < h.cap THEN "ready" ELSE "budget_exhausted"
        ELSE h.state[n]]
<1>1. s \in [Node -> NodeStates]
  BY DEF Snapshot, NodeStates
<1>2. Refreshed(h) = [h EXCEPT !.state = s]
  BY DEF Refreshed
<1> HIDE DEF s
<1> QED BY <1>1, <1>2 DEF Snapshot

LEMMA CalmTerminated ==
    ASSUME NEW h \in Snapshot, NEW o
    PROVE  Calm(h, Terminated(h, o)) /\ Terminated(h, o).outcome = o
  BY DEF Terminated, Calm, Snapshot

LEMMA CalmReduced ==
    ASSUME NEW h \in Snapshot
    PROVE  /\ Calm(h, Reduced(h))
           /\ Reduced(h).outcome = "none" => h.outcome = "none" /\ Verdict(h) = "none"
<1>1. Calm(h, h)
  BY DEF Calm
<1> QED BY <1>1, CalmTerminated DEF Reduced

LEMMA ReducedState == ASSUME NEW h \in Snapshot PROVE Reduced(h).state = h.state
<1>1. \A o : Terminated(h, o).state = h.state
  BY DEF Terminated, Snapshot
<1> QED BY <1>1 DEF Reduced

LEMMA CalmAllDoneStale ==
    ASSUME NEW h \in Snapshot
    PROVE  /\ Calm(h, AllDoneStale(h)) /\ InState(AllDoneStale(h), "done") = {}
           /\ AllDoneStale(h).spent = h.spent /\ AllDoneStale(h).limit = h.limit
<1>1. h.plan.nodes \subseteq Node
  BY PlanNodes
<1> QED BY <1>1 DEF AllDoneStale, Calm, Snapshot, InState

LEMMA CalmAccounts ==
    ASSUME NEW h \in Snapshot, NEW t, NEW m, NEW s, NEW p, NEW c
    PROVE  /\ Calm(h, [h EXCEPT !.token = t]) /\ Calm(h, [h EXCEPT !.mutation = m])
           /\ Calm(h, [h EXCEPT !.spent = s]) /\ Calm(h, [h EXCEPT !.pause = p, !.clock = c])
           /\ Calm(h, [h EXCEPT !.clock = c])
  BY DEF Calm, Snapshot

LEMMA CalmNoticed ==
    ASSUME NEW h, Sound(h), h.outcome = "none", NEW t \in Observation
    PROVE  /\ Calm(h, Noticed(h, t)) /\ Noticed(h, t).outcome = "none"
           /\ Noticed(h, t).spent = h.spent /\ Noticed(h, t).limit = h.limit
<1> DEFINE d == IF Differs(h, t) THEN AllDoneStale(h) ELSE h
           c == [d EXCEPT !.token = IF @ = NoToken THEN t ELSE @]
<1>1. h \in Snapshot
  BY DEF Sound
<1>2. d \in Snapshot /\ d.outcome = "none" /\ d.spent = h.spent /\ d.limit = h.limit
  BY <1>1, AllDoneStaleSound, CalmAllDoneStale DEF Sound
<1>3. Calm(h, d)
  BY <1>1, CalmAllDoneStale DEF Calm
<1>4. Noticed(h, t) = Refreshed(c)
  BY DEF Noticed
<1> HIDE DEF d
<1>5. /\ c \in Snapshot /\ Calm(d, c) /\ c.outcome = "none"
      /\ c.spent = d.spent /\ c.limit = d.limit
  BY <1>2 DEF Snapshot, Calm
<1> HIDE DEF c
<1> QED BY <1>2, <1>3, <1>4, <1>5, CalmRefreshed, CalmSteps

LEMMA CalmUnconsumed ==
    ASSUME NEW h \in Snapshot, NEW n PROVE Calm(h, UnconsumedStale(h, n))
<1> DEFINE unconsumed == {m \in InState(h, "done") \ (Upstream(h.plan, n) \cup {n}) :
                            ~h.attempts[m][h.accepted[m]].mutated}
           dependent == {m \in h.plan.nodes :
                            /\ Upstream(h.plan, m) \cap unconsumed # {}
                            /\ h.state[m] \in {"done", "ready", "proposed"}}
           hit == unconsumed \cup dependent
           g == UnconsumedStale(h, n)
<1>1. \A m \in hit : h.state[m] \in {"done", "ready", "proposed"}
  BY DEF InState
<1>2. /\ g.plan = h.plan /\ g.attempts = h.attempts /\ g.used = h.used
      /\ g.waived = h.waived
      /\ \A m \in Node : /\ g.state[m] = IF m \in hit THEN "stale" ELSE h.state[m]
                         /\ g.accepted[m] = IF m \in hit THEN 0 ELSE h.accepted[m]
  BY DEF UnconsumedStale, Snapshot
<1> HIDE DEF hit, g
<1> QED BY <1>1, <1>2 DEF Calm, g

-----------------------------------------------------------------------------
(* Edits, ends and verdicts.                                                *)

(* Nothing is published: the graph stays so whatever goes on.                *)
LEMMA UnpublishedAlone ==
    ASSUME NEW h, NEW g, InState(h, "integrated") = {}, Onwards(h, g),
           h.plan.nodes \subseteq Node
    PROVE  Alone(g)
  BY DEF Onwards, InState, Alone, Apart

LEMMA CalmAlone ==
    ASSUME NEW h \in Snapshot, NEW g, Calm(h, g)
    PROVE  /\ Apart(h) => Apart(g)
           /\ Alone(h) /\ (h.outcome = "none" \/ g.outcome # "none") => Alone(g)
<1>1. h.plan.nodes \subseteq Node
  BY PlanNodes
<1>2. /\ InState(g, "integrated") \subseteq InState(h, "integrated")
      /\ InState(g, "done") \subseteq InState(h, "done")
      /\ InState(g, "running") = InState(h, "running")
      /\ NobodyOut(h) => NobodyOut(g)
  BY <1>1 DEF Calm, InState, NobodyOut
<1> QED BY <1>2 DEF Alone, Apart

LEMMA ReducedAlone ==
    ASSUME NEW h \in Snapshot, Apart(h) PROVE Alone(Reduced(h))
<1>1. Calm(h, Reduced(h)) /\ (Reduced(h).outcome = "none" => Verdict(h) = "none")
  BY CalmReduced
<1>2. Verdict(h) = "none" /\ InState(h, "integrated") # {} => InState(h, "running") # {}
  BY DEF Verdict
<1>3. h.plan.nodes \subseteq Node
  BY PlanNodes
<1>4. /\ InState(Reduced(h), "integrated") \subseteq InState(h, "integrated")
      /\ InState(Reduced(h), "running") = InState(h, "running")
  BY <1>1, <1>3 DEF Calm, InState
<1>5. Apart(Reduced(h))
  BY <1>1, CalmAlone
<1> QED BY <1>1, <1>2, <1>4, <1>5 DEF Alone

LEMMA EditOnwards ==
    ASSUME NEW h \in Snapshot, NEW n \in Node, NEW i \in DOMAIN h.attempts[n],
           NEW b \in Attempt, Onward(h.attempts[n][i], b)
    PROVE  LET g == [h EXCEPT !.attempts[n][i] = b]
           IN  /\ Onwards(h, g) /\ g.state = h.state /\ g.outcome = h.outcome
               /\ g.used = h.used /\ g.waived = h.waived /\ g.accepted = h.accepted
               /\ (/\ b.state = h.attempts[n][i].state /\ b.tree = h.attempts[n][i].tree
                   /\ b.pending.kind \in NonReplayable
                         <=> h.attempts[n][i].pending.kind \in NonReplayable)
                     => Unmoved(h, g)
<1> DEFINE g == [h EXCEPT !.attempts[n][i] = b]
<1>1. \A m \in Node : h.attempts[m] \in Seq(Attempt)
  BY DEF Snapshot
<1>2. /\ g.plan = h.plan /\ g.state = h.state /\ g.outcome = h.outcome
      /\ g.used = h.used /\ g.waived = h.waived /\ g.accepted = h.accepted
      /\ \A m \in Node : g.attempts[m] =
            IF m = n THEN [h.attempts[n] EXCEPT ![i] = b] ELSE h.attempts[m]
  BY DEF Snapshot
<1>3. /\ DOMAIN [h.attempts[n] EXCEPT ![i] = b] = DOMAIN h.attempts[n]
      /\ \A k \in DOMAIN h.attempts[n] :
            [h.attempts[n] EXCEPT ![i] = b][k] = IF k = i THEN b ELSE h.attempts[n][k]
  BY <1>1, SeqEdit
<1> HIDE DEF g
<1>4. Ledger(h, g)
  BY <1>2, <1>3, OnwardSelf DEF Ledger
<1>5. Onwards(h, g)
  BY <1>2, <1>4, VouchedOn DEF Onwards
<1>6. /\ b.state = h.attempts[n][i].state /\ b.tree = h.attempts[n][i].tree
      /\ b.pending.kind \in NonReplayable
            <=> h.attempts[n][i].pending.kind \in NonReplayable
      => Unmoved(h, g)
  BY <1>2, <1>3 DEF Unmoved
<1> QED BY <1>2, <1>5, <1>6 DEF g

LEMMA SettledOnwards ==
    ASSUME NEW h, Sound(h), NEW n \in Node, h.active[n] # 0, NEW b \in Attempt,
           b.worker # "out", NEW s \in NodeStates \ {"running", "integrated"},
           s = "awaiting_review" => h.plan.exec[n] = "isolated_write",
           s = "done" => h.plan.exec[n] # "isolated_write",
           LET a == h.attempts[n][h.active[n]]
           IN  /\ a.tree # "none" =>
                     /\ b.tree = "none" => a.worker = "out" /\ b.worker = "back"
                     /\ b.tree = "discarded" => a.tree \in {"seen", "discarded"}
               /\ a.proofs \subseteq b.proofs /\ (Earned(a) => Earned(b))
    PROVE  Onwards(h, Settled(h, n, b, s))
<1> DEFINE i == h.active[n]
           k == [h EXCEPT !.attempts[n][i] = b]
           g == Settled(h, n, b, s)
<1>1. h \in Snapshot
  BY DEF Sound
<1>2. i \in DOMAIN h.attempts[n] /\ h.attempts[n][i].state = "running" /\ h.state[n] = "running"
  BY IdleRunsNothing DEF Sound, Books, ActiveRuns
<1>3. Onward(h.attempts[n][i], b)
  BY <1>2 DEF Onward, Keeps
<1>4. Onwards(h, k) /\ k.state = h.state /\ k.waived = h.waived /\ k.accepted = h.accepted
  BY <1>1, <1>2, <1>3, EditOnwards
<1>5. /\ g.plan = k.plan /\ g.attempts = k.attempts /\ g.used = k.used
      /\ g.waived = k.waived
      /\ \A m \in Node : /\ g.state[m] = IF m = n THEN s ELSE k.state[m]
                         /\ m # n => g.accepted[m] = k.accepted[m]
  BY <1>1, <1>4 DEF Settled, Snapshot
<1> HIDE DEF k, g
<1>6. Ledger(h, g) /\ g.plan = h.plan
  BY <1>4, <1>5 DEF Onwards, Ledger
<1>7. Vouched(h) => Vouched(g)
  BY <1>4, <1>5, <1>6, VouchedOn
<1> QED BY <1>2, <1>4, <1>5, <1>6, <1>7 DEF Onwards, g

(* Ending every running attempt is on the ledger, and so are exhaustion and   *)
(* cancellation.                                                             *)
LEMMA EndedLedger ==
    ASSUME NEW h \in Snapshot, NEW s \in {"budget_exhausted", "cancelled", "failed"},
           NEW g, g.attempts = RunningEnded(h, s)
    PROVE  Ledger(h, g)
<1>1. \A n \in Node : h.attempts[n] \in Seq(Attempt)
  BY DEF Snapshot
<1>2. ASSUME NEW n \in Node, NEW k \in DOMAIN h.attempts[n]
      PROVE  Onward(h.attempts[n][k], RunningEnded(h, s)[n][k])
  <2>1. h.attempts[n][k] \in Attempt
    BY <1>1, <1>2
  <2>2. RunningEnded(h, s)[n][k] = IF h.attempts[n][k].state = "running"
                                   THEN [h.attempts[n][k] EXCEPT !.state = s]
                                   ELSE h.attempts[n][k]
    BY <1>2 DEF RunningEnded
  <2> DEFINE a == h.attempts[n][k]
             b == [a EXCEPT !.state = s]
  <2>3. /\ b.state = s /\ SameWork(a, b) /\ b.tree = a.tree /\ b.worker = a.worker
        /\ a \in Attempt
    BY <2>1 DEF SameWork, Attempt
  <2> HIDE DEF a, b
  <2>4. a.state = "running" => Onward(a, b)
    BY <2>3, EarnedSame DEF Onward, Keeps, Attempt, Trees
  <2> QED BY <2>2, <2>4, OnwardSelf DEF a, b
<1>3. \A n \in Node : DOMAIN RunningEnded(h, s)[n] = DOMAIN h.attempts[n]
  BY DEF RunningEnded
<1> QED BY <1>2, <1>3 DEF Ledger

LEMMA ExhaustedOnwards ==
    ASSUME NEW h, Sound(h) PROVE Onwards(h, Exhausted(h)) /\ Alone(Exhausted(h))
<1> DEFINE hit == h.plan.nodes \ Kept(h)
           g == Exhausted(h)
<1>1. h \in Snapshot /\ h.plan.nodes \subseteq Node
  BY PlanNodes DEF Sound
<1>2. \A n \in h.plan.nodes : n \in hit \/ h.state[n] \in {"done", "awaiting_review"}
  BY DEF Kept, InState
<1>3. \A n \in hit : h.state[n] # "awaiting_review"
  BY DEF Kept, InState
<1>4. /\ g.plan = h.plan /\ g.attempts = RunningEnded(h, "budget_exhausted")
      /\ g.used = h.used /\ g.waived = h.waived /\ g.accepted = h.accepted
      /\ \A n \in Node : g.state[n] = IF n \in hit THEN "budget_exhausted" ELSE h.state[n]
  BY <1>1 DEF Exhausted, Terminated, Snapshot
<1> HIDE DEF hit, g
<1>5. Ledger(h, g)
  BY <1>1, <1>4, EndedLedger
<1>6. Onwards(h, g)
  BY <1>3, <1>4, <1>5, VouchedOn DEF Onwards
<1>7. InState(g, "integrated") = {}
  BY <1>1, <1>2, <1>4 DEF InState
<1> QED BY <1>6, <1>7 DEF Alone, Apart, g

LEMMA CancelledOnwards ==
    ASSUME NEW h, Sound(h), Alone(h)
    PROVE  LET g == Terminated(
                  [h EXCEPT
                      !.attempts = RunningEnded(h, "cancelled"),
                      !.state = [n \in Node |->
                          IF h.active[n] # 0 THEN "cancelled" ELSE @[n]],
                      !.active = [n \in Node |-> 0]], "cancelled")
           IN  /\ Onwards(h, g) /\ Alone(g) /\ ~HasRunningAttempt(g)
               /\ g.spent = h.spent /\ g.limit = h.limit
<1> DEFINE g == Terminated(
                  [h EXCEPT
                      !.attempts = RunningEnded(h, "cancelled"),
                      !.state = [n \in Node |->
                          IF h.active[n] # 0 THEN "cancelled" ELSE @[n]],
                      !.active = [n \in Node |-> 0]], "cancelled")
<1>1. h \in Snapshot /\ h.plan.nodes \subseteq Node
  BY PlanNodes DEF Sound
<1>2. /\ g.plan = h.plan /\ g.attempts = RunningEnded(h, "cancelled") /\ g.outcome = "cancelled"
      /\ \A n \in Node : g.state[n] = IF h.active[n] # 0 THEN "cancelled" ELSE h.state[n]
      /\ g.spent = h.spent /\ g.limit = h.limit
      /\ g.used = h.used /\ g.waived = h.waived /\ g.accepted = h.accepted
  BY <1>1 DEF Terminated, Snapshot
<1> HIDE DEF g
<1>3. \A n \in Node : h.active[n] # 0 => h.state[n] = "running"
  BY IdleRunsNothing
<1>4. Ledger(h, g)
  BY <1>1, <1>2, EndedLedger
<1>5. Onwards(h, g)
  BY <1>2, <1>3, <1>4, VouchedOn DEF Onwards
<1>6. NobodyOut(h) => NobodyOut(g)
  BY <1>4 DEF Ledger, NobodyOut, Onward, Keeps
<1>7. /\ InState(g, "integrated") \subseteq InState(h, "integrated")
      /\ InState(g, "done") \subseteq InState(h, "done")
  BY <1>1, <1>2 DEF InState
<1>8. Alone(g)
  BY <1>2, <1>6, <1>7 DEF Alone, Apart
<1>9. ~HasRunningAttempt(g)
  BY <1>1, <1>2, RunningEndedLedger DEF HasRunningAttempt, AttemptStates
<1> QED BY <1>2, <1>5, <1>8, <1>9 DEF g

-----------------------------------------------------------------------------
(* Steps.                                                                   *)

(* What every step promises of the graph.                                    *)
Promise ==
    /\ \A n \in Node : \A k \in DOMAIN graph.attempts[n] :
          /\ k \in DOMAIN graph'.attempts[n]
          /\ Keeps(graph.attempts[n][k], graph'.attempts[n][k])
    /\ \A n \in InState(graph, "awaiting_review") :
          graph'.state[n] \in {"awaiting_review", "integrated"}
    /\ (\E n \in Node : NewAttempts(n)) =>
          /\ graph.outcome = "none" /\ graph.pause = "off"
          /\ ~HasRunningAttempt(graph) /\ graph.spent < graph.limit

Saves == disk' = graph' \/ (disk' = disk /\ Unmoved(graph, graph'))

LEMMA NoteSaves ==
    ASSUME NEW h, Unmoved(graph, h), Note(h) \/ Unsaved(h) PROVE graph' = h /\ Saves
  BY DEF Note, Unsaved, Saves
LEMMA CommitSaves == ASSUME NEW h, Commit(h) PROVE graph' = h /\ Saves
  BY DEF Commit, Saves

LEMMA OnwardsSettles ==
    ASSUME NEW h \in Snapshot, NEW g, Onwards(h, g)
    PROVE  /\ Disjoint(h) => Disjoint(g)
           /\ Reviewed(h) => Reviewed(g)
           /\ Earnt(h) => Earnt(g)
           /\ Vouched(h) => Vouched(g)
           /\ Counts(h) => Counts(g)
<1>1. h.plan.nodes \subseteq Node
  BY PlanNodes
<1>2. Running(g, "isolated_write") \subseteq Running(h, "isolated_write")
  BY <1>1 DEF Onwards, Running, InLane, InState
<1>3. Disjoint(h) => Disjoint(g)
  BY <1>2 DEF Disjoint, Onwards
<1>4. Reviewed(h) => Reviewed(g)
  BY DEF Reviewed, Onwards
<1>5. Earnt(h) => Earnt(g)
  BY DEF Earnt, Onwards, Ledger, Onward
<1>6. (Vouched(h) => Vouched(g)) /\ (Counts(h) => Counts(g))
  BY DEF Onwards, Counts
<1> QED BY <1>3, <1>4, <1>5, <1>6

(* A step that starts nothing keeps the invariant and the promise.            *)
LEMMA OrdinaryKeeps ==
    ASSUME SInv, IInv', Onwards(graph, graph'), Alone(graph'), Saves, Passing'
    PROVE  SInv' /\ Promise
<1>1. graph \in Snapshot /\ graph' \in Snapshot
  BY DEF SInv, IInv, TypeOK
<1>2. Settles(graph')
  BY <1>1, OnwardsSettles DEF SInv, Settles
<1>3. Settles(disk') /\ Unmoved(graph', disk')
  <2>1. CASE disk' = graph'
    BY <1>2, <2>1 DEF Unmoved
  <2>2. CASE disk' = disk /\ Unmoved(graph, graph')
    BY <2>2 DEF SInv, Unmoved
  <2> QED BY <2>1, <2>2 DEF Saves
<1>4. SInv'
  BY <1>2, <1>3 DEF SInv, Settles
<1>5. \A n \in Node : ~NewAttempts(n)
  <2>1. \A n \in Node : graph.attempts[n] \in Seq(Attempt) /\ graph'.attempts[n] \in Seq(Attempt)
    BY <1>1 DEF Snapshot
  <2>2. \A n \in Node : DOMAIN graph'.attempts[n] = DOMAIN graph.attempts[n]
    BY DEF Onwards, Ledger
  <2>3. \A n \in Node : Len(graph'.attempts[n]) = Len(graph.attempts[n])
    BY <2>1, <2>2
  <2>4. \A n \in Node : Len(graph.attempts[n]) \in Nat
    BY <2>1
  <2> QED BY <2>3, <2>4 DEF NewAttempts
<1>6. InState(graph, "awaiting_review") \subseteq Node
  BY <1>1, PlanNodes DEF InState
<1> QED BY <1>4, <1>5, <1>6 DEF Promise, Onwards, Ledger, Onward, InState

LEMMA UnpublishedKeeps ==
    ASSUME SInv, IInv', InState(graph, "integrated") = {}, Onwards(graph, graph'), Saves,
           pass' = <<>>
    PROVE  SInv' /\ Promise
<1>1. graph.plan.nodes \subseteq Node
  BY PlanNodes DEF SInv, IInv, TypeOK
<1>2. Alone(graph')
  BY <1>1, UnpublishedAlone
<1> QED BY <1>2, OrdinaryKeeps DEF Passing

(* A plan with a primary node has no writer, and nothing to review.           *)
LEMMA PrimaryUnpublished ==
    ASSUME SInv, NEW n \in Running(graph, "primary")
    PROVE  /\ InState(graph, "integrated") = {}
           /\ \A m \in graph.plan.nodes : graph.state[m] # "awaiting_review"
<1>1. graph.plan \in Plan /\ graph.plan.nodes \subseteq Node
  BY PlanNodes DEF SInv, IInv, TypeOK
<1>2. Executable(graph.plan)
  BY <1>1, PlanAssumption
<1>3. n \in graph.plan.nodes /\ graph.plan.exec[n] = "primary"
  BY DEF Running, InLane, InState
<1>4. \A m \in graph.plan.nodes : graph.plan.exec[m] # "isolated_write"
  BY <1>2, <1>3 DEF Executable
<1> QED BY <1>1, <1>4 DEF SInv, Settles, Reviewed, InState

LEMMA AttemptedOnwards ==
    ASSUME Sound(graph), NEW n \in Running(graph, "primary"),
           NEW b \in Attempt, b.state = "running", b.worker = "none",
           b.tree = Last(graph, n).tree, Last(graph, n).proofs \subseteq b.proofs
    PROVE  /\ Onwards(graph, Attempted(n, b))
           /\ (b.pending.kind \in NonReplayable
                 <=> Last(graph, n).pending.kind \in NonReplayable)
              => Unmoved(graph, Attempted(n, b))
<1>1. /\ n \in Node /\ graph.active[n] \in DOMAIN graph.attempts[n]
      /\ graph.attempts[n][graph.active[n]] = Last(graph, n)
      /\ Last(graph, n) \in Attempt /\ Last(graph, n).state = "running"
      /\ Last(graph, n).worker = "none"
  BY PrimaryAttempt
<1>2. Onward(graph.attempts[n][graph.active[n]], b)
  BY <1>1, EarnedPrimary DEF Onward, Keeps, Attempt, Trees
<1>3. graph \in Snapshot
  BY DEF Sound
<1> QED BY <1>1, <1>2, <1>3, EditOnwards DEF Attempted

LEMMA PrimarySettled ==
    ASSUME Sound(graph), NEW n \in Running(graph, "primary"), NEW b \in Attempt,
           b.worker = "none", b.tree = Last(graph, n).tree,
           Last(graph, n).proofs \subseteq b.proofs, Earned(b),
           NEW s \in NodeStates \ {"running", "integrated", "awaiting_review", "ready"},
           s = "done" => b.state = "accepted", b.state # "running"
    PROVE  /\ Onwards(graph, Settled(graph, n, b, s))
           /\ Settled(graph, n, b, s) \in Snapshot
<1>1. /\ n \in Node /\ graph.active[n] # 0
      /\ graph.attempts[n][graph.active[n]] = Last(graph, n)
      /\ Last(graph, n) \in Attempt /\ Last(graph, n).worker = "none"
  BY PrimaryAttempt
<1>2. LET a == graph.attempts[n][graph.active[n]]
      IN  /\ a.tree # "none" => /\ b.tree = "none" => a.worker = "out" /\ b.worker = "back"
                                /\ b.tree = "discarded" => a.tree \in {"seen", "discarded"}
          /\ a.proofs \subseteq b.proofs /\ (Earned(a) => Earned(b))
  BY <1>1
<1>3. graph.plan.exec[n] = "primary"
  BY DEF Running, InLane, InState
<1>4. Onwards(graph, Settled(graph, n, b, s))
  BY <1>1, <1>2, <1>3, SettledOnwards
<1> QED BY <1>1, <1>4, SettledSound DEF Sound

(* A proposed completion, whatever the gate decides.                          *)
LEMMA ProposedOnwards ==
    ASSUME Sound(graph), NEW n \in Running(graph, "primary"), NEW t \in Observation,
           ProposeCompletion(n, t)
    PROVE  Onwards(graph, graph') /\ Saves
<1> DEFINE last == Last(graph, n)
           a == [last EXCEPT !.failures =
                   IF Differs(graph, t) THEN @ \cup {"drift"} ELSE @]
           more == [a EXCEPT !.nudges = @ + 1]
           again == [a EXCEPT !.state = "retryable"]
           halted == [a EXCEPT !.state = "blocked"]
           stuck == [more EXCEPT !.state = "blocked"]
           good == [a EXCEPT !.state = "accepted"]
<1>1. last \in Attempt /\ last.state = "running" /\ last.worker = "none" /\ last.nudges <= 2
  BY PrimaryAttempt
<1>2. \/ Commit(Refreshed(Settled(graph, n, again, "retryable")))
      \/ Commit(Reduced(Settled(graph, n, halted, "blocked")))
      \/ MayNudge(a) /\ Note(Attempted(n, more))
      \/ ~MayNudge(a) /\ Commit(Reduced(Settled(graph, n, stuck, "blocked")))
      \/ a.failures = {} /\ ~Gap(a, t) /\ Commit(Accepted(n, a, t))
  BY DEF ProposeCompletion, BlockedBy
<1>3. a \in Attempt /\ a.state = "running" /\ a.worker = "none" /\ a.tree = last.tree
      /\ a.nudges = last.nudges /\ a.proofs = last.proofs /\ a.pending = last.pending
  BY <1>1 DEF Attempt, Failures, Recoverable
<1> HIDE DEF a
<1>4. /\ again \in Attempt /\ again.worker = "none" /\ again.tree = last.tree
      /\ again.state = "retryable" /\ again.proofs = last.proofs
      /\ halted \in Attempt /\ halted.worker = "none" /\ halted.tree = last.tree
      /\ halted.state = "blocked" /\ halted.proofs = last.proofs
      /\ good \in Attempt /\ good.worker = "none" /\ good.tree = last.tree
      /\ good.state = "accepted" /\ good.proofs = last.proofs
  BY <1>3 DEF Attempt, AttemptStates
<1>5. /\ more \in Attempt /\ more.state = "running" /\ more.worker = "none"
      /\ more.tree = last.tree /\ more.proofs = last.proofs /\ more.pending = last.pending
  BY <1>1, <1>3 DEF Attempt
<1>6. stuck \in Attempt /\ stuck.worker = "none" /\ stuck.tree = last.tree
      /\ stuck.state = "blocked" /\ stuck.proofs = last.proofs
  BY <1>5 DEF Attempt, AttemptStates
<1>12. Earned(again) /\ Earned(halted) /\ Earned(stuck)
  BY <1>4, <1>6, EarnedPrimary
<1>13. a.failures = {} /\ ~Gap(a, t) => Earned(good)
  <2>1. /\ good.mutated = a.mutated /\ good.wrote = a.wrote /\ good.base = a.base
        /\ good.mutation = a.mutation /\ good.failures = a.failures /\ good.proofs = a.proofs
    BY <1>3 DEF Attempt
  <2> HIDE DEF good
  <2>2. ~Gap(a, t) => Checked(good)
    BY <2>1 DEF Gap, Checked
  <2> QED BY <1>4, <2>1, <2>2 DEF Earned
<1>7. {"retryable", "blocked", "done"}
          \subseteq NodeStates \ {"running", "integrated", "awaiting_review", "ready"}
  BY DEF NodeStates
<1> HIDE DEF again, halted, stuck, more, last
<1>8. CASE Commit(Refreshed(Settled(graph, n, again, "retryable")))
  <2>1. Onwards(graph, Settled(graph, n, again, "retryable"))
        /\ Settled(graph, n, again, "retryable") \in Snapshot
    BY <1>4, <1>7, <1>12, PrimarySettled DEF last
  <2> QED BY <1>8, <2>1, CalmRefreshed, CalmSteps, CommitSaves
<1>9. ASSUME NEW b \in {halted, stuck}, Commit(Reduced(Settled(graph, n, b, "blocked")))
      PROVE  Onwards(graph, graph') /\ Saves
  <2>1. Onwards(graph, Settled(graph, n, b, "blocked"))
        /\ Settled(graph, n, b, "blocked") \in Snapshot
    BY <1>4, <1>6, <1>7, <1>12, PrimarySettled DEF last
  <2> QED BY <1>9, <2>1, CalmReduced, CalmSteps, CommitSaves
<1>10. CASE MayNudge(a) /\ Note(Attempted(n, more))
  BY <1>5, <1>10, AttemptedOnwards, NoteSaves DEF last
<1>11. CASE a.failures = {} /\ ~Gap(a, t) /\ Commit(Accepted(n, a, t))
  <2> DEFINE s == Settled(graph, n, good, "done")
             g == [s EXCEPT !.token = IF t # NoToken THEN t ELSE @]
             u == IF a.mutated THEN UnconsumedStale(g, n) ELSE g
  <2>1. Accepted(n, a, t) = Reduced(Refreshed(u))
    BY DEF Accepted
  <2> HIDE DEF good
  <2>2. Onwards(graph, s) /\ s \in Snapshot
    BY <1>4, <1>7, <1>11, <1>13, PrimarySettled DEF last
  <2>3. Sound(s) /\ s.outcome = "none"
    BY <1>4, <1>7, SettledSound, PrimaryAttempt
  <2> HIDE DEF s
  <2>4. g \in Snapshot /\ Calm(s, g) /\ Sound(g) /\ g.outcome = "none"
    <3>1. g = [s EXCEPT !.token = IF t # NoToken THEN t ELSE s.token] /\ s.token \in Observation
      BY <2>2 DEF Snapshot
    <3> QED BY <2>2, <2>3, <3>1, CalmAccounts, AccountSound DEF Sound, Snapshot
  <2> HIDE DEF g
  <2>5. Calm(g, u) /\ Sound(u)
    BY <2>4, CalmUnconsumed, UnconsumedStaleSound DEF Calm
  <2> HIDE DEF u
  <2>6. Calm(u, Refreshed(u)) /\ Refreshed(u) \in Snapshot
    BY <2>5, CalmRefreshed, RefreshedSound DEF Sound
  <2>7. Calm(Refreshed(u), Reduced(Refreshed(u)))
    BY <2>6, CalmReduced
  <2>8. Onwards(graph, Reduced(Refreshed(u)))
    BY <2>2, <2>4, <2>5, <2>6, <2>7, CalmSteps
  <2> QED BY <1>11, <2>1, <2>8, CommitSaves
<1> QED BY <1>2, <1>8, <1>9, <1>10, <1>11

(* The primary lane.                                                         *)
LEMMA PrimaryPromises ==
    ASSUME SInv, IInv', NEW n \in Node, Primary(n) PROVE SInv' /\ Promise
<1>1. Sound(graph) /\ graph \in Snapshot /\ world \in Token
  BY DEF SInv, IInv, TypeOK, Sound
<1>2. n \in Running(graph, "primary") /\ pass' = <<>>
  BY DEF Primary, RecordPrimaryUsage, BeginTool, FinishTool, RecordFailure, ProposeCompletion,
         BlockActive, ExhaustBudget, Idling, Working, Quiet
<1> DEFINE a == Last(graph, n)
<1>3. a \in Attempt /\ a.state = "running" /\ a.worker = "none" /\ a.nudges <= 2
  BY <1>1, <1>2, PrimaryAttempt
<1>4. InState(graph, "integrated") = {}
  BY <1>2, PrimaryUnpublished
<1> SUFFICES Onwards(graph, graph') /\ Saves
  BY <1>2, <1>4, UnpublishedKeeps
<1> HIDE DEF a
<1>5. CASE RecordPrimaryUsage(n)
  <2> DEFINE h == [graph EXCEPT !.spent = @ + 1]
  <2>1. /\ h = [graph EXCEPT !.spent = graph.spent + 1] /\ graph.spent + 1 \in Nat
        /\ graph.token \in Observation /\ graph.mutation \in Nat
    BY <1>1 DEF Snapshot
  <2>2. Calm(graph, h) /\ Sound(h)
    <3>1. Sound(h)
      BY <1>1, <2>1, AccountSound
    <3>2. /\ h.plan = graph.plan /\ h.attempts = graph.attempts /\ h.state = graph.state
          /\ h.used = graph.used /\ h.waived = graph.waived /\ h.accepted = graph.accepted
      BY <1>1 DEF Snapshot
    <3> HIDE DEF h
    <3> QED BY <3>1, <3>2 DEF Calm
  <2>3. Commit(Exhausted(h)) \/ Note(h)
    BY <1>5 DEF RecordPrimaryUsage
  <2> HIDE DEF h
  <2>4. Onwards(graph, h) /\ Unmoved(graph, h)
    BY <2>2, CalmOnwards
  <2>5. Onwards(graph, Exhausted(h))
    <3>1. Onwards(h, Exhausted(h))
      BY <2>2, ExhaustedOnwards
    <3> QED BY <2>2, <3>1, CalmThenOnwards
  <2> QED BY <2>3, <2>4, <2>5, NoteSaves, CommitSaves
<1>6. ASSUME NEW kind \in ToolKinds, NEW t \in Observed, BeginTool(n, kind, t)
      PROVE  Onwards(graph, graph') /\ Saves
  <2> DEFINE mutating == kind \in Mutating
             pending == [kind |-> kind, mutation |-> a.mutation,
                         base |-> IF mutating THEN t ELSE NoToken]
             m == IF mutating THEN graph.mutation + 1 ELSE a.mutation
             mutated == a.mutated \/ mutating
             wrote == a.wrote \/ kind = "write"
             b == [a EXCEPT !.pending = pending, !.mutation = m,
                            !.mutated = mutated, !.wrote = wrote]
             c == [a EXCEPT !.failures = @ \cup {"policy"}]
             g == Attempted(n, b)
             h == [g EXCEPT !.mutation = IF mutating THEN @ + 1 ELSE @]
  <2>1. kind \in Kinds /\ t \in Observation /\ NoToken \in Observation
    BY <1>1, EnvironmentAssumption DEF Observed, Observation
  <2>2. pending \in Action
    BY <1>3, <2>1 DEF Action, Attempt
  <2>3. Commit(Attempted(n, c)) \/ Logged(kind, h)
    <3>1. [a EXCEPT !.pending = pending,
                    !.mutation = IF mutating THEN graph.mutation + 1 ELSE @,
                    !.mutated = @ \/ mutating, !.wrote = @ \/ kind = "write"] = b
      BY <1>3 DEF Attempt
    <3> QED BY <1>6, <3>1 DEF BeginTool, a
  <2>4. c \in Attempt /\ c.state = "running" /\ c.worker = "none" /\ c.tree = a.tree
        /\ c.proofs = a.proofs
    BY <1>3 DEF Attempt, Failures, Hard
  <2>5. m \in Nat /\ mutated \in BOOLEAN /\ wrote \in BOOLEAN
    BY <1>1, <1>3 DEF Snapshot, Attempt
  <2>14. pending.kind = kind /\ a.pending = NoAction
    BY <1>6 DEF BeginTool, Idling, a
  <2> HIDE DEF pending, m, mutated, wrote
  <2>6. b \in Attempt /\ b.state = "running" /\ b.worker = "none" /\ b.tree = a.tree
        /\ b.proofs = a.proofs /\ b.pending = pending
    BY <1>3, <2>2, <2>5 DEF Attempt
  <2> HIDE DEF b, c
  <2>7. /\ Onwards(graph, g) /\ Onwards(graph, Attempted(n, c))
        /\ kind \notin NonReplayable => Unmoved(graph, g)
    <3>1. kind \notin NonReplayable =>
            (b.pending.kind \in NonReplayable <=> Last(graph, n).pending.kind \in NonReplayable)
      BY <2>6, <2>14 DEF NoAction, NonReplayable, Mutating, a
    <3> QED BY <1>1, <1>2, <2>4, <2>6, <3>1, AttemptedOnwards DEF a
  <2>8. Calm(g, h)
    <3>1. /\ g.plan = h.plan /\ g.attempts = h.attempts /\ g.state = h.state
          /\ g.used = h.used /\ g.waived = h.waived /\ g.accepted = h.accepted
      BY <1>1 DEF Attempted, Snapshot
    <3> HIDE DEF g, h
    <3> QED BY <3>1 DEF Calm
  <2> HIDE DEF g, h
  <2>9. Onwards(graph, h) /\ (kind \notin NonReplayable => Unmoved(graph, h))
    BY <2>7, <2>8, CalmSteps
  <2> QED BY <2>3, <2>7, <2>9, NoteSaves, CommitSaves DEF Logged
<1>7. ASSUME NEW w \in Token, NEW t \in Observation, NEW r \in ToolResults,
             FinishTool(n, w, t, r)
      PROVE  Onwards(graph, graph') /\ Saves
  <2> DEFINE p == a.pending
             mutating == p.kind \in Mutating
             generation == IF mutating /\ t # NoToken /\ t = p.base
                           THEN p.mutation ELSE a.mutation
             done == [a EXCEPT !.pending = NoAction, !.mutation = generation]
             proof == IF r.verifies THEN {<<generation, t>>} ELSE {}
             bad == [done EXCEPT !.failures = @ \cup {r.failure}]
             good == [done EXCEPT !.worked = TRUE, !.failures = @ \ r.resolves,
                                  !.proofs = @ \cup proof]
             b == IF r.failed THEN bad ELSE good
             g == Attempted(n, b)
             h == [g EXCEPT !.token = IF mutating /\ t # NoToken THEN t ELSE @]
  <2>1. Logged(p.kind, h)
    BY <1>7 DEF FinishTool, a
  <2>2. p \in Action /\ a.mutation \in Nat
    BY <1>3 DEF Attempt
  <2>3. generation \in Nat
    BY <2>2 DEF Action
  <2>4. NoAction \in Action
    BY DEF Action, NoAction, Observation
  <2>5. r.failure \in Failures
    BY EnvironmentAssumption DEF ToolResults, Failed, Passed, Failures, Hard, Recoverable
  <2> HIDE DEF generation
  <2>6. proof \in SUBSET (Nat \X Observation)
    BY <2>3
  <2> HIDE DEF proof
  <2>7. done \in Attempt /\ done.state = "running" /\ done.worker = "none" /\ done.tree = a.tree
        /\ done.proofs = a.proofs /\ done.pending = NoAction
    BY <1>3, <2>3, <2>4 DEF Attempt
  <2> HIDE DEF done
  <2>8. bad \in Attempt /\ bad.state = "running" /\ bad.worker = "none" /\ bad.tree = a.tree
        /\ bad.proofs = a.proofs /\ bad.pending = NoAction
    BY <2>5, <2>7 DEF Attempt
  <2>9. good \in Attempt /\ good.state = "running" /\ good.worker = "none" /\ good.tree = a.tree
        /\ a.proofs \subseteq good.proofs /\ good.pending = NoAction
    BY <2>6, <2>7 DEF Attempt
  <2> HIDE DEF bad, good
  <2>10. b \in Attempt /\ b.state = "running" /\ b.worker = "none" /\ b.tree = a.tree
         /\ a.proofs \subseteq b.proofs /\ b.pending = NoAction
    BY <2>8, <2>9
  <2> HIDE DEF b
  <2>11. Onwards(graph, g) /\ (p.kind \notin NonReplayable => Unmoved(graph, g))
    <3>1. p.kind \notin NonReplayable =>
            (b.pending.kind \in NonReplayable <=> Last(graph, n).pending.kind \in NonReplayable)
      BY <2>10 DEF NoAction, NonReplayable, Mutating, a
    <3> QED BY <1>1, <1>2, <2>10, <3>1, AttemptedOnwards DEF a
  <2>12. Calm(g, h)
    <3>1. /\ g.plan = h.plan /\ g.attempts = h.attempts /\ g.state = h.state
          /\ g.used = h.used /\ g.waived = h.waived /\ g.accepted = h.accepted
      BY <1>1 DEF Attempted, Snapshot
    <3> HIDE DEF g, h
    <3> QED BY <3>1 DEF Calm
  <2> HIDE DEF g, h
  <2>13. Onwards(graph, h) /\ (p.kind \notin NonReplayable => Unmoved(graph, h))
    BY <2>11, <2>12, CalmSteps
  <2> QED BY <2>1, <2>13, NoteSaves, CommitSaves DEF Logged
<1>8. ASSUME NEW f \in FailureKinds, RecordFailure(n, f) PROVE Onwards(graph, graph') /\ Saves
  <2> DEFINE b == [a EXCEPT !.failures = @ \cup {f}]
  <2>1. Commit(Attempted(n, b))
    BY <1>8 DEF RecordFailure, a
  <2>2. f \in Failures
    BY EnvironmentAssumption DEF Failures, Hard, Recoverable
  <2>3. b \in Attempt /\ b.state = "running" /\ b.worker = "none" /\ b.tree = a.tree
        /\ b.proofs = a.proofs
    BY <1>3, <2>2 DEF Attempt
  <2> HIDE DEF b
  <2>4. Onwards(graph, Attempted(n, b))
    BY <1>1, <1>2, <2>3, AttemptedOnwards DEF a
  <2> QED BY <2>1, <2>4, CommitSaves
<1>9. ASSUME NEW t \in Observed, ProposeCompletion(n, t) PROVE Onwards(graph, graph') /\ Saves
  <2>1. t \in Observation
    BY <1>1 DEF Observed, Observation
  <2> QED BY <1>1, <1>2, <1>9, <2>1, ProposedOnwards
<1>10. CASE BlockActive(n)
  <2> DEFINE b == [a EXCEPT !.state = "blocked"]
  <2>1. Commit(Reduced(Settled(graph, n, b, "blocked")))
    BY <1>10 DEF BlockActive, BlockedBy, a
  <2>2. b \in Attempt /\ b.worker = "none" /\ b.tree = a.tree /\ b.state = "blocked"
        /\ b.proofs = a.proofs
    BY <1>3 DEF Attempt, AttemptStates
  <2> HIDE DEF b
  <2>3. "blocked" \in NodeStates \ {"running", "integrated", "awaiting_review", "ready"}
    BY DEF NodeStates
  <2>4. Onwards(graph, Settled(graph, n, b, "blocked"))
        /\ Settled(graph, n, b, "blocked") \in Snapshot
    BY <1>1, <1>2, <2>2, <2>3, PrimarySettled, EarnedPrimary DEF a
  <2> QED BY <2>1, <2>4, CalmReduced, CalmSteps, CommitSaves
<1>11. CASE ExhaustBudget(n)
  <2>1. Commit(Exhausted(graph))
    BY <1>11 DEF ExhaustBudget
  <2> QED BY <1>1, <2>1, ExhaustedOnwards, CommitSaves
<1> QED BY <1>5, <1>6, <1>7, <1>8, <1>9, <1>10, <1>11 DEF Primary

(* A worker that is out: nothing is published, and no pass is under way.      *)
LEMMA OutUnpublished ==
    ASSUME SInv, NEW n \in Out(graph)
    PROVE  /\ InState(graph, "integrated") = {} /\ pass = <<>>
           /\ n \in Node /\ Last(graph, n) \in Attempt /\ Last(graph, n).worker = "out"
           /\ Len(graph.attempts[n]) \in DOMAIN graph.attempts[n]
           /\ Last(graph, n) = graph.attempts[n][Len(graph.attempts[n])]
           /\ graph.outcome = "none" =>
                 /\ graph.active[n] = Len(graph.attempts[n]) /\ graph.active[n] # 0
                 /\ Last(graph, n).state = "running"
<1>1. Sound(graph)
  BY DEF SInv, IInv, TypeOK, Sound
<1>2. /\ n \in Node /\ Last(graph, n) \in Attempt /\ Last(graph, n).worker = "out"
      /\ Len(graph.attempts[n]) \in DOMAIN graph.attempts[n]
      /\ Last(graph, n) = graph.attempts[n][Len(graph.attempts[n])]
      /\ graph.outcome = "none" =>
            /\ graph.active[n] = Len(graph.attempts[n]) /\ graph.active[n] # 0
            /\ Last(graph, n).state = "running"
  BY <1>1, OutAttempt
<1>3. ~NobodyOut(graph)
  BY <1>2 DEF NobodyOut
<1> QED BY <1>2, <1>3 DEF SInv, Settles, Alone, Apart, Passing

LEMMA ChargedOnwards ==
    ASSUME NEW h, Sound(h), NEW n \in Out(h), NEW a \in Attempt, Onward(Last(h, n), a),
           NEW cost
    PROVE  LET g == Charged(h, n, a, cost)
           IN  /\ Onwards(h, g) /\ g.active = h.active /\ g.outcome = h.outcome
               /\ g.state = h.state /\ g.plan = h.plan
               /\ g.attempts =
                     [h.attempts EXCEPT ![n][Len(h.attempts[n])] = [a EXCEPT !.billed = TRUE]]
               /\ g.used = h.used /\ g.waived = h.waived /\ g.accepted = h.accepted
               /\ (/\ a.state = Last(h, n).state /\ a.tree = Last(h, n).tree
                   /\ a.pending = Last(h, n).pending) => Unmoved(h, g)
<1> DEFINE i == Len(h.attempts[n])
           b == [a EXCEPT !.billed = TRUE]
           k == [h EXCEPT !.attempts[n][i] = b]
           g == Charged(h, n, a, cost)
<1>1. /\ n \in Node /\ i \in DOMAIN h.attempts[n] /\ Last(h, n) = h.attempts[n][i]
  BY OutAttempt
<1>2. b \in Attempt /\ b.state = a.state /\ b.tree = a.tree /\ b.worker = a.worker
      /\ SameWork(a, b) /\ b.pending = a.pending
  BY DEF Attempt, SameWork
<1>3. Onward(h.attempts[n][i], b)
  <2>1. a.proofs \subseteq b.proofs /\ (Earned(a) => Earned(b))
    BY <1>2, EarnedSame
  <2> QED BY <1>1, <1>2, <2>1 DEF Onward, Keeps
<1>4. h \in Snapshot
  BY DEF Sound
<1> HIDE DEF b
<1>5. /\ Onwards(h, k) /\ k.state = h.state
      /\ /\ b.state = h.attempts[n][i].state /\ b.tree = h.attempts[n][i].tree
         /\ b.pending = h.attempts[n][i].pending
         => Unmoved(h, k)
  BY <1>1, <1>2, <1>3, <1>4, EditOnwards
<1>6. /\ g.plan = k.plan /\ g.attempts = k.attempts /\ g.state = k.state
      /\ g.used = k.used /\ g.waived = k.waived /\ g.accepted = k.accepted
      /\ g.used = h.used /\ g.waived = h.waived /\ g.accepted = h.accepted
      /\ g.active = h.active /\ g.outcome = h.outcome /\ k.plan = h.plan
      /\ k.attempts = [h.attempts EXCEPT ![n][i] = b]
  BY <1>4 DEF Charged, Snapshot, b
<1> HIDE DEF k, g
<1>7. Calm(k, g)
  BY <1>6 DEF Calm
<1>8. Onwards(h, g) /\ (Unmoved(h, k) => Unmoved(h, g))
  BY <1>5, <1>7, CalmSteps
<1> QED BY <1>1, <1>2, <1>5, <1>6, <1>8 DEF g, b, i

(* A worker comes back: its attempt keeps its verdict and its worktree.       *)
LEMMA BackOnwards ==
    ASSUME Sound(graph), NEW W \in SUBSET Out(graph),
           NEW g, g.plan = graph.plan, g.state = graph.state, g.used = graph.used,
           g.waived = graph.waived, g.accepted = graph.accepted,
           \A m \in Node : g.attempts[m] =
               IF m \in W THEN Back(graph, m).attempts[m] ELSE graph.attempts[m]
    PROVE  Onwards(graph, g) /\ Unmoved(graph, g)
<1>1. graph \in Snapshot
  BY DEF Sound
<1>2. ASSUME NEW m \in W
      PROVE  /\ m \in Node
             /\ DOMAIN g.attempts[m] = DOMAIN graph.attempts[m]
             /\ \A k \in DOMAIN graph.attempts[m] :
                   LET a == graph.attempts[m][k]
                   IN  /\ g.attempts[m][k].state = a.state /\ g.attempts[m][k].tree = a.tree
                       /\ g.attempts[m][k].pending = a.pending
                       /\ g.attempts[m][k].worker \in {a.worker, "back"}
                       /\ a.proofs \subseteq g.attempts[m][k].proofs
                       /\ Earned(a) => Earned(g.attempts[m][k])
  <2> DEFINE i == Len(graph.attempts[m])
             b == [Last(graph, m) EXCEPT !.worker = "back"]
  <2>1. /\ m \in Node /\ i \in DOMAIN graph.attempts[m]
        /\ Last(graph, m) = graph.attempts[m][i] /\ Last(graph, m) \in Attempt
        /\ graph.attempts[m] \in Seq(Attempt) /\ Last(graph, m).worker = "out"
    BY OutAttempt
  <2>2. b \in Attempt /\ b.state = Last(graph, m).state /\ b.tree = Last(graph, m).tree
        /\ b.worker = "back" /\ b.pending = Last(graph, m).pending
        /\ SameWork(Last(graph, m), b)
    BY <2>1 DEF Attempt, SameWork
  <2>3. Back(graph, m).attempts[m] = [graph.attempts[m] EXCEPT ![i] = b]
    BY <1>1, <2>1 DEF Back, Snapshot, Last
  <2> HIDE DEF b, i
  <2>4. /\ DOMAIN [graph.attempts[m] EXCEPT ![i] = b] = DOMAIN graph.attempts[m]
        /\ \A k \in DOMAIN graph.attempts[m] :
              [graph.attempts[m] EXCEPT ![i] = b][k] = IF k = i THEN b ELSE graph.attempts[m][k]
    BY <2>1, <2>2, SeqEdit
  <2>5. g.attempts[m] = [graph.attempts[m] EXCEPT ![i] = b]
    BY <1>2, <2>1, <2>3
  <2>6. /\ Last(graph, m).proofs \subseteq b.proofs
        /\ Earned(Last(graph, m)) => Earned(b)
    BY <2>2, EarnedSame
  <2> QED BY <2>1, <2>2, <2>4, <2>5, <2>6
<1>3. ASSUME NEW m \in Node, m \notin W PROVE g.attempts[m] = graph.attempts[m]
  BY <1>3
<1>4. ASSUME NEW m \in Node, NEW k \in DOMAIN graph.attempts[m]
      PROVE  graph.attempts[m][k].tree \in Trees
  <2>1. graph.attempts[m] \in Seq(Attempt)
    BY <1>1 DEF Snapshot
  <2>2. graph.attempts[m][k] \in Attempt
    BY <2>1
  <2> QED BY <2>2 DEF Attempt
<1>5. Ledger(graph, g)
  BY <1>2, <1>3, <1>4, OnwardSelf DEF Ledger, Onward, Keeps, Trees
<1>6. Unmoved(graph, g)
  BY <1>2, <1>3 DEF Unmoved
<1> QED BY <1>5, <1>6, VouchedOn DEF Onwards

LEMMA WorkerSettled ==
    ASSUME SInv, NEW n \in Out(graph), graph.outcome = "none", NEW b \in Attempt,
           b.worker = "back", b.tree \in {"none", "kept", Last(graph, n).tree},
           b.state # "running", SameWork(Last(graph, n), b),
           NEW s \in NodeStates \ {"running", "integrated", "ready"},
           s = "awaiting_review" => graph.plan.exec[n] = "isolated_write",
           s = "done" => b.state = "accepted" /\ graph.plan.exec[n] # "isolated_write"
    PROVE  /\ Onwards(graph, Settled(graph, n, b, s))
           /\ Settled(graph, n, b, s) \in Snapshot
<1>1. /\ n \in Node /\ Last(graph, n) \in Attempt /\ Last(graph, n).worker = "out"
      /\ Last(graph, n) = graph.attempts[n][graph.active[n]] /\ graph.active[n] # 0
      /\ Last(graph, n).state = "running"
  BY OutUnpublished
<1>2. Sound(graph)
  BY DEF SInv, IInv, TypeOK, Sound
<1>3. LET a == graph.attempts[n][graph.active[n]]
      IN  /\ a.tree # "none" => /\ b.tree = "none" => a.worker = "out" /\ b.worker = "back"
                                /\ b.tree = "discarded" => a.tree \in {"seen", "discarded"}
          /\ a.proofs \subseteq b.proofs /\ (Earned(a) => Earned(b))
  BY <1>1, EarnedSame
<1>4. Onwards(graph, Settled(graph, n, b, s))
  BY <1>1, <1>2, <1>3, SettledOnwards
<1> QED BY <1>1, <1>2, <1>4, SettledSound DEF Sound

LEMMA FinishReadOnwards ==
    ASSUME SInv, NEW n \in Node, NEW t, NEW s, FinishRead(n, t, s)
    PROVE  Onwards(graph, graph') /\ Saves
<1> DEFINE a == [Last(graph, n) EXCEPT !.worker = "back"]
           to(x, y) == Settled(graph, n, [a EXCEPT !.state = x], y)
<1>1. n \in Out(graph) /\ graph.outcome = "none" /\ graph.plan.exec[n] = "read_only"
  BY DEF FinishRead, OutIn
<1>2. Last(graph, n) \in Attempt /\ Last(graph, n).worker = "out"
  BY <1>1, OutUnpublished
<1>3. a \in Attempt /\ a.worker = "back" /\ a.tree = Last(graph, n).tree
      /\ SameWork(Last(graph, n), a)
  BY <1>2 DEF Attempt, SameWork
<1>4. \/ Commit(Reduced(Refreshed(to("accepted", "done"))))
      \/ Commit(Reduced(Refreshed(to("retryable", "retryable"))))
      \/ Commit(Reduced(to("blocked", "blocked")))
      \/ Commit(Reduced(to("budget_exhausted", "budget_exhausted")))
      \/ Commit(Reduced(to("cancelled", "blocked")))
  BY DEF FinishRead
<1> HIDE DEF a
<1>5. \A x \in AttemptStates \ {"running"} :
        LET b == [a EXCEPT !.state = x]
        IN  /\ b \in Attempt /\ b.state = x /\ b.worker = "back" /\ b.tree = Last(graph, n).tree
            /\ SameWork(Last(graph, n), b)
  BY <1>3 DEF Attempt, SameWork
<1>6. \A x \in AttemptStates \ {"running"},
         y \in NodeStates \ {"running", "ready", "integrated", "awaiting_review"} :
        (y = "done" => x = "accepted") =>
            Onwards(graph, to(x, y)) /\ to(x, y) \in Snapshot
  BY <1>1, <1>5, WorkerSettled
<1> HIDE DEF to
<1>7. \A x \in AttemptStates \ {"running"},
         y \in NodeStates \ {"running", "ready", "integrated", "awaiting_review"} :
        (y = "done" => x = "accepted") =>
            /\ Onwards(graph, Reduced(to(x, y)))
            /\ Onwards(graph, Reduced(Refreshed(to(x, y))))
  <2> SUFFICES ASSUME NEW g \in Snapshot, Onwards(graph, g)
               PROVE  Onwards(graph, Reduced(g)) /\ Onwards(graph, Reduced(Refreshed(g)))
    BY <1>6
  <2>1. Refreshed(g) \in Snapshot
    BY RefreshedType
  <2> QED BY <2>1, CalmReduced, CalmRefreshed, CalmSteps
<1>8. /\ {"accepted", "retryable", "blocked", "budget_exhausted", "cancelled"}
            \subseteq AttemptStates \ {"running"}
      /\ {"done", "retryable", "blocked", "budget_exhausted"}
            \subseteq NodeStates \ {"running", "ready", "integrated", "awaiting_review"}
  BY DEF AttemptStates, NodeStates
<1> QED BY <1>4, <1>7, <1>8, CommitSaves

LEMMA FinishWriterOnwards ==
    ASSUME SInv, NEW n \in Node, NEW t, NEW s, NEW c \in BOOLEAN, NEW v,
           NEW x \in Costs, FinishWriter(n, t, s, c, v, x)
    PROVE  Onwards(graph, graph') /\ Saves
<1> DEFINE last == Last(graph, n)
           a == [last EXCEPT !.worker = "back", !.candidate = c,
                             !.tree = IF c THEN "kept" ELSE "none"]
           b == [a EXCEPT !.billed = TRUE]
           h == Charged(graph, n, a, x)
           to(y, z) == Settled(h, n, [b EXCEPT !.state = y], z)
           near(y, z) == Settled(graph, n, [b EXCEPT !.state = y], z)
<1>1. n \in Out(graph) /\ graph.plan.exec[n] = "isolated_write" /\ Sound(graph)
  BY DEF FinishWriter, OutIn, SInv, IInv, TypeOK, Sound
<1>2. /\ last \in Attempt /\ last.worker = "out"
      /\ Len(graph.attempts[n]) \in DOMAIN graph.attempts[n]
      /\ graph.outcome = "none" => graph.active[n] = Len(graph.attempts[n]) /\ graph.active[n] # 0
  BY <1>1, OutUnpublished
<1>3. a \in Attempt /\ a.worker = "back" /\ a.state = last.state /\ a.tree \in {"none", "kept"}
      /\ SameWork(last, a)
  BY <1>2 DEF Attempt, Trees, SameWork
<1>4. \/ Commit(h)
      \/ graph.outcome = "none" /\ \/ Commit(Reduced(to("candidate", "awaiting_review")))
                                   \/ Commit(Reduced(to("budget_exhausted", "budget_exhausted")))
                                   \/ Commit(Reduced(to("cancelled", "blocked")))
                                   \/ Commit(Reduced(to("blocked", "blocked")))
  <2>1. \A y : [a EXCEPT !.billed = TRUE, !.state = y] = [b EXCEPT !.state = y]
    BY <1>3 DEF Attempt
  <2> HIDE DEF b
  <2>2. \/ Commit(h)
        \/ graph.outcome = "none" /\ \/ Commit(Reduced(to("candidate", "awaiting_review")))
                                     \/ Commit(Reduced(to("budget_exhausted", "budget_exhausted")))
                                     \/ Commit(Reduced(to(IF s = "cancelled" THEN "cancelled"
                                                          ELSE "blocked", "blocked")))
    BY <2>1 DEF FinishWriter
  <2> HIDE DEF to, h
  <2> QED BY <2>2
<1> HIDE DEF a, last
<1>5. Onward(last, a)
  BY <1>2, <1>3, EarnedSame DEF Onward, Keeps
<1>6. /\ Onwards(graph, h) /\ h.active = graph.active /\ h.state = graph.state
      /\ h.plan = graph.plan /\ h.used = graph.used /\ h.waived = graph.waived
      /\ h.accepted = graph.accepted
      /\ h.attempts = [graph.attempts EXCEPT ![n][Len(graph.attempts[n])] = b]
  BY <1>1, <1>3, <1>5, ChargedOnwards DEF last
<1>7. \A y \in AttemptStates \ {"running"} :
        LET d == [b EXCEPT !.state = y]
        IN  /\ d \in Attempt /\ d.state = y /\ d.worker = "back" /\ d.tree \in {"none", "kept"}
            /\ SameWork(last, d)
  BY <1>3 DEF Attempt, SameWork
<1>8. Sound(h) /\ h \in Snapshot
  <2>1. a.state = "running" => a.nudges <= 2
    BY <1>1, <1>2, <1>3, OutAttempt DEF a, last, Attempt
  <2>2. InPlace(a, last)
    BY <1>2, <1>3, <2>1 DEF InPlace
  <2>3. x \in Nat
    BY EnvironmentAssumption
  <2> QED BY <1>1, <1>3, <2>2, <2>3, ChargedSound DEF last, Sound
<1> HIDE DEF b, h
<1>9. ASSUME graph.outcome = "none",
             NEW y \in AttemptStates \ {"running"},
             NEW z \in {"awaiting_review", "budget_exhausted", "blocked"}
      PROVE  Onwards(graph, Reduced(to(y, z)))
  <2> DEFINE d == [b EXCEPT !.state = y]
  <2>1. d \in Attempt /\ d.state = y /\ d.worker = "back" /\ d.tree \in {"none", "kept"}
        /\ SameWork(Last(graph, n), d)
    BY <1>7 DEF last
  <2> HIDE DEF d
  <2>2. z \in NodeStates \ {"running", "integrated", "ready"} /\ z # "done"
    BY DEF NodeStates
  <2>3. Onwards(graph, Settled(graph, n, d, z)) /\ Settled(graph, n, d, z) \in Snapshot
    BY <1>1, <1>9, <2>1, <2>2, WorkerSettled
  <2>4. Calm(Settled(graph, n, d, z), Settled(h, n, d, z)) /\ Settled(h, n, d, z) \in Snapshot
    <3> DEFINE i == Len(graph.attempts[n])
    <3>1. graph \in Snapshot /\ graph.active[n] = i /\ graph.attempts[n] \in Seq(Attempt)
          /\ i \in DOMAIN graph.attempts[n]
      BY <1>1, <1>2, <1>9 DEF Sound, Snapshot
    <3> HIDE DEF i
    <3>2. [h.attempts EXCEPT ![n][i] = d] = [graph.attempts EXCEPT ![n][i] = d]
      BY <1>6, <3>1 DEF Snapshot, i
    <3>3. /\ Settled(h, n, d, z).plan = h.plan
          /\ Settled(h, n, d, z).attempts = [h.attempts EXCEPT ![n][i] = d]
          /\ Settled(h, n, d, z).state = [h.state EXCEPT ![n] = z]
          /\ Settled(h, n, d, z).used = h.used /\ Settled(h, n, d, z).waived = h.waived
          /\ Settled(h, n, d, z).accepted =
                [h.accepted EXCEPT ![n] = IF z = "done" THEN i ELSE @]
      BY <1>6, <1>8, <3>1 DEF Settled, Snapshot
    <3>4. /\ Settled(graph, n, d, z).plan = graph.plan
          /\ Settled(graph, n, d, z).attempts = [graph.attempts EXCEPT ![n][i] = d]
          /\ Settled(graph, n, d, z).state = [graph.state EXCEPT ![n] = z]
          /\ Settled(graph, n, d, z).used = graph.used
          /\ Settled(graph, n, d, z).waived = graph.waived
          /\ Settled(graph, n, d, z).accepted =
                [graph.accepted EXCEPT ![n] = IF z = "done" THEN i ELSE @]
      BY <3>1 DEF Settled, Snapshot
    <3>5. Calm(Settled(graph, n, d, z), Settled(h, n, d, z))
      BY <1>6, <3>2, <3>3, <3>4 DEF Calm
    <3>6. Settled(h, n, d, z) \in Snapshot
      BY <1>2, <1>6, <1>8, <1>9, <2>1, <2>2, SettledSound DEF Sound
    <3> QED BY <3>5, <3>6
  <2>5. Onwards(graph, Reduced(Settled(h, n, d, z)))
    BY <2>3, <2>4, CalmSteps, CalmReduced
  <2> QED BY <2>5 DEF d
<1>10. {"candidate", "blocked", "budget_exhausted", "cancelled"} \subseteq AttemptStates \ {"running"}
  BY DEF AttemptStates
<1> HIDE DEF to
<1> QED BY <1>4, <1>6, <1>9, <1>10, CommitSaves

(* A wave refused before it is dispatched.                                    *)
LEMMA RefusedOnwards ==
    ASSUME SInv, RefuseWave PROVE Onwards(graph, graph') /\ Saves
<1> DEFINE wave == OutIn("isolated_write")
           ended(n) == [Last(graph, n) EXCEPT !.state = "blocked",
                                              !.billed = TRUE, !.worker = "back"]
           l(n) == IF n \in wave
                   THEN [graph.attempts[n] EXCEPT ![Len(graph.attempts[n])] = ended(n)]
                   ELSE graph.attempts[n]
           h == [graph EXCEPT
                   !.attempts = [n \in Node |-> l(n)],
                   !.state = [n \in Node |-> IF n \in wave THEN "blocked" ELSE @[n]],
                   !.active = [n \in Node |-> IF n \in wave THEN 0 ELSE @[n]]]
<1>1. Sound(graph) /\ graph \in Snapshot /\ graph.outcome = "none"
  BY DEF SInv, IInv, TypeOK, Sound, RefuseWave
<1>2. Commit(Reduced(h))
  BY <1>1 DEF RefuseWave, Snapshot
<1>3. ASSUME NEW n \in wave
      PROVE  /\ n \in Node /\ graph.state[n] = "running" /\ l(n) \in Seq(Attempt)
             /\ DOMAIN l(n) = DOMAIN graph.attempts[n]
             /\ \A k \in DOMAIN graph.attempts[n] : Onward(graph.attempts[n][k], l(n)[k])
  <2> DEFINE i == Len(graph.attempts[n])
             b == ended(n)
  <2>1. n \in Out(graph)
    BY <1>3 DEF OutIn
  <2>2. /\ n \in Node /\ i \in DOMAIN graph.attempts[n] /\ Last(graph, n) \in Attempt
        /\ Last(graph, n) = graph.attempts[n][i] /\ graph.attempts[n] \in Seq(Attempt)
        /\ Last(graph, n).state = "running" /\ graph.active[n] # 0
        /\ Last(graph, n).worker = "out"
    BY <1>1, <2>1, OutAttempt
  <2>3. b \in Attempt /\ b.worker = "back" /\ b.tree = Last(graph, n).tree
        /\ SameWork(Last(graph, n), b) /\ b.state = "blocked"
    BY <2>2 DEF Attempt, AttemptStates, SameWork
  <2>4. graph.state[n] = "running"
    BY <1>1, <2>2, IdleRunsNothing
  <2>5. Onward(Last(graph, n), b)
    <3> HIDE DEF b
    <3> QED BY <2>2, <2>3, EarnedSame DEF Onward, Keeps
  <2>6. l(n) = [graph.attempts[n] EXCEPT ![i] = b]
    BY <1>3
  <2> HIDE DEF b, i, l, wave
  <2>7. /\ l(n) \in Seq(Attempt) /\ DOMAIN l(n) = DOMAIN graph.attempts[n]
        /\ \A k \in DOMAIN graph.attempts[n] :
              l(n)[k] = IF k = i THEN b ELSE graph.attempts[n][k]
    BY <2>2, <2>3, <2>6, SeqEdit
  <2> QED BY <2>2, <2>4, <2>5, <2>7, OnwardSelf
<1>4. \A n \in Node : n \notin wave => l(n) = graph.attempts[n] /\ l(n) \in Seq(Attempt)
  BY <1>1 DEF Snapshot
<1> HIDE DEF wave, l
<1>5. /\ h.plan = graph.plan /\ h.used = graph.used /\ h.waived = graph.waived
      /\ h.accepted = graph.accepted
      /\ \A n \in Node : /\ h.attempts[n] = l(n)
                         /\ h.state[n] = IF n \in wave THEN "blocked" ELSE graph.state[n]
  BY <1>1 DEF Snapshot
<1>6. h \in Snapshot
  <2>1. [n \in Node |-> l(n)] \in [Node -> Seq(Attempt)]
    BY <1>3, <1>4
  <2> QED BY <1>1, <2>1 DEF Snapshot, NodeStates
<1> HIDE DEF h
<1>7. Ledger(graph, h)
  BY <1>3, <1>4, <1>5, OnwardSelf DEF Ledger
<1>8. Onwards(graph, h)
  BY <1>3, <1>5, <1>7, VouchedOn DEF Onwards
<1>9. Onwards(graph, Reduced(h))
  BY <1>6, <1>8, CalmReduced, CalmSteps
<1> QED BY <1>2, <1>9, CommitSaves

(* Workers and their waves.                                                   *)
LEMMA WavesPromises ==
    ASSUME SInv, IInv', (\E n \in Node : Waves(n)) \/ RefuseWave PROVE SInv' /\ Promise
<1>1. Sound(graph) /\ graph \in Snapshot
  BY DEF SInv, IInv, TypeOK, Sound
<1>2. ASSUME NEW n \in Out(graph), Quiet, Onwards(graph, graph'), Saves PROVE SInv' /\ Promise
  <2>1. InState(graph, "integrated") = {} /\ pass = <<>>
    BY OutUnpublished
  <2> QED BY <1>2, <2>1, UnpublishedKeeps DEF Quiet
<1>3. ASSUME NEW n \in Node, NEW e \in Workers, NEW c \in Costs, NEW b \in BOOLEAN,
             RecordUsage(n, e, c, b)
      PROVE  SInv' /\ Promise
  <2> DEFINE last == Last(graph, n)
             a == [last EXCEPT !.cached = b]
             h == Charged(graph, n, a, c)
  <2>1. n \in Out(graph) /\ Quiet
    BY <1>3 DEF RecordUsage, OutIn
  <2>2. Commit(Exhausted(h)) \/ Note(h)
    BY <1>3 DEF RecordUsage
  <2>3. last \in Attempt /\ last.worker = "out"
    BY <2>1, OutUnpublished
  <2>4. a \in Attempt /\ a.state = last.state /\ a.tree = last.tree /\ a.worker = last.worker
        /\ a.nudges = last.nudges /\ a.pending = last.pending /\ SameWork(last, a)
    BY <2>3 DEF Attempt, SameWork
  <2> HIDE DEF a
  <2>5. Onward(last, a)
    BY <2>3, <2>4, EarnedSame DEF Onward, Keeps, Attempt
  <2>6. Onwards(graph, h) /\ Unmoved(graph, h) /\ h.plan = graph.plan
    <3>1. Onward(Last(graph, n), a) /\ a.state = Last(graph, n).state
          /\ a.tree = Last(graph, n).tree /\ a.pending = Last(graph, n).pending
      BY <2>4, <2>5
    <3> HIDE DEF last, h
    <3>2. Onwards(graph, h) /\ Unmoved(graph, h)
      BY <1>1, <2>1, <2>4, <3>1, ChargedOnwards DEF h
    <3> QED BY <3>2 DEF Onwards
  <2>7. Sound(h)
    <3>1. last.state = "running" => last.nudges <= 2
      BY <1>1, <2>1, OutAttempt
    <3>2. InPlace(a, last)
      BY <2>4, <3>1 DEF InPlace
    <3>3. c \in Nat
      BY EnvironmentAssumption
    <3> QED BY <1>1, <2>1, <2>4, <3>2, <3>3, ChargedSound
  <2>8. /\ h.attempts = [graph.attempts EXCEPT ![n][Len(graph.attempts[n])] =
                             [a EXCEPT !.billed = TRUE]]
        /\ h.state = graph.state
    BY <1>1, <2>1, <2>4, <2>5, ChargedOnwards
  <2> HIDE DEF h, last
  <2>9. Onwards(h, Exhausted(h))
    BY <2>7, ExhaustedOnwards
  <2>10. Onwards(graph, Exhausted(h))
    <3>1. ASSUME NEW m \in Node, NEW k \in DOMAIN graph.attempts[m]
          PROVE  Onward(graph.attempts[m][k], Exhausted(h).attempts[m][k])
      <4>1. /\ h.attempts[m][k].state = graph.attempts[m][k].state
            /\ h.attempts[m][k].tree = graph.attempts[m][k].tree
            /\ k \in DOMAIN h.attempts[m]
        BY <2>6 DEF Unmoved
      <4>2. h.attempts[m][k].worker = graph.attempts[m][k].worker
        <5> DEFINE i == Len(graph.attempts[n])
                   d == [a EXCEPT !.billed = TRUE]
        <5>1. /\ n \in Node /\ i \in DOMAIN graph.attempts[n]
              /\ Last(graph, n) = graph.attempts[n][i] /\ graph.attempts[n] \in Seq(Attempt)
          BY <1>1, <2>1, OutAttempt
        <5>2. d \in Attempt /\ d.worker = graph.attempts[n][i].worker
          BY <2>4, <5>1 DEF last, Attempt
        <5> HIDE DEF d, i
        <5>3. \A j \in DOMAIN graph.attempts[n] :
                  [graph.attempts[n] EXCEPT ![i] = d][j] =
                      IF j = i THEN d ELSE graph.attempts[n][j]
          BY <5>1, <5>2, SeqEdit
        <5>4. h.attempts[m] = IF m = n THEN [graph.attempts[n] EXCEPT ![i] = d]
                              ELSE graph.attempts[m]
          BY <1>1, <2>8 DEF Snapshot, d, i
        <5> QED BY <3>1, <5>1, <5>2, <5>3, <5>4
      <4>3. Onward(h.attempts[m][k], Exhausted(h).attempts[m][k])
        BY <2>9, <4>1 DEF Onwards, Ledger
      <4>4. Onward(graph.attempts[m][k], h.attempts[m][k])
        BY <2>6 DEF Onwards, Ledger
      <4> DEFINE x == graph.attempts[m][k]
                 y == h.attempts[m][k]
                 z == Exhausted(h).attempts[m][k]
      <4> HIDE DEF x, y, z
      <4>5. Onward(x, y) /\ Onward(y, z) /\ y.state = x.state /\ y.tree = x.tree
            /\ y.worker = x.worker
        BY <4>1, <4>2, <4>3, <4>4 DEF x, y, z
      <4>6. Onward(x, z)
        BY <4>5 DEF Onward, Keeps
      <4> QED BY <4>6 DEF x, z
    <3>2. \A m \in Node : DOMAIN Exhausted(h).attempts[m] = DOMAIN graph.attempts[m]
      BY <2>6, <2>9 DEF Onwards, Ledger
    <3>3. Ledger(graph, Exhausted(h))
      BY <3>1, <3>2 DEF Ledger
    <3> QED BY <2>6, <2>8, <2>9, <3>3 DEF Onwards
  <2>11. Onwards(graph, graph') /\ Saves
    BY <2>2, <2>6, <2>10, NoteSaves, CommitSaves
  <2> QED BY <1>2, <2>1, <2>11
<1>4. ASSUME NEW n \in Node, StrandReads(n) PROVE SInv' /\ Promise
  <2> DEFINE W == OutIn("read_only")
             g == [graph EXCEPT !.attempts = [m \in Node |->
                      IF m \in W THEN Back(graph, m).attempts[m] ELSE @[m]]]
  <2>1. n \in Out(graph) /\ Quiet /\ Unsaved(g) /\ W \in SUBSET Out(graph)
    BY <1>4 DEF StrandReads, OutIn
  <2> HIDE DEF W
  <2>2. /\ g.plan = graph.plan /\ g.state = graph.state /\ g.used = graph.used
        /\ g.waived = graph.waived /\ g.accepted = graph.accepted
        /\ \A m \in Node : g.attempts[m] =
               IF m \in W THEN Back(graph, m).attempts[m] ELSE graph.attempts[m]
    BY <1>1 DEF Snapshot
  <2> HIDE DEF g
  <2>3. Onwards(graph, g) /\ Unmoved(graph, g)
    BY <1>1, <2>1, <2>2, BackOnwards
  <2> QED BY <1>2, <2>1, <2>3, NoteSaves
<1>5. ASSUME NEW n \in Node, NEW t \in Observed, NEW s \in Statuses, FinishRead(n, t, s)
      PROVE  SInv' /\ Promise
  <2>1. n \in Out(graph) /\ Quiet
    BY <1>5 DEF FinishRead, OutIn
  <2> QED BY <1>2, <1>5, <2>1, FinishReadOnwards
<1>6. ASSUME NEW n \in Node, DropRead(n) PROVE SInv' /\ Promise
  <2>1. n \in Out(graph) /\ Quiet /\ Unsaved(Back(graph, n))
    BY <1>6 DEF DropRead, OutIn
  <2>2. /\ Back(graph, n).plan = graph.plan /\ Back(graph, n).state = graph.state
        /\ Back(graph, n).used = graph.used /\ Back(graph, n).waived = graph.waived
        /\ Back(graph, n).accepted = graph.accepted
        /\ \A m \in Node : Back(graph, n).attempts[m] =
               IF m \in {n} THEN Back(graph, m).attempts[m] ELSE graph.attempts[m]
    BY <1>1 DEF Back, Snapshot
  <2>3. Onwards(graph, Back(graph, n)) /\ Unmoved(graph, Back(graph, n))
    <3>1. {n} \in SUBSET Out(graph)
      BY <2>1
    <3> QED BY <1>1, <2>2, <3>1, BackOnwards
  <2> QED BY <1>2, <2>1, <2>3, NoteSaves
<1>7. ASSUME NEW n \in Node, RecordWriterWorktree(n) PROVE SInv' /\ Promise
  <2> DEFINE i == graph.active[n]
             b == [Last(graph, n) EXCEPT !.tree = "kept"]
  <2>1. /\ n \in Out(graph) /\ Quiet /\ Last(graph, n).tree = "none"
        /\ Last(graph, n).state = "running"
        /\ Commit([graph EXCEPT !.attempts[n][i].tree = "kept"])
    BY <1>7 DEF RecordWriterWorktree, OutIn
  <2>2. /\ Last(graph, n) \in Attempt /\ Last(graph, n) = graph.attempts[n][Len(graph.attempts[n])]
        /\ Len(graph.attempts[n]) \in DOMAIN graph.attempts[n]
    BY <1>1, <2>1, OutAttempt
  <2>3. i = Len(graph.attempts[n])
    BY <1>1, <2>1, <2>2 DEF Sound, Books, RunsOnce
  <2>4. b \in Attempt /\ Onward(graph.attempts[n][i], b)
    <3>1. /\ b \in Attempt /\ b.state = Last(graph, n).state /\ b.tree = "kept"
          /\ b.worker = Last(graph, n).worker /\ SameWork(Last(graph, n), b)
      BY <2>2 DEF Attempt, Trees, SameWork
    <3> HIDE DEF b
    <3> QED BY <2>1, <2>2, <2>3, <3>1, EarnedSame DEF Onward, Keeps
  <2>5. [graph EXCEPT !.attempts[n][i].tree = "kept"] = [graph EXCEPT !.attempts[n][i] = b]
    BY <1>1, <2>2, <2>3 DEF Snapshot
  <2> HIDE DEF b, i
  <2>6. Onwards(graph, [graph EXCEPT !.attempts[n][i] = b])
    BY <1>1, <2>2, <2>3, <2>4, EditOnwards
  <2> QED BY <1>2, <2>1, <2>5, <2>6, CommitSaves
<1>8. ASSUME NEW n \in Node, NEW t \in Observed, NEW s \in Statuses, NEW c \in BOOLEAN,
             NEW v \in BOOLEAN, NEW x \in Costs, FinishWriter(n, t, s, c, v, x)
      PROVE  SInv' /\ Promise
  <2>1. n \in Out(graph) /\ Quiet
    BY <1>8 DEF FinishWriter, OutIn
  <2> QED BY <1>2, <1>8, <2>1, FinishWriterOnwards
<1>9. CASE RefuseWave
  <2>1. PICK n \in OutIn("isolated_write") : TRUE
    BY <1>9 DEF RefuseWave
  <2>2. n \in Out(graph) /\ Quiet
    BY <1>9 DEF RefuseWave, OutIn
  <2> QED BY <1>2, <1>9, <2>2, RefusedOnwards
<1> QED BY <1>3, <1>4, <1>5, <1>6, <1>7, <1>8, <1>9 DEF Waves

-----------------------------------------------------------------------------
(* Scheduling.                                                              *)

(* A calm step keeps the invariant and the promise.                           *)
LEMMA CalmKeeps ==
    ASSUME SInv, IInv', Calm(graph, graph'), Saves, Passing',
           graph.outcome = "none" \/ graph'.outcome # "none"
    PROVE  SInv' /\ Promise
<1>1. graph \in Snapshot /\ Alone(graph)
  BY DEF SInv, IInv, TypeOK, Settles
<1>2. Alone(graph')
  BY <1>1, CalmAlone
<1>3. Onwards(graph, graph')
  BY CalmOnwards
<1> QED BY <1>2, <1>3, OrdinaryKeeps

LEMMA CalmMoved ==
    ASSUME NEW h \in Snapshot, NEW n \in h.plan.nodes, h.state[n] \notin {"running", "awaiting_review"},
           NEW s \in {"blocked", "budget_exhausted", "retryable"}
    PROVE  Calm(h, [h EXCEPT !.state[n] = s]) /\ [h EXCEPT !.state[n] = s] \in Snapshot
<1>1. n \in Node
  BY PlanNodes
<1>2. s \in NodeStates
  BY DEF NodeStates
<1> QED BY <1>1, <1>2 DEF Calm, Snapshot

(* A wave starts only in an idle graph that goes on, so nothing waits for a   *)
(* combined check, and its writers were chosen not to overlap.                *)
LEMMA StartKeeps ==
    ASSUME SInv, IInv', NEW h, Sound(h), h.outcome = "none", ~HasRunningAttempt(h),
           Calm(graph, h), NEW e \in Executions, NEW wave \in SUBSET Ready(h, e), NEW t,
           \A m, n \in wave : m # n => ~Overlap(h, m, n),
           graph' = Started(h, wave, t, e), disk' = graph', pass' = <<>>,
           graph.outcome = "none", graph.pause = "off", graph.spent < graph.limit
    PROVE  SInv' /\ Promise
<1> DEFINE w == IF e = "primary" THEN "none" ELSE "out"
           l(n) == IF n \in wave THEN Append(h.attempts[n], NewAttempt(h, t, w))
                   ELSE h.attempts[n]
<1>1. graph \in Snapshot /\ h \in Snapshot /\ Settles(graph)
  BY DEF SInv, IInv, TypeOK, Sound
<1>2. h.plan.nodes \subseteq Node /\ graph.plan = h.plan /\ graph.attempts = h.attempts
  BY <1>1, PlanNodes DEF Calm
<1>3. wave \subseteq Node
      /\ \A n \in wave : n \in h.plan.nodes /\ h.state[n] = "ready" /\ h.plan.exec[n] = e
  BY <1>2 DEF Ready, InLane, InState
<1>4. /\ graph'.plan = h.plan /\ graph'.waived = h.waived
      /\ graph'.accepted = h.accepted
      /\ \A n \in Node : /\ graph'.attempts[n] = l(n)
                         /\ graph'.state[n] = IF n \in wave THEN "running" ELSE h.state[n]
                         /\ graph'.used[n] = IF n \in wave THEN h.used[n] + 1 ELSE h.used[n]
  BY <1>1 DEF Started, Snapshot
<1>5. \A n \in h.plan.nodes : h.state[n] # "running"
  BY <1>2, IdleRunsNothing
<1>6. InState(graph, "integrated") = {}
  <2>1. InState(graph, "running") = {}
    BY <1>2, <1>5 DEF InState, Calm
  <2> QED BY <1>1, <2>1 DEF Settles, Alone
<1>7. ASSUME NEW n \in Node, NEW k \in DOMAIN graph.attempts[n]
      PROVE  k \in DOMAIN graph'.attempts[n] /\ graph'.attempts[n][k] = graph.attempts[n][k]
  <2>1. h.attempts[n] \in Seq(Attempt) /\ k \in 1 .. Len(h.attempts[n])
    <3>1. h.attempts[n] \in Seq(Attempt)
      BY <1>1 DEF Snapshot
    <3>2. k \in DOMAIN h.attempts[n]
      BY <1>2
    <3> QED BY <3>1, <3>2
  <2>2. ASSUME NEW a PROVE /\ k \in DOMAIN Append(h.attempts[n], a)
                           /\ Append(h.attempts[n], a)[k] = h.attempts[n][k]
    BY <2>1
  <2> QED BY <1>2, <1>4, <2>1, <2>2
<1>15. ASSUME NEW n \in Node, NEW k \in DOMAIN graph'.attempts[n],
              k \notin DOMAIN graph.attempts[n]
       PROVE  graph'.attempts[n][k] = NewAttempt(h, t, w)
  <2>1. h.attempts[n] \in Seq(Attempt)
    BY <1>1 DEF Snapshot
  <2>2. ASSUME NEW a, k \in DOMAIN Append(h.attempts[n], a)
        PROVE  Append(h.attempts[n], a)[k] = a
    BY <1>2, <1>15, <2>1, <2>2
  <2>3. graph'.attempts[n] = l(n) /\ h.attempts[n] = graph.attempts[n]
    BY <1>2, <1>4
  <2> QED BY <1>15, <2>2, <2>3
<1> HIDE DEF l
<1>16. Earnt(graph')
  <2>1. Earned(NewAttempt(h, t, w))
    BY DEF Earned, NewAttempt, Checked
  <2> HIDE DEF w
  <2>2. \A n \in Node : \A k \in DOMAIN graph.attempts[n] : Earned(graph.attempts[n][k])
    BY <1>1 DEF Settles, Earnt
  <2> SUFFICES ASSUME NEW n \in Node, NEW k \in DOMAIN graph'.attempts[n]
               PROVE  Earned(graph'.attempts[n][k])
    BY DEF Earnt
  <2>3. CASE k \in DOMAIN graph.attempts[n]
    BY <1>7, <2>2, <2>3
  <2>4. CASE k \notin DOMAIN graph.attempts[n]
    BY <1>15, <2>1, <2>4
  <2> QED BY <2>3, <2>4
<1>17. Vouched(graph')
  <2>1. Vouched(h)
    BY <1>1, CalmVouched DEF Settles
  <2> SUFFICES ASSUME NEW n \in Node, n \in InState(graph', "done"),
                      graph'.plan.exec[n] = "isolated_write"
               PROVE  Vouches(graph', n)
    BY DEF Vouched
  <2>2. Vouches(h, n)
    BY <1>4, <2>1 DEF Vouched, InState
  <2>3. CASE n \in h.waived
    BY <1>4, <2>3 DEF Vouches
  <2>4. CASE /\ h.accepted[n] \in DOMAIN h.attempts[n]
             /\ h.attempts[n][h.accepted[n]].proofs # {}
    <3>1. h.accepted[n] \in DOMAIN graph.attempts[n]
      BY <1>2, <2>4
    <3>2. /\ h.accepted[n] \in DOMAIN graph'.attempts[n]
          /\ graph'.attempts[n][h.accepted[n]] = graph.attempts[n][h.accepted[n]]
      BY <1>7, <3>1
    <3> QED BY <1>2, <1>4, <2>4, <3>2 DEF Vouches
  <2> QED BY <2>2, <2>3, <2>4 DEF Vouches
<1>18. Counts(graph')
  <2>1. \A n \in Node : h.used[n] \in Nat
    BY <1>1 DEF Snapshot
  <2>2. \A n \in Node : n \in wave => h.used[n] + 1 >= 1
    BY <2>1
  <2>3. \A n \in Node : h.state[n] = "running" => h.used[n] >= 1
    BY <1>1 DEF Settles, Counts, Calm
  <2> QED BY <1>4, <2>2, <2>3 DEF Counts
<1>8. Disjoint(graph')
  <2>1. \A n \in Running(graph', "isolated_write") : n \in wave /\ n \in Node
    BY <1>2, <1>4, <1>5 DEF Running, InLane, InState
  <2> QED BY <1>4, <2>1 DEF Disjoint, Overlap
<1>9. Reviewed(graph')
  BY <1>1, <1>4 DEF Settles, Reviewed, Calm
<1>10. Alone(graph')
  <2>1. InState(graph', "integrated") = {}
    BY <1>2, <1>4, <1>6 DEF InState, Calm
  <2> QED BY <2>1 DEF Alone, Apart
<1>11. SInv'
  <2>1. Settles(graph')
    BY <1>8, <1>9, <1>10, <1>16, <1>17, <1>18 DEF Settles
  <2>2. Unmoved(graph', disk')
    BY DEF Unmoved
  <2> QED BY <2>1, <2>2 DEF SInv, Passing
<1>12. ~HasRunningAttempt(graph)
  BY <1>2 DEF HasRunningAttempt
<1>13. \A n \in Node : graph.state[n] = "awaiting_review" => graph'.state[n] = "awaiting_review"
  BY <1>3, <1>4 DEF Calm
<1>14. InState(graph, "awaiting_review") \subseteq Node
  BY <1>2 DEF InState
<1>19. \A a : Keeps(a, a)
  BY OnwardSelf DEF Onward
<1> QED BY <1>7, <1>11, <1>12, <1>13, <1>14, <1>19 DEF Promise, InState

(* The three ends of a claim.                                                 *)
LEMMA ClaimPromises ==
    ASSUME SInv, IInv', NEW h, Sound(h), h.outcome = "none", ~HasRunningAttempt(h),
           Calm(graph, h), NEW e \in Workers, NEW t,
           Claim(h, e, t) \/ (Ready(h, e) # {} /\ ExhaustReady(h, e)),
           graph.outcome = "none", graph.pause = "off", graph.spent < graph.limit
    PROVE  SInv' /\ Promise
<1>1. CASE Claim(h, e, t)
  <2>1. PICK wave \in SUBSET Ready(h, e) :
            IsWave(h, e, wave) /\ Commit(Started(h, wave, t, e))
    BY <1>1 DEF Claim
  <2>2. \A m, n \in wave : m # n => ~Overlap(h, m, n)
    BY <2>1 DEF IsWave
  <2>3. e \in Executions
    BY DEF Workers, Executions
  <2>4. pass' = <<>>
    BY <1>1 DEF Claim
  <2>5. graph' = Started(h, wave, t, e) /\ disk' = graph'
    BY <2>1 DEF Commit
  <2> QED BY <2>2, <2>3, <2>4, <2>5, StartKeeps
<1>2. CASE Ready(h, e) # {} /\ ExhaustReady(h, e)
  <2> DEFINE n == First(Ready(h, e))
             g == [h EXCEPT !.state[n] = "budget_exhausted"]
  <2>1. h \in Snapshot
    BY DEF Sound
  <2>2. Ready(h, e) \subseteq Node
    BY <2>1, PlanNodes DEF Ready, InLane, InState
  <2>3. n \in Ready(h, e)
    BY <1>2, <2>2, FirstIsMember
  <2>4. n \in h.plan.nodes /\ h.state[n] = "ready"
    BY <2>3 DEF Ready, InLane, InState
  <2>5. Commit(Terminated(g, "budget_exhausted")) /\ pass' = <<>>
    BY <1>2 DEF ExhaustReady
  <2> HIDE DEF n
  <2>6. Calm(h, g) /\ g \in Snapshot
    BY <2>1, <2>4, CalmMoved
  <2> HIDE DEF g
  <2>7. Calm(graph, Terminated(g, "budget_exhausted"))
    BY <2>6, CalmTerminated, CalmSteps
  <2>8. graph' = Terminated(g, "budget_exhausted") /\ Saves
    BY <2>5, CommitSaves
  <2>9. Passing'
    BY <2>5 DEF Passing
  <2> QED BY <2>7, <2>8, <2>9, CalmKeeps
<1> QED BY <1>1, <1>2

(* A pass that read a ready writer still finds it after noticing the token.  *)
LEMMA NoticedReady ==
    ASSUME NEW h, Sound(h), h.outcome = "none", NEW t \in Observation, NEW e, Ready(h, e) # {}
    PROVE  Ready(Noticed(h, t), e) # {}
<1>1. h \in Snapshot /\ h.plan.nodes \subseteq Node
  BY PlanNodes DEF Sound
<1>2. PICK m \in h.plan.nodes : h.state[m] = "ready" /\ h.plan.exec[m] = e
  BY DEF Ready, InLane, InState
<1> DEFINE d == IF Differs(h, t) THEN AllDoneStale(h) ELSE h
           c == [d EXCEPT !.token = IF @ = NoToken THEN t ELSE @]
<1>3. d \in Snapshot /\ d.plan = h.plan /\ d.state[m] = "ready"
  <2>1. AllDoneStale(h) \in Snapshot
    BY AllDoneStaleSound DEF Sound
  <2>2. AllDoneStale(h).plan = h.plan /\ AllDoneStale(h).state[m] = "ready"
    BY <1>1, <1>2 DEF AllDoneStale, Snapshot, InState
  <2> QED BY <1>1, <1>2, <2>1, <2>2
<1>4. Noticed(h, t) = Refreshed(c)
  BY DEF Noticed
<1> HIDE DEF d
<1>5. c \in Snapshot /\ c.plan = h.plan /\ c.state[m] = "ready"
  BY <1>3 DEF Snapshot
<1> HIDE DEF c
<1>6. Refreshed(c).plan = h.plan /\ Refreshed(c).state[m] = "ready"
  BY <1>1, <1>2, <1>5 DEF Refreshed, Snapshot
<1> QED BY <1>2, <1>4, <1>6 DEF Ready, InLane, InState

LEMMA SchedulePromises == ASSUME SInv, IInv', Schedule PROVE SInv' /\ Promise
<1>1. Sound(graph) /\ graph \in Snapshot /\ world \in Token
      /\ pass \in {<<>>} \cup {<<t>> : t \in Observation}
  BY DEF SInv, IInv, TypeOK, Sound
<1>2. Observed \subseteq Observation
  BY <1>1 DEF Observed, Observation
<1>3. CASE EnforceAggregateBudget
  <2>1. Commit(Exhausted(graph)) /\ pass' = <<>>
    BY <1>3 DEF EnforceAggregateBudget, Boundary, Quiet
  <2>2. Onwards(graph, Exhausted(graph)) /\ Alone(Exhausted(graph))
    BY <1>1, ExhaustedOnwards
  <2>3. graph' = Exhausted(graph) /\ Saves
    BY <2>1, CommitSaves
  <2> QED BY <2>1, <2>2, <2>3, OrdinaryKeeps DEF Passing
<1>4. ASSUME NEW t \in Observed, StartReadyReads(t) PROVE SInv' /\ Promise
  <2> DEFINE h == Noticed(graph, t)
  <2>1. /\ up /\ graph.outcome = "none" /\ graph.pause = "off" /\ ~HasRunningAttempt(graph)
        /\ Still /\ Out(graph) = {} /\ ~Over(graph, TRUE)
    BY <1>4 DEF StartReadyReads, Boundary, Schedulable
  <2>2. graph.spent < graph.limit
    BY <1>1, <2>1 DEF Over, Snapshot
  <2>3. /\ Sound(h) /\ h.outcome = "none" /\ h.attempts = graph.attempts /\ Calm(graph, h)
        /\ h.spent = graph.spent /\ h.limit = graph.limit
    BY <1>1, <1>2, <2>1, NoticedSound, CalmNoticed
  <2>4. ~HasRunningAttempt(h)
    BY <2>1, <2>3 DEF HasRunningAttempt
  <2>5. \/ Unsaved(h)
        \/ Ready(h, "read_only") # {} /\ ExhaustReady(h, "read_only")
        \/ Claim(h, "read_only", t)
    BY <1>4 DEF StartReadyReads
  <2> HIDE DEF h
  <2>6. CASE Unsaved(h)
    <3>1. graph' = h /\ Saves
      BY <2>3, <2>6, CalmOnwards, NoteSaves
    <3>2. NobodyOut(graph')
      BY <1>1, <2>1, <2>3, <3>1, BoundaryNobodyOut DEF NobodyOut
    <3>3. Passing'
      BY <2>1, <2>2, <2>3, <2>4, <3>1, <3>2 DEF Passing, Still
    <3> QED BY <2>1, <2>3, <3>1, <3>3, CalmKeeps
  <2>7. CASE \/ Ready(h, "read_only") # {} /\ ExhaustReady(h, "read_only")
             \/ Claim(h, "read_only", t)
    <3>1. "read_only" \in Workers
      BY DEF Workers
    <3> QED BY <2>1, <2>2, <2>3, <2>4, <2>7, <3>1, ClaimPromises
  <2> QED BY <2>5, <2>6, <2>7
<1>5. ASSUME NEW t \in Observed, NEW clean \in BOOLEAN, StartReadyWriters(t, clean)
      PROVE  SInv' /\ Promise
  <2> DEFINE h == Noticed(graph, t)
             n == First(Ready(h, "isolated_write"))
             g == [h EXCEPT !.state[n] = "blocked"]
  <2>1. /\ graph.outcome = "none" /\ graph.pause = "off" /\ ~HasRunningAttempt(graph)
        /\ Ready(graph, "isolated_write") # {} /\ pass # <<>>
    BY <1>5 DEF StartReadyWriters, InPass, Schedulable
  <2>2. graph.spent < graph.limit
    BY <2>1 DEF SInv, Passing
  <2>3. Sound(h) /\ h.outcome = "none" /\ h.attempts = graph.attempts /\ Calm(graph, h)
    BY <1>1, <1>2, <2>1, NoticedSound, CalmNoticed
  <2>4. ~HasRunningAttempt(h)
    BY <2>1, <2>3 DEF HasRunningAttempt
  <2>5. Ready(h, "isolated_write") # {}
    BY <1>1, <1>2, <2>1, NoticedReady
  <2>6. \/ Commit(Reduced(g)) /\ pass' = <<>>
        \/ ExhaustReady(h, "isolated_write")
        \/ Claim(h, "isolated_write", t)
    BY <1>5 DEF StartReadyWriters
  <2>7. n \in h.plan.nodes /\ h.state[n] = "ready"
    <3>1. Ready(h, "isolated_write") \subseteq Node
      BY <2>3, PlanNodes DEF Sound, Ready, InLane, InState
    <3>2. n \in Ready(h, "isolated_write")
      BY <2>5, <3>1, FirstIsMember
    <3> QED BY <3>2 DEF Ready, InLane, InState
  <2> HIDE DEF h, n
  <2>8. CASE Commit(Reduced(g)) /\ pass' = <<>>
    <3>1. Calm(h, g) /\ g \in Snapshot
      BY <2>3, <2>7, CalmMoved DEF Sound
    <3> HIDE DEF g
    <3>2. Calm(graph, Reduced(g))
      BY <2>3, <3>1, CalmReduced, CalmSteps
    <3>3. graph' = Reduced(g) /\ Saves
      BY <2>8, CommitSaves
    <3> QED BY <2>1, <2>8, <3>2, <3>3, CalmKeeps DEF Passing
  <2>9. CASE \/ ExhaustReady(h, "isolated_write")
             \/ Claim(h, "isolated_write", t)
    <3>1. "isolated_write" \in Workers
      BY DEF Workers
    <3> QED BY <2>1, <2>2, <2>3, <2>4, <2>5, <2>9, <3>1, ClaimPromises
  <2> QED BY <2>6, <2>8, <2>9
<1>6. CASE StartNext
  <2> DEFINE t == pass[1]
             h == Noticed(graph, t)
             n == First(Ready(h, "primary"))
  <2>1. /\ graph.outcome = "none" /\ graph.pause = "off" /\ ~HasRunningAttempt(graph)
        /\ pass # <<>> /\ pass' = <<>> /\ t \in Observation
    BY <1>1, <1>6 DEF StartNext, InPass, Schedulable
  <2>2. graph.spent < graph.limit
    BY <2>1 DEF SInv, Passing
  <2>3. Sound(h) /\ h.outcome = "none" /\ h.attempts = graph.attempts /\ Calm(graph, h)
    BY <1>1, <2>1, NoticedSound, CalmNoticed
  <2>4. ~HasRunningAttempt(h)
    BY <2>1, <2>3 DEF HasRunningAttempt
  <2>5. \/ Ready(h, "primary") # {} /\ Commit(Started(h, {n}, t, "primary"))
        \/ Commit(Reduced(h))
    BY <1>6 DEF StartNext
  <2>6. Ready(h, "primary") # {} => n \in Ready(h, "primary")
    <3>1. Ready(h, "primary") \subseteq Node
      BY <2>3, PlanNodes DEF Sound, Ready, InLane, InState
    <3> QED BY <3>1, FirstIsMember
  <2> HIDE DEF t, h, n
  <2>7. CASE Ready(h, "primary") # {} /\ Commit(Started(h, {n}, t, "primary"))
    <3>1. {n} \in SUBSET Ready(h, "primary") /\ "primary" \in Executions
      BY <2>6, <2>7 DEF Executions
    <3>2. graph' = Started(h, {n}, t, "primary") /\ disk' = graph'
      BY <2>7 DEF Commit
    <3>3. \A x, y \in {n} : x # y => ~Overlap(h, x, y)
      OBVIOUS
    <3> QED BY <2>1, <2>2, <2>3, <2>4, <3>1, <3>2, <3>3, StartKeeps
  <2>8. CASE Commit(Reduced(h))
    <3>1. Calm(graph, Reduced(h))
      BY <2>3, CalmReduced, CalmSteps DEF Sound
    <3>2. graph' = Reduced(h) /\ Saves
      BY <2>8, CommitSaves
    <3> QED BY <2>1, <3>1, <3>2, CalmKeeps DEF Passing
  <2> QED BY <2>5, <2>7, <2>8
<1>7. CASE AbandonPass
  <2>1. graph' = graph /\ disk' = disk /\ pass' = <<>>
    BY <1>7 DEF AbandonPass
  <2>2. Onwards(graph, graph') /\ Alone(graph') /\ Saves
    <3>1. Calm(graph, graph')
      BY <2>1 DEF Calm
    <3> QED BY <2>1, <3>1, CalmOnwards DEF SInv, Settles, Saves
  <2> QED BY <2>1, <2>2, OrdinaryKeeps DEF Passing
<1>8. CASE ReachPause
  <2>1. Commit([graph EXCEPT !.pause = "reached", !.clock = FALSE]) /\ pass' = <<>>
        /\ graph.outcome = "none"
    BY <1>8 DEF ReachPause, Boundary, Quiet
  <2>2. Calm(graph, [graph EXCEPT !.pause = "reached", !.clock = FALSE])
    BY <1>1, CalmAccounts
  <2>3. Calm(graph, graph') /\ Saves
    BY <2>1, <2>2, CommitSaves
  <2> QED BY <2>1, <2>3, CalmKeeps DEF Passing
<1> QED BY <1>3, <1>4, <1>5, <1>6, <1>7, <1>8 DEF Schedule

-----------------------------------------------------------------------------
(* The user's commands.                                                     *)

(* Enforcing the envelope at a boundary, after the pause is lifted.           *)
LEMMA EnforcedOnwards ==
    ASSUME NEW h, Sound(h), Alone(h), NEW b
    PROVE  Onwards(h, Enforced(h, b)) /\ Alone(Enforced(h, b))
<1>1. Calm(h, h)
  BY DEF Calm
<1> QED BY <1>1, ExhaustedOnwards, CalmOnwards DEF Enforced

LEMMA ResumedOnwards ==
    ASSUME NEW h, Sound(h), Alone(h), h.outcome = "none"
    PROVE  /\ Onwards(h, Resumed(h)) /\ Alone(Resumed(h))
           /\ h.pause = "off" => Onwards(h, Activated(h)) /\ Alone(Activated(h))
<1>1. h \in Snapshot
  BY DEF Sound
<1> DEFINE g == [h EXCEPT !.pause = "off", !.clock = TRUE]
<1>2. Sound(g) /\ Calm(h, g)
  BY <1>1, PacedSound, CalmAccounts
<1>3. h.pause = "off" => [h EXCEPT !.clock = TRUE] = g
  BY <1>1 DEF Snapshot
<1>4. Resumed(h) = Enforced(g, TRUE) /\ (h.pause = "off" => Activated(h) = Enforced(g, TRUE))
  BY <1>3 DEF Resumed, Activated
<1> HIDE DEF g
<1>5. Alone(g)
  BY <1>1, <1>2, CalmAlone
<1>6. Onwards(g, Enforced(g, TRUE)) /\ Alone(Enforced(g, TRUE))
  BY <1>2, <1>5, EnforcedOnwards
<1>7. Onwards(h, Enforced(g, TRUE))
  BY <1>2, <1>6, CalmThenOnwards
<1> QED BY <1>4, <1>6, <1>7

LEMMA ExtendedOnwards ==
    ASSUME NEW h, Sound(h), Alone(h)
    PROVE  Calm(h, Extended(h)) /\ Alone(Extended(h))
<1> DEFINE g == [h EXCEPT
        !.extensions = @ + 1,
        !.limit = @ + Envelope,
        !.cap = @ + Attempts,
        !.maxStarts = [e \in Workers |-> @[e] + Starts[e]],
        !.state = [n \in Node |->
            IF n \in InState(h, "budget_exhausted") THEN "proposed" ELSE @[n]],
        !.outcome = "none"]
<1>1. h \in Snapshot
  BY DEF Sound
<1>2. /\ g.plan = h.plan /\ g.attempts = h.attempts
      /\ g.used = h.used /\ g.waived = h.waived /\ g.accepted = h.accepted
      /\ \A n \in Node : g.state[n] =
            IF n \in InState(h, "budget_exhausted") THEN "proposed" ELSE h.state[n]
  BY <1>1 DEF Snapshot
<1>3. g \in Snapshot
  <2>1. [e \in Workers |-> h.maxStarts[e] + Starts[e]] \in [Workers -> Nat]
    BY <1>1, BoundAssumption DEF Snapshot
  <2>2. [n \in Node |->
            IF n \in InState(h, "budget_exhausted") THEN "proposed" ELSE h.state[n]]
          \in [Node -> NodeStates]
    BY <1>1 DEF Snapshot, NodeStates
  <2>3. /\ h.extensions + 1 \in Nat /\ h.limit + Envelope \in Nat
        /\ h.cap + Attempts \in Nat /\ "none" \in Outcomes
    BY <1>1, BoundAssumption DEF Snapshot, Outcomes
  <2> QED BY <1>1, <2>1, <2>2, <2>3 DEF Snapshot
<1>4. Extended(h) = Reduced(Refreshed(g))
  BY DEF Extended
<1> HIDE DEF g
<1>5. Calm(h, g)
  BY <1>2 DEF Calm, InState
<1>6. Calm(g, Refreshed(g)) /\ Refreshed(g) \in Snapshot
  BY <1>3, CalmRefreshed, RefreshedType
<1>7. Apart(Refreshed(g))
  BY <1>1, <1>3, <1>5, <1>6, CalmAlone DEF Alone
<1>8. Calm(Refreshed(g), Reduced(Refreshed(g))) /\ Alone(Reduced(Refreshed(g)))
  BY <1>6, <1>7, CalmReduced, ReducedAlone
<1> QED BY <1>4, <1>5, <1>6, <1>8, CalmSteps

LEMMA RetriedOnwards ==
    ASSUME NEW h, Sound(h), Alone(h), h.outcome # "none", NobodyOut(h),
           NEW n \in h.plan.nodes, h.state[n] = "blocked"
    PROVE  LET k == Reopened(h)
               g == IF Over(k, TRUE) THEN Exhausted(k)
                    ELSE Reduced(Refreshed([k EXCEPT !.state[n] = "retryable"]))
           IN  Onwards(h, g) /\ Alone(g)
<1> DEFINE k == Reopened(h)
           r == [k EXCEPT !.state[n] = "retryable"]
<1>1. h \in Snapshot
  BY DEF Sound
<1>2. Sound(k) /\ k.state = h.state /\ k.plan = h.plan
  BY ReopenedSound
<1>3. Calm(h, k)
  <2>1. /\ k.attempts = h.attempts /\ k.used = h.used /\ k.waived = h.waived
        /\ k.accepted = h.accepted
    BY <1>1 DEF Reopened, Snapshot
  <2> HIDE DEF k
  <2> QED BY <1>2, <2>1 DEF Calm
<1> HIDE DEF k
<1>4. Onwards(h, Exhausted(k)) /\ Alone(Exhausted(k))
  BY <1>2, <1>3, ExhaustedOnwards, CalmThenOnwards
<1>5. Calm(k, r) /\ r \in Snapshot
  BY <1>2, CalmMoved DEF Sound
<1> HIDE DEF r
<1>6. Calm(r, Refreshed(r)) /\ Refreshed(r) \in Snapshot
  BY <1>5, CalmRefreshed, RefreshedType
<1>7. Apart(Refreshed(r))
  <2>1. Apart(k)
    BY <1>1, <1>3, CalmAlone DEF Alone
  <2>2. Apart(r)
    BY <1>2, <1>5, <2>1, CalmAlone DEF Sound
  <2> QED BY <1>5, <1>6, <2>2, CalmAlone
<1>8. Alone(Reduced(Refreshed(r))) /\ Calm(h, Reduced(Refreshed(r)))
  <2>1. Calm(Refreshed(r), Reduced(Refreshed(r)))
    BY <1>6, CalmReduced
  <2>2. Calm(h, r)
    BY <1>3, <1>5, CalmSteps
  <2> QED BY <1>6, <1>7, <2>1, <2>2, CalmSteps, ReducedAlone
<1>9. Onwards(h, Reduced(Refreshed(r)))
  BY <1>8, CalmOnwards
<1> QED BY <1>4, <1>8, <1>9 DEF k, r

(* Recording what became of worktrees: a tree is discarded once it was seen.  *)
LEMMA DisposedOnwards ==
    ASSUME Sound(graph), Alone(graph), NEW ns, NEW from, NEW to,
           <<from, to>> \in {<<"kept", "seen">>, <<"seen", "discarded">>}
    PROVE  Onwards(graph, Disposed(ns, from, to)) /\ Alone(Disposed(ns, from, to))
<1> DEFINE b(n, k) == IF n \in ns /\ graph.attempts[n][k].tree = from
                      THEN [graph.attempts[n][k] EXCEPT !.tree = to]
                      ELSE graph.attempts[n][k]
           g == Disposed(ns, from, to)
<1>1. graph \in Snapshot
  BY DEF Sound
<1>2. /\ g.plan = graph.plan /\ g.state = graph.state /\ g.outcome = graph.outcome
      /\ g.used = graph.used /\ g.waived = graph.waived /\ g.accepted = graph.accepted
      /\ \A n \in Node : g.attempts[n] = [k \in DOMAIN graph.attempts[n] |-> b(n, k)]
  BY <1>1 DEF Disposed, Snapshot
<1>3. ASSUME NEW n \in Node, NEW k \in DOMAIN graph.attempts[n]
      PROVE  Onward(graph.attempts[n][k], b(n, k)) /\ b(n, k).worker = graph.attempts[n][k].worker
  <2>1. graph.attempts[n] \in Seq(Attempt)
    BY <1>1 DEF Snapshot
  <2>2. graph.attempts[n][k] \in Attempt
    BY <2>1
  <2> DEFINE a == graph.attempts[n][k]
  <2> HIDE DEF a
  <2>3. a \in Attempt
    BY <2>2 DEF a
  <2>4. a.tree = from => Onward(a, [a EXCEPT !.tree = to])
                         /\ [a EXCEPT !.tree = to].worker = a.worker
    <3> DEFINE c == [a EXCEPT !.tree = to]
    <3>1. /\ SameWork(a, c) /\ c.state = a.state /\ c.worker = a.worker
          /\ c.tree = to
      BY <2>3 DEF SameWork, Attempt
    <3> HIDE DEF c
    <3>2. a.tree = from => Onward(a, c) /\ c.worker = a.worker
      BY <3>1, EarnedSame DEF Onward, Keeps
    <3> QED BY <3>2 DEF c
  <2>5. b(n, k) = IF n \in ns /\ a.tree = from THEN [a EXCEPT !.tree = to] ELSE a
    BY DEF a
  <2> HIDE DEF b
  <2>6. Onward(a, b(n, k)) /\ b(n, k).worker = a.worker
    BY <2>4, <2>5, OnwardSelf
  <2> QED BY <2>6 DEF a
<1> HIDE DEF b, g
<1>4. Ledger(graph, g)
  BY <1>2, <1>3 DEF Ledger
<1>5. Onwards(graph, g)
  BY <1>2, <1>4, VouchedOn DEF Onwards
<1>6. NobodyOut(graph) => NobodyOut(g)
  BY <1>4 DEF NobodyOut, Ledger, Onward, Keeps
<1>7. Alone(g)
  BY <1>2, <1>6 DEF Alone, Apart, InState
<1> QED BY <1>5, <1>7 DEF g

(* A durable step whose ledger goes on keeps the promise, whatever it does to  *)
(* the nodes.                                                                *)
LEMMA LedgerKeeps ==
    ASSUME SInv, IInv', KeepsLedger(graph, graph'), Settles(graph'), disk' = graph', Passing',
           \A n \in InState(graph, "awaiting_review") :
               graph'.state[n] \in {"awaiting_review", "integrated"}
    PROVE  SInv' /\ Promise
<1>1. graph \in Snapshot /\ graph' \in Snapshot
  BY DEF SInv, IInv, TypeOK
<1>2. SInv'
  BY DEF SInv, Unmoved
<1>3. \A n \in Node : ~NewAttempts(n)
  <2>1. \A n \in Node : graph.attempts[n] \in Seq(Attempt) /\ graph'.attempts[n] \in Seq(Attempt)
    BY <1>1 DEF Snapshot
  <2>2. \A n \in Node : DOMAIN graph'.attempts[n] = DOMAIN graph.attempts[n]
    BY DEF KeepsLedger
  <2>3. \A n \in Node : Len(graph'.attempts[n]) = Len(graph.attempts[n])
    BY <2>1, <2>2
  <2>4. \A n \in Node : Len(graph.attempts[n]) \in Nat
    BY <2>1
  <2> QED BY <2>3, <2>4 DEF NewAttempts
<1> QED BY <1>2, <1>3 DEF Promise, KeepsLedger

LEMMA LedgerIsKept == ASSUME NEW h, NEW g, Ledger(h, g) PROVE KeepsLedger(h, g)
  BY DEF Ledger, KeepsLedger, Onward

(* Publishing n's candidate, before the outcome is reduced.                   *)
Published(n, w) ==
    [AllDoneStale(graph) EXCEPT
        !.mutation = @ + 1,
        !.attempts[n][LatestIn(graph, n, "candidate")] =
            [@ EXCEPT !.state = "accepted", !.mutation = graph.mutation + 1],
        !.token = w,
        !.state[n] = "integrated"]

(* What was done becomes stale; of the attempts, the candidate's alone changes. *)
LEMMA PublishedShape ==
    ASSUME SInv, NEW n \in Node, NEW w \in Token, IntegrateCandidate(n, w)
    PROVE  LET g == Published(n, w)
               h == AllDoneStale(graph)
           IN  /\ graph' = Reduced(g) /\ disk' = graph' /\ pass' = <<>>
               /\ g \in Snapshot /\ g.plan = graph.plan /\ g.used = graph.used
               /\ g.outcome = "none"
               /\ graph.state[n] = "awaiting_review" /\ n \in graph.plan.nodes
               /\ Calm(graph, h) /\ InState(h, "done") = {}
               /\ \A m \in Node : g.state[m] = IF m = n THEN "integrated" ELSE h.state[m]
               /\ \A m \in Node : m # n => g.attempts[m] = graph.attempts[m]
               /\ Ledger(graph, g) /\ NobodyOut(g)
<1> DEFINE k == LatestIn(graph, n, "candidate")
           h == AllDoneStale(graph)
           a == [graph.attempts[n][k] EXCEPT !.state = "accepted",
                                             !.mutation = graph.mutation + 1]
           g == [h EXCEPT !.mutation = @ + 1,
                          !.attempts[n][k] = [@ EXCEPT !.state = "accepted",
                                                       !.mutation = graph.mutation + 1],
                          !.token = w,
                          !.state[n] = "integrated"]
<1>1. graph \in Snapshot /\ Sound(graph) /\ Settles(graph)
  BY DEF SInv, IInv, TypeOK, Sound
<1>2. NobodyOut(graph) /\ pass' = <<>>
  BY <1>1, BoundaryNobodyOut DEF IntegrateCandidate, Boundary
<1>3. h \in Snapshot /\ h.attempts = graph.attempts /\ h.plan = graph.plan
      /\ h.mutation = graph.mutation /\ Calm(graph, h) /\ InState(h, "done") = {}
      /\ h.outcome = "none"
  <2>1. h \in Snapshot /\ h.attempts = graph.attempts
    BY <1>1, <1>2, AllDoneStaleSound DEF Sound
  <2>2. h.plan = graph.plan /\ h.mutation = graph.mutation /\ h.outcome = "none"
    BY <1>1 DEF AllDoneStale, Snapshot
  <2> QED BY <1>1, <2>1, <2>2, CalmAllDoneStale
<1>4. graph.state[n] = "awaiting_review" /\ n \in graph.plan.nodes
      /\ HeldIn(graph, n, "candidate") # {}
  BY <1>1 DEF IntegrateCandidate, InState
<1>5. graph.attempts[n] \in Seq(Attempt)
  BY <1>1 DEF Snapshot
<1>6. graph.attempts[n][k].state = "candidate" /\ k \in DOMAIN graph.attempts[n]
  <2> DEFINE best == HeldIn(graph, n, "candidate")
  <2>1. best \in SUBSET (1 .. Len(graph.attempts[n])) /\ Len(graph.attempts[n]) \in Nat
    BY <1>5 DEF Held, HeldIn
  <2>2. \A j \in best : /\ j \in DOMAIN graph.attempts[n]
                        /\ graph.attempts[n][j].state = "candidate"
    BY DEF Held, HeldIn
  <2>3. Latest(best) = k
    BY DEF LatestIn
  <2>4. best # {}
    BY <1>4
  <2> HIDE DEF best, k
  <2>5. k \in best
    BY <2>1, <2>3, <2>4, LatestIsMember
  <2> QED BY <2>2, <2>5
<1>7. graph' = Reduced(g) /\ disk' = graph'
  BY DEF IntegrateCandidate, Commit
<1> HIDE DEF k, h
<1>8. a \in Attempt /\ Onward(graph.attempts[n][k], a) /\ a.worker = graph.attempts[n][k].worker
  <2> DEFINE b == graph.attempts[n][k]
             c == [b EXCEPT !.state = "accepted", !.mutation = graph.mutation + 1]
  <2>1. b \in Attempt /\ graph.mutation + 1 \in Nat /\ b.state = "candidate"
    BY <1>1, <1>5, <1>6 DEF Snapshot
  <2> HIDE DEF b
  <2>2. /\ c \in Attempt /\ c.worker = b.worker /\ c.tree = b.tree /\ c.proofs = b.proofs
        /\ c.state = "accepted" /\ c.failures = b.failures /\ c.mutated = b.mutated
    BY <2>1 DEF Attempt, AttemptStates
  <2> HIDE DEF c
  <2>3. Keeps(b, c)
    BY <2>1, <2>2 DEF Keeps, Attempt, Trees
  <2>4. Earned(b) => Earned(c)
    BY <2>1, <2>2 DEF Earned, Checked
  <2>5. Onward(b, c) /\ c \in Attempt /\ c.worker = b.worker
    BY <2>2, <2>3, <2>4 DEF Onward
  <2> QED BY <2>5 DEF b, c
<1>9. g.attempts[n] = [h.attempts[n] EXCEPT ![k] = a]
      /\ \A m \in Node : m # n => g.attempts[m] = h.attempts[m]
  <2>1. h.attempts[n][k] = graph.attempts[n][k] /\ k \in DOMAIN h.attempts[n]
        /\ h.attempts \in [Node -> Seq(Attempt)]
    BY <1>3, <1>6 DEF Snapshot
  <2> QED BY <1>3, <2>1 DEF Snapshot
<1>10. /\ [graph.attempts[n] EXCEPT ![k] = a] \in Seq(Attempt)
       /\ DOMAIN [graph.attempts[n] EXCEPT ![k] = a] = DOMAIN graph.attempts[n]
       /\ \A j \in DOMAIN graph.attempts[n] :
            [graph.attempts[n] EXCEPT ![k] = a][j] = IF j = k THEN a ELSE graph.attempts[n][j]
  <2> HIDE DEF a
  <2> QED BY <1>5, <1>6, <1>8, SeqEdit
<1> HIDE DEF a
<1>11. /\ g.plan = graph.plan
       /\ g.used = graph.used /\ g.outcome = "none"
       /\ \A m \in Node : g.state[m] = IF m = n THEN "integrated" ELSE h.state[m]
  BY <1>3 DEF Snapshot, Calm
<1>12. g \in Snapshot
  <2>1. g.attempts \in [Node -> Seq(Attempt)]
    <3>1. \A m \in Node : g.attempts[m] \in Seq(Attempt)
      BY <1>3, <1>9, <1>10 DEF Snapshot
    <3>2. g.attempts = [h.attempts EXCEPT ![n] = g.attempts[n]]
      BY <1>3 DEF Snapshot
    <3> HIDE DEF g
    <3> QED BY <1>3, <3>1, <3>2 DEF Snapshot
  <2>2. g = [h EXCEPT !.mutation = h.mutation + 1, !.attempts = g.attempts,
                      !.token = w, !.state = [h.state EXCEPT ![n] = "integrated"]]
    BY <1>3 DEF Snapshot
  <2>3. h.mutation + 1 \in Nat /\ w \in Observation
        /\ [h.state EXCEPT ![n] = "integrated"] \in [Node -> NodeStates]
    BY <1>3 DEF Snapshot, Observation, NodeStates
  <2>4. h \in Snapshot
    BY <1>3
  <2> HIDE DEF g
  <2> QED BY <2>1, <2>2, <2>3, <2>4 DEF Snapshot
<1> HIDE DEF g
<1>13. Ledger(graph, g) /\ NobodyOut(g)
  <2>1. Ledger(graph, g)
    BY <1>3, <1>8, <1>9, <1>10, OnwardSelf DEF Ledger
  <2> QED BY <1>2, <2>1 DEF Ledger, NobodyOut, Onward, Keeps
<1> QED BY <1>2, <1>3, <1>4, <1>7, <1>9, <1>11, <1>12, <1>13 DEF Published, g, h, k

(* A candidate is published: it alone leaves review.                          *)
LEMMA IntegratePromises ==
    ASSUME SInv, IInv', NEW n \in Node, NEW w \in Token, IntegrateCandidate(n, w)
    PROVE  SInv' /\ Promise
<1> DEFINE g == Published(n, w)
           h == AllDoneStale(graph)
<1>1. graph \in Snapshot /\ Settles(graph)
  BY DEF SInv, IInv, TypeOK
<1>2. /\ graph' = Reduced(g) /\ disk' = graph' /\ pass' = <<>>
      /\ g \in Snapshot /\ g.plan = graph.plan /\ g.used = graph.used
      /\ graph.state[n] = "awaiting_review" /\ n \in graph.plan.nodes
      /\ Calm(graph, h) /\ InState(h, "done") = {}
      /\ \A m \in Node : g.state[m] = IF m = n THEN "integrated" ELSE h.state[m]
      /\ Ledger(graph, g) /\ NobodyOut(g)
  BY PublishedShape
<1> HIDE DEF g, h
<1>14. graph.plan.nodes \subseteq Node
  BY <1>1, PlanNodes
<1>15. Apart(g)
  <2>1. InState(g, "done") = {}
    BY <1>2, <1>14 DEF InState, Calm
  <2> QED BY <1>2, <2>1 DEF Apart
<1>16. Disjoint(g) /\ Reviewed(g)
  <2>1. Running(g, "isolated_write") \subseteq Running(graph, "isolated_write")
    BY <1>2, <1>14 DEF Calm, Running, InLane, InState
  <2>2. Disjoint(g)
    BY <1>1, <1>2, <2>1 DEF Disjoint, Settles
  <2>3. Reviewed(g)
    BY <1>1, <1>2 DEF Reviewed, Settles, Calm
  <2> QED BY <2>2, <2>3
<1>22. Earnt(g) /\ Vouched(g) /\ Counts(g)
  <2>1. Earnt(g)
    BY <1>1, <1>2 DEF Settles, Earnt, Ledger, Onward
  <2>2. Vouched(g)
    <3>1. InState(g, "done") = {}
      BY <1>2, <1>14 DEF InState, Calm
    <3> QED BY <3>1 DEF Vouched
  <2>3. Counts(g)
    BY <1>1, <1>2 DEF Settles, Counts, Calm
  <2> QED BY <2>1, <2>2, <2>3
<1>17. Calm(g, Reduced(g)) /\ Alone(Reduced(g))
  BY <1>2, <1>15, CalmReduced, ReducedAlone
<1>18. Settles(graph')
  BY <1>2, <1>16, <1>17, <1>22, CalmOnwards, OnwardsSettles DEF Settles
<1>19. KeepsLedger(graph, graph')
  BY <1>2, <1>17, LedgerIsKept DEF Ledger, Calm
<1>20. \A m \in InState(graph, "awaiting_review") :
           graph'.state[m] \in {"awaiting_review", "integrated"}
  <2>1. ASSUME NEW m \in Node, graph.state[m] = "awaiting_review", m # n
        PROVE  graph'.state[m] = "awaiting_review"
    BY <1>2, <1>17, <2>1 DEF Calm
  <2>2. graph'.state[n] \in {"awaiting_review", "integrated"}
    <3>1. g.state[n] = "integrated"
      BY <1>2
    <3>2. Reduced(g).state[n] = "integrated"
      BY <1>2, <3>1, ReducedState
    <3> QED BY <1>2, <3>2
  <2> QED BY <1>14, <2>1, <2>2 DEF InState
<1>21. Passing'
  BY <1>2 DEF Passing
<1> QED BY <1>2, <1>18, <1>19, <1>20, <1>21, LedgerKeeps

(* The combined result is accepted: only evidence is added, and nothing is     *)
(* published any more.                                                       *)
LEMMA CombinedOnwards ==
    ASSUME Sound(graph), NobodyOut(graph), world \in Token, NEW waived \in BOOLEAN
    PROVE  LET c == Combined(graph, world, waived)
           IN  /\ c \in Snapshot /\ Onwards(graph, c) /\ Apart(c)
               /\ c.outcome = "none"
               /\ \A n \in Node : graph.state[n] # "integrated" =>
                     c.attempts[n] = graph.attempts[n] /\ c.state[n] = graph.state[n]
<1> DEFINE pending == InState(graph, "integrated")
           attempt(n) == LatestIn(graph, n, "accepted")
           proof == <<graph.mutation, world>>
           l == [n \in Node |->
                  IF n \in pending /\ ~waived
                  THEN [graph.attempts[n] EXCEPT
                          ![LatestIn(graph, n, "accepted")].proofs = @ \cup {proof}]
                  ELSE graph.attempts[n]]
           acc == [n \in Node |-> IF n \in pending THEN LatestIn(graph, n, "accepted")
                                ELSE graph.accepted[n]]
           st == [n \in Node |-> IF n \in pending THEN "done" ELSE graph.state[n]]
           g == [graph EXCEPT
              !.outcome = "none",
              !.token = world,
              !.waived = IF waived THEN @ \cup pending ELSE @,
              !.accepted = acc, !.attempts = l, !.state = st]
<1>1. graph \in Snapshot /\ Books(graph)
  BY DEF Sound
<1>2. graph.plan.nodes \subseteq Node /\ pending \subseteq graph.plan.nodes
  BY <1>1, PlanNodes DEF InState
<1>3. \A n \in Node : graph.attempts[n] \in Seq(Attempt)
  BY <1>1 DEF Snapshot
<1>4. g = Combined(graph, world, waived)
  BY DEF Combined
<1>5. ASSUME NEW n \in pending
      PROVE  attempt(n) \in DOMAIN graph.attempts[n] /\ attempt(n) \in Nat
  <2> DEFINE best == HeldIn(graph, n, "accepted")
  <2>1. best # {}
    BY <1>1, <1>2 DEF Books, ResultsHeld, InState, HeldIn
  <2>2. best \in SUBSET (1 .. Len(graph.attempts[n])) /\ Len(graph.attempts[n]) \in Nat
    BY <1>2, <1>3 DEF Held, HeldIn
  <2>3. \A k \in best : k \in DOMAIN graph.attempts[n] /\ k \in Nat
    BY <2>2 DEF Held, HeldIn
  <2>4. attempt(n) = Latest(best)
    BY DEF LatestIn
  <2> HIDE DEF best, attempt
  <2>5. attempt(n) \in best
    BY <2>1, <2>2, <2>4, LatestIsMember
  <2> QED BY <2>3, <2>5
<1> HIDE DEF attempt
<1>6. proof \in Nat \X Observation
  BY <1>1 DEF Snapshot, Observation
<1> HIDE DEF proof
<1>7. ASSUME NEW n \in Node
      PROVE  /\ l[n] \in Seq(Attempt) /\ DOMAIN l[n] = DOMAIN graph.attempts[n]
             /\ \A k \in DOMAIN graph.attempts[n] :
                   Onward(graph.attempts[n][k], l[n][k])
             /\ n \in pending /\ ~waived => l[n][attempt(n)].proofs # {}
  <2>1. CASE n \in pending /\ ~waived
    <3> DEFINE i == attempt(n)
               a == graph.attempts[n][i]
               b == [a EXCEPT !.proofs = @ \cup {proof}]
    <3>1. i \in DOMAIN graph.attempts[n] /\ a \in Attempt
      BY <1>3, <1>5, <2>1
    <3> HIDE DEF a
    <3>2. b \in Attempt /\ Onward(a, b)
      <4>1. /\ b \in Attempt /\ b.state = a.state /\ b.tree = a.tree
            /\ b.worker = a.worker /\ b.failures = a.failures /\ b.mutated = a.mutated
            /\ b.wrote = a.wrote /\ b.base = a.base /\ b.mutation = a.mutation
            /\ a.proofs \subseteq b.proofs /\ a \in Attempt
        BY <1>6, <3>1 DEF Attempt
      <4> HIDE DEF b
      <4>2. Checked(a) => Checked(b)
        BY <4>1 DEF Checked
      <4>3. Earned(a) => Earned(b)
        BY <4>1, <4>2 DEF Earned
      <4> QED BY <4>1, <4>3 DEF Onward, Keeps, Attempt, Trees
    <3>3. l[n] = [graph.attempts[n] EXCEPT ![i] = b]
      BY <2>1 DEF a, attempt
    <3>5. b.proofs # {}
      BY <3>1 DEF Attempt
    <3> HIDE DEF b, l
    <3>4. /\ l[n] \in Seq(Attempt) /\ DOMAIN l[n] = DOMAIN graph.attempts[n]
          /\ \A k \in DOMAIN graph.attempts[n] :
                l[n][k] = IF k = i THEN b ELSE graph.attempts[n][k]
      <4> HIDE DEF i
      <4> QED BY <1>3, <3>1, <3>2, <3>3, SeqEdit
    <3> QED BY <3>1, <3>2, <3>4, <3>5, OnwardSelf DEF a
  <2>2. CASE ~(n \in pending /\ ~waived)
    BY <1>3, <2>2, OnwardSelf
  <2> QED BY <2>1, <2>2
<1>8. l \in [Node -> Seq(Attempt)]
  BY <1>7
<1>17. \A n \in Node : n \notin pending => l[n] = graph.attempts[n]
  OBVIOUS
<1>9. /\ acc \in [Node -> Nat] /\ st \in [Node -> NodeStates]
      /\ \A n \in Node : st[n] = IF n \in pending THEN "done" ELSE graph.state[n]
      /\ \A n \in Node : acc[n] = IF n \in pending THEN attempt(n) ELSE graph.accepted[n]
  <2>1. \A n \in pending : LatestIn(graph, n, "accepted") \in Nat
    BY <1>5 DEF attempt
  <2> QED BY <1>1, <2>1 DEF Snapshot, NodeStates, attempt
<1> HIDE DEF l, acc, st
<1>10. /\ g.plan = graph.plan /\ g.attempts = l /\ g.state = st /\ g.accepted = acc
       /\ g.used = graph.used /\ g.outcome = "none"
       /\ g.waived = IF waived THEN graph.waived \cup pending ELSE graph.waived
  BY <1>1 DEF Snapshot
<1>11. g \in Snapshot
  <2>1. pending \in SUBSET Node /\ world \in Observation /\ "none" \in Outcomes
    BY <1>2 DEF Observation, Outcomes
  <2> QED BY <1>1, <1>8, <1>9, <2>1 DEF Snapshot
<1> HIDE DEF g
<1>12. \A n \in pending : graph.state[n] = "integrated"
  BY DEF InState
<1>13. InState(g, "integrated") = {}
  BY <1>2, <1>9, <1>10 DEF InState
<1> HIDE DEF pending
<1>14. Ledger(graph, g)
  BY <1>7, <1>10 DEF Ledger
<1>16. Vouched(graph) => Vouched(g)
  <2> SUFFICES ASSUME Vouched(graph), NEW n \in Node, n \in InState(g, "done"),
                      graph.plan.exec[n] = "isolated_write"
               PROVE  Vouches(g, n)
    BY <1>10 DEF Vouched
  <2>1. CASE n \in pending
    <3>1. waived => n \in g.waived
      BY <1>10, <2>1
    <3>2. g.accepted[n] = attempt(n) /\ g.attempts[n] = l[n]
      BY <1>9, <1>10, <2>1
    <3>3. ~waived => attempt(n) \in DOMAIN l[n] /\ l[n][attempt(n)].proofs # {}
      BY <1>5, <1>7, <2>1
    <3> QED BY <3>1, <3>2, <3>3 DEF Vouches
  <2>2. CASE n \notin pending
    <3>1. n \in InState(graph, "done") /\ g.accepted[n] = graph.accepted[n]
      BY <1>9, <1>10, <2>2 DEF InState
    <3>2. Vouches(graph, n)
      BY <3>1 DEF Vouched
    <3>3. CASE n \in graph.waived
      BY <1>10, <3>3 DEF Vouches
    <3>4. CASE /\ graph.accepted[n] \in DOMAIN graph.attempts[n]
               /\ graph.attempts[n][graph.accepted[n]].proofs # {}
      <4>1. /\ DOMAIN g.attempts[n] = DOMAIN graph.attempts[n]
            /\ Onward(graph.attempts[n][graph.accepted[n]],
                      g.attempts[n][graph.accepted[n]])
        BY <1>14, <3>4 DEF Ledger
      <4> QED BY <3>1, <3>4, <4>1 DEF Vouches, Onward
    <3> QED BY <3>2, <3>3, <3>4 DEF Vouches
  <2> QED BY <2>1, <2>2
<1>15. Onwards(graph, g)
  BY <1>9, <1>10, <1>12, <1>14, <1>16 DEF Onwards
<1>18. \A n \in Node : graph.state[n] # "integrated" =>
           g.attempts[n] = graph.attempts[n] /\ g.state[n] = graph.state[n]
  BY <1>9, <1>10, <1>12, <1>17
<1> QED BY <1>4, <1>10, <1>11, <1>13, <1>15, <1>18 DEF Apart

(* The user's commands.                                                      *)
LEMMA UserPromises == ASSUME SInv, IInv', User PROVE SInv' /\ Promise
<1>1. /\ graph \in Snapshot /\ Sound(graph) /\ Alone(graph) /\ world \in Token
  BY DEF SInv, IInv, TypeOK, Sound, Settles
<1>2. Boundary => NobodyOut(graph) /\ pass = <<>>
  BY <1>1, BoundaryNobodyOut DEF Boundary
<1>3. ASSUME NEW h, Commit(h), Onwards(graph, h), Alone(h), Boundary, Quiet
      PROVE  SInv' /\ Promise
  <2>1. pass' = <<>>
    BY <1>2, <1>3 DEF Quiet
  <2> QED BY <1>3, <2>1, CommitSaves, OrdinaryKeeps DEF Passing
<1>4. CASE RequestPause
  <2> DEFINE reached == ~HasRunningAttempt(graph)
             p == IF reached THEN "reached" ELSE "requested"
             c == graph.clock /\ ~reached
             h == [graph EXCEPT !.pause = p, !.clock = c]
  <2>1. up /\ Quiet /\ graph.outcome = "none"
        /\ Commit([graph EXCEPT !.pause = p, !.clock = @ /\ ~reached])
    BY <1>4 DEF RequestPause
  <2>2. [graph EXCEPT !.pause = p, !.clock = @ /\ ~reached] = h
    BY <1>1 DEF Snapshot
  <2>3. Calm(graph, h) /\ h.spent = graph.spent /\ h.limit = graph.limit
        /\ h.attempts = graph.attempts
    <3>1. Calm(graph, h)
      BY <1>1, CalmAccounts
    <3> QED BY <1>1, <3>1 DEF Snapshot
  <2>4. Commit(h)
    BY <2>1, <2>2
  <2> HIDE DEF h
  <2>5. graph' = h /\ Saves
    BY <2>4, CommitSaves
  <2>6. Passing'
    BY <2>1, <2>3, <2>5 DEF SInv, Passing, Quiet, Still, NobodyOut, HasRunningAttempt
  <2>7. Alone(h)
    BY <1>1, <2>1, <2>3, CalmAlone
  <2> QED BY <2>3, <2>5, <2>6, <2>7, CalmOnwards, OrdinaryKeeps
<1>5. CASE Resume
  <2>1. Boundary /\ graph.outcome = "none" /\ Commit(Resumed(graph)) /\ Quiet
    BY <1>5 DEF Resume
  <2>2. Onwards(graph, Resumed(graph)) /\ Alone(Resumed(graph))
    BY <1>1, <2>1, ResumedOnwards
  <2> QED BY <1>3, <2>1, <2>2
<1>6. CASE Cancel
  <2> DEFINE g == Terminated(
                  [graph EXCEPT
                      !.attempts = RunningEnded(graph, "cancelled"),
                      !.state = [n \in Node |->
                          IF graph.active[n] # 0 THEN "cancelled" ELSE @[n]],
                      !.active = [n \in Node |-> 0]], "cancelled")
  <2>1. up /\ Quiet /\ Commit(g)
    BY <1>6 DEF Cancel
  <2>2. /\ Onwards(graph, g) /\ Alone(g) /\ ~HasRunningAttempt(g)
        /\ g.spent = graph.spent /\ g.limit = graph.limit
    BY <1>1, CancelledOnwards
  <2> HIDE DEF g
  <2>3. graph' = g /\ Saves
    BY <2>1, CommitSaves
  <2>4. NobodyOut(graph) => NobodyOut(g)
    BY <2>2 DEF Onwards, Ledger, NobodyOut, Onward, Keeps
  <2>5. Passing'
    BY <2>1, <2>2, <2>3, <2>4 DEF SInv, Passing, Quiet, Still
  <2> QED BY <2>2, <2>3, <2>5, OrdinaryKeeps
<1>7. CASE ExtendBudget
  <2> DEFINE h == Extended(graph)
             g == IF h.outcome = "none" THEN Activated(h) ELSE h
  <2>1. Boundary /\ graph.outcome = "budget_exhausted" /\ Quiet /\ Commit(g)
    BY <1>7 DEF ExtendBudget
  <2>2. Sound(h) /\ h.pause = "off"
    BY <1>1, <1>2, <2>1, ExtendedSound
  <2>3. Calm(graph, h) /\ Alone(h)
    BY <1>1, ExtendedOnwards
  <2> HIDE DEF h
  <2>4. Onwards(graph, h)
    BY <2>3, CalmOnwards
  <2>5. h.outcome = "none" => Onwards(graph, Activated(h)) /\ Alone(Activated(h))
    BY <2>2, <2>3, ResumedOnwards, CalmThenOnwards
  <2>6. Onwards(graph, g) /\ Alone(g)
    BY <2>3, <2>4, <2>5
  <2> HIDE DEF g
  <2> QED BY <1>3, <2>1, <2>6
<1>8. CASE ReconcileWorktrees
  <2>1. Boundary /\ Quiet /\ Commit(Disposed(Node, "kept", "seen"))
    BY <1>8 DEF ReconcileWorktrees
  <2>2. Onwards(graph, Disposed(Node, "kept", "seen")) /\ Alone(Disposed(Node, "kept", "seen"))
    BY <1>1, DisposedOnwards
  <2> QED BY <1>3, <2>1, <2>2
<1>9. ASSUME NEW n \in Node, DiscardWorktree(n) PROVE SInv' /\ Promise
  <2>1. Boundary /\ Quiet /\ Commit(Disposed({n}, "seen", "discarded"))
    BY <1>9 DEF DiscardWorktree
  <2>2. /\ Onwards(graph, Disposed({n}, "seen", "discarded"))
        /\ Alone(Disposed({n}, "seen", "discarded"))
    BY <1>1, DisposedOnwards
  <2> QED BY <1>3, <2>1, <2>2
<1>10. ASSUME NEW n \in Node, RetryNode(n) PROVE SInv' /\ Promise
  <2> DEFINE k == Reopened(graph)
             g == IF Over(k, TRUE) THEN Exhausted(k)
                  ELSE Reduced(Refreshed([k EXCEPT !.state[n] = "retryable"]))
  <2>1. /\ Boundary /\ graph.outcome = "blocked" /\ Quiet /\ Commit(g)
        /\ n \in graph.plan.nodes /\ graph.state[n] = "blocked"
    BY <1>10 DEF RetryNode, InState
  <2>2. Onwards(graph, g) /\ Alone(g)
    BY <1>1, <1>2, <2>1, RetriedOnwards
  <2> HIDE DEF g
  <2> QED BY <1>3, <2>1, <2>2
<1>11. ASSUME NEW n \in Node, NEW w \in Token, IntegrateCandidate(n, w)
       PROVE  SInv' /\ Promise
  BY <1>11, IntegratePromises
<1>12. ASSUME NEW waived \in BOOLEAN, AcceptIntegratedNodes(waived) PROVE SInv' /\ Promise
  <2> DEFINE c == Combined(graph, world, waived)
             r == Refreshed(c)
  <2>1. Boundary /\ Quiet /\ Commit(Reduced(r))
    BY <1>12 DEF AcceptIntegratedNodes
  <2>2. c \in Snapshot /\ Onwards(graph, c) /\ Apart(c)
    BY <1>1, <1>2, <2>1, CombinedOnwards
  <2> HIDE DEF c
  <2>3. r \in Snapshot /\ Calm(c, r) /\ Apart(r)
    BY <2>2, RefreshedType, CalmRefreshed, CalmAlone
  <2> HIDE DEF r
  <2>4. Calm(r, Reduced(r)) /\ Alone(Reduced(r))
    BY <2>3, CalmReduced, ReducedAlone
  <2>5. Onwards(graph, Reduced(r))
    BY <2>2, <2>3, <2>4, CalmSteps
  <2> QED BY <1>3, <2>1, <2>4, <2>5
<1> QED BY <1>4, <1>5, <1>6, <1>7, <1>8, <1>9, <1>10, <1>11, <1>12 DEF User

(* A revision ends what runs and leaves nothing to review.                    *)
LEMMA RevisePromises == ASSUME SInv, IInv', NEW p \in Plan, Revise(p) PROVE SInv' /\ Promise
<1> DEFINE kept == {n \in p.nodes : SameDefinition(graph.plan, p, n)
                                    /\ graph.state[n] = "done"}
           fresh == {n \in kept : Upstream(p, n) \subseteq kept}
           l == RunningEnded(graph, "failed")
           st == [n \in Node |-> IF n \notin p.nodes THEN "absent"
                                 ELSE IF n \in fresh THEN "done"
                                 ELSE IF n \in kept THEN "stale" ELSE "proposed"]
           g == [graph EXCEPT
               !.plan = p, !.generation = @ + 1, !.attempts = l, !.state = st,
               !.active = [n \in Node |-> 0],
               !.accepted = [n \in Node |-> IF n \in fresh THEN @[n] ELSE 0],
               !.used = [n \in Node |-> IF n \in p.nodes \cap graph.plan.nodes THEN @[n] ELSE 0],
               !.retired = @ \cup {n \in graph.plan.nodes \ p.nodes : graph.state[n] # "done"}]
           ready(n) == /\ n \in g.plan.nodes
                       /\ g.state[n] \in {"proposed", "retryable", "stale"}
                       /\ DependenciesDone(g, n)
           rs == [n \in Node |-> IF ready(n)
                                 THEN IF g.used[n] < g.cap THEN "ready" ELSE "budget_exhausted"
                                 ELSE g.state[n]]
<1>1. graph \in Snapshot
  BY DEF SInv, IInv, TypeOK
<1>2. graph' = Refreshed(g) /\ disk' = graph' /\ pass' = <<>>
  <2>1. graph' = Revised(p) /\ disk' = graph' /\ pass' = <<>>
    BY DEF Revise, Commit, Quiet, Boundary
  <2>2. Revised(p) = Refreshed(g)
    BY DEF Revised
  <2> HIDE DEF g
  <2> QED BY <2>1, <2>2
<1>3. Refreshed(g) = [g EXCEPT !.state = rs]
  BY DEF Refreshed
<1>12. \A n \in fresh : n \in graph.plan.nodes /\ graph.plan.exec[n] = p.exec[n]
  BY DEF SameDefinition
<1> HIDE DEF ready, fresh, kept, l
<1>4. \A n \in Node : /\ st[n] \in {"absent", "done", "stale", "proposed"}
                      /\ st[n] = "done" => n \in fresh
  OBVIOUS
<1> HIDE DEF st
<1>5. g.state = st /\ g.attempts = l /\ g.plan = p
  BY <1>1 DEF Snapshot
<1>6. \A n \in Node : /\ rs[n] \notin {"running", "awaiting_review", "integrated"}
                      /\ rs[n] = "done" => n \in fresh
  <2> HIDE DEF g
  <2> QED BY <1>4, <1>5
<1> HIDE DEF rs
<1>7. graph'.state = rs /\ graph'.attempts = l /\ graph'.plan = p
  BY <1>1, <1>2, <1>3 DEF Snapshot
<1> HIDE DEF g
<1>8. Ledger(graph, graph')
  BY <1>1, <1>7, EndedLedger DEF l
<1>9. graph'.plan.nodes \subseteq Node
  BY PlanNodes DEF IInv, TypeOK
<1>13. PICK one \in Running(graph, "primary") : TRUE
  BY DEF Revise
<1>14. \A n \in graph.plan.nodes : graph.plan.exec[n] # "isolated_write"
  <2>1. graph.plan \in Plan
    BY <1>1 DEF Snapshot
  <2>2. Executable(graph.plan)
    BY <2>1, PlanAssumption
  <2>3. one \in graph.plan.nodes /\ graph.plan.exec[one] = "primary"
    BY DEF Running, InLane, InState
  <2> QED BY <2>2, <2>3 DEF Executable
<1>15. Earnt(graph') /\ Vouched(graph') /\ Counts(graph')
  <2>1. Earnt(graph')
    BY <1>8 DEF SInv, Settles, Earnt, Ledger, Onward
  <2>2. Vouched(graph')
    BY <1>6, <1>7, <1>12, <1>14 DEF Vouched, InState
  <2>3. Counts(graph')
    BY <1>6, <1>7 DEF Counts
  <2> QED BY <2>1, <2>2, <2>3
<1>10. Settles(graph')
  <2>1. Disjoint(graph') /\ Reviewed(graph') /\ Alone(graph')
    BY <1>6, <1>7, <1>9 DEF Disjoint, Reviewed, Alone, Apart, Running, InLane, InState
  <2> QED BY <1>15, <2>1 DEF Settles
<1>11. InState(graph, "awaiting_review") = {}
  BY PrimaryUnpublished DEF InState
<1> QED BY <1>2, <1>8, <1>10, <1>11, LedgerKeeps, LedgerIsKept DEF Passing

(* A crash loses no verdict, no worktree and no review.                       *)
LEMMA CrashPromises == ASSUME SInv, IInv', Crash PROVE SInv' /\ Promise
<1> DEFINE g == Restored(disk)
           b(n, k) == [disk.attempts[n][k] EXCEPT
                          !.worker = IF @ = "none" THEN @ ELSE "gone"]
<1>1. graph \in Snapshot /\ disk \in Snapshot
  BY DEF SInv, IInv, TypeOK
<1>2. graph' = g /\ disk' = graph' /\ pass' = <<>>
  BY DEF Crash
<1>3. /\ g.plan = disk.plan /\ g.state = disk.state /\ g.outcome = disk.outcome
      /\ g.used = disk.used /\ g.waived = disk.waived /\ g.accepted = disk.accepted
      /\ \A n \in Node : g.attempts[n] = [k \in DOMAIN disk.attempts[n] |-> b(n, k)]
  BY <1>1 DEF Restored, Snapshot
<1>4. ASSUME NEW n \in Node, NEW k \in DOMAIN disk.attempts[n]
      PROVE  /\ g.attempts[n][k].state = disk.attempts[n][k].state
             /\ g.attempts[n][k].tree = disk.attempts[n][k].tree
             /\ g.attempts[n][k].worker # "out"
             /\ SameWork(disk.attempts[n][k], g.attempts[n][k])
  <2>1. disk.attempts[n] \in Seq(Attempt)
    BY <1>1 DEF Snapshot
  <2>2. disk.attempts[n][k] \in Attempt
    BY <2>1
  <2>3. g.attempts[n][k] = b(n, k)
    <3> HIDE DEF b, g
    <3> QED BY <1>3
  <2> HIDE DEF g
  <2> QED BY <2>2, <2>3 DEF Attempt, SameWork
<1> HIDE DEF b, g
<1>5. \A n \in Node : DOMAIN g.attempts[n] = DOMAIN disk.attempts[n]
  BY <1>3
<1>6. Unmoved(graph, disk) /\ Settles(disk)
  BY DEF SInv
<1>7. KeepsLedger(graph, g)
  <2>1. ASSUME NEW n \in Node, NEW k \in DOMAIN graph.attempts[n]
        PROVE  /\ g.attempts[n][k].state = graph.attempts[n][k].state
               /\ g.attempts[n][k].tree = graph.attempts[n][k].tree
               /\ g.attempts[n][k].worker # "out"
    BY <1>4, <1>6 DEF Unmoved
  <2>2. \A n \in Node : DOMAIN g.attempts[n] = DOMAIN graph.attempts[n]
    BY <1>6, <1>5 DEF Unmoved
  <2> QED BY <2>1, <2>2 DEF KeepsLedger, Keeps
<1>10. Ledger(disk, g)
  <2>1. ASSUME NEW n \in Node, NEW k \in DOMAIN disk.attempts[n]
        PROVE  Onward(disk.attempts[n][k], g.attempts[n][k])
    BY <1>4, EarnedSame DEF Onward, Keeps
  <2> QED BY <1>5, <2>1 DEF Ledger
<1>8. Settles(g)
  <2>1. NobodyOut(g)
    BY <1>4, <1>5 DEF NobodyOut
  <2>2. \A s : InState(g, s) = InState(disk, s)
    BY <1>3 DEF InState
  <2>3. Disjoint(g) /\ Reviewed(g)
    BY <1>3, <1>6, <2>2 DEF Settles, Disjoint, Reviewed, Running, InLane
  <2>4. Alone(g)
    BY <1>3, <1>6, <2>1, <2>2 DEF Settles, Alone, Apart
  <2>5. Earnt(g) /\ Vouched(g) /\ Counts(g)
    <3>1. Earnt(g)
      BY <1>6, <1>10 DEF Settles, Earnt, Ledger, Onward
    <3>2. Vouched(g)
      BY <1>3, <1>6, <1>10, VouchedOn DEF Settles
    <3> QED BY <1>3, <1>6, <3>1, <3>2 DEF Settles, Counts
  <2> QED BY <2>3, <2>4, <2>5 DEF Settles
<1>9. \A n \in InState(graph, "awaiting_review") : graph'.state[n] = "awaiting_review"
  <2>1. InState(graph, "awaiting_review") \subseteq Node
    BY <1>1, PlanNodes DEF InState
  <2> QED BY <1>2, <1>3, <1>6, <2>1 DEF Unmoved, InState
<1> QED BY <1>2, <1>7, <1>8, <1>9, LedgerKeeps DEF Passing

LEMMA AllDoneStaleType == ASSUME NEW h \in Snapshot PROVE AllDoneStale(h) \in Snapshot
<1> DEFINE s == [n \in Node |-> IF n \in InState(h, "done") THEN "stale" ELSE h.state[n]]
           acc == [n \in Node |-> IF n \in InState(h, "done") THEN 0 ELSE h.accepted[n]]
<1>1. s \in [Node -> NodeStates] /\ acc \in [Node -> Nat] /\ "none" \in Outcomes
  BY DEF Snapshot, NodeStates, Outcomes
<1>2. AllDoneStale(h) = [h EXCEPT !.state = s, !.accepted = acc, !.outcome = "none"]
  BY DEF AllDoneStale
<1> HIDE DEF s, acc
<1> QED BY <1>1, <1>2 DEF Snapshot

SameTrees(h, g) ==
    \A n \in Node : \A k \in DOMAIN h.attempts[n] :
        g.attempts[n][k].tree = h.attempts[n][k].tree

LEMMA OnwardsThenOnwards ==
    ASSUME NEW h, NEW k, NEW g, Onwards(h, k), SameTrees(h, k), NobodyOut(h), Onwards(k, g)
    PROVE  Onwards(h, g)
<1>1. ASSUME NEW n \in Node, NEW i \in DOMAIN h.attempts[n]
      PROVE  Onward(h.attempts[n][i], g.attempts[n][i])
  <2> DEFINE a == h.attempts[n][i]
             b == k.attempts[n][i]
             c == g.attempts[n][i]
  <2>1. Onward(a, b) /\ Onward(b, c) /\ b.tree = a.tree /\ a.worker # "out"
    BY DEF Onwards, Ledger, SameTrees, NobodyOut
  <2> HIDE DEF a, b, c
  <2>2. Onward(a, c)
    BY <2>1 DEF Onward, Keeps
  <2> QED BY <2>2 DEF a, c
<1>2. Ledger(h, g)
  BY <1>1 DEF Onwards, Ledger
<1> QED BY <1>2 DEF Onwards

(* Recovery ends what the stopped process ran, and nothing else.              *)
LEMMA RecoveredOnwards ==
    ASSUME NEW h, Sound(h), Alone(h), NobodyOut(h), NEW token \in Observation
    PROVE  /\ Onwards(h, Recovered(h, token)) /\ Alone(Recovered(h, token))
           /\ SameTrees(h, Recovered(h, token))
<1> DEFINE lost == {n \in Node : h.active[n] # 0}
           doubtful == {n \in lost : MayHaveActed(h, n)}
           ended(n) == [Last(h, n) EXCEPT
               !.state = "interrupted",
               !.failures = IF n \in doubtful THEN @ \cup {"interrupted"} ELSE @]
           l == [n \in Node |->
                   IF n \in lost THEN [h.attempts[n] EXCEPT ![h.active[n]] = ended(n)]
                   ELSE h.attempts[n]]
           st == [n \in Node |->
                   IF n \in doubtful THEN "blocked"
                   ELSE IF n \notin lost THEN h.state[n]
                   ELSE IF h.used[n] < h.cap THEN "retryable" ELSE "budget_exhausted"]
           r == [h EXCEPT !.attempts = l, !.state = st, !.active = [n \in Node |-> 0]]
           d == IF Differs(h, token) THEN AllDoneStale(r) ELSE r
<1>1. h \in Snapshot /\ h.plan.nodes \subseteq Node
  BY PlanNodes DEF Sound
<1>2. ASSUME NEW n \in lost
      PROVE  /\ h.active[n] \in DOMAIN h.attempts[n]
             /\ h.attempts[n][h.active[n]].state = "running"
             /\ h.state[n] = "running" /\ h.attempts[n] \in Seq(Attempt)
             /\ Last(h, n) = h.attempts[n][h.active[n]] /\ Last(h, n) \in Attempt
  BY <1>1 DEF Sound, Books, ActiveRuns, RunsOnce, Last, Snapshot
<1>3. ASSUME NEW n \in lost
      PROVE  /\ ended(n) \in Attempt /\ Onward(Last(h, n), ended(n))
             /\ ended(n).tree = Last(h, n).tree
  <2> DEFINE a == Last(h, n)
  <2> HIDE DEF a
  <2>1. a \in Attempt /\ a.state = "running"
    BY <1>2 DEF a
  <2>2. "interrupted" \in Failures /\ "interrupted" \in AttemptStates
    BY DEF Failures, Hard, AttemptStates
  <2>3. ASSUME NEW F \in SUBSET Failures
        PROVE  LET c == [a EXCEPT !.state = "interrupted", !.failures = F]
               IN  c \in Attempt /\ Onward(a, c) /\ c.tree = a.tree
    <3> DEFINE c == [a EXCEPT !.state = "interrupted", !.failures = F]
    <3>1. /\ c \in Attempt /\ c.tree = a.tree /\ c.worker = a.worker
          /\ c.state = "interrupted" /\ c.mutated = a.mutated /\ c.proofs = a.proofs
      BY <2>1, <2>2 DEF Attempt
    <3> HIDE DEF c
    <3>2. Earned(a) => Earned(c)
      BY <3>1 DEF Earned
    <3>3. Keeps(a, c)
      BY <2>1, <3>1 DEF Keeps, Attempt, Trees
    <3>4. c \in Attempt /\ Onward(a, c) /\ c.tree = a.tree
      BY <3>1, <3>2, <3>3 DEF Onward
    <3> QED BY <3>4 DEF c
  <2>4. a.failures \in SUBSET Failures /\ a.failures \cup {"interrupted"} \in SUBSET Failures
    BY <2>1, <2>2 DEF Attempt
  <2>5. ended(n) = [a EXCEPT !.state = "interrupted",
            !.failures = IF n \in doubtful THEN a.failures \cup {"interrupted"} ELSE a.failures]
    BY DEF a
  <2> HIDE DEF doubtful, ended
  <2>6. ended(n) \in Attempt /\ Onward(a, ended(n)) /\ ended(n).tree = a.tree
    BY <2>3, <2>4, <2>5
  <2> QED BY <2>6 DEF a
<1> HIDE DEF ended
<1>4. ASSUME NEW n \in Node
      PROVE  /\ l[n] \in Seq(Attempt) /\ DOMAIN l[n] = DOMAIN h.attempts[n]
             /\ \A k \in DOMAIN h.attempts[n] :
                   Onward(h.attempts[n][k], l[n][k]) /\ l[n][k].tree = h.attempts[n][k].tree
  <2>1. CASE n \in lost
    <3>1. /\ l[n] \in Seq(Attempt) /\ DOMAIN l[n] = DOMAIN h.attempts[n]
          /\ \A k \in DOMAIN h.attempts[n] :
                l[n][k] = IF k = h.active[n] THEN ended(n) ELSE h.attempts[n][k]
      <4>1. l[n] = [h.attempts[n] EXCEPT ![h.active[n]] = ended(n)]
        BY <2>1
      <4> QED BY <1>2, <1>3, <2>1, <4>1, SeqEdit
    <3> QED BY <1>2, <1>3, <2>1, <3>1, OnwardSelf
  <2>2. CASE n \notin lost
    BY <1>1, <2>2, OnwardSelf DEF Snapshot
  <2> QED BY <2>1, <2>2
<1>5. l \in [Node -> Seq(Attempt)]
  BY <1>4
<1>6. /\ st \in [Node -> NodeStates]
      /\ \A n \in Node : st[n] = h.state[n]
            \/ (h.state[n] = "running" /\ st[n] \in {"blocked", "retryable", "budget_exhausted"})
  BY <1>1, <1>2 DEF Snapshot, NodeStates
<1>7. \A n \in h.plan.nodes : st[n] # "running"
  BY <1>1, <1>2, IdleRunsNothing
<1> HIDE DEF l, st, lost, doubtful
<1>8. r \in Snapshot /\ r.plan = h.plan /\ r.attempts = l /\ r.state = st
      /\ r.outcome = h.outcome /\ r.used = h.used /\ r.waived = h.waived
      /\ r.accepted = h.accepted
  BY <1>1, <1>5, <1>6 DEF Snapshot
<1>9. Recovered(h, token) = IF NothingLost(h, token) THEN h ELSE Reduced(Refreshed(d))
  BY DEF Recovered, d, r, l, st, ended, doubtful, lost
<1> HIDE DEF r
<1>10. Onwards(h, r) /\ NobodyOut(r)
  <2>1. Ledger(h, r)
    BY <1>4, <1>8 DEF Ledger
  <2>2. Vouched(h) => Vouched(r)
    BY <1>6, <1>8, <2>1, VouchedOn
  <2>3. NobodyOut(r)
    BY <2>1 DEF Ledger, NobodyOut, Onward, Keeps
  <2> QED BY <1>6, <1>8, <2>1, <2>2, <2>3 DEF Onwards
<1>11. Apart(r)
  <2>1. InState(r, "integrated") = InState(h, "integrated")
        /\ InState(r, "done") = InState(h, "done")
    BY <1>1, <1>6, <1>8 DEF InState
  <2> QED BY <1>10, <2>1 DEF Alone, Apart
<1>12. d \in Snapshot /\ Calm(r, d)
  BY <1>8, AllDoneStaleType, CalmAllDoneStale DEF Calm
<1> HIDE DEF d
<1>13. Refreshed(d) \in Snapshot /\ Calm(d, Refreshed(d)) /\ Apart(Refreshed(d))
  BY <1>8, <1>11, <1>12, RefreshedType, CalmRefreshed, CalmAlone
<1>14. Calm(Refreshed(d), Reduced(Refreshed(d))) /\ Alone(Reduced(Refreshed(d)))
  BY <1>13, CalmReduced, ReducedAlone
<1>15. Onwards(h, Reduced(Refreshed(d)))
  BY <1>10, <1>12, <1>13, <1>14, CalmSteps
<1>16. SameTrees(h, Reduced(Refreshed(d)))
  BY <1>4, <1>8, <1>12, <1>13, <1>14 DEF SameTrees, Calm
<1>17. Calm(h, h) /\ SameTrees(h, h)
  BY DEF Calm, SameTrees
<1> QED BY <1>9, <1>14, <1>15, <1>16, <1>17, CalmOnwards

(* Resuming a saved graph starts nothing.                                     *)
LEMMA ResumeSavedPromises ==
    ASSUME SInv, IInv', NEW t \in Observed, ResumeSaved(t) PROVE SInv' /\ Promise
<1> DEFINE h == Recovered(graph, t)
           g == IF h.outcome # "none" THEN h
                ELSE IF h.pause # "off" THEN Resumed(h) ELSE Activated(h)
<1>1. Sound(graph) /\ world \in Token /\ Alone(graph)
  BY DEF SInv, IInv, TypeOK, Sound, Settles
<1>2. ~up /\ Commit(g) /\ pass' = pass
  BY DEF ResumeSaved
<1>3. t \in Observation /\ NobodyOut(graph) /\ pass = <<>>
  BY <1>1, <1>2 DEF SInv, IInv, Passing, Observed, Observation
<1>4. Sound(h)
  BY <1>1, <1>3, RecoveredSound
<1>5. Onwards(graph, h) /\ Alone(h) /\ SameTrees(graph, h)
  BY <1>1, <1>3, RecoveredOnwards
<1> HIDE DEF h
<1>6. h.pause \in {"off", "requested", "reached"}
  BY <1>4 DEF Sound, Snapshot
<1>7. Onwards(h, g) /\ Alone(g)
  <2>1. CASE h.outcome # "none"
    <3>1. Calm(h, h)
      BY DEF Calm
    <3> QED BY <1>5, <2>1, <3>1, CalmOnwards
  <2>2. CASE h.outcome = "none"
    BY <1>4, <1>5, <2>2, ResumedOnwards
  <2> QED BY <2>1, <2>2
<1> HIDE DEF g
<1>8. Onwards(graph, g)
  BY <1>3, <1>5, <1>7, OnwardsThenOnwards
<1>9. graph' = g /\ Saves
  BY <1>2, CommitSaves
<1> QED BY <1>2, <1>3, <1>7, <1>8, <1>9, OrdinaryKeeps DEF Passing

(* The approved plan has nothing to review and nobody at work.                *)
LEMMA InitSettles == ASSUME Init PROVE SInv
<1> DEFINE g == [plan |-> FirstPlan, generation |-> 1,
        state |-> [n \in Node |->
            IF n \in FirstPlan.nodes THEN "proposed" ELSE "absent"],
        active |-> [n \in Node |-> 0], accepted |-> [n \in Node |-> 0],
        used |-> [n \in Node |-> 0], attempts |-> [n \in Node |-> <<>>],
        outcome |-> "none", pause |-> "off", clock |-> TRUE,
        token |-> NoToken, mutation |-> 0, spent |-> 0, limit |-> Envelope,
        cap |-> Attempts, extensions |-> 0, starts |-> [e \in Workers |-> 0],
        maxStarts |-> Starts, retired |-> {}, waived |-> {}]
<1>1. IInv
  BY InitKeeps
<1>2. InitialGraph = Refreshed(g)
  BY DEF InitialGraph
<1>3. g \in Snapshot
  BY PlanAssumption, BoundAssumption DEF Snapshot, NodeStates, Outcomes, Observation
<1>4. \A n \in Node : g.state[n] \in {"proposed", "absent"}
  OBVIOUS
<1>10. \A n \in Node : DOMAIN g.attempts[n] = {}
  OBVIOUS
<1> HIDE DEF g
<1>5. Calm(g, Refreshed(g)) /\ Refreshed(g) \in Snapshot
  BY <1>3, CalmRefreshed, RefreshedType
<1>6. graph = Refreshed(g) /\ disk = graph /\ pass = <<>>
  BY <1>2 DEF Init
<1>7. \A n \in Node : graph.state[n] \notin {"running", "awaiting_review", "integrated"}
  BY <1>4, <1>5, <1>6 DEF Calm
<1>8. graph.plan.nodes \subseteq Node
  BY <1>5, <1>6, PlanNodes
<1>9. Settles(graph)
  <2>1. Disjoint(graph) /\ Reviewed(graph) /\ Alone(graph) /\ Counts(graph)
    BY <1>7, <1>8 DEF Disjoint, Reviewed, Alone, Apart, Running, InLane, InState, Counts
  <2>2. Earnt(graph)
    BY <1>5, <1>6, <1>10 DEF Earnt, Calm
  <2>3. Vouched(graph)
    BY <1>4, <1>5, <1>6 DEF Vouched, InState, Calm
  <2> QED BY <2>1, <2>2, <2>3 DEF Settles
<1> QED BY <1>1, <1>6, <1>9 DEF SInv, Unmoved, Passing

(* Every step keeps the strengthened invariant and the promise.               *)
LEMMA NextPromises == ASSUME SInv, [Next]_vars PROVE SInv' /\ Promise
<1>1. IInv'
  BY NextKeeps DEF SInv
<1>2. CASE Schedule
  BY <1>1, <1>2, SchedulePromises
<1>3. ASSUME NEW n \in Node, Primary(n) PROVE SInv' /\ Promise
  BY <1>1, <1>3, PrimaryPromises
<1>4. CASE (\E n \in Node : Waves(n)) \/ RefuseWave
  BY <1>1, <1>4, WavesPromises
<1>5. ASSUME NEW p \in Plan, Revise(p) PROVE SInv' /\ Promise
  BY <1>1, <1>5, RevisePromises
<1>6. CASE User
  BY <1>1, <1>6, UserPromises
<1>7. CASE Crash
  BY <1>1, <1>7, CrashPromises
<1>8. ASSUME NEW t \in Observed, ResumeSaved(t) PROVE SInv' /\ Promise
  BY <1>1, <1>8, ResumeSavedPromises
<1>9. CASE ExternalEdit \/ UNCHANGED vars
  <2>1. UNCHANGED <<graph, disk, up, pass>>
    BY <1>9 DEF ExternalEdit, vars
  <2>2. graph \in Snapshot /\ graph.plan.nodes \subseteq Node
    BY PlanNodes DEF SInv, IInv, TypeOK
  <2>3. Alone(graph) /\ Onwards(graph, graph) /\ Unmoved(graph, graph)
    <3>1. Calm(graph, graph)
      BY DEF Calm
    <3> QED BY <3>1, CalmOnwards DEF SInv, Settles
  <2>4. Passing'
    BY <2>1 DEF SInv, Passing
  <2>5. Alone(graph') /\ Onwards(graph, graph') /\ Saves
    BY <2>1, <2>3 DEF Saves
  <2> QED BY <1>1, <2>4, <2>5, OrdinaryKeeps
<1> QED BY <1>2, <1>3, <1>4, <1>5, <1>6, <1>7, <1>8, <1>9 DEF Next

-----------------------------------------------------------------------------
(* What is in doubt.                                                        *)

(* The doubtful attempt is the latest the node holds, and the record says so.  *)
Recorded(h, n, k) ==
    /\ n \in h.plan.nodes /\ k = Len(h.attempts[n]) /\ k \in Held(h, n)
    /\ h.attempts[n][k].state = "interrupted"
    /\ "interrupted" \in h.attempts[n][k].failures

(* The node has stopped, and the graph with it.                               *)
Halted(h, n) ==
    \/ h.state[n] = "blocked" /\ h.outcome = "blocked"
    \/ h.state[n] = "budget_exhausted" /\ h.outcome \in {"blocked", "budget_exhausted"}

Stuck(h, n, k) == Recorded(h, n, k) /\ Halted(h, n)

(* The saved graph still shows the attempt in flight: recovery will find it.   *)
Lost(h, n, k) ==
    /\ n \in Node /\ n \in h.plan.nodes /\ k = h.active[n] /\ k = Len(h.attempts[n])
    /\ h.used[n] >= 1 /\ MayHaveActed(h, n)

Doubtful(h, d) == Stuck(h, d[1], d[2])
Unclear(h, d) == Lost(h, d[1], d[2])

(* Once something is in doubt the graph is saved as it is, nobody works, and   *)
(* every doubt is on record, or will be when the graph is recovered.          *)
Doubt ==
    inDoubt # {} =>
        /\ disk = graph /\ NobodyOut(graph)
        /\ \A d \in inDoubt : Doubtful(graph, d) \/ (~up /\ Unclear(graph, d))

(* Reducing a graph with a stopped node stops it again.                       *)
LEMMA ReducedHalts ==
    ASSUME NEW h \in Snapshot, h.outcome = "none", InState(h, "running") = {},
           NEW n \in h.plan.nodes, h.state[n] \in {"blocked", "budget_exhausted"}
    PROVE  Halted(Reduced(h), n) /\ Reduced(h).outcome # "none"
<1>1. n \in InState(h, "blocked") \/ n \in InState(h, "budget_exhausted")
  BY DEF InState
<1>2. h.state[n] # "done" /\ (h.state[n] = "blocked" => InState(h, "blocked") # {})
  BY <1>1 DEF InState
<1>3. Verdict(h) \in {"blocked", "budget_exhausted"}
      /\ (h.state[n] = "blocked" => Verdict(h) = "blocked")
  BY <1>1, <1>2 DEF Verdict
<1>4. Reduced(h) = Terminated(h, Verdict(h))
  BY <1>3 DEF Reduced
<1>5. Reduced(h).outcome = Verdict(h) /\ Reduced(h).state = h.state
  BY <1>4, CalmTerminated, ReducedState
<1> QED BY <1>3, <1>5 DEF Halted

(* g holds the same record of attempt k as h.                                 *)
SameRecord(h, g, n, k) ==
    /\ g.plan = h.plan /\ g.used = h.used /\ Len(g.attempts[n]) = Len(h.attempts[n])
    /\ DOMAIN g.attempts[n] = DOMAIN h.attempts[n]
    /\ g.attempts[n][k].state = h.attempts[n][k].state
    /\ g.attempts[n][k].failures = h.attempts[n][k].failures

LEMMA RecordedSame ==
    ASSUME NEW h, NEW g, NEW n, NEW k, SameRecord(h, g, n, k), Recorded(h, n, k)
    PROVE  Recorded(g, n, k)
  BY DEF SameRecord, Recorded, Held

LEMMA CalmRecorded ==
    ASSUME NEW h, NEW g, NEW n \in Node, NEW k, Calm(h, g), Recorded(h, n, k)
    PROVE  Recorded(g, n, k)
  BY RecordedSame DEF SameRecord, Calm

(* A step that reopens the graph but not the stuck node leaves it stuck.       *)
LEMMA StuckReduced ==
    ASSUME NEW r \in Snapshot, r.outcome = "none", InState(r, "running") = {},
           NEW n, NEW k, Recorded(r, n, k), r.state[n] \in {"blocked", "budget_exhausted"}
    PROVE  Stuck(Reduced(r), n, k) /\ Stuck(Reduced(Refreshed(r)), n, k)
<1>1. n \in r.plan.nodes /\ n \in Node
  BY PlanNodes DEF Recorded
<1>2. Stuck(Reduced(r), n, k)
  <2>1. Calm(r, Reduced(r))
    BY CalmReduced
  <2> QED BY <1>1, <2>1, ReducedHalts, CalmRecorded DEF Stuck
<1>3. Stuck(Reduced(Refreshed(r)), n, k)
  <2> DEFINE f == Refreshed(r)
  <2>1. f \in Snapshot /\ Calm(r, f) /\ f.outcome = "none"
    BY RefreshedType, CalmRefreshed
  <2>2. f.state[n] = r.state[n]
    BY <1>1 DEF Refreshed, Snapshot
  <2> HIDE DEF f
  <2>3. InState(f, "running") = {}
    BY <2>1, PlanNodes DEF Calm, InState
  <2>4. Recorded(f, n, k) /\ n \in f.plan.nodes
    BY <1>1, <2>1, CalmRecorded DEF Calm
  <2>5. Calm(f, Reduced(f)) /\ Recorded(Reduced(f), n, k)
    BY <1>1, <2>1, <2>4, CalmReduced, CalmRecorded
  <2> QED BY <2>1, <2>2, <2>3, <2>4, <2>5, ReducedHalts DEF Stuck, f
<1> QED BY <1>2, <1>3

LEMMA OnwardsNobody ==
    ASSUME NEW h, NEW g, Onwards(h, g), NobodyOut(h) PROVE NobodyOut(g)
  BY DEF Onwards, Ledger, NobodyOut, Onward, Keeps

(* What a doubt says of the running process: the graph has ended.             *)
LEMMA DoubtStops ==
    ASSUME SInv, Doubt, up, inDoubt # {}
    PROVE  /\ disk = graph /\ NobodyOut(graph) /\ Sound(graph) /\ graph \in Snapshot
           /\ graph.outcome \in {"blocked", "budget_exhausted"}
           /\ \A d \in inDoubt : Doubtful(graph, d) /\ d[1] \in Node
           /\ InState(graph, "running") = {} /\ Out(graph) = {}
           /\ \A n \in Node : graph.active[n] = 0
           /\ \A n \in Node : \A k \in DOMAIN graph.attempts[n] :
                 graph.attempts[n][k].state # "running"
<1>1. Sound(graph) /\ graph \in Snapshot /\ inDoubt \subseteq Node \X Nat
  BY DEF SInv, IInv, TypeOK, Sound
<1>2. \A d \in inDoubt : Doubtful(graph, d) /\ d[1] \in Node
  BY <1>1 DEF Doubt
<1>3. graph.outcome \in {"blocked", "budget_exhausted"}
  BY <1>2 DEF Doubtful, Stuck, Halted
<1>4. /\ \A n \in Node : graph.active[n] = 0
      /\ \A n \in graph.plan.nodes : graph.state[n] # "running"
  BY <1>1, <1>3, IdleRunsNothing, PlanNodes
<1>5. \A n \in Node : \A k \in DOMAIN graph.attempts[n] :
          graph.attempts[n][k].state # "running"
  BY <1>1, <1>3 DEF Sound, Books, RunsOnce
<1>6. Out(graph) = {}
  <2>1. ASSUME NEW n \in Out(graph) PROVE FALSE
    <3>1. /\ n \in Node /\ Last(graph, n).worker = "out"
          /\ Len(graph.attempts[n]) \in DOMAIN graph.attempts[n]
          /\ Last(graph, n) = graph.attempts[n][Len(graph.attempts[n])]
      BY OutUnpublished
    <3> QED BY <3>1 DEF Doubt, NobodyOut
  <2> QED BY <2>1
<1> QED BY <1>1, <1>2, <1>3, <1>4, <1>5, <1>6 DEF Doubt, InState

(* No step but recovery, publication and the user's bookkeeping is possible.   *)
LEMMA UserDoubts ==
    ASSUME SInv, Doubt, up, inDoubt # {}, User PROVE Doubt'
<1>1. /\ disk = graph /\ NobodyOut(graph) /\ Sound(graph) /\ graph \in Snapshot
      /\ graph.outcome \in {"blocked", "budget_exhausted"}
      /\ \A d \in inDoubt : Doubtful(graph, d) /\ d[1] \in Node
      /\ InState(graph, "running") = {}
      /\ \A n \in Node : \A k \in DOMAIN graph.attempts[n] :
            graph.attempts[n][k].state # "running"
  BY DoubtStops
<1>2. graph.plan.nodes \subseteq Node /\ \A n \in Node : graph.attempts[n] \in Seq(Attempt)
  BY <1>1, PlanNodes DEF Snapshot
<1>3. ASSUME NEW d \in inDoubt
      PROVE  /\ Recorded(graph, d[1], d[2]) /\ Halted(graph, d[1]) /\ d[1] \in Node
             /\ d[1] \in graph.plan.nodes
             /\ graph.state[d[1]] \in {"blocked", "budget_exhausted"}
             /\ d[2] \in DOMAIN graph.attempts[d[1]]
  BY <1>1 DEF Doubtful, Stuck, Recorded, Halted, Held
<1>4. ASSUME NEW h, Commit(h), inDoubt' = inDoubt, NobodyOut(h),
             \A d \in inDoubt : Stuck(h, d[1], d[2])
      PROVE  Doubt'
  BY <1>4 DEF Doubt, Doubtful, Commit
<1>5. ~RequestPause /\ ~Resume /\ ~Cancel
  BY <1>1 DEF RequestPause, Resume, Cancel
<1>6. ~ExtendBudget
  <2> SUFFICES ASSUME ExtendBudget PROVE FALSE
    OBVIOUS
  <2>1. /\ graph.outcome = "budget_exhausted"
        /\ \A n \in InState(graph, "budget_exhausted") : ~InDoubtOrRetained(graph, n)
    BY DEF ExtendBudget
  <2>2. PICK d \in inDoubt : TRUE
    OBVIOUS
  <2>3. d[1] \in InState(graph, "budget_exhausted")
    BY <1>3, <2>1 DEF Halted, InState
  <2>4. InDoubtOrRetained(graph, d[1])
    BY <1>3 DEF InDoubtOrRetained, InDoubt, Recorded
  <2> QED BY <2>1, <2>3, <2>4
<1>7. ASSUME NEW ns, NEW from, NEW to,
             <<from, to>> \in {<<"kept", "seen">>, <<"seen", "discarded">>},
             Commit(Disposed(ns, from, to)), Quiet
      PROVE  Doubt'
  <2> DEFINE g == Disposed(ns, from, to)
  <2>1. Onwards(graph, g)
    BY <1>1, <1>7, DisposedOnwards DEF SInv, Settles
  <2>2. g.state = graph.state /\ g.outcome = graph.outcome /\ g.plan = graph.plan
        /\ g.used = graph.used
    BY <1>1 DEF Disposed, Snapshot
  <2>3. ASSUME NEW n \in Node
        PROVE  g.attempts[n] = [k \in DOMAIN graph.attempts[n] |->
                  IF n \in ns /\ graph.attempts[n][k].tree = from
                  THEN [graph.attempts[n][k] EXCEPT !.tree = to] ELSE graph.attempts[n][k]]
    BY <1>1 DEF Disposed, Snapshot
  <2>4. ASSUME NEW n \in Node, NEW k \in DOMAIN graph.attempts[n]
        PROVE  /\ g.attempts[n][k].state = graph.attempts[n][k].state
               /\ g.attempts[n][k].failures = graph.attempts[n][k].failures
    <3>1. graph.attempts[n][k] \in Attempt
      BY <1>2
    <3>2. g.attempts[n][k] = IF n \in ns /\ graph.attempts[n][k].tree = from
               THEN [graph.attempts[n][k] EXCEPT !.tree = to] ELSE graph.attempts[n][k]
      BY <2>3
    <3> HIDE DEF g
    <3> QED BY <3>1, <3>2 DEF Attempt
  <2>5. ASSUME NEW n \in Node
        PROVE  DOMAIN g.attempts[n] = DOMAIN graph.attempts[n]
               /\ Len(g.attempts[n]) = Len(graph.attempts[n])
    <3>1. g.attempts[n] = [k \in DOMAIN graph.attempts[n] |-> g.attempts[n][k]]
      BY <2>3
    <3>2. DOMAIN g.attempts[n] = 1 .. Len(graph.attempts[n]) /\ Len(graph.attempts[n]) \in Nat
      BY <1>2, <3>1
    <3> HIDE DEF g
    <3> QED BY <1>2, <3>1, <3>2
  <2> HIDE DEF g
  <2>6. ASSUME NEW d \in inDoubt PROVE Stuck(g, d[1], d[2])
    <3>1. SameRecord(graph, g, d[1], d[2])
      BY <1>3, <2>2, <2>4, <2>5 DEF SameRecord
    <3> QED BY <1>3, <2>2, <3>1, RecordedSame DEF Stuck, Halted
  <2>7. NobodyOut(g)
    BY <1>1, <2>1, OnwardsNobody
  <2> QED BY <1>4, <1>7, <2>6, <2>7 DEF Quiet, Still, g
<1>8. CASE ReconcileWorktrees
  BY <1>7, <1>8 DEF ReconcileWorktrees
<1>9. ASSUME NEW n \in Node, DiscardWorktree(n) PROVE Doubt'
  BY <1>7, <1>9 DEF DiscardWorktree
<1>10. ASSUME NEW n \in Node, RetryNode(n) PROVE Doubt'
  <2> DEFINE k == Reopened(graph)
             r == [k EXCEPT !.state[n] = "retryable"]
             g == IF Over(k, TRUE) THEN Exhausted(k) ELSE Reduced(Refreshed(r))
  <2>1. /\ Commit(g) /\ inDoubt' = inDoubt /\ n \in graph.plan.nodes
        /\ graph.state[n] = "blocked" /\ ~InDoubt(Last(graph, n))
    BY <1>10 DEF RetryNode, InState, Quiet, Still
  <2>2. Onwards(graph, g)
    BY <1>1, <2>1, RetriedOnwards DEF SInv, Settles
  <2>3. NobodyOut(g)
    BY <1>1, <2>2, OnwardsNobody
  <2>4. \A d \in inDoubt : d[1] # n
    BY <1>3, <2>1 DEF InDoubt, Recorded, Last
  <2>5. /\ Sound(k) /\ k \in Snapshot /\ k.outcome = "none" /\ k.state = graph.state
        /\ k.plan = graph.plan /\ k.used = graph.used /\ k.attempts = graph.attempts
    <3>1. Sound(k) /\ k.outcome = "none" /\ k.state = graph.state /\ k.plan = graph.plan
      BY <1>1, ReopenedSound
    <3>2. k.used = graph.used /\ k.attempts = graph.attempts
      BY <1>1 DEF Reopened, Snapshot
    <3> HIDE DEF k
    <3> QED BY <3>1, <3>2 DEF Sound
  <2> HIDE DEF k
  <2>6. ASSUME NEW d \in inDoubt PROVE Recorded(k, d[1], d[2])
    <3>1. SameRecord(graph, k, d[1], d[2])
      BY <2>5 DEF SameRecord
    <3> QED BY <1>3, <3>1, RecordedSame
  <2>7. ASSUME NEW d \in inDoubt PROVE Stuck(Exhausted(k), d[1], d[2])
    <3> DEFINE e == Exhausted(k)
    <3>1. "budget_exhausted" \in AttemptStates \ {"running"}
      BY DEF AttemptStates
    <3>2. /\ e.plan = k.plan /\ e.used = k.used
          /\ e.attempts = RunningEnded(k, "budget_exhausted") /\ e.outcome = "budget_exhausted"
          /\ e.state[d[1]] = "budget_exhausted"
      BY <1>3, <2>5 DEF Exhausted, Terminated, Snapshot, Kept, InState
    <3>3. /\ DOMAIN e.attempts[d[1]] = DOMAIN k.attempts[d[1]]
          /\ Len(e.attempts[d[1]]) = Len(k.attempts[d[1]])
      BY <1>3, <2>5, <3>1, <3>2, RunningEndedLedger
    <3>4. e.attempts[d[1]][d[2]] = k.attempts[d[1]][d[2]]
      BY <1>1, <1>3, <2>5, <3>2 DEF RunningEnded
    <3> HIDE DEF e
    <3>5. SameRecord(k, e, d[1], d[2])
      BY <3>2, <3>3, <3>4 DEF SameRecord
    <3> QED BY <2>6, <3>2, <3>5, RecordedSame DEF Stuck, Halted, e
  <2>8. ASSUME NEW d \in inDoubt PROVE Stuck(Reduced(Refreshed(r)), d[1], d[2])
    <3>1. /\ r \in Snapshot /\ Calm(k, r)
      BY <2>1, <2>5, CalmMoved
    <3>2. r.outcome = "none" /\ \A m \in Node : m # n => r.state[m] = k.state[m]
      BY <2>5 DEF Snapshot
    <3> HIDE DEF r
    <3>3. InState(r, "running") = {}
      BY <1>1, <1>2, <2>5, <3>1 DEF Calm, InState
    <3>4. Recorded(r, d[1], d[2]) /\ r.state[d[1]] \in {"blocked", "budget_exhausted"}
      BY <1>3, <2>4, <2>5, <2>6, <3>1, <3>2, CalmRecorded
    <3> QED BY <3>1, <3>2, <3>3, <3>4, StuckReduced
  <2>9. \A d \in inDoubt : Stuck(g, d[1], d[2])
    BY <2>7, <2>8
  <2> HIDE DEF g
  <2> QED BY <1>4, <2>1, <2>3, <2>9
<1>11. ASSUME NEW n \in Node, NEW w \in Token, IntegrateCandidate(n, w) PROVE Doubt'
  <2> DEFINE g == Published(n, w)
             h == AllDoneStale(graph)
  <2>1. /\ graph' = Reduced(g) /\ disk' = graph'
        /\ g \in Snapshot /\ g.plan = graph.plan /\ g.used = graph.used
        /\ g.outcome = "none" /\ graph.state[n] = "awaiting_review"
        /\ Calm(graph, h)
        /\ \A m \in Node : g.state[m] = IF m = n THEN "integrated" ELSE h.state[m]
        /\ \A m \in Node : m # n => g.attempts[m] = graph.attempts[m]
        /\ NobodyOut(g)
    BY <1>11, PublishedShape
  <2>2. inDoubt' = inDoubt
    BY <1>11 DEF IntegrateCandidate
  <2>3. \A m \in Node : graph.state[m] # "done" => h.state[m] = graph.state[m]
    BY <1>1 DEF AllDoneStale, Snapshot, InState
  <2> HIDE DEF g, h
  <2>4. InState(g, "running") = {}
    BY <1>1, <1>2, <2>1 DEF Calm, InState
  <2>5. ASSUME NEW d \in inDoubt PROVE Stuck(Reduced(g), d[1], d[2])
    <3>1. d[1] # n /\ g.state[d[1]] = graph.state[d[1]]
      BY <1>3, <2>1, <2>3
    <3>2. SameRecord(graph, g, d[1], d[2])
      BY <1>3, <2>1, <3>1 DEF SameRecord
    <3>3. Recorded(g, d[1], d[2])
      BY <1>3, <3>2, RecordedSame
    <3> QED BY <1>3, <2>1, <2>4, <3>1, <3>3, StuckReduced
  <2>6. Calm(g, Reduced(g)) /\ NobodyOut(Reduced(g))
    BY <2>1, CalmReduced, CalmOnwards, OnwardsNobody
  <2> QED BY <1>4, <2>1, <2>2, <2>5, <2>6 DEF Commit
<1>12. ASSUME NEW waived \in BOOLEAN, AcceptIntegratedNodes(waived) PROVE Doubt'
  <2> DEFINE c == Combined(graph, world, waived)
  <2>1. Commit(Reduced(Refreshed(c))) /\ inDoubt' = inDoubt
    BY <1>12 DEF AcceptIntegratedNodes, Quiet, Still
  <2>2. /\ c \in Snapshot /\ Onwards(graph, c) /\ c.outcome = "none"
        /\ \A n \in Node : graph.state[n] # "integrated" =>
              c.attempts[n] = graph.attempts[n] /\ c.state[n] = graph.state[n]
    BY <1>1, CombinedOnwards DEF SInv, IInv, TypeOK
  <2> HIDE DEF c
  <2>3. InState(c, "running") = {}
    BY <1>1, <1>2, <2>2 DEF Onwards, InState
  <2>4. ASSUME NEW d \in inDoubt PROVE Stuck(Reduced(Refreshed(c)), d[1], d[2])
    <3>1. c.state[d[1]] = graph.state[d[1]] /\ c.attempts[d[1]] = graph.attempts[d[1]]
      BY <1>3, <2>2
    <3>2. SameRecord(graph, c, d[1], d[2])
      BY <2>2, <3>1 DEF SameRecord, Onwards
    <3>3. Recorded(c, d[1], d[2])
      BY <1>3, <3>2, RecordedSame
    <3> QED BY <1>3, <2>2, <2>3, <3>1, <3>3, StuckReduced
  <2>5. Onwards(graph, Reduced(Refreshed(c)))
    <3>1. Refreshed(c) \in Snapshot /\ Calm(c, Refreshed(c))
      BY <2>2, RefreshedType, CalmRefreshed
    <3> QED BY <2>2, <3>1, CalmReduced, CalmSteps
  <2> QED BY <1>1, <1>4, <2>1, <2>4, <2>5, OnwardsNobody
<1> QED BY <1>5, <1>6, <1>8, <1>9, <1>10, <1>11, <1>12 DEF User

(* A crash puts in doubt only what the saved graph shows in flight.            *)
LEMMA CrashDoubts == ASSUME SInv, SInv', Doubt, Crash PROVE Doubt'
<1> DEFINE g == Restored(disk)
<1>1. graph \in Snapshot /\ disk \in Snapshot /\ Sound(graph) /\ Sound(disk)
  BY DEF SInv, IInv, TypeOK, Sound
<1>2. /\ graph' = g /\ disk' = graph' /\ ~up' /\ up
      /\ inDoubt' = inDoubt \cup
            {<<n, graph.active[n]>> : n \in {m \in Node : MayHaveActed(graph, m)}}
  BY DEF Crash
<1>3. /\ g.plan = disk.plan /\ g.state = disk.state /\ g.outcome = disk.outcome
      /\ g.used = disk.used /\ g.active = disk.active
      /\ \A n \in Node : g.attempts[n] = [k \in DOMAIN disk.attempts[n] |->
            [disk.attempts[n][k] EXCEPT !.worker = IF @ = "none" THEN @ ELSE "gone"]]
  BY <1>1 DEF Restored, Snapshot
<1> HIDE DEF g
<1>4. \A n \in Node : disk.attempts[n] \in Seq(Attempt) /\ graph.attempts[n] \in Seq(Attempt)
  BY <1>1 DEF Snapshot
<1>5. ASSUME NEW n \in Node
      PROVE  DOMAIN g.attempts[n] = DOMAIN disk.attempts[n]
             /\ Len(g.attempts[n]) = Len(disk.attempts[n])
  <2>1. g.attempts[n] \in Seq(Attempt) /\ disk.attempts[n] \in Seq(Attempt)
    BY <1>2, <1>4 DEF SInv, IInv, TypeOK, Snapshot
  <2>2. DOMAIN g.attempts[n] = DOMAIN disk.attempts[n]
    BY <1>3
  <2> QED BY <2>1, <2>2
<1>6. ASSUME NEW n \in Node, NEW k \in DOMAIN disk.attempts[n]
      PROVE  /\ g.attempts[n][k].state = disk.attempts[n][k].state
             /\ g.attempts[n][k].failures = disk.attempts[n][k].failures
             /\ g.attempts[n][k].pending = disk.attempts[n][k].pending
             /\ g.attempts[n][k].worker # "out"
  <2>1. disk.attempts[n][k] \in Attempt
    BY <1>4
  <2>2. g.attempts[n][k] = [disk.attempts[n][k] EXCEPT
            !.worker = IF @ = "none" THEN @ ELSE "gone"]
    BY <1>3
  <2> QED BY <2>1, <2>2 DEF Attempt
<1>7. NobodyOut(graph')
  BY <1>2, <1>5, <1>6 DEF NobodyOut
<1>8. ASSUME NEW d \in inDoubt PROVE Doubtful(g, d)
  <2>1. Doubtful(graph, d) /\ d[1] \in Node /\ disk = graph
    BY <1>2, DoubtStops
  <2>2. Stuck(disk, d[1], d[2]) /\ d[2] \in DOMAIN disk.attempts[d[1]]
    BY <2>1 DEF Doubtful, Stuck, Recorded, Held
  <2>3. SameRecord(disk, g, d[1], d[2])
    BY <1>3, <1>5, <1>6, <2>1, <2>2 DEF SameRecord
  <2> QED BY <1>3, <2>2, <2>3, RecordedSame DEF Doubtful, Stuck, Halted
<1>9. ASSUME NEW n \in Node, MayHaveActed(graph, n) PROVE Lost(g, n, graph.active[n])
  <2> DEFINE k == graph.active[n]
  <2>1. /\ k # 0 /\ k \in DOMAIN graph.attempts[n] /\ k = Len(graph.attempts[n])
        /\ graph.attempts[n][k].state = "running"
    BY <1>1, <1>9 DEF MayHaveActed, Sound, Books, ActiveRuns, RunsOnce
  <2> HIDE DEF k
  <2>2. /\ k \in DOMAIN disk.attempts[n] /\ disk.attempts[n][k].state = "running"
        /\ disk.plan = graph.plan
        /\ disk.attempts[n][k].pending.kind \in NonReplayable
              <=> graph.attempts[n][k].pending.kind \in NonReplayable
    BY <2>1 DEF SInv, Unmoved
  <2>3. /\ k = disk.active[n] /\ k = Len(disk.attempts[n]) /\ n \in disk.plan.nodes
        /\ disk.state[n] = "running"
    BY <1>1, <2>2 DEF Sound, Books, RunsOnce
  <2>4. disk.used[n] >= 1
    BY <2>3 DEF SInv, Settles, Counts
  <2>5. MayHaveActed(g, n)
    <3>1. g.active[n] # 0 /\ g.plan.exec[n] = graph.plan.exec[n]
      BY <1>3, <2>1, <2>2, <2>3
    <3>2. Last(g, n).pending.kind \in NonReplayable
             <=> Last(graph, n).pending.kind \in NonReplayable
      BY <1>5, <1>6, <2>1, <2>2, <2>3 DEF Last
    <3> QED BY <1>9, <3>1, <3>2 DEF MayHaveActed
  <2> QED BY <1>3, <1>5, <2>3, <2>4, <2>5 DEF Lost, k
<1>10. ASSUME NEW d \in inDoubt' PROVE Doubtful(g, d) \/ Unclear(g, d)
  <2>1. CASE d \in inDoubt
    BY <1>8, <2>1
  <2>2. CASE d \notin inDoubt
    <3>1. PICK n \in Node : MayHaveActed(graph, n) /\ d = <<n, graph.active[n]>>
      BY <1>2, <2>2
    <3> QED BY <1>9, <3>1 DEF Unclear
  <2> QED BY <2>1, <2>2
<1> QED BY <1>2, <1>7, <1>10 DEF Doubt

(* Recovery puts every doubt on record, and blocks its node.                   *)
LEMMA RecoveryDoubts ==
    ASSUME SInv, SInv', Doubt, inDoubt # {}, NEW t \in Observed, ResumeSaved(t) PROVE Doubt'
<1> DEFINE lost == {n \in Node : graph.active[n] # 0}
           doubtful == {n \in lost : MayHaveActed(graph, n)}
           ended(n) == [Last(graph, n) EXCEPT
               !.state = "interrupted",
               !.failures = IF n \in doubtful THEN @ \cup {"interrupted"} ELSE @]
           l == [n \in Node |->
                   IF n \in lost THEN [graph.attempts[n] EXCEPT ![graph.active[n]] = ended(n)]
                   ELSE graph.attempts[n]]
           st == [n \in Node |->
                   IF n \in doubtful THEN "blocked"
                   ELSE IF n \notin lost THEN graph.state[n]
                   ELSE IF graph.used[n] < graph.cap THEN "retryable" ELSE "budget_exhausted"]
           r == [graph EXCEPT !.attempts = l, !.state = st, !.active = [n \in Node |-> 0]]
           e == IF Differs(graph, t) THEN AllDoneStale(r) ELSE r
           h == Recovered(graph, t)
           g == IF h.outcome # "none" THEN h
                ELSE IF h.pause # "off" THEN Resumed(h) ELSE Activated(h)
<1>1. /\ Sound(graph) /\ graph \in Snapshot /\ world \in Token /\ Alone(graph)
      /\ inDoubt \subseteq Node \X Nat
  BY DEF SInv, IInv, TypeOK, Sound, Settles
<1>2. ~up /\ Commit(g) /\ inDoubt' = inDoubt
  BY DEF ResumeSaved
<1>3. /\ t \in Observation /\ NobodyOut(graph)
      /\ \A d \in inDoubt : Doubtful(graph, d) \/ Unclear(graph, d)
  BY <1>1, <1>2 DEF Doubt, Observed, Observation
<1>4. Onwards(graph, h) /\ NobodyOut(h)
  BY <1>1, <1>3, RecoveredOnwards, OnwardsNobody
<1>5. ASSUME h.outcome # "none", \A d \in inDoubt : Doubtful(h, d) PROVE Doubt'
  BY <1>2, <1>4, <1>5 DEF Doubt, Commit
<1>6. CASE \E d \in inDoubt : Doubtful(graph, d)
  <2>1. graph.outcome # "none"
    BY <1>6 DEF Doubtful, Stuck, Halted
  <2>2. h = graph
    BY <2>1 DEF Recovered, NothingLost
  <2>3. \A d \in inDoubt : ~Unclear(graph, d)
    BY <1>1, <2>1, IdleRunsNothing DEF Unclear, Lost, MayHaveActed
  <2> HIDE DEF h
  <2> QED BY <1>3, <1>5, <2>1, <2>2, <2>3
<1>7. CASE \A d \in inDoubt : ~Doubtful(graph, d)
  <2>1. ASSUME NEW d \in inDoubt
        PROVE  d[1] \in doubtful /\ d[1] \in graph.plan.nodes /\ d[1] \in Node
               /\ d[2] = graph.active[d[1]] /\ d[2] = Len(graph.attempts[d[1]])
               /\ graph.used[d[1]] >= 1
    BY <1>3, <1>7 DEF Unclear, Lost, MayHaveActed
  <2>2. PICK one \in inDoubt : TRUE
    OBVIOUS
  <2>3. graph.outcome = "none" /\ ~NothingLost(graph, t)
    BY <1>1, <2>1, <2>2, IdleRunsNothing DEF NothingLost
  <2>4. h = Reduced(Refreshed(e))
    BY <2>3 DEF Recovered
  <2> HIDE DEF h, g
  <2>5. \A n \in graph.plan.nodes : n \in Node /\ st[n] # "running"
    BY <1>1, PlanNodes, IdleRunsNothing
  <2>6. ASSUME NEW n \in lost
        PROVE  /\ graph.active[n] \in DOMAIN graph.attempts[n]
               /\ graph.attempts[n] \in Seq(Attempt) /\ Last(graph, n) \in Attempt
    <3>1. n \in Node /\ graph.active[n] # 0
      OBVIOUS
    <3>2. /\ graph.active[n] \in DOMAIN graph.attempts[n]
          /\ graph.active[n] = Len(graph.attempts[n])
      BY <1>1, <3>1 DEF Sound, Books, ActiveRuns, RunsOnce
    <3>3. graph.attempts[n] \in Seq(Attempt)
      BY <1>1, <3>1 DEF Snapshot
    <3> HIDE DEF lost
    <3> QED BY <3>2, <3>3 DEF Last
  <2>7. ASSUME NEW n \in lost
        PROVE  /\ ended(n) \in Attempt /\ ended(n).state = "interrupted"
               /\ n \in doubtful => "interrupted" \in ended(n).failures
    <3> DEFINE a == Last(graph, n)
    <3>1. a \in Attempt
      BY <2>6
    <3>2. "interrupted" \in Failures /\ "interrupted" \in AttemptStates
      BY DEF Failures, Hard, AttemptStates
    <3> HIDE DEF a, doubtful
    <3>3. LET b == [a EXCEPT !.state = "interrupted",
                        !.failures = IF n \in doubtful THEN @ \cup {"interrupted"} ELSE @]
          IN  /\ b \in Attempt /\ b.state = "interrupted"
              /\ n \in doubtful => "interrupted" \in b.failures
      BY <3>1, <3>2 DEF Attempt
    <3> QED BY <3>3 DEF a
  <2> HIDE DEF ended
  <2>8. ASSUME NEW n \in Node
        PROVE  /\ l[n] \in Seq(Attempt) /\ DOMAIN l[n] = DOMAIN graph.attempts[n]
               /\ Len(l[n]) = Len(graph.attempts[n])
               /\ n \in lost => l[n][graph.active[n]] = ended(n)
    <3>1. CASE n \in lost
      <4>1. l[n] = [graph.attempts[n] EXCEPT ![graph.active[n]] = ended(n)]
        BY <3>1
      <4> HIDE DEF l
      <4> QED BY <2>6, <2>7, <3>1, <4>1, SeqEdit
    <3>2. CASE n \notin lost
      BY <1>1, <3>2 DEF Snapshot
    <3> QED BY <3>1, <3>2
  <2>9. l \in [Node -> Seq(Attempt)]
    BY <2>8
  <2>10. /\ st \in [Node -> NodeStates]
         /\ \A n \in doubtful : st[n] = "blocked"
    BY <1>1 DEF Snapshot, NodeStates
  <2>11. doubtful \subseteq lost /\ lost \subseteq Node
    OBVIOUS
  <2> HIDE DEF l, st, lost, doubtful
  <2>12. /\ r \in Snapshot /\ r.plan = graph.plan /\ r.attempts = l /\ r.state = st
         /\ r.used = graph.used /\ r.outcome = "none"
    BY <1>1, <2>3, <2>9, <2>10 DEF Snapshot
  <2> HIDE DEF r
  <2>13. ASSUME NEW d \in inDoubt PROVE Recorded(r, d[1], d[2]) /\ r.state[d[1]] = "blocked"
    <3>1. /\ d[1] \in lost /\ d[1] \in Node /\ d[2] = graph.active[d[1]]
          /\ d[2] \in DOMAIN graph.attempts[d[1]]
      BY <2>1, <2>6, <2>11
    <3>2. /\ r.attempts[d[1]][d[2]] = ended(d[1]) /\ Len(r.attempts[d[1]]) = d[2]
          /\ d[2] \in DOMAIN r.attempts[d[1]]
      BY <2>1, <2>8, <2>12, <3>1
    <3>3. /\ r.attempts[d[1]][d[2]].state = "interrupted"
          /\ "interrupted" \in r.attempts[d[1]][d[2]].failures
      BY <2>1, <2>7, <3>1, <3>2
    <3>4. d[2] + r.used[d[1]] > d[2]
      <4>1. d[2] \in Nat /\ graph.used[d[1]] \in Nat
        BY <1>1, <3>1 DEF Snapshot
      <4> QED BY <2>1, <2>12, <4>1
    <3> QED BY <2>1, <2>10, <2>12, <3>2, <3>3, <3>4 DEF Recorded, Held
  <2>14. /\ e \in Snapshot /\ Calm(r, e) /\ e.outcome = "none"
         /\ \A n \in Node : r.state[n] = "blocked" => e.state[n] = "blocked"
    <3>1. AllDoneStale(r) \in Snapshot /\ Calm(r, AllDoneStale(r))
      BY <2>12, AllDoneStaleType, CalmAllDoneStale
    <3>2. /\ AllDoneStale(r).outcome = "none"
          /\ \A n \in Node : r.state[n] = "blocked" => AllDoneStale(r).state[n] = "blocked"
      BY <2>12 DEF AllDoneStale, Snapshot, InState
    <3>3. Calm(r, r)
      BY DEF Calm
    <3> QED BY <2>12, <3>1, <3>2, <3>3
  <2> HIDE DEF e
  <2>15. InState(e, "running") = {}
    BY <2>5, <2>12, <2>14 DEF Calm, InState
  <2>16. ASSUME NEW d \in inDoubt PROVE Doubtful(h, d)
    <3>1. Recorded(e, d[1], d[2]) /\ e.state[d[1]] = "blocked"
      BY <2>1, <2>13, <2>14, CalmRecorded
    <3> QED BY <2>4, <2>14, <2>15, <3>1, StuckReduced DEF Doubtful
  <2>17. h.outcome # "none"
    BY <2>2, <2>16 DEF Doubtful, Stuck, Halted
  <2> QED BY <1>5, <2>16, <2>17
<1> QED BY <1>6, <1>7

(* Only a crash adds to what is in doubt, and only a running process steps.     *)
LEMMA DoubtUntouched ==
    ASSUME \/ Schedule \/ RefuseWave \/ User \/ (\E p \in Plan : Revise(p))
           \/ \E n \in Node : Primary(n) \/ Waves(n)
    PROVE  up /\ inDoubt' = inDoubt
<1>1. Schedule => up /\ inDoubt' = inDoubt
  BY DEF Schedule, EnforceAggregateBudget, StartReadyReads, StartReadyWriters, InPass,
         StartNext, AbandonPass, ReachPause, Boundary, Quiet, Still
<1>2. RefuseWave => up /\ inDoubt' = inDoubt
  BY DEF RefuseWave, Quiet, Still
<1>3. User => up /\ inDoubt' = inDoubt
  BY DEF User, RequestPause, Resume, Cancel, ExtendBudget, ReconcileWorktrees, RetryNode,
         DiscardWorktree, IntegrateCandidate, AcceptIntegratedNodes, Boundary, Quiet, Still
<1>4. \A p \in Plan : Revise(p) => up /\ inDoubt' = inDoubt
  BY DEF Revise, Boundary, Quiet, Still
<1>5. ASSUME NEW n \in Node, Primary(n) PROVE up /\ inDoubt' = inDoubt
  <2>1. Idling(n) /\ Quiet => up /\ inDoubt' = inDoubt
    BY DEF Idling, Working, Quiet, Still
  <2>2. RecordPrimaryUsage(n) \/ BlockActive(n) \/ ExhaustBudget(n) => Idling(n) /\ Quiet
    BY DEF RecordPrimaryUsage, BlockActive, ExhaustBudget
  <2>3. \A kind, t : BeginTool(n, kind, t) => Idling(n) /\ Quiet
    BY DEF BeginTool
  <2>4. \A f : RecordFailure(n, f) => Idling(n) /\ Quiet
    BY DEF RecordFailure
  <2>5. \A t : ProposeCompletion(n, t) => Idling(n) /\ Quiet
    BY DEF ProposeCompletion
  <2>6. \A w, t, r : FinishTool(n, w, t, r) => up /\ inDoubt' = inDoubt
    BY DEF FinishTool, Working
  <2> QED BY <1>5, <2>1, <2>2, <2>3, <2>4, <2>5, <2>6 DEF Primary
<1>6. ASSUME NEW n \in Node, Waves(n) PROVE up /\ inDoubt' = inDoubt
  <2>1. \A e, c, b : RecordUsage(n, e, c, b) => up /\ Quiet
    BY DEF RecordUsage
  <2>2. StrandReads(n) \/ DropRead(n) \/ RecordWriterWorktree(n) => up /\ Quiet
    BY DEF StrandReads, DropRead, RecordWriterWorktree
  <2>3. \A t, s : FinishRead(n, t, s) => up /\ Quiet
    BY DEF FinishRead
  <2>4. \A t, s, c, v, x : FinishWriter(n, t, s, c, v, x) => up /\ Quiet
    BY DEF FinishWriter
  <2> QED BY <1>6, <2>1, <2>2, <2>3, <2>4 DEF Waves, Quiet, Still
<1> QED BY <1>1, <1>2, <1>3, <1>4, <1>5, <1>6

LEMMA NextDoubts == ASSUME SInv, SInv', Doubt, [Next]_vars PROVE Doubt'
<1>1. CASE Crash
  BY <1>1, CrashDoubts
<1>2. CASE UNCHANGED <<graph, disk, inDoubt, up>>
  BY <1>2 DEF Doubt, Doubtful, Unclear
<1>3. CASE \E t \in Observed : ResumeSaved(t)
  <2>1. PICK t \in Observed : ResumeSaved(t)
    BY <1>3
  <2>2. CASE inDoubt # {}
    BY <2>1, <2>2, RecoveryDoubts
  <2>3. CASE inDoubt = {}
    BY <2>1, <2>3 DEF Doubt, ResumeSaved
  <2> QED BY <2>2, <2>3
<1>4. CASE \/ Schedule \/ RefuseWave \/ User \/ (\E p \in Plan : Revise(p))
           \/ \E n \in Node : Primary(n) \/ Waves(n)
  <2>1. up /\ inDoubt' = inDoubt
    BY <1>4, DoubtUntouched
  <2>2. CASE inDoubt = {}
    BY <2>1, <2>2 DEF Doubt
  <2>3. CASE inDoubt # {}
    <3>1. /\ graph.outcome \in {"blocked", "budget_exhausted"}
          /\ InState(graph, "running") = {} /\ Out(graph) = {}
      BY <2>1, <2>3, DoubtStops
    <3>2. CASE User
      BY <2>1, <2>3, <3>2, UserDoubts
    <3>3. CASE Schedule
      <4>1. UNCHANGED <<graph, disk, up>>
        BY <3>1, <3>3 DEF Schedule, EnforceAggregateBudget, StartReadyReads, Schedulable,
              StartReadyWriters, InPass, StartNext, AbandonPass, ReachPause, Still
      <4> QED BY <1>2, <2>1, <4>1
    <3>4. ~RefuseWave /\ \A p \in Plan : ~Revise(p)
      BY <3>1 DEF RefuseWave, OutIn, Revise
    <3>5. ASSUME NEW n \in Node PROVE ~Primary(n)
      BY <3>1 DEF Primary, RecordPrimaryUsage, BeginTool, FinishTool, RecordFailure,
            ProposeCompletion, BlockActive, ExhaustBudget, Idling, Working, Running, InLane
    <3>6. ASSUME NEW n \in Node PROVE ~Waves(n)
      BY <3>1 DEF Waves, RecordUsage, StrandReads, FinishRead, DropRead,
            RecordWriterWorktree, FinishWriter, OutIn
    <3> QED BY <1>4, <3>2, <3>3, <3>4, <3>5, <3>6
  <2> QED BY <2>2, <2>3
<1>5. ExternalEdit => UNCHANGED <<graph, disk, inDoubt, up>>
  BY DEF ExternalEdit
<1> QED BY <1>1, <1>2, <1>3, <1>4, <1>5 DEF Next, vars

-----------------------------------------------------------------------------
(* How a snapshot follows another while the graph is neither cancelled,      *)
(* revised nor published from.                                              *)

(* The outcomes that end a graph for good.                                   *)
Final == {"done", "cancelled"}

(* The states work moves a planned node through.                             *)
InPlay == NodeStates \ {"absent", "cancelled", "integrated"}

(* What EXCEPT needs to know of a snapshot here.                              *)
Shaped(h) ==
    /\ {"plan", "state", "outcome"} \subseteq DOMAIN h
    /\ DOMAIN h.state = Node

(* From h to g the plan stays, no planned node is lost and none cancelled,    *)
(* and a final outcome is neither left nor cancelled.                        *)
Goes(h, g) ==
    /\ Shaped(g) /\ g.plan = h.plan
    /\ \A n \in Node : g.state[n] = h.state[n] \/ g.state[n] \in InPlay
    /\ h.outcome \in Final => g.outcome = h.outcome
    /\ g.outcome = "cancelled" => h.outcome = "cancelled"

LEMMA SnapshotShaped == ASSUME NEW h \in Snapshot PROVE Shaped(h)
  BY DEF Shaped, Snapshot

LEMMA GoesSelf == ASSUME NEW h, Shaped(h) PROVE Goes(h, h)
  BY DEF Goes

LEMMA GoesSteps ==
    ASSUME NEW h, NEW f, NEW g, Goes(h, f), Goes(f, g) PROVE Goes(h, g)
  BY DEF Goes

LEMMA GoesRefreshed == ASSUME NEW h, Shaped(h), h.plan.nodes \subseteq Node PROVE Goes(h, Refreshed(h))
<1> DEFINE s == [n \in Node |->
        IF /\ n \in h.plan.nodes
           /\ h.state[n] \in {"proposed", "retryable", "stale"}
           /\ DependenciesDone(h, n)
        THEN IF h.used[n] < h.cap THEN "ready" ELSE "budget_exhausted"
        ELSE h.state[n]]
<1>1. \A n \in Node : s[n] = h.state[n] \/ s[n] \in InPlay
  BY DEF InPlay, NodeStates
<1>2. Refreshed(h) = [h EXCEPT !.state = s]
  BY DEF Refreshed
<1>3. DOMAIN s = Node
  OBVIOUS
<1> HIDE DEF s
<1> QED BY <1>1, <1>2, <1>3 DEF Goes, Shaped

LEMMA GoesTerminated ==
    ASSUME NEW h, Shaped(h), h.outcome \notin Final, NEW o, o # "cancelled"
    PROVE  Goes(h, Terminated(h, o))
<1>1. \A c, p : LET g == [h EXCEPT !.outcome = o, !.clock = c, !.pause = p]
                IN  Shaped(g) /\ g.plan = h.plan /\ g.state = h.state /\ g.outcome = o
  BY DEF Shaped
<1>2. LET g == Terminated(h, o)
      IN  Shaped(g) /\ g.plan = h.plan /\ g.state = h.state /\ g.outcome = o
  BY <1>1, Zenon DEF Terminated
<1> QED BY <1>2 DEF Goes

LEMMA GoesReduced == ASSUME NEW h, Shaped(h) PROVE Goes(h, Reduced(h))
<1>1. Verdict(h) # "cancelled"
  BY DEF Verdict
<1>2. h.outcome = "none" => h.outcome \notin Final
  BY DEF Final
<1> QED BY <1>1, <1>2, GoesSelf, GoesTerminated DEF Reduced

LEMMA GoesStale ==
    ASSUME NEW h, Shaped(h), h.outcome \notin Final PROVE Goes(h, AllDoneStale(h))
<1> DEFINE s == [n \in Node |-> IF n \in InState(h, "done") THEN "stale" ELSE h.state[n]]
           c == [n \in Node |-> IF n \in InState(h, "done") THEN 0 ELSE h.accepted[n]]
<1>1. AllDoneStale(h) = [h EXCEPT !.state = s, !.accepted = c, !.outcome = "none"]
  BY DEF AllDoneStale
<1>2. DOMAIN s = Node /\ \A m \in Node : s[m] = h.state[m] \/ s[m] \in InPlay
  BY DEF InPlay, NodeStates
<1> HIDE DEF s, c
<1> QED BY <1>1, <1>2 DEF Goes, Shaped

LEMMA GoesSettled ==
    ASSUME NEW h, Shaped(h), NEW n, NEW a, NEW s \in InPlay
    PROVE  Goes(h, Settled(h, n, a, s))
<1> DEFINE t == [h.attempts EXCEPT ![n][h.active[n]] = a]
           c == [h.accepted EXCEPT ![n] = IF s = "done" THEN h.active[n] ELSE h.accepted[n]]
           v == [h.active EXCEPT ![n] = 0]
           e == [h.state EXCEPT ![n] = s]
<1>1. Settled(h, n, a, s) = [h EXCEPT !.attempts = t, !.state = e, !.accepted = c, !.active = v]
  BY DEF Settled, Shaped
<1>2. DOMAIN e = Node /\ \A m \in Node : e[m] = h.state[m] \/ e[m] = s
  BY DEF Shaped
<1> HIDE DEF t, c, v, e
<1> QED BY <1>1, <1>2 DEF Goes, Shaped

LEMMA GoesUnconsumed ==
    ASSUME NEW h, Shaped(h), NEW n PROVE Goes(h, UnconsumedStale(h, n))
<1> DEFINE unconsumed == {m \in InState(h, "done") \ (Upstream(h.plan, n) \cup {n}) :
                            ~h.attempts[m][h.accepted[m]].mutated}
           dependent == {m \in h.plan.nodes :
                            /\ Upstream(h.plan, m) \cap unconsumed # {}
                            /\ h.state[m] \in {"done", "ready", "proposed"}}
           hit == unconsumed \cup dependent
           s == [m \in Node |-> IF m \in hit THEN "stale" ELSE h.state[m]]
           c == [m \in Node |-> IF m \in hit THEN 0 ELSE h.accepted[m]]
<1>1. UnconsumedStale(h, n) = [h EXCEPT !.state = s, !.accepted = c]
  BY DEF UnconsumedStale
<1>2. DOMAIN s = Node /\ \A m \in Node : s[m] = h.state[m] \/ s[m] \in InPlay
  BY DEF InPlay, NodeStates
<1> HIDE DEF s, c
<1> QED BY <1>1, <1>2 DEF Goes, Shaped

LEMMA GoesExhausted ==
    ASSUME NEW h, Shaped(h), h.outcome \notin Final PROVE Goes(h, Exhausted(h))
<1> DEFINE hit == h.plan.nodes \ Kept(h)
           l == RunningEnded(h, "budget_exhausted")
           s == [n \in Node |-> IF n \in hit THEN "budget_exhausted" ELSE h.state[n]]
           v == [n \in Node |-> IF n \in hit THEN 0 ELSE h.active[n]]
           f == [h EXCEPT !.attempts = l, !.state = s, !.active = v]
<1>1. Exhausted(h) = Terminated(f, "budget_exhausted")
  BY DEF Exhausted
<1>2. DOMAIN s = Node /\ \A m \in Node : s[m] = h.state[m] \/ s[m] \in InPlay
  BY DEF InPlay, NodeStates
<1> HIDE DEF s, l, v, hit
<1>3. Goes(h, f) /\ f.outcome = h.outcome
  BY <1>2 DEF Goes, Shaped
<1> HIDE DEF f
<1>4. Goes(f, Terminated(f, "budget_exhausted"))
  BY <1>3, GoesTerminated DEF Goes
<1> QED BY <1>1, <1>3, <1>4, GoesSteps

LEMMA GoesStarted ==
    ASSUME NEW h, Shaped(h), NEW w, NEW t, NEW e PROVE Goes(h, Started(h, w, t, e))
<1> DEFINE l == [n \in Node |->
                    IF n \in w
                    THEN Append(h.attempts[n], NewAttempt(h, t,
                                    IF e = "primary" THEN "none" ELSE "out"))
                    ELSE h.attempts[n]]
           v == [n \in Node |-> IF n \in w THEN Len(h.attempts[n]) + 1 ELSE h.active[n]]
           u == [n \in Node |-> IF n \in w THEN h.used[n] + 1 ELSE h.used[n]]
           c == [x \in Workers |-> IF x = e THEN h.starts[x] + Cardinality(w) ELSE h.starts[x]]
           s == [n \in Node |-> IF n \in w THEN "running" ELSE h.state[n]]
<1>1. Started(h, w, t, e) = [h EXCEPT !.attempts = l, !.active = v, !.used = u,
                                      !.starts = c, !.state = s]
  BY DEF Started
<1>2. DOMAIN s = Node /\ \A m \in Node : s[m] = h.state[m] \/ s[m] \in InPlay
  BY DEF InPlay, NodeStates
<1> HIDE DEF l, v, u, c, s
<1> QED BY <1>1, <1>2 DEF Goes, Shaped

(* The outcome stays as well.                                                *)
SameCourse(h, g) == Goes(h, g) /\ g.outcome = h.outcome

LEMMA GoesLedger ==
    ASSUME NEW h, Shaped(h), NEW x PROVE SameCourse(h, [h EXCEPT !.attempts = x])
  BY DEF SameCourse, Goes, Shaped

LEMMA GoesToken ==
    ASSUME NEW h, Shaped(h), NEW x PROVE SameCourse(h, [h EXCEPT !.token = x])
  BY DEF SameCourse, Goes, Shaped

LEMMA GoesSpent ==
    ASSUME NEW h, Shaped(h), NEW x PROVE SameCourse(h, [h EXCEPT !.spent = x])
  BY DEF SameCourse, Goes, Shaped

LEMMA GoesMutation ==
    ASSUME NEW h, Shaped(h), NEW x PROVE SameCourse(h, [h EXCEPT !.mutation = x])
  BY DEF SameCourse, Goes, Shaped

LEMMA GoesClock ==
    ASSUME NEW h, Shaped(h), NEW x, NEW y
    PROVE  /\ SameCourse(h, [h EXCEPT !.clock = x])
           /\ SameCourse(h, [h EXCEPT !.pause = y, !.clock = x])
  BY DEF SameCourse, Goes, Shaped

LEMMA GoesCharged ==
    ASSUME NEW h, Shaped(h), NEW x, NEW y
    PROVE  SameCourse(h, [h EXCEPT !.attempts = x, !.spent = y])
  BY DEF SameCourse, Goes, Shaped

LEMMA SameCourseSteps ==
    ASSUME NEW h, NEW f, NEW g, SameCourse(h, f), SameCourse(f, g) PROVE SameCourse(h, g)
  BY GoesSteps DEF SameCourse

LEMMA GoesAttempted ==
    ASSUME NEW n, NEW a, Shaped(graph) PROVE SameCourse(graph, Attempted(n, a))
<1> DEFINE x == [graph.attempts EXCEPT ![n] = [graph.attempts[n] EXCEPT ![graph.active[n]] = a]]
<1>1. Attempted(n, a) = [graph EXCEPT !.attempts = x]
  BY DEF Attempted
<1> HIDE DEF x
<1> QED BY <1>1, GoesLedger

(* A step follows the course of the graph, and the file follows its outcome.  *)
Follows ==
    /\ Goes(graph, graph')
    /\ disk' = graph' \/ (disk' = disk /\ graph'.outcome = graph.outcome)

LEMMA CommitFollows == ASSUME NEW h, Goes(graph, h), Commit(h) PROVE Follows
  BY DEF Commit, Follows

LEMMA NoteFollows ==
    ASSUME NEW h, SameCourse(graph, h), Note(h) \/ Unsaved(h) PROVE Follows
  BY DEF Note, Unsaved, Follows, SameCourse

LEMMA LoggedFollows ==
    ASSUME NEW h, SameCourse(graph, h), NEW k, Logged(k, h) PROVE Follows
  BY CommitFollows, NoteFollows DEF Logged, SameCourse

LEMMA GoesNoticed ==
    ASSUME NEW h, Shaped(h), h.outcome \notin Final, h.plan.nodes \subseteq Node, NEW t
    PROVE  Goes(h, Noticed(h, t))
<1> DEFINE d == IF Differs(h, t) THEN AllDoneStale(h) ELSE h
           x == IF d.token = NoToken THEN t ELSE d.token
           c == [d EXCEPT !.token = x]
<1>1. Noticed(h, t) = Refreshed(c)
  BY DEF Noticed
<1>2. Goes(h, d)
  BY GoesStale, GoesSelf
<1> HIDE DEF d, x
<1>3. Goes(d, c)
  BY <1>2, GoesToken DEF SameCourse, Goes
<1> HIDE DEF c
<1>4. Goes(c, Refreshed(c))
  BY <1>2, <1>3, GoesRefreshed DEF Goes
<1> QED BY <1>1, <1>2, <1>3, <1>4, GoesSteps

LEMMA GoesMoved ==
    ASSUME NEW h, Shaped(h), NEW n, NEW s \in InPlay
    PROVE  SameCourse(h, [h EXCEPT !.state[n] = s])
<1> DEFINE e == [h.state EXCEPT ![n] = s]
<1>1. DOMAIN e = Node /\ \A m \in Node : e[m] = h.state[m] \/ e[m] = s
  BY DEF Shaped
<1> HIDE DEF e
<1>2. SameCourse(h, [h EXCEPT !.state = e])
  BY <1>1 DEF SameCourse, Goes, Shaped
<1> QED BY <1>2 DEF e

LEMMA ClaimFollows ==
    ASSUME NEW h, Goes(graph, h), h.outcome = "none", NEW e, NEW t,
           Claim(h, e, t) \/ ExhaustReady(h, e)
    PROVE  Follows
<1>1. CASE Claim(h, e, t)
  <2>1. PICK wave \in SUBSET Ready(h, e) : Commit(Started(h, wave, t, e))
    BY <1>1 DEF Claim
  <2>2. Goes(h, Started(h, wave, t, e))
    BY GoesStarted DEF Goes
  <2> QED BY <2>1, <2>2, GoesSteps, CommitFollows
<1>2. CASE ExhaustReady(h, e)
  <2> DEFINE n == First(Ready(h, e))
             g == [h EXCEPT !.state[n] = "budget_exhausted"]
  <2>1. Commit(Terminated(g, "budget_exhausted"))
    BY <1>2 DEF ExhaustReady
  <2>2. Shaped(h) /\ "budget_exhausted" \in InPlay
    BY DEF Goes, InPlay, NodeStates
  <2> HIDE DEF n
  <2>3. SameCourse(h, g)
    BY <2>2, GoesMoved
  <2> HIDE DEF g
  <2>4. Goes(g, Terminated(g, "budget_exhausted"))
    BY <2>3, GoesTerminated DEF SameCourse, Goes, Final
  <2> QED BY <2>1, <2>3, <2>4, GoesSteps, CommitFollows DEF SameCourse
<1> QED BY <1>1, <1>2

LEMMA GoesEnforced ==
    ASSUME NEW h, Shaped(h), h.outcome \notin Final, NEW b
    PROVE  Goes(h, Enforced(h, b))
  BY GoesExhausted, GoesSelf DEF Enforced

LEMMA GoesResumed ==
    ASSUME NEW h, Shaped(h), h.outcome \notin Final
    PROVE  Goes(h, Resumed(h)) /\ Goes(h, Activated(h))
<1> DEFINE r(c) == [h EXCEPT !.pause = "off", !.clock = c]
           a(c) == [h EXCEPT !.clock = c]
<1>1. ASSUME NEW c PROVE Goes(h, Enforced(r(c), TRUE)) /\ Goes(h, Enforced(a(c), TRUE))
  <2>1. SameCourse(h, r(c)) /\ SameCourse(h, a(c))
    BY GoesClock
  <2> HIDE DEF r, a
  <2>2. Goes(r(c), Enforced(r(c), TRUE)) /\ Goes(a(c), Enforced(a(c), TRUE))
    BY <2>1, GoesEnforced DEF SameCourse, Goes
  <2> QED BY <2>1, <2>2, GoesSteps DEF SameCourse
<1>2. Goes(h, Enforced(r(TRUE), TRUE)) /\ Goes(h, Enforced(a(TRUE), TRUE))
  BY <1>1
<1> QED BY <1>2 DEF Resumed, Activated

LEMMA ScheduleFollows == ASSUME SInv, Schedule PROVE Follows
<1>1. Sound(graph) /\ graph.plan.nodes \subseteq Node /\ Shaped(graph) /\ Observed \subseteq Observation
      /\ pass \in {<<>>} \cup {<<t>> : t \in Observation}
  BY PlanNodes, SnapshotShaped DEF SInv, IInv, TypeOK, Sound, Observed, Observation
<1>2. "none" \notin Final
  BY DEF Final
<1>3. ASSUME graph.outcome = "none", NEW t \in Observation
      PROVE  SameCourse(graph, Noticed(graph, t)) /\ Shaped(Noticed(graph, t))
  BY <1>1, <1>2, <1>3, GoesNoticed, CalmNoticed DEF SameCourse, Goes
<1>4. CASE EnforceAggregateBudget
  BY <1>1, <1>2, <1>4, GoesExhausted, CommitFollows DEF EnforceAggregateBudget
<1>5. ASSUME NEW t \in Observed, StartReadyReads(t) PROVE Follows
  <2> DEFINE h == Noticed(graph, t)
  <2>1. graph.outcome = "none" /\ (Unsaved(h) \/ ExhaustReady(h, "read_only") \/ Claim(h, "read_only", t))
    BY <1>5 DEF StartReadyReads, Schedulable
  <2>2. SameCourse(graph, h)
    BY <1>1, <1>3, <2>1
  <2> HIDE DEF h
  <2> QED BY <2>1, <2>2, NoteFollows, ClaimFollows DEF SameCourse
<1>6. ASSUME NEW t \in Observed, NEW clean \in BOOLEAN, StartReadyWriters(t, clean) PROVE Follows
  <2> DEFINE h == Noticed(graph, t)
             n == First(Ready(h, "isolated_write"))
             g == [h EXCEPT !.state[n] = "blocked"]
  <2>1. /\ graph.outcome = "none"
        /\ Commit(Reduced(g)) \/ ExhaustReady(h, "isolated_write") \/ Claim(h, "isolated_write", t)
    BY <1>6 DEF StartReadyWriters, InPass, Schedulable
  <2>2. SameCourse(graph, h)
    BY <1>1, <1>3, <2>1
  <2> HIDE DEF h, n
  <2>3. SameCourse(h, g)
    BY <2>2, GoesMoved DEF SameCourse, Goes, InPlay, NodeStates
  <2> HIDE DEF g
  <2>4. Goes(graph, Reduced(g))
    BY <2>2, <2>3, GoesReduced, GoesSteps DEF SameCourse, Goes
  <2> QED BY <2>1, <2>2, <2>4, CommitFollows, ClaimFollows DEF SameCourse
<1>7. CASE StartNext
  <2> DEFINE t == pass[1]
             h == Noticed(graph, t)
             w == {First(Ready(h, "primary"))}
  <2>1. /\ graph.outcome = "none" /\ t \in Observation
        /\ Commit(Started(h, w, t, "primary")) \/ Commit(Reduced(h))
    BY <1>1, <1>7 DEF StartNext, InPass, Schedulable
  <2>2. SameCourse(graph, h)
    BY <1>1, <1>3, <2>1
  <2> HIDE DEF h, t, w
  <2>3. Goes(h, Started(h, w, t, "primary")) /\ Goes(h, Reduced(h))
    BY <2>2, GoesStarted, GoesReduced DEF SameCourse, Goes
  <2>4. Goes(graph, Started(h, w, t, "primary")) /\ Goes(graph, Reduced(h))
    BY <2>2, <2>3, GoesSteps DEF SameCourse
  <2> QED BY <2>1, <2>4, CommitFollows
<1>8. CASE AbandonPass
  BY <1>1, <1>8, GoesSelf DEF AbandonPass, Follows
<1>9. CASE ReachPause
  <2> DEFINE h(c) == [graph EXCEPT !.pause = "reached", !.clock = c]
  <2>1. \A c : Commit(h(c)) => Follows
    BY <1>1, GoesClock, CommitFollows DEF SameCourse
  <2>2. Commit(h(FALSE))
    BY <1>9 DEF ReachPause
  <2> QED BY <2>1, <2>2
<1> QED BY <1>4, <1>5, <1>6, <1>7, <1>8, <1>9 DEF Schedule

(* A node whose attempt is settled, with or without a fresh look at the rest.  *)
LEMMA GoesResettled ==
    ASSUME NEW h, Shaped(h), h.plan.nodes \subseteq Node, NEW n, NEW a, NEW s \in InPlay
    PROVE  /\ Goes(h, Refreshed(Settled(h, n, a, s)))
           /\ Goes(h, Reduced(Settled(h, n, a, s)))
           /\ Goes(h, Reduced(Refreshed(Settled(h, n, a, s))))
<1> DEFINE f == Settled(h, n, a, s)
           r == Refreshed(f)
<1>1. Goes(h, f)
  BY GoesSettled
<1> HIDE DEF f
<1>2. Goes(f, r)
  BY <1>1, GoesRefreshed DEF Goes
<1> HIDE DEF r
<1>3. Goes(f, Reduced(f)) /\ Goes(r, Reduced(r))
  BY <1>1, <1>2, GoesReduced DEF Goes
<1>4. Goes(h, r) /\ Goes(h, Reduced(f)) /\ Goes(h, Reduced(r))
  BY <1>1, <1>2, <1>3, GoesSteps
<1> QED BY <1>4 DEF r, f

LEMMA GoesAccepted ==
    ASSUME Shaped(graph), graph.plan.nodes \subseteq Node, NEW n, NEW a, NEW t
    PROVE  Goes(graph, Accepted(n, a, t))
<1> DEFINE f == Settled(graph, n, [a EXCEPT !.state = "accepted"], "done")
           x == IF t # NoToken THEN t ELSE f.token
           h == [f EXCEPT !.token = x]
           u == IF a.mutated THEN UnconsumedStale(h, n) ELSE h
           r == Refreshed(u)
<1>1. Accepted(n, a, t) = Reduced(r)
  BY DEF Accepted
<1>2. Goes(graph, f)
  BY GoesSettled DEF InPlay, NodeStates
<1> HIDE DEF f, x
<1>3. Goes(f, h)
  BY <1>2, GoesToken DEF SameCourse, Goes
<1> HIDE DEF h
<1>4. Goes(h, u)
  BY <1>3, GoesUnconsumed, GoesSelf DEF Goes
<1> HIDE DEF u
<1>5. Goes(graph, u)
  BY <1>2, <1>3, <1>4, GoesSteps
<1>6. Goes(u, r)
  BY <1>5, GoesRefreshed DEF Goes
<1> HIDE DEF r
<1>7. Goes(r, Reduced(r))
  BY <1>6, GoesReduced DEF Goes
<1> QED BY <1>1, <1>5, <1>6, <1>7, GoesSteps

LEMMA PrimaryFollows == ASSUME SInv, NEW n \in Node, Primary(n) PROVE Follows
<1>1. Sound(graph) /\ graph.plan.nodes \subseteq Node /\ Shaped(graph)
  BY PlanNodes, SnapshotShaped DEF SInv, IInv, TypeOK, Sound
<1>2. n \in Running(graph, "primary")
  BY DEF Primary, RecordPrimaryUsage, BeginTool, FinishTool, RecordFailure, ProposeCompletion,
         BlockActive, ExhaustBudget, Idling, Working
<1>3. graph.outcome = "none" /\ graph.outcome \notin Final
  BY <1>1, <1>2, PrimaryAttempt DEF Final
<1>4. {"done", "blocked", "retryable"} \subseteq InPlay
  BY DEF InPlay, NodeStates
<1>5. CASE RecordPrimaryUsage(n)
  <2> DEFINE x == graph.spent + 1
             h == [graph EXCEPT !.spent = x]
  <2>1. Commit(Exhausted(h)) \/ Note(h)
    BY <1>5 DEF RecordPrimaryUsage
  <2> HIDE DEF x
  <2>2. SameCourse(graph, h)
    BY <1>1, GoesSpent
  <2> HIDE DEF h
  <2>3. Goes(graph, Exhausted(h))
    BY <1>3, <2>2, GoesExhausted, GoesSteps DEF SameCourse, Goes
  <2> QED BY <2>1, <2>2, <2>3, CommitFollows, NoteFollows
<1>6. ASSUME NEW kind \in ToolKinds, NEW t \in Observed, BeginTool(n, kind, t) PROVE Follows
  <2>1. \E b, c : LET g == Attempted(n, b)
                      h == [g EXCEPT !.mutation = IF kind \in Mutating THEN g.mutation + 1
                                                  ELSE g.mutation]
                  IN  Commit(Attempted(n, c)) \/ Logged(kind, h)
    BY <1>6 DEF BeginTool
  <2>2. PICK b, c : LET g == Attempted(n, b)
                        h == [g EXCEPT !.mutation = IF kind \in Mutating THEN g.mutation + 1
                                                    ELSE g.mutation]
                    IN  Commit(Attempted(n, c)) \/ Logged(kind, h)
    BY <2>1
  <2> DEFINE g == Attempted(n, b)
             x == IF kind \in Mutating THEN g.mutation + 1 ELSE g.mutation
             h == [g EXCEPT !.mutation = x]
  <2>3. Commit(Attempted(n, c)) \/ Logged(kind, h)
    BY <2>2
  <2>4. SameCourse(graph, g) /\ SameCourse(graph, Attempted(n, c))
    BY <1>1, GoesAttempted
  <2> HIDE DEF g, x
  <2>5. SameCourse(graph, h)
    BY <2>4, GoesMutation, SameCourseSteps DEF SameCourse, Goes
  <2> HIDE DEF h
  <2> QED BY <2>3, <2>4, <2>5, CommitFollows, LoggedFollows DEF SameCourse
<1>7. ASSUME NEW w \in Token, NEW t \in Observation, NEW r \in ToolResults, FinishTool(n, w, t, r)
      PROVE  Follows
  <2>1. \E b, k, y : Logged(k, [Attempted(n, b) EXCEPT !.token = y])
    BY <1>7 DEF FinishTool
  <2>2. PICK b, k, y : Logged(k, [Attempted(n, b) EXCEPT !.token = y])
    BY <2>1
  <2> DEFINE g == Attempted(n, b)
             h == [g EXCEPT !.token = y]
  <2>3. Logged(k, h)
    BY <2>2
  <2>4. SameCourse(graph, g)
    BY <1>1, GoesAttempted
  <2> HIDE DEF g
  <2>5. SameCourse(graph, h)
    BY <2>4, GoesToken, SameCourseSteps DEF SameCourse, Goes
  <2> HIDE DEF h
  <2> QED BY <2>3, <2>5, LoggedFollows
<1>8. ASSUME NEW f \in FailureKinds, RecordFailure(n, f) PROVE Follows
  <2>1. Commit(Attempted(n, [Last(graph, n) EXCEPT !.failures = @ \cup {f}]))
    BY <1>8 DEF RecordFailure
  <2> QED BY <1>1, <2>1, GoesAttempted, CommitFollows DEF SameCourse
<1>9. ASSUME NEW t \in Observed, ProposeCompletion(n, t) PROVE Follows
  <2>1. \E a, b, c, d, e :
          \/ Commit(Refreshed(Settled(graph, n, b, "retryable")))
          \/ Commit(BlockedBy(graph, n, a))
          \/ Note(Attempted(n, c))
          \/ Commit(BlockedBy(graph, n, d))
          \/ Commit(Accepted(n, e, t))
    BY <1>9 DEF ProposeCompletion
  <2>2. PICK a, b, c, d, e :
          \/ Commit(Refreshed(Settled(graph, n, b, "retryable")))
          \/ Commit(BlockedBy(graph, n, a))
          \/ Note(Attempted(n, c))
          \/ Commit(BlockedBy(graph, n, d))
          \/ Commit(Accepted(n, e, t))
    BY <2>1
  <2>3. \A x : Goes(graph, BlockedBy(graph, n, x))
    BY <1>1, <1>4, GoesResettled DEF BlockedBy
  <2>4. Goes(graph, Refreshed(Settled(graph, n, b, "retryable")))
    BY <1>1, <1>4, GoesResettled
  <2>5. Goes(graph, Accepted(n, e, t)) /\ SameCourse(graph, Attempted(n, c))
    BY <1>1, GoesAccepted, GoesAttempted
  <2> QED BY <2>2, <2>3, <2>4, <2>5, CommitFollows, NoteFollows
<1>10. CASE BlockActive(n)
  <2>1. \A x : Goes(graph, BlockedBy(graph, n, x))
    BY <1>1, <1>4, GoesResettled DEF BlockedBy
  <2> QED BY <1>10, <2>1, CommitFollows DEF BlockActive
<1>11. CASE ExhaustBudget(n)
  BY <1>1, <1>3, <1>11, GoesExhausted, CommitFollows DEF ExhaustBudget
<1> QED BY <1>5, <1>6, <1>7, <1>8, <1>9, <1>10, <1>11 DEF Primary

LEMMA ChargedFollows ==
    ASSUME NEW h, Shaped(h), NEW n, NEW a, NEW c PROVE SameCourse(h, Charged(h, n, a, c))
<1> DEFINE b == [a EXCEPT !.billed = TRUE]
           x == [h.attempts EXCEPT ![n] = [h.attempts[n] EXCEPT ![Len(h.attempts[n])] = b]]
           y == IF Last(h, n).billed THEN h.spent ELSE h.spent + c
<1>1. Charged(h, n, a, c) = [h EXCEPT !.attempts = x, !.spent = y]
  BY DEF Charged
<1> HIDE DEF x, y
<1>2. SameCourse(h, [h EXCEPT !.attempts = x, !.spent = y])
  BY GoesCharged
<1> QED BY <1>1, <1>2

LEMMA WavesFollow ==
    ASSUME SInv, (\E n \in Node : Waves(n)) \/ RefuseWave PROVE Follows
<1>1. Sound(graph) /\ graph.plan.nodes \subseteq Node /\ Shaped(graph)
  BY PlanNodes, SnapshotShaped DEF SInv, IInv, TypeOK, Sound
<1>2. {"done", "blocked", "retryable", "budget_exhausted", "awaiting_review"} \subseteq InPlay
  BY DEF InPlay, NodeStates
<1>3. ASSUME NEW n \in Node, NEW e \in Workers, NEW c \in Costs, NEW b \in BOOLEAN,
             RecordUsage(n, e, c, b)
      PROVE  Follows
  <2> DEFINE h == Charged(graph, n, [Last(graph, n) EXCEPT !.cached = b], c)
  <2>1. Note(h) \/ (graph.outcome = "none" /\ Commit(Exhausted(h)))
    BY <1>3 DEF RecordUsage
  <2>2. SameCourse(graph, h)
    BY <1>1, ChargedFollows
  <2> HIDE DEF h
  <2>3. graph.outcome = "none" => Goes(graph, Exhausted(h))
    BY <2>2, GoesExhausted, GoesSteps DEF SameCourse, Goes, Final
  <2> QED BY <2>1, <2>2, <2>3, CommitFollows, NoteFollows
<1>4. ASSUME NEW n \in Node, StrandReads(n) PROVE Follows
  <2> DEFINE x == [m \in Node |-> IF m \in OutIn("read_only") THEN Back(graph, m).attempts[m]
                                  ELSE graph.attempts[m]]
  <2>1. Unsaved([graph EXCEPT !.attempts = x])
    BY <1>4 DEF StrandReads
  <2> HIDE DEF x
  <2> QED BY <1>1, <2>1, GoesLedger, NoteFollows
<1>5. ASSUME NEW n \in Node, NEW t \in Observed, NEW s \in Statuses, FinishRead(n, t, s)
      PROVE  Follows
  <2>1. \E a \in {[Last(graph, n) EXCEPT !.worker = "back"]} :
          \/ Commit(Reduced(Refreshed(Settled(graph, n, [a EXCEPT !.state = "accepted"], "done"))))
          \/ Commit(Reduced(IF graph.used[n] < graph.cap
                            THEN Refreshed(Settled(graph, n, [a EXCEPT !.state = "retryable"],
                                                   "retryable"))
                            ELSE Settled(graph, n, [a EXCEPT !.state = "blocked"], "blocked")))
          \/ Commit(Reduced(Settled(graph, n, [a EXCEPT !.state = "budget_exhausted"],
                                    "budget_exhausted")))
          \/ Commit(Reduced(Settled(graph, n, [a EXCEPT !.state = "cancelled"], "blocked")))
    BY <1>5 DEF FinishRead
  <2>2. PICK a : 
          \/ Commit(Reduced(Refreshed(Settled(graph, n, [a EXCEPT !.state = "accepted"], "done"))))
          \/ Commit(Reduced(IF graph.used[n] < graph.cap
                            THEN Refreshed(Settled(graph, n, [a EXCEPT !.state = "retryable"],
                                                   "retryable"))
                            ELSE Settled(graph, n, [a EXCEPT !.state = "blocked"], "blocked")))
          \/ Commit(Reduced(Settled(graph, n, [a EXCEPT !.state = "budget_exhausted"],
                                    "budget_exhausted")))
          \/ Commit(Reduced(Settled(graph, n, [a EXCEPT !.state = "cancelled"], "blocked")))
    BY <2>1
  <2>3. \A b : \A s2 \in InPlay :
          /\ Goes(graph, Reduced(Refreshed(Settled(graph, n, b, s2))))
          /\ Goes(graph, Reduced(Settled(graph, n, b, s2)))
    BY <1>1, GoesResettled
  <2> QED BY <1>2, <2>2, <2>3, CommitFollows
<1>6. ASSUME NEW n \in Node, DropRead(n) PROVE Follows
  <2> DEFINE k == Len(graph.attempts[n])
             x == [graph.attempts EXCEPT ![n] = [graph.attempts[n] EXCEPT
                      ![k] = [graph.attempts[n][k] EXCEPT !.worker = "back"]]]
  <2>1. Unsaved(Back(graph, n))
    BY <1>6 DEF DropRead
  <2>2. Back(graph, n) = [graph EXCEPT !.attempts = x]
    BY DEF Back
  <2> HIDE DEF x
  <2> QED BY <1>1, <2>1, <2>2, GoesLedger, NoteFollows
<1>7. ASSUME NEW n \in Node, RecordWriterWorktree(n) PROVE Follows
  <2> DEFINE k == graph.active[n]
             x == [graph.attempts EXCEPT ![n] = [graph.attempts[n] EXCEPT
                      ![k] = [graph.attempts[n][k] EXCEPT !.tree = "kept"]]]
  <2>1. Commit([graph EXCEPT !.attempts = x])
    BY <1>7 DEF RecordWriterWorktree
  <2> HIDE DEF x
  <2> QED BY <1>1, <2>1, GoesLedger, CommitFollows DEF SameCourse
<1>8. ASSUME NEW n \in Node, NEW t \in Observed, NEW s \in Statuses, NEW c \in BOOLEAN,
             NEW v \in BOOLEAN, NEW x \in Costs, FinishWriter(n, t, s, c, v, x)
      PROVE  Follows
  <2> DEFINE a == [Last(graph, n) EXCEPT !.worker = "back", !.candidate = c,
                                         !.tree = IF c THEN "kept" ELSE "none"]
             h == Charged(graph, n, a, x)
  <2>1. \/ Commit(h)
        \/ \E b : \E z \in {"awaiting_review", "budget_exhausted", "blocked"} :
              Commit(Reduced(Settled(h, n, b, z)))
    BY <1>8 DEF FinishWriter
  <2>2. SameCourse(graph, h)
    BY <1>1, ChargedFollows
  <2> HIDE DEF h
  <2>3. \A b : \A z \in InPlay : Goes(graph, Reduced(Settled(h, n, b, z)))
    BY <1>1, <2>2, GoesResettled, GoesSteps DEF SameCourse, Goes
  <2> QED BY <1>2, <2>1, <2>2, <2>3, CommitFollows DEF SameCourse
<1>9. CASE RefuseWave
  <2> DEFINE wave == OutIn("isolated_write")
             ended(n) == [Last(graph, n) EXCEPT !.state = "blocked",
                                                !.billed = TRUE, !.worker = "back"]
             x == [n \in Node |->
                      IF n \in wave
                      THEN [graph.attempts[n] EXCEPT ![Len(graph.attempts[n])] = ended(n)]
                      ELSE graph.attempts[n]]
             y == [n \in Node |-> IF n \in wave THEN "blocked" ELSE graph.state[n]]
             z == [n \in Node |-> IF n \in wave THEN 0 ELSE graph.active[n]]
             h == [graph EXCEPT !.attempts = x, !.state = y, !.active = z]
  <2>1. Commit(Reduced(h))
    BY <1>9 DEF RefuseWave
  <2>2. DOMAIN y = Node /\ \A m \in Node : y[m] = graph.state[m] \/ y[m] \in InPlay
    BY <1>2
  <2> HIDE DEF x, y, z
  <2>3. Goes(graph, h)
    BY <1>1, <2>2 DEF Goes, Shaped
  <2> HIDE DEF h
  <2>4. Goes(h, Reduced(h))
    BY <2>3, GoesReduced DEF Goes
  <2> QED BY <2>1, <2>3, <2>4, GoesSteps, CommitFollows
<1> QED BY <1>3, <1>4, <1>5, <1>6, <1>7, <1>8, <1>9 DEF Waves

-----------------------------------------------------------------------------
(* The user's commands but cancellation and publication.                      *)

LEMMA GoesReopened ==
    ASSUME NEW h, Shaped(h), h.outcome \notin Final, NEW c
    PROVE  Goes(h, [h EXCEPT !.outcome = "none", !.clock = c])
  BY DEF Goes, Shaped, Final

LEMMA UserFollows ==
    ASSUME SInv, User, ~Cancel, \A n \in Node, w \in Token : ~IntegrateCandidate(n, w),
           (\E waived \in BOOLEAN : AcceptIntegratedNodes(waived)) => graph.outcome \notin Final
    PROVE  Follows
<1>1. Sound(graph) /\ graph.plan.nodes \subseteq Node /\ Shaped(graph)
  BY PlanNodes, SnapshotShaped DEF SInv, IInv, TypeOK, Sound
<1>2. {"done", "proposed", "retryable"} \subseteq InPlay
  BY DEF InPlay, NodeStates
<1>3. \A o : o \in {"none", "blocked", "budget_exhausted"} => o \notin Final
  BY DEF Final
<1>4. CASE RequestPause
  <2>1. PICK p, c : Commit([graph EXCEPT !.pause = p, !.clock = c])
    BY <1>4 DEF RequestPause
  <2> QED BY <1>1, <2>1, GoesClock, CommitFollows DEF SameCourse
<1>5. CASE Resume
  BY <1>1, <1>3, <1>5, GoesResumed, CommitFollows DEF Resume
<1>6. CASE ExtendBudget
  <2> DEFINE s == [n \in Node |-> IF n \in InState(graph, "budget_exhausted") THEN "proposed"
                                  ELSE graph.state[n]]
             f == [graph EXCEPT
                     !.extensions = @ + 1, !.limit = @ + Envelope, !.cap = @ + Attempts,
                     !.maxStarts = [e \in Workers |-> @[e] + Starts[e]],
                     !.state = s, !.outcome = "none"]
             r == Refreshed(f)
             h == Reduced(r)
  <2>1. graph.outcome = "budget_exhausted"
        /\ Commit(IF h.outcome = "none" THEN Activated(h) ELSE h)
    BY <1>6 DEF ExtendBudget, Extended
  <2>2. DOMAIN s = Node /\ \A m \in Node : s[m] = graph.state[m] \/ s[m] \in InPlay
    BY <1>2
  <2> HIDE DEF s
  <2>3. Goes(graph, f)
    BY <1>1, <1>3, <2>1, <2>2 DEF Goes, Shaped, Final
  <2> HIDE DEF f
  <2>4. Goes(f, r)
    BY <1>1, <2>3, GoesRefreshed DEF Goes
  <2> HIDE DEF r
  <2>5. Goes(r, h)
    BY <2>4, GoesReduced DEF Goes
  <2> HIDE DEF h
  <2>6. h.outcome = "none" => Goes(h, Activated(h))
    BY <1>3, <2>5, GoesResumed DEF Goes
  <2>7. Goes(graph, h)
    BY <2>3, <2>4, <2>5, GoesSteps
  <2> QED BY <2>1, <2>6, <2>7, GoesSteps, CommitFollows
<1>7. ASSUME NEW ns, NEW from, NEW to, Commit(Disposed(ns, from, to)) PROVE Follows
  <2> DEFINE x == [n \in Node |-> [k \in DOMAIN graph.attempts[n] |->
                      IF n \in ns /\ graph.attempts[n][k].tree = from
                      THEN [graph.attempts[n][k] EXCEPT !.tree = to] ELSE graph.attempts[n][k]]]
  <2>1. Disposed(ns, from, to) = [graph EXCEPT !.attempts = x]
    BY DEF Disposed
  <2> HIDE DEF x
  <2> QED BY <1>1, <1>7, <2>1, GoesLedger, CommitFollows DEF SameCourse
<1>8. ReconcileWorktrees \/ (\E n \in Node : DiscardWorktree(n)) => Follows
  BY <1>7 DEF ReconcileWorktrees, DiscardWorktree
<1>9. ASSUME NEW n \in Node, RetryNode(n) PROVE Follows
  <2> DEFINE k(c) == [graph EXCEPT !.outcome = "none", !.clock = c]
             m(c) == [k(c) EXCEPT !.state[n] = "retryable"]
             g(c) == IF Over(k(c), TRUE) THEN Exhausted(k(c)) ELSE Reduced(Refreshed(m(c)))
  <2>1. graph.outcome = "blocked" /\ Commit(g(TRUE))
    BY <1>9 DEF RetryNode, Reopened
  <2>2. \A c : Goes(graph, k(c)) /\ k(c).outcome = "none"
    BY <1>1, <1>3, <2>1, GoesReopened DEF Shaped
  <2> HIDE DEF k
  <2>3. ASSUME NEW c PROVE Goes(graph, g(c))
    <3>1. SameCourse(k(c), m(c))
      BY <1>2, <2>2, GoesMoved DEF Goes
    <3> HIDE DEF m
    <3>2. Goes(m(c), Refreshed(m(c)))
      BY <1>1, <2>2, <3>1, GoesRefreshed DEF SameCourse, Goes
    <3>3. Goes(Refreshed(m(c)), Reduced(Refreshed(m(c))))
      BY <3>2, GoesReduced DEF Goes
    <3>4. Goes(k(c), Exhausted(k(c)))
      BY <1>3, <2>2, GoesExhausted DEF Goes
    <3> QED BY <2>2, <3>1, <3>2, <3>3, <3>4, GoesSteps DEF SameCourse
  <2> HIDE DEF g
  <2> QED BY <2>1, <2>3, CommitFollows
<1>10. ASSUME NEW waived \in BOOLEAN, AcceptIntegratedNodes(waived) PROVE Follows
  <2> DEFINE c == Combined(graph, world, waived)
             r == Refreshed(c)
             pending == InState(graph, "integrated")
             s == [n \in Node |-> IF n \in pending THEN "done" ELSE graph.state[n]]
  <2>1. graph.outcome \notin Final /\ Commit(Reduced(r))
    BY <1>10 DEF AcceptIntegratedNodes
  <2>2. c.plan = graph.plan /\ c.state = s /\ c.outcome = "none"
        /\ {"plan", "state", "outcome"} \subseteq DOMAIN c
    BY <1>1 DEF Combined, Shaped
  <2>3. DOMAIN s = Node /\ \A m \in Node : s[m] = graph.state[m] \/ s[m] \in InPlay
    BY <1>2
  <2> HIDE DEF s, c
  <2>4. Goes(graph, c)
    BY <2>1, <2>2, <2>3 DEF Goes, Shaped, Final
  <2>5. Goes(c, r)
    BY <1>1, <2>4, GoesRefreshed DEF Goes
  <2> HIDE DEF r
  <2>6. Goes(r, Reduced(r))
    BY <2>5, GoesReduced DEF Goes
  <2> QED BY <2>1, <2>4, <2>5, <2>6, GoesSteps, CommitFollows
<1> QED BY <1>4, <1>5, <1>6, <1>8, <1>9, <1>10 DEF User

-----------------------------------------------------------------------------
(* No node is lost to the scheduler.                                        *)

(* Every planned node has a state, and only a cancelled graph holds cancelled *)
(* nodes.                                                                    *)
Reachable(h) ==
    /\ \A n \in h.plan.nodes : h.state[n] # "absent"
    /\ \A n \in Node : h.state[n] = "cancelled" => h.outcome = "cancelled"

(* Graph and file are such, and agree on how the graph ended.                 *)
Steady == Reachable(graph) /\ Reachable(disk) /\ disk.outcome = graph.outcome

LEMMA GoesReachable ==
    ASSUME NEW h, NEW g, Goes(h, g), h.plan.nodes \subseteq Node, Reachable(h) PROVE Reachable(g)
  BY DEF Goes, Reachable, InPlay, Final

LEMMA FollowsSteady ==
    ASSUME SInv, Steady, Follows
    PROVE  Steady' /\ (graph.outcome \in Final => graph'.outcome = graph.outcome)
<1>1. graph.plan.nodes \subseteq Node
  BY PlanNodes DEF SInv, IInv, TypeOK
<1>2. Reachable(graph') /\ (graph.outcome \in Final => graph'.outcome = graph.outcome)
  BY <1>1, GoesReachable DEF Follows, Steady, Goes
<1>3. Reachable(disk') /\ disk'.outcome = graph'.outcome
  BY <1>2 DEF Follows, Steady, Reachable
<1> QED BY <1>2, <1>3 DEF Steady, Reachable

LEMMA CancelSteady ==
    ASSUME SInv, Steady, Cancel
    PROVE  Steady' /\ graph.outcome = "none"
<1> DEFINE s == [n \in Node |-> IF graph.active[n] # 0 THEN "cancelled" ELSE graph.state[n]]
           x == RunningEnded(graph, "cancelled")
           y == [n \in Node |-> 0]
           f == [graph EXCEPT !.attempts = x, !.state = s, !.active = y]
<1>1. graph.plan.nodes \subseteq Node /\ Shaped(graph)
  BY PlanNodes, SnapshotShaped DEF SInv, IInv, TypeOK
<1>2. graph' = Terminated(f, "cancelled") /\ disk' = graph' /\ graph.outcome = "none"
  BY DEF Cancel, Commit
<1>3. \A n \in Node : s[n] \in {graph.state[n], "cancelled"}
  OBVIOUS
<1> HIDE DEF s, x, y
<1>4. f.plan = graph.plan /\ f.state = s /\ {"plan", "state", "outcome"} \subseteq DOMAIN f
  BY <1>1 DEF Shaped
<1> HIDE DEF f
<1>5. LET g == Terminated(f, "cancelled")
      IN  g.plan = graph.plan /\ g.state = s /\ g.outcome = "cancelled"
  BY <1>4 DEF Terminated
<1>6. Reachable(graph')
  BY <1>1, <1>2, <1>3, <1>5 DEF Reachable, Steady
<1> QED BY <1>2, <1>6 DEF Steady, Reachable

LEMMA IntegrateSteady ==
    ASSUME SInv, Steady, graph.outcome # "cancelled", NEW n \in Node, NEW w \in Token,
           IntegrateCandidate(n, w)
    PROVE  Steady' /\ graph.outcome \notin Final
<1> DEFINE k == LatestIn(graph, n, "candidate")
           d == AllDoneStale(graph)
           g == [d EXCEPT
                   !.mutation = @ + 1,
                   !.attempts[n][k] = [@ EXCEPT !.state = "accepted",
                                                !.mutation = graph.mutation + 1],
                   !.token = w,
                   !.state[n] = "integrated"]
<1>1. graph.plan.nodes \subseteq Node /\ Shaped(graph) /\ Sound(graph)
  BY PlanNodes, SnapshotShaped DEF SInv, IInv, TypeOK, Sound
<1>2. /\ graph' = Reduced(g) /\ disk' = graph'
      /\ n \in graph.plan.nodes /\ graph.state[n] = "awaiting_review"
  BY DEF IntegrateCandidate, Commit, InState
<1>4. graph.outcome # "done"
  BY <1>1, <1>2 DEF Sound, Books, Ended
<1>5. graph.outcome \notin Final
  BY <1>4 DEF Final
<1>6. Goes(graph, d)
  BY <1>1, <1>5, GoesStale
<1>7. Reachable(d)
  BY <1>1, <1>6, GoesReachable DEF Steady
<1> HIDE DEF d, k
<1>8. /\ {"plan", "state", "outcome"} \subseteq DOMAIN g /\ g.plan = d.plan
      /\ g.outcome = d.outcome /\ g.state = [d.state EXCEPT ![n] = "integrated"]
  BY <1>6 DEF Goes, Shaped
<1> HIDE DEF g
<1>9. DOMAIN g.state = Node
      /\ \A m \in Node : g.state[m] = IF m = n THEN "integrated" ELSE d.state[m]
  BY <1>6, <1>8 DEF Goes, Shaped
<1>10. Reachable(g) /\ Shaped(g) /\ g.plan.nodes \subseteq Node
  BY <1>1, <1>2, <1>6, <1>7, <1>8, <1>9 DEF Reachable, Shaped, Goes
<1>11. Reachable(Reduced(g))
  BY <1>10, GoesReduced, GoesReachable
<1> QED BY <1>2, <1>5, <1>11 DEF Steady, Reachable

LEMMA ReviseSteady == ASSUME SInv, Steady, NEW p \in Plan, Revise(p)
    PROVE  Steady' /\ graph'.outcome = graph.outcome
<1> DEFINE kept == {n \in p.nodes : SameDefinition(graph.plan, p, n)
                                    /\ graph.state[n] = "done"}
           fresh == {n \in kept : Upstream(p, n) \subseteq kept}
           st == [n \in Node |-> IF n \notin p.nodes THEN "absent"
                                 ELSE IF n \in fresh THEN "done"
                                 ELSE IF n \in kept THEN "stale" ELSE "proposed"]
           g == [graph EXCEPT
               !.plan = p, !.generation = @ + 1, !.attempts = RunningEnded(graph, "failed"),
               !.state = st,
               !.active = [n \in Node |-> 0],
               !.accepted = [n \in Node |-> IF n \in fresh THEN @[n] ELSE 0],
               !.used = [n \in Node |-> IF n \in p.nodes \cap graph.plan.nodes THEN @[n] ELSE 0],
               !.retired = @ \cup {n \in graph.plan.nodes \ p.nodes : graph.state[n] # "done"}]
<1>1. Shaped(graph) /\ p.nodes \subseteq Node
  BY PlanAssumption, SnapshotShaped DEF SInv, IInv, TypeOK
<1>2. graph' = Refreshed(g) /\ disk' = graph' /\ graph.outcome = "none"
  BY DEF Revise, Commit, Revised
<1>3. DOMAIN st = Node /\ \A n \in Node : /\ st[n] \in {"absent", "done", "stale", "proposed"}
                                          /\ n \in p.nodes => st[n] # "absent"
  OBVIOUS
<1> HIDE DEF st, kept, fresh
<1>4. /\ g.plan = p /\ g.state = st /\ g.outcome = graph.outcome
      /\ {"plan", "state", "outcome"} \subseteq DOMAIN g
  BY <1>1 DEF Shaped
<1> HIDE DEF g
<1>5. Reachable(g) /\ Shaped(g)
  BY <1>1, <1>2, <1>3, <1>4 DEF Reachable, Shaped
<1>6. Goes(g, Refreshed(g)) /\ Refreshed(g).outcome = g.outcome
  BY <1>1, <1>4, <1>5, GoesRefreshed DEF Refreshed, Shaped
<1>7. Reachable(Refreshed(g))
  BY <1>1, <1>4, <1>5, <1>6, GoesReachable
<1> QED BY <1>2, <1>4, <1>6, <1>7 DEF Steady, Reachable

LEMMA CrashSteady == ASSUME SInv, Steady, Crash
    PROVE  Steady' /\ graph'.outcome = graph.outcome
<1>1. disk \in Snapshot
  BY DEF SInv, IInv, TypeOK
<1>2. /\ Restored(disk).plan = disk.plan /\ Restored(disk).state = disk.state
      /\ Restored(disk).outcome = disk.outcome
  BY <1>1 DEF Restored, Snapshot
<1>3. graph' = Restored(disk) /\ disk' = Restored(disk)
  BY DEF Crash
<1> QED BY <1>2, <1>3 DEF Steady, Reachable

LEMMA ResumeSavedFollows ==
    ASSUME SInv, NEW t \in Observed, ResumeSaved(t) PROVE Follows
<1> DEFINE h == Recovered(graph, t)
           lost == {n \in Node : graph.active[n] # 0}
           doubtful == {n \in lost : MayHaveActed(graph, n)}
           ended(n) == [Last(graph, n) EXCEPT
               !.state = "interrupted",
               !.failures = IF n \in doubtful THEN @ \cup {"interrupted"} ELSE @]
           x == [n \in Node |->
                    IF n \in lost THEN [graph.attempts[n] EXCEPT ![graph.active[n]] = ended(n)]
                    ELSE graph.attempts[n]]
           s == [n \in Node |->
                    IF n \in doubtful THEN "blocked"
                    ELSE IF n \notin lost THEN graph.state[n]
                    ELSE IF graph.used[n] < graph.cap THEN "retryable" ELSE "budget_exhausted"]
           y == [n \in Node |-> 0]
           r == [graph EXCEPT !.attempts = x, !.state = s, !.active = y]
           d == IF Differs(graph, t) THEN AllDoneStale(r) ELSE r
           f == Refreshed(d)
<1>1. graph.plan.nodes \subseteq Node /\ Shaped(graph)
  BY PlanNodes, SnapshotShaped DEF SInv, IInv, TypeOK
<1>2. h = graph \/ (graph.outcome = "none" /\ h = Reduced(f))
  BY DEF Recovered, NothingLost
<1>3. Commit(IF h.outcome # "none" THEN h
             ELSE IF h.pause # "off" THEN Resumed(h) ELSE Activated(h))
  BY DEF ResumeSaved
<1>4. DOMAIN s = Node /\ \A m \in Node : s[m] = graph.state[m] \/ s[m] \in InPlay
  BY DEF InPlay, NodeStates
<1> HIDE DEF s, x, y, h
<1>5. SameCourse(graph, r)
  BY <1>1, <1>4 DEF SameCourse, Goes, Shaped
<1> HIDE DEF r
<1>6. graph.outcome = "none" => Goes(graph, Reduced(f))
  <2> SUFFICES ASSUME graph.outcome = "none" PROVE Goes(graph, Reduced(f))
    OBVIOUS
  <2>1. Goes(r, d)
    BY <1>5, GoesStale, GoesSelf DEF SameCourse, Goes, Final
  <2>2. Shaped(d) /\ d.plan = graph.plan /\ Goes(graph, d)
    BY <1>5, <2>1, GoesSteps DEF SameCourse, Goes
  <2> HIDE DEF d
  <2>3. Goes(d, f)
    BY <1>1, <2>2, GoesRefreshed
  <2> HIDE DEF f
  <2>4. Goes(f, Reduced(f))
    BY <2>3, GoesReduced DEF Goes
  <2> QED BY <2>2, <2>3, <2>4, GoesSteps
<1> HIDE DEF f
<1>7. Goes(graph, h) /\ Shaped(h)
  BY <1>1, <1>2, <1>6, GoesSelf DEF Goes
<1>8. h.outcome = "none" => Goes(h, Resumed(h)) /\ Goes(h, Activated(h))
  BY <1>7, GoesResumed DEF Final
<1> QED BY <1>3, <1>7, <1>8, GoesSteps, CommitFollows

(* The user leaves a cancelled graph alone: no candidate of it is published,   *)
(* and none published before is accepted.                                    *)
LeftAlone ==
    graph.outcome = "cancelled" =>
        /\ ~\E n \in Node, w \in Token : IntegrateCandidate(n, w)
        /\ ~\E waived \in BOOLEAN : AcceptIntegratedNodes(waived)

LEMMA NextSteady ==
    ASSUME SInv, Steady, [Next]_vars, [LeftAlone]_vars
    PROVE  Steady' /\ (graph.outcome \in Final => graph'.outcome = graph.outcome)
<1>1. Sound(graph) /\ graph.plan.nodes \subseteq Node
  BY PlanNodes DEF SInv, IInv, TypeOK, Sound
<1>2. "none" \notin Final
  BY DEF Final
<1>3. CASE UNCHANGED <<graph, disk>>
  BY <1>3 DEF Steady, Reachable
<1>4. CASE Schedule
  BY <1>4, ScheduleFollows, FollowsSteady
<1>5. ASSUME NEW n \in Node, Primary(n) PROVE Follows
  BY <1>5, PrimaryFollows
<1>6. CASE (\E n \in Node : Waves(n)) \/ RefuseWave
  BY <1>6, WavesFollow, FollowsSteady
<1>7. CASE \E p \in Plan : Revise(p)
  BY <1>7, ReviseSteady
<1>8. CASE User /\ ~UNCHANGED vars
  <2>1. LeftAlone
    BY <1>8
  <2>2. CASE Cancel
    BY <1>2, <2>2, CancelSteady
  <2>3. ASSUME NEW n \in Node, NEW w \in Token, IntegrateCandidate(n, w)
        PROVE  Steady' /\ graph.outcome \notin Final
    BY <2>1, <2>3, IntegrateSteady DEF LeftAlone
  <2>4. CASE \E waived \in BOOLEAN : AcceptIntegratedNodes(waived)
    <3>1. InState(graph, "integrated") # {} /\ graph.outcome # "cancelled"
      BY <2>1, <2>4 DEF LeftAlone, AcceptIntegratedNodes
    <3>2. graph.outcome # "done"
      BY <1>1, <3>1 DEF Sound, Books, Ended, InState
    <3>3. graph.outcome \notin Final
      BY <3>1, <3>2 DEF Final
    <3> QED BY <2>2, <2>3, <3>3, <1>8, UserFollows, FollowsSteady
  <2>5. CASE /\ ~Cancel /\ \A n \in Node, w \in Token : ~IntegrateCandidate(n, w)
             /\ ~\E waived \in BOOLEAN : AcceptIntegratedNodes(waived)
    BY <1>8, <2>5, UserFollows, FollowsSteady
  <2> QED BY <2>2, <2>3, <2>4, <2>5
<1>9. CASE Crash
  BY <1>9, CrashSteady
<1>10. CASE \E t \in Observed : ResumeSaved(t)
  BY <1>10, ResumeSavedFollows, FollowsSteady
<1> QED BY <1>3, <1>4, <1>5, <1>6, <1>7, <1>8, <1>9, <1>10, FollowsSteady
        DEF Next, ExternalEdit, vars

-----------------------------------------------------------------------------
(* What a pass knows.                                                        *)

LEMMA RefreshedTwice ==
    ASSUME NEW c \in Snapshot, NEW f \in Snapshot, f.plan = c.plan, f.state = Refreshed(c).state
    PROVE  Refreshed(f).state = f.state
<1> DEFINE s == [n \in Node |->
        IF /\ n \in f.plan.nodes
           /\ f.state[n] \in {"proposed", "retryable", "stale"}
           /\ DependenciesDone(f, n)
        THEN IF f.used[n] < f.cap THEN "ready" ELSE "budget_exhausted"
        ELSE f.state[n]]
           r == [n \in Node |->
        IF /\ n \in c.plan.nodes
           /\ c.state[n] \in {"proposed", "retryable", "stale"}
           /\ DependenciesDone(c, n)
        THEN IF c.used[n] < c.cap THEN "ready" ELSE "budget_exhausted"
        ELSE c.state[n]]
<1>1. Refreshed(f).state = s /\ f.state = r
  BY DEF Refreshed, Snapshot
<1>2. ASSUME NEW n \in Node, n \in f.plan.nodes, f.state[n] \in {"proposed", "retryable", "stale"},
             DependenciesDone(f, n)
      PROVE  FALSE
  <2>1. f.plan.deps[n] \subseteq Node
    <3>1. f.plan \in Plan
      BY DEF Snapshot
    <3> QED BY <3>1, PlanAssumption
  <2>2. c.state[n] = f.state[n] /\ ~DependenciesDone(c, n)
    BY <1>1, <1>2
  <2>3. \A m \in Node : f.state[m] = "done" => c.state[m] = "done"
    BY <1>1
  <2> QED BY <1>2, <2>1, <2>2, <2>3 DEF DependenciesDone
<1>3. \A n \in Node : s[n] = f.state[n]
  BY <1>2
<1>4. f.state \in [Node -> NodeStates]
  BY DEF Snapshot
<1> QED BY <1>1, <1>3, <1>4

LEMMA NoticedTwice ==
    ASSUME NEW h, Sound(h), h.outcome = "none", NEW t \in Observation
    PROVE  Noticed(Noticed(h, t), t).state = Noticed(h, t).state
<1> DEFINE d == IF Differs(h, t) THEN AllDoneStale(h) ELSE h
           x == IF d.token = NoToken THEN t ELSE d.token
           c == [d EXCEPT !.token = x]
           g == Noticed(h, t)
           e == IF Differs(g, t) THEN AllDoneStale(g) ELSE g
           y == IF e.token = NoToken THEN t ELSE e.token
           f == [e EXCEPT !.token = y]
<1>1. h \in Snapshot /\ h.plan.nodes \subseteq Node
  BY PlanNodes DEF Sound
<1>2. d \in Snapshot /\ d.plan = h.plan /\ d.token = h.token
      /\ (Differs(h, t) => InState(d, "done") = {})
  BY <1>1, AllDoneStaleType, CalmAllDoneStale DEF Calm, AllDoneStale, Snapshot
<1>3. g = Refreshed(c)
  BY DEF Noticed
<1>4. c \in Snapshot /\ c.plan = h.plan /\ c.state = d.state /\ c.token = x
  BY <1>2 DEF Snapshot
<1>5. g \in Snapshot /\ g.plan = h.plan /\ g.token = c.token /\ Calm(c, g)
  <2>1. Refreshed(c).token = c.token
    BY <1>4 DEF Refreshed, Snapshot
  <2>2. Calm(c, Refreshed(c)) /\ Refreshed(c) \in Snapshot
    BY <1>4, CalmRefreshed, RefreshedType
  <2> HIDE DEF g, c
  <2> QED BY <1>3, <1>4, <2>1, <2>2 DEF Calm
<1>6. Differs(g, t) => Differs(h, t)
  BY <1>2, <1>4, <1>5 DEF Differs
<1>7. Differs(g, t) => InState(g, "done") = {}
  BY <1>1, <1>2, <1>4, <1>5, <1>6 DEF Calm, InState
<1>8. e \in Snapshot /\ e.plan = g.plan /\ e.state = g.state
  <2>1. AllDoneStale(g) \in Snapshot /\ AllDoneStale(g).plan = g.plan
    BY <1>5, AllDoneStaleType, CalmAllDoneStale DEF Calm
  <2>2. InState(g, "done") = {} => AllDoneStale(g).state = g.state
    BY <1>5 DEF AllDoneStale, Snapshot
  <2> QED BY <1>5, <1>7, <2>1, <2>2
<1>9. Noticed(g, t) = Refreshed(f)
  BY DEF Noticed
<1> HIDE DEF e, g
<1>10. f \in Snapshot /\ f.plan = g.plan /\ f.state = g.state
  BY <1>8 DEF Snapshot
<1> HIDE DEF f, c
<1>11. Refreshed(f).state = f.state
  BY <1>3, <1>4, <1>5, <1>10, RefreshedTwice
<1> QED BY <1>9, <1>10, <1>11 DEF g

(* While a pass goes on, looking again at the token it holds shows it nothing  *)
(* new, and reads wait only for a primary node.                               *)
Poised ==
    pass # <<>> /\ Schedulable(graph) =>
        /\ Noticed(graph, pass[1]).state = graph.state
        /\ Ready(graph, "primary") # {} \/ Ready(graph, "read_only") = {}

LEMMA NextPoised == ASSUME SInv, Poised, [Next]_vars PROVE Poised'
<1>1. Sound(graph) /\ Observed \subseteq Observation
  BY DEF SInv, IInv, TypeOK, Sound, Observed, Observation
<1>2. CASE pass' = <<>>
  BY <1>2 DEF Poised
<1>3. CASE graph' = graph /\ pass' = pass
  <2>1. Schedulable(graph)' = Schedulable(graph)
    BY <1>3 DEF Schedulable, HasRunningAttempt
  <2> QED BY <1>3, <2>1 DEF Poised
<1>4. CASE ~Schedulable(graph')
  BY <1>4 DEF Poised
<1>5. ASSUME NEW t \in Observed, StartReadyReads(t) PROVE Poised'
  <2> DEFINE h == Noticed(graph, t)
  <2>1. graph.outcome = "none" /\ t \in Observation
    BY <1>1, <1>5 DEF StartReadyReads, Schedulable
  <2>2. \/ pass' = <<>>
        \/ /\ graph' = h /\ pass' = <<t>>
           /\ Ready(h, "primary") # {} \/ Ready(h, "read_only") = {}
    BY <1>5 DEF StartReadyReads, ExhaustReady, Claim, Unsaved
  <2>3. Noticed(h, t).state = h.state
    BY <1>1, <2>1, NoticedTwice
  <2> HIDE DEF h
  <2> QED BY <2>2, <2>3 DEF Poised
<1>6. CASE RequestPause
  <2> DEFINE p == IF ~HasRunningAttempt(graph) THEN "reached" ELSE "requested"
  <2>1. graph' = [graph EXCEPT !.pause = p, !.clock = graph.clock /\ ~~HasRunningAttempt(graph)]
    BY <1>6 DEF RequestPause, Commit
  <2>2. graph'.pause = p
    BY <1>1, <2>1 DEF Sound, Snapshot
  <2> QED BY <1>4, <2>2 DEF Schedulable
<1>7. CASE Cancel
  <2>1. graph'.outcome = "cancelled"
    BY <1>1, <1>7 DEF Cancel, Commit, Terminated, Sound, Snapshot
  <2> QED BY <1>4, <2>1 DEF Schedulable
<1>8. CASE Schedule /\ \A t \in Observed : ~StartReadyReads(t)
  <2>1. pass' = <<>>
    BY <1>8 DEF Schedule, EnforceAggregateBudget, StartReadyWriters, ExhaustReady, Claim,
          StartNext, AbandonPass, ReachPause, Boundary, Quiet
  <2> QED BY <1>2, <2>1
<1>9. ASSUME NEW n \in Node, Primary(n) PROVE pass' = <<>>
  BY <1>9 DEF Primary, RecordPrimaryUsage, BeginTool, FinishTool, RecordFailure,
        ProposeCompletion, BlockActive, ExhaustBudget, Idling, Working, Quiet
<1>10. ASSUME NEW n \in Out(graph), Quiet PROVE pass' = <<>>
  BY <1>10, OutUnpublished DEF Quiet
<1>11. ASSUME NEW n \in Node, Waves(n) PROVE pass' = <<>>
  <2>1. \A e, c, b : RecordUsage(n, e, c, b) => n \in Out(graph) /\ Quiet
    BY DEF RecordUsage, OutIn
  <2>2. StrandReads(n) \/ DropRead(n) \/ RecordWriterWorktree(n) => n \in Out(graph) /\ Quiet
    BY DEF StrandReads, DropRead, RecordWriterWorktree, OutIn
  <2>3. \A t, s : FinishRead(n, t, s) => n \in Out(graph) /\ Quiet
    BY DEF FinishRead, OutIn
  <2>4. \A t, s, c, v, x : FinishWriter(n, t, s, c, v, x) => n \in Out(graph) /\ Quiet
    BY DEF FinishWriter, OutIn
  <2> QED BY <1>10, <1>11, <2>1, <2>2, <2>3, <2>4 DEF Waves
<1>12. CASE RefuseWave
  <2>1. PICK n \in OutIn("isolated_write") : TRUE
    BY <1>12 DEF RefuseWave
  <2> QED BY <1>2, <1>10, <1>12, <2>1 DEF RefuseWave, OutIn
<1>13. CASE User /\ ~RequestPause /\ ~Cancel
  <2>1. pass' = <<>>
    BY <1>13 DEF User, Resume, ExtendBudget, ReconcileWorktrees, RetryNode, DiscardWorktree,
          IntegrateCandidate, AcceptIntegratedNodes, Boundary, Quiet
  <2> QED BY <1>2, <2>1
<1>14. CASE Crash \/ \E p \in Plan : Revise(p)
  <2>1. pass' = <<>>
    BY <1>14 DEF Crash, Revise, Boundary, Quiet
  <2> QED BY <1>2, <2>1
<1>15. CASE \E t \in Observed : ResumeSaved(t)
  <2>1. ~up /\ pass' = pass
    BY <1>15 DEF ResumeSaved
  <2> QED BY <1>2, <2>1 DEF SInv, Passing
<1>16. CASE ExternalEdit \/ UNCHANGED vars
  BY <1>3, <1>16 DEF ExternalEdit, vars
<1> QED BY <1>2, <1>5, <1>6, <1>7, <1>8, <1>9, <1>11, <1>12, <1>13, <1>14, <1>15, <1>16 DEF Next

(* A pass that finds no ready node finds an outcome: of the nodes not done, one *)
(* depends on none of the others, and it would have been readied or exhausted. *)
LEMMA PassFindsWork ==
    ASSUME SInv, Steady, Poised PROVE SchedulerFindsWork
<1> SUFFICES ASSUME up, pass # <<>>, Schedulable(graph), Ready(graph, "isolated_write") = {},
                    Ready(Noticed(graph, pass[1]), "primary") = {},
                    Verdict(Noticed(graph, pass[1])) = "none"
             PROVE  FALSE
  BY DEF SchedulerFindsWork
<1> DEFINE t == pass[1]
           h == Noticed(graph, t)
           left == {n \in graph.plan.nodes : graph.state[n] # "done"}
<1>1. /\ Sound(graph) /\ graph \in Snapshot /\ graph.plan.nodes \subseteq Node
      /\ graph.plan \in Plan /\ graph.outcome = "none" /\ t \in Observation
      /\ ~HasRunningAttempt(graph)
  <2>1. graph \in Snapshot /\ Books(graph) /\ pass \in {<<>>} \cup {<<o>> : o \in Observation}
    BY DEF SInv, IInv, TypeOK
  <2>2. t \in Observation
    BY <2>1
  <2>3. graph.plan \in Plan
    BY <2>1 DEF Snapshot
  <2> QED BY <2>1, <2>2, <2>3, PlanNodes DEF Sound, Schedulable
<1>2. /\ h.plan = graph.plan /\ h.state = graph.state
      /\ Ready(graph, "primary") # {} \/ Ready(graph, "read_only") = {}
  BY <1>1, CalmNoticed DEF Calm, Poised
<1>3. \A e : Ready(h, e) = Ready(graph, e)
  BY <1>2 DEF Ready, InLane, InState
<1>4. Ready(graph, "primary") = {} /\ Ready(graph, "read_only") = {}
  BY <1>2, <1>3
<1>5. \A n \in graph.plan.nodes : graph.state[n] # "ready"
  <2>1. graph.plan.exec \in [Node -> Executions]
    BY <1>1, PlanAssumption
  <2> QED BY <1>1, <1>4, <2>1 DEF Executions, Ready, InLane, InState
<1>6. \A n \in graph.plan.nodes : graph.state[n] # "running"
  BY <1>1, IdleRunsNothing
<1>7. /\ left # {}
      /\ \A n \in graph.plan.nodes :
            graph.state[n] \notin {"blocked", "budget_exhausted", "integrated", "awaiting_review"}
  <2>1. \A s : InState(h, s) = {n \in graph.plan.nodes : graph.state[n] = s}
    BY <1>2 DEF InState
  <2>2. InState(h, "running") = {}
    BY <1>6, <2>1
  <2>3. /\ ~\A n \in h.plan.nodes : h.state[n] = "done"
        /\ InState(h, "blocked") = {} /\ InState(h, "budget_exhausted") = {}
        /\ InState(h, "integrated") = {} /\ InState(h, "awaiting_review") = {}
    <3> HIDE DEF h
    <3> QED BY <2>2 DEF Verdict, h
  <2> QED BY <1>2, <2>1, <2>3
<1>8. \A n \in graph.plan.nodes : graph.state[n] \notin {"absent", "cancelled"}
  BY <1>1 DEF Steady, Reachable
<1>9. \A n \in left : graph.state[n] \in {"proposed", "retryable", "stale"}
  <2>1. \A n \in left : graph.state[n] \in NodeStates
    BY <1>1 DEF Snapshot
  <2> QED BY <1>5, <1>6, <1>7, <1>8, <2>1 DEF NodeStates
<1>10. PICK n \in left : graph.plan.deps[n] \cap left = {}
  <2>1. left \in SUBSET graph.plan.nodes
    OBVIOUS
  <2>2. Acyclic(graph.plan)
    BY <1>1, PlanAssumption
  <2> HIDE DEF left
  <2> QED BY <1>7, <2>1, <2>2 DEF Acyclic
<1>11. DependenciesDone(graph, n)
  <2>1. graph.plan.deps[n] \subseteq graph.plan.nodes
    BY <1>1, PlanAssumption
  <2> QED BY <1>10, <2>1 DEF DependenciesDone
<1>12. h.state[n] \in {"ready", "budget_exhausted"}
  <2> DEFINE d == IF Differs(graph, t) THEN AllDoneStale(graph) ELSE graph
             x == IF d.token = NoToken THEN t ELSE d.token
             c == [d EXCEPT !.token = x]
  <2>1. h = Refreshed(c)
    BY DEF Noticed
  <2>2. d \in Snapshot /\ d.plan = graph.plan
    BY <1>1, AllDoneStaleType, CalmAllDoneStale DEF Calm
  <2> HIDE DEF h, d, x
  <2>3. c \in Snapshot /\ c.plan = graph.plan
    BY <1>1, <2>2 DEF Snapshot, x
  <2> HIDE DEF c
  <2>4. Calm(c, h) /\ n \in Node /\ n \in c.plan.nodes
    BY <1>1, <2>1, <2>3, CalmRefreshed
  <2>5. DependenciesDone(c, n)
    <3>1. graph.plan.deps[n] \subseteq Node
      BY <1>1, PlanAssumption
    <3> QED BY <1>2, <1>11, <2>3, <2>4, <3>1 DEF DependenciesDone, Calm
  <2>6. h.state[n] = IF c.state[n] \in {"proposed", "retryable", "stale"}
                     THEN IF c.used[n] < c.cap THEN "ready" ELSE "budget_exhausted"
                     ELSE c.state[n]
    BY <2>1, <2>3, <2>4, <2>5 DEF Refreshed, Snapshot
  <2> QED BY <1>2, <1>9, <1>10, <2>6
<1> QED BY <1>2, <1>5, <1>7, <1>10, <1>12

LEMMA InitSteady == ASSUME Init PROVE Steady /\ Poised
<1> DEFINE s == [n \in Node |-> IF n \in FirstPlan.nodes THEN "proposed" ELSE "absent"]
           g == [plan |-> FirstPlan, generation |-> 1, state |-> s,
        active |-> [n \in Node |-> 0], accepted |-> [n \in Node |-> 0],
        used |-> [n \in Node |-> 0], attempts |-> [n \in Node |-> <<>>],
        outcome |-> "none", pause |-> "off", clock |-> TRUE,
        token |-> NoToken, mutation |-> 0, spent |-> 0, limit |-> Envelope,
        cap |-> Attempts, extensions |-> 0, starts |-> [e \in Workers |-> 0],
        maxStarts |-> Starts, retired |-> {}, waived |-> {}]
<1>1. graph = Refreshed(g) /\ disk = graph /\ pass = <<>>
  BY DEF Init, InitialGraph
<1>2. DOMAIN s = Node /\ \A n \in Node : /\ s[n] # "cancelled"
                                         /\ n \in FirstPlan.nodes => s[n] # "absent"
  OBVIOUS
<1> HIDE DEF s
<1>3. g.plan = FirstPlan /\ g.state = s /\ {"plan", "state", "outcome"} \subseteq DOMAIN g
  OBVIOUS
<1> HIDE DEF g
<1>4. Shaped(g) /\ Reachable(g) /\ g.plan.nodes \subseteq Node
  BY <1>2, <1>3, PlanAssumption DEF Shaped, Reachable
<1>5. Reachable(Refreshed(g))
  BY <1>4, GoesRefreshed, GoesReachable
<1> QED BY <1>1, <1>5 DEF Steady, Poised

-----------------------------------------------------------------------------
(* The theorems.                                                            *)

(* The strengthened invariant holds in every reachable state.                 *)
THEOREM StepsSettle == Spec => []SInv
<1>1. Init => SInv
  BY InitSettles
<1>2. SInv /\ [Next]_vars => SInv'
  BY NextPromises
<1> QED BY <1>1, <1>2, PTL DEF Spec

(* Two writers that run together never may change the same paths, whatever    *)
(* retries, revisions and restarts led to the wave.                          *)
THEOREM WritersStayDisjoint == Spec => []WritersDisjoint
<1>1. SInv => WritersDisjoint
  BY DEF SInv, Settles, Disjoint, WritersDisjoint
<1> QED BY <1>1, StepsSettle, PTL

(* No earlier result counts as done beside a published, unchecked candidate.  *)
THEOREM UnverifiedStaysAlone == Spec => []UnverifiedStandsAlone
<1>1. SInv => UnverifiedStandsAlone
  BY DEF SInv, Settles, Alone, Apart, UnverifiedStandsAlone
<1> QED BY <1>1, StepsSettle, PTL

(* Whatever a node is done by was checked: no open failure, a check after its  *)
(* last change on another workspace than it began from, and for a writer a     *)
(* check of the combination or the user's waiver.                            *)
THEOREM DoneIsAlwaysVerified == Spec => []DoneIsVerified
<1>1. ASSUME SInv PROVE DoneIsVerified
  <2> SUFFICES ASSUME NEW n \in InState(graph, "done")
               PROVE  LET a == graph.attempts[n][graph.accepted[n]]
                      IN  /\ a.state = "accepted" /\ a.failures = {}
                          /\ a.mutated => \E p \in a.proofs :
                                p[1] = a.mutation /\ p[2] # NoToken /\ (a.wrote => p[2] # a.base)
                          /\ graph.plan.exec[n] = "isolated_write" =>
                                n \in graph.waived \/ a.proofs # {}
    BY DEF DoneIsVerified
  <2>1. n \in Node /\ n \in graph.plan.nodes /\ graph.state[n] = "done"
    BY <1>1, PlanNodes DEF SInv, IInv, TypeOK, InState
  <2>2. /\ graph.accepted[n] \in DOMAIN graph.attempts[n]
        /\ graph.attempts[n][graph.accepted[n]].state = "accepted"
    BY <1>1, <2>1 DEF SInv, IInv, Books, ResultsHeld
  <2>3. Earned(graph.attempts[n][graph.accepted[n]])
    BY <1>1, <2>1, <2>2 DEF SInv, Settles, Earnt
  <2>4. graph.plan.exec[n] = "isolated_write" => Vouches(graph, n)
    BY <1>1, <2>1 DEF SInv, Settles, Vouched, InState
  <2> QED BY <2>2, <2>3, <2>4 DEF Earned, Checked, Vouches
<1> QED BY <1>1, StepsSettle, PTL

(* An action or a writer that may have acted unrecorded when the process       *)
(* stopped is never attempted again: its node stays stopped on record, however *)
(* often the graph is restarted, retried, extended or integrated into.         *)
THEOREM NothingIsReplayed == Spec => []NoReplay
<1>1. Init => SInv /\ Doubt
  BY InitSettles DEF Init, Doubt
<1>2. (SInv /\ Doubt) /\ [Next]_vars => (SInv /\ Doubt)'
  BY NextPromises, NextDoubts
<1>3. SInv /\ Doubt => NoReplay
  BY DEF Doubt, Doubtful, Unclear, Stuck, Recorded, Lost, NoReplay
<1> QED BY <1>1, <1>2, <1>3, PTL DEF Spec

(* Every step of every behaviour keeps the promise.                           *)
THEOREM PromiseKept == Spec => [][Promise]_vars
<1>1. SInv /\ [Next]_vars => [Promise]_vars
  BY NextPromises
<1> QED BY <1>1, StepsSettle, PTL DEF Spec

(* Once the user, the budget or an outcome has stopped the graph, no step     *)
(* starts an attempt, however late in a scheduling pass the stop came.        *)
THEOREM StopAlwaysHolds == Spec => StopHolds
<1>1. [Promise]_vars =>
        [(\E n \in Node : NewAttempts(n)) =>
            /\ graph.outcome = "none" /\ graph.pause = "off"
            /\ ~HasRunningAttempt(graph) /\ graph.spent < graph.limit]_vars
  BY DEF Promise
<1> QED BY <1>1, PromiseKept, PTL DEF StopHolds

(* No step, crash or recovery takes an attempt off the ledger or changes the  *)
(* verdict of one that has ended.                                            *)
THEOREM FinishedAttemptsAlwaysKeep == Spec => FinishedAttemptsKeep
<1>1. [Promise]_vars =>
        [\A n \in Node : \A k \in AttemptsOf(n) :
            LET was == graph.attempts[n][k].state
            IN  /\ k \in DOMAIN graph'.attempts[n]
                /\ was # "running" =>
                    \/ graph'.attempts[n][k].state = was
                    \/ was = "candidate" /\ graph'.attempts[n][k].state = "accepted"]_vars
  BY DEF Promise, Keeps, AttemptsOf
<1> QED BY <1>1, PromiseKept, PTL DEF FinishedAttemptsKeep

(* Only integration takes a verified candidate out of review.                 *)
THEOREM CandidatesAlwaysKept == Spec => CandidateKept
<1>1. [Promise]_vars =>
        [\A n \in InState(graph, "awaiting_review") :
            graph'.state[n] \in {"awaiting_review", "integrated"}]_vars
  BY DEF Promise
<1> QED BY <1>1, PromiseKept, PTL DEF CandidateKept

(* No step, crash or recovery forgets a worktree the runtime created.         *)
THEOREM TreesAlwaysRemembered == Spec => TreesRemembered
<1>1. [Promise]_vars =>
        [\A n \in Node : \A k \in AttemptsOf(n) :
            LET a == graph.attempts[n][k]
                b == graph'.attempts[n][k]
            IN  a.tree # "none" =>
                /\ b.tree = "none" => a.worker = "out" /\ b.worker = "back"
                /\ b.tree = "discarded" => a.tree \in {"seen", "discarded"}]_vars
  BY DEF Promise, Keeps, AttemptsOf
<1> QED BY <1>1, PromiseKept, PTL DEF TreesRemembered

(* A pass never comes to StartNext with nothing to start, nothing running and *)
(* no outcome to reduce to (ErrNoReadyNode), whatever edits, revisions and     *)
(* restarts led to it, while the user leaves a cancelled graph alone.         *)
THEOREM SchedulerAlwaysFindsWork == Spec /\ [][LeftAlone]_vars => []SchedulerFindsWork
<1>1. Init => SInv /\ Steady /\ Poised
  BY InitSettles, InitSteady
<1>2. (SInv /\ Steady /\ Poised) /\ [Next]_vars /\ [LeftAlone]_vars
        => (SInv /\ Steady /\ Poised)'
  BY NextPromises, NextSteady, NextPoised
<1>3. SInv /\ Steady /\ Poised => SchedulerFindsWork
  BY PassFindsWork
<1> QED BY <1>1, <1>2, <1>3, PTL DEF Spec

(* Done and cancelled are final: no late result, budget, retry, extension,    *)
(* verification or restart takes them back, while the user leaves a cancelled *)
(* graph alone.                                                             *)
THEOREM TerminalAlwaysStays == Spec /\ [][LeftAlone]_vars => TerminalStays
<1>1. Init => SInv /\ Steady
  BY InitSettles, InitSteady
<1>2. (SInv /\ Steady) /\ [Next]_vars /\ [LeftAlone]_vars => (SInv /\ Steady)'
  BY NextPromises, NextSteady
<1>3. (SInv /\ Steady) /\ [Next]_vars /\ [LeftAlone]_vars
        => [graph.outcome \in {"done", "cancelled"} => graph'.outcome = graph.outcome]_vars
  BY NextSteady DEF Final
<1> QED BY <1>1, <1>2, <1>3, PTL DEF Spec, TerminalStays
=============================================================================
