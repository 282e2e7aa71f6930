----------------------------- MODULE GoalGraph -----------------------------
(***************************************************************************)
(* The Orchestrated Goal runtime: one action per public operation of        *)
(* goalgraph.Graph, guarded by the callers that sequence them (agent loop,   *)
(* read and writer waves, the application's /orchestrate commands).         *)
(*                                                                          *)
(* Every operation runs under the graph's mutex, so it is one step.  Between *)
(* two steps the user may cancel or pause, the workspace may be edited, and  *)
(* the process may stop.                                                    *)
(***************************************************************************)
EXTENDS GoalGraphState

CONSTANTS
    Environment,   \* which of EnvironmentEvents may happen
    ToolKinds,     \* kinds of tools the model calls
    FailureKinds,  \* classes of failure its tools and requests meet
    Costs,         \* what a worker may spend of the envelope
    MaxMutation,   \* bound: actions that may change the workspace
    MaxExtensions  \* bound: envelopes the user grants

EnvironmentEvents == {"edit", "blind", "crash", "cancel", "pause", "retry",
                      "extend", "integrate", "revise", "reconcile", "exhaust",
                      "cache"}

ASSUME EnvironmentAssumption ==
    /\ Environment \subseteq EnvironmentEvents
    /\ ToolKinds \subseteq Kinds
    /\ FailureKinds \subseteq {"plain", "retryable", "policy"}
    /\ Costs \subseteq Nat \ {0} /\ Costs # {}
    /\ MaxMutation \in Nat /\ MaxExtensions \in Nat

VARIABLES
    graph,    \* the attached graph's state, as the process holds it
    disk,     \* the last snapshot that survives a crash
    world,    \* the workspace as a token observation would show it
    up,       \* the process runs and the graph is attached
    pass,     \* <<token>> while a scheduling pass uses the token it observed
    inDoubt   \* history: attempts that may have acted unrecorded at a crash

vars == <<graph, disk, world, up, pass, inDoubt>>

TypeOK ==
    /\ graph \in Snapshot /\ disk \in Snapshot
    /\ world \in Token /\ up \in BOOLEAN
    /\ pass \in {<<>>} \cup {<<t>> : t \in Observation}
    /\ inDoubt \subseteq Node \X Nat

-----------------------------------------------------------------------------
(* Persistence and observation.                                             *)

(* A durable record is flushed before the call returns; any other record may *)
(* or may not survive a crash; a few calls change the graph and save nothing.*)
Commit(h) == graph' = h /\ disk' = h
Note(h) == graph' = h /\ disk' \in (IF "crash" \in Environment THEN {disk, h} ELSE {h})
Unsaved(h) == graph' = h /\ UNCHANGED disk

LoggedLater(kind, h) == Note(h)   \* mutant of Logged
(* The write-ahead record of an action that could not be replayed is durable. *)
Logged(kind, h) == IF kind \in NonReplayable THEN Commit(h) ELSE Note(h)

Observed == {world} \cup (IF "blind" \in Environment THEN {NoToken} ELSE {})

Out(h) == {n \in h.plan.nodes : h.attempts[n] # <<>> /\ Last(h, n).worker = "out"}
OutIn(e) == {n \in Out(graph) : graph.plan.exec[n] = e}

(* No iteration, tool, worker or scheduling pass of the agent is in flight.  *)
Boundary == up /\ pass = <<>> /\ ~HasPendingAction(graph) /\ Out(graph) = {}

SchedulableWhilePaused(h) ==   \* mutant of Schedulable
    h.outcome = "none" /\ ~HasRunningAttempt(h)
Schedulable(h) == h.outcome = "none" /\ h.pause = "off" /\ ~HasRunningAttempt(h)

(* The primary lane works on node n.                                         *)
Working(n) ==
    /\ up /\ pass = <<>> /\ graph.pause # "reached"
    /\ n \in Running(graph, "primary")

Env(name) == name \in Environment
Still == UNCHANGED <<world, up, inDoubt>>
Quiet == Still /\ UNCHANGED pass

-----------------------------------------------------------------------------
(* Scheduling: ensureGoalAttempt.                                           *)

EnforceAggregateBudget ==
    /\ Boundary /\ graph.outcome = "none" /\ Over(graph, TRUE)
    /\ Commit(Exhausted(graph)) /\ Quiet

(* c workers still fit lane e, its starts and the envelope.                  *)
Fits(h, e, c) ==
    /\ c <= Lane[e]
    /\ h.starts[e] + c <= h.maxStarts[e]
    /\ h.spent + c <= h.limit

OverlapIgnored(h, m, n) == FALSE   \* mutant of Overlap
Overlap(h, m, n) == h.plan.scope[m] \cap h.plan.scope[n] # {}

(* The wave one call claims: ready nodes in plan order, skipping a node whose *)
(* write scope overlaps one already taken, until no more fit.                *)
IsWave(h, e, wave) ==
    /\ Fits(h, e, Cardinality(wave))
    /\ \A m, n \in wave : m # n => ~Overlap(h, m, n)
    /\ \A n \in Ready(h, e) \ wave :
        LET taken == {m \in wave : m < n}
        IN  ~Fits(h, e, Cardinality(taken) + 1) \/ \E m \in taken : Overlap(h, m, n)

Claim(h, e, token) ==
    /\ \E wave \in SUBSET Ready(h, e) :
        IsWave(h, e, wave) /\ Commit(Started(h, wave, token, e))
    /\ pass' = <<>>

(* exhaustReadyReadLocked, exhaustReadyWriterLocked                          *)
ExhaustReady(h, e) ==
    /\ Commit(Terminated([h EXCEPT !.state[First(Ready(h, e))] = "budget_exhausted"],
                         "budget_exhausted"))
    /\ pass' = <<>>

StartReadyReads(token) ==
    LET h == Noticed(graph, token)
        deferred == Ready(h, "primary") # {} \/ Ready(h, "read_only") = {}
    IN  /\ Boundary /\ Schedulable(graph) /\ ~Over(graph, TRUE)
        /\ \/ deferred /\ Unsaved(h) /\ pass' = <<token>>
           \/ ~deferred /\ ~Fits(h, "read_only", 1) /\ ExhaustReady(h, "read_only")
           \/ ~deferred /\ Fits(h, "read_only", 1) /\ Claim(h, "read_only", token)
        /\ Still

(* The pass goes on while the user has not stopped the graph.                *)
InPass == up /\ pass # <<>> /\ Schedulable(graph)

StartReadyWriters(token, clean) ==
    LET h == Noticed(graph, token)
        first == First(Ready(h, "isolated_write"))
    IN  /\ InPass /\ Ready(graph, "isolated_write") # {}
        /\ \/ /\ ~clean \/ token = NoToken
              /\ Commit(Reduced([h EXCEPT !.state[first] = "blocked"]))
              /\ pass' = <<>>
           \/ /\ clean /\ token # NoToken /\ ~Fits(h, "isolated_write", 1)
              /\ ExhaustReady(h, "isolated_write")
           \/ /\ clean /\ token # NoToken /\ Fits(h, "isolated_write", 1)
              /\ Claim(h, "isolated_write", token)
        /\ Still

StartNext ==
    LET token == pass[1]
        h == Noticed(graph, token)
    IN  /\ InPass /\ Ready(graph, "isolated_write") = {}
        /\ \/ /\ Ready(h, "primary") # {}
              /\ Commit(Started(h, {First(Ready(h, "primary"))}, token, "primary"))
           \/ /\ Ready(h, "primary") = {} /\ Reduced(h).outcome # "none"
              /\ Commit(Reduced(h))
        /\ pass' = <<>> /\ Still

(* The pass finds the graph ended or paused behind its back and stops.       *)
AbandonPass ==
    /\ up /\ pass # <<>> /\ ~Schedulable(graph)
    /\ pass' = <<>> /\ Still /\ UNCHANGED <<graph, disk>>

-----------------------------------------------------------------------------
(* The primary lane.                                                        *)

Attempted(n, a) == [graph EXCEPT !.attempts[n][graph.active[n]] = a]
Idling(n) == Working(n) /\ Last(graph, n).pending = NoAction

RecordPrimaryUsageFree(n) ==   \* mutant of RecordPrimaryUsage
    /\ Idling(n)
    /\ IF Over(graph, FALSE) THEN Commit(Exhausted(graph)) ELSE Note(graph)
    /\ Quiet

(* One provider iteration; crossing the limit, not reaching it, exhausts.    *)
RecordPrimaryUsage(n) ==
    LET h == [graph EXCEPT !.spent = @ + 1]
    IN  /\ Idling(n)
        /\ IF Over(h, FALSE) THEN Commit(Exhausted(h)) ELSE Note(h)
        /\ Quiet

(* The write-ahead record of an action.  An action that may mutate needs a   *)
(* base token; without one the refusal is recorded as a failure.             *)
BeginTool(n, kind, token) ==
    LET a == Last(graph, n)
        mutating == kind \in Mutating
        pending == [kind |-> kind, mutation |-> a.mutation,
                    base |-> IF mutating THEN token ELSE NoToken]
        h == [Attempted(n, [a EXCEPT
                 !.pending = pending,
                 !.mutation = IF mutating THEN graph.mutation + 1 ELSE @,
                 !.mutated = @ \/ mutating,
                 !.wrote = @ \/ kind = "write"])
              EXCEPT !.mutation = IF mutating THEN @ + 1 ELSE @]
    IN  /\ Idling(n)
        /\ mutating => graph.mutation < MaxMutation
        /\ IF mutating /\ token = NoToken
           THEN Commit(Attempted(n, [a EXCEPT !.failures = @ \cup {"policy"}]))
           ELSE Logged(kind, h)
        /\ Quiet

(* The action returns, having left the workspace at w.  An unchanged token   *)
(* gives the attempt its earlier mutation generation back; a success         *)
(* resolves failures of the same tool or risk; a verification is evidence    *)
(* about the observed token.                                                 *)
FinishTool(n, w, token, result) ==
    LET a == Last(graph, n)
        p == a.pending
        mutating == p.kind \in Mutating
        generation == IF mutating /\ token # NoToken /\ token = p.base
                      THEN p.mutation ELSE a.mutation
        done == [a EXCEPT !.pending = NoAction, !.mutation = generation]
        proof == IF result.verifies THEN {<<generation, token>>} ELSE {}
        h == [Attempted(n, IF result.failed
                THEN [done EXCEPT !.failures = @ \cup {result.failure}]
                ELSE [done EXCEPT !.worked = TRUE,
                                  !.failures = @ \ result.resolves,
                                  !.proofs = @ \cup proof])
              EXCEPT !.token = IF mutating /\ token # NoToken THEN token ELSE @]
    IN  /\ Working(n) /\ p # NoAction
        /\ IF mutating THEN token \in {w} \cup (Observed \ {world})
                       ELSE w = world /\ token = NoToken
        /\ result.verifies => p.kind = "execute"
        /\ world' = w
        /\ Logged(p.kind, h)
        /\ UNCHANGED <<up, pass, inDoubt>>

Failed(f) == [failed |-> TRUE, failure |-> f, resolves |-> {}, verifies |-> FALSE]
Passed(fs, v) == [failed |-> FALSE, failure |-> "plain", resolves |-> fs, verifies |-> v]

(* Only a failure that names a tool can be resolved by a later success.      *)
ToolResults ==
    {Failed(f) : f \in FailureKinds \ {"policy"}}
    \cup {Passed(fs, v) : fs \in {{}, FailureKinds}, v \in BOOLEAN}

(* A permission denial, a schema or hook refusal, a provider failure.        *)
RecordFailure(n, f) ==
    /\ Idling(n)
    /\ Commit(Attempted(n, [Last(graph, n) EXCEPT !.failures = @ \cup {f}]))
    /\ Quiet

GapIgnoringChanges(a, token) ==   \* mutant of Gap
    ~a.worked \/ (a.mutated /\ (token = NoToken \/ a.proofs = {}))

(* What still separates an attempt without failures from acceptance.         *)
Gap(a, token) ==
    \/ ~a.worked
    \/ a.mutated /\ (\/ token = NoToken
                     \/ a.wrote /\ a.base = token
                     \/ <<a.mutation, token>> \notin a.proofs)

MayNudge(a) == a.nudges < 2

Accepted(n, a, token) ==
    LET h == [Settled(graph, n, [a EXCEPT !.state = "accepted"], "done")
              EXCEPT !.token = IF token # NoToken THEN token ELSE @]
    IN  Reduced(Refreshed(IF a.mutated THEN UnconsumedStale(h, n) ELSE h))

(* A tool-free response proposes the node complete: blocked, retried with a   *)
(* fresh attempt, deferred with a nudge, or accepted.                        *)
ProposeCompletion(n, token) ==
    LET last == Last(graph, n)
        a == [last EXCEPT !.failures =
                IF Differs(graph, token) THEN @ \cup {"drift"} ELSE @]
        retry == a.failures \subseteq Recoverable /\ graph.used[n] < graph.cap
        gap == Gap(a, token)
    IN  /\ Idling(n)
        /\ \/ /\ a.failures # {} /\ retry
              /\ Commit(Refreshed(Settled(graph, n,
                            [a EXCEPT !.state = "retryable"], "retryable")))
           \/ /\ a.failures # {} /\ ~retry
              /\ Commit(BlockedBy(graph, n, a))
           \/ /\ a.failures = {} /\ gap /\ MayNudge(a)
              /\ Note(Attempted(n, [a EXCEPT !.nudges = @ + 1]))
           \/ /\ a.failures = {} /\ gap /\ ~MayNudge(a)
              /\ Commit(BlockedBy(graph, n, [a EXCEPT !.nudges = @ + 1]))
           \/ /\ a.failures = {} /\ ~gap
              /\ Commit(Accepted(n, a, token))
        /\ Quiet

(* The model's block tool, and the controller's verdict on a stalled gap.    *)
BlockActive(n) ==
    /\ Idling(n)
    /\ Commit(BlockedBy(graph, n, Last(graph, n)))
    /\ Quiet

(* The model made no progress, or its responses stay truncated.              *)
ExhaustBudget(n) ==
    /\ Env("exhaust") /\ Idling(n)
    /\ Commit(Exhausted(graph))
    /\ Quiet

Revised(p) ==
    LET old == graph.plan.nodes
        kept == {n \in p.nodes : SameDefinition(graph.plan, p, n)
                                 /\ graph.state[n] = "done"}
        fresh == {n \in kept : Upstream(p, n) \subseteq kept}
    IN  Refreshed([graph EXCEPT
            !.plan = p,
            !.generation = @ + 1,
            !.attempts = RunningEnded(graph, "failed"),
            !.state = [n \in Node |-> IF n \notin p.nodes THEN "absent"
                                      ELSE IF n \in fresh THEN "done"
                                      ELSE IF n \in kept THEN "stale" ELSE "proposed"],
            !.active = [n \in Node |-> 0],
            !.accepted = [n \in Node |-> IF n \in fresh THEN @[n] ELSE 0],
            !.used = [n \in Node |-> IF n \in p.nodes \cap old THEN @[n] ELSE 0],
            !.retired = @ \cup {n \in old \ p.nodes : graph.state[n] # "done"}])

(* The model's revision tool, inside an iteration of the primary lane.       *)
Revise(p) ==
    /\ Env("revise") /\ Boundary /\ Running(graph, "primary") # {}
    /\ graph.outcome = "none" /\ graph.pause # "reached"
    /\ graph.generation <= MaxRevisions
    /\ Commit(Revised(p))
    /\ Quiet

-----------------------------------------------------------------------------
(* Worker waves: runGoalReadFanout and runGoalWriteFanout.                  *)

(* A worker's last attempt becomes a, charging its usage at most once.       *)
Charged(h, n, a, cost) ==
    [h EXCEPT !.attempts[n][Len(h.attempts[n])] = [a EXCEPT !.billed = TRUE],
              !.spent = IF Last(h, n).billed THEN @ ELSE @ + cost]

(* RecordReadUsage and RecordWriterUsage: once every worker is back, each is  *)
(* charged before any result is read; a wave that overran the envelope is     *)
(* still charged in full.                                                    *)
RecordUsage(n, e, cost, cached) ==
    LET a == Last(graph, n)
        h == Charged(graph, n, [a EXCEPT !.cached = cached], cost)
    IN  /\ cached => Env("cache") /\ e = "read_only"
        /\ up /\ n \in OutIn(e) /\ ~a.billed
        /\ \/ graph.outcome = "none" /\ a.state = "running"
              /\ IF Over(h, FALSE) THEN Commit(Exhausted(h)) ELSE Note(h)
           \/ graph.outcome = "budget_exhausted" /\ a.state = "budget_exhausted"
              /\ Note(h)
        /\ Quiet

Tallied(e) == \A n \in OutIn(e) : Last(graph, n).billed
Back(h, n) == [h EXCEPT !.attempts[n][Len(h.attempts[n])].worker = "back"]

(* FinishRead charges the same usage again and demands that it agrees; what  *)
(* RecordReadUsage kept lacks the cached tokens, so a result that has some is *)
(* refused, and with it the rest of the wave: their attempts stay running.    *)
StrandReads(n) ==
    /\ up /\ n \in OutIn("read_only") /\ graph.outcome = "none"
    /\ Tallied("read_only") /\ Last(graph, n).cached
    /\ Unsaved([graph EXCEPT !.attempts = [m \in Node |->
           IF m \in OutIn("read_only") THEN Back(graph, m).attempts[m] ELSE @[m]]])
    /\ Quiet

(* A result that claims completion is accepted only if the workspace the      *)
(* worker was claimed against is still there.                                *)
FinishRead(n, token, status) ==
    LET a == [Last(graph, n) EXCEPT !.worker = "back"]
        fresh == a.base = NoToken \/ a.base = token
        to(s, state) == Settled(graph, n, [a EXCEPT !.state = s], state)
    IN  /\ up /\ n \in OutIn("read_only") /\ graph.outcome = "none"
        /\ Tallied("read_only") /\ ~a.cached
        /\ \/ /\ status = "done" /\ fresh
              /\ Commit(Reduced(Refreshed(to("accepted", "done"))))
           \/ /\ status = "error" \/ (status = "done" /\ ~fresh)
              /\ Commit(Reduced(IF graph.used[n] < graph.cap
                                THEN Refreshed(to("retryable", "retryable"))
                                ELSE to("blocked", "blocked")))
           \/ /\ status = "budget_exhausted"
              /\ Commit(Reduced(to("budget_exhausted", "budget_exhausted")))
           \/ /\ status = "cancelled"
              /\ Commit(Reduced(to("cancelled", "blocked")))
        /\ Quiet

(* The graph ended while the wave was out: usage is kept only under an        *)
(* exhausted budget, and the results are dropped.                            *)
DropRead(n) ==
    /\ up /\ n \in OutIn("read_only") /\ graph.outcome # "none"
    /\ graph.outcome = "budget_exhausted" => Tallied("read_only")
    /\ Unsaved(Back(graph, n))
    /\ Quiet

RecordWriterWorktreeLazily(n) ==   \* mutant of RecordWriterWorktree
    /\ up /\ n \in OutIn("isolated_write")
    /\ Last(graph, n).state = "running" /\ Last(graph, n).tree = "none"
    /\ ~Last(graph, n).billed
    /\ Note([graph EXCEPT !.attempts[n][graph.active[n]].tree = "kept"])
    /\ Quiet

(* OnWorktree: a writer's worktree is recorded before the writer runs in it.  *)
RecordWriterWorktree(n) ==
    /\ up /\ n \in OutIn("isolated_write")
    /\ Last(graph, n).state = "running" /\ Last(graph, n).tree = "none"
    /\ ~Last(graph, n).billed
    /\ Commit([graph EXCEPT !.attempts[n][graph.active[n]].tree = "kept"])
    /\ Quiet

(* The wave is refused before it is dispatched: its permission is denied, or  *)
(* the parent workspace is no longer the one it was claimed against.          *)
RefuseWave ==
    LET wave == OutIn("isolated_write")
        ended(n) == [Last(graph, n) EXCEPT !.state = "blocked",
                                           !.billed = TRUE, !.worker = "back"]
        h == [graph EXCEPT
                !.attempts = [n \in Node |->
                    IF n \in wave THEN [@[n] EXCEPT ![Len(graph.attempts[n])] = ended(n)]
                    ELSE @[n]],
                !.state = [n \in Node |-> IF n \in wave THEN "blocked" ELSE @[n]],
                !.active = [n \in Node |-> IF n \in wave THEN 0 ELSE @[n]]]
    IN  /\ up /\ wave # {} /\ graph.outcome = "none"
        /\ \A n \in wave : ~Last(graph, n).billed /\ Last(graph, n).tree = "none"
        /\ Commit(Reduced(h))
        /\ Quiet

(* A writer's result.  What it left on disk is recorded whatever the graph    *)
(* became meanwhile; only a running attempt moves its node, to review and     *)
(* never to done.                                                            *)
FinishWriter(n, token, status, changed, verified, cost) ==
    LET last == Last(graph, n)
        a == [last EXCEPT !.worker = "back", !.candidate = changed,
                          !.tree = IF changed THEN "kept" ELSE "none"]
        h == Charged(graph, n, a, cost)
        valid == status = "done" /\ changed /\ verified /\ token = last.base
        to(s, state) ==
            Reduced(Settled(h, n, [a EXCEPT !.billed = TRUE, !.state = s], state))
    IN  /\ up /\ n \in OutIn("isolated_write")
        /\ changed => last.tree # "none"
        /\ \/ /\ graph.outcome \in {"budget_exhausted", "cancelled"}
              /\ graph.outcome = "budget_exhausted" => Tallied("isolated_write")
              /\ Commit(h)
           \/ /\ graph.outcome = "none" /\ Tallied("isolated_write")
              /\ \/ valid /\ Commit(to("candidate", "awaiting_review"))
                 \/ ~valid /\ status = "budget_exhausted"
                    /\ Commit(to("budget_exhausted", "budget_exhausted"))
                 \/ ~valid /\ status # "budget_exhausted"
                    /\ Commit(to(IF status = "cancelled" THEN "cancelled"
                                 ELSE "blocked", "blocked"))
        /\ Quiet

-----------------------------------------------------------------------------
(* The user's commands.  All but pause and cancel wait for a boundary.       *)

(* A terminal graph runs again.                                              *)
Reopened(h) == [h EXCEPT !.outcome = "none", !.clock = TRUE]

RequestPause ==
    LET reached == ~HasRunningAttempt(graph)
    IN  /\ Env("pause") /\ up /\ graph.outcome = "none" /\ graph.pause = "off"
        /\ Commit([graph EXCEPT !.pause = IF reached THEN "reached" ELSE "requested",
                                !.clock = @ /\ ~reached])
        /\ Quiet

ReachPause ==
    /\ Boundary /\ graph.outcome = "none" /\ graph.pause = "requested"
    /\ Commit([graph EXCEPT !.pause = "reached", !.clock = FALSE])
    /\ Quiet

(* What the attempt did cannot be known, so it may not be done again.        *)
InDoubt(a) == a.pending.kind \in NonReplayable \/ "interrupted" \in a.failures

Resumed(h) == Enforced([h EXCEPT !.pause = "off", !.clock = TRUE], TRUE)
Activated(h) == Enforced([h EXCEPT !.clock = TRUE], TRUE)

Resume ==
    /\ Boundary /\ graph.outcome = "none" /\ graph.pause # "off"
    /\ Commit(Resumed(graph))
    /\ Quiet

(* Reopen one blocked node, unless what it did is in doubt.                  *)
RetryNode(n) ==
    LET h == Reopened(graph)
        a == Last(graph, n)
    IN  /\ Env("retry") /\ Boundary /\ graph.outcome = "blocked"
        /\ n \in InState(graph, "blocked")
        /\ graph.used[n] \in 1 .. graph.cap - 1
        /\ a.state \in {"blocked", "interrupted"}
        /\ ~InDoubt(a)
        /\ Commit(IF Over(h, TRUE) THEN Exhausted(h)
                  ELSE Reduced(Refreshed([h EXCEPT !.state[n] = "retryable"])))
        /\ Quiet

(* Cancel stops whatever runs, a tool in flight included.                    *)
Cancel ==
    /\ Env("cancel") /\ up /\ graph.outcome = "none"
    /\ Commit(Terminated(
          [graph EXCEPT
              !.attempts = RunningEnded(graph, "cancelled"),
              !.state = [n \in Node |->
                  IF graph.active[n] # 0 THEN "cancelled" ELSE @[n]],
              !.active = [n \in Node |-> 0]], "cancelled"))
    /\ Quiet

(* One more envelope for every node the budget stopped, all or nothing.       *)
Extended(h) ==
    Reduced(Refreshed([h EXCEPT
        !.extensions = @ + 1,
        !.limit = @ + Envelope,
        !.cap = @ + Attempts,
        !.maxStarts = [e \in Workers |-> @[e] + Starts[e]],
        !.state = [n \in Node |->
            IF n \in InState(h, "budget_exhausted") THEN "proposed" ELSE @[n]],
        !.outcome = "none"]))

InDoubtOrRetained(h, n) ==
    \E k \in Held(h, n) :
        InDoubt(h.attempts[n][k]) \/ h.attempts[n][k].tree \in {"kept", "seen"}

ExtendBudget ==
    LET stopped == InState(graph, "budget_exhausted")
        h == Extended(graph)
    IN  /\ Env("extend") /\ Boundary /\ graph.outcome = "budget_exhausted"
        /\ graph.extensions < MaxExtensions
        /\ stopped # {} /\ \A n \in stopped : ~InDoubtOrRetained(graph, n)
        /\ ValidSnapshot(h)
        /\ Commit(IF h.outcome = "none" THEN Activated(h) ELSE h)
        /\ Quiet

(* Publish n's whole candidate as workspace w: every accepted result was      *)
(* about another workspace, and this one is unverified.                      *)
IntegrateCandidate(n, w) ==
    LET k == LatestIn(graph, n, "candidate")
        stale == AllDoneStale(graph)
    IN  /\ Env("integrate") /\ Boundary
        /\ n \in InState(graph, "awaiting_review") /\ HeldIn(graph, n, "candidate") # {}
        /\ graph.attempts[n][k].worker = "back"
        /\ graph.attempts[n][k].tree # "discarded"
        /\ w # world /\ world' = w /\ graph.mutation < MaxMutation
        /\ Commit(Reduced([stale EXCEPT
              !.mutation = @ + 1,
              !.attempts[n][k] = [@ EXCEPT !.state = "accepted",
                                           !.mutation = graph.mutation + 1],
              !.token = w,
              !.state[n] = "integrated"]))
        /\ UNCHANGED <<up, pass, inDoubt>>

(* Every integrated node is done, on the evidence of a check of workspace w   *)
(* or of a waiver.                                                           *)
Combined(h, w, waived) ==
    LET pending == InState(h, "integrated")
        best(n) == LatestIn(h, n, "accepted")
    IN  [h EXCEPT
            !.outcome = "none",
            !.token = w,
            !.waived = IF waived THEN @ \cup pending ELSE @,
            !.accepted = [n \in Node |-> IF n \in pending THEN best(n) ELSE h.accepted[n]],
            !.attempts = [n \in Node |->
                IF n \in pending /\ ~waived
                THEN [h.attempts[n] EXCEPT ![best(n)].proofs = @ \cup {<<h.mutation, w>>}]
                ELSE h.attempts[n]],
            !.state = [n \in Node |-> IF n \in pending THEN "done" ELSE h.state[n]]]

(* The repository's checks pass on the combined workspace, or the user waives *)
(* them.                                                                     *)
AcceptIntegratedNodes(waived) ==
    /\ Boundary /\ InState(graph, "integrated") # {}
    /\ Commit(Reduced(Refreshed(Combined(graph, world, waived))))
    /\ Quiet

(* The retained trees of nodes ns go from one disposition to another.        *)
Disposed(ns, from, to) ==
    [graph EXCEPT !.attempts = [n \in Node |-> [k \in DOMAIN @[n] |->
        IF n \in ns /\ @[n][k].tree = from
        THEN [@[n][k] EXCEPT !.tree = to] ELSE @[n][k]]]]

(* Look at every retained tree, then let the user discard those of one node. *)
ReconcileWorktrees ==
    /\ Env("reconcile") /\ Boundary
    /\ Commit(Disposed(Node, "kept", "seen"))
    /\ Quiet

DiscardWorktree(n) ==
    /\ Env("reconcile") /\ Boundary
    /\ \A k \in DOMAIN graph.attempts[n] : graph.attempts[n][k].tree # "kept"
    /\ Commit(Disposed({n}, "seen", "discarded"))
    /\ Quiet

-----------------------------------------------------------------------------
(* Crash, restore and recovery.                                             *)

(* The process stops with node n's action or writer in flight.               *)
MayHaveActed(h, n) ==
    /\ h.active[n] # 0
    /\ \/ h.plan.exec[n] = "isolated_write"
       \/ Last(h, n).pending.kind \in NonReplayable

(* normalizeSnapshot: saved bytes never run a clock, and no worker of the     *)
(* stopped process comes back.                                               *)
Restored(h) ==
    [h EXCEPT !.clock = FALSE,
              !.attempts = [n \in Node |-> [k \in DOMAIN h.attempts[n] |->
                  [h.attempts[n][k] EXCEPT
                      !.worker = IF @ = "none" THEN @ ELSE "gone"]]]]

Crash ==
    /\ Env("crash") /\ up
    /\ up' = FALSE /\ pass' = <<>>
    /\ graph' = Restored(disk) /\ disk' = Restored(disk)
    /\ inDoubt' = inDoubt \cup
          {<<n, graph.active[n]>> : n \in {m \in Node : MayHaveActed(graph, m)}}
    /\ UNCHANGED world

NothingLostEver(h, token) ==   \* mutant of NothingLost
    (\A n \in Node : h.active[n] = 0) /\ ~Differs(h, token)
NothingLost(h, token) ==
    \/ h.outcome # "none"
    \/ (\A n \in Node : h.active[n] = 0) /\ ~Differs(h, token)

(* Recover: an interrupted attempt that may have acted blocks its node; one   *)
(* that only read may be tried again.                                        *)
Recovered(h, token) ==
    LET lost == {n \in Node : h.active[n] # 0}
        doubtful == {n \in lost : MayHaveActed(h, n)}
        ended(n) == [Last(h, n) EXCEPT
            !.state = "interrupted",
            !.failures = IF n \in doubtful THEN @ \cup {"interrupted"} ELSE @]
        r == [h EXCEPT
            !.attempts = [n \in Node |->
                IF n \in lost THEN [@[n] EXCEPT ![h.active[n]] = ended(n)] ELSE @[n]],
            !.state = [n \in Node |->
                IF n \in doubtful THEN "blocked"
                ELSE IF n \notin lost THEN @[n]
                ELSE IF h.used[n] < h.cap THEN "retryable" ELSE "budget_exhausted"],
            !.active = [n \in Node |-> 0]]
    IN  IF NothingLost(h, token) THEN h
        ELSE Reduced(Refreshed(IF Differs(h, token) THEN AllDoneStale(r) ELSE r))

(* The user resumes the session's saved graph: validate, recover, reattach.  *)
ResumeSaved(token) ==
    LET h == Recovered(graph, token)
    IN  /\ ~up /\ ValidSnapshot(graph)
        /\ up' = TRUE
        /\ Commit(IF h.outcome # "none" THEN h
                  ELSE IF h.pause # "off" THEN Resumed(h) ELSE Activated(h))
        /\ UNCHANGED <<world, pass, inDoubt>>

-----------------------------------------------------------------------------
ExternalEdit ==
    /\ Env("edit")
    /\ world' \in Token \ {world}
    /\ UNCHANGED <<graph, disk, up, pass, inDoubt>>

InitialGraph ==
    Refreshed([plan |-> FirstPlan, generation |-> 1,
        state |-> [n \in Node |->
            IF n \in FirstPlan.nodes THEN "proposed" ELSE "absent"],
        active |-> [n \in Node |-> 0], accepted |-> [n \in Node |-> 0],
        used |-> [n \in Node |-> 0], attempts |-> [n \in Node |-> <<>>],
        outcome |-> "none", pause |-> "off", clock |-> TRUE,
        token |-> NoToken, mutation |-> 0, spent |-> 0, limit |-> Envelope,
        cap |-> Attempts, extensions |-> 0, starts |-> [e \in Workers |-> 0],
        maxStarts |-> Starts, retired |-> {}, waived |-> {}])

Init ==
    /\ graph = InitialGraph /\ disk = InitialGraph
    /\ world \in Token /\ up = TRUE /\ pass = <<>> /\ inDoubt = {}

Schedule ==
    \/ EnforceAggregateBudget
    \/ \E t \in Observed : StartReadyReads(t)
    \/ \E t \in Observed, clean \in BOOLEAN : StartReadyWriters(t, clean)
    \/ StartNext
    \/ AbandonPass
    \/ ReachPause

Primary(n) ==
    \/ RecordPrimaryUsage(n)
    \/ \E kind \in ToolKinds, t \in Observed : BeginTool(n, kind, t)
    \/ \E w \in Token, t \in Observation, r \in ToolResults : FinishTool(n, w, t, r)
    \/ \E f \in FailureKinds : RecordFailure(n, f)
    \/ \E t \in Observed : ProposeCompletion(n, t)
    \/ BlockActive(n)
    \/ ExhaustBudget(n)

Statuses == {"done", "error", "budget_exhausted", "cancelled"}

Waves(n) ==
    \/ \E e \in Workers, c \in Costs, b \in BOOLEAN : RecordUsage(n, e, c, b)
    \/ StrandReads(n)
    \/ \E t \in Observed, s \in Statuses : FinishRead(n, t, s)
    \/ DropRead(n)
    \/ RecordWriterWorktree(n)
    \/ \E t \in Observed, s \in Statuses, c, v \in BOOLEAN, x \in Costs :
           FinishWriter(n, t, s, c, v, x)

User ==
    \/ RequestPause \/ Resume \/ Cancel \/ ExtendBudget \/ ReconcileWorktrees
    \/ \E n \in Node : RetryNode(n) \/ DiscardWorktree(n)
    \/ \E n \in Node, w \in Token : IntegrateCandidate(n, w)
    \/ \E waived \in BOOLEAN : AcceptIntegratedNodes(waived)

Next ==
    \/ Schedule
    \/ \E n \in Node : Primary(n) \/ Waves(n)
    \/ RefuseWave
    \/ \E p \in Plan : Revise(p)
    \/ User
    \/ Crash
    \/ \E t \in Observed : ResumeSaved(t)
    \/ ExternalEdit

Spec == Init /\ [][Next]_vars
=============================================================================
