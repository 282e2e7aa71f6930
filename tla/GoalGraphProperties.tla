------------------------ MODULE GoalGraphProperties ------------------------
(***************************************************************************)
(* What the Orchestrated Goal runtime promises, and the fairness of its     *)
(* loops.  Each property relates steps of several actors: the agent loop,    *)
(* its tools and workers, the user, the file system and the process.        *)
(***************************************************************************)
EXTENDS GoalGraph

AttemptsOf(n) == DOMAIN graph.attempts[n]
NewAttempts(n) == Len(graph'.attempts[n]) > Len(graph.attempts[n])

-----------------------------------------------------------------------------
(* Invariants.                                                              *)

(* Attempts, nodes and the outcome agree about who runs: an attempt runs only *)
(* as the active and latest attempt of a running node of a graph that has not *)
(* ended (activeAttemptLocked and Active look in different places for it).    *)
RunningIsActive ==
    /\ \A n \in Node : \A k \in AttemptsOf(n) :
        graph.attempts[n][k].state = "running" =>
            /\ k = graph.active[n] /\ k = Len(graph.attempts[n])
            /\ n \in InState(graph, "running")
            /\ graph.outcome = "none"
    /\ \A n \in Node : graph.active[n] # 0 =>
        graph.active[n] \in AttemptsOf(n)
        /\ graph.attempts[n][graph.active[n]].state = "running"

(* Whatever instant the process stops at, the snapshot it leaves passes the   *)
(* checks ValidateSnapshot makes of nodes, lanes, pause and outcome.          *)
SavedGraphRestores ==
    /\ PauseWellFormed(disk) /\ NodesWellFormed(disk)
    /\ LanesWellFormed(disk) /\ OutcomeWellFormed(disk)
    /\ \A e \in Workers : disk.starts[e] <= disk.maxStarts[e]

(* A node whose action or writer may have acted when the process stopped is   *)
(* never attempted again: not by Recover, a retry, an extension or a second   *)
(* restart (Recover, RetryNode and ExtendBudget each guard a part of this).   *)
NoReplay ==
    \A d \in inDoubt : Len(graph.attempts[d[1]]) = d[2]

(* A done node is held by an attempt without open failures; one that may have *)
(* changed the workspace passed a check after its last change, on a workspace *)
(* other than the one its edits started from; a writer's was checked combined *)
(* or waived (ProposeCompletion, AcceptIntegratedNodes).                      *)
DoneIsVerified ==
    \A n \in InState(graph, "done") :
        LET a == graph.attempts[n][graph.accepted[n]]
        IN  /\ a.state = "accepted" /\ a.failures = {}
            /\ a.mutated => \E p \in a.proofs :
                    p[1] = a.mutation /\ p[2] # NoToken /\ (a.wrote => p[2] # a.base)
            /\ graph.plan.exec[n] = "isolated_write" =>
                    n \in graph.waived \/ a.proofs # {}

(* A scheduling pass never comes to StartNext with nothing to start, nothing  *)
(* running and no outcome to reduce to: ErrNoReadyNode is unreachable (checked *)
(* where no candidate waits for integration).                                *)
SchedulerFindsWork ==
    up /\ pass # <<>> /\ Schedulable(graph) =>
        LET h == Noticed(graph, pass[1])
        IN  \/ Ready(graph, "isolated_write") # {}
            \/ Ready(h, "primary") # {} \/ Verdict(h) # "none"

(* Retries, crashes, staleness and extensions together never give a node more *)
(* attempts than the envelopes the user granted, and a node is offered for    *)
(* scheduling only while one is left.                                        *)
AttemptsBounded ==
    \A n \in graph.plan.nodes :
        /\ graph.used[n] <= graph.cap
        /\ graph.state[n] = "ready" => graph.used[n] < graph.cap

(* While published candidates wait for a combined check, no earlier result    *)
(* counts as done: all of them were about another workspace.                  *)
UnverifiedStandsAlone ==
    InState(graph, "integrated") # {} => InState(graph, "done") = {}

(* Writers that run together may not change the same paths.                  *)
WritersDisjoint ==
    \A m, n \in Running(graph, "isolated_write") :
        m # n => graph.plan.scope[m] \cap graph.plan.scope[n] = {}

-----------------------------------------------------------------------------
(* Action properties.                                                       *)

(* The ledger of attempts only grows, and an attempt that has ended keeps its *)
(* verdict, through revisions, recovery and crashes; a candidate may still be *)
(* accepted.                                                                 *)
FinishedAttemptsKeep ==
    [][\A n \in Node : \A k \in AttemptsOf(n) :
        LET was == graph.attempts[n][k].state
        IN  /\ k \in DOMAIN graph'.attempts[n]
            /\ was # "running" =>
                \/ graph'.attempts[n][k].state = was
                \/ was = "candidate" /\ graph'.attempts[n][k].state = "accepted"]_vars

(* Only integration takes a verified candidate out of review: exhaustion,     *)
(* cancellation, extension and restarts all leave it there.                   *)
CandidateKept ==
    [][\A n \in InState(graph, "awaiting_review") :
        graph'.state[n] \in {"awaiting_review", "integrated"}]_vars

(* Nothing is started in a graph that is ended, paused, out of budget, or     *)
(* whose previous attempts still run, however late the stop came after the    *)
(* scheduling pass began.                                                    *)
StopHolds ==
    [][(\E n \in Node : NewAttempts(n)) =>
        /\ graph.outcome = "none" /\ graph.pause = "off"
        /\ ~HasRunningAttempt(graph) /\ graph.spent < graph.limit]_vars

(* Done and cancelled are final, whatever edits, restarts or late results come *)
(* after them (checked where no candidate waits for integration).             *)
TerminalStays ==
    [][graph.outcome \in {"done", "cancelled"} =>
        graph'.outcome = graph.outcome]_vars

(* A worktree the runtime created stays attributable to its attempt until its *)
(* own worker returns without changes, or the user discards it after looking. *)
TreesRemembered ==
    [][\A n \in Node : \A k \in AttemptsOf(n) :
        LET a == graph.attempts[n][k]
            b == graph'.attempts[n][k]
        IN  a.tree # "none" =>
            /\ b.tree = "none" => a.worker = "out" /\ b.worker = "back"
            /\ b.tree = "discarded" => a.tree \in {"seen", "discarded"}]_vars

-----------------------------------------------------------------------------
(* What the documentation says and the code does not do.                     *)

(* No attempt that has settled still holds a pending action, as               *)
(* ValidateSnapshot demands before a saved graph may be reopened.             *)
SavedPendingBelongs == PendingWellFormed(disk)

(* A read worker's result accepts or fails its attempt: none stays running    *)
(* once its worker is back.                                                  *)
ReadResultsSettle ==
    \A n \in Node : \A k \in AttemptsOf(n) :
        graph.attempts[n][k].worker = "back" => graph.attempts[n][k].state # "running"

-----------------------------------------------------------------------------
(* Fairness: the turn goes on.  Scheduling steps, tools and workers that can  *)
(* finish do; the loop records a response's usage before it runs its tools,   *)
(* so no run of tools avoids RecordPrimaryUsage forever.                      *)
Fairness ==
    /\ WF_vars(EnforceAggregateBudget)
    /\ WF_vars(\E t \in Observed : StartReadyReads(t))
    /\ WF_vars(\E t \in Observed, clean \in BOOLEAN : StartReadyWriters(t, clean))
    /\ WF_vars(StartNext) /\ WF_vars(AbandonPass) /\ WF_vars(ReachPause)
    /\ \A n \in Node :
        /\ SF_vars(RecordPrimaryUsage(n))
        /\ WF_vars(\E w \in Token, t \in Observation, r \in ToolResults :
                       FinishTool(n, w, t, r))
        /\ WF_vars(Waves(n))

FairSpec == Spec /\ Fairness

Resting == graph.outcome # "none" \/ graph.pause = "reached"

(* Nudges, retries, staleness under edits and waves never keep a graph running *)
(* for ever: it keeps coming to an outcome or to the pause the user asked for. *)
ComesToRest == []<>Resting
=============================================================================
