----------------------------- MODULE Delegates -----------------------------
(***************************************************************************)
(* Delegated tasks as the user and the session see them: runScheduledDelegate *)
(* takes each through the scheduler, Team keeps its status, and an observer   *)
(* writes every change of the status to the session's log.                  *)
(*                                                                          *)
(* An update of Team takes a numbered snapshot under its mutex and hands it   *)
(* to the observer afterwards, so the user's Stop and the task itself may     *)
(* deliver theirs in either order.  What a task streams is numbered too, but   *)
(* no snapshot is taken of it: the log's revision may lag behind Team's.      *)
(***************************************************************************)
EXTENDS DelegateScheduler

CONSTANTS
    Stoppable,   \* bound: tasks the user stops or the timeout ends
    Updates,     \* bound: [Task -> Nat], reports a task makes and chunks it
                 \* streams while it runs
    MayCrash     \* the process may stop at any time

ASSUME DelegatesAssumption ==
    /\ Stoppable \subseteq Task
    /\ Updates \in [Task -> Nat]
    /\ MayCrash \in BOOLEAN

VARIABLES
    status,      \* DelegateStatus.Status of each task in Team
    revision,    \* DelegateStatus.Revision
    notes,       \* snapshots taken and not yet handed to the observer
    due,         \* tasks whose cancel function Stop has yet to call
    view,        \* Session.delegates: the latest record of each task in the log
    process      \* "live", "down", or "reopened" on the saved session

teamVars == <<status, revision, notes, due, view, process>>
vars == <<schedulerVars, teamVars>>

Final == {"done", "failed", "interrupted"}   \* failed: any error, cancelled, timed out
Active == {"queued", "running", "waiting_approval", "cancelling"}
Statuses == {"absent"} \cup Active \cup Final
Record == [status : Statuses, revision : Nat]
Note == [task : Task, by : {"task", "user"}, record : Record]

TypeOK ==
    /\ SchedulerTypeOK
    /\ status \in [Task -> Statuses] /\ revision \in [Task -> Nat]
    /\ notes \subseteq Note /\ due \subseteq Task
    /\ view \in [Task -> Record]
    /\ process \in {"live", "down", "reopened"}

-----------------------------------------------------------------------------
(* Team.                                                                    *)

(* The goroutine of by is between two calls: its observer has returned.       *)
Idle(t, by) == process = "live" /\ \A n \in notes : n.task # t \/ n.by # by

(* Team.update: mutate, number, snapshot.                                    *)
Update(t, by, s) ==
    /\ Idle(t, by)
    /\ status' = [status EXCEPT ![t] = s]
    /\ revision' = [revision EXCEPT ![t] = @ + 1]
    /\ notes' = notes \cup
          {[task |-> t, by |-> by, record |-> [status |-> s, revision |-> revision[t] + 1]]}
    /\ UNCHANGED <<view, process>>

Silent == UNCHANGED teamVars

Enqueue(t) ==
    /\ place[t] = "outside" /\ status[t] = "absent"
    /\ Update(t, "task", "queued")
    /\ UNCHANGED <<schedulerVars, due>>

Ask(t) ==
    /\ Idle(t, "task") /\ status[t] # "absent"
    /\ AcquireScoped(t) /\ Silent

(* Admitted: MarkRunning changes a queued task only.                         *)
Start(t) ==
    /\ Proceed(t)
    /\ Update(t, "task", IF status[t] = "queued" THEN "running" ELSE status[t])
    /\ UNCHANGED due

GiveUp(t) == Idle(t, "task") /\ Withdraw(t) /\ Silent

ReportedOverStop(t, s) == s   \* mutant of Reported
(* SetAction and SetWaitingApproval leave a task that is being stopped alone. *)
Reported(t, s) == IF status[t] = "cancelling" THEN status[t] ELSE s

Report(t) ==
    /\ place[t] = "running" /\ status[t] \in Active
    /\ revision[t] < Updates[t] + 3
    /\ \E s \in {"running", "waiting_approval"} : Update(t, "task", Reported(t, s))
    /\ UNCHANGED <<schedulerVars, due>>

(* AppendOutput: a chunk of output raises the revision and tells nobody; the   *)
(* next update carries the latest tail.                                       *)
Stream(t) ==
    /\ process = "live" /\ place[t] = "running" /\ status[t] \in Active
    /\ revision[t] < Updates[t] + 3
    /\ revision' = [revision EXCEPT ![t] = @ + 1]
    /\ UNCHANGED <<schedulerVars, status, notes, due, view, process>>

(* FinishDetailed, before the slot is given back.                            *)
Finish(t) ==
    /\ place[t] \in {"running", "refused"} /\ status[t] \in Active
    /\ \E s \in {"done", "failed"} :
        /\ place[t] = "refused" => s = "failed"
        /\ Update(t, "task", s)
    /\ UNCHANGED <<schedulerVars, due>>

GiveBack(t) ==
    /\ Idle(t, "task") /\ status[t] \in Final
    /\ Release(t) /\ Silent

(* Stop marks the task under the mutex and cancels its context afterwards.    *)
Stop(t) ==
    /\ t \in Stoppable /\ t \notin due
    /\ status[t] \in Active \ {"cancelling"}
    /\ Update(t, "user", "cancelling")
    /\ due' = due \cup {t}
    /\ UNCHANGED schedulerVars

CallCancel(t) ==
    /\ t \in due /\ Idle(t, "user")
    /\ due' = due \ {t}
    /\ lapsed' = lapsed \cup {t}
    /\ UNCHANGED <<pool, place, status, revision, notes, view, process>>

TimeOut(t) == t \in Stoppable /\ process = "live" /\ status[t] # "absent" /\ Lapse(t) /\ Silent

-----------------------------------------------------------------------------
(* The session.                                                             *)

LatestArrived(old, new) == new   \* mutant of Newer
(* applyDelegate: a snapshot older than the recorded one is ignored.          *)
Newer(old, new) == IF old.revision > new.revision THEN old ELSE new

(* The observer appends the snapshot to the log.                             *)
Deliver(n) ==
    /\ n \in notes /\ process # "down"
    /\ notes' = notes \ {n}
    /\ view' = [view EXCEPT ![n.task] = Newer(@, n.record)]
    /\ UNCHANGED <<schedulerVars, status, revision, due, process>>

Unlisted == [t \in Task |-> [status |-> "absent", revision |-> 0]]

(* Nothing in memory survives; what the observer has written does.            *)
Crash ==
    /\ MayCrash /\ process # "down"
    /\ process' = "down"
    /\ pool' = EmptyPool /\ place' = Nowhere /\ lapsed' = {}
    /\ status' = [t \in Task |-> "absent"] /\ revision' = [t \in Task |-> 0]
    /\ notes' = {} /\ due' = {}
    /\ UNCHANGED view

RestoredAsIs(r) == r   \* mutant of Restored
(* Restore: what had not ended is interrupted, and never asks again.          *)
Restored(r) ==
    IF r.status \in Active
    THEN [status |-> "interrupted", revision |-> r.revision + 1] ELSE r

(* attachTeam persists each interruption once.                               *)
Reopen ==
    /\ process = "down"
    /\ process' = "reopened"
    /\ status' = [t \in Task |-> Restored(view[t]).status]
    /\ revision' = [t \in Task |-> Restored(view[t]).revision]
    /\ notes' = {[task |-> t, by |-> "task", record |-> Restored(view[t])] :
                    t \in {u \in Task : Restored(view[u]) # view[u]}}
    /\ UNCHANGED <<schedulerVars, due, view>>

-----------------------------------------------------------------------------
Init ==
    /\ SchedulerInit
    /\ status = [t \in Task |-> "absent"] /\ revision = [t \in Task |-> 0]
    /\ notes = {} /\ due = {} /\ process = "live"
    /\ view = Unlisted

Next ==
    \/ \E t \in Task :
        \/ Enqueue(t) \/ Ask(t) \/ Start(t) \/ GiveUp(t) \/ Report(t) \/ Stream(t)
        \/ Finish(t) \/ GiveBack(t) \/ Stop(t) \/ CallCancel(t) \/ TimeOut(t)
    \/ \E n \in notes : Deliver(n)
    \/ Crash
    \/ Reopen

Spec == Init /\ [][Next]_vars

(* Goroutines run on, and a delegated run ends: it is bounded by its timeout. *)
(* Nothing is assumed of the user, of timeouts or of crashes.                *)
Fairness ==
    /\ \A t \in Task :
        /\ WF_vars(Ask(t)) /\ WF_vars(Start(t)) /\ WF_vars(GiveUp(t))
        /\ WF_vars(Finish(t)) /\ WF_vars(GiveBack(t)) /\ WF_vars(CallCancel(t))
    /\ WF_vars(\E n \in notes : Deliver(n))

FairSpec == Spec /\ Fairness

-----------------------------------------------------------------------------
(* Once all the snapshots of a task have been delivered, in whatever order     *)
(* they were (Revision, applyDelegate), the log has the status Team has.  It   *)
(* lacks at most what was streamed since, and nothing once the task has ended  *)
(* (AppendOutput, "the next lifecycle update (and the terminal result)         *)
(* persists the latest bounded tail").                                       *)
ViewCatchesUp ==
    \A t \in Task : process # "down" /\ (\A n \in notes : n.task # t) =>
        /\ view[t].status = status[t] /\ view[t].revision <= revision[t]
        /\ status[t] \notin Active => view[t].revision = revision[t]

(* A final status that reached the log stays, through late snapshots, crashes *)
(* and restarts; a task that had not ended is never taken up again.           *)
FinalIsKept ==
    [][\A t \in Task :
        /\ view[t].status \in Final => view'[t].status = view[t].status
        /\ process' = "reopened" => status'[t] \notin Active]_vars

(* A stop is not undone by what the task reports meanwhile.                  *)
StopSticks ==
    [][\A t \in Task : status[t] = "cancelling" /\ process = "live" =>
        status'[t] \in {"cancelling"} \cup Final \/ process' # "live"]_vars

(* First come, first served, and none is left: a task that waits is admitted  *)
(* or withdraws as long as the process lives.                                *)
EveryoneIsServed ==
    \A t \in Task : place[t] = "waiting" ~> place[t] # "waiting" \/ process # "live"

(* Every task that was listed gets a final status, and its slot comes back.   *)
EveryoneSettles ==
    \A t \in Task : status[t] = "queued" ~>
        (status[t] \in Final /\ t \notin pool.working) \/ process # "live"
=============================================================================
