-------------------------------- MODULE Turn --------------------------------
(* One agent on ordinary turns (agent/agent.go RunWithParts, executeTool): the *)
(* loop around the provider, its limits, the tools it runs with their durable  *)
(* write-ahead, and the end that the completion gate allows.  The process may  *)
(* stop at any instant and files may be edited from outside.                   *)
EXTENDS CompletionGate

CONSTANTS
    MaxIterations,   \* provider iterations of one turn (hard limit)
    NoProgress,      \* consecutive iterations without novel progress
    MaxBatch,        \* bound: tool calls of one response
    MaxCalls,        \* bound: tool calls over all turns
    MaxTurns,        \* bound: turns
    MaxUpsets,       \* bound: upsets from outside the turn
    Environment      \* which upsets happen: "fail", "refuse", "full", "edit", "stop"

ASSUME LimitsAssumption ==
    /\ MaxIterations \in Nat \ {0} /\ NoProgress \in Nat \ {0}
    /\ {MaxBatch, MaxCalls, MaxTurns, MaxUpsets} \subseteq Nat

VARIABLES
    world,     \* contents of the files
    plan,      \* the plan board (kept by the session)
    disk,      \* the durable completion record
    latched,   \* durable writes have failed in this process
    ctl,       \* the completion controller of the turn
    turn,      \* the loop: phase, counters, retained answer, calls, the running call
    used,      \* turns, calls and upsets so far
    hist       \* history, see HistoryInit
vars == <<world, plan, disk, latched, ctl, turn, used, hist>>

Elsewhere == "elsewhere"
ASSUME ElsewhereAssumption == Elsewhere \notin File
NoPlan == [state |-> "none", note |-> NoNote, deliver |-> {}, resolved |-> {}]
NoRun == [id |-> "none", op |-> [tool |-> "none", files |-> {}]]
NoSaw == <<>>
Rest == [phase |-> "rest", iter |-> 0, lastProgress |-> 0, held |-> "none", calls |-> <<>>, run |-> NoRun, saw |-> NoSaw]

(* unproven: changes since a check covered them; silent: changes since the     *)
(* plan last disclosed something new; checked: contents a check saw in this    *)
(* turn; uncertain: an action's outcome is in doubt and not acknowledged;      *)
(* since: what made good after each failure, the calls that succeeded and      *)
(* Rewritten; stale: a notice had no gap to count; done: the last turn was     *)
(* found done and the record that clears it written.                           *)
Rewritten == "rewritten"
ASSUME RewrittenAssumption == Rewritten \notin Call
Fresh == [checked |-> [f \in File |-> {}], notices |-> 0, first |-> 0, stale |-> FALSE]
HistoryInit == Joined(Fresh, [unproven |-> {}, silent |-> {}, uncertain |-> FALSE,
                              since |-> {}, done |-> FALSE])
NoController == NewController(Blank, NoPlan)

Init ==
    /\ world \in [File -> Content] /\ plan = NoPlan /\ disk = Blank
    /\ latched = FALSE /\ ctl = NoController
    /\ turn = Rest /\ used = [turns |-> 0, calls |-> 0, upsets |-> 0]
    /\ hist = HistoryInit

(*                         Beginning and ending a turn                         *)
StartTurn ==
    /\ turn.phase = "rest" /\ ~latched /\ used.turns < MaxTurns
    /\ ctl' = NewController(disk, plan)
    /\ turn' = [Rest EXCEPT !.phase = "ask", !.iter = 1]
    /\ used' = [used EXCEPT !.turns = @ + 1]
    /\ hist' = [hist EXCEPT !.done = FALSE]
    /\ UNCHANGED <<world, plan, disk, latched>>

(* The controller dies with the turn; what it owes is in the durable record.   *)
EndTurn(h, result) ==
    /\ turn' = Rest /\ ctl' = NoController
    /\ hist' = Joined(Fresh, [h EXCEPT !.done = result = "done"])

Upset(kind) ==
    /\ kind \in Environment /\ used.upsets < MaxUpsets
    /\ used' = [used EXCEPT !.upsets = @ + 1]

(* saveRecovery: the record is appended and then flushed.  A failure of either *)
(* is latched: nothing more is written by this process, and a restart reads    *)
(* the record that reached the file when only the flush failed.                *)
Saved(record) == disk' = record /\ UNCHANGED <<latched, used>>
Latches == Upset("full") /\ latched' = TRUE
FlushFails(record) == Latches /\ disk' = record
AppendFails == Latches /\ UNCHANGED disk

OutOfTime ==
    \/ turn.iter > MaxIterations
    \/ turn.iter > 1 /\ turn.iter - 1 - turn.lastProgress >= NoProgress

Limit ==
    /\ turn.phase = "ask" /\ OutOfTime
    /\ EndTurn(hist, "budget_exhausted")
    /\ UNCHANGED <<world, plan, disk, latched, used>>

(*                          The provider's response                            *)
Asking == turn.phase = "ask" /\ ~OutOfTime
NextIteration(t) == [t EXCEPT !.phase = "ask", !.iter = @ + 1]

(* Cancellation, a provider error, or a budget met by the response.            *)
ProviderFails ==
    /\ Asking /\ Upset("fail")
    /\ EndTurn(hist, "error")
    /\ UNCHANGED <<world, plan, disk, latched>>

(* An empty or cut response is asked for again, or ends the turn the third     *)
(* time; the counts (two of each) are left to the limits of the turn.          *)
RespondUnusable ==
    /\ Asking
    /\ \/ turn' = NextIteration(turn) /\ UNCHANGED <<ctl, hist>>
       \/ turn.iter > 2 /\ EndTurn(hist, "error")
    /\ UNCHANGED <<world, plan, disk, latched, used>>

RespondCalls(calls) ==
    /\ Asking /\ used.calls + Len(calls) <= MaxCalls
    /\ turn' = [turn EXCEPT !.phase = "calls", !.calls = calls]
    /\ used' = [used EXCEPT !.calls = @ + Len(calls)]
    /\ UNCHANGED <<world, plan, disk, latched, ctl, hist>>

(* A final answer, and a retained one after the calls that followed it, are    *)
(* assessed alike; "done" writes a blank record before the turn ends, and a    *)
(* record that was not flushed is an error for the user only.                  *)
Notice(h, gap) ==
    [h EXCEPT !.notices = @ + 1, !.first = IF @ = 0 THEN gap ELSE @,
              !.stale = @ \/ gap = 0]
Assessed(decision, continued) ==
    LET h == [hist EXCEPT !.unproven =
                 {x \in @ : x \notin File \/ world[x] # ctl.receipts[x]}]
    IN  CASE decision.says = "done" ->
               \/ /\ Saved(Blank) \/ FlushFails(Blank)
                  /\ EndTurn([h EXCEPT !.unproven = {}, !.silent = {}, !.since = {}], "done")
               \/ AppendFails /\ EndTurn(h, "error")
          [] decision.says \in {"blocked", "needs_verification"} ->
               EndTurn(h, decision.says) /\ UNCHANGED <<disk, latched, used>>
          [] OTHER ->
               /\ turn' = continued /\ ctl' = decision.ctl
               /\ hist' = Notice(h, GapCount(decision.ctl, plan, world))
               /\ UNCHANGED <<disk, latched, used>>

RespondFinal ==
    LET decision == Assess(ctl, plan, world)
        held == IF decision.says = "notice_reusable" /\ turn.held = "none"
                THEN "reusable" ELSE turn.held
    IN  /\ Asking
        /\ Assessed(decision, NextIteration([turn EXCEPT !.held = held]))
        /\ UNCHANGED <<world, plan>>

(* After the last call of a response: the retained answer is released if only  *)
(* metadata was missing, and progress renews the lease.                        *)
Renewed ==
    NextIteration([turn EXCEPT !.lastProgress = IF ctl.progressed THEN turn.iter ELSE @])
CallsDone ==
    /\ turn.phase = "calls" /\ turn.calls = <<>>
    /\ IF turn.held = "reusable"
       THEN LET decision == Assess(ctl, plan, world)
            IN  Assessed([decision EXCEPT !.ctl = [@ EXCEPT !.progressed = FALSE]], Renewed)
       ELSE /\ turn' = Renewed
            /\ ctl' = [ctl EXCEPT !.progressed = FALSE]
            /\ UNCHANGED <<disk, latched, used, hist>>
    /\ UNCHANGED <<world, plan>>

(*                               One tool call                                 *)
Taking == turn.phase = "calls" /\ turn.calls # <<>>
Taken(phase) ==
    LET call == Head(turn.calls)
    IN  [turn EXCEPT !.phase = phase, !.calls = Tail(@), !.run = call,
                     !.held = IF @ = "reusable" /\ ~Meta(call.op) THEN "spoiled" ELSE @]

Observation(failed, prevented, exited, rejected) ==
    [failed |-> failed, prevented |-> prevented, exited |-> exited, rejected |-> rejected]

(* Refused before execution: unavailable, denied, a hook, an invalid argument, *)
(* a scope that cannot be checked.                                             *)
Refuse(rejected) ==
    /\ Taking /\ Upset("refuse")
    /\ rejected = "scope" => Head(turn.calls).op.tool = "scoped"
    /\ turn' = [Taken("ran") EXCEPT
                   !.saw = Observation(TRUE, TRUE, FALSE, rejected)]
    /\ UNCHANGED <<world, plan, disk, latched, ctl, hist>>

(* While an outcome is in doubt the next call that could change something ends *)
(* the turn.                                                                   *)
BeginRefused ==
    /\ Taking /\ Mutating(Head(turn.calls).op) /\ ctl.pending # Nothing
    /\ EndTurn(hist, "error")
    /\ UNCHANGED <<world, plan, disk, latched, used>>

Begin ==
    LET begun == Begun(ctl, Head(turn.calls).op)
    IN  /\ Taking
        /\ IF Mutating(Head(turn.calls).op)
           THEN /\ ctl.pending = Nothing
                /\ \/ /\ Saved(RecoveryState(begun)) /\ ctl' = begun
                      /\ turn' = Taken("running") /\ UNCHANGED hist
                   \/ /\ FlushFails(RecoveryState(begun)) \/ AppendFails
                      /\ EndTurn(hist, "error")
           ELSE turn' = Taken("running") /\ UNCHANGED <<disk, latched, ctl, used, hist>>
        /\ UNCHANGED <<world, plan>>

(* What an execution may leave in the files.                                   *)
Reach(op) == IF Effects(op).unknown THEN File ELSE Effects(op).files
Left(op) == {w \in [File -> Content] : \A f \in File \ Reach(op) : w[f] = world[f]}

Touched(h, op) ==
    LET t == IF op.files = {} THEN {Elsewhere} ELSE op.files
    IN  IF RiskWrite(op)
        THEN [h EXCEPT !.unproven = @ \cup t, !.silent = @ \cup t] ELSE h
Checked(h, op) ==
    CASE op.tool = "test" /\ ~Work -> [h EXCEPT !.unproven = {}]
      [] op.tool \in {"scoped", "validate"} ->
            [h EXCEPT !.unproven = @ \ op.files,
                      !.checked = [f \in File |-> IF f \in op.files THEN @[f] \cup {world[f]}
                                                  ELSE @[f]]]
      [] OTHER -> h

(* The tool runs: it succeeds, a command exits with a failure, or it fails     *)
(* without telling.  A scoped check whose files changed under it has failed.   *)
Execute(failed, exited) ==
    LET op == turn.run.op
        h == Touched(hist, op)
    IN  /\ turn.phase = "running" /\ ~Meta(op)
        /\ exited => failed /\ RunCommand(op)
        /\ world' \in Left(op)
        /\ op.tool = "scoped" /\ ~failed => \A f \in op.files : world'[f] = world[f]
        /\ turn' = [turn EXCEPT !.phase = "ran",
                                !.saw = Joined(Observation(failed, FALSE, exited, "no"),
                                               [seen |-> world'])]
        /\ hist' = IF failed
                   THEN [h EXCEPT !.uncertain = @ \/ (Effects(op).unknown /\ ~exited)]
                   ELSE Checked(h, op)
        /\ UNCHANGED <<plan, disk, latched, ctl, used>>

(* update_plan: the fields sent replace the board's, those omitted stay; or    *)
(* the board refuses an invalid update.                                        *)
UpdatePlan(update) ==
    /\ turn.phase = "running" /\ Meta(turn.run.op)
    /\ plan' = update
    /\ turn' = [turn EXCEPT !.phase = "ran",
                            !.saw = Observation(FALSE, FALSE, FALSE, "no")]
    /\ hist' = [hist EXCEPT !.silent = IF update.note \in {NoNote, plan.note}
                                       THEN @ ELSE {}]
    /\ UNCHANGED <<world, disk, latched, ctl, used>>
PlanRefused ==
    /\ turn.phase = "running" /\ Meta(turn.run.op)
    /\ turn' = [turn EXCEPT !.phase = "ran",
                            !.saw = Observation(TRUE, FALSE, FALSE, "no")]
    /\ UNCHANGED <<world, plan, disk, latched, ctl, used, hist>>

(* The result enters the conversation and the controller, and what it leaves   *)
(* owing is saved.                                                             *)
MadeGood(since, before, after, o) ==
    LET rewrites(x) == o.op.tool = "write" /\ x.op.files \subseteq o.op.files
        by(x) == IF Meta(o.op) THEN {} ELSE {o.id} \cup IF rewrites(x) THEN {Rewritten} ELSE {}
        old == {x \in before : x.name \in {y.name : y \in after}}
        kept == {p \in since : p.failure \in {x.name : x \in old}}
    IN  IF o.failed THEN {p \in kept : p.by # o.id}
        ELSE kept \cup UNION {[failure : {x.name}, by : by(x)] : x \in old}
ObserveResult(novel) ==
    LET o == Joined([novel |-> novel], Joined(turn.saw, turn.run))
        c == Finished(Observe(ctl, o, plan, world), o)
        h == [hist EXCEPT !.since = MadeGood(@, ctl.failures, c.failures, o)]
    IN  /\ turn.phase = "ran"
        /\ \/ /\ Saved(RecoveryState(c)) /\ ctl' = c
              /\ turn' = [turn EXCEPT !.phase = "calls", !.run = NoRun, !.saw = NoSaw]
              /\ hist' = h
           \/ FlushFails(RecoveryState(c)) /\ EndTurn(h, "error")
           \/ AppendFails /\ EndTurn(hist, "error")
        /\ UNCHANGED <<world, plan>>

(*                      Between turns, and from outside                        *)
Acknowledge ==
    /\ turn.phase = "rest" /\ ~latched /\ disk.pending # Nothing
    /\ \/ /\ Saved(Acknowledged(disk)) \/ FlushFails(Acknowledged(disk))
          /\ hist' = [hist EXCEPT !.uncertain = FALSE]
       \/ AppendFails /\ UNCHANGED hist
    /\ UNCHANGED <<world, plan, ctl, turn>>

EditOutside ==
    /\ Upset("edit")
    /\ \E f \in File : \E v \in Content \ {world[f]} : world' = [world EXCEPT ![f] = v]
    /\ UNCHANGED <<plan, disk, latched, ctl, turn, hist>>

(* The process stops; an operation that was running may have had its effect.   *)
(* One that can write no more is stopped by its user, which is no upset.       *)
Crash ==
    LET op == turn.run.op
        running == turn.phase = "running" /\ ~Meta(op)
        h == IF running THEN Touched(hist, op) ELSE hist
    IN  /\ turn.phase # "down"
        /\ IF latched THEN UNCHANGED used ELSE Upset("stop")
        /\ world' \in IF running THEN Left(op) ELSE {world}
        /\ turn' = [Rest EXCEPT !.phase = "down"] /\ ctl' = NoController
        /\ hist' = Joined(Fresh, [h EXCEPT !.done = FALSE, !.uncertain = @ \/ ctl.started])
        /\ latched' = FALSE
        /\ UNCHANGED <<plan, disk>>
Restart ==
    /\ turn.phase = "down" /\ turn' = Rest
    /\ UNCHANGED <<world, plan, disk, latched, ctl, used, hist>>

(* What the agent itself does.  Bound: an update of the plan changes its state *)
(* and one more of its fields, and resolves one failure at most.               *)
Resolutions ==
    {{[failure |-> x.name, by |-> by]} : x \in ctl.failures, by \in Call \cup {"unnecessary"}}
Updates ==
    LET notes == {[plan EXCEPT !.note = n] : n \in Disclosure \cup {NoNote}}
        files == {[plan EXCEPT !.deliver = fs] : fs \in SUBSET File}
        named == {[plan EXCEPT !.resolved = rs] : rs \in Resolutions \cup {{}}}
    IN  {[u EXCEPT !.state = st] : u \in notes \cup files \cup named,
                                   st \in {"open", "done", "blocked"}}
Responses == UNION {[1..n -> [id : Call, op : Op]] : n \in 1..MaxBatch}
Agent ==
    \/ Limit \/ ProviderFails \/ RespondUnusable \/ RespondFinal
    \/ \E calls \in Responses : RespondCalls(calls)
    \/ CallsDone \/ BeginRefused \/ Begin
    \/ \E rejected \in Rejections : Refuse(rejected)
    \/ \E failed, exited \in BOOLEAN : Execute(failed, exited)
    \/ \E update \in Updates : UpdatePlan(update)
    \/ PlanRefused \/ \E novel \in BOOLEAN : ObserveResult(novel)

Next == StartTurn \/ Agent \/ Acknowledge \/ EditOutside \/ Crash \/ Restart

Spec == Init /\ [][Next]_vars

(*                               Properties                                    *)
(* recovery.go: "These obligations survive turns and restart".  A change no    *)
(* check has covered is owed by the durable record, whenever the process       *)
(* stops, until a turn is found done and the record that clears it is written, *)
(* whether or not its flush succeeds.                                          *)
OwedIsRemembered ==
    \A x \in hist.unproven :
        IF x \in File THEN x \in disk.files \cup disk.pending.files
        ELSE disk.unknown \/ disk.pending.unknown

(* completion.go, "Recheck final bytes even when the last operation was a read,*)
(* a shell command, a failed write, or an out-of-band edit": a turn ends as    *)
(* done only when every change was checked or disclosed since, every           *)
(* deliverable holds what a check of this turn saw, and nothing is in doubt.   *)
SeenNow(f) == world[f] \in hist.checked[f]
DoneIsSettled ==
    [][hist'.done /\ ~hist.done =>
          /\ \A x \in hist.unproven \cap hist.silent : x \in File /\ SeenNow(x)
          /\ \A f \in ctl.deliver : SeenNow(f)
          /\ ctl.failures = {} /\ ~hist.uncertain]_vars

(* recovery.go beginEffect: while the outcome of an action is in doubt no      *)
(* action that could change anything runs, in this turn, the next or after a   *)
(* restart, until the user acknowledges it; an acknowledgement in the file     *)
(* counts, though its flush failed and the command reported an error.          *)
UncertainBlocks ==
    [][turn'.phase = "running" /\ turn.phase # "running" /\ Mutating(turn'.run.op)
          => ~hist.uncertain]_vars

(* completion.go validateFailureResolution: a failure of a turn leaves the     *)
(* record, in memory and in the file, only by the success of an operation that *)
(* recovers it, by a rewrite of its files that a check of this turn covers, or *)
(* by a plan naming a call that succeeded after it; a call id handed out again *)
(* proves nothing.                                                             *)
Recovered(x) ==
    /\ ~turn.saw.failed
    /\ \/ Recovers(turn.run.op, x)
       \/ \E r \in plan.resolved :
             /\ r.failure = x.name
             /\ \/ r.by \in {"unnecessary", turn.run.id}
                \/ [failure |-> x.name, by |-> r.by] \in hist.since
       \/ /\ [failure |-> x.name, by |-> Rewritten] \in hist.since
          /\ \A f \in x.op.files : SeenNow(f)
NoStaleRecovery ==
    [][turn.phase = "ran" /\ (turn'.phase = "calls" \/ disk' # disk) =>
          \A x \in ctl.failures :
              x.name \in {y.name : y \in disk'.failures} \/ Recovered(x)]_vars

(* completion.go assess: "adding then resolving a new failure cannot buy an    *)
(* unlimited sequence of fresh controller retries".  Unless a stale resolution *)
(* issue was noticed, a turn gets at most two notices for each gap it began    *)
(* with.                                                                       *)
NoticesBounded == ~hist.stale => hist.notices <= maxCompletionInterventions * hist.first
=============================================================================
