# A TLA+ model of Collomia

Collomia (`collo`) is a terminal coding agent: a user's prompt becomes a *turn*, in
which a language model proposes tool calls that the program checks, runs and
reports back. This directory models the parts of it whose correctness depends on
orders of events that tests hardly reach, checks them with TLC on small
instances and proves what matters most with TLAPS for instances of every size.

Paths below are relative to the repository; `graph.go` alone is
`internal/goalgraph/graph.go`.

## 1. The system

| Component | State it keeps | Operations | What makes it correct |
|---|---|---|---|
| **Goal graph** `internal/goalgraph` | a durable snapshot: plan nodes with a state, attempts with evidence, failures and a pending action, lanes, budget, pause, outcome, workspace token, mutation generation | start reads / writers / the next node, begin and finish a tool, record failures and usage, propose completion, block, revise, finish a read or a writer, pause, resume, retry, cancel, extend, reconcile, integrate, accept, recover | nothing counts as done without proof about the present workspace; nothing that may have acted is replayed; budgets, stops and outcomes hold; the saved snapshot reopens |
| **Goal loop** `internal/agent/goalgraph.go`, `goalread.go`, `goalwrite.go` | where the turn is: scheduling pass, iteration, tool, wave | decides when each graph operation is called and with which observation of the workspace | an observation is not used after the user stopped the graph; each worker's result and usage count once |
| **/orchestrate commands** `internal/app/app.go`, `orchestrate_integrate.go`, `internal/tui/slash.go` | the attached graph | resume, pause, cancel, retry, extend, reconcile, discard, integrate, verify, waive | only legal transitions; publication and record agree |
| **Session log** `internal/session` | append-only JSONL of durable and ordinary records, latched failure, derived views | append, load (torn tail), replay, fork, rewind | durable before effect; a torn tail loses only what was not durable |
| **Delegate scheduler** `internal/agent/scheduler.go` | queue, active count, per-provider counts, active waiters with their scopes | acquire, release, cancel while waiting | limits, disjoint scopes, FIFO, no slot lost, no wake-up lost |
| **Team and worktrees** `internal/agent/team.go`, `worktree.go` | numbered status of each delegate, steering notes, git worktrees | enqueue, mark, report, finish, stop, restore, steer | the session's record follows the team's; final status once; a stop is not undone; worktrees attributable |
| **Completion gate** `internal/agent/completion.go`, `recovery.go`, `artifacts.go` | changed files, deliverables, failures, the outcome in doubt, receipts, count of interventions | begin and finish an effect, observe a result, assess an answer, restore, acknowledge | nothing ends as done unverified; obligations survive turns and restarts; no effect in doubt is followed by another |
| **Turn loop** `internal/agent/agent.go`, `steering.go` | conversation, iteration budget, steering queue | iterate, run tools, compact, steer, end | it ends within its limits, and as done only when the gate agrees |
| **Candidate integration** `internal/app/orchestrate_integrate.go`, `delegates.go`, `internal/session/checkpoint.go` | checkpoint of files, phase of publication | review, publish, roll back, restore, accept, record | all of a candidate or none of it, and otherwise everything needed to go back |
| **Permission and policy** `internal/permission`, `internal/policy` | session grants | decide | a deny is not overtaken by a grant |
| **Plan board** `internal/plan` | tasks, revision | update, merge | acyclic, single active item |
| **Providers, breaker** `internal/provider` | consecutive failures, open until, half-open probe | before, after | opens after the threshold, one probe at a time |
| **MCP manager** `internal/mcp` | per server: session, generation, registered tools, pending change and its version | start, stop, enable, add, remove, reconnect, ping, refresh, list-change notifications | what is registered is what the server offers, or its status shows why not; no connection is left behind |
| **Tools, processes** `internal/tools`, `internal/diffmodel` | running processes, file checkpoints | run, read, write, undo | checkpoints restore what was there |
| **Egress, web, shell analysis, sandboxes, conpty, credentials** | – | mostly I/O, parsing, system calls | – |
| **TUI, web terminal, CLI, config, setup, LSP, skills, hooks, index, events, replay, audit, quality** | presentation and start-up state | – | – |

How they interact. The user's command reaches the TUI, which accepts only
pause, cancel and status while a turn runs, and calls `App`. `App` owns the
session and attaches a goal graph to the agent. The agent's turn asks the graph
what to run, records each step in it *before* the step acts, and hands reads
and isolated writers to the team, whose scheduler admits them. Every graph
operation holds the graph's mutex, ends by calling the persist callback, and the
callback appends the whole snapshot to the session log, durably or not. The
workspace itself is outside all of this: the graph only sees a *token* of it,
computed with git, at the moments somebody asks.

What is hard:

* **interleaving** - the user may pause or cancel between any two operations of
  a scheduling pass, a tool, or a wave of workers;
* **faulty appends** - the disk fills, a record is torn, a flush fails, and memory has
  already changed;
* **staleness** - the workspace may be edited at any time, tokens are observed
  earlier than they are used, and sometimes cannot be observed at all; a candidate that was
  reviewed, a catalogue that was listed, a failure that was resolved may be out of date
  when it is used;
* **crashes** - between the write-ahead record of an action and its result, in
  the middle of a wave, between a worktree and its record, between two files of a
  candidate;
* **late and partial results** - workers return after the graph ended or after
  the budget was spent by their siblings;
* **cancellation racing admission** - a delegate's context may end in the very moment
  dispatch starts it, and a user's stop falls between any two of its reports; status
  snapshots are handed to the session outside the lock, in either order;
* **bounded resources** - attempts per node, starts per lane and one aggregate
  envelope, all extendable by the user, all spent through several paths;
* **long legal sequences** - revise, retry, extend, integrate, verify and
  recover compose to states nobody listed.

`PROJECT.json` lists each such hazard at its line, with the property that covers
it or the reason none does yet.

## 2. The modules

| Module | What it is |
|---|---|
| `GoalGraphState` | `goalgraph.Snapshot`, constants and their assumptions, and the private helpers of `graph.go` as operators from snapshot to snapshot: `Refreshed` (refreshReadyLocked), `Reduced` (reduceOutcomeLocked), `AllDoneStale` (invalidateAllDoneLocked), `Exhausted` (exhaustAggregateLocked), `Noticed` (the token check of a pass), `Started`, `Settled`, and the checks of `ValidateSnapshot` in five named parts |
| `GoalGraph` | the state machine: `TypeOK`, one action per public operation, `Init`, `Next`, `Spec` |
| `GoalGraphProperties` | invariants, action properties, fairness and liveness |
| `GoalGraphMC` | instances for TLC: plans, lanes, symmetry, the view |
| `GoalGraphSound` | the inductive invariant and one lemma per helper |
| `GoalGraphProofs` | one lemma per group of actions, and the theorems about states |
| `GoalGraphSteps` | how snapshots follow each other, and the theorems about steps |
| `AdmissionPool` | what the scheduler promises: tasks enter one by one while there is room, and leave |
| `DelegateScheduler` | `scheduler.go` and the goroutine that waits in it; implements `AdmissionPool` |
| `Delegates` | composes the scheduler with `Team`, the user's stop, the session's record and a restart |
| `DelegatesMC` | the instance for TLC |
| `DelegatesProofs` | one lemma per operator of the scheduler, its inductive invariant and theorems; then what of it survives composition with crashes, and the theorems about the session's record |
| `SessionLog` | `session.Session` and its file: appends, flushes, failures, crash, power loss, load and replay, amendment, fork, rewind, compaction |
| `SessionLogProofs` | lemmas about reading a log, its inductive invariant and theorems |
| `CompletionGate` | `completionController` as operators: observe, assess, begin and finish an effect, restore |
| `Turn` | drives the gate: the loop of an ordinary turn, its tools, the plan board, edits from outside, crash and restart |
| `TurnMC` | one operation of each kind for TLC, and the symmetry |
| `TurnProofs` | the inductive invariant of a turn and its gate, and theorems |
| `Catalog` | the MCP manager with one server: sessions, generations, list changes, refreshes, commands |
| `CatalogProofs` | its inductive invariant and theorems |
| `Integration` | publication of delegate candidates, file by file, with its checkpoint, the restoring of one that was cut off, and what the goal graph records of it |
| `IntegrationProofs` | its inductive invariant and theorems |

`GoalGraph` and `Delegates` meet in the code at `goalread.go:47` and `goalwrite.go:146`:
a wave runs each of its workers as a delegated task. `GoalGraph` sees of it that the
worker is out and that all are back before results are read, which is what
`EveryoneSettles` gives a wave: every task that was listed comes to an end.

`Integration` takes apart what `GoalGraph` does in one step (`Publish`), and keeps of the
graph only the state of the candidates' nodes. `SessionLog` takes apart
the two saves of `GoalGraph` and the durable record of `Turn`; those modules keep of a log only
the last value saved and a latched failure, which is what `ReplayAgrees` and `PromisesKept`
say a log gives them.

### State of `GoalGraph`

| Variable | Code |
|---|---|
| `graph` | `Graph.snapshot` in memory. Node ids are plan positions; `attempts[n]` are the attempts that name node *n*, in order; `used[n]` is `len(node.AttemptIDs)`. A revision that drops and re-adds a node resets `used` and leaves the attempts, as the code does |
| `disk` | the last snapshot in the session log that a crash leaves |
| `world` | the contents of the workspace, as `CaptureWorkspaceState` tells contents apart |
| `up` | the process runs and has the graph attached |
| `pass` | `<<token>>` between `StartReadyReads` and the end of the scheduling pass of `ensureGoalAttempt`, which keeps the token it observed at its start |
| `inDoubt` | history: attempts that had a non-replayable action or a writer in flight when the process stopped |

### State of `Delegates`

| Variable | Code |
|---|---|
| `pool` | `Scheduler`: queue, `active`, `activeByProvider`, `activeWaiters` (`working`), and of the waiters those `started` (their `ready` channel is closed) and `released` |
| `place` | how far `runScheduledDelegate` is with each task: not yet asking, in the select of `AcquireScoped`, admitted, back with its slot given up, or refused |
| `lapsed` | tasks whose context has ended: timeout or cancel function |
| `status`, `revision` | `DelegateStatus` in `Team.items`; an update and a chunk of output each raise the revision |
| `notes` | snapshots taken under `Team`'s mutex whose observer has not returned yet, with the goroutine that holds them; a goroutine does nothing else meanwhile (`Idle`) |
| `due` | stops that have marked a task and not yet called its cancel function |
| `view` | `Session.delegates` as a reader of the log rebuilds it |
| `process` | running, stopped, or a new process on the saved session |

### State of `SessionLog`

| Variable | Code |
|---|---|
| `file`, `synced`, `unsure` | the file as a reader sees it (lines, and whether the last has its newline), how much is on stable storage, and which lines a failed flush may have dropped |
| `sess` | `Session`: open, the latched failure, the active conversation, number of turns, completion record, graph |
| `todo` | the calls a handler still has to make; each holds the Session's lock once |
| `accepted`, `mark`, `kept`, `doubtful`, `atTurn` | history: what was reported as appended or as durable, whether a file was opened that a fault had left in doubt, and the conversation at the end of each turn |

### State of `Turn`

| Variable | Code |
|---|---|
| `world` | contents of the files |
| `plan` | the plan board as the gate reads it |
| `disk`, `latched` | the last `CompletionState` in the file, which a restart reads; a durable write has failed in this process |
| `ctl` | `completionController`, new in each turn |
| `turn` | `RunWithParts`: phase, iteration, last progress, the answer it holds back, calls still to run, the running call |
| `hist` | history: changes no check has covered, what a check saw, whether an outcome is in doubt, notices given |

### State of `Catalog`

| Variable | Code |
|---|---|
| `srv` | `serverState`, and which of the server's lists the tool registry holds |
| `remote` | the server: its tool list, numbered, and the connections open to it |
| `notices`, `workers` | list-change notifications on their way, and the goroutines of `runToolRefresh` |
| `cmd` | the user's command under way; `startLocked` holds the manager's mutex (`Locked`) |

### State of `Integration`

| Variable | Code |
|---|---|
| `ws`, `child` | contents of the workspace's files and of each candidate's worktree, as the changes they hold |
| `mem`, `disk` | integration checkpoints in the Session and in its file |
| `log` | open, or with its failure latched |
| `node` | the candidates' nodes of the graph, in memory and saved |
| `job`, `used` | the command under way and its phase; what the bounds count |
| `torn`, `raced` | history: files moved by a publication that nobody ended, with what they held; files edited after the second look |

### Actions of `GoalGraph`

Each public method holds one mutex for its whole body, so it is one step, with
every helper the method calls before it returns (`Refreshed`, `Reduced`,
`Enforced`, the save). The guards come from two places: the method's own early
returns, and the callers that decide when it is called. In particular:

* `Schedule` is `ensureGoalAttempt` (`internal/agent/goalgraph.go`). It does not
  hold the lock between its calls, so `StartReadyReads`, `StartReadyWriters`
  and `StartNext` are three steps that share the token in `pass`; a cancel, a
  pause, an edit or a crash may fall between them.
* `Primary(n)` is the loop's work on a primary node: usage of an iteration, the
  write-ahead `BeginTool`, the tool's own effect on the workspace together with
  `FinishTool`, failures, the tool-free response, the block tool, the two ways the
  controller gives up.
* `Waves(n)` is a read or writer wave: usage first (`RecordUsage`, for every worker
  once all are back), then each result. `StrandReads` is what happens when a result
  is refused: the wave returns and the workers' attempts are left as they are.
  `RefuseWave` is a writer wave refused before dispatch; the code blocks its nodes in
  a loop that nothing can interleave with, hence one step.
* `User` is what `App` offers. All but pause and cancel need `Boundary`, since the
  TUI refuses them while a turn runs.
* `Crash` forgets memory and keeps `disk`; `ResumeSaved` validates, recovers and
  reattaches. `ExternalEdit` is anybody else who writes in the workspace.

A save is one of `Commit` (durable), `Note` (ordinary: with a crash possible it may
or may not be on disk) and `Unsaved` (the operation changes memory and saves
nothing), as the code's call sites say.

### Actions of `Delegates`

The scheduler's mutex makes `AcquireScoped`, `Withdraw` and `Release` one step each,
`dispatchLocked` included: `Dispatched` starts the longest prefix of the queue whose
members may start one after the other, which is what its loop does. Admission and
its discovery are two steps, since the select may prefer `ctx.Done()` although `ready`
is closed: a waiter that is both admitted and lapsed may `Proceed` or `Withdraw`.

A task goes through `Enqueue`, `Ask`, then `Start` (the select and `MarkRunning`,
between which nothing that another actor sees happens) or `GiveUp`, `Report`,
`Finish` and `GiveBack` (the deferred release, after the final status). `Stream` is a chunk
of output (`AppendOutput`, called per chunk from agent.go:2405-2421): it raises the
revision under the mutex and hands out no snapshot. `Stop` marks under
the mutex, delivers its snapshot, and only then calls cancel (`CallCancel`). `Update`
is `Team.update`: mutate, number, copy; `Deliver` is the observer (`AppendEvent`,
`applyDelegate`), in any order. `Crash` empties memory and leaves what was appended;
`Reopen` is `attachTeam` with `Team.Restore`.

### Actions of `SessionLog`

A handler (`AppendMessage`, `AppendCompaction`, `AppendTurnEnd`, `SaveCompletion`,
`AppendGoalGraph`...) changes memory and leaves its calls in `todo`; `StepAppend` and
`StepSync` take them one by one, `StepAppendFails` and `StepSyncFails` latch the
failure, a failed append possibly leaving a torn line. `Stop` kills the process anywhere,
also within a record; `PowerLoss` keeps a prefix that holds at least what is synced. `Resume` is
`Load`, `open` and the note that `markInterrupted` adds for calls without a result.
`Amend`, `Fork` and `Rewind` rewrite the file as `session.go` and `recovery.go` do.

### Actions of `Turn`

`StartTurn` makes a controller from the durable record. `Agent` is the loop: a response
(text, tool calls, unusable, or an error of the provider), then for each call its
refusal or the write-ahead (`Begun`, saved before the tool runs), the effect, and the result
with `observe` and the second save; then `assess` of a final answer, which ends the turn or
gives a notice. Every save is `SaveCompletion` (`internal/session/recovery.go:31-48`): it is
`Saved`, or the append fails (`AppendFails`, the record in the file stays), or the append succeeds
and the flush fails (`FlushFails`: the new record is in the file and is the one a restart reads,
though the caller got an error). Both failures latch. `Acknowledge` is the user's acknowledgement of the outcome in doubt (`internal/app/recovery.go`), `EditOutside` anybody else.
`Crash` keeps `disk` and the files.

A success recovers a failure (`Recovers`) as `matchesRetry` and `recoversRejectedVerification`
say: by the same operation, where a command is the same whatever it verifies and however
long it may take; by any success of the tool whose arguments were rejected; by a
validation of the same file that asks as much (`Covering`); or by a scoped check, for the same
purpose, of at least the files of one whose scope was rejected.

### Actions of `Catalog`

`Enable`, `Add`, `Reconnect` run `startLocked` in steps (dial, list, register) under the mutex;
`Ping` and `Refresh` release it while they wait for the server. `Change` is the server's new
list, which notifies every open connection; a notification carries the generation of
the connection it came by and starts a refresh, or asks the one that runs to go round again (`running`, `again`). A refresh
that returns registers its list only if session and generation are still its own (`Current`), and stays pending if the version moved.
Any request may fail.

### Actions of `Integration`

`Review` computes the result, `Deny` and `Approve` answer it, `Approve` with the second look
at workspace and worktree; `BeginCheckpoint` appends the pending record, `Write` moves
one file, `Rollback` puts one back after a failure, `FinishApplied` and `FinishReverted`
append the outcome, `IntegrateCandidate` tells the graph. `Verify`, `VerifyDone` and `Waive` are the
combined check. `Restore`, `RestoreFile`, `Restored` and `Accept` end a publication that was cut off.
One command runs at a time, since the TUI refuses these while a turn runs and the
commands hold `orchestrationMu`. `EditOutside`, `ChildEdits`, `Crash` and `Restart` may fall anywhere.

### What is abstracted

Of `Delegates`:

* A write scope is a set of paths and `Overlap` its intersection; prefixes and case
  belong to the pure-algorithm module of the plan. A reader has the empty scope.
* `Limit` is the limit after `NewScheduler` took its minimum with the global one, and
  zero where none is configured.
* The final statuses that come from an error (error, cancelled, timed out, budget
  exhausted) are one, `failed`: nothing decides by their difference.
* Tasks refused for their arguments before they ask for a slot, steering, usage and
  the marks of verification and integration are left out. The last two change
  other fields of a status and number it as every update does. Of streamed output
  only the revision it raises is kept, not the text.
* A crash loses what was not appended; the torn tail of the log belongs to
  `SessionLog`. The reopened session delivers its interruptions and starts no
  new tasks: new ones have new ids and a new scheduler.
* Bounds: `Stoppable` (who is stopped or times out), `Updates` (reports and chunks of a
  task, by its revision), `MayCrash`.

Of `GoalGraph`:

* A token stands for contents; hashing and git are not modelled, except that an
  observation may fail (`NoToken`).
* Four budgeted resources are one counter, `spent` against `limit`; a worker
  spends a member of `Costs`. Wall time does not pass: `clock` says only whether
  it runs. Reaching and crossing the limit are kept apart, as in the code.
* Evidence is the set of pairs <mutation generation, token> that were verified;
  pruning of old evidence is left out.
* Failures are the classes that acceptance tells apart. Failures of a worker other
  than an interruption are represented by the state of its attempt alone.
* A write scope is a set of paths.
* Saving never fails; `SessionLog`, `Turn` and `Integration` have failing appends.
* Publishing a candidate and recording it is one step; `Integration` splits it.
* The controller's bookkeeping of repeated completion gaps appears only as its end,
  `BlockActive` or `ExhaustBudget`, and a response revises the plan at most once.
* `StartNext` has no `ErrNoReadyNode` branch: `SchedulerFindsWork` shows that the
  code cannot reach it, but for a cancelled graph that is published from (section 6).

Of `SessionLog`: a message is its role and call ids; plan, delegate, usage, attachment and task-mode
records, which are replayed as the last value of their kind like the two that are
modelled, are one `Event`. Checkpoints are in `Integration`. Renaming or archiving a
session that is open is left out.

Of `Turn` and `CompletionGate`:

* An operation is its tool, the files it names, the text of its command (`args`) and what a check
  asks of its files (`demand`: the purpose of a scoped check, format, size and text of a validation);
  what a check covers is a set of files. A directory or tree receipt is not modelled, nor are scratch
  files, the tables' overflow (64 and 128 entries) and the retry keys that older records used.
* A record whose flush failed stays in the file. That a power loss may drop it as well is `SessionLog`'s
  (`PowerLoss`); what a restart then reads is the record before, as after `AppendFails`.
* A successful command does not mark files as changed, as in the code: it cannot tell.
* Plan mode, turns under a goal graph, compaction and steering are left out. The
  counters of empty and of truncated responses are one.
* A plan update names one resolution and one other field; the plan board is durable at once.
* Everything from outside (a failing tool or request, a refused save, an edit, a stop) spends one budget.

Of `Catalog`: a tool list is its number; resources, prompts and shadowed names are left out, as
are transports. One server: the manager keeps nothing between servers but the mutex and
the registry's names.

Of `Integration`:

* A content is a set of changes and a merge their union; a partial choice is a
  subset of files. Modes, symlinks and path rules are not modelled.
* The limits on what a checkpoint retains are the set `Large`; the marks on the task are left out,
  and so is running the checks, of which only the result matters.
* Checkpoints belong to one session; the record's append may fail and then latches.
* Faults come from `Environment`: an edit from outside, an edit of the worktree, a stop, a
  full log, a failing write. The two members "stuck" (a file that cannot be put back) and
  "unkept" (the record of an acceptance cannot be saved) stay out of the run, since they
  break two of its properties (section 6); the theorems let them in, and only those two
  properties except them.

Bounds: `SessionLog` has `MaxLines`, `MaxUpsets`; `Turn` `MaxCalls`, `MaxBatch`, `MaxTurns` and
`MaxUpsets` (`MaxIterations` and `NoProgress` are the code's own limits); `Catalog` `MaxCatalog`,
`MaxCommands`, `MaxFailures`; `Integration` the publications (`Id`) and `MaxUpsets`.

Bounds of `GoalGraph`: `MaxMutation` (actions that may change the workspace), `MaxExtensions`,
`MaxRevisions` (the code's own limit on revisions), and the sets `Environment`, `ToolKinds`,
`FailureKinds`, `Costs` from which a run takes what happens in it.

## 3. Runs

Deadlock is not checked: a graph that is done, cancelled or blocked without a
command from the user really has nothing to do, and so has a session all of whose
delegates have ended. In its place `SchedulerFindsWork`
says that a pass always finds something, `ComesToRest` that the graph gets on, and
`EveryoneSettles` that delegates do. In `Session`, `Turn`, `Catalog` and `Integration` the bounds on
lines, turns, commands and publications end a behaviour.

`SYMMETRY Contents` permutes workspace contents: no guard, action or property
names a particular token. `VIEW LiveState` keeps the whole state except the
bookkeeping (base token, evidence, nudges, flags) of attempts that ended without a
result; guards and properties read of such an attempt only what the view keeps
(verdict, worker, worktree, usage, whether it is in doubt). `Progress`, which checks
liveness, uses neither.

| Run | Instance | What it checks and shows |
|---|---|---|
| `Acceptance` | one primary node, all tool kinds but `external`, retryable and policy failures, edits, failing observations, 2 mutations, two attempts | `DoneIsVerified`: no order of tools, failures, edits, blind observations and proposals makes a node done unless a check passed after its last change, on contents other than those its edits began from. Two mutations are needed for "verified, then changed again"; one node suffices because acceptance reads no other node |
| `Restart` | research, then a change that consumes it; two plans; edits, one revision, pause, cancel, crashes at every step, recovery, retry, cached tokens | whatever is on disk reopens (`SavedGraphRestores`), nothing in doubt is attempted again (`NoReplay`), a pass finds work (`SchedulerFindsWork`), verdicts stand (`FinishedAttemptsKeep`; that the budget ends a graph with a worker out is beyond these bounds, and covered by the theorem), stops are obeyed (`StopHolds`), done and cancelled are final (`TerminalStays`). Two attempts give every retry path; two nodes give a dependency, and with it staleness; crashes may recur |
| `Waves` | three isolated writers, scopes {p}, {p,q}, {q}, two lanes, costs 1 and 2 in an envelope of 2, crash, integration, retry, reconciliation, one extension | `WritersDisjoint`, `CandidateKept`, `UnverifiedStandsAlone`, `TreesRemembered`. Three writers are the least with a pair that may and two that may not run together; a cost of 2 crosses the limit while a sibling is out |
| `Progress` | research, then a change, edits and pauses, `FairSpec` | `ComesToRest`: a graph keeps coming to an outcome or to the pause the user asked for, although edits may stale its work for ever: each new attempt costs part of the envelope |
| `Delegates` | a reader and two writers with overlapping scopes, two slots, a provider limited to one; one task may be stopped or time out, and tasks report and stream within `Updates`; a crash at any step; `FairSpec` | `SlotsAccounted`, `HeadMustWait`, `NobodyOvertakes` and `ImplementsPool` of the scheduler; `ViewCatchesUp`, `FinalIsKept` and `StopSticks` of team and session; `EveryoneIsServed` and `EveryoneSettles`. Three tasks are the least with one running, one blocked at the head and one behind it; a provider and a scope are each the only reason to wait in some state, and a stop of the head must let the one behind it through. With three tasks of which two overlap the global limit never decides alone; the theorems cover it |
| `Session` | one call id, messages of every kind, a compaction that keeps two, durable and ordinary graphs and completion records, one upset of any kind (failed, short or unflushed append, stop, power loss, amendment), rewinds and forks, a file of 7 lines; 1.4 million states | `HistoryKept`, `PromisesKept`, `ReplayAgrees`, `RewindKeepsTurn`, `OrphanFree`. Seven lines hold metadata, two turns with a call and its result or a compaction in the second, which is the least that a rewind, a compaction and a torn tail act on together |
| `Turn` | one file with two contents, six operations that the gate tells apart, two call ids that come back, three calls, one in a response, in two turns of three iterations, one upset; 3.4 million states | `OwedIsRemembered`, `NoticesBounded`, `DoneIsSettled`, `UncertainBlocks`, `NoStaleRecovery`. Two turns let an obligation cross from one to the next with a crash between; three calls are a failure, another call that takes its id, and a recovery. The scoped check and the test are one command, so that a plain success recovers a failed check. The upset may be an append or a flush that fails, at any save. There is no validation and one demand: recovery by coverage is covered by the theorems |
| `Catalog` | three changes of the list, four commands, two failures, `FairSpec`; 0.3 million states | `ConnectedIsCurrent`, `NeverOlder`, `WithdrawnStays`, `NoOrphan`, `PendingSettles`. Two refreshes overtake each other, and a reconnect falls between, within these bounds |
| `Integration` | three files, one too large to retain and one where changes clash, two candidates of the graph and one ordinary delegate, three publications, two upsets; 1.3 million states | `BytesAreRecoverable`, `IntegratedIsWhole`, `GraphStandsOnWhole`, `NoLostEdit`. Two files suffice for a publication to be cut off between them; the third publication lets a candidate be tried again after one was restored. With three upsets (17 million states) nothing else appears |

The type invariants of `GoalGraph` and `Delegates`, `RunningIsActive` and `AttemptsBounded` are
proved rather than run (section 4).

Three runs check a statement of the repository's own that the code does not keep;
TLC's counterexample is the finding.

| Run | Statement | What the code does |
|---|---|---|
| `CachedRead` | graph.go:1558, a claim must return exactly one result | usage is stored without cached tokens and compared with them, so the result of an accounted read is refused and its attempt stays running |
| `CancelledTool` | `ORCHESTRATION_STRATEGY.md:2472`, `:2503` | cancelling during a tool keeps its pending action on a cancelled attempt, and the saved graph cannot be read back |
| `TornTail` | session.go:3-5, a torn final line never corrupts accepted history | opening a file with a torn tail neither cuts nor ends it (session.go:700-707), so the next record is glued to it and lost; after one more the file does not load |

Because of `CancelledTool` and of the revision described in section 6, `SavedGraphRestores` and
`ResumeSaved` use the other parts of `ValidateSnapshot`, as named there. `TerminalStays` is checked in `Restart`,
where no candidate can be integrated (section 6). What `SessionLog` says is claimed until a file with
a torn or dropped tail was opened (`doubtful`), because of `TornTail`.

### Fairness

Only the three `FairSpec` have any, and only for what the program itself does next.

In `Catalog` the manager's own steps are weakly fair: goroutines are scheduled, and every request to
a server has a timeout, after which it fails. Nothing is assumed of the server's changes or of the user.

In `Delegates` goroutines are weakly fair: a task that was listed asks, sees its
admission or the end of its context, finishes, and gives its slot back; a stop calls
the cancel function it holds; the observer returns. A run ends because its context has
a timeout in every case (`delegateLimits` makes ten minutes of none), model calls
and tools run under that context. Nothing is assumed of the user, of when timeouts
pass, or of crashes; the two liveness properties promise nothing once the process is
down.

In `GoalGraph` that is: The steps
of a scheduling pass, a tool that was begun and the workers of a wave are weakly
fair: the loop has nothing else to do than to take them, tools and workers run under
timeouts. `RecordPrimaryUsage` is strongly fair: an iteration's tools
enable and disable it, and the loop records each response's usage before it runs
the response's tools, so no run of tools avoids it. Nothing is
assumed of the user (a pause need never be lifted), of edits, or of the model: it
may call tools for ever and never propose completion. That the user keeps the turn
going and answers approvals is the premise of the scheduling steps' fairness.

## 4. Proofs

### `GoalGraph`

Assumed: the named assumptions on the constants in `GoalGraphState` and `GoalGraph`
(node ids are a finite set of positive integers; every plan's dependencies stay
within it and it passes `ValidateExecutableSpec` and has no cycle, as `dependencyCycle` checks; `NoToken`
is not a token; limits are positive). TLC evaluates them in every run.

| Theorem | Statement |
|---|---|
| `BooksBalance` | `Spec => []IInv` |
| `TypeCorrect` | `Spec => []TypeOK` |
| `OneActiveAttempt` | `Spec => []RunningIsActive` |
| `AttemptsStayBounded` | `Spec => []AttemptsBounded` |
| `SavedStateReopens` | `Spec => []SavedGraphRestores` |
| `StepsSettle` | `Spec => []SInv` |
| `WritersStayDisjoint` | `Spec => []WritersDisjoint` |
| `UnverifiedStaysAlone` | `Spec => []UnverifiedStandsAlone` |
| `DoneIsAlwaysVerified` | `Spec => []DoneIsVerified` |
| `NothingIsReplayed` | `Spec => []NoReplay` |
| `PromiseKept` | `Spec => [][Promise]_vars` |
| `StopAlwaysHolds` | `Spec => StopHolds` |
| `FinishedAttemptsAlwaysKeep` | `Spec => FinishedAttemptsKeep` |
| `CandidatesAlwaysKept` | `Spec => CandidateKept` |
| `TreesAlwaysRemembered` | `Spec => TreesRemembered` |
| `SchedulerAlwaysFindsWork` | `Spec /\ [][LeftAlone]_vars => []SchedulerFindsWork` |
| `TerminalAlwaysStays` | `Spec /\ [][LeftAlone]_vars => TerminalStays` |

None of these invariants is inductive. That a running attempt is the active one
needs that the lanes bound who runs; that a cancel may end every running
attempt needs that an attempt with a worker out still runs; that accepted
integration gives every node a result needs that an integrated node holds an accepted
attempt; and a crash replaces `graph` by `disk`, so whatever holds of the one must
hold of the other. `IInv` is therefore `TypeOK`, `Books(graph)`, `Books(disk)` and
"no worker is out while the process is down". `Books` has nine named parts
(`RunsOnce`, `ActiveRuns`, `RunningActive`, `WorkersBelong`, `ResultsHeld`,
`WithinCap`, `LanesWellFormed`, `Ended`, `StartsBounded`).

The argument follows the code's layering. `GoalGraphSound` proves of every helper
that it leaves a *sound* snapshot (well typed, books balanced) when it is given one, or
says what it needs: `Reduced` needs no running attempt in the node it ends,
`Exhausted` ends all of them, `Started` needs that the claimed nodes fit their lane.
`GoalGraphProofs` then shows each action keeps `IInv` by naming the helpers it
composes; `Commit`, `Note` and `Unsaved` are the only ways `disk` moves
(`StepKeeps`).

`GoalGraphSteps` is about pairs of snapshots. Three relations do most of its work. `Calm(h, g)`:
g differs from h in what is ready, stale or stopped, and in no attempt, which is what readying,
reducing, noticing a token and moving the pause do. `Onwards(h, g)`: g starts nothing, every attempt
of h is on g's ledger with its verdict and its worktree, and nothing leaves review. `Unmoved(h, g)`:
what g lacks of h is no verdict, worktree or review. Each helper is shown to be calm or to go
onwards, and the relations compose (`CalmSteps`), so that an action follows from the helpers it names. Only
`Started`, `Revise`, `Crash` and `IntegrateCandidate` do something else and are proved by themselves.

The action properties are not invariants of one step alone. A pass that started before the stop came holds only
a token, so that nothing it starts breaks a limit needs `Passing`: since the pass began nothing runs and the
envelope has not moved. A crash replaces the graph by what the file holds, so that it takes no verdict back needs
`Unmoved(graph, disk)`: every verdict, worktree and review is in a durable record, and only an attempt's
bookkeeping may be lost. That nothing is done beside a published candidate needs that nobody works beside it
(`Alone`), or a late read would be accepted. `SInv` is `IInv` with these, `Disjoint`, `Reviewed` and the three
parts of the next paragraph.

`DoneIsVerified` looks at done nodes only, but a result is earned long before: at the verdict of its attempt, of
which nothing later may take the evidence away. `Earnt` therefore says of every attempt of the ledger, whatever
became of its node, that its verdict was earned by what its worker brought back (`Earned`), and that a worker's
own attempt has mutated nothing in the user's workspace. A writer's result counts only once it is published, so
`Vouched` says of a done writer that it was checked together with the others or waived; that a waiver or a
combined check covers it needs that both are given to published writers only (`Reviewed`). `Counts` (a
running node has counted its start) puts an attempt cut off by a crash among those its node holds.

`NoReplay` is not kept by `SInv` alone: a node in doubt is one that no action may start, and which guards hold
it back depends on what happened since. `Doubt` separates the cases. From the moment something is in doubt, graph
and file agree and no worker is out. Each doubt is either `Stuck` (`Recorded` as an interrupted attempt, the latest of
a node that is blocked or exhausted in a graph that has ended so, which a retry and an extension refuse) or, while
the process is down, `Lost`: the saved graph shows the attempt in flight, so the recovery that must come first
finds it. Nothing but a recovery acts on a lost one
(`RecoveryDoubts`), and reducing the graph leaves a halted one halted (`ReducedHalts`).

The last two theorems rest on `LeftAlone`: the user publishes no candidate of a cancelled graph and accepts none
published before. Without it they are false of the code, which clears a cancelled outcome when a candidate is
integrated (section 6) and then holds nodes in the state cancelled that no pass takes up. Up to that one case a
fourth relation, `Goes(h, g)`, says of every helper and action that the plan stays, no planned node is lost or
cancelled, and a final outcome is neither left nor cancelled (`Follows` adds what the file does);
revision, publication, cancellation and crashes are proved by themselves. It keeps `Steady`: every planned node
has a state, and a cancelled node is one of a cancelled graph.

`SchedulerFindsWork` is about the third step of a pass, and needs what the first two established (`Poised`):
looking again at the token the pass holds shows nothing new (`NoticedTwice`), and a ready read waits only for a
primary node. A pass that then finds no ready node, no running one and no outcome is left with
nodes that are proposed, retryable or stale. Because plans are acyclic, one of these depends on none of the
others, hence only on done nodes, and the refresh the pass begins with would have made it ready or exhausted
(`PassFindsWork`). So the error is kept away by `dependencyCycle`, by the refresh that follows
each token, and by nothing else.

Only model-checked: `ComesToRest` (liveness under fairness is out of the prover's reach).

### `Delegates`

Assumed: tasks are finitely many with a provider and a scope each, a global limit of
at least one, provider limits that do not exceed it (`NewScheduler`), and
`DelegatesAssumption` on the bounds.

| Theorem | Statement |
|---|---|
| `SchedulerSound` | `SchedulerSpec => []IInv` |
| `SchedulerTypes`, `SlotsAreAccounted`, `NoLostWakeup`, `FirstComeFirstServed`, `SchedulerImplementsPool` | of the scheduler alone |
| `DelegatesSound` | `Spec => []DInv` |
| `DelegatesTypes` | `Spec => []TypeOK` |
| `DelegatesAccounted` | `Spec => []SlotsAccounted` |
| `DelegatesWakeup` | `Spec => []HeadMustWait` |
| `DelegatesInTurn` | `Spec => NobodyOvertakes` |
| `DelegatesImplementPool` | `Spec => ImplementsPool` |
| `ViewFollows` | `Spec => []ViewCatchesUp` |
| `FinalStays` | `Spec => FinalIsKept` |
| `StopIsObeyed` | `Spec => StopSticks` |

`SlotsAccounted` is not inductive: that a withdrawal gives back exactly one slot needs
that a waiter is either queued, once, or working, and never both. `IInv` says so
(`QueueOnce`, `Placed`), that the counters are what they count (`Counted`), that what
works fits (`Roomy`), and that the head of the queue does not (`Waits`). The core
is the lemma that dispatch leaves a sound scheduler: that the k-th state of its loop is
sound follows by contradiction, from the least k at which it would not be, and
`Waits` from the loop's prefix being the longest. Each operation then only has to show
that what it hands to dispatch is sound.

`SeenByScheduler` shows that each step of `Delegates` is one of the scheduler, the end of a
context, or a crash, so the scheduler's invariant carries over. About the session,
`DInv` says that each task has a last snapshot, numbered *k*: the team's status is as it said, no
record is ahead of it, it is either in the log or on its way, and what the team numbered
since were chunks of output, of which there are none once the task has ended (`Tracks`); that
a final record is the last (`LastWord`); and that a task which has not run has not
ended (`InProgress`), without which an update after a final status could not be
excluded. So `ViewCatchesUp` promises the team's status, and its revision only of a task that
has ended: the log of one that streams lags behind by what the code does not hand out.

Only model-checked: `EveryoneIsServed` and `EveryoneSettles` (liveness).

### `Catalog`

Assumed: the bounds are naturals. `Commands` is any set: the two commands of section 6 are steps
of the specification, and a theorem that they break excludes them as steps, by name. What it
states holds until the first of them.

* `Reenables`: a server is enabled while it has a session (mcp.go:448-467);
* `Readds`: a name is added again;
* `Usual == ~Reenables /\ ~Readds`.

| Theorem | Statement |
|---|---|
| `CatalogTypes` | `Spec => []TypeOK` |
| `Withdrawn` | `Spec => []WithdrawnStays` |
| `Owned` | `Spec /\ [][~Reenables]_vars => []NoOrphan` |
| `CatalogSound` | `Spec /\ [][Usual]_vars => []IInv` |
| `ConnectedCurrent` | `Spec /\ [][Usual]_vars => []ConnectedIsCurrent` |
| `Newer` | `Spec /\ [][~Readds]_vars => NeverOlder` |

Each reservation is needed: with an excluded command in `Commands` TLC violates the property.
`Withdrawn` needs none, since whoever lists or registers has a session (`OfSession`). `Owned` needs that a
start finds no session (`Linked`), which enabling from an error breaks and adding a name does not. `Newer`
needs that the goroutines of earlier generations stay behind the present one (`Ordered`), which adding a
name breaks, since it counts from one again, and enabling from an error does not.

That a quiet server's tools are its present list is about a state in which nothing is
under way; to keep it, one must know of every state what is under way. `IInv` therefore says, besides
the types: what the command under way knows (`CommandShaped`), that the only connection is the
session's or that of the start in progress (`LinksOwned`, `SessionShaped`), that no goroutine is
ahead of the server's generation (`WorkersShaped`), that at most one of them serves the present one, and
none beside the user's refresh (`OneLister`), that a listing behind the server will be followed by
another (`ListersSound`), and that a change which is not registered waits, is being read, or left an
error (`NothingLost`).

### `Integration`

Assumed: the graph's candidates are candidates, the user is none, the bounds are naturals. Of failures nothing
is assumed; two theorems exclude two of them as steps and hold until the first. `Dependable` is a step in which no
rollback leaves a file (`RollbackFails`, delegates.go:398-402) and no acceptance stands in memory without its
record having been saved (`AcceptUnsaved`, integration_checkpoint.go:181-189).

| Theorem | Statement |
|---|---|
| `IntegrationSound` | `Spec => []IInv` |
| `PublishedWhole` | `Spec => []IntegratedIsWhole` |
| `EditsKept` | `Spec => NoLostEdit` |
| `TornSound` | `Spec /\ [][Dependable]_vars => []TInv` |
| `Recoverable` | `Spec /\ [][Dependable]_vars => []BytesAreRecoverable` |
| `StandsOnWhole` | `Spec /\ [][Dependable]_vars => GraphStandsOnWhole` |

`IntegratedIsWhole` speaks of the file, while the code decides by what it holds in memory. `InStep` says how far both
agree unless the log's failure is latched, and a latched log takes no step of the graph.
`Fresh` says that an id is used once, `JobFits` what each phase of a command has established, `GraphFits` what a node's
state in memory stands on, `EditsSafe` that what is about to be written includes
what the file holds unless it was edited since. These hold whatever fails. `TornKnown` ties each file moved to a
pending record with its former contents, in memory as in the file, and `TornFits` says which torn files are the
command's own; a rollback that leaves a file, and an acceptance only memory knows, break the first at once,
and with it both properties.

### `Turn`

Assumed: `OpAssumption` (an operation names files of the workspace; one that writes names some, an
opaque one none), `ElsewhereAssumption` (the place of an unnamed change is no file), `FileAssumption` (the
files are finitely many: gaps are counted), `NamesAssumption` (no receipt is not a content, no note is not a
disclosure), `RewrittenAssumption` (the mark of a rewrite is no call id), and that the bounds are naturals.
Nothing is assumed of `Covering`, arguments or demands.

| Theorem | Statement |
|---|---|
| `TurnSound` | `Spec => []IInv` |
| `ObligationsSurvive` | `Spec => []OwedIsRemembered` |
| `DoubtStops` | `Spec => UncertainBlocks` |
| `GateSound` | `Spec => [](IInv /\ GInv)` |
| `NoticesAreBounded` | `Spec => []NoticesBounded` |
| `DoneStaysSettled` | `Spec => DoneIsSettled` |
| `RecoveryIsFresh` | `Spec => NoStaleRecovery` |

The first two properties are about the durable record, and the code writes that record twice for an operation, before it
runs and after its result was seen; between the two only the controller in memory knows more. `IInv` follows
that: `WrittenAhead` says that what the running operation may do is pending on record and that outside a
response the two agree; `DoubtRecorded` that an outcome in doubt is pending, and that if it is the running
operation's own, its result is a failure that will not settle it; `Owing` that a change nobody checked is
owed by the record, and by the controller or by the result about to be seen, so that saving the controller
loses none. All three are about the record a restart reads, so that each save has three outcomes to prove:
where the flush fails the turn ends with an error while the record in the file is the new one, and it owes
what the controller owed at that moment. A clearing record therefore discharges from when it is in the
file, and an acknowledgement counts from then. `ObserveOwes` is the step at which a result may discharge a change: the verification
that passed read the files it covers.

The others compare what the gate decides, by its tables, with what happened, by the history. `GInv` says that
the tables are right:
- `Evidenced`: a success whose number exceeds a failure's came after it, and so did a rewrite of its files. A call id
  that comes back overwrites the number of its success, and a failure takes it away; the plan tool's own
  calls get none. The same holds of the durable record, whose numbers the next turn goes on with, and so
  `NoStaleRecovery` speaks of both: a failure missing from the record of a failed flush needs a reason as well.
- `Received`: a receipt names contents that a check of this turn saw, also while the check's result has not been
  observed. Receipts are compared with the files when the turn asks to end, so that an edit from outside can
  only make a gap appear.
- `Disclosed`: while a change has not been disclosed nothing is waived, and the board's note is the one the last
  change was made under. Between the tool's effect and the controller's sight of it (`InFlight`) this does not
  hold, and no decision is taken there.
- `Noticing`: with notices given, `interventions` and `best` account for all of them: two for each gap
  below the number at the first notice, and those given at the present one. A resolution that
  does not settle its failure is asked about even with no gap left; that case is excepted (`hist.stale`).

`GInv` needs `IInv` (that the controller has started nothing between calls, that what is in doubt is pending), not the
other way round. `ObserveOnly` is the long lemma: seven operators in a row, each with the fields it changes
(`Only`). `AssessOnly` is the other one: "done" is said only with no failure, nothing pending and every deliverable and
undisclosed change equal to its receipt (`Shown`), and a notice leaves the tables as they were.

Every property of the run `Turn` is proved.

### `SessionLog`

Assumed: call ids are a finite non-empty set, a value is no `NoValue`, the bounds are naturals.

| Theorem | Statement |
|---|---|
| `SessionSound` | `Spec => []IInv` |
| `SessionKeepsHistory` | `Spec => []HistoryKept` |
| `SessionKeepsPromises` | `Spec => []PromisesKept` |
| `SessionReplays` | `Spec => []ReplayAgrees` |
| `SessionRewinds` | `Spec => []RewindKeepsTurn` |
| `SessionHasNoOrphan` | `Spec => []OrphanFree` |

The properties are about an idle session, while the code appends record by record and releases the lock
in between. `InStep` closes that gap: with the records that the handler has yet to append (`Due`),
the log holds what memory holds, and every beginning of it reads to a conversation without orphans (`Healthy`), since
a stop may leave any of them. `Appended` says that the file is the log, except lines a failed flush may have
dropped and at most one line behind them; `Durable` that what was promised is among neither; `TurnsKept` that
each turn can be read back from the log.

`Records` and `Remembered` read a log line by line. What they do on longer, shorter and joined logs is
proved by infinite descent: the positions at which a claim fails have a least one (`WFMin` of the library), and
the definition at that position contradicts it. The lemmas are `ReadsPrefix` (the reading of a beginning
is the beginning of the reading), its consequences for an appended record, and that the
number of turn ends of a log determines `FirstTurns`.

A first attempt to prove `RewindKeepsTurn` failed for a reason TLC then showed with ten lines: a turn whose
end was torn but could still be decoded counts as a turn for `Rewind`, and the history variable
`atTurn` had no entry for it. The model, not the code, was wrong.

### Only model-checked

The liveness properties, and what the sections above name.

## 5. Plan

What would come next, in this order:

1. `GoalLifecycle` - the abstract goal (open, ended by one of six outcomes, reopened
   only by retry, extension or verification), implemented by GoalGraph.
2. Proof: that the goal graph implements `GoalLifecycle`.
3. `Accounting` - the four resources, cached tokens, the active clock at its limit.
4. `Breaker` - the probe and late answers.
5. Pure algorithms: scope normalisation and overlap, plan merge, evidence pruning,
   permission decision, each against a reference definition.

## 6. Observations not stated as properties

Met while translating. The first group are departures from a statement of the repository that an earlier
stage of the models showed or that a model shows when the named case is let in; the others
contradict no line of it, or cost only work.

Goal graph:

* An edit stales accepted research; its dependent, already `ready`, stays ready and is started
  (graph.go:4335, 4703), against `docs/ORCHESTRATION_STRATEGY.md:664`, only dependency-ready nodes are claimed.
* A revision that omits a node keeps its attempts (graph.go:3227), and `ValidateSnapshot`
  (graph.go:1222) refuses the saved graph because of them, against `docs/CAPABILITIES.md:42` and
  `ORCHESTRATION_STRATEGY.md:2503`.
* Integrating a candidate of a cancelled graph clears the outcome (graph.go:2212), against
  app.go:1541, a done or cancelled graph has no continuation. With two writers, one awaiting review and one
  running when the user cancels, publishing and accepting the first leaves a graph that is open, has
  nothing ready and nothing running: `StartNext` ends every later turn with `ErrNoReadyNode`. TLC violates
  `SchedulerFindsWork` on such a plan once "cancel" and "integrate" are both in `Environment`.
* A published node that awaits its combined check becomes `budget_exhausted` when a sibling's
  retry meets the spent envelope (graph.go:4022), against the comment above it: exhausting must not
  overwrite an accepted result.

Integration:

* A rollback ignores that a file could not be put back (`_ = replaceRooted`, delegates.go:398-402)
  and the checkpoint is recorded as reverted, against `internal/session/checkpoint.go:25-27`. With "stuck" in
  `Environment` TLC violates `BytesAreRecoverable` and `GraphStandsOnWhole`.
* `AppendIntegrationCheckpoint` changes memory before it appends, so an acceptance whose
  append failed stands in memory, against `integration_checkpoint.go:181-183`, an acceptance that was not recorded has
  not been made. With "unkept" TLC violates the same two.
* A publication of an ordinary delegate is not refused while an interrupted one is pending; restoring the older
  one then overwrites the later.

Session log and turn:

* A call whose assistant message is followed by another message when the process stops gets no
  note: `markInterrupted` looks only at the last active message, against `docs/USER_GUIDE.md:6211-6213`.
* `assess` computes the resolution issues before failures are recovered by verified files
  (completion.go:692-696), so a notice may name an issue that no gap is counted for
  (`hist.stale`; `NoticesBounded` excepts it).
* `mergePlan` keeps resolutions that an update omits, while the names of failures restart in each
  turn: an old resolution may drop a new failure of the same name.
* `SaveCompletion` appends before it flushes. When the flush fails at the end of a turn that was found done, or of an
  acknowledgement, the user sees an error and the record is in the file: a restart may read that
  nothing is owed or in doubt (`OwedIsRemembered` and `UncertainBlocks` count the record from then).
* A failure whose arguments were rejected is recovered by any success of the same tool (retryidentity.go:69-71),
  against the comment at completion.go:230-232, recovery other than by exact operations and covering
  checks "is never guessed from tool names".
* When `beginEffect` is refused, the calls after it in the response stay unanswered.
* Rewinding drops the obligations of the turns it removes.

MCP manager and breaker:

* `SetEnabled` (mcp.go:448-472) from the status error with a session still open, as after a failed ping, starts
  without stopping: the old connection stays. With "reenable" in `Commands` TLC violates `NoOrphan`
  and `ConnectedIsCurrent`.
* Removing a server and adding it again restarts its generations at one, so a notification of the
  old one is taken for the new one's, and a goroutine of the old one may list beside the new one's. With "readd" in
  `Commands` TLC violates `NeverOlder` and `ConnectedIsCurrent`.
* The breaker's `after` (`internal/provider/resilience.go:150-176`) does not know which call it
  ends: the late answer of a request from before the circuit opened ends the half-open state, and a second
  probe may run, against `docs/ROADMAP_HISTORY.md:3667`, a single half-open probe.

Others, on the goal graph and its loop:

* a token that differs from the recorded one is not adopted by a scheduling pass
  (graph.go:1821, 2791), so every later pass stales all accepted work again until
  an attempt is accepted;
* `AcceptIntegratedNodes` (graph.go:2293) can leave the outcome open with the
  active clock stopped, until the next resume;
* `goalGraphTerminalError` (`internal/agent/goalgraph.go:345`) has no case for
  `awaiting_verification`;
* `RetryNode` (graph.go:3682) with a sibling in review or integrated is ended
  again by the next reduction before the node runs;
* exhaustion turns blocked nodes into budget-stopped ones, which an extension reopens;
* when the token cannot be observed after a publication
  (`internal/app/orchestrate_integrate.go:86`) the graph is never told of it;
* usage of reads that finish after a cancel is refused and lost
  (`internal/agent/goalread.go:52`);
* a revision may not re-add an id it retired.

## 7. Not modelled

Conversation text and prompts (data); provider protocols, web, egress,
sandboxes, credentials, conpty and terminals (I/O and system calls); parsing of
shell commands; permission rules (a pure decision); TUI, CLI, configuration, LSP, skills, hooks, index,
events, replay, audit and the quality harness (no state others act on). Of the modelled parts, what
section 2 lists as abstracted, and of the plan above what it lists as left.
