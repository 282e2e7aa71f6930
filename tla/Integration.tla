----------------------------- MODULE Integration -----------------------------
(* Publishing the work of delegates into the user's workspace (delegates.go,  *)
(* integration_checkpoint.go and orchestrate_integrate.go of app, and         *)
(* checkpoint.go of session): approval, the second look, the checkpoint that  *)
(* is durable before the first byte moves, the writes, their rollback, what a *)
(* person may do about an interrupted publication, and the steps of a Goal    *)
(* graph that stand on the workspace.  The process may stop at any instant,   *)
(* appends and file replacements may fail, files may be edited from outside,  *)
(* and a delegate's worktree may still change.                                *)
(*                                                                            *)
(* A content is the set of changes it holds, the empty set being the base: the*)
(* three-way merge of changes that do not clash is their union.               *)
EXTENDS Naturals, FiniteSets

CONSTANTS
    File, Candidate,
    Owned,          \* candidates of the Goal graph; the others are ordinary delegates
    Large,          \* files whose prior content a checkpoint does not retain
    Sparing,        \* candidates that leave the large files alone
    Clashing,       \* files where two changes conflict
    MaxPublications, MaxUpsets,   \* bounds
    Environment     \* which upsets happen: "edit", "child", "stop", "full", "io",
                    \* "stuck" (a rollback fails), "unkept" (an acceptance is not saved)

ASSUME SetsAssumption ==
    /\ Owned \subseteq Candidate /\ Sparing \subseteq Candidate
    /\ Large \subseteq File /\ Clashing \subseteq File /\ "user" \notin Candidate
ASSUME BoundsAssumption == MaxPublications \in Nat /\ MaxUpsets \in Nat

VARIABLES
    ws,      \* contents of the files of the workspace
    child,   \* version of each candidate's worktree, which changes what it touches
    mem,     \* checkpoints the Session remembers
    disk,    \* checkpoints the session file holds
    log,     \* the Session: open, its latched failure
    node,    \* the graph's nodes: what memory says, and what was saved
    job,     \* the command under way
    used,    \* publications and upsets so far
    torn,    \* history: files moved by a publication nobody ended, with what they held
    raced    \* history: files edited since the second look
vars == <<ws, child, mem, disk, log, node, job, used, torn, raced>>

User == "user"
Id == 1..MaxPublications
NoRecord == [cand |-> User, files |-> {}, before |-> <<>>, state |-> "none"]
NoJob == [op |-> "none", cand |-> User, id |-> 0, before |-> <<>>, version |-> 0,
          todo |-> {}, applied |-> {}, seen |-> <<>>]

Init ==
    /\ ws = [f \in File |-> {}]
    /\ child = [c \in Candidate |-> 1]
    /\ mem = [i \in Id |-> NoRecord] /\ disk = mem
    /\ log = [open |-> TRUE, failed |-> FALSE]
    /\ node = [mem |-> [c \in Owned |-> "review"], saved |-> [c \in Owned |-> "review"]]
    /\ job = NoJob /\ used = [publications |-> 0, upsets |-> 0]
    /\ torn = {} /\ raced = {}

Upset(kind) ==
    /\ kind \in Environment /\ used.upsets < MaxUpsets
    /\ used' = [used EXCEPT !.upsets = @ + 1]
Free == log.open /\ job = NoJob
Doing(op) == log.open /\ job.op = op

(*                          The preview of a candidate                        *)
Change(c) == [by |-> c, n |-> child[c]]
AlreadyApplied(c, f) == Change(c) \in ws[f]
(* The parent moved where the candidate did, or holds an older version of it. *)
Conflict(c, f) ==
    /\ ws[f] # {} /\ ~AlreadyApplied(c, f)
    /\ f \in Clashing \/ \E x \in ws[f] : x.by = c
Touched(c) == IF c \in Sparing THEN File \ Large ELSE File
Selectable(c) == {f \in Touched(c) : ~AlreadyApplied(c, f) /\ ~Conflict(c, f)}

(* Publications into this workspace without an outcome, as far as the Session *)
(* remembers.                                                                 *)
InterruptedIntegrations == {i \in Id : mem[i].state = "pending"}
Refused == InterruptedIntegrations # {}

(*                       The append of one checkpoint record                  *)
(* AppendIntegrationCheckpoint changes memory, then appends and flushes.  An  *)
(* append or flush that fails is latched; the record may be in the file when  *)
(* its flush failed.                                                          *)
Recorded(i, r) ==
    /\ ~log.failed /\ disk' = [disk EXCEPT ![i] = r]
    /\ mem' = [mem EXCEPT ![i] = r] /\ UNCHANGED <<log, used>>
\* mutant of Unrecorded: the failure is not latched
UnrecordedForgiven(i, r) ==
    /\ mem' = [mem EXCEPT ![i] = r] /\ UNCHANGED <<disk, log>> /\ Upset("full")
Unrecorded(i, r) ==
    /\ mem' = [mem EXCEPT ![i] = r]
    /\ \/ log.failed /\ UNCHANGED <<disk, log, used>>
       \/ /\ ~log.failed /\ Upset("full") /\ log' = [log EXCEPT !.failed = TRUE]
          /\ disk' \in {disk, [disk EXCEPT ![i] = r]}

(*                             The publication                                *)
(* /agents apply and integrate_delegate_changes take a reviewed choice of an  *)
(* ordinary delegate's changes; /orchestrate integrate takes a graph's        *)
(* candidate whole.  Authorize may keep the job waiting, and may refuse.      *)
Review(c) ==
    LET files == Selectable(c)
        held(chosen) == [f \in chosen |-> ws[f]]
    IN  /\ Free /\ used.publications < MaxPublications
        /\ used' = [used EXCEPT !.publications = @ + 1]
        /\ \E chosen \in (SUBSET files) \ {{}} :
              /\ c \in Owned =>
                    /\ ~Refused /\ node.mem[c] = "review"
                    /\ chosen = {f \in Touched(c) : ~AlreadyApplied(c, f)}
              /\ job' = [NoJob EXCEPT !.op = "approve", !.cand = c, !.todo = chosen,
                            !.before = held(chosen), !.version = child[c],
                            !.id = used.publications + 1]
        /\ UNCHANGED <<ws, child, mem, disk, log, node, torn, raced>>
Deny ==
    /\ Doing("approve") /\ job' = NoJob
    /\ UNCHANGED <<ws, child, mem, disk, log, node, used, torn, raced>>

(* Approval took its time: every source and target is read again.             *)
Unchanged ==
    \A f \in job.todo : /\ f \in Selectable(job.cand) /\ ws[f] = job.before[f]
                        /\ child[job.cand] = job.version
\* mutant of Approve: no second look
ApproveReviewed ==
    /\ Doing("approve") /\ raced' = {}
    /\ job' = [job EXCEPT !.op = "checkpoint"]
    /\ UNCHANGED <<ws, child, mem, disk, log, node, used, torn>>
Approve ==
    /\ Doing("approve") /\ raced' = {}
    /\ job' = IF Unchanged THEN [job EXCEPT !.op = "checkpoint"] ELSE NoJob
    /\ UNCHANGED <<ws, child, mem, disk, log, node, used, torn>>

Checkpoint ==
    [cand |-> job.cand, files |-> job.todo, state |-> "pending",
     before |-> [f \in job.todo \ Large |-> job.before[f]]]
\* mutant of BeginCheckpoint: a record that failed to be saved is only warned about
BeginCheckpointWarns ==
    /\ Doing("checkpoint") /\ job' = [job EXCEPT !.op = "write"]
    /\ Recorded(job.id, Checkpoint) \/ Unrecorded(job.id, Checkpoint)
    /\ UNCHANGED <<ws, child, node, torn, raced>>
BeginCheckpoint ==
    /\ Doing("checkpoint")
    /\ \/ Recorded(job.id, Checkpoint) /\ job' = [job EXCEPT !.op = "write"]
       \/ Unrecorded(job.id, Checkpoint) /\ job' = NoJob
    /\ UNCHANGED <<ws, child, node, torn, raced>>

(* One atomic replacement at a time; the first that fails begins the rollback.*)
After(f) == job.before[f] \cup {[by |-> job.cand, n |-> job.version]}
Write(f) ==
    /\ Doing("write") /\ f \in job.todo
    /\ \/ /\ ws' = [ws EXCEPT ![f] = After(f)] /\ UNCHANGED used
          /\ job' = [job EXCEPT !.todo = @ \ {f}, !.applied = @ \cup {f}]
          /\ torn' = torn \cup {[id |-> job.id, file |-> f, before |-> job.before[f]]}
       \/ /\ Upset("io") /\ UNCHANGED <<ws, torn>>
          /\ job' = [job EXCEPT !.op = "rollback"]
    /\ UNCHANGED <<child, mem, disk, log, node, raced>>
Rollback(f) ==
    /\ Doing("rollback") /\ f \in job.applied
    /\ job' = [job EXCEPT !.applied = @ \ {f}]
    /\ \/ /\ ws' = [ws EXCEPT ![f] = job.before[f]] /\ UNCHANGED used
          /\ torn' = {t \in torn : t.id # job.id \/ t.file # f}
       \/ Upset("stuck") /\ UNCHANGED <<ws, torn>>
    /\ UNCHANGED <<child, mem, disk, log, node, raced>>

(* The outcome; that it could not be saved is only logged.                    *)
Ended(i, state) ==
    LET r == [mem[i] EXCEPT !.state = state]
    IN  Recorded(i, r) \/ Unrecorded(i, r)
Forgotten(i) == torn' = {t \in torn : t.id # i}
\* mutant of FinishApplied: the outcome is recorded with the last file to go
FinishAppliedEarly ==
    /\ Doing("write") /\ Cardinality(job.todo) <= 1 /\ Ended(job.id, "applied")
    /\ job' = IF job.todo # {} THEN job
              ELSE IF job.cand \in Owned THEN [job EXCEPT !.op = "observe"] ELSE NoJob
    /\ IF job.todo = {} THEN Forgotten(job.id) ELSE UNCHANGED torn
    /\ UNCHANGED <<ws, child, node, raced>>
FinishApplied ==
    /\ Doing("write") /\ job.todo = {} /\ Ended(job.id, "applied")
    /\ job' = IF job.cand \in Owned THEN [job EXCEPT !.op = "observe"] ELSE NoJob
    /\ Forgotten(job.id)
    /\ UNCHANGED <<ws, child, node, raced>>
FinishReverted ==
    /\ Doing("rollback") /\ job.applied = {} /\ Ended(job.id, "reverted")
    /\ job' = NoJob
    /\ UNCHANGED <<ws, child, node, torn, raced>>

(*                       The graph's steps on the workspace                   *)
(* Memory changes first; saving it is an append like the others.              *)
Graphed(nodes) ==
    /\ \/ /\ ~log.failed /\ node' = [mem |-> nodes, saved |-> nodes]
          /\ UNCHANGED <<log, used>>
       \/ log.failed /\ node' = [node EXCEPT !.mem = nodes] /\ UNCHANGED <<log, used>>
       \/ /\ ~log.failed /\ Upset("full") /\ log' = [log EXCEPT !.failed = TRUE]
          /\ node' = [node EXCEPT !.mem = nodes]

(* The combined workspace is observed and the node integrated, or the         *)
(* observation fails and the node stays in review with its bytes published.   *)
IntegrateCandidate ==
    /\ Doing("observe") /\ job' = NoJob
    /\ \/ Graphed([node.mem EXCEPT ![job.cand] = "integrated"])
       \/ Upset("io") /\ UNCHANGED <<log, node>>
    /\ UNCHANGED <<ws, child, mem, disk, torn, raced>>

IntegratedNodes == {c \in Owned : node.mem[c] = "integrated"}
Accepted == [c \in Owned |-> IF c \in IntegratedNodes THEN "done" ELSE node.mem[c]]

(* The commands run on the workspace seen before; one may fail.               *)
Verify ==
    /\ Free /\ ~Refused /\ IntegratedNodes # {}
    /\ job' = [NoJob EXCEPT !.op = "verify", !.seen = ws]
    /\ UNCHANGED <<ws, child, mem, disk, log, node, used, torn, raced>>
VerifyDone ==
    /\ Doing("verify") /\ job' = NoJob
    /\ \/ ws = job.seen /\ Graphed(Accepted)
       \/ UNCHANGED <<log, node, used>>
    /\ UNCHANGED <<ws, child, mem, disk, torn, raced>>
\* mutant of Waive: a waiver does not look for interrupted publications
WaiveAnyway ==
    /\ Free /\ IntegratedNodes # {} /\ Graphed(Accepted)
    /\ UNCHANGED <<ws, child, mem, disk, job, torn, raced>>
Waive ==
    /\ Free /\ ~Refused /\ IntegratedNodes # {} /\ Graphed(Accepted)
    /\ UNCHANGED <<ws, child, mem, disk, job, torn, raced>>

(*                     What a person does about an interruption               *)
Restore(i) ==
    /\ Free /\ mem[i].state = "pending" /\ mem[i].files \cap Large = {}
    /\ job' = [NoJob EXCEPT !.op = "restore", !.id = i, !.todo = mem[i].files]
    /\ UNCHANGED <<ws, child, mem, disk, log, node, used, torn, raced>>
RestoreFile(f) ==
    /\ Doing("restore") /\ f \in job.todo
    /\ \/ /\ ws' = [ws EXCEPT ![f] = mem[job.id].before[f]] /\ UNCHANGED used
          /\ torn' = {t \in torn : t.id # job.id \/ t.file # f}
          /\ job' = [job EXCEPT !.todo = @ \ {f}]
       \/ Upset("io") /\ job' = NoJob /\ UNCHANGED <<ws, torn>>
    /\ UNCHANGED <<child, mem, disk, log, node, raced>>
Restored ==
    /\ Doing("restore") /\ job.todo = {} /\ job' = NoJob /\ Ended(job.id, "restored")
    /\ UNCHANGED <<ws, child, node, torn, raced>>

(* keep: an acceptance that was not saved was not made.                       *)
Accept(i) ==
    LET r == [mem[i] EXCEPT !.state = "accepted"]
    IN  /\ Free /\ mem[i].state = "pending"
        /\ \/ Recorded(i, r) /\ Forgotten(i)
           \/ "unkept" \in Environment /\ Unrecorded(i, r) /\ UNCHANGED torn
        /\ UNCHANGED <<ws, child, node, job, raced>>

(*                          From outside, and restarts                        *)
EditOutside(f) ==
    /\ Upset("edit")
    /\ ws' = [ws EXCEPT ![f] = @ \cup {[by |-> User, n |-> used'.upsets]}]
    /\ raced' = raced \cup {f}
    /\ UNCHANGED <<child, mem, disk, log, node, job, torn>>
ChildEdits(c) ==
    /\ Upset("child") /\ child' = [child EXCEPT ![c] = @ + 1]
    /\ UNCHANGED <<ws, mem, disk, log, node, job, torn, raced>>

Crash ==
    /\ log.open /\ Upset("stop")
    /\ log' = [log EXCEPT !.open = FALSE] /\ job' = NoJob
    /\ UNCHANGED <<ws, child, mem, disk, node, torn, raced>>
Restart ==
    /\ ~log.open /\ log' = [open |-> TRUE, failed |-> FALSE]
    /\ mem' = disk /\ node' = [node EXCEPT !.mem = node.saved]
    /\ UNCHANGED <<ws, child, disk, job, used, torn, raced>>

Next ==
    \/ \E c \in Candidate : Review(c) \/ ChildEdits(c)
    \/ Deny \/ Approve \/ BeginCheckpoint \/ FinishApplied \/ FinishReverted
    \/ \E f \in File : Write(f) \/ Rollback(f) \/ RestoreFile(f) \/ EditOutside(f)
    \/ IntegrateCandidate \/ Verify \/ VerifyDone \/ Waive
    \/ \E i \in Id : Restore(i) \/ Accept(i)
    \/ Restored \/ Crash \/ Restart

Spec == Init /\ [][Next]_vars
------------------------------------------------------------------------------
(* Wherever a publication was cut off, a file it moved is named by a pending  *)
(* checkpoint in the session file, with the content it held unless that was   *)
(* too large to retain: the record is there before the first byte moves and   *)
(* names an outcome only when no file is left between (publishDelegate-       *)
(* IntegrationCheckpointed; docs/CAPABILITIES.md:60).                         *)
BytesAreRecoverable ==
    \A t \in torn :
        /\ disk[t.id].state = "pending" /\ t.file \in disk[t.id].files
        /\ t.file \notin Large => disk[t.id].before[t.file] = t.before

(* A node saved as integrated was published whole: the session file says so,  *)
(* and no publication of it is left without an outcome, whichever appends     *)
(* failed and wherever the process stopped.                                   *)
IntegratedIsWhole ==
    \A c \in Owned : node.saved[c] # "review" =>
        /\ \E i \in Id : disk[i].cand = c /\ disk[i].state = "applied"
        /\ \A i \in Id : disk[i].cand = c => disk[i].state # "pending"

(* The graph takes no step on a workspace that holds part of a candidate: no  *)
(* further integration is reviewed, nothing is integrated, verified or waived *)
(* (interruptedIntegrationRefusal).                                           *)
GraphStandsOnWhole ==
    [][torn # {} /\ log.open =>
        /\ node' = node
        /\ Doing("approve")' => job.op = "approve" \/ job'.cand \notin Owned]_vars

(* A publication never drops a change somebody made before its second look,   *)
(* neither when it writes nor when it rolls back.                             *)
NoLostEdit ==
    [][job.op \in {"write", "rollback"} => \A f \in File \ raced :
        \A x \in ws[f] : x.by = job.cand \/ x \in ws'[f]]_vars
=============================================================================
