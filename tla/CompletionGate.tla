--------------------------- MODULE CompletionGate ---------------------------
(* The completion controller of an ordinary turn (agent/completion.go,         *)
(* artifacts.go, recovery.go): what it remembers of the files changed, the     *)
(* calls that failed and the outcome in doubt, and whether the turn may end.   *)
(* Operators only; module Turn drives them.                                    *)
EXTENDS Integers, FiniteSets, Sequences

CONSTANTS
    File,         \* files of the workspace
    Content,      \* what a file may hold
    Call,         \* tool-call ids a provider hands out, and may hand out again
    Argument,     \* what else a call may say: the text of a command
    Demand,       \* what a check asks of its files
    Covering,     \* pairs of demands: the first asks all that the second does
    Op,           \* operations the model may ask for
    Disclosure,   \* verification notes of a plan
    Work,         \* the task mode is Work rather than Developer
    NoContent, NoNote

ASSUME NamesAssumption == NoContent \notin Content /\ NoNote \notin Disclosure
ASSUME FileAssumption == IsFiniteSet(File)

Tools == {"write", "command", "test", "scoped", "opaque", "validate", "read", "plan"}
(* A native edit names its files; an opaque one cannot.                        *)
ASSUME OpAssumption ==
    /\ Op \subseteq [tool : Tools, files : SUBSET File, args : Argument, demand : Demand]
    /\ \A op \in Op : /\ op.tool = "write" => op.files # {}
                      /\ op.tool = "opaque" => op.files = {}

maxCompletionInterventions == 2

(* Why a call was refused before it ran, where the gate tells: a correctable   *)
(* input, an argument no assessment accepts, a scoped check whose scope is     *)
(* rejected; "no" for any other reason, and for a call that ran.               *)
Rejections == {"no", "corrected", "argument", "scope"}

(* What executing an operation may change: the files a native edit names, or   *)
(* an effect nobody can bound.                                                 *)
RunCommand(op) == op.tool \in {"command", "test", "scoped"}
Effects(op) == [files |-> IF op.tool = "write" THEN op.files ELSE {},
                unknown |-> RunCommand(op) \/ op.tool = "opaque"]
Nothing == [files |-> {}, unknown |-> FALSE]
Mutating(op) == Effects(op) # Nothing
RiskWrite(op) == op.tool \in {"write", "opaque"}
Meta(op) == op.tool = "plan"

(* A record with the fields of both, the first where both have one.            *)
Joined(r, s) == [k \in DOMAIN r \cup DOMAIN s |-> IF k \in DOMAIN r THEN r[k] ELSE s[k]]

(* The durable record of unfinished obligations; Blank when there are none.    *)
Blank == [files |-> {}, unknown |-> FALSE, deliver |-> {}, failures |-> {},
          successes |-> [i \in Call |-> 0], pending |-> Nothing, seq |-> 0]
RecoveryState(c) == [k \in DOMAIN Blank |-> c[k]]

Dirty(c) == c.unknown \/ c.files # {}

(* A new controller, and the obligations it takes over: receipts, waivers and  *)
(* the count of interventions are not restored.                                *)
RestoreCompletion(d, plan) ==
    Joined(d, [waived |-> FALSE, note |-> plan.note,
            receipts |-> [f \in File |-> NoContent],
            counts |-> [i \in Call |-> 0],
            open |-> \/ plan.state = "open" \/ Dirty(d) \/ d.failures # {} \/ d.deliver # {}
                     \/ d.pending # Nothing,
            touched |-> FALSE, started |-> FALSE, misresolved |-> FALSE,
            interventions |-> 0, best |-> 0, progressed |-> FALSE])
NewController(d, plan) ==
    LET unread == {[x EXCEPT !.replanned = FALSE] : x \in d.failures}
        c == RestoreCompletion([d EXCEPT !.failures = unread], plan)
    IN  [c EXCEPT !.deliver = @ \cup IF plan.state = "open" THEN plan.deliver ELSE {}]

(* mutant of Begun: the write-ahead names no effect                            *)
BegunUnwritten(c, op) == [c EXCEPT !.started = TRUE]

(* beginEffect: the write-ahead of an operation that can change something.     *)
Begun(c, op) == [c EXCEPT !.pending = Effects(op), !.started = TRUE]

(*                              observe                                        *)
MarkDirty(c, files, plan) ==
    [c EXCEPT !.files = @ \cup files, !.unknown = @ \/ files = {},
              !.waived = FALSE, !.note = plan.note]

(* Ids come back: a failure is named by its id, the count of its failures in   *)
(* this turn, and a suffix when an older failure still holds that name.        *)
FailureName(c, id) ==
    LET taken == {x.name : x \in c.failures}
        name == IF c.counts[id] = 0 THEN <<id>> ELSE <<id, c.counts[id] + 1>>
        free(k) == Append(name, k) \notin taken
    IN  IF name \notin taken THEN name
        ELSE Append(name, CHOOSE k \in 2..(Cardinality(taken) + 2) :
                              free(k) /\ \A l \in 2..(k - 1) : ~free(l))
RecordFailure(c, o) ==
    IF Meta(o.op) \/ (o.rejected = "corrected" /\ o.prevented) THEN c
    ELSE LET x == [name |-> FailureName(c, o.id), op |-> o.op,
                   rejected |-> o.rejected, seq |-> c.seq, replanned |-> FALSE,
                   repairable |-> o.op.tool = "write" /\ ~o.prevented, repaired |-> FALSE]
         IN  [c EXCEPT !.failures = @ \cup {x}, !.counts[o.id] = @ + 1]

(* A command is the same operation whatever it verifies and however long it    *)
(* may take; of any other tool every argument counts.                          *)
SameOperation(op, p) ==
    IF RunCommand(op) /\ RunCommand(p) THEN op.args = p.args ELSE op = p
SameTool(op, p) == op.tool = p.tool \/ (RunCommand(op) /\ RunCommand(p))

(* The success of op recovers the failure x: it repeats the operation, asks as *)
(* much of the same file, follows an argument that was rejected, or checks all *)
(* files of a scoped check that was rejected, for the same purpose.            *)
MatchesRetry(x, op) ==
    /\ SameTool(x.op, op)
    /\ \/ x.rejected = "argument"
       \/ /\ op.tool = "validate" /\ x.op.files = op.files
          /\ <<op.demand, x.op.demand>> \in Covering
       \/ SameOperation(x.op, op)
RecoversRejectedVerification(x, op) ==
    /\ x.rejected = "scope" /\ op.tool = "scoped"
    /\ op.demand = x.op.demand /\ x.op.files \subseteq op.files
Recovers(op, x) == MatchesRetry(x, op) \/ RecoversRejectedVerification(x, op)

(* mutant of Settles: a success before the failure counts                      *)
SettlesByAnySuccess(c, x, r) ==
    r.by = "unnecessary" \/ (r.by \in Call /\ c.successes[r.by] > 0 /\ x.name # <<r.by>>)

(* The plan names the success of another call after the failure, or says the   *)
(* failed call was unnecessary.  A success of the plan tool is no evidence.    *)
Settles(c, x, r) ==
    \/ r.by = "unnecessary"
    \/ r.by \in Call /\ c.successes[r.by] > x.seq /\ x.name # <<r.by>>
ResolveFailuresFromPlan(c, plan) ==
    LET named(x) == {r \in plan.resolved : r.failure = x.name}
        read == {x \in c.failures : x.replanned /\ named(x) # {}}
        settled == {x \in read : \E r \in named(x) : Settles(c, x, r)}
    IN  [c EXCEPT !.failures = @ \ settled, !.misresolved = read \ settled # {}]

ClearDirty(c) == [c EXCEPT !.files = {}, !.unknown = FALSE, !.waived = FALSE]
AcceptArtifactValidation(c, files) ==
    LET rest == [c EXCEPT !.files = @ \ files]
    IN  [rest EXCEPT !.waived = @ /\ Dirty(rest)]

(* A check of named files makes them deliverables with a receipt.              *)
RecordReceipts(c, files, seen) ==
    AcceptArtifactValidation(
        [c EXCEPT !.receipts = [f \in File |-> IF f \in files THEN seen[f] ELSE @[f]],
                  !.deliver = @ \cup files],
        files)

(* A failed native edit is recovered by a later one of its files whose result  *)
(* a check has covered and nothing changed since.                              *)
MarkFileRepairs(c, o) ==
    IF o.op.tool # "write" THEN c
    ELSE [c EXCEPT !.failures =
            {[x EXCEPT !.repaired = @ \/ (x.repairable /\ x.op.files \subseteq o.op.files)]
                : x \in c.failures}]
RecoverVerifiedFileFailures(c, world) ==
    [c EXCEPT !.failures =
        {x \in c.failures : ~(x.repaired /\ \A f \in x.op.files : c.receipts[f] = world[f])}]

(* The stages of observe, in its order.                                        *)
Noticed(c, o) ==
    [c EXCEPT !.progressed = @ \/ IF ~o.prevented /\ RiskWrite(o.op) THEN TRUE
                                  ELSE IF Meta(o.op) THEN ~o.failed ELSE o.novel,
              !.seq = @ + 1]
Replanned(c, o, plan) ==
    IF Meta(o.op) /\ ~o.failed
    THEN [c EXCEPT !.deliver = @ \cup plan.deliver, !.touched = TRUE,
                   !.failures = {[x EXCEPT !.replanned = TRUE] : x \in @}]
    ELSE c
Dirtied(c, o, plan) ==
    IF ~o.prevented /\ RiskWrite(o.op) THEN MarkDirty(c, o.op.files, plan) ELSE c
Succeeded(c, o) ==
    [c EXCEPT !.successes[o.id] = IF Meta(o.op) THEN 0 ELSE c.seq,
              !.failures = {x \in @ : ~Recovers(o.op, x)}]
Verified(c, o, world) ==
    CASE o.op.tool = "test" /\ ~Work -> ClearDirty(c)
      [] o.op.tool \in {"scoped", "validate"} ->
            RecoverVerifiedFileFailures(RecordReceipts(c, o.op.files, o.seen), world)
      [] OTHER -> MarkFileRepairs(c, o)
Waived(c, o, plan) ==
    IF Meta(o.op) /\ Dirty(c) /\ plan.note \notin {NoNote, c.note}
    THEN [c EXCEPT !.waived = TRUE] ELSE c

Observe(c, o, plan, world) ==
    LET known == Dirtied(Replanned(Noticed(c, o), o, plan), o, plan)
    IN  IF o.failed
        THEN RecordFailure([known EXCEPT !.successes[o.id] = 0], o)
        ELSE LET settled == ResolveFailuresFromPlan(Succeeded(known, o), plan)
             IN  Waived(Verified(settled, o, world), o, plan)

(* mutant of Finished: any failed command settles its outcome                  *)
FinishedByAnyCommand(c, o) ==
    IF ~c.started THEN c
    ELSE [c EXCEPT !.started = FALSE,
                   !.pending = IF o.failed /\ Effects(o.op).unknown /\ ~RunCommand(o.op)
                               THEN @ ELSE Nothing]

(* finishEffect: the outcome is settled unless an unbounded effect failed      *)
(* without the command's own exit.                                             *)
Finished(c, o) ==
    IF ~c.started THEN c
    ELSE [c EXCEPT !.started = FALSE,
                   !.pending = IF o.failed /\ Effects(o.op).unknown
                                  /\ ~(RunCommand(o.op) /\ o.exited)
                               THEN @ ELSE Nothing]

(*                               assess                                        *)
ActivePlan(c, plan) == plan.state # "none" /\ (c.open \/ c.touched)

(* mutant of Valid: a receipt is trusted without a look at the file            *)
ValidOnce(c, world) == {f \in File : c.receipts[f] # NoContent}

Valid(c, world) == {f \in File : c.receipts[f] = world[f]}
CheckArtifacts(c, plan, world) ==
    AcceptArtifactValidation(
        [c EXCEPT !.deliver = @ \cup (IF ActivePlan(c, plan) THEN plan.deliver ELSE {})],
        Valid(c, world))

PlanIssues(c, plan) == IF ActivePlan(c, plan) /\ plan.state = "open" THEN 1 ELSE 0
ArtifactIssues(c, world) ==
    Cardinality({f \in File : c.receipts[f] # NoContent} \ Valid(c, world))
        + Cardinality(c.deliver \ Valid(c, world))
VerificationGap(c) == Dirty(c) /\ ~c.waived
GapCount(c, plan, world) ==
    PlanIssues(c, plan) + Cardinality(c.failures) + ArtifactIssues(c, world)
        + IF ~VerificationGap(c) THEN 0
          ELSE IF Work THEN Cardinality(c.files) + (IF c.unknown THEN 1 ELSE 0) ELSE 1

(* mutant of Interventions: no worse is progress                               *)
InterventionsForgiven(c, gap) ==
    IF c.interventions > 0 /\ gap <= c.best THEN 0 ELSE c.interventions

(* Progress is a number of gaps below the best so far.                         *)
Interventions(c, gap) == IF c.interventions > 0 /\ gap < c.best THEN 0 ELSE c.interventions

(* The decision on a final answer, and the controller it leaves.               *)
Assess(before, plan, world) ==
    LET c == CheckArtifacts(before, plan, world)
        gap == GapCount(c, plan, world)
        count == Interventions(c, gap)
        asked == [c EXCEPT !.interventions = count + 1,
                           !.best = IF @ = 0 \/ gap < @ THEN gap ELSE @]
        onlyChecks == /\ VerificationGap(c) \/ ArtifactIssues(c, world) > 0
                      /\ c.failures = {} /\ PlanIssues(c, plan) = 0
        reusable == /\ PlanIssues(c, plan) = 0 /\ ~VerificationGap(c)
                    /\ ArtifactIssues(c, world) = 0 /\ c.failures # {} /\ ~c.misresolved
    IN  IF \/ before.pending # Nothing
           \/ ActivePlan(before, plan) /\ plan.state = "blocked"
        THEN [says |-> "blocked", ctl |-> before]
        ELSE IF gap = 0 /\ ~c.misresolved THEN [says |-> "done", ctl |-> c]
        ELSE IF count >= maxCompletionInterventions
             THEN [says |-> IF onlyChecks THEN "needs_verification" ELSE "blocked",
                   ctl |-> [c EXCEPT !.interventions = count]]
        ELSE [says |-> IF reusable THEN "notice_reusable" ELSE "notice", ctl |-> asked]

(* Acknowledging an uncertain action keeps what it may have changed as an      *)
(* obligation without claiming that it ran.                                    *)
Acknowledged(d) ==
    [d EXCEPT !.files = @ \cup d.pending.files, !.unknown = @ \/ d.pending.files = {},
              !.pending = Nothing]
=============================================================================
