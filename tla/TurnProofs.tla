----------------------------- MODULE TurnProofs -----------------------------
(* Proofs about Turn and the gate it drives, for any number of files, calls,   *)
(* turns and upsets: what may have happened stays on record, and what the gate *)
(* lets pass is so.                                                            *)
EXTENDS Turn, TLAPS, FiniteSetTheorems

(*                          The inductive invariant                            *)
Recorded == {"files", "unknown", "deliver", "failures", "successes", "pending", "seq"}
Controlled ==
    Recorded \cup {"waived", "note", "receipts", "counts", "open", "touched", "started",
                   "misresolved", "interventions", "best", "progressed"}
Looped == {"phase", "iter", "lastProgress", "held", "calls", "run", "saw"}
Remembered ==
    {"checked", "notices", "first", "stale", "unproven", "silent", "uncertain", "since", "done"}
Told == {"failed", "prevented", "exited", "rejected"}
Request == [id : Call, op : Op]
Working == {"ask", "calls", "running", "ran"}

Shaped ==
    /\ DOMAIN disk = Recorded /\ DOMAIN ctl = Controlled /\ ctl.started \in BOOLEAN
    /\ DOMAIN turn = Looped /\ turn.phase \in Working \cup {"rest", "down"}
    /\ turn.calls \in Seq(Request)
    /\ turn.phase \in {"running", "ran"} => turn.run \in Request
    /\ turn.phase = "ran" => DOMAIN turn.saw \in {Told, Told \cup {"seen"}}
    /\ DOMAIN hist = Remembered /\ hist.uncertain \in BOOLEAN

(* What the operation under way may do is in the durable record before it      *)
(* runs, and stays there until its result is saved.                            *)
WrittenAhead ==
    /\ disk.pending.unknown => disk.pending.files = {}
    /\ turn.phase \in Working => ctl.pending = disk.pending
    /\ turn.phase \notin {"running", "ran"} => ~ctl.started
    /\ turn.phase = "running" => (ctl.started <=> Mutating(turn.run.op))
    /\ ctl.started => Mutating(turn.run.op) /\ disk.pending = Effects(turn.run.op)
    /\ turn.phase = "ran" /\ ctl.started => ~turn.saw.prevented
    /\ turn.phase = "ran" /\ turn.saw.prevented => turn.saw.failed

(* An outcome in doubt is pending, and if it is the running operation's, its   *)
(* result will not settle it.                                                  *)
DoubtRecorded ==
    hist.uncertain =>
        /\ disk.pending # Nothing
        /\ ctl.started => /\ turn.phase = "ran" /\ turn.saw.failed
                          /\ Effects(turn.run.op).unknown
                          /\ ~(RunCommand(turn.run.op) /\ turn.saw.exited)

(* A change nobody checked is owed by the record, by the controller, or by the *)
(* result that the controller is about to see.                                 *)
Places(op) == IF op.files = {} THEN {Elsewhere} ELSE op.files
Known(x, c) == IF x \in File THEN x \in c.files ELSE c.unknown
OnRecord(x, d) ==
    IF x \in File THEN x \in d.files \cup d.pending.files ELSE d.unknown \/ d.pending.unknown
Owing ==
    /\ hist.unproven \subseteq File \cup {Elsewhere}
    /\ \A x \in hist.unproven : OnRecord(x, disk)
    /\ turn.phase \in Working =>
          IF ctl.started
          THEN \A x \in hist.unproven :
                  \/ Known(x, ctl)
                  \/ turn.phase = "ran" /\ RiskWrite(turn.run.op) /\ x \in Places(turn.run.op)
          ELSE \A x \in hist.unproven : OnRecord(x, ctl)
    /\ turn.phase = "ran" /\ ~turn.saw.failed =>
          /\ turn.run.op.tool \in {"scoped", "validate"} =>
                hist.unproven \cap turn.run.op.files = {}
          /\ turn.run.op.tool = "test" /\ ~Work => hist.unproven = {}

IInv == Shaped /\ WrittenAhead /\ DoubtRecorded /\ Owing

-----------------------------------------------------------------------------
(*                     What the gate's operators keep                          *)
(* A controller that owes at least what another does, of the same effect.      *)
Follows(c, d) ==
    /\ DOMAIN d = Controlled /\ d.pending = c.pending /\ d.started = c.started
Keeps(c, d) == Follows(c, d) /\ c.files \subseteq d.files /\ (c.unknown => d.unknown)

LEMMA OpKinds ==
    ASSUME NEW op \in Op
    PROVE  /\ RiskWrite(op) => Mutating(op) /\ ~Meta(op)
           /\ RunCommand(op) => Mutating(op) /\ ~RiskWrite(op)
           /\ op.tool \in {"test", "scoped"} => RunCommand(op)
           /\ op.tool = "validate" => ~RiskWrite(op) /\ ~RunCommand(op)
           /\ op.files \in SUBSET File
           /\ DOMAIN Effects(op) = {"files", "unknown"}
           /\ Effects(op).unknown => Effects(op).files = {}
           /\ RiskWrite(op) => \A x \in Places(op) :
                 IF x \in File THEN x \in Effects(op).files ELSE Effects(op).unknown
<1>1. op \in [tool : Tools, files : SUBSET File, args : Argument, demand : Demand]
  BY OpAssumption
<1>2. op.tool = "write" => op.files # {}
  BY OpAssumption
<1>3. op.tool = "opaque" => op.files = {}
  BY OpAssumption
<1> QED
  BY <1>1, <1>2, <1>3, ElsewhereAssumption DEF RiskWrite, Mutating, Effects, Nothing, RunCommand, Meta, Places

LEMMA NoticedKeeps ==
    ASSUME NEW c, NEW o, DOMAIN c = Controlled PROVE Keeps(c, Noticed(c, o))
BY DEF Noticed, Keeps, Follows, Controlled, Recorded
LEMMA ReplannedKeeps ==
    ASSUME NEW c, NEW o, DOMAIN c = Controlled PROVE Keeps(c, Replanned(c, o, plan))
BY DEF Replanned, Keeps, Follows, Controlled, Recorded
LEMMA DirtiedKeeps ==
    ASSUME NEW c, NEW o, DOMAIN c = Controlled, o.op \in Op
    PROVE  /\ Keeps(c, Dirtied(c, o, plan))
           /\ ~o.prevented /\ RiskWrite(o.op) =>
                 \A x \in Places(o.op) : Known(x, Dirtied(c, o, plan))
BY OpKinds, ElsewhereAssumption
   DEF Dirtied, MarkDirty, Keeps, Follows, Controlled, Recorded, Known, Places
LEMMA FailureKeeps ==
    ASSUME NEW c, NEW o, DOMAIN c = Controlled PROVE Keeps(c, RecordFailure(c, o))
BY DEF RecordFailure, Keeps, Follows, Controlled, Recorded
LEMMA SucceededKeeps ==
    ASSUME NEW c, NEW o, DOMAIN c = Controlled PROVE Keeps(c, Succeeded(c, o))
BY DEF Succeeded, Keeps, Follows, Controlled, Recorded
LEMMA ResolvedKeeps ==
    ASSUME NEW c, DOMAIN c = Controlled PROVE Keeps(c, ResolveFailuresFromPlan(c, plan))
BY DEF ResolveFailuresFromPlan, Keeps, Follows, Controlled, Recorded
LEMMA WaivedKeeps ==
    ASSUME NEW c, NEW o, DOMAIN c = Controlled PROVE Keeps(c, Waived(c, o, plan))
BY DEF Waived, Keeps, Follows, Controlled, Recorded
LEMMA AcceptedKeeps ==
    ASSUME NEW c, NEW fs, DOMAIN c = Controlled
    PROVE  /\ Follows(c, AcceptArtifactValidation(c, fs))
           /\ AcceptArtifactValidation(c, fs).files = c.files \ fs
           /\ AcceptArtifactValidation(c, fs).unknown = c.unknown
           /\ AcceptArtifactValidation(c, fs).receipts = c.receipts
BY DEF AcceptArtifactValidation, Follows, Controlled, Recorded

(* A check takes off the books what it covered, and nothing else.              *)
LEMMA VerifiedKeeps ==
    ASSUME NEW c, NEW o, DOMAIN c = Controlled
    PROVE  LET d == Verified(c, o, world)
           IN  /\ Follows(c, d)
               /\ ~(o.op.tool = "test" /\ ~Work) =>
                     /\ c.unknown => d.unknown
                     /\ \A x \in c.files :
                           \/ o.op.tool \in {"scoped", "validate"} /\ x \in o.op.files
                           \/ x \in d.files
<1>1. CASE o.op.tool = "test" /\ ~Work
  BY <1>1 DEF Verified, ClearDirty, Follows, Controlled, Recorded
<1>2. CASE o.op.tool \in {"scoped", "validate"}
  <2> DEFINE b == [c EXCEPT !.receipts = [f \in File |-> IF f \in o.op.files THEN o.seen[f] ELSE @[f]],
                            !.deliver = @ \cup o.op.files]
             a == AcceptArtifactValidation(b, o.op.files)
             e == RecoverVerifiedFileFailures(a, world)
  <2>1. Keeps(c, b) /\ b.files = c.files
    BY DEF Keeps, Follows, Controlled, Recorded
  <2> HIDE DEF b
  <2>2. Follows(b, a) /\ a.files = b.files \ o.op.files /\ a.unknown = b.unknown
    BY <2>1, AcceptedKeeps DEF Keeps, Follows
  <2>3. Keeps(a, e) /\ Verified(c, o, world) = e
    <3> HIDE DEF a
    <3>1. Keeps(a, e)
      BY <2>2 DEF RecoverVerifiedFileFailures, Keeps, Follows, Controlled, Recorded
    <3>2. Verified(c, o, world) = e
      BY <1>2 DEF Verified, RecordReceipts, a, b
    <3> QED
      BY <3>1, <3>2
  <2> QED
    BY <1>2, <2>1, <2>2, <2>3 DEF Keeps, Follows
<1>3. CASE ~(o.op.tool = "test" /\ ~Work) /\ o.op.tool \notin {"scoped", "validate"}
  <2>1. Verified(c, o, world) = MarkFileRepairs(c, o)
    BY <1>3 DEF Verified
  <2> QED
    BY <2>1 DEF MarkFileRepairs, Follows, Controlled, Recorded
<1> QED
  BY <1>1, <1>2, <1>3

(* What the controller owes once it has seen a result: what it owed, and what  *)
(* the operation changed, less what the operation checked.                     *)
LEMMA ObserveOwes ==
    ASSUME NEW o, DOMAIN ctl = Controlled, o.op \in Op
    PROVE  LET d == Observe(ctl, o, plan, world)
           IN  /\ Follows(ctl, d)
               /\ \A x \in File \cup {Elsewhere} :
                     \/ Known(x, ctl)
                     \/ ~o.prevented /\ RiskWrite(o.op) /\ x \in Places(o.op)
                     => \/ Known(x, d)
                        \/ /\ ~o.failed
                           /\ \/ o.op.tool = "test" /\ ~Work
                              \/ o.op.tool \in {"scoped", "validate"} /\ x \in o.op.files
<1> DEFINE n == Noticed(ctl, o)
           r == Replanned(n, o, plan)
           k == Dirtied(r, o, plan)
           f == [k EXCEPT !.successes[o.id] = 0]
           s == Succeeded(k, o)
           p == ResolveFailuresFromPlan(s, plan)
           v == Verified(p, o, world)
           w == Waived(v, o, plan)
<1>1. Keeps(ctl, n) /\ DOMAIN n = Controlled
  BY NoticedKeeps DEF Keeps, Follows
<1>2. Keeps(n, r) /\ DOMAIN r = Controlled
  BY <1>1, ReplannedKeeps DEF Keeps, Follows
<1>3. /\ Keeps(r, k) /\ DOMAIN k = Controlled
      /\ ~o.prevented /\ RiskWrite(o.op) => \A x \in Places(o.op) : Known(x, k)
  BY <1>2, DirtiedKeeps DEF Keeps, Follows
<1>4. /\ Keeps(ctl, k)
      /\ \A x : Known(x, ctl) \/ (~o.prevented /\ RiskWrite(o.op) /\ x \in Places(o.op))
                => Known(x, k)
  BY <1>1, <1>2, <1>3 DEF Keeps, Follows, Known
<1>5. CASE o.failed
  <2>1. Keeps(k, f) /\ DOMAIN f = Controlled
    BY <1>3 DEF Keeps, Follows, Controlled, Recorded
  <2>2. Keeps(f, RecordFailure(f, o))
    BY <2>1, FailureKeeps
  <2>3. Observe(ctl, o, plan, world) = RecordFailure(f, o)
    BY <1>5 DEF Observe
  <2>4. Keeps(k, RecordFailure(f, o))
    BY <2>1, <2>2 DEF Keeps, Follows
  <2> HIDE DEF f
  <2> QED
    BY <1>4, <2>3, <2>4 DEF Keeps, Follows, Known
<1>6. CASE ~o.failed
  <2>1. Keeps(k, s) /\ DOMAIN s = Controlled
    BY <1>3, SucceededKeeps DEF Keeps, Follows
  <2>2. Keeps(s, p) /\ DOMAIN p = Controlled
    BY <2>1, ResolvedKeeps DEF Keeps, Follows
  <2>3. /\ Follows(p, v) /\ DOMAIN v = Controlled
        /\ ~(o.op.tool = "test" /\ ~Work) =>
              /\ p.unknown => v.unknown
              /\ \A x \in p.files :
                    \/ o.op.tool \in {"scoped", "validate"} /\ x \in o.op.files
                    \/ x \in v.files
    BY <2>2, VerifiedKeeps DEF Follows
  <2>4. Keeps(v, w)
    BY <2>3, WaivedKeeps
  <2>5. Observe(ctl, o, plan, world) = w
    BY <1>6 DEF Observe
  <2> HIDE DEF s, p, v, w, k
  <2>6. Follows(ctl, w)
    BY <1>4, <2>1, <2>2, <2>3, <2>4 DEF Keeps, Follows
  <2>7. ASSUME NEW x, Known(x, k),
               ~(o.op.tool = "test" /\ ~Work),
               ~(o.op.tool \in {"scoped", "validate"} /\ x \in o.op.files)
        PROVE  Known(x, w)
    <3>1. Known(x, p)
      BY <2>1, <2>2, <2>7 DEF Keeps, Known
    <3>2. Known(x, v)
      BY <2>3, <2>7, <3>1 DEF Known
    <3> QED
      BY <2>4, <3>2 DEF Keeps, Known
  <2> QED
    BY <1>4, <1>6, <2>5, <2>6, <2>7
<1> QED
  BY <1>5, <1>6

LEMMA FinishedKeeps ==
    ASSUME NEW c, NEW o, DOMAIN c = Controlled, c.started \in BOOLEAN
    PROVE  LET d == Finished(c, o)
           IN  /\ DOMAIN d = Controlled /\ d.started = FALSE
               /\ d.files = c.files /\ d.unknown = c.unknown
               /\ ~c.started => d.pending = c.pending
               /\ c.started => d.pending \in {c.pending, Nothing}
               /\ o.failed /\ Effects(o.op).unknown /\ ~(RunCommand(o.op) /\ o.exited) =>
                     d.pending = c.pending
BY DEF Finished, Controlled, Recorded

(* A decision never drops a change whose bytes are not those of a receipt, and *)
(* says "done" of no outcome in doubt.                                         *)
LEMMA AssessKeeps ==
    ASSUME DOMAIN ctl = Controlled
    PROVE  LET a == Assess(ctl, plan, world)
           IN  /\ Follows(ctl, a.ctl)
               /\ a.says = "done" => ctl.pending = Nothing
               /\ ctl.unknown => a.ctl.unknown
               /\ \A x \in ctl.files \cap File : world[x] # ctl.receipts[x] => x \in a.ctl.files
<1> DEFINE b == [ctl EXCEPT !.deliver = @ \cup (IF ActivePlan(ctl, plan) THEN plan.deliver ELSE {})]
           c == CheckArtifacts(ctl, plan, world)
           gap == GapCount(c, plan, world)
           count == Interventions(c, gap)
           asked == [c EXCEPT !.interventions = count + 1,
                              !.best = IF @ = 0 \/ gap < @ THEN gap ELSE @]
           given == [c EXCEPT !.interventions = count]
           a == Assess(ctl, plan, world)
<1>1. Keeps(ctl, b) /\ b.files = ctl.files /\ b.receipts = ctl.receipts
  BY DEF Keeps, Follows, Controlled, Recorded
<1>2. c = AcceptArtifactValidation(b, Valid(ctl, world))
  BY DEF CheckArtifacts
<1> HIDE DEF b, c
<1>3. Follows(b, c) /\ c.files = b.files \ Valid(ctl, world) /\ c.unknown = b.unknown
  BY <1>1, <1>2, AcceptedKeeps DEF Keeps, Follows
<1>4. /\ Follows(ctl, c) /\ (ctl.unknown => c.unknown)
      /\ \A x \in ctl.files \cap File : world[x] # ctl.receipts[x] => x \in c.files
  BY <1>1, <1>3 DEF Keeps, Follows, Valid
<1>5. Keeps(c, asked) /\ Keeps(c, given)
  BY <1>4 DEF Keeps, Follows, Controlled, Recorded
<1>6. a.ctl \in {ctl, c, asked, given} /\ (a.says = "done" => ctl.pending = Nothing)
  BY DEF Assess, c
<1> HIDE DEF asked, given, a
<1> QED
  BY <1>4, <1>5, <1>6 DEF Keeps, Follows, a

LEMMA BlankKind ==
    /\ DOMAIN Blank = Recorded /\ Blank.pending = Nothing /\ Blank.files = {} /\ Blank.unknown = FALSE
BY DEF Blank, Recorded
LEMMA RecordKind ==
    ASSUME NEW c
    PROVE  /\ DOMAIN RecoveryState(c) = Recorded /\ RecoveryState(c).pending = c.pending
           /\ RecoveryState(c).files = c.files /\ RecoveryState(c).unknown = c.unknown
BY BlankKind DEF RecoveryState, Recorded
LEMMA ControllerKind ==
    ASSUME NEW d, NEW p, DOMAIN d = Recorded
    PROVE  LET c == NewController(d, p)
           IN  /\ DOMAIN c = Controlled /\ c.started = FALSE
               /\ c.pending = d.pending /\ c.files = d.files /\ c.unknown = d.unknown
<1> DEFINE unread == {[x EXCEPT !.replanned = FALSE] : x \in d.failures}
           e == [d EXCEPT !.failures = unread]
           c == RestoreCompletion(e, p)
<1>1. DOMAIN e = Recorded /\ e.pending = d.pending /\ e.files = d.files /\ e.unknown = d.unknown
  BY DEF Recorded
<1> HIDE DEF e
<1>2. /\ DOMAIN c = Controlled /\ c.started = FALSE
      /\ c.pending = d.pending /\ c.files = d.files /\ c.unknown = d.unknown
  BY <1>1 DEF RestoreCompletion, Joined, Controlled, Recorded
<1>3. NewController(d, p) =
        [c EXCEPT !.deliver = @ \cup IF p.state = "open" THEN p.deliver ELSE {}]
  BY DEF NewController, e
<1> HIDE DEF c
<1> QED
  BY <1>2, <1>3 DEF Controlled, Recorded

(*                         One lemma for each action                           *)
LEMMA InitSound == Init => IInv
<1> SUFFICES ASSUME Init PROVE IInv
  OBVIOUS
<1>1. DOMAIN ctl = Controlled /\ ctl.started = FALSE
  BY BlankKind, ControllerKind DEF Init, NoController
<1>2. DOMAIN hist = Remembered /\ hist.uncertain = FALSE /\ hist.unproven = {}
  BY DEF Init, HistoryInit, Fresh, Joined, Remembered
<1>3. DOMAIN turn = Looped /\ turn.phase = "rest" /\ turn.calls \in Seq(Request)
  BY DEF Init, Rest, Looped
<1>4. /\ DOMAIN disk = Recorded /\ disk.pending = Nothing
      /\ disk.pending.unknown = FALSE
  BY BlankKind DEF Init, Nothing
<1>5. Shaped
  BY <1>1, <1>2, <1>3, <1>4 DEF Shaped
<1>6. WrittenAhead
  BY <1>1, <1>3, <1>4 DEF WrittenAhead, Working
<1>7. DoubtRecorded /\ Owing
  BY <1>2, <1>3 DEF DoubtRecorded, Owing, Working
<1> QED
  BY <1>5, <1>6, <1>7 DEF IInv

(* Without a turn only the durable record owes.                                *)
LEMMA Resting ==
    ASSUME NEW h, DOMAIN h = Remembered, h.uncertain \in BOOLEAN,
           h.unproven \subseteq File \cup {Elsewhere},
           DOMAIN disk' = Recorded, h.uncertain => disk'.pending # Nothing,
           disk'.pending.unknown => disk'.pending.files = {},
           \A x \in h.unproven : OnRecord(x, disk'),
           \/ turn' = Rest
           \/ turn' = [Rest EXCEPT !.phase = "down"],
           ctl' = NoController, hist' = Joined(Fresh, h)
    PROVE  IInv'
<1>1. DOMAIN ctl' = Controlled /\ ctl'.started = FALSE
  BY BlankKind, ControllerKind DEF NoController
<1>2. DOMAIN hist' = Remembered /\ hist'.uncertain = h.uncertain /\ hist'.unproven = h.unproven
  BY DEF Fresh, Joined, Remembered
<1>3. DOMAIN turn' = Looped /\ turn'.phase \in {"rest", "down"} /\ turn'.calls \in Seq(Request)
  <2>1. <<>> \in Seq(Request)
    OBVIOUS
  <2>2. CASE turn' = Rest
    BY <2>1, <2>2 DEF Rest, Looped
  <2>3. CASE turn' = [Rest EXCEPT !.phase = "down"]
    BY <2>1, <2>3 DEF Rest, Looped
  <2> QED
    BY <2>2, <2>3
<1> QED
  BY <1>1, <1>2, <1>3 DEF IInv, Shaped, WrittenAhead, DoubtRecorded, Owing, Working, OnRecord

LEMMA EndTurnKeeps ==
    ASSUME NEW h, NEW result, DOMAIN h = Remembered, h.uncertain \in BOOLEAN,
           h.unproven \subseteq File \cup {Elsewhere},
           DOMAIN disk' = Recorded, h.uncertain => disk'.pending # Nothing,
           disk'.pending.unknown => disk'.pending.files = {},
           \A x \in h.unproven : OnRecord(x, disk'),
           EndTurn(h, result)
    PROVE  IInv'
<1> DEFINE g == [h EXCEPT !.done = result = "done"]
<1>1. DOMAIN g = Remembered /\ g.uncertain = h.uncertain /\ g.unproven = h.unproven
  BY DEF Remembered
<1>2. turn' = Rest /\ ctl' = NoController /\ hist' = Joined(Fresh, g)
  BY DEF EndTurn
<1> HIDE DEF g
<1> QED
  BY <1>1, <1>2, Resting

(* A turn may end wherever its changes are on record.                          *)
LEMMA TurnEnds ==
    ASSUME IInv, NEW result, EndTurn(hist, result), UNCHANGED disk
    PROVE  IInv'
<1>1. \A x \in hist.unproven : OnRecord(x, disk')
  BY DEF IInv, Owing, OnRecord
<1> QED
  BY <1>1, EndTurnKeeps DEF IInv, Shaped, WrittenAhead, DoubtRecorded, Owing

LEMMA StartTurnKeeps == ASSUME IInv, StartTurn PROVE IInv'
<1>1. /\ DOMAIN ctl' = Controlled /\ ctl'.started = FALSE
      /\ ctl'.pending = disk.pending /\ ctl'.files = disk.files /\ ctl'.unknown = disk.unknown
  BY ControllerKind DEF StartTurn, IInv, Shaped
<1>2. DOMAIN turn' = Looped /\ turn'.phase = "ask" /\ turn'.calls \in Seq(Request)
  BY DEF StartTurn, Rest, Looped
<1>3. DOMAIN hist' = Remembered /\ hist'.uncertain = hist.uncertain /\ hist'.unproven = hist.unproven
  BY DEF StartTurn, IInv, Shaped, Remembered
<1>4. disk' = disk
  BY DEF StartTurn
<1> QED
  BY <1>1, <1>2, <1>3, <1>4
     DEF IInv, Shaped, WrittenAhead, DoubtRecorded, Owing, Working, OnRecord, Looped

(* A step that only moves the loop between its idle points.                    *)
LEMMA MovesKeep ==
    ASSUME IInv, turn.phase \in {"ask", "calls"},
           DOMAIN turn' = Looped, turn'.phase \in {"ask", "calls"}, turn'.calls \in Seq(Request),
           UNCHANGED disk, Follows(ctl, ctl'), ctl.unknown => ctl'.unknown,
           DOMAIN hist' = Remembered, hist'.uncertain = hist.uncertain,
           hist'.unproven \subseteq hist.unproven,
           \A x \in hist'.unproven : x \in ctl.files /\ x \in File => x \in ctl'.files
    PROVE  IInv'
<1>1. Shaped'
  BY DEF IInv, Shaped, Follows, Working
<1>2. WrittenAhead'
  BY DEF IInv, WrittenAhead, Shaped, Follows, Working
<1>3. DoubtRecorded'
  BY DEF IInv, DoubtRecorded, WrittenAhead, Shaped, Follows, Working
<1>4. Owing'
  BY DEF IInv, Owing, WrittenAhead, Shaped, Follows, Working, OnRecord
<1> QED
  BY <1>1, <1>2, <1>3, <1>4 DEF IInv

LEMMA RespondUnusableKeeps == ASSUME IInv, RespondUnusable PROVE IInv'
<1>1. CASE turn' = NextIteration(turn) /\ UNCHANGED <<ctl, hist>>
  BY <1>1, MovesKeep DEF RespondUnusable, Asking, NextIteration, IInv, Shaped, Looped, Follows
<1>2. CASE EndTurn(hist, "error")
  BY <1>2, TurnEnds DEF RespondUnusable
<1> QED
  BY <1>1, <1>2 DEF RespondUnusable

LEMMA ResponsesKind == \A calls \in Responses : calls \in Seq(Request)
<1> SUFFICES ASSUME NEW n \in 1..MaxBatch, NEW calls \in [1..n -> Request]
             PROVE  calls \in Seq(Request)
  BY DEF Responses, Request
<1>1. n \in Nat
  BY LimitsAssumption
<1> QED
  BY <1>1

LEMMA RespondCallsKeeps ==
    ASSUME IInv, NEW calls \in Responses, RespondCalls(calls) PROVE IInv'
<1>1. calls \in Seq(Request)
  BY ResponsesKind
<1> QED
  BY <1>1, MovesKeep DEF RespondCalls, Asking, IInv, Shaped, Looped, Follows

(* Whatever the gate decides, no change is forgotten.                          *)
LEMMA AssessedKeeps ==
    ASSUME IInv, turn.phase \in {"ask", "calls"}, NEW decision, NEW continued,
           Assessed(decision, continued),
           Follows(ctl, decision.ctl), decision.says = "done" => ctl.pending = Nothing,
           ctl.unknown => decision.ctl.unknown,
           \A x \in ctl.files \cap File : world[x] # ctl.receipts[x] => x \in decision.ctl.files,
           DOMAIN continued = Looped, continued.phase \in {"ask", "calls"},
           continued.calls \in Seq(Request)
    PROVE  IInv'
<1> DEFINE h == [hist EXCEPT !.unproven = {x \in @ : x \notin File \/ world[x] # ctl.receipts[x]}]
           e == [h EXCEPT !.unproven = {}, !.silent = {}, !.since = {}]
<1>1. /\ DOMAIN h = Remembered /\ h.uncertain = hist.uncertain
      /\ h.unproven = {x \in hist.unproven : x \notin File \/ world[x] # ctl.receipts[x]}
  BY DEF IInv, Shaped, Remembered
<1>2. DOMAIN e = Remembered /\ e.uncertain = hist.uncertain /\ e.unproven = {}
  BY <1>1 DEF Remembered
<1> HIDE DEF h, e
<1>3. CASE decision.says = "done"
  <2>1. ~hist.uncertain
    BY <1>3 DEF IInv, DoubtRecorded, WrittenAhead, Working
  <2>2. CASE (Saved(Blank) \/ FlushFails(Blank)) /\ EndTurn(e, "done")
    <3>1. DOMAIN disk' = Recorded
      BY <2>2, BlankKind DEF Saved, FlushFails
    <3>2. disk'.pending.unknown => disk'.pending.files = {}
      BY <2>2, BlankKind DEF Saved, FlushFails, Nothing
    <3> QED
      BY <1>2, <2>1, <2>2, <3>1, <3>2, EndTurnKeeps DEF IInv, Shaped
  <2>3. CASE AppendFails /\ EndTurn(h, "error")
    <3>1. disk' = disk
      BY <2>3 DEF AppendFails
    <3>2. \A x \in h.unproven : OnRecord(x, disk')
      BY <1>1, <3>1 DEF IInv, Owing, OnRecord
    <3> QED
      BY <1>1, <2>1, <2>3, <3>1, <3>2, EndTurnKeeps DEF IInv, Shaped, Owing, WrittenAhead
  <2> QED
    BY <1>3, <2>2, <2>3 DEF Assessed, h, e
<1>4. CASE decision.says \in {"blocked", "needs_verification"}
  <2>1. EndTurn(h, decision.says) /\ disk' = disk
    BY <1>4 DEF Assessed, h
  <2>2. \A x \in h.unproven : OnRecord(x, disk')
    BY <1>1, <2>1 DEF IInv, Owing, OnRecord
  <2> QED
    BY <1>1, <2>1, <2>2, EndTurnKeeps DEF IInv, Shaped, Owing, DoubtRecorded, WrittenAhead
<1>5. CASE decision.says \notin {"done", "blocked", "needs_verification"}
  <2>1. /\ turn' = continued /\ ctl' = decision.ctl /\ disk' = disk
        /\ hist' = Notice(h, GapCount(decision.ctl, plan, world))
    BY <1>5 DEF Assessed, h
  <2>2. /\ DOMAIN hist' = Remembered /\ hist'.uncertain = hist.uncertain
        /\ hist'.unproven = h.unproven
    BY <1>1, <2>1 DEF Notice, Remembered
  <2> QED
    BY <1>1, <2>1, <2>2, MovesKeep
<1> QED
  BY <1>3, <1>4, <1>5

LEMMA RespondFinalKeeps == ASSUME IInv, RespondFinal PROVE IInv'
<1> DEFINE decision == Assess(ctl, plan, world)
           held == IF decision.says = "notice_reusable" /\ turn.held = "none"
                   THEN "reusable" ELSE turn.held
           continued == NextIteration([turn EXCEPT !.held = held])
<1>1. Assessed(decision, continued) /\ turn.phase = "ask"
  BY DEF RespondFinal, Asking
<1>2. DOMAIN continued = Looped /\ continued.phase = "ask" /\ continued.calls \in Seq(Request)
  BY DEF NextIteration, IInv, Shaped, Looped
<1>3. /\ Follows(ctl, decision.ctl) /\ (decision.says = "done" => ctl.pending = Nothing)
      /\ ctl.unknown => decision.ctl.unknown
      /\ \A x \in ctl.files \cap File : world[x] # ctl.receipts[x] => x \in decision.ctl.files
  BY AssessKeeps DEF IInv, Shaped
<1> HIDE DEF decision, continued
<1> QED
  BY <1>1, <1>2, <1>3, AssessedKeeps

LEMMA CallsDoneKeeps == ASSUME IInv, CallsDone PROVE IInv'
<1>1. DOMAIN Renewed = Looped /\ Renewed.phase = "ask" /\ Renewed.calls \in Seq(Request)
  BY DEF Renewed, NextIteration, IInv, Shaped, Looped
<1>2. CASE turn.held = "reusable"
  <2> DEFINE a == Assess(ctl, plan, world)
             decision == [a EXCEPT !.ctl = [@ EXCEPT !.progressed = FALSE]]
  <2>1. /\ Follows(ctl, a.ctl) /\ (a.says = "done" => ctl.pending = Nothing)
        /\ ctl.unknown => a.ctl.unknown
        /\ \A x \in ctl.files \cap File : world[x] # ctl.receipts[x] => x \in a.ctl.files
        /\ DOMAIN a = {"says", "ctl"}
    <3>1. DOMAIN a = {"says", "ctl"}
      BY DEF Assess
    <3> QED
      BY <3>1, AssessKeeps DEF IInv, Shaped
  <2>2. Assessed(decision, Renewed) /\ turn.phase = "calls"
    BY <1>2 DEF CallsDone
  <2> HIDE DEF a
  <2>3. /\ decision.says = a.says /\ Follows(a.ctl, decision.ctl)
        /\ decision.ctl.files = a.ctl.files /\ decision.ctl.unknown = a.ctl.unknown
    BY <2>1 DEF Follows, Controlled, Recorded
  <2> HIDE DEF decision
  <2>4. Follows(ctl, decision.ctl)
    BY <2>1, <2>3 DEF Follows
  <2> QED
    BY <1>1, <2>1, <2>2, <2>3, <2>4, AssessedKeeps
<1>3. CASE turn.held # "reusable"
  <2>1. /\ turn' = Renewed /\ ctl' = [ctl EXCEPT !.progressed = FALSE]
        /\ UNCHANGED <<disk, hist>> /\ turn.phase = "calls"
    BY <1>3 DEF CallsDone
  <2>2. Follows(ctl, ctl') /\ ctl'.files = ctl.files /\ ctl'.unknown = ctl.unknown
    BY <2>1 DEF IInv, Shaped, Follows, Controlled, Recorded
  <2> QED
    BY <1>1, <2>1, <2>2, MovesKeep DEF IInv, Shaped
<1> QED
  BY <1>2, <1>3

LEMMA TakenKind ==
    ASSUME IInv, Taking, NEW phase
    PROVE  /\ DOMAIN Taken(phase) = Looped /\ Taken(phase).phase = phase
           /\ Taken(phase).calls \in Seq(Request) /\ Taken(phase).saw = turn.saw
           /\ Taken(phase).run = Head(turn.calls) /\ Head(turn.calls) \in Request
           /\ Head(turn.calls).op \in Op
<1>1. turn.calls \in Seq(Request) /\ turn.calls # <<>>
  BY DEF IInv, Shaped, Taking
<1>2. Head(turn.calls) \in Request /\ Tail(turn.calls) \in Seq(Request)
  BY <1>1
<1>3. Head(turn.calls).op \in Op
  BY <1>2 DEF Request
<1> QED
  BY <1>2, <1>3 DEF Taken, IInv, Shaped, Looped

LEMMA RefuseKeeps == ASSUME IInv, NEW rejected \in Rejections, Refuse(rejected) PROVE IInv'
<1>1. /\ DOMAIN turn' = Looped /\ turn'.phase = "ran" /\ turn'.calls \in Seq(Request)
      /\ turn'.run \in Request
      /\ turn'.saw = Observation(TRUE, TRUE, FALSE, rejected)
  <2>1. Taking /\ turn' = [Taken("ran") EXCEPT !.saw = Observation(TRUE, TRUE, FALSE, rejected)]
    BY DEF Refuse
  <2> QED
    BY <2>1, TakenKind DEF Looped
<1>2. DOMAIN turn'.saw = Told /\ turn'.saw.failed = TRUE /\ turn'.saw.prevented = TRUE
  BY <1>1 DEF Observation, Told
<1>3. UNCHANGED <<disk, ctl, hist>> /\ turn.phase = "calls"
  BY DEF Refuse, Taking
<1>4. ~ctl.started
  BY <1>3 DEF IInv, WrittenAhead
<1>5. Shaped' /\ WrittenAhead'
  BY <1>1, <1>2, <1>3, <1>4 DEF IInv, Shaped, WrittenAhead, Working
<1>6. DoubtRecorded' /\ Owing'
  BY <1>1, <1>2, <1>3, <1>4 DEF IInv, DoubtRecorded, Owing, Working, OnRecord
<1> QED
  BY <1>5, <1>6 DEF IInv

LEMMA BeginKeeps == ASSUME IInv, Begin PROVE IInv'
<1> DEFINE op == Head(turn.calls).op
           begun == Begun(ctl, op)
<1>1. /\ DOMAIN Taken("running") = Looped /\ Taken("running").phase = "running"
      /\ Taken("running").calls \in Seq(Request) /\ Taken("running").run \in Request
      /\ Taken("running").run.op = op /\ op \in Op /\ turn.phase = "calls"
  BY TakenKind DEF Begin, Taking
<1>2. ~ctl.started /\ ctl.pending = disk.pending /\ \A x \in hist.unproven : OnRecord(x, ctl)
  BY <1>1 DEF IInv, WrittenAhead, Owing, Working
<1>3. CASE ~Mutating(op)
  <2>1. turn' = Taken("running") /\ UNCHANGED <<disk, ctl, hist>>
    BY <1>3 DEF Begin
  <2>2. Shaped' /\ WrittenAhead'
    BY <1>1, <1>2, <1>3, <2>1 DEF IInv, Shaped, WrittenAhead, Working
  <2>3. DoubtRecorded' /\ Owing'
    BY <1>1, <1>2, <2>1 DEF IInv, DoubtRecorded, Owing, Working, OnRecord
  <2> QED
    BY <2>2, <2>3 DEF IInv
<1>4. CASE Mutating(op)
  <2>1. ctl.pending = Nothing /\ ~hist.uncertain
    BY <1>2, <1>4 DEF Begin, IInv, DoubtRecorded
  <2>2. \A x \in hist.unproven : Known(x, ctl)
    BY <1>2, <2>1 DEF OnRecord, Known, Nothing
  <2>3. CASE Saved(RecoveryState(begun)) /\ ctl' = begun /\ turn' = Taken("running") /\ UNCHANGED hist
    <3>1. /\ DOMAIN ctl' = Controlled /\ ctl'.started = TRUE /\ ctl'.pending = Effects(op)
          /\ ctl'.files = ctl.files /\ ctl'.unknown = ctl.unknown
      BY <2>3 DEF Begun, IInv, Shaped, Controlled, Recorded
    <3>2. /\ DOMAIN disk' = Recorded /\ disk'.pending = ctl'.pending
          /\ disk'.files = ctl'.files /\ disk'.unknown = ctl'.unknown
      BY <2>3, RecordKind DEF Saved
    <3>3. Shaped' /\ WrittenAhead'
      <4>1. turn'.run.op = op /\ turn'.phase = "running"
        BY <1>1, <2>3
      <4>2. Effects(op).unknown => Effects(op).files = {}
        BY <1>1, OpKinds
      <4> HIDE DEF op, begun
      <4>3. WrittenAhead'
        BY <1>4, <3>1, <3>2, <4>1, <4>2 DEF WrittenAhead
      <4>4. Shaped'
        BY <1>1, <2>3, <3>1, <3>2 DEF IInv, Shaped, Working
      <4> QED
        BY <4>3, <4>4
    <3>4. DoubtRecorded' /\ Owing'
      BY <1>1, <2>1, <2>2, <2>3, <3>1, <3>2 DEF IInv, DoubtRecorded, Owing, Working, OnRecord, Known
    <3> QED
      BY <3>3, <3>4 DEF IInv
  <2>4. CASE FlushFails(RecoveryState(begun)) /\ EndTurn(hist, "error")
    <3>1. /\ DOMAIN begun = Controlled /\ begun.pending = Effects(op)
          /\ begun.files = ctl.files /\ begun.unknown = ctl.unknown
      BY DEF Begun, IInv, Shaped, Controlled, Recorded
    <3>2. /\ DOMAIN disk' = Recorded /\ disk'.pending = Effects(op)
          /\ disk'.files = ctl.files /\ disk'.unknown = ctl.unknown
      BY <2>4, <3>1, RecordKind DEF FlushFails
    <3>3. Effects(op).unknown => Effects(op).files = {}
      BY <1>1, OpKinds
    <3> HIDE DEF op, begun
    <3>4. \A x \in hist.unproven : OnRecord(x, disk')
      BY <2>2, <3>2 DEF OnRecord, Known
    <3> QED
      BY <2>1, <2>4, <3>2, <3>3, <3>4, EndTurnKeeps DEF IInv, Shaped, Owing
  <2>5. CASE AppendFails /\ EndTurn(hist, "error")
    BY <2>5, TurnEnds DEF AppendFails
  <2> QED
    BY <1>4, <2>3, <2>4, <2>5 DEF Begin
<1> QED
  BY <1>3, <1>4

(* What the run of an operation leaves unproven is on record before it runs.   *)
LEMMA TouchedOnRecord ==
    ASSUME IInv, turn.phase = "running"
    PROVE  LET h == Touched(hist, turn.run.op)
           IN  /\ DOMAIN h = Remembered /\ h.uncertain = hist.uncertain
               /\ h.unproven \subseteq File \cup {Elsewhere}
               /\ \A x \in h.unproven : OnRecord(x, disk)
               /\ \A x \in h.unproven : x \in hist.unproven
                     \/ (RiskWrite(turn.run.op) /\ x \in Places(turn.run.op))
<1> DEFINE op == turn.run.op
           h == Touched(hist, op)
<1>1. op \in Op
  BY DEF IInv, Shaped, Request
<1>2. /\ DOMAIN h = Remembered /\ h.uncertain = hist.uncertain
      /\ h.unproven = IF RiskWrite(op) THEN hist.unproven \cup Places(op) ELSE hist.unproven
  BY DEF Touched, Places, IInv, Shaped, Remembered
<1>3. RiskWrite(op) => disk.pending = Effects(op)
  BY <1>1, OpKinds DEF IInv, WrittenAhead
<1>4. Places(op) \subseteq File \cup {Elsewhere}
  BY <1>1, OpKinds DEF Places
<1>5. ASSUME RiskWrite(op), NEW x \in Places(op) PROVE OnRecord(x, disk)
  BY <1>1, <1>3, <1>5, OpKinds DEF OnRecord
<1> HIDE DEF h, op
<1>6. \A x \in h.unproven : OnRecord(x, disk)
  BY <1>2, <1>5 DEF IInv, Owing
<1>7. h.unproven \subseteq File \cup {Elsewhere}
  BY <1>2, <1>4 DEF IInv, Owing
<1>8. \A x \in h.unproven : x \in hist.unproven \/ (RiskWrite(op) /\ x \in Places(op))
  BY <1>2
<1> QED
  BY <1>2, <1>6, <1>7, <1>8 DEF h, op

LEMMA ExecuteKeeps ==
    ASSUME IInv, NEW failed \in BOOLEAN, NEW exited \in BOOLEAN, Execute(failed, exited)
    PROVE  IInv'
<1> DEFINE op == turn.run.op
           h == Touched(hist, op)
           g == [h EXCEPT !.uncertain = @ \/ (Effects(op).unknown /\ ~exited)]
<1>1. /\ op \in Op /\ turn.run \in Request /\ turn.phase = "running"
      /\ UNCHANGED <<disk, ctl>> /\ (exited => failed /\ RunCommand(op))
  BY DEF IInv, Shaped, Request, Execute
<1>2. /\ DOMAIN turn' = Looped /\ turn'.phase = "ran" /\ turn'.calls = turn.calls
      /\ turn'.run = turn.run
      /\ turn'.saw = Joined(Observation(failed, FALSE, exited, "no"), [seen |-> world'])
  BY DEF Execute, IInv, Shaped, Looped
<1>3. /\ DOMAIN turn'.saw = Told \cup {"seen"} /\ turn'.saw.failed = failed
      /\ turn'.saw.prevented = FALSE /\ turn'.saw.exited = exited
  BY <1>2 DEF Joined, Observation, Told
<1>4. /\ DOMAIN h = Remembered /\ h.uncertain = hist.uncertain
      /\ h.unproven \subseteq File \cup {Elsewhere}
      /\ \A x \in h.unproven : OnRecord(x, disk)
      /\ \A x \in h.unproven : x \in hist.unproven \/ (RiskWrite(op) /\ x \in Places(op))
  BY <1>1, TouchedOnRecord
<1>5. hist' = IF failed THEN g ELSE Checked(h, op)
  BY DEF Execute
<1> HIDE DEF h
<1>6. /\ DOMAIN hist' = Remembered /\ hist'.unproven \subseteq h.unproven
      /\ hist'.uncertain \in BOOLEAN
      /\ hist'.uncertain => hist.uncertain \/ (failed /\ Effects(op).unknown /\ ~exited)
      /\ ~failed /\ op.tool \in {"scoped", "validate"} => hist'.unproven \cap op.files = {}
      /\ ~failed /\ op.tool = "test" /\ ~Work => hist'.unproven = {}
  <2>1. hist.uncertain \in BOOLEAN
    BY DEF IInv, Shaped
  <2>2. CASE failed
    BY <1>4, <1>5, <2>1, <2>2 DEF Remembered
  <2>3. CASE ~failed
    BY <1>4, <1>5, <2>1, <2>3 DEF Checked, Remembered
  <2> QED
    BY <2>2, <2>3
<1>7. Shaped'
  BY <1>1, <1>2, <1>3, <1>6 DEF IInv, Shaped, Working
<1>8. WrittenAhead'
  BY <1>1, <1>2, <1>3 DEF IInv, WrittenAhead, Working
<1>9. DoubtRecorded'
  <2>1. ctl.started => ~hist.uncertain
    BY <1>1 DEF IInv, DoubtRecorded
  <2>2. Effects(op).unknown => Mutating(op) /\ ctl.started /\ disk.pending = Effects(op)
    BY <1>1, OpKinds DEF IInv, WrittenAhead, Mutating, Nothing
  <2>3. Effects(op).unknown => disk.pending # Nothing
    BY <2>2 DEF Nothing
  <2> QED
    BY <1>1, <1>2, <1>3, <1>6, <2>1, <2>2, <2>3 DEF IInv, DoubtRecorded
<1>10. Owing'
  <2>1. \A x \in hist'.unproven : OnRecord(x, disk')
    BY <1>1, <1>4, <1>6 DEF OnRecord
  <2>2. CASE ctl.started
    <3>1. \A x \in hist.unproven : Known(x, ctl)
      BY <1>1, <2>2 DEF IInv, Owing, Working
    <3> QED
      BY <1>1, <1>2, <1>3, <1>4, <1>6, <2>1, <2>2, <3>1 DEF Owing, Known
  <2>3. CASE ~ctl.started
    <3>1. ~RiskWrite(op)
      BY <1>1, <2>3, OpKinds DEF IInv, WrittenAhead
    <3>2. \A x \in hist.unproven : OnRecord(x, ctl)
      BY <1>1, <2>3 DEF IInv, Owing, Working
    <3> QED
      BY <1>1, <1>2, <1>3, <1>4, <1>6, <2>1, <2>3, <3>1, <3>2 DEF Owing, OnRecord
  <2> QED
    BY <2>2, <2>3
<1> QED
  BY <1>7, <1>8, <1>9, <1>10 DEF IInv

LEMMA PlanKeeps ==
    ASSUME IInv, (\E update \in Updates : UpdatePlan(update)) \/ PlanRefused PROVE IInv'
<1>1. /\ turn.phase = "running" /\ Meta(turn.run.op) /\ UNCHANGED <<disk, ctl>>
      /\ DOMAIN turn' = Looped /\ turn'.phase = "ran" /\ turn'.calls = turn.calls
      /\ turn'.run = turn.run /\ DOMAIN turn'.saw = Told /\ turn'.saw.prevented = FALSE
  <2>1. /\ turn.phase = "running" /\ Meta(turn.run.op) /\ UNCHANGED <<disk, ctl>>
        /\ \E failed \in BOOLEAN :
              turn' = [turn EXCEPT !.phase = "ran",
                                   !.saw = Observation(failed, FALSE, FALSE, "no")]
    BY DEF UpdatePlan, PlanRefused
  <2> QED
    BY <2>1 DEF Observation, Told, IInv, Shaped, Looped
<1>2. /\ DOMAIN hist' = Remembered /\ hist'.uncertain = hist.uncertain
      /\ hist'.unproven = hist.unproven
  BY DEF UpdatePlan, PlanRefused, IInv, Shaped, Remembered
<1>3. /\ ~ctl.started /\ ~Mutating(turn.run.op)
      /\ turn.run.op.tool \notin {"scoped", "validate", "test"}
  BY <1>1, OpKinds DEF Meta, Mutating, Effects, Nothing, RunCommand, IInv, WrittenAhead
<1>4. Shaped' /\ WrittenAhead'
  BY <1>1, <1>2, <1>3 DEF IInv, Shaped, WrittenAhead, Working
<1>5. DoubtRecorded' /\ Owing'
  BY <1>1, <1>2, <1>3 DEF IInv, DoubtRecorded, Owing, Working, OnRecord
<1> QED
  BY <1>4, <1>5 DEF IInv

LEMMA ObserveResultKeeps ==
    ASSUME IInv, NEW novel \in BOOLEAN, ObserveResult(novel) PROVE IInv'
<1> DEFINE o == Joined([novel |-> novel], Joined(turn.saw, turn.run))
           d == Observe(ctl, o, plan, world)
           c == Finished(d, o)
           op == turn.run.op
<1>1. /\ op \in Op /\ turn.run \in Request /\ turn.phase = "ran"
      /\ DOMAIN turn.saw \in {Told, Told \cup {"seen"}} /\ DOMAIN turn.run = {"id", "op"}
  BY DEF IInv, Shaped, Request, ObserveResult
<1>2. /\ o.op = op /\ o.failed = turn.saw.failed /\ o.prevented = turn.saw.prevented
      /\ o.exited = turn.saw.exited
  <2> DEFINE s == Joined(turn.saw, turn.run)
  <2>1. /\ s.op = op /\ s.failed = turn.saw.failed /\ s.prevented = turn.saw.prevented
        /\ s.exited = turn.saw.exited /\ Told \cup {"op"} \subseteq DOMAIN s
    BY <1>1 DEF Joined, Told
  <2> HIDE DEF s
  <2> QED
    BY <2>1 DEF Joined, Told, s
<1> HIDE DEF o
<1>3. /\ Follows(ctl, d)
      /\ \A x \in File \cup {Elsewhere} :
            \/ Known(x, ctl)
            \/ ~o.prevented /\ RiskWrite(o.op) /\ x \in Places(o.op)
            => \/ Known(x, d)
               \/ /\ ~o.failed
                  /\ \/ o.op.tool = "test" /\ ~Work
                     \/ o.op.tool \in {"scoped", "validate"} /\ x \in o.op.files
  BY <1>1, <1>2, ObserveOwes DEF IInv, Shaped
<1> HIDE DEF d
<1>4. /\ DOMAIN c = Controlled /\ c.started = FALSE
      /\ c.files = d.files /\ c.unknown = d.unknown
      /\ ~ctl.started => c.pending = ctl.pending
      /\ c.pending \in {ctl.pending, Nothing}
      /\ o.failed /\ Effects(o.op).unknown /\ ~(RunCommand(o.op) /\ o.exited) =>
            c.pending = ctl.pending
  BY <1>3, FinishedKeeps DEF Follows, IInv, Shaped
<1> HIDE DEF c
<1>5. CASE AppendFails /\ EndTurn(hist, "error")
  BY <1>5, TurnEnds DEF AppendFails
<1> DEFINE h == [hist EXCEPT !.since = MadeGood(@, ctl.failures, c.failures, o)]
<1>6. DOMAIN h = Remembered /\ h.uncertain = hist.uncertain /\ h.unproven = hist.unproven
  BY DEF IInv, Shaped, Remembered
<1>7. ctl.pending = disk.pending
  BY <1>1 DEF IInv, WrittenAhead, Working
<1>8. c.pending.unknown => c.pending.files = {}
  BY <1>4, <1>7 DEF IInv, WrittenAhead, Nothing
<1>9. hist.uncertain => c.pending = ctl.pending
  BY <1>2, <1>4 DEF IInv, DoubtRecorded, Shaped
<1>10. ASSUME NEW x \in hist.unproven PROVE OnRecord(x, c)
  <2>1. /\ x \in File \cup {Elsewhere}
        /\ ~turn.saw.failed => /\ ~(op.tool = "test" /\ ~Work)
                               /\ ~(op.tool \in {"scoped", "validate"} /\ x \in op.files)
    BY <1>1 DEF IInv, Owing
  <2>2. Known(x, ctl) => Known(x, d)
    BY <1>2, <1>3, <2>1
  <2>3. Known(x, d) => OnRecord(x, c)
    BY <1>4 DEF Known, OnRecord
  <2>4. CASE ctl.started
    <3>1. Known(x, ctl) \/ (RiskWrite(op) /\ x \in Places(op))
      BY <1>1, <2>4 DEF IInv, Owing, Working
    <3>2. ~turn.saw.prevented
      BY <1>1, <2>4 DEF IInv, WrittenAhead
    <3>3. Known(x, d)
      BY <1>2, <1>3, <2>1, <3>1, <3>2
    <3> QED
      BY <2>3, <3>3
  <2>5. CASE ~ctl.started
    <3>1. OnRecord(x, ctl) /\ c.pending = ctl.pending
      BY <1>1, <1>4, <2>5 DEF IInv, Owing, Working
    <3>2. Known(x, ctl) \/ OnRecord(x, c)
      BY <3>1 DEF Known, OnRecord
    <3> QED
      BY <2>2, <2>3, <3>2
  <2> QED
    BY <2>4, <2>5
<1> HIDE DEF h
<1>11. CASE FlushFails(RecoveryState(c)) /\ EndTurn(h, "error")
  <2>1. /\ DOMAIN disk' = Recorded /\ disk'.pending = c.pending
        /\ disk'.files = c.files /\ disk'.unknown = c.unknown
    BY <1>4, <1>11, RecordKind DEF FlushFails
  <2>2. \A x \in h.unproven : OnRecord(x, disk')
    BY <1>6, <1>10, <2>1 DEF OnRecord
  <2>3. h.uncertain => disk'.pending # Nothing
    BY <1>6, <1>7, <1>9, <2>1 DEF IInv, DoubtRecorded
  <2> QED
    BY <1>6, <1>8, <1>11, <2>1, <2>2, <2>3, EndTurnKeeps DEF IInv, Shaped, Owing
<1>12. CASE /\ Saved(RecoveryState(c)) /\ ctl' = c
            /\ turn' = [turn EXCEPT !.phase = "calls", !.run = NoRun, !.saw = NoSaw]
            /\ hist' = h
  <2>1. /\ DOMAIN disk' = Recorded /\ disk'.pending = c.pending
        /\ disk'.files = c.files /\ disk'.unknown = c.unknown /\ ctl' = c
    BY <1>4, <1>12, RecordKind DEF Saved
  <2>2. DOMAIN turn' = Looped /\ turn'.phase = "calls" /\ turn'.calls = turn.calls
    BY <1>12 DEF IInv, Shaped, Looped
  <2>3. /\ DOMAIN hist' = Remembered /\ hist'.uncertain = hist.uncertain
        /\ hist'.unproven = hist.unproven
    BY <1>6, <1>12
  <2>4. Shaped'
    BY <1>4, <2>1, <2>2, <2>3 DEF IInv, Shaped, Working
  <2>5. WrittenAhead'
    BY <1>4, <1>8, <2>1, <2>2, <2>3 DEF WrittenAhead, Working
  <2>6. DoubtRecorded'
    BY <1>4, <1>7, <1>9, <2>1, <2>2, <2>3 DEF IInv, DoubtRecorded
  <2>7. Owing'
    BY <1>4, <1>10, <2>1, <2>2, <2>3 DEF IInv, Owing, OnRecord
  <2> QED
    BY <2>4, <2>5, <2>6, <2>7 DEF IInv
<1> QED
  BY <1>5, <1>11, <1>12 DEF ObserveResult, o, d, c, h

LEMMA AcknowledgeKeeps == ASSUME IInv, Acknowledge PROVE IInv'
<1>1. turn.phase = "rest" /\ UNCHANGED <<ctl, turn>>
  BY DEF Acknowledge
<1>2. CASE /\ Saved(Acknowledged(disk)) \/ FlushFails(Acknowledged(disk))
           /\ hist' = [hist EXCEPT !.uncertain = FALSE]
  <2>1. /\ DOMAIN disk' = Recorded /\ disk'.pending = Nothing
        /\ disk'.files = disk.files \cup disk.pending.files
        /\ disk'.unknown = (disk.unknown \/ disk.pending.files = {})
    BY <1>2 DEF Saved, FlushFails, Acknowledged, IInv, Shaped, Recorded
  <2>2. /\ DOMAIN hist' = Remembered /\ hist'.uncertain = FALSE
        /\ hist'.unproven = hist.unproven
    BY <1>2 DEF IInv, Shaped, Remembered
  <2>3. disk.pending.unknown => disk.pending.files = {}
    BY DEF IInv, WrittenAhead
  <2>4. \A x \in hist'.unproven : OnRecord(x, disk')
    BY <2>1, <2>2, <2>3 DEF IInv, Owing, OnRecord
  <2>5. Shaped'
    BY <1>1, <2>1, <2>2 DEF IInv, Shaped
  <2>6. ctl.started = FALSE
    BY <1>1 DEF IInv, Shaped, WrittenAhead
  <2>7. WrittenAhead'
    BY <1>1, <2>1, <2>6 DEF WrittenAhead, Working, Nothing
  <2>8. DoubtRecorded' /\ Owing'
    BY <1>1, <2>2, <2>4 DEF IInv, DoubtRecorded, Owing, Working
  <2> QED
    BY <2>5, <2>7, <2>8 DEF IInv
<1>3. CASE AppendFails /\ UNCHANGED hist
  <2>1. UNCHANGED <<disk, hist, ctl, turn>>
    BY <1>1, <1>3 DEF AppendFails
  <2> QED
    BY <2>1 DEF IInv, Shaped, WrittenAhead, DoubtRecorded, Owing, OnRecord, Known
<1> QED
  BY <1>2, <1>3 DEF Acknowledge

(* A crash leaves on record whatever the running operation may have done.      *)
LEMMA CrashKeeps == ASSUME IInv, Crash PROVE IInv'
<1> DEFINE op == turn.run.op
           running == turn.phase = "running" /\ ~Meta(op)
           h == IF running THEN Touched(hist, op) ELSE hist
           g == [h EXCEPT !.done = FALSE, !.uncertain = @ \/ ctl.started]
<1>1. /\ DOMAIN h = Remembered /\ h.uncertain = hist.uncertain
      /\ h.unproven \subseteq File \cup {Elsewhere}
      /\ \A x \in h.unproven : OnRecord(x, disk)
  <2>1. CASE running
    BY <2>1, TouchedOnRecord
  <2>2. CASE ~running
    BY <2>2 DEF IInv, Shaped, Owing
  <2> QED
    BY <2>1, <2>2
<1>2. turn' = [Rest EXCEPT !.phase = "down"] /\ ctl' = NoController /\ hist' = Joined(Fresh, g)
  BY DEF Crash
<1> HIDE DEF h
<1>3. /\ DOMAIN g = Remembered /\ g.uncertain = (hist.uncertain \/ ctl.started)
      /\ g.unproven = h.unproven
  BY <1>1 DEF Remembered
<1>4. g.uncertain => disk.pending # Nothing
  BY <1>3 DEF IInv, Shaped, WrittenAhead, DoubtRecorded, Mutating
<1>5. disk' = disk /\ DOMAIN disk = Recorded /\ (disk.pending.unknown => disk.pending.files = {})
  BY DEF Crash, IInv, Shaped, WrittenAhead
<1>6. g.uncertain \in BOOLEAN
  BY <1>3 DEF IInv, Shaped
<1>7. \A x \in g.unproven : OnRecord(x, disk')
  BY <1>1, <1>3, <1>5 DEF OnRecord
<1> HIDE DEF g
<1> QED
  BY <1>1, <1>2, <1>3, <1>4, <1>5, <1>6, <1>7, Resting

LEMMA StepSound == IInv /\ [Next]_vars => IInv'
<1> SUFFICES ASSUME IInv, [Next]_vars PROVE IInv'
  OBVIOUS
<1>1. ASSUME Limit \/ ProviderFails \/ BeginRefused PROVE IInv'
  BY <1>1, TurnEnds DEF Limit, ProviderFails, BeginRefused
<1>2. ASSUME UNCHANGED <<disk, ctl, turn, hist>> PROVE IInv'
  BY <1>2 DEF IInv, Shaped, WrittenAhead, DoubtRecorded, Owing, OnRecord, Known
<1>3. EditOutside => UNCHANGED <<disk, ctl, turn, hist>>
  BY DEF EditOutside
<1>4. ASSUME Restart PROVE IInv'
  <2>1. UNCHANGED <<disk, ctl, hist>> /\ turn' = Rest /\ turn.phase = "down"
    BY <1>4 DEF Restart
  <2>2. DOMAIN turn' = Looped /\ turn'.phase = "rest" /\ turn'.calls \in Seq(Request)
    BY <2>1 DEF Rest, Looped
  <2>3. Shaped' /\ WrittenAhead'
    BY <2>1, <2>2 DEF IInv, Shaped, WrittenAhead, Working
  <2>4. DoubtRecorded' /\ Owing'
    BY <2>1, <2>2 DEF IInv, WrittenAhead, DoubtRecorded, Owing, Working, OnRecord
  <2> QED
    BY <2>3, <2>4 DEF IInv
<1>5. ASSUME Agent PROVE IInv'
  BY <1>1, <1>5, RespondUnusableKeeps, RespondFinalKeeps, RespondCallsKeeps, CallsDoneKeeps,
     BeginKeeps, RefuseKeeps, ExecuteKeeps, PlanKeeps, ObserveResultKeeps DEF Agent
<1> QED
  BY <1>2, <1>3, <1>4, <1>5, StartTurnKeeps, AcknowledgeKeeps, CrashKeeps DEF Next, vars

-----------------------------------------------------------------------------
(*                                Theorems                                     *)
(* The invariant: what is under way is written ahead, what is in doubt is      *)
(* pending, what is unproven is owed by the record a restart reads, whichever  *)
(* append or flush fails (recovery.go beginEffect, saveRecovery).              *)
THEOREM TurnSound == Spec => []IInv
<1> QED
  BY InitSound, StepSound, PTL DEF Spec

(* Obligations survive turns and restarts (recovery.go): a change no check has *)
(* covered is owed by the record a restart reads, at every instant until a turn*)
(* is found done and the record that clears it is in the file.                 *)
THEOREM ObligationsSurvive == Spec => []OwedIsRemembered
<1>1. IInv => OwedIsRemembered
  BY DEF IInv, Owing, OwedIsRemembered, OnRecord
<1> QED
  BY <1>1, TurnSound, PTL

(* While an outcome is in doubt no operation that could change anything begins *)
(* (recovery.go beginEffect), until an acknowledgement is in the file.         *)
THEOREM DoubtStops == Spec => UncertainBlocks
<1>1. ASSUME IInv, [Next]_vars, turn'.phase = "running", turn.phase # "running",
             Mutating(turn'.run.op)
      PROVE  ~hist.uncertain
  <2>1. DOMAIN turn = Looped
    BY <1>1 DEF IInv, Shaped
  <2>2. ASSUME NEW h, NEW result, EndTurn(h, result) PROVE FALSE
    BY <1>1, <2>2 DEF EndTurn, Rest
  <2>3. ASSUME NEW decision, NEW continued, continued.phase = "ask", Assessed(decision, continued)
        PROVE  FALSE
    BY <1>1, <2>2, <2>3 DEF Assessed
  <2>4. NextIteration(turn).phase = "ask" /\ Renewed.phase = "ask"
    BY <2>1 DEF NextIteration, Renewed, Looped
  <2>5. ~RespondFinal
    <3>1. ASSUME NEW held PROVE NextIteration([turn EXCEPT !.held = held]).phase = "ask"
      BY <2>1 DEF NextIteration, Looped
    <3> QED
      BY <2>3, <3>1 DEF RespondFinal
  <2>6. ~CallsDone
    BY <1>1, <2>3, <2>4 DEF CallsDone
  <2>7. ~Limit /\ ~ProviderFails /\ ~RespondUnusable /\ ~BeginRefused
    BY <1>1, <2>2, <2>4 DEF Limit, ProviderFails, RespondUnusable, BeginRefused
  <2>8. \A calls \in Responses : ~RespondCalls(calls)
    BY <1>1, <2>1 DEF RespondCalls, Looped
  <2>9. \A rejected \in Rejections : ~Refuse(rejected)
    <3> SUFFICES ASSUME NEW rejected \in Rejections, Refuse(rejected) PROVE FALSE
      OBVIOUS
    <3>1. DOMAIN Taken("ran") = Looped /\ Taken("ran").phase = "ran"
      BY <1>1, TakenKind DEF Refuse
    <3> QED
      BY <1>1, <3>1 DEF Refuse, Looped
  <2>10. /\ \A failed, exited \in BOOLEAN : ~Execute(failed, exited)
         /\ \A update \in Updates : ~UpdatePlan(update)
         /\ ~PlanRefused
    BY <1>1, <2>1 DEF Execute, UpdatePlan, PlanRefused, Looped
  <2>11. \A novel \in BOOLEAN : ~ObserveResult(novel)
    <3> SUFFICES ASSUME NEW novel \in BOOLEAN, ObserveResult(novel) PROVE FALSE
      OBVIOUS
    <3>1. turn' # [turn EXCEPT !.phase = "calls", !.run = NoRun, !.saw = NoSaw]
      BY <1>1, <2>1 DEF Looped
    <3> QED
      BY <2>2, <3>1 DEF ObserveResult
  <2>12. ~StartTurn /\ ~Acknowledge /\ ~EditOutside /\ ~Crash /\ ~Restart /\ ~UNCHANGED vars
    <3>1. Rest.phase = "rest" /\ \A p : [Rest EXCEPT !.phase = p].phase = p
      BY DEF Rest
    <3>2. [Rest EXCEPT !.phase = "ask", !.iter = 1].phase = "ask"
      BY DEF Rest
    <3>3. turn' # turn
      BY <1>1
    <3>4. ~StartTurn /\ ~Crash /\ ~Restart
      BY <1>1, <3>1, <3>2 DEF StartTurn, Crash, Restart
    <3> QED
      BY <3>3, <3>4 DEF Acknowledge, EditOutside, vars
  <2>13. Begin
    BY <1>1, <2>5, <2>6, <2>7, <2>8, <2>9, <2>10, <2>11, <2>12 DEF Next, Agent
  <2>14. turn' = Taken("running") /\ (Mutating(Head(turn.calls).op) => ctl.pending = Nothing)
         /\ turn.phase = "calls"
    <3>1. ~EndTurn(hist, "error")
      BY <2>2
    <3>2. Taking
      BY <2>13 DEF Begin
    <3>3. CASE Mutating(Head(turn.calls).op)
      BY <2>13, <3>1, <3>2, <3>3 DEF Begin, Taking
    <3>4. CASE ~Mutating(Head(turn.calls).op)
      BY <2>13, <3>2, <3>4 DEF Begin, Taking
    <3> QED
      BY <3>3, <3>4
  <2>15. Mutating(Head(turn.calls).op)
    BY <1>1, <2>13, <2>14, TakenKind DEF Begin
  <2> QED
    BY <1>1, <2>14, <2>15 DEF IInv, WrittenAhead, DoubtRecorded, Working
<1>2. IInv /\ [Next]_vars =>
        [turn'.phase = "running" /\ turn.phase # "running" /\ Mutating(turn'.run.op)
            => ~hist.uncertain]_vars
  BY <1>1
<1> QED
  BY <1>2, TurnSound, PTL DEF Spec, UncertainBlocks

-----------------------------------------------------------------------------
(*      What the gate remembers: each operator changes only its own fields     *)
Named == {"name", "op", "rejected", "seq", "replanned", "repairable", "repaired"}
Listed(xs) == IsFiniteSet(xs) /\ \A x \in xs : DOMAIN x = Named /\ x.op \in Op /\ x.seq \in Nat
Counted(d) ==
    /\ d.files \subseteq File /\ d.deliver \subseteq File
    /\ Listed(d.failures) /\ d.seq \in Nat
    /\ d.successes \in [Call -> Nat] /\ \A i \in Call : d.successes[i] <= d.seq

(* d is c but for the fields ks.                                               *)
Only(c, d, ks) == DOMAIN d = Controlled /\ \A k \in Controlled \ ks : d[k] = c[k]
(* The same failure, whatever the agent knows of it.                           *)
Alike(x, y) ==
    /\ x.name = y.name /\ x.seq = y.seq /\ x.op = y.op
    /\ x.rejected = y.rejected /\ x.repaired = y.repaired

LEMMA NoticedOnly ==
    ASSUME NEW c, NEW o, DOMAIN c = Controlled
    PROVE  /\ Only(c, Noticed(c, o), {"progressed", "seq"})
           /\ Noticed(c, o).seq = c.seq + 1
BY DEF Only, Noticed, Controlled, Recorded

Restamped(xs, b) == {[x EXCEPT !.replanned = b] : x \in xs}
LEMMA Marked ==
    ASSUME NEW xs, Listed(xs), NEW b \in BOOLEAN
    PROVE  /\ Listed(Restamped(xs, b))
           /\ \A y \in Restamped(xs, b) : \E x \in xs : Alike(y, x)
           /\ \A x \in xs : \E y \in Restamped(xs, b) : Alike(y, x)
<1> DEFINE f == [x \in xs |-> [x EXCEPT !.replanned = b]]
           ys == {[x EXCEPT !.replanned = b] : x \in xs}
<1>1. ASSUME NEW x \in xs
      PROVE  LET y == [x EXCEPT !.replanned = b]
             IN  Alike(y, x) /\ DOMAIN y = Named /\ y.op \in Op /\ y.seq \in Nat
  BY DEF Listed, Alike, Named
<1>2. f \in Surjection(xs, ys)
  BY DEF Surjection
<1>3. IsFiniteSet(ys)
  BY <1>2, FS_Surjection DEF Listed
<1> QED
  BY <1>1, <1>3 DEF Listed, Restamped

LEMMA ReplannedOnly ==
    ASSUME NEW c, NEW o, DOMAIN c = Controlled, Listed(c.failures)
    PROVE  LET d == Replanned(c, o, plan)
           IN  /\ Only(c, d, {"deliver", "touched", "failures"})
               /\ d.deliver \subseteq c.deliver \cup plan.deliver
               /\ Listed(d.failures)
               /\ \A x \in d.failures : \E y \in c.failures : Alike(x, y)
               /\ \A y \in c.failures : \E x \in d.failures : Alike(x, y)
<1> DEFINE d == Replanned(c, o, plan)
<1>1. CASE Meta(o.op) /\ ~o.failed
  <2>1. /\ Only(c, d, {"deliver", "touched", "failures"})
        /\ d.deliver = c.deliver \cup plan.deliver
        /\ d.failures = Restamped(c.failures, TRUE)
    BY <1>1 DEF Replanned, Only, Controlled, Recorded, Restamped
  <2> HIDE DEF d
  <2>2. d.deliver \subseteq c.deliver \cup plan.deliver
    BY <2>1
  <2>3. /\ Listed(d.failures)
        /\ \A x \in d.failures : \E y \in c.failures : Alike(x, y)
        /\ \A y \in c.failures : \E x \in d.failures : Alike(x, y)
    BY <2>1, Marked
  <2> QED
    BY <2>1, <2>2, <2>3 DEF d
<1>2. CASE ~(Meta(o.op) /\ ~o.failed)
  <2>1. d = c
    BY <1>2 DEF Replanned
  <2> QED
    BY <2>1 DEF Only, Alike
<1> QED
  BY <1>1, <1>2

LEMMA DirtiedOnly ==
    ASSUME NEW c, NEW o, DOMAIN c = Controlled, o.op \in Op, c.files \subseteq File
    PROVE  LET d == Dirtied(c, o, plan)
           IN  /\ Only(c, d, {"files", "unknown", "waived", "note"})
               /\ d.files \subseteq File
               /\ IF ~o.prevented /\ RiskWrite(o.op) THEN ~d.waived /\ d.note = plan.note
                  ELSE d.waived = c.waived /\ d.note = c.note
BY OpKinds DEF Dirtied, MarkDirty, Only, Controlled, Recorded

(* A failed call joins the failures, unless it needs no correction.            *)
LEMMA FailedOnly ==
    ASSUME NEW c, NEW o, DOMAIN c = Controlled, Listed(c.failures), c.seq \in Nat, o.op \in Op,
           o.id \in Call, c.successes \in [Call -> Nat]
    PROVE  LET f == [c EXCEPT !.successes[o.id] = 0]
               d == RecordFailure(f, o)
           IN  /\ Only(c, d, {"successes", "failures", "counts"})
               /\ d.successes = [c.successes EXCEPT ![o.id] = 0]
               /\ Listed(d.failures) /\ c.failures \subseteq d.failures
               /\ \A x \in d.failures : x \in c.failures \/ (x.seq = c.seq /\ ~x.repaired)
<1> DEFINE f == [c EXCEPT !.successes[o.id] = 0]
           d == RecordFailure(f, o)
           x == [name |-> FailureName(f, o.id), op |-> o.op,
                 rejected |-> o.rejected, seq |-> f.seq, replanned |-> FALSE,
                 repairable |-> o.op.tool = "write" /\ ~o.prevented, repaired |-> FALSE]
<1>1. Only(c, f, {"successes"}) /\ f.successes = [c.successes EXCEPT ![o.id] = 0]
  BY DEF Only, Controlled, Recorded
<1>2. f.failures = c.failures /\ f.seq = c.seq
  BY DEF Controlled, Recorded
<1> HIDE DEF f
<1>3. x.seq = c.seq /\ x.op = o.op /\ ~x.repaired /\ DOMAIN x = Named
  BY <1>2 DEF Named
<1>4. Listed(c.failures \cup {x})
  <2> HIDE DEF x
  <2> QED BY <1>3, FS_AddElement DEF Listed
<1>5. \/ d = f
      \/ d = [f EXCEPT !.failures = @ \cup {x}, !.counts[o.id] = @ + 1]
  BY DEF RecordFailure
<1> HIDE DEF x, d
<1>6. CASE d = f
  <2>1. Only(c, d, {"successes", "failures", "counts"})
    BY <1>1, <1>6 DEF Only
  <2> QED
    BY <1>1, <1>2, <1>6, <2>1 DEF d, f
<1>7. CASE d = [f EXCEPT !.failures = @ \cup {x}, !.counts[o.id] = @ + 1]
  <2>1. Only(f, d, {"failures", "counts"}) /\ d.failures = f.failures \cup {x}
    BY <1>1, <1>7 DEF Only, Controlled, Recorded
  <2>2. d.successes = f.successes
    BY <1>1, <1>7 DEF Only, Controlled, Recorded
  <2>3. Only(c, d, {"successes", "failures", "counts"})
    BY <1>1, <2>1 DEF Only
  <2> QED
    BY <1>1, <1>2, <1>3, <1>4, <2>1, <2>2, <2>3 DEF d, f
<1> QED
  BY <1>5, <1>6, <1>7

(* A part of the failures is listed as they were.                              *)
LEMMA Fewer ==
    ASSUME NEW xs, Listed(xs), NEW ys \in SUBSET xs PROVE Listed(ys)
BY FS_Subset DEF Listed

LEMMA SucceededOnly ==
    ASSUME NEW c, NEW o, DOMAIN c = Controlled, Listed(c.failures), o.id \in Call,
           c.successes \in [Call -> Nat]
    PROVE  LET d == Succeeded(c, o)
           IN  /\ Only(c, d, {"successes", "failures"})
               /\ d.successes = [c.successes EXCEPT ![o.id] = IF Meta(o.op) THEN 0 ELSE c.seq]
               /\ Listed(d.failures) /\ d.failures \subseteq c.failures
               /\ \A x \in c.failures : x \in d.failures \/ Recovers(o.op, x)
<1> DEFINE d == Succeeded(c, o)
<1>1. /\ Only(c, d, {"successes", "failures"})
      /\ d.successes = [c.successes EXCEPT ![o.id] = IF Meta(o.op) THEN 0 ELSE c.seq]
      /\ d.failures = {x \in c.failures : ~Recovers(o.op, x)}
  BY DEF Succeeded, Only, Controlled, Recorded
<1> HIDE DEF d
<1>2. /\ d.failures \subseteq c.failures
      /\ \A x \in c.failures : x \in d.failures \/ Recovers(o.op, x)
  BY <1>1
<1>3. Listed(d.failures)
  BY <1>2, Fewer
<1> QED
  BY <1>1, <1>2, <1>3 DEF d

LEMMA ResolvedOnly ==
    ASSUME NEW c, DOMAIN c = Controlled, Listed(c.failures)
    PROVE  LET d == ResolveFailuresFromPlan(c, plan)
           IN  /\ Only(c, d, {"misresolved", "failures"})
               /\ Listed(d.failures) /\ d.failures \subseteq c.failures
               /\ \A x \in c.failures :
                     \/ x \in d.failures
                     \/ \E r \in plan.resolved : r.failure = x.name /\ Settles(c, x, r)
<1> DEFINE d == ResolveFailuresFromPlan(c, plan)
           named(x) == {r \in plan.resolved : r.failure = x.name}
           read == {x \in c.failures : x.replanned /\ named(x) # {}}
           settled == {x \in read : \E r \in named(x) : Settles(c, x, r)}
<1>1. /\ Only(c, d, {"misresolved", "failures"})
      /\ d.failures = c.failures \ settled
  BY DEF ResolveFailuresFromPlan, Only, Controlled, Recorded
<1> HIDE DEF d
<1>2. /\ d.failures \subseteq c.failures
      /\ \A x \in c.failures :
            x \in d.failures \/ \E r \in plan.resolved : r.failure = x.name /\ Settles(c, x, r)
  BY <1>1
<1>3. Listed(d.failures)
  BY <1>2, Fewer
<1> QED
  BY <1>1, <1>2, <1>3 DEF d

LEMMA AcceptedOnly ==
    ASSUME NEW c, NEW fs, DOMAIN c = Controlled
    PROVE  LET d == AcceptArtifactValidation(c, fs)
           IN  /\ Only(c, d, {"files", "waived"}) /\ d.files = c.files \ fs
               /\ d.waived => c.waived
BY DEF AcceptArtifactValidation, Only, Controlled, Recorded

(* What a check leaves: receipts of what it saw, and the failures but for those*)
(* it recovers; a write that succeeds may repair earlier ones.                 *)
LEMMA VerifiedOnly ==
    ASSUME NEW c, NEW o, DOMAIN c = Controlled, Listed(c.failures), o.op \in Op,
           c.files \subseteq File, c.deliver \subseteq File
    PROVE  LET d == Verified(c, o, world)
           IN  /\ Only(c, d, {"files", "unknown", "waived", "receipts", "deliver", "failures"})
               /\ d.files \subseteq File /\ d.deliver \subseteq File
               /\ d.waived => c.waived
               /\ \A f \in File :
                     \/ d.receipts[f] = c.receipts[f]
                     \/ /\ o.op.tool \in {"scoped", "validate"} /\ f \in o.op.files
                        /\ d.receipts[f] = o.seen[f]
               /\ Listed(d.failures)
               /\ \A x \in d.failures : \E y \in c.failures :
                     /\ x.name = y.name /\ x.seq = y.seq /\ x.op = y.op
                     /\ x.repaired =>
                           \/ y.repaired
                           \/ o.op.tool = "write" /\ x.op.files \subseteq o.op.files
               /\ \A y \in c.failures :
                     \/ \E x \in d.failures : x.name = y.name
                     \/ y.repaired /\ \A f \in y.op.files : d.receipts[f] = world[f]
<1> DEFINE d == Verified(c, o, world)
<1>0. o.op.files \subseteq File
  BY OpKinds
<1>1. CASE o.op.tool = "test" /\ ~Work
  <2>1. d = ClearDirty(c)
    BY <1>1 DEF Verified
  <2> HIDE DEF d
  <2>2. /\ Only(c, d, {"files", "unknown", "waived"}) /\ d.files = {} /\ ~d.waived
        /\ d.deliver = c.deliver /\ d.receipts = c.receipts /\ d.failures = c.failures
    BY <2>1 DEF ClearDirty, Only, Controlled, Recorded
  <2>3. Only(c, d, {"files", "unknown", "waived", "receipts", "deliver", "failures"})
    BY <2>2 DEF Only
  <2> QED
    BY <2>2, <2>3 DEF d
<1>2. CASE o.op.tool \in {"scoped", "validate"}
  <2> DEFINE b == [c EXCEPT !.receipts = [f \in File |-> IF f \in o.op.files THEN o.seen[f] ELSE @[f]],
                            !.deliver = @ \cup o.op.files]
             a == AcceptArtifactValidation(b, o.op.files)
             e == RecoverVerifiedFileFailures(a, world)
  <2>0. d = e
    BY <1>2 DEF Verified, RecordReceipts
  <2> HIDE DEF d
  <2>1. /\ Only(c, b, {"receipts", "deliver"}) /\ b.deliver = c.deliver \cup o.op.files
        /\ b.receipts = [f \in File |-> IF f \in o.op.files THEN o.seen[f] ELSE c.receipts[f]]
        /\ b.failures = c.failures /\ b.files = c.files /\ b.waived = c.waived
    BY DEF Only, Controlled, Recorded
  <2> HIDE DEF b
  <2>2. /\ Only(b, a, {"files", "waived"}) /\ a.files = b.files \ o.op.files
        /\ a.waived => b.waived
    BY <2>1, AcceptedOnly DEF Only
  <2>3. a.deliver = b.deliver /\ a.receipts = b.receipts /\ a.failures = b.failures
    BY <2>2 DEF Only, Controlled, Recorded
  <2> HIDE DEF a
  <2>4. /\ Only(a, e, {"failures"})
        /\ e.failures = {x \in a.failures :
                            ~(x.repaired /\ \A f \in x.op.files : a.receipts[f] = world[f])}
        /\ e.files = a.files /\ e.waived = a.waived /\ e.deliver = a.deliver
        /\ e.receipts = a.receipts
    BY <2>2 DEF RecoverVerifiedFileFailures, Only, Controlled, Recorded
  <2> HIDE DEF e
  <2>5. Only(c, e, {"files", "unknown", "waived", "receipts", "deliver", "failures"})
    BY <2>1, <2>2, <2>4 DEF Only
  <2>6. \A f \in File :
           \/ e.receipts[f] = c.receipts[f]
           \/ f \in o.op.files /\ e.receipts[f] = o.seen[f]
    BY <2>1, <2>3, <2>4
  <2>7. /\ e.failures \subseteq c.failures
        /\ \A y \in c.failures :
              \/ y \in e.failures
              \/ y.repaired /\ \A f \in y.op.files : e.receipts[f] = world[f]
    BY <2>1, <2>3, <2>4
  <2>8. Listed(e.failures)
    BY <2>7, Fewer
  <2>9. e.files \subseteq File /\ e.deliver \subseteq File /\ (e.waived => c.waived)
    BY <1>0, <2>1, <2>2, <2>3, <2>4
  <2>10. /\ \A x \in e.failures : \E y \in c.failures :
               /\ x.name = y.name /\ x.seq = y.seq /\ x.op = y.op
               /\ x.repaired => y.repaired
         /\ \A y \in c.failures :
               \/ \E x \in e.failures : x.name = y.name
               \/ y.repaired /\ \A f \in y.op.files : e.receipts[f] = world[f]
    BY <2>7
  <2> QED
    BY <1>2, <2>0, <2>5, <2>6, <2>8, <2>9, <2>10 DEF d
<1>3. CASE ~(o.op.tool = "test" /\ ~Work) /\ o.op.tool \notin {"scoped", "validate"}
  <2>1. d = MarkFileRepairs(c, o)
    BY <1>3 DEF Verified
  <2> HIDE DEF d
  <2>2. CASE o.op.tool # "write"
    <3>1. d = c
      BY <2>1, <2>2 DEF MarkFileRepairs
    <3>2. Only(c, d, {"files", "unknown", "waived", "receipts", "deliver", "failures"})
      BY <3>1 DEF Only
    <3> QED
      BY <3>1, <3>2 DEF d
  <2>3. CASE o.op.tool = "write"
    <3> DEFINE g == [x \in c.failures |->
                       [x EXCEPT !.repaired = @ \/ (x.repairable /\ x.op.files \subseteq o.op.files)]]
               ys == {[x EXCEPT !.repaired = @ \/ (x.repairable /\ x.op.files \subseteq o.op.files)]
                         : x \in c.failures}
    <3>1. Only(c, d, {"failures"}) /\ d.failures = ys /\ d.receipts = c.receipts
          /\ d.files = c.files /\ d.waived = c.waived /\ d.deliver = c.deliver
      BY <2>1, <2>3 DEF MarkFileRepairs, Only, Controlled, Recorded
    <3>2. ASSUME NEW x \in c.failures
          PROVE  /\ DOMAIN g[x] = Named /\ g[x].name = x.name /\ g[x].seq = x.seq
                 /\ g[x].op = x.op
                 /\ g[x].repaired => x.repaired \/ x.op.files \subseteq o.op.files
      BY DEF Listed, Named
    <3>3. g \in Surjection(c.failures, ys)
      BY DEF Surjection
    <3>4. IsFiniteSet(ys)
      BY <3>3, FS_Surjection DEF Listed
    <3>5. \A y \in ys : \E x \in c.failures : y = g[x]
      BY DEF ys
    <3>6. \A x \in c.failures : g[x] \in ys
      BY DEF ys
    <3> HIDE DEF g, ys
    <3>7. Listed(ys)
      BY <3>2, <3>4, <3>5 DEF Listed
    <3>8. /\ \A x \in ys : \E y \in c.failures :
               /\ x.name = y.name /\ x.seq = y.seq /\ x.op = y.op
               /\ x.repaired => y.repaired \/ x.op.files \subseteq o.op.files
          /\ \A y \in c.failures : \E x \in ys : x.name = y.name
      BY <3>2, <3>5, <3>6
    <3>9. Only(c, d, {"files", "unknown", "waived", "receipts", "deliver", "failures"})
      BY <3>1 DEF Only
    <3> QED
      BY <2>3, <3>1, <3>7, <3>8, <3>9 DEF d
  <2> QED
    BY <2>2, <2>3
<1> QED
  BY <1>1, <1>2, <1>3

LEMMA WaivedOnly ==
    ASSUME NEW c, NEW o, DOMAIN c = Controlled
    PROVE  LET d == Waived(c, o, plan)
           IN  /\ Only(c, d, {"waived"})
               /\ d.waived => c.waived \/ (Meta(o.op) /\ plan.note \notin {NoNote, c.note})
BY DEF Waived, Only, Controlled, Recorded

(* What seeing a result does to the controller: how failures come and go, what *)
(* a success is numbered, where receipts come from, and when a disclosure      *)
(* waives the checks.                                                          *)
Settled(y, o) ==
    \/ Recovers(o.op, y)
    \/ \E r \in plan.resolved :
          /\ r.failure = y.name
          /\ \/ r.by \in {"unnecessary", o.id}
             \/ r.by \in Call /\ ctl.successes[r.by] > y.seq
Observed(d, o) ==
    /\ d.note = IF ~o.prevented /\ RiskWrite(o.op) THEN plan.note ELSE ctl.note
    /\ d.waived =>
          /\ ~(~o.prevented /\ RiskWrite(o.op))
          /\ ctl.waived \/ (Meta(o.op) /\ plan.note \notin {NoNote, ctl.note})
    /\ \A f \in File :
          \/ d.receipts[f] = ctl.receipts[f]
          \/ /\ ~o.failed /\ o.op.tool \in {"scoped", "validate"} /\ f \in o.op.files
             /\ d.receipts[f] = o.seen[f]
    /\ d.seq = ctl.seq + 1
    /\ d.successes =
          [ctl.successes EXCEPT ![o.id] = IF o.failed \/ Meta(o.op) THEN 0 ELSE ctl.seq + 1]
    /\ \A x \in d.failures :
          \/ o.failed /\ x.seq = d.seq /\ ~x.repaired
          \/ \E y \in ctl.failures :
                /\ x.name = y.name /\ x.seq = y.seq /\ x.op = y.op
                /\ x.repaired => \/ y.repaired
                                 \/ /\ ~o.failed /\ o.op.tool = "write"
                                    /\ y.op.files \subseteq o.op.files
    /\ \A y \in ctl.failures :
          \/ \E x \in d.failures : x.name = y.name
          \/ ~o.failed /\ Settled(y, o)
          \/ ~o.failed /\ y.repaired /\ \A f \in y.op.files : d.receipts[f] = world[f]

LEMMA ObserveOnly ==
    ASSUME NEW o, DOMAIN ctl = Controlled, Counted(ctl), o.op \in Op, o.id \in Call,
           plan.deliver \subseteq File
    PROVE  LET d == Observe(ctl, o, plan, world)
           IN  /\ DOMAIN d = Controlled /\ Counted(d) /\ Observed(d, o)
               /\ d.interventions = ctl.interventions /\ d.best = ctl.best
<1> DEFINE n == Noticed(ctl, o)
           r == Replanned(n, o, plan)
           k == Dirtied(r, o, plan)
           f == [k EXCEPT !.successes[o.id] = 0]
           s == Succeeded(k, o)
           p == ResolveFailuresFromPlan(s, plan)
           v == Verified(p, o, world)
           w == Waived(v, o, plan)
           d == Observe(ctl, o, plan, world)
<1>1. Only(ctl, n, {"progressed", "seq"}) /\ n.seq = ctl.seq + 1
  BY NoticedOnly
<1> HIDE DEF n
<1>2. /\ DOMAIN n = Controlled /\ n.failures = ctl.failures /\ n.deliver = ctl.deliver
      /\ n.files = ctl.files /\ n.successes = ctl.successes /\ n.receipts = ctl.receipts
      /\ n.waived = ctl.waived /\ n.note = ctl.note
      /\ n.interventions = ctl.interventions /\ n.best = ctl.best
  BY <1>1 DEF Only, Controlled, Recorded
<1>3. /\ Only(n, r, {"deliver", "touched", "failures"})
      /\ r.deliver \subseteq n.deliver \cup plan.deliver
      /\ Listed(r.failures)
      /\ \A x \in r.failures : \E y \in n.failures : Alike(x, y)
      /\ \A y \in n.failures : \E x \in r.failures : Alike(x, y)
  BY <1>2, ReplannedOnly DEF Counted
<1> HIDE DEF r
<1>4. /\ DOMAIN r = Controlled
      /\ r.files = ctl.files /\ r.successes = ctl.successes /\ r.receipts = ctl.receipts
      /\ r.waived = ctl.waived /\ r.note = ctl.note /\ r.seq = ctl.seq + 1
      /\ r.interventions = ctl.interventions /\ r.best = ctl.best
  BY <1>1, <1>2, <1>3 DEF Only, Controlled, Recorded
<1>5. /\ Only(r, k, {"files", "unknown", "waived", "note"})
      /\ k.files \subseteq File
      /\ IF ~o.prevented /\ RiskWrite(o.op) THEN ~k.waived /\ k.note = plan.note
         ELSE k.waived = r.waived /\ k.note = r.note
  BY <1>4, DirtiedOnly DEF Counted
<1> HIDE DEF k
<1>6. /\ DOMAIN k = Controlled /\ k.failures = r.failures /\ k.deliver = r.deliver
      /\ k.successes = ctl.successes /\ k.receipts = ctl.receipts /\ k.seq = ctl.seq + 1
      /\ k.interventions = ctl.interventions /\ k.best = ctl.best
  BY <1>4, <1>5 DEF Only, Controlled, Recorded
<1>7. /\ Listed(k.failures) /\ k.deliver \subseteq File /\ k.seq \in Nat
      /\ k.successes \in [Call -> Nat]
      /\ \A x \in k.failures : \E y \in ctl.failures : Alike(x, y)
      /\ \A y \in ctl.failures : \E x \in k.failures : Alike(x, y)
  BY <1>2, <1>3, <1>6 DEF Counted
<1>8. CASE o.failed
  <2>1. d = RecordFailure(f, o)
    BY <1>8 DEF Observe, f, k, r, n
  <2>2. /\ Only(k, d, {"successes", "failures", "counts"})
        /\ d.successes = [k.successes EXCEPT ![o.id] = 0]
        /\ Listed(d.failures) /\ k.failures \subseteq d.failures
        /\ \A x \in d.failures : x \in k.failures \/ (x.seq = k.seq /\ ~x.repaired)
    BY <1>6, <1>7, <2>1, FailedOnly
  <2> HIDE DEF d
  <2>3. /\ DOMAIN d = Controlled /\ d.seq = ctl.seq + 1 /\ d.files = k.files
        /\ d.deliver = k.deliver /\ d.receipts = ctl.receipts
        /\ d.waived = k.waived /\ d.note = k.note
        /\ d.interventions = ctl.interventions /\ d.best = ctl.best
    BY <1>6, <2>2 DEF Only, Controlled, Recorded
  <2>4. d.successes = [ctl.successes EXCEPT ![o.id] = 0]
    BY <1>6, <2>2
  <2>5. d.successes \in [Call -> Nat] /\ \A i \in Call : d.successes[i] <= d.seq
    BY <2>3, <2>4 DEF Counted
  <2>6. Counted(d)
    BY <1>5, <1>6, <1>7, <2>2, <2>3, <2>5 DEF Counted
  <2>7. \A x \in d.failures :
           \/ x.seq = d.seq /\ ~x.repaired
           \/ \E y \in ctl.failures :
                 x.name = y.name /\ x.seq = y.seq /\ x.op = y.op /\ (x.repaired => y.repaired)
    BY <1>6, <1>7, <2>2, <2>3 DEF Alike
  <2>8. \A y \in ctl.failures : \E x \in d.failures : x.name = y.name
    BY <1>7, <2>2 DEF Alike
  <2>9. /\ d.note = IF ~o.prevented /\ RiskWrite(o.op) THEN plan.note ELSE ctl.note
        /\ d.waived => ~(~o.prevented /\ RiskWrite(o.op)) /\ ctl.waived
    BY <1>4, <1>5, <2>3
  <2>10. Observed(d, o)
    BY <1>8, <2>3, <2>4, <2>7, <2>8, <2>9 DEF Observed
  <2> QED
    BY <2>3, <2>6, <2>10 DEF d
<1>9. CASE ~o.failed
  <2>0. d = w
    BY <1>9 DEF Observe, w, v, p, s, k, r, n
  <2>1. /\ Only(k, s, {"successes", "failures"})
        /\ s.successes = [k.successes EXCEPT ![o.id] = IF Meta(o.op) THEN 0 ELSE k.seq]
        /\ Listed(s.failures) /\ s.failures \subseteq k.failures
        /\ \A x \in k.failures : x \in s.failures \/ Recovers(o.op, x)
    BY <1>6, <1>7, SucceededOnly
  <2> HIDE DEF s, d
  <2>2. /\ DOMAIN s = Controlled /\ s.files = k.files /\ s.deliver = k.deliver
        /\ s.receipts = ctl.receipts /\ s.waived = k.waived /\ s.note = k.note
        /\ s.seq = ctl.seq + 1 /\ s.interventions = ctl.interventions /\ s.best = ctl.best
    BY <1>6, <2>1 DEF Only, Controlled, Recorded
  <2>3. /\ Only(s, p, {"misresolved", "failures"})
        /\ Listed(p.failures) /\ p.failures \subseteq s.failures
        /\ \A x \in s.failures :
              \/ x \in p.failures
              \/ \E q \in plan.resolved : q.failure = x.name /\ Settles(s, x, q)
    BY <2>1, <2>2, ResolvedOnly
  <2> HIDE DEF p
  <2>4. /\ DOMAIN p = Controlled /\ p.files = k.files /\ p.deliver = k.deliver
        /\ p.receipts = ctl.receipts /\ p.waived = k.waived /\ p.note = k.note
        /\ p.seq = ctl.seq + 1 /\ p.interventions = ctl.interventions /\ p.best = ctl.best
        /\ p.successes = s.successes
    BY <2>2, <2>3 DEF Only, Controlled, Recorded
  <2>5. /\ Only(p, v, {"files", "unknown", "waived", "receipts", "deliver", "failures"})
        /\ v.files \subseteq File /\ v.deliver \subseteq File
        /\ v.waived => p.waived
        /\ \A x \in File :
              \/ v.receipts[x] = p.receipts[x]
              \/ /\ o.op.tool \in {"scoped", "validate"} /\ x \in o.op.files
                 /\ v.receipts[x] = o.seen[x]
        /\ Listed(v.failures)
        /\ \A x \in v.failures : \E y \in p.failures :
              /\ x.name = y.name /\ x.seq = y.seq /\ x.op = y.op
              /\ x.repaired =>
                    \/ y.repaired
                    \/ o.op.tool = "write" /\ x.op.files \subseteq o.op.files
        /\ \A y \in p.failures :
              \/ \E x \in v.failures : x.name = y.name
              \/ y.repaired /\ \A x \in y.op.files : v.receipts[x] = world[x]
    BY <1>5, <1>7, <2>3, <2>4, VerifiedOnly
  <2> HIDE DEF v
  <2>6. /\ DOMAIN v = Controlled /\ v.note = k.note /\ v.seq = ctl.seq + 1
        /\ v.interventions = ctl.interventions /\ v.best = ctl.best /\ v.successes = s.successes
    BY <2>4, <2>5 DEF Only, Controlled, Recorded
  <2>7. /\ Only(v, w, {"waived"})
        /\ w.waived => v.waived \/ (Meta(o.op) /\ plan.note \notin {NoNote, v.note})
    BY <2>6, WaivedOnly
  <2> HIDE DEF w
  <2>8. /\ DOMAIN w = Controlled /\ w.note = k.note /\ w.seq = ctl.seq + 1
        /\ w.interventions = ctl.interventions /\ w.best = ctl.best /\ w.successes = s.successes
        /\ w.files = v.files /\ w.deliver = v.deliver /\ w.receipts = v.receipts
        /\ w.failures = v.failures
    BY <2>6, <2>7 DEF Only, Controlled, Recorded
  <2>9. w.successes = [ctl.successes EXCEPT ![o.id] = IF Meta(o.op) THEN 0 ELSE ctl.seq + 1]
    BY <1>6, <2>1, <2>8
  <2>10. w.successes \in [Call -> Nat] /\ \A i \in Call : w.successes[i] <= w.seq
    BY <2>8, <2>9 DEF Counted
  <2>11. Counted(w)
    BY <1>6, <1>7, <2>5, <2>8, <2>10 DEF Counted
  <2>12. /\ w.note = IF ~o.prevented /\ RiskWrite(o.op) THEN plan.note ELSE ctl.note
         /\ w.waived =>
               /\ ~(~o.prevented /\ RiskWrite(o.op))
               /\ ctl.waived \/ (Meta(o.op) /\ plan.note \notin {NoNote, ctl.note})
    <3>1. RiskWrite(o.op) => ~Meta(o.op)
      BY OpKinds
    <3> QED
      BY <1>4, <1>5, <2>4, <2>5, <2>6, <2>7, <2>8, <3>1
  <2>13. \A x \in w.failures : \E y \in ctl.failures :
            /\ x.name = y.name /\ x.seq = y.seq /\ x.op = y.op
            /\ x.repaired => \/ y.repaired
                             \/ o.op.tool = "write" /\ y.op.files \subseteq o.op.files
    <3> SUFFICES ASSUME NEW x \in w.failures
                 PROVE  \E y \in ctl.failures :
                            /\ x.name = y.name /\ x.seq = y.seq /\ x.op = y.op
                            /\ x.repaired => \/ y.repaired
                                             \/ /\ o.op.tool = "write"
                                                /\ y.op.files \subseteq o.op.files
      OBVIOUS
    <3>1. PICK y \in p.failures :
              /\ x.name = y.name /\ x.seq = y.seq /\ x.op = y.op
              /\ x.repaired => \/ y.repaired
                               \/ o.op.tool = "write" /\ x.op.files \subseteq o.op.files
      BY <2>5, <2>8
    <3>2. PICK z \in ctl.failures : Alike(y, z)
      BY <1>7, <2>1, <2>3, <3>1
    <3> QED
      BY <3>1, <3>2 DEF Alike
  <2>14. ASSUME NEW y \in ctl.failures
         PROVE  \/ \E x \in w.failures : x.name = y.name
                \/ Settled(y, o)
                \/ y.repaired /\ \A x \in y.op.files : w.receipts[x] = world[x]
    <3>1. PICK z \in k.failures : Alike(z, y)
      BY <1>7
    <3>2. CASE z \in p.failures
      BY <2>5, <2>8, <3>1, <3>2 DEF Alike
    <3>3. CASE z \in s.failures /\ z \notin p.failures
      <4>1. PICK q \in plan.resolved : q.failure = z.name /\ Settles(s, z, q)
        BY <2>3, <3>3
      <4>2. s.successes = [ctl.successes EXCEPT ![o.id] = IF Meta(o.op) THEN 0 ELSE ctl.seq + 1]
        BY <1>6, <2>1
      <4>3. q.by \in Call /\ q.by # o.id => s.successes[q.by] = ctl.successes[q.by]
        BY <4>2 DEF Counted
      <4>4. q.failure = y.name /\ \/ q.by \in {"unnecessary", o.id}
                                  \/ q.by \in Call /\ ctl.successes[q.by] > y.seq
        BY <3>1, <4>1, <4>3 DEF Settles, Alike
      <4> QED
        BY <4>4 DEF Settled
    <3>4. CASE z \notin s.failures
      <4>1. Recovers(o.op, z)
        BY <2>1, <3>4
      <4>2. Recovers(o.op, y)
        BY <3>1, <4>1
           DEF Alike, Recovers, MatchesRetry, RecoversRejectedVerification, SameTool
      <4> QED
        BY <4>2 DEF Settled
    <3> QED
      BY <3>2, <3>3, <3>4
  <2>15. \A x \in File :
            \/ w.receipts[x] = ctl.receipts[x]
            \/ /\ o.op.tool \in {"scoped", "validate"} /\ x \in o.op.files
               /\ w.receipts[x] = o.seen[x]
    BY <2>4, <2>5, <2>8
  <2>16. Observed(w, o)
    BY <1>9, <2>8, <2>9, <2>12, <2>13, <2>14, <2>15 DEF Observed
  <2> QED
    BY <2>0, <2>8, <2>11, <2>16 DEF d
<1> QED
  BY <1>8, <1>9

LEMMA FinishedOnly ==
    ASSUME NEW c, NEW o, DOMAIN c = Controlled
    PROVE  Only(c, Finished(c, o), {"started", "pending"})
BY DEF Finished, Only, Controlled, Recorded

LEMMA BegunOnly ==
    ASSUME NEW c, NEW op, DOMAIN c = Controlled
    PROVE  Only(c, Begun(c, op), {"started", "pending"})
BY DEF Begun, Only, Controlled, Recorded

(* A controller takes over the record as it is, and starts counting anew.      *)
LEMMA ControllerOnly ==
    ASSUME NEW d, NEW p, DOMAIN d = Recorded, Counted(d), p.deliver \subseteq File
    PROVE  LET c == NewController(d, p)
           IN  /\ Counted(c) /\ c.successes = d.successes
               /\ \A x \in c.failures : \E y \in d.failures : Alike(x, y)
               /\ ~c.waived /\ c.note = p.note /\ c.interventions = 0 /\ c.best = 0
               /\ \A f \in File : c.receipts[f] = NoContent
<1> DEFINE unread == {[x EXCEPT !.replanned = FALSE] : x \in d.failures}
           e == [d EXCEPT !.failures = unread]
           b == RestoreCompletion(e, p)
           c == NewController(d, p)
<1>1. /\ DOMAIN e = Recorded /\ e.files = d.files /\ e.deliver = d.deliver /\ e.seq = d.seq
      /\ e.successes = d.successes /\ e.failures = Restamped(d.failures, FALSE)
  BY DEF Recorded, Restamped
<1> HIDE DEF e
<1>2. /\ DOMAIN b = Controlled /\ b.files = d.files /\ b.deliver = d.deliver /\ b.seq = d.seq
      /\ b.successes = d.successes /\ b.failures = Restamped(d.failures, FALSE)
      /\ b.waived = FALSE /\ b.note = p.note /\ b.interventions = 0 /\ b.best = 0
      /\ b.receipts = [f \in File |-> NoContent]
  BY <1>1 DEF RestoreCompletion, Joined, Controlled, Recorded
<1>3. c = [b EXCEPT !.deliver = @ \cup IF p.state = "open" THEN p.deliver ELSE {}]
  BY DEF NewController, e
<1> HIDE DEF b, c
<1>4. /\ c.files = d.files /\ c.deliver \subseteq d.deliver \cup p.deliver /\ c.seq = d.seq
      /\ c.successes = d.successes /\ c.failures = Restamped(d.failures, FALSE)
      /\ c.waived = FALSE /\ c.note = p.note /\ c.interventions = 0 /\ c.best = 0
      /\ c.receipts = [f \in File |-> NoContent]
  BY <1>2, <1>3 DEF Controlled, Recorded
<1>5. /\ Listed(c.failures)
      /\ \A x \in c.failures : \E y \in d.failures : Alike(x, y)
  BY <1>4, Marked DEF Counted
<1>6. Counted(c)
  BY <1>4, <1>5 DEF Counted
<1> QED
  BY <1>4, <1>5, <1>6 DEF c

-----------------------------------------------------------------------------
(*                       What a decision shows and costs                       *)
LEMMA GapSame ==
    ASSUME NEW c, NEW d, Only(c, d, {"interventions", "best", "progressed"})
    PROVE  GapCount(d, plan, world) = GapCount(c, plan, world)
<1>1. /\ d.open = c.open /\ d.touched = c.touched /\ d.failures = c.failures
      /\ d.receipts = c.receipts /\ d.deliver = c.deliver /\ d.unknown = c.unknown
      /\ d.files = c.files /\ d.waived = c.waived
  BY DEF Only, Controlled, Recorded
<1> QED
  BY <1>1 DEF GapCount, PlanIssues, ActivePlan, ArtifactIssues, Valid, VerificationGap, Dirty

(* The gaps are counted, and there is none only when nothing is missing.       *)
LEMMA GapKind ==
    ASSUME NEW c, Counted(c)
    PROVE  /\ GapCount(c, plan, world) \in Nat
           /\ GapCount(c, plan, world) = 0 =>
                 /\ c.failures = {}
                 /\ \A f \in c.deliver : c.receipts[f] = world[f]
                 /\ Dirty(c) => c.waived
<1> DEFINE stale == {f \in File : c.receipts[f] # NoContent} \ Valid(c, world)
           unseen == c.deliver \ Valid(c, world)
           plans == PlanIssues(c, plan)
           open == IF ~VerificationGap(c) THEN 0
                   ELSE IF Work THEN Cardinality(c.files) + (IF c.unknown THEN 1 ELSE 0) ELSE 1
<1>1. Cardinality(c.failures) \in Nat /\ (Cardinality(c.failures) = 0 => c.failures = {})
  BY FS_CardinalityType, FS_EmptySet DEF Counted, Listed
<1>2. Cardinality(stale) \in Nat
  <2>1. IsFiniteSet(stale)
    BY FS_Subset, FileAssumption
  <2> QED BY <2>1, FS_CardinalityType
<1>3. Cardinality(unseen) \in Nat /\ (Cardinality(unseen) = 0 => unseen = {})
  <2>1. IsFiniteSet(unseen)
    BY FS_Subset, FileAssumption DEF Counted
  <2> QED BY <2>1, FS_CardinalityType, FS_EmptySet
<1>4. plans \in Nat
  BY DEF PlanIssues
<1>5. open \in Nat /\ (open = 0 => ~VerificationGap(c))
  <2>1. IsFiniteSet(c.files)
    BY FS_Subset, FileAssumption DEF Counted
  <2>2. Cardinality(c.files) \in Nat /\ (Cardinality(c.files) = 0 => c.files = {})
    BY <2>1, FS_CardinalityType, FS_EmptySet
  <2>3. CASE ~VerificationGap(c)
    BY <2>3
  <2>4. CASE VerificationGap(c) /\ ~Work
    BY <2>4
  <2>5. CASE VerificationGap(c) /\ Work
    <3>1. c.unknown \/ c.files # {}
      BY <2>5 DEF VerificationGap, Dirty
    <3> QED BY <2>2, <2>5, <3>1
  <2> QED BY <2>3, <2>4, <2>5
<1>6. GapCount(c, plan, world) =
         plans + Cardinality(c.failures) + (Cardinality(stale) + Cardinality(unseen)) + open
  BY DEF GapCount, ArtifactIssues
<1>7. unseen = {} => \A f \in c.deliver : c.receipts[f] = world[f]
  BY DEF Valid
<1> HIDE DEF stale, plans, open, unseen
<1>8. /\ GapCount(c, plan, world) \in Nat
      /\ GapCount(c, plan, world) = 0 =>
            Cardinality(c.failures) = 0 /\ Cardinality(unseen) = 0 /\ open = 0
  <2>1. PICK i, j, k, l, m \in Nat :
           /\ i = plans /\ j = Cardinality(c.failures) /\ k = Cardinality(stale)
           /\ l = Cardinality(unseen) /\ m = open
    BY <1>1, <1>2, <1>3, <1>4, <1>5
  <2>2. GapCount(c, plan, world) = i + j + (k + l) + m
    BY <1>6, <2>1
  <2>3. i + j + (k + l) + m = 0 => j = 0 /\ l = 0 /\ m = 0
    OBVIOUS
  <2> QED BY <2>1, <2>2, <2>3
<1> QED
  <2>1. ~VerificationGap(c) => (Dirty(c) => c.waived)
    BY DEF VerificationGap
  <2> QED BY <1>1, <1>3, <1>5, <1>7, <1>8, <2>1

Notices == {"notice", "notice_reusable"}
Ends == {"done", "blocked", "needs_verification"}
(* What the controller has after a decision to go on.                          *)
Continues(c) ==
    /\ DOMAIN c = Controlled /\ Counted(c)
    /\ c.failures = ctl.failures /\ c.successes = ctl.successes /\ c.receipts = ctl.receipts
    /\ c.note = ctl.note /\ (c.waived => ctl.waived)
NoticeGiven(c, gap) ==
    LET count == IF ctl.interventions > 0 /\ gap < ctl.best THEN 0 ELSE ctl.interventions
    IN  /\ gap \in Nat /\ ~(count >= 2)
        /\ c.interventions = count + 1
        /\ c.best = IF ctl.best = 0 \/ gap < ctl.best THEN gap ELSE ctl.best
(* What a turn that ends as done has shown.                                    *)
Shown ==
    /\ ctl.pending = Nothing /\ ctl.failures = {}
    /\ \A f \in ctl.deliver : ctl.receipts[f] = world[f]
    /\ \/ ctl.waived
       \/ ~ctl.unknown /\ \A f \in ctl.files : ctl.receipts[f] = world[f]

LEMMA AssessOnly ==
    ASSUME DOMAIN ctl = Controlled, Counted(ctl), plan.deliver \subseteq File
    PROVE  LET a == Assess(ctl, plan, world)
           IN  /\ DOMAIN a = {"says", "ctl"} /\ a.says \in Ends \cup Notices
               /\ a.says = "done" => Shown
               /\ a.says \in Notices =>
                     Continues(a.ctl) /\ NoticeGiven(a.ctl, GapCount(a.ctl, plan, world))
<1> DEFINE b == [ctl EXCEPT !.deliver = @ \cup (IF ActivePlan(ctl, plan) THEN plan.deliver ELSE {})]
           c == CheckArtifacts(ctl, plan, world)
           gap == GapCount(c, plan, world)
           count == Interventions(c, gap)
           asked == [c EXCEPT !.interventions = count + 1,
                              !.best = IF @ = 0 \/ gap < @ THEN gap ELSE @]
           a == Assess(ctl, plan, world)
<1>1. /\ Only(ctl, b, {"deliver"}) /\ b.deliver \subseteq ctl.deliver \cup plan.deliver
      /\ ctl.deliver \subseteq b.deliver
  BY DEF Only, Controlled, Recorded
<1>2. c = AcceptArtifactValidation(b, Valid(ctl, world))
  BY DEF CheckArtifacts
<1> HIDE DEF b
<1>3. /\ b.files = ctl.files /\ b.waived = ctl.waived /\ DOMAIN b = Controlled
  BY <1>1 DEF Only, Controlled, Recorded
<1>4. /\ Only(b, c, {"files", "waived"}) /\ c.files = b.files \ Valid(ctl, world)
      /\ c.waived => b.waived
  BY <1>2, <1>3, AcceptedOnly
<1>5. /\ DOMAIN c = Controlled /\ c.failures = ctl.failures /\ c.successes = ctl.successes
      /\ c.receipts = ctl.receipts /\ c.note = ctl.note /\ c.seq = ctl.seq
      /\ c.interventions = ctl.interventions /\ c.best = ctl.best
      /\ c.unknown = ctl.unknown /\ c.deliver = b.deliver
  BY <1>1, <1>4 DEF Only, Controlled, Recorded
<1>6. /\ c.files = ctl.files \ Valid(ctl, world) /\ (c.waived => ctl.waived)
      /\ ctl.deliver \subseteq c.deliver /\ c.deliver \subseteq File
  BY <1>1, <1>3, <1>4, <1>5 DEF Counted
<1>7. /\ DOMAIN a = {"says", "ctl"} /\ a.says \in Ends \cup Notices
      /\ a.says = "done" => ctl.pending = Nothing /\ gap = 0
      /\ a.says \in Notices => a.ctl = asked /\ ~(count >= 2)
  BY DEF Assess, Ends, Notices, c, maxCompletionInterventions
<1> HIDE DEF c, a
<1>8. Continues(c)
  BY <1>5, <1>6 DEF Continues, Counted
<1>9. gap \in Nat
  BY <1>8, GapKind DEF Continues
<1>10. ASSUME a.says = "done" PROVE Shown
  <2>1. /\ c.failures = {} /\ \A f \in c.deliver : c.receipts[f] = world[f]
        /\ Dirty(c) => c.waived
    BY <1>7, <1>8, <1>10, GapKind DEF Continues
  <2>2. \A f \in ctl.files : ctl.receipts[f] = world[f] \/ f \in c.files
    BY <1>6 DEF Valid
  <2> QED
    BY <1>5, <1>6, <1>7, <1>10, <2>1, <2>2 DEF Shown, Dirty
<1>11. ASSUME a.says \in Notices
       PROVE  Continues(a.ctl) /\ NoticeGiven(a.ctl, GapCount(a.ctl, plan, world))
  <2>1. /\ Only(c, asked, {"interventions", "best", "progressed"})
        /\ asked.interventions = count + 1
        /\ asked.best = IF c.best = 0 \/ gap < c.best THEN gap ELSE c.best
    <3> HIDE DEF gap, count
    <3> QED BY <1>5 DEF Only, Controlled, Recorded
  <2> HIDE DEF asked
  <2>2. /\ asked.failures = c.failures /\ asked.successes = c.successes
        /\ asked.receipts = c.receipts /\ asked.note = c.note /\ asked.seq = c.seq
        /\ asked.files = c.files /\ asked.deliver = c.deliver /\ asked.waived = c.waived
        /\ DOMAIN asked = Controlled
    BY <2>1 DEF Only, Controlled, Recorded
  <2>3. Continues(asked)
    BY <1>8, <2>2 DEF Continues, Counted
  <2>4. GapCount(asked, plan, world) = gap
    BY <2>1, GapSame
  <2>5. count = IF ctl.interventions > 0 /\ gap < ctl.best THEN 0 ELSE ctl.interventions
    BY <1>5 DEF Interventions
  <2>6. a.ctl = asked /\ ~(count >= 2)
    BY <1>7, <1>11
  <2> HIDE DEF gap, count
  <2> QED
    BY <1>5, <1>9, <2>1, <2>3, <2>4, <2>5, <2>6 DEF NoticeGiven
<1> QED
  BY <1>7, <1>10, <1>11 DEF a

LEMMA BlankOnly == Counted(Blank) /\ Blank.failures = {} /\ Blank.pending.files = {}
<1>1. Blank.failures = {} /\ Blank.files = {} /\ Blank.deliver = {} /\ Blank.seq = 0
      /\ Blank.successes = [i \in Call |-> 0] /\ Blank.pending.files = {}
  BY DEF Blank, Nothing
<1> QED
  BY <1>1, FS_EmptySet DEF Counted, Listed

LEMMA RecordOnly ==
    ASSUME NEW c, Counted(c)
    PROVE  LET d == RecoveryState(c)
           IN  /\ Counted(d) /\ d.failures = c.failures /\ d.successes = c.successes
               /\ d.pending = c.pending
<1> DEFINE d == RecoveryState(c)
<1>1. /\ d.files = c.files /\ d.deliver = c.deliver /\ d.failures = c.failures
      /\ d.seq = c.seq /\ d.successes = c.successes /\ d.pending = c.pending
  BY BlankKind DEF RecoveryState, Recorded
<1> HIDE DEF d
<1> QED
  BY <1>1 DEF Counted, d

-----------------------------------------------------------------------------
(*                          What the gate knows is so                          *)
Board == {"state", "note", "deliver", "resolved"}
Kept ==
    /\ world \in [File -> Content] /\ DOMAIN plan = Board /\ plan.deliver \subseteq File
    /\ Counted(ctl) /\ Counted(disk) /\ disk.pending.files \subseteq File
    /\ hist.notices \in Nat

(* What would make good after a failure did so after it.                       *)
Evident(d, since) ==
    \A x \in d.failures :
        /\ \A i \in Call : d.successes[i] > x.seq => [failure |-> x.name, by |-> i] \in since
        /\ x.repaired => [failure |-> x.name, by |-> Rewritten] \in since
Evidenced == Evident(ctl, hist.since) /\ Evident(disk, hist.since)

(* A receipt names contents that a check of this turn saw.                     *)
Received ==
    /\ \A f \in File :
          ctl.receipts[f] # NoContent => ctl.receipts[f] \in hist.checked[f]
    /\ turn.phase = "ran" /\ ~turn.saw.failed /\ turn.run.op.tool \in {"scoped", "validate"} =>
          /\ "seen" \in DOMAIN turn.saw
          /\ \A f \in turn.run.op.files : turn.saw.seen[f] \in hist.checked[f]

(* While a change is not disclosed, nothing waives its check and the note is   *)
(* the one of the last change; but for a result not seen yet.                  *)
InFlight == turn.phase = "ran" /\ ~turn.saw.prevented /\ RiskWrite(turn.run.op)
Disclosed ==
    turn.phase \in Working /\ ~InFlight /\ hist.silent # {} =>
        ~ctl.waived /\ plan.note \in {NoNote, ctl.note}

(* Every two notices cost a gap of those the turn began with.                  *)
Paid(h, c) ==
    IF h.notices = 0 THEN h.first = 0 /\ c.interventions = 0 /\ c.best = 0
    ELSE /\ h.first \in Nat /\ c.best \in 1..h.first /\ c.interventions \in {1, 2}
         /\ h.notices <= 2 * (h.first - c.best) + c.interventions
Noticing ==
    /\ ~hist.stale => Paid(hist, ctl)
    /\ turn.phase \notin Working => hist.notices = 0 /\ hist.first = 0

GInv == Kept /\ Evidenced /\ Received /\ Disclosed /\ Noticing

LEMMA NoControllerOnly ==
    /\ Counted(NoController) /\ NoController.failures = {}
    /\ NoController.interventions = 0 /\ NoController.best = 0
    /\ \A f \in File : NoController.receipts[f] = NoContent
<1>1. NoPlan.deliver \subseteq File
  BY DEF NoPlan
<1> QED
  BY <1>1, BlankKind, BlankOnly, ControllerOnly DEF NoController

(* Without a turn only the record and what happened since count.               *)
LEMMA RestingWell ==
    ASSUME NEW h, DOMAIN h = Remembered,
           world' \in [File -> Content], DOMAIN plan' = Board, plan'.deliver \subseteq File,
           Counted(disk'), disk'.pending.files \subseteq File, Evident(disk', h.since),
           turn'.phase \notin Working,
           ctl' = NoController, hist' = Joined(Fresh, h)
    PROVE  GInv'
<1>1. /\ hist'.since = h.since /\ hist'.notices = 0 /\ hist'.first = 0 /\ ~hist'.stale
  BY DEF Joined, Fresh, Remembered
<1>2. Kept'
  <2>1. Counted(ctl')
    BY NoControllerOnly
  <2>2. hist'.notices \in Nat
    BY <1>1
  <2> QED
    BY <2>1, <2>2 DEF Kept
<1>3. Evidenced' /\ Received'
  BY <1>1, NoControllerOnly DEF Evidenced, Evident, Received, Working
<1>4. Disclosed' /\ Noticing'
  BY <1>1, NoControllerOnly DEF Disclosed, Noticing, Paid
<1> QED
  BY <1>2, <1>3, <1>4 DEF GInv

LEMMA EndsWell ==
    ASSUME NEW h, NEW result, DOMAIN h = Remembered, EndTurn(h, result),
           world' \in [File -> Content], DOMAIN plan' = Board, plan'.deliver \subseteq File,
           Counted(disk'), disk'.pending.files \subseteq File, Evident(disk', h.since)
    PROVE  GInv'
<1> DEFINE g == [h EXCEPT !.done = result = "done"]
<1>1. DOMAIN g = Remembered /\ g.since = h.since
  BY DEF Remembered
<1>2. turn'.phase \notin Working /\ ctl' = NoController /\ hist' = Joined(Fresh, g)
  BY DEF EndTurn, Rest, Working
<1> HIDE DEF g
<1> QED
  BY <1>1, <1>2, RestingWell

(* A turn may end anywhere.                                                    *)
LEMMA TurnEndsWell ==
    ASSUME IInv, GInv, NEW result, EndTurn(hist, result), UNCHANGED <<world, plan, disk>>
    PROVE  GInv'
BY EndsWell DEF GInv, Kept, Evidenced, Evident, IInv, Shaped

LEMMA InitWell == Init => GInv
<1> SUFFICES ASSUME Init PROVE GInv
  OBVIOUS
<1>1. /\ hist.since = {} /\ hist.notices = 0 /\ hist.first = 0 /\ ~hist.stale
  BY DEF Init, HistoryInit, Fresh, Joined
<1>2. DOMAIN plan = Board /\ plan.deliver = {} /\ ctl = NoController /\ disk = Blank
      /\ turn.phase = "rest" /\ world \in [File -> Content]
  BY DEF Init, NoPlan, Board, Rest
<1>3. Kept
  <2>1. Counted(ctl) /\ Counted(disk) /\ disk.pending.files \subseteq File
    BY <1>2, NoControllerOnly, BlankOnly
  <2>2. hist.notices \in Nat
    BY <1>1
  <2> QED
    BY <1>2, <2>1, <2>2 DEF Kept
<1>4. Evidenced /\ Received
  BY <1>2, NoControllerOnly, BlankOnly DEF Evidenced, Evident, Received
<1>5. Disclosed /\ Noticing
  BY <1>1, <1>2, NoControllerOnly DEF Disclosed, Noticing, Paid, Working
<1> QED
  BY <1>3, <1>4, <1>5 DEF GInv

LEMMA StartTurnWell == ASSUME IInv, GInv, StartTurn PROVE GInv'
<1>1. /\ DOMAIN disk = Recorded /\ Counted(disk) /\ plan.deliver \subseteq File
  BY DEF IInv, Shaped, GInv, Kept
<1>2. /\ Counted(ctl') /\ ctl'.successes = disk.successes
      /\ \A x \in ctl'.failures : \E y \in disk.failures : Alike(x, y)
      /\ ~ctl'.waived /\ ctl'.note = plan.note /\ ctl'.interventions = 0 /\ ctl'.best = 0
      /\ \A f \in File : ctl'.receipts[f] = NoContent
  BY <1>1, ControllerOnly DEF StartTurn
<1>3. /\ hist'.since = hist.since /\ hist'.notices = hist.notices /\ hist'.first = hist.first
      /\ hist'.stale = hist.stale /\ turn.phase \notin Working
      /\ UNCHANGED <<world, plan, disk>>
  BY DEF StartTurn, IInv, Shaped, Remembered, Working
<1>4. turn'.phase = "ask"
  BY DEF StartTurn, Rest
<1>5. Kept'
  BY <1>2, <1>3 DEF GInv, Kept
<1>6. Evidenced'
  BY <1>2, <1>3 DEF GInv, Evidenced, Evident, Alike
<1>7. Received' /\ Disclosed'
  BY <1>2, <1>3, <1>4 DEF Received, Disclosed
<1>8. Noticing'
  BY <1>2, <1>3, <1>4 DEF GInv, Kept, Noticing, Paid, Working
<1> QED
  BY <1>5, <1>6, <1>7, <1>8 DEF GInv

(* A step of the loop that touches none of what the gate remembers.            *)
LEMMA MovesWell ==
    ASSUME GInv, UNCHANGED <<plan, disk, ctl, hist>>, world' \in [File -> Content],
           turn.phase \in Working, turn'.phase \in Working, ~InFlight \/ InFlight',
           turn'.phase = "ran" =>
              \/ turn'.saw.failed
              \/ turn'.run.op.tool \notin {"scoped", "validate"}
    PROVE  GInv'
<1>1. Kept' /\ Evidenced'
  BY DEF GInv, Kept, Evidenced, Evident
<1>2. Received' /\ Disclosed'
  BY DEF GInv, Received, Disclosed
<1>3. Noticing'
  BY DEF GInv, Noticing
<1> QED
  BY <1>1, <1>2, <1>3 DEF GInv

LEMMA RespondUnusableWell == ASSUME IInv, GInv, RespondUnusable PROVE GInv'
<1>1. CASE turn' = NextIteration(turn) /\ UNCHANGED <<ctl, hist>>
  <2>1. turn.phase = "ask" /\ turn'.phase = "ask" /\ UNCHANGED <<world, plan, disk>>
    BY <1>1 DEF RespondUnusable, Asking, NextIteration, IInv, Shaped, Looped
  <2> QED
    BY <1>1, <2>1, MovesWell DEF GInv, Kept, Working, InFlight
<1>2. CASE EndTurn(hist, "error")
  BY <1>2, TurnEndsWell DEF RespondUnusable
<1> QED
  BY <1>1, <1>2 DEF RespondUnusable

LEMMA RespondCallsWell ==
    ASSUME IInv, GInv, NEW calls \in Responses, RespondCalls(calls) PROVE GInv'
<1>1. turn.phase = "ask" /\ turn'.phase = "calls" /\ UNCHANGED <<world, plan, disk, ctl, hist>>
  BY DEF RespondCalls, Asking, IInv, Shaped, Looped
<1> QED
  BY <1>1, MovesWell DEF GInv, Kept, Working, InFlight

LEMMA RefuseWell ==
    ASSUME IInv, GInv, NEW rejected \in Rejections, Refuse(rejected) PROVE GInv'
<1>1. /\ turn'.phase = "ran" /\ turn'.saw = Observation(TRUE, TRUE, FALSE, rejected)
      /\ turn.phase = "calls" /\ UNCHANGED <<world, plan, disk, ctl, hist>>
  <2>1. Taking /\ turn' = [Taken("ran") EXCEPT !.saw = Observation(TRUE, TRUE, FALSE, rejected)]
    BY DEF Refuse
  <2> QED
    BY <2>1, TakenKind DEF Looped, Refuse, Taking
<1>2. turn'.saw.failed = TRUE
  BY <1>1 DEF Observation
<1> QED
  BY <1>1, <1>2, MovesWell DEF GInv, Kept, Working, InFlight

LEMMA BeginWell == ASSUME IInv, GInv, Begin PROVE GInv'
<1> DEFINE op == Head(turn.calls).op
           begun == Begun(ctl, op)
<1>1. /\ Taken("running").phase = "running" /\ turn.phase = "calls" /\ op \in Op
      /\ UNCHANGED <<world, plan>>
  BY TakenKind DEF Begin, Taking
<1>2. CASE turn' = Taken("running") /\ UNCHANGED <<disk, ctl, hist>>
  BY <1>1, <1>2, MovesWell DEF GInv, Kept, Working, InFlight
<1>3. CASE Saved(RecoveryState(begun)) /\ ctl' = begun /\ turn' = Taken("running") /\ UNCHANGED hist
  <2>1. Only(ctl, begun, {"started", "pending"}) /\ begun.pending = Effects(op)
    BY BegunOnly DEF Begun, IInv, Shaped, Controlled, Recorded
  <2>2. disk' = RecoveryState(begun) /\ ctl' = begun
    BY <1>3 DEF Saved
  <2> HIDE DEF begun
  <2>3. /\ begun.files = ctl.files /\ begun.deliver = ctl.deliver /\ begun.seq = ctl.seq
        /\ begun.failures = ctl.failures /\ begun.successes = ctl.successes
        /\ begun.receipts = ctl.receipts /\ begun.waived = ctl.waived /\ begun.note = ctl.note
        /\ begun.interventions = ctl.interventions /\ begun.best = ctl.best
    BY <2>1 DEF Only, Controlled, Recorded
  <2>4. Counted(begun)
    BY <2>3 DEF GInv, Kept, Counted
  <2>5. /\ Counted(disk') /\ disk'.failures = ctl.failures /\ disk'.successes = ctl.successes
        /\ disk'.pending.files \subseteq File
    <3>1. Effects(op).files \subseteq File
      BY <1>1, OpKinds DEF Effects
    <3> QED
      BY <2>1, <2>2, <2>3, <2>4, <3>1, RecordOnly
  <2>6. Kept'
    BY <1>1, <1>3, <2>2, <2>4, <2>5 DEF GInv, Kept
  <2>7. Evidenced'
    BY <1>3, <2>2, <2>3, <2>5 DEF GInv, Evidenced, Evident
  <2>8. Received' /\ Disclosed' /\ Noticing'
    BY <1>1, <1>3, <2>2, <2>3
       DEF GInv, Received, Disclosed, Noticing, Paid, Working, InFlight
  <2> QED
    BY <2>6, <2>7, <2>8 DEF GInv
<1>4. CASE FlushFails(RecoveryState(begun)) /\ EndTurn(hist, "error")
  <2>1. Only(ctl, begun, {"started", "pending"}) /\ begun.pending = Effects(op)
    BY BegunOnly DEF Begun, IInv, Shaped, Controlled, Recorded
  <2>2. disk' = RecoveryState(begun)
    BY <1>4 DEF FlushFails
  <2> HIDE DEF begun
  <2>3. /\ begun.files = ctl.files /\ begun.deliver = ctl.deliver /\ begun.seq = ctl.seq
        /\ begun.failures = ctl.failures /\ begun.successes = ctl.successes
    BY <2>1 DEF Only, Controlled, Recorded
  <2>4. Counted(begun)
    BY <2>3 DEF GInv, Kept, Counted
  <2>5. Effects(op).files \subseteq File
    BY <1>1, OpKinds DEF Effects
  <2>6. /\ Counted(disk') /\ disk'.failures = ctl.failures /\ disk'.successes = ctl.successes
        /\ disk'.pending.files \subseteq File
    BY <2>1, <2>2, <2>3, <2>4, <2>5, RecordOnly
  <2>7. Evident(disk', hist.since)
    BY <2>6 DEF GInv, Evidenced, Evident
  <2>8. world' \in [File -> Content] /\ DOMAIN plan' = Board /\ plan'.deliver \subseteq File
    BY <1>1 DEF GInv, Kept
  <2> QED
    BY <1>4, <2>6, <2>7, <2>8, EndsWell DEF IInv, Shaped
<1>5. CASE AppendFails /\ EndTurn(hist, "error")
  BY <1>1, <1>5, TurnEndsWell DEF AppendFails
<1> QED
  BY <1>2, <1>3, <1>4, <1>5 DEF Begin

LEMMA GoodMade ==
    ASSUME NEW d, NEW o, o.id \in Call, Counted(ctl), Counted(d), Observed(d, o),
           NEW since, Evident(ctl, since)
    PROVE  Evident(d, MadeGood(since, ctl.failures, d.failures, o))
<1> DEFINE rewrites(x) == o.op.tool = "write" /\ x.op.files \subseteq o.op.files
           by(x) == IF Meta(o.op) THEN {} ELSE {o.id} \cup IF rewrites(x) THEN {Rewritten} ELSE {}
           old == {x \in ctl.failures : x.name \in {y.name : y \in d.failures}}
           kept == {p \in since : p.failure \in {x.name : x \in old}}
           made == IF o.failed THEN {p \in kept : p.by # o.id}
                   ELSE kept \cup UNION {[failure : {x.name}, by : by(x)] : x \in old}
<1>1. made = MadeGood(since, ctl.failures, d.failures, o)
  BY DEF MadeGood
<1>2. ASSUME NEW x \in d.failures, NEW y \in ctl.failures, x.name = y.name
      PROVE  /\ y \in old
             /\ \A b : [failure |-> y.name, by |-> b] \in since /\ (o.failed => b # o.id)
                         => [failure |-> x.name, by |-> b] \in made
             /\ ~o.failed => \A b \in by(y) : [failure |-> x.name, by |-> b] \in made
  <2>1. y \in old
    BY <1>2
  <2>2. ASSUME NEW b, [failure |-> y.name, by |-> b] \in since, o.failed => b # o.id
        PROVE  [failure |-> x.name, by |-> b] \in made
    <3> DEFINE p == [failure |-> y.name, by |-> b]
    <3>1. p.failure = y.name /\ p.by = b /\ p = [failure |-> x.name, by |-> b]
      BY <1>2
    <3>2. p \in kept
      <4> HIDE DEF old, p
      <4>1. p \in since
        BY <2>2 DEF p
      <4> QED BY <2>1, <3>1, <4>1
    <3> HIDE DEF kept, p
    <3> QED BY <2>2, <3>1, <3>2
  <2>3. ASSUME ~o.failed, NEW b \in by(y) PROVE [failure |-> x.name, by |-> b] \in made
    <3>1. [failure |-> x.name, by |-> b] \in [failure : {y.name}, by : by(y)]
      BY <1>2, <2>3
    <3> HIDE DEF by, old, kept
    <3> QED BY <2>1, <2>3, <3>1
  <2> QED BY <2>1, <2>2, <2>3
<1> HIDE DEF made, old, kept
<1> SUFFICES ASSUME NEW x \in d.failures
             PROVE  /\ \A i \in Call : d.successes[i] > x.seq =>
                                          [failure |-> x.name, by |-> i] \in made
                    /\ x.repaired => [failure |-> x.name, by |-> Rewritten] \in made
  BY <1>1 DEF Evident
<1>3. CASE o.failed /\ x.seq = d.seq /\ ~x.repaired
  BY <1>3 DEF Counted, Listed
<1>4. ASSUME NEW y \in ctl.failures, x.name = y.name, x.seq = y.seq,
             x.repaired => \/ y.repaired
                           \/ ~o.failed /\ o.op.tool = "write" /\ y.op.files \subseteq o.op.files
      PROVE  /\ \A i \in Call : d.successes[i] > x.seq =>
                                   [failure |-> x.name, by |-> i] \in made
             /\ x.repaired => [failure |-> x.name, by |-> Rewritten] \in made
  <2>1. /\ \A b : [failure |-> y.name, by |-> b] \in since /\ (o.failed => b # o.id)
                     => [failure |-> x.name, by |-> b] \in made
        /\ ~o.failed => \A b \in by(y) : [failure |-> x.name, by |-> b] \in made
    BY <1>2, <1>4
  <2>2. ASSUME NEW i \in Call, d.successes[i] > x.seq
        PROVE  [failure |-> x.name, by |-> i] \in made
    <3>1. d.successes =
            [ctl.successes EXCEPT ![o.id] = IF o.failed \/ Meta(o.op) THEN 0 ELSE ctl.seq + 1]
      BY DEF Observed
    <3>2. x.seq \in Nat
      BY DEF Counted, Listed
    <3>3. CASE i = o.id
      <4>1. ~o.failed /\ ~Meta(o.op)
        BY <2>2, <3>1, <3>2, <3>3 DEF Counted
      <4>2. i \in by(y)
        BY <3>3, <4>1
      <4> HIDE DEF by
      <4> QED BY <2>1, <4>1, <4>2
    <3>4. CASE i # o.id
      <4>1. ctl.successes[i] > y.seq
        BY <1>4, <2>2, <3>1, <3>4 DEF Counted
      <4> HIDE DEF by
      <4> QED BY <2>1, <3>4, <4>1 DEF Evident
    <3> QED BY <3>3, <3>4
  <2>3. ASSUME x.repaired PROVE [failure |-> x.name, by |-> Rewritten] \in made
    <3>1. CASE y.repaired
      <4>1. [failure |-> y.name, by |-> Rewritten] \in since
        BY <3>1 DEF Evident
      <4> HIDE DEF by
      <4> QED BY <2>1, <4>1, RewrittenAssumption
    <3>2. CASE ~o.failed /\ o.op.tool = "write" /\ y.op.files \subseteq o.op.files
      <4>1. Rewritten \in by(y)
        BY <3>2 DEF Meta
      <4> HIDE DEF by
      <4> QED BY <2>1, <3>2, <4>1
    <3> QED BY <1>4, <2>3, <3>1, <3>2
  <2> QED BY <2>2, <2>3
<1> QED
  BY <1>3, <1>4 DEF Observed

(* The result of the running operation, as the controller sees it.             *)
LEMMA ResultKind ==
    ASSUME IInv, NEW novel \in BOOLEAN, turn.phase = "ran"
    PROVE  LET o == Joined([novel |-> novel], Joined(turn.saw, turn.run))
           IN  /\ o.op = turn.run.op /\ o.id = turn.run.id /\ o.op \in Op /\ o.id \in Call
               /\ o.failed = turn.saw.failed /\ o.prevented = turn.saw.prevented
               /\ o.exited = turn.saw.exited
               /\ "seen" \in DOMAIN turn.saw => o.seen = turn.saw.seen
<1> DEFINE s == Joined(turn.saw, turn.run)
<1>1. /\ turn.run \in Request /\ DOMAIN turn.run = {"id", "op"}
      /\ DOMAIN turn.saw \in {Told, Told \cup {"seen"}}
  BY DEF IInv, Shaped, Request
<1>2. /\ s.op = turn.run.op /\ s.id = turn.run.id /\ s.failed = turn.saw.failed
      /\ s.prevented = turn.saw.prevented /\ s.exited = turn.saw.exited
      /\ Told \cup {"op", "id"} \subseteq DOMAIN s
      /\ "seen" \in DOMAIN turn.saw => s.seen = turn.saw.seen /\ "seen" \in DOMAIN s
  BY <1>1 DEF Joined, Told
<1> HIDE DEF s
<1>3. turn.run.op \in Op /\ turn.run.id \in Call
  BY <1>1 DEF Request
<1> QED
  BY <1>2, <1>3 DEF Joined, Told, s

LEMMA TouchedWell ==
    ASSUME NEW h, DOMAIN h = Remembered, NEW op
    PROVE  LET g == Touched(h, op)
           IN  /\ DOMAIN g = Remembered /\ g.since = h.since /\ g.checked = h.checked
               /\ g.notices = h.notices /\ g.first = h.first /\ g.stale = h.stale
               /\ ~RiskWrite(op) => g.silent = h.silent
BY DEF Touched, Remembered

LEMMA CheckedWell ==
    ASSUME NEW h, DOMAIN h = Remembered, NEW op
    PROVE  LET g == Checked(h, op)
           IN  /\ DOMAIN g = Remembered /\ g.since = h.since /\ g.silent = h.silent
               /\ g.notices = h.notices /\ g.first = h.first /\ g.stale = h.stale
               /\ \A f \in File : \A v : v \in h.checked[f] => v \in g.checked[f]
               /\ op.tool \in {"scoped", "validate"} =>
                     \A f \in op.files \cap File : world[f] \in g.checked[f]
<1> DEFINE g == Checked(h, op)
<1>1. CASE op.tool = "test" /\ ~Work
  <2>1. g = [h EXCEPT !.unproven = {}]
    BY <1>1 DEF Checked
  <2> HIDE DEF g
  <2> QED BY <1>1, <2>1 DEF Remembered, g
<1>2. CASE op.tool \in {"scoped", "validate"}
  <2>1. g = [h EXCEPT !.unproven = @ \ op.files,
                !.checked = [f \in File |-> IF f \in op.files THEN @[f] \cup {world[f]} ELSE @[f]]]
    BY <1>2 DEF Checked
  <2> HIDE DEF g
  <2>2. /\ DOMAIN g = Remembered /\ g.since = h.since /\ g.silent = h.silent
        /\ g.notices = h.notices /\ g.first = h.first /\ g.stale = h.stale
        /\ g.checked = [f \in File |-> IF f \in op.files THEN h.checked[f] \cup {world[f]}
                                       ELSE h.checked[f]]
    BY <2>1 DEF Remembered
  <2> QED BY <2>2 DEF g
<1>3. CASE ~(op.tool = "test" /\ ~Work) /\ op.tool \notin {"scoped", "validate"}
  <2>1. g = h
    BY <1>3 DEF Checked
  <2> QED BY <1>3, <2>1
<1> QED BY <1>1, <1>2, <1>3

LEMMA ExecuteWell ==
    ASSUME IInv, GInv, NEW failed \in BOOLEAN, NEW exited \in BOOLEAN, Execute(failed, exited)
    PROVE  GInv'
<1> DEFINE op == turn.run.op
           h == Touched(hist, op)
           g == [h EXCEPT !.uncertain = @ \/ (Effects(op).unknown /\ ~exited)]
<1>1. /\ op \in Op /\ turn.phase = "running" /\ world' \in Left(op)
      /\ op.tool = "scoped" /\ ~failed => \A f \in op.files : world'[f] = world[f]
      /\ UNCHANGED <<plan, disk, ctl>> /\ hist' = IF failed THEN g ELSE Checked(h, op)
  BY DEF IInv, Shaped, Request, Execute
<1>2. world' \in [File -> Content] /\ \A f \in File \ Reach(op) : world'[f] = world[f]
  BY <1>1 DEF Left
<1>3. /\ turn'.phase = "ran" /\ turn'.run = turn.run
      /\ turn'.saw = Joined(Observation(failed, FALSE, exited, "no"), [seen |-> world'])
  BY DEF Execute, IInv, Shaped, Looped
<1>4. /\ turn'.saw.failed = failed /\ turn'.saw.prevented = FALSE
      /\ turn'.saw.seen = world' /\ "seen" \in DOMAIN turn'.saw
  BY <1>3 DEF Joined, Observation
<1>5. /\ DOMAIN h = Remembered /\ h.since = hist.since /\ h.checked = hist.checked
      /\ h.notices = hist.notices /\ h.first = hist.first /\ h.stale = hist.stale
      /\ ~RiskWrite(op) => h.silent = hist.silent
  BY TouchedWell DEF IInv, Shaped
<1> HIDE DEF h
<1>6. /\ DOMAIN hist' = Remembered /\ hist'.since = hist.since
      /\ hist'.notices = hist.notices /\ hist'.first = hist.first /\ hist'.stale = hist.stale
      /\ ~RiskWrite(op) => hist'.silent = hist.silent
      /\ \A f \in File : \A v : v \in hist.checked[f] => v \in hist'.checked[f]
      /\ ~failed /\ op.tool \in {"scoped", "validate"} =>
            \A f \in op.files \cap File : world[f] \in hist'.checked[f]
  <2>1. CASE failed
    <3>1. DOMAIN g = Remembered /\ g.since = h.since /\ g.checked = h.checked
          /\ g.notices = h.notices /\ g.first = h.first /\ g.stale = h.stale
          /\ g.silent = h.silent
      BY <1>5 DEF Remembered
    <3> HIDE DEF g
    <3> QED BY <1>1, <1>5, <2>1, <3>1
  <2>2. CASE ~failed
    BY <1>1, <1>5, <2>2, CheckedWell
  <2> QED BY <2>1, <2>2
<1> HIDE DEF g
<1>7. Kept' /\ Evidenced'
  BY <1>1, <1>2, <1>6 DEF GInv, Kept, Evidenced, Evident
<1>8. Received'
  <2>1. ASSUME ~failed, op.tool \in {"scoped", "validate"}, NEW f \in op.files
        PROVE  world'[f] \in hist'.checked[f]
    <3>1. f \in File
      BY <1>1, <2>1, OpKinds
    <3>2. CASE op.tool = "scoped"
      BY <1>1, <1>6, <2>1, <3>1, <3>2
    <3>3. CASE op.tool = "validate"
      <4>1. Reach(op) = {}
        BY <3>3 DEF Reach, Effects, RunCommand
      <4> QED BY <1>2, <1>6, <2>1, <3>1, <4>1
    <3> QED BY <2>1, <3>2, <3>3
  <2> QED
    BY <1>1, <1>3, <1>4, <1>6, <2>1 DEF GInv, Received
<1>9. Disclosed'
  BY <1>1, <1>3, <1>4, <1>6 DEF GInv, Disclosed, InFlight, Working
<1>10. Noticing'
  BY <1>1, <1>3, <1>6 DEF GInv, Noticing, Paid, Working
<1> QED
  BY <1>7, <1>8, <1>9, <1>10 DEF GInv

LEMMA UpdatesKind ==
    ASSUME GInv, NEW update \in Updates
    PROVE  DOMAIN update = Board /\ update.deliver \subseteq File
<1> DEFINE notes == {[plan EXCEPT !.note = n] : n \in Disclosure \cup {NoNote}}
           files == {[plan EXCEPT !.deliver = fs] : fs \in SUBSET File}
           named == {[plan EXCEPT !.resolved = rs] : rs \in Resolutions \cup {{}}}
<1>1. DOMAIN plan = Board /\ plan.deliver \subseteq File
  BY DEF GInv, Kept
<1>2. \A u \in notes \cup files \cup named : DOMAIN u = Board /\ u.deliver \subseteq File
  BY <1>1 DEF Board
<1>3. PICK u \in notes \cup files \cup named :
         \E st \in {"open", "done", "blocked"} : update = [u EXCEPT !.state = st]
  BY DEF Updates
<1>4. DOMAIN u = Board /\ u.deliver \subseteq File
  BY <1>2, <1>3
<1> HIDE DEF notes, files, named
<1> QED
  BY <1>3, <1>4 DEF Board

LEMMA PlanWell ==
    ASSUME IInv, GInv, (\E update \in Updates : UpdatePlan(update)) \/ PlanRefused PROVE GInv'
<1>1. ASSUME NEW update \in Updates, UpdatePlan(update) PROVE GInv'
  <2>1. /\ turn.phase = "running" /\ Meta(turn.run.op) /\ plan' = update
        /\ UNCHANGED <<world, disk, ctl>>
        /\ turn'.phase = "ran" /\ turn'.run = turn.run
    BY <1>1 DEF UpdatePlan, IInv, Shaped, Looped
  <2>2. /\ hist'.since = hist.since /\ hist'.checked = hist.checked
        /\ hist'.notices = hist.notices /\ hist'.first = hist.first /\ hist'.stale = hist.stale
        /\ hist'.silent = IF update.note \in {NoNote, plan.note} THEN hist.silent ELSE {}
    BY <1>1 DEF UpdatePlan, IInv, Shaped, Remembered
  <2>3. DOMAIN update = Board /\ update.deliver \subseteq File
    BY <1>1, UpdatesKind
  <2>4. Kept' /\ Evidenced'
    BY <2>1, <2>2, <2>3 DEF GInv, Kept, Evidenced, Evident
  <2>5. Received' /\ Noticing'
    BY <2>1, <2>2 DEF GInv, Received, Noticing, Paid, Working, Meta
  <2>6. Disclosed'
    BY <2>1, <2>2 DEF GInv, Disclosed, InFlight, Working
  <2> QED
    BY <2>4, <2>5, <2>6 DEF GInv
<1>2. CASE PlanRefused
  <2>1. /\ turn.phase = "running" /\ turn'.phase = "ran" /\ turn'.run = turn.run
        /\ Meta(turn.run.op) /\ UNCHANGED <<world, plan, disk, ctl, hist>>
    BY <1>2 DEF PlanRefused, IInv, Shaped, Looped
  <2> QED
    BY <2>1, MovesWell DEF GInv, Kept, Working, InFlight, Meta
<1> QED
  BY <1>1, <1>2

LEMMA ObserveResultWell ==
    ASSUME IInv, GInv, NEW novel \in BOOLEAN, ObserveResult(novel) PROVE GInv'
<1> DEFINE o == Joined([novel |-> novel], Joined(turn.saw, turn.run))
           d == Observe(ctl, o, plan, world)
           c == Finished(d, o)
<1>1. /\ o.op = turn.run.op /\ o.id = turn.run.id /\ o.op \in Op /\ o.id \in Call
      /\ o.failed = turn.saw.failed /\ o.prevented = turn.saw.prevented
      /\ "seen" \in DOMAIN turn.saw => o.seen = turn.saw.seen
      /\ turn.phase = "ran"
  BY ResultKind DEF ObserveResult
<1> HIDE DEF o
<1>2. /\ DOMAIN d = Controlled /\ Counted(d) /\ Observed(d, o)
      /\ d.interventions = ctl.interventions /\ d.best = ctl.best
      /\ Follows(ctl, d)
  BY <1>1, ObserveOnly, ObserveOwes DEF IInv, Shaped, GInv, Kept
<1> HIDE DEF d
<1>3. Only(d, c, {"started", "pending"}) /\ c.pending \in {ctl.pending, Nothing}
  <2>1. c.pending \in {d.pending, Nothing}
    BY <1>2, FinishedKeeps DEF Follows, IInv, Shaped
  <2> QED BY <1>2, <2>1, FinishedOnly DEF Follows
<1> HIDE DEF c
<1>4. /\ c.files = d.files /\ c.deliver = d.deliver /\ c.failures = d.failures
      /\ c.seq = d.seq /\ c.successes = d.successes /\ c.receipts = d.receipts
      /\ c.waived = d.waived /\ c.note = d.note
      /\ c.interventions = ctl.interventions /\ c.best = ctl.best
  BY <1>2, <1>3 DEF Only, Controlled, Recorded
<1>5. CASE AppendFails /\ EndTurn(hist, "error")
  BY <1>5, TurnEndsWell DEF AppendFails, ObserveResult
<1> DEFINE h == [hist EXCEPT !.since = MadeGood(@, ctl.failures, c.failures, o)]
           r == RecoveryState(c)
<1>6. Counted(c)
  BY <1>2, <1>4 DEF Counted
<1>7. /\ Counted(r) /\ r.failures = c.failures /\ r.successes = c.successes
      /\ r.pending = c.pending
  BY <1>6, RecordOnly
<1>8. r.pending.files \subseteq File
  BY <1>1, <1>3, <1>7 DEF GInv, Kept, IInv, WrittenAhead, Working, Nothing
<1>9. /\ DOMAIN h = Remembered /\ h.since = MadeGood(hist.since, ctl.failures, c.failures, o)
      /\ h.checked = hist.checked /\ h.silent = hist.silent
      /\ h.notices = hist.notices /\ h.first = hist.first /\ h.stale = hist.stale
  BY DEF IInv, Shaped, Remembered
<1> HIDE DEF h, r
<1>10. Evident(c, h.since) /\ Evident(r, h.since)
  <2>1. Evident(d, MadeGood(hist.since, ctl.failures, d.failures, o))
    BY <1>1, <1>2, GoodMade DEF GInv, Kept, Evidenced
  <2>2. Evident(d, h.since)
    BY <1>4, <1>9, <2>1
  <2> QED
    BY <1>4, <1>7, <2>2 DEF Evident
<1>11. UNCHANGED <<world, plan>>
  BY DEF ObserveResult
<1>12. CASE FlushFails(r) /\ EndTurn(h, "error")
  <2>1. disk' = r
    BY <1>12 DEF FlushFails
  <2>2. world' \in [File -> Content] /\ DOMAIN plan' = Board /\ plan'.deliver \subseteq File
    BY <1>11 DEF GInv, Kept
  <2> QED
    BY <1>7, <1>8, <1>9, <1>10, <1>12, <2>1, <2>2, EndsWell
<1>13. CASE /\ Saved(r) /\ ctl' = c
            /\ turn' = [turn EXCEPT !.phase = "calls", !.run = NoRun, !.saw = NoSaw]
            /\ hist' = h
  <2>1. disk' = r /\ ctl' = c /\ hist' = h
    BY <1>13 DEF Saved
  <2>2. turn'.phase = "calls"
    BY <1>13 DEF IInv, Shaped, Looped
  <2>3. Kept'
    BY <1>6, <1>7, <1>8, <1>9, <1>11, <2>1 DEF GInv, Kept
  <2>4. Evidenced'
    BY <1>10, <2>1 DEF Evidenced
  <2>5. Received'
    BY <1>1, <1>2, <1>4, <1>9, <2>1, <2>2 DEF GInv, Received, Observed
  <2>6. Disclosed'
    BY <1>1, <1>2, <1>4, <1>9, <1>11, <2>1, <2>2
       DEF GInv, Disclosed, Observed, InFlight, Working
  <2>7. Noticing'
    BY <1>1, <1>4, <1>9, <2>1, <2>2 DEF GInv, Noticing, Paid, Working
  <2> QED
    BY <2>3, <2>4, <2>5, <2>6, <2>7 DEF GInv
<1> QED
  BY <1>5, <1>12, <1>13 DEF ObserveResult, o, d, c, h, r

(* A notice costs a gap, or is the second for the same ones.                   *)
LEMMA NoticePaid ==
    ASSUME NEW h, NEW c, NEW gap \in Nat, NEW first, NEW notices,
           h.notices \in Nat, gap # 0,
           Paid(h, ctl), NoticeGiven(c, gap),
           notices = h.notices + 1, first = IF h.first = 0 THEN gap ELSE h.first
    PROVE  /\ notices # 0 /\ first \in Nat /\ c.best \in 1..first /\ c.interventions \in {1, 2}
           /\ notices <= 2 * (first - c.best) + c.interventions
<1>1. CASE h.notices = 0
  BY <1>1 DEF Paid, NoticeGiven
<1>2. CASE h.notices # 0
  <2>1. PICK n, f, b, i \in Nat :
           /\ n = h.notices /\ f = h.first /\ b = ctl.best /\ i = ctl.interventions
           /\ b >= 1 /\ b <= f /\ i \in {1, 2} /\ n <= 2 * (f - b) + i
    BY <1>2 DEF Paid
  <2>2. first = f /\ notices = n + 1
    BY <2>1
  <2>3. CASE gap < b
    <3>1. c.interventions = 1 /\ c.best = gap
      BY <2>1, <2>3 DEF NoticeGiven
    <3>2. n + 1 <= 2 * (f - gap) + 1 /\ gap >= 1 /\ gap <= f
      BY <2>1, <2>3
    <3> QED BY <2>1, <2>2, <3>1, <3>2
  <2>4. CASE ~(gap < b)
    <3>1. i = 1 /\ c.interventions = 2 /\ c.best = b
      BY <2>1, <2>4 DEF NoticeGiven
    <3> QED BY <2>1, <2>2, <3>1
  <2> QED BY <2>3, <2>4
<1> QED
  BY <1>1, <1>2

LEMMA AssessedWell ==
    ASSUME IInv, GInv, turn.phase \in {"ask", "calls"}, NEW decision, NEW continued,
           Assessed(decision, continued), UNCHANGED <<world, plan>>,
           decision.says \in Ends \cup Notices,
           decision.says \in Notices =>
              /\ Continues(decision.ctl)
              /\ NoticeGiven(decision.ctl, GapCount(decision.ctl, plan, world)),
           continued.phase \in {"ask", "calls"}
    PROVE  GInv'
<1> DEFINE h == [hist EXCEPT !.unproven = {x \in @ : x \notin File \/ world[x] # ctl.receipts[x]}]
           e == [h EXCEPT !.unproven = {}, !.silent = {}, !.since = {}]
           gap == GapCount(decision.ctl, plan, world)
<1>1. /\ DOMAIN h = Remembered /\ h.since = hist.since /\ h.checked = hist.checked
      /\ h.notices = hist.notices /\ h.first = hist.first /\ h.stale = hist.stale
      /\ h.silent = hist.silent
  BY DEF IInv, Shaped, Remembered
<1>2. DOMAIN e = Remembered /\ e.since = {}
  BY <1>1 DEF Remembered
<1> HIDE DEF h, e
<1>3. world' \in [File -> Content] /\ DOMAIN plan' = Board /\ plan'.deliver \subseteq File
  BY DEF GInv, Kept
<1>4. ASSUME NEW result, EndTurn(h, result), disk' = disk PROVE GInv'
  <2>1. Counted(disk') /\ disk'.pending.files \subseteq File /\ Evident(disk', h.since)
    BY <1>1, <1>4 DEF GInv, Kept, Evidenced
  <2> QED BY <1>1, <1>3, <1>4, <2>1, EndsWell
<1>5. CASE decision.says = "done"
  <2>1. CASE (Saved(Blank) \/ FlushFails(Blank)) /\ EndTurn(e, "done")
    <3>1. Counted(disk') /\ disk'.pending.files \subseteq File /\ Evident(disk', e.since)
      BY <2>1, BlankOnly DEF Saved, FlushFails, Evident
    <3> QED BY <1>2, <1>3, <2>1, <3>1, EndsWell
  <2>2. CASE AppendFails /\ EndTurn(h, "error")
    BY <1>4, <2>2 DEF AppendFails
  <2> QED
    BY <1>5, <2>1, <2>2 DEF Assessed, h, e
<1>6. CASE decision.says \in {"blocked", "needs_verification"}
  <2>1. EndTurn(h, decision.says) /\ disk' = disk
    BY <1>6 DEF Assessed, h
  <2> QED BY <1>4, <2>1
<1>7. CASE decision.says \in Notices
  <2>1. turn' = continued /\ ctl' = decision.ctl /\ disk' = disk /\ hist' = Notice(h, gap)
    BY <1>7 DEF Assessed, h, Notices
  <2>2. Continues(ctl') /\ NoticeGiven(ctl', gap) /\ gap \in Nat
    BY <1>7, <2>1 DEF NoticeGiven
  <2> HIDE DEF gap
  <2>3. /\ hist'.since = hist.since /\ hist'.checked = hist.checked
        /\ hist'.silent = hist.silent /\ hist'.notices = hist.notices + 1
        /\ hist'.first = (IF hist.first = 0 THEN gap ELSE hist.first)
        /\ ~hist'.stale => ~hist.stale /\ gap # 0
    BY <1>1, <2>1 DEF Notice, Remembered
  <2>4. turn'.phase \in {"ask", "calls"} /\ turn.phase \in Working
    BY <2>1 DEF Working
  <2>5. Kept'
    BY <1>3, <2>1, <2>2, <2>3 DEF GInv, Kept, Continues
  <2>6. Evidenced'
    BY <2>1, <2>2, <2>3 DEF GInv, Evidenced, Evident, Continues
  <2>7. Received' /\ Disclosed'
    BY <2>2, <2>3, <2>4 DEF GInv, Received, Disclosed, InFlight, Working, Continues
  <2>8. Noticing'
    <3>1. ASSUME ~hist'.stale PROVE Paid(hist', ctl')
      <4>1. Paid(hist, ctl) /\ gap # 0 /\ hist.notices \in Nat
        BY <2>3, <3>1 DEF GInv, Noticing, Kept
      <4>2. /\ hist'.notices # 0 /\ hist'.first \in Nat /\ ctl'.best \in 1..hist'.first
            /\ ctl'.interventions \in {1, 2}
            /\ hist'.notices <= 2 * (hist'.first - ctl'.best) + ctl'.interventions
        BY <2>2, <2>3, <4>1, NoticePaid
      <4> QED BY <4>2 DEF Paid
    <3> QED BY <2>4, <3>1 DEF Noticing, Working
  <2> QED
    BY <2>5, <2>6, <2>7, <2>8 DEF GInv
<1> QED
  BY <1>5, <1>6, <1>7 DEF Ends

LEMMA RespondFinalWell == ASSUME IInv, GInv, RespondFinal PROVE GInv'
<1> DEFINE decision == Assess(ctl, plan, world)
           held == IF decision.says = "notice_reusable" /\ turn.held = "none"
                   THEN "reusable" ELSE turn.held
           continued == NextIteration([turn EXCEPT !.held = held])
<1>1. Assessed(decision, continued) /\ turn.phase = "ask" /\ UNCHANGED <<world, plan>>
  BY DEF RespondFinal, Asking
<1>2. continued.phase = "ask"
  BY DEF NextIteration, IInv, Shaped, Looped
<1>3. /\ decision.says \in Ends \cup Notices
      /\ decision.says \in Notices =>
            /\ Continues(decision.ctl)
            /\ NoticeGiven(decision.ctl, GapCount(decision.ctl, plan, world))
  BY AssessOnly DEF IInv, Shaped, GInv, Kept
<1> HIDE DEF decision, continued
<1> QED
  BY <1>1, <1>2, <1>3, AssessedWell

LEMMA CallsDoneWell == ASSUME IInv, GInv, CallsDone PROVE GInv'
<1>1. /\ Renewed.phase = "ask" /\ turn.phase = "calls" /\ UNCHANGED <<world, plan>>
  BY DEF CallsDone, Renewed, NextIteration, IInv, Shaped, Looped
<1>2. CASE turn.held = "reusable"
  <2> DEFINE a == Assess(ctl, plan, world)
             decision == [a EXCEPT !.ctl = [@ EXCEPT !.progressed = FALSE]]
  <2>1. /\ DOMAIN a = {"says", "ctl"} /\ a.says \in Ends \cup Notices
        /\ a.says \in Notices =>
              Continues(a.ctl) /\ NoticeGiven(a.ctl, GapCount(a.ctl, plan, world))
    BY AssessOnly DEF IInv, Shaped, GInv, Kept
  <2>2. Assessed(decision, Renewed)
    BY <1>2 DEF CallsDone
  <2> HIDE DEF a
  <2>3. decision.says = a.says /\ decision.ctl = [a.ctl EXCEPT !.progressed = FALSE]
    BY <2>1
  <2> HIDE DEF decision
  <2>4. ASSUME a.says \in Notices
        PROVE  /\ Continues(decision.ctl)
               /\ NoticeGiven(decision.ctl, GapCount(decision.ctl, plan, world))
    <3> DEFINE c == a.ctl
               d == decision.ctl
    <3>1. Continues(c) /\ NoticeGiven(c, GapCount(c, plan, world))
      BY <2>1, <2>4
    <3>2. d = [c EXCEPT !.progressed = FALSE]
      BY <2>3
    <3> HIDE DEF c, d
    <3>3. Only(c, d, {"progressed"})
      BY <3>1, <3>2 DEF Continues, Only
    <3>4. /\ d.failures = c.failures /\ d.successes = c.successes /\ d.receipts = c.receipts
          /\ d.note = c.note /\ d.waived = c.waived /\ d.files = c.files
          /\ d.deliver = c.deliver /\ d.seq = c.seq
          /\ d.interventions = c.interventions /\ d.best = c.best
      BY <3>3 DEF Only, Controlled, Recorded
    <3>5. GapCount(d, plan, world) = GapCount(c, plan, world)
      <4>1. Only(c, d, {"interventions", "best", "progressed"})
        BY <3>3 DEF Only
      <4> QED BY <4>1, GapSame
    <3>6. Continues(d)
      BY <3>1, <3>3, <3>4 DEF Continues, Counted, Only
    <3>7. NoticeGiven(d, GapCount(d, plan, world))
      BY <3>1, <3>4, <3>5 DEF NoticeGiven
    <3> QED BY <3>6, <3>7 DEF d
  <2> QED
    BY <1>1, <2>1, <2>2, <2>3, <2>4, AssessedWell
<1>3. CASE turn.held # "reusable"
  <2>1. /\ turn' = Renewed /\ ctl' = [ctl EXCEPT !.progressed = FALSE]
        /\ UNCHANGED <<disk, hist>>
    BY <1>3 DEF CallsDone
  <2>2. Only(ctl, ctl', {"progressed"})
    BY <2>1 DEF IInv, Shaped, Only
  <2>3. /\ ctl'.failures = ctl.failures /\ ctl'.successes = ctl.successes
        /\ ctl'.receipts = ctl.receipts /\ ctl'.note = ctl.note /\ ctl'.waived = ctl.waived
        /\ ctl'.files = ctl.files /\ ctl'.deliver = ctl.deliver /\ ctl'.seq = ctl.seq
        /\ ctl'.interventions = ctl.interventions /\ ctl'.best = ctl.best
    BY <2>2 DEF Only, Controlled, Recorded
  <2>4. Kept' /\ Evidenced'
    BY <1>1, <2>1, <2>3 DEF GInv, Kept, Counted, Evidenced, Evident
  <2>5. Received' /\ Disclosed' /\ Noticing'
    BY <1>1, <2>1, <2>3 DEF GInv, Received, Disclosed, Noticing, Paid, InFlight, Working
  <2> QED BY <2>4, <2>5 DEF GInv
<1> QED
  BY <1>2, <1>3

LEMMA AcknowledgeWell == ASSUME IInv, GInv, Acknowledge PROVE GInv'
<1>1. turn.phase = "rest" /\ UNCHANGED <<world, plan, ctl, turn>>
  BY DEF Acknowledge
<1>2. CASE /\ Saved(Acknowledged(disk)) \/ FlushFails(Acknowledged(disk))
           /\ hist' = [hist EXCEPT !.uncertain = FALSE]
  <2>1. /\ disk'.pending = Nothing /\ disk'.files = disk.files \cup disk.pending.files
        /\ disk'.deliver = disk.deliver /\ disk'.failures = disk.failures
        /\ disk'.seq = disk.seq /\ disk'.successes = disk.successes
    BY <1>2 DEF Saved, FlushFails, Acknowledged, IInv, Shaped, Recorded
  <2>2. /\ hist'.since = hist.since /\ hist'.checked = hist.checked
        /\ hist'.silent = hist.silent /\ hist'.notices = hist.notices
        /\ hist'.first = hist.first /\ hist'.stale = hist.stale
    BY <1>2 DEF IInv, Shaped, Remembered
  <2>3. Counted(disk')
    BY <2>1 DEF GInv, Kept, Counted
  <2>4. Kept'
    BY <1>1, <2>1, <2>2, <2>3 DEF GInv, Kept, Nothing
  <2>5. Evidenced'
    BY <1>1, <2>1, <2>2 DEF GInv, Evidenced, Evident
  <2>6. Received' /\ Disclosed' /\ Noticing'
    BY <1>1, <2>2 DEF GInv, Received, Disclosed, Noticing, Paid, Working
  <2> QED BY <2>4, <2>5, <2>6 DEF GInv
<1>3. CASE AppendFails /\ UNCHANGED hist
  <2>1. UNCHANGED <<world, plan, disk, ctl, turn, hist>>
    BY <1>1, <1>3 DEF AppendFails
  <2> QED
    BY <2>1 DEF GInv, Kept, Evidenced, Evident, Received, Disclosed, InFlight, Noticing, Paid
<1> QED
  BY <1>2, <1>3 DEF Acknowledge

LEMMA CrashWell == ASSUME IInv, GInv, Crash PROVE GInv'
<1> DEFINE op == turn.run.op
           running == turn.phase = "running" /\ ~Meta(op)
           h == IF running THEN Touched(hist, op) ELSE hist
           g == [h EXCEPT !.done = FALSE, !.uncertain = @ \/ ctl.started]
<1>1. DOMAIN h = Remembered /\ h.since = hist.since
  BY TouchedWell DEF IInv, Shaped
<1>2. /\ turn' = [Rest EXCEPT !.phase = "down"] /\ ctl' = NoController /\ hist' = Joined(Fresh, g)
      /\ UNCHANGED <<plan, disk>> /\ world' \in IF running THEN Left(op) ELSE {world}
  BY DEF Crash
<1> HIDE DEF h
<1>3. DOMAIN g = Remembered /\ g.since = hist.since
  BY <1>1 DEF Remembered
<1>4. world' \in [File -> Content]
  BY <1>2 DEF Left, GInv, Kept
<1>5. turn'.phase \notin Working
  BY <1>2 DEF Rest, Working
<1>6. /\ DOMAIN plan' = Board /\ plan'.deliver \subseteq File
      /\ Counted(disk') /\ disk'.pending.files \subseteq File /\ Evident(disk', g.since)
  BY <1>2, <1>3 DEF GInv, Kept, Evidenced
<1> HIDE DEF g
<1> QED
  BY <1>2, <1>3, <1>4, <1>5, <1>6, RestingWell

LEMMA StepWell == IInv /\ GInv /\ [Next]_vars => GInv'
<1> SUFFICES ASSUME IInv, GInv, [Next]_vars PROVE GInv'
  OBVIOUS
<1>1. CASE Limit \/ ProviderFails \/ BeginRefused
  BY <1>1, TurnEndsWell DEF Limit, ProviderFails, BeginRefused
<1>2. CASE EditOutside \/ UNCHANGED vars
  <2>1. UNCHANGED <<plan, disk, ctl, turn, hist>> /\ world' \in [File -> Content]
    BY <1>2 DEF EditOutside, vars, GInv, Kept
  <2> QED
    BY <2>1 DEF GInv, Kept, Evidenced, Evident, Received, Disclosed, InFlight, Noticing, Paid
<1>3. CASE Restart
  <2>1. UNCHANGED <<world, plan, disk, ctl, hist>> /\ turn.phase = "down" /\ turn'.phase = "rest"
    BY <1>3 DEF Restart, Rest
  <2> QED
    BY <2>1
       DEF GInv, Kept, Evidenced, Evident, Received, Disclosed, InFlight, Noticing, Paid, Working
<1>4. CASE Agent
  BY <1>1, <1>4, RespondUnusableWell, RespondFinalWell, RespondCallsWell, CallsDoneWell,
     BeginWell, RefuseWell, ExecuteWell, PlanWell, ObserveResultWell DEF Agent
<1> QED
  BY <1>2, <1>3, <1>4, StartTurnWell, AcknowledgeWell, CrashWell DEF Next

(* What the gate goes by is so: receipts name contents that a check saw, a     *)
(* success numbered after a failure came after it, an undisclosed change is no *)
(* reason to waive, and notices are paid for (completion.go observe, assess).  *)
THEOREM GateSound == Spec => [](IInv /\ GInv)
<1> QED
  BY InitSound, StepSound, InitWell, StepWell, PTL DEF Spec

-----------------------------------------------------------------------------
(*                           Theorems about the gate                           *)
(* A turn gets at most two notices for each gap it began with (completion.go   *)
(* assess): interventions start anew only when there are fewer gaps.           *)
THEOREM NoticesAreBounded == Spec => []NoticesBounded
<1>1. ASSUME IInv, GInv PROVE NoticesBounded
  <2> SUFFICES ASSUME ~hist.stale PROVE hist.notices <= 2 * hist.first
    BY DEF NoticesBounded, maxCompletionInterventions
  <2>1. Paid(hist, ctl)
    BY <1>1 DEF GInv, Noticing
  <2>2. CASE hist.notices = 0
    BY <2>1, <2>2 DEF Paid
  <2>3. CASE hist.notices # 0
    <3>1. PICK n, f, b, i \in Nat :
             /\ n = hist.notices /\ f = hist.first /\ b = ctl.best /\ i = ctl.interventions
             /\ b >= 1 /\ b <= f /\ i <= 2 /\ n <= 2 * (f - b) + i
      BY <1>1, <2>1, <2>3 DEF Paid, GInv, Kept
    <3>2. n <= 2 * f
      BY <3>1
    <3> QED
      BY <3>1, <3>2
  <2> QED
    BY <2>2, <2>3
<1> QED
  BY <1>1, GateSound, PTL

(* What is shown to the gate is so: the receipts it compares are of contents   *)
(* that a check of this turn saw, and what it takes as waived was disclosed.   *)
Settling ==
    /\ \A x \in hist.unproven \cap hist.silent : x \in File /\ SeenNow(x)
    /\ \A f \in ctl.deliver : SeenNow(f)
    /\ ctl.failures = {} /\ ~hist.uncertain
LEMMA ShownIsSo ==
    ASSUME IInv, GInv, turn.phase \in {"ask", "calls"}, Shown PROVE Settling
<1>1. ASSUME NEW f \in File, ctl.receipts[f] = world[f] PROVE SeenNow(f)
  <2>1. world[f] \in Content
    BY DEF GInv, Kept
  <2>2. ctl.receipts[f] # NoContent
    BY <1>1, <2>1, NamesAssumption
  <2> QED
    BY <1>1, <2>2 DEF GInv, Received, SeenNow
<1>2. \A f \in ctl.deliver : SeenNow(f)
  BY <1>1 DEF Shown, GInv, Kept, Counted
<1>3. ~hist.uncertain
  BY DEF Shown, IInv, DoubtRecorded, WrittenAhead, Working
<1>4. ASSUME NEW x \in hist.unproven \cap hist.silent PROVE x \in File /\ SeenNow(x)
  <2>1. ~ctl.waived
    BY <1>4 DEF GInv, Disclosed, InFlight, Working
  <2>2. ~ctl.unknown /\ \A f \in ctl.files : ctl.receipts[f] = world[f]
    BY <2>1 DEF Shown
  <2>3. OnRecord(x, ctl)
    BY <1>4 DEF IInv, WrittenAhead, Owing, Working
  <2>4. x \in File /\ x \in ctl.files
    BY <2>2, <2>3 DEF OnRecord, Shown, Nothing
  <2> QED
    BY <1>1, <2>2, <2>4
<1> QED
  BY <1>2, <1>3, <1>4 DEF Settling, Shown

(* Only an assessment that says so ends a turn as done.                        *)
LEMMA AssessedDone ==
    ASSUME IInv, NEW decision, NEW continued, Assessed(decision, continued),
           hist'.done, ~hist.done
    PROVE  decision.says = "done"
<1> DEFINE h == [hist EXCEPT !.unproven = {x \in @ : x \notin File \/ world[x] # ctl.receipts[x]}]
<1>1. DOMAIN h = Remembered /\ h.done = hist.done
  BY DEF IInv, Shaped, Remembered
<1> HIDE DEF h
<1>2. CASE decision.says \in {"blocked", "needs_verification"}
  <2>1. EndTurn(h, decision.says)
    BY <1>2 DEF Assessed, h
  <2>2. hist'.done = (decision.says = "done")
    BY <1>1, <2>1 DEF EndTurn, Joined, Fresh, Remembered
  <2> QED
    BY <2>2
<1>3. CASE decision.says \notin {"done", "blocked", "needs_verification"}
  <2>1. hist' = Notice(h, GapCount(decision.ctl, plan, world))
    BY <1>3 DEF Assessed, h
  <2>2. hist'.done = hist.done
    BY <1>1, <2>1 DEF Notice, Remembered
  <2> QED
    BY <2>2
<1> QED
  BY <1>2, <1>3

LEMMA OnlySettled ==
    ASSUME IInv, GInv, [Next]_vars, hist'.done, ~hist.done PROVE Settling
<1>1. DOMAIN hist = Remembered /\ DOMAIN turn = Looped
  BY DEF IInv, Shaped
<1>2. ASSUME NEW h, DOMAIN h = Remembered, NEW result, result # "done"
      PROVE  ~EndTurn(h, result)
  BY <1>2 DEF EndTurn, Joined, Fresh, Remembered
<1>3. /\ ~Limit /\ ~ProviderFails /\ ~RespondUnusable /\ ~BeginRefused /\ ~Begin
      /\ \A calls \in Responses : ~RespondCalls(calls)
      /\ \A rejected \in Rejections : ~Refuse(rejected)
  BY <1>1, <1>2
     DEF Limit, ProviderFails, RespondUnusable, BeginRefused, Begin, RespondCalls, Refuse
<1>4. \A failed, exited \in BOOLEAN : ~Execute(failed, exited)
  <2> SUFFICES ASSUME NEW failed \in BOOLEAN, NEW exited \in BOOLEAN, Execute(failed, exited)
               PROVE  FALSE
    OBVIOUS
  <2> DEFINE op == turn.run.op
             h == Touched(hist, op)
             g == [h EXCEPT !.uncertain = @ \/ (Effects(op).unknown /\ ~exited)]
  <2>1. DOMAIN h = Remembered /\ h.done = hist.done
    BY <1>1 DEF Touched, Remembered
  <2>2. hist' = IF failed THEN g ELSE Checked(h, op)
    BY DEF Execute
  <2> HIDE DEF h
  <2>3. g.done = h.done
    BY <2>1 DEF Remembered
  <2>4. Checked(h, op).done = h.done
    BY <2>1 DEF Checked, Remembered
  <2> QED
    BY <2>1, <2>2, <2>3, <2>4
<1>5. /\ \A update \in Updates : ~UpdatePlan(update)
      /\ ~PlanRefused
  BY <1>1 DEF UpdatePlan, PlanRefused, Remembered
<1>6. \A novel \in BOOLEAN : ~ObserveResult(novel)
  <2> SUFFICES ASSUME NEW novel \in BOOLEAN, ObserveResult(novel) PROVE FALSE
    OBVIOUS
  <2>1. \E since : LET h == [hist EXCEPT !.since = since]
                   IN  hist' = h \/ EndTurn(h, "error") \/ EndTurn(hist, "error")
    BY DEF ObserveResult
  <2>2. PICK since : LET h == [hist EXCEPT !.since = since]
                     IN  hist' = h \/ EndTurn(h, "error") \/ EndTurn(hist, "error")
    BY <2>1
  <2> DEFINE h == [hist EXCEPT !.since = since]
  <2>3. DOMAIN h = Remembered /\ h.done = hist.done
    BY <1>1 DEF Remembered
  <2>4. hist' = h \/ EndTurn(h, "error") \/ EndTurn(hist, "error")
    BY <2>2
  <2> HIDE DEF h
  <2> QED
    BY <1>1, <1>2, <2>3, <2>4
<1>7. ~StartTurn /\ ~Acknowledge /\ ~EditOutside /\ ~Restart /\ ~UNCHANGED vars
  BY <1>1 DEF StartTurn, Acknowledge, EditOutside, Restart, vars, Remembered
<1>8. ~Crash
  <2> SUFFICES ASSUME Crash PROVE FALSE
    OBVIOUS
  <2> DEFINE h == IF turn.phase = "running" /\ ~Meta(turn.run.op)
                  THEN Touched(hist, turn.run.op) ELSE hist
  <2>1. DOMAIN h = Remembered
    BY <1>1 DEF Touched, Remembered
  <2>2. hist' = Joined(Fresh, [h EXCEPT !.done = FALSE, !.uncertain = @ \/ ctl.started])
    BY DEF Crash
  <2> HIDE DEF h
  <2> QED
    BY <2>1, <2>2 DEF Joined, Fresh, Remembered
<1>9. CASE RespondFinal
  <2>1. PICK continued : Assessed(Assess(ctl, plan, world), continued)
    BY <1>9 DEF RespondFinal
  <2>2. Assess(ctl, plan, world).says = "done"
    BY <2>1, AssessedDone
  <2>3. Shown
    BY <2>2, AssessOnly DEF IInv, Shaped, GInv, Kept
  <2>4. turn.phase = "ask"
    BY <1>9 DEF RespondFinal, Asking
  <2> QED
    BY <2>3, <2>4, ShownIsSo
<1>10. CASE CallsDone
  <2> DEFINE a == Assess(ctl, plan, world)
             decision == [a EXCEPT !.ctl = [@ EXCEPT !.progressed = FALSE]]
  <2>1. Assessed(decision, Renewed) /\ turn.phase = "calls"
    BY <1>10 DEF CallsDone
  <2>2. DOMAIN a = {"says", "ctl"} /\ (a.says = "done" => Shown)
    BY AssessOnly DEF IInv, Shaped, GInv, Kept
  <2> HIDE DEF a
  <2>3. decision.says = a.says
    BY <2>2
  <2> HIDE DEF decision
  <2>4. decision.says = "done"
    BY <2>1, AssessedDone
  <2> QED
    BY <2>1, <2>2, <2>3, <2>4, ShownIsSo
<1> QED
  BY <1>3, <1>4, <1>5, <1>6, <1>7, <1>8, <1>9, <1>10 DEF Next, Agent

(* A turn that ends as done has every change checked or disclosed, every       *)
(* deliverable as a check of the turn saw it, and nothing failed or in doubt   *)
(* (completion.go assess), whatever was edited from outside.                   *)
THEOREM DoneStaysSettled == Spec => DoneIsSettled
<1>1. IInv /\ GInv /\ [Next]_vars =>
        [hist'.done /\ ~hist.done =>
            /\ \A x \in hist.unproven \cap hist.silent : x \in File /\ SeenNow(x)
            /\ \A f \in ctl.deliver : SeenNow(f)
            /\ ctl.failures = {} /\ ~hist.uncertain]_vars
  BY OnlySettled DEF Settling
<1> QED
  BY <1>1, GateSound, PTL DEF Spec, DoneIsSettled

LEMMA OnlyRecovered ==
    ASSUME IInv, GInv, NEW novel \in BOOLEAN, ObserveResult(novel),
           turn'.phase = "calls" \/ disk' # disk,
           NEW y \in ctl.failures, y.name \notin {x.name : x \in disk'.failures}
    PROVE  Recovered(y)
<1> DEFINE o == Joined([novel |-> novel], Joined(turn.saw, turn.run))
           d == Observe(ctl, o, plan, world)
           c == Finished(d, o)
<1>1. /\ o.op = turn.run.op /\ o.id = turn.run.id /\ o.op \in Op /\ o.id \in Call
      /\ o.failed = turn.saw.failed
      /\ "seen" \in DOMAIN turn.saw => o.seen = turn.saw.seen
      /\ turn.phase = "ran"
  BY ResultKind DEF ObserveResult
<1>2. disk' = RecoveryState(c)
  <2>1. ~(AppendFails /\ EndTurn(hist, "error"))
    BY DEF AppendFails, EndTurn, Rest
  <2> QED
    BY <2>1 DEF ObserveResult, Saved, FlushFails
<1> HIDE DEF o
<1>3. DOMAIN d = Controlled /\ Counted(d) /\ Observed(d, o)
  BY <1>1, ObserveOnly DEF IInv, Shaped, GInv, Kept
<1> HIDE DEF d
<1>4. disk'.failures = d.failures
  <2>1. Only(d, c, {"started", "pending"})
    BY <1>3, FinishedOnly
  <2> HIDE DEF c
  <2>2. /\ c.files = d.files /\ c.deliver = d.deliver /\ c.failures = d.failures
        /\ c.seq = d.seq /\ c.successes = d.successes
    BY <2>1 DEF Only, Controlled, Recorded
  <2>3. Counted(c)
    BY <1>3, <2>2 DEF Counted
  <2> QED
    BY <1>2, <2>2, <2>3, RecordOnly
<1> HIDE DEF c
<1>5. \A x \in d.failures : x.name # y.name
  BY <1>4
<1>6. /\ ~o.failed
      /\ \/ Settled(y, o)
         \/ y.repaired /\ \A f \in y.op.files : d.receipts[f] = world[f]
  BY <1>3, <1>5 DEF Observed
<1>7. CASE Settled(y, o)
  <2>1. Evident(ctl, hist.since)
    BY DEF GInv, Evidenced
  <2> QED
    BY <1>1, <1>6, <1>7, <2>1 DEF Settled, Recovered, Evident
<1>8. CASE y.repaired /\ \A f \in y.op.files : d.receipts[f] = world[f]
  <2>1. [failure |-> y.name, by |-> Rewritten] \in hist.since
    BY <1>8 DEF GInv, Evidenced, Evident
  <2>2. ASSUME NEW f \in y.op.files PROVE SeenNow(f)
    <3>1. f \in File
      BY OpKinds DEF GInv, Kept, Counted, Listed
    <3>2. d.receipts[f] = world[f] /\ world[f] \in Content
      BY <1>8, <3>1 DEF GInv, Kept
    <3>3. CASE d.receipts[f] = ctl.receipts[f]
      BY <3>1, <3>2, <3>3, NamesAssumption DEF GInv, Received, SeenNow
    <3>4. CASE /\ o.op.tool \in {"scoped", "validate"} /\ f \in o.op.files
               /\ d.receipts[f] = o.seen[f]
      <4>1. turn.saw.seen[f] \in hist.checked[f] /\ o.seen = turn.saw.seen
        BY <1>1, <1>6, <3>4 DEF GInv, Received
      <4> QED
        BY <3>2, <3>4, <4>1 DEF SeenNow
    <3> QED
      BY <1>3, <3>1, <3>3, <3>4 DEF Observed
  <2> QED
    BY <1>1, <1>6, <2>1, <2>2 DEF Recovered
<1> QED
  BY <1>6, <1>7, <1>8

(* A failure leaves the record, in memory or in the file, only by an operation *)
(* that recovers it (retryidentity.go matchesRetry,                            *)
(* scoped_verification.go recoversRejectedVerification), by what succeeded     *)
(* after it, or by a rewrite that a check of the turn covers (completion.go    *)
(* validateFailureResolution): an id handed out again proves nothing.          *)
THEOREM RecoveryIsFresh == Spec => NoStaleRecovery
<1>1. ASSUME IInv, GInv, [Next]_vars, turn.phase = "ran",
             turn'.phase = "calls" \/ disk' # disk, NEW y \in ctl.failures
      PROVE  y.name \in {x.name : x \in disk'.failures} \/ Recovered(y)
  <2>1. ~StartTurn /\ ~Acknowledge /\ ~EditOutside /\ ~Restart /\ ~UNCHANGED vars /\ ~Crash
    <3>1. [Rest EXCEPT !.phase = "down"].phase = "down"
      BY DEF Rest
    <3>2. turn' # turn \/ disk' # disk
      BY <1>1
    <3> QED
      BY <1>1, <3>1, <3>2 DEF StartTurn, Acknowledge, EditOutside, Restart, Crash, vars
  <2>2. /\ ~Limit /\ ~ProviderFails /\ ~RespondUnusable /\ ~RespondFinal /\ ~CallsDone
        /\ ~BeginRefused /\ ~Begin /\ ~PlanRefused
        /\ \A calls \in Responses : ~RespondCalls(calls)
        /\ \A rejected \in Rejections : ~Refuse(rejected)
        /\ \A failed, exited \in BOOLEAN : ~Execute(failed, exited)
        /\ \A update \in Updates : ~UpdatePlan(update)
    BY <1>1 DEF Limit, ProviderFails, RespondUnusable, RespondFinal, CallsDone, BeginRefused,
                Begin, PlanRefused, RespondCalls, Refuse, Execute, UpdatePlan, Asking, Taking
  <2>3. PICK novel \in BOOLEAN : ObserveResult(novel)
    BY <1>1, <2>1, <2>2 DEF Next, Agent
  <2> QED
    BY <1>1, <2>3, OnlyRecovered
<1>2. IInv /\ GInv /\ [Next]_vars =>
        [turn.phase = "ran" /\ (turn'.phase = "calls" \/ disk' # disk) =>
            \A x \in ctl.failures :
                x.name \in {y.name : y \in disk'.failures} \/ Recovered(x)]_vars
  BY <1>1
<1> QED
  BY <1>2, GateSound, PTL DEF Spec, NoStaleRecovery
=============================================================================
