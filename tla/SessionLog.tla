----------------------------- MODULE SessionLog -----------------------------
(* The durable log of one session (session/session.go, session/recovery.go):  *)
(* an append-only file of records, the Session that appends to it, and what a  *)
(* restart, a rename, a fork and a rewind read back from it.                   *)
(*                                                                             *)
(* The file is a sequence of lines.  A line is a record, or Garbage when its   *)
(* bytes decode to nothing; "ended" says that the last line has its newline.   *)
(* A handler of the Session changes memory and then takes the steps in todo:   *)
(* each step is one call that holds the Session's lock, and the process or the *)
(* machine may stop between any two of them.                                   *)
EXTENDS Naturals, SequencesExt

CONSTANTS
    Call,          \* tool-call ids
    Value,         \* contents of a completion state or of a graph snapshot
    NoValue,       \* no completion state, no graph
    KeepRecent,    \* messages a compaction keeps (compactKeepRecent)
    MaxLines,      \* bound: lines of the file
    MaxUpsets,     \* bound: stops, power losses, other events and amendments
    Environment    \* which faults and commands happen

ASSUME CallsAssumption == Call # {} /\ IsFiniteSet(Call)
ASSUME ValueAssumption == NoValue \notin Value
ASSUME BoundsAssumption ==
    KeepRecent \in Nat /\ MaxLines \in Nat \ {0} /\ MaxUpsets \in Nat

(*                                 Records                                   *)
Garbage == [kind |-> "garbage"]
User == [kind |-> "user"]
Summary == [kind |-> "summary"]
TurnEnd == [kind |-> "turn_end"]
Event == [kind |-> "event"]
Assistant(cs) == [kind |-> "assistant", calls |-> cs]
Result(c) == [kind |-> "result", call |-> c]
Note(c) == [kind |-> "note", call |-> c]
Meta(n) == [kind |-> "meta", turns |-> n]
Compaction(n) == [kind |-> "compaction", replaced |-> n]
Completion(v) == [kind |-> "completion", value |-> v]
Graph(v) == [kind |-> "graph", value |-> v]

Message ==
    {User, Summary} \cup [kind : {"assistant"}, calls : SUBSET Call]
        \cup [kind : {"result", "note"}, call : Call]
Record ==
    (Message \ {Summary}) \cup {TurnEnd, Event}
        \cup [kind : {"meta"}, turns : Nat] \cup [kind : {"compaction"}, replaced : Nat]
        \cup [kind : {"completion", "graph"}, value : Value]

VARIABLES
    file,      \* what a reader of the file sees: lines, and whether the last one ended
    synced,    \* how many lines are on stable storage
    unsure,    \* lines a failed fsync may have dropped from the page cache
    sess,      \* the Session: open, its latched failure, what it remembers
    todo,      \* steps the handler in progress still has to take
    upsets,    \* stops, power losses, other events and amendments so far
    accepted,  \* history: records whose append returned without error
    mark,      \* history: records accepted when the last handler appended
    kept,      \* history: records a durable call reported as kept
    doubtful,  \* history: a file was opened that a fault had left in doubt
    atTurn     \* history: the conversation at the end of each turn
history == <<accepted, mark, kept, doubtful, atTurn>>
vars == <<file, synced, unsure, sess, todo, upsets, history>>

(*                          Reading a file back                              *)
Decoded(rs, line) == IF line = Garbage THEN rs ELSE Append(rs, line)
Records(f) ==
    LET read[i \in 0..Len(f.lines)] ==
            IF i = 0 THEN <<>> ELSE Decoded(read[i - 1], f.lines[i])
    IN  read[Len(f.lines)]

(* An undecodable line is tolerated where a torn tail can be: among the last   *)
(* two pieces between newlines.  A file without metadata is refused.           *)
Loads(f) ==
    /\ \A i \in DOMAIN f.lines : f.lines[i] = Garbage
          => i + (IF f.ended THEN 0 ELSE 1) >= Len(f.lines)
    /\ \E i \in DOMAIN f.lines : f.lines[i].kind = "meta"

Fresh == [active |-> <<>>, turns |-> 0, completion |-> NoValue, graph |-> NoValue]

Replay(m, r) ==
    [active |-> IF r \in Message THEN Append(m.active, r)
                ELSE IF r.kind = "compaction" /\ r.replaced <= Len(m.active)
                     THEN <<Summary>> \o SubSeq(m.active, r.replaced + 1, Len(m.active))
                     ELSE m.active,
     turns |-> IF r.kind = "meta" THEN r.turns ELSE m.turns,
     completion |-> IF r.kind = "completion" THEN r.value ELSE m.completion,
     graph |-> IF r.kind = "graph" THEN r.value ELSE m.graph]
Remembered(rs) ==
    LET after[i \in 0..Len(rs)] ==
            IF i = 0 THEN Fresh ELSE Replay(after[i - 1], rs[i])
    IN  after[Len(rs)]

(* Notes for the calls of a conversation that ends in an assistant message.    *)
Interrupted(active) ==
    IF active # <<>> /\ Last(active).kind = "assistant"
    THEN LET cs == SetToSeq(Last(active).calls) IN [i \in DOMAIN cs |-> Note(cs[i])]
    ELSE <<>>

EndsUpTo(rs, n) == Cardinality({i \in 1..n : rs[i] = TurnEnd})
TurnEnds(rs) == EndsUpTo(rs, Len(rs))
(* The records up to the end of turn k; the leading metadata when k is 0.      *)
FirstTurnsAndMore(rs, k) ==   \* mutant of FirstTurns
    SubSeq(rs, 1, Cardinality({i \in DOMAIN rs : EndsUpTo(rs, i - 1) <= k}))
FirstTurns(rs, k) ==
    LET within(i) == IF k = 0 THEN \A j \in 1..i : rs[j].kind = "meta"
                     ELSE EndsUpTo(rs, i - 1) < k
    IN  SubSeq(rs, 1, Cardinality({i \in DOMAIN rs : within(i)}))

(*                             Writing a file                                *)
(* A record glued behind a line that has not ended decodes to nothing.         *)
Written(f, r) ==
    [lines |-> IF f.ended THEN Append(f.lines, r) ELSE Front(f.lines) \o <<Garbage>>,
     ended |-> TRUE]
(* What a write that stops short leaves: nothing, a fragment, or all of the    *)
(* record but its newline.                                                     *)
Partial(f, r) ==
    {f} \cup (IF f.ended
              THEN {[lines |-> Append(f.lines, l), ended |-> FALSE] : l \in {r, Garbage}}
              ELSE {[lines |-> Front(f.lines) \o <<Garbage>>, ended |-> FALSE]})

Holding(m, isOpen) ==
    [open |-> isOpen, failed |-> FALSE, running |-> FALSE, active |-> m.active,
     turns |-> m.turns, completion |-> m.completion, graph |-> m.graph]
Closed == Holding(Fresh, FALSE)
Opened(m) == Holding(m, TRUE)

App(r) == [do |-> "append", rec |-> r]
Flush(r) == [do |-> "sync", rec |-> r]
Return(r) == [do |-> "return", rec |-> r]

Room(n) == Len(file.lines) + n <= MaxLines
Idle == sess.open /\ todo = <<>> /\ ~sess.failed

(* A new session: its metadata appended, nothing flushed.                      *)
Init ==
    /\ file = [lines |-> <<Meta(0)>>, ended |-> TRUE]
    /\ synced = 0 /\ unsure = {}
    /\ sess = Opened(Fresh)
    /\ todo = <<>> /\ upsets = 0
    /\ accepted = <<Meta(0)>> /\ mark = 1 /\ kept = 0
    /\ doubtful = FALSE /\ atTurn = <<>>

(*                     The steps every handler is made of                    *)
(* append: a write that succeeds; a short or failed one latches the failure,   *)
(* and nothing is written once a failure is latched.                           *)
StepAppend ==
    /\ todo # <<>> /\ Head(todo).do = "append" /\ ~sess.failed
    /\ LET r == Head(todo).rec
       IN  /\ file' = Written(file, r)
           /\ accepted' = Append(accepted, r)
           /\ mark' = Len(accepted')
           /\ atTurn' = IF r = TurnEnd THEN Append(atTurn, sess.active) ELSE atTurn
    /\ todo' = Tail(todo)
    /\ UNCHANGED <<synced, unsure, sess, upsets, kept, doubtful>>

StepAppendForgives ==   \* mutant of StepAppendFails
    /\ todo # <<>> /\ Head(todo).do = "append"
    /\ "full" \in Environment /\ file' \in Partial(file, Head(todo).rec)
    /\ todo' = <<>>
    /\ UNCHANGED <<synced, unsure, sess, upsets, history>>
StepAppendFails ==
    /\ todo # <<>> /\ Head(todo).do = "append"
    /\ \/ sess.failed /\ UNCHANGED file
       \/ "full" \in Environment /\ ~sess.failed /\ file' \in Partial(file, Head(todo).rec)
    /\ sess' = [sess EXCEPT !.failed = TRUE]
    /\ todo' = <<>>
    /\ UNCHANGED <<synced, unsure, upsets, history>>

(* Sync: a failure is latched, for the kernel may have dropped the pages it    *)
(* could not write.                                                            *)
StepSync ==
    /\ todo # <<>> /\ Head(todo).do = "sync" /\ ~sess.failed
    /\ synced' = Len(file.lines)
    /\ todo' = Tail(todo)
    /\ UNCHANGED <<file, unsure, sess, upsets, history>>

StepSyncFails ==
    /\ todo # <<>> /\ Head(todo).do = "sync"
    /\ \/ sess.failed /\ UNCHANGED unsure
       \/ /\ "fsync" \in Environment /\ ~sess.failed
          /\ unsure' = unsure \cup ((synced + 1)..Len(file.lines))
    /\ sess' = [sess EXCEPT !.failed = TRUE]
    /\ todo' = <<>>
    /\ UNCHANGED <<file, synced, upsets, history>>

(* The call returns without error: SaveCompletion remembers what it saved, and *)
(* what the handler appended is claimed to be on disk.                         *)
StepReturn ==
    /\ todo # <<>> /\ Head(todo).do = "return"
    /\ kept' = mark
    /\ sess' = IF Head(todo).rec.kind = "completion"
               THEN [sess EXCEPT !.completion = Head(todo).rec.value] ELSE sess
    /\ todo' = Tail(todo)
    /\ UNCHANGED <<file, synced, unsure, upsets, accepted, mark, doubtful, atTurn>>

(*                              The handlers                                 *)
Answers(m) == m.kind \in {"result", "note"}
(* The calls of the last assistant message that have no result yet.            *)
OpenCalls(active) ==
    {c \in Call : \E i \in DOMAIN active :
        /\ active[i].kind = "assistant" /\ c \in active[i].calls
        /\ \A j \in (i + 1)..Len(active) : Answers(active[j]) /\ active[j].call # c}

(* The turn loop: a user message starts a turn, then assistant messages and    *)
(* the results of their calls; a turn that was abandoned has left calls open.  *)
AppendMessage(m) ==
    /\ Idle /\ Room(1)
    /\ \/ /\ m = User
          /\ ~sess.running \/ "abort" \in Environment
       \/ sess.running /\ m.kind = "assistant" /\ OpenCalls(sess.active) = {}
       \/ sess.running /\ m.kind = "result" /\ m.call \in OpenCalls(sess.active)
    /\ sess' = [sess EXCEPT !.active = Append(@, m), !.running = TRUE]
    /\ todo' = <<App(m)>>
    /\ UNCHANGED <<file, synced, unsure, upsets, history>>

(* compact keeps the last messages; results that would open the kept part are  *)
(* compacted with their call.                                                  *)
CutAnywhere(active) ==   \* mutant of Cut
    IF Len(active) - KeepRecent < 2 THEN 0 ELSE Len(active) - KeepRecent
Cut(active) ==
    LET from == Len(active) - KeepRecent
        ok == {i \in from..(Len(active) - 1) : ~Answers(active[i + 1])}
    IN  IF from < 2 \/ ok = {} THEN 0 ELSE Min(ok)

AppendCompaction ==
    LET n == Cut(sess.active)
    IN  /\ Idle /\ Room(1) /\ n > 0 /\ OpenCalls(sess.active) = {}
        /\ sess' = [sess EXCEPT !.active = <<Summary>> \o SubSeq(@, n + 1, Len(@))]
        /\ todo' = <<App(Compaction(n))>>
        /\ UNCHANGED <<file, synced, unsure, upsets, history>>

(* The end of a turn: metadata and event appended, then flushed.               *)
TurnEndFlushedFirst ==   \* mutant of AppendTurnEnd
    /\ Idle /\ Room(2) /\ sess.running /\ OpenCalls(sess.active) = {}
    /\ sess' = [sess EXCEPT !.turns = @ + 1, !.running = FALSE]
    /\ todo' = <<Flush(TurnEnd), App(Meta(sess'.turns)), App(TurnEnd), Return(TurnEnd)>>
    /\ UNCHANGED <<file, synced, unsure, upsets, history>>
AppendTurnEnd ==
    /\ Idle /\ Room(2) /\ sess.running /\ OpenCalls(sess.active) = {}
    /\ sess' = [sess EXCEPT !.turns = @ + 1, !.running = FALSE]
    /\ todo' = <<App(Meta(sess'.turns)), App(TurnEnd), Flush(TurnEnd), Return(TurnEnd)>>
    /\ UNCHANGED <<file, synced, unsure, upsets, history>>

(* Any other runtime event, from whichever goroutine reports it.               *)
AppendEvent ==
    /\ upsets < MaxUpsets /\ upsets' = upsets + 1
    /\ sess.open /\ ~sess.failed /\ Room(Len(todo) + 1)
    /\ file' = Written(file, Event)
    /\ accepted' = Append(accepted, Event)
    /\ UNCHANGED <<synced, unsure, sess, todo, mark, kept, doubtful, atTurn>>

(* A completion state is appended and flushed before it is remembered; an      *)
(* unchanged one is only flushed.                                              *)
SaveCompletion(v) ==
    /\ Idle /\ Room(1)
    /\ todo' = (IF sess.completion = v THEN <<>> ELSE <<App(Completion(v))>>)
                  \o <<Flush(Completion(v)), Return(Completion(v))>>
    /\ UNCHANGED <<file, synced, unsure, sess, upsets, history>>

AppendGoalGraph(v, durable) ==
    /\ Idle /\ Room(1)
    /\ sess' = [sess EXCEPT !.graph = v]
    /\ todo' = <<App(Graph(v))>>
                  \o (IF durable THEN <<Flush(Graph(v)), Return(Graph(v))>> ELSE <<>>)
    /\ UNCHANGED <<file, synced, unsure, upsets, history>>

(* An orderly close flushes what the last turn left, then drops the handle.    *)
Close ==
    /\ sess.open /\ todo = <<>>
    /\ synced' = IF sess.failed THEN synced ELSE Len(file.lines)
    /\ sess' = Closed
    /\ UNCHANGED <<file, unsure, todo, upsets, history>>

(*                          Stops and restarts                               *)
(* The process stops: the append in progress may leave part of its record.     *)
Stop ==
    /\ "stop" \in Environment /\ upsets < MaxUpsets /\ sess.open
    /\ upsets' = upsets + 1
    /\ file' \in IF /\ todo # <<>> /\ Head(todo).do = "append" /\ ~sess.failed
                    /\ "part" \in Environment
                 THEN Partial(file, Head(todo).rec) ELSE {file}
    /\ sess' = Closed /\ todo' = <<>>
    /\ UNCHANGED <<synced, unsure, history>>

(* The machine stops: lines past the last flush may be gone, the first of them *)
(* in part, and pages a failed flush dropped read as nothing.                  *)
PowerLoss ==
    /\ "power" \in Environment /\ upsets < MaxUpsets
    /\ upsets' = upsets + 1
    /\ \E n \in synced..Len(file.lines) :
          /\ LET left == [i \in 1..n |-> IF i \in unsure THEN Garbage ELSE file.lines[i]]
                 whole == [lines |-> left, ended |-> n < Len(file.lines) \/ file.ended]
             IN  \/ file' = whole
                 \/ n < Len(file.lines) /\ file' \in Partial(whole, Garbage)
          /\ synced' = n
          /\ accepted' = SubSeq(accepted, 1, Min({n, Len(accepted)}))
          /\ mark' = Min({mark, n})
    /\ atTurn' = SubSeq(atTurn, 1, Min({TurnEnds(accepted'), Len(atTurn)}))
    /\ sess' = Closed /\ todo' = <<>>
    /\ UNCHANGED <<unsure, kept, doubtful>>

(* Nothing repairs a torn tail: a file opened with one stays in doubt, and so  *)
(* does one with pages a failed flush dropped.                                 *)
Reopened ==
    /\ doubtful' = (doubtful \/ ~file.ended \/ unsure # {})
    /\ doubtful' => "doubt" \in Environment

(* A restart loads the file and persists the notes for interrupted calls.      *)
ResumeForgetsNotes ==   \* mutant of Resume
    /\ ~sess.open /\ Loads(file) /\ Reopened
    /\ LET m == Remembered(Records(file))
       IN  sess' = Opened([m EXCEPT !.active = @ \o Interrupted(m.active)])
    /\ UNCHANGED <<file, synced, unsure, todo, upsets, accepted, mark, kept, atTurn>>
Resume ==
    /\ ~sess.open /\ Loads(file) /\ Reopened
    /\ LET m == Remembered(Records(file))
           notes == Interrupted(m.active)
       IN  /\ Room(Len(notes))
           /\ sess' = Opened([m EXCEPT !.active = @ \o notes])
           /\ todo' = [i \in DOMAIN notes |-> App(notes[i])]
    /\ UNCHANGED <<file, synced, unsure, upsets, accepted, mark, kept, atTurn>>

(* Rename and archive load, append changed metadata and close.                 *)
Amended ==
    /\ "amend" \in Environment /\ ~sess.open /\ Loads(file) /\ Room(1) /\ Reopened
    /\ upsets < MaxUpsets /\ upsets' = upsets + 1
    /\ LET r == Meta(Remembered(Records(file)).turns)
       IN  /\ file' = Written(file, r)
           /\ accepted' = Append(accepted, r)
    /\ synced' = Len(file'.lines)
    /\ UNCHANGED <<sess, todo, mark, kept, atTurn>>
Amend == Amended /\ UNCHANGED unsure

(* A fork copies the bytes into a file of its own and appends its metadata;    *)
(* the behaviour goes on in the fork.                                          *)
Fork == Amended /\ unsure' = {}

(* A rewind writes the records of the first k turns into a file of its own and *)
(* appends its metadata; the behaviour goes on there.  A turn whose end is torn *)
(* but can be decoded is one of them: it ended with what the log has of it.    *)
Rewind(k) ==
    /\ "rewind" \in Environment /\ ~sess.open /\ Loads(file)
    /\ LET rs == Records(file)
           chosen == FirstTurns(rs, k)
       IN  /\ k < Remembered(rs).turns
           /\ TurnEnds(chosen) = k
           /\ file' = [lines |-> Append(chosen, Meta(k)), ended |-> TRUE]
           /\ Len(file'.lines) <= MaxLines
           /\ accepted' = file'.lines
           /\ atTurn' = [i \in 1..k |-> IF i \in DOMAIN atTurn THEN atTurn[i]
                                        ELSE Remembered(chosen).active]
    /\ synced' = Len(file'.lines) /\ unsure' = {}
    /\ mark' = 0 /\ kept' = 0
    /\ UNCHANGED <<sess, todo, upsets, doubtful>>

Next ==
    \/ StepAppend \/ StepAppendFails \/ StepSync \/ StepSyncFails \/ StepReturn
    \/ \E m \in Message \ {Summary} : AppendMessage(m)
    \/ AppendCompaction \/ AppendTurnEnd \/ AppendEvent
    \/ \E v \in Value : SaveCompletion(v)
    \/ \E v \in Value, durable \in BOOLEAN : AppendGoalGraph(v, durable)
    \/ Close \/ Stop \/ PowerLoss \/ Resume \/ Amend \/ Fork
    \/ \E k \in 0..MaxLines : Rewind(k)

Spec == Init /\ [][Next]_vars

(*                               Properties                                  *)
(* What the log accepted is never lost or displaced: through failed appends,   *)
(* stops in the middle of a record, amendments and restarts the file loads and *)
(* its lines are the accepted records in order, with at most one torn line     *)
(* behind them (package comment, session.go:1-6).  It is claimed until a file  *)
(* with a torn or dropped tail has been opened; TornTail shows why.            *)
HistoryKept ==
    ~doubtful =>
        /\ Len(file.lines) \in Len(accepted)..(Len(accepted) + 1)
        /\ file.ended => Len(file.lines) = Len(accepted)
        /\ \A i \in DOMAIN accepted \ unsure : file.lines[i] = accepted[i]

(* A call that reported its record durable is not undone by a power loss       *)
(* (Sync, session.go:905-913): the write-ahead of a mutating action and a turn *)
(* that finished stay on disk.                                                 *)
PromisesKept ==
    ~doubtful => /\ kept <= Len(accepted)
                 /\ \A i \in 1..kept : file.lines[i] = accepted[i]

(* What a restart would rebuild from the file is what the running session      *)
(* holds, through compactions, notes for interrupted calls, appended graphs    *)
(* and completion states: replay (709-754) undoes what the handlers do.        *)
ReplayAgrees ==
    sess.open /\ todo = <<>> /\ ~sess.failed /\ ~doubtful =>
        LET m == Remembered(Records(file))
        IN  /\ m.active = sess.active /\ m.turns = sess.turns
            /\ m.completion = sess.completion /\ m.graph = sess.graph

(* The file loads, and rewinding it to a turn gives back the conversation that *)
(* turn ended with, whatever was amended, compacted or lost since (Rewind,     *)
(* 333-411).                                                                   *)
RewindKeepsTurn ==
    ~doubtful /\ unsure = {} /\ accepted # <<>> =>
        /\ Loads(file)
        /\ \A k \in DOMAIN atTurn :
              Remembered(FirstTurns(Records(file), k)).active = atTurn[k]

(* No result stands in the conversation without the call it answers, after any *)
(* compaction and any restart (compact, agent.go:3110-3120).                   *)
OrphanFree ==
    ~doubtful => \A i \in DOMAIN sess.active : Answers(sess.active[i]) =>
        \E j \in 1..(i - 1) :
            /\ sess.active[j].kind = "assistant" /\ sess.active[i].call \in sess.active[j].calls
            /\ \A k \in (j + 1)..i : Answers(sess.active[k])

(*                What the documentation says and the code does not          *)
(* "loading tolerates a torn final line, so a crash never corrupts accepted    *)
(* history" (session.go:3-5): the file always loads.                           *)
AlwaysLoads == Loads(file)
=============================================================================
