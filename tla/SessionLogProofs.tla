-------------------------- MODULE SessionLogProofs --------------------------
(***************************************************************************)
(* Proofs about SessionLog, for any calls, values and numbers of lines and    *)
(* faults.  First what reading a log gives: of a beginning of it, of one with  *)
(* a record more, of one cut at a turn.  Then one lemma per action, and the   *)
(* theorems.                                                                *)
(***************************************************************************)
EXTENDS SessionLog, FiniteSetTheorems, SequenceTheorems, WellFoundedInduction, TLAPS

-----------------------------------------------------------------------------
(* The inductive invariant.                                                 *)
Memory == [active : Seq(Message), turns : Nat,
           completion : Value \cup {NoValue}, graph : Value \cup {NoValue}]
Session == [open : BOOLEAN, failed : BOOLEAN, running : BOOLEAN,
            active : Seq(Message), turns : Nat,
            completion : Value \cup {NoValue}, graph : Value \cup {NoValue}]
Step == [do : {"append", "sync", "return"}, rec : Record]

Typed ==
    /\ file \in [lines : Seq(Record \cup {Garbage}), ended : BOOLEAN]
    /\ synced \in Nat /\ unsure \in SUBSET Nat
    /\ sess \in Session
    /\ todo \in Seq(Step)
    /\ accepted \in Seq(Record) /\ mark \in Nat /\ kept \in Nat
    /\ doubtful \in BOOLEAN /\ atTurn \in Seq(Seq(Message))

(* A handler is in progress only while the Session is open and its log sound;  *)
(* it appends, then flushes, then returns.                                     *)
Ordered ==
    /\ todo # <<>> => sess.open /\ ~sess.failed
    /\ ~sess.open => sess.active = <<>>
    /\ \A i \in DOMAIN todo : todo[i].do = "return" =>
          /\ i = Len(todo)
          /\ IF i = 1 THEN ~doubtful => mark <= synced ELSE todo[i - 1].do = "sync"

(* What is in the file: the accepted records, of which the unsure ones may     *)
(* have been dropped, and behind them at most one line without its newline.    *)
Appended ==
    /\ Len(file.lines) = Len(accepted) + (IF file.ended THEN 0 ELSE 1)
    /\ \A i \in DOMAIN accepted :
          file.lines[i] = accepted[i] \/ (i \in unsure /\ file.lines[i] = Garbage)
    /\ ~file.ended /\ (unsure # {} \/ accepted = <<>>) =>
          file.lines[Len(file.lines)] = Garbage
    /\ sess.open /\ ~sess.failed => file.ended /\ unsure = {} /\ accepted # <<>>
    /\ accepted # <<>> => accepted[1].kind = "meta"

(* What was reported as durable is on stable storage.                          *)
Durable ==
    /\ mark <= Len(accepted)
    /\ kept <= Len(accepted) /\ kept <= synced
    /\ \A i \in unsure : i > kept

(* No reading of a beginning of the log has a result without its call.         *)
Grounded(active) ==
    \A i \in DOMAIN active : Answers(active[i]) =>
        \E j \in 1..(i - 1) :
            /\ active[j].kind = "assistant" /\ active[i].call \in active[j].calls
            /\ \A k \in (j + 1)..i : Answers(active[k])
Healthy(rs) == \A n \in 0..Len(rs) : Grounded(Remembered(SubSeq(rs, 1, n)).active)

Sane ==
    /\ Grounded(sess.active)
    /\ Healthy(accepted)
    /\ ~file.ended /\ file.lines[Len(file.lines)] # Garbage =>
          Healthy(Append(accepted, file.lines[Len(file.lines)]))

(* The records the handler in progress still appends: the first p steps.       *)
Due(p) == [i \in 1..p |-> todo[i].rec]
Appending(p) ==
    /\ p \in 0..Len(todo)
    /\ \A i \in DOMAIN todo : todo[i].do = "append" <=> i <= p
    /\ \A i \in 1..p : todo[i].rec = TurnEnd => i = p
(* The completion state the Session will remember when the handler is done.    *)
Foreseen ==
    IF /\ todo # <<>> /\ todo[Len(todo)].do = "return"
       /\ todo[Len(todo)].rec.kind = "completion"
    THEN todo[Len(todo)].rec.value ELSE sess.completion
Mirrors(m) ==
    /\ m.active = sess.active /\ m.turns = sess.turns
    /\ m.completion = Foreseen /\ m.graph = sess.graph
(* With what is due, the log holds what the Session does.                      *)
InStep ==
    sess.open /\ ~sess.failed =>
        \E p \in 0..Len(todo) :
            /\ Appending(p)
            /\ Healthy(accepted \o Due(p))
            /\ Mirrors(Remembered(accepted \o Due(p)))

(* The log has what each of its turns ended with.                              *)
TurnsKept ==
    /\ Len(atTurn) = TurnEnds(accepted)
    /\ \A k \in DOMAIN atTurn : Remembered(FirstTurns(accepted, k)).active = atTurn[k]

Sound == Appended /\ Durable /\ Sane /\ InStep /\ TurnsKept
IInv == Typed /\ Ordered /\ (~doubtful => Sound)

-----------------------------------------------------------------------------
(* Reading a log.                                                            *)
(* What a reading of a log is: the memory after each of its records.          *)
Reads(after, rs) ==
    after = [i \in 0..Len(rs) |-> IF i = 0 THEN Fresh ELSE Replay(after[i - 1], rs[i])]

LEMMA ReadsStep ==
  ASSUME NEW rs, Len(rs) \in Nat, NEW f, Reads(f, rs), NEW m \in 1..Len(rs)
  PROVE  f[m] = Replay(f[m - 1], rs[m])
  <1>1. m \in 0..Len(rs) /\ m # 0
    OBVIOUS
  <1> QED
    BY <1>1 DEF Reads

LEMMA ReadsPrefix ==
  ASSUME NEW rs, Len(rs) \in Nat, NEW ss, Len(ss) \in Nat, Len(rs) <= Len(ss),
         \A i \in 1..Len(rs) : ss[i] = rs[i],
         NEW f, NEW g, Reads(f, rs), Reads(g, ss)
  PROVE  \A i \in 0..Len(rs) : g[i] = f[i]
  <1> DEFINE S == {i \in 0..Len(rs) : g[i] # f[i]}
  <1>1. ASSUME NEW m \in S, \A y \in S : ~(<<y, m>> \in OpToRel(<, Nat))
        PROVE  FALSE
    <2>1. m \in 0..Len(rs) /\ g[m] # f[m]
      OBVIOUS
    <2>2. CASE m = 0
      BY <2>1, <2>2 DEF Reads
    <2>3. CASE m > 0
      <3>1. m - 1 \in 0..Len(rs) /\ m - 1 < m /\ m - 1 \in Nat /\ m \in Nat /\ m \in 1..Len(rs)
        BY <2>1, <2>3
      <3>2. <<m - 1, m>> \in OpToRel(<, Nat)
        BY <3>1 DEF OpToRel
      <3>3. g[m - 1] = f[m - 1]
        BY <3>1, <3>2, <1>1
      <3>4. f[m] = Replay(f[m - 1], rs[m]) /\ g[m] = Replay(g[m - 1], ss[m])
        <4>1. m \in 1..Len(ss)
          BY <3>1
        <4> QED
          BY <3>1, <4>1, ReadsStep
      <3> QED
        BY <3>1, <3>3, <3>4, <2>1
    <2> QED
      BY <2>1, <2>2, <2>3
  <1>2. S \subseteq Nat
    OBVIOUS
  <1>3. S = {}
    BY <1>1, <1>2, NatLessThanWellFounded, WFMin
  <1> QED
    BY <1>3

LEMMA ReadsExist ==
  ASSUME NEW rs, Len(rs) \in Nat
  PROVE  \E f : Reads(f, rs)
  <1> DEFINE Upto(f, n) == f = [i \in 0..n |-> IF i = 0 THEN Fresh ELSE Replay(f[i - 1], rs[i])]
  <1> DEFINE S == {n \in 0..Len(rs) : ~ \E f : Upto(f, n)}
  <1>1. ASSUME NEW m \in S, \A y \in S : ~(<<y, m>> \in OpToRel(<, Nat))
        PROVE  FALSE
    <2>1. m \in 0..Len(rs) /\ ~ \E f : Upto(f, m)
      OBVIOUS
    <2>2. m # 0
      <3>1. Upto([i \in 0..0 |-> Fresh], 0)
        OBVIOUS
      <3> QED
        BY <3>1, <2>1
    <2>3. m - 1 \in 0..Len(rs) /\ m - 1 < m /\ m - 1 \in Nat /\ m \in Nat
      BY <2>1, <2>2
    <2>4. <<m - 1, m>> \in OpToRel(<, Nat)
      BY <2>3 DEF OpToRel
    <2>5. PICK f : Upto(f, m - 1)
      BY <2>3, <2>4, <1>1
    <2> DEFINE h == [i \in 0..m |-> IF i = m THEN Replay(f[m - 1], rs[m]) ELSE f[i]]
    <2>6. Upto(h, m)
      <3>1. ASSUME NEW i \in 0..m
            PROVE  h[i] = IF i = 0 THEN Fresh ELSE Replay(h[i - 1], rs[i])
        <4>1. CASE i = m
          BY <4>1, <2>2, <2>3
        <4>2. CASE i # m
          <5>1. i \in 0..(m - 1) /\ h[i] = f[i]
            BY <4>2, <2>3
          <5>2. f[i] = IF i = 0 THEN Fresh ELSE Replay(f[i - 1], rs[i])
            BY <5>1, <2>5
          <5>3. CASE i = 0
            BY <5>1, <5>2, <5>3
          <5>4. CASE i # 0
            <6>1. i - 1 \in 0..m /\ i - 1 # m
              BY <5>1, <5>4, <2>3
            <6> QED
              BY <6>1, <5>1, <5>2, <5>4
          <5> QED
            BY <5>3, <5>4
        <4> QED
          BY <4>1, <4>2
      <3> HIDE DEF h
      <3>2. h = [i \in 0..m |-> h[i]]
        BY DEF h
      <3> QED
        BY <3>1, <3>2
    <2> QED
      BY <2>6, <2>1
  <1>2. S \subseteq Nat
    OBVIOUS
  <1>3. S = {}
    BY <1>1, <1>2, NatLessThanWellFounded, WFMin
  <1> QED
    BY <1>3 DEF Reads
LEMMA RememberedIs ==
  ASSUME NEW rs, Len(rs) \in Nat
  PROVE  \E f : Reads(f, rs) /\ Remembered(rs) = f[Len(rs)]
  BY ReadsExist DEF Remembered, Reads

LEMMA RememberedNone ==
  Remembered(<<>>) = Fresh
  <1>1. Len(<<>>) = 0
    OBVIOUS
  <1>2. PICK f : Reads(f, <<>>) /\ Remembered(<<>>) = f[0]
    BY <1>1, RememberedIs
  <1> QED
    BY <1>1, <1>2 DEF Reads

(* One record more.                                                          *)
LEMMA RememberedNext ==
  ASSUME NEW rs, Len(rs) \in Nat, NEW ss, Len(ss) = Len(rs) + 1,
         \A i \in 1..Len(rs) : ss[i] = rs[i]
  PROVE  Remembered(ss) = Replay(Remembered(rs), ss[Len(ss)])
  <1>1. PICK f : Reads(f, rs) /\ Remembered(rs) = f[Len(rs)]
    BY RememberedIs
  <1>2. PICK g : Reads(g, ss) /\ Remembered(ss) = g[Len(ss)]
    BY RememberedIs
  <1>3. g[Len(rs)] = f[Len(rs)]
    BY <1>1, <1>2, ReadsPrefix
  <1>4. g[Len(ss)] = Replay(g[Len(ss) - 1], ss[Len(ss)])
    BY <1>2 DEF Reads
  <1> QED
    BY <1>1, <1>2, <1>3, <1>4

LEMMA RememberedAppend ==
  ASSUME NEW T, NEW rs \in Seq(T), NEW r \in T
  PROVE  Remembered(Append(rs, r)) = Replay(Remembered(rs), r)
  <1>1. /\ Len(rs) \in Nat /\ Len(Append(rs, r)) = Len(rs) + 1
        /\ \A i \in 1..Len(rs) : Append(rs, r)[i] = rs[i]
        /\ Append(rs, r)[Len(rs) + 1] = r
    OBVIOUS
  <1> QED
    BY <1>1, RememberedNext

(* What is read from a log depends on what was remembered before and on what   *)
(* follows.                                                                   *)
LEMMA RememberedAfter ==
  ASSUME NEW T, NEW a \in Seq(T), NEW b \in Seq(T), NEW c \in Seq(T),
         Remembered(a) = Remembered(b)
  PROVE  Remembered(a \o c) = Remembered(b \o c)
  <1> DEFINE P(n) == Remembered(a \o SubSeq(c, 1, n)) = Remembered(b \o SubSeq(c, 1, n))
             S == {n \in 0..Len(c) : ~P(n)}
  <1>1. ASSUME NEW m \in S, \A y \in S : ~(<<y, m>> \in OpToRel(<, Nat))
        PROVE  FALSE
    <2>1. m \in 0..Len(c) /\ ~P(m)
      OBVIOUS
    <2>2. m # 0
      <3>1. SubSeq(c, 1, 0) = <<>>
        OBVIOUS
      <3>2. a \o <<>> = a /\ b \o <<>> = b
        OBVIOUS
      <3> QED
        BY <3>1, <3>2, <2>1
    <2>3. m - 1 \in 0..Len(c) /\ m - 1 < m /\ m - 1 \in Nat /\ m \in Nat /\ m \in 1..Len(c)
      BY <2>1, <2>2
    <2>4. <<m - 1, m>> \in OpToRel(<, Nat)
      BY <2>3 DEF OpToRel
    <2>5. P(m - 1)
      BY <2>3, <2>4, <1>1
    <2>6. ASSUME NEW d \in Seq(T)
          PROVE  Remembered(d \o SubSeq(c, 1, m))
                    = Replay(Remembered(d \o SubSeq(c, 1, m - 1)), c[m])
      <3> DEFINE u == d \o SubSeq(c, 1, m - 1)
                 w == d \o SubSeq(c, 1, m)
      <3>1. SubSeq(c, 1, m) \in Seq(T) /\ SubSeq(c, 1, m - 1) \in Seq(T)
            /\ Len(SubSeq(c, 1, m)) = m /\ Len(SubSeq(c, 1, m - 1)) = m - 1
        BY <2>3
      <3>2. Len(w) = Len(u) + 1 /\ Len(u) = Len(d) + m - 1 /\ Len(u) \in Nat
        BY <3>1, <2>3
      <3>3. ASSUME NEW i \in 1..Len(u)
            PROVE  w[i] = u[i]
        <4>1. CASE i <= Len(d)
          BY <4>1, <3>1
        <4>2. CASE i > Len(d)
          <5>1. i - Len(d) \in 1..(m - 1)
            BY <4>2, <3>2
          <5>2. w[i] = SubSeq(c, 1, m)[i - Len(d)] /\ u[i] = SubSeq(c, 1, m - 1)[i - Len(d)]
            BY <3>1, <5>1, <4>2, <3>2
          <5> QED
            BY <5>1, <5>2, <2>3
        <4> QED
          BY <4>1, <4>2
      <3>4. w[Len(w)] = c[m]
        BY <3>1, <3>2, <2>3
      <3> HIDE DEF u, w
      <3>5. Remembered(w) = Replay(Remembered(u), w[Len(w)])
        BY <3>2, <3>3, RememberedNext
      <3> QED
        BY <3>4, <3>5 DEF u, w
    <2> QED
      BY <2>1, <2>5, <2>6
  <1>2. S \subseteq Nat
    OBVIOUS
  <1>3. S = {}
    BY <1>1, <1>2, NatLessThanWellFounded, WFMin
  <1>4. P(Len(c))
    BY <1>3
  <1>5. SubSeq(c, 1, Len(c)) = c
    BY SubSeqFull
  <1> QED
    BY <1>4, <1>5

LEMMA ReplayTyped ==
  ASSUME NEW m \in Memory, NEW r \in Record \cup {Garbage}
  PROVE  Replay(m, r) \in Memory
  <1>1. /\ r.kind = "meta" => r.turns \in Nat
        /\ r.kind = "compaction" => r.replaced \in Nat
        /\ r.kind \in {"completion", "graph"} => r.value \in Value
    BY DEF Record, Message, Garbage, User, Summary, TurnEnd, Event
  <1>2. Summary \in Message
    BY DEF Message
  <1>3. ASSUME r.kind = "compaction", r.replaced <= Len(m.active)
        PROVE  <<Summary>> \o SubSeq(m.active, r.replaced + 1, Len(m.active)) \in Seq(Message)
    <2>1. m.active \in Seq(Message) /\ r.replaced + 1 \in Nat \ {0}
      BY <1>1, <1>3 DEF Memory
    <2>2. SubSeq(m.active, r.replaced + 1, Len(m.active)) \in Seq(Message)
      BY <2>1
    <2> QED
      BY <2>2, <1>2
  <1>4. r \in Message => Append(m.active, r) \in Seq(Message)
    BY DEF Memory
  <1>5. Replay(m, r).active \in Seq(Message)
    BY <1>3, <1>4 DEF Replay, Memory
  <1> QED
    BY <1>1, <1>5 DEF Replay, Memory

LEMMA RememberedTyped ==
  ASSUME NEW rs \in Seq(Record \cup {Garbage})
  PROVE  Remembered(rs) \in Memory
  <1>1. PICK f : Reads(f, rs) /\ Remembered(rs) = f[Len(rs)]
    BY RememberedIs
  <1> DEFINE S == {n \in 0..Len(rs) : f[n] \notin Memory}
  <1>2. ASSUME NEW m \in S, \A y \in S : ~(<<y, m>> \in OpToRel(<, Nat))
        PROVE  FALSE
    <2>1. m \in 0..Len(rs) /\ f[m] \notin Memory
      OBVIOUS
    <2>2. CASE m = 0
      <3>1. Fresh \in Memory
        BY DEF Fresh, Memory
      <3> QED
        BY <1>1, <2>1, <2>2, <3>1 DEF Reads
    <2>3. CASE m > 0
      <3>1. m - 1 \in 0..Len(rs) /\ m - 1 < m /\ m - 1 \in Nat /\ m \in Nat /\ m \in 1..Len(rs)
        BY <2>1, <2>3
      <3>2. <<m - 1, m>> \in OpToRel(<, Nat)
        BY <3>1 DEF OpToRel
      <3>3. f[m - 1] \in Memory
        BY <3>1, <3>2, <1>2
      <3>4. f[m] = Replay(f[m - 1], rs[m]) /\ rs[m] \in Record \cup {Garbage}
        BY <1>1, <2>1, <2>3, <3>1 DEF Reads
      <3> QED
        BY <3>3, <3>4, <2>1, ReplayTyped
    <2> QED
      BY <2>1, <2>2, <2>3
  <1>3. S \subseteq Nat
    OBVIOUS
  <1>4. S = {}
    BY <1>2, <1>3, NatLessThanWellFounded, WFMin
  <1> QED
    BY <1>1, <1>4

-----------------------------------------------------------------------------
(* Decoding a file: its lines without those that decode to nothing.           *)
Decodes(read, ls) ==
    read = [i \in 0..Len(ls) |-> IF i = 0 THEN <<>> ELSE Decoded(read[i - 1], ls[i])]

LEMMA DecodesExist ==
  ASSUME NEW ls, Len(ls) \in Nat
  PROVE  \E f : Decodes(f, ls)
  <1> DEFINE Upto(f, n) == f = [i \in 0..n |-> IF i = 0 THEN <<>> ELSE Decoded(f[i - 1], ls[i])]
             S == {n \in 0..Len(ls) : ~ \E f : Upto(f, n)}
  <1>1. ASSUME NEW m \in S, \A y \in S : ~(<<y, m>> \in OpToRel(<, Nat))
        PROVE  FALSE
    <2>1. m \in 0..Len(ls) /\ ~ \E f : Upto(f, m)
      OBVIOUS
    <2>2. m # 0
      <3>1. Upto([i \in 0..0 |-> <<>>], 0)
        OBVIOUS
      <3> QED
        BY <3>1, <2>1
    <2>3. m - 1 \in 0..Len(ls) /\ m - 1 < m /\ m - 1 \in Nat /\ m \in Nat
      BY <2>1, <2>2
    <2>4. <<m - 1, m>> \in OpToRel(<, Nat)
      BY <2>3 DEF OpToRel
    <2>5. PICK f : Upto(f, m - 1)
      BY <2>3, <2>4, <1>1
    <2> DEFINE h == [i \in 0..m |-> IF i = m THEN Decoded(f[m - 1], ls[m]) ELSE f[i]]
    <2>6. Upto(h, m)
      <3>1. ASSUME NEW i \in 0..m
            PROVE  h[i] = IF i = 0 THEN <<>> ELSE Decoded(h[i - 1], ls[i])
        <4>1. CASE i = m
          BY <4>1, <2>2, <2>3
        <4>2. CASE i # m
          <5>1. i \in 0..(m - 1) /\ h[i] = f[i]
            BY <4>2, <2>3
          <5>2. f[i] = IF i = 0 THEN <<>> ELSE Decoded(f[i - 1], ls[i])
            BY <5>1, <2>5
          <5>3. CASE i = 0
            BY <5>1, <5>2, <5>3
          <5>4. CASE i # 0
            <6>1. i - 1 \in 0..m /\ i - 1 # m
              BY <5>1, <5>4, <2>3
            <6> QED
              BY <6>1, <5>1, <5>2, <5>4
          <5> QED
            BY <5>3, <5>4
        <4> QED
          BY <4>1, <4>2
      <3> HIDE DEF h
      <3>2. h = [i \in 0..m |-> h[i]]
        BY DEF h
      <3> QED
        BY <3>1, <3>2
    <2> QED
      BY <2>6, <2>1
  <1>2. S \subseteq Nat
    OBVIOUS
  <1>3. S = {}
    BY <1>1, <1>2, NatLessThanWellFounded, WFMin
  <1> QED
    BY <1>3 DEF Decodes

LEMMA RecordsIs ==
  ASSUME NEW f, Len(f.lines) \in Nat
  PROVE  \E d : Decodes(d, f.lines) /\ Records(f) = d[Len(f.lines)]
  BY DecodesExist DEF Records, Decodes

LEMMA RecordsTyped ==
  ASSUME NEW f, f.lines \in Seq(Record \cup {Garbage})
  PROVE  Records(f) \in Seq(Record)
  <1>1. PICK d : Decodes(d, f.lines) /\ Records(f) = d[Len(f.lines)]
    BY RecordsIs
  <1> DEFINE S == {n \in 0..Len(f.lines) : d[n] \notin Seq(Record)}
  <1>2. ASSUME NEW m \in S, \A y \in S : ~(<<y, m>> \in OpToRel(<, Nat))
        PROVE  FALSE
    <2>1. m \in 0..Len(f.lines) /\ d[m] \notin Seq(Record)
      OBVIOUS
    <2>2. CASE m = 0
      BY <1>1, <2>1, <2>2 DEF Decodes
    <2>3. CASE m > 0
      <3>1. /\ m - 1 \in 0..Len(f.lines) /\ m - 1 < m /\ m - 1 \in Nat /\ m \in Nat
            /\ m \in 1..Len(f.lines)
        BY <2>1, <2>3
      <3>2. <<m - 1, m>> \in OpToRel(<, Nat)
        BY <3>1 DEF OpToRel
      <3>3. d[m - 1] \in Seq(Record)
        BY <3>1, <3>2, <1>2
      <3>4. f.lines[m] \in Record \cup {Garbage}
        BY <3>1
      <3>5. d[m] = Decoded(d[m - 1], f.lines[m])
        BY <1>1, <3>1, <2>3 DEF Decodes
      <3>6. CASE f.lines[m] = Garbage
        BY <3>3, <3>5, <3>6, <2>1 DEF Decoded
      <3>7. CASE f.lines[m] # Garbage
        <4>1. f.lines[m] \in Record
          BY <3>4, <3>7
        <4>2. Append(d[m - 1], f.lines[m]) \in Seq(Record)
          BY <3>3, <4>1
        <4> QED
          BY <4>2, <3>5, <3>7, <2>1 DEF Decoded
      <3> QED
        BY <3>6, <3>7
    <2> QED
      BY <2>1, <2>2, <2>3
  <1>3. S \subseteq Nat
    OBVIOUS
  <1>4. S = {}
    BY <1>2, <1>3, NatLessThanWellFounded, WFMin
  <1> QED
    BY <1>1, <1>4

(* Where nothing decodable follows the first line that does not decode, the    *)
(* records are the lines before it.                                            *)
LEMMA RecordsPrefix ==
  ASSUME NEW f, f.lines \in Seq(Record \cup {Garbage}), NEW m \in 0..Len(f.lines),
         \A i \in 1..m : f.lines[i] # Garbage,
         \A i \in (m + 1)..Len(f.lines) : f.lines[i] = Garbage
  PROVE  Records(f) = SubSeq(f.lines, 1, m)
  <1> DEFINE ls == f.lines
             Upto(n) == SubSeq(ls, 1, IF n <= m THEN n ELSE m)
  <1>1. PICK d : Decodes(d, ls) /\ Records(f) = d[Len(ls)]
    BY RecordsIs
  <1> DEFINE S == {n \in 0..Len(ls) : d[n] # Upto(n)}
  <1>2. ASSUME NEW k \in S, \A y \in S : ~(<<y, k>> \in OpToRel(<, Nat))
        PROVE  FALSE
    <2>1. k \in 0..Len(ls) /\ d[k] # Upto(k)
      OBVIOUS
    <2>2. CASE k = 0
      <3>1. SubSeq(ls, 1, 0) = <<>>
        OBVIOUS
      <3> QED
        BY <1>1, <2>1, <2>2, <3>1 DEF Decodes
    <2>3. CASE k > 0
      <3>1. k - 1 \in 0..Len(ls) /\ k - 1 < k /\ k - 1 \in Nat /\ k \in Nat /\ k \in 1..Len(ls)
        BY <2>1, <2>3
      <3>2. <<k - 1, k>> \in OpToRel(<, Nat)
        BY <3>1 DEF OpToRel
      <3>3. d[k - 1] = Upto(k - 1)
        BY <3>1, <3>2, <1>2
      <3>4. d[k] = Decoded(d[k - 1], ls[k])
        BY <1>1, <3>1, <2>3 DEF Decodes
      <3>5. CASE k <= m
        <4>1. ls[k] # Garbage /\ d[k - 1] = SubSeq(ls, 1, k - 1)
          BY <3>1, <3>3, <3>5
        <4>2. SubSeq(ls, 1, k) = Append(SubSeq(ls, 1, k - 1), ls[k])
          BY <3>1
        <4>3. d[k] = SubSeq(ls, 1, k)
          BY <4>1, <4>2, <3>4 DEF Decoded
        <4>4. Upto(k) = SubSeq(ls, 1, k)
          BY <3>5
        <4> QED
          BY <4>3, <4>4, <2>1
      <3>6. CASE k > m
        <4>1. ls[k] = Garbage
          BY <3>1, <3>6
        <4>2. Upto(k - 1) = Upto(k)
          BY <3>1, <3>6
        <4> QED
          BY <4>1, <4>2, <3>3, <3>4, <2>1 DEF Decoded
      <3> QED
        BY <3>1, <3>5, <3>6
    <2> QED
      BY <2>1, <2>2, <2>3
  <1>3. S \subseteq Nat
    OBVIOUS
  <1>4. S = {}
    BY <1>2, <1>3, NatLessThanWellFounded, WFMin
  <1>5. d[Len(ls)] = Upto(Len(ls))
    BY <1>4
  <1> QED
    BY <1>1, <1>5

-----------------------------------------------------------------------------
(* The ends of turns in a log.                                                *)
LEMMA EndsFacts ==
  ASSUME NEW rs, NEW n \in Nat
  PROVE  /\ EndsUpTo(rs, n) \in Nat
         /\ EndsUpTo(rs, 0) = 0
         /\ rs[n + 1] = TurnEnd => EndsUpTo(rs, n + 1) = EndsUpTo(rs, n) + 1
         /\ rs[n + 1] # TurnEnd => EndsUpTo(rs, n + 1) = EndsUpTo(rs, n)
  <1> DEFINE S(k) == {i \in 1..k : rs[i] = TurnEnd}
  <1>1. IsFiniteSet(S(n))
    <2>1. S(n) \in SUBSET (1..n)
      OBVIOUS
    <2>2. IsFiniteSet(1..n)
      BY FS_Interval
    <2> HIDE DEF S
    <2> QED
      BY <2>1, <2>2, FS_Subset
  <1>2. Cardinality(S(n)) \in Nat
    BY <1>1, FS_CardinalityType
  <1>3. S(0) = {}
    OBVIOUS
  <1>4. ASSUME rs[n + 1] = TurnEnd
        PROVE  Cardinality(S(n + 1)) = Cardinality(S(n)) + 1
    <2>1. S(n + 1) = S(n) \cup {n + 1} /\ n + 1 \notin S(n)
      BY <1>4
    <2> HIDE DEF S
    <2> QED
      BY <2>1, <1>1, FS_AddElement
  <1>5. rs[n + 1] # TurnEnd => S(n + 1) = S(n)
    OBVIOUS
  <1> QED
    BY <1>2, <1>3, <1>4, <1>5, FS_EmptySet DEF EndsUpTo

LEMMA EndsMonotone ==
  ASSUME NEW rs, NEW n \in Nat, NEW m \in Nat, m <= n
  PROVE  EndsUpTo(rs, m) <= EndsUpTo(rs, n)
  <1> DEFINE S == {i \in 1..m : rs[i] = TurnEnd}
             T == {i \in 1..n : rs[i] = TurnEnd}
  <1>1. T \in SUBSET (1..n) /\ S \in SUBSET T
    OBVIOUS
  <1>2. IsFiniteSet(1..n)
    BY FS_Interval
  <1> HIDE DEF S, T
  <1>3. IsFiniteSet(T)
    BY <1>1, <1>2, FS_Subset
  <1>4. Cardinality(S) <= Cardinality(T)
    BY <1>1, <1>3, FS_Subset
  <1> QED
    BY <1>4 DEF EndsUpTo, S, T

LEMMA EndsSame ==
  ASSUME NEW rs, NEW ss, NEW n \in Nat, \A i \in 1..n : rs[i] = ss[i]
  PROVE  EndsUpTo(rs, n) = EndsUpTo(ss, n)
  <1>1. {i \in 1..n : rs[i] = TurnEnd} = {i \in 1..n : ss[i] = TurnEnd}
    OBVIOUS
  <1> QED
    BY <1>1 DEF EndsUpTo

(* A set of positions that has, with each, all before it is an interval.       *)
LEMMA Interval ==
  ASSUME NEW n \in Nat, NEW S \in SUBSET (1..n),
         \A i \in S : \A j \in 1..i : j \in S
  PROVE  Cardinality(S) \in 0..n /\ S = 1..Cardinality(S)
  <1> DEFINE T == {i \in 0..n : i + 1 \notin S}
  <1>1. n \in T /\ T \subseteq Nat
    OBVIOUS
  <1>2. PICK m \in T : \A y \in T : ~(<<y, m>> \in OpToRel(<, Nat))
    BY <1>1, NatLessThanWellFounded, WFMin
  <1>3. m \in 0..n /\ m + 1 \notin S
    BY <1>2
  <1>4. ASSUME NEW i \in 1..m
        PROVE  i \in S
    <2>1. i - 1 \in 0..n /\ i - 1 < m /\ i - 1 \in Nat /\ m \in Nat /\ (i - 1) + 1 = i
      BY <1>3, <1>4
    <2>2. <<i - 1, m>> \in OpToRel(<, Nat)
      BY <2>1 DEF OpToRel
    <2>3. i - 1 \notin T
      BY <2>2, <1>2
    <2> QED
      BY <2>1, <2>3
  <1>5. ASSUME NEW i \in S
        PROVE  i \in 1..m
    <2>1. i \in 1..n
      OBVIOUS
    <2>2. CASE i > m
      <3>1. m + 1 \in 1..i
        BY <1>3, <2>1, <2>2
      <3> QED
        BY <3>1, <1>3
    <2> QED
      BY <1>3, <2>1, <2>2
  <1>6. S = 1..m
    BY <1>4, <1>5
  <1>7. Cardinality(1..m) = m
    BY <1>3, FS_Interval
  <1> QED
    BY <1>3, <1>6, <1>7

(* The first k turns of a log are a beginning of it: up to the record before   *)
(* which k turns have ended.                                                   *)
LEMMA FirstTurnsIs ==
  ASSUME NEW rs, Len(rs) \in Nat, DOMAIN rs = 1..Len(rs), NEW k \in Nat
  PROVE  \E m \in 0..Len(rs) :
            /\ FirstTurns(rs, k) = SubSeq(rs, 1, m)
            /\ k # 0 => \A i \in 1..Len(rs) : i <= m <=> EndsUpTo(rs, i - 1) < k
            /\ k = 0 => \A i \in 1..m : rs[i].kind = "meta"
  <1> DEFINE within(i) == IF k = 0 THEN \A j \in 1..i : rs[j].kind = "meta"
                          ELSE EndsUpTo(rs, i - 1) < k
             S == {i \in DOMAIN rs : within(i)}
  <1>1. S \in SUBSET (1..Len(rs))
    OBVIOUS
  <1>2. ASSUME NEW i \in S, NEW j \in 1..i
        PROVE  j \in S
    <2>1. i \in 1..Len(rs) /\ j \in 1..Len(rs) /\ within(i)
      OBVIOUS
    <2>2. CASE k = 0
      <3>1. \A x \in 1..j : x \in 1..i
        BY <2>1
      <3> QED
        BY <3>1, <2>1, <2>2
    <2>3. CASE k # 0
      <3>1. EndsUpTo(rs, j - 1) <= EndsUpTo(rs, i - 1)
        BY <2>1, EndsMonotone
      <3>2. EndsUpTo(rs, j - 1) \in Nat /\ EndsUpTo(rs, i - 1) \in Nat
        BY <2>1, EndsFacts
      <3> QED
        BY <3>1, <3>2, <2>1, <2>3
    <2> QED
      BY <2>2, <2>3
  <1>3. Cardinality(S) \in 0..Len(rs) /\ S = 1..Cardinality(S)
    <2> HIDE DEF S
    <2> QED
      BY <1>1, <1>2, Interval
  <1>4. FirstTurns(rs, k) = SubSeq(rs, 1, Cardinality(S))
    BY DEF FirstTurns
  <1>5. \A i \in 1..Len(rs) : i <= Cardinality(S) <=> within(i)
    <2> SUFFICES ASSUME NEW i \in 1..Len(rs)
                 PROVE  i <= Cardinality(S) <=> within(i)
      OBVIOUS
    <2>1. i \in S <=> within(i)
      OBVIOUS
    <2>2. i \in S <=> i \in 1..Cardinality(S)
      BY <1>3
    <2> HIDE DEF S, within
    <2> QED
      BY <2>1, <2>2, <1>3
  <1>6. ASSUME k = 0, NEW i \in 1..Cardinality(S)
        PROVE  rs[i].kind = "meta"
    <2>1. i \in 1..Len(rs)
      BY <1>3, <1>6
    <2>2. within(i)
      BY <2>1, <1>3, <1>5, <1>6
    <2> QED
      BY <2>1, <2>2, <1>6
  <1>7. k # 0 => \A i \in 1..Len(rs) : within(i) <=> EndsUpTo(rs, i - 1) < k
    OBVIOUS
  <1> HIDE DEF S, within
  <1> QED
    BY <1>3, <1>4, <1>5, <1>6, <1>7

LEMMA TurnEndsAppend ==
  ASSUME NEW T, NEW rs \in Seq(T), NEW r \in T
  PROVE  /\ TurnEnds(rs) \in Nat
         /\ TurnEnds(Append(rs, r)) = TurnEnds(rs) + (IF r = TurnEnd THEN 1 ELSE 0)
  <1> DEFINE ss == Append(rs, r)
  <1>1. Len(rs) \in Nat /\ Len(ss) = Len(rs) + 1 /\ ss[Len(rs) + 1] = r
        /\ \A i \in 1..Len(rs) : rs[i] = ss[i]
    OBVIOUS
  <1> HIDE DEF ss
  <1>2. EndsUpTo(rs, Len(rs)) = EndsUpTo(ss, Len(rs))
    BY <1>1, EndsSame
  <1>3. EndsUpTo(rs, Len(rs)) \in Nat
    BY <1>1, EndsFacts
  <1>4. /\ r = TurnEnd => EndsUpTo(ss, Len(rs) + 1) = EndsUpTo(ss, Len(rs)) + 1
        /\ r # TurnEnd => EndsUpTo(ss, Len(rs) + 1) = EndsUpTo(ss, Len(rs))
    BY <1>1, EndsFacts
  <1> QED
    BY <1>1, <1>2, <1>3, <1>4 DEF TurnEnds, ss

(* What follows the k-th end of a turn does not change the first k turns.      *)
LEMMA FirstTurnsPrefix ==
  ASSUME NEW T, NEW rs \in Seq(T), NEW n \in 0..Len(rs), NEW k \in Nat \ {0},
         k <= TurnEnds(SubSeq(rs, 1, n))
  PROVE  FirstTurns(SubSeq(rs, 1, n), k) = FirstTurns(rs, k)
  <1> DEFINE ss == SubSeq(rs, 1, n)
  <1>1. Len(rs) \in Nat /\ DOMAIN rs = 1..Len(rs) /\ Len(ss) = n /\ DOMAIN ss = 1..n
        /\ ss \in Seq(T) /\ \A i \in 1..n : ss[i] = rs[i]
    OBVIOUS
  <1>2. PICK mr \in 0..Len(rs) :
            /\ FirstTurns(rs, k) = SubSeq(rs, 1, mr)
            /\ \A i \in 1..Len(rs) : i <= mr <=> EndsUpTo(rs, i - 1) < k
    <2> HIDE DEF ss
    <2> QED
      BY <1>1, FirstTurnsIs
  <1>3. PICK ms \in 0..n :
            /\ FirstTurns(ss, k) = SubSeq(ss, 1, ms)
            /\ \A i \in 1..n : i <= ms <=> EndsUpTo(ss, i - 1) < k
    <2>1. Len(ss) \in Nat /\ DOMAIN ss = 1..Len(ss)
      BY <1>1
    <2> HIDE DEF ss
    <2>2. \E m \in 0..Len(ss) :
            /\ FirstTurns(ss, k) = SubSeq(ss, 1, m)
            /\ k # 0 => \A i \in 1..Len(ss) : i <= m <=> EndsUpTo(ss, i - 1) < k
            /\ k = 0 => \A i \in 1..m : ss[i].kind = "meta"
      BY <2>1, FirstTurnsIs
    <2>3. k # 0 /\ Len(ss) = n
      BY <1>1
    <2> QED
      BY <2>2, <2>3
  <1>4. \A i \in 0..n : EndsUpTo(ss, i) = EndsUpTo(rs, i) /\ EndsUpTo(rs, i) \in Nat
    <2> SUFFICES ASSUME NEW i \in 0..n
                 PROVE  EndsUpTo(ss, i) = EndsUpTo(rs, i) /\ EndsUpTo(rs, i) \in Nat
      OBVIOUS
    <2>1. i \in Nat /\ \A j \in 1..i : ss[j] = rs[j]
      BY <1>1
    <2> HIDE DEF ss
    <2> QED
      BY <2>1, EndsSame, EndsFacts
  <1>5. k <= EndsUpTo(rs, n)
    BY <1>1, <1>4 DEF TurnEnds
  <1> HIDE DEF ss
  <1>6. mr <= n
    <2> SUFFICES ASSUME mr > n
                 PROVE  FALSE
      BY <1>1
    <2>1. n + 1 \in 1..Len(rs) /\ n + 1 <= mr /\ (n + 1) - 1 = n
      BY <1>1, <1>2
    <2>2. EndsUpTo(rs, n) < k
      BY <2>1, <1>2
    <2> QED
      BY <2>2, <1>4, <1>5
  <1>7. \A i \in 1..n : i <= mr <=> i <= ms
    <2> SUFFICES ASSUME NEW i \in 1..n
                 PROVE  i <= mr <=> i <= ms
      OBVIOUS
    <2>1. i \in 1..Len(rs) /\ i - 1 \in 0..n
      BY <1>1
    <2> QED
      BY <2>1, <1>2, <1>3, <1>4
  <1>8. mr = ms
    <2>1. mr \in 1..n \/ mr = 0
      BY <1>6
    <2>2. ms \in 1..n \/ ms = 0
      OBVIOUS
    <2> QED
      BY <2>1, <2>2, <1>7
  <1>9. SubSeq(ss, 1, mr) = SubSeq(rs, 1, mr)
    <2>1. SubSeq(ss, 1, mr) \in Seq(T) /\ SubSeq(rs, 1, mr) \in Seq(T)
          /\ Len(SubSeq(ss, 1, mr)) = mr /\ Len(SubSeq(rs, 1, mr)) = mr
          /\ \A i \in 1..mr : SubSeq(ss, 1, mr)[i] = ss[i] /\ SubSeq(rs, 1, mr)[i] = rs[i]
      BY <1>1, <1>6
    <2>2. \A i \in 1..mr : ss[i] = rs[i]
      BY <1>1, <1>6
    <2> QED
      BY <2>1, <2>2, SeqEqual
  <1> QED
    BY <1>2, <1>3, <1>8, <1>9 DEF ss

LEMMA FirstTurnsAppend ==
  ASSUME NEW T, NEW rs \in Seq(T), NEW r \in T, NEW k \in Nat \ {0}, k <= TurnEnds(rs)
  PROVE  FirstTurns(Append(rs, r), k) = FirstTurns(rs, k)
  <1> DEFINE ss == Append(rs, r)
  <1>1. ss \in Seq(T) /\ Len(rs) \in 0..Len(ss) /\ SubSeq(ss, 1, Len(rs)) = rs
    OBVIOUS
  <1> HIDE DEF ss
  <1>2. FirstTurns(SubSeq(ss, 1, Len(rs)), k) = FirstTurns(ss, k)
    BY <1>1, FirstTurnsPrefix
  <1> QED
    BY <1>1, <1>2 DEF ss

(* A log that ends with the end of a turn is the log of its turns.            *)
LEMMA FirstTurnsWhole ==
  ASSUME NEW T, NEW rs \in Seq(T), NEW ss, ss = Append(rs, TurnEnd), TurnEnd \in T
  PROVE  FirstTurns(ss, TurnEnds(ss)) = ss
  <1> DEFINE k == TurnEnds(ss)
  <1>1. ss \in Seq(T) /\ Len(rs) \in Nat /\ Len(ss) = Len(rs) + 1 /\ DOMAIN ss = 1..Len(ss)
        /\ ss[Len(rs) + 1] = TurnEnd
    OBVIOUS
  <1>2. k = EndsUpTo(ss, Len(rs)) + 1 /\ EndsUpTo(ss, Len(rs)) \in Nat
    BY <1>1, EndsFacts DEF TurnEnds
  <1> HIDE DEF k
  <1>3. k \in Nat /\ k # 0
    BY <1>2
  <1>4. PICK m \in 0..Len(ss) :
            /\ FirstTurns(ss, k) = SubSeq(ss, 1, m)
            /\ \A i \in 1..Len(ss) : i <= m <=> EndsUpTo(ss, i - 1) < k
    <2>1. Len(ss) \in Nat /\ DOMAIN ss = 1..Len(ss)
      BY <1>1
    <2>2. \E m \in 0..Len(ss) :
            /\ FirstTurns(ss, k) = SubSeq(ss, 1, m)
            /\ k # 0 => \A i \in 1..Len(ss) : i <= m <=> EndsUpTo(ss, i - 1) < k
            /\ k = 0 => \A i \in 1..m : ss[i].kind = "meta"
      BY <2>1, <1>3, FirstTurnsIs
    <2> QED
      BY <2>2, <1>3
  <1>5. Len(ss) <= m
    BY <1>1, <1>2, <1>4
  <1>6. SubSeq(ss, 1, Len(ss)) = ss
    BY <1>1, SubSeqFull
  <1> QED
    BY <1>1, <1>4, <1>5, <1>6 DEF k

-----------------------------------------------------------------------------
(* Conversations in which every result follows its call.                      *)
LEMMA AnswersPrefix ==
  ASSUME NEW a \in Seq(Message), NEW n \in 0..Len(a), Grounded(a)
  PROVE  Grounded(SubSeq(a, 1, n))
  <1>1. Len(SubSeq(a, 1, n)) = n /\ DOMAIN SubSeq(a, 1, n) = 1..n
        /\ \A i \in 1..n : SubSeq(a, 1, n)[i] = a[i]
    OBVIOUS
  <1> SUFFICES ASSUME NEW i \in 1..n, Answers(a[i])
               PROVE  \E j \in 1..(i - 1) :
                         /\ SubSeq(a, 1, n)[j].kind = "assistant"
                         /\ SubSeq(a, 1, n)[i].call \in SubSeq(a, 1, n)[j].calls
                         /\ \A k \in (j + 1)..i : Answers(SubSeq(a, 1, n)[k])
    BY <1>1 DEF Grounded
  <1>2. i \in DOMAIN a
    OBVIOUS
  <1>3. PICK j \in 1..(i - 1) :
            /\ a[j].kind = "assistant" /\ a[i].call \in a[j].calls
            /\ \A k \in (j + 1)..i : Answers(a[k])
    BY <1>2 DEF Grounded
  <1>4. j \in 1..n /\ \A k \in (j + 1)..i : k \in 1..n
    OBVIOUS
  <1> QED
    BY <1>1, <1>3, <1>4

LEMMA AnswersAppend ==
  ASSUME NEW a \in Seq(Message), Grounded(a), NEW m \in Message,
         ~Answers(m) \/ m.call \in OpenCalls(a)
  PROVE  Grounded(Append(a, m))
  <1> DEFINE b == Append(a, m)
  <1>1. Len(a) \in Nat /\ DOMAIN b = 1..(Len(a) + 1) /\ b[Len(a) + 1] = m /\ DOMAIN a = 1..Len(a)
        /\ \A i \in 1..Len(a) : b[i] = a[i]
    OBVIOUS
  <1> HIDE DEF b
  <1> SUFFICES ASSUME NEW i \in 1..(Len(a) + 1), Answers(b[i])
               PROVE  \E j \in 1..(i - 1) :
                         /\ b[j].kind = "assistant" /\ b[i].call \in b[j].calls
                         /\ \A k \in (j + 1)..i : Answers(b[k])
    BY <1>1 DEF Grounded, b
  <1>2. CASE i \in 1..Len(a)
    <2>1. PICK j \in 1..(i - 1) :
            /\ a[j].kind = "assistant" /\ a[i].call \in a[j].calls
            /\ \A k \in (j + 1)..i : Answers(a[k])
      BY <1>1, <1>2 DEF Grounded
    <2>2. j \in 1..Len(a) /\ \A k \in (j + 1)..i : k \in 1..Len(a)
      BY <1>2
    <2> QED
      BY <1>1, <1>2, <2>1, <2>2
  <1>3. CASE i = Len(a) + 1
    <2>1. PICK j \in DOMAIN a :
            /\ a[j].kind = "assistant" /\ m.call \in a[j].calls
            /\ \A k \in (j + 1)..Len(a) : Answers(a[k])
      BY <1>1, <1>3 DEF OpenCalls
    <2>2. j \in 1..(i - 1) /\ j \in 1..Len(a)
      BY <1>1, <1>3
    <2>3. \A k \in (j + 1)..i : Answers(b[k])
      <3> SUFFICES ASSUME NEW k \in (j + 1)..i
                   PROVE  Answers(b[k])
        OBVIOUS
      <3>1. CASE k = i
        BY <3>1
      <3>2. CASE k # i
        BY <3>2, <2>1, <2>2, <1>1, <1>3
      <3> QED
        BY <3>1, <3>2
    <2> QED
      BY <1>1, <1>3, <2>1, <2>2, <2>3
  <1> QED
    BY <1>2, <1>3

(* Compacting up to a message that answers nothing leaves no result alone.    *)
LEMMA AnswersCut ==
  ASSUME NEW a \in Seq(Message), Grounded(a), NEW n \in Nat, n < Len(a), ~Answers(a[n + 1])
  PROVE  Grounded(<<Summary>> \o SubSeq(a, n + 1, Len(a)))
  <1> DEFINE t == SubSeq(a, n + 1, Len(a))
             b == <<Summary>> \o t
  <1>1. Summary \in Message /\ <<Summary>> \in Seq(Message) /\ Len(<<Summary>>) = 1
        /\ ~Answers(Summary)
    BY DEF Message, Summary, Answers
  <1>2. t \in Seq(Message) /\ Len(t) = Len(a) - n /\ \A i \in 1..(Len(a) - n) : t[i] = a[n + i]
    <2>1. n + 1 \in Nat \ {0} /\ n + 1 <= Len(a) + 1
      OBVIOUS
    <2> QED
      BY <2>1
  <1>3. /\ b \in Seq(Message) /\ Len(b) = Len(a) - n + 1 /\ DOMAIN b = 1..(Len(a) - n + 1)
        /\ b[1] = Summary /\ \A i \in 2..(Len(a) - n + 1) : b[i] = a[n + i - 1]
    <2> HIDE DEF t
    <2>1. b \in Seq(Message) /\ Len(b) = Len(a) - n + 1
      <3>1. b \in Seq(Message) /\ Len(b) = Len(<<Summary>>) + Len(t)
        BY <1>1, <1>2, ConcatProperties
      <3> QED
        BY <3>1, <1>1, <1>2
    <2>2. b[1] = Summary
      BY <1>1, <1>2
    <2>3. ASSUME NEW i \in 2..(Len(a) - n + 1)
          PROVE  b[i] = a[n + i - 1]
      <3>1. b[i] = t[i - 1]
        BY <1>1, <1>2
      <3>2. i - 1 \in 1..(Len(a) - n)
        OBVIOUS
      <3> QED
        BY <3>1, <3>2, <1>2
    <2> QED
      BY <2>1, <2>2, <2>3
  <1> HIDE DEF t, b
  <1> SUFFICES ASSUME NEW i \in DOMAIN b, Answers(b[i])
               PROVE  \E j \in 1..(i - 1) :
                         /\ b[j].kind = "assistant" /\ b[i].call \in b[j].calls
                         /\ \A k \in (j + 1)..i : Answers(b[k])
    BY DEF Grounded, b, t
  <1> DEFINE x == n + i - 1
  <1>4. i \in 2..(Len(a) - n + 1) /\ b[i] = a[x] /\ x \in DOMAIN a /\ x = n + i - 1
    BY <1>1, <1>3
  <1> HIDE DEF x
  <1>5. PICK j \in 1..(x - 1) :
            /\ a[j].kind = "assistant" /\ a[x].call \in a[j].calls
            /\ \A k \in (j + 1)..x : Answers(a[k])
    BY <1>4 DEF Grounded
  <1>6. j > n
    <2> SUFFICES ASSUME j <= n
                 PROVE  FALSE
      BY <1>4
    <2>1. n + 1 \in (j + 1)..x
      BY <1>4
    <2> QED
      BY <2>1, <1>5
  <1>7. j - n + 1 \in 1..(i - 1) /\ j - n + 1 \in 2..(Len(a) - n + 1) /\ n + (j - n + 1) - 1 = j
    BY <1>4, <1>6
  <1>8. b[j - n + 1] = a[j]
    BY <1>3, <1>7
  <1>9. \A k \in (j - n + 2)..i : Answers(b[k])
    <2> SUFFICES ASSUME NEW k \in (j - n + 2)..i
                 PROVE  Answers(b[k])
      OBVIOUS
    <2>1. k \in 2..(Len(a) - n + 1) /\ n + k - 1 \in (j + 1)..x
      BY <1>4, <1>6
    <2> QED
      BY <2>1, <1>3, <1>5
  <1> QED
    BY <1>4, <1>5, <1>7, <1>8, <1>9

(* Notes for calls of the message that a conversation ends with.              *)
LEMMA AnswersNotes ==
  ASSUME NEW a \in Seq(Message), Grounded(a), a # <<>>, a[Len(a)].kind = "assistant",
         NEW ns \in Seq(Message),
         \A i \in 1..Len(ns) : Answers(ns[i]) /\ ns[i].call \in a[Len(a)].calls
  PROVE  Grounded(a \o ns)
  <1> DEFINE b == a \o ns
  <1>1. /\ Len(a) \in Nat /\ Len(a) >= 1 /\ Len(ns) \in Nat
        /\ b \in Seq(Message) /\ DOMAIN b = 1..(Len(a) + Len(ns)) /\ DOMAIN a = 1..Len(a)
        /\ \A i \in 1..Len(a) : b[i] = a[i]
    OBVIOUS
  <1>2. \A i \in (Len(a) + 1)..(Len(a) + Len(ns)) : b[i] = ns[i - Len(a)]
                                                    /\ i - Len(a) \in 1..Len(ns)
    OBVIOUS
  <1> HIDE DEF b
  <1> SUFFICES ASSUME NEW i \in 1..(Len(a) + Len(ns)), Answers(b[i])
               PROVE  \E j \in 1..(i - 1) :
                         /\ b[j].kind = "assistant" /\ b[i].call \in b[j].calls
                         /\ \A k \in (j + 1)..i : Answers(b[k])
    BY <1>1 DEF Grounded, b
  <1>3. CASE i \in 1..Len(a)
    <2>1. PICK j \in 1..(i - 1) :
            /\ a[j].kind = "assistant" /\ a[i].call \in a[j].calls
            /\ \A k \in (j + 1)..i : Answers(a[k])
      BY <1>1, <1>3 DEF Grounded
    <2>2. j \in 1..Len(a) /\ \A k \in (j + 1)..i : k \in 1..Len(a)
      BY <1>3
    <2> QED
      BY <1>1, <1>3, <2>1, <2>2
  <1>4. CASE i > Len(a)
    <2>1. Len(a) \in 1..(i - 1) /\ b[Len(a)] = a[Len(a)]
      BY <1>1, <1>4
    <2>2. b[i].call \in a[Len(a)].calls
      <3>1. i \in (Len(a) + 1)..(Len(a) + Len(ns))
        BY <1>1, <1>4
      <3>2. b[i] = ns[i - Len(a)] /\ i - Len(a) \in 1..Len(ns)
        BY <3>1, <1>2
      <3> QED
        BY <3>2
    <2>3. \A k \in (Len(a) + 1)..i : Answers(b[k])
      <3> SUFFICES ASSUME NEW k \in (Len(a) + 1)..i
                   PROVE  Answers(b[k])
        OBVIOUS
      <3>1. k \in (Len(a) + 1)..(Len(a) + Len(ns))
        BY <1>1
      <3>2. b[k] = ns[k - Len(a)] /\ k - Len(a) \in 1..Len(ns)
        BY <3>1, <1>2
      <3> QED
        BY <3>2
    <2> QED
      BY <2>1, <2>2, <2>3
  <1> QED
    BY <1>1, <1>3, <1>4

(* The notes of a restart.                                                    *)
LEMMA InterruptedNotes ==
  ASSUME NEW a \in Seq(Message)
  PROVE  /\ Interrupted(a) \in Seq(Message)
         /\ Interrupted(a) # <<>> => a # <<>> /\ a[Len(a)].kind = "assistant"
         /\ \A i \in 1..Len(Interrupted(a)) :
               /\ Answers(Interrupted(a)[i])
               /\ Interrupted(a)[i].kind = "note"
               /\ Interrupted(a)[i].call \in a[Len(a)].calls
  <1>1. CASE a # <<>> /\ Last(a).kind = "assistant"
    <2> DEFINE C == Last(a).calls
               cs == SetToSeq(C)
    <2>1. Last(a) = a[Len(a)] /\ a[Len(a)] \in Message
      BY <1>1 DEF Last
    <2>2. C \in SUBSET Call
      BY <1>1, <2>1 DEF Message, User, Summary
    <2>3. IsFiniteSet(C)
      BY <2>2, CallsAssumption, FS_Subset
    <2> HIDE DEF C
    <2>4. Cardinality(C) \in Nat /\ ExistsBijection(1..Cardinality(C), C)
      BY <2>3, FS_CardinalityType
    <2>5. \E f \in [1..Cardinality(C) -> C] : IsInjective(f)
      BY <2>4 DEF ExistsBijection, Bijection, Injection, IsInjective
    <2>6. cs \in [1..Cardinality(C) -> C]
      BY <2>5 DEF SetToSeq
    <2> HIDE DEF cs
    <2>7. Interrupted(a) = [i \in DOMAIN cs |-> Note(cs[i])]
      BY <1>1 DEF Interrupted, cs, C
    <2>8. \A i \in 1..Cardinality(C) : Note(cs[i]) \in Message /\ Note(cs[i]).call \in C
                                      /\ Note(cs[i]).kind = "note" /\ Answers(Note(cs[i]))
      BY <2>2, <2>6 DEF Note, Message, Answers
    <2>9. Interrupted(a) \in [1..Cardinality(C) -> Message]
      BY <2>6, <2>7, <2>8
    <2>10. Interrupted(a) \in Seq(Message) /\ Len(Interrupted(a)) = Cardinality(C)
      BY <2>4, <2>9
    <2>11. \A i \in 1..Cardinality(C) : Interrupted(a)[i] = Note(cs[i])
      BY <2>6, <2>7
    <2>12. C = a[Len(a)].calls
      BY <2>1 DEF C
    <2> QED
      BY <1>1, <2>1, <2>8, <2>10, <2>11, <2>12
  <1>2. CASE ~(a # <<>> /\ Last(a).kind = "assistant")
    <2>1. Interrupted(a) = <<>>
      BY <1>2 DEF Interrupted
    <2> QED
      BY <2>1
  <1> QED
    BY <1>1, <1>2

-----------------------------------------------------------------------------
(* Logs whose every beginning reads as such a conversation.                   *)
LEMMA HealthyPrefix ==
  ASSUME NEW T, NEW rs \in Seq(T), NEW n \in 0..Len(rs), Healthy(rs)
  PROVE  Healthy(SubSeq(rs, 1, n))
  <1> SUFFICES ASSUME NEW i \in 0..n
               PROVE  Grounded(Remembered(SubSeq(SubSeq(rs, 1, n), 1, i)).active)
    <2>1. Len(SubSeq(rs, 1, n)) = n
      OBVIOUS
    <2> QED
      BY <2>1 DEF Healthy
  <1>1. SubSeq(SubSeq(rs, 1, n), 1, i) = SubSeq(rs, 1, i)
    <2> DEFINE u == SubSeq(SubSeq(rs, 1, n), 1, i)
               w == SubSeq(rs, 1, i)
    <2>1. u \in Seq(T) /\ w \in Seq(T) /\ Len(u) = i /\ Len(w) = i /\ \A k \in 1..i : u[k] = w[k]
      OBVIOUS
    <2> HIDE DEF u, w
    <2>2. u = w
      BY <2>1, SeqEqual
    <2> QED
      BY <2>2 DEF u, w
  <1>2. i \in 0..Len(rs)
    OBVIOUS
  <1> QED
    BY <1>1, <1>2 DEF Healthy

LEMMA HealthyReads ==
  ASSUME NEW T, NEW rs \in Seq(T), Healthy(rs)
  PROVE  Grounded(Remembered(rs).active)
  <1>1. Len(rs) \in 0..Len(rs) /\ SubSeq(rs, 1, Len(rs)) = rs
    BY SubSeqFull
  <1> QED
    BY <1>1 DEF Healthy

LEMMA HealthyAppend ==
  ASSUME NEW T, NEW rs \in Seq(T), NEW r \in T, Healthy(rs),
         Grounded(Remembered(Append(rs, r)).active)
  PROVE  Healthy(Append(rs, r))
  <1> DEFINE ss == Append(rs, r)
  <1>1. Len(rs) \in Nat /\ Len(ss) = Len(rs) + 1 /\ SubSeq(ss, 1, Len(rs) + 1) = ss
        /\ \A n \in 0..Len(rs) : SubSeq(ss, 1, n) = SubSeq(rs, 1, n)
    <2>1. SubSeq(ss, 1, Len(ss)) = ss
      BY SubSeqFull
    <2>2. ASSUME NEW n \in 0..Len(rs)
          PROVE  SubSeq(ss, 1, n) = SubSeq(rs, 1, n)
      <3> DEFINE u == SubSeq(ss, 1, n)
                 w == SubSeq(rs, 1, n)
      <3>1. u \in Seq(T) /\ w \in Seq(T) /\ Len(u) = n /\ Len(w) = n /\ \A k \in 1..n : u[k] = w[k]
        OBVIOUS
      <3> HIDE DEF u, w, ss
      <3>2. u = w
        BY <3>1, SeqEqual
      <3> QED
        BY <3>2 DEF u, w
    <2> QED
      BY <2>1, <2>2
  <1> SUFFICES ASSUME NEW n \in 0..(Len(rs) + 1)
               PROVE  Grounded(Remembered(SubSeq(ss, 1, n)).active)
    BY <1>1 DEF Healthy
  <1> HIDE DEF ss
  <1>2. CASE n <= Len(rs)
    <2>1. n \in 0..Len(rs)
      BY <1>2
    <2> QED
      BY <2>1, <1>1 DEF Healthy
  <1>3. CASE n = Len(rs) + 1
    BY <1>1, <1>3 DEF ss
  <1> QED
    BY <1>2, <1>3, <1>1

LEMMA HealthyNone ==
  Healthy(<<>>)
  <1>1. Len(<<>>) = 0 /\ SubSeq(<<>>, 1, 0) = <<>>
    OBVIOUS
  <1>2. Grounded(<<>>)
    BY DEF Grounded
  <1>3. Fresh.active = <<>>
    BY DEF Fresh
  <1> SUFFICES ASSUME NEW n \in 0..0
               PROVE  Grounded(Remembered(SubSeq(<<>>, 1, n)).active)
    BY <1>1 DEF Healthy
  <1>4. n = 0
    OBVIOUS
  <1> QED
    BY <1>1, <1>2, <1>3, <1>4, RememberedNone

(* A beginning of a concatenation is one of its first part, or that part and   *)
(* a beginning of its second.                                                  *)
LEMMA BeginningOfConcat ==
  ASSUME NEW T, NEW a \in Seq(T), NEW c \in Seq(T), NEW n \in 0..(Len(a) + Len(c))
  PROVE  /\ n <= Len(a) => SubSeq(a \o c, 1, n) = SubSeq(a, 1, n)
         /\ n >= Len(a) => SubSeq(a \o c, 1, n) = a \o SubSeq(c, 1, n - Len(a))
  <1> DEFINE b == a \o c
             u == SubSeq(b, 1, n)
  <1>1. /\ b \in Seq(T) /\ Len(b) = Len(a) + Len(c) /\ Len(a) \in Nat /\ Len(c) \in Nat
        /\ \A i \in 1..Len(a) : b[i] = a[i]
        /\ \A i \in (Len(a) + 1)..(Len(a) + Len(c)) : b[i] = c[i - Len(a)]
    OBVIOUS
  <1> HIDE DEF b
  <1>2. u \in Seq(T) /\ Len(u) = n /\ \A i \in 1..n : u[i] = b[i]
    BY <1>1
  <1> HIDE DEF u
  <1>3. ASSUME n <= Len(a)
        PROVE  u = SubSeq(a, 1, n)
    <2> DEFINE w == SubSeq(a, 1, n)
    <2>1. w \in Seq(T) /\ Len(w) = n /\ \A i \in 1..n : w[i] = a[i]
      BY <1>3
    <2> HIDE DEF w
    <2>2. \A i \in 1..n : u[i] = w[i]
      BY <2>1, <1>1, <1>2, <1>3
    <2>3. u = w
      BY <2>1, <2>2, <1>2, SeqEqual
    <2> QED
      BY <2>3 DEF w
  <1>4. ASSUME n >= Len(a)
        PROVE  u = a \o SubSeq(c, 1, n - Len(a))
    <2> DEFINE d == SubSeq(c, 1, n - Len(a))
               w == a \o d
    <2>1. d \in Seq(T) /\ Len(d) = n - Len(a) /\ \A i \in 1..(n - Len(a)) : d[i] = c[i]
      BY <1>4, <1>1
    <2> HIDE DEF d
    <2>2. /\ w \in Seq(T) /\ Len(w) = n
          /\ \A i \in 1..Len(a) : w[i] = a[i]
          /\ \A i \in (Len(a) + 1)..n : w[i] = d[i - Len(a)]
      BY <2>1, <1>1, <1>4
    <2> HIDE DEF w
    <2>3. \A i \in 1..n : u[i] = w[i]
      <3> SUFFICES ASSUME NEW i \in 1..n
                   PROVE  u[i] = w[i]
        OBVIOUS
      <3>1. CASE i <= Len(a)
        BY <3>1, <1>1, <1>2, <2>2
      <3>2. CASE i > Len(a)
        <4>1. i \in (Len(a) + 1)..n /\ i - Len(a) \in 1..(n - Len(a))
              /\ i \in (Len(a) + 1)..(Len(a) + Len(c))
          BY <3>2, <1>1, <1>4
        <4>2. u[i] = c[i - Len(a)]
          BY <4>1, <1>1, <1>2
        <4>3. w[i] = d[i - Len(a)]
          BY <4>1, <2>2
        <4>4. d[i - Len(a)] = c[i - Len(a)]
          BY <4>1, <2>1
        <4> QED
          BY <4>2, <4>3, <4>4
      <3> QED
        BY <3>1, <3>2, <1>1
    <2>4. u = w
      BY <2>2, <2>3, <1>2, SeqEqual
    <2> QED
      BY <2>4 DEF w, d
  <1> QED
    BY <1>3, <1>4 DEF u, b

(* A record that changes nothing may come between.                            *)
LEMMA HealthyQuiet ==
  ASSUME NEW T, NEW a \in Seq(T), NEW c \in Seq(T), NEW r \in T, Healthy(a \o c),
         Remembered(Append(a, r)) = Remembered(a)
  PROVE  Healthy(Append(a, r) \o c)
  <1> DEFINE b == Append(a, r)
  <1>1. b \in Seq(T) /\ Len(b) = Len(a) + 1 /\ Len(a) \in Nat /\ Len(c) \in Nat
        /\ SubSeq(b, 1, Len(a)) = a /\ a \o c \in Seq(T) /\ Len(a \o c) = Len(a) + Len(c)
    OBVIOUS
  <1>2. Len(b \o c) = Len(a) + Len(c) + 1
    BY <1>1
  <1> SUFFICES ASSUME NEW n \in 0..(Len(a) + Len(c) + 1)
               PROVE  Grounded(Remembered(SubSeq(b \o c, 1, n)).active)
    BY <1>2 DEF Healthy
  <1>3. CASE n <= Len(a)
    <2>1. n \in 0..(Len(a) + Len(c)) /\ n \in 0..(Len(b) + Len(c)) /\ n <= Len(b)
      BY <1>1, <1>3
    <2>2. SubSeq(b \o c, 1, n) = SubSeq(b, 1, n)
      BY <2>1, <1>1, BeginningOfConcat
    <2>3. SubSeq(a \o c, 1, n) = SubSeq(a, 1, n)
      BY <2>1, <1>3, BeginningOfConcat
    <2>4. SubSeq(b, 1, n) = SubSeq(a, 1, n)
      <3>1. b \o <<>> = b /\ b = a \o <<r>> /\ <<r>> \in Seq(T) /\ Len(<<r>>) = 1
        OBVIOUS
      <3>2. n \in 0..(Len(a) + 1)
        BY <1>1, <1>3
      <3> HIDE DEF b
      <3> QED
        BY <3>1, <3>2, <1>3, BeginningOfConcat
    <2>5. Grounded(Remembered(SubSeq(a \o c, 1, n)).active)
      BY <2>1, <1>1 DEF Healthy
    <2> HIDE DEF b
    <2> QED
      BY <2>2, <2>3, <2>4, <2>5
  <1>4. CASE n > Len(a)
    <2> DEFINE j == n - Len(b)
               d == SubSeq(c, 1, j)
    <2>1. n \in 0..(Len(b) + Len(c)) /\ n >= Len(b) /\ j \in 0..Len(c)
          /\ Len(a) + j \in 0..(Len(a) + Len(c)) /\ Len(a) + j >= Len(a) /\ (Len(a) + j) - Len(a) = j
      BY <1>1, <1>4
    <2>2. d \in Seq(T)
      BY <2>1
    <2> HIDE DEF b, j
    <2>3. SubSeq(b \o c, 1, n) = b \o d
      BY <2>1, <1>1, BeginningOfConcat DEF j
    <2>4. SubSeq(a \o c, 1, Len(a) + j) = a \o d
      <3> DEFINE k == Len(a) + j
      <3>1. k \in 0..(Len(a) + Len(c)) /\ k >= Len(a) /\ k - Len(a) = j
        BY <1>1, <2>1
      <3> HIDE DEF k, d
      <3>2. SubSeq(a \o c, 1, k) = a \o SubSeq(c, 1, k - Len(a))
        BY <3>1, <1>1, BeginningOfConcat
      <3> QED
        BY <3>1, <3>2 DEF d, k
    <2> HIDE DEF d
    <2>5. Remembered(b \o d) = Remembered(a \o d)
      BY <1>1, <2>2, RememberedAfter DEF b
    <2>6. Grounded(Remembered(SubSeq(a \o c, 1, Len(a) + j)).active)
      BY <2>1, <1>1 DEF Healthy
    <2> QED
      BY <2>3, <2>4, <2>5, <2>6
  <1> QED
    BY <1>1, <1>3, <1>4

-----------------------------------------------------------------------------
(* What single records and writes do.                                         *)
LEMMA Quiet ==
  ASSUME NEW m \in Memory
  PROVE  /\ Replay(m, Event) = m
         /\ Replay(m, TurnEnd) = m
         /\ \A n \in Nat : Replay(m, Meta(n)) = [m EXCEPT !.turns = n]
         /\ \A v \in Value : /\ Replay(m, Completion(v)) = [m EXCEPT !.completion = v]
                            /\ Replay(m, Graph(v)) = [m EXCEPT !.graph = v]
         /\ \A r \in Message : Replay(m, r) = [m EXCEPT !.active = Append(@, r)]
         /\ \A n \in Nat : n <= Len(m.active) =>
                Replay(m, Compaction(n)) =
                    [m EXCEPT !.active = <<Summary>> \o SubSeq(@, n + 1, Len(@))]
  <1>1. Replay(m, Event) = m
    BY DEF Memory, Replay, Message, User, Summary, Event
  <1>2. Replay(m, TurnEnd) = m
    BY DEF Memory, Replay, Message, User, Summary, TurnEnd
  <1>3. \A n \in Nat : Replay(m, Meta(n)) = [m EXCEPT !.turns = n]
    BY DEF Memory, Replay, Message, User, Summary, Meta
  <1>4. \A v \in Value : Replay(m, Completion(v)) = [m EXCEPT !.completion = v]
    BY DEF Memory, Replay, Message, User, Summary, Completion
  <1>5. \A v \in Value : Replay(m, Graph(v)) = [m EXCEPT !.graph = v]
    BY DEF Memory, Replay, Message, User, Summary, Graph
  <1>8. ASSUME NEW x
         PROVE  [active |-> x, turns |-> m.turns, completion |-> m.completion,
                 graph |-> m.graph] = [m EXCEPT !.active = x]
    BY DEF Memory
  <1>6. ASSUME NEW r \in Message
        PROVE  Replay(m, r) = [m EXCEPT !.active = Append(@, r)]
    <2>1. r.kind \notin {"meta", "compaction", "completion", "graph"}
      BY DEF Message, User, Summary
    <2>2. Replay(m, r) = [active |-> Append(m.active, r), turns |-> m.turns,
                          completion |-> m.completion, graph |-> m.graph]
      BY <2>1 DEF Replay
    <2> QED
      BY <2>2, <1>8
  <1>7. ASSUME NEW n \in Nat, n <= Len(m.active)
        PROVE  Replay(m, Compaction(n)) =
                    [m EXCEPT !.active = <<Summary>> \o SubSeq(@, n + 1, Len(@))]
    <2>1. Compaction(n) \notin Message /\ Compaction(n).kind = "compaction"
          /\ Compaction(n).replaced = n
      BY DEF Message, User, Summary, Compaction
    <2>2. Replay(m, Compaction(n)) =
              [active |-> <<Summary>> \o SubSeq(m.active, n + 1, Len(m.active)),
               turns |-> m.turns, completion |-> m.completion, graph |-> m.graph]
      BY <2>1, <1>7 DEF Replay
    <2> QED
      BY <2>2, <1>8
  <1> QED
    BY <1>1, <1>2, <1>3, <1>4, <1>5, <1>6, <1>7

LEMMA RecordKinds ==
  /\ Event \in Record /\ TurnEnd \in Record /\ Event # TurnEnd
  /\ \A n \in Nat : /\ Meta(n) \in Record /\ Meta(n) # TurnEnd /\ Meta(n).kind = "meta"
                   /\ Compaction(n) \in Record /\ Compaction(n) # TurnEnd
  /\ \A v \in Value : /\ Completion(v) \in Record /\ Completion(v) # TurnEnd
                     /\ Graph(v) \in Record /\ Graph(v) # TurnEnd
                     /\ Completion(v).kind = "completion" /\ Completion(v).value = v
                     /\ Graph(v).kind # "completion"
  /\ \A m \in Message \ {Summary} : m \in Record /\ m # TurnEnd /\ m.kind # "meta"
                                  /\ m.kind # "completion"
  /\ Garbage \notin Record /\ Garbage.kind # "meta" /\ TurnEnd.kind # "completion"
  BY DEF Record, Message, Garbage, User, Summary, TurnEnd, Event, Meta, Compaction, Completion, Graph

LEMMA Written1 ==
  ASSUME NEW f \in [lines : Seq(Record \cup {Garbage}), ended : BOOLEAN], NEW r \in Record
  PROVE  /\ Written(f, r) \in [lines : Seq(Record \cup {Garbage}), ended : BOOLEAN]
         /\ Written(f, r).ended
         /\ f.ended => Written(f, r).lines = Append(f.lines, r)
  <1> DEFINE L == Record \cup {Garbage}
  <1>1. r \in L /\ Garbage \in L /\ f.lines \in Seq(L)
    OBVIOUS
  <1> HIDE DEF L
  <1>2. Append(f.lines, r) \in Seq(L)
    BY <1>1
  <1>3. Front(f.lines) \in Seq(L)
    <2>1. Len(f.lines) - 1 \in Int /\ Len(f.lines) - 1 <= Len(f.lines)
      BY <1>1
    <2> QED
      BY <1>1, <2>1 DEF Front
  <1>4. Front(f.lines) \o <<Garbage>> \in Seq(L)
    BY <1>1, <1>3
  <1> QED
    BY <1>2, <1>4 DEF Written, L

LEMMA Partial1 ==
  ASSUME NEW f \in [lines : Seq(Record \cup {Garbage}), ended : BOOLEAN],
         NEW r \in Record \cup {Garbage}, NEW g \in Partial(f, r)
  PROVE  /\ g \in [lines : Seq(Record \cup {Garbage}), ended : BOOLEAN]
         /\ f.ended => \/ g = f
                       \/ /\ ~g.ended
                          /\ \E l \in {r, Garbage} : g.lines = Append(f.lines, l)
  <1> DEFINE L == Record \cup {Garbage}
  <1>1. r \in L /\ Garbage \in L /\ f.lines \in Seq(L)
    OBVIOUS
  <1>2. CASE g = f
    BY <1>2
  <1>3. CASE g # f /\ f.ended
    <2>1. PICK l \in {r, Garbage} : g = [lines |-> Append(f.lines, l), ended |-> FALSE]
      BY <1>3 DEF Partial
    <2>2. Append(f.lines, l) \in Seq(L)
      BY <1>1
    <2> QED
      BY <1>3, <2>1, <2>2
  <1>4. CASE g # f /\ ~f.ended
    <2>1. g = [lines |-> Front(f.lines) \o <<Garbage>>, ended |-> FALSE]
      BY <1>4 DEF Partial
    <2> HIDE DEF L
    <2>2. Front(f.lines) \in Seq(L)
      <3>1. Len(f.lines) - 1 \in Int /\ Len(f.lines) - 1 <= Len(f.lines)
        BY <1>1
      <3> QED
        BY <1>1, <3>1 DEF Front
    <2>3. Front(f.lines) \o <<Garbage>> \in Seq(L)
      BY <1>1, <2>2
    <2> QED
      BY <1>4, <2>1, <2>3 DEF L
  <1> QED
    BY <1>2, <1>3, <1>4

LEMMA HoldingTyped ==
  ASSUME NEW m \in Memory, NEW b \in BOOLEAN
  PROVE  /\ Holding(m, b) \in Session
         /\ Holding(m, b).open = b /\ ~Holding(m, b).failed
         /\ Holding(m, b).active = m.active /\ Holding(m, b).turns = m.turns
         /\ Holding(m, b).completion = m.completion /\ Holding(m, b).graph = m.graph
  BY DEF Holding, Memory, Session

LEMMA ClosedTyped ==
  /\ Fresh \in Memory
  /\ Closed \in Session
  /\ ~Closed.open /\ Closed.active = <<>> /\ Grounded(Closed.active)
  <1>1. Fresh \in Memory /\ Fresh.active = <<>>
    BY DEF Fresh, Memory
  <1>2. Grounded(<<>>)
    BY DEF Grounded
  <1>3. FALSE \in BOOLEAN
    OBVIOUS
  <1>4. /\ Holding(Fresh, FALSE) \in Session
        /\ Holding(Fresh, FALSE).open = FALSE /\ Holding(Fresh, FALSE).active = Fresh.active
    BY <1>1, <1>3, HoldingTyped
  <1> QED
    BY <1>1, <1>2, <1>4 DEF Closed

(* What an idle Session holds is what its log reads as.                        *)
LEMMA Ready ==
  ASSUME IInv, Idle, ~doubtful
  PROVE  /\ file.ended /\ unsure = {} /\ accepted # <<>>
         /\ Healthy(accepted) /\ Remembered(accepted) \in Memory
         /\ Remembered(accepted).active = sess.active
         /\ Remembered(accepted).turns = sess.turns
         /\ Remembered(accepted).completion = sess.completion
         /\ Remembered(accepted).graph = sess.graph
  <1>1. todo = <<>> /\ sess.open /\ ~sess.failed
    BY DEF Idle
  <1>2. PICK p \in 0..Len(todo) : Mirrors(Remembered(accepted \o Due(p)))
    BY <1>1 DEF IInv, Sound, InStep
  <1>3. accepted \o Due(p) = accepted
    <2>1. p = 0
      BY <1>1
    <2>2. Due(p) = <<>>
      BY <2>1 DEF Due
    <2>3. accepted \in Seq(Record)
      BY DEF IInv, Typed
    <2> QED
      BY <2>2, <2>3
  <1>4. Foreseen = sess.completion
    BY <1>1 DEF Foreseen
  <1>5. accepted \in Seq(Record \cup {Garbage})
    BY DEF IInv, Typed
  <1>6. Remembered(accepted) \in Memory
    BY <1>5, RememberedTyped
  <1> QED
    BY <1>1, <1>2, <1>3, <1>4, <1>6 DEF IInv, Sound, Appended, Sane, Mirrors

(* The first record that is due keeps the log healthy.                         *)
LEMMA FirstDue ==
  ASSUME IInv, ~doubtful, todo # <<>>, todo[1].do = "append"
  PROVE  \E p \in 1..Len(todo) :
            /\ Appending(p) /\ Mirrors(Remembered(accepted \o Due(p)))
            /\ Healthy(accepted \o Due(p)) /\ Healthy(Append(accepted, todo[1].rec))
            /\ LET rest == [i \in 1..(p - 1) |-> todo[i + 1].rec]
               IN  /\ rest \in Seq(Record)
                   /\ accepted \o Due(p) = Append(accepted, todo[1].rec) \o rest
  <1>1. sess.open /\ ~sess.failed /\ todo \in Seq(Step) /\ accepted \in Seq(Record)
    BY DEF IInv, Ordered, Typed
  <1>2. PICK p \in 0..Len(todo) :
            Appending(p) /\ Healthy(accepted \o Due(p)) /\ Mirrors(Remembered(accepted \o Due(p)))
    BY <1>1 DEF IInv, Sound, InStep
  <1>3. 1 \in DOMAIN todo /\ 1 <= p /\ p \in 1..Len(todo)
    BY <1>1, <1>2 DEF Appending
  <1>4. \A i \in 1..Len(todo) : todo[i].rec \in Record
    <2>1. \A i \in 1..Len(todo) : todo[i] \in Step
      BY <1>1
    <2> QED
      BY <2>1 DEF Step
  <1> DEFINE rest == [i \in 1..(p - 1) |-> todo[i + 1].rec]
             r == todo[1].rec
             a == accepted
  <1>5. rest \in Seq(Record) /\ Len(rest) = p - 1
    <2>1. \A i \in 1..(p - 1) : i + 1 \in 1..Len(todo)
      BY <1>3
    <2>2. rest \in [1..(p - 1) -> Record]
      BY <2>1, <1>4
    <2>3. p - 1 \in Nat
      BY <1>3
    <2> HIDE DEF rest
    <2> QED
      BY <2>2, <2>3
  <1>6. Due(p) \in Seq(Record) /\ Len(Due(p)) = p /\ \A i \in 1..p : Due(p)[i] = todo[i].rec
    <2>1. Due(p) \in [1..p -> Record]
      BY <1>2, <1>4 DEF Due
    <2> QED
      BY <2>1 DEF Due
  <1>7. Due(p) = <<r>> \o rest
    <2> DEFINE w == <<r>> \o rest
    <2>1. /\ w \in Seq(Record) /\ Len(w) = p
          /\ w[1] = r
          /\ \A i \in 2..p : w[i] = todo[i].rec
      <3>1. r \in Record
        BY <1>1, <1>3, <1>4
      <3>2. rest \in Seq(Record) /\ Len(rest) = p - 1 /\ \A i \in 1..(p - 1) : rest[i] = todo[i + 1].rec
        BY <1>5
      <3> HIDE DEF rest, r
      <3>3. <<r>> \in Seq(Record) /\ Len(<<r>>) = 1
        BY <3>1
      <3>4. w \in Seq(Record) /\ Len(w) = p /\ w[1] = r
        BY <3>2, <3>3
      <3>5. ASSUME NEW i \in 2..p
            PROVE  w[i] = todo[i].rec
        <4>1. w[i] = rest[i - 1] /\ i - 1 \in 1..(p - 1)
          BY <3>2, <3>3
        <4>2. rest[i - 1] = todo[(i - 1) + 1].rec
          BY <4>1, <3>2
        <4>3. (i - 1) + 1 = i
          OBVIOUS
        <4> QED
          BY ONLY <4>1, <4>2, <4>3
      <3> QED
        BY <3>4, <3>5
    <2> HIDE DEF w, rest
    <2>2. \A i \in 1..p : Due(p)[i] = w[i]
      <3> SUFFICES ASSUME NEW i \in 1..p
                   PROVE  Due(p)[i] = w[i]
        OBVIOUS
      <3> QED
        BY <2>1, <1>6
    <2>3. Due(p) = w
      BY <2>1, <2>2, <1>6, SeqEqual
    <2> QED
      BY <2>3 DEF w
  <1>8. a \o Due(p) = Append(a, r) \o rest
    <2>1. r \in Record /\ a \in Seq(Record)
      BY <1>1, <1>3, <1>4
    <2> HIDE DEF rest, r, a
    <2>2. <<r>> \in Seq(Record) /\ Append(a, r) = a \o <<r>>
      BY <2>1
    <2>3. (a \o <<r>>) \o rest = a \o (<<r>> \o rest)
      BY <2>1, <2>2, <1>5, ConcatAssociative
    <2> QED
      BY <2>2, <2>3, <1>7
  <1>9. Healthy(Append(a, r))
    <2>1. r \in Record /\ a \in Seq(Record)
      BY <1>1, <1>3, <1>4
    <2> DEFINE b == Append(a, r)
    <2>a. b \in Seq(Record)
      BY <2>1
    <2> HIDE DEF rest, b
    <2>2. b \in Seq(Record) /\ b \o rest \in Seq(Record) /\ Len(b) \in Nat
          /\ Len(b \o rest) = Len(b) + (p - 1)
      BY <2>a, <1>5
    <2>3. Len(b) \in 0..Len(b \o rest)
      BY <2>2, <1>3
    <2>4. SubSeq(b \o rest, 1, Len(b)) = SubSeq(b, 1, Len(b))
      <3>1. Len(b) \in 0..(Len(b) + Len(rest)) /\ Len(b) <= Len(b)
        BY <2>2, <1>5
      <3> QED
        BY <3>1, <2>2, <1>5, BeginningOfConcat
    <2>5. SubSeq(b, 1, Len(b)) = b
      BY <2>2, SubSeqFull
    <2>6. Healthy(b \o rest)
      BY <1>2, <1>8 DEF b
    <2>7. Healthy(SubSeq(b \o rest, 1, Len(b)))
      BY <2>2, <2>3, <2>6, HealthyPrefix
    <2> QED
      BY <2>4, <2>5, <2>7 DEF b
  <1> QED
    BY <1>2, <1>3, <1>5, <1>8, <1>9
(* What a handler that begins owes the log.                                   *)
LEMMA Begun ==
  ASSUME NEW d \in Seq(Record), todo' \in Seq(Step),
         Len(d) <= Len(todo'),
         \A i \in 1..Len(todo') : todo'[i].do = "append" <=> i <= Len(d),
         \A i \in 1..Len(d) : todo'[i].rec = d[i] /\ (d[i] = TurnEnd => i = Len(d)),
         Healthy(accepted' \o d),
         NEW m, m = Remembered(accepted' \o d),
         m.active = sess'.active, m.turns = sess'.turns, m.graph = sess'.graph,
         m.completion = Foreseen'
  PROVE  InStep'
  <1> DEFINE p == Len(d)
  <1>1. p \in 0..Len(todo') /\ p \in Nat
    OBVIOUS
  <1>2. Due(p)' = d
    <2> DEFINE e == [i \in 1..p |-> todo'[i].rec]
    <2>1. \A i \in 1..p : e[i] = d[i] /\ d[i] \in Record
      OBVIOUS
    <2>2. e \in [1..p -> Record]
      BY <2>1
    <2>3. e \in Seq(Record) /\ Len(e) = p
      BY <2>2, <1>1
    <2> HIDE DEF e
    <2>4. e = d
      BY <2>1, <2>3, SeqEqual
    <2> QED
      BY <2>4 DEF Due, e
  <1>3. Appending(p)'
    <2>1. DOMAIN todo' = 1..Len(todo')
      OBVIOUS
    <2>2. \A i \in 1..p : todo'[i].rec = TurnEnd => i = p
      OBVIOUS
    <2> QED
      BY <2>1, <2>2, <1>1 DEF Appending
  <1> HIDE DEF p
  <1>4. Healthy(accepted \o Due(p))'
    BY <1>2 DEF Healthy
  <1>5. Mirrors(Remembered(accepted \o Due(p)))'
    BY <1>2 DEF Mirrors
  <1> QED
    BY <1>1, <1>3, <1>4, <1>5 DEF InStep

LEMMA BegunNothing ==
  ASSUME accepted \in Seq(Record), accepted' = accepted, todo' \in Seq(Step),
         \A i \in 1..Len(todo') : todo'[i].do # "append", Healthy(accepted),
         NEW m, m = Remembered(accepted),
         m.active = sess'.active, m.turns = sess'.turns, m.graph = sess'.graph,
         m.completion = Foreseen'
  PROVE  InStep'
  <1> DEFINE d == <<>>
  <1>1. d \in Seq(Record) /\ Len(d) = 0 /\ accepted \o d = accepted
    OBVIOUS
  <1>2. Len(todo') \in Nat
    OBVIOUS
  <1> HIDE DEF d
  <1>3. /\ Len(d) <= Len(todo')
        /\ \A i \in 1..Len(todo') : todo'[i].do = "append" <=> i <= Len(d)
        /\ \A i \in 1..Len(d) : todo'[i].rec = d[i] /\ (d[i] = TurnEnd => i = Len(d))
    BY <1>1, <1>2
  <1>4. Healthy(accepted' \o d) /\ m = Remembered(accepted' \o d)
    BY <1>1
  <1> QED
    BY <1>1, <1>3, <1>4, Begun

(* A step that leaves the log alone.                                           *)
LEMMA Undisturbed ==
  ASSUME IInv, UNCHANGED <<file, unsure, accepted, doubtful, atTurn>>, Typed', Ordered',
         sess'.open /\ ~sess'.failed => sess.open /\ ~sess.failed,
         ~doubtful => Durable' /\ Grounded(sess'.active) /\ InStep'
  PROVE  IInv'
  <1> SUFFICES ASSUME ~doubtful
               PROVE  Sound'
    BY DEF IInv
  <1>1. Appended' /\ TurnsKept'
    BY DEF IInv, Sound, Appended, TurnsKept
  <1>2. Sane'
    BY DEF IInv, Sound, Sane
  <1> QED
    BY <1>1, <1>2 DEF Sound

(* The steps that are left.                                                    *)
LEMMA TailIs ==
  ASSUME todo \in Seq(Step), todo # <<>>
  PROVE  /\ Tail(todo) \in Seq(Step) /\ Len(Tail(todo)) = Len(todo) - 1
         /\ \A i \in 1..(Len(todo) - 1) : Tail(todo)[i] = todo[i + 1]
         /\ Head(todo) = todo[1] /\ Len(todo) \in Nat /\ Len(todo) >= 1
         /\ todo[1] \in Step /\ todo[1].rec \in Record
  <1>1. todo[1] \in Step
    OBVIOUS
  <1>2. todo[1].rec \in Record
    BY <1>1 DEF Step
  <1> QED
    BY <1>1, <1>2

LEMMA ForeseenTail ==
  ASSUME Typed, todo # <<>>, todo[1].do # "return", todo' = Tail(todo),
         sess'.completion = sess.completion
  PROVE  Foreseen' = Foreseen
  <1>1. todo \in Seq(Step)
    BY DEF Typed
  <1>2. CASE Len(todo) = 1
    <2>1. Tail(todo) = <<>>
      BY <1>1, <1>2
    <2> QED
      BY <1>2, <2>1 DEF Foreseen
  <1>3. CASE Len(todo) # 1
    <2>1. Len(todo) > 1 /\ Len(Tail(todo)) = Len(todo) - 1 /\ Tail(todo) # <<>>
      <3>1. Len(todo) \in Nat /\ Len(todo) > 1 /\ Len(Tail(todo)) = Len(todo) - 1
        BY <1>1, <1>3, TailIs
      <3>2. Len(<<>>) = 0 /\ Len(Tail(todo)) # 0
        BY <3>1
      <3> QED
        BY <3>1, <3>2
    <2>2. Tail(todo)[Len(Tail(todo))] = todo[Len(todo)]
      BY <1>1, <2>1, TailIs
    <2> QED
      BY <2>1, <2>2 DEF Foreseen
  <1> QED
    BY <1>2, <1>3

(* A handler that has appended all it had to.                                  *)
LEMMA Settled ==
  ASSUME IInv, ~doubtful, todo # <<>>, todo[1].do # "append"
  PROVE  /\ \A i \in 1..Len(todo) : todo[i].do # "append"
         /\ Healthy(accepted) /\ Mirrors(Remembered(accepted))
  <1>1. sess.open /\ ~sess.failed /\ todo \in Seq(Step) /\ accepted \in Seq(Record)
    BY DEF IInv, Ordered, Typed
  <1>2. PICK p \in 0..Len(todo) :
            Appending(p) /\ Healthy(accepted \o Due(p)) /\ Mirrors(Remembered(accepted \o Due(p)))
    BY <1>1 DEF IInv, Sound, InStep
  <1>3. p = 0
    BY <1>1, <1>2 DEF Appending
  <1>4. accepted \o Due(p) = accepted
    <2>1. Due(p) = <<>>
      BY <1>3 DEF Due
    <2> QED
      BY <1>1, <2>1
  <1>5. \A i \in 1..Len(todo) : todo[i].do # "append"
    BY <1>1, <1>2, <1>3 DEF Appending
  <1> QED
    BY <1>2, <1>4, <1>5

(* The log still has its turns when a record follows.                          *)
LEMMA TurnsAppended ==
  ASSUME accepted \in Seq(Record), atTurn \in Seq(Seq(Message)), TurnsKept,
         NEW r \in Record, NEW x \in Seq(Message),
         r = TurnEnd => Remembered(Append(accepted, r)).active = x,
         accepted' = Append(accepted, r),
         atTurn' = IF r = TurnEnd THEN Append(atTurn, x) ELSE atTurn
  PROVE  TurnsKept'
  <1> DEFINE n == TurnEnds(accepted)
  <1>1. n \in Nat /\ TurnEnds(accepted') = n + (IF r = TurnEnd THEN 1 ELSE 0)
    BY TurnEndsAppend
  <1>2. Len(atTurn) = n
    BY DEF TurnsKept
  <1>3. Len(atTurn') = TurnEnds(accepted')
    BY <1>1, <1>2
  <1>4. ASSUME NEW k \in DOMAIN atTurn'
        PROVE  Remembered(FirstTurns(accepted', k)).active = atTurn'[k]
    <2>1. CASE k \in 1..n
      <3>1. FirstTurns(accepted', k) = FirstTurns(accepted, k)
        BY <1>1, <2>1, FirstTurnsAppend
      <3>2. k \in DOMAIN atTurn /\ atTurn'[k] = atTurn[k]
        BY <2>1, <1>2
      <3> QED
        BY <3>1, <3>2 DEF TurnsKept
    <2>2. CASE k \notin 1..n
      <3> HIDE DEF n
      <3>1. r = TurnEnd /\ k = n + 1 /\ atTurn' = Append(atTurn, x) /\ atTurn'[k] = x
        <4>1. k \in 1..Len(atTurn') \/ atTurn' = atTurn
          OBVIOUS
        <4>2. r = TurnEnd
          BY <2>2, <1>2
        <4>3. k \in 1..(n + 1)
          BY <4>1, <4>2, <1>2
        <4>4. k = n + 1
          BY <4>3, <2>2, <1>1
        <4> QED
          BY <4>2, <4>4, <1>2
      <3>2. FirstTurns(accepted', k) = accepted'
        BY <3>1, <1>1, FirstTurnsWhole
      <3> QED
        BY <3>1, <3>2
    <2> QED
      BY <2>1, <2>2
  <1> QED
    BY <1>3, <1>4 DEF TurnsKept

LEMMA LogAppended ==
  ASSUME Typed, Appended, file.ended, unsure = {}, unsure' = {}, accepted # <<>>,
         NEW r \in Record, file' = Written(file, r), accepted' = Append(accepted, r)
  PROVE  Appended'
  <1>1. file \in [lines : Seq(Record \cup {Garbage}), ended : BOOLEAN] /\ accepted \in Seq(Record)
    BY DEF Typed
  <1>2. file'.ended /\ file'.lines = Append(file.lines, r)
    BY <1>1, Written1
  <1>3. /\ Len(file.lines) = Len(accepted)
        /\ \A i \in 1..Len(accepted) : file.lines[i] = accepted[i]
        /\ accepted[1].kind = "meta"
    BY <1>1 DEF Appended
  <1> DEFINE L == Record \cup {Garbage}
  <1>4. file.lines \in Seq(L) /\ r \in L /\ Len(accepted) \in Nat /\ Len(accepted) >= 1
    BY <1>1
  <1> HIDE DEF L
  <1>5. /\ Len(file'.lines) = Len(accepted) + 1
        /\ \A i \in 1..Len(accepted) : file'.lines[i] = file.lines[i]
        /\ file'.lines[Len(accepted) + 1] = r
    BY <1>2, <1>3, <1>4
  <1>6. /\ Len(accepted') = Len(accepted) + 1
        /\ \A i \in 1..Len(accepted) : accepted'[i] = accepted[i]
        /\ accepted'[Len(accepted) + 1] = r /\ DOMAIN accepted' = 1..(Len(accepted) + 1)
        /\ accepted' # <<>>
    BY <1>1
  <1>7. \A i \in DOMAIN accepted' : file'.lines[i] = accepted'[i]
    <2> SUFFICES ASSUME NEW i \in 1..(Len(accepted) + 1)
                 PROVE  file'.lines[i] = accepted'[i]
      BY <1>6
    <2>1. CASE i = Len(accepted) + 1
      BY <2>1, <1>5, <1>6
    <2>2. CASE i # Len(accepted) + 1
      <3>1. i \in 1..Len(accepted)
        BY <2>2, <1>4
      <3> QED
        BY <3>1, <1>3, <1>5, <1>6
    <2> QED
      BY <2>1, <2>2
  <1>8. accepted'[1] = accepted[1]
    BY <1>4, <1>6
  <1> QED
    BY <1>2, <1>3, <1>5, <1>6, <1>7, <1>8 DEF Appended

(* A write that stops short.                                                   *)
LEMMA LogTorn ==
  ASSUME Typed, Appended, file.ended, unsure = {}, accepted # <<>>,
         UNCHANGED <<accepted, unsure>>, NEW r,
         file' = file \/ (/\ ~file'.ended
                         /\ \E l \in {r, Garbage} : file'.lines = Append(file.lines, l)),
         r \in Record, sess'.failed \/ ~sess'.open
  PROVE  /\ Appended'
         /\ ~file'.ended /\ file'.lines[Len(file'.lines)] # Garbage =>
               file'.lines[Len(file'.lines)] = r
  <1>1. file.lines \in Seq(Record \cup {Garbage}) /\ accepted \in Seq(Record)
    BY DEF Typed
  <1>2. CASE file' = file
    BY <1>2 DEF Appended
  <1>3. CASE file' # file
    <2>1. PICK l \in {r, Garbage} : ~file'.ended /\ file'.lines = Append(file.lines, l)
      BY <1>3
    <2> DEFINE L == Record \cup {Garbage}
    <2>2. l \in L /\ file.lines \in Seq(L)
      BY <1>1
    <2> HIDE DEF L
    <2>3. /\ Len(file'.lines) = Len(file.lines) + 1
          /\ \A i \in 1..Len(file.lines) : file'.lines[i] = file.lines[i]
          /\ file'.lines[Len(file'.lines)] = l
      BY <2>1, <2>2
    <2>4. /\ Len(file.lines) = Len(accepted) /\ DOMAIN accepted = 1..Len(accepted)
          /\ \A i \in 1..Len(accepted) : file.lines[i] = accepted[i]
      BY <1>1 DEF Appended
    <2> QED
      BY <2>1, <2>3, <2>4 DEF Appended
  <1> QED
    BY <1>2, <1>3

LEMMA Tuples ==
  ASSUME NEW x, NEW y, NEW z
  PROVE  <<x>> \o <<y, z>> = <<x, y, z>>
  <1>1. ASSUME NEW T, NEW a \in Seq(T), NEW b \in Seq(T), NEW t \in Seq(T),
               Len(a) = 1, Len(b) = 2, Len(t) = 3, t[1] = a[1], t[2] = b[1], t[3] = b[2]
        PROVE  a \o b = t
    <2> DEFINE s == a \o b
    <2>1. /\ s \in Seq(T) /\ Len(s) = Len(a) + Len(b)
          /\ \A i \in 1..(Len(a) + Len(b)) : s[i] = IF i <= Len(a) THEN a[i] ELSE b[i - Len(a)]
      BY <1>1, ConcatProperties
    <2> HIDE DEF s
    <2>2. Len(s) = 3 /\ s[1] = a[1] /\ s[2] = b[1] /\ s[3] = b[2]
      BY <1>1, <2>1
    <2>3. \A i \in 1..3 : s[i] = t[i]
      BY <1>1, <2>2
    <2> QED
      BY <1>1, <2>1, <2>2, <2>3, SeqEqual DEF s
  <1>2. /\ <<x>> \in Seq({x, y, z}) /\ <<y, z>> \in Seq({x, y, z})
        /\ <<x, y, z>> \in Seq({x, y, z})
    OBVIOUS
  <1> QED
    BY <1>1, <1>2

LEMMA Pairs ==
  ASSUME NEW x, NEW y
  PROVE  <<x, y>> = <<x>> \o <<y>>
  <1>1. ASSUME NEW T, NEW a \in Seq(T), NEW b \in Seq(T), NEW t \in Seq(T),
               Len(a) = 1, Len(b) = 1, Len(t) = 2, t[1] = a[1], t[2] = b[1]
        PROVE  a \o b = t
    <2> DEFINE s == a \o b
    <2>1. /\ s \in Seq(T) /\ Len(s) = Len(a) + Len(b)
          /\ \A i \in 1..(Len(a) + Len(b)) : s[i] = IF i <= Len(a) THEN a[i] ELSE b[i - Len(a)]
      BY <1>1, ConcatProperties
    <2> HIDE DEF s
    <2>2. Len(s) = 2 /\ s[1] = a[1] /\ s[2] = b[1]
      BY <1>1, <2>1
    <2>3. \A i \in 1..2 : s[i] = t[i]
      BY <1>1, <2>2
    <2> QED
      BY <1>1, <2>1, <2>2, <2>3, SeqEqual DEF s
  <1>2. <<x>> \in Seq({x, y}) /\ <<y>> \in Seq({x, y}) /\ <<x, y>> \in Seq({x, y})
    OBVIOUS
  <1> QED
    BY <1>1, <1>2

LEMMA MinIs ==
  ASSUME NEW S, S \subseteq Nat, S # {}
  PROVE  Min(S) \in S /\ \A y \in S : Min(S) <= y
  <1>1. PICK x \in S : \A y \in S : ~(<<y, x>> \in OpToRel(<, Nat))
    BY NatLessThanWellFounded, WFMin
  <1>2. \A y \in S : x <= y
    <2> SUFFICES ASSUME NEW y \in S, y < x
                 PROVE  FALSE
      OBVIOUS
    <2>1. <<y, x>> \in OpToRel(<, Nat)
      BY DEF OpToRel
    <2> QED
      BY <2>1, <1>1
  <1> QED
    BY <1>2 DEF Min

(* A compaction cuts before a message that answers no call.                    *)
LEMMA CutIs ==
  ASSUME NEW a \in Seq(Message), Cut(a) > 0
  PROVE  Cut(a) \in Nat /\ Cut(a) < Len(a) /\ ~Answers(a[Cut(a) + 1])
  <1> DEFINE from == Len(a) - KeepRecent
             ok == {i \in from..(Len(a) - 1) : ~Answers(a[i + 1])}
  <1>1. from \in Int /\ Len(a) \in Nat
    BY BoundsAssumption
  <1>2. ~(from < 2 \/ ok = {}) /\ Cut(a) = Min(ok)
    BY DEF Cut
  <1>3. ok \subseteq Nat
    BY <1>1, <1>2
  <1>4. Min(ok) \in ok
    BY <1>2, <1>3, MinIs
  <1> QED
    BY <1>1, <1>2, <1>3, <1>4

(* Messages that follow a log are remembered behind its conversation.          *)
LEMMA RememberedMessages ==
  ASSUME NEW rs \in Seq(Record), NEW ns \in Seq(Message \ {Summary})
  PROVE  Remembered(rs \o ns) = [Remembered(rs) EXCEPT !.active = @ \o ns]
  <1> DEFINE a == Remembered(rs)
             P(n) == Remembered(rs \o SubSeq(ns, 1, n)) = [a EXCEPT !.active = @ \o SubSeq(ns, 1, n)]
             S == {n \in 0..Len(ns) : ~P(n)}
  <1>1. ns \in Seq(Record) /\ ns \in Seq(Message) /\ Len(ns) \in Nat
    BY DEF Record
  <1>2. a \in Memory
    <2>1. rs \in Seq(Record \cup {Garbage})
      OBVIOUS
    <2> QED
      BY <2>1, RememberedTyped
  <1> HIDE DEF a
  <1>3. a.active \in Seq(Message)
    BY <1>2 DEF Memory
  <1>4. ASSUME NEW m \in S, \A y \in S : ~(<<y, m>> \in OpToRel(<, Nat))
        PROVE  FALSE
    <2>1. m \in 0..Len(ns) /\ ~P(m)
      OBVIOUS
    <2>2. m # 0
      <3>1. SubSeq(ns, 1, 0) = <<>>
        OBVIOUS
      <3>2. rs \o <<>> = rs /\ a.active \o <<>> = a.active
        BY <1>3
      <3>3. [a EXCEPT !.active = a.active] = a
        BY <1>2 DEF Memory
      <3> QED
        BY <3>1, <3>2, <3>3, <2>1 DEF a
    <2>3. m - 1 \in 0..Len(ns) /\ m - 1 < m /\ m - 1 \in Nat /\ m \in Nat /\ m \in 1..Len(ns)
      BY <2>1, <2>2, <1>1
    <2>4. <<m - 1, m>> \in OpToRel(<, Nat)
      BY <2>3 DEF OpToRel
    <2>5. P(m - 1)
      BY <2>3, <2>4, <1>4
    <2> DEFINE b == SubSeq(ns, 1, m - 1)
               c == SubSeq(ns, 1, m)
               r == ns[m]
    <2>6. b \in Seq(Record) /\ b \in Seq(Message) /\ r \in Record /\ r \in Message
      BY <1>1, <2>3
    <2>7. c = Append(b, r)
      <3>1. /\ c \in Seq(Record) /\ Len(c) = m /\ Len(b) = m - 1
            /\ \A i \in 1..m : c[i] = ns[i]
            /\ \A i \in 1..(m - 1) : b[i] = ns[i]
        BY <1>1, <2>3
      <3> DEFINE e == Append(b, r)
      <3>2. e \in Seq(Record) /\ Len(e) = m
        BY <2>6, <3>1, <2>3
      <3>3. ASSUME NEW i \in 1..m
            PROVE  e[i] = ns[i]
        BY <2>6, <3>1, <2>3
      <3> HIDE DEF e, c
      <3>4. c = e
        BY <3>1, <3>2, <3>3, SeqEqual
      <3> QED
        BY <3>4 DEF e
    <2> HIDE DEF b, c, r
    <2>8. rs \o c = Append(rs \o b, r) /\ a.active \o c = Append(a.active \o b, r)
      <3>1. <<r>> \in Seq(Record) /\ <<r>> \in Seq(Message)
        BY <2>6
      <3>2. c = b \o <<r>>
        BY <2>6, <2>7
      <3>3. ASSUME NEW T, NEW x \in Seq(T), NEW y \in Seq(T), NEW z \in T
            PROVE  x \o (y \o <<z>>) = Append(x \o y, z)
        <4>1. <<z>> \in Seq(T) /\ x \o y \in Seq(T)
          BY <3>3
        <4>2. (x \o y) \o <<z>> = x \o (y \o <<z>>)
          BY <3>3, <4>1, ConcatAssociative
        <4> DEFINE u == x \o y
        <4>3. u \in Seq(T)
          BY <4>1
        <4> HIDE DEF u
        <4>4. Append(u, z) = u \o <<z>>
          BY <3>3, <4>3, AppendIsConcat
        <4> QED
          BY <4>2, <4>4 DEF u
      <3>4. rs \o (b \o <<r>>) = Append(rs \o b, r)
        BY <2>6, <3>3
      <3>5. a.active \o (b \o <<r>>) = Append(a.active \o b, r)
        <4>1. \A x \in Seq(Message) : x \o (b \o <<r>>) = Append(x \o b, r)
          BY <2>6, <3>3
        <4> QED
          BY <1>3, <4>1
      <3> QED
        BY ONLY <3>2, <3>4, <3>5
    <2> DEFINE u == rs \o b
               v == a.active \o b
    <2>9. u \in Seq(Record) /\ v \in Seq(Message) /\ Remembered(u) = [a EXCEPT !.active = v]
      BY <1>3, <2>5, <2>6 DEF b
    <2>10. rs \o c = Append(u, r) /\ a.active \o c = Append(v, r)
      BY <2>8
    <2> HIDE DEF u, v
    <2>11. Remembered(Append(u, r)) = Replay(Remembered(u), r)
      BY <2>6, <2>9, RememberedAppend
    <2>12. [a EXCEPT !.active = v] \in Memory /\ [a EXCEPT !.active = v].active = v
      BY <1>2, <2>9 DEF Memory
    <2>13. Replay([a EXCEPT !.active = v], r)
              = [[a EXCEPT !.active = v] EXCEPT !.active = Append(v, r)]
      <3> DEFINE w == [a EXCEPT !.active = v]
      <3>1. w \in Memory /\ w.active = v
        BY <2>12
      <3> HIDE DEF w
      <3>2. Replay(w, r) = [w EXCEPT !.active = Append(w.active, r)]
        BY <3>1, <2>6, Quiet
      <3> QED
        BY <3>1, <3>2 DEF w
    <2>14. [[a EXCEPT !.active = v] EXCEPT !.active = Append(v, r)]
              = [a EXCEPT !.active = Append(v, r)]
      <3> DEFINE x == Append(v, r)
      <3> HIDE DEF x
      <3>1. [[a EXCEPT !.active = v] EXCEPT !.active = x] = [a EXCEPT !.active = x]
        BY <1>2 DEF Memory
      <3> QED
        BY <3>1 DEF x
    <2>15. Remembered(rs \o c) = [a EXCEPT !.active = a.active \o c]
      BY <2>9, <2>10, <2>11, <2>13, <2>14
    <2> QED
      BY <2>15, <2>1 DEF c
  <1>5. S \subseteq Nat
    BY <1>1
  <1>6. S = {}
    <2> HIDE DEF S
    <2> QED
      BY <1>4, <1>5, NatLessThanWellFounded, WFMin
  <1>7. P(Len(ns))
    <2>1. Len(ns) \in 0..Len(ns)
      BY <1>1
    <2> HIDE DEF P
    <2> QED
      BY <2>1, <1>6
  <1>8. SubSeq(ns, 1, Len(ns)) = ns
    BY <1>1, SubSeqFull
  <1> QED
    BY <1>7, <1>8 DEF a

LEMMA HealthyNotes ==
  ASSUME NEW rs \in Seq(Record), Healthy(rs)
  PROVE  LET notes == Interrupted(Remembered(rs).active)
         IN  /\ notes \in Seq(Message \ {Summary})
             /\ Healthy(rs \o notes)
             /\ Grounded(Remembered(rs).active \o notes)
  <1> DEFINE a == Remembered(rs)
             notes == Interrupted(a.active)
  <1>1. a.active \in Seq(Message)
    <2>1. rs \in Seq(Record \cup {Garbage})
      OBVIOUS
    <2> QED
      BY <2>1, RememberedTyped DEF Memory
  <1>2. /\ notes \in Seq(Message)
        /\ notes # <<>> => a.active # <<>> /\ a.active[Len(a.active)].kind = "assistant"
        /\ \A i \in 1..Len(notes) : /\ Answers(notes[i]) /\ notes[i].kind = "note"
                                    /\ notes[i].call \in a.active[Len(a.active)].calls
    BY <1>1, InterruptedNotes
  <1> HIDE DEF notes
  <1>3. notes \in Seq(Message \ {Summary})
    <2>1. Len(notes) \in Nat /\ \A i \in 1..Len(notes) : notes[i] \in Message \ {Summary}
      BY <1>2 DEF Summary
    <2>2. notes \in [1..Len(notes) -> Message \ {Summary}]
      BY <1>2, <2>1
    <2> QED
      BY <2>1, <2>2
  <1>4. Grounded(a.active)
    BY HealthyReads
  <1>5. ASSUME NEW j \in 0..Len(notes)
        PROVE  /\ SubSeq(notes, 1, j) \in Seq(Message \ {Summary})
               /\ Grounded(a.active \o SubSeq(notes, 1, j))
    <2> DEFINE b == SubSeq(notes, 1, j)
    <2>1. b \in Seq(Message \ {Summary}) /\ Len(b) = j /\ \A i \in 1..j : b[i] = notes[i]
      BY <1>3
    <2>2. b \in Seq(Message)
      BY <1>2
    <2> HIDE DEF b
    <2>3. CASE j = 0
      <3>1. b = <<>>
        BY <2>1, <2>3
      <3>2. a.active \o b = a.active
        BY <3>1, <1>1
      <3> QED
        BY <3>2, <1>4, <2>1 DEF b
    <2>4. CASE j # 0
      <3>1. notes # <<>>
        BY <2>4
      <3>2. \A i \in 1..Len(b) : Answers(b[i]) /\ b[i].call \in a.active[Len(a.active)].calls
        BY <1>2, <2>1
      <3> HIDE DEF a
      <3>3. Grounded(a.active \o b)
        BY <1>1, <1>2, <1>4, <2>2, <3>1, <3>2, AnswersNotes
      <3> QED
        BY <3>3, <2>1 DEF b
    <2> QED
      BY <2>3, <2>4
  <1>6. notes \in Seq(Record) /\ Len(notes) \in Nat
    BY <1>3 DEF Record
  <1>7. Healthy(rs \o notes)
    <2>1. Len(rs \o notes) = Len(rs) + Len(notes)
      BY <1>6
    <2> SUFFICES ASSUME NEW n \in 0..(Len(rs) + Len(notes))
                 PROVE  Grounded(Remembered(SubSeq(rs \o notes, 1, n)).active)
      BY <2>1 DEF Healthy
    <2>2. CASE n <= Len(rs)
      <3>1. SubSeq(rs \o notes, 1, n) = SubSeq(rs, 1, n) /\ n \in 0..Len(rs)
        BY <1>6, <2>2, BeginningOfConcat
      <3> QED
        BY <3>1 DEF Healthy
    <2>3. CASE n > Len(rs)
      <3> DEFINE j == n - Len(rs)
      <3>1. SubSeq(rs \o notes, 1, n) = rs \o SubSeq(notes, 1, j) /\ j \in 0..Len(notes)
        BY <1>6, <2>3, BeginningOfConcat
      <3> HIDE DEF j
      <3> DEFINE b == SubSeq(notes, 1, j)
      <3>2. b \in Seq(Message \ {Summary}) /\ Grounded(a.active \o b)
        BY <3>1, <1>5
      <3> HIDE DEF b
      <3>3. Remembered(rs \o b) = [a EXCEPT !.active = a.active \o b]
        BY <3>2, RememberedMessages
      <3>4. a \in Memory
        <4>1. rs \in Seq(Record \cup {Garbage})
          OBVIOUS
        <4> QED
          BY <4>1, RememberedTyped
      <3>5. Remembered(rs \o b).active = a.active \o b
        <4> HIDE DEF a
        <4> QED
          BY <3>3, <3>4 DEF Memory
      <3> QED
        BY <3>1, <3>2, <3>5 DEF b
    <2> QED
      BY <2>2, <2>3
  <1>8. Grounded(a.active \o notes)
    <2>1. SubSeq(notes, 1, Len(notes)) = notes /\ Len(notes) \in 0..Len(notes)
      BY <1>6, SubSeqFull
    <2> QED
      BY <2>1, <1>5
  <1> QED
    BY <1>3, <1>7, <1>8 DEF notes

(* What a file reads as: a beginning of the accepted records, or all of them   *)
(* and the record that was torn behind them.                                   *)
LEMMA LogRead ==
  ASSUME Typed, Appended, Sane,
         \A i \in DOMAIN file.lines : file.lines[i] = Garbage
             => i + (IF file.ended THEN 0 ELSE 1) >= Len(file.lines)
  PROVE  /\ \/ \E m \in 0..Len(accepted) : Records(file) = SubSeq(accepted, 1, m)
            \/ \E r \in Record : Records(file) = Append(accepted, r)
         /\ unsure = {} => \/ Records(file) = accepted
                           \/ ~file.ended /\ \E r \in Record : Records(file) = Append(accepted, r)
         /\ Healthy(Records(file))
         /\ Records(file) # <<>> => Records(file)[1].kind = "meta"
  <1> DEFINE L == Record \cup {Garbage}
             ls == file.lines
             n == Len(ls)
             bad == {i \in 1..n : ls[i] = Garbage}
  <1>1. ls \in Seq(L) /\ n \in Nat /\ DOMAIN ls = 1..n /\ accepted \in Seq(Record)
        /\ Len(accepted) \in Nat /\ file.ended \in BOOLEAN /\ Healthy(accepted)
    BY DEF Typed, Sane
  <1>2. Garbage \notin Record
    BY RecordKinds
  <1>3. /\ n = Len(accepted) + (IF file.ended THEN 0 ELSE 1)
        /\ \A i \in 1..Len(accepted) : ls[i] = accepted[i] \/ (i \in unsure /\ ls[i] = Garbage)
    BY <1>1 DEF Appended
  <1>4. \A i \in 1..Len(accepted) : accepted[i] # Garbage
    BY <1>1, <1>2
  <1>5. ~file.ended /\ (unsure # {} \/ accepted = <<>>) => ls[n] = Garbage
    BY DEF Appended
  <1>6. \A i \in 1..n : ls[i] = Garbage => i + (IF file.ended THEN 0 ELSE 1) >= n
    BY <1>1
  <1> HIDE DEF L
  <1> DEFINE Splits(m) == /\ \A i \in 1..m : ls[i] # Garbage
                          /\ \A i \in (m + 1)..n : ls[i] = Garbage
  <1>7. \E m \in 0..n : Splits(m)
    <2>1. CASE bad = {}
      <3>1. \A i \in 1..n : ls[i] # Garbage
        BY <2>1
      <3>2. \A i \in (n + 1)..n : ls[i] = Garbage
        BY <1>1
      <3>3. n \in 0..n
        BY <1>1
      <3> QED
        BY <3>1, <3>2, <3>3
    <2>2. CASE bad # {}
      <3>1. bad \subseteq Nat
        BY <1>1
      <3> DEFINE k == Min(bad)
      <3>2. k \in bad /\ \A y \in bad : k <= y
        BY <2>2, <3>1, MinIs
      <3> HIDE DEF k
      <3>3. k \in 1..n /\ ls[k] = Garbage /\ k - 1 \in 0..n
        BY <3>2
      <3>4. \A i \in 1..(k - 1) : ls[i] # Garbage
        <4> SUFFICES ASSUME NEW i \in 1..(k - 1), ls[i] = Garbage
                     PROVE  FALSE
          OBVIOUS
        <4>1. i \in bad
          BY <3>3
        <4> QED
          BY <4>1, <3>2, <3>3
      <3>5. \A i \in k..n : ls[i] = Garbage
        <4> SUFFICES ASSUME NEW i \in k..n, i # k
                     PROVE  ls[i] = Garbage
          BY <3>3
        <4>1. k + (IF file.ended THEN 0 ELSE 1) >= n
          BY <3>3, <1>6
        <4>2. ~file.ended /\ k = n - 1 /\ i = n
          BY <4>1, <3>3, <1>1
        <4>3. k \in 1..Len(accepted)
          BY <4>2, <3>3, <1>3, <1>1
        <4>4. k \in unsure
          BY <4>3, <3>3, <1>3, <1>4
        <4> QED
          BY <4>2, <4>4, <1>5
      <3>6. (k - 1) + 1 = k
        BY <3>3
      <3> QED
        BY <3>3, <3>4, <3>5, <3>6
    <2> QED
      BY <2>1, <2>2
  <1>16. PICK m \in 0..n : Splits(m)
    <2> HIDE DEF Splits
    <2> QED
      BY <1>7
  <1>8. /\ \A i \in 1..m : ls[i] # Garbage
        /\ \A i \in (m + 1)..n : ls[i] = Garbage
    BY <1>16
  <1> HIDE DEF Splits
  <1> DEFINE rs == Records(file)
  <1>9. rs = SubSeq(ls, 1, m)
    <2>1. ls \in Seq(Record \cup {Garbage})
      BY <1>1 DEF L
    <2> QED
      BY <2>1, <1>8, RecordsPrefix
  <1>10. /\ rs \in Seq(L) /\ Len(rs) = m /\ m \in Nat /\ m <= n
         /\ \A i \in 1..m : rs[i] = ls[i]
    BY <1>1, <1>8, <1>9
  <1> HIDE DEF rs
  <1>11. \A i \in 1..m : i <= Len(accepted) => rs[i] = accepted[i]
    <2> SUFFICES ASSUME NEW i \in 1..m, i <= Len(accepted)
                 PROVE  rs[i] = accepted[i]
      OBVIOUS
    <2>1. i \in 1..Len(accepted)
      BY <1>10
    <2> QED
      BY <2>1, <1>3, <1>8, <1>10
  <1>12. rs \in Seq(Record)
    <2>1. ls \in Seq(Record \cup {Garbage})
      BY <1>1 DEF L
    <2> QED
      BY <2>1, RecordsTyped DEF rs
  <1>13. CASE m <= Len(accepted)
    <2>1. m \in 0..Len(accepted)
      BY <1>10, <1>13, <1>1
    <2>2. rs = SubSeq(accepted, 1, m)
      <3> DEFINE e == SubSeq(accepted, 1, m)
      <3>1. e \in Seq(Record) /\ Len(e) = m /\ \A i \in 1..m : e[i] = accepted[i]
        BY <1>1, <2>1
      <3>2. \A i \in 1..m : e[i] = rs[i]
        BY <3>1, <1>11, <1>13, <1>10
      <3> HIDE DEF e
      <3>3. rs = e
        BY <3>1, <3>2, <1>10, <1>12, SeqEqual
      <3> QED
        BY <3>3 DEF e
    <2>3. Healthy(rs)
      BY <1>1, <2>1, <2>2, HealthyPrefix
    <2>4. rs # <<>> => rs[1].kind = "meta"
      <3> SUFFICES ASSUME rs # <<>>
                   PROVE  rs[1].kind = "meta"
        OBVIOUS
      <3>1. m # 0
        BY <1>10, <1>12
      <3>2. rs[1] = accepted[1] /\ accepted # <<>>
        BY <3>1, <2>1, <1>10, <1>11, <1>13
      <3> QED
        BY <3>2 DEF Appended
    <2>5. unsure = {} => rs = accepted
      <3> SUFFICES ASSUME unsure = {}
                   PROVE  rs = accepted
        OBVIOUS
      <3>1. \A i \in 1..Len(accepted) : ls[i] # Garbage
        BY <1>3, <1>4
      <3>2. m = Len(accepted)
        <4> SUFFICES ASSUME m < Len(accepted)
                     PROVE  FALSE
          BY <2>1, <1>1
        <4>1. m + 1 \in (m + 1)..n /\ m + 1 \in 1..Len(accepted)
          BY <2>1, <1>1, <1>3
        <4> QED
          BY <4>1, <3>1, <1>8
      <3> QED
        BY <3>2, <2>2, <1>1, SubSeqFull
    <2> QED
      BY <2>1, <2>2, <2>3, <2>4, <2>5 DEF rs
  <1>14. CASE m > Len(accepted)
    <2>1. ~file.ended /\ m = n /\ n = Len(accepted) + 1
      BY <1>14, <1>10, <1>1, <1>3
    <2> DEFINE r == ls[n]
    <2>2. r # Garbage /\ rs[n] = r /\ n \in 1..m
      BY <2>1, <1>8, <1>10, <1>1
    <2>3. r \in Record
      BY <2>2, <1>12, <1>10
    <2> DEFINE e == Append(accepted, r)
    <2>4. /\ e \in Seq(Record) /\ Len(e) = n /\ e[n] = r
          /\ \A i \in 1..Len(accepted) : e[i] = accepted[i]
      BY <2>1, <2>3, <1>1
    <2> HIDE DEF e, r
    <2>5. rs = e
      <3>1. \A i \in 1..n : e[i] = rs[i]
        <4> SUFFICES ASSUME NEW i \in 1..n
                     PROVE  e[i] = rs[i]
          OBVIOUS
        <4>1. CASE i = n
          BY <4>1, <2>2, <2>4
        <4>2. CASE i # n
          <5>1. i \in 1..Len(accepted) /\ i \in 1..m
            BY <4>2, <2>1, <1>1
          <5> QED
            BY <5>1, <2>4, <1>11
        <4> QED
          BY <4>1, <4>2
      <3> QED
        BY <3>1, <2>1, <2>4, <1>10, <1>12, SeqEqual
    <2>6. Healthy(rs)
      <3>1. Healthy(Append(accepted, r))
        BY <2>1, <2>2 DEF Sane, r
      <3> QED
        BY <3>1, <2>5 DEF e
    <2>7. rs[1].kind = "meta"
      <3>1. accepted # <<>>
        BY <2>1, <2>2, <1>5 DEF r
      <3>2. 1 \in 1..Len(accepted) /\ 1 \in 1..m
        BY <3>1, <2>1, <1>1
      <3> QED
        BY <3>1, <3>2, <1>11 DEF Appended
    <2> QED
      BY <2>1, <2>3, <2>5, <2>6, <2>7 DEF rs, e
  <1>15. m <= Len(accepted) \/ m > Len(accepted)
    BY <1>1, <1>10
  <1> QED
    BY ONLY <1>13, <1>14, <1>15, Zenon

LEMMA WholeRead ==
  ASSUME IInv, ~doubtful, file.ended, unsure = {}
  PROVE  Records(file) = accepted
  <1>1. Typed /\ Appended /\ Sane
    BY DEF IInv, Sound
  <1>2. /\ file.lines \in Seq(Record \cup {Garbage}) /\ accepted \in Seq(Record)
        /\ Len(file.lines) = Len(accepted)
        /\ \A i \in 1..Len(accepted) : file.lines[i] = accepted[i]
    <2>1. /\ file.lines \in Seq(Record \cup {Garbage}) /\ accepted \in Seq(Record)
          /\ Len(accepted) \in Nat /\ DOMAIN accepted = 1..Len(accepted)
      BY <1>1 DEF Typed
    <2>2. /\ Len(file.lines) = Len(accepted) + 0
          /\ \A i \in DOMAIN accepted : file.lines[i] = accepted[i]
      BY <1>1 DEF Appended
    <2> QED
      BY <2>1, <2>2
  <1>3. \A i \in 1..Len(accepted) : accepted[i] # Garbage
    BY <1>2, RecordKinds
  <1>4. \A i \in DOMAIN file.lines : file.lines[i] # Garbage
    BY <1>2, <1>3
  <1>5. \A i \in DOMAIN file.lines : file.lines[i] = Garbage
            => i + (IF file.ended THEN 0 ELSE 1) >= Len(file.lines)
    BY <1>4
  <1>6. unsure = {} => \/ Records(file) = accepted
                       \/ ~file.ended /\ \E r \in Record : Records(file) = Append(accepted, r)
    BY <1>1, <1>5, LogRead
  <1> QED
    BY <1>6

-----------------------------------------------------------------------------
(* Each step keeps the invariant.                                              *)
LEMMA AppendKeeps ==
  ASSUME IInv, StepAppend
  PROVE  IInv'
  <1> DEFINE r == todo[1].rec
  <1>1. /\ todo # <<>> /\ todo[1].do = "append" /\ ~sess.failed
        /\ file' = Written(file, r) /\ accepted' = Append(accepted, r)
        /\ mark' = Len(accepted') /\ todo' = Tail(todo)
        /\ atTurn' = IF r = TurnEnd THEN Append(atTurn, sess.active) ELSE atTurn
        /\ UNCHANGED <<synced, unsure, sess, upsets, kept, doubtful>>
    BY DEF IInv, Typed, StepAppend
  <1>2. todo \in Seq(Step) /\ accepted \in Seq(Record) /\ sess.active \in Seq(Message)
        /\ atTurn \in Seq(Seq(Message))
        /\ file \in [lines : Seq(Record \cup {Garbage}), ended : BOOLEAN]
    BY DEF IInv, Typed, Session
  <1>3. /\ r \in Record /\ Len(todo) \in Nat /\ Len(todo) >= 1
        /\ todo' \in Seq(Step) /\ Len(todo') = Len(todo) - 1
        /\ \A i \in 1..(Len(todo) - 1) : todo'[i] = todo[i + 1]
    BY <1>1, <1>2, TailIs
  <1> HIDE DEF r
  <1>4. accepted' \in Seq(Record) /\ Len(accepted') = Len(accepted) + 1
        /\ atTurn' \in Seq(Seq(Message))
    BY <1>1, <1>2, <1>3
  <1>5. Typed'
    <2>1. file' \in [lines : Seq(Record \cup {Garbage}), ended : BOOLEAN]
      BY <1>1, <1>2, <1>3, Written1
    <2> QED
      BY <2>1, <1>1, <1>3, <1>4 DEF IInv, Typed
  <1>6. sess.open
    BY <1>1 DEF IInv, Ordered
  <1>7. Ordered'
    <2>1. ASSUME NEW i \in DOMAIN todo', todo'[i].do = "return"
          PROVE  i = Len(todo') /\ i # 1 /\ todo'[i - 1].do = "sync"
      <3>1. i \in 1..(Len(todo) - 1) /\ i + 1 \in DOMAIN todo /\ todo[i + 1].do = "return"
        BY <2>1, <1>2, <1>3
      <3>2. i + 1 = Len(todo) /\ i + 1 # 1 /\ todo[(i + 1) - 1].do = "sync"
        BY <3>1 DEF IInv, Ordered
      <3>3. todo[i].do = "sync" /\ (i + 1) - 1 = i
        BY <3>1, <3>2
      <3>4. i # 1
        BY <3>3, <1>1
      <3>5. i - 1 \in 1..(Len(todo) - 1) /\ todo'[i - 1] = todo[(i - 1) + 1] /\ (i - 1) + 1 = i
        BY <3>1, <3>4, <1>3
      <3> QED
        BY <3>2, <3>3, <3>4, <3>5, <1>3
    <2> QED
      BY <2>1, <1>1, <1>6 DEF IInv, Ordered
  <1> SUFFICES ASSUME ~doubtful
               PROVE  Sound'
    BY <1>1, <1>5, <1>7 DEF IInv
  <1>8. file.ended /\ unsure = {} /\ accepted # <<>> /\ Appended /\ TurnsKept /\ Durable
    BY <1>1, <1>6 DEF IInv, Sound, Appended
  <1>9. PICK p \in 1..Len(todo) :
            /\ Appending(p) /\ Mirrors(Remembered(accepted \o Due(p)))
            /\ Healthy(accepted \o Due(p)) /\ Healthy(Append(accepted, r))
            /\ LET rest == [i \in 1..(p - 1) |-> todo[i + 1].rec]
               IN  /\ rest \in Seq(Record)
                   /\ accepted \o Due(p) = Append(accepted, r) \o rest
    BY <1>1, FirstDue DEF r
  <1> DEFINE rest == [i \in 1..(p - 1) |-> todo[i + 1].rec]
  <1>10. rest \in Seq(Record) /\ accepted \o Due(p) = accepted' \o rest /\ Len(rest) = p - 1
         /\ \A i \in 1..(p - 1) : rest[i] = todo[i + 1].rec
    BY <1>1, <1>9
  <1> HIDE DEF rest
  <1>11. Appended'
    BY <1>1, <1>3, <1>8, LogAppended DEF IInv
  <1>12. Durable'
    BY <1>1, <1>2, <1>4, <1>8 DEF Durable, IInv, Typed
  <1>13. Sane'
    <2>1. file'.ended
      BY <1>1, <1>2, <1>3, Written1
    <2>2. Grounded(sess.active)
      BY DEF IInv, Sound, Sane
    <2> QED
      BY <2>1, <2>2, <1>1, <1>9 DEF Sane
  <1>14. InStep'
    <2>1. \A i \in 1..Len(todo') : todo'[i].do = "append" <=> i <= p - 1
      <3> SUFFICES ASSUME NEW i \in 1..(Len(todo) - 1)
                   PROVE  todo[i + 1].do = "append" <=> i <= p - 1
        BY <1>3
      <3>1. i + 1 \in DOMAIN todo
        BY <1>2, <1>3
      <3>2. todo[i + 1].do = "append" <=> i + 1 <= p
        BY <3>1, <1>9 DEF Appending
      <3> QED
        BY <3>2
    <2>2. \A i \in 1..(p - 1) :
             todo'[i].rec = rest[i] /\ (rest[i] = TurnEnd => i = p - 1)
      <3> SUFFICES ASSUME NEW i \in 1..(p - 1)
                   PROVE  todo'[i].rec = todo[i + 1].rec /\ (todo[i + 1].rec = TurnEnd => i = p - 1)
        BY <1>10
      <3>1. i + 1 \in 1..p /\ i \in 1..(Len(todo) - 1)
        BY <1>3
      <3>2. todo[i + 1].rec = TurnEnd => i + 1 = p
        BY <3>1, <1>9 DEF Appending
      <3> QED
        BY <3>1, <3>2, <1>3
    <2>3. Foreseen' = Foreseen
      BY <1>1, ForeseenTail DEF IInv
    <2>4. Len(rest) <= Len(todo')
      BY <1>3, <1>10
    <2> DEFINE m == Remembered(accepted' \o rest)
    <2>5. m.active = sess'.active /\ m.turns = sess'.turns /\ m.graph = sess'.graph
          /\ m.completion = Foreseen'
      BY <1>1, <1>9, <1>10, <2>3 DEF Mirrors
    <2>6. Healthy(accepted' \o rest)
      BY <1>9, <1>10
    <2> HIDE DEF m
    <2> QED
      BY <1>3, <1>10, <2>1, <2>2, <2>4, <2>5, <2>6, Begun DEF m
  <1>15. TurnsKept'
    <2>1. ASSUME r = TurnEnd
          PROVE  Remembered(accepted').active = sess.active
      <3>1. p = 1
        BY <2>1, <1>9 DEF Appending, r
      <3>2. rest = <<>>
        BY <3>1, <1>10
      <3>3. accepted' \o rest = accepted'
        BY <3>2, <1>4
      <3> QED
        BY <3>3, <1>9, <1>10 DEF Mirrors
    <2> QED
      BY <2>1, <1>1, <1>2, <1>3, <1>8, TurnsAppended
  <1> QED
    BY <1>11, <1>12, <1>13, <1>14, <1>15 DEF Sound

LEMMA AppendFailsKeeps ==
  ASSUME IInv, StepAppendFails
  PROVE  IInv'
  <1>1. /\ todo # <<>> /\ sess.open /\ ~sess.failed /\ todo[1].rec \in Record
        /\ todo[1].do = "append" /\ Head(todo) = todo[1]
    <2>1. todo # <<>> /\ Head(todo).do = "append" /\ todo \in Seq(Step)
      BY DEF StepAppendFails, IInv, Typed
    <2> QED
      BY <2>1, TailIs DEF IInv, Ordered
  <1> DEFINE r == todo[1].rec
  <1>2. /\ file' \in Partial(file, r) /\ sess' = [sess EXCEPT !.failed = TRUE] /\ todo' = <<>>
        /\ UNCHANGED <<synced, unsure, upsets, accepted, mark, kept, doubtful, atTurn>>
    BY <1>1 DEF StepAppendFails, history
  <1>3. file \in [lines : Seq(Record \cup {Garbage}), ended : BOOLEAN] /\ sess \in Session
        /\ accepted \in Seq(Record)
    BY DEF IInv, Typed
  <1> HIDE DEF r
  <1>4. r \in Record
    BY <1>1 DEF r
  <1>5. /\ file' \in [lines : Seq(Record \cup {Garbage}), ended : BOOLEAN]
        /\ file.ended => \/ file' = file
                         \/ /\ ~file'.ended
                            /\ \E l \in {r, Garbage} : file'.lines = Append(file.lines, l)
    BY <1>2, <1>3, <1>4, Partial1
  <1>6. /\ sess' \in Session /\ sess'.open /\ sess'.failed /\ sess'.active = sess.active
    BY <1>1, <1>2, <1>3 DEF Session
  <1>7. Typed'
    BY <1>2, <1>5, <1>6 DEF IInv, Typed
  <1>8. Ordered'
    BY <1>2, <1>6 DEF Ordered
  <1> SUFFICES ASSUME ~doubtful
               PROVE  Sound'
    BY <1>2, <1>7, <1>8 DEF IInv
  <1>9. file.ended /\ unsure = {} /\ accepted # <<>> /\ Appended /\ TurnsKept /\ Durable /\ Sane
    BY <1>1 DEF IInv, Sound, Appended
  <1>10. Appended' /\ (~file'.ended /\ file'.lines[Len(file'.lines)] # Garbage =>
                          file'.lines[Len(file'.lines)] = r)
    BY <1>2, <1>4, <1>5, <1>6, <1>9, LogTorn DEF IInv
  <1>11. Sane'
    <2>1. Healthy(Append(accepted, r))
      BY <1>1, FirstDue DEF r
    <2> QED
      BY <2>1, <1>2, <1>6, <1>9, <1>10 DEF Sane
  <1> QED
    BY <1>2, <1>6, <1>9, <1>10, <1>11 DEF Sound, Durable, InStep, TurnsKept

LEMMA SyncKeeps ==
  ASSUME IInv, StepSync
  PROVE  IInv'
  <1>1. /\ todo \in Seq(Step) /\ todo # <<>> /\ Head(todo).do = "sync" /\ ~sess.failed
        /\ synced' = Len(file.lines) /\ todo' = Tail(todo)
        /\ UNCHANGED <<file, unsure, sess, upsets, accepted, mark, kept, doubtful, atTurn>>
    BY DEF StepSync, IInv, Typed, history
  <1>2. /\ todo[1].do = "sync" /\ Len(todo) \in Nat /\ Len(todo) >= 1
        /\ todo' \in Seq(Step) /\ Len(todo') = Len(todo) - 1
        /\ \A i \in 1..(Len(todo) - 1) : todo'[i] = todo[i + 1]
    BY <1>1, TailIs
  <1>3. file.lines \in Seq(Record \cup {Garbage}) /\ accepted \in Seq(Record)
        /\ sess \in Session
    BY DEF IInv, Typed
  <1>4. Typed'
    BY <1>1, <1>2, <1>3 DEF IInv, Typed
  <1>5. ~doubtful => mark <= synced' /\ kept <= synced' /\ Len(accepted) <= synced'
    BY <1>1, <1>3 DEF IInv, Sound, Appended, Durable, Typed
  <1>6. Ordered'
    <2>1. ASSUME NEW i \in DOMAIN todo', todo'[i].do = "return"
          PROVE  /\ i = Len(todo')
                 /\ i # 1 => todo'[i - 1].do = "sync"
      <3>1. i \in 1..(Len(todo) - 1) /\ i + 1 \in DOMAIN todo /\ todo[i + 1].do = "return"
        BY <2>1, <1>1, <1>2
      <3>2. i + 1 = Len(todo) /\ i + 1 # 1 /\ todo[(i + 1) - 1].do = "sync"
        BY <3>1 DEF IInv, Ordered
      <3>3. todo[i].do = "sync" /\ (i + 1) - 1 = i
        BY <3>1, <3>2
      <3>4. i # 1 => /\ i - 1 \in 1..(Len(todo) - 1) /\ todo'[i - 1] = todo[(i - 1) + 1]
                     /\ (i - 1) + 1 = i
        BY <3>1, <1>2
      <3> QED
        BY <3>2, <3>3, <3>4, <1>2
    <2>2. sess.open
      BY <1>1 DEF IInv, Ordered
    <2> QED
      BY <2>1, <2>2, <1>1, <1>5 DEF IInv, Ordered
  <1>7. ASSUME ~doubtful
        PROVE  Durable' /\ Grounded(sess'.active) /\ InStep'
    <2>1. Durable'
      BY <1>1, <1>5, <1>7 DEF IInv, Sound, Durable
    <2>2. Grounded(sess'.active)
      BY <1>1, <1>7 DEF IInv, Sound, Sane
    <2>3. /\ \A i \in 1..Len(todo) : todo[i].do # "append"
          /\ Healthy(accepted) /\ Mirrors(Remembered(accepted))
      BY <1>1, <1>2, <1>7, Settled
    <2>4. Foreseen' = Foreseen
      BY <1>1, <1>2, ForeseenTail DEF IInv
    <2>5. \A i \in 1..Len(todo') : i + 1 \in 1..Len(todo) /\ todo'[i].do # "append"
      BY <2>3, <1>2
    <2> QED
      BY <1>1, <1>2, <1>3, <2>1, <2>2, <2>3, <2>4, <2>5, BegunNothing DEF Mirrors
  <1> QED
    BY <1>1, <1>4, <1>6, <1>7, Undisturbed

LEMMA SyncFailsKeeps ==
  ASSUME IInv, StepSyncFails
  PROVE  IInv'
  <1>1. /\ todo # <<>> /\ sess.open /\ ~sess.failed
    BY DEF StepSyncFails, IInv, Ordered
  <1>2. /\ unsure' = unsure \cup ((synced + 1)..Len(file.lines))
        /\ sess' = [sess EXCEPT !.failed = TRUE] /\ todo' = <<>>
        /\ UNCHANGED <<file, synced, upsets, accepted, mark, kept, doubtful, atTurn>>
    BY <1>1 DEF StepSyncFails, history
  <1>3. /\ file.lines \in Seq(Record \cup {Garbage}) /\ accepted \in Seq(Record)
        /\ sess \in Session /\ synced \in Nat /\ unsure \in SUBSET Nat /\ kept \in Nat
    BY DEF IInv, Typed
  <1>4. sess' \in Session /\ sess'.open /\ sess'.failed /\ sess'.active = sess.active
    BY <1>1, <1>2, <1>3 DEF Session
  <1>5. unsure' \in SUBSET Nat
    BY <1>2, <1>3
  <1>6. Typed'
    BY <1>2, <1>4, <1>5 DEF IInv, Typed
  <1>7. Ordered'
    BY <1>2, <1>4 DEF Ordered
  <1> SUFFICES ASSUME ~doubtful
               PROVE  Sound'
    BY <1>2, <1>6, <1>7 DEF IInv
  <1>8. file.ended /\ unsure = {} /\ Appended /\ TurnsKept /\ Durable /\ Sane
    BY <1>1 DEF IInv, Sound, Appended
  <1>9. Appended'
    BY <1>2, <1>4, <1>8 DEF Appended
  <1>10. Durable'
    BY <1>2, <1>3, <1>8 DEF Durable
  <1>11. Sane'
    BY <1>2, <1>4, <1>8 DEF Sane
  <1> QED
    BY <1>2, <1>4, <1>8, <1>9, <1>10, <1>11 DEF Sound, InStep, TurnsKept

LEMMA ReturnKeeps ==
  ASSUME IInv, StepReturn
  PROVE  IInv'
  <1>1. /\ todo \in Seq(Step) /\ todo # <<>> /\ Head(todo).do = "return"
        /\ kept' = mark /\ todo' = Tail(todo)
        /\ sess' = IF Head(todo).rec.kind = "completion"
                   THEN [sess EXCEPT !.completion = Head(todo).rec.value] ELSE sess
        /\ UNCHANGED <<file, synced, unsure, upsets, accepted, mark, doubtful, atTurn>>
    BY DEF StepReturn, IInv, Typed
  <1>2. /\ Head(todo) = todo[1] /\ todo[1].do = "return" /\ Len(todo) \in Nat /\ Len(todo) >= 1
        /\ todo[1].rec \in Record
    BY <1>1, TailIs
  <1>3. Len(todo) = 1 /\ (~doubtful => mark <= synced) /\ sess.open /\ ~sess.failed
    <2>1. 1 \in DOMAIN todo
      BY <1>1, <1>2
    <2> QED
      BY <2>1, <1>1, <1>2 DEF IInv, Ordered
  <1>4. todo' = <<>>
    BY <1>1, <1>3
  <1>5. sess \in Session /\ mark \in Nat /\ accepted \in Seq(Record)
    BY DEF IInv, Typed
  <1>6. todo[1].rec.kind = "completion" => todo[1].rec.value \in Value
    BY <1>2 DEF Record, Message, User, Summary, TurnEnd, Event
  <1>7. /\ sess' \in Session /\ sess'.open /\ ~sess'.failed /\ sess'.active = sess.active
        /\ sess'.turns = sess.turns /\ sess'.graph = sess.graph
        /\ sess'.completion = Foreseen
    BY <1>1, <1>2, <1>3, <1>5, <1>6 DEF Session, Foreseen
  <1>8. Typed'
    BY <1>1, <1>4, <1>5, <1>7 DEF IInv, Typed
  <1>9. Ordered'
    BY <1>4, <1>7 DEF Ordered
  <1>10. ASSUME ~doubtful
         PROVE  Durable' /\ Grounded(sess'.active) /\ InStep'
    <2>1. sess.open /\ ~sess.failed /\ unsure = {}
      BY <1>3, <1>10 DEF IInv, Sound, Appended
    <2>2. Durable'
      BY <1>1, <1>3, <1>10, <2>1 DEF IInv, Sound, Durable
    <2>3. Grounded(sess'.active)
      BY <1>7, <1>10 DEF IInv, Sound, Sane
    <2>4. Healthy(accepted) /\ Mirrors(Remembered(accepted))
      BY <1>1, <1>2, <1>10, Settled
    <2>5. Foreseen' = Foreseen
      BY <1>4, <1>7 DEF Foreseen
    <2>6. todo' \in Seq(Step) /\ Len(todo') = 0 /\ \A i \in 1..Len(todo') : todo'[i].do # "append"
      BY <1>4
    <2> QED
      BY <1>1, <1>5, <1>7, <2>2, <2>3, <2>4, <2>5, <2>6, BegunNothing DEF Mirrors
  <1> QED
    BY <1>1, <1>3, <1>8, <1>9, <1>10, Undisturbed

(* The handlers: what begins when the Session is idle.                         *)
LEMMA Handled ==
  ASSUME IInv, Idle, UNCHANGED <<file, synced, unsure, upsets, history>>,
         sess' \in Session, sess'.open, ~sess'.failed, todo' \in Seq(Step),
         \A i \in 1..Len(todo') : todo'[i].do = "return" =>
             i = Len(todo') /\ i # 1 /\ todo'[i - 1].do = "sync",
         ~doubtful => Grounded(sess'.active) /\ InStep'
  PROVE  IInv'
  <1>1. UNCHANGED <<file, synced, unsure, upsets, accepted, mark, kept, doubtful, atTurn>>
    BY DEF history
  <1>2. Typed'
    BY <1>1 DEF IInv, Typed
  <1>3. Ordered'
    BY DEF Ordered
  <1>4. ~doubtful => Durable'
    BY <1>1 DEF IInv, Sound, Durable
  <1> QED
    BY <1>1, <1>2, <1>3, <1>4, Undisturbed DEF Idle

LEMMA OneMore ==
  ASSUME IInv, Idle, ~doubtful, accepted' = accepted, NEW r \in Record,
         Grounded(Replay(Remembered(accepted), r).active),
         todo' \in Seq(Step), Len(todo') >= 1, todo'[1] = App(r),
         \A i \in 2..Len(todo') : todo'[i].do # "append",
         Replay(Remembered(accepted), r).active = sess'.active,
         Replay(Remembered(accepted), r).turns = sess'.turns,
         Replay(Remembered(accepted), r).graph = sess'.graph,
         Replay(Remembered(accepted), r).completion = Foreseen'
  PROVE  InStep'
  <1> DEFINE d == <<r>>
             m == Replay(Remembered(accepted), r)
  <1>1. accepted \in Seq(Record)
    BY DEF IInv, Typed
  <1>2. d \in Seq(Record) /\ Len(d) = 1 /\ d[1] = r /\ accepted \o d = Append(accepted, r)
    BY <1>1
  <1>3. m = Remembered(accepted' \o d)
    BY <1>1, <1>2, RememberedAppend
  <1>4. Healthy(accepted' \o d)
    <2>1. Healthy(accepted)
      BY Ready
    <2>2. Remembered(Append(accepted, r)) = m
      BY <1>1, RememberedAppend
    <2>3. Healthy(Append(accepted, r))
      BY <2>1, <2>2, <1>1, HealthyAppend
    <2> QED
      BY <2>3, <1>2
  <1>5. todo'[1].do = "append" /\ todo'[1].rec = r /\ Len(todo') \in Nat
    BY DEF App
  <1> HIDE DEF d, m
  <1>6. /\ Len(d) <= Len(todo')
        /\ \A i \in 1..Len(todo') : todo'[i].do = "append" <=> i <= Len(d)
        /\ \A i \in 1..Len(d) : todo'[i].rec = d[i] /\ (d[i] = TurnEnd => i = Len(d))
    BY <1>2, <1>5
  <1>7. m.active = sess'.active /\ m.turns = sess'.turns /\ m.graph = sess'.graph
        /\ m.completion = Foreseen'
    BY DEF m
  <1> QED
    BY <1>2, <1>3, <1>4, <1>6, <1>7, Begun

LEMMA MessageKeeps ==
  ASSUME IInv, NEW m \in Message \ {Summary}, AppendMessage(m)
  PROVE  IInv'
  <1>1. /\ Idle /\ sess' = [sess EXCEPT !.active = Append(@, m), !.running = TRUE]
        /\ todo' = <<App(m)>>
        /\ UNCHANGED <<file, synced, unsure, upsets, history>>
        /\ ~Answers(m) \/ m.call \in OpenCalls(sess.active)
    BY DEF AppendMessage, Answers, User
  <1>2. sess \in Session /\ sess.active \in Seq(Message) /\ sess.open /\ ~sess.failed
        /\ todo = <<>>
    BY <1>1 DEF IInv, Typed, Session, Idle
  <1>3. Append(sess.active, m) \in Seq(Message)
    BY <1>2
  <1>4. /\ sess' \in Session /\ sess'.open /\ ~sess'.failed
        /\ sess'.active = Append(sess.active, m) /\ sess'.turns = sess.turns
        /\ sess'.completion = sess.completion /\ sess'.graph = sess.graph
    <2> HIDE DEF Message
    <2>1. sess' = [sess EXCEPT !.active = Append(sess.active, m), !.running = TRUE]
      BY <1>1
    <2> QED
      BY <2>1, <1>2, <1>3 DEF Session
  <1>5. m \in Record /\ m # TurnEnd
    BY RecordKinds
  <1>6. /\ todo' \in Seq(Step) /\ Len(todo') = 1 /\ todo'[1] = App(m)
        /\ todo'[1].do = "append" /\ todo'[1].rec = m
    <2>1. App(m) \in Step /\ App(m).do = "append" /\ App(m).rec = m
      BY <1>5 DEF App, Step
    <2> QED
      BY <2>1, <1>1
  <1>7. ASSUME ~doubtful
        PROVE  Grounded(sess'.active) /\ InStep'
    <2> DEFINE a == Remembered(accepted)
    <2>1. /\ a \in Memory /\ a.active = sess.active /\ a.turns = sess.turns
          /\ a.completion = sess.completion /\ a.graph = sess.graph
      BY <1>1, <1>7, Ready
    <2> HIDE DEF a
    <2>2. Replay(a, m) = [a EXCEPT !.active = Append(@, m)]
      BY <2>1, Quiet
    <2>3. /\ Replay(a, m).active = sess'.active /\ Replay(a, m).turns = sess'.turns
          /\ Replay(a, m).completion = sess'.completion /\ Replay(a, m).graph = sess'.graph
      BY <2>1, <2>2, <1>4 DEF Memory
    <2>4. Grounded(sess'.active)
      <3>1. Grounded(sess.active)
        BY <1>7 DEF IInv, Sound, Sane
      <3> QED
        BY <3>1, <1>1, <1>2, <1>4, AnswersAppend
    <2>5. Foreseen' = sess'.completion
      BY <1>6 DEF Foreseen
    <2>6. accepted' = accepted
      BY <1>1 DEF history
    <2>7. InStep'
      <3>1. Len(todo') >= 1 /\ \A i \in 2..Len(todo') : todo'[i].do # "append"
        BY <1>6
      <3>2. Grounded(Replay(Remembered(accepted), m).active)
        BY <2>3, <2>4 DEF a
      <3>3. /\ Replay(Remembered(accepted), m).active = sess'.active
            /\ Replay(Remembered(accepted), m).turns = sess'.turns
            /\ Replay(Remembered(accepted), m).completion = Foreseen'
            /\ Replay(Remembered(accepted), m).graph = sess'.graph
        BY <2>3, <2>5 DEF a
      <3> QED
        BY <1>1, <1>5, <1>6, <1>7, <2>6, <3>1, <3>2, <3>3, OneMore
    <2> QED
      BY <2>4, <2>7
  <1> QED
    BY <1>1, <1>4, <1>6, <1>7, Handled

LEMMA CompactionKeeps ==
  ASSUME IInv, AppendCompaction
  PROVE  IInv'
  <1> DEFINE n == Cut(sess.active)
             cut == <<Summary>> \o SubSeq(sess.active, n + 1, Len(sess.active))
  <1>1. /\ Idle /\ n > 0 /\ sess' = [sess EXCEPT !.active = cut]
        /\ todo' = <<App(Compaction(n))>>
        /\ UNCHANGED <<file, synced, unsure, upsets, history>>
    BY DEF AppendCompaction
  <1>2. sess \in Session /\ sess.active \in Seq(Message) /\ sess.open /\ ~sess.failed
        /\ todo = <<>>
    BY <1>1 DEF IInv, Typed, Session, Idle
  <1>3. n \in Nat /\ n < Len(sess.active) /\ ~Answers(sess.active[n + 1])
    BY <1>1, <1>2, CutIs
  <1>4. cut \in Seq(Message)
    <2>1. SubSeq(sess.active, n + 1, Len(sess.active)) \in Seq(Message)
      BY <1>2, <1>3
    <2>2. <<Summary>> \in Seq(Message)
      BY DEF Message
    <2> QED
      BY <2>1, <2>2
  <1> HIDE DEF n
  <1>5. /\ sess' \in Session /\ sess'.open /\ ~sess'.failed
        /\ sess'.active = cut /\ sess'.turns = sess.turns
        /\ sess'.completion = sess.completion /\ sess'.graph = sess.graph
    <2> HIDE DEF cut
    <2> QED
      BY <1>1, <1>2, <1>4 DEF Session
  <1> DEFINE m == Compaction(n)
  <1>6. m \in Record /\ m # TurnEnd
    BY <1>3, RecordKinds
  <1>7. /\ todo' \in Seq(Step) /\ Len(todo') = 1 /\ todo'[1] = App(m)
        /\ todo'[1].do = "append"
    <2> HIDE DEF m
    <2>1. App(m) \in Step /\ App(m).do = "append"
      BY <1>6 DEF App, Step
    <2> QED
      BY <2>1, <1>1 DEF m
  <1>8. ASSUME ~doubtful
        PROVE  Grounded(sess'.active) /\ InStep'
    <2> DEFINE a == Remembered(accepted)
    <2>1. /\ a \in Memory /\ a.active = sess.active /\ a.turns = sess.turns
          /\ a.completion = sess.completion /\ a.graph = sess.graph
      BY <1>1, <1>8, Ready
    <2> HIDE DEF a
    <2>2. Replay(a, m) = [a EXCEPT !.active = cut]
      <3>1. \A k \in Nat : k <= Len(a.active) =>
               Replay(a, Compaction(k)) =
                   [a EXCEPT !.active = <<Summary>> \o SubSeq(a.active, k + 1, Len(a.active))]
        BY <2>1, Quiet
      <3>2. n <= Len(a.active)
        BY <2>1, <1>2, <1>3
      <3> QED
        BY <3>1, <3>2, <2>1, <1>3
    <2> HIDE DEF m, cut
    <2>3. /\ Replay(a, m).active = sess'.active /\ Replay(a, m).turns = sess'.turns
          /\ Replay(a, m).completion = sess'.completion /\ Replay(a, m).graph = sess'.graph
      BY <2>1, <2>2, <1>5 DEF Memory
    <2>4. Grounded(sess'.active)
      <3>1. Grounded(sess.active)
        BY <1>8 DEF IInv, Sound, Sane
      <3> QED
        BY <3>1, <1>2, <1>3, <1>5, AnswersCut DEF cut
    <2>5. Foreseen' = sess'.completion
      BY <1>7 DEF Foreseen
    <2>6. accepted' = accepted
      BY <1>1 DEF history
    <2>7. InStep'
      <3>1. Len(todo') >= 1 /\ \A i \in 2..Len(todo') : todo'[i].do # "append"
        BY <1>7
      <3>2. Grounded(Replay(Remembered(accepted), m).active)
        BY <2>3, <2>4 DEF a
      <3>3. /\ Replay(Remembered(accepted), m).active = sess'.active
            /\ Replay(Remembered(accepted), m).turns = sess'.turns
            /\ Replay(Remembered(accepted), m).completion = Foreseen'
            /\ Replay(Remembered(accepted), m).graph = sess'.graph
        BY <2>3, <2>5 DEF a
      <3> QED
        BY <1>1, <1>6, <1>7, <1>8, <2>6, <3>1, <3>2, <3>3, OneMore
    <2> QED
      BY <2>4, <2>7
  <1>9. \A i \in 1..Len(todo') : todo'[i].do # "return"
    BY <1>7
  <1> QED
    BY <1>1, <1>5, <1>7, <1>8, <1>9, Handled

LEMMA GraphKeeps ==
  ASSUME IInv, NEW v \in Value, NEW durable \in BOOLEAN, AppendGoalGraph(v, durable)
  PROVE  IInv'
  <1> DEFINE m == Graph(v)
  <1>1. /\ Idle /\ sess' = [sess EXCEPT !.graph = v]
        /\ todo' = <<App(m)>> \o (IF durable THEN <<Flush(m), Return(m)>> ELSE <<>>)
        /\ UNCHANGED <<file, synced, unsure, upsets, history>>
    BY DEF AppendGoalGraph
  <1>2. sess \in Session /\ sess.open /\ ~sess.failed
    BY <1>1 DEF IInv, Typed, Idle
  <1>3. /\ sess' \in Session /\ sess'.open /\ ~sess'.failed /\ sess'.active = sess.active
        /\ sess'.turns = sess.turns /\ sess'.completion = sess.completion /\ sess'.graph = v
    BY <1>1, <1>2 DEF Session
  <1>4. m \in Record /\ m.kind # "completion"
    BY RecordKinds
  <1> HIDE DEF m
  <1>5. /\ todo' \in Seq(Step) /\ Len(todo') \in {1, 3} /\ todo'[1] = App(m)
        /\ todo'[1].do = "append"
        /\ Len(todo') = 3 => /\ todo'[2].do = "sync" /\ todo'[3].do = "return"
                             /\ todo'[3].rec = m
    <2>1. /\ App(m) \in Step /\ Flush(m) \in Step /\ Return(m) \in Step
          /\ App(m).do = "append" /\ Flush(m).do = "sync" /\ Return(m).do = "return"
          /\ Return(m).rec = m
      BY <1>4 DEF App, Flush, Return, Step
    <2>2. CASE durable
      <3>1. todo' = <<App(m), Flush(m), Return(m)>>
        BY <1>1, <2>2, Tuples
      <3> QED
        BY <2>1, <3>1
    <2>3. CASE ~durable
      <3>1. todo' = <<App(m)>>
        BY <1>1, <2>3
      <3> QED
        BY <2>1, <3>1
    <2> QED
      BY <2>2, <2>3
  <1>6. ASSUME ~doubtful
        PROVE  Grounded(sess'.active) /\ InStep'
    <2> DEFINE a == Remembered(accepted)
    <2>1. /\ a \in Memory /\ a.active = sess.active /\ a.turns = sess.turns
          /\ a.completion = sess.completion /\ a.graph = sess.graph
      BY <1>1, <1>6, Ready
    <2> HIDE DEF a
    <2>2. Replay(a, m) = [a EXCEPT !.graph = v]
      BY <2>1, Quiet DEF m
    <2>3. /\ Replay(a, m).active = sess'.active /\ Replay(a, m).turns = sess'.turns
          /\ Replay(a, m).completion = sess'.completion /\ Replay(a, m).graph = sess'.graph
      BY <2>1, <2>2, <1>3 DEF Memory
    <2>4. Grounded(sess'.active)
      BY <1>3, <1>6 DEF IInv, Sound, Sane
    <2>5. Foreseen' = sess'.completion
      BY <1>4, <1>5 DEF Foreseen
    <2>6. accepted' = accepted
      BY <1>1 DEF history
    <2>7. InStep'
      <3>1. Len(todo') >= 1 /\ \A i \in 2..Len(todo') : todo'[i].do # "append"
        BY <1>5
      <3>2. Grounded(Replay(Remembered(accepted), m).active)
        BY <2>3, <2>4 DEF a
      <3>3. /\ Replay(Remembered(accepted), m).active = sess'.active
            /\ Replay(Remembered(accepted), m).turns = sess'.turns
            /\ Replay(Remembered(accepted), m).completion = Foreseen'
            /\ Replay(Remembered(accepted), m).graph = sess'.graph
        BY <2>3, <2>5 DEF a
      <3> QED
        BY <1>1, <1>4, <1>5, <1>6, <2>6, <3>1, <3>2, <3>3, OneMore
    <2> QED
      BY <2>4, <2>7
  <1>7. \A i \in 1..Len(todo') : todo'[i].do = "return" =>
             i = Len(todo') /\ i # 1 /\ todo'[i - 1].do = "sync"
    <2>1. CASE Len(todo') = 1
      BY <1>5, <2>1
    <2>2. CASE Len(todo') = 3
      <3>1. 1..Len(todo') = {1, 2, 3} /\ 3 - 1 = 2
        BY <2>2
      <3> QED
        BY <1>5, <2>2, <3>1
    <2> QED
      BY <1>5, <2>1, <2>2
  <1> QED
    BY <1>1, <1>3, <1>5, <1>6, <1>7, Handled

LEMMA CompletionKeeps ==
  ASSUME IInv, NEW v \in Value, SaveCompletion(v)
  PROVE  IInv'
  <1> DEFINE m == Completion(v)
  <1>1. /\ Idle
        /\ todo' = (IF sess.completion = v THEN <<>> ELSE <<App(m)>>) \o <<Flush(m), Return(m)>>
        /\ UNCHANGED <<file, synced, unsure, sess, upsets, history>>
    BY DEF SaveCompletion
  <1>2. sess \in Session /\ sess.open /\ ~sess.failed /\ accepted \in Seq(Record)
    BY <1>1 DEF IInv, Typed, Idle
  <1>3. m \in Record /\ m.kind = "completion" /\ m.value = v
    BY RecordKinds
  <1> HIDE DEF m
  <1>4. /\ App(m) \in Step /\ Flush(m) \in Step /\ Return(m) \in Step
        /\ App(m).do = "append" /\ Flush(m).do = "sync" /\ Return(m).do = "return"
        /\ Return(m).rec = m
    BY <1>3 DEF App, Flush, Return, Step
  <1>5. accepted' = accepted
    BY <1>1 DEF history
  <1> DEFINE a == Remembered(accepted)
  <1>6. ~doubtful => /\ a \in Memory /\ a.active = sess.active /\ a.turns = sess.turns
                     /\ a.completion = sess.completion /\ a.graph = sess.graph
                     /\ Healthy(accepted)
    BY <1>1, Ready
  <1>7. ~doubtful => Grounded(sess'.active)
    BY <1>1 DEF IInv, Sound, Sane
  <1> HIDE DEF a
  <1>8. CASE sess.completion = v
    <2>1. todo' = <<Flush(m), Return(m)>>
      <3>1. <<Flush(m), Return(m)>> \in Seq(Step)
        BY <1>4
      <3>2. todo' = <<>> \o <<Flush(m), Return(m)>>
        BY <1>1, <1>8
      <3> QED
        BY <3>1, <3>2
    <2>2. /\ todo' \in Seq(Step) /\ Len(todo') = 2 /\ todo'[1].do = "sync"
          /\ todo'[2].do = "return" /\ todo'[2].rec = m
      BY <2>1, <1>4
    <2>3. Foreseen' = v
      BY <2>2, <1>3 DEF Foreseen
    <2>4. \A i \in 1..Len(todo') : i = 1 \/ i = 2
      BY <2>2
    <2>5. \A i \in 1..Len(todo') : todo'[i].do # "append"
      BY <2>2, <2>4
    <2>6. ~doubtful => InStep'
      BY <1>1, <1>2, <1>5, <1>6, <1>8, <2>2, <2>3, <2>5, BegunNothing DEF a
    <2>7. \A i \in 1..Len(todo') : todo'[i].do = "return" =>
              i = Len(todo') /\ i # 1 /\ todo'[i - 1].do = "sync"
      BY <2>2, <2>4
    <2> QED
      BY <1>1, <1>2, <1>7, <2>2, <2>6, <2>7, Handled
  <1>9. CASE sess.completion # v
    <2>1. todo' = <<App(m), Flush(m), Return(m)>>
      BY <1>1, <1>9, Tuples
    <2>2. /\ todo' \in Seq(Step) /\ Len(todo') = 3 /\ todo'[1] = App(m)
          /\ todo'[1].do = "append" /\ todo'[2].do = "sync"
          /\ todo'[3].do = "return" /\ todo'[3].rec = m
      BY <2>1, <1>4
    <2>3. Foreseen' = v
      BY <2>2, <1>3 DEF Foreseen
    <2>4. \A i \in 1..Len(todo') : i = 1 \/ i = 2 \/ i = 3
      BY <2>2
    <2>5. \A i \in 2..Len(todo') : todo'[i].do # "append"
      BY <2>2, <2>4
    <2>6. ASSUME ~doubtful
          PROVE  InStep'
      <3>1. Replay(a, m) = [a EXCEPT !.completion = v]
        BY <1>6, <2>6, Quiet DEF m
      <3>2. /\ Replay(a, m).active = sess'.active /\ Replay(a, m).turns = sess'.turns
            /\ Replay(a, m).completion = Foreseen' /\ Replay(a, m).graph = sess'.graph
        BY <1>1, <1>6, <2>3, <2>6, <3>1 DEF Memory
      <3>3. /\ Replay(Remembered(accepted), m).active = sess'.active
            /\ Replay(Remembered(accepted), m).turns = sess'.turns
            /\ Replay(Remembered(accepted), m).completion = Foreseen'
            /\ Replay(Remembered(accepted), m).graph = sess'.graph
            /\ Grounded(Replay(Remembered(accepted), m).active)
        BY <1>7, <2>6, <3>2 DEF a
      <3>4. Len(todo') >= 1
        BY <2>2
      <3> QED
        BY <1>1, <1>3, <1>5, <2>2, <2>5, <2>6, <3>3, <3>4, OneMore
    <2>7. \A i \in 1..Len(todo') : todo'[i].do = "return" =>
              i = Len(todo') /\ i # 1 /\ todo'[i - 1].do = "sync"
      <3>1. 3 - 1 = 2
        OBVIOUS
      <3> QED
        BY <2>2, <2>4, <3>1
    <2> QED
      BY <1>1, <1>2, <1>7, <2>2, <2>6, <2>7, Handled
  <1> QED
    BY <1>8, <1>9

LEMMA TurnEndKeeps ==
  ASSUME IInv, AppendTurnEnd
  PROVE  IInv'
  <1> DEFINE t == sess.turns + 1
             m == Meta(t)
             e == TurnEnd
  <1>1. /\ Idle /\ sess' = [sess EXCEPT !.turns = @ + 1, !.running = FALSE]
        /\ todo' = <<App(Meta(sess'.turns)), App(e), Flush(e), Return(e)>>
        /\ UNCHANGED <<file, synced, unsure, upsets, history>>
    BY DEF AppendTurnEnd
  <1>2. sess \in Session /\ sess.open /\ ~sess.failed /\ accepted \in Seq(Record)
        /\ t \in Nat
    BY <1>1 DEF IInv, Typed, Idle, Session
  <1>3. /\ sess' \in Session /\ sess'.open /\ ~sess'.failed /\ sess'.active = sess.active
        /\ sess'.turns = t /\ sess'.completion = sess.completion /\ sess'.graph = sess.graph
    BY <1>1, <1>2 DEF Session
  <1>4. m \in Record /\ m # e /\ e \in Record /\ e.kind # "completion"
    BY <1>2, RecordKinds
  <1>5. todo' = <<App(m), App(e), Flush(e), Return(e)>>
    BY <1>1, <1>3
  <1> HIDE DEF m, e, t
  <1>6. /\ todo' \in Seq(Step) /\ Len(todo') = 4
        /\ todo'[1].do = "append" /\ todo'[1].rec = m
        /\ todo'[2].do = "append" /\ todo'[2].rec = e
        /\ todo'[3].do = "sync"
        /\ todo'[4].do = "return" /\ todo'[4].rec = e
    <2>1. /\ App(m) \in Step /\ App(e) \in Step /\ Flush(e) \in Step /\ Return(e) \in Step
          /\ App(m).do = "append" /\ App(e).do = "append"
          /\ Flush(e).do = "sync" /\ Return(e).do = "return"
          /\ App(m).rec = m /\ App(e).rec = e /\ Return(e).rec = e
      BY <1>4 DEF App, Flush, Return, Step
    <2> QED
      BY <2>1, <1>5
  <1>7. \A i \in 1..Len(todo') : i = 1 \/ i = 2 \/ i = 3 \/ i = 4
    BY <1>6
  <1>8. Foreseen' = sess'.completion
    BY <1>4, <1>6 DEF Foreseen
  <1>9. ASSUME ~doubtful
        PROVE  Grounded(sess'.active) /\ InStep'
    <2> DEFINE a == Remembered(accepted)
    <2>1. /\ a \in Memory /\ a.active = sess.active /\ a.turns = sess.turns
          /\ a.completion = sess.completion /\ a.graph = sess.graph /\ Healthy(accepted)
      BY <1>1, <1>9, Ready
    <2>2. Grounded(sess.active)
      BY <1>9 DEF IInv, Sound, Sane
    <2> DEFINE b == Append(accepted, m)
               c == Append(b, e)
               d == <<m, e>>
    <2>3. b \in Seq(Record) /\ c \in Seq(Record)
      BY <1>2, <1>4
    <2>4. Remembered(b) = [a EXCEPT !.turns = t]
      <3>1. Remembered(b) = Replay(a, m)
        BY <1>2, <1>4, RememberedAppend
      <3>2. Replay(a, m) = [a EXCEPT !.turns = t]
        BY <1>2, <2>1, Quiet DEF m
      <3> QED
        BY <3>1, <3>2
    <2>5. Remembered(c) = [a EXCEPT !.turns = t]
      <3>1. Remembered(c) = Replay(Remembered(b), e)
        BY <1>4, <2>3, RememberedAppend
      <3>2. [a EXCEPT !.turns = t] \in Memory
        BY <1>2, <2>1 DEF Memory
      <3>3. Replay([a EXCEPT !.turns = t], e) = [a EXCEPT !.turns = t]
        BY <3>2, Quiet DEF e
      <3> QED
        BY <3>1, <3>3, <2>4
    <2>6. Healthy(c)
      <3>1. [a EXCEPT !.turns = t].active = sess.active
        BY <2>1 DEF Memory
      <3> HIDE DEF a
      <3>2. Healthy(b)
        BY <1>2, <1>4, <2>1, <2>2, <2>4, <3>1, HealthyAppend
      <3> HIDE DEF b
      <3> QED
        BY <1>4, <2>3, <2>2, <2>5, <3>1, <3>2, HealthyAppend
    <2>7. d \in Seq(Record) /\ Len(d) = 2 /\ d[1] = m /\ d[2] = e
      BY <1>4
    <2>8. accepted \o d = c
      <3>1. <<m>> \in Seq(Record) /\ <<e>> \in Seq(Record)
        BY <1>4
      <3>2. d = <<m>> \o <<e>>
        BY Pairs
      <3>3. accepted \o (<<m>> \o <<e>>) = (accepted \o <<m>>) \o <<e>>
        BY <3>1, <1>2, ConcatAssociative
      <3>4. accepted \o <<m>> = b
        BY <1>2, <1>4
      <3> HIDE DEF b
      <3>5. b \o <<e>> = c
        BY <2>3, <1>4
      <3> QED
        BY <3>2, <3>3, <3>4, <3>5
    <2>9. accepted' = accepted
      BY <1>1 DEF history
    <2> DEFINE r == Remembered(accepted' \o d)
    <2>10. r.active = sess'.active /\ r.turns = sess'.turns /\ r.graph = sess'.graph
           /\ r.completion = Foreseen'
      <3> HIDE DEF a, c, d
      <3>1. r = [a EXCEPT !.turns = t]
        BY <2>5, <2>8, <2>9
      <3> QED
        BY <3>1, <2>1, <1>3, <1>8 DEF Memory
    <2> HIDE DEF d, r, a, b, c
    <2>11. /\ Len(d) <= Len(todo')
           /\ \A i \in 1..Len(todo') : todo'[i].do = "append" <=> i <= Len(d)
           /\ \A i \in 1..Len(d) : todo'[i].rec = d[i] /\ (d[i] = TurnEnd => i = Len(d))
      <3>1. \A i \in 1..Len(d) : i = 1 \/ i = 2
        BY <2>7
      <3> QED
        BY <3>1, <2>7, <1>4, <1>6, <1>7 DEF e
    <2>12. Healthy(accepted' \o d)
      BY <2>6, <2>8, <2>9
    <2>13. InStep'
      BY <1>6, <2>7, <2>10, <2>11, <2>12, Begun DEF r
    <2> QED
      BY <1>3, <2>2, <2>13
  <1>10. \A i \in 1..Len(todo') : todo'[i].do = "return" =>
             i = Len(todo') /\ i # 1 /\ todo'[i - 1].do = "sync"
    <2>1. 4 - 1 = 3
      OBVIOUS
    <2> QED
      BY <2>1, <1>6, <1>7
  <1> QED
    BY <1>1, <1>3, <1>6, <1>9, <1>10, Handled

LEMMA CloseKeeps ==
  ASSUME IInv, Close
  PROVE  IInv'
  <1>1. /\ sess.open /\ todo = <<>> /\ todo' = <<>> /\ sess' = Closed
        /\ synced' = IF sess.failed THEN synced ELSE Len(file.lines)
        /\ UNCHANGED <<file, unsure, upsets, accepted, mark, kept, doubtful, atTurn>>
    BY DEF Close, history
  <1>2. /\ file.lines \in Seq(Record \cup {Garbage}) /\ accepted \in Seq(Record)
        /\ synced \in Nat /\ kept \in Nat
    BY DEF IInv, Typed
  <1>3. /\ Closed \in Session /\ ~Closed.open /\ Closed.active = <<>>
        /\ Grounded(Closed.active)
    BY ClosedTyped
  <1>4. Typed'
    BY <1>1, <1>2, <1>3 DEF IInv, Typed
  <1>5. Ordered'
    BY <1>1, <1>3 DEF Ordered
  <1>6. ASSUME ~doubtful
        PROVE  Durable'
    <2>1. kept <= synced /\ kept <= Len(accepted) /\ Len(accepted) <= Len(file.lines)
      BY <1>2, <1>6 DEF IInv, Sound, Durable, Appended
    <2> QED
      BY <2>1, <1>1, <1>2, <1>6 DEF IInv, Sound, Durable
  <1>7. InStep'
    BY <1>1, <1>3 DEF InStep
  <1> QED
    BY <1>1, <1>3, <1>4, <1>5, <1>6, <1>7, Undisturbed

LEMMA EventKeeps ==
  ASSUME IInv, AppendEvent
  PROVE  IInv'
  <1> DEFINE r == Event
  <1>1. /\ sess.open /\ ~sess.failed /\ file' = Written(file, r) /\ accepted' = Append(accepted, r)
        /\ UNCHANGED <<synced, unsure, sess, todo, mark, kept, doubtful, atTurn>>
    BY DEF AppendEvent
  <1>2. /\ file \in [lines : Seq(Record \cup {Garbage}), ended : BOOLEAN]
        /\ accepted \in Seq(Record) /\ sess \in Session /\ todo \in Seq(Step)
        /\ atTurn \in Seq(Seq(Message)) /\ mark \in Nat /\ kept \in Nat
    BY DEF IInv, Typed
  <1>3. r \in Record /\ r # TurnEnd
    BY RecordKinds
  <1> HIDE DEF r
  <1>4. accepted' \in Seq(Record) /\ Len(accepted') = Len(accepted) + 1
    BY <1>1, <1>2, <1>3
  <1>5. /\ file' \in [lines : Seq(Record \cup {Garbage}), ended : BOOLEAN]
        /\ file'.ended
    BY <1>1, <1>2, <1>3, Written1
  <1>6. Typed'
    BY <1>1, <1>4, <1>5 DEF IInv, Typed
  <1>7. Ordered'
    BY <1>1 DEF IInv, Ordered
  <1> SUFFICES ASSUME ~doubtful
               PROVE  Sound'
    BY <1>1, <1>6, <1>7 DEF IInv
  <1>8. file.ended /\ unsure = {} /\ accepted # <<>> /\ Appended /\ TurnsKept /\ Durable /\ Sane
    BY <1>1 DEF IInv, Sound, Appended
  <1>9. Appended'
    BY <1>1, <1>3, <1>8, LogAppended DEF IInv
  <1>10. Durable'
    BY <1>1, <1>2, <1>4, <1>8 DEF Durable
  <1>11. Remembered(accepted') = Remembered(accepted)
    <2>1. accepted \in Seq(Record \cup {Garbage})
      BY <1>2
    <2>2. Remembered(accepted) \in Memory
      BY <2>1, RememberedTyped
    <2>3. Remembered(accepted') = Replay(Remembered(accepted), r)
      BY <1>1, <1>2, <1>3, RememberedAppend
    <2> QED
      BY <2>2, <2>3, Quiet DEF r
  <1>12. Sane'
    <2>1. Grounded(Remembered(accepted).active)
      BY <1>2, <1>8, HealthyReads DEF Sane
    <2>2. Healthy(accepted')
      BY <1>1, <1>2, <1>3, <1>8, <1>11, <2>1, HealthyAppend DEF Sane
    <2> QED
      BY <2>2, <1>1, <1>5, <1>8 DEF Sane
  <1>13. InStep'
    <2>1. PICK p \in 0..Len(todo) :
            Appending(p) /\ Healthy(accepted \o Due(p)) /\ Mirrors(Remembered(accepted \o Due(p)))
      BY <1>1 DEF IInv, Sound, InStep
    <2> DEFINE d == Due(p)
    <2>2. d \in Seq(Record)
      <3>1. \A i \in 1..Len(todo) : todo[i] \in Step
        BY <1>2
      <3>2. \A i \in 1..p : i \in 1..Len(todo)
        BY <2>1, <1>2
      <3>3. d \in [1..p -> Record]
        BY <3>1, <3>2 DEF Due, Step
      <3> HIDE DEF d
      <3> QED
        BY <3>3, <2>1
    <2>3. d' = d /\ Appending(p)' /\ Foreseen' = Foreseen
      BY <1>1, <2>1 DEF Due, Appending, Foreseen
    <2>4. Healthy(accepted' \o d)
      BY <1>1, <1>2, <1>3, <1>11, <2>1, <2>2, HealthyQuiet
    <2>5. Remembered(accepted' \o d) = Remembered(accepted \o d)
      BY <1>2, <1>4, <1>11, <2>2, RememberedAfter
    <2>6. Due(p)' = d
      BY <2>3
    <2>7. Healthy(accepted \o Due(p))'
      BY <2>4, <2>6 DEF Healthy
    <2>8. Mirrors(Remembered(accepted \o Due(p)))'
      <3> DEFINE m == Remembered(accepted' \o d)
      <3>1. m.active = sess.active /\ m.turns = sess.turns /\ m.completion = Foreseen
            /\ m.graph = sess.graph
        BY <2>1, <2>5 DEF Mirrors
      <3>2. Remembered(accepted \o Due(p))' = m
        BY <2>6
      <3> HIDE DEF m
      <3> QED
        BY <3>1, <3>2, <1>1, <2>3 DEF Mirrors
    <2> QED
      BY <1>1, <2>1, <2>3, <2>7, <2>8 DEF InStep
  <1>14. TurnsKept'
    <2>1. <<>> \in Seq(Message)
      OBVIOUS
    <2> QED
      BY <2>1, <1>1, <1>2, <1>3, <1>8, TurnsAppended
  <1> QED
    BY <1>9, <1>10, <1>12, <1>13, <1>14 DEF Sound

LEMMA StopKeeps ==
  ASSUME IInv, Stop
  PROVE  IInv'
  <1> DEFINE r == todo[1].rec
             writing == todo # <<>> /\ Head(todo).do = "append" /\ ~sess.failed
  <1>1. /\ sess.open /\ sess' = Closed /\ todo' = <<>>
        /\ file' = file \/ (writing /\ file' \in Partial(file, Head(todo).rec))
        /\ UNCHANGED <<synced, unsure, accepted, mark, kept, doubtful, atTurn>>
    BY DEF Stop, history
  <1>2. file \in [lines : Seq(Record \cup {Garbage}), ended : BOOLEAN] /\ accepted \in Seq(Record)
        /\ todo \in Seq(Step)
    BY DEF IInv, Typed
  <1>3. /\ Closed \in Session /\ ~Closed.open /\ Closed.active = <<>>
        /\ Grounded(Closed.active)
    BY ClosedTyped
  <1>4. Ordered'
    BY <1>1, <1>3 DEF Ordered
  <1>5. CASE file' = file
    <2>1. Typed'
      BY <1>1, <1>3, <1>5 DEF IInv, Typed
    <2>2. ASSUME ~doubtful
          PROVE  Durable' /\ Grounded(sess'.active) /\ InStep'
      BY <1>1, <1>3, <2>2 DEF IInv, Sound, Durable, InStep
    <2> QED
      BY <1>1, <1>3, <1>4, <1>5, <2>1, <2>2, Undisturbed
  <1>6. CASE writing /\ file' \in Partial(file, Head(todo).rec)
    <2>1. /\ todo # <<>> /\ ~sess.failed /\ Head(todo) = todo[1] /\ todo[1].do = "append"
          /\ r \in Record /\ file' \in Partial(file, r)
      BY <1>2, <1>6, TailIs
    <2> HIDE DEF r, writing
    <2>2. /\ file' \in [lines : Seq(Record \cup {Garbage}), ended : BOOLEAN]
          /\ file.ended => \/ file' = file
                           \/ /\ ~file'.ended
                              /\ \E l \in {r, Garbage} : file'.lines = Append(file.lines, l)
      BY <1>2, <2>1, Partial1
    <2>3. Typed'
      BY <1>1, <1>3, <2>2 DEF IInv, Typed
    <2> SUFFICES ASSUME ~doubtful
                 PROVE  Sound'
      BY <1>1, <1>4, <2>3 DEF IInv
    <2>4. file.ended /\ unsure = {} /\ accepted # <<>> /\ Appended /\ TurnsKept /\ Durable /\ Sane
      BY <1>1, <2>1 DEF IInv, Sound, Appended
    <2>5. Appended' /\ (~file'.ended /\ file'.lines[Len(file'.lines)] # Garbage =>
                            file'.lines[Len(file'.lines)] = r)
      BY <1>1, <1>3, <2>1, <2>2, <2>4, LogTorn DEF IInv
    <2>6. Sane'
      <3>1. Healthy(Append(accepted, r))
        BY <2>1, FirstDue DEF r
      <3> QED
        BY <3>1, <1>1, <1>3, <2>4, <2>5 DEF Sane
    <2> QED
      BY <1>1, <1>3, <2>4, <2>5, <2>6 DEF Sound, Durable, InStep, TurnsKept
  <1> QED
    BY <1>1, <1>5, <1>6

LEMMA AmendKeeps ==
  ASSUME IInv, Amended, unsure' \in {unsure, {}}
  PROVE  IInv'
  <1> DEFINE n == Remembered(Records(file)).turns
             r == Meta(n)
  <1>1. /\ ~sess.open /\ Loads(file) /\ doubtful' = (doubtful \/ ~file.ended \/ unsure # {})
        /\ file' = Written(file, r) /\ accepted' = Append(accepted, r)
        /\ synced' = Len(file'.lines)
        /\ UNCHANGED <<sess, todo, mark, kept, atTurn>>
    BY DEF Amended, Reopened
  <1>2. /\ file \in [lines : Seq(Record \cup {Garbage}), ended : BOOLEAN]
        /\ accepted \in Seq(Record) /\ mark \in Nat /\ kept \in Nat
        /\ atTurn \in Seq(Seq(Message)) /\ doubtful \in BOOLEAN
    BY DEF IInv, Typed
  <1>3. n \in Nat
    <2>1. Records(file) \in Seq(Record)
      BY <1>2, RecordsTyped
    <2>2. Records(file) \in Seq(Record \cup {Garbage})
      BY <2>1
    <2> QED
      BY <2>2, RememberedTyped DEF Memory
  <1> HIDE DEF n
  <1>4. r \in Record /\ r # TurnEnd
    BY <1>3, RecordKinds
  <1> HIDE DEF r
  <1>5. /\ file' \in [lines : Seq(Record \cup {Garbage}), ended : BOOLEAN]
        /\ file'.ended /\ (file.ended => file'.lines = Append(file.lines, r))
    BY <1>1, <1>2, <1>4, Written1
  <1>6. accepted' \in Seq(Record) /\ Len(accepted') = Len(accepted) + 1
    BY <1>1, <1>2, <1>4
  <1>7. Typed'
    <2>1. synced' \in Nat
      BY <1>1, <1>5
    <2> QED
      BY <2>1, <1>1, <1>2, <1>5, <1>6 DEF IInv, Typed
  <1>8. todo = <<>>
    BY <1>1 DEF IInv, Ordered
  <1>9. Ordered'
    BY <1>1, <1>8 DEF IInv, Ordered
  <1> SUFFICES ASSUME ~doubtful'
               PROVE  Sound'
    BY <1>7, <1>9 DEF IInv
  <1>10. ~doubtful /\ file.ended /\ unsure = {} /\ unsure' = {}
    BY <1>1
  <1>11. Appended /\ TurnsKept /\ Durable /\ Sane
    BY <1>10 DEF IInv, Sound
  <1>12. accepted # <<>> /\ Len(file.lines) = Len(accepted)
    <2>1. Len(file.lines) = Len(accepted)
      BY <1>2, <1>10, <1>11 DEF Appended
    <2>2. file.lines # <<>>
      <3>1. PICK i \in DOMAIN file.lines : file.lines[i].kind = "meta"
        BY <1>1 DEF Loads
      <3>2. i \in 1..Len(file.lines)
        BY <1>2, <3>1
      <3> QED
        BY <3>2
    <2>3. Len(file.lines) # 0
      BY <1>2, <2>2
    <2> QED
      BY <2>1, <2>3
  <1>13. Appended'
    BY <1>1, <1>4, <1>10, <1>11, <1>12, LogAppended DEF IInv
  <1>14. Durable'
    <2>1. Len(file'.lines) = Len(accepted) + 1
      BY <1>5, <1>6, <1>13 DEF Appended
    <2> QED
      BY <2>1, <1>1, <1>2, <1>6, <1>10, <1>11 DEF Durable
  <1>15. Sane'
    <2>1. Remembered(accepted').active = Remembered(accepted).active
      <3>1. accepted \in Seq(Record \cup {Garbage})
        BY <1>2
      <3>2. Remembered(accepted) \in Memory
        BY <3>1, RememberedTyped
      <3>3. Remembered(accepted') = Replay(Remembered(accepted), r)
        BY <1>1, <1>2, <1>4, RememberedAppend
      <3>4. Replay(Remembered(accepted), r) = [Remembered(accepted) EXCEPT !.turns = n]
        BY <1>3, <3>2, Quiet DEF r
      <3> QED
        BY <3>2, <3>3, <3>4 DEF Memory
    <2>2. Grounded(Remembered(accepted).active)
      BY <1>2, <1>11, HealthyReads DEF Sane
    <2>3. Healthy(accepted')
      BY <1>1, <1>2, <1>4, <1>11, <2>1, <2>2, HealthyAppend DEF Sane
    <2> QED
      BY <2>3, <1>1, <1>5, <1>11 DEF Sane
  <1>16. InStep'
    BY <1>1 DEF InStep
  <1>17. TurnsKept'
    <2>1. <<>> \in Seq(Message)
      OBVIOUS
    <2> QED
      BY <2>1, <1>1, <1>2, <1>4, <1>11, TurnsAppended
  <1> QED
    BY <1>13, <1>14, <1>15, <1>16, <1>17 DEF Sound

LEMMA ResumeKeeps ==
  ASSUME IInv, Resume
  PROVE  IInv'
  <1> DEFINE m == Remembered(Records(file))
             notes == Interrupted(m.active)
             x == m.active \o notes
             w == [m EXCEPT !.active = x]
  <1>1. /\ ~sess.open /\ Loads(file) /\ doubtful' = (doubtful \/ ~file.ended \/ unsure # {})
        /\ sess' = Opened(w) /\ todo' = [i \in DOMAIN notes |-> App(notes[i])]
        /\ UNCHANGED <<file, synced, unsure, accepted, mark, kept, atTurn>>
    BY DEF Resume, Reopened
  <1>2. /\ file \in [lines : Seq(Record \cup {Garbage}), ended : BOOLEAN]
        /\ accepted \in Seq(Record) /\ doubtful \in BOOLEAN
    BY DEF IInv, Typed
  <1>3. m \in Memory /\ m.active \in Seq(Message)
    <2>1. Records(file) \in Seq(Record)
      BY <1>2, RecordsTyped
    <2>2. Records(file) \in Seq(Record \cup {Garbage})
      BY <2>1
    <2> QED
      BY <2>2, RememberedTyped DEF Memory
  <1> HIDE DEF m
  <1>4. /\ notes \in Seq(Message)
        /\ \A i \in 1..Len(notes) : notes[i].kind = "note"
    BY <1>3, InterruptedNotes
  <1> HIDE DEF notes
  <1>5. x \in Seq(Message)
    BY <1>3, <1>4
  <1> HIDE DEF x
  <1>6. w \in Memory /\ w.active = x /\ w.turns = m.turns /\ w.completion = m.completion
        /\ w.graph = m.graph
    BY <1>3, <1>5 DEF Memory
  <1> HIDE DEF w
  <1>7. /\ sess' \in Session /\ sess'.open /\ ~sess'.failed /\ sess'.active = x
        /\ sess'.turns = m.turns /\ sess'.completion = m.completion /\ sess'.graph = m.graph
    <2>1. TRUE \in BOOLEAN
      OBVIOUS
    <2> QED
      BY <2>1, <1>1, <1>6, HoldingTyped DEF Opened
  <1>8. /\ todo' \in Seq(Step) /\ Len(todo') = Len(notes)
        /\ \A i \in 1..Len(notes) :
              /\ todo'[i].do = "append" /\ todo'[i].rec = notes[i] /\ notes[i] # TurnEnd
    <2>1. ASSUME NEW i \in 1..Len(notes)
          PROVE  /\ App(notes[i]) \in Step /\ App(notes[i]).do = "append"
                 /\ App(notes[i]).rec = notes[i] /\ notes[i] # TurnEnd
      <3>1. notes[i] \in Message \ {Summary}
        BY <1>4 DEF Summary
      <3>2. notes[i] \in Record /\ notes[i] # TurnEnd
        BY <3>1, RecordKinds
      <3> QED
        BY <3>2 DEF App, Step
    <2>2. DOMAIN notes = 1..Len(notes) /\ Len(notes) \in Nat
      BY <1>4
    <2>3. todo' \in [1..Len(notes) -> Step]
      BY <2>1, <2>2, <1>1
    <2> QED
      BY <2>1, <2>2, <2>3, <1>1
  <1>9. Typed'
    BY <1>1, <1>2, <1>7, <1>8 DEF IInv, Typed
  <1>10. Ordered'
    BY <1>7, <1>8 DEF Ordered
  <1> SUFFICES ASSUME ~doubtful'
               PROVE  Sound'
    BY <1>9, <1>10 DEF IInv
  <1>11. ~doubtful /\ file.ended /\ unsure = {}
    BY <1>1
  <1>12. Typed /\ Appended /\ TurnsKept /\ Durable /\ Sane
    BY <1>11 DEF IInv, Sound
  <1>13. Records(file) = accepted
    BY <1>1, <1>11, <1>12, LogRead DEF Loads
  <1>14. accepted # <<>>
    <2>1. PICK i \in DOMAIN file.lines : file.lines[i].kind = "meta"
      BY <1>1 DEF Loads
    <2>2. Len(file.lines) = Len(accepted)
      BY <1>2, <1>11, <1>12 DEF Appended
    <2>3. Len(accepted) # 0
      BY <1>2, <2>1, <2>2
    <2> QED
      BY <2>3
  <1>15. Appended'
    BY <1>1, <1>11, <1>12, <1>14 DEF Appended
  <1>16. /\ notes \in Seq(Message \ {Summary}) /\ Healthy(accepted \o notes) /\ Grounded(x)
    BY <1>2, <1>12, <1>13, HealthyNotes DEF Sane, notes, x, m
  <1>17. Sane'
    BY <1>1, <1>7, <1>11, <1>12, <1>16 DEF Sane
  <1>18. InStep'
    <2>1. notes \in Seq(Record)
      BY <1>16 DEF Record
    <2>2. Remembered(accepted \o notes) = w
      <3>1. Remembered(accepted \o notes)
               = [Remembered(accepted) EXCEPT !.active = @ \o notes]
        BY <1>2, <1>16, RememberedMessages
      <3> QED
        BY <3>1, <1>13 DEF w, x, m
    <2>3. Foreseen' = sess'.completion
      BY <1>8 DEF Foreseen
    <2>4. /\ Len(notes) <= Len(todo')
          /\ \A i \in 1..Len(todo') : todo'[i].do = "append" <=> i <= Len(notes)
          /\ \A i \in 1..Len(notes) :
                todo'[i].rec = notes[i] /\ (notes[i] = TurnEnd => i = Len(notes))
      BY <1>4, <1>8
    <2>5. Healthy(accepted' \o notes) /\ w = Remembered(accepted' \o notes)
      BY <1>1, <1>16, <2>2
    <2> QED
      BY <1>6, <1>7, <1>8, <2>1, <2>3, <2>4, <2>5, Begun
  <1> QED
    BY <1>1, <1>12, <1>15, <1>17, <1>18 DEF Sound, Durable, TurnsKept

LEMMA Beginning ==
  ASSUME NEW T, NEW s \in Seq(T), NEW n \in Nat, n <= Len(s)
  PROVE  /\ SubSeq(s, 1, n) \in Seq(T) /\ Len(SubSeq(s, 1, n)) = n
         /\ \A i \in 1..n : SubSeq(s, 1, n)[i] = s[i]
  OBVIOUS

LEMMA PowerLossKeeps ==
  ASSUME IInv, PowerLoss
  PROVE  IInv'
  <1> DEFINE L == Record \cup {Garbage}
             ls == file.lines
             left(n) == [i \in 1..n |-> IF i \in unsure THEN Garbage ELSE ls[i]]
             whole(n) == [lines |-> left(n), ended |-> n < Len(ls) \/ file.ended]
  <1>1. PICK n \in synced..Len(ls) :
            /\ \/ file' = whole(n)
               \/ n < Len(ls) /\ file' \in Partial(whole(n), Garbage)
            /\ synced' = n
            /\ accepted' = SubSeq(accepted, 1, Min({n, Len(accepted)}))
            /\ mark' = Min({mark, n})
    BY DEF PowerLoss
  <1>2. /\ atTurn' = SubSeq(atTurn, 1, Min({TurnEnds(accepted'), Len(atTurn)}))
        /\ sess' = Closed /\ todo' = <<>>
        /\ UNCHANGED <<unsure, kept, doubtful>>
    BY DEF PowerLoss
  <1>3. /\ file \in [lines : Seq(L), ended : BOOLEAN] /\ ls \in Seq(L) /\ file.ended \in BOOLEAN
        /\ accepted \in Seq(Record) /\ Len(accepted) \in Nat /\ Len(ls) \in Nat
        /\ synced \in Nat /\ mark \in Nat /\ kept \in Nat /\ unsure \in SUBSET Nat
        /\ atTurn \in Seq(Seq(Message)) /\ Len(atTurn) \in Nat
    BY DEF IInv, Typed
  <1>4. n \in Nat /\ n <= Len(ls) /\ synced <= n
    BY <1>1, <1>3
  <1> DEFINE q == Min({n, Len(accepted)})
             t == Min({TurnEnds(accepted'), Len(atTurn)})
  <1>5. ASSUME NEW i \in Nat, NEW j \in Nat
        PROVE  /\ Min({i, j}) \in Nat /\ Min({i, j}) <= i /\ Min({i, j}) <= j
               /\ Min({i, j}) = i \/ Min({i, j}) = j
    <2>1. {i, j} \subseteq Nat /\ {i, j} # {}
      OBVIOUS
    <2>2. Min({i, j}) \in {i, j} /\ \A y \in {i, j} : Min({i, j}) <= y
      BY <2>1, MinIs
    <2> QED
      BY <2>2
  <1>6. q \in Nat /\ q <= n /\ q <= Len(accepted) /\ (q = n \/ q = Len(accepted))
    BY <1>3, <1>4, <1>5
  <1>7. mark' \in Nat /\ mark' <= mark /\ mark' <= n
    BY <1>1, <1>3, <1>4, <1>5
  <1>28. accepted' = SubSeq(accepted, 1, q)
    BY <1>1
  <1> HIDE DEF q
  <1>8. /\ accepted' = SubSeq(accepted, 1, q) /\ accepted' \in Seq(Record) /\ Len(accepted') = q
        /\ \A i \in 1..q : accepted'[i] = accepted[i]
    BY <1>3, <1>6, <1>28, Beginning
  <1>9. TurnEnds(accepted') \in Nat
    BY <1>8, EndsFacts DEF TurnEnds
  <1>10. t \in Nat /\ t <= TurnEnds(accepted') /\ t <= Len(atTurn)
         /\ (t = TurnEnds(accepted') \/ t = Len(atTurn))
    BY <1>3, <1>5, <1>9
  <1>29. atTurn' = SubSeq(atTurn, 1, t)
    BY <1>2
  <1> HIDE DEF t
  <1>11. /\ atTurn' \in Seq(Seq(Message)) /\ Len(atTurn') = t
         /\ \A i \in 1..t : atTurn'[i] = atTurn[i]
    BY <1>3, <1>10, <1>29, Beginning
  <1>12. /\ left(n) \in Seq(L) /\ Len(left(n)) = n
         /\ \A i \in 1..n : left(n)[i] = IF i \in unsure THEN Garbage ELSE ls[i]
    <2>1. \A i \in 1..n : i \in 1..Len(ls)
      BY <1>3, <1>4
    <2>2. left(n) \in [1..n -> L]
      BY <2>1, <1>3
    <2>3. \A i \in 1..n : left(n)[i] = IF i \in unsure THEN Garbage ELSE ls[i]
      OBVIOUS
    <2> HIDE DEF left, L
    <2> QED
      BY <2>2, <2>3, <1>4
  <1>13. whole(n) \in [lines : Seq(L), ended : BOOLEAN]
    BY <1>12
  <1>14. \/ /\ file' = whole(n)
        \/ /\ n < Len(ls) /\ file' \in [lines : Seq(L), ended : BOOLEAN]
           /\ ~file'.ended /\ file'.lines = Append(left(n), Garbage)
    <2>1. CASE file' = whole(n)
      BY <2>1
    <2>2. CASE n < Len(ls) /\ file' \in Partial(whole(n), Garbage)
      <3>1. whole(n).ended /\ whole(n).lines = left(n)
        BY <2>2
      <3> HIDE DEF whole
      <3>3. ASSUME NEW f \in [lines : Seq(Record \cup {Garbage}), ended : BOOLEAN], f.ended,
                   NEW g \in Partial(f, Garbage)
            PROVE  /\ g \in [lines : Seq(Record \cup {Garbage}), ended : BOOLEAN]
                   /\ g = f \/ (~g.ended /\ g.lines = Append(f.lines, Garbage))
        BY <3>3, Partial1
      <3>2. /\ file' \in [lines : Seq(Record \cup {Garbage}), ended : BOOLEAN]
            /\ \/ file' = whole(n)
               \/ ~file'.ended /\ file'.lines = Append(left(n), Garbage)
        BY <1>13, <2>2, <3>1, <3>3
      <3> QED
        BY <2>2, <3>2
    <2> QED
      BY <1>1, <2>1, <2>2
  <1>15. /\ Closed \in Session /\ ~Closed.open /\ Closed.active = <<>>
         /\ Grounded(Closed.active)
    BY ClosedTyped
  <1>16. file' \in [lines : Seq(L), ended : BOOLEAN]
    BY <1>13, <1>14
  <1>17. Typed'
    <2>1. file' \in [lines : Seq(Record \cup {Garbage}), ended : BOOLEAN] /\ synced' \in Nat
      BY <1>1, <1>4, <1>16
    <2>2. sess' \in Session /\ todo' \in Seq(Step) /\ unsure' \in SUBSET Nat /\ kept' \in Nat
          /\ doubtful' \in BOOLEAN
      BY <1>2, <1>3, <1>15 DEF IInv, Typed
    <2> QED
      BY <2>1, <2>2, <1>7, <1>8, <1>11 DEF Typed
  <1>18. Ordered'
    BY <1>2, <1>15 DEF Ordered
  <1> SUFFICES ASSUME ~doubtful
               PROVE  Sound'
    BY <1>2, <1>17, <1>18 DEF IInv
  <1>19. Appended /\ TurnsKept /\ Durable /\ Sane
    BY DEF IInv, Sound
  <1>20. Len(ls) = Len(accepted) + (IF file.ended THEN 0 ELSE 1)
    BY <1>19 DEF Appended
  (* What is left of the file, in the two ways it can be torn. *)
  <1>21. /\ Len(file'.lines) = q + (IF file'.ended THEN 0 ELSE 1)
         /\ \A i \in 1..q : file'.lines[i] = left(n)[i]
         /\ ~file'.ended => \/ file'.lines[Len(file'.lines)] = Garbage
                            \/ /\ n = Len(ls) /\ ~file.ended /\ q = Len(accepted)
                               /\ Len(file'.lines) = n
                               /\ file'.lines[n] = ls[n] /\ n \notin unsure
    <2>1. CASE file' = whole(n)
      <3>1. file'.lines = left(n) /\ file'.ended = (n < Len(ls) \/ file.ended)
        BY <2>1
      <3> HIDE DEF left, whole
      <3>2. CASE n <= Len(accepted)
        <4>1. q = n
          BY <3>2, <1>3, <1>4, <1>6
        <4>2. ~file.ended => Len(ls) = Len(accepted) + 1
          BY <1>20
        <4>3. ~file.ended => n < Len(ls)
          BY <4>2, <3>2, <1>3, <1>4
        <4>4. file'.ended
          BY <3>1, <4>3
        <4> QED
          BY <3>1, <4>1, <4>4, <1>12
      <3>3. CASE n > Len(accepted)
        <4>1. n = Len(ls) /\ ~file.ended /\ q = Len(accepted) /\ n = q + 1 /\ ~file'.ended
          BY <3>1, <3>3, <1>3, <1>4, <1>6, <1>20
        <4>2. n \in 1..n /\ \A i \in 1..q : i \in 1..n
          BY <4>1, <1>6
        <4>3. file'.lines[n] = IF n \in unsure THEN Garbage ELSE ls[n]
          BY <3>1, <4>2, <1>12
        <4> QED
          BY <3>1, <4>1, <4>2, <4>3, <1>12
      <3> QED
        BY <3>2, <3>3, <1>3, <1>4
    <2>2. CASE n < Len(ls) /\ ~file'.ended /\ file'.lines = Append(left(n), Garbage)
      <3> DEFINE lf == left(n)
      <3>1. Garbage \in L /\ lf \in Seq(L) /\ Len(lf) = n
        BY <1>12
      <3>2. q = n
        BY <2>2, <1>3, <1>4, <1>6, <1>20
      <3>3. file'.lines = Append(lf, Garbage)
        BY <2>2
      <3> HIDE DEF lf, L
      <3>4. /\ Len(file'.lines) = n + 1 /\ file'.lines[n + 1] = Garbage
            /\ \A i \in 1..n : file'.lines[i] = lf[i]
        BY <3>1, <3>3, <1>4
      <3> QED
        BY <3>2, <3>4, <2>2 DEF lf
    <2> QED
      BY <1>14, <2>1, <2>2
  <1> HIDE DEF left, whole
  <1>22. \A i \in 1..q : i \in 1..n /\ i \in 1..Len(accepted)
    BY <1>3, <1>4, <1>6
  <1>23. Appended'
    <2>1. \A i \in 1..q : file'.lines[i] = accepted'[i] \/ (i \in unsure' /\ file'.lines[i] = Garbage)
      <3> SUFFICES ASSUME NEW i \in 1..q, i \notin unsure \/ file'.lines[i] # Garbage
                   PROVE  file'.lines[i] = accepted'[i]
        BY <1>2
      <3>1. file'.lines[i] = ls[i] /\ i \notin unsure
        BY <1>12, <1>21, <1>22
      <3>2. ls[i] = accepted[i]
        BY <3>1, <1>3, <1>19, <1>22 DEF Appended
      <3> QED
        BY <3>1, <3>2, <1>8
    <2>2. ASSUME ~file'.ended, unsure' # {} \/ accepted' = <<>>
          PROVE  file'.lines[Len(file'.lines)] = Garbage
      <3> SUFFICES ASSUME n = Len(ls), ~file.ended, q = Len(accepted), Len(file'.lines) = n,
                          file'.lines[n] = ls[n]
                   PROVE  ls[n] = Garbage
        BY <1>21, <2>2
      <3>1. unsure # {} \/ accepted = <<>>
        BY <2>2, <1>2, <1>3, <1>8
      <3> QED
        BY <3>1, <1>19 DEF Appended
    <2>3. accepted' # <<>> => accepted'[1].kind = "meta"
      <3> SUFFICES ASSUME accepted' # <<>>
                   PROVE  accepted'[1].kind = "meta"
        OBVIOUS
      <3>1. q # 0
        BY <1>8
      <3>2. 1 \in 1..q /\ 1 \in 1..Len(accepted)
        BY <3>1, <1>6, <1>22
      <3>3. accepted'[1] = accepted[1] /\ accepted # <<>>
        BY <3>2, <1>3, <1>8
      <3> QED
        BY <3>3, <1>19 DEF Appended
    <2>4. DOMAIN accepted' = 1..q
      BY <1>8
    <2> QED
      BY <1>2, <1>8, <1>15, <1>21, <2>1, <2>2, <2>3, <2>4 DEF Appended
  <1>24. Durable'
    <2>1. mark <= Len(accepted) /\ kept <= Len(accepted) /\ kept <= synced /\ \A i \in unsure : i > kept
      BY <1>19 DEF Durable
    <2>2. mark' <= q /\ kept <= q /\ kept <= n
      BY <2>1, <1>3, <1>4, <1>6, <1>7
    <2> QED
      BY <2>1, <2>2, <1>1, <1>2, <1>8 DEF Durable
  <1>25. Sane'
    <2>1. Healthy(accepted')
      <3>1. q \in 0..Len(accepted)
        BY <1>3, <1>6
      <3> QED
        BY <3>1, <1>3, <1>8, <1>19, HealthyPrefix DEF Sane
    <2>2. ASSUME ~file'.ended, file'.lines[Len(file'.lines)] # Garbage
          PROVE  Healthy(Append(accepted', file'.lines[Len(file'.lines)]))
      <3>1. /\ n = Len(ls) /\ ~file.ended /\ q = Len(accepted) /\ Len(file'.lines) = n
            /\ file'.lines[n] = ls[n]
        BY <1>21, <2>2
      <3>2. accepted' = accepted
        BY <3>1, <1>3, <1>8, SubSeqFull
      <3>3. Healthy(Append(accepted, ls[n]))
        BY <3>1, <2>2, <1>19 DEF Sane
      <3> QED
        BY <3>1, <3>2, <3>3
    <2> QED
      BY <1>2, <1>15, <2>1, <2>2 DEF Sane
  <1>26. InStep'
    BY <1>2, <1>15 DEF InStep
  <1>27. TurnsKept'
    <2>1. TurnEnds(accepted') <= TurnEnds(accepted)
      <3>1. TurnEnds(accepted') = EndsUpTo(accepted, q)
        BY <1>6, <1>8, EndsSame DEF TurnEnds
      <3>2. EndsUpTo(accepted, q) <= EndsUpTo(accepted, Len(accepted))
        BY <1>3, <1>6, EndsMonotone
      <3> QED
        BY <3>1, <3>2 DEF TurnEnds
    <2>2. Len(atTurn) = TurnEnds(accepted)
      BY <1>19 DEF TurnsKept
    <2>3. t = TurnEnds(accepted')
      BY <2>1, <2>2, <1>3, <1>9, <1>10
    <2>4. ASSUME NEW k \in DOMAIN atTurn'
          PROVE  Remembered(FirstTurns(accepted', k)).active = atTurn'[k]
      <3>1. k \in 1..t /\ k \in Nat \ {0} /\ k \in DOMAIN atTurn
        BY <1>3, <1>10, <1>11, <2>4
      <3>2. q \in 0..Len(accepted) /\ k <= TurnEnds(SubSeq(accepted, 1, q))
        BY <3>1, <2>3, <1>3, <1>6, <1>8, <1>10
      <3>3. FirstTurns(accepted', k) = FirstTurns(accepted, k)
        BY <3>1, <3>2, <1>3, <1>8, FirstTurnsPrefix
      <3> QED
        BY <3>1, <3>3, <1>11, <1>19 DEF TurnsKept
    <2> QED
      BY <2>3, <2>4, <1>11 DEF TurnsKept
  <1> QED
    BY <1>23, <1>24, <1>25, <1>26, <1>27 DEF Sound

LEMMA RewindKeeps ==
  ASSUME IInv, NEW k \in 0..MaxLines, Rewind(k)
  PROVE  IInv'
  <1> DEFINE rs == Records(file)
             chosen == FirstTurns(rs, k)
             r == Meta(k)
  <1>1. /\ ~sess.open /\ Loads(file) /\ TurnEnds(chosen) = k
        /\ file' = [lines |-> Append(chosen, r), ended |-> TRUE]
        /\ accepted' = file'.lines
        /\ atTurn' = [i \in 1..k |-> IF i \in DOMAIN atTurn THEN atTurn[i]
                                     ELSE Remembered(chosen).active]
        /\ synced' = Len(file'.lines) /\ unsure' = {} /\ mark' = 0 /\ kept' = 0
        /\ UNCHANGED <<sess, todo, doubtful>>
    BY DEF Rewind
  <1>2. /\ file \in [lines : Seq(Record \cup {Garbage}), ended : BOOLEAN]
        /\ accepted \in Seq(Record) /\ doubtful \in BOOLEAN
        /\ atTurn \in Seq(Seq(Message)) /\ k \in Nat
    BY BoundsAssumption DEF IInv, Typed
  <1>3. rs \in Seq(Record)
    BY <1>2, RecordsTyped
  <1> HIDE DEF rs
  <1>4. Len(rs) \in Nat /\ DOMAIN rs = 1..Len(rs)
    BY <1>3
  <1>5. PICK c \in 0..Len(rs) :
            /\ chosen = SubSeq(rs, 1, c)
            /\ k = 0 => \A i \in 1..c : rs[i].kind = "meta"
    BY <1>2, <1>4, FirstTurnsIs
  <1> HIDE DEF chosen
  <1>6. chosen \in Seq(Record) /\ Len(chosen) = c /\ \A i \in 1..c : chosen[i] = rs[i]
    BY <1>3, <1>4, <1>5, Beginning
  <1>7. r \in Record /\ r # TurnEnd /\ r.kind = "meta"
    BY <1>2, RecordKinds
  <1> HIDE DEF r
  <1>8. /\ accepted' = Append(chosen, r) /\ file'.lines = accepted' /\ file'.ended
        /\ accepted' \in Seq(Record) /\ Len(accepted') = c + 1
        /\ accepted'[c + 1] = r /\ \A i \in 1..c : accepted'[i] = chosen[i]
    BY <1>1, <1>6, <1>7
  <1>9. Remembered(chosen) \in Memory
    <2>1. chosen \in Seq(Record \cup {Garbage})
      BY <1>6
    <2> QED
      BY <2>1, RememberedTyped
  <1>10. atTurn' \in Seq(Seq(Message)) /\ Len(atTurn') = k
         /\ \A i \in 1..k : atTurn'[i] = IF i \in DOMAIN atTurn THEN atTurn[i]
                                          ELSE Remembered(chosen).active
    <2>1. Remembered(chosen).active \in Seq(Message)
      BY <1>9 DEF Memory
    <2>2. \A i \in DOMAIN atTurn : atTurn[i] \in Seq(Message)
      BY <1>2
    <2>3. atTurn' \in [1..k -> Seq(Message)]
      BY <1>1, <2>1, <2>2
    <2> QED
      BY <2>3, <1>1, <1>2
  <1>11. Typed'
    <2>1. file' \in [lines : Seq(Record \cup {Garbage}), ended : BOOLEAN]
      <3>1. accepted' \in Seq(Record \cup {Garbage})
        BY <1>8
      <3> QED
        BY <3>1, <1>1
    <2>2. synced' \in Nat /\ mark' \in Nat /\ kept' \in Nat /\ unsure' \in SUBSET Nat
      BY <1>1, <1>6, <1>8
    <2> QED
      BY <2>1, <2>2, <1>1, <1>8, <1>10 DEF IInv, Typed
  <1>12. todo = <<>> /\ sess.active = <<>>
    BY <1>1 DEF IInv, Ordered
  <1>13. Ordered'
    BY <1>1, <1>12 DEF Ordered
  <1> SUFFICES ASSUME ~doubtful
               PROVE  Sound'
    BY <1>1, <1>11, <1>13 DEF IInv
  <1>14. Typed /\ Appended /\ TurnsKept /\ Durable /\ Sane
    BY DEF IInv, Sound
  <1>15. /\ \/ \E m \in 0..Len(accepted) : rs = SubSeq(accepted, 1, m)
            \/ \E x \in Record : rs = Append(accepted, x)
         /\ Healthy(rs)
         /\ rs # <<>> => rs[1].kind = "meta"
    BY <1>1, <1>14, LogRead DEF Loads, rs
  <1>16. Appended'
    <2>1. accepted'[1].kind = "meta"
      <3>1. CASE c = 0
        BY <3>1, <1>7, <1>8
      <3>2. CASE c # 0
        <4>1. 1 \in 1..c /\ Len(rs) # 0
          BY <3>2, <1>4, <1>5
        <4>2. rs # <<>>
          BY <4>1
        <4> QED
          BY <4>1, <4>2, <1>6, <1>8, <1>15
      <3> QED
        BY <3>1, <3>2
    <2>2. accepted' # <<>> /\ Len(file'.lines) = Len(accepted')
      BY <1>8, <1>6
    <2> QED
      BY <2>1, <2>2, <1>1, <1>8 DEF Appended
  <1>17. Durable'
    BY <1>1, <1>5, <1>8 DEF Durable
  <1>18. Sane'
    <2>1. Healthy(chosen)
      BY <1>3, <1>5, <1>15, HealthyPrefix
    <2>2. Remembered(accepted').active = Remembered(chosen).active
      <3>1. Remembered(accepted') = Replay(Remembered(chosen), r)
        BY <1>6, <1>7, <1>8, RememberedAppend
      <3>2. Replay(Remembered(chosen), r) = [Remembered(chosen) EXCEPT !.turns = k]
        BY <1>2, <1>9, Quiet DEF r
      <3> QED
        BY <3>1, <3>2, <1>9 DEF Memory
    <2>3. Grounded(Remembered(chosen).active)
      BY <2>1, <1>6, HealthyReads
    <2>4. Healthy(accepted')
      BY <2>1, <2>2, <2>3, <1>6, <1>7, <1>8, HealthyAppend
    <2>5. Grounded(sess.active)
      BY <1>14 DEF Sane
    <2> QED
      BY <2>4, <2>5, <1>1, <1>8 DEF Sane
  <1>19. InStep'
    BY <1>1 DEF InStep
  <1>20. TurnsKept'
    <2>1. TurnEnds(accepted') = k
      <3>1. TurnEnds(Append(chosen, r)) = TurnEnds(chosen) + (IF r = TurnEnd THEN 1 ELSE 0)
        BY <1>6, <1>7, TurnEndsAppend
      <3>2. TurnEnds(chosen) = k /\ k \in Nat /\ r # TurnEnd
        BY <1>1, <1>2, <1>7
      <3>3. TurnEnds(Append(chosen, r)) = k
        BY ONLY <3>1, <3>2
      <3>4. accepted' = Append(chosen, r)
        BY <1>8
      <3> QED
        BY <3>3, <3>4
    <2>2. EndsUpTo(rs, c) = k /\ k <= TurnEnds(rs)
      <3>1. EndsUpTo(chosen, c) = EndsUpTo(rs, c)
        <4>1. c \in Nat /\ \A i \in 1..c : chosen[i] = rs[i]
          BY <1>4, <1>5, <1>6
        <4> QED
          BY <4>1, EndsSame
      <3>2. EndsUpTo(rs, c) <= EndsUpTo(rs, Len(rs))
        BY <1>4, <1>5, EndsMonotone
      <3> QED
        BY <3>1, <3>2, <1>1, <1>6 DEF TurnEnds
    <2>3. Len(atTurn) = TurnEnds(accepted) /\ TurnEnds(accepted) \in Nat
      BY <1>2, <1>14 DEF TurnsKept
    <2>4. ASSUME NEW i \in 1..k
          PROVE  Remembered(FirstTurns(accepted', i)).active = atTurn'[i]
      <3>1. i \in Nat \ {0} /\ i <= k
        BY <1>2
      <3>2. FirstTurns(accepted', i) = FirstTurns(chosen, i)
        BY <3>1, <1>1, <1>6, <1>7, <1>8, FirstTurnsAppend
      <3>3. FirstTurns(chosen, i) = FirstTurns(rs, i)
        <4>1. i <= TurnEnds(SubSeq(rs, 1, c))
          BY <3>1, <1>1, <1>5
        <4> QED
          BY <3>1, <4>1, <1>3, <1>5, FirstTurnsPrefix
      <3>4. CASE i \in DOMAIN atTurn
        <4>1. i <= TurnEnds(accepted)
          BY <3>4, <1>2, <2>3
        <4>2. FirstTurns(rs, i) = FirstTurns(accepted, i)
          <5>1. ASSUME NEW m \in 0..Len(accepted), rs = SubSeq(accepted, 1, m)
                PROVE  FirstTurns(rs, i) = FirstTurns(accepted, i)
            <6>1. i <= TurnEnds(SubSeq(accepted, 1, m))
              BY <3>1, <5>1, <2>2, <1>2, <1>4, EndsFacts DEF TurnEnds
            <6> QED
              BY <3>1, <5>1, <6>1, <1>2, FirstTurnsPrefix
          <5>2. ASSUME NEW x \in Record, rs = Append(accepted, x)
                PROVE  FirstTurns(rs, i) = FirstTurns(accepted, i)
            BY <3>1, <4>1, <5>2, <1>2, FirstTurnsAppend
          <5> QED
            BY <5>1, <5>2, <1>15
        <4>3. Remembered(FirstTurns(accepted, i)).active = atTurn[i]
          BY <3>4, <1>14 DEF TurnsKept
        <4> QED
          BY <3>2, <3>3, <3>4, <4>2, <4>3, <1>10
      <3>5. CASE i \notin DOMAIN atTurn
        <4>1. i > TurnEnds(accepted)
          BY <3>1, <3>5, <1>2, <2>3
        <4>2. TurnEnds(rs) <= TurnEnds(accepted) + 1
          <5>1. ASSUME NEW m \in 0..Len(accepted), rs = SubSeq(accepted, 1, m)
                PROVE  TurnEnds(rs) <= TurnEnds(accepted)
            <6>1. Len(rs) = m /\ \A j \in 1..m : rs[j] = accepted[j]
              BY <5>1, <1>2
            <6>2. EndsUpTo(rs, m) = EndsUpTo(accepted, m)
              BY <6>1, EndsSame
            <6>3. EndsUpTo(accepted, m) <= EndsUpTo(accepted, Len(accepted))
              BY <1>2, EndsMonotone
            <6> QED
              BY <6>1, <6>2, <6>3 DEF TurnEnds
          <5>2. ASSUME NEW x \in Record, rs = Append(accepted, x)
                PROVE  TurnEnds(rs) <= TurnEnds(accepted) + 1
            <6>1. TurnEnds(Append(accepted, x))
                     = TurnEnds(accepted) + (IF x = TurnEnd THEN 1 ELSE 0)
              BY <1>2, TurnEndsAppend
            <6> QED
              BY <6>1, <5>2, <2>3
          <5>3. TurnEnds(rs) \in Nat
            BY <1>4, EndsFacts DEF TurnEnds
          <5> QED
            BY <5>1, <5>2, <5>3, <1>15, <2>3
        <4>3. i = k
          <5>1. TurnEnds(rs) \in Nat
            BY <1>4, EndsFacts DEF TurnEnds
          <5> QED
            BY <5>1, <3>1, <4>1, <4>2, <2>2, <2>3, <1>2
        <4>4. FirstTurns(rs, i) = chosen
          BY <4>3 DEF chosen
        <4> QED
          BY <3>2, <3>3, <3>5, <4>4, <1>10
      <3> QED
        BY <3>4, <3>5
    <2> QED
      BY <2>1, <2>4, <1>2, <1>10 DEF TurnsKept
  <1> QED
    BY <1>16, <1>17, <1>18, <1>19, <1>20 DEF Sound

LEMMA InitSound ==
  ASSUME Init
  PROVE  IInv
  <1> DEFINE r == Meta(0)
  <1>1. /\ file = [lines |-> <<r>>, ended |-> TRUE] /\ synced = 0 /\ unsure = {}
        /\ sess = Opened(Fresh) /\ todo = <<>> /\ accepted = <<r>> /\ mark = 1 /\ kept = 0
        /\ doubtful = FALSE /\ atTurn = <<>>
    BY DEF Init
  <1>2. r \in Record /\ r.kind = "meta" /\ r # TurnEnd
    BY RecordKinds
  <1>3. /\ sess \in Session /\ sess.open /\ ~sess.failed /\ sess.active = <<>>
        /\ sess.turns = 0 /\ sess.completion = NoValue /\ sess.graph = NoValue
    <2>1. TRUE \in BOOLEAN
      OBVIOUS
    <2>2. Fresh \in Memory
      BY ClosedTyped
    <2> QED
      BY <2>1, <2>2, <1>1, HoldingTyped DEF Opened, Fresh
  <1>4. Remembered(<<r>>) = Fresh
    <2>1. <<>> \in Seq(Record) /\ <<r>> = Append(<<>>, r)
      BY <1>2
    <2>2. Remembered(<<r>>) = Replay(Fresh, r)
      BY <1>2, <2>1, RememberedAppend, RememberedNone
    <2>3. Replay(Fresh, r) = [Fresh EXCEPT !.turns = 0]
      BY ClosedTyped, Quiet
    <2> QED
      BY <2>2, <2>3 DEF Fresh
  <1>5. Healthy(<<r>>)
    <2>1. <<>> \in Seq(Record) /\ <<r>> = Append(<<>>, r)
      BY <1>2
    <2>2. Grounded(Remembered(<<r>>).active)
      BY <1>4 DEF Fresh, Grounded
    <2> HIDE DEF r
    <2> QED
      BY <2>1, <2>2, <1>2, HealthyNone, HealthyAppend
  <1> HIDE DEF r
  <1>6. /\ accepted \in Seq(Record) /\ Len(accepted) = 1 /\ accepted[1] = r /\ accepted # <<>>
        /\ file.lines = accepted /\ file.ended
        /\ file \in [lines : Seq(Record \cup {Garbage}), ended : BOOLEAN]
    <2>1. <<r>> \in Seq(Record) /\ <<r>> \in Seq(Record \cup {Garbage})
      BY <1>2
    <2> QED
      BY <2>1, <1>1
  <1>7. Typed
    <2>1. synced \in Nat /\ unsure \in SUBSET Nat /\ mark \in Nat /\ kept \in Nat
      BY <1>1
    <2>2. todo \in Seq(Step) /\ atTurn \in Seq(Seq(Message))
      BY <1>1
    <2>3. doubtful \in BOOLEAN
      BY <1>1
    <2> QED
      BY <2>1, <2>2, <2>3, <1>3, <1>6 DEF Typed
  <1>8. Ordered
    BY <1>1, <1>3 DEF Ordered
  <1>9. Appended /\ Durable
    BY <1>1, <1>2, <1>6 DEF Appended, Durable
  <1>10. Sane
    <2>1. Grounded(sess.active)
      BY <1>3 DEF Grounded
    <2> QED
      BY <2>1, <1>1, <1>5, <1>6 DEF Sane
  <1>11. InStep
    <2>1. Appending(0)
      BY <1>1 DEF Appending
    <2>2. accepted \o Due(0) = accepted
      <3>1. Due(0) = <<>>
        BY DEF Due
      <3>2. accepted \in Seq(Record)
        BY <1>6
      <3>3. accepted \o <<>> = accepted
        BY <3>2
      <3> QED
        BY <3>1, <3>3
    <2>3. Foreseen = sess.completion
      BY <1>1 DEF Foreseen
    <2>4. Mirrors(Remembered(accepted))
      BY <2>3, <1>1, <1>3, <1>4 DEF Mirrors, Fresh
    <2>5. 0 \in 0..Len(todo)
      BY <1>1
    <2> QED
      BY <2>1, <2>2, <2>4, <2>5, <1>1, <1>5 DEF InStep
  <1>12. TurnsKept
    <2>1. TurnEnds(accepted) = 0
      <3>1. <<>> \in Seq(Record) /\ <<r>> = Append(<<>>, r) /\ Len(<<>>) = 0
        BY <1>2
      <3>2. TurnEnds(<<>>) = 0
        BY <3>1, EndsFacts DEF TurnEnds
      <3>3. TurnEnds(Append(<<>>, r)) = TurnEnds(<<>>) + (IF r = TurnEnd THEN 1 ELSE 0)
        BY <3>1, <1>2, TurnEndsAppend
      <3> QED
        BY <3>1, <3>2, <3>3, <1>1, <1>2
    <2> QED
      BY <2>1, <1>1 DEF TurnsKept
  <1> QED
    BY <1>7, <1>8, <1>9, <1>10, <1>11, <1>12 DEF IInv, Sound

LEMMA NextSound ==
  ASSUME IInv, [Next]_vars
  PROVE  IInv'
  <1>1. ASSUME UNCHANGED vars
        PROVE  IInv'
    <2>1. UNCHANGED <<file, synced, unsure, sess, todo, accepted, mark, kept, doubtful, atTurn>>
      BY <1>1 DEF vars, history
    <2>2. Typed' /\ Ordered'
      BY <2>1 DEF IInv, Typed, Ordered
    <2>3. ASSUME ~doubtful
          PROVE  Durable' /\ Grounded(sess'.active) /\ InStep'
      BY <2>1, <2>3 DEF IInv, Sound, Durable, Sane, InStep, Appending, Due, Mirrors, Foreseen,
                        Healthy
    <2> QED
      BY <2>1, <2>2, <2>3, Undisturbed
  <1>2. ASSUME Amend
        PROVE  IInv'
    BY <1>2, AmendKeeps DEF Amend
  <1>3. ASSUME Fork
        PROVE  IInv'
    BY <1>3, AmendKeeps DEF Fork
  <1> QED
    BY <1>1, <1>2, <1>3, AppendKeeps, AppendFailsKeeps, SyncKeeps, SyncFailsKeeps, ReturnKeeps,
       MessageKeeps, CompactionKeeps, TurnEndKeeps, EventKeeps, CompletionKeeps, GraphKeeps,
       CloseKeeps, StopKeeps, PowerLossKeeps, ResumeKeeps, RewindKeeps
    DEF Next

-----------------------------------------------------------------------------
(* A handler only runs in an open Session whose log has not failed, the log    *)
(* and the file agree line by line until a fault leaves them in doubt, what is *)
(* still to be appended brings the log to what the Session holds, and each     *)
(* turn can be read back from the log: writeRecord, Sync, Append and their     *)
(* callers (session.go:546-960), through any failure and any restart.          *)
THEOREM SessionSound ==
  Spec => []IInv
  <1>1. Init => IInv
    BY InitSound
  <1>2. IInv /\ [Next]_vars => IInv'
    BY NextSound
  <1> QED
    BY <1>1, <1>2, PTL DEF Spec

(* What the log accepted is never lost or displaced, through failed appends,   *)
(* stops in the middle of a record, power losses, amendments and restarts.     *)
THEOREM SessionKeepsHistory ==
  Spec => []HistoryKept
  <1>1. IInv => HistoryKept
    <2> SUFFICES ASSUME IInv, ~doubtful
                 PROVE  /\ Len(file.lines) \in Len(accepted)..(Len(accepted) + 1)
                        /\ file.ended => Len(file.lines) = Len(accepted)
                        /\ \A i \in DOMAIN accepted \ unsure : file.lines[i] = accepted[i]
      BY DEF HistoryKept
    <2>1. Len(accepted) \in Nat /\ file.ended \in BOOLEAN
      BY DEF IInv, Typed
    <2> QED
      BY <2>1 DEF IInv, Sound, Appended
  <1> QED
    BY <1>1, SessionSound, PTL

(* A power loss does not undo what a call reported as durable (Sync,           *)
(* session.go:905-913): those records are in the file, flushed and not among   *)
(* the pages a failed flush may have dropped.                                  *)
THEOREM SessionKeepsPromises ==
  Spec => []PromisesKept
  <1>1. IInv => PromisesKept
    <2> SUFFICES ASSUME IInv, ~doubtful
                 PROVE  /\ kept <= Len(accepted)
                        /\ \A i \in 1..kept : file.lines[i] = accepted[i]
      BY DEF PromisesKept
    <2>1. Len(accepted) \in Nat /\ DOMAIN accepted = 1..Len(accepted) /\ kept \in Nat
          /\ unsure \subseteq Nat
      BY DEF IInv, Typed
    <2>2. kept <= Len(accepted) /\ \A i \in unsure : i > kept
      BY DEF IInv, Sound, Durable
    <2>3. ASSUME NEW i \in 1..kept
          PROVE  file.lines[i] = accepted[i]
      <3>1. i \in DOMAIN accepted /\ i \notin unsure
        BY <2>1, <2>2
      <3> QED
        BY <3>1 DEF IInv, Sound, Appended
    <2> QED
      BY <2>2, <2>3
  <1> QED
    BY <1>1, SessionSound, PTL

(* An idle Session holds what a restart would read from the file: the records  *)
(* the handlers append are the changes they make (replay, session.go:709-754). *)
THEOREM SessionReplays ==
  Spec => []ReplayAgrees
  <1>1. IInv => ReplayAgrees
    <2> SUFFICES ASSUME IInv, sess.open, todo = <<>>, ~sess.failed, ~doubtful
                 PROVE  LET m == Remembered(Records(file))
                        IN  /\ m.active = sess.active /\ m.turns = sess.turns
                            /\ m.completion = sess.completion /\ m.graph = sess.graph
      BY DEF ReplayAgrees
    <2>1. /\ file.ended /\ unsure = {}
          /\ Remembered(accepted).active = sess.active
          /\ Remembered(accepted).turns = sess.turns
          /\ Remembered(accepted).completion = sess.completion
          /\ Remembered(accepted).graph = sess.graph
      BY Ready DEF Idle
    <2>2. Records(file) = accepted
      BY <2>1, WholeRead
    <2> QED
      BY <2>1, <2>2
  <1> QED
    BY <1>1, SessionSound, PTL

(* The file loads, and a rewind to a turn gives back the conversation the turn *)
(* ended with (Rewind, session.go:333-411), unless a flush failed.             *)
THEOREM SessionRewinds ==
  Spec => []RewindKeepsTurn
  <1>1. IInv => RewindKeepsTurn
    <2> SUFFICES ASSUME IInv, ~doubtful, unsure = {}, accepted # <<>>
                 PROVE  /\ Loads(file)
                        /\ \A k \in DOMAIN atTurn :
                              Remembered(FirstTurns(Records(file), k)).active = atTurn[k]
      BY DEF RewindKeepsTurn
    <2> DEFINE ls == file.lines
    <2>1. /\ Typed /\ Appended /\ Sane /\ TurnsKept
          /\ accepted \in Seq(Record) /\ Len(accepted) \in Nat
          /\ DOMAIN accepted = 1..Len(accepted) /\ file.ended \in BOOLEAN
          /\ ls \in Seq(Record \cup {Garbage}) /\ DOMAIN ls = 1..Len(ls)
          /\ atTurn \in Seq(Seq(Message))
      BY DEF IInv, Sound, Typed
    <2>2. /\ Len(ls) = Len(accepted) + (IF file.ended THEN 0 ELSE 1)
          /\ \A i \in 1..Len(accepted) : ls[i] = accepted[i]
          /\ accepted[1].kind = "meta"
      BY <2>1 DEF Appended
    <2>3. \A i \in 1..Len(accepted) : accepted[i] # Garbage
      BY <2>1, RecordKinds
    <2>4. \A i \in DOMAIN ls : ls[i] = Garbage => i + (IF file.ended THEN 0 ELSE 1) >= Len(ls)
      <3> SUFFICES ASSUME NEW i \in 1..Len(ls), ls[i] = Garbage
                   PROVE  i + (IF file.ended THEN 0 ELSE 1) >= Len(ls)
        BY <2>1
      <3>1. i > Len(accepted)
        BY <2>1, <2>2, <2>3
      <3> QED
        BY <3>1, <2>1, <2>2
    <2>5. \E i \in DOMAIN ls : ls[i].kind = "meta"
      <3>1. 1 \in 1..Len(accepted) /\ 1 \in DOMAIN ls
        BY <2>1, <2>2
      <3> QED
        BY <3>1, <2>2
    <2>6. \/ Records(file) = accepted
          \/ \E r \in Record : Records(file) = Append(accepted, r)
      BY <2>1, <2>4, LogRead
    <2>7. ASSUME NEW k \in DOMAIN atTurn
          PROVE  Remembered(FirstTurns(Records(file), k)).active = atTurn[k]
      <3>1. k \in Nat \ {0} /\ k <= TurnEnds(accepted)
        BY <2>1 DEF TurnsKept
      <3>2. FirstTurns(Records(file), k) = FirstTurns(accepted, k)
        <4>1. ASSUME NEW r \in Record, Records(file) = Append(accepted, r)
              PROVE  FirstTurns(Records(file), k) = FirstTurns(accepted, k)
          BY <3>1, <4>1, <2>1, FirstTurnsAppend
        <4> QED
          BY <4>1, <2>6
      <3> QED
        BY <3>2, <2>1 DEF TurnsKept
    <2> QED
      BY <2>4, <2>5, <2>7 DEF Loads
  <1> QED
    BY <1>1, SessionSound, PTL

(* No result stands in the conversation without the call it answers (compact,  *)
(* agent.go:3110-3120; the notes of Resume, recovery.go).                      *)
THEOREM SessionHasNoOrphan ==
  Spec => []OrphanFree
  <1>1. IInv => OrphanFree
    BY DEF IInv, Sound, Sane, Grounded, OrphanFree
  <1> QED
    BY <1>1, SessionSound, PTL
=============================================================================
