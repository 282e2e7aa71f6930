-------------------------- MODULE DelegatesProofs --------------------------
(***************************************************************************)
(* Proofs about DelegateScheduler and Delegates, for any number of tasks,     *)
(* providers and slots.  First the scheduler alone: its counters agree with   *)
(* the tasks, nobody waits who need not, and it implements AdmissionPool.     *)
(* Then delegation: what the scheduler guarantees holds with crashes and      *)
(* cancellations around it, and the session's record of each task follows     *)
(* Team whatever the order in which snapshots arrive.                        *)
(***************************************************************************)
EXTENDS Delegates, FiniteSetTheorems, SequenceTheorems, WellFoundedInduction, TLAPS

-----------------------------------------------------------------------------
(* The scheduler: its inductive invariant.                                  *)

(* The queue holds each waiter once, and none that has started.              *)
QueueOnce(s) ==
    /\ \A i, j \in Ranks(s.queue) : s.queue[i] = s.queue[j] => i = j
    /\ \A i \in Ranks(s.queue) : s.queue[i] \notin s.started

Counted(s) ==
    /\ s.released \subseteq s.started
    /\ s.working = s.started \ s.released
    /\ s.active = Cardinality(s.working)
    /\ \A p \in Provider : s.byProvider[p] = Cardinality(Among(s.working, p))

Roomy(s) ==
    /\ s.active <= Max
    /\ \A p \in Provider : s.byProvider[p] <= LimitOf(p)
    /\ \A t, u \in s.working : t # u => ~Collide(t, u)

Sound(s) == s \in Pool /\ QueueOnce(s) /\ Counted(s) /\ Roomy(s)

Waits(s) == s.queue # <<>> => ~Fits(s, Head(s.queue))

Queued(s) == {s.queue[i] : i \in Ranks(s.queue)}

(* Where a task's goroutine is, and what the scheduler has of it.            *)
Placed(s, f) ==
    \A t \in Task :
        /\ f[t] = "outside" => t \notin s.started \cup Queued(s)
        /\ f[t] = "waiting" => t \in s.working \cup Queued(s)
        /\ f[t] = "running" => t \in s.working
        /\ t \in Queued(s) => f[t] = "waiting"
        /\ t \in s.working => f[t] \in {"waiting", "running"}

IInv ==
    /\ SchedulerTypeOK
    /\ Sound(pool) /\ Waits(pool) /\ Placed(pool, place)

-----------------------------------------------------------------------------
(* Dispatch.                                                                *)

(* A provider limit never exceeds the global one (NewScheduler).             *)
LEMMA SlotFacts ==
    ASSUME NEW p \in Provider
    PROVE  LimitOf(p) \in Nat /\ LimitOf(p) <= Max /\ Max \in Nat
BY LimitAssumption DEF LimitOf

(* What remains of the queue once its first k have left it.                  *)
LEMMA Remainder ==
    ASSUME NEW q \in Seq(Task), NEW k \in 0 .. Len(q)
    PROVE  /\ SubSeq(q, k + 1, Len(q)) \in Seq(Task)
           /\ Len(SubSeq(q, k + 1, Len(q))) = Len(q) - k
           /\ \A i \in 1 .. Len(q) - k : SubSeq(q, k + 1, Len(q))[i] = q[k + i]
<1>1. Len(q) \in Nat /\ k \in Nat /\ k <= Len(q) /\ \A i \in 1 .. Len(q) : q[i] \in Task
  OBVIOUS
<1>2. \A i \in k + 1 .. Len(q) : q[i] \in Task
  BY <1>1
<1>3. /\ SubSeq(q, k + 1, Len(q)) \in Seq(Task)
      /\ Len(SubSeq(q, k + 1, Len(q))) = IF k + 1 <= Len(q) THEN Len(q) - (k + 1) + 1 ELSE 0
      /\ \A i \in 1 .. Len(q) - (k + 1) + 1 :
            SubSeq(q, k + 1, Len(q))[i] = q[k + 1 + i - 1]
  BY <1>1, <1>2, SubSeqProperties
<1>4. ASSUME NEW i \in 1 .. Len(q) - k
      PROVE  SubSeq(q, k + 1, Len(q))[i] = q[k + i]
  <2>1. k + 1 + i - 1 = k + i /\ i \in 1 .. Len(q) - (k + 1) + 1
    BY <1>1
  <2> QED BY <1>3, <2>1
<1>5. Len(SubSeq(q, k + 1, Len(q))) = Len(q) - k
  BY <1>1, <1>3
<1> QED BY <1>3, <1>4, <1>5

(* One more waiter at the front is one more task.                            *)
LEMMA ForemostGrows ==
    ASSUME NEW s \in Pool, QueueOnce(s), NEW k \in Nat, k + 1 <= Len(s.queue)
    PROVE  /\ Foremost(s, k + 1) = Foremost(s, k) \cup {s.queue[k + 1]}
           /\ s.queue[k + 1] \notin Foremost(s, k) \cup s.started
           /\ s.queue[k + 1] \in Task
<1>1. s.queue \in Seq(Task) /\ Len(s.queue) \in Nat
  BY DEF Pool
<1>2. k + 1 \in Ranks(s.queue) /\ 1 .. k \subseteq Ranks(s.queue)
  BY <1>1 DEF Ranks
<1>3. 1 .. k + 1 = (1 .. k) \cup {k + 1}
  OBVIOUS
<1>4. Foremost(s, k + 1) = Foremost(s, k) \cup {s.queue[k + 1]}
  BY <1>3 DEF Foremost
<1>5. \A i \in 1 .. k : i # k + 1
  OBVIOUS
<1>6. s.queue[k + 1] \notin Foremost(s, k) \cup s.started
  BY <1>2, <1>5 DEF Foremost, QueueOnce
<1>7. s.queue[k + 1] \in Task
  BY <1>1, <1>2, ElementOfSeq DEF Ranks
<1> QED BY <1>4, <1>6, <1>7

(* g is s with its first k waiters started.                                  *)
Took(s, k, g) ==
    /\ g.queue \in Seq(Task) /\ Len(g.queue) = Len(s.queue) - k
    /\ \A i \in Ranks(g.queue) : g.queue[i] = s.queue[k + i] /\ k + i \in Ranks(s.queue)
    /\ g.active = s.active + k
    /\ \A p \in Provider :
        g.byProvider[p] = s.byProvider[p] + Cardinality(Among(Foremost(s, k), p))
    /\ g.working = s.working \cup Foremost(s, k)
    /\ g.started = s.started \cup Foremost(s, k)
    /\ g.released = s.released
    /\ Foremost(s, k) \subseteq Queued(s)
    /\ Queued(s) \subseteq Task

(* That is what Taken makes of a scheduler.                                  *)
LEMMA TakenFields ==
    ASSUME NEW s \in Pool, NEW k \in 0 .. Len(s.queue), NEW g, g = Taken(s, k)
    PROVE  Took(s, k, g)
<1>1. s.queue \in Seq(Task) /\ Len(s.queue) \in Nat /\ k \in Nat /\ k <= Len(s.queue)
  BY DEF Pool
<1>2. g.queue = SubSeq(s.queue, k + 1, Len(s.queue))
  BY DEF Taken, Pool
<1>3. /\ g.queue \in Seq(Task) /\ Len(g.queue) = Len(s.queue) - k
      /\ \A i \in 1 .. Len(s.queue) - k : g.queue[i] = s.queue[k + i]
  BY <1>1, <1>2, Remainder
<1>4. \A i \in Ranks(g.queue) : g.queue[i] = s.queue[k + i] /\ k + i \in Ranks(s.queue)
  BY <1>1, <1>3 DEF Ranks
<1>5. /\ g.active = s.active + k
      /\ \A p \in Provider :
            g.byProvider[p] = s.byProvider[p] + Cardinality(Among(Foremost(s, k), p))
      /\ g.working = s.working \cup Foremost(s, k)
      /\ g.started = s.started \cup Foremost(s, k)
      /\ g.released = s.released
  BY DEF Taken, Pool
<1>6. Foremost(s, k) \subseteq Queued(s) /\ Queued(s) \subseteq Task
  BY <1>1, ElementOfSeq DEF Foremost, Queued, Ranks
<1> QED BY <1>3, <1>4, <1>5, <1>6 DEF Took

(* Taking nobody changes nothing.                                           *)
LEMMA NoneTaken == ASSUME NEW s \in Pool PROVE Taken(s, 0) = s
<1>1. s.queue \in Seq(Task) /\ Len(s.queue) \in Nat
  BY DEF Pool
<1>2. SubSeq(s.queue, 0 + 1, Len(s.queue)) = s.queue
  BY <1>1, SubSeqFull
<1>3. Foremost(s, 0) = {} /\ \A p \in Provider : Among(Foremost(s, 0), p) = {}
  BY DEF Foremost, Among
<1>4. [p \in Provider |-> s.byProvider[p] + Cardinality(Among(Foremost(s, 0), p))] = s.byProvider
  <2>1. s.byProvider \in [Provider -> Nat]
    BY DEF Pool
  <2>2. \A p \in Provider : Cardinality(Among(Foremost(s, 0), p)) = 0
    BY <1>3, FS_EmptySet
  <2> QED BY <2>1, <2>2
<1>5. s.active + 0 = s.active
  BY DEF Pool
<1> QED BY <1>2, <1>3, <1>4, <1>5 DEF Taken, Pool

(* Of a set of tasks, those of each provider are finitely many.              *)
LEMMA AmongFacts ==
    ASSUME NEW S \in SUBSET Task, NEW p \in Provider
    PROVE  /\ IsFiniteSet(S) /\ Cardinality(S) \in Nat
           /\ IsFiniteSet(Among(S, p)) /\ Cardinality(Among(S, p)) \in Nat
           /\ Cardinality(Among(S, p)) <= Cardinality(S)
<1>1. IsFiniteSet(S)
  BY TaskAssumption, FS_Subset
<1>2. Among(S, p) \subseteq S
  BY DEF Among
<1> QED BY <1>1, <1>2, FS_Subset, FS_CardinalityType

------------------------------------------------------------------(* A scheduler whose first k waiters have started is well typed.             *)
LEMMA TakenInPool ==
    ASSUME NEW s \in Pool, NEW k \in 0 .. Len(s.queue)
    PROVE  Taken(s, k) \in Pool
<1> DEFINE q == SubSeq(s.queue, k + 1, Len(s.queue))
           F == Foremost(s, k)
           b == [p \in Provider |-> s.byProvider[p] + Cardinality(Among(F, p))]
<1>1. s.queue \in Seq(Task) /\ s.active \in Nat /\ s.byProvider \in [Provider -> Nat]
      /\ Len(s.queue) \in Nat
  BY DEF Pool
<1>2. q \in Seq(Task)
  BY <1>1, Remainder
<1>3. F \subseteq Task
  BY <1>1, ElementOfSeq DEF Foremost
<1>4. b \in [Provider -> Nat]
  <2>1. \A p \in Provider : Cardinality(Among(F, p)) \in Nat /\ s.byProvider[p] \in Nat
    BY <1>1, <1>3, AmongFacts
  <2> QED BY <2>1
<1>5. s.active + k \in Nat
  BY <1>1
<1>6. Taken(s, k) = [s EXCEPT !.queue = q, !.active = s.active + k, !.byProvider = b,
                              !.working = s.working \cup F, !.started = s.started \cup F]
  BY DEF Taken
<1> HIDE DEF q, F, b
<1> QED BY <1>2, <1>3, <1>4, <1>5, <1>6 DEF Pool

-----------------------------------------------------------------------------
(* One more may start: the counters and the room stay as they should be.     *)
LEMMA OneMore ==
    ASSUME NEW s \in Pool, Sound(s), NEW k \in Nat, NEW m \in Nat, m = k + 1,
           m <= Len(s.queue), NEW t, t = s.queue[m],
           NEW g, g = Taken(s, k), Sound(g), Fits(g, t), NEW h, h = Taken(s, m)
    PROVE  Sound(h)
<1>1. s.queue \in Seq(Task) /\ Len(s.queue) \in Nat /\ k \in 0 .. Len(s.queue)
      /\ m \in 0 .. Len(s.queue) /\ s.active \in Nat
  BY DEF Pool
<1>2. Took(s, k, g)
  BY <1>1, TakenFields
<1>3. Took(s, m, h)
  BY <1>1, TakenFields
<1>4. /\ Foremost(s, m) = Foremost(s, k) \cup {t}
      /\ t \notin Foremost(s, k) \cup s.started
      /\ t \in Task
  BY ForemostGrows DEF Sound
<1>5. ProviderOf[t] \in Provider
  BY <1>4, TaskAssumption
<1>6. g \in Pool /\ Counted(g) /\ Roomy(g)
  BY DEF Sound
<1>7. t \notin g.started /\ t \notin g.working
  BY <1>2, <1>4, <1>6 DEF Counted, Took
<1>8. /\ h.working = g.working \cup {t} /\ h.started = g.started \cup {t}
      /\ h.released = g.released /\ h.active = g.active + 1
  <2>1. /\ h.working = s.working \cup (Foremost(s, k) \cup {t})
        /\ h.started = s.started \cup (Foremost(s, k) \cup {t})
    BY <1>3, <1>4 DEF Took
  <2>2. h.active = g.active + 1
    <3>1. g.active = s.active + k /\ h.active = s.active + m
      BY <1>2, <1>3 DEF Took
    <3>2. s.active \in Nat /\ k \in Nat /\ m = k + 1
      BY <1>1
    <3> QED BY <3>1, <3>2
  <2> QED BY <1>2, <1>3, <2>1, <2>2 DEF Took
<1>9. \A p \in Provider : h.byProvider[p] =
        IF p = ProviderOf[t] THEN g.byProvider[p] + 1 ELSE g.byProvider[p]
  <2> SUFFICES ASSUME NEW p \in Provider
               PROVE  h.byProvider[p] = IF p = ProviderOf[t] THEN g.byProvider[p] + 1
                                        ELSE g.byProvider[p]
    OBVIOUS
  <2> DEFINE old == Among(Foremost(s, k), p)
             new == Among(Foremost(s, m), p)
  <2>1. IsFiniteSet(old) /\ Cardinality(old) \in Nat
    BY <1>2, AmongFacts DEF Took
  <2>2. new = IF p = ProviderOf[t] THEN old \cup {t} ELSE old
    BY <1>4 DEF Among
  <2>3. t \notin old
    BY <1>4 DEF Among
  <2>4. Cardinality(new) = IF p = ProviderOf[t] THEN Cardinality(old) + 1 ELSE Cardinality(old)
    BY <2>1, <2>2, <2>3, FS_AddElement
  <2>5. s.byProvider[p] \in Nat
    BY DEF Pool
  <2>6. /\ g.byProvider[p] = s.byProvider[p] + Cardinality(old)
        /\ h.byProvider[p] = s.byProvider[p] + Cardinality(new)
    BY <1>2, <1>3 DEF Took
  <2> HIDE DEF old, new
  <2>7. CASE p = ProviderOf[t]
    BY <2>1, <2>4, <2>5, <2>6, <2>7
  <2>8. CASE p # ProviderOf[t]
    BY <2>1, <2>4, <2>5, <2>6, <2>8
  <2> QED BY <2>7, <2>8
<1>10. h \in Pool
  BY <1>1, TakenInPool
<1>11. QueueOnce(h)
  <2>1. \A i \in Ranks(h.queue) : i \in Nat /\ h.queue[i] = s.queue[m + i]
                                  /\ m + i \in Ranks(s.queue)
    BY <1>3 DEF Ranks, Took
  <2>2. QueueOnce(s)
    BY DEF Sound
  <2>3. ASSUME NEW i \in Ranks(h.queue), NEW j \in Ranks(h.queue), h.queue[i] = h.queue[j]
        PROVE  i = j
    <3>1. m + i = m + j
      BY <2>1, <2>2, <2>3 DEF QueueOnce
    <3> QED BY <2>1, <3>1
  <2>4. ASSUME NEW i \in Ranks(h.queue), h.queue[i] \in h.started
        PROVE  FALSE
    <3>1. h.queue[i] \in Foremost(s, m)
      BY <1>3, <2>1, <2>2, <2>4 DEF QueueOnce, Took
    <3>2. PICK j \in 1 .. m : s.queue[m + i] = s.queue[j]
      BY <2>1, <3>1 DEF Foremost
    <3>3. j \in Ranks(s.queue)
      BY <1>1 DEF Ranks
    <3>4. m + i = j
      BY <2>1, <2>2, <3>2, <3>3 DEF QueueOnce
    <3>5. i >= 1
      BY DEF Ranks
    <3> QED BY <2>1, <3>4, <3>5
  <2> QED BY <2>3, <2>4 DEF QueueOnce
<1>12. Counted(h)
  <2>1. h.released \subseteq h.started /\ h.working = h.started \ h.released
    BY <1>6, <1>7, <1>8 DEF Counted
  <2>2. IsFiniteSet(g.working) /\ g.working \subseteq Task
    BY <1>6, TaskAssumption, FS_Subset DEF Pool
  <2>3. h.active = Cardinality(h.working)
    <3>1. Cardinality(g.working \cup {t}) = Cardinality(g.working) + 1
      BY <1>7, <2>2, FS_AddElement
    <3>2. g.active = Cardinality(g.working)
      BY <1>6 DEF Counted
    <3> QED BY <1>8, <3>1, <3>2
  <2>4. ASSUME NEW p \in Provider PROVE h.byProvider[p] = Cardinality(Among(h.working, p))
    <3>1. Among(h.working, p) =
            IF p = ProviderOf[t] THEN Among(g.working, p) \cup {t} ELSE Among(g.working, p)
      BY <1>8 DEF Among
    <3>2. t \notin Among(g.working, p) /\ IsFiniteSet(Among(g.working, p))
      BY <1>7, <2>2, AmongFacts DEF Among
    <3>3. g.byProvider[p] = Cardinality(Among(g.working, p))
      BY <1>6 DEF Counted
    <3>4. Cardinality(Among(g.working, p) \cup {t}) = Cardinality(Among(g.working, p)) + 1
      BY <3>2, FS_AddElement
    <3>5. CASE p = ProviderOf[t]
      BY <1>9, <3>1, <3>3, <3>4, <3>5
    <3>6. CASE p # ProviderOf[t]
      BY <1>9, <3>1, <3>3, <3>6
    <3> QED BY <3>5, <3>6
  <2> QED BY <2>1, <2>3, <2>4 DEF Counted
<1>13. Roomy(h)
  <2>1. /\ g.active < Max /\ g.byProvider[ProviderOf[t]] < LimitOf(ProviderOf[t])
        /\ \A u \in g.working : ~Collide(t, u)
    BY DEF Fits
  <2>2. h.active <= Max
    BY <1>6, <1>8, <2>1, LimitAssumption DEF Pool
  <2>3. ASSUME NEW p \in Provider PROVE h.byProvider[p] <= LimitOf(p)
    <3>1. g.byProvider[p] \in Nat /\ LimitOf(p) \in Nat
      BY <1>6, SlotFacts DEF Pool
    <3>2. g.byProvider[p] <= LimitOf(p)
      BY <1>6 DEF Roomy
    <3> QED BY <1>9, <2>1, <3>1, <3>2
  <2>4. \A u, v \in h.working : u # v => ~Collide(u, v)
    <3>1. \A u, v \in g.working : u # v => ~Collide(u, v)
      BY <1>6 DEF Roomy
    <3>2. \A u \in g.working : ~Collide(u, t)
      BY <2>1 DEF Collide
    <3> QED BY <1>8, <2>1, <3>1, <3>2
  <2> QED BY <2>2, <2>3, <2>4 DEF Roomy
<1> QED BY <1>10, <1>11, <1>12, <1>13 DEF Sound

(* The first k may start one after the other, so they may start together.    *)
LEMMA StartableSound ==
    ASSUME NEW s \in Pool, Sound(s), NEW k \in Startable(s)
    PROVE  Sound(Taken(s, k))
<1>1. Len(s.queue) \in Nat /\ k \in Nat /\ k <= Len(s.queue)
      /\ \A j \in 1 .. k : Fits(Taken(s, j - 1), s.queue[j])
  BY DEF Startable, Pool
<1> DEFINE Bad == {j \in 0 .. k : ~Sound(Taken(s, j))}
<1>2. Bad = {}
  <2> SUFFICES ASSUME Bad # {} PROVE FALSE
    OBVIOUS
  <2>1. Bad \subseteq Nat
    OBVIOUS
  <2>2. PICK j \in Bad : \A i \in Bad : <<i, j>> \notin OpToRel(<, Nat)
    BY <2>1, NatLessThanWellFounded, WFMin
  <2>3. \A i \in Bad : ~ (i < j)
    BY <2>1, <2>2, Zenon DEF OpToRel
  <2>4. j \in 0 .. k /\ ~Sound(Taken(s, j))
    OBVIOUS
  <2>5. j # 0
    BY <2>4, NoneTaken
  <2>6. j - 1 \in Nat /\ j - 1 \in 0 .. k /\ j - 1 < j /\ j = (j - 1) + 1 /\ j \in 1 .. k
        /\ j <= Len(s.queue) /\ j \in Nat
    BY <1>1, <2>4, <2>5
  <2>7. Sound(Taken(s, j - 1))
    BY <2>3, <2>6
  <2>8. Fits(Taken(s, j - 1), s.queue[j])
    BY <1>1, <2>6
  <2>9. Sound(Taken(s, j))
    BY <2>6, <2>7, <2>8, OneMore
  <2> QED BY <2>4, <2>9
<1> QED BY <1>1, <1>2

(* dispatchLocked takes as many as may start.                                *)
LEMMA LongestFacts ==
    ASSUME NEW s \in Pool
    PROVE  /\ Longest(Startable(s)) \in Startable(s)
           /\ \A j \in Startable(s) : j <= Longest(Startable(s))
<1> DEFINE n == Len(s.queue)
           S == Startable(s)
           Left == {n - k : k \in S}
<1>1. n \in Nat /\ S \subseteq 0 .. n /\ 0 \in S
  BY DEF Startable, Pool
<1> HIDE DEF n, S
<1>2. Left \subseteq Nat /\ Left # {}
  <2>1. \A k \in S : n - k \in Nat
    BY <1>1
  <2>2. n - 0 \in Left
    BY <1>1
  <2> QED BY <2>1, <2>2
<1>3. PICK l \in Left : \A i \in Left : <<i, l>> \notin OpToRel(<, Nat)
  BY <1>2, NatLessThanWellFounded, WFMin
<1>4. \A i \in Left : ~ (i < l)
  BY <1>2, <1>3, Zenon DEF OpToRel
<1>5. PICK k \in S : l = n - k
  OBVIOUS
<1>6. \A j \in S : j <= k
  BY <1>1, <1>4, <1>5
<1>7. Longest(S) \in S /\ \A j \in S : j <= Longest(S)
  BY <1>5, <1>6 DEF Longest
<1> QED BY <1>7 DEF S

(* After dispatch the books agree and the head of the queue must wait.       *)
LEMMA DispatchSound ==
    ASSUME NEW s \in Pool, Sound(s)
    PROVE  /\ Sound(Dispatched(s)) /\ Waits(Dispatched(s))
           /\ \E k \in 0 .. Len(s.queue) : Took(s, k, Dispatched(s))
<1> DEFINE k == Longest(Startable(s))
           g == Dispatched(s)
<1>1. k \in Startable(s) /\ \A j \in Startable(s) : j <= k
  BY LongestFacts
<1>2. Len(s.queue) \in Nat /\ k \in 0 .. Len(s.queue)
      /\ \A j \in 1 .. k : Fits(Taken(s, j - 1), s.queue[j])
  BY <1>1 DEF Startable, Pool
<1>3. g = Taken(s, k)
  BY DEF Dispatched
<1> HIDE DEF k, g
<1>4. Sound(g)
  BY <1>1, <1>3, StartableSound
<1>5. Took(s, k, g)
  BY <1>2, <1>3, TakenFields
<1>6. ASSUME g.queue # <<>>, Fits(g, Head(g.queue)) PROVE FALSE
  <2>1. g.queue \in Seq(Task) /\ Len(g.queue) = Len(s.queue) - k
        /\ \A i \in Ranks(g.queue) : g.queue[i] = s.queue[k + i]
    BY <1>5 DEF Took
  <2>2. Len(g.queue) \in Nat \ {0} /\ Head(g.queue) = g.queue[1]
    BY <1>6, <2>1, EmptySeq
  <2>3. 1 \in Ranks(g.queue) /\ k + 1 <= Len(s.queue)
    BY <1>2, <2>1, <2>2 DEF Ranks
  <2>4. Fits(Taken(s, k), s.queue[k + 1])
    BY <1>3, <1>6, <2>1, <2>2, <2>3
  <2>5. ASSUME NEW j \in 1 .. k + 1 PROVE Fits(Taken(s, j - 1), s.queue[j])
    <3>1. CASE j = k + 1
      <4>1. j - 1 = k
        BY <1>2, <3>1
      <4> QED BY <2>4, <3>1, <4>1
    <3>2. CASE j # k + 1
      BY <1>2, <3>2
    <3> QED BY <3>1, <3>2
  <2>6. k + 1 \in 0 .. Len(s.queue)
    BY <1>2, <2>3
  <2>7. k + 1 \in Startable(s)
    BY <2>5, <2>6 DEF Startable
  <2> QED BY <1>1, <1>2, <2>7
<1>7. Waits(g)
  BY <1>6 DEF Waits
<1> QED BY <1>2, <1>4, <1>5, <1>7 DEF g

-----------------------------------------------------------------------------
(* Joining, leaving and finishing, before dispatch.                          *)

(* The queue of b begins with that of s.                                     *)
Continues(s, b) ==
    \A i \in Ranks(s.queue) : i \in Ranks(b.queue) /\ b.queue[i] = s.queue[i]

(* A newcomer goes to the end of the queue.                                  *)
LEMMA AppendSound ==
    ASSUME NEW s \in Pool, Sound(s), NEW t \in Task, t \notin s.started \cup Queued(s),
           NEW g, g = [s EXCEPT !.queue = Append(s.queue, t)]
    PROVE  /\ g \in Pool /\ Sound(g)
           /\ g.working = s.working /\ g.started = s.started
           /\ Queued(g) = Queued(s) \cup {t}
           /\ Len(g.queue) = Len(s.queue) + 1
           /\ Continues(s, g)
           /\ g.queue[Len(s.queue) + 1] = t
<1>1. s.queue \in Seq(Task) /\ Len(s.queue) \in Nat
      /\ Append(s.queue, t) \in Seq(Task)
  BY DEF Pool
<1>2. g \in Pool
  BY <1>1 DEF Pool
<1>3. /\ g.queue = Append(s.queue, t)
      /\ g.active = s.active /\ g.byProvider = s.byProvider
      /\ g.working = s.working /\ g.started = s.started /\ g.released = s.released
  BY DEF Pool
<1>4. /\ Len(g.queue) = Len(s.queue) + 1
      /\ \A i \in Ranks(s.queue) : i \in Ranks(g.queue) /\ g.queue[i] = s.queue[i]
      /\ g.queue[Len(s.queue) + 1] = t
  BY <1>1, <1>3 DEF Ranks
<1>5. \A i \in Ranks(g.queue) : i = Len(s.queue) + 1 \/ i \in Ranks(s.queue)
  BY <1>1, <1>4 DEF Ranks
<1>6. QueueOnce(g)
  <2>1. \A i \in Ranks(s.queue) : s.queue[i] # t
    BY DEF Queued
  <2>2. \A i \in Ranks(g.queue) : g.queue[i] \notin g.started
    BY <1>3, <1>4, <1>5 DEF Sound, QueueOnce
  <2>3. ASSUME NEW i \in Ranks(g.queue), NEW j \in Ranks(g.queue), g.queue[i] = g.queue[j]
        PROVE  i = j
    BY <1>4, <1>5, <2>1, <2>3 DEF Sound, QueueOnce
  <2> QED BY <2>2, <2>3 DEF QueueOnce
<1>7. Counted(g) /\ Roomy(g)
  BY <1>3 DEF Sound, Counted, Roomy
<1>8. Queued(g) = Queued(s) \cup {t}
  <2>1. Len(s.queue) + 1 \in Ranks(g.queue)
    BY <1>1, <1>4 DEF Ranks
  <2> QED BY <1>4, <1>5, <2>1 DEF Queued
<1> QED BY <1>2, <1>3, <1>4, <1>6, <1>7, <1>8 DEF Sound, Continues

(* One waiter leaves the queue; the others keep their order.                 *)
LEMMA DequeueSound ==
    ASSUME NEW s \in Pool, Sound(s), NEW t \in Queued(s), NEW g, g = Dequeued(s, t)
    PROVE  /\ g \in Pool /\ Sound(g)
           /\ g.working = s.working /\ g.started = s.started
           /\ Queued(g) = Queued(s) \ {t}
           /\ \E e \in Ranks(s.queue) :
                /\ s.queue[e] = t
                /\ Len(g.queue) = Len(s.queue) - 1
                /\ \A i \in Ranks(g.queue) :
                    /\ g.queue[i] = IF i < e THEN s.queue[i] ELSE s.queue[i + 1]
                    /\ i \in Ranks(s.queue) /\ i + 1 \in Ranks(s.queue)
<1>1. s.queue \in Seq(Task) /\ Len(s.queue) \in Nat
  BY DEF Pool
<1> DEFINE q == s.queue
           e == PositionOf(s, t)
           r == RemoveAt(q, e)
<1>2. e \in Ranks(q) /\ q[e] = t
  BY DEF Queued, PositionOf
<1>3. g = [s EXCEPT !.queue = r]
  BY DEF Dequeued
<1>4. e \in Nat /\ 1 <= e /\ e <= Len(q)
  BY <1>1, <1>2 DEF Ranks
<1> HIDE DEF e
<1>5. /\ SubSeq(q, 1, e - 1) \in Seq(Task) /\ Len(SubSeq(q, 1, e - 1)) = e - 1
      /\ \A i \in 1 .. e - 1 : SubSeq(q, 1, e - 1)[i] = q[i]
  <2>1. \A i \in 1 .. e - 1 : q[i] \in Task
    BY <1>1, <1>4
  <2>2. /\ SubSeq(q, 1, e - 1) \in Seq(Task)
        /\ Len(SubSeq(q, 1, e - 1)) = IF 1 <= e - 1 THEN (e - 1) - 1 + 1 ELSE 0
        /\ \A i \in 1 .. (e - 1) - 1 + 1 : SubSeq(q, 1, e - 1)[i] = q[1 + i - 1]
    BY <1>4, <2>1, SubSeqProperties
  <2> QED BY <1>4, <2>2
<1>6. /\ SubSeq(q, e + 1, Len(q)) \in Seq(Task)
      /\ Len(SubSeq(q, e + 1, Len(q))) = Len(q) - e
      /\ \A i \in 1 .. Len(q) - e : SubSeq(q, e + 1, Len(q))[i] = q[e + i]
  BY <1>1, <1>4, Remainder
<1>7. r \in Seq(Task) /\ Len(r) = Len(q) - 1
      /\ \A i \in 1 .. Len(q) - 1 : r[i] = IF i < e THEN q[i] ELSE q[i + 1]
  <2> DEFINE a == SubSeq(q, 1, e - 1)
             b == SubSeq(q, e + 1, Len(q))
  <2>1. /\ r \in Seq(Task) /\ Len(r) = Len(a) + Len(b)
        /\ \A i \in 1 .. Len(a) + Len(b) : r[i] = IF i <= Len(a) THEN a[i] ELSE b[i - Len(a)]
    BY <1>5, <1>6, ConcatProperties DEF RemoveAt
  <2>2. Len(a) = e - 1 /\ Len(b) = Len(q) - e
    BY <1>5, <1>6
  <2> HIDE DEF r, a, b
  <2>3. Len(r) = Len(q) - 1
    BY <1>1, <1>4, <2>1, <2>2
  <2>4. ASSUME NEW i \in 1 .. Len(q) - 1 PROVE r[i] = IF i < e THEN q[i] ELSE q[i + 1]
    <3>1. i \in 1 .. Len(a) + Len(b)
      BY <1>1, <1>4, <2>2
    <3>2. CASE i < e
      <4>1. i <= Len(a) /\ i \in 1 .. e - 1
        BY <1>4, <2>2, <3>2
      <4> QED BY <1>5, <2>1, <3>1, <3>2, <4>1 DEF a
    <3>3. CASE ~ (i < e)
      <4>1. ~ (i <= Len(a)) /\ i - Len(a) \in 1 .. Len(q) - e /\ e + (i - Len(a)) = i + 1
        BY <1>1, <1>4, <2>2, <3>3
      <4>2. r[i] = b[i - Len(a)]
        BY <2>1, <3>1, <4>1
      <4>3. b[i - Len(a)] = q[e + (i - Len(a))]
        BY <1>6, <4>1 DEF b
      <4> QED BY <3>3, <4>1, <4>2, <4>3
    <3> QED BY <3>2, <3>3
  <2> QED BY <2>1, <2>3, <2>4
<1> HIDE DEF r
<1>8. /\ g \in Pool /\ g.queue = r
      /\ g.active = s.active /\ g.byProvider = s.byProvider
      /\ g.working = s.working /\ g.started = s.started /\ g.released = s.released
  BY <1>3, <1>7 DEF Pool
<1>9. \A i \in Ranks(g.queue) :
        /\ g.queue[i] = IF i < e THEN s.queue[i] ELSE s.queue[i + 1]
        /\ i \in Ranks(s.queue) /\ i + 1 \in Ranks(s.queue) /\ i \in Nat
  BY <1>1, <1>4, <1>7, <1>8 DEF Ranks
<1>10. QueueOnce(g)
  <2>1. QueueOnce(s)
    BY DEF Sound
  <2>2. \A i \in Ranks(g.queue) : g.queue[i] \notin g.started
    BY <1>8, <1>9, <2>1 DEF QueueOnce
  <2>3. ASSUME NEW i \in Ranks(g.queue), NEW j \in Ranks(g.queue), g.queue[i] = g.queue[j]
        PROVE  i = j
    <3> DEFINE at(x) == IF x < e THEN x ELSE x + 1
    <3>1. \A x \in Ranks(g.queue) : at(x) \in Ranks(s.queue) /\ s.queue[at(x)] = g.queue[x]
      <4> TAKE x \in Ranks(g.queue)
      <4>1. CASE x < e
        BY <1>9, <4>1
      <4>2. CASE ~ (x < e)
        BY <1>9, <4>2
      <4> QED BY <4>1, <4>2
    <3>2. at(i) = at(j)
      <4> HIDE DEF at
      <4> QED BY <2>1, <2>3, <3>1 DEF QueueOnce
    <3>3. i \in Nat /\ j \in Nat
      BY <1>9
    <3> QED BY <1>4, <3>2, <3>3
  <2> QED BY <2>2, <2>3 DEF QueueOnce
<1>11. Counted(g) /\ Roomy(g)
  BY <1>8 DEF Sound, Counted, Roomy
<1>12. Queued(g) = Queued(s) \ {t}
  <2>1. ASSUME NEW i \in Ranks(g.queue) PROVE g.queue[i] \in Queued(s) \ {t}
    <3>1. PICK x \in Ranks(s.queue) : x # e /\ g.queue[i] = s.queue[x]
      <4>1. CASE i < e
        BY <1>4, <1>9, <4>1
      <4>2. CASE ~ (i < e)
        <5>1. i + 1 # e /\ i + 1 \in Ranks(s.queue) /\ g.queue[i] = s.queue[i + 1]
          BY <1>4, <1>9, <4>2
        <5> QED BY <5>1
      <4> QED BY <4>1, <4>2
    <3>2. s.queue[x] # t
      BY <1>2, <3>1 DEF Sound, QueueOnce
    <3> QED BY <3>1, <3>2 DEF Queued
  <2>2. ASSUME NEW x \in Ranks(s.queue), s.queue[x] # t PROVE s.queue[x] \in Queued(g)
    <3>1. x \in Nat /\ 1 <= x /\ x <= Len(q) /\ x # e
      BY <1>1, <1>2, <2>2 DEF Ranks
    <3>2. CASE x < e
      <4>1. x \in Ranks(g.queue)
        BY <1>1, <1>4, <1>7, <1>8, <3>1, <3>2 DEF Ranks
      <4> QED BY <1>9, <3>2, <4>1 DEF Queued
    <3>3. CASE x > e
      <4>1. x - 1 \in Ranks(g.queue) /\ ~ (x - 1 < e) /\ (x - 1) + 1 = x
        BY <1>1, <1>4, <1>7, <1>8, <3>1, <3>3 DEF Ranks
      <4>2. g.queue[x - 1] = s.queue[x]
        BY <1>9, <4>1
      <4> QED BY <4>1, <4>2 DEF Queued
    <3> QED BY <1>4, <3>1, <3>2, <3>3
  <2> QED BY <2>1, <2>2 DEF Queued
<1> QED BY <1>2, <1>7, <1>8, <1>9, <1>10, <1>11, <1>12 DEF Sound

(* A slot that is held is given back.                                        *)
LEMMA FreedSound ==
    ASSUME NEW s \in Pool, Sound(s), NEW t \in Task, Holds(s, t), NEW g, g = Freed(s, t)
    PROVE  /\ g \in Pool /\ Sound(g)
           /\ g.queue = s.queue /\ g.working = s.working \ {t} /\ g.started = s.started
<1> DEFINE p0 == ProviderOf[t]
<1>1. p0 \in Provider
  BY TaskAssumption
<1>2. s.working \subseteq Task /\ t \in s.working /\ IsFiniteSet(s.working)
  <2>1. s.working \subseteq Task /\ t \in s.working
    BY DEF Sound, Counted, Holds, Pool
  <2> QED BY <2>1, TaskAssumption, FS_Subset
<1>3. /\ g.queue = s.queue /\ g.active = s.active - 1
      /\ g.working = s.working \ {t} /\ g.started = s.started
      /\ g.released = s.released \cup {t}
      /\ g.byProvider = [s.byProvider EXCEPT ![p0] = @ - 1]
  BY DEF Freed, Pool
<1> HIDE DEF p0
<1>4. g.active = Cardinality(g.working) /\ g.active \in Nat /\ g.active <= s.active
  <2>1. /\ IsFiniteSet(s.working \ {t})
        /\ Cardinality(s.working \ {t}) = Cardinality(s.working) - 1
    BY <1>2, FS_RemoveElement
  <2>2. Cardinality(s.working \ {t}) \in Nat
    BY <2>1, FS_CardinalityType
  <2>3. s.active = Cardinality(s.working) /\ s.active \in Nat
    BY DEF Sound, Counted, Pool
  <2> QED BY <1>3, <2>1, <2>2, <2>3
<1>5. \A p \in Provider : /\ g.byProvider[p] = Cardinality(Among(g.working, p))
                          /\ g.byProvider[p] \in Nat /\ g.byProvider[p] <= s.byProvider[p]
  <2> SUFFICES ASSUME NEW p \in Provider
               PROVE  /\ g.byProvider[p] = Cardinality(Among(g.working, p))
                      /\ g.byProvider[p] \in Nat /\ g.byProvider[p] <= s.byProvider[p]
    OBVIOUS
  <2>1. s.byProvider[p] = Cardinality(Among(s.working, p)) /\ s.byProvider[p] \in Nat
        /\ s.byProvider \in [Provider -> Nat]
    BY DEF Sound, Counted, Pool
  <2>2. g.byProvider[p] = IF p = p0 THEN s.byProvider[p] - 1 ELSE s.byProvider[p]
    BY <1>1, <1>3, <2>1
  <2>3. CASE p = p0
    <3>1. t \in Among(s.working, p) /\ Among(g.working, p) = Among(s.working, p) \ {t}
      BY <1>2, <1>3, <2>3 DEF Among, p0
    <3>2. IsFiniteSet(Among(s.working, p))
      BY <1>2, AmongFacts
    <3>3. /\ IsFiniteSet(Among(g.working, p))
          /\ Cardinality(Among(g.working, p)) = Cardinality(Among(s.working, p)) - 1
      BY <3>1, <3>2, FS_RemoveElement
    <3>4. Cardinality(Among(g.working, p)) \in Nat
      BY <3>3, FS_CardinalityType
    <3> QED BY <2>1, <2>2, <2>3, <3>3, <3>4
  <2>4. CASE p # p0
    <3>1. Among(g.working, p) = Among(s.working, p)
      BY <1>3, <2>4 DEF Among, p0
    <3> QED BY <2>1, <2>2, <2>4, <3>1
  <2> QED BY <2>3, <2>4
<1>6. g \in Pool
  <2>1. g.byProvider \in [Provider -> Nat]
    BY <1>3, <1>5 DEF Pool
  <2>2. g = [s EXCEPT !.released = g.released, !.active = g.active,
                      !.byProvider = g.byProvider, !.working = g.working]
    BY <1>3 DEF Freed, Pool, p0
  <2>3. g.released \subseteq Task /\ g.working \subseteq Task
    BY <1>2, <1>3 DEF Pool
  <2> QED BY <1>4, <2>1, <2>2, <2>3 DEF Pool
<1>7. QueueOnce(g)
  BY <1>3 DEF Sound, QueueOnce
<1>8. Counted(g)
  <2>1. g.released \subseteq g.started /\ g.working = g.started \ g.released
    BY <1>3 DEF Sound, Counted, Holds
  <2> QED BY <1>4, <1>5, <2>1 DEF Counted
<1>9. Roomy(g)
  <2>1. g.active <= Max
    BY <1>4, LimitAssumption DEF Sound, Roomy, Pool
  <2>2. ASSUME NEW p \in Provider PROVE g.byProvider[p] <= LimitOf(p)
    <3>1. s.byProvider[p] <= LimitOf(p) /\ LimitOf(p) \in Nat /\ s.byProvider[p] \in Nat
      BY SlotFacts DEF Sound, Roomy, Pool
    <3> QED BY <1>5, <3>1
  <2>3. \A u, v \in g.working : u # v => ~Collide(u, v)
    BY <1>3 DEF Sound, Roomy
  <2> QED BY <2>1, <2>2, <2>3 DEF Roomy
<1> QED BY <1>3, <1>6, <1>7, <1>8, <1>9 DEF Sound

(* Dispatch moves tasks from the queue to the slots; their goroutines do not  *)
(* know it yet.                                                              *)
LEMMA DispatchPlaced ==
    ASSUME NEW s \in Pool, Sound(s), NEW f, Placed(s, f)
    PROVE  Placed(Dispatched(s), f)
<1> DEFINE g == Dispatched(s)
<1>1. PICK k \in 0 .. Len(s.queue) : Took(s, k, g)
  BY DispatchSound
<1>2. k \in Nat /\ k <= Len(s.queue) /\ Len(s.queue) \in Nat
  BY DEF Pool
<1> HIDE DEF g
<1>3. /\ g.working = s.working \cup Foremost(s, k)
      /\ g.started = s.started \cup Foremost(s, k)
      /\ Foremost(s, k) \subseteq Queued(s)
  BY <1>1 DEF Took
<1>4. Queued(g) \subseteq Queued(s)
  BY <1>1 DEF Took, Queued
<1>5. Queued(s) \subseteq Foremost(s, k) \cup Queued(g)
  <2>1. ASSUME NEW i \in Ranks(s.queue) PROVE s.queue[i] \in Foremost(s, k) \cup Queued(g)
    <3>1. CASE i <= k
      BY <1>2, <3>1 DEF Foremost, Ranks
    <3>2. CASE i > k
      <4>1. i - k \in Ranks(g.queue) /\ k + (i - k) = i
        BY <1>1, <1>2, <3>2 DEF Took, Ranks
      <4>2. g.queue[i - k] = s.queue[k + (i - k)]
        BY <1>1, <4>1 DEF Took
      <4> QED BY <4>1, <4>2 DEF Queued
    <3> QED BY <1>2, <3>1, <3>2 DEF Ranks
  <2> QED BY <2>1 DEF Queued
<1> QED BY <1>3, <1>4, <1>5 DEF Placed, g

(* A task that started did so in its turn.                                   *)
LEMMA DispatchInOrder ==
    ASSUME NEW s \in Pool, Sound(s), NEW u \in Dispatched(s).started \ s.started
    PROVE  \E m \in Ranks(s.queue) :
                s.queue[m] = u /\ \A i \in 1 .. m : s.queue[i] \in Dispatched(s).started
<1> DEFINE g == Dispatched(s)
<1>1. PICK k \in 0 .. Len(s.queue) : Took(s, k, g)
  BY DispatchSound
<1>2. k \in Nat /\ k <= Len(s.queue) /\ Len(s.queue) \in Nat
  BY DEF Pool
<1> HIDE DEF g
<1>3. g.started = s.started \cup Foremost(s, k)
  BY <1>1 DEF Took
<1>4. PICK m \in 1 .. k : s.queue[m] = u
  BY <1>3 DEF Foremost, g
<1>5. m \in Ranks(s.queue)
  BY <1>2 DEF Ranks
<1>6. \A i \in 1 .. m : s.queue[i] \in g.started
  <2>1. \A i \in 1 .. m : i \in 1 .. k
    BY <1>2
  <2> QED BY <1>3, <2>1 DEF Foremost
<1> QED BY <1>4, <1>5, <1>6 DEF g

-----------------------------------------------------------------------------
(* The steps.                                                               *)

(* A new scheduler is sound.                                                 *)
LEMMA InitSound == SchedulerInit => IInv
<1> SUFFICES ASSUME SchedulerInit PROVE IInv
  OBVIOUS
<1>1. /\ pool.queue = <<>> /\ pool.active = 0 /\ pool.byProvider = [p \in Provider |-> 0]
      /\ pool.working = {} /\ pool.started = {} /\ pool.released = {}
      /\ place = [t \in Task |-> "outside"] /\ lapsed = {}
  BY DEF SchedulerInit, EmptyPool, Nowhere
<1>2. pool \in Pool
  BY DEF SchedulerInit, EmptyPool, Pool
<1>3. SchedulerTypeOK
  BY <1>1, <1>2 DEF SchedulerTypeOK, Places
<1>4. Ranks(pool.queue) = {} /\ Queued(pool) = {}
  BY <1>1 DEF Ranks, Queued
<1>5. Counted(pool)
  <2>1. \A p \in Provider : Among({}, p) = {}
    BY DEF Among
  <2> QED BY <1>1, <2>1, FS_EmptySet DEF Counted
<1>6. Roomy(pool)
  BY <1>1, LimitAssumption, SlotFacts DEF Roomy
<1>7. QueueOnce(pool) /\ Waits(pool)
  BY <1>1, <1>4 DEF QueueOnce, Waits
<1>8. Placed(pool, place)
  BY <1>1, <1>4 DEF Placed
<1> QED BY <1>2, <1>3, <1>5, <1>6, <1>7, <1>8 DEF IInv, Sound

(* What every dispatching step does: from a sound base, with the goroutines   *)
(* placed accordingly, to a sound scheduler whose head waits.                *)
LEMMA Settles ==
    ASSUME NEW b \in Pool, Sound(b), NEW f \in [Task -> Places], Placed(b, f),
           NEW g, g = Dispatched(b)
    PROVE  g \in Pool /\ Sound(g) /\ Waits(g) /\ Placed(g, f)
BY DispatchSound, DispatchPlaced DEF Sound

(* Asking for a slot keeps the books.                                        *)
LEMMA AcquireKeeps ==
    ASSUME IInv, NEW t \in Task, AcquireScoped(t) PROVE IInv'
<1> DEFINE b == [pool EXCEPT !.queue = Append(pool.queue, t)]
<1>1. /\ pool \in Pool /\ Sound(pool) /\ Placed(pool, place)
      /\ place \in [Task -> Places] /\ lapsed \subseteq Task
  BY DEF IInv, SchedulerTypeOK
<1>2. /\ place[t] = "outside" /\ pool' = Dispatched(b)
      /\ place' = [place EXCEPT ![t] = "waiting"] /\ lapsed' = lapsed
  BY DEF AcquireScoped
<1>3. t \notin pool.started \cup Queued(pool)
  BY <1>1, <1>2 DEF Placed
<1> HIDE DEF b
<1>4. /\ b \in Pool /\ Sound(b) /\ Queued(b) = Queued(pool) \cup {t}
      /\ b.working = pool.working /\ b.started = pool.started
  BY <1>1, <1>3, AppendSound DEF b
<1>5. t \notin pool.working
  BY <1>1, <1>3 DEF Sound, Counted
<1>6. place' \in [Task -> Places]
  BY <1>1, <1>2 DEF Places
<1>7. Placed(b, place')
  BY <1>1, <1>2, <1>4, <1>5 DEF Placed
<1>8. pool' \in Pool /\ Sound(pool') /\ Waits(pool') /\ Placed(pool', place')
  BY <1>2, <1>4, <1>6, <1>7, Settles
<1>9. SchedulerTypeOK'
  BY <1>1, <1>2, <1>6, <1>8 DEF SchedulerTypeOK
<1>10. Sound(pool)' /\ Waits(pool)' /\ Placed(pool, place)'
  BY <1>8
<1> QED BY <1>9, <1>10 DEF IInv

(* A waiter that was started holds a slot: it may proceed.                   *)
LEMMA ProceedKeeps ==
    ASSUME IInv, NEW t \in Task, Proceed(t) PROVE IInv'
<1>1. /\ pool \in Pool /\ Sound(pool) /\ Waits(pool) /\ Placed(pool, place)
      /\ place \in [Task -> Places] /\ lapsed \subseteq Task
  BY DEF IInv, SchedulerTypeOK
<1>2. /\ place[t] = "waiting" /\ t \in pool.started /\ pool' = pool
      /\ place' = [place EXCEPT ![t] = "running"] /\ lapsed' = lapsed
  BY DEF Proceed
<1>3. t \notin Queued(pool)
  BY <1>1, <1>2 DEF Sound, QueueOnce, Queued
<1>4. t \in pool.working
  BY <1>1, <1>2, <1>3 DEF Placed
<1>5. place' \in [Task -> Places]
  BY <1>1, <1>2 DEF Places
<1>6. Placed(pool, place')
  BY <1>1, <1>2, <1>3, <1>4 DEF Placed
<1>7. SchedulerTypeOK'
  BY <1>1, <1>2, <1>5 DEF SchedulerTypeOK
<1>8. Sound(pool)' /\ Waits(pool)' /\ Placed(pool, place)'
  BY <1>1, <1>2, <1>6
<1> QED BY <1>7, <1>8 DEF IInv

(* The state a withdrawal dispatches from.                                   *)
LEMMA WithdrawBase ==
    ASSUME IInv, NEW t \in Task, place[t] = "waiting"
    PROVE  \/ /\ Holds(pool, t) /\ t \notin Queued(pool)
              /\ Withdrawn(pool, t) = Dispatched(Freed(pool, t))
           \/ /\ t \in Queued(pool) /\ t \notin pool.started /\ t \notin pool.working
              /\ Withdrawn(pool, t) = Dispatched(Dequeued(pool, t))
<1>1. Sound(pool) /\ Placed(pool, place)
  BY DEF IInv
<1>2. CASE Holds(pool, t)
  BY <1>1, <1>2 DEF Withdrawn, Holds, Sound, QueueOnce, Queued
<1>3. CASE ~Holds(pool, t)
  <2>1. t \notin pool.working
    BY <1>1, <1>3 DEF Holds, Sound, Counted
  <2>2. t \in Queued(pool)
    BY <1>1, <2>1 DEF Placed
  <2>3. t \notin pool.started
    BY <1>1, <2>2 DEF Sound, QueueOnce, Queued
  <2> QED BY <1>3, <2>1, <2>2, <2>3 DEF Withdrawn
<1> QED BY <1>2, <1>3

(* Withdrawing keeps the books, whether dispatch was faster or not.          *)
LEMMA WithdrawKeeps ==
    ASSUME IInv, NEW t \in Task, Withdraw(t) PROVE IInv'
<1>1. /\ pool \in Pool /\ Sound(pool) /\ Placed(pool, place)
      /\ place \in [Task -> Places] /\ lapsed \subseteq Task
  BY DEF IInv, SchedulerTypeOK
<1>2. /\ place[t] = "waiting" /\ pool' = Withdrawn(pool, t)
      /\ place' = [place EXCEPT ![t] = "refused"] /\ lapsed' = lapsed
  BY DEF Withdraw
<1>3. place' \in [Task -> Places]
  BY <1>1, <1>2 DEF Places
<1>4. pool' \in Pool /\ Sound(pool') /\ Waits(pool') /\ Placed(pool', place')
  <2>1. CASE Holds(pool, t) /\ t \notin Queued(pool) /\ pool' = Dispatched(Freed(pool, t))
    <3> DEFINE b == Freed(pool, t)
    <3>1. /\ b \in Pool /\ Sound(b) /\ b.queue = pool.queue
          /\ b.working = pool.working \ {t} /\ b.started = pool.started
      BY <1>1, <2>1, FreedSound
    <3> HIDE DEF b
    <3>2. Queued(b) = Queued(pool)
      BY <3>1 DEF Queued
    <3>3. Placed(b, place')
      BY <1>1, <1>2, <2>1, <3>1, <3>2 DEF Placed
    <3> QED BY <1>3, <2>1, <3>1, <3>3, Settles DEF b
  <2>2. CASE /\ t \in Queued(pool) /\ t \notin pool.started /\ t \notin pool.working
             /\ pool' = Dispatched(Dequeued(pool, t))
    <3> DEFINE b == Dequeued(pool, t)
    <3>1. /\ b \in Pool /\ Sound(b) /\ Queued(b) = Queued(pool) \ {t}
          /\ b.working = pool.working /\ b.started = pool.started
      BY <1>1, <2>2, DequeueSound
    <3> HIDE DEF b
    <3>2. Placed(b, place')
      BY <1>1, <1>2, <2>2, <3>1 DEF Placed
    <3> QED BY <1>3, <2>2, <3>1, <3>2, Settles DEF b
  <2> QED BY <1>2, <2>1, <2>2, WithdrawBase
<1>5. SchedulerTypeOK'
  BY <1>1, <1>2, <1>3, <1>4 DEF SchedulerTypeOK
<1>6. Sound(pool)' /\ Waits(pool)' /\ Placed(pool, place)'
  BY <1>4
<1> QED BY <1>5, <1>6 DEF IInv

(* Releasing keeps the books, the first time and again.                      *)
LEMMA ReleaseKeeps ==
    ASSUME IInv, NEW t \in Task, Release(t) PROVE IInv'
<1>1. /\ pool \in Pool /\ Sound(pool) /\ Waits(pool) /\ Placed(pool, place)
      /\ place \in [Task -> Places] /\ lapsed \subseteq Task
  BY DEF IInv, SchedulerTypeOK
<1>2. /\ place[t] \in {"running", "returned"} /\ pool' = Released(pool, t)
      /\ place' = [place EXCEPT ![t] = "returned"] /\ lapsed' = lapsed
  BY DEF Release
<1>3. place' \in [Task -> Places]
  BY <1>1, <1>2 DEF Places
<1>4. t \notin Queued(pool)
  BY <1>1, <1>2 DEF Placed
<1>5. pool' \in Pool /\ Sound(pool') /\ Waits(pool') /\ Placed(pool', place')
  <2>1. CASE Holds(pool, t)
    <3> DEFINE b == Freed(pool, t)
    <3>1. /\ b \in Pool /\ Sound(b) /\ b.queue = pool.queue
          /\ b.working = pool.working \ {t} /\ b.started = pool.started
      BY <1>1, <2>1, FreedSound
    <3>2. pool' = Dispatched(b)
      BY <1>2, <2>1 DEF Released
    <3> HIDE DEF b
    <3>3. Queued(b) = Queued(pool)
      BY <3>1 DEF Queued
    <3>4. Placed(b, place')
      BY <1>1, <1>2, <1>4, <3>1, <3>3 DEF Placed
    <3> QED BY <1>3, <3>1, <3>2, <3>4, Settles
  <2>2. CASE ~Holds(pool, t)
    <3>1. pool' = pool
      BY <1>2, <2>2 DEF Released
    <3>2. t \notin pool.working
      BY <1>1, <2>2 DEF Holds, Sound, Counted
    <3>3. Placed(pool, place')
      BY <1>1, <1>2, <1>4, <3>2 DEF Placed
    <3> QED BY <1>1, <3>1, <3>3
  <2> QED BY <2>1, <2>2
<1>6. SchedulerTypeOK'
  BY <1>1, <1>2, <1>3, <1>5 DEF SchedulerTypeOK
<1>7. Sound(pool)' /\ Waits(pool)' /\ Placed(pool, place)'
  BY <1>5
<1> QED BY <1>6, <1>7 DEF IInv

(* The end of a context alone changes nothing in the scheduler.              *)
LEMMA UnchangedKeeps ==
    ASSUME IInv, pool' = pool, place' = place, lapsed' \subseteq Task PROVE IInv'
<1>1. SchedulerTypeOK'
  BY DEF IInv, SchedulerTypeOK
<1>2. Sound(pool)' /\ Waits(pool)' /\ Placed(pool, place)'
  BY DEF IInv
<1> QED BY <1>1, <1>2 DEF IInv

(* Every step of the scheduler and its callers keeps the books.              *)
LEMMA NextSound == IInv /\ [SchedulerNext]_schedulerVars => IInv'
<1> SUFFICES ASSUME IInv, [SchedulerNext]_schedulerVars PROVE IInv'
  OBVIOUS
<1>1. lapsed \subseteq Task
  BY DEF IInv, SchedulerTypeOK
<1>2. CASE UNCHANGED schedulerVars
  BY <1>1, <1>2, UnchangedKeeps DEF schedulerVars
<1>3. ASSUME NEW t \in Task, Lapse(t) PROVE IInv'
  BY <1>1, <1>3, UnchangedKeeps DEF Lapse
<1> QED BY <1>2, <1>3, AcquireKeeps, ProceedKeeps, WithdrawKeeps, ReleaseKeeps DEF SchedulerNext

-----------------------------------------------------------------------------
(* The theorems.                                                            *)

(* The scheduler's books: the queue, the slots, the limits, the scopes and    *)
(* the waiters' goroutines agree in every reachable state of NewScheduler,    *)
(* AcquireScoped and release.                                                *)
THEOREM SchedulerSound == SchedulerSpec => []IInv
BY InitSound, NextSound, PTL DEF SchedulerSpec

(* Every variable of the scheduler keeps its type; active and                *)
(* activeByProvider never become negative.                                   *)
THEOREM SchedulerTypes == SchedulerSpec => []SchedulerTypeOK
<1>1. IInv => SchedulerTypeOK
  BY DEF IInv
<1> QED BY <1>1, SchedulerSound, PTL

(* The books say who holds each slot.                                        *)
LEMMA BooksAccounted == IInv => SlotsAccounted
<1> SUFFICES ASSUME IInv PROVE SlotsAccounted
  OBVIOUS
<1>1. /\ pool \in Pool /\ Counted(pool) /\ Placed(pool, place)
      /\ pool.queue \in Seq(Task) /\ Len(pool.queue) \in Nat /\ pool.working \subseteq Task
  BY DEF IInv, Sound, Pool
<1>2. \A i \in Ranks(pool.queue) : pool.queue[i] \in Task /\ pool.queue[i] \in Queued(pool)
  BY <1>1, ElementOfSeq DEF Ranks, Queued
<1> QED BY <1>1, <1>2 DEF SlotsAccounted, Counted, Placed

(* A slot counted is held by a task that will give it back, whichever side   *)
(* of the select in AcquireScoped wins.                                      *)
THEOREM SlotsAreAccounted == SchedulerSpec => []SlotsAccounted
BY BooksAccounted, SchedulerSound, PTL

(* No wake-up is lost: between two calls the head of the queue could not      *)
(* start (dispatchLocked ends every step that frees room or adds a waiter).   *)
THEOREM NoLostWakeup == SchedulerSpec => []HeadMustWait
<1>1. IInv => HeadMustWait
  BY DEF IInv, Waits, HeadMustWait
<1> QED BY <1>1, SchedulerSound, PTL

(* NobodyOvertakes without its box.                                          *)
InTurn ==
    \A i \in Ranks(pool.queue), t \in pool'.started \ pool.started :
        (\A j \in 1 .. i : pool.queue[j] # t) =>
            pool.queue[i] \in pool'.started \/ place'[pool.queue[i]] = "refused"

(* No step lets a task overtake another.                                     *)
LEMMA StepInTurn == IInv /\ [SchedulerNext]_schedulerVars => InTurn
<1> SUFFICES ASSUME IInv, [SchedulerNext]_schedulerVars,
                    NEW i \in Ranks(pool.queue), NEW u \in pool'.started \ pool.started,
                    \A j \in 1 .. i : pool.queue[j] # u
             PROVE  pool.queue[i] \in pool'.started \/ place'[pool.queue[i]] = "refused"
  BY DEF InTurn
<1>1. /\ pool \in Pool /\ Sound(pool) /\ Placed(pool, place) /\ place \in [Task -> Places]
      /\ pool.queue \in Seq(Task) /\ Len(pool.queue) \in Nat
      /\ i \in Nat /\ 1 <= i /\ i <= Len(pool.queue)
  BY DEF IInv, SchedulerTypeOK, Pool, Ranks
<1>2. ASSUME NEW b \in Pool, Sound(b), pool' = Dispatched(b), b.started = pool.started,
             Continues(pool, b)
      PROVE  pool.queue[i] \in pool'.started
  <2>1. PICK m \in Ranks(b.queue) :
            b.queue[m] = u /\ \A j \in 1 .. m : b.queue[j] \in pool'.started
    BY <1>2, DispatchInOrder
  <2>2. m \in Nat /\ 1 <= m
    BY DEF Ranks
  <2>3. ~ (m <= i)
    <3> SUFFICES ASSUME m <= i PROVE FALSE
      OBVIOUS
    <3>1. m \in Ranks(pool.queue) /\ m \in 1 .. i
      BY <1>1, <2>2 DEF Ranks
    <3> QED BY <1>2, <2>1, <3>1 DEF Continues
  <2>4. i \in 1 .. m
    BY <1>1, <2>2, <2>3
  <2> QED BY <1>2, <2>1, <2>4 DEF Continues
<1>3. ASSUME NEW t \in Task, Holds(pool, t), pool' = Dispatched(Freed(pool, t))
      PROVE  pool.queue[i] \in pool'.started
  <2> DEFINE b == Freed(pool, t)
  <2>1. b \in Pool /\ Sound(b) /\ b.queue = pool.queue /\ b.started = pool.started
    BY <1>1, <1>3, FreedSound
  <2>2. Continues(pool, b)
    BY <2>1 DEF Continues
  <2> QED BY <1>2, <1>3, <2>1, <2>2
<1>4. ASSUME NEW t \in Task, AcquireScoped(t) PROVE pool.queue[i] \in pool'.started
  <2> DEFINE b == [pool EXCEPT !.queue = Append(pool.queue, t)]
  <2>1. pool' = Dispatched(b) /\ t \notin pool.started \cup Queued(pool)
    BY <1>1, <1>4 DEF AcquireScoped, Placed
  <2> HIDE DEF b
  <2>2. b = [pool EXCEPT !.queue = Append(pool.queue, t)]
    BY DEF b
  <2>3. b \in Pool /\ Sound(b) /\ b.started = pool.started
    BY <1>1, <2>1, <2>2, AppendSound
  <2>4. Continues(pool, b)
    BY <1>1, <2>1, <2>2, AppendSound
  <2> QED BY <1>2, <2>1, <2>3, <2>4
<1>5. ASSUME NEW t \in Task, Withdraw(t)
      PROVE  pool.queue[i] \in pool'.started \/ place'[pool.queue[i]] = "refused"
  <2>1. place[t] = "waiting" /\ pool' = Withdrawn(pool, t) /\ place'[t] = "refused"
    BY <1>1, <1>5 DEF Withdraw
  <2>2. CASE Holds(pool, t) /\ pool' = Dispatched(Freed(pool, t))
    BY <1>3, <2>2
  <2>3. CASE t \in Queued(pool) /\ pool' = Dispatched(Dequeued(pool, t))
    <3> DEFINE b == Dequeued(pool, t)
    <3>1. b \in Pool /\ Sound(b) /\ b.started = pool.started
      BY <1>1, <2>3, DequeueSound
    <3>2. PICK e \in Ranks(pool.queue) :
            /\ pool.queue[e] = t
            /\ Len(b.queue) = Len(pool.queue) - 1
            /\ \A j \in Ranks(b.queue) :
                b.queue[j] = IF j < e THEN pool.queue[j] ELSE pool.queue[j + 1]
      BY <1>1, <2>3, DequeueSound
    <3>3. pool' = Dispatched(b)
      BY <2>3
    <3> HIDE DEF b
    <3>4. e \in Nat /\ 1 <= e /\ e <= Len(pool.queue)
      BY <1>1 DEF Ranks
    <3>5. PICK m \in Ranks(b.queue) :
            b.queue[m] = u /\ \A j \in 1 .. m : b.queue[j] \in pool'.started
      BY <3>1, <3>3, DispatchInOrder
    <3>6. m \in Nat /\ 1 <= m /\ m <= Len(pool.queue) - 1
      BY <1>1, <3>2 DEF Ranks
    <3>7. CASE i = e
      BY <2>1, <3>2, <3>7
    <3>8. CASE i < e
      <4>1. m > i
        <5> SUFFICES ASSUME m <= i PROVE FALSE
          BY <1>1, <3>6
        <5>1. m < e /\ m \in 1 .. i
          BY <1>1, <3>4, <3>6, <3>8
        <5> QED BY <3>2, <3>5, <5>1
      <4>2. i \in 1 .. m /\ i \in Ranks(b.queue)
        BY <1>1, <3>2, <3>6, <4>1 DEF Ranks
      <4>3. b.queue[i] = pool.queue[i]
        BY <3>2, <3>8, <4>2
      <4> QED BY <3>5, <4>2, <4>3
    <3>9. CASE i > e
      <4>1. m > i - 1
        <5> SUFFICES ASSUME m <= i - 1 PROVE FALSE
          BY <1>1, <3>6
        <5>1. m \in 1 .. i /\ m + 1 \in 1 .. i
          BY <1>1, <3>6
        <5>2. b.queue[m] = pool.queue[m] \/ b.queue[m] = pool.queue[m + 1]
          BY <3>2
        <5> QED BY <3>5, <5>1, <5>2
      <4>2. i - 1 \in 1 .. m /\ i - 1 \in Ranks(b.queue) /\ ~ (i - 1 < e) /\ (i - 1) + 1 = i
        BY <1>1, <3>2, <3>4, <3>6, <3>9, <4>1 DEF Ranks
      <4>3. b.queue[i - 1] = pool.queue[i]
        BY <3>2, <4>2
      <4> QED BY <3>5, <4>2, <4>3
    <3> QED BY <1>1, <3>4, <3>7, <3>8, <3>9
  <2> QED BY <2>1, <2>2, <2>3, WithdrawBase
<1>6. ASSUME NEW t \in Task, Release(t) PROVE pool.queue[i] \in pool'.started
  BY <1>3, <1>6 DEF Release, Released
<1>7. CASE pool' = pool
  BY <1>7
<1> QED BY <1>4, <1>5, <1>6, <1>7 DEF SchedulerNext, schedulerVars, Proceed, Lapse

(* Strict FIFO: nobody is admitted before a task that asked earlier and still *)
(* waits, also when a withdrawal or a newcomer triggers the dispatch.        *)
THEOREM FirstComeFirstServed == SchedulerSpec => NobodyOvertakes
<1>1. IInv /\ [SchedulerNext]_schedulerVars => [InTurn]_schedulerVars
  BY StepInTurn
<1> QED BY <1>1, SchedulerSound, PTL DEF SchedulerSpec, NobodyOvertakes, InTurn

-----------------------------------------------------------------------------
(* The refinement.                                                          *)

Inside == {t \in Task : place[t] = "running"}

(* The tasks that run have slots, so there is room for them.                 *)
LEMMA RunningHaveRoom == IInv => PoolView!Room(Inside)
<1> SUFFICES ASSUME IInv PROVE PoolView!Room(Inside)
  OBVIOUS
<1>1. /\ pool.working \subseteq Task /\ Counted(pool) /\ Roomy(pool)
      /\ pool.active \in Nat /\ pool.byProvider \in [Provider -> Nat]
  BY DEF IInv, Sound, Pool
<1>2. Inside \subseteq pool.working
  BY DEF IInv, Placed, Inside
<1>3. IsFiniteSet(pool.working)
  BY <1>1, TaskAssumption, FS_Subset
<1>4. Cardinality(Inside) <= Max
  <2>1. Cardinality(Inside) <= Cardinality(pool.working)
        /\ Cardinality(Inside) \in Nat
    BY <1>2, <1>3, FS_Subset, FS_CardinalityType
  <2> QED BY <1>1, <2>1, LimitAssumption DEF Counted, Roomy
<1>5. ASSUME NEW p \in Provider, Limit[p] > 0
      PROVE  Cardinality(PoolView!Of(Inside, p)) <= Limit[p]
  <2>1. PoolView!Of(Inside, p) \subseteq Among(pool.working, p)
    BY <1>2 DEF PoolView!Of, Among
  <2>2. IsFiniteSet(Among(pool.working, p))
    BY <1>1, AmongFacts
  <2>3. /\ Cardinality(PoolView!Of(Inside, p)) <= Cardinality(Among(pool.working, p))
        /\ Cardinality(PoolView!Of(Inside, p)) \in Nat
    BY <2>1, <2>2, FS_Subset, FS_CardinalityType
  <2>4. pool.byProvider[p] = Cardinality(Among(pool.working, p))
        /\ pool.byProvider[p] <= Limit[p] /\ pool.byProvider[p] \in Nat
    BY <1>1, <1>5 DEF Counted, Roomy, LimitOf
  <2> QED BY <2>3, <2>4, LimitAssumption
<1>6. \A t, v \in Inside : t # v => ScopeOf[t] \cap ScopeOf[v] = {}
  BY <1>1, <1>2 DEF Roomy, Collide
<1>7. \A S : PoolView!Cardinality(S) = Cardinality(S)
  BY DEF PoolView!Cardinality, Cardinality
<1> QED BY <1>4, <1>5, <1>6, <1>7 DEF PoolView!Room

(* An empty scheduler is an empty pool.                                      *)
LEMMA InitMaps == SchedulerInit => PoolView!Init
BY DEF SchedulerInit, Nowhere, PoolView!Init

(* A task enters when it proceeds; every other step lets some leave or none.  *)
LEMMA StepMaps ==
    ASSUME IInv, IInv', [SchedulerNext]_schedulerVars
    PROVE  PoolView!Leave \/ \E t \in Task : PoolView!Enter(t)
<1>1. place \in [Task -> Places]
  BY DEF IInv, SchedulerTypeOK
<1>2. PoolView!Room(Inside')
  <2>1. (PoolView!Room(Inside))'
    BY RunningHaveRoom, PTL
  <2> QED BY <2>1
<1>3. ASSUME NEW t \in Task, Proceed(t) PROVE PoolView!Enter(t)
  <2>1. place[t] = "waiting" /\ place' = [place EXCEPT ![t] = "running"]
    BY <1>3 DEF Proceed
  <2>2. t \notin Inside /\ Inside' = Inside \cup {t}
    BY <1>1, <2>1 DEF Inside
  <2> QED BY <1>2, <2>2 DEF PoolView!Enter, Inside
<1>4. ASSUME NEW t \in Task,
             \/ AcquireScoped(t) \/ Withdraw(t) \/ Release(t) \/ Lapse(t)
      PROVE  PoolView!Leave
  BY <1>1, <1>4 DEF AcquireScoped, Withdraw, Release, Lapse, PoolView!Leave
<1>5. CASE UNCHANGED schedulerVars
  BY <1>5 DEF schedulerVars, PoolView!Leave
<1> QED BY <1>3, <1>4, <1>5 DEF SchedulerNext

(* The scheduler implements the pool it promises: never more tasks at once    *)
(* than the limits allow, never two that may write the same path.            *)
THEOREM SchedulerImplementsPool == SchedulerSpec => ImplementsPool
<1>1. IInv /\ IInv' /\ [SchedulerNext]_schedulerVars
        => PoolView!Leave \/ \E t \in Task : PoolView!Enter(t)
  BY StepMaps
<1> QED BY <1>1, InitMaps, SchedulerSound, PTL DEF SchedulerSpec, ImplementsPool, PoolView!Spec

-----------------------------------------------------------------------------
(* Delegation: its inductive invariant.                                     *)

(* The snapshot that carried k: Team's status as it is since.                *)
Sent(t, k) == [status |-> status[t], revision |-> k]

(* Only chunks were numbered after the snapshot k, and none after the end.  Of  *)
(* the records on their way or in the log none is ahead of k, and k's is one.  *)
Tracks(t, k) ==
    /\ k <= revision[t] /\ (status[t] \notin Active => k = revision[t])
    /\ view[t].revision <= k
    /\ view[t].revision = k => view[t] = Sent(t, k)
    /\ \A n \in notes : n.task = t =>
        /\ n.record.revision <= k
        /\ n.record.revision = k => n.record = Sent(t, k)
    /\ view[t] = Sent(t, k) \/ \E n \in notes : n.task = t /\ n.record = Sent(t, k)

(* A final record is the last one.                                           *)
LastWord(t, k) ==
    /\ view[t].status \in Final => view[t] = Sent(t, k)
    /\ \A n \in notes : n.task = t /\ n.record.status \in Final => n.record = Sent(t, k)

Agrees(t) == \E k \in Nat : Tracks(t, k) /\ LastWord(t, k)

(* A task that has not run has not ended; after a restart all have.           *)
InProgress(t) ==
    /\ process = "live" /\ place[t] \in {"outside", "waiting"} => status[t] \notin Final
    /\ process = "reopened" => status[t] \notin Active

DInv ==
    /\ TypeOK /\ IInv
    /\ process # "down" => \A t \in Task : Agrees(t)
    /\ \A t \in Task : InProgress(t)

-----------------------------------------------------------------------------
(* The scheduler inside.                                                    *)

(* A task's or the user's step as the scheduler sees it.                     *)
SchedulerStep ==
    \/ [SchedulerNext]_schedulerVars
    \/ pool' = pool /\ place' = place /\ lapsed' \subseteq Task
    \/ pool' = EmptyPool /\ place' = Nowhere /\ lapsed' = {}

(* Every step is one of the scheduler, the end of a context, or a crash.      *)
LEMMA SeenByScheduler == [Next]_vars /\ lapsed \subseteq Task => SchedulerStep
<1> SUFFICES ASSUME [Next]_vars, lapsed \subseteq Task PROVE SchedulerStep
  OBVIOUS
<1>1. ASSUME NEW t \in Task, Ask(t) \/ Start(t) \/ GiveUp(t) \/ GiveBack(t) \/ TimeOut(t)
      PROVE  SchedulerStep
  BY <1>1 DEF Ask, Start, GiveUp, GiveBack, TimeOut, SchedulerStep, SchedulerNext
<1>2. ASSUME NEW t \in Task, Enqueue(t) \/ Report(t) \/ Stream(t) \/ Finish(t) \/ Stop(t)
      PROVE  SchedulerStep
  BY <1>2 DEF Enqueue, Report, Stream, Finish, Stop, SchedulerStep
<1>3. ASSUME NEW t \in Task, CallCancel(t) PROVE SchedulerStep
  BY <1>3 DEF CallCancel, SchedulerStep
<1>4. ASSUME (\E n \in notes : Deliver(n)) \/ Reopen PROVE SchedulerStep
  BY <1>4 DEF Deliver, Reopen, SchedulerStep
<1>5. ASSUME Crash PROVE SchedulerStep
  BY <1>5 DEF Crash, SchedulerStep
<1>6. CASE UNCHANGED vars
  BY <1>6 DEF vars, SchedulerStep
<1> QED BY <1>1, <1>2, <1>3, <1>4, <1>5, <1>6 DEF Next

(* None of them disturbs the scheduler's books.                              *)
LEMMA BooksKept == IInv /\ SchedulerStep => IInv'
<1> SUFFICES ASSUME IInv, SchedulerStep PROVE IInv'
  OBVIOUS
<1>1. CASE [SchedulerNext]_schedulerVars
  BY <1>1, NextSound
<1>2. CASE pool' = pool /\ place' = place /\ lapsed' \subseteq Task
  BY <1>2, UnchangedKeeps
<1>3. CASE pool' = EmptyPool /\ place' = Nowhere /\ lapsed' = {}
  <2>1. SchedulerInit'
    BY <1>3 DEF SchedulerInit
  <2>2. (SchedulerInit => IInv)'
    BY InitSound, PTL
  <2> QED BY <2>1, <2>2
<1> QED BY <1>1, <1>2, <1>3 DEF SchedulerStep

-----------------------------------------------------------------------------
(* Types.                                                                   *)

TeamTypeOK ==
    /\ status \in [Task -> Statuses] /\ revision \in [Task -> Nat]
    /\ notes \subseteq Note /\ due \subseteq Task
    /\ view \in [Task -> Record]
    /\ process \in {"live", "down", "reopened"}

(* The names of statuses, each in its group.                                 *)
LEMMA Names ==
    /\ Final \subseteq Statuses /\ Active \subseteq Statuses /\ Final \cap Active = {}
    /\ "absent" \notin Final \cup Active /\ "interrupted" \in Final
    /\ {"queued", "running", "waiting_approval", "cancelling"} = Active
    /\ {"done", "failed"} \subseteq Final
BY DEF Final, Active, Statuses

(* Team.update numbers the new status and leaves a note of it.               *)
LEMMA UpdateFacts ==
    ASSUME TeamTypeOK, NEW t \in Task, NEW by \in {"task", "user"}, NEW s \in Statuses,
           Update(t, by, s)
    PROVE  /\ process = "live" /\ process' = process /\ view' = view
           /\ status' \in [Task -> Statuses] /\ revision' \in [Task -> Nat]
           /\ status'[t] = s /\ revision'[t] = revision[t] + 1
           /\ \A u \in Task \ {t} : status'[u] = status[u] /\ revision'[u] = revision[u]
           /\ notes' \subseteq Note
           /\ notes' = notes \cup
                  {[task |-> t, by |-> by, record |-> [status |-> s, revision |-> revision[t] + 1]]}
<1>1. /\ process = "live" /\ process' = process /\ view' = view
      /\ status' = [status EXCEPT ![t] = s]
      /\ revision' = [revision EXCEPT ![t] = @ + 1]
      /\ notes' = notes \cup
            {[task |-> t, by |-> by, record |-> [status |-> s, revision |-> revision[t] + 1]]}
  BY DEF Update, Idle
<1>2. /\ status'[t] = s /\ revision'[t] = revision[t] + 1
      /\ \A u \in Task \ {t} : status'[u] = status[u] /\ revision'[u] = revision[u]
      /\ status' \in [Task -> Statuses] /\ revision' \in [Task -> Nat]
  BY <1>1 DEF TeamTypeOK
<1>3. [task |-> t, by |-> by, record |-> [status |-> s, revision |-> revision[t] + 1]] \in Note
  BY <1>2 DEF TeamTypeOK, Note, Record
<1> QED BY <1>1, <1>2, <1>3 DEF TeamTypeOK

(* A step that updates one task, and whose task it is.                       *)
OneUpdate(t, by, s) == Update(t, by, s) /\ due' \subseteq Task

(* Which tasks are updated, by whom and to what.                             *)
LEMMA WhoUpdates ==
    ASSUME TeamTypeOK, NEW t \in Task,
           Enqueue(t) \/ Start(t) \/ Report(t) \/ Finish(t) \/ Stop(t)
    PROVE  \E by \in {"task", "user"}, s \in Statuses : OneUpdate(t, by, s)
<1>1. due \subseteq Task /\ status[t] \in Statuses
  BY DEF TeamTypeOK
<1>2. CASE Enqueue(t)
  BY <1>1, <1>2, Names DEF Enqueue, OneUpdate
<1>3. CASE Start(t)
  <2>1. (IF status[t] = "queued" THEN "running" ELSE status[t]) \in Statuses
    BY <1>1, Names
  <2> QED BY <1>1, <1>3, <2>1 DEF Start, OneUpdate
<1>4. CASE Report(t)
  <2>1. PICK s \in {"running", "waiting_approval"} : Update(t, "task", Reported(t, s))
    BY <1>4 DEF Report
  <2>2. Reported(t, s) \in Statuses
    BY <1>1, Names DEF Reported
  <2>3. due' \subseteq Task
    BY <1>1, <1>4 DEF Report
  <2> QED BY <2>1, <2>2, <2>3 DEF OneUpdate
<1>5. CASE Finish(t)
  <2>1. PICK s \in {"done", "failed"} : Update(t, "task", s)
    BY <1>5 DEF Finish
  <2>2. due' \subseteq Task
    BY <1>1, <1>5 DEF Finish
  <2> QED BY <2>1, <2>2, Names DEF OneUpdate
<1>6. CASE Stop(t)
  BY <1>1, <1>6, Names DEF Stop, OneUpdate
<1> QED BY <1>2, <1>3, <1>4, <1>5, <1>6

(* What a restored record looks like.                                        *)
LEMMA RestoredFacts ==
    ASSUME NEW r \in Record
    PROVE  /\ Restored(r) \in Record /\ Restored(r).status \notin Active
           /\ r.status \in Final => Restored(r) = r
           /\ Restored(r) # r => Restored(r).revision = r.revision + 1
                                 /\ r.status \notin Final
BY Names DEF Restored, Record, Active, Final, Statuses

(* Team and the session keep their types.                                    *)
LEMMA TeamTypes == TeamTypeOK /\ [Next]_vars => TeamTypeOK'
<1> SUFFICES ASSUME TeamTypeOK, [Next]_vars PROVE TeamTypeOK'
  OBVIOUS
<1>1. ASSUME NEW t \in Task, Enqueue(t) \/ Start(t) \/ Report(t) \/ Finish(t) \/ Stop(t)
      PROVE  TeamTypeOK'
  <2>1. PICK by \in {"task", "user"}, s \in Statuses : OneUpdate(t, by, s)
    BY <1>1, WhoUpdates
  <2>2. /\ process' = process /\ view' = view /\ notes' \subseteq Note
        /\ status' \in [Task -> Statuses] /\ revision' \in [Task -> Nat]
    BY <2>1, UpdateFacts DEF OneUpdate
  <2> QED BY <2>1, <2>2 DEF TeamTypeOK, OneUpdate
<1>2. ASSUME NEW t \in Task, Ask(t) \/ GiveUp(t) \/ GiveBack(t) \/ TimeOut(t) PROVE TeamTypeOK'
  BY <1>2 DEF Ask, GiveUp, GiveBack, TimeOut, Silent, teamVars, TeamTypeOK
<1>3. ASSUME NEW t \in Task, CallCancel(t) PROVE TeamTypeOK'
  BY <1>3 DEF CallCancel, TeamTypeOK
<1>4. ASSUME NEW n \in notes, Deliver(n) PROVE TeamTypeOK'
  <2>1. n \in Note
    BY DEF TeamTypeOK
  <2>2. n.task \in Task /\ n.record \in Record
    BY <2>1 DEF Note
  <2>3. Newer(view[n.task], n.record) \in Record
    BY <2>2 DEF Newer, TeamTypeOK
  <2> QED BY <1>4, <2>2, <2>3 DEF Deliver, TeamTypeOK
<1>5. CASE Crash
  BY <1>5 DEF Crash, TeamTypeOK, Statuses
<1>6. CASE Reopen
  <2>1. \A t \in Task : view[t] \in Record
    BY DEF TeamTypeOK
  <2>2. \A t \in Task : Restored(view[t]) \in Record
    BY <2>1, RestoredFacts
  <2>3. \A t \in Task : Restored(view[t]).status \in Statuses /\ Restored(view[t]).revision \in Nat
    BY <2>2 DEF Record
  <2>4. \A t \in Task : [task |-> t, by |-> "task", record |-> Restored(view[t])] \in Note
    BY <2>2 DEF Note
  <2>5. /\ process' = "reopened" /\ due' = due /\ view' = view
        /\ status' = [t \in Task |-> Restored(view[t]).status]
        /\ revision' = [t \in Task |-> Restored(view[t]).revision]
        /\ notes' \subseteq Note
    BY <1>6, <2>4 DEF Reopen
  <2> QED BY <2>3, <2>5 DEF TeamTypeOK
<1>7. CASE UNCHANGED vars
  BY <1>7 DEF vars, teamVars, TeamTypeOK
<1>8. ASSUME NEW t \in Task, Stream(t) PROVE TeamTypeOK'
  BY <1>8 DEF Stream, TeamTypeOK
<1> QED BY <1>1, <1>2, <1>3, <1>4, <1>5, <1>6, <1>7, <1>8 DEF Next

-----------------------------------------------------------------------------
(* Records.                                                                 *)

(* Only a task that has not ended is updated.                                *)
LEMMA OnlyBeforeTheEnd ==
    ASSUME TeamTypeOK, NEW t \in Task, InProgress(t),
           Enqueue(t) \/ Start(t) \/ Report(t) \/ Finish(t) \/ Stop(t)
    PROVE  status[t] \notin Final
<1>1. CASE Enqueue(t) \/ Report(t) \/ Finish(t) \/ Stop(t)
  BY <1>1, Names DEF Enqueue, Report, Finish, Stop
<1>2. CASE Start(t)
  BY <1>2 DEF Start, Proceed, Update, Idle, InProgress
<1> QED BY <1>1, <1>2

(* The new snapshot is ahead of all others of its task; other tasks keep      *)
(* theirs.                                                                  *)
LEMMA UpdateTracks ==
    ASSUME TeamTypeOK, NEW t \in Task, NEW by \in {"task", "user"}, NEW s \in Statuses,
           Update(t, by, s), status[t] \notin Final,
           \A u \in Task : Agrees(u)
    PROVE  \A u \in Task : Agrees(u)'
<1> DEFINE fresh == [task |-> t, by |-> by, record |-> [status |-> s, revision |-> revision[t] + 1]]
<1>0. PICK new \in Nat : new = revision[t] + 1
  BY DEF TeamTypeOK
<1>1. /\ view' = view /\ status'[t] = s /\ revision'[t] = new
      /\ \A u \in Task \ {t} : status'[u] = status[u] /\ revision'[u] = revision[u]
      /\ notes' = notes \cup {fresh}
  BY <1>0, UpdateFacts
<1>2. fresh.task = t /\ fresh.record = Sent(t, new)'
  BY <1>0, <1>1 DEF Sent
<1>3. /\ revision[t] \in Nat /\ view[t].revision \in Nat
      /\ \A n \in notes : n.record.revision \in Nat
  BY DEF TeamTypeOK, Note, Record
<1>4. ASSUME NEW u \in Task \ {t} PROVE Agrees(u)'
  <2>1. PICK k \in Nat : Tracks(u, k) /\ LastWord(u, k)
    BY DEF Agrees
  <2>2. Sent(u, k)' = Sent(u, k) /\ revision'[u] = revision[u] /\ status'[u] = status[u]
    BY <1>1 DEF Sent
  <2>3. \A n \in notes' : n.task = u => n \in notes
    BY <1>1, <1>2
  <2>4. notes \subseteq notes'
    BY <1>1
  <2>5. Tracks(u, k)'
    BY <1>1, <2>1, <2>2, <2>3, <2>4 DEF Tracks
  <2>6. LastWord(u, k)'
    BY <1>1, <2>1, <2>2, <2>3 DEF LastWord
  <2> QED BY <2>5, <2>6 DEF Agrees
<1>5. Agrees(t)'
  <2>1. PICK k \in Nat : Tracks(t, k) /\ LastWord(t, k)
    BY DEF Agrees
  <2>2. Sent(t, k).status = status[t] /\ Sent(t, new)'.revision = new
    BY DEF Sent
  <2>3. view[t].revision < new /\ \A n \in notes : n.task = t => n.record.revision < new
    BY <1>0, <1>3, <2>1 DEF Tracks
  <2>4. fresh \in notes'
    BY <1>1
  <2>5. /\ view[t].status \notin Final
        /\ \A n \in notes : n.task = t => n.record.status \notin Final
    BY <2>1, <2>2 DEF LastWord
  <2> HIDE DEF fresh
  <2>6. \A n \in notes' : n.task = t =>
            n.record.revision <= new /\ (n.record.revision = new => n.record = Sent(t, new)')
    BY <1>1, <1>2, <1>3, <2>2, <2>3
  <2>7. view'[t].revision <= new /\ view'[t].revision # new
    BY <1>1, <1>3, <2>3
  <2>8. Tracks(t, new)'
    BY <1>1, <1>2, <2>4, <2>6, <2>7 DEF Tracks
  <2>9. LastWord(t, new)'
    BY <1>1, <1>2, <2>5 DEF LastWord
  <2> QED BY <2>8, <2>9 DEF Agrees
<1> QED BY <1>4, <1>5

(* A chunk is numbered after the latest snapshot, which stays the latest.      *)
LEMMA StreamTracks ==
    ASSUME TeamTypeOK, NEW t \in Task, Stream(t), \A u \in Task : Agrees(u)
    PROVE  \A u \in Task : Agrees(u)'
<1>1. /\ status[t] \in Active /\ status' = status /\ notes' = notes /\ view' = view
      /\ revision'[t] = revision[t] + 1 /\ revision[t] \in Nat
      /\ \A u \in Task \ {t} : revision'[u] = revision[u]
  BY DEF Stream, TeamTypeOK
<1> SUFFICES ASSUME NEW u \in Task PROVE Agrees(u)'
  OBVIOUS
<1>2. PICK k \in Nat : Tracks(u, k) /\ LastWord(u, k)
  BY DEF Agrees
<1>3. k <= revision'[u] /\ (status'[u] \notin Active => k = revision'[u])
  BY <1>1, <1>2 DEF Tracks
<1>4. Sent(u, k)' = Sent(u, k)
  BY <1>1 DEF Sent
<1>5. Tracks(u, k)'
  BY <1>1, <1>2, <1>3, <1>4 DEF Tracks
<1>6. LastWord(u, k)'
  BY <1>1, <1>2, <1>4 DEF LastWord
<1> QED BY <1>5, <1>6 DEF Agrees

(* The log takes a snapshot that is not older, so it never falls behind what  *)
(* it has, and has the last one once that arrives.                           *)
LEMMA DeliverTracks ==
    ASSUME TeamTypeOK, NEW n \in notes, Deliver(n),
           \A u \in Task : Agrees(u)
    PROVE  \A u \in Task : Agrees(u)' /\ (view[u].status \in Final => view'[u] = view[u])
<1>1. /\ n \in Note /\ n.task \in Task
  BY DEF TeamTypeOK, Note
<1>2. /\ status' = status /\ revision' = revision
      /\ notes' = notes \ {n}
      /\ view' = [view EXCEPT ![n.task] = Newer(view[n.task], n.record)]
  BY DEF Deliver
<1> SUFFICES ASSUME NEW u \in Task
             PROVE  Agrees(u)' /\ (view[u].status \in Final => view'[u] = view[u])
  OBVIOUS
<1>3. PICK k \in Nat : Tracks(u, k) /\ LastWord(u, k)
  BY DEF Agrees
<1>4. Sent(u, k)' = Sent(u, k) /\ Sent(u, k).revision = k
  BY <1>2 DEF Sent
<1>5. CASE u # n.task
  <2>1. view'[u] = view[u]
    BY <1>1, <1>2, <1>5 DEF TeamTypeOK
  <2>2. \A m \in notes : m.task = u => m \in notes'
    BY <1>2, <1>5
  <2>3. notes' \subseteq notes
    BY <1>2
  <2>4. Tracks(u, k)'
    BY <1>2, <1>3, <1>4, <2>1, <2>2, <2>3 DEF Tracks
  <2>5. LastWord(u, k)'
    BY <1>3, <1>4, <2>1, <2>3 DEF LastWord
  <2> QED BY <2>1, <2>4, <2>5 DEF Agrees
<1>6. CASE u = n.task
  <2>1. view'[u] = IF view[u].revision > n.record.revision THEN view[u] ELSE n.record
    BY <1>1, <1>2, <1>6 DEF Newer, TeamTypeOK
  <2>2. /\ view[u].revision \in Nat /\ n.record.revision \in Nat
    BY <1>1 DEF TeamTypeOK, Note, Record
  <2>3. notes' \subseteq notes /\ \A m \in notes : m = n \/ m \in notes'
    BY <1>2
  <2>4. view'[u] = view[u] \/ view'[u] = n.record
    BY <2>1
  <2>5. view[u] = Sent(u, k) => view'[u] = Sent(u, k)
    <3>1. n.record.revision <= k /\ (n.record.revision = k => n.record = Sent(u, k))
      BY <1>3, <1>6 DEF Tracks
    <3> QED BY <1>4, <2>1, <2>2, <3>1
  <2>6. n.record = Sent(u, k) => view'[u] = Sent(u, k)
    <3>1. view[u].revision <= k
      BY <1>3 DEF Tracks
    <3> QED BY <1>4, <2>1, <2>2, <3>1
  <2>7. view'[u].revision <= k /\ (view'[u].revision = k => view'[u] = Sent(u, k))
    BY <1>3, <1>6, <2>4 DEF Tracks
  <2>8. view'[u] = Sent(u, k) \/ \E m \in notes' : m.task = u /\ m.record = Sent(u, k)
    BY <1>3, <2>3, <2>5, <2>6 DEF Tracks
  <2>9. \A m \in notes' : m.task = u =>
            m.record.revision <= k /\ (m.record.revision = k => m.record = Sent(u, k))
    BY <1>3, <2>3 DEF Tracks
  <2>10. Tracks(u, k)'
    BY <1>2, <1>3, <1>4, <2>7, <2>8, <2>9 DEF Tracks
  <2>11. view'[u].status \in Final => view'[u] = Sent(u, k)
    BY <1>3, <1>6, <2>4 DEF LastWord
  <2>12. \A m \in notes' : m.task = u /\ m.record.status \in Final => m.record = Sent(u, k)
    BY <1>3, <2>3 DEF LastWord
  <2>13. LastWord(u, k)'
    BY <1>4, <2>11, <2>12 DEF LastWord
  <2>14. view[u].status \in Final => view'[u] = view[u]
    BY <1>3, <2>5 DEF LastWord
  <2> QED BY <2>10, <2>13, <2>14 DEF Agrees
<1> QED BY <1>5, <1>6

(* A reopened session is told of the tasks that were interrupted.            *)
LEMMA ReopenTracks ==
    ASSUME TeamTypeOK, Reopen
    PROVE  \A u \in Task : Agrees(u)'
<1> SUFFICES ASSUME NEW u \in Task PROVE Agrees(u)'
  OBVIOUS
<1> DEFINE r == Restored(view[u])
<1>1. view[u] \in Record /\ r \in Record
  BY RestoredFacts DEF TeamTypeOK
<1>2. /\ view' = view /\ status'[u] = r.status /\ revision'[u] = r.revision
      /\ notes' = {[task |-> t, by |-> "task", record |-> Restored(view[t])] :
                    t \in {v \in Task : Restored(view[v]) # view[v]}}
  BY DEF Reopen
<1>3. PICK k \in Nat : k = r.revision
  BY <1>1 DEF Record
<1>4. /\ \A n \in notes' : n.task = u => n.record = r
      /\ r # view[u] => \E n \in notes' : n.task = u /\ n.record = r
  <2> DEFINE note(t) == [task |-> t, by |-> "task", record |-> Restored(view[t])]
  <2>1. \A t : note(t).task = t /\ note(t).record = Restored(view[t])
    OBVIOUS
  <2>2. notes' = {note(t) : t \in {v \in Task : Restored(view[v]) # view[v]}}
    BY <1>2
  <2> HIDE DEF note
  <2>3. ASSUME NEW n \in notes', n.task = u PROVE n.record = r
    BY <2>1, <2>2, <2>3
  <2>4. ASSUME r # view[u] PROVE note(u) \in notes'
    BY <2>2, <2>4
  <2> QED BY <2>1, <2>3, <2>4
<1>5. /\ view[u].status \in Final => r = view[u]
      /\ r # view[u] => r.revision = view[u].revision + 1
      /\ view[u].revision \in Nat /\ r.revision \in Nat
  BY <1>1, RestoredFacts DEF Record
<1>6. Sent(u, k)' = r /\ k = revision'[u]
  BY <1>1, <1>2, <1>3 DEF Sent, Record
<1> HIDE DEF r
<1>7. Tracks(u, k)'
  BY <1>2, <1>3, <1>4, <1>5, <1>6 DEF Tracks
<1>8. LastWord(u, k)'
  BY <1>2, <1>4, <1>5, <1>6 DEF LastWord
<1> QED BY <1>7, <1>8 DEF Agrees

-----------------------------------------------------------------------------
(* The steps.                                                               *)

(* A task that has not run does not end, and none starts after a restart.    *)
LEMMA ProgressKept ==
    ASSUME TeamTypeOK, place \in [Task -> Places], NEW u \in Task, InProgress(u), [Next]_vars
    PROVE  InProgress(u)'
<1>1. ASSUME NEW t \in Task, Enqueue(t) \/ Start(t) \/ Report(t) \/ Finish(t) \/ Stop(t)
      PROVE  InProgress(u)'
  <2>1. PICK by \in {"task", "user"}, s \in Statuses : OneUpdate(t, by, s)
    BY <1>1, WhoUpdates
  <2>2. /\ process = "live" /\ process' = process
        /\ \A v \in Task \ {t} : status'[v] = status[v]
    BY <2>1, UpdateFacts DEF OneUpdate
  <2>3. place'[u] \in {"outside", "waiting"} => place[u] = place'[u]
    BY <1>1 DEF Enqueue, Start, Report, Finish, Stop, Proceed, schedulerVars
  <2>4. CASE u # t
    BY <2>2, <2>3, <2>4 DEF InProgress
  <2>5. CASE u = t
    <3>1. CASE Enqueue(t)
      BY <2>2, <2>5, <3>1, Names DEF Enqueue, Update, InProgress, TeamTypeOK
    <3>2. CASE Start(t)
      BY <2>2, <2>5, <3>2 DEF Start, Proceed, InProgress
    <3>3. CASE Report(t) \/ Finish(t)
      BY <2>2, <2>5, <3>3 DEF Report, Finish, schedulerVars, InProgress
    <3>4. CASE Stop(t)
      BY <2>2, <2>5, <3>4, Names DEF Stop, Update, InProgress, TeamTypeOK
    <3> QED BY <1>1, <3>1, <3>2, <3>3, <3>4
  <2> QED BY <2>4, <2>5
<1>2. ASSUME NEW t \in Task, Ask(t) \/ GiveUp(t) \/ GiveBack(t) \/ TimeOut(t) \/ CallCancel(t)
      PROVE  InProgress(u)'
  <2>1. status' = status /\ process' = process
    BY <1>2 DEF Ask, GiveUp, GiveBack, TimeOut, CallCancel, Silent, teamVars
  <2>2. place'[u] \in {"outside", "waiting"} => place[u] \in {"outside", "waiting"}
    BY <1>2 DEF Ask, GiveUp, GiveBack, TimeOut, CallCancel,
                AcquireScoped, Withdraw, Release, Lapse
  <2> QED BY <2>1, <2>2 DEF InProgress
<1>3. ASSUME NEW n \in notes, Deliver(n) PROVE InProgress(u)'
  BY <1>3 DEF Deliver, schedulerVars, InProgress
<1>4. CASE Crash
  BY <1>4 DEF Crash, InProgress
<1>5. CASE Reopen
  <2>1. view[u] \in Record
    BY DEF TeamTypeOK
  <2> QED BY <1>5, <2>1, RestoredFacts DEF Reopen, InProgress
<1>6. CASE UNCHANGED vars
  BY <1>6 DEF vars, schedulerVars, teamVars, InProgress
<1>7. ASSUME NEW t \in Task, Stream(t) PROVE InProgress(u)'
  BY <1>7 DEF Stream, schedulerVars, InProgress
<1> QED BY <1>1, <1>2, <1>3, <1>4, <1>5, <1>6, <1>7 DEF Next

(* What a step must keep of the records.                                     *)
InOrder ==
    /\ process' # "down" => \A u \in Task : Agrees(u)'
    /\ \A u \in Task : view[u].status \in Final => view'[u].status = view[u].status

(* Every step keeps the records in order and a final one where it is.        *)
LEMMA RecordsKept ==
    ASSUME TeamTypeOK, [Next]_vars,
           process # "down" => \A u \in Task : Agrees(u),
           \A u \in Task : InProgress(u)
    PROVE  InOrder
<1>1. ASSUME NEW t \in Task, Enqueue(t) \/ Start(t) \/ Report(t) \/ Finish(t) \/ Stop(t)
      PROVE  InOrder
  <2>1. PICK by \in {"task", "user"}, s \in Statuses : Update(t, by, s)
    BY <1>1, WhoUpdates DEF OneUpdate
  <2>2. process = "live" /\ view' = view
    BY <2>1, UpdateFacts
  <2>3. status[t] \notin Final
    BY <1>1, OnlyBeforeTheEnd
  <2>4. \A u \in Task : Agrees(u)'
    BY <2>1, <2>2, <2>3, UpdateTracks
  <2> QED BY <2>2, <2>4 DEF InOrder
<1>2. ASSUME UNCHANGED <<status, revision, notes, view, process>> PROVE InOrder
  <2>1. \A u \in Task : Agrees(u) <=> Agrees(u)'
    BY <1>2 DEF Agrees, Tracks, LastWord, Sent
  <2> QED BY <1>2, <2>1 DEF InOrder
<1>3. ASSUME NEW t \in Task, Ask(t) \/ GiveUp(t) \/ GiveBack(t) \/ TimeOut(t) \/ CallCancel(t)
      PROVE  InOrder
  <2>1. UNCHANGED <<status, revision, notes, view, process>>
    BY <1>3 DEF Ask, GiveUp, GiveBack, TimeOut, CallCancel, Silent, teamVars
  <2> QED BY <1>2, <2>1
<1>4. ASSUME NEW n \in notes, Deliver(n) PROVE InOrder
  <2>1. process # "down"
    BY <1>4 DEF Deliver
  <2> QED BY <1>4, <2>1, DeliverTracks DEF InOrder
<1>5. CASE Crash
  BY <1>5 DEF Crash, InOrder
<1>6. CASE Reopen
  <2>1. view' = view
    BY <1>6 DEF Reopen
  <2> QED BY <1>6, <2>1, ReopenTracks DEF InOrder
<1>7. CASE UNCHANGED vars
  BY <1>2, <1>7 DEF vars, teamVars
<1>8. ASSUME NEW t \in Task, Stream(t) PROVE InOrder
  <2>1. process # "down" /\ view' = view
    BY <1>8 DEF Stream
  <2> QED BY <1>8, <2>1, StreamTracks DEF InOrder
<1> QED BY <1>1, <1>3, <1>4, <1>5, <1>6, <1>7, <1>8 DEF Next

(* A session begins with the invariant.                                      *)
LEMMA DelegatesInit == Init => DInv
<1> SUFFICES ASSUME Init PROVE DInv
  OBVIOUS
<1>1. IInv
  BY InitSound DEF Init
<1>2. SchedulerTypeOK
  BY <1>1 DEF IInv
<1>3. TypeOK
  BY <1>2 DEF Init, TypeOK, Unlisted, Record, Statuses
<1>4. ASSUME NEW t \in Task PROVE Agrees(t) /\ InProgress(t)
  <2>1. /\ status[t] = "absent" /\ revision[t] = 0 /\ notes = {} /\ process = "live"
        /\ view[t] = [status |-> "absent", revision |-> 0]
    BY DEF Init, Unlisted
  <2>2. PICK k \in Nat : k = 0
    OBVIOUS
  <2>3. view[t] = Sent(t, k)
    BY <2>1, <2>2 DEF Sent
  <2>4. Tracks(t, k) /\ LastWord(t, k)
    BY <2>1, <2>2, <2>3 DEF Tracks, LastWord
  <2> QED BY <2>1, <2>4, Names DEF Agrees, InProgress
<1> QED BY <1>1, <1>3, <1>4 DEF DInv

(* Every step keeps it.                                                      *)
LEMMA DelegatesNext == DInv /\ [Next]_vars => DInv'
<1> SUFFICES ASSUME DInv, [Next]_vars PROVE DInv'
  OBVIOUS
<1>1. /\ TeamTypeOK /\ lapsed \subseteq Task /\ place \in [Task -> Places] /\ IInv
      /\ process # "down" => \A t \in Task : Agrees(t)
      /\ \A t \in Task : InProgress(t)
  BY DEF DInv, TypeOK, TeamTypeOK, SchedulerTypeOK
<1>2. IInv'
  BY <1>1, SeenByScheduler, BooksKept
<1>3. TypeOK'
  <2>1. TeamTypeOK'
    BY <1>1, TeamTypes
  <2>2. SchedulerTypeOK'
    BY <1>2 DEF IInv
  <2> QED BY <2>1, <2>2 DEF TypeOK, TeamTypeOK
<1>4. (process # "down" => \A t \in Task : Agrees(t))'
  BY <1>1, RecordsKept DEF InOrder
<1>5. \A t \in Task : InProgress(t)'
  BY <1>1, ProgressKept
<1> QED BY <1>2, <1>3, <1>4, <1>5 DEF DInv

-----------------------------------------------------------------------------
(* The theorems.                                                            *)

(* The invariant of delegation: the scheduler's books hold in every state, a    *)
(* latest snapshot of each task has Team's status and is on its way or in the   *)
(* log with none ahead of it, only streamed chunks were numbered after it, and  *)
(* a final one is the last; with stops, timeouts, crashes and restarts at any   *)
(* point.                                                                   *)
THEOREM DelegatesSound == Spec => []DInv
BY DelegatesInit, DelegatesNext, PTL DEF Spec

(* Team, the scheduler and the session's records keep their types.           *)
THEOREM DelegatesTypes == Spec => []TypeOK
<1>1. DInv => TypeOK
  BY DEF DInv
<1> QED BY <1>1, DelegatesSound, PTL

(* Slots stay accounted for while tasks are stopped, time out and the process *)
(* crashes.                                                                  *)
THEOREM DelegatesAccounted == Spec => []SlotsAccounted
<1>1. DInv => SlotsAccounted
  BY BooksAccounted DEF DInv
<1> QED BY <1>1, DelegatesSound, PTL

(* No wake-up is lost in a session.                                          *)
THEOREM DelegatesWakeup == Spec => []HeadMustWait
<1>1. DInv => HeadMustWait
  BY DEF DInv, IInv, Waits, HeadMustWait
<1> QED BY <1>1, DelegatesSound, PTL

(* A session's tasks are admitted in the order they asked.                   *)
THEOREM DelegatesInTurn == Spec => NobodyOvertakes
<1>1. DInv /\ [Next]_vars => [InTurn]_schedulerVars
  <2> SUFFICES ASSUME DInv, [Next]_vars PROVE InTurn
    OBVIOUS
  <2>1. IInv /\ SchedulerStep
    BY SeenByScheduler DEF DInv, TypeOK, SchedulerTypeOK
  <2>2. CASE [SchedulerNext]_schedulerVars
    BY <2>1, <2>2, StepInTurn
  <2>3. CASE pool' = pool \/ pool' = EmptyPool
    BY <2>3 DEF InTurn, EmptyPool
  <2> QED BY <2>1, <2>2, <2>3 DEF SchedulerStep
<1> QED BY <1>1, DelegatesSound, PTL DEF Spec, NobodyOvertakes, InTurn

(* What runs in a session never exceeds the limits and never shares a path.   *)
THEOREM DelegatesImplementPool == Spec => ImplementsPool
<1>1. DInv /\ DInv' /\ [Next]_vars
        => PoolView!Leave \/ \E t \in Task : PoolView!Enter(t)
  <2> SUFFICES ASSUME DInv, DInv', [Next]_vars
               PROVE  PoolView!Leave \/ \E t \in Task : PoolView!Enter(t)
    OBVIOUS
  <2>1. IInv /\ IInv' /\ SchedulerStep
    BY SeenByScheduler DEF DInv, TypeOK, SchedulerTypeOK
  <2>2. CASE [SchedulerNext]_schedulerVars
    BY <2>1, <2>2, StepMaps
  <2>3. CASE place' = place \/ place' = Nowhere
    BY <2>3 DEF Nowhere, PoolView!Leave
  <2> QED BY <2>1, <2>2, <2>3 DEF SchedulerStep
<1>2. Init => PoolView!Init
  BY InitMaps DEF Init
<1> QED BY <1>1, <1>2, DelegatesSound, PTL DEF Spec, ImplementsPool, PoolView!Spec

(* Once a task's snapshots have all reached the log, in whatever order they    *)
(* did (Revision, applyDelegate), the log's status is Team's, its revision is  *)
(* no later, and for a task that has ended it is Team's too: only what was     *)
(* streamed since the last snapshot (AppendOutput) can be missing.           *)
THEOREM ViewFollows == Spec => []ViewCatchesUp
<1>1. DInv => ViewCatchesUp
  <2> SUFFICES ASSUME DInv, NEW t \in Task, process # "down", \A n \in notes : n.task # t
               PROVE  /\ view[t].status = status[t] /\ view[t].revision <= revision[t]
                      /\ status[t] \notin Active => view[t].revision = revision[t]
    BY DEF ViewCatchesUp
  <2>1. PICK k \in Nat : Tracks(t, k)
    BY DEF DInv, Agrees
  <2>2. /\ view[t] = Sent(t, k) /\ k <= revision[t]
        /\ status[t] \notin Active => k = revision[t]
    BY <2>1 DEF Tracks
  <2> QED BY <2>2 DEF Sent
<1> QED BY <1>1, DelegatesSound, PTL

(* FinalIsKept without its box.                                              *)
KeptFinal ==
    \A t \in Task :
        /\ view[t].status \in Final => view'[t].status = view[t].status
        /\ process' = "reopened" => status'[t] \notin Active

(* A final status in the log is never changed, and no task of a reopened      *)
(* session is active again (applyDelegate, Team.Restore).                    *)
THEOREM FinalStays == Spec => FinalIsKept
<1>1. DInv /\ DInv' /\ [Next]_vars => KeptFinal
  <2> SUFFICES ASSUME DInv, DInv', [Next]_vars PROVE KeptFinal
    OBVIOUS
  <2>1. /\ TeamTypeOK /\ \A t \in Task : InProgress(t)
        /\ process # "down" => \A t \in Task : Agrees(t)
    BY DEF DInv, TypeOK, TeamTypeOK
  <2>2. \A t \in Task : view[t].status \in Final => view'[t].status = view[t].status
    BY <2>1, RecordsKept DEF InOrder
  <2>3. \A t \in Task : process' = "reopened" => status'[t] \notin Active
    BY DEF DInv, InProgress
  <2> QED BY <2>2, <2>3 DEF KeptFinal
<1> QED BY <1>1, DelegatesSound, PTL DEF Spec, FinalIsKept, KeptFinal

(* StopSticks without its box.                                               *)
StopKept ==
    \A t \in Task : status[t] = "cancelling" /\ process = "live" =>
        status'[t] \in {"cancelling"} \cup Final \/ process' # "live"

(* What a task reports does not undo the user's stop (SetAction,             *)
(* SetWaitingApproval, MarkRunning).                                         *)
THEOREM StopIsObeyed == Spec => StopSticks
<1>1. DInv /\ [Next]_vars => StopKept
  <2> SUFFICES ASSUME DInv, [Next]_vars,
                      NEW u \in Task, status[u] = "cancelling", process = "live"
               PROVE  status'[u] \in {"cancelling"} \cup Final \/ process' # "live"
    BY DEF StopKept
  <2>1. status \in [Task -> Statuses]
    BY DEF DInv, TypeOK
  <2>2. ASSUME NEW t \in Task, Enqueue(t) \/ Start(t) \/ Report(t) \/ Finish(t) \/ Stop(t)
        PROVE  status'[u] \in {"cancelling"} \cup Final
    BY <2>1, <2>2, Names DEF Enqueue, Start, Report, Reported, Finish, Stop, Update
  <2>3. ASSUME \/ \E t \in Task : Ask(t) \/ GiveUp(t) \/ GiveBack(t) \/ TimeOut(t) \/ CallCancel(t)
               \/ \E t \in Task : Stream(t)
               \/ \E n \in notes : Deliver(n)
               \/ UNCHANGED vars
        PROVE  status' = status
    BY <2>3 DEF Stream, Ask, GiveUp, GiveBack, TimeOut, CallCancel, Silent, teamVars, Deliver, vars
  <2>4. ASSUME Crash \/ Reopen PROVE process' # "live"
    BY <2>4 DEF Crash, Reopen
  <2> QED BY <2>2, <2>3, <2>4 DEF Next
<1> QED BY <1>1, DelegatesSound, PTL DEF Spec, StopSticks, StopKept
=============================================================================
