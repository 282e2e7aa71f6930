------------------------- MODULE DelegateScheduler -------------------------
(***************************************************************************)
(* agent/scheduler.go: the session-wide FIFO admission controller, and the   *)
(* goroutine of each delegated task that waits in it.                        *)
(*                                                                          *)
(* The scheduler's mutex makes an acquisition, a withdrawal and a release    *)
(* one step each, the dispatch that ends them included.  A waiter learns of   *)
(* its admission later, in a select that the end of its context may win even  *)
(* though it was admitted.                                                   *)
(***************************************************************************)
EXTENDS Integers, FiniteSets, Sequences

CONSTANTS
    Task,         \* the acquisitions of a session
    Provider,
    Path,         \* what write scopes are made of
    ProviderOf,   \* [Task -> Provider]
    ScopeOf,      \* [Task -> SUBSET Path]: empty for a reader
    Max,          \* delegates at once
    Limit         \* [Provider -> Nat]: 0 where none is configured

ASSUME TaskAssumption ==
    /\ IsFiniteSet(Task)
    /\ ProviderOf \in [Task -> Provider]
    /\ ScopeOf \in [Task -> SUBSET Path]

(* NewScheduler: a provider limit tightens the global one, never exceeds it.  *)
ASSUME LimitAssumption ==
    /\ Max \in Nat \ {0}
    /\ Limit \in [Provider -> 0 .. Max]

VARIABLES
    pool,     \* the Scheduler
    place,    \* where each task's goroutine is
    lapsed    \* tasks whose context has ended

schedulerVars == <<pool, place, lapsed>>

Pool == [queue : Seq(Task), active : Nat, byProvider : [Provider -> Nat],
         working : SUBSET Task, started : SUBSET Task, released : SUBSET Task]

Places == {"outside", "waiting", "running", "returned", "refused"}

SchedulerTypeOK ==
    /\ pool \in Pool
    /\ place \in [Task -> Places]
    /\ lapsed \subseteq Task

Ranks(q) == 1 .. Len(q)
RemoveAt(q, i) == SubSeq(q, 1, i - 1) \o SubSeq(q, i + 1, Len(q))
Among(S, p) == {t \in S : ProviderOf[t] = p}
LimitOf(p) == IF Limit[p] > 0 THEN Limit[p] ELSE Max
Collide(t, u) == ScopeOf[t] \cap ScopeOf[u] # {}

-----------------------------------------------------------------------------
(* dispatchLocked                                                           *)

FitsAnyScope(s, t) ==   \* mutant of Fits
    s.active < Max /\ s.byProvider[ProviderOf[t]] < LimitOf(ProviderOf[t])

(* The head of the queue may start.                                          *)
Fits(s, t) ==
    /\ s.active < Max
    /\ s.byProvider[ProviderOf[t]] < LimitOf(ProviderOf[t])
    /\ \A u \in s.working : ~Collide(t, u)

(* The first k of the queue have started.                                    *)
Foremost(s, k) == {s.queue[i] : i \in 1 .. k}
Taken(s, k) ==
    [s EXCEPT !.queue = SubSeq(@, k + 1, Len(@)),
              !.active = @ + k,
              !.byProvider = [p \in Provider |-> @[p] + Cardinality(Among(Foremost(s, k), p))],
              !.working = @ \cup Foremost(s, k),
              !.started = @ \cup Foremost(s, k)]

(* Strict FIFO: the first k may start one after the other.                   *)
Startable(s) ==
    {k \in 0 .. Len(s.queue) : \A j \in 1 .. k : Fits(Taken(s, j - 1), s.queue[j])}
Longest(S) == CHOOSE k \in S : \A j \in S : j <= k

Skipping(s) ==   \* mutant of Dispatched
    LET fit == {i \in Ranks(s.queue) : Fits(s, s.queue[i])}
        i == CHOOSE i \in fit : \A j \in fit : i <= j
    IN  IF fit = {} THEN s
        ELSE Taken([s EXCEPT !.queue = <<s.queue[i]>> \o RemoveAt(s.queue, i)], 1)
Dispatched(s) == Taken(s, Longest(Startable(s)))

-----------------------------------------------------------------------------
(* The slot of a started waiter is given back once.                          *)
Freed(s, t) ==
    [s EXCEPT !.released = @ \cup {t},
              !.active = @ - 1,
              !.byProvider[ProviderOf[t]] = @ - 1,
              !.working = @ \ {t}]

Holds(s, t) == t \in s.started /\ t \notin s.released
PositionOf(s, t) == CHOOSE i \in Ranks(s.queue) : s.queue[i] = t
Dequeued(s, t) == [s EXCEPT !.queue = RemoveAt(s.queue, PositionOf(s, t))]

WithdrawnSlot(s, t) ==   \* mutant of Withdrawn
    IF Holds(s, t) THEN s ELSE Dispatched(Dequeued(s, t))
WithdrawnQuietly(s, t) ==   \* mutant of Withdrawn
    IF Holds(s, t) THEN Dispatched(Freed(s, t)) ELSE Dequeued(s, t)

(* The context ended first: give the slot back if dispatch was faster, or     *)
(* leave the queue; either way the queue may move.                           *)
Withdrawn(s, t) ==
    Dispatched(IF Holds(s, t) THEN Freed(s, t)
               ELSE IF t \notin s.started THEN Dequeued(s, t) ELSE s)

(* Mutant of Released.                                                       *)
ReleasedQuietly(s, t) == IF Holds(s, t) THEN Freed(s, t) ELSE s

Released(s, t) == IF Holds(s, t) THEN Dispatched(Freed(s, t)) ELSE s

-----------------------------------------------------------------------------
(* A task asks for a slot.                                                  *)
AcquireScoped(t) ==
    /\ place[t] = "outside"
    /\ pool' = Dispatched([pool EXCEPT !.queue = Append(@, t)])
    /\ place' = [place EXCEPT ![t] = "waiting"]
    /\ UNCHANGED lapsed

(* It sees that it was admitted.                                            *)
Proceed(t) ==
    /\ place[t] = "waiting" /\ t \in pool.started
    /\ place' = [place EXCEPT ![t] = "running"]
    /\ UNCHANGED <<pool, lapsed>>

(* It sees that its context ended, admitted or not.                          *)
Withdraw(t) ==
    /\ place[t] = "waiting" /\ t \in lapsed
    /\ pool' = Withdrawn(pool, t)
    /\ place' = [place EXCEPT ![t] = "refused"]
    /\ UNCHANGED lapsed

(* It finishes; a second call of release does nothing.                       *)
Release(t) ==
    /\ place[t] \in {"running", "returned"}
    /\ pool' = Released(pool, t)
    /\ place' = [place EXCEPT ![t] = "returned"]
    /\ UNCHANGED lapsed

(* Its timeout passes, or it is stopped; queue time counts.                  *)
Lapse(t) ==
    /\ place[t] \in {"outside", "waiting", "running"} /\ t \notin lapsed
    /\ lapsed' = lapsed \cup {t}
    /\ UNCHANGED <<pool, place>>

(* NewScheduler                                                             *)
EmptyPool ==
    [queue |-> <<>>, active |-> 0, byProvider |-> [p \in Provider |-> 0],
     working |-> {}, started |-> {}, released |-> {}]
Nowhere == [t \in Task |-> "outside"]

SchedulerInit == pool = EmptyPool /\ place = Nowhere /\ lapsed = {}

SchedulerNext ==
    \E t \in Task :
        AcquireScoped(t) \/ Proceed(t) \/ Withdraw(t) \/ Release(t) \/ Lapse(t)

SchedulerSpec == SchedulerInit /\ [][SchedulerNext]_schedulerVars

-----------------------------------------------------------------------------
(* The counters are what the scheduler decides by, the tasks are what they    *)
(* count: every slot counted is held by a task that runs or has yet to learn  *)
(* that it may, and will give it back (the race of ctx.Done and ready).       *)
SlotsAccounted ==
    /\ pool.active = Cardinality(pool.working)
    /\ \A p \in Provider : pool.byProvider[p] = Cardinality(Among(pool.working, p))
    /\ \A t \in pool.working : place[t] \in {"waiting", "running"}
    /\ \A t \in Task : place[t] = "running" => t \in pool.working
    /\ \A i \in Ranks(pool.queue) : place[pool.queue[i]] = "waiting"

(* No lost wake-up: while the mutex is free, the head of the queue could not  *)
(* start now.                                                               *)
HeadMustWait == pool.queue # <<>> => ~Fits(pool, Head(pool.queue))

(* Nobody overtakes: when a task starts, all who asked before it start with   *)
(* it, have started or have left, also when it asks only now.                *)
NobodyOvertakes ==
    [][\A i \in Ranks(pool.queue), t \in pool'.started \ pool.started :
        (\A j \in 1 .. i : pool.queue[j] # t) =>
            pool.queue[i] \in pool'.started \/ place'[pool.queue[i]] = "refused"]_schedulerVars

(* The scheduler implements a pool in which tasks enter and leave one by one. *)
PoolView == INSTANCE AdmissionPool
    WITH inside <- {t \in Task : place[t] = "running"}
ImplementsPool == PoolView!Spec
=============================================================================
