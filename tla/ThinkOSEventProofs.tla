--------------------------- MODULE ThinkOSEventProofs ---------------------------
(***************************************************************************)
(* Proofs about event sets: type correctness, strict priority, timeouts    *)
(* and the absence of a waiter beside a pending event in every             *)
(* configuration; the consistency of queues and status bytes in those      *)
(* without time sharing whose queue indices fit the status byte.           *)
(***************************************************************************)
EXTENDS ThinkOSEvent, ThinkOSCoreProofs, FiniteSetTheorems

--------------------------------------------------------------------------------
(***************************************************************************)
(* What a step of the module can do, event set by event set.               *)
(***************************************************************************)
Queue(s) == EVENT_BASE + s

Allocates(s) ==
  /\ ev_mask' = [ev_mask EXCEPT ![s] = Event]
  /\ ev_pend' = [ev_pend EXCEPT ![s] = {}]
  /\ UNCHANGED coreVars

Takes(s) ==
  /\ \E ev \in Event : ev_pend' = [ev_pend EXCEPT ![s] = @ \ {ev}]
  /\ UNCHANGED <<coreVars, ev_mask>>

Masks(s) ==
  /\ \E msk \in SUBSET Event : ev_mask' = [ev_mask EXCEPT ![s] = @ \ msk]
  /\ UNCHANGED <<coreVars, ev_pend>>

Blocks(t, s) ==
  /\ Running(t)
  /\ Deliverable(s) = {}
  /\ wq_lst' = wait_unless_empty(wq_insert(wq_lst, Queue(s), t), t)
  /\ SetStat(t, Stat(Queue(s), 0))
  /\ Blocked(t, Call("ev_wait", Queue(s), 0), Queue(s))
  /\ UNCHANGED <<clock, handlerVars, ev_pend, ev_mask>>

BlocksTimed(t, s) ==
  /\ Running(t)
  /\ Deliverable(s) = {}
  /\ wq_lst' = wait_unless_empty(tmdwq_insert(wq_lst, Queue(s), t), t)
  /\ SetStat(t, Stat(Queue(s), 1))
  /\ \E ms \in TIMEOUTS : SetClock(t, ms)
  /\ Blocked(t, Call("ev_timedwait", Queue(s), 0), ETIMEDOUT)
  /\ UNCHANGED <<handlerVars, ev_pend, ev_mask>>

Pends(s, ev) ==
  /\ ev \notin ev_mask[s] \/ wq_lst[Queue(s)] = {}
  /\ ev_pend' = [ev_pend EXCEPT ![s] = @ \cup {ev}]
  /\ UNCHANGED <<coreVars, ev_mask>>

Tells(s, ev) ==
  /\ wq_lst[Queue(s)] # {}
  /\ WakeupReturn(Queue(s), [t \in {wq_head(Queue(s))} |-> ev])
  /\ UNCHANGED <<ev_pend, ev_mask>>

(* The waiters an unmask tells, and what it tells them. *)
Told(matches) ==
  [th \in {m[2] : m \in matches} |-> (CHOOSE m \in matches : m[2] = th)[1]]

Unmasks(s, msk) ==
  LET matches == Matches(ev_pend[s] \cap msk, wq_lst[Queue(s)])
  IN  /\ ev_mask' = [ev_mask EXCEPT ![s] = @ \cup msk]
      /\ ev_pend' = [ev_pend EXCEPT ![s] = @ \ {m[1] : m \in matches}]
      /\ WakeupReturn(Queue(s), Told(matches))

EventEffect ==
  \/ UNCHANGED <<coreVars, ev_pend, ev_mask>>
  \/ \E s \in EventSet :
       \/ Allocates(s) \/ Takes(s) \/ Masks(s)
       \/ \E t \in Thread : Blocks(t, s) \/ BlocksTimed(t, s)
       \/ \E ev \in Event : Pends(s, ev) \/ Tells(s, ev)
       \/ \E msk \in SUBSET Event : Unmasks(s, msk)
  \/ \E t \in Thread : CallReturn(t) /\ UNCHANGED <<ev_pend, ev_mask>>

--------------------------------------------------------------------------------
(* Event sets, events and the numbers callers pass are integers. *)
LEMMA EventSets == EventSet \subseteq Nat /\ Event \subseteq Nat /\ EventSetArg \subseteq Int
BY ObjectLayout, CoreAssumption, EventAssumption DEF EventSet, Event, EventSetArg

(* The queue of an event set is one of the objects'. *)
LEMMA QueueLemma ==
  ASSUME NEW s \in EventSet
  PROVE  /\ Queue(s) \in ObjectWQ /\ Queue(s) \in WQ /\ Queue(s) \in Int
         /\ Queue(s) \notin {WQ_READY, WQ_CLOCK}
         /\ \A r \in EventSet : Queue(r) = Queue(s) => r = s
BY ObjectLayout, LayoutLemma, CoreAssumption DEF EventSet, Queue, ObjectWQ, WQ

(* An argument that passes the check names an event set's queue. *)
LEMMA EventArgLemma ==
  ASSUME NEW wq \in EventSetArg
  PROVE  wq - EVENT_BASE \in Int /\ wq = Queue(wq - EVENT_BASE)
BY EventSets, ObjectLayout DEF Queue

(* Raising an event of an allocated set tells a waiter or leaves it pending. *)
LEMMA RaiseEffect ==
  ASSUME TypeOK, NEW s \in EventSet, NEW ev \in Event, EventRaise(Queue(s), ev)
  PROVE  Pends(s, ev) \/ Tells(s, ev)
<1>1. Queue(s) - EVENT_BASE = s
  BY EventSets, ObjectLayout DEF Queue
<1>2. wq_head(Queue(s)) = THREAD_NULL <=> wq_lst[Queue(s)] = {}
  BY QueueLemma, HeadNull DEF TypeOK, CoreTypeOK
<1> QED BY <1>1, <1>2 DEF EventRaise, Pends, Tells

(* The calls of thinkos_event.c have these effects and no other, *)
LEMMA EventStepEffect ==
  ASSUME TypeOK, NEW t \in Thread, EventStep(t)
  PROVE  EventEffect /\ ev_alloc' \subseteq EventSet
<1> USE DEF EventRefuse, Refuse, eventVars, TypeOK
<1>1. CASE thinkos_ev_alloc_svc(t)
  <2>1. bmp_alloc(EventSet, ev_alloc) \in EventSet \cup {NONE}
    BY AllocLemma, EventSets
  <2> QED BY <1>1, <2>1 DEF thinkos_ev_alloc_svc, EventEffect, Allocates
<1>2. ASSUME NEW wq \in EventSetArg, thinkos_ev_free_svc(t, wq)
      PROVE  EventEffect /\ ev_alloc' \subseteq EventSet
  BY <1>2 DEF thinkos_ev_free_svc, EventEffect
<1>3. ASSUME NEW wq \in EventSetArg, IsEventSet(wq), EventTaken(wq)
      PROVE  EventEffect /\ ev_alloc' \subseteq EventSet
  <2> DEFINE s == wq - EVENT_BASE
  <2>1. s \in EventSet
    BY <1>3 DEF IsEventSet
  <2>2. Min(Deliverable(s)) \in Event
    <3>1. Deliverable(s) \subseteq Event /\ Deliverable(s) # {}
      BY <1>3, <2>1 DEF EventTaken, Deliverable
    <3> QED BY <3>1, MinLemma, EventSets
  <2>3. Takes(s) /\ UNCHANGED ev_alloc
    BY <1>3, <2>2 DEF EventTaken, Takes
  <2> QED BY <2>1, <2>3 DEF EventEffect
<1>4. ASSUME NEW wq \in EventSetArg, thinkos_ev_wait_svc(t, wq)
      PROVE  EventEffect /\ ev_alloc' \subseteq EventSet
  <2>1. CASE NothingPending(wq) /\ ~EventTaken(wq)
    BY <1>4, <2>1, EventArgLemma
       DEF thinkos_ev_wait_svc, EventEffect, Blocks, NothingPending, IsEventSet, Calls
  <2> QED BY <1>3, <1>4, <2>1
          DEF thinkos_ev_wait_svc, EventEffect, EventTaken, NothingPending
<1>5. ASSUME NEW wq \in EventSetArg, NEW ms \in TIMEOUTS,
             thinkos_ev_timedwait_svc(t, wq, ms)
      PROVE  EventEffect /\ ev_alloc' \subseteq EventSet
  <2>1. CASE NothingPending(wq) /\ ~EventTaken(wq)
    BY <1>5, <2>1, EventArgLemma
       DEF thinkos_ev_timedwait_svc, EventEffect, BlocksTimed, NothingPending,
           IsEventSet, Calls
  <2> QED BY <1>3, <1>5, <2>1
          DEF thinkos_ev_timedwait_svc, EventEffect, EventTaken, NothingPending
<1>6. ASSUME NEW wq \in EventSetArg, NEW ev \in EventArg,
             thinkos_ev_raise_svc(t, wq, ev)
      PROVE  EventEffect /\ ev_alloc' \subseteq EventSet
  <2>1. CASE ev \in Event /\ IsEventSet(wq) /\ EventRaise(wq, ev)
    BY <2>1, EventArgLemma, RaiseEffect
       DEF EventEffect, IsEventSet, EventRaise
  <2> QED BY <1>6, <2>1 DEF thinkos_ev_raise_svc, EventEffect
<1>7. ASSUME NEW wq \in EventSetArg, NEW msk \in SUBSET Event,
             thinkos_ev_mask_svc(t, wq, msk)
      PROVE  EventEffect /\ ev_alloc' \subseteq EventSet
  BY <1>7 DEF thinkos_ev_mask_svc, EventEffect, Masks, IsEventSet
<1>8. ASSUME NEW wq \in EventSetArg, NEW msk \in SUBSET Event,
             thinkos_ev_unmask_svc(t, wq, msk)
      PROVE  EventEffect /\ ev_alloc' \subseteq EventSet
  <2> DEFINE s == wq - EVENT_BASE
  <2>1. CASE IsEventSet(wq) /\ ~(EventRefuse(t, EINVAL) /\ ~IsEventSet(wq))
    <3>1. s \in EventSet /\ wq = Queue(s)
      BY <2>1, EventArgLemma DEF IsEventSet
    <3> DEFINE matches == Matches(ev_pend[s] \cap msk, wq_lst[wq])
    <3>2. /\ ev_mask' = [ev_mask EXCEPT ![s] = @ \cup msk]
          /\ ev_pend' = [ev_pend EXCEPT ![s] = @ \ {m[1] : m \in matches}]
          /\ WakeupReturn(wq, Told(matches))
          /\ UNCHANGED ev_alloc
      BY <1>8, <2>1 DEF thinkos_ev_unmask_svc, UnmaskWakeup, Told
    <3>3. matches = Matches(ev_pend[s] \cap msk, wq_lst[Queue(s)])
      BY <3>1
    <3> HIDE DEF matches
    <3>4. Unmasks(s, msk)
      BY <3>1, <3>2, <3>3 DEF Unmasks
    <3> QED BY <3>1, <3>2, <3>4 DEF EventEffect
  <2> QED BY <1>8, <2>1 DEF thinkos_ev_unmask_svc, EventEffect
<1>9. CASE EventReturn(t)
  BY <1>9 DEF EventReturn, EventEffect
<1> QED BY <1>1, <1>2, <1>4, <1>5, <1>6, <1>7, <1>8, <1>9 DEF EventStep

(* and so has the raise of an interrupt handler. *)
LEMMA EventIrqEffect ==
  ASSUME TypeOK, EventIrq
  PROVE  EventEffect /\ ev_alloc' \subseteq EventSet
<1>1. PICK s \in IRQ_EVENT_SETS, ev \in Event : thinkos_ev_raise_i(Queue(s), ev)
  BY DEF EventIrq, Queue
<1>2. s \in EventSet /\ EventRaise(Queue(s), ev)
  BY <1>1, EventAssumption DEF thinkos_ev_raise_i
<1>3. ev_alloc' \subseteq EventSet
  BY <1>2 DEF EventRaise, TypeOK
<1> QED BY <1>2, <1>3, RaiseEffect DEF EventEffect

--------------------------------------------------------------------------------
(***************************************************************************)
(* The pairing of thinkos_ev_unmask_svc leaves no event over beside a      *)
(* waiter. The positions in a bounded set are an initial segment of the    *)
(* naturals, so of two sets one is exhausted when equal positions pair up. *)
(***************************************************************************)

(* The position of an element is a natural number. *)
LEMMA RankType ==
  ASSUME NEW n \in Nat, NEW S \in SUBSET (0 .. n), NEW x
  PROVE  IsFiniteSet({y \in S : y < x}) /\ Rank(S, x) \in Nat
<1>1. IsFiniteSet(0 .. n)
  BY FS_Interval
<1> DEFINE B == {y \in S : y < x}
<1>2. B \in SUBSET (0 .. n) /\ Rank(S, x) = Cardinality(B)
  BY DEF Rank
<1> HIDE DEF B
<1>3. IsFiniteSet(B)
  BY <1>1, <1>2, FS_Subset
<1>4. Cardinality(B) \in Nat
  BY <1>3, FS_CardinalityType
<1> QED BY <1>2, <1>3, <1>4 DEF B

(* An element that is not the first has a predecessor. *)
LEMMA RankPredecessor ==
  ASSUME NEW n \in Nat, NEW S \in SUBSET (0 .. n), NEW x \in S, Rank(S, x) # 0
  PROVE  \E y \in S : Rank(S, x) = Rank(S, y) + 1
<1> DEFINE B == {y \in S : y < x}
           U == {n - y : y \in B}
<1>1. B # {} /\ Rank(S, x) = Cardinality(B)
  BY FS_EmptySet DEF Rank
<1>2. B \subseteq S /\ \A y \in S : y \in Nat /\ y <= n
  OBVIOUS
<1>3. \A y \in B : n - y \in Nat
  BY <1>2
<1>4. PICK b \in B : \A z \in B : z <= b
  <2>1. U \subseteq Nat /\ U # {}
    BY <1>1, <1>3
  <2>2. Min(U) \in U /\ \A u \in U : Min(U) <= u
    BY <2>1, MinLemma
  <2>3. PICK b \in B : Min(U) = n - b
    BY <2>2
  <2>4. \A z \in B : n - b <= n - z
    BY <2>2, <2>3
  <2> QED BY <1>2, <2>3, <2>4
<1> DEFINE C == {y \in S : y < b}
<1>5. B = C \cup {b}
  <2>1. b \in Nat /\ x \in Nat /\ b < x
    BY <1>2
  <2>2. \A y \in S : y < x => y < b \/ y = b
    <3>1. \A y \in S : y < x => y <= b
      BY <1>4
    <3> QED BY <1>2, <2>1, <3>1
  <2>3. \A y \in S : y < b => y < x
    BY <1>2, <2>1
  <2>4. b \in S
    BY <1>2
  <2> QED BY <2>1, <2>2, <2>3, <2>4
<1>6. IsFiniteSet(C) /\ b \notin C
  <2>1. b \notin C
    BY <1>2
  <2>2. IsFiniteSet(C)
    BY RankType
  <2> QED BY <2>1, <2>2
<1> HIDE DEF B, C
<1>7. Cardinality(B) = Cardinality(C) + 1
  BY <1>5, <1>6, FS_AddElement
<1>8. Rank(S, b) = Cardinality(C) /\ b \in S
  BY <1>2 DEF Rank, C
<1> QED BY <1>1, <1>7, <1>8

(* Every position below an element's is taken. *)
LEMMA RankDown ==
  ASSUME NEW n \in Nat, NEW S \in SUBSET (0 .. n), NEW x \in S,
         NEW m \in Nat, m <= Rank(S, x)
  PROVE  \E z \in S : Rank(S, z) = m
<1> DEFINE K == {k \in Nat : k >= m /\ \E z \in S : Rank(S, z) = k}
<1>1. \A z \in S : Rank(S, z) \in Nat
  BY RankType
<1>2. K \subseteq Nat /\ K # {}
  BY <1>1
<1>3. Min(K) \in K /\ \A j \in K : Min(K) <= j
  <2> HIDE DEF K
  <2> QED BY <1>2, MinLemma
<1>4. PICK k \in K : \A j \in K : k <= j
  BY <1>3
<1>5. PICK z \in S : Rank(S, z) = k
  BY <1>4
<1>6. CASE k # m
  <2>1. k \in Nat /\ k > m /\ Rank(S, z) # 0
    BY <1>4, <1>5, <1>6
  <2>2. PICK y \in S : Rank(S, z) = Rank(S, y) + 1
    BY <2>1, RankPredecessor
  <2>3. Rank(S, y) \in Nat /\ k = Rank(S, y) + 1
    BY <1>1, <1>5, <2>2
  <2>4. Rank(S, y) \in K
    BY <2>1, <2>3
  <2> QED BY <1>4, <2>3, <2>4
<1> QED BY <1>5, <1>6

(* After the pairing there is no event left or no waiter left. *)
LEMMA MatchLemma ==
  ASSUME NEW a \in Nat, NEW P \in SUBSET (0 .. a),
         NEW b \in Nat, NEW W \in SUBSET (0 .. b)
  PROVE  \/ P \subseteq {m[1] : m \in Matches(P, W)}
         \/ W \subseteq {m[2] : m \in Matches(P, W)}
<1>1. SUFFICES ASSUME NEW e \in P, NEW w \in W,
                      \A m \in Matches(P, W) : m[1] # e /\ m[2] # w
               PROVE  FALSE
  OBVIOUS
<1>2. Rank(P, e) \in Nat /\ Rank(W, w) \in Nat
  BY RankType
<1>3. \A x \in P, y \in W : Rank(P, x) = Rank(W, y) => <<x, y>> \in Matches(P, W)
  BY DEF Matches
<1>4. CASE Rank(P, e) <= Rank(W, w)
  <2>1. PICK y \in W : Rank(W, y) = Rank(P, e)
    BY <1>2, <1>4, RankDown
  <2> QED BY <1>1, <1>3, <2>1
<1>5. CASE Rank(W, w) <= Rank(P, e)
  <2>1. PICK x \in P : Rank(P, x) = Rank(W, w)
    BY <1>2, <1>5, RankDown
  <2> QED BY <1>1, <1>3, <2>1
<1> QED BY <1>2, <1>4, <1>5

(* Who is told by an unmask waits, and is told an event that was pending. *)
LEMMA ToldLemma ==
  ASSUME NEW P, NEW W
  PROVE  LET told == Told(Matches(P, W))
         IN  /\ DOMAIN told = {m[2] : m \in Matches(P, W)}
             /\ DOMAIN told \subseteq W
             /\ \A th \in DOMAIN told : told[th] \in P
<1> DEFINE M == Matches(P, W)
<1>1. M \subseteq P \X W
  BY DEF Matches
<1>2. ASSUME NEW th \in {m[2] : m \in M}
      PROVE  (CHOOSE m \in M : m[2] = th)[1] \in P
  <2>1. \E m \in M : m[2] = th
    BY <1>2
  <2>2. (CHOOSE m \in M : m[2] = th) \in M
    BY <2>1
  <2> QED BY <1>1, <2>2
<1> HIDE DEF M
<1> QED BY <1>1, <1>2 DEF Told, M

--------------------------------------------------------------------------------
(* The bitmaps of the event sets stay in range, *)
LEMMA EffectKeepsEventType ==
  ASSUME TypeOK, EventEffect
  PROVE  ev_pend' \in [EventSet -> SUBSET Event] /\ ev_mask' \in [EventSet -> SUBSET Event]
BY DEF EventEffect, TypeOK, Allocates, Takes, Masks, Blocks, BlocksTimed, Pends, Tells,
       Unmasks

(* and so does the run-time block. *)
LEMMA EffectKeepsCoreType ==
  ASSUME TypeOK, EventEffect
  PROVE  CoreTypeOK'
<1>1. CASE UNCHANGED coreVars
  BY <1>1 DEF coreVars, TypeOK, CoreTypeOK, QueuesOK
<1>2. ASSUME NEW s \in EventSet, NEW ev \in Event, Tells(s, ev)
      PROVE  CoreTypeOK'
  <2>1. wq_head(Queue(s)) \in Thread
    BY <1>2, HeadMember, QueueLemma DEF Tells, TypeOK, CoreTypeOK
  <2> DEFINE told == [t \in {wq_head(Queue(s))} |-> ev]
  <2>2. DOMAIN told \subseteq Thread /\ \A u \in DOMAIN told : told[u] \in Int
    BY <2>1, EventSets
  <2>3. WakeupReturn(Queue(s), told)
    BY <1>2 DEF Tells
  <2> HIDE DEF told
  <2> QED BY <2>2, <2>3, WakeupReturnKeepsType, QueueLemma DEF TypeOK
<1>3. ASSUME NEW s \in EventSet, NEW msk \in SUBSET Event, Unmasks(s, msk)
      PROVE  CoreTypeOK'
  <2> DEFINE told == Told(Matches(ev_pend[s] \cap msk, wq_lst[Queue(s)]))
  <2>1. DOMAIN told \subseteq wq_lst[Queue(s)] /\ \A u \in DOMAIN told : told[u] \in msk
    BY ToldLemma
  <2>3. WakeupReturn(Queue(s), told)
    BY <1>3 DEF Unmasks
  <2> HIDE DEF told
  <2>4. wq_lst[Queue(s)] \subseteq Thread
    BY QueueLemma DEF TypeOK, CoreTypeOK, QueuesOK
  <2>5. msk \subseteq Int
    BY EventSets
  <2>2. DOMAIN told \subseteq Thread /\ \A u \in DOMAIN told : told[u] \in Int
    BY <2>1, <2>4, <2>5
  <2> QED BY <2>2, <2>3, WakeupReturnKeepsType, QueueLemma DEF TypeOK
<1>4. ASSUME NEW s \in EventSet, NEW t \in Thread, Blocks(t, s)
      PROVE  CoreTypeOK'
  <2>1. QueuesOK(wait_unless_empty(wq_insert(wq_lst, Queue(s), t), t))
    BY QueueLemma, InsertType, UnlessEmptyType DEF TypeOK, CoreTypeOK
  <2>2. Stat(Queue(s), 0) \in 0 .. 255
    BY QueueLemma, StatType
  <2>3. Call("ev_wait", Queue(s), 0) \in CallRecord
    BY QueueLemma, CallType DEF BlockingCalls
  <2>4. clock' \in [Thread -> 0 .. CLOCK_MOD - 1]
    BY <1>4 DEF Blocks, TypeOK, CoreTypeOK
  <2> QED BY <1>4, <2>1, <2>2, <2>3, <2>4, BlockKeepsType, QueueLemma DEF Blocks, TypeOK
<1>5. ASSUME NEW s \in EventSet, NEW t \in Thread, BlocksTimed(t, s)
      PROVE  CoreTypeOK'
  <2>1. QueuesOK(wait_unless_empty(tmdwq_insert(wq_lst, Queue(s), t), t))
    BY QueueLemma, InsertType, UnlessEmptyType DEF TypeOK, CoreTypeOK
  <2>2. Stat(Queue(s), 1) \in 0 .. 255
    BY QueueLemma, StatType
  <2>3. Call("ev_timedwait", Queue(s), 0) \in CallRecord
    BY QueueLemma, CallType DEF BlockingCalls
  <2>4. clock' \in [Thread -> 0 .. CLOCK_MOD - 1]
    BY <1>5, SetClockType, CoreAssumption DEF BlocksTimed, TypeOK
  <2> QED BY <1>5, <2>1, <2>2, <2>3, <2>4, BlockKeepsType
          DEF BlocksTimed, TypeOK, ETIMEDOUT
<1>6. ASSUME NEW t \in Thread, CallReturn(t)
      PROVE  CoreTypeOK'
  BY <1>6, CallReturnKeepsType DEF TypeOK
<1> QED BY <1>1, <1>2, <1>3, <1>4, <1>5, <1>6
        DEF EventEffect, Allocates, Takes, Masks, Pends

(* Every step is one of the core or has an effect on an event set. *)
LEMMA NextEffect ==
  ASSUME TypeOK, [Next]_vars
  PROVE  /\ (CoreStep /\ UNCHANGED <<ev_pend, ev_mask>>) \/ EventEffect
         /\ ev_alloc' \subseteq EventSet
BY EventStepEffect, EventIrqEffect DEF Next, vars, eventVars, EventEffect, TypeOK

(* Every step keeps the types. *)
LEMMA NextKeepsType ==
  ASSUME TypeOK, [Next]_vars
  PROVE  TypeOK'
<1>1. CASE CoreStep /\ UNCHANGED <<ev_pend, ev_mask>>
  <2>1. CoreTypeOK'
    BY <1>1, CoreStepKeepsType DEF TypeOK
  <2> QED BY <1>1, <2>1, NextEffect DEF TypeOK
<1>2. CASE EventEffect
  BY <1>2, EffectKeepsCoreType, EffectKeepsEventType, NextEffect DEF TypeOK
<1> QED BY <1>1, <1>2, NextEffect

(* The initial state is well typed. *)
LEMMA InitType == ASSUME Init PROVE TypeOK
BY CoreInitType DEF Init, TypeOK

(***************************************************************************)
(* The run-time block and the event sets keep their types in every         *)
(* configuration: only threads are woken up, only events that exist are    *)
(* handed out (thinkos_event.c, __thinkos_ev_raise).                       *)
(***************************************************************************)
THEOREM EventTypeCorrect == Spec => []TypeOK
<1>1. Init => TypeOK
  BY InitType
<1>2. TypeOK /\ [Next]_vars => TypeOK'
  BY NextKeepsType
<1> QED BY <1>1, <1>2, PTL DEF Spec

--------------------------------------------------------------------------------
(* An unmask leaves no pending event beside a waiter. *)
LEMMA UnmaskKeepsPending ==
  ASSUME TypeOK, NoEventPastWaiter, NEW s \in EventSet, NEW msk \in SUBSET Event,
         Unmasks(s, msk)
  PROVE  NoEventPastWaiter'
<1> DEFINE P == ev_pend[s] \cap msk
           W == wq_lst[Queue(s)]
           M == Matches(P, W)
<1>1. /\ \A r \in EventSet : ev_mask'[r] = IF r = s THEN ev_mask[s] \cup msk ELSE ev_mask[r]
      /\ \A r \in EventSet :
           ev_pend'[r] = IF r = s THEN ev_pend[s] \ {m[1] : m \in M} ELSE ev_pend[r]
      /\ wq_lst' = wakeup(wq_lst, Queue(s), DOMAIN Told(M))
  BY DEF Unmasks, WakeupReturn, TypeOK
<1>2. DOMAIN Told(M) = {m[2] : m \in M}
  BY ToldLemma
<1>3. \A v \in ObjectWQ :
        wq_lst'[v] = IF v = Queue(s) THEN wq_lst[v] \ {m[2] : m \in M} ELSE wq_lst[v]
  <2> DEFINE ths == {m[2] : m \in M}
  <2>1. wq_lst' = wakeup(wq_lst, Queue(s), ths)
    BY <1>1, <1>2
  <2> HIDE DEF ths
  <2>2. \A v \in ObjectWQ :
          wq_lst'[v] = IF v = Queue(s) THEN wq_lst[v] \ ths ELSE wq_lst[v]
    BY <2>1, QueueLemma, WakeupQueues
  <2> QED BY <2>2 DEF ths
<1>4. P \subseteq {m[1] : m \in M} \/ W \subseteq {m[2] : m \in M}
  <2>1. P \in SUBSET (0 .. EVENT_BITS - 1) /\ EVENT_BITS - 1 \in Nat
    BY EventAssumption DEF TypeOK, Event
  <2>2. W \in SUBSET (0 .. THREADS_MAX - 1) /\ THREADS_MAX - 1 \in Nat
    BY CoreAssumption, QueueLemma DEF TypeOK, CoreTypeOK, QueuesOK, Thread
  <2> HIDE DEF P, W
  <2> QED BY <2>1, <2>2, MatchLemma
<1> HIDE DEF M
<1>5. ASSUME NEW r \in EventSet, wq_lst'[Queue(r)] # {}
      PROVE  Deliverable(r)' = {}
  <2>1. CASE r = s
    <3>1. wq_lst'[Queue(s)] = W \ {m[2] : m \in M}
      BY <1>3, QueueLemma
    <3>2. P \subseteq {m[1] : m \in M} /\ W # {}
      BY <1>4, <1>5, <2>1, <3>1
    <3>3. ev_pend[s] \cap ev_mask[s] = {}
      BY <3>2 DEF NoEventPastWaiter, Deliverable, Queue
    <3> QED BY <1>1, <2>1, <3>2, <3>3 DEF Deliverable
  <2>2. CASE r # s
    <3>1. wq_lst'[Queue(r)] = wq_lst[Queue(r)]
      BY <1>3, <2>2, QueueLemma
    <3>2. Deliverable(r) = {}
      BY <1>5, <3>1 DEF NoEventPastWaiter, Queue
    <3> QED BY <1>1, <2>2, <3>2 DEF Deliverable
  <2> QED BY <2>1, <2>2
<1> QED BY <1>5 DEF NoEventPastWaiter, Queue

(* Shorter queues and fewer deliverable events do no harm. *)
LEMMA ShrinkKeepsPending ==
  ASSUME NoEventPastWaiter,
         \A s \in EventSet : /\ wq_lst'[Queue(s)] \subseteq wq_lst[Queue(s)]
                             /\ Deliverable(s)' \subseteq Deliverable(s)
  PROVE  NoEventPastWaiter'
BY DEF NoEventPastWaiter, Queue

(* Every effect of an event call keeps the property. *)
LEMMA EffectKeepsPending ==
  ASSUME TypeOK, NoEventPastWaiter, EventEffect
  PROVE  NoEventPastWaiter'
<1>1. CASE UNCHANGED <<wq_lst, ev_pend, ev_mask>>
  BY <1>1 DEF NoEventPastWaiter, Deliverable
<1>2. ASSUME NEW s \in EventSet, Allocates(s)
      PROVE  NoEventPastWaiter'
  BY <1>2 DEF Allocates, coreVars, NoEventPastWaiter, Deliverable, TypeOK
<1>3. ASSUME NEW s \in EventSet, Takes(s) \/ Masks(s)
      PROVE  NoEventPastWaiter'
  BY <1>3, ShrinkKeepsPending DEF Takes, Masks, coreVars, Deliverable, TypeOK
<1>4. ASSUME NEW s \in EventSet, NEW t \in Thread, Blocks(t, s) \/ BlocksTimed(t, s)
      PROVE  NoEventPastWaiter'
  <2>1. \A v \in ObjectWQ :
          wq_lst'[v] = IF v = Queue(s) THEN wq_lst[v] \cup {t} ELSE wq_lst[v]
    BY <1>4, QueueLemma, BlockQueues DEF Blocks, BlocksTimed, TypeOK, CoreTypeOK
  <2>2. \A r \in EventSet \ {s} : wq_lst'[Queue(r)] = wq_lst[Queue(r)]
    BY <2>1, QueueLemma
  <2>3. UNCHANGED <<ev_pend, ev_mask>> /\ Deliverable(s) = {}
    BY <1>4 DEF Blocks, BlocksTimed
  <2> QED BY <2>2, <2>3 DEF NoEventPastWaiter, Deliverable, Queue
<1>5. ASSUME NEW s \in EventSet, NEW ev \in Event, Pends(s, ev)
      PROVE  NoEventPastWaiter'
  BY <1>5 DEF Pends, coreVars, NoEventPastWaiter, Deliverable, TypeOK, Queue
<1>6. ASSUME NEW s \in EventSet, NEW ev \in Event, Tells(s, ev)
      PROVE  NoEventPastWaiter'
  <2>1. /\ wq_lst' = wakeup(wq_lst, Queue(s), {wq_head(Queue(s))})
        /\ UNCHANGED <<ev_pend, ev_mask>>
    BY <1>6 DEF Tells, WakeupReturn
  <2>2. \A r \in EventSet : wq_lst'[Queue(r)] \subseteq wq_lst[Queue(r)]
    BY <2>1, QueueLemma, WakeupQueues
  <2> QED BY <2>1, <2>2, ShrinkKeepsPending DEF Deliverable
<1>7. ASSUME NEW s \in EventSet, NEW msk \in SUBSET Event, Unmasks(s, msk)
      PROVE  NoEventPastWaiter'
  BY <1>7, UnmaskKeepsPending
<1> QED BY <1>1, <1>2, <1>3, <1>4, <1>5, <1>6, <1>7
        DEF EventEffect, coreVars, CallReturn

(***************************************************************************)
(* Nobody waits on an event set beside a pending event that is not masked, *)
(* for any number of threads, sets and events, with time sharing or        *)
(* without it. In particular the loop of thinkos_ev_unmask_svc never stops *)
(* while there are both an event and a waiter left                         *)
(* (thinkos_event.c, __thinkos_ev_raise).                                  *)
(***************************************************************************)
THEOREM NoEventLeftBehind == Spec => []NoEventPastWaiter
<1> DEFINE I == TypeOK /\ NoEventPastWaiter
<1>1. Init => I
  BY InitType DEF Init, NoEventPastWaiter, Deliverable
<1>2. I /\ [Next]_vars => I'
  <2>1. SUFFICES ASSUME I, [Next]_vars PROVE I'
    OBVIOUS
  <2>2. TypeOK'
    BY <2>1, NextKeepsType
  <2>3. CASE CoreStep /\ UNCHANGED <<ev_pend, ev_mask>>
    <3>1. \A s \in EventSet : wq_lst'[Queue(s)] \subseteq wq_lst[Queue(s)]
      BY <2>1, <2>3, CoreStepQueues, QueueLemma DEF TypeOK
    <3>2. \A s \in EventSet : Deliverable(s)' = Deliverable(s)
      BY <2>3 DEF Deliverable
    <3>3. NoEventPastWaiter'
      BY <2>1, <3>1, <3>2, ShrinkKeepsPending
    <3> QED BY <2>2, <3>3
  <2>4. CASE EventEffect
    BY <2>1, <2>2, <2>4, EffectKeepsPending
  <2> QED BY <2>1, <2>2, <2>3, <2>4, NextEffect
<1> QED BY <1>1, <1>2, PTL DEF Spec

--------------------------------------------------------------------------------
(* Every effect of an event call keeps the core invariant. *)
LEMMA EffectKeepsInv ==
  ASSUME Configuration, TypeOK, CoreInv, EventEffect
  PROVE  CoreInv'
<1>1. CASE UNCHANGED coreVars
  BY <1>1, QuietKeepsInv DEF coreVars
<1>2. ASSUME NEW s \in EventSet, NEW ev \in Event, Tells(s, ev)
      PROVE  CoreInv'
  <2> DEFINE told == [t \in {wq_head(Queue(s))} |-> ev]
  <2>1. DOMAIN told \subseteq wq_lst[Queue(s)]
    BY <1>2, HeadMember, QueueLemma DEF Tells, TypeOK, CoreTypeOK
  <2>2. WakeupReturn(Queue(s), told)
    BY <1>2 DEF Tells
  <2> HIDE DEF told
  <2> QED BY <2>1, <2>2, WakeupReturnKeepsInv, QueueLemma DEF TypeOK
<1>3. ASSUME NEW s \in EventSet, NEW msk \in SUBSET Event, Unmasks(s, msk)
      PROVE  CoreInv'
  <2> DEFINE told == Told(Matches(ev_pend[s] \cap msk, wq_lst[Queue(s)]))
  <2>1. DOMAIN told \subseteq wq_lst[Queue(s)]
    BY ToldLemma
  <2>2. WakeupReturn(Queue(s), told)
    BY <1>3 DEF Unmasks
  <2> HIDE DEF told
  <2> QED BY <2>1, <2>2, WakeupReturnKeepsInv, QueueLemma DEF TypeOK
<1>4. ASSUME NEW s \in EventSet, NEW t \in Thread, Blocks(t, s) \/ BlocksTimed(t, s)
      PROVE  CoreInv'
  BY <1>4, WaitKeepsInv, UnlessEmptyIsWait, QueueLemma
     DEF Blocks, BlocksTimed, Blocked, handlerVars, TypeOK
<1>5. ASSUME NEW t \in Thread, CallReturn(t)
      PROVE  CoreInv'
  BY <1>5, QuietKeepsInv DEF CallReturn, handlerVars
<1> QED BY <1>1, <1>2, <1>3, <1>4, <1>5
        DEF EventEffect, Allocates, Takes, Masks, Pends

(***************************************************************************)
(* Without time sharing, and with queue indices that fit the status byte,  *)
(* a thread is in exactly the queue its status byte names and thread code  *)
(* only executes in the most urgent ready thread, also when an unmask      *)
(* wakes up several waiters at once or an interrupt handler raises events  *)
(* (thinkos_event.c, __thinkos_ev_raise, cm3_systick_isr).                 *)
(***************************************************************************)
THEOREM EventScheduling ==
  ASSUME Configuration
  PROVE  Spec => [](StatusNamesQueue /\ HighestReadyRuns)
<1> DEFINE I == TypeOK /\ CoreInv
<1>1. Init => I
  BY InitType, CoreInitInv DEF Init
<1>2. I /\ [Next]_vars => I'
  BY NextKeepsType, NextEffect, CoreStepKeepsInv, EffectKeepsInv DEF TypeOK
<1>3. I => StatusNamesQueue /\ HighestReadyRuns
  BY CoreInvImplies DEF TypeOK
<1> QED BY <1>1, <1>2, <1>3, PTL DEF Spec

--------------------------------------------------------------------------------
(* Every effect keeps the scheduler due when it has to be. *)
LEMMA EffectKeepsPriority ==
  ASSUME TypeOK, PriorityInv, EventEffect
  PROVE  PriorityInv'
<1>1. CASE UNCHANGED coreVars
  BY <1>1, QuietKeepsPriority DEF coreVars
<1>2. ASSUME NEW s, NEW told, WakeupReturn(Queue(s), told)
      PROVE  PriorityInv'
  BY <1>2, WakeupKeepsPriority DEF WakeupReturn, handlerVars, TypeOK
<1>3. ASSUME NEW s \in EventSet, NEW t \in Thread, Blocks(t, s) \/ BlocksTimed(t, s)
      PROVE  PriorityInv'
  BY <1>3, QuietKeepsPriority DEF Blocks, BlocksTimed, Blocked, handlerVars
<1>4. ASSUME NEW t \in Thread, CallReturn(t)
      PROVE  PriorityInv'
  BY <1>4, QuietKeepsPriority DEF CallReturn, handlerVars
<1> QED BY <1>1, <1>2, <1>3, <1>4
        DEF EventEffect, Allocates, Takes, Masks, Pends, Tells, Unmasks

(***************************************************************************)
(* Thread code only executes in the first thread of the ready queue, with  *)
(* time sharing or without it: every raise and unmask that wakes threads   *)
(* up requests the scheduler, from a thread and from an interrupt handler  *)
(* (thinkos_ev_raise_svc, thinkos_ev_unmask_svc, __thinkos_ev_raise).      *)
(***************************************************************************)
THEOREM EventPriority == Spec => []HighestReadyRuns
<1> DEFINE I == TypeOK /\ PriorityInv
<1>1. Init => I
  BY InitType, PriorityInvLemma DEF Init
<1>2. I /\ [Next]_vars => I'
  BY NextKeepsType, NextEffect, CoreStepKeepsPriority, EffectKeepsPriority DEF TypeOK
<1>3. I => HighestReadyRuns
  BY PriorityInvLemma
<1> QED BY <1>1, <1>2, <1>3, PTL DEF Spec

--------------------------------------------------------------------------------
(* No effect puts a thread past the clock interrupt. *)
LEMMA EffectKeepsTimeout ==
  ASSUME TypeOK, TimeoutInv, EventEffect
  PROVE  TimeoutInv' /\ UNCHANGED tick
<1>1. CASE UNCHANGED <<tick, ticks, clock, wq_lst>>
  BY <1>1, QuietKeepsTimeout
<1>2. ASSUME NEW s, NEW told, WakeupReturn(Queue(s), told)
      PROVE  TimeoutInv' /\ UNCHANGED tick
  <2>1. wq_lst'[WQ_CLOCK] \subseteq wq_lst[WQ_CLOCK]
    BY <1>2, LayoutLemma DEF WakeupReturn, wakeup
  <2> QED BY <1>2, <2>1, QuietKeepsTimeout DEF WakeupReturn, handlerVars
<1>3. ASSUME NEW s \in EventSet, NEW t \in Thread, Blocks(t, s) \/ BlocksTimed(t, s)
      PROVE  TimeoutInv' /\ UNCHANGED tick
  BY <1>3, ThreadKeepsTimeout DEF Blocks, BlocksTimed, Running, handlerVars
<1> QED BY <1>1, <1>2, <1>3
        DEF EventEffect, Allocates, Takes, Masks, Pends, Tells, Unmasks, CallReturn,
            coreVars, handlerVars

(***************************************************************************)
(* A clock interrupt leaves no expired event wait behind, in any           *)
(* configuration and although interrupt handlers tell threads of its       *)
(* private copy while its loop runs (cm3_systick_isr, __thinkos_ev_raise,  *)
(* thinkos_ev_timedwait_svc).                                              *)
(***************************************************************************)
THEOREM EventTimeouts == Spec => NoMissedTimeout
<1> DEFINE I == TypeOK /\ TimeoutInv
           A == tick.pc # "none" /\ tick'.pc = "none" =>
                  \A t \in wq_lst'[WQ_CLOCK] : TicksLeft(t)' > 0
<1>1. Init => I
  BY InitType DEF Init, CoreInit, NoTick, TimeoutInv
<1>2. I /\ [Next]_vars => I' /\ [A]_coreVars
  <2>1. SUFFICES ASSUME I, [Next]_vars PROVE I' /\ [A]_coreVars
    OBVIOUS
  <2>2. TypeOK'
    BY <2>1, NextKeepsType
  <2>3. CASE SysTick
    BY <2>1, <2>2, <2>3, SysTickKeepsTimeout, SysTickExitTimeout DEF TypeOK
  <2>4. CASE tick.pc = "none" /\ UNCHANGED tick
    BY <2>2, <2>4, ThreadKeepsTimeout
  <2>5. CASE EventEffect
    BY <2>1, <2>2, <2>5, EffectKeepsTimeout
  <2> QED BY <2>1, <2>3, <2>4, <2>5, NextEffect, CoreStepTick
<1> QED BY <1>1, <1>2, PTL DEF Spec, NoMissedTimeout

================================================================================
