------------------------- MODULE ThinkOSSemaphoreProofs -------------------------
(***************************************************************************)
(* Proofs about semaphores: type correctness, strict priority, timeouts    *)
(* and the absence of a waiter beside a token in every configuration; the  *)
(* consistency of queues and status bytes, and the refinement of the       *)
(* abstract semaphore, in the configurations without time sharing whose    *)
(* queue indices fit the status byte.                                      *)
(***************************************************************************)
EXTENDS ThinkOSSemaphore, ThinkOSCoreProofs

--------------------------------------------------------------------------------
(***************************************************************************)
(* What a step of the module can do, semaphore by semaphore. The theorems  *)
(* below look at these effects instead of at the single calls.             *)
(***************************************************************************)
Queue(s) == SEM_BASE + s

SetUp(s) ==
  /\ s \notin sem_alloc
  /\ sem_alloc' = sem_alloc \cup {s}
  /\ \E v \in SEM_VALUES : sem_val' = [sem_val EXCEPT ![s] = v]
  /\ UNCHANGED <<coreVars, posts>>

Reset(s) ==
  /\ s \in RESET_SEMS
  /\ sem_alloc' \in {sem_alloc, sem_alloc \ {s}}
  /\ \/ UNCHANGED sem_val
     \/ \E v \in SEM_VALUES : sem_val' = [sem_val EXCEPT ![s] = v]
  /\ UNCHANGED <<coreVars, posts>>

Taken(t, s) ==
  /\ Calls(t)
  /\ s \in sem_alloc
  /\ sem_val[s] > 0
  /\ sem_val' = [sem_val EXCEPT ![s] = @ - 1]
  /\ pendsv' \in {pendsv, TRUE}
  /\ UNCHANGED <<wq_lst, th_stat, clock, r0, call, handlerVars, sem_alloc, posts>>

Blocks(t, s) ==
  /\ Calls(t)
  /\ s \in sem_alloc
  /\ sem_val[s] = 0
  /\ wq_lst' = wait_unless_empty(wq_insert(wq_lst, Queue(s), t), t)
  /\ SetStat(t, Stat(Queue(s), 0))
  /\ Blocked(t, Call("sem_wait", Queue(s), 0), OK)
  /\ UNCHANGED <<clock, handlerVars, semVars>>

BlocksTimed(t, s) ==
  /\ Calls(t)
  /\ s \in sem_alloc \cap TIMED_SEMS
  /\ sem_val[s] = 0
  /\ wq_lst' = wait_unless_empty(tmdwq_insert(wq_lst, Queue(s), t), t)
  /\ SetStat(t, Stat(Queue(s), 1))
  /\ \E ms \in TIMEOUTS : SetClock(t, ms)
  /\ Blocked(t, Call("sem_timedwait", Queue(s), 0), ETIMEDOUT)
  /\ UNCHANGED <<handlerVars, semVars>>

Kept(s) ==
  /\ s \in sem_alloc
  /\ wq_lst[Queue(s)] = {}
  /\ sem_val[s] < SEM_VALUE_CAP
  /\ sem_val' = [sem_val EXCEPT ![s] = @ + 1]
  /\ posts' = [posts EXCEPT ![s] = 1 - @]
  /\ UNCHANGED <<coreVars, sem_alloc>>

Given(s) ==
  /\ s \in sem_alloc
  /\ s \in IRQ_SEMS \/ \E t \in Thread : Running(t)
  /\ wq_lst[Queue(s)] # {}
  /\ Wakeup(Queue(s), {wq_head(Queue(s))})
  /\ posts' = [posts EXCEPT ![s] = 1 - @]
  /\ UNCHANGED <<sem_val, sem_alloc>>

SemEffect ==
  \/ UNCHANGED vars
  \/ \E s \in Sem : SetUp(s) \/ Reset(s) \/ Kept(s) \/ Given(s)
  \/ \E s \in Sem, t \in Thread : Taken(t, s) \/ Blocks(t, s) \/ BlocksTimed(t, s)
  \/ \E t \in Thread : SemReturn(t)

--------------------------------------------------------------------------------
(* Semaphores and the numbers callers pass are integers. *)
LEMMA SemSets == Sem \subseteq Nat /\ SemArg \subseteq Int
BY ObjectLayout, CoreAssumption DEF Sem, SemArg

(* The queue of a semaphore is one of the objects'. *)
LEMMA QueueLemma ==
  ASSUME NEW s \in Sem
  PROVE  /\ Queue(s) \in ObjectWQ /\ Queue(s) \in WQ
         /\ Queue(s) \notin {WQ_READY, WQ_CLOCK}
         /\ \A r \in Sem : Queue(r) = Queue(s) => r = s
BY ObjectLayout, LayoutLemma, CoreAssumption DEF Sem, Queue, ObjectWQ, WQ

(* An argument that passes the check names a semaphore's queue. *)
LEMMA SemArgLemma ==
  ASSUME NEW wq \in SemArg
  PROVE  wq - SEM_BASE \in Int /\ wq = Queue(wq - SEM_BASE)
BY SemSets, ObjectLayout DEF Queue

SemTypeOK ==
  /\ sem_val \in [Sem -> 0 .. SEM_VALUE_CAP]
  /\ sem_alloc \subseteq Sem
  /\ posts \in [Sem -> {0, 1}]

(* The type invariant, by parts. *)
LEMMA TypeParts == TypeOK <=> CoreTypeOK /\ SemTypeOK
BY DEF TypeOK, SemTypeOK

(* A post to an allocated semaphore keeps the token or gives it away. *)
LEMMA PostEffect ==
  ASSUME TypeOK, NEW s \in Sem, s \in sem_alloc, SemPost(Queue(s)),
         s \in IRQ_SEMS \/ \E t \in Thread : Running(t)
  PROVE  Kept(s) \/ Given(s)
<1>1. Queue(s) - SEM_BASE = s
  BY SemSets, ObjectLayout DEF Queue
<1>2. wq_head(Queue(s)) = THREAD_NULL <=> wq_lst[Queue(s)] = {}
  BY QueueLemma, HeadNull DEF TypeOK, CoreTypeOK
<1> QED BY <1>1, <1>2 DEF SemPost, Kept, Given

(* The calls of thinkos_semaphore.c have these effects and no other, *)
LEMMA SemStepEffect ==
  ASSUME TypeOK, NEW t \in Thread, SemStep(t)
  PROVE  SemEffect
<1> USE DEF SemRefuse, Refuse, vars
<1>1. ASSUME NEW value \in SEM_VALUES, thinkos_sem_alloc_svc(t, value)
      PROVE  SemEffect
  <2>1. bmp_alloc(Sem, sem_alloc) = NONE \/ bmp_alloc(Sem, sem_alloc) \in Sem \ sem_alloc
    BY AllocLemma, SemSets
  <2> QED BY <1>1, <2>1 DEF thinkos_sem_alloc_svc, SemEffect, SetUp
<1>2. ASSUME NEW wq \in SemArg, thinkos_sem_free_svc(t, wq)
      PROVE  SemEffect
  BY <1>2 DEF thinkos_sem_free_svc, SemEffect, Reset
<1>3. ASSUME NEW wq \in SemArg, NEW value \in SEM_VALUES,
             thinkos_sem_init_svc(t, wq, value)
      PROVE  SemEffect
  BY <1>3 DEF thinkos_sem_init_svc, SemEffect, Reset, IsSem, TypeOK
<1>4. ASSUME NEW wq \in SemArg, thinkos_sem_wait_svc(t, wq)
      PROVE  SemEffect
  BY <1>4, SemArgLemma
     DEF thinkos_sem_wait_svc, SemEffect, Taken, Blocks, SemTake, SemEmpty, IsSem,
         TypeOK, coreVars, handlerVars
<1>5. ASSUME NEW wq \in SemArg, thinkos_sem_trywait_svc(t, wq)
      PROVE  SemEffect
  BY <1>5
     DEF thinkos_sem_trywait_svc, SemEffect, Taken, SemTake, IsSem, TypeOK, coreVars,
         handlerVars
<1>6. ASSUME NEW wq \in SemArg, NEW ms \in TIMEOUTS,
             thinkos_sem_timedwait_svc(t, wq, ms)
      PROVE  SemEffect
  BY <1>6, SemArgLemma
     DEF thinkos_sem_timedwait_svc, SemEffect, Taken, BlocksTimed, SemTake, SemEmpty,
         IsSem, TypeOK
<1>7. ASSUME NEW wq \in SemArg, thinkos_sem_post_svc(t, wq)
      PROVE  SemEffect
  <2>1. CASE IsSem(wq) /\ SemPost(wq)
    BY <1>7, <2>1, SemArgLemma, PostEffect
       DEF thinkos_sem_post_svc, SemEffect, IsSem, TypeOK, Calls
  <2> QED BY <1>7, <2>1 DEF thinkos_sem_post_svc, SemEffect
<1> QED BY <1>1, <1>2, <1>3, <1>4, <1>5, <1>6, <1>7 DEF SemStep, SemEffect

(* and so has the post of an interrupt handler. *)
LEMMA IrqStepEffect ==
  ASSUME TypeOK, IrqStep
  PROVE  SemEffect
<1>1. PICK s \in IRQ_SEMS : thinkos_sem_post_i(Queue(s))
  BY DEF IrqStep, Queue
<1>2. s \in Sem /\ s \in sem_alloc /\ SemPost(Queue(s))
  BY <1>1, SemAssumption, SemSets, ObjectLayout DEF thinkos_sem_post_i, Queue
<1> QED BY <1>2, PostEffect DEF SemEffect

--------------------------------------------------------------------------------
(* The semaphore values and bitmaps stay in range, *)
LEMMA EffectKeepsSemType ==
  ASSUME TypeOK, SemEffect
  PROVE  SemTypeOK'
<1>1. CASE UNCHANGED semVars
  BY <1>1 DEF semVars, TypeOK, SemTypeOK
<1>2. ASSUME NEW s \in Sem, SetUp(s) \/ Reset(s)
      PROVE  SemTypeOK'
  BY <1>2, SemAssumption DEF SetUp, Reset, TypeOK, SemTypeOK
<1>3. ASSUME NEW s \in Sem, Kept(s)
      PROVE  SemTypeOK'
  <2>1. sem_val[s] + 1 \in 0 .. SEM_VALUE_CAP
    BY <1>3, SemAssumption DEF Kept, TypeOK
  <2> QED BY <1>3, <2>1 DEF Kept, TypeOK, SemTypeOK
<1>4. ASSUME NEW s \in Sem, Given(s)
      PROVE  SemTypeOK'
  BY <1>4 DEF Given, TypeOK, SemTypeOK
<1>5. ASSUME NEW s \in Sem, NEW t \in Thread, Taken(t, s)
      PROVE  SemTypeOK'
  <2>1. sem_val[s] - 1 \in 0 .. SEM_VALUE_CAP
    BY <1>5, SemAssumption DEF Taken, TypeOK
  <2> QED BY <1>5, <2>1 DEF Taken, TypeOK, SemTypeOK
<1> QED BY <1>1, <1>2, <1>3, <1>4, <1>5
        DEF SemEffect, vars, semVars, Blocks, BlocksTimed, SemReturn

(* and so does the run-time block. *)
LEMMA EffectKeepsCoreType ==
  ASSUME TypeOK, SemEffect
  PROVE  CoreTypeOK'
<1>1. CASE UNCHANGED coreVars
  BY <1>1 DEF coreVars, TypeOK, CoreTypeOK, QueuesOK
<1>2. ASSUME NEW s \in Sem, Given(s)
      PROVE  CoreTypeOK'
  <2>1. wq_head(Queue(s)) \in Thread
    BY <1>2, HeadMember, QueueLemma DEF Given, TypeOK, CoreTypeOK
  <2> QED BY <1>2, <2>1, WakeupKeepsType, QueueLemma DEF Given, TypeOK
<1>3. ASSUME NEW s \in Sem, NEW t \in Thread, Taken(t, s)
      PROVE  CoreTypeOK'
  BY <1>3 DEF Taken, TypeOK, CoreTypeOK, QueuesOK, handlerVars
<1>4. ASSUME NEW s \in Sem, NEW t \in Thread, Blocks(t, s)
      PROVE  CoreTypeOK'
  <2>1. QueuesOK(wait_unless_empty(wq_insert(wq_lst, Queue(s), t), t))
    BY QueueLemma, InsertType, UnlessEmptyType DEF TypeOK, CoreTypeOK
  <2>2. Stat(Queue(s), 0) \in 0 .. 255
    BY QueueLemma, StatType
  <2>3. Queue(s) \in Int /\ Call("sem_wait", Queue(s), 0) \in CallRecord
    BY QueueLemma, CallType, LayoutLemma DEF BlockingCalls, WQ
  <2>4. clock' \in [Thread -> 0 .. CLOCK_MOD - 1]
    BY <1>4 DEF Blocks, TypeOK, CoreTypeOK
  <2> QED BY <1>4, <2>1, <2>2, <2>3, <2>4, BlockKeepsType DEF Blocks, TypeOK, OK
<1>5. ASSUME NEW s \in Sem, NEW t \in Thread, BlocksTimed(t, s)
      PROVE  CoreTypeOK'
  <2>1. QueuesOK(wait_unless_empty(tmdwq_insert(wq_lst, Queue(s), t), t))
    BY QueueLemma, InsertType, UnlessEmptyType DEF TypeOK, CoreTypeOK
  <2>2. Stat(Queue(s), 1) \in 0 .. 255
    BY QueueLemma, StatType
  <2>3. Queue(s) \in Int /\ Call("sem_timedwait", Queue(s), 0) \in CallRecord
    BY QueueLemma, CallType, LayoutLemma DEF BlockingCalls, WQ
  <2>4. clock' \in [Thread -> 0 .. CLOCK_MOD - 1]
    BY <1>5, SetClockType, CoreAssumption DEF BlocksTimed, TypeOK
  <2> QED BY <1>5, <2>1, <2>2, <2>3, <2>4, BlockKeepsType
          DEF BlocksTimed, TypeOK, ETIMEDOUT
<1>6. ASSUME NEW t \in Thread, SemReturn(t)
      PROVE  CoreTypeOK'
  BY <1>6, CallReturnKeepsType DEF SemReturn, TypeOK
<1> QED BY <1>1, <1>2, <1>3, <1>4, <1>5, <1>6
        DEF SemEffect, vars, SetUp, Reset, Kept

(* Every step is one of the core or has an effect on a semaphore. *)
LEMMA NextEffect ==
  ASSUME TypeOK, [Next]_vars
  PROVE  (CoreStep /\ UNCHANGED semVars) \/ SemEffect
BY SemStepEffect, IrqStepEffect DEF Next, SemEffect

(* Every step keeps the types. *)
LEMMA NextKeepsType ==
  ASSUME TypeOK, [Next]_vars
  PROVE  TypeOK'
<1>1. CASE CoreStep /\ UNCHANGED semVars
  <2>1. CoreTypeOK'
    BY <1>1, CoreStepKeepsType DEF TypeOK
  <2> QED BY <1>1, <2>1 DEF semVars, TypeOK
<1>2. CASE SemEffect
  BY <1>2, EffectKeepsCoreType, EffectKeepsSemType DEF TypeOK, SemTypeOK
<1> QED BY <1>1, <1>2, NextEffect

(* The initial state is well typed. *)
LEMMA InitType == ASSUME Init PROVE TypeOK
BY CoreInitType, SemAssumption DEF Init, TypeOK

(***************************************************************************)
(* The run-time block and the semaphores keep their types in every         *)
(* configuration: no wait drives a value below zero, and a post wakes up a *)
(* thread, never the null thread (thinkos_semaphore.c, thinkos_irq.h).     *)
(***************************************************************************)
THEOREM SemTypeCorrect == Spec => []TypeOK
<1>1. Init => TypeOK
  BY InitType
<1>2. TypeOK /\ [Next]_vars => TypeOK'
  BY NextKeepsType
<1> QED BY <1>1, <1>2, PTL DEF Spec

--------------------------------------------------------------------------------
(***************************************************************************)
(* Nobody waits on a semaphore with tokens. A set-up must find the queue   *)
(* empty, which it does as long as nobody waits on what is not allocated.  *)
(***************************************************************************)
NobodyWaitsUnallocated ==
  \A s \in Sem \ RESET_SEMS : s \notin sem_alloc => wq_lst[Queue(s)] = {}

TokenInv == WaitersMeanNoToken /\ NobodyWaitsUnallocated

(* Whatever only shortens the queues and leaves the values alone keeps it, *)
LEMMA ShrinkKeepsToken ==
  ASSUME TokenInv, UNCHANGED <<sem_val, sem_alloc>>,
         \A v \in ObjectWQ : wq_lst'[v] \subseteq wq_lst[v]
  PROVE  TokenInv'
BY QueueLemma DEF TokenInv, WaitersMeanNoToken, NobodyWaitsUnallocated, Queue

(* and so does every effect of a semaphore call. *)
LEMMA EffectKeepsToken ==
  ASSUME TypeOK, TokenInv, SemEffect
  PROVE  TokenInv'
<1> USE DEF TokenInv, WaitersMeanNoToken, NobodyWaitsUnallocated
<1>1. CASE UNCHANGED <<wq_lst, sem_val, sem_alloc>>
  BY <1>1
<1>2. ASSUME NEW s \in Sem, SetUp(s) \/ Reset(s) \/ Kept(s)
      PROVE  TokenInv'
  <2>1. /\ UNCHANGED wq_lst
        /\ \A r \in Sem \ {s} : sem_val'[r] = sem_val[r]
        /\ \A r \in Sem \ {s} : r \in sem_alloc' <=> r \in sem_alloc
    BY <1>2 DEF SetUp, Reset, Kept, coreVars, TypeOK
  <2>2. s \in RESET_SEMS \/ (wq_lst[Queue(s)] = {} /\ s \in sem_alloc')
    BY <1>2 DEF SetUp, Reset, Kept
  <2> QED BY <2>1, <2>2 DEF Queue
<1>3. ASSUME NEW s \in Sem, Given(s)
      PROVE  TokenInv'
  <2>1. \A v \in ObjectWQ : wq_lst'[v] \subseteq wq_lst[v]
    BY <1>3, QueueLemma, WakeupQueues DEF Given, Wakeup
  <2> QED BY <1>3, <2>1, ShrinkKeepsToken DEF Given
<1>4. ASSUME NEW s \in Sem, NEW t \in Thread, Taken(t, s)
      PROVE  TokenInv'
  <2>1. \A r \in Sem : sem_val[r] = 0 => sem_val'[r] = 0
    BY <1>4 DEF Taken, TypeOK
  <2> QED BY <1>4, <2>1 DEF Taken
<1>5. ASSUME NEW s \in Sem, NEW t \in Thread, Blocks(t, s) \/ BlocksTimed(t, s)
      PROVE  TokenInv'
  <2>1. \A v \in ObjectWQ :
          wq_lst'[v] = IF v = Queue(s) THEN wq_lst[v] \cup {t} ELSE wq_lst[v]
    BY <1>5, QueueLemma, BlockQueues DEF Blocks, BlocksTimed, TypeOK, CoreTypeOK
  <2>2. \A r \in Sem \ {s} : wq_lst'[Queue(r)] = wq_lst[Queue(r)]
    BY <2>1, QueueLemma
  <2>3. /\ UNCHANGED <<sem_val, sem_alloc>>
        /\ s \in sem_alloc /\ sem_val[s] = 0
    BY <1>5 DEF Blocks, BlocksTimed, semVars
  <2> QED BY <2>2, <2>3 DEF Queue
<1> QED BY <1>1, <1>2, <1>3, <1>4, <1>5
        DEF SemEffect, vars, coreVars, semVars, SemReturn, CallReturn

(* Every step keeps the invariant. *)
LEMMA NextKeepsToken ==
  ASSUME TypeOK, TokenInv, [Next]_vars
  PROVE  TokenInv'
<1>1. CASE CoreStep /\ UNCHANGED semVars
  BY <1>1, CoreStepQueues, ShrinkKeepsToken DEF semVars, TypeOK
<1> QED BY <1>1, NextEffect, EffectKeepsToken

(***************************************************************************)
(* No thread waits on a semaphore that has tokens, with time sharing or    *)
(* without it, for any number of threads, semaphores, interrupts and       *)
(* timeouts, unless the program resets the semaphore under its waiters     *)
(* (thinkos_sem_wait_svc, _timedwait_svc, _post_svc, __thinkos_sem_post).  *)
(***************************************************************************)
THEOREM NoTokenPastWaiter == Spec => []WaitersMeanNoToken
<1>1. Init => TypeOK /\ TokenInv
  <2>1. ASSUME Init PROVE \A s \in Sem : wq_lst[Queue(s)] = {}
    BY <2>1, QueueLemma DEF Init, CoreInit
  <2> QED BY <2>1, InitType
          DEF TokenInv, WaitersMeanNoToken, NobodyWaitsUnallocated, Queue
<1>2. TypeOK /\ TokenInv /\ [Next]_vars => TypeOK' /\ TokenInv'
  BY NextKeepsType, NextKeepsToken
<1>3. TokenInv => WaitersMeanNoToken
  BY DEF TokenInv
<1> QED BY <1>1, <1>2, <1>3, PTL DEF Spec

--------------------------------------------------------------------------------
(***************************************************************************)
(* Scheduling, without time sharing: posts come in the middle of the clock *)
(* interrupt and between a service call and the scheduler.                 *)
(***************************************************************************)

(* Every effect of a semaphore call keeps the core invariant. *)
LEMMA EffectKeepsInv ==
  ASSUME Configuration, TypeOK, CoreInv, SemEffect
  PROVE  CoreInv'
<1>1. CASE UNCHANGED coreVars
  BY <1>1, QuietKeepsInv DEF coreVars
<1>2. ASSUME NEW s \in Sem, Given(s)
      PROVE  CoreInv'
  <2>1. {wq_head(Queue(s))} \subseteq wq_lst[Queue(s)]
    BY <1>2, HeadMember, QueueLemma DEF Given, TypeOK, CoreTypeOK
  <2> QED BY <1>2, <2>1, WakeupKeepsInv, QueueLemma DEF Given, TypeOK
<1>3. ASSUME NEW s \in Sem, NEW t \in Thread, Taken(t, s)
      PROVE  CoreInv'
  BY <1>3, QuietKeepsInv DEF Taken, handlerVars
<1>4. ASSUME NEW s \in Sem, NEW t \in Thread, Blocks(t, s) \/ BlocksTimed(t, s)
      PROVE  CoreInv'
  BY <1>4, WaitKeepsInv, UnlessEmptyIsWait, QueueLemma
     DEF Blocks, BlocksTimed, Blocked, Calls, handlerVars, TypeOK
<1>5. ASSUME NEW t \in Thread, SemReturn(t)
      PROVE  CoreInv'
  BY <1>5, QuietKeepsInv DEF SemReturn, CallReturn, handlerVars
<1> QED BY <1>1, <1>2, <1>3, <1>4, <1>5
        DEF SemEffect, vars, SetUp, Reset, Kept

(* Every step keeps the core invariant. *)
LEMMA NextKeepsInv ==
  ASSUME Configuration, TypeOK, CoreInv, [Next]_vars
  PROVE  CoreInv'
BY NextEffect, CoreStepKeepsInv, EffectKeepsInv DEF TypeOK

(***************************************************************************)
(* Without time sharing, and with queue indices that fit the status byte,  *)
(* a thread is in exactly the queue its status byte names and thread code  *)
(* only executes in the most urgent ready thread, although an interrupt    *)
(* handler posts at any moment (thinkos_semaphore.c, __thinkos_sem_post,   *)
(* cm3_systick_isr).                                                       *)
(***************************************************************************)
THEOREM SemScheduling ==
  ASSUME Configuration
  PROVE  Spec => [](StatusNamesQueue /\ HighestReadyRuns)
<1> DEFINE I == TypeOK /\ CoreInv
<1>1. Init => I
  BY InitType, CoreInitInv DEF Init
<1>2. I /\ [Next]_vars => I'
  BY NextKeepsType, NextKeepsInv
<1>3. I => StatusNamesQueue /\ HighestReadyRuns
  BY CoreInvImplies DEF TypeOK
<1> QED BY <1>1, <1>2, <1>3, PTL DEF Spec

--------------------------------------------------------------------------------
(* No effect of a semaphore call puts a thread past the clock interrupt. *)
LEMMA EffectKeepsTimeout ==
  ASSUME TypeOK, TimeoutInv, SemEffect
  PROVE  TimeoutInv' /\ UNCHANGED tick
<1>1. CASE UNCHANGED <<tick, ticks, clock, wq_lst>>
  BY <1>1, QuietKeepsTimeout
<1>2. ASSUME NEW s \in Sem, Given(s)
      PROVE  TimeoutInv' /\ UNCHANGED tick
  <2>1. wq_lst'[WQ_CLOCK] \subseteq wq_lst[WQ_CLOCK]
    BY <1>2, LayoutLemma DEF Given, Wakeup, wakeup
  <2> QED BY <1>2, <2>1, QuietKeepsTimeout DEF Given, Wakeup, handlerVars
<1>3. ASSUME NEW s \in Sem, NEW t \in Thread, Blocks(t, s) \/ BlocksTimed(t, s)
      PROVE  TimeoutInv' /\ UNCHANGED tick
  BY <1>3, ThreadKeepsTimeout DEF Blocks, BlocksTimed, Calls, Running, handlerVars
<1> QED BY <1>1, <1>2, <1>3
        DEF SemEffect, SetUp, Reset, Kept, Taken, SemReturn, CallReturn, vars, coreVars,
            handlerVars

(***************************************************************************)
(* A clock interrupt leaves no expired thread behind, in any configuration *)
(* and although interrupt handlers wake up threads of its private copy     *)
(* while its loop runs (cm3_systick_isr, __thinkos_sem_post).              *)
(***************************************************************************)
THEOREM SemTimeouts == Spec => NoMissedTimeout
<1> DEFINE I == TypeOK /\ TimeoutInv
           A == tick.pc # "none" /\ tick'.pc = "none" =>
                  \A t \in wq_lst'[WQ_CLOCK] : TicksLeft(t)' > 0
<1>1. Init => I
  BY InitType DEF Init, CoreInit, NoTick, TimeoutInv
<1>2. I /\ [Next]_vars => I' /\ [A]_coreVars
  <2>1. SUFFICES ASSUME I, [Next]_vars PROVE I' /\ [A]_coreVars
    OBVIOUS
  <2>2. TypeOK'
    BY <2>1, NextKeepsType
  <2>3. CASE SysTick
    BY <2>1, <2>2, <2>3, SysTickKeepsTimeout, SysTickExitTimeout DEF TypeOK
  <2>4. CASE tick.pc = "none" /\ UNCHANGED tick
    BY <2>2, <2>4, ThreadKeepsTimeout
  <2>5. CASE SemEffect
    BY <2>1, <2>2, <2>5, EffectKeepsTimeout
  <2> QED BY <2>1, <2>3, <2>4, <2>5, NextEffect, CoreStepTick
<1> QED BY <1>1, <1>2, PTL DEF Spec, NoMissedTimeout

--------------------------------------------------------------------------------
(***************************************************************************)
(* The refinement. What is known of a thread that waits on semaphore s:    *)
(* its call, the result it will see unless a post writes another one, and  *)
(* that the clock interrupt has nothing to do with a wait without timeout. *)
(***************************************************************************)
WaiterOK(s, t) ==
  /\ call[t].op \in SemOps /\ call[t].wq = Queue(s)
  /\ r0[t] = IF call[t].op = "sem_wait" THEN OK ELSE ETIMEDOUT
  /\ s \notin TIMED_SEMS => call[t].op = "sem_wait"
  /\ call[t].op = "sem_wait" =>
       t \notin wq_lst[WQ_CLOCK] /\ t \notin tick.wq /\ ~Expiring(t)

SemInv ==
  /\ tick.pc = "none" => tick.wq = {}
  /\ \A s \in Sem : \A t \in wq_lst[Queue(s)] : WaiterOK(s, t)

(* A thread that waited before, and whom nobody touched, is still all right. *)
LEMMA WaiterFrame ==
  ASSUME NEW s \in Sem, NEW t \in Thread, WaiterOK(s, t),
         call'[t] = call[t], r0'[t] = r0[t],
         t \in wq_lst'[WQ_CLOCK] => t \in wq_lst[WQ_CLOCK],
         t \in tick'.wq => t \in tick.wq \cup wq_lst[WQ_CLOCK],
         Expiring(t)' => Expiring(t) \/ t \in tick.wq
  PROVE  WaiterOK(s, t)'
BY DEF WaiterOK

(* The clock interrupt keeps SemInv, *)
LEMMA SysTickKeepsSem ==
  ASSUME Configuration, TypeOK, SemInv, SysTick
  PROVE  SemInv'
<1>1. UNCHANGED <<call, r0>>
  BY DEF SysTick, SysTickEntry, SysTickScan, SysTickUnlink, SysTickWakeup, SysTickExit
<1>2. wq_lst'[WQ_CLOCK] \subseteq wq_lst[WQ_CLOCK]
  <2>1. CASE SysTickUnlink
    BY <2>1, LayoutLemma DEF SysTickUnlink, TypeOK, CoreTypeOK, QueuesOK
  <2>2. CASE SysTickWakeup
    BY <2>2, LayoutLemma DEF SysTickWakeup, wakeup
  <2> QED BY <2>1, <2>2 DEF SysTick, SysTickEntry, SysTickScan, SysTickExit, Configuration
<1>3. /\ tick'.pc = "none" => tick'.wq = {}
      /\ tick'.wq \subseteq tick.wq \cup wq_lst[WQ_CLOCK]
      /\ \A t \in Thread : Expiring(t)' => Expiring(t) \/ t \in tick.wq
  <2>1. CASE SysTickEntry
    BY <2>1 DEF SysTickEntry, Expiring
  <2>2. CASE SysTickScan
    <3>1. Min(tick.wq) \in tick.wq
      BY <2>2, MinLemma, ThreadLemma DEF SysTickScan, TypeOK, CoreTypeOK, TickRecord
    <3> QED BY <2>2, <3>1 DEF SysTickScan, Expiring, TypeOK, CoreTypeOK, TickRecord
  <2>3. CASE SysTickUnlink
    BY <2>3 DEF SysTickUnlink, Expiring, TypeOK, CoreTypeOK, TickRecord
  <2>4. CASE SysTickWakeup
    BY <2>4 DEF SysTickWakeup, Expiring
  <2>5. CASE SysTickExit
    BY <2>5 DEF SysTickExit, Expiring, NoTick
  <2> QED BY <2>1, <2>2, <2>3, <2>4, <2>5 DEF SysTick
<1>4. ASSUME NEW s \in Sem, NEW t \in wq_lst'[Queue(s)]
      PROVE  WaiterOK(s, t)'
  <2>1. t \in wq_lst[Queue(s)] /\ t \in Thread
    BY <1>4, SysTickQueues, QueueLemma DEF TypeOK, CoreTypeOK, QueuesOK
  <2>2. WaiterOK(s, t)
    BY <2>1 DEF SemInv
  <2> QED BY <1>1, <1>2, <1>3, <2>1, <2>2, WaiterFrame
<1> QED BY <1>3, <1>4 DEF SemInv

(* so does a step of thread u that adds u to no queue of a semaphore, *)
LEMMA ThreadStepKeepsSem ==
  ASSUME TypeOK, CoreInv, SemInv, NEW u \in Thread, Running(u), UNCHANGED tick,
         \A t \in Thread \ {u} : call'[t] = call[t] /\ r0'[t] = r0[t],
         \A v \in ObjectWQ : wq_lst'[v] \subseteq wq_lst[v],
         \A t \in Thread \ {u} : t \in wq_lst'[WQ_CLOCK] => t \in wq_lst[WQ_CLOCK]
  PROVE  SemInv'
<1>1. ASSUME NEW s \in Sem, NEW t \in wq_lst'[Queue(s)]
      PROVE  WaiterOK(s, t)'
  <2>1. t \in wq_lst[Queue(s)] /\ t \in Thread
    BY <1>1, QueueLemma DEF TypeOK, CoreTypeOK, QueuesOK
  <2>2. t # u
    BY <2>1, RunningLemma, QueueLemma DEF TypeOK
  <2>3. WaiterOK(s, t)
    BY <2>1 DEF SemInv
  <2> QED BY <2>1, <2>2, <2>3, WaiterFrame DEF Expiring
<1> QED BY <1>1 DEF SemInv

(* and every step of the core. *)
LEMMA CoreStepKeepsSem ==
  ASSUME Configuration, TypeOK, CoreInv, SemInv, CoreStep
  PROVE  SemInv'
<1>1. CASE PendSV \/ \E t \in Thread : thinkos_yield(t)
  <2>1. UNCHANGED <<wq_lst, tick, call, r0>>
    BY <1>1 DEF PendSV, thinkos_yield, handlerVars
  <2> QED BY <2>1 DEF SemInv, WaiterOK, Expiring
<1>2. CASE SysTick
  BY <1>2, SysTickKeepsSem
<1>3. ASSUME NEW u \in Thread, NEW op, NEW end, ClockWait(u, op, end)
      PROVE  SemInv'
  <2>1. /\ Running(u) /\ UNCHANGED tick
        /\ \A t \in Thread \ {u} : call'[t] = call[t] /\ r0'[t] = r0[t]
    BY <1>3 DEF ClockWait, Calls, handlerVars, Blocked, TypeOK, CoreTypeOK
  <2>2. \A t \in Thread \ {u} : t \in wq_lst'[WQ_CLOCK] => t \in wq_lst[WQ_CLOCK]
    BY <1>3, <2>1, BlockEffect, LayoutLemma DEF ClockWait, TypeOK
  <2> QED BY <2>1, <2>2, CoreStepQueues, ThreadStepKeepsSem DEF TypeOK
<1>4. ASSUME NEW u \in Thread, CoreReturn(u)
      PROVE  SemInv'
  <2>1. /\ Running(u) /\ UNCHANGED <<tick, wq_lst>>
        /\ \A t \in Thread \ {u} : call'[t] = call[t] /\ r0'[t] = r0[t]
    BY <1>4 DEF CoreReturn, CallReturn, handlerVars, TypeOK, CoreTypeOK
  <2> QED BY <2>1, ThreadStepKeepsSem
<1> QED BY <1>1, <1>2, <1>3, <1>4
        DEF CoreStep, thinkos_sleep_svc, thinkos_alarm_svc

(* A wakeup writes the result of the thread it wakes up and of no other. *)
LEMMA CtxWriteOther ==
  ASSUME NEW regs \in [Thread -> Int], NEW ths, NEW ret \in Int,
         NEW new \in CtxWrite(regs, ths, ret), NEW t \in Thread, t \notin ths
  PROVE  new[t] = regs[t]
BY DEF CtxWrite

(* Every effect of a semaphore call keeps SemInv. *)
LEMMA EffectKeepsSem ==
  ASSUME Configuration, TypeOK, CoreInv, SemInv, SemEffect
  PROVE  SemInv'
<1>1. CASE UNCHANGED <<wq_lst, tick, call, r0>>
  BY <1>1 DEF SemInv, WaiterOK, Expiring
<1>2. ASSUME NEW s \in Sem, Given(s)
      PROVE  SemInv'
  <2> DEFINE th == wq_head(Queue(s))
  <2>1. {th} \subseteq wq_lst[Queue(s)]
    BY <1>2, HeadMember, QueueLemma DEF Given, TypeOK, CoreTypeOK
  <2>2. /\ wq_lst' = wakeup(wq_lst, Queue(s), {th})
        /\ r0' \in CtxWrite(r0, {th}, OK)
        /\ UNCHANGED <<tick, call>>
    BY <1>2 DEF Given, Wakeup, handlerVars
  <2>3. \A v \in WQ, u \in Thread :
          u \in wq_lst'[v] <=> IF u = th THEN v = WQ_READY ELSE u \in wq_lst[v]
    BY <2>1, <2>2, WakeupEffect, QueueLemma DEF TypeOK
  <2>4. wq_lst'[WQ_CLOCK] \subseteq wq_lst[WQ_CLOCK]
    BY <2>2, LayoutLemma DEF wakeup
  <2>5. ASSUME NEW r \in Sem, NEW t \in wq_lst'[Queue(r)]
        PROVE  WaiterOK(r, t)'
    <3>1. t \in wq_lst[Queue(r)]
      BY <2>2, <2>5, QueueLemma, WakeupQueues
    <3>2. t \in Thread /\ t # th
      BY <2>3, <2>5, <3>1, QueueLemma DEF TypeOK, CoreTypeOK, QueuesOK
    <3>3. r0'[t] = r0[t]
      BY <2>2, <3>2, CtxWriteOther DEF TypeOK, CoreTypeOK, OK
    <3>4. WaiterOK(r, t)
      BY <3>1 DEF SemInv
    <3> QED BY <2>2, <2>4, <3>2, <3>3, <3>4, WaiterFrame DEF Expiring
  <2> QED BY <2>2, <2>5 DEF SemInv
<1>3. ASSUME NEW s \in Sem, NEW u \in Thread, Blocks(u, s) \/ BlocksTimed(u, s)
      PROVE  SemInv'
  <2>1. /\ Running(u) /\ UNCHANGED tick
        /\ \A t \in Thread \ {u} : call'[t] = call[t] /\ r0'[t] = r0[t]
    BY <1>3 DEF Blocks, BlocksTimed, Calls, handlerVars, Blocked, TypeOK, CoreTypeOK
  <2>2. \/ /\ wq_lst' = wait(wq_insert(wq_lst, Queue(s), u), u)
           /\ call'[u] = Call("sem_wait", Queue(s), 0) /\ r0'[u] = OK
        \/ /\ wq_lst' = wait(tmdwq_insert(wq_lst, Queue(s), u), u)
           /\ s \in TIMED_SEMS
           /\ call'[u] = Call("sem_timedwait", Queue(s), 0) /\ r0'[u] = ETIMEDOUT
    BY <1>3, UnlessEmptyIsWait DEF Blocks, BlocksTimed, Blocked, TypeOK, CoreTypeOK
  <2>3. \A v \in WQ, t \in Thread :
          t \in wq_lst'[v] =>
            IF t = u THEN v \in {Queue(s), WQ_CLOCK} ELSE t \in wq_lst[v]
    BY <2>1, <2>2, BlockEffect, QueueLemma DEF TypeOK
  <2>4. call'[u].op = "sem_wait" => u \notin wq_lst'[WQ_CLOCK]
    <3>1. CASE wq_lst' = wait(wq_insert(wq_lst, Queue(s), u), u)
      BY <2>1, <3>1, BlockEffect, QueueLemma, LayoutLemma DEF TypeOK
    <3> QED BY <2>2, <3>1 DEF Call
  <2>5. tick.wq = {} /\ tick.pc = "none"
    BY <2>1 DEF Running, SemInv
  <2>6. ASSUME NEW r \in Sem, NEW t \in wq_lst'[Queue(r)]
        PROVE  WaiterOK(r, t)'
    <3>1. t \in Thread
      BY <1>3, <2>6, EffectKeepsCoreType, QueueLemma DEF CoreTypeOK, QueuesOK
    <3>2. CASE t = u
      <4>1. Queue(r) = Queue(s)
        BY <2>3, <2>6, <3>1, <3>2, QueueLemma
      <4>2. r = s
        BY <4>1, QueueLemma
      <4>3. t \notin tick'.wq /\ ~Expiring(t)'
        BY <2>1, <2>5 DEF Expiring
      <4> QED BY <2>2, <2>4, <3>2, <4>2, <4>3 DEF WaiterOK, Call, SemOps
    <3>3. CASE t # u
      <4>1. t \in wq_lst[Queue(r)]
        BY <2>3, <2>6, <3>1, <3>3, QueueLemma
      <4>2. WaiterOK(r, t)
        BY <4>1 DEF SemInv
      <4>3. t \in wq_lst'[WQ_CLOCK] => t \in wq_lst[WQ_CLOCK]
        BY <2>3, <3>1, <3>3, LayoutLemma
      <4> QED BY <2>1, <3>1, <3>3, <4>2, <4>3, WaiterFrame DEF Expiring
    <3> QED BY <3>2, <3>3
  <2> QED BY <2>1, <2>5, <2>6 DEF SemInv
<1>4. ASSUME NEW u \in Thread, SemReturn(u)
      PROVE  SemInv'
  <2>1. /\ Running(u) /\ UNCHANGED <<tick, wq_lst>>
        /\ \A t \in Thread \ {u} : call'[t] = call[t] /\ r0'[t] = r0[t]
    BY <1>4 DEF SemReturn, CallReturn, handlerVars, TypeOK, CoreTypeOK
  <2> QED BY <2>1, ThreadStepKeepsSem
<1> QED BY <1>1, <1>2, <1>3, <1>4
        DEF SemEffect, SetUp, Reset, Kept, Taken, vars, coreVars, handlerVars

--------------------------------------------------------------------------------
(***************************************************************************)
(* The steps of the abstract semaphore, for semaphore s as its callers see *)
(* it. The simulation is shown for any semaphore the program does not      *)
(* reset, and to which interrupt handlers post only if nobody waits on it  *)
(* with a timeout; the two instances of module Semaphore follow.           *)
(***************************************************************************)
Req(s) == [t \in Thread |-> RequestOf(s, t)]

Moves(s, t, from, to) == Req(s)[t] = from /\ Req(s)' = [Req(s) EXCEPT ![t] = to]

Opens(s) ==
  /\ s \notin sem_alloc /\ s \in sem_alloc'
  /\ sem_val'[s] \in Nat /\ Req(s)' = Req(s) /\ posts'[s] = posts[s]

Posts(s) ==
  /\ s \in sem_alloc /\ s \in sem_alloc'
  /\ \A t \in Thread : Req(s)[t] # "waiting"
  /\ sem_val'[s] = sem_val[s] + 1 /\ posts'[s] = 1 - posts[s] /\ Req(s)' = Req(s)

Takes(s, t) ==
  /\ s \in sem_alloc /\ s \in sem_alloc'
  /\ Req(s)[t] = "none" /\ sem_val[s] > 0 /\ sem_val'[s] = sem_val[s] - 1
  /\ Req(s)' = Req(s) /\ posts'[s] = posts[s]

Keeps(s) ==
  /\ s \in sem_alloc' <=> s \in sem_alloc
  /\ sem_val'[s] = sem_val[s]

Waits(s, t) ==
  /\ s \in sem_alloc /\ sem_val[s] = 0 /\ Moves(s, t, "none", "waiting")
  /\ Keeps(s) /\ posts'[s] = posts[s]

Gives(s, t) == Moves(s, t, "waiting", "got") /\ posts'[s] = 1 - posts[s] /\ Keeps(s)

Expires(s, t) == Moves(s, t, "waiting", "timedout") /\ posts'[s] = posts[s] /\ Keeps(s)

Returns(s, t) ==
  /\ Moves(s, t, "got", "none") \/ Moves(s, t, "timedout", "none")
  /\ posts'[s] = posts[s] /\ Keeps(s)

AbstractStep(s) ==
  \/ Opens(s) \/ Posts(s)
  \/ \E t \in Thread :
       Takes(s, t) \/ Waits(s, t) \/ Gives(s, t) \/ Expires(s, t) \/ Returns(s, t)

AbstractStutter(s) == Req(s)' = Req(s) /\ posts'[s] = posts[s] /\ Keeps(s)

Simulates(s) == AbstractStep(s) \/ AbstractStutter(s)

(* The semaphores that behave as module Semaphore says. *)
Served(s) ==
  /\ s \in Sem \ RESET_SEMS
  /\ s \notin IRQ_SEMS \/ s \notin TIMED_SEMS

(* A request nobody touched looks the same, *)
LEMMA RequestFrame ==
  ASSUME NEW s \in Sem, NEW t \in Thread, call'[t] = call[t], r0'[t] = r0[t],
         t \in wq_lst'[Queue(s)] <=> t \in wq_lst[Queue(s)]
  PROVE  RequestOf(s, t)' = RequestOf(s, t)
BY DEF RequestOf, Queue

(* a thread that makes a call has no request, *)
LEMMA NoRequest ==
  ASSUME NEW s \in Sem, NEW t \in Thread, Calls(t)
  PROVE  RequestOf(s, t) = "none"
BY DEF RequestOf, Calls, NoCall, SemOps

(* and if at most one request changes, the semaphore makes one move. *)
LEMMA OneMove ==
  ASSUME NEW s \in Sem, NEW t \in Thread,
         \A u \in Thread \ {t} : RequestOf(s, u)' = RequestOf(s, u)
  PROVE  /\ Req(s)[t] = RequestOf(s, t)
         /\ Req(s)' = [Req(s) EXCEPT ![t] = RequestOf(s, t)']
BY DEF Req

(* The clock interrupt makes a request time out or is not noticed. *)
LEMMA SysTickSimulates ==
  ASSUME Configuration, TypeOK, CoreInv, SemInv, SysTick, UNCHANGED semVars,
         NEW s \in Sem
  PROVE  Simulates(s)
<1>1. UNCHANGED <<call, r0>> /\ Keeps(s) /\ posts'[s] = posts[s]
  BY DEF SysTick, SysTickEntry, SysTickScan, SysTickUnlink, SysTickWakeup,
         SysTickExit, Keeps, semVars
<1>2. CASE wq_lst'[Queue(s)] = wq_lst[Queue(s)]
  <2>1. \A t \in Thread : RequestOf(s, t)' = RequestOf(s, t)
    BY <1>1, <1>2, RequestFrame
  <2> QED BY <1>1, <2>1 DEF Simulates, AbstractStutter, Req
<1>3. CASE SysTickUnlink /\ wq_lst'[Queue(s)] # wq_lst[Queue(s)]
  <2>0. PICK j \in Thread : j = tick.j
    BY DEF TypeOK, CoreTypeOK, TickRecord
  <2>1. Expiring(j)
    BY <1>3, <2>0 DEF SysTickUnlink, Expiring
  <2>2. wq_lst'[Queue(s)] = wq_lst[Queue(s)] \ {j} /\ j \in wq_lst[Queue(s)]
    BY <1>3, <2>0, QueueLemma DEF SysTickUnlink, TypeOK, CoreTypeOK, QueuesOK
  <2>3. WaiterOK(s, j)
    BY <2>2 DEF SemInv
  <2>4. call[j].op = "sem_timedwait" /\ r0[j] = ETIMEDOUT /\ call[j].wq = Queue(s)
    BY <2>1, <2>3 DEF WaiterOK, SemOps
  <2>5. RequestOf(s, j) = "waiting" /\ RequestOf(s, j)' = "timedout"
    BY <1>1, <2>1, <2>2, <2>4 DEF RequestOf, Queue, SemOps, OK, ETIMEDOUT
  <2>6. \A t \in Thread \ {j} : RequestOf(s, t)' = RequestOf(s, t)
    BY <1>1, <2>2, RequestFrame
  <2>7. Moves(s, j, "waiting", "timedout")
    BY <2>1, <2>5, <2>6, OneMove DEF Moves
  <2> QED BY <1>1, <2>1, <2>7 DEF Simulates, AbstractStep, Expires
<1>4. CASE SysTickWakeup
  <2>1. wq_lst'[Queue(s)] = wq_lst[Queue(s)]
    BY <1>4, QueueLemma DEF SysTickWakeup, wakeup
  <2> QED BY <1>2, <2>1
<1> QED BY <1>2, <1>3, <1>4
        DEF SysTick, SysTickEntry, SysTickScan, SysTickExit, Configuration

(* The other steps of the core are not noticed. *)
LEMMA CoreStepSimulates ==
  ASSUME Configuration, TypeOK, CoreInv, SemInv, CoreStep, UNCHANGED semVars,
         NEW s \in Sem
  PROVE  Simulates(s)
<1>1. Keeps(s) /\ posts'[s] = posts[s]
  BY DEF Keeps, semVars
<1>2. SUFFICES ASSUME ~SysTick
               PROVE  \A t \in Thread : RequestOf(s, t)' = RequestOf(s, t)
  BY <1>1, SysTickSimulates DEF Simulates, AbstractStutter, Req
<1>3. CASE PendSV \/ \E t \in Thread : thinkos_yield(t)
  BY <1>3, RequestFrame DEF PendSV, thinkos_yield
<1>4. ASSUME NEW u \in Thread, NEW op \in CoreOps, NEW end, ClockWait(u, op, end)
      PROVE  \A t \in Thread : RequestOf(s, t)' = RequestOf(s, t)
  <2>1. /\ Running(u) /\ Calls(u)
        /\ \A t \in Thread \ {u} : call'[t] = call[t] /\ r0'[t] = r0[t]
        /\ call'[u] = Call(op, WQ_CLOCK, 0)
    BY <1>4 DEF ClockWait, Calls, Blocked, TypeOK, CoreTypeOK
  <2>2. \A t \in Thread \ {u} : t \in wq_lst'[Queue(s)] <=> t \in wq_lst[Queue(s)]
    BY <1>4, <2>1, BlockEffect, LayoutLemma, QueueLemma DEF ClockWait, TypeOK
  <2>3. RequestOf(s, u) = "none" /\ RequestOf(s, u)' = "none"
    BY <2>1, NoRequest DEF RequestOf, Call, CoreOps, SemOps
  <2> QED BY <2>1, <2>2, <2>3, RequestFrame
<1>5. ASSUME NEW u \in Thread, CoreReturn(u)
      PROVE  \A t \in Thread : RequestOf(s, t)' = RequestOf(s, t)
  <2>1. /\ UNCHANGED wq_lst
        /\ \A t \in Thread \ {u} : call'[t] = call[t] /\ r0'[t] = r0[t]
        /\ call'[u] = NoCall /\ call[u].op \in CoreOps
    BY <1>5 DEF CoreReturn, CallReturn, TypeOK, CoreTypeOK
  <2>2. RequestOf(s, u) = "none" /\ RequestOf(s, u)' = "none"
    BY <2>1 DEF RequestOf, NoCall, CoreOps, SemOps
  <2> QED BY <2>1, <2>2, RequestFrame
<1> QED BY <1>2, <1>3, <1>4, <1>5
        DEF CoreStep, thinkos_sleep_svc, thinkos_alarm_svc, CoreOps

(* Every effect on the semaphores is an abstract step of semaphore s. *)
LEMMA EffectSimulates ==
  ASSUME Configuration, TypeOK, CoreInv, SemInv, SemEffect, NEW s, Served(s)
  PROVE  Simulates(s)
<1>0. s \in Sem /\ s \notin RESET_SEMS
  BY DEF Served
<1>1. CASE UNCHANGED vars
  BY <1>1 DEF vars, coreVars, semVars, Simulates, AbstractStutter, Keeps, Req, RequestOf
<1>2. ASSUME NEW r \in Sem, SetUp(r) \/ Reset(r) \/ Kept(r)
      PROVE  Simulates(s)
  <2>1. \A t \in Thread : RequestOf(s, t)' = RequestOf(s, t)
    BY <1>0, <1>2, RequestFrame DEF SetUp, Reset, Kept, coreVars
  <2>2. Req(s)' = Req(s)
    BY <2>1 DEF Req
  <2>3. CASE r # s
    BY <1>0, <1>2, <2>2, <2>3
       DEF SetUp, Reset, Kept, Simulates, AbstractStutter, Keeps, TypeOK
  <2>4. CASE r = s /\ SetUp(s)
    BY <1>0, <2>2, <2>4, SemAssumption
       DEF SetUp, Simulates, AbstractStep, Opens, TypeOK
  <2>5. CASE r = s /\ Kept(s)
    <3>1. \A t \in Thread : Req(s)[t] # "waiting"
      BY <2>5 DEF Kept, Req, RequestOf, Queue
    <3> QED BY <1>0, <2>2, <2>5, <3>1
            DEF Kept, Simulates, AbstractStep, Posts, TypeOK
  <2> QED BY <1>0, <1>2, <2>3, <2>4, <2>5 DEF Reset
<1>3. ASSUME NEW r \in Sem, Given(r)
      PROVE  Simulates(s)
  <2>1. PICK th \in Thread : th = wq_head(Queue(r)) /\ th \in wq_lst[Queue(r)]
    BY <1>3, HeadMember, QueueLemma DEF Given, TypeOK, CoreTypeOK
  <2>2. /\ wq_lst' = wakeup(wq_lst, Queue(r), {th})
        /\ r0' \in CtxWrite(r0, {th}, OK)
        /\ UNCHANGED call
        /\ Keeps(s) /\ posts'[s] = IF r = s THEN 1 - posts[s] ELSE posts[s]
    BY <1>0, <1>3, <2>1 DEF Given, Wakeup, handlerVars, Keeps, TypeOK
  <2>3. \A v \in ObjectWQ :
          wq_lst'[v] = IF v = Queue(r) THEN wq_lst[v] \ {th} ELSE wq_lst[v]
    BY <2>2, QueueLemma, WakeupQueues
  <2>4. \A t \in Thread \ {th} : RequestOf(s, t)' = RequestOf(s, t)
    <3>1. SUFFICES ASSUME NEW t \in Thread, t # th
                   PROVE  RequestOf(s, t)' = RequestOf(s, t)
      OBVIOUS
    <3>2. r0'[t] = r0[t]
      BY <2>2, <3>1, CtxWriteOther DEF TypeOK, CoreTypeOK, OK
    <3>3. t \in wq_lst'[Queue(s)] <=> t \in wq_lst[Queue(s)]
      BY <1>0, <2>3, <3>1, QueueLemma
    <3> QED BY <1>0, <2>2, <3>2, <3>3, RequestFrame
  <2>5. WaiterOK(r, th)
    BY <2>1 DEF SemInv
  <2>6. CASE r # s
    <3>1. call[th].wq # Queue(s)
      BY <1>0, <2>5, <2>6, QueueLemma DEF WaiterOK
    <3>2. RequestOf(s, th)' = RequestOf(s, th)
      BY <2>2, <3>1 DEF RequestOf, Queue
    <3> QED BY <2>2, <2>4, <2>6, <3>2 DEF Simulates, AbstractStutter, Req
  <2>7. CASE r = s
    <3>1. RequestOf(s, th) = "waiting"
      BY <2>1, <2>5, <2>7 DEF RequestOf, WaiterOK, Queue
    <3>2. r0'[th] = OK
      <4>1. CASE call[th].op = "sem_wait"
        <5>1. r0[th] = OK
          BY <2>5, <4>1 DEF WaiterOK
        <5> QED BY <2>2, <5>1 DEF CtxWrite, TypeOK, CoreTypeOK
      <4>2. CASE call[th].op # "sem_wait"
        <5>1. s \notin IRQ_SEMS
          BY <2>5, <2>7, <4>2 DEF WaiterOK, Served
        <5>2. PICK t \in Thread : Running(t)
          BY <1>3, <2>7, <5>1 DEF Given
        <5>3. active # th
          BY <2>1, <5>2, RunningLemma, QueueLemma DEF Running, TypeOK
        <5> QED BY <2>2, <5>3 DEF CtxWrite, TypeOK, CoreTypeOK
      <4> QED BY <4>1, <4>2
    <3>3. th \notin wq_lst'[Queue(s)]
      BY <1>0, <2>3, <2>7, QueueLemma
    <3>4. RequestOf(s, th)' = "got"
      BY <2>2, <2>5, <2>7, <3>2, <3>3 DEF RequestOf, WaiterOK, Queue
    <3>5. Moves(s, th, "waiting", "got")
      BY <1>0, <2>4, <3>1, <3>4, OneMove DEF Moves
    <3> QED BY <2>2, <2>7, <3>5 DEF Simulates, AbstractStep, Gives
  <2> QED BY <2>6, <2>7
<1>4. ASSUME NEW r \in Sem, NEW u \in Thread, Taken(u, r)
      PROVE  Simulates(s)
  <2>1. Req(s)' = Req(s)
    BY <1>4 DEF Taken, Req, RequestOf
  <2>2. Req(s)[u] = "none"
    BY <1>0, <1>4, NoRequest DEF Taken, Req
  <2>3. CASE r = s
    BY <1>0, <1>4, <2>1, <2>2, <2>3
       DEF Taken, Simulates, AbstractStep, Takes, TypeOK
  <2>4. CASE r # s
    BY <1>0, <1>4, <2>1, <2>4
       DEF Taken, Simulates, AbstractStutter, Keeps, TypeOK
  <2> QED BY <2>3, <2>4
<1>5. ASSUME NEW r \in Sem, NEW u \in Thread, Blocks(u, r) \/ BlocksTimed(u, r)
      PROVE  Simulates(s)
  <2>1. /\ Calls(u) /\ UNCHANGED semVars
        /\ \A t \in Thread \ {u} : call'[t] = call[t] /\ r0'[t] = r0[t]
        /\ call'[u] \in {Call("sem_wait", Queue(r), 0), Call("sem_timedwait", Queue(r), 0)}
    BY <1>5 DEF Blocks, BlocksTimed, Blocked, TypeOK, CoreTypeOK
  <2>2. \A v \in ObjectWQ :
          wq_lst'[v] = IF v = Queue(r) THEN wq_lst[v] \cup {u} ELSE wq_lst[v]
    BY <1>5, QueueLemma, BlockQueues DEF Blocks, BlocksTimed, TypeOK, CoreTypeOK
  <2>3. \A t \in Thread \ {u} : RequestOf(s, t)' = RequestOf(s, t)
    BY <1>0, <2>1, <2>2, QueueLemma, RequestFrame
  <2>4. RequestOf(s, u) = "none"
    BY <1>0, <2>1, NoRequest
  <2>5. Keeps(s) /\ posts'[s] = posts[s]
    BY <2>1 DEF semVars, Keeps
  <2>6. CASE r = s
    <3>0. u \in wq_lst'[Queue(s)]
      BY <1>0, <2>2, <2>6, QueueLemma
    <3>4. call'[u].op \in SemOps /\ call'[u].wq = Queue(s)
      BY <2>1, <2>6 DEF Call, SemOps
    <3>1. RequestOf(s, u)' = "waiting"
      BY <3>0, <3>4 DEF RequestOf, Queue
    <3>2. Moves(s, u, "none", "waiting")
      BY <1>0, <2>3, <2>4, <3>1, OneMove DEF Moves
    <3>3. s \in sem_alloc /\ sem_val[s] = 0
      BY <1>5, <2>6 DEF Blocks, BlocksTimed
    <3> QED BY <2>5, <3>2, <3>3 DEF Simulates, AbstractStep, Waits
  <2>7. CASE r # s
    <3>1. RequestOf(s, u)' = "none"
      BY <1>0, <2>1, <2>7, QueueLemma DEF RequestOf, Call, Queue
    <3> QED BY <2>3, <2>4, <2>5, <3>1 DEF Simulates, AbstractStutter, Req
  <2> QED BY <2>6, <2>7
<1>6. ASSUME NEW u \in Thread, SemReturn(u)
      PROVE  Simulates(s)
  <2>1. /\ Running(u) /\ UNCHANGED wq_lst /\ UNCHANGED semVars
        /\ \A t \in Thread \ {u} : call'[t] = call[t] /\ r0'[t] = r0[t]
        /\ call'[u] = NoCall
    BY <1>6 DEF SemReturn, CallReturn, TypeOK, CoreTypeOK
  <2>2. \A t \in Thread \ {u} : RequestOf(s, t)' = RequestOf(s, t)
    BY <1>0, <2>1, RequestFrame
  <2>3. RequestOf(s, u)' = "none"
    BY <2>1 DEF RequestOf, NoCall, SemOps
  <2>4. u \notin wq_lst[Queue(s)]
    BY <1>0, <2>1, RunningLemma, QueueLemma DEF TypeOK
  <2>5. RequestOf(s, u) \in {"none", "got", "timedout"}
    BY <2>4 DEF RequestOf, Queue
  <2>6. Keeps(s) /\ posts'[s] = posts[s]
    BY <2>1 DEF semVars, Keeps
  <2>7. CASE RequestOf(s, u) = "none"
    BY <2>2, <2>3, <2>6, <2>7 DEF Simulates, AbstractStutter, Req
  <2>8. CASE RequestOf(s, u) # "none"
    <3>1. Moves(s, u, "got", "none") \/ Moves(s, u, "timedout", "none")
      BY <1>0, <2>2, <2>3, <2>5, <2>8, OneMove DEF Moves
    <3> QED BY <2>6, <3>1 DEF Simulates, AbstractStep, Returns
  <2> QED BY <2>7, <2>8
<1> QED BY <1>1, <1>2, <1>3, <1>4, <1>5, <1>6 DEF SemEffect

(* The invariant the simulation rests on. *)
RefinementInv == TypeOK /\ CoreInv /\ SemInv

(* It holds initially, *)
LEMMA InitRefinementInv ==
  ASSUME Init
  PROVE  RefinementInv
<1>1. SemInv
  <2>1. \A s \in Sem : wq_lst[Queue(s)] = {}
    BY QueueLemma DEF Init, CoreInit
  <2> QED BY <2>1 DEF Init, CoreInit, NoTick, SemInv
<1> QED BY <1>1, InitType, CoreInitInv DEF Init, RefinementInv

(* and every step keeps it. *)
LEMMA NextRefinementInv ==
  ASSUME Configuration, RefinementInv, [Next]_vars
  PROVE  RefinementInv'
BY NextKeepsType, NextKeepsInv, NextEffect, CoreStepKeepsSem, EffectKeepsSem
   DEF RefinementInv

(* Every step is a step of the abstract semaphore or a stutter. *)
LEMMA NextSimulates ==
  ASSUME Configuration, RefinementInv, [Next]_vars, NEW s, Served(s)
  PROVE  Simulates(s)
BY NextEffect, CoreStepSimulates, EffectSimulates DEF RefinementInv, Served

(***************************************************************************)
(* Semaphore 0, to which only threads post, implements the counting        *)
(* semaphore with timed waits: no post is lost or counted twice, and no    *)
(* request that reports a timeout has taken one, for any number of threads *)
(* and whatever happens to the other semaphores (thinkos_semaphore.c,      *)
(* cm3_systick_isr).                                                       *)
(***************************************************************************)
THEOREM SemaphoreRefinement ==
  ASSUME Configuration, 0 \in Sem \ RESET_SEMS, 0 \notin IRQ_SEMS
  PROVE  Spec => IsSemaphore
<1>1. Init => Abstract!Init
  BY DEF Init, CoreInit, Abstract!Init, RequestOf, NoCall, SemOps
<1>2. RefinementInv /\ [Next]_vars => [Abstract!Next]_Abstract!vars
  <2>1. SUFFICES ASSUME RefinementInv, [Next]_vars
                 PROVE  [Abstract!Next]_Abstract!vars
    OBVIOUS
  <2>2. Simulates(0)
    BY <2>1, NextSimulates DEF Served
  <2>3. CASE AbstractStutter(0)
    BY <2>3 DEF AbstractStutter, Keeps, Req, Abstract!vars
  <2>4. CASE AbstractStep(0)
    <3>1. Opens(0) => Abstract!Open
      BY DEF Opens, Req, Abstract!Open
    <3>2. Posts(0) => Abstract!Post
      BY DEF Posts, Req, Abstract!Post
    <3>3. ASSUME NEW t \in Thread
          PROVE  /\ Takes(0, t) => Abstract!Take(t)
                 /\ Waits(0, t) => Abstract!Wait(t)
                 /\ Gives(0, t) => Abstract!Give(t)
                 /\ Expires(0, t) => Abstract!Expire(t)
                 /\ Returns(0, t) => Abstract!Return(t)
      BY DEF Takes, Waits, Gives, Expires, Returns, Moves, Keeps, Req, Abstract!Take,
         Abstract!Wait, Abstract!Give, Abstract!Expire, Abstract!Return, Abstract!Move
    <3> QED BY <2>4, <3>1, <3>2, <3>3 DEF AbstractStep, Abstract!Next
  <2> QED BY <2>2, <2>3, <2>4 DEF Simulates
<1>3. Init => RefinementInv
  BY InitRefinementInv
<1>4. RefinementInv /\ [Next]_vars => RefinementInv'
  BY NextRefinementInv
<1> QED BY <1>1, <1>2, <1>3, <1>4, PTL DEF Spec, IsSemaphore, Abstract!Spec

(***************************************************************************)
(* So does semaphore 1, to which interrupt handlers post at any moment, as *)
(* long as nobody waits on it with a timeout (__thinkos_sem_post).         *)
(***************************************************************************)
THEOREM IrqSemaphoreRefinement ==
  ASSUME Configuration, 1 \in Sem \ RESET_SEMS, 1 \notin TIMED_SEMS
  PROVE  Spec => IsSemaphoreForIrq
<1>1. Init => AbstractForIrq!Init
  BY DEF Init, CoreInit, AbstractForIrq!Init, RequestOf, NoCall, SemOps
<1>2. RefinementInv /\ [Next]_vars => [AbstractForIrq!Next]_AbstractForIrq!vars
  <2>1. SUFFICES ASSUME RefinementInv, [Next]_vars
                 PROVE  [AbstractForIrq!Next]_AbstractForIrq!vars
    OBVIOUS
  <2>2. Simulates(1)
    BY <2>1, NextSimulates DEF Served
  <2>3. CASE AbstractStutter(1)
    BY <2>3 DEF AbstractStutter, Keeps, Req, AbstractForIrq!vars
  <2>4. CASE AbstractStep(1)
    <3>1. Opens(1) => AbstractForIrq!Open
      BY DEF Opens, Req, AbstractForIrq!Open
    <3>2. Posts(1) => AbstractForIrq!Post
      BY DEF Posts, Req, AbstractForIrq!Post
    <3>3. ASSUME NEW t \in Thread
          PROVE  /\ Takes(1, t) => AbstractForIrq!Take(t)
                 /\ Waits(1, t) => AbstractForIrq!Wait(t)
                 /\ Gives(1, t) => AbstractForIrq!Give(t)
                 /\ Expires(1, t) => AbstractForIrq!Expire(t)
                 /\ Returns(1, t) => AbstractForIrq!Return(t)
      BY DEF Takes, Waits, Gives, Expires, Returns, Moves, Keeps, Req, AbstractForIrq!Take,
         AbstractForIrq!Wait, AbstractForIrq!Give, AbstractForIrq!Expire, AbstractForIrq!Return, AbstractForIrq!Move
    <3> QED BY <2>4, <3>1, <3>2, <3>3 DEF AbstractStep, AbstractForIrq!Next
  <2> QED BY <2>2, <2>3, <2>4 DEF Simulates
<1>3. Init => RefinementInv
  BY InitRefinementInv
<1>4. RefinementInv /\ [Next]_vars => RefinementInv'
  BY NextRefinementInv
<1> QED BY <1>1, <1>2, <1>3, <1>4, PTL DEF Spec, IsSemaphoreForIrq, AbstractForIrq!Spec

--------------------------------------------------------------------------------
(* Every effect keeps the scheduler due when it has to be. *)
LEMMA EffectKeepsPriority ==
  ASSUME TypeOK, PriorityInv, SemEffect
  PROVE  PriorityInv'
<1>1. CASE UNCHANGED coreVars
  BY <1>1, QuietKeepsPriority DEF coreVars
<1>2. ASSUME NEW s \in Sem, Given(s)
      PROVE  PriorityInv'
  BY <1>2, WakeupKeepsPriority DEF Given, Wakeup, handlerVars, TypeOK
<1>3. ASSUME NEW s \in Sem, NEW t \in Thread, Taken(t, s)
      PROVE  PriorityInv'
  BY <1>3, QuietKeepsPriority DEF Taken, handlerVars
<1>4. ASSUME NEW s \in Sem, NEW t \in Thread, Blocks(t, s) \/ BlocksTimed(t, s)
      PROVE  PriorityInv'
  BY <1>4, QuietKeepsPriority DEF Blocks, BlocksTimed, Blocked, handlerVars
<1>5. ASSUME NEW t \in Thread, SemReturn(t)
      PROVE  PriorityInv'
  BY <1>5, QuietKeepsPriority DEF SemReturn, CallReturn, handlerVars
<1> QED BY <1>1, <1>2, <1>3, <1>4, <1>5 DEF SemEffect, vars, SetUp, Reset, Kept

(***************************************************************************)
(* Thread code only executes in the first thread of the ready queue, with  *)
(* time sharing or without it: every post that wakes a thread up requests  *)
(* the scheduler, from a thread and from an interrupt handler              *)
(* (thinkos_sem_post_svc, __thinkos_sem_post).                             *)
(***************************************************************************)
THEOREM SemPriority == Spec => []HighestReadyRuns
<1> DEFINE I == TypeOK /\ PriorityInv
<1>1. Init => I
  BY InitType, PriorityInvLemma DEF Init
<1>2. I /\ [Next]_vars => I'
  BY NextKeepsType, NextEffect, CoreStepKeepsPriority, EffectKeepsPriority DEF TypeOK
<1>3. I => HighestReadyRuns
  BY PriorityInvLemma
<1> QED BY <1>1, <1>2, <1>3, PTL DEF Spec

================================================================================
