-------------------------- MODULE ThinkOSThreadProofs --------------------------
(***************************************************************************)
(* Theorems about the life of threads, for any number of threads and       *)
(* interrupts and any program. In every configuration: the types, and that *)
(* task code only executes in the most urgent ready thread. Without time   *)
(* sharing and pause: a free slot is clean, a join made in time returns    *)
(* the code of the very thread it joined, and no thread is lost.           *)
(***************************************************************************)
EXTENDS ThinkOSThread, ThinkOSCoreProofs

(* A nonempty set of thread numbers has a greatest one: Max returns it. *)
LEMMA MaxLemma ==
  ASSUME NEW S, S \subseteq Thread, S # {}
  PROVE  Max(S) \in S
<1> DEFINE D == {k \in Nat : THREADS_MAX - k \in S}
<1>1. THREADS_MAX \in Nat /\ \A s \in S : s \in Int /\ 0 <= s /\ s < THREADS_MAX
  BY CoreAssumption DEF Thread
<1>2. \A s \in S : THREADS_MAX - s \in D
  <2>1. TAKE s \in S
  <2>2. THREADS_MAX - s \in Nat /\ THREADS_MAX - (THREADS_MAX - s) = s
    BY <1>1
  <2> QED BY <2>1, <2>2
<1>3. D \subseteq Nat /\ D # {}
  BY <1>2
<1>4. Min(D) \in D /\ \A d \in D : Min(D) <= d
  BY <1>3, MinLemma
<1> DEFINE x == THREADS_MAX - Min(D)
<1>5. x \in S
  BY <1>4
<1>6. \A s \in S : x >= s
  <2>1. TAKE s \in S
  <2>2. Min(D) <= THREADS_MAX - s /\ Min(D) \in Nat
    BY <1>2, <1>4
  <2> QED BY <1>1, <2>1, <2>2
<1> HIDE DEF x, D
<1> QED BY <1>5, <1>6 DEF Max

(* The slot of a new thread is a free one (thinkos_alloc_lo, _hi). *)
LEMMA NewSlotLemma ==
  ASSUME NEW id \in ThreadArg, NewSlot(id) # NONE
  PROVE  NewSlot(id) \in Thread \ th_alloc
<1>1. alloc_lo(id) = NONE \/ alloc_lo(id) \in Thread \ th_alloc
  <2> DEFINE up == {s \in Thread \ th_alloc : s >= id}
  <2>1. up \subseteq Nat
    BY ThreadLemma
  <2> QED BY <2>1, MinLemma DEF alloc_lo
<1>2. alloc_hi(id) = NONE \/ alloc_hi(id) \in Thread \ th_alloc
  BY MaxLemma DEF alloc_hi
<1> QED BY <1>1, <1>2 DEF NewSlot

(* The layout of the queues a thread's life goes through. *)
LEMMA ThreadLayout ==
  /\ WQ_CANCELED \in WQ /\ WQ_PAUSED \in WQ
  /\ WQ_CANCELED # WQ_READY /\ WQ_PAUSED # WQ_READY
  /\ WQ_CANCELED # WQ_CLOCK /\ WQ_CANCELED # WQ_PAUSED
  /\ \A th \in Thread : /\ JOIN_BASE + th \in WQ /\ JOIN_BASE + th \in Int
                        /\ JOIN_BASE + th # WQ_READY /\ JOIN_BASE + th # WQ_CLOCK
                        /\ JOIN_BASE + th # WQ_CANCELED
                        /\ ~ENABLE_TIMESHARE \/ JOIN_BASE + th # WQ_TMSHARE
BY CoreAssumption, ThreadAssumption
   DEF WQ_LST_END, JOIN_BASE, FLAG_BASE, EVENT_BASE, SEM_BASE, COND_BASE,
       MUTEX_BASE, WQ_CLOCK, WQ_PAUSED, WQ_CANCELED, WQ_TMSHARE, WQ_READY, WQ,
       Slot, Thread

(* A call that is refused, or only takes a slot, leaves the core alone. *)
LEMMA SameCoreType ==
  ASSUME CoreTypeOK, UNCHANGED coreVars
  PROVE  CoreTypeOK'
BY DEF coreVars, CoreTypeOK, QueuesOK

--------------------------------------------------------------------------------
(* A set difference with threads keeps the wait-queue list well formed. *)
LEMMA UnlinkType ==
  ASSUME NEW q, QueuesOK(q), NEW p, NEW t \in Thread,
         p \in [WQ -> SUBSET (Thread \cup IdleBit)],
         \A w \in WQ : p[w] = q[w] \/ p[w] = q[w] \ {t}
  PROVE  QueuesOK(p)
BY LayoutLemma, ThreadLemma DEF QueuesOK

(* Making threads ready keeps it well formed. *)
LEMMA ReadyType ==
  ASSUME NEW q, QueuesOK(q), NEW ths, ths \subseteq Thread
  PROVE  QueuesOK([q EXCEPT ![WQ_READY] = @ \cup ths])
BY LayoutLemma, ThreadLemma DEF QueuesOK

(* The queues without a thread (thinkos_cancel_svc). *)
LEMMA UnqueuedType ==
  ASSUME NEW q, QueuesOK(q), NEW th \in Thread
  PROVE  QueuesOK(Unqueued(q, th))
<1>1. /\ Unqueued(q, th) \in [WQ -> SUBSET (Thread \cup IdleBit)]
      /\ \A w \in WQ : Unqueued(q, th)[w] = q[w] \/ Unqueued(q, th)[w] = q[w] \ {th}
  BY DEF Unqueued, QueuesOK
<1> QED BY <1>1, UnlinkType

(* A join takes the thread it joins out of the cancelled ones. *)
LEMMA ReleasedType ==
  ASSUME NEW q, QueuesOK(q), NEW th \in Thread
  PROVE  QueuesOK(Released(q, th))
<1>1. QueuesOK([q EXCEPT ![WQ_CANCELED] = @ \ {th}, ![WQ_READY] = @ \cup {th}])
  BY ThreadLayout, LayoutLemma DEF QueuesOK
<1> QED BY <1>1 DEF Released

(* thinkos_thread_create_svc and the creation that fails keep the types. *)
LEMMA CreateKeepsType ==
  ASSUME TypeOK, NEW t \in Thread, NEW id \in ThreadArg, NEW paused \in PausedOption,
         thinkos_thread_create_svc(t, id, paused)
  PROVE  TypeOK'
<1> DEFINE th == NewSlot(id)
<1>1. CASE th = NONE
  BY <1>1, SameCoreType DEF thinkos_thread_create_svc, ThreadRefuse, Refuse, TypeOK,
                            threadVars
<1>2. CASE th # NONE
  <2>1. th \in Thread
    BY <1>2, NewSlotLemma
  <2>2. QueuesOK(wq_insert(wq_lst, IF paused THEN WQ_PAUSED ELSE WQ_READY, th))
    BY <2>1, ThreadLayout, LayoutLemma DEF TypeOK, CoreTypeOK, QueuesOK, wq_insert
  <2>3. SCHED_LIMIT \div 2 \in Int /\ NoCall \in CallRecord /\ OK \in Int
    BY CoreAssumption DEF NoCall, CallRecord, BlockingCalls, OK
  <2> HIDE DEF th
  <2>4. /\ th_alloc' = th_alloc \cup {th}
        /\ th_pc' = [th_pc EXCEPT ![th] = "task"]
        /\ r0' = [r0 EXCEPT ![th] = OK]
        /\ call' = [call EXCEPT ![th] = NoCall]
        /\ owed' = [owed EXCEPT ![th] = NONE]
        /\ sched_val' = [sched_val EXCEPT ![th] = SCHED_LIMIT \div 2]
        /\ wq_lst' = wq_insert(wq_lst, IF paused THEN WQ_PAUSED ELSE WQ_READY, th)
        /\ pendsv' = (pendsv \/ ~paused)
        /\ UNCHANGED <<active, th_stat, ticks, clock, tick, irq_th, irq_enabled>>
    BY <1>2 DEF thinkos_thread_create_svc, th
  <2>5. /\ QueuesOK(wq_lst') /\ pendsv' \in BOOLEAN /\ r0' \in [Thread -> Int]
        /\ call' \in [Thread -> CallRecord] /\ sched_val' \in [Thread -> Int]
    BY <2>1, <2>2, <2>3, <2>4 DEF TypeOK, CoreTypeOK
  <2>6. CoreTypeOK'
    BY <2>4, <2>5 DEF TypeOK, CoreTypeOK, QueuesOK
  <2> QED BY <2>1, <2>4, <2>6 DEF TypeOK, ThreadPc, NONE
<1> QED BY <1>1, <1>2

(* The calls that end or cancel a thread keep the types. *)
LEMMA EndKeepsType ==
  ASSUME TypeOK, NEW t \in Thread, NEW code \in Int,
         \/ thinkos_exit_svc(t, code)
         \/ TaskReturn(t, code)
         \/ \E th \in Thread : thinkos_cancel_svc(t, th, code)
  PROVE  TypeOK'
<1>0. Stat(WQ_CANCELED, 0) \in 0 .. 255 /\ NoCall \in CallRecord
  BY StatType, ThreadLayout DEF NoCall, CallRecord, BlockingCalls
<1>1. CASE thinkos_exit_svc(t, code)
  <2>1. QueuesOK(wq_lst')
    BY <1>1, InsertType, ThreadLayout DEF thinkos_exit_svc, TypeOK, CoreTypeOK
  <2>2. CoreTypeOK'
    BY <1>0, <1>1, <2>1 DEF thinkos_exit_svc, TypeOK, CoreTypeOK, QueuesOK, SetStat,
                            handlerVars
  <2> QED BY <1>1, <2>2 DEF thinkos_exit_svc, TypeOK, ThreadPc
<1>2. CASE TaskReturn(t, code)
  <2>1. CoreTypeOK'
    BY <1>2 DEF TaskReturn, TypeOK, CoreTypeOK, QueuesOK, handlerVars
  <2> QED BY <1>2, <2>1 DEF TaskReturn, TypeOK, ThreadPc
<1>3. ASSUME NEW th \in Thread, thinkos_cancel_svc(t, th, code)
      PROVE  TypeOK'
  <2>1. CASE ~IsThread(th)
    BY <1>3, <2>1, SameCoreType DEF thinkos_cancel_svc, ThreadRefuse, Refuse, TypeOK,
                                    threadVars
  <2>2. CASE IsThread(th)
    <3>1. QueuesOK(wq_lst')
      BY <1>3, <2>2, InsertType, UnqueuedType, ThreadLayout
         DEF thinkos_cancel_svc, TypeOK, CoreTypeOK
    <3>2. CoreTypeOK'
      BY <1>0, <1>3, <2>2, <3>1
         DEF thinkos_cancel_svc, TypeOK, CoreTypeOK, QueuesOK, SetStat, handlerVars
    <3> QED BY <1>3, <2>2, <3>2 DEF thinkos_cancel_svc, TypeOK, ThreadPc, NONE
  <2> QED BY <2>1, <2>2
<1> QED BY <1>1, <1>2, <1>3

(* thinkos_join_svc and thinkos_irq_wait_svc keep the types. *)
LEMMA WaitKeepsType ==
  ASSUME TypeOK, NEW t \in Thread,
         \/ \E th : thinkos_join_svc(t, th)
         \/ \E irq \in Nat : thinkos_irq_wait_svc(t, irq)
  PROVE  TypeOK'
<1>1. ASSUME NEW th, thinkos_join_svc(t, th)
      PROVE  TypeOK'
  <2>1. CASE ~IsThread(th)
    BY <1>1, <2>1, SameCoreType DEF thinkos_join_svc, ThreadRefuse, Refuse, TypeOK,
                                    threadVars
  <2>2. CASE IsThread(th)
    <3> DEFINE q == wait(wq_insert(Released(wq_lst, th), JOIN_BASE + th, t), t)
    <3>1. th \in Thread
      BY <2>2 DEF IsThread, TypeOK
    <3>2. QueuesOK(q)
      BY <3>1, ReleasedType, InsertType, WaitType, ThreadLayout DEF TypeOK, CoreTypeOK
    <3>3. Stat(JOIN_BASE + th, 0) \in 0 .. 255
      BY <3>1, StatType, ThreadLayout
    <3>4. Call("join", JOIN_BASE + th, 0) \in CallRecord
      BY <3>1, CallType, ThreadLayout DEF BlockingCalls
    <3>5. clock' \in [Thread -> 0 .. CLOCK_MOD - 1] /\ -1 \in Int
      BY <1>1, <2>2 DEF thinkos_join_svc, TypeOK, CoreTypeOK
    <3>6. /\ wq_lst' = q /\ SetStat(t, Stat(JOIN_BASE + th, 0))
          /\ Blocked(t, Call("join", JOIN_BASE + th, 0), -1) /\ UNCHANGED handlerVars
          /\ owed' = [owed EXCEPT ![t] = IF th_pc[th] = "release" THEN LATE ELSE NONE]
          /\ UNCHANGED <<th_alloc, th_pc, irq_th, irq_enabled>>
      BY <1>1, <2>2 DEF thinkos_join_svc
    <3> HIDE DEF q
    <3>7. CoreTypeOK'
      BY <3>2, <3>3, <3>4, <3>5, <3>6, BlockKeepsType DEF TypeOK
    <3> QED BY <3>6, <3>7 DEF TypeOK, LATE, NONE
  <2> QED BY <2>1, <2>2
<1>2. ASSUME NEW irq \in Nat, thinkos_irq_wait_svc(t, irq)
      PROVE  TypeOK'
  <2>1. CASE irq \notin Irq
    BY <1>2, <2>1, SameCoreType DEF thinkos_irq_wait_svc, ThreadRefuse, Refuse, TypeOK,
                                    threadVars
  <2>2. CASE irq \in Irq
    <3>1. QueuesOK(wq_lst')
      BY <1>2, <2>2, WaitType DEF thinkos_irq_wait_svc, TypeOK, CoreTypeOK
    <3>2. Call("irq_wait", 0, 0) \in CallRecord
      BY CallType DEF BlockingCalls
    <3>3. CoreTypeOK'
      BY <1>2, <2>2, <3>1, <3>2
         DEF thinkos_irq_wait_svc, TypeOK, CoreTypeOK, QueuesOK, Blocked, handlerVars
    <3> QED BY <1>2, <2>2, <3>3 DEF thinkos_irq_wait_svc, TypeOK
  <2> QED BY <2>1, <2>2
<1> QED BY <1>1, <1>2

(* Each step of thinkos_thread_exit keeps the types. *)
LEMMA ExitKeepsType ==
  ASSUME TypeOK, NEW t \in Thread, ExitStep(t)
  PROVE  TypeOK'
<1>1. CASE ExitUnlink(t)
  <2> DEFINE left == [wq_lst EXCEPT ![StatWQ(th_stat[t])] = @ \ {t}]
  <2>1. QueuesOK(left)
    <3>1. /\ left \in [WQ -> SUBSET (Thread \cup IdleBit)]
          /\ \A w \in WQ : left[w] = wq_lst[w] \/ left[w] = wq_lst[w] \ {t}
      BY DEF TypeOK, CoreTypeOK, QueuesOK
    <3> HIDE DEF left
    <3> QED BY <3>1, UnlinkType DEF TypeOK, CoreTypeOK
  <2>2. wq_lst' = [w \in WQ |->
              IF w = WQ_READY           THEN left[w] \cup Joiners(t)
              ELSE IF w = JOIN_BASE + t THEN left[w] \ Joiners(t)
              ELSE IF ENABLE_TIMESHARE /\ w = WQ_TMSHARE THEN left[w] \ {t}
              ELSE left[w]]
    BY <1>1 DEF ExitUnlink
  <2>3. Joiners(t) \subseteq Thread
    BY DEF Joiners, TypeOK
  <2> HIDE DEF left
  <2>4. QueuesOK(wq_lst')
    BY <2>1, <2>2, <2>3, ThreadLemma, LayoutLemma DEF QueuesOK
  <2>6. /\ th_stat' \in [Thread -> 0 .. 255] /\ r0' \in [Thread -> Int]
        /\ UNCHANGED <<active, ticks, sched_val, tick, pendsv, clock, call>>
    BY <1>1 DEF ExitUnlink, TypeOK, CoreTypeOK, SetStat, handlerVars
  <2>5. CoreTypeOK'
    BY <2>4, <2>6 DEF TypeOK, CoreTypeOK, QueuesOK
  <2>7. owed' \in [Thread -> Int]
    BY <1>1 DEF ExitUnlink, OweCode, TypeOK, CoreTypeOK
  <2> QED BY <1>1, <2>5, <2>7 DEF ExitUnlink, TypeOK, ThreadPc
<1>2. CASE ExitRelease(t)
  BY <1>2, SameCoreType DEF ExitRelease, TypeOK, ThreadPc
<1>3. CASE ExitWait(t)
  <2>1. QueuesOK(wq_lst')
    BY <1>3, WaitType DEF ExitWait, TypeOK, CoreTypeOK
  <2>2. CoreTypeOK'
    BY <1>3, <2>1 DEF ExitWait, TypeOK, CoreTypeOK, QueuesOK, handlerVars, OK
  <2> QED BY <1>3, <2>2 DEF ExitWait, TypeOK, ThreadPc
<1> QED BY <1>1, <1>2, <1>3 DEF ExitStep

(* An interrupt a thread waits for keeps the types (cm3_default_isr). *)
LEMMA IsrKeepsType ==
  ASSUME TypeOK, NEW irq \in Irq, cm3_default_isr(irq)
  PROVE  TypeOK'
<1>1. irq_th[irq] \in Thread
  BY DEF TypeOK, cm3_default_isr
<1>2. QueuesOK(wq_lst')
  BY <1>1, ReadyType DEF cm3_default_isr, TypeOK, CoreTypeOK
<1>3. CoreTypeOK'
  BY <1>2 DEF cm3_default_isr, TypeOK, CoreTypeOK, QueuesOK
<1> QED BY <1>3 DEF cm3_default_isr, TypeOK

(***************************************************************************)
(* The steps of the system, with the arguments that occur: the core's, the *)
(* calls of thread t, the end of a thread, an interrupt.                   *)
(***************************************************************************)
CoreMove ==
  /\ \/ PendSV
     \/ SysTick
     \/ \E t \in Thread, ms \in SLEEPS : Task(t) /\ thinkos_sleep_svc(t, ms)
  /\ UNCHANGED threadVars

ThreadCall(t) ==
  \/ \E id \in ThreadArg, paused \in PausedOption :
       thinkos_thread_create_svc(t, id, paused)
  \/ \E id \in ThreadArg : thinkos_thread_create_small(t, id)
  \/ \E code \in CODES[t] : thinkos_exit_svc(t, code) \/ TaskReturn(t, code)
  \/ \E th \in CANCELABLE : \E code \in CODES[th] : thinkos_cancel_svc(t, th, code)
  \/ \E th \in ThreadArg : thinkos_join_svc(t, th)
  \/ \E irq \in Nat : <<t, irq>> \in IRQ_WAITS /\ thinkos_irq_wait_svc(t, irq)
  \/ ThreadReturn(t)

(* Every step is one of these. *)
LEMMA StepCases ==
  ASSUME ThreadStep
  PROVE  \/ CoreMove
         \/ \E t \in Thread : ThreadCall(t) \/ ExitStep(t)
         \/ \E irq \in Irq : cm3_default_isr(irq)
<1>1. CASE /\ \/ PendSV
              \/ SysTick
              \/ \E t \in SLEEPERS, ms \in SLEEPS : Task(t) /\ thinkos_sleep_svc(t, ms)
           /\ UNCHANGED threadVars
  BY <1>1, ThreadAssumption DEF CoreMove
<1>2. ASSUME NEW t \in Thread,
             NEW irq \in {w[2] : w \in {v \in IRQ_WAITS : v[1] = t}},
             thinkos_irq_wait_svc(t, irq)
      PROVE  ThreadCall(t)
  <2>1. PICK w \in IRQ_WAITS : w[1] = t /\ irq = w[2]
    BY <1>2
  <2>2. w = <<t, irq>> /\ irq \in Nat
    BY <2>1, ThreadAssumption
  <2> QED BY <1>2, <2>1, <2>2 DEF ThreadCall
<1> QED BY <1>1, <1>2 DEF ThreadStep, ThreadCall

(* Every step keeps the types. *)
LEMMA StepKeepsType ==
  ASSUME TypeOK, [ThreadStep]_vars
  PROVE  TypeOK'
<1>1. CASE CoreMove
  BY <1>1, CoreStepKeepsType DEF CoreMove, CoreStep, TypeOK, threadVars
<1>2. ASSUME NEW t \in Thread, ThreadCall(t)
      PROVE  TypeOK'
  <2>1. ASSUME NEW id \in ThreadArg, thinkos_thread_create_small(t, id)
        PROVE  TypeOK'
    BY <2>1, SameCoreType, NewSlotLemma DEF thinkos_thread_create_small, TypeOK
  <2>2. \A th \in Thread : \A code \in CODES[th] : code \in Int
    BY ThreadAssumption
  <2>3. CASE ThreadReturn(t)
    BY <2>3, CallReturnKeepsType DEF ThreadReturn, TypeOK, NONE
  <2> QED BY <1>2, <2>1, <2>2, <2>3, CreateKeepsType, EndKeepsType, WaitKeepsType,
             ThreadAssumption
          DEF ThreadCall
<1>3. CASE UNCHANGED vars
  BY <1>3, SameCoreType DEF vars, threadVars, TypeOK
<1> QED BY <1>1, <1>2, <1>3, StepCases, ExitKeepsType, IsrKeepsType

(* thinkos_init leaves everything in its range. *)
LEMMA InitType ==
  ASSUME ThreadInit
  PROVE  TypeOK
<1>1. MAIN \in Thread /\ ENABLE_JOIN
  BY ThreadAssumption
<1>2. \A t \in Thread : SCHED_PRI[t] \div 2 \in Int
  BY CoreAssumption DEF Thread
<1>3. QueuesOK(wq_lst)
  BY <1>1, LayoutLemma DEF ThreadInit, QueuesOK
<1>4. /\ ticks \in 0 .. CLOCK_MOD - 1 /\ clock \in [Thread -> 0 .. CLOCK_MOD - 1]
      /\ th_stat \in [Thread -> 0 .. 255] /\ r0 \in [Thread -> Int]
  BY CoreAssumption DEF ThreadInit, OK
<1>6. active \in Thread \cup {IDLE} /\ pendsv \in BOOLEAN /\ sched_val \in [Thread -> Int]
  BY <1>1, <1>2 DEF ThreadInit
<1>5. tick \in TickRecord /\ call \in [Thread -> CallRecord]
  BY ThreadLemma DEF ThreadInit, NoTick, NoCall, TickRecord, CallRecord, BlockingCalls
<1> QED BY <1>1, <1>3, <1>4, <1>5, <1>6, ThreadLemma
        DEF ThreadInit, TypeOK, CoreTypeOK, ThreadPc, NONE

(***************************************************************************)
(* The run-time block, the thread bitmap and the interrupt table keep      *)
(* their types in every configuration and whatever the program does:       *)
(* every slot a creation returns is one of the table, also when the        *)
(* numbers asked for are not (thinkos_thread_create_svc,                   *)
(* thinkos_join_svc, thinkos_cancel_svc, thinkos_irq_wait_svc).            *)
(***************************************************************************)
THEOREM ThreadTypeCorrect == Spec => []TypeOK
<1>1. ThreadInit => TypeOK
  BY InitType
<1>2. TypeOK /\ [ThreadStep]_vars => TypeOK'
  BY StepKeepsType
<1> QED BY <1>1, <1>2, PTL DEF Spec

--------------------------------------------------------------------------------
(***************************************************************************)
(* Strict priority. Inside thinkos_thread_exit, between the wake-up of the *)
(* joiners and the final wait, the thread that has the CPU need not be the *)
(* first of the ready queue; at any other time, unless the scheduler is    *)
(* due, it is.                                                             *)
(***************************************************************************)
Leaving == active \in Thread /\ th_pc[active] \in {"release", "wait"}

TickSched ==
  /\ tick.pc = "none" => ~tick.sched
  /\ tick.pc \in {"unlink", "wakeup"} => tick.sched

UrgencyInv == TickSched /\ (Leaving \/ SchedInv)

(* Taking another thread out of the ready queue leaves its head alone. *)
LEMMA HeadStays ==
  ASSUME TypeOK, TypeOK', NEW t \in Thread, NEW th, th # t,
         t = wq_head(WQ_READY), wq_lst'[WQ_READY] \in {wq_lst[WQ_READY],
                                                       wq_lst[WQ_READY] \ {th}}
  PROVE  t = wq_head(WQ_READY)'
<1> DEFINE q == wq_lst[WQ_READY]
           p == wq_lst'[WQ_READY]
<1>1. q \subseteq Nat
  BY LayoutLemma, ThreadLemma DEF TypeOK, CoreTypeOK, QueuesOK
<1>2. q # {} /\ t = Min(q)
  BY ThreadLemma DEF wq_head, LowestBit
<1>3. t \in q /\ \A y \in q : t <= y
  BY <1>1, <1>2, MinLemma
<1>4. t \in p /\ p \subseteq q
  BY <1>3
<1>5. p # {} /\ Min(p) \in p /\ \A y \in p : Min(p) <= y
  BY <1>1, <1>4, MinLemma
<1>6. Min(p) = t
  BY <1>1, <1>3, <1>4, <1>5
<1> QED BY <1>5, <1>6 DEF wq_head, LowestBit

(* The calls of a thread, and the failed ones, keep the strict priority. *)
LEMMA CallKeepsUrgency ==
  ASSUME TypeOK, TypeOK', UrgencyInv, NEW t \in Thread, ThreadCall(t)
  PROVE  UrgencyInv'
<1>1. Running(t) /\ Task(t)
  BY DEF ThreadCall, thinkos_thread_create_svc, thinkos_thread_create_small,
         thinkos_exit_svc, TaskReturn, thinkos_cancel_svc, thinkos_join_svc,
         thinkos_irq_wait_svc, ThreadReturn, ThreadCalls, Calls, CallReturn, Task
<1>2. active = t /\ ~Leaving /\ tick.pc = "none"
  BY <1>1 DEF Running, Leaving, Task
<1>3. TickSched /\ SchedInv
  BY <1>2 DEF UrgencyInv
<1>4. ASSUME UNCHANGED <<tick, active>>,
             pendsv' = TRUE \/ (pendsv' = pendsv /\ wq_lst'[WQ_READY] = wq_lst[WQ_READY])
      PROVE  UrgencyInv'
  BY <1>3, <1>4 DEF UrgencyInv, SchedInv, TickSched, wq_head
<1>5. ASSUME NEW id \in ThreadArg, NEW paused \in PausedOption,
             thinkos_thread_create_svc(t, id, paused)
      PROVE  UrgencyInv'
  <2>1. CASE NewSlot(id) = NONE
    BY <1>4, <1>5, <2>1 DEF thinkos_thread_create_svc, ThreadRefuse, Refuse, coreVars
  <2>2. CASE NewSlot(id) # NONE /\ paused
    <3>1. /\ wq_lst' = wq_insert(wq_lst, WQ_PAUSED, NewSlot(id))
          /\ pendsv' = (pendsv \/ ~paused) /\ UNCHANGED <<tick, active>>
      BY <1>5, <2>2 DEF thinkos_thread_create_svc
    <3>2. wq_lst'[WQ_READY] = wq_lst[WQ_READY]
      BY <3>1, ThreadLayout, LayoutLemma DEF wq_insert, TypeOK, CoreTypeOK, QueuesOK
    <3>3. pendsv' = pendsv
      BY <2>2, <3>1 DEF TypeOK, CoreTypeOK
    <3> QED BY <1>4, <3>1, <3>2, <3>3
  <2>3. CASE NewSlot(id) # NONE /\ ~paused
    BY <1>4, <1>5, <2>3 DEF thinkos_thread_create_svc
  <2> QED BY <2>1, <2>2, <2>3
<1>6. ASSUME NEW th, NEW code, thinkos_cancel_svc(t, th, code)
      PROVE  UrgencyInv'
  <2>1. CASE ~IsThread(th)
    BY <1>4, <1>6, <2>1 DEF thinkos_cancel_svc, ThreadRefuse, Refuse, coreVars
  <2>2. CASE IsThread(th)
    <3>1. /\ wq_lst' = wq_insert(Unqueued(wq_lst, th), WQ_CANCELED, th) /\ th # t
          /\ UNCHANGED <<pendsv, tick, active>>
      BY <1>6, <2>2 DEF thinkos_cancel_svc, handlerVars
    <3>2. wq_lst'[WQ_READY] \in {wq_lst[WQ_READY], wq_lst[WQ_READY] \ {th}}
      BY <3>1, ThreadLayout, LayoutLemma DEF wq_insert, Unqueued
    <3>3. t = wq_head(WQ_READY)
      BY <1>1, <1>3 DEF SchedInv, Running, TickSched
    <3>4. t = wq_head(WQ_READY)'
      BY <3>1, <3>2, <3>3, HeadStays
    <3> QED BY <1>2, <1>3, <3>1, <3>4 DEF UrgencyInv, SchedInv, TickSched
  <2> QED BY <2>1, <2>2
<1>7. ASSUME NEW th, thinkos_join_svc(t, th)
      PROVE  UrgencyInv'
  BY <1>4, <1>7 DEF thinkos_join_svc, ThreadRefuse, Refuse, coreVars, Blocked, handlerVars
<1>8. ASSUME NEW irq, thinkos_irq_wait_svc(t, irq)
      PROVE  UrgencyInv'
  BY <1>4, <1>8 DEF thinkos_irq_wait_svc, ThreadRefuse, Refuse, coreVars, Blocked,
                    handlerVars
<1>9. ASSUME NEW id, thinkos_thread_create_small(t, id)
      PROVE  UrgencyInv'
  BY <1>4, <1>9 DEF thinkos_thread_create_small, coreVars
<1>10. ASSUME NEW code, thinkos_exit_svc(t, code) \/ TaskReturn(t, code)
       PROVE  UrgencyInv'
  BY <1>4, <1>10 DEF thinkos_exit_svc, TaskReturn, handlerVars
<1>11. CASE ThreadReturn(t)
  BY <1>4, <1>11 DEF ThreadReturn, CallReturn, handlerVars
<1> QED BY <1>5, <1>6, <1>7, <1>8, <1>9, <1>10, <1>11 DEF ThreadCall

(* Every step keeps the strict priority. *)
LEMMA StepKeepsUrgency ==
  ASSUME TypeOK, TypeOK', UrgencyInv, [ThreadStep]_vars
  PROVE  UrgencyInv'
<1>1. CASE CoreMove
  <2>1. CASE PendSV
    BY <2>1 DEF PendSV, UrgencyInv, TickSched, SchedInv, wq_head
  <2>2. CASE SysTick /\ UNCHANGED th_pc
    <3>1. UNCHANGED active
      BY <2>2 DEF SysTick, SysTickEntry, SysTickScan, SysTickUnlink, SysTickWakeup,
                  SysTickExit
    <3>2. CASE Leaving
      <4>1. Leaving'
        BY <2>2, <3>1, <3>2 DEF Leaving
      <4>2. TickSched'
        BY <2>2 DEF UrgencyInv, TickSched, SysTick, SysTickEntry, SysTickScan,
                    SysTickUnlink, SysTickWakeup, SysTickExit, NoTick, TypeOK, CoreTypeOK,
                    TickRecord
      <4> QED BY <4>1, <4>2 DEF UrgencyInv
    <3>3. CASE ~Leaving
      BY <2>2, <3>3, SysTickKeepsPriority DEF UrgencyInv, TickSched, PriorityInv, TypeOK
    <3> QED BY <3>2, <3>3
  <2>3. ASSUME NEW t \in Thread, NEW op, NEW end, ClockWait(t, op, end)
        PROVE  UrgencyInv'
    BY <2>3 DEF ClockWait, Blocked, handlerVars, UrgencyInv, TickSched, SchedInv
  <2> QED BY <1>1, <2>1, <2>2, <2>3 DEF CoreMove, thinkos_sleep_svc, threadVars
<1>2. ASSUME NEW t \in Thread, ExitStep(t)
      PROVE  UrgencyInv'
  <2>1. CASE ExitUnlink(t)
    BY <2>1 DEF ExitUnlink, Running, handlerVars, UrgencyInv, TickSched, Leaving, TypeOK
  <2>2. CASE ExitRelease(t)
    BY <2>2 DEF ExitRelease, Running, coreVars, UrgencyInv, TickSched, Leaving, TypeOK
  <2>3. CASE ExitWait(t)
    BY <2>3 DEF ExitWait, handlerVars, UrgencyInv, TickSched, SchedInv
  <2> QED BY <1>2, <2>1, <2>2, <2>3 DEF ExitStep
<1>3. ASSUME NEW irq \in Irq, cm3_default_isr(irq)
      PROVE  UrgencyInv'
  BY <1>3 DEF cm3_default_isr, UrgencyInv, TickSched, SchedInv
<1>4. CASE UNCHANGED vars
  BY <1>4 DEF vars, coreVars, threadVars, UrgencyInv, TickSched, SchedInv, Leaving, wq_head
<1> QED BY <1>1, <1>2, <1>3, <1>4, StepCases, CallKeepsUrgency

(* The main thread is the only one ready at first. *)
LEMMA InitUrgency ==
  ASSUME ThreadInit
  PROVE  UrgencyInv
<1>1. active = MAIN /\ MAIN \in Thread /\ wq_lst[WQ_READY] = {MAIN} \cup IdleBit
  BY ThreadAssumption, LayoutLemma DEF ThreadInit
<1> DEFINE q == {MAIN} \cup IdleBit
<1>2. Min(q) \in q /\ \A y \in q : Min(q) <= y
  BY <1>1, MinLemma, ThreadLemma
<1>3. \A y \in q : MAIN <= y /\ y \in Nat
  BY <1>1, CoreAssumption DEF Thread, IdleBit, IDLE
<1>4. Min(q) = MAIN
  BY <1>2, <1>3
<1> QED BY <1>1, <1>4 DEF ThreadInit, NoTick, UrgencyInv, TickSched, SchedInv, wq_head,
                         LowestBit

(***************************************************************************)
(* Task code only executes in the most urgent ready thread, for any number *)
(* of threads and in every configuration, with time sharing, pause and     *)
(* whatever the status bytes hold: creations, joins and interrupts request *)
(* the scheduler, and a cancellation, which does not, never takes the      *)
(* running thread out of the ready queue (thinkos_thread_create_svc,       *)
(* thinkos_cancel_svc, thinkos_join_svc, thinkos_thread_exit).             *)
(***************************************************************************)
THEOREM TaskPriority == Spec => []HighestTaskRuns
<1> DEFINE I == TypeOK /\ UrgencyInv
<1>1. ThreadInit => I
  BY InitType, InitUrgency
<1>2. I /\ [ThreadStep]_vars => I'
  BY StepKeepsType, StepKeepsUrgency
<1>3. I => HighestTaskRuns
  BY DEF UrgencyInv, TickSched, SchedInv, Leaving, HighestTaskRuns
<1> QED BY <1>1, <1>2, <1>3, PTL DEF Spec

--------------------------------------------------------------------------------
(***************************************************************************)
(* Where a thread can be, by where in its life it is. The configurations:  *)
(* no time sharing, status bytes that hold every queue, no pause (resume   *)
(* is not modelled), and a program that cancels no thread which waits for  *)
(* interrupts (irq_th[] would keep naming its slot).                       *)
(***************************************************************************)
LifeConfiguration ==
  /\ Configuration
  /\ ~ENABLE_PAUSE
  /\ \A w \in IRQ_WAITS : w[1] \notin CANCELABLE

OnlyIn(t, w) == \A v \in WQ : t \in wq_lst[v] <=> v = w

Nowhere(t) == \A v \in WQ : t \notin wq_lst[v]

(* SysTick has taken t out of the clock queue and not made it ready yet. *)
Waking(t) == tick.pc = "wakeup" /\ tick.j = t

JoinOf(th) == Call("join", JOIN_BASE + th, 0)

(* The result of a join that was made in time is the code it is owed. *)
Paid(t) == owed[t] # LATE => owed[t] # NONE /\ r0[t] = owed[t]

(* A task is ready; if it is back from a join, its result is the code. *)
ReadyTask(t) ==
  /\ OnlyIn(t, WQ_READY)
  /\ \A th \in Thread : call[t] = JoinOf(th) => Paid(t)

(* It sleeps, and its status says so until SysTick resets it. *)
Sleeper(t) ==
  /\ call[t].op \notin {"join", "irq_wait"}
  /\ \/ OnlyIn(t, WQ_CLOCK) /\ th_stat[t] = Stat(WQ_CLOCK, 1)
     \/ Nowhere(t) /\ Waking(t)

(* It waits for th to end, is owed no code yet, and its status names the   *)
(* queue.                                                                  *)
Joiner(t) ==
  /\ owed[t] \in {NONE, LATE}
  /\ \E th \in Thread :
       OnlyIn(t, JOIN_BASE + th) /\ th_stat[t] = Stat(JOIN_BASE + th, 0) /\ call[t] = JoinOf(th)

(* It waits for an interrupt, in no queue. *)
Listener(t) == Nowhere(t) /\ call[t].op = "irq_wait"

(* A task's place is one of these. *)
TaskPlace(t) ==
  Task(t) => ReadyTask(t) \/ Sleeper(t) \/ Joiner(t) \/ Listener(t)

(* A thread that comes to its end is ready or cancelled, or both, and has  *)
(* its code; its status names the cancelled queue if it is in it.          *)
ExitPlace(t) ==
  th_pc[t] = "exit" =>
    /\ r0[t] \in CODES[t]
    /\ \A w \in WQ : t \in wq_lst[w] => w \in {WQ_READY, WQ_CANCELED}
    /\ t \in wq_lst[WQ_READY] \/ t \in wq_lst[WQ_CANCELED]
    /\ t \in wq_lst[WQ_CANCELED] => th_stat[t] = Stat(WQ_CANCELED, 0)

(* Once unlinked, it is at most ready, until it waits forever. *)
GonePlace(t) ==
  th_pc[t] \in {"release", "wait", "dead"} =>
    /\ th_stat[t] = 0
    /\ \A w \in WQ : t \in wq_lst[w] => w = WQ_READY /\ th_pc[t] # "dead"

FreePlace(t) == t \notin th_alloc => th_pc[t] \in {"wait", "dead"}

Place(t) == TaskPlace(t) /\ ExitPlace(t) /\ GonePlace(t) /\ FreePlace(t)

(* An enabled interrupt makes a listener ready, a different one each. *)
IrqInv ==
  \A irq \in irq_enabled :
    /\ Task(irq_th[irq]) /\ Listener(irq_th[irq]) /\ irq_th[irq] \notin CANCELABLE
    /\ \A k \in irq_enabled : irq_th[k] = irq_th[irq] => k = irq

(* What SysTick works on is asleep, and in the clock queue until unlinked. *)
ClockInv ==
  /\ tick.pc # "none" => tick.wq \subseteq wq_lst[WQ_CLOCK]
  /\ tick.pc \in {"unlink", "wakeup"} => tick.j \notin tick.wq
  /\ tick.pc = "unlink" => tick.j \in wq_lst[WQ_CLOCK] /\ tick.stat = th_stat[tick.j]
  /\ tick.pc = "wakeup" => /\ Task(tick.j) /\ Nowhere(tick.j)
                           /\ call[tick.j].op \notin {"join", "irq_wait"}

LifeInv == (\A t \in Thread : Place(t)) /\ IrqInv /\ ClockInv

(* The invariant is inductive with the types and the strict priority. *)
Base == TypeOK /\ UrgencyInv /\ LifeInv

(* The queues of a thread's life in these configurations. *)
LEMMA LifeLayout ==
  ASSUME LifeConfiguration
  PROVE  /\ ~ENABLE_TIMESHARE
         /\ {WQ_READY, WQ_CLOCK, WQ_CANCELED} \subseteq WQ
         /\ StatWQ(Stat(WQ_CLOCK, 1)) = WQ_CLOCK
         /\ StatWQ(Stat(WQ_CANCELED, 0)) = WQ_CANCELED
         /\ StatWQ(0) = WQ_READY
         /\ \A th \in Thread : StatWQ(Stat(JOIN_BASE + th, 0)) = JOIN_BASE + th
         /\ \A th, s \in Thread : JOIN_BASE + th = JOIN_BASE + s => th = s
         /\ \A th, s \in Thread : JoinOf(th) = JoinOf(s) => th = s
         /\ \A th \in Thread : JoinOf(th).op = "join" /\ JoinOf(th) # NoCall
<1>1. Configuration /\ ~ENABLE_TIMESHARE
  BY DEF LifeConfiguration, Configuration
<1>2. \A th, s \in Thread : JOIN_BASE + th = JOIN_BASE + s => th = s
  BY ObjectLayout DEF Thread
<1>3. \A th, s \in Thread : JoinOf(th) = JoinOf(s) => th = s
  BY <1>2 DEF JoinOf, Call
<1>4. \A th \in Thread : JoinOf(th).op = "join" /\ JoinOf(th) # NoCall
  BY DEF JoinOf, Call, NoCall
<1>5. \A th \in Thread : StatWQ(Stat(JOIN_BASE + th, 0)) = JOIN_BASE + th
  BY <1>1, StatLemma, ThreadLayout
<1>6. StatWQ(Stat(WQ_CLOCK, 1)) = WQ_CLOCK /\ StatWQ(Stat(WQ_CANCELED, 0)) = WQ_CANCELED
  BY <1>1, StatLemma, ThreadLayout, LayoutLemma
<1> QED BY <1>1, <1>2, <1>3, <1>4, <1>5, <1>6, ZeroStat, LayoutLemma, ThreadLayout

(* A thread that runs its task or comes to its end is ready; a task then   *)
(* is in no other queue.                                                   *)
LEMMA RunnerIsReady ==
  ASSUME Base, NEW t \in Thread, Running(t), Task(t) \/ th_pc[t] = "exit"
  PROVE  t \in wq_lst[WQ_READY] /\ (Task(t) => ReadyTask(t))
<1>1. t = wq_head(WQ_READY) /\ ~Waking(t)
  BY DEF Base, UrgencyInv, TickSched, SchedInv, Leaving, Running, Task, Waking
<1>2. wq_lst[WQ_READY] # {} /\ wq_lst[WQ_READY] \subseteq Nat
  BY <1>1, ThreadLemma, LayoutLemma
     DEF wq_head, LowestBit, Base, TypeOK, CoreTypeOK, QueuesOK
<1>3. t \in wq_lst[WQ_READY]
  BY <1>1, <1>2, MinLemma DEF wq_head, LowestBit
<1>4. ~Sleeper(t) /\ ~Listener(t) /\ ~Joiner(t)
  BY <1>1, <1>3, LayoutLemma, ThreadLayout DEF Sleeper, Listener, Joiner, OnlyIn, Nowhere
<1> QED BY <1>3, <1>4 DEF Base, LifeInv, Place, TaskPlace

(* What a step leaves alone of thread u. *)
Untouched(u) ==
  /\ \A w \in WQ : u \in wq_lst'[w] <=> u \in wq_lst[w]
  /\ th_pc'[u] = th_pc[u] /\ th_stat'[u] = th_stat[u]
  /\ call'[u] = call[u] /\ r0'[u] = r0[u]
  /\ u \in th_alloc' <=> u \in th_alloc
  /\ Task(u) => owed'[u] = owed[u]

(* Such a thread stays in its place. *)
LEMMA UntouchedStays ==
  ASSUME NEW u \in Thread, Place(u), Untouched(u), Waking(u)' = Waking(u)
  PROVE  Place(u)'
<1>1. /\ Nowhere(u)' = Nowhere(u) /\ Task(u)' = Task(u)
      /\ \A w \in WQ : OnlyIn(u, w)' = OnlyIn(u, w)
  BY DEF Untouched, Nowhere, OnlyIn, Task
<1>2. TaskPlace(u)'
  <2>1. SUFFICES ASSUME Task(u)
                 PROVE  ReadyTask(u)' \/ Sleeper(u)' \/ Joiner(u)' \/ Listener(u)'
    BY <1>1 DEF TaskPlace
  <2>2. ReadyTask(u) => ReadyTask(u)'
    BY <1>1, <2>1, LayoutLemma DEF ReadyTask, Untouched, JoinOf, Paid
  <2>3. Sleeper(u) => Sleeper(u)'
    BY <1>1, LayoutLemma DEF Sleeper, Untouched
  <2>4. Joiner(u) => Joiner(u)'
    BY <1>1, <2>1, ThreadLayout DEF Joiner, Untouched, JoinOf
  <2>5. Listener(u) => Listener(u)'
    BY <1>1 DEF Listener, Untouched
  <2> QED BY <2>1, <2>2, <2>3, <2>4, <2>5 DEF Place, TaskPlace
<1>3. ExitPlace(u)'
  BY LayoutLemma, ThreadLayout DEF Place, ExitPlace, Untouched
<1>4. GonePlace(u)' /\ FreePlace(u)'
  BY DEF Place, GonePlace, FreePlace, Untouched
<1> QED BY <1>2, <1>3, <1>4 DEF Place

(***************************************************************************)
(* A step of thread code that leaves all threads but those of T alone, and *)
(* puts those of T, none of which an interrupt is due for, in a place      *)
(* where the queues know of them.                                          *)
(***************************************************************************)
Touches(T) ==
  /\ T \subseteq Thread
  /\ tick.pc = "none"
  /\ UNCHANGED <<tick, irq_th, irq_enabled>>
  /\ \A u \in Thread \ T : Untouched(u)
  /\ \A u \in T : /\ Place(u)'
                  /\ ~(Task(u)' /\ Nowhere(u)')
                  /\ Task(u) /\ Listener(u) => u \in CANCELABLE

(* Such a step keeps the invariant, *)
LEMMA TouchKeepsLife ==
  ASSUME Base, TypeOK', NEW T, Touches(T)
  PROVE  LifeInv'
<1>1. ASSUME NEW u \in Thread
      PROVE  Place(u)'
  <2>1. CASE u \in T
    BY <2>1 DEF Touches
  <2>2. CASE u \notin T
    <3>1. Waking(u)' = Waking(u)
      BY DEF Waking, Touches
    <3> QED BY <2>2, <3>1, UntouchedStays DEF Touches, Base, LifeInv
  <2> QED BY <2>1, <2>2
<1>2. IrqInv'
  <2>1. SUFFICES ASSUME NEW irq \in irq_enabled
                 PROVE  Task(irq_th[irq])' /\ Listener(irq_th[irq])'
    BY DEF IrqInv, Touches, Base, LifeInv
  <2>2. PICK u \in Thread : u = irq_th[irq]
    BY DEF Base, TypeOK
  <2>3. Task(u) /\ Listener(u) /\ u \notin CANCELABLE
    BY <2>2 DEF Base, LifeInv, IrqInv
  <2>4. Untouched(u)
    BY <2>3 DEF Touches
  <2>5. Task(u)' /\ Listener(u)'
    BY <2>3, <2>4 DEF Untouched, Task, Listener, Nowhere
  <2>6. u = irq_th'[irq]
    BY <2>2 DEF Touches
  <2> QED BY <2>5, <2>6
<1>3. ClockInv'
  BY DEF ClockInv, Touches
<1> QED BY <1>1, <1>2, <1>3 DEF LifeInv

(* The program has two threads wait for different interrupts. *)
InterruptsApart == \A v, w \in IRQ_WAITS : v[2] = w[2] => v[1] = w[1]

(* Then a task that is in no queue has an interrupt to make it ready. *)
DueInv ==
  /\ \A irq \in irq_enabled : <<irq_th[irq], irq>> \in IRQ_WAITS
  /\ \A t \in Thread :
       Task(t) /\ Nowhere(t) /\ ~Waking(t) => \E irq \in irq_enabled : irq_th[irq] = t

(* and loses no thread. *)
LEMMA TouchKeepsDue ==
  ASSUME DueInv, NEW T, Touches(T)
  PROVE  DueInv'
<1>1. ASSUME NEW u \in Thread, Task(u)', Nowhere(u)'
      PROVE  \E irq \in irq_enabled' : irq_th'[irq] = u
  <2>1. Untouched(u)
    BY <1>1 DEF Touches
  <2>2. Task(u) /\ Nowhere(u) /\ ~Waking(u)
    BY <1>1, <2>1 DEF Untouched, Task, Nowhere, Waking, Touches
  <2> QED BY <2>2 DEF DueInv, Touches
<1>2. \A irq \in irq_enabled' : <<irq_th'[irq], irq>> \in IRQ_WAITS
  BY DEF DueInv, Touches
<1> QED BY <1>1, <1>2 DEF DueInv

(* A task that is ready after a step, with the code if it joined, is in place. *)
LEMMA ReadyIsPlace ==
  ASSUME NEW u \in Thread, Task(u)', OnlyIn(u, WQ_READY)', u \in th_alloc',
         \A th \in Thread : call'[u] = JoinOf(th) => Paid(u)'
  PROVE  Place(u)' /\ ~(Task(u)' /\ Nowhere(u)')
<1>1. ~(Nowhere(u)')
  BY LayoutLemma DEF OnlyIn, Nowhere
<1>2. \A th \in Thread : JoinOf(th)' = JoinOf(th)
  BY DEF JoinOf
<1> QED BY <1>1, <1>2
        DEF Place, TaskPlace, ReadyTask, ExitPlace, GonePlace, FreePlace, Task

--------------------------------------------------------------------------------
(* Calls that change nothing, or take a slot for nobody. *)
LEMMA RefuseTouches ==
  ASSUME Base, UNCHANGED coreVars, tick.pc = "none",
         UNCHANGED <<th_pc, irq_th, irq_enabled, owed>>, th_alloc \subseteq th_alloc',
         th_alloc' \subseteq Thread
  PROVE  Touches(th_alloc' \ th_alloc)
<1> DEFINE T == th_alloc' \ th_alloc
<1>1. \A u \in Thread \ T : Untouched(u)
  BY DEF Untouched, coreVars
<1>2. ASSUME NEW u \in T
      PROVE  Place(u)' /\ ~(Task(u)' /\ Nowhere(u)') /\ ~Task(u)
  <2>1. u \in Thread /\ Place(u) /\ th_pc[u] \in {"wait", "dead"} /\ th_pc' = th_pc
    BY DEF Base, LifeInv, Place, FreePlace
  <2> QED BY <2>1 DEF coreVars, Place, TaskPlace, ExitPlace, GonePlace, FreePlace, Task
<1> QED BY <1>1, <1>2 DEF Touches, coreVars

(* thinkos_thread_create_svc: the slot was clean, but for a ready bit. *)
LEMMA CreateTouches ==
  ASSUME LifeConfiguration, Base, NEW t \in Thread, NEW id \in ThreadArg,
         NEW paused \in PausedOption, thinkos_thread_create_svc(t, id, paused)
  PROVE  \E T : Touches(T)
<1>0. ~paused /\ tick.pc = "none"
  BY DEF PausedOption, LifeConfiguration, thinkos_thread_create_svc, ThreadCalls, Calls,
         Running
<1>1. CASE NewSlot(id) = NONE
  BY <1>0, <1>1, RefuseTouches DEF thinkos_thread_create_svc, ThreadRefuse, Refuse,
                              threadVars, Base, TypeOK
<1>2. CASE NewSlot(id) # NONE
  <2>1. PICK th \in Thread \ th_alloc : th = NewSlot(id)
    BY <1>2, NewSlotLemma
  <2>2. /\ th_alloc' = th_alloc \cup {th}
        /\ th_pc' = [th_pc EXCEPT ![th] = "task"]
        /\ r0' = [r0 EXCEPT ![th] = OK]
        /\ call' = [call EXCEPT ![th] = NoCall]
        /\ wq_lst' = wq_insert(wq_lst, WQ_READY, th)
        /\ owed' = [owed EXCEPT ![th] = NONE]
        /\ UNCHANGED <<th_stat, tick, irq_th, irq_enabled>>
    BY <1>0, <1>2, <2>1 DEF thinkos_thread_create_svc
  <2>3. \A w \in WQ : wq_lst'[w] = IF w = WQ_READY THEN wq_lst[w] \cup {th} ELSE wq_lst[w]
    BY <2>2 DEF wq_insert, Base, TypeOK, CoreTypeOK, QueuesOK
  <2>4. th_pc[th] \in {"wait", "dead"} /\ \A w \in WQ : th \in wq_lst[w] => w = WQ_READY
    BY DEF Base, LifeInv, Place, FreePlace, GonePlace
  <2>5. \A u \in Thread \ {th} : Untouched(u)
    BY <2>2, <2>3 DEF Untouched, Base, TypeOK, CoreTypeOK
  <2>6. /\ Task(th)' /\ OnlyIn(th, WQ_READY)' /\ th \in th_alloc'
        /\ call'[th] = NoCall
    BY <2>2, <2>3, <2>4, LayoutLemma DEF Base, TypeOK, CoreTypeOK, Task, OnlyIn
  <2>7. \A s \in Thread : JoinOf(s) # NoCall
    BY LifeLayout
  <2>8. Place(th)' /\ ~(Task(th)' /\ Nowhere(th)')
    BY <2>6, <2>7, ReadyIsPlace
  <2>9. ~Task(th)
    BY <2>4 DEF Task
  <2>10. Touches({th})
    BY <1>0, <2>2, <2>5, <2>8, <2>9 DEF Touches
  <2> QED BY <2>10
<1> QED BY <1>1, <1>2

(* thinkos_exit_svc and the return of the task: ready, with the code. *)
LEMMA EndTouches ==
  ASSUME LifeConfiguration, Base, NEW t \in Thread, NEW code \in CODES[t],
         thinkos_exit_svc(t, code) \/ TaskReturn(t, code)
  PROVE  \E T : Touches(T)
<1>1. Running(t) /\ Task(t)
  BY DEF thinkos_exit_svc, TaskReturn, ThreadCalls, Calls, Task
<1>2. OnlyIn(t, WQ_READY) /\ t \in wq_lst[WQ_READY] /\ t \in th_alloc
  BY <1>1, RunnerIsReady DEF ReadyTask, Base, LifeInv, Place, FreePlace, Task
<1>3. /\ r0' = [r0 EXCEPT ![t] = code] /\ th_pc' = [th_pc EXCEPT ![t] = "exit"]
      /\ UNCHANGED <<call, tick, th_alloc, irq_th, irq_enabled, owed>> /\ tick.pc = "none"
  BY DEF thinkos_exit_svc, TaskReturn, handlerVars, ThreadCalls, Calls, Running
<1>4. /\ \A w \in WQ : wq_lst'[w] = wq_lst[w]
                         \/ (w = WQ_CANCELED /\ wq_lst'[w] = wq_lst[w] \cup {t})
      /\ t \in wq_lst'[WQ_CANCELED] => th_stat' = [th_stat EXCEPT ![t] = Stat(WQ_CANCELED, 0)]
      /\ \A u \in Thread \ {t} : th_stat'[u] = th_stat[u]
  <2>1. CASE thinkos_exit_svc(t, code)
    BY <2>1 DEF thinkos_exit_svc, wq_insert, SetStat, Base, TypeOK, CoreTypeOK, QueuesOK
  <2>2. CASE TaskReturn(t, code)
    BY <1>2, <2>2, ThreadLayout DEF TaskReturn, OnlyIn
  <2> QED BY <2>1, <2>2
<1>5. \A u \in Thread \ {t} : Untouched(u)
  BY <1>3, <1>4 DEF Untouched, Base, TypeOK, CoreTypeOK
<1>6. th_pc'[t] = "exit" /\ r0'[t] = code /\ t \in th_alloc'
  BY <1>2, <1>3 DEF Base, TypeOK, CoreTypeOK
<1>7. /\ \A w \in WQ : t \in wq_lst'[w] => w \in {WQ_READY, WQ_CANCELED}
      /\ t \in wq_lst'[WQ_READY]
  BY <1>2, <1>4, LayoutLemma, ThreadLayout DEF OnlyIn
<1>8. t \in wq_lst'[WQ_CANCELED] => th_stat'[t] = Stat(WQ_CANCELED, 0)
  BY <1>4 DEF Base, TypeOK, CoreTypeOK
<1>9. Place(t)' /\ ~Task(t)'
  BY <1>6, <1>7, <1>8 DEF Place, TaskPlace, ExitPlace, GonePlace, FreePlace, Task
<1>10. ~Listener(t)
  BY <1>2, LayoutLemma DEF Listener, Nowhere
<1>11. Touches({t})
  BY <1>3, <1>5, <1>9, <1>10 DEF Touches
<1> QED BY <1>11

(* thinkos_cancel_svc: whatever the thread was doing, it leaves the queues *)
(* of a task and is cancelled, with the code.                              *)
LEMMA CancelTouches ==
  ASSUME LifeConfiguration, Base, NEW t \in Thread, NEW th \in CANCELABLE,
         NEW code \in CODES[th], thinkos_cancel_svc(t, th, code)
  PROVE  \E T : Touches(T)
<1>0. tick.pc = "none" /\ th \in Thread
  BY ThreadAssumption DEF thinkos_cancel_svc, ThreadCalls, Calls, Running
<1>1. CASE ~IsThread(th)
  BY <1>0, <1>1, RefuseTouches DEF thinkos_cancel_svc, ThreadRefuse, Refuse, threadVars,
                                   Base, TypeOK
<1>2. CASE IsThread(th)
  <2>1. /\ wq_lst' = wq_insert(Unqueued(wq_lst, th), WQ_CANCELED, th)
        /\ th_stat' = [th_stat EXCEPT ![th] = Stat(WQ_CANCELED, 0)]
        /\ th_pc' = [th_pc EXCEPT ![th] = "exit"]
        /\ r0' = [r0 EXCEPT ![th] = code]
        /\ call' = [call EXCEPT ![th] = NoCall]
        /\ owed' = [owed EXCEPT ![th] = NONE]
        /\ UNCHANGED <<tick, th_alloc, irq_th, irq_enabled>> /\ th \in th_alloc
    BY <1>2 DEF thinkos_cancel_svc, SetStat, IsThread, handlerVars
  <2>2. \A w \in WQ :
          wq_lst'[w] = IF w = WQ_CANCELED THEN Unqueued(wq_lst, th)[w] \cup {th}
                       ELSE Unqueued(wq_lst, th)[w]
    BY <2>1 DEF wq_insert, Unqueued
  <2>3. \A w \in WQ :
          Unqueued(wq_lst, th)[w]
            = IF w \in {StatWQ(th_stat[th]), WQ_CLOCK} THEN wq_lst[w] \ {th} ELSE wq_lst[w]
    BY LifeLayout DEF Unqueued
  <2>4. \A u \in Thread \ {th} : Untouched(u)
    BY <2>1, <2>2, <2>3 DEF Untouched, Base, TypeOK, CoreTypeOK
  <2>5. \A w \in WQ : th \in wq_lst[w] =>
          w \in {WQ_READY, WQ_CANCELED, WQ_CLOCK, StatWQ(th_stat[th])}
    <3>1. Place(th) /\ th_pc[th] \in ThreadPc /\ ~Waking(th)
      BY <1>0 DEF Base, LifeInv, TypeOK, Waking
    <3>2. CASE Task(th)
      BY <3>1, <3>2, LifeLayout DEF Place, TaskPlace, ReadyTask, Sleeper, Joiner,
                                    Listener, OnlyIn, Nowhere
    <3>3. CASE ~Task(th)
      BY <3>1, <3>3 DEF Place, ExitPlace, GonePlace, Task, ThreadPc
    <3> QED BY <3>2, <3>3
  <2>6. /\ \A w \in WQ : th \in wq_lst'[w] => w \in {WQ_READY, WQ_CANCELED}
        /\ th \in wq_lst'[WQ_CANCELED]
    BY <2>2, <2>3, <2>5, ThreadLayout
  <2>7. /\ th_pc'[th] = "exit" /\ r0'[th] = code /\ th \in th_alloc'
        /\ th_stat'[th] = Stat(WQ_CANCELED, 0)
    BY <1>0, <2>1 DEF Base, TypeOK, CoreTypeOK
  <2>8. Place(th)' /\ ~Task(th)'
    BY <2>6, <2>7 DEF Place, TaskPlace, ExitPlace, GonePlace, FreePlace, Task
  <2>9. Touches({th})
    BY <1>0, <2>1, <2>4, <2>8 DEF Touches
  <2> QED BY <2>9
<1> QED BY <1>1, <1>2

(* A call that returns at once leaves a ready task without a join. *)
LEMMA ReturnTouches ==
  ASSUME LifeConfiguration, Base, NEW t \in Thread, ThreadReturn(t)
  PROVE  \E T : Touches(T)
<1>1. Running(t) /\ Task(t) /\ tick.pc = "none"
  BY DEF ThreadReturn, CallReturn, Running
<1>2. OnlyIn(t, WQ_READY) /\ t \in th_alloc
  BY <1>1, RunnerIsReady DEF ReadyTask, Base, LifeInv, Place, FreePlace, Task
<1>3. /\ r0' = [r0 EXCEPT ![t] = OK] /\ call' = [call EXCEPT ![t] = NoCall]
      /\ owed' = [owed EXCEPT ![t] = NONE]
      /\ UNCHANGED <<wq_lst, th_stat, tick, th_alloc, th_pc, irq_th, irq_enabled>>
  BY DEF ThreadReturn, CallReturn, handlerVars
<1>4. \A u \in Thread \ {t} : Untouched(u)
  BY <1>3 DEF Untouched, Base, TypeOK, CoreTypeOK
<1>5. Task(t)' /\ OnlyIn(t, WQ_READY)' /\ t \in th_alloc' /\ call'[t] = NoCall
  BY <1>1, <1>2, <1>3, LayoutLemma DEF Task, OnlyIn, Base, TypeOK, CoreTypeOK
<1>6. Place(t)' /\ ~(Task(t)' /\ Nowhere(t)')
  BY <1>5, ReadyIsPlace, LifeLayout
<1>7. ~Listener(t)
  BY <1>2, LayoutLemma DEF Listener, Nowhere, OnlyIn
<1>8. Touches({t})
  BY <1>1, <1>3, <1>4, <1>6, <1>7 DEF Touches
<1> QED BY <1>8

(* Without time sharing, a wait takes the thread out of the ready queue. *)
LEMMA WaitEffect ==
  ASSUME LifeConfiguration, NEW q, QueuesOK(q), NEW t
  PROVE  \A w \in WQ : wait(q, t)[w] = IF w = WQ_READY THEN q[w] \ {t} ELSE q[w]
BY LifeLayout, LayoutLemma DEF wait, collect, QueuesOK

(* thinkos_sleep_svc: from the ready queue to the clock queue. *)
LEMMA SleepTouches ==
  ASSUME LifeConfiguration, Base, NEW t \in Thread, NEW ms, Task(t),
         thinkos_sleep_svc(t, ms), UNCHANGED threadVars
  PROVE  \E T : Touches(T)
<1>1. Running(t) /\ tick.pc = "none"
  BY DEF thinkos_sleep_svc, ClockWait, Calls, Running
<1>2. OnlyIn(t, WQ_READY) /\ t \in th_alloc
  BY <1>1, RunnerIsReady DEF ReadyTask, Base, LifeInv, Place, FreePlace, Task
<1> DEFINE q == wq_insert(wq_lst, WQ_CLOCK, t)
<1>3. /\ wq_lst' = wait(q, t)
      /\ th_stat' = [th_stat EXCEPT ![t] = Stat(WQ_CLOCK, 1)]
      /\ r0' = [r0 EXCEPT ![t] = r0[t]]
      /\ call' = [call EXCEPT ![t] = Call("sleep", WQ_CLOCK, 0)]
      /\ UNCHANGED <<tick, th_alloc, th_pc, irq_th, irq_enabled, owed>>
  BY DEF thinkos_sleep_svc, ClockWait, SetStat, Blocked, handlerVars, threadVars
<1>4. QueuesOK(q)
  BY InsertType, LayoutLemma DEF Base, TypeOK, CoreTypeOK
<1>5. \A w \in WQ : q[w] = IF w = WQ_CLOCK THEN wq_lst[w] \cup {t} ELSE wq_lst[w]
  BY DEF wq_insert, Base, TypeOK, CoreTypeOK, QueuesOK
<1> HIDE DEF q
<1>6. \A w \in WQ : wq_lst'[w] = IF w = WQ_READY THEN wq_lst[w] \ {t}
                                 ELSE IF w = WQ_CLOCK THEN wq_lst[w] \cup {t}
                                 ELSE wq_lst[w]
  <2>1. \A w \in WQ : wq_lst'[w] = IF w = WQ_READY THEN q[w] \ {t} ELSE q[w]
    BY <1>3, <1>4, WaitEffect
  <2> QED BY <1>5, <2>1, LayoutLemma
<1>7. \A u \in Thread \ {t} : Untouched(u)
  BY <1>3, <1>6 DEF Untouched, Base, TypeOK, CoreTypeOK
<1>8. OnlyIn(t, WQ_CLOCK)' /\ ~(Nowhere(t)')
  BY <1>2, <1>6, LayoutLemma DEF OnlyIn, Nowhere
<1>9. Task(t)' /\ th_stat'[t] = Stat(WQ_CLOCK, 1) /\ call'[t].op = "sleep"
  BY <1>3 DEF Task, Base, TypeOK, CoreTypeOK, Call
<1>10. Sleeper(t)'
  BY <1>8, <1>9 DEF Sleeper
<1>11. Place(t)'
  BY <1>2, <1>3, <1>9, <1>10
     DEF Place, TaskPlace, ExitPlace, GonePlace, FreePlace, Task
<1>12. ~Listener(t)
  BY <1>2, LayoutLemma DEF Listener, Nowhere, OnlyIn
<1>13. Touches({t})
  BY <1>1, <1>3, <1>7, <1>8, <1>11, <1>12 DEF Touches
<1> QED BY <1>13

(* A join makes a cancelled thread ready and leaves everybody else alone. *)
LEMMA ReleasedEffect ==
  ASSUME LifeConfiguration, NEW q, QueuesOK(q), NEW th \in Thread
  PROVE  \A w \in WQ : \A u \in Thread :
           u \in Released(q, th)[w] <=>
             IF u = th /\ th \in q[WQ_CANCELED]
             THEN w = WQ_READY \/ (w # WQ_CANCELED /\ u \in q[w])
             ELSE u \in q[w]
BY LifeLayout, ThreadLayout DEF Released, QueuesOK

(* thinkos_join_svc: from the ready queue to the queue of the joined one. *)
LEMMA JoinTouches ==
  ASSUME LifeConfiguration, Base, NEW t \in Thread, NEW th, thinkos_join_svc(t, th)
  PROVE  \E T : Touches(T)
<1>1. Running(t) /\ Task(t) /\ tick.pc = "none"
  BY DEF thinkos_join_svc, ThreadCalls, Calls, Running
<1>2. OnlyIn(t, WQ_READY) /\ t \in th_alloc
  BY <1>1, RunnerIsReady DEF ReadyTask, Base, LifeInv, Place, FreePlace, Task
<1>3. CASE ~IsThread(th)
  BY <1>1, <1>3, RefuseTouches DEF thinkos_join_svc, ThreadRefuse, Refuse, threadVars,
                                   Base, TypeOK
<1>4. CASE IsThread(th)
  <2>1. th \in Thread /\ QueuesOK(wq_lst)
    BY <1>4 DEF IsThread, Base, TypeOK, CoreTypeOK
  <2> DEFINE p == Released(wq_lst, th)
             q == wq_insert(p, JOIN_BASE + th, t)
  <2>2. /\ wq_lst' = wait(q, t)
        /\ th_stat' = [th_stat EXCEPT ![t] = Stat(JOIN_BASE + th, 0)]
        /\ r0' = [r0 EXCEPT ![t] = -1]
        /\ call' = [call EXCEPT ![t] = JoinOf(th)]
        /\ owed' = [owed EXCEPT ![t] = IF th_pc[th] = "release" THEN LATE ELSE NONE]
        /\ UNCHANGED <<tick, th_alloc, th_pc, irq_th, irq_enabled>>
    BY <1>4 DEF thinkos_join_svc, SetStat, Blocked, handlerVars, JoinOf
  <2>3. QueuesOK(p) /\ QueuesOK(q)
    BY <2>1, ReleasedType, InsertType, ThreadLayout
  <2>4. \A w \in WQ : q[w] = IF w = JOIN_BASE + th THEN p[w] \cup {t} ELSE p[w]
    BY <2>3 DEF wq_insert, QueuesOK
  <2>5. \A w \in WQ : \A u \in Thread :
          u \in p[w] <=> IF u = th /\ th \in wq_lst[WQ_CANCELED]
                         THEN w = WQ_READY \/ (w # WQ_CANCELED /\ u \in wq_lst[w])
                         ELSE u \in wq_lst[w]
    BY <2>1, ReleasedEffect
  <2> HIDE DEF p, q
  <2>6. \A w \in WQ : wq_lst'[w] = IF w = WQ_READY THEN q[w] \ {t} ELSE q[w]
    BY <2>2, <2>3, WaitEffect
  <2>7. th \in wq_lst[WQ_CANCELED] => th # t /\ th_pc[th] = "exit"
    <3>1. SUFFICES ASSUME th \in wq_lst[WQ_CANCELED] PROVE th # t /\ th_pc[th] = "exit"
      OBVIOUS
    <3>2. th # t
      BY <1>2, <3>1, ThreadLayout DEF OnlyIn
    <3>3. Place(th) /\ th_pc[th] \in ThreadPc
      BY <2>1 DEF Base, LifeInv, TypeOK
    <3>4. ~Task(th)
      BY <2>1, <3>1, <3>3, ThreadLayout, LayoutLemma
         DEF Place, TaskPlace, ReadyTask, Sleeper, Joiner, Listener, OnlyIn, Nowhere
    <3> QED BY <3>1, <3>2, <3>3, <3>4, ThreadLayout DEF Place, GonePlace, Task, ThreadPc
  <2>8. OnlyIn(t, JOIN_BASE + th)' /\ ~(Nowhere(t)')
    BY <1>2, <2>1, <2>4, <2>5, <2>6, <2>7, ThreadLayout DEF OnlyIn, Nowhere
  <2>9. /\ Task(t)' /\ th_stat'[t] = Stat(JOIN_BASE + th, 0) /\ call'[t] = JoinOf(th)
        /\ t \in th_alloc' /\ owed'[t] \in {NONE, LATE}
    BY <1>1, <1>2, <2>2 DEF Task, Base, TypeOK, CoreTypeOK
  <2>10. Joiner(t)'
    <3>1. JoinOf(th)' = JoinOf(th)
      BY DEF JoinOf
    <3> QED BY <2>1, <2>8, <2>9, <3>1 DEF Joiner
  <2>11. Place(t)'
    BY <2>9, <2>10 DEF Place, TaskPlace, ExitPlace, GonePlace, FreePlace, Task
  <2>12. ~Listener(t)
    BY <1>2, LayoutLemma DEF Listener, Nowhere, OnlyIn
  <2>15. ASSUME NEW u \in Thread \ {t}
         PROVE  /\ th_pc'[u] = th_pc[u] /\ th_stat'[u] = th_stat[u]
                /\ call'[u] = call[u] /\ r0'[u] = r0[u]
                /\ u \in th_alloc' <=> u \in th_alloc
                /\ owed'[u] = owed[u]
    BY <2>2 DEF Base, TypeOK, CoreTypeOK
  <2>16. ASSUME NEW u \in Thread \ {t}, ~(u = th /\ th \in wq_lst[WQ_CANCELED])
         PROVE  \A w \in WQ : u \in wq_lst'[w] <=> u \in wq_lst[w]
    <3>1. \A w \in WQ : u \in p[w] <=> u \in wq_lst[w]
      BY <2>5, <2>16
    <3> QED BY <2>4, <2>6, <3>1
  <2>13. CASE th \notin wq_lst[WQ_CANCELED]
    <3>1. \A u \in Thread \ {t} : Untouched(u)
      BY <2>13, <2>15, <2>16 DEF Untouched
    <3>2. Touches({t})
      BY <1>1, <2>2, <2>8, <2>11, <2>12, <3>1 DEF Touches
    <3> QED BY <3>2
  <2>14. CASE th \in wq_lst[WQ_CANCELED]
    <3>1. \A u \in Thread \ {t, th} : Untouched(u)
      BY <2>15, <2>16 DEF Untouched
    <3>2. /\ th_pc'[th] = "exit" /\ r0'[th] = r0[th] /\ th_pc[th] = "exit"
          /\ th \in th_alloc' <=> th \in th_alloc
      BY <2>1, <2>2, <2>7, <2>14 DEF Base, TypeOK, CoreTypeOK
    <3>3. /\ \A w \in WQ : th \in wq_lst'[w] <=>
                             w = WQ_READY \/ (w # WQ_CANCELED /\ th \in wq_lst[w])
      BY <2>1, <2>4, <2>5, <2>6, <2>7, <2>14
    <3>4. ExitPlace(th) /\ FreePlace(th)
      BY <2>1 DEF Base, LifeInv, Place
    <3>5. Place(th)' /\ ~Task(th)' /\ ~Task(th)
      BY <3>2, <3>3, <3>4, LayoutLemma, ThreadLayout
         DEF Place, TaskPlace, ExitPlace, GonePlace, FreePlace, Task
    <3>6. Touches({t, th})
      BY <1>1, <2>1, <2>2, <2>8, <2>11, <2>12, <3>1, <3>5 DEF Touches
    <3> QED BY <3>6
  <2> QED BY <2>13, <2>14
<1> QED BY <1>3, <1>4

(* The first part of thinkos_thread_exit: the thread leaves the queues and *)
(* every thread that joins it is ready with its code.                      *)
LEMMA UnlinkTouches ==
  ASSUME LifeConfiguration, Base, NEW t \in Thread, ExitUnlink(t)
  PROVE  \E T : Touches(T)
<1>1. Running(t) /\ th_pc[t] = "exit" /\ tick.pc = "none" /\ ~Task(t)
  BY DEF ExitUnlink, Running, Task
<1> DEFINE left == [wq_lst EXCEPT ![StatWQ(th_stat[t])] = @ \ {t}]
           J    == Joiners(t)
<1>2. /\ wq_lst' = [w \in WQ |-> IF w = WQ_READY           THEN left[w] \cup J
                                 ELSE IF w = JOIN_BASE + t THEN left[w] \ J
                                 ELSE left[w]]
      /\ th_stat' = [th_stat EXCEPT ![t] = 0]
      /\ r0' = [th \in Thread |-> IF th \in J THEN r0[t] ELSE r0[th]]
      /\ th_pc' = [th_pc EXCEPT ![t] = "release"]
      /\ owed' = [u \in Thread |->
                    IF call[u] = JoinOf(t) /\ owed[u] = NONE THEN r0[t] ELSE owed[u]]
      /\ UNCHANGED <<call, tick, th_alloc, irq_th, irq_enabled>>
  BY LifeLayout DEF ExitUnlink, OweCode, JoinOf, SetStat, handlerVars
<1>3. \A w \in WQ : left[w] = IF w = StatWQ(th_stat[t]) THEN wq_lst[w] \ {t} ELSE wq_lst[w]
  BY DEF Base, TypeOK, CoreTypeOK, QueuesOK
<1>4. J \subseteq Thread /\ J \subseteq th_alloc /\ \A u \in J : u \in wq_lst[JOIN_BASE + t]
  BY DEF Joiners, Base, TypeOK
<1> HIDE DEF left, J
<1>5. ASSUME NEW u \in J
      PROVE  /\ Task(u) /\ u # t /\ OnlyIn(u, JOIN_BASE + t) /\ call[u] = JoinOf(t)
             /\ owed[u] \in {NONE, LATE} /\ ~Listener(u)
  <2>1. u \in Thread /\ Place(u) /\ th_pc[u] \in ThreadPc /\ u \in wq_lst[JOIN_BASE + t]
    BY <1>4 DEF Base, LifeInv, TypeOK
  <2>2. Task(u)
    BY <2>1, ThreadLayout DEF Place, ExitPlace, GonePlace, Task, ThreadPc
  <2>3. ~ReadyTask(u) /\ ~Sleeper(u) /\ ~Listener(u)
    BY <2>1, ThreadLayout DEF ReadyTask, Sleeper, Listener, OnlyIn, Nowhere
  <2>6. Joiner(u)
    BY <2>1, <2>2, <2>3 DEF Place, TaskPlace
  <2>4. PICK th \in Thread : OnlyIn(u, JOIN_BASE + th) /\ call[u] = JoinOf(th)
    BY <2>6 DEF Joiner
  <2>5. th = t
    BY <2>1, <2>4, LifeLayout, ThreadLayout DEF OnlyIn
  <2> QED BY <1>1, <2>2, <2>3, <2>4, <2>5, <2>6 DEF Joiner
<1>6. r0[t] \in CODES[t] /\ t \in th_alloc
  BY <1>1 DEF Base, LifeInv, Place, ExitPlace, FreePlace
<1>7. ASSUME NEW u \in Thread, u # t
      PROVE  \A w \in WQ : u \in wq_lst'[w] <=>
               IF u \in J THEN w = WQ_READY ELSE u \in wq_lst[w]
  <2>1. \A w \in WQ : u \in left[w] <=> u \in wq_lst[w]
    BY <1>3, <1>7
  <2>2. u \in J => \A w \in WQ : u \in wq_lst[w] <=> w = JOIN_BASE + t
    BY <1>5 DEF OnlyIn
  <2> QED BY <1>2, <2>1, <2>2
<1>8. ASSUME NEW u \in Thread \ ({t} \cup J)
      PROVE  Untouched(u)
  <2>1. ASSUME Task(u), call[u] = JoinOf(t)
        PROVE  owed[u] # NONE
    <3>1. u \in th_alloc /\ TaskPlace(u)
      BY <1>8, <2>1 DEF Base, LifeInv, Place, FreePlace, Task
    <3>2. u \notin wq_lst[JOIN_BASE + t]
      BY <1>8, <3>1 DEF J, Joiners
    <3>3. ~Sleeper(u) /\ ~Listener(u)
      BY <2>1, LifeLayout DEF Sleeper, Listener
    <3>4. ~Joiner(u)
      BY <2>1, <3>2, LifeLayout, ThreadLayout DEF Joiner, OnlyIn
    <3>5. Paid(u)
      BY <2>1, <3>1, <3>3, <3>4 DEF TaskPlace, ReadyTask
    <3> QED BY <3>5 DEF Paid, NONE, LATE
  <2>2. Task(u) => owed'[u] = owed[u]
    BY <1>2, <1>8, <2>1
  <2> QED BY <1>2, <1>7, <1>8, <2>2 DEF Untouched, Base, TypeOK, CoreTypeOK
<1>9. ASSUME NEW u \in J
      PROVE  Place(u)' /\ ~(Task(u)' /\ Nowhere(u)')
  <2>1. u \in Thread /\ u # t /\ u \in th_alloc
    BY <1>4, <1>5
  <2>2. /\ th_pc'[u] = th_pc[u] /\ call'[u] = JoinOf(t) /\ r0'[u] = r0[t]
        /\ u \in th_alloc'
    BY <1>2, <1>5, <2>1 DEF Base, TypeOK, CoreTypeOK
  <2>3. Task(u)' /\ OnlyIn(u, WQ_READY)'
    BY <1>5, <1>7, <2>1, <2>2, LayoutLemma DEF Task, OnlyIn
  <2>4. Paid(u)'
    <3>1. owed'[u] = r0[t] \/ owed'[u] = LATE
      BY <1>2, <1>5, <2>1
    <3>2. r0[t] # NONE
      BY <1>6, ThreadAssumption DEF NONE
    <3> QED BY <2>2, <3>1, <3>2 DEF Paid
  <2> QED BY <2>1, <2>2, <2>3, <2>4, ReadyIsPlace
<1>10. Place(t)' /\ ~Task(t)'
  <2>1. th_pc'[t] = "release" /\ th_stat'[t] = 0 /\ t \in th_alloc' /\ t \notin J
    BY <1>2, <1>5, <1>6 DEF Base, TypeOK, CoreTypeOK
  <2>2. ASSUME NEW w \in WQ, t \in wq_lst'[w]
        PROVE  w = WQ_READY
    <3>1. ExitPlace(t)
      BY DEF Base, LifeInv, Place
    <3>2. t \in left[w]
      BY <1>2, <2>1, <2>2
    <3>3. t \in wq_lst[w] /\ w # StatWQ(th_stat[t])
      BY <1>3, <3>2
    <3> QED BY <1>1, <3>1, <3>3, LifeLayout DEF ExitPlace
  <2> QED BY <2>1, <2>2 DEF Place, TaskPlace, ExitPlace, GonePlace, FreePlace, Task
<1>11. Touches({t} \cup J)
  BY <1>1, <1>2, <1>4, <1>5, <1>8, <1>9, <1>10 DEF Touches
<1> QED BY <1>11

(* Its last two parts: the slot is released, and the thread waits forever. *)
LEMMA LeaveTouches ==
  ASSUME LifeConfiguration, Base, NEW t \in Thread, ExitRelease(t) \/ ExitWait(t)
  PROVE  \E T : Touches(T)
<1>1. CASE ExitRelease(t)
  <2>1. /\ tick.pc = "none" /\ th_pc[t] = "release" /\ th_alloc' = th_alloc \ {t}
        /\ th_pc' = [th_pc EXCEPT ![t] = "wait"]
        /\ UNCHANGED <<wq_lst, th_stat, r0, call, tick, irq_th, irq_enabled, owed>>
    BY <1>1 DEF ExitRelease, Running, coreVars
  <2>2. \A u \in Thread \ {t} : Untouched(u)
    BY <2>1 DEF Untouched, Base, TypeOK
  <2>3. GonePlace(t) /\ th_pc'[t] = "wait"
    BY <2>1 DEF Base, LifeInv, Place, TypeOK
  <2>4. Place(t)' /\ ~Task(t)' /\ ~Task(t)
    BY <2>1, <2>3 DEF Place, TaskPlace, ExitPlace, GonePlace, FreePlace, Task
  <2>5. Touches({t})
    BY <2>1, <2>2, <2>4 DEF Touches
  <2> QED BY <2>5
<1>2. CASE ExitWait(t)
  <2>1. /\ tick.pc = "none" /\ th_pc[t] = "wait" /\ wq_lst' = wait(wq_lst, t)
        /\ r0' = [r0 EXCEPT ![t] = OK] /\ th_pc' = [th_pc EXCEPT ![t] = "dead"]
        /\ UNCHANGED <<th_alloc, th_stat, call, tick, irq_th, irq_enabled, owed>>
    BY <1>2 DEF ExitWait, Running, handlerVars
  <2>2. \A w \in WQ : wq_lst'[w] = IF w = WQ_READY THEN wq_lst[w] \ {t} ELSE wq_lst[w]
    BY <2>1, WaitEffect DEF Base, TypeOK, CoreTypeOK
  <2>3. \A u \in Thread \ {t} : Untouched(u)
    BY <2>1, <2>2 DEF Untouched, Base, TypeOK, CoreTypeOK
  <2>4. GonePlace(t) /\ th_pc'[t] = "dead"
    BY <2>1 DEF Base, LifeInv, Place, TypeOK
  <2>5. Place(t)' /\ ~Task(t)' /\ ~Task(t)
    BY <2>1, <2>2, <2>4 DEF Place, TaskPlace, ExitPlace, GonePlace, FreePlace, Task
  <2>6. Touches({t})
    BY <2>1, <2>3, <2>5 DEF Touches
  <2> QED BY <2>6
<1> QED BY <1>1, <1>2

--------------------------------------------------------------------------------
(* thinkos_irq_wait_svc: from the ready queue to irq_th[] alone. *)
LEMMA IrqWaitKeepsLife ==
  ASSUME LifeConfiguration, Base, TypeOK', NEW t \in Thread, NEW irq \in Irq,
         <<t, irq>> \in IRQ_WAITS, thinkos_irq_wait_svc(t, irq)
  PROVE  /\ LifeInv'
         /\ InterruptsApart /\ DueInv => DueInv'
<1>1. Running(t) /\ Task(t) /\ tick.pc = "none"
  BY DEF thinkos_irq_wait_svc, ThreadCalls, Calls, Running
<1>2. OnlyIn(t, WQ_READY) /\ t \in th_alloc /\ t \notin CANCELABLE
  BY <1>1, RunnerIsReady
     DEF ReadyTask, Base, LifeInv, Place, FreePlace, Task, LifeConfiguration
<1>3. /\ irq_th' = [irq_th EXCEPT ![irq] = t] /\ irq_enabled' = irq_enabled \cup {irq}
      /\ wq_lst' = wait(wq_lst, t)
      /\ r0' = [r0 EXCEPT ![t] = irq] /\ call' = [call EXCEPT ![t] = Call("irq_wait", 0, 0)]
      /\ UNCHANGED <<th_stat, tick, th_alloc, th_pc, owed>>
  BY DEF thinkos_irq_wait_svc, Blocked, handlerVars
<1>4. \A w \in WQ : wq_lst'[w] = IF w = WQ_READY THEN wq_lst[w] \ {t} ELSE wq_lst[w]
  <2>1. QueuesOK(wq_lst) /\ wq_lst' = wait(wq_lst, t)
    BY <1>3 DEF Base, TypeOK, CoreTypeOK
  <2>2. \A w \in WQ :
          wait(wq_lst, t)[w] = IF w = WQ_READY THEN wq_lst[w] \ {t} ELSE wq_lst[w]
    BY <2>1, WaitEffect
  <2> QED BY <2>1, <2>2
<1>5. ASSUME NEW u \in Thread \ {t}
      PROVE  Untouched(u)
  <2>1. \A w \in WQ : u \in wq_lst'[w] <=> u \in wq_lst[w]
    BY <1>4
  <2>2. call'[u] = call[u] /\ r0'[u] = r0[u]
    BY <1>3 DEF Base, TypeOK, CoreTypeOK
  <2> QED BY <1>3, <2>1, <2>2 DEF Untouched
<1>6. Nowhere(t)' /\ Task(t)' /\ Listener(t)'
  <2>1. Nowhere(t)'
    BY <1>2, <1>4 DEF Nowhere, OnlyIn
  <2>2. Task(t)' /\ call'[t].op = "irq_wait"
    BY <1>1, <1>3 DEF Task, Base, TypeOK, CoreTypeOK, Call
  <2> QED BY <2>1, <2>2 DEF Listener
<1>7. Place(t)'
  BY <1>2, <1>3, <1>6 DEF Place, TaskPlace, ExitPlace, GonePlace, FreePlace, Task
<1>8. ASSUME NEW u \in Thread
      PROVE  Place(u)'
  <2>1. Waking(u)' = Waking(u)
    BY <1>3 DEF Waking
  <2> QED BY <1>5, <1>7, <2>1, UntouchedStays DEF Base, LifeInv
<1>9. \A k \in irq_enabled : irq_th[k] # t
  BY <1>2, LayoutLemma DEF Base, LifeInv, IrqInv, Listener, Nowhere, OnlyIn
<1>10. ASSUME NEW k \in irq_enabled'
       PROVE  /\ k = irq => irq_th'[k] = t
              /\ k # irq => k \in irq_enabled /\ irq_th'[k] = irq_th[k] /\ irq_th[k] # t
  BY <1>3, <1>9, <1>10 DEF Base, TypeOK
<1>11. ASSUME NEW k \in irq_enabled', k # irq, NEW u \in Thread, u = irq_th[k]
       PROVE  Task(u)' /\ Listener(u)' /\ u \notin CANCELABLE
  <2>1. Task(u) /\ Listener(u) /\ u \notin CANCELABLE
    BY <1>10, <1>11 DEF Base, LifeInv, IrqInv
  <2>2. Untouched(u)
    BY <1>5, <1>10, <1>11
  <2> QED BY <2>1, <2>2 DEF Untouched, Task, Listener, Nowhere
<1>12. IrqInv'
  <2>1. SUFFICES ASSUME NEW k \in irq_enabled'
                 PROVE  /\ Task(irq_th[k])' /\ Listener(irq_th[k])'
                        /\ irq_th'[k] \notin CANCELABLE
                        /\ \A l \in irq_enabled' : irq_th'[l] = irq_th'[k] => l = k
    BY DEF IrqInv
  <2>2. PICK u \in Thread : u = irq_th'[k]
    BY DEF TypeOK
  <2>3. Task(u)' /\ Listener(u)' /\ u \notin CANCELABLE
    BY <1>2, <1>6, <1>10, <1>11, <2>2
  <2>4. \A l \in irq_enabled' : irq_th'[l] = irq_th'[k] => l = k
    BY <1>10 DEF Base, LifeInv, IrqInv
  <2> QED BY <2>2, <2>3, <2>4
<1>13. ClockInv'
  BY <1>1, <1>3 DEF ClockInv
<1>14. ASSUME InterruptsApart, DueInv
       PROVE  DueInv'
  <2>1. irq \notin irq_enabled
    <3>1. SUFFICES ASSUME irq \in irq_enabled PROVE FALSE
      OBVIOUS
    <3>2. PICK s \in Thread : s = irq_th[irq]
      BY <3>1 DEF Base, TypeOK
    <3>3. <<s, irq>> \in IRQ_WAITS
      BY <1>14, <3>1, <3>2 DEF DueInv
    <3>4. \A v, w \in IRQ_WAITS : v[2] = w[2] => v[1] = w[1]
      BY <1>14 DEF InterruptsApart
    <3>5. <<s, irq>>[2] = <<t, irq>>[2] => <<s, irq>>[1] = <<t, irq>>[1]
      BY <3>3, <3>4
    <3>6. s = t
      BY <3>5
    <3> QED BY <1>9, <3>1, <3>2, <3>6
  <2>2. \A k \in irq_enabled' : <<irq_th'[k], k>> \in IRQ_WAITS
    BY <1>10, <1>14 DEF DueInv
  <2>3. irq \in irq_enabled' /\ irq_th'[irq] = t
    BY <1>3 DEF Base, TypeOK
  <2>4. ASSUME NEW u \in Thread, u # t, Task(u)', Nowhere(u)', ~(Waking(u)')
        PROVE  \E k \in irq_enabled' : irq_th'[k] = u
    <3>1. Task(u) /\ Nowhere(u) /\ ~Waking(u)
      BY <1>3, <1>5, <2>4 DEF Untouched, Task, Nowhere, Waking
    <3>2. PICK k \in irq_enabled : irq_th[k] = u
      BY <1>14, <3>1 DEF DueInv
    <3>3. k \in irq_enabled' /\ k # irq
      BY <1>3, <2>1
    <3> QED BY <1>10, <3>2, <3>3
  <2> QED BY <2>2, <2>3, <2>4 DEF DueInv
<1> QED BY <1>8, <1>12, <1>13, <1>14 DEF LifeInv

(* cm3_default_isr: the listener is ready, also in the middle of SysTick. *)
LEMMA IsrKeepsLife ==
  ASSUME LifeConfiguration, Base, TypeOK', NEW irq \in Irq, cm3_default_isr(irq)
  PROVE  LifeInv' /\ (DueInv => DueInv')
<1>1. PICK t \in Thread : t = irq_th[irq]
  BY DEF Base, TypeOK, cm3_default_isr
<1>2. /\ irq \in irq_enabled /\ irq_enabled' = irq_enabled \ {irq}
      /\ wq_lst' = [wq_lst EXCEPT ![WQ_READY] = @ \cup {t}]
      /\ UNCHANGED <<th_stat, tick, r0, call, th_alloc, th_pc, irq_th, owed>>
  BY <1>1 DEF cm3_default_isr
<1>3. /\ Task(t) /\ Listener(t) /\ Nowhere(t)
      /\ \A k \in irq_enabled : irq_th[k] = t => k = irq
  BY <1>1, <1>2 DEF Base, LifeInv, IrqInv, Listener
<1>4. \A w \in WQ : wq_lst'[w] = IF w = WQ_READY THEN wq_lst[w] \cup {t} ELSE wq_lst[w]
  BY <1>2 DEF Base, TypeOK, CoreTypeOK, QueuesOK
<1>5. \A u \in Thread \ {t} : Untouched(u)
  BY <1>2, <1>4 DEF Untouched
<1>6. Task(t)' /\ OnlyIn(t, WQ_READY)' /\ t \in th_alloc' /\ call'[t].op = "irq_wait"
  BY <1>2, <1>3, <1>4, LayoutLemma
     DEF Task, OnlyIn, Nowhere, Listener, Base, LifeInv, Place, FreePlace
<1>7. Place(t)' /\ ~(Task(t)' /\ Nowhere(t)')
  BY <1>6, ReadyIsPlace, LifeLayout
<1>8. ASSUME NEW u \in Thread
      PROVE  Place(u)'
  <2>1. Waking(u)' = Waking(u)
    BY <1>2 DEF Waking
  <2> QED BY <1>5, <1>7, <2>1, UntouchedStays DEF Base, LifeInv
<1>9. IrqInv'
  <2>1. SUFFICES ASSUME NEW k \in irq_enabled, k # irq
                 PROVE  Task(irq_th[k])' /\ Listener(irq_th[k])'
    BY <1>2 DEF IrqInv, Base, LifeInv
  <2>2. PICK u \in Thread : u = irq_th[k]
    BY DEF Base, TypeOK
  <2>3. Task(u) /\ Listener(u) /\ u # t
    BY <1>3, <2>1, <2>2 DEF Base, LifeInv, IrqInv
  <2>4. Task(u)' /\ Listener(u)' /\ u = irq_th'[k]
    BY <1>2, <1>5, <2>2, <2>3 DEF Untouched, Task, Listener, Nowhere
  <2> QED BY <2>4
<1>10. ClockInv'
  <2>1. wq_lst'[WQ_CLOCK] = wq_lst[WQ_CLOCK]
    BY <1>4, LayoutLemma
  <2>2. CASE tick.pc = "wakeup"
    <3>1. PICK j \in Thread : j = tick.j
      BY DEF Base, TypeOK, CoreTypeOK, TickRecord
    <3>2. Task(j) /\ Nowhere(j) /\ call[j].op \notin {"join", "irq_wait"}
      BY <2>2, <3>1 DEF Base, LifeInv, ClockInv
    <3>3. Untouched(j) /\ j = tick'.j
      BY <1>2, <1>3, <1>5, <3>1, <3>2 DEF Listener
    <3>4. Task(j)' /\ Nowhere(j)' /\ call'[j].op \notin {"join", "irq_wait"}
      BY <3>2, <3>3 DEF Untouched, Task, Nowhere
    <3> QED BY <1>2, <2>1, <2>2, <3>3, <3>4 DEF ClockInv, Base, LifeInv
  <2>3. CASE tick.pc # "wakeup"
    BY <1>2, <2>1, <2>3 DEF ClockInv, Base, LifeInv
  <2> QED BY <2>2, <2>3
<1>11. ASSUME DueInv
       PROVE  DueInv'
  <2>1. \A k \in irq_enabled' : <<irq_th'[k], k>> \in IRQ_WAITS
    BY <1>2, <1>11 DEF DueInv
  <2>2. ASSUME NEW u \in Thread, Task(u)', Nowhere(u)', ~(Waking(u)')
        PROVE  \E k \in irq_enabled' : irq_th'[k] = u
    <3>1. u # t
      BY <1>7, <2>2
    <3>2. Task(u) /\ Nowhere(u) /\ ~Waking(u)
      BY <1>2, <1>5, <2>2, <3>1 DEF Untouched, Task, Nowhere, Waking
    <3> QED BY <1>1, <1>2, <1>11, <3>1, <3>2 DEF DueInv
  <2> QED BY <2>1, <2>2 DEF DueInv
<1> QED BY <1>8, <1>9, <1>10, <1>11 DEF LifeInv

(* cm3_systick_isr: every sleeper whose wait is over ends up ready. *)
LEMMA SysTickKeepsLife ==
  ASSUME LifeConfiguration, Base, TypeOK', SysTick, UNCHANGED threadVars
  PROVE  LifeInv' /\ (DueInv => DueInv')
<1>1. ASSUME UNCHANGED <<wq_lst, th_stat, r0, call>>, tick.pc # "wakeup",
             tick'.pc # "wakeup", ClockInv'
      PROVE  LifeInv' /\ (DueInv => DueInv')
  <2>1. ASSUME NEW u \in Thread
        PROVE  Place(u)' /\ Untouched(u) /\ Waking(u)' = Waking(u)
    <3>1. Untouched(u)
      BY <1>1 DEF Untouched, threadVars
    <3>2. Waking(u)' = Waking(u)
      BY <1>1 DEF Waking
    <3> QED BY <3>1, <3>2, UntouchedStays DEF Base, LifeInv
  <2>2. IrqInv'
    BY <1>1 DEF Base, LifeInv, IrqInv, Task, Listener, Nowhere, threadVars
  <2>3. DueInv => DueInv'
    BY <1>1 DEF DueInv, Task, Nowhere, Waking, threadVars
  <2> QED BY <1>1, <2>1, <2>2, <2>3 DEF LifeInv
<1>2. CASE SysTickEntry
  <2>1. ClockInv'
    BY <1>2 DEF SysTickEntry, ClockInv
  <2> QED BY <1>1, <1>2, <2>1 DEF SysTickEntry
<1>3. CASE SysTickScan
  <2> DEFINE j == Min(tick.wq)
  <2>1. tick.pc = "scan" /\ j \in tick.wq /\ UNCHANGED <<wq_lst, th_stat, r0, call>>
    BY <1>3, MinLemma, ThreadLemma DEF SysTickScan, Base, TypeOK, CoreTypeOK, TickRecord
  <2>2. tick.wq \subseteq wq_lst[WQ_CLOCK]
    BY <2>1 DEF Base, LifeInv, ClockInv
  <2>3. \/ tick' = [pc |-> "unlink", wq |-> tick.wq \ {j}, j |-> j,
                    stat |-> th_stat[j], sched |-> TRUE]
        \/ tick' = [tick EXCEPT !.wq = @ \ {j}]
    BY <1>3 DEF SysTickScan
  <2> HIDE DEF j
  <2>4. ClockInv' /\ tick'.pc # "wakeup"
    BY <2>1, <2>2, <2>3 DEF ClockInv, Base, TypeOK, CoreTypeOK, TickRecord
  <2> QED BY <1>1, <2>1, <2>4
<1>4. CASE SysTickExit
  <2>1. UNCHANGED <<wq_lst, th_stat, r0, call>> /\ tick' = NoTick /\ tick.pc = "scan"
    BY <1>4, LifeLayout DEF SysTickExit
  <2>2. ClockInv' /\ tick'.pc # "wakeup"
    BY <2>1 DEF ClockInv, NoTick
  <2> QED BY <1>1, <2>1, <2>2
<1>5. PICK j \in Thread : j = tick.j
  BY DEF Base, TypeOK, CoreTypeOK, TickRecord
<1>6. ASSUME \A u \in Thread \ {j} : Untouched(u) /\ Waking(u)' = Waking(u),
             Place(j)', Task(j) => ~Listener(j), ClockInv',
             ~(Task(j)' /\ Nowhere(j)' /\ ~(Waking(j)'))
      PROVE  LifeInv' /\ (DueInv => DueInv')
  <2>1. \A u \in Thread : Place(u)'
    BY <1>6, UntouchedStays DEF Base, LifeInv
  <2>2. IrqInv'
    <3>1. SUFFICES ASSUME NEW irq \in irq_enabled
                   PROVE  Task(irq_th[irq])' /\ Listener(irq_th[irq])'
      BY DEF IrqInv, Base, LifeInv, threadVars
    <3>2. PICK u \in Thread : u = irq_th[irq]
      BY DEF Base, TypeOK
    <3>3. Task(u) /\ Listener(u) /\ u # j
      BY <1>6, <3>2 DEF Base, LifeInv, IrqInv
    <3>4. Task(u)' /\ Listener(u)' /\ u = irq_th'[irq]
      BY <1>6, <3>2, <3>3 DEF Untouched, Task, Listener, Nowhere, threadVars
    <3> QED BY <3>4
  <2>3. ASSUME DueInv
        PROVE  DueInv'
    <3>1. ASSUME NEW u \in Thread, Task(u)', Nowhere(u)', ~(Waking(u)')
          PROVE  \E irq \in irq_enabled' : irq_th'[irq] = u
      <4>1. Task(u) /\ Nowhere(u) /\ ~Waking(u)
        BY <1>6, <3>1 DEF Untouched, Task, Nowhere
      <4> QED BY <2>3, <4>1 DEF DueInv, threadVars
    <3>2. \A irq \in irq_enabled' : <<irq_th'[irq], irq>> \in IRQ_WAITS
      BY <2>3 DEF DueInv, threadVars
    <3> QED BY <3>1, <3>2 DEF DueInv
  <2> QED BY <1>6, <2>1, <2>2, <2>3 DEF LifeInv
<1>7. CASE SysTickUnlink
  <2>1. /\ tick.pc = "unlink" /\ j \in wq_lst[WQ_CLOCK] /\ tick.stat = th_stat[j]
        /\ j \notin tick.wq /\ tick.wq \subseteq wq_lst[WQ_CLOCK]
    BY <1>5, <1>7 DEF SysTickUnlink, Base, LifeInv, ClockInv
  <2>2. Place(j) /\ th_pc[j] \in ThreadPc
    BY DEF Base, LifeInv, TypeOK
  <2>3. Task(j)
    BY <2>1, <2>2, LayoutLemma, ThreadLayout DEF Place, ExitPlace, GonePlace, Task, ThreadPc
  <2>4. ~ReadyTask(j) /\ ~Joiner(j) /\ ~Listener(j)
    BY <2>1, LayoutLemma, ThreadLayout DEF ReadyTask, Joiner, Listener, OnlyIn, Nowhere
  <2>5. /\ OnlyIn(j, WQ_CLOCK) /\ th_stat[j] = Stat(WQ_CLOCK, 1)
        /\ call[j].op \notin {"join", "irq_wait"}
    BY <2>1, <2>2, <2>3, <2>4, LayoutLemma DEF Place, TaskPlace, Sleeper, Nowhere
  <2>6. StatWQ(tick.stat) = WQ_CLOCK
    BY <2>1, <2>5, LifeLayout
  <2>7. /\ wq_lst' = [wq_lst EXCEPT ![WQ_CLOCK] = @ \ {j}]
        /\ th_stat' = [th_stat EXCEPT ![j] = 0]
        /\ tick' = [tick EXCEPT !.pc = "wakeup"] /\ UNCHANGED <<r0, call>>
    BY <1>5, <1>7, <2>6 DEF SysTickUnlink, SetStat
  <2>8. \A w \in WQ : wq_lst'[w] = IF w = WQ_CLOCK THEN wq_lst[w] \ {j} ELSE wq_lst[w]
    BY <2>7 DEF Base, TypeOK, CoreTypeOK, QueuesOK
  <2>9. tick'.pc = "wakeup" /\ tick'.j = j /\ tick'.wq = tick.wq
    BY <1>5, <2>7 DEF Base, TypeOK, CoreTypeOK, TickRecord
  <2>10. \A u \in Thread \ {j} : Untouched(u) /\ Waking(u)' = Waking(u)
    BY <2>1, <2>7, <2>8, <2>9 DEF Untouched, Waking, threadVars, Base, TypeOK, CoreTypeOK
  <2>11. Task(j)' /\ Nowhere(j)' /\ Waking(j)' /\ call'[j].op \notin {"join", "irq_wait"}
    BY <2>3, <2>5, <2>7, <2>8, <2>9 DEF Task, Nowhere, OnlyIn, Waking, threadVars
  <2>12. Sleeper(j)'
    BY <2>11 DEF Sleeper
  <2>13. Place(j)'
    BY <2>2, <2>11, <2>12 DEF Place, TaskPlace, ExitPlace, GonePlace, FreePlace, Task,
                              threadVars
  <2>14. ClockInv'
    <3>1. tick'.wq \subseteq wq_lst'[WQ_CLOCK]
      BY <2>1, <2>8, <2>9, LayoutLemma
    <3> QED BY <2>1, <2>9, <2>11, <3>1 DEF ClockInv
  <2> QED BY <1>6, <2>4, <2>10, <2>11, <2>13, <2>14
<1>8. CASE SysTickWakeup
  <2>1. /\ tick.pc = "wakeup" /\ Task(j) /\ Nowhere(j) /\ j \notin tick.wq
        /\ call[j].op \notin {"join", "irq_wait"} /\ tick.wq \subseteq wq_lst[WQ_CLOCK]
    BY <1>5, <1>8 DEF SysTickWakeup, Base, LifeInv, ClockInv
  <2>2. /\ wq_lst' = wakeup(wq_lst, WQ_CLOCK, {j}) /\ tick'.pc = "scan"
        /\ tick'.wq = tick.wq /\ UNCHANGED <<th_stat, r0, call>>
    BY <1>5, <1>8 DEF SysTickWakeup
  <2>3. \A w \in WQ : wq_lst'[w] = IF w = WQ_READY THEN wq_lst[w] \cup {j}
                                   ELSE IF w = WQ_CLOCK THEN wq_lst[w] \ {j}
                                   ELSE wq_lst[w]
    BY <2>2 DEF wakeup
  <2>4. \A u \in Thread \ {j} : Untouched(u) /\ Waking(u)' = Waking(u)
    BY <1>5, <2>1, <2>2, <2>3 DEF Untouched, Waking, threadVars
  <2>5. /\ Task(j)' /\ OnlyIn(j, WQ_READY)' /\ j \in th_alloc'
        /\ call'[j].op \notin {"join", "irq_wait"}
    BY <2>1, <2>2, <2>3, LayoutLemma
       DEF Task, OnlyIn, Nowhere, threadVars, Base, LifeInv, Place, FreePlace
  <2>6. Place(j)' /\ ~(Task(j)' /\ Nowhere(j)')
    BY <2>5, ReadyIsPlace, LifeLayout
  <2>7. ~Listener(j)
    BY <2>1 DEF Listener
  <2>8. ClockInv'
    <3>1. tick'.wq \subseteq wq_lst'[WQ_CLOCK]
      BY <2>1, <2>2, <2>3, LayoutLemma
    <3> QED BY <2>2, <3>1 DEF ClockInv
  <2> QED BY <1>6, <2>4, <2>6, <2>7, <2>8
<1> QED BY <1>2, <1>3, <1>4, <1>7, <1>8 DEF SysTick

--------------------------------------------------------------------------------
(* Every step of thread code but the interrupt wait touches some threads. *)
LEMMA CallTouches ==
  ASSUME LifeConfiguration, Base, NEW t \in Thread, ThreadCall(t), TypeOK'
  PROVE  \/ \E T : Touches(T)
         \/ \E irq \in Irq : <<t, irq>> \in IRQ_WAITS /\ thinkos_irq_wait_svc(t, irq)
<1>1. ASSUME NEW id \in ThreadArg, thinkos_thread_create_small(t, id)
      PROVE  \E T : Touches(T)
  BY <1>1, RefuseTouches DEF thinkos_thread_create_small, ThreadCalls, Calls, Running, TypeOK
<1>2. ASSUME NEW irq \in Nat, irq \notin Irq, thinkos_irq_wait_svc(t, irq)
      PROVE  \E T : Touches(T)
  BY <1>2, RefuseTouches DEF thinkos_irq_wait_svc, ThreadRefuse, Refuse, threadVars,
                             ThreadCalls, Calls, Running, Base, TypeOK
<1> QED BY <1>1, <1>2, CreateTouches, EndTouches, CancelTouches, JoinTouches,
           ReturnTouches
        DEF ThreadCall

(* Every step keeps the invariant and loses no thread. *)
LEMMA StepKeepsLife ==
  ASSUME LifeConfiguration, Base, TypeOK', [ThreadStep]_vars
  PROVE  LifeInv' /\ (InterruptsApart /\ DueInv => DueInv')
<1>1. ASSUME NEW T, Touches(T)
      PROVE  LifeInv' /\ (DueInv => DueInv')
  BY <1>1, TouchKeepsLife, TouchKeepsDue
<1>2. CASE UNCHANGED <<wq_lst, th_stat, tick, r0, call, threadVars>>
  <2>1. ASSUME NEW u \in Thread
        PROVE  Place(u)'
    <3>1. Untouched(u) /\ Waking(u)' = Waking(u)
      BY <1>2 DEF Untouched, Waking, threadVars
    <3> QED BY <3>1, UntouchedStays DEF Base, LifeInv
  <2>2. IrqInv' /\ ClockInv'
    BY <1>2 DEF Base, LifeInv, IrqInv, ClockInv, Task, Listener, Nowhere, threadVars
  <2>3. DueInv => DueInv'
    BY <1>2 DEF DueInv, Task, Nowhere, Waking, threadVars
  <2> QED BY <2>1, <2>2, <2>3 DEF LifeInv
<1>3. CASE CoreMove
  <2>1. CASE PendSV /\ UNCHANGED threadVars
    BY <1>2, <2>1 DEF PendSV
  <2>2. ASSUME NEW t \in Thread, NEW ms \in SLEEPS, Task(t), thinkos_sleep_svc(t, ms),
               UNCHANGED threadVars
        PROVE  LifeInv' /\ (DueInv => DueInv')
    BY <1>1, <2>2, SleepTouches
  <2> QED BY <1>3, <2>1, <2>2, SysTickKeepsLife DEF CoreMove
<1>4. ASSUME NEW t \in Thread, ThreadCall(t)
      PROVE  LifeInv' /\ (InterruptsApart /\ DueInv => DueInv')
  BY <1>1, <1>4, CallTouches, IrqWaitKeepsLife
<1>5. ASSUME NEW t \in Thread, ExitStep(t)
      PROVE  LifeInv' /\ (DueInv => DueInv')
  BY <1>1, <1>5, UnlinkTouches, LeaveTouches DEF ExitStep
<1>6. CASE UNCHANGED vars
  BY <1>2, <1>6 DEF vars, coreVars
<1> QED BY <1>3, <1>4, <1>5, <1>6, StepCases, IsrKeepsLife

(* The main thread is ready and every other slot clean at first. *)
LEMMA InitLife ==
  ASSUME ThreadInit
  PROVE  LifeInv /\ DueInv
<1>1. /\ \A t \in Thread : th_stat[t] = 0 /\ call[t] = NoCall
      /\ \A t \in Thread, w \in WQ : t \in wq_lst[w] <=> t = MAIN /\ w = WQ_READY
      /\ \A t \in Thread : th_pc[t] = IF t = MAIN THEN "main" ELSE "dead"
      /\ th_alloc = {MAIN} /\ irq_enabled = {} /\ tick.pc = "none" /\ MAIN \in Thread
  BY ThreadAssumption, ThreadLemma DEF ThreadInit, NoTick
<1>2. ASSUME NEW t \in Thread
      PROVE  Place(t) /\ (Task(t) => ~Nowhere(t))
  <2>1. CASE t = MAIN
    <3>1. OnlyIn(t, WQ_READY) /\ ~Nowhere(t)
      BY <1>1, <2>1, LayoutLemma DEF OnlyIn, Nowhere
    <3>2. \A th \in Thread : call[t] # JoinOf(th)
      BY <1>1 DEF NoCall, JoinOf, Call
    <3> QED BY <1>1, <2>1, <3>1, <3>2
            DEF Place, TaskPlace, ReadyTask, ExitPlace, GonePlace, FreePlace, Task
  <2>2. CASE t # MAIN
    BY <1>1, <2>2 DEF Place, TaskPlace, ExitPlace, GonePlace, FreePlace, Task
  <2> QED BY <2>1, <2>2
<1> QED BY <1>1, <1>2 DEF LifeInv, IrqInv, ClockInv, DueInv

(* The inductive invariant holds always. *)
LEMMA BaseAlways ==
  ASSUME LifeConfiguration
  PROVE  Spec => []Base
<1>1. ThreadInit => Base
  BY InitType, InitUrgency, InitLife DEF Base
<1>2. Base /\ [ThreadStep]_vars => Base'
  BY StepKeepsType, StepKeepsUrgency, StepKeepsLife DEF Base
<1> QED BY <1>1, <1>2, PTL DEF Spec

(***************************************************************************)
(* A slot that is free for a new thread is clean, for any number of        *)
(* threads and whatever the program creates, joins and cancels, at any     *)
(* moment: a thread that is cancelled while it sleeps, joins, has just     *)
(* been woken up, is already cancelled or already inside                   *)
(* thinkos_thread_exit leaves no trace (thinkos_thread_create_svc,         *)
(* thinkos_exit_svc, thinkos_cancel_svc, thinkos_thread_exit). Without     *)
(* time sharing and pause, and if no thread that waits for interrupts is   *)
(* cancelled.                                                              *)
(***************************************************************************)
THEOREM FreeSlotsAreClean ==
  ASSUME LifeConfiguration
  PROVE  Spec => []FreeSlotIsClean
<1>1. Base => FreeSlotIsClean
  BY DEF Base, LifeInv, Place, FreePlace, GonePlace, FreeSlotIsClean
<1> QED BY <1>1, BaseAlways, PTL

(***************************************************************************)
(* Under the same conditions, a join that returns to its caller returns    *)
(* the code of the very thread it joined, not of another one in the same   *)
(* slot, also when that thread was cancelled and however often the slot is *)
(* used again (thinkos_join_svc, thinkos_thread_exit, thinkos_exit_svc,    *)
(* thinkos_cancel_svc). It says nothing of a join made between the wake-up *)
(* of the joiners and the release of the slot, which the code answers with *)
(* the code of the next thread of the slot, or never.                      *)
(***************************************************************************)
THEOREM JoinsReturnCodes ==
  ASSUME LifeConfiguration
  PROVE  Spec => []JoinReturnsCode
<1>1. ASSUME Base
      PROVE  JoinReturnsCode
  <2>1. ASSUME NEW t \in Thread, NEW th \in Thread, Running(t), Task(t),
               call[t] = Call("join", JOIN_BASE + th, 0), owed[t] # LATE
        PROVE  owed[t] # NONE /\ r0[t] = owed[t]
    BY <1>1, <2>1, RunnerIsReady DEF ReadyTask, JoinOf, Paid
  <2> QED BY <2>1 DEF JoinReturnsCode
<1> QED BY <1>1, BaseAlways, PTL

(***************************************************************************)
(* No thread is lost, under the same conditions and if no two threads wait *)
(* for the same interrupt: until it has come through                       *)
(* thinkos_thread_exit, every thread is in a queue, in the hands of        *)
(* cm3_systick_isr, or named in irq_th[] by an interrupt that is enabled   *)
(* (thinkos_cancel_svc, thinkos_join_svc, thinkos_irq_wait_svc,            *)
(* cm3_default_isr, cm3_systick_isr).                                      *)
(***************************************************************************)
THEOREM NoThreadIsLost ==
  ASSUME LifeConfiguration, InterruptsApart
  PROVE  Spec => []NoThreadVanishes
<1> DEFINE I == Base /\ DueInv
<1>1. ThreadInit => I
  BY InitType, InitUrgency, InitLife DEF Base
<1>2. I /\ [ThreadStep]_vars => I'
  BY StepKeepsType, StepKeepsUrgency, StepKeepsLife DEF Base
<1>3. I => NoThreadVanishes
  <2>1. SUFFICES ASSUME I, NEW t \in th_alloc, Task(t) \/ th_pc[t] = "exit"
                 PROVE  \/ \E w \in WQ : t \in wq_lst[w]
                        \/ \E irq \in irq_enabled : irq_th[irq] = t
                        \/ Expiring(t)
    BY DEF NoThreadVanishes
  <2>2. t \in Thread /\ ExitPlace(t)
    BY <2>1 DEF Base, TypeOK, LifeInv, Place
  <2>3. CASE th_pc[t] = "exit"
    BY <2>2, <2>3, LayoutLemma, ThreadLayout DEF ExitPlace
  <2>4. CASE Task(t)
    BY <2>1, <2>2, <2>4 DEF DueInv, Nowhere, Waking, Expiring
  <2> QED BY <2>1, <2>3, <2>4
<1> QED BY <1>1, <1>2, <1>3, PTL DEF Spec

================================================================================
