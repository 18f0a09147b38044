--------------------------- MODULE ThinkOSFlagProofs ---------------------------
(***************************************************************************)
(* Proofs about flags: type correctness, strict priority and timeouts in   *)
(* every configuration; the consistency of queues and status bytes, and no *)
(* waiter beside a signal it could take, in those without time sharing     *)
(* whose queue indices fit the status byte.                                *)
(***************************************************************************)
EXTENDS ThinkOSFlag, ThinkOSCoreProofs

--------------------------------------------------------------------------------
(***************************************************************************)
(* What a step of the module can do, flag by flag.                         *)
(***************************************************************************)
Queue(f) == FLAG_BASE + f

FlagOps == FlagWaitOps \cup FlagTakeOps

(* No lock changes but that of f. *)
OtherLocksKept(f) == flag_lock' \cup {f} = flag_lock \cup {f}

(* The flag has no signal afterwards. *)
Lowers(f) ==
  /\ flag_sig' = flag_sig \ {f}
  /\ OtherLocksKept(f)
  /\ UNCHANGED coreVars

(* It may have one, and nobody waits. *)
Raises(f) ==
  /\ wq_lst[Queue(f)] = {}
  /\ flag_sig' \in {flag_sig, flag_sig \cup {f}}
  /\ OtherLocksKept(f)
  /\ UNCHANGED coreVars

(* The signal goes to the first waiter. *)
Hands(f) ==
  /\ wq_lst[Queue(f)] # {}
  /\ flag_sig' = flag_sig \ {f}
  /\ OtherLocksKept(f)
  /\ Wakeup(Queue(f), {wq_head(Queue(f))})

(* The signal stays and everybody is woken up. *)
Sets(f) ==
  /\ flag_sig' = flag_sig \cup {f}
  /\ Wakeup(Queue(f), wq_lst[Queue(f)])
  /\ UNCHANGED flag_lock

(* The wait or the take that may not go on now. *)
HeldBack(f, op) ==
  \/ op \in FlagWaitOps /\ (f \notin flag_sig \/ f \in flag_lock)
  \/ op \in FlagTakeOps /\ f \notin flag_sig

Blocks(t, f, op) ==
  /\ Running(t)
  /\ HeldBack(f, op)
  /\ FlagBlock(t, Queue(f), op)

BlocksTimed(t, f, op) ==
  /\ Running(t)
  /\ HeldBack(f, op)
  /\ \E ms \in TIMEOUTS : FlagTimedBlock(t, Queue(f), ms, op)

FlagEffect ==
  \/ UNCHANGED <<coreVars, flag_sig, flag_lock>>
  \/ \E f \in Flag :
       \/ Lowers(f) \/ Raises(f) \/ Hands(f) \/ Sets(f)
       \/ \E t \in Thread, op \in FlagOps : Blocks(t, f, op) \/ BlocksTimed(t, f, op)
  \/ \E t \in Thread : CallReturn(t) /\ UNCHANGED <<flag_sig, flag_lock>>

--------------------------------------------------------------------------------
(* Flags and the numbers callers pass are integers. *)
LEMMA FlagSets == Flag \subseteq Nat /\ FlagArg \subseteq Int
BY ObjectLayout, CoreAssumption DEF Flag, FlagArg

(* The queue of a flag is one of the objects'. *)
LEMMA QueueLemma ==
  ASSUME NEW f \in Flag
  PROVE  /\ Queue(f) \in ObjectWQ /\ Queue(f) \in WQ /\ Queue(f) \in Int
         /\ Queue(f) \notin {WQ_READY, WQ_CLOCK}
         /\ \A g \in Flag : Queue(g) = Queue(f) => g = f
BY ObjectLayout, LayoutLemma, CoreAssumption DEF Flag, Queue, ObjectWQ, WQ

(* An argument that passes the check names a flag's queue. *)
LEMMA FlagArgLemma ==
  ASSUME TypeOK, NEW wq \in FlagArg, IsFlag(wq)
  PROVE  wq - FLAG_BASE \in Flag /\ wq = Queue(wq - FLAG_BASE)
BY FlagSets, ObjectLayout DEF Queue, IsFlag, TypeOK

(* and a flag's queue names the flag. *)
LEMMA QueueNamesFlag ==
  ASSUME NEW f \in Flag
  PROVE  Queue(f) - FLAG_BASE = f
BY FlagSets, ObjectLayout DEF Queue

(* A give raises the signal or hands it to the first waiter. *)
LEMMA GiveEffect ==
  ASSUME TypeOK, NEW f \in Flag, FlagGive(Queue(f))
  PROVE  FlagEffect
<1>1. wq_head(Queue(f)) = THREAD_NULL <=> wq_lst[Queue(f)] = {}
  BY QueueLemma, HeadNull DEF TypeOK, CoreTypeOK
<1>2. CASE f \in flag_sig
  BY <1>2, QueueNamesFlag DEF FlagGive, Signalled, FlagEffect
<1>3. CASE f \notin flag_sig /\ wq_head(Queue(f)) = THREAD_NULL
  BY <1>1, <1>3, QueueNamesFlag
     DEF FlagGive, Signalled, FlagEffect, Raises, OtherLocksKept
<1>4. CASE f \notin flag_sig /\ wq_head(Queue(f)) # THREAD_NULL
  BY <1>1, <1>4, QueueNamesFlag
     DEF FlagGive, Signalled, FlagEffect, Hands, OtherLocksKept
<1> QED BY <1>2, <1>3, <1>4

(* The calls of thinkos_flag.c have these effects and no other, *)
LEMMA FlagStepEffect ==
  ASSUME TypeOK, NEW t \in Thread, FlagStep(t)
  PROVE  FlagEffect /\ flag_alloc' \subseteq Flag
<1> DEFINE Goal == FlagEffect /\ flag_alloc' \subseteq Flag
<1> USE DEF FlagRefuse, Refuse, flagVars, TypeOK
<1>1. CASE thinkos_flag_alloc_svc(t)
  <2>1. bmp_alloc(Flag, flag_alloc) \in Flag \cup {NONE}
    BY AllocLemma, FlagSets
  <2> QED BY <1>1, <2>1
          DEF thinkos_flag_alloc_svc, FlagEffect, Lowers, OtherLocksKept
<1>2. ASSUME NEW wq \in FlagArg, thinkos_flag_free_svc(t, wq)
      PROVE  Goal
  BY <1>2 DEF thinkos_flag_free_svc, FlagEffect
<1>3. ASSUME NEW wq \in FlagArg, IsFlag(wq), PassFlag(wq) \/ TakeSignal(wq)
      PROVE  Goal
  <2>1. Lowers(wq - FLAG_BASE) /\ UNCHANGED flag_alloc
    BY <1>3 DEF PassFlag, TakeSignal, Lowers, OtherLocksKept
  <2> QED BY <1>3, <2>1, FlagArgLemma DEF FlagEffect
<1>4. ASSUME NEW wq \in FlagArg, IsFlag(wq), NEW op \in FlagOps, Running(t),
             HeldBack(wq - FLAG_BASE, op),
             \/ FlagBlock(t, wq, op)
             \/ \E ms \in TIMEOUTS : FlagTimedBlock(t, wq, ms, op)
      PROVE  Goal
  <2>1. wq - FLAG_BASE \in Flag /\ wq = Queue(wq - FLAG_BASE)
    BY <1>4, FlagArgLemma
  <2>2. UNCHANGED flag_alloc
    BY <1>4 DEF FlagBlock, FlagTimedBlock
  <2>3. Blocks(t, wq - FLAG_BASE, op) \/ BlocksTimed(t, wq - FLAG_BASE, op)
    BY <1>4, <2>1 DEF Blocks, BlocksTimed
  <2> QED BY <2>1, <2>2, <2>3 DEF FlagEffect
<1> USE DEF Calls, MayPass, NoSignal, Signalled, Locked, HeldBack, FlagOps,
            FlagWaitOps, FlagTakeOps
<1>5. ASSUME NEW wq \in FlagArg,
             \/ thinkos_flag_wait_svc(t, wq)
             \/ \E ms \in TIMEOUTS : thinkos_flag_timedwait_svc(t, wq, ms)
      PROVE  Goal
  <2>1. CASE ~IsFlag(wq)
    BY <1>5, <2>1 DEF thinkos_flag_wait_svc, thinkos_flag_timedwait_svc, FlagEffect, PassFlag
  <2>2. CASE PassFlag(wq) /\ IsFlag(wq)
    BY <1>3, <2>2
  <2>3. CASE IsFlag(wq) /\ ~PassFlag(wq)
    <3>1. /\ Running(t) /\ ~MayPass(wq)
          /\ \/ FlagBlock(t, wq, "flag_wait")
             \/ \E ms \in TIMEOUTS : FlagTimedBlock(t, wq, ms, "flag_timedwait")
      BY <1>5, <2>3 DEF thinkos_flag_wait_svc, thinkos_flag_timedwait_svc
    <3> QED BY <1>4, <2>3, <3>1
  <2> QED BY <2>1, <2>2, <2>3
<1>6. ASSUME NEW wq \in FlagArg,
             \/ thinkos_flag_take_svc(t, wq)
             \/ \E ms \in TIMEOUTS : thinkos_flag_timedtake_svc(t, wq, ms)
      PROVE  Goal
  <2>1. CASE ~IsFlag(wq)
    BY <1>6, <2>1
       DEF thinkos_flag_take_svc, thinkos_flag_timedtake_svc, FlagEffect, TakeSignal
  <2>2. CASE TakeSignal(wq) /\ IsFlag(wq)
    BY <1>3, <2>2
  <2>3. CASE IsFlag(wq) /\ ~TakeSignal(wq)
    <3>1. /\ Running(t) /\ ~Signalled(wq)
          /\ \/ FlagBlock(t, wq, "flag_take")
             \/ \E ms \in TIMEOUTS : FlagTimedBlock(t, wq, ms, "flag_timedtake")
      BY <1>6, <2>3 DEF thinkos_flag_take_svc, thinkos_flag_timedtake_svc
    <3> QED BY <1>4, <2>3, <3>1
  <2> QED BY <2>1, <2>2, <2>3
<1>7. ASSUME NEW wq \in FlagArg, NEW sig \in BOOLEAN, thinkos_flag_release_svc(t, wq, sig)
      PROVE  Goal
  <2> DEFINE f  == wq - FLAG_BASE
             th == wq_head(wq)
  <2>1. CASE ~IsFlag(wq)
    BY <1>7, <2>1 DEF thinkos_flag_release_svc, FlagEffect
  <2>2. CASE IsFlag(wq)
    <3>1. f \in Flag /\ wq = Queue(f)
      BY <2>2, FlagArgLemma
    <3>2. th = THREAD_NULL <=> wq_lst[Queue(f)] = {}
      BY <3>1, QueueLemma, HeadNull DEF CoreTypeOK
    <3>3. CASE (sig \/ f \in flag_sig) /\ th # THREAD_NULL
      <4>1. Hands(f) /\ UNCHANGED flag_alloc
        BY <1>7, <2>2, <3>1, <3>2, <3>3
           DEF thinkos_flag_release_svc, Hands, OtherLocksKept
      <4> QED BY <3>1, <4>1 DEF FlagEffect
    <3>4. CASE ~((sig \/ f \in flag_sig) /\ th # THREAD_NULL)
      <4>1. /\ flag_sig' = IF sig THEN flag_sig \cup {f} ELSE flag_sig
            /\ flag_lock' = flag_lock \ {f}
            /\ UNCHANGED <<coreVars, flag_alloc>>
        BY <1>7, <2>2, <3>4 DEF thinkos_flag_release_svc
      <4>2. CASE th = THREAD_NULL
        BY <3>1, <3>2, <4>1, <4>2 DEF FlagEffect, Raises, OtherLocksKept
      <4>3. CASE ~sig /\ f \notin flag_sig
        BY <3>1, <4>1, <4>3 DEF FlagEffect, Lowers, OtherLocksKept
      <4> QED BY <3>4, <4>2, <4>3
    <3> QED BY <3>3, <3>4
  <2> QED BY <2>1, <2>2
<1>8. ASSUME NEW wq \in FlagArg,
             \/ thinkos_flag_give_svc(t, wq)
             \/ thinkos_flag_set_svc(t, wq)
             \/ thinkos_flag_clr_svc(t, wq)
      PROVE  Goal
  <2>1. CASE ~IsFlag(wq)
    BY <1>8, <2>1
       DEF thinkos_flag_give_svc, thinkos_flag_set_svc, thinkos_flag_clr_svc, FlagEffect
  <2>2. CASE IsFlag(wq)
    <3>1. PICK f \in Flag : wq = Queue(f) /\ wq - FLAG_BASE = f
      BY <2>2, FlagArgLemma
    <3>2. FlagGive(wq) \/ FlagSet(wq) \/ FlagClr(wq)
      BY <1>8, <2>2 DEF thinkos_flag_give_svc, thinkos_flag_set_svc, thinkos_flag_clr_svc
    <3>3. CASE FlagGive(wq)
      BY <3>1, <3>3, GiveEffect DEF FlagGive
    <3>4. CASE FlagSet(wq)
      BY <3>1, <3>4 DEF FlagSet, FlagEffect, Sets
    <3>5. CASE FlagClr(wq)
      BY <3>1, <3>5 DEF FlagClr, FlagEffect, Lowers, OtherLocksKept
    <3> QED BY <3>2, <3>3, <3>4, <3>5
  <2> QED BY <2>1, <2>2
<1>9. CASE FlagReturn(t)
  BY <1>9 DEF FlagReturn, FlagEffect
<1> QED BY <1>1, <1>2, <1>5, <1>6, <1>7, <1>8, <1>9 DEF FlagStep

(* and so have those of an interrupt handler. *)
LEMMA FlagIrqEffect ==
  ASSUME TypeOK, FlagIrq
  PROVE  FlagEffect /\ flag_alloc' \subseteq Flag
<1>1. PICK f \in IRQ_FLAGS : FlagGive(Queue(f)) \/ FlagSet(Queue(f)) \/ FlagClr(Queue(f))
  BY DEF FlagIrq, Queue
<1>2. f \in Flag /\ Queue(f) - FLAG_BASE = f
  BY FlagAssumption, QueueNamesFlag
<1>3. flag_alloc' \subseteq Flag
  BY <1>1 DEF FlagGive, FlagSet, FlagClr, TypeOK
<1>4. CASE FlagGive(Queue(f))
  BY <1>2, <1>3, <1>4, GiveEffect
<1>5. CASE FlagSet(Queue(f))
  BY <1>2, <1>3, <1>5 DEF FlagSet, FlagEffect, Sets
<1>6. CASE FlagClr(Queue(f))
  BY <1>2, <1>3, <1>6 DEF FlagClr, FlagEffect, Lowers, OtherLocksKept
<1> QED BY <1>1, <1>4, <1>5, <1>6

(* Every step is one of the core or has an effect on a flag. *)
LEMMA NextEffect ==
  ASSUME TypeOK, [Next]_vars
  PROVE  /\ (CoreStep /\ UNCHANGED <<flag_sig, flag_lock>>) \/ FlagEffect
         /\ flag_alloc' \subseteq Flag
BY FlagStepEffect, FlagIrqEffect DEF Next, vars, flagVars, FlagEffect, TypeOK

--------------------------------------------------------------------------------
(* The bitmaps of the flags stay in range, *)
LEMMA EffectKeepsFlagType ==
  ASSUME TypeOK, FlagEffect
  PROVE  flag_sig' \subseteq Flag /\ flag_lock' \subseteq Flag
BY DEF FlagEffect, TypeOK, Lowers, Raises, Hands, Sets, OtherLocksKept, Blocks,
       BlocksTimed, FlagBlock, FlagTimedBlock, flagVars

(* and so does the run-time block. *)
LEMMA EffectKeepsCoreType ==
  ASSUME TypeOK, FlagEffect
  PROVE  CoreTypeOK'
<1>1. CASE UNCHANGED coreVars
  BY <1>1 DEF coreVars, TypeOK, CoreTypeOK, QueuesOK
<1>2. ASSUME NEW f \in Flag, NEW ths, ths \subseteq wq_lst[Queue(f)],
             Wakeup(Queue(f), ths)
      PROVE  CoreTypeOK'
  <2>1. ths \subseteq Thread
    BY <1>2, QueueLemma DEF TypeOK, CoreTypeOK, QueuesOK
  <2> QED BY <1>2, <2>1, WakeupKeepsType, QueueLemma DEF TypeOK
<1>3. ASSUME NEW f \in Flag, Hands(f)
      PROVE  CoreTypeOK'
  <2>1. {wq_head(Queue(f))} \subseteq wq_lst[Queue(f)]
    BY <1>3, HeadMember, QueueLemma DEF Hands, TypeOK, CoreTypeOK
  <2> QED BY <1>2, <1>3, <2>1 DEF Hands
<1>4. ASSUME NEW f \in Flag, Sets(f)
      PROVE  CoreTypeOK'
  BY <1>2, <1>4 DEF Sets
<1>5. ASSUME NEW f \in Flag, NEW t \in Thread, NEW op \in FlagOps, Blocks(t, f, op)
      PROVE  CoreTypeOK'
  <2>1. QueuesOK(wait(wq_insert(wq_lst, Queue(f), t), t))
    BY QueueLemma, InsertType, WaitType DEF TypeOK, CoreTypeOK
  <2>2. Stat(Queue(f), 0) \in 0 .. 255
    BY QueueLemma, StatType
  <2>3. Call(op, Queue(f), 0) \in CallRecord
    BY QueueLemma, CallType DEF BlockingCalls, FlagOps, FlagWaitOps, FlagTakeOps
  <2>4. clock' \in [Thread -> 0 .. CLOCK_MOD - 1]
    BY <1>5 DEF Blocks, FlagBlock, TypeOK, CoreTypeOK
  <2> QED BY <1>5, <2>1, <2>2, <2>3, <2>4, BlockKeepsType, QueueLemma
          DEF Blocks, FlagBlock, TypeOK
<1>6. ASSUME NEW f \in Flag, NEW t \in Thread, NEW op \in FlagOps, BlocksTimed(t, f, op)
      PROVE  CoreTypeOK'
  <2>1. QueuesOK(wait(tmdwq_insert(wq_lst, Queue(f), t), t))
    BY QueueLemma, InsertType, WaitType DEF TypeOK, CoreTypeOK
  <2>2. Stat(Queue(f), 1) \in 0 .. 255
    BY QueueLemma, StatType
  <2>3. Call(op, Queue(f), 0) \in CallRecord
    BY QueueLemma, CallType DEF BlockingCalls, FlagOps, FlagWaitOps, FlagTakeOps
  <2>4. clock' \in [Thread -> 0 .. CLOCK_MOD - 1]
    BY <1>6, SetClockType, CoreAssumption DEF BlocksTimed, FlagTimedBlock, TypeOK
  <2> QED BY <1>6, <2>1, <2>2, <2>3, <2>4, BlockKeepsType
          DEF BlocksTimed, FlagTimedBlock, TypeOK, ETIMEDOUT
<1>7. ASSUME NEW t \in Thread, CallReturn(t)
      PROVE  CoreTypeOK'
  BY <1>7, CallReturnKeepsType DEF TypeOK
<1> QED BY <1>1, <1>3, <1>4, <1>5, <1>6, <1>7 DEF FlagEffect, Lowers, Raises

(* Every step keeps the types. *)
LEMMA NextKeepsType ==
  ASSUME TypeOK, [Next]_vars
  PROVE  TypeOK'
<1>1. CASE CoreStep /\ UNCHANGED <<flag_sig, flag_lock>>
  <2>1. CoreTypeOK'
    BY <1>1, CoreStepKeepsType DEF TypeOK
  <2> QED BY <1>1, <2>1, NextEffect DEF TypeOK
<1>2. CASE FlagEffect
  BY <1>2, EffectKeepsCoreType, EffectKeepsFlagType, NextEffect DEF TypeOK
<1> QED BY <1>1, <1>2, NextEffect

(* The initial state is well typed. *)
LEMMA InitType == ASSUME Init PROVE TypeOK
BY CoreInitType DEF Init, TypeOK

(***************************************************************************)
(* The run-time block and the flags keep their types in every              *)
(* configuration: only threads are woken up, only flags that exist are     *)
(* signalled, locked and allocated (thinkos_flag.c, __thinkos_flag_give,   *)
(* __thinkos_flag_signal, __thinkos_flag_clr).                             *)
(***************************************************************************)
THEOREM FlagTypeCorrect == Spec => []TypeOK
<1>1. Init => TypeOK
  BY InitType
<1>2. TypeOK /\ [Next]_vars => TypeOK'
  BY NextKeepsType
<1> QED BY <1>1, <1>2, PTL DEF Spec

--------------------------------------------------------------------------------
(* Every effect of a flag call keeps the core invariant. *)
LEMMA EffectKeepsInv ==
  ASSUME Configuration, TypeOK, CoreInv, FlagEffect
  PROVE  CoreInv'
<1>1. CASE UNCHANGED coreVars
  BY <1>1, QuietKeepsInv DEF coreVars
<1>2. ASSUME NEW f \in Flag, Hands(f)
      PROVE  CoreInv'
  <2>1. {wq_head(Queue(f))} \subseteq wq_lst[Queue(f)]
    BY <1>2, HeadMember, QueueLemma DEF Hands, TypeOK, CoreTypeOK
  <2> QED BY <1>2, <2>1, WakeupKeepsInv, QueueLemma DEF Hands, TypeOK
<1>3. ASSUME NEW f \in Flag, Sets(f)
      PROVE  CoreInv'
  BY <1>3, WakeupKeepsInv, QueueLemma DEF Sets, TypeOK
<1>4. ASSUME NEW f \in Flag, NEW t \in Thread, NEW op \in FlagOps,
             Blocks(t, f, op) \/ BlocksTimed(t, f, op)
      PROVE  CoreInv'
  BY <1>4, WaitKeepsInv, QueueLemma
     DEF Blocks, BlocksTimed, FlagBlock, FlagTimedBlock, Blocked, handlerVars, TypeOK
<1>5. ASSUME NEW t \in Thread, CallReturn(t)
      PROVE  CoreInv'
  BY <1>5, QuietKeepsInv DEF CallReturn, handlerVars
<1> QED BY <1>1, <1>2, <1>3, <1>4, <1>5 DEF FlagEffect, Lowers, Raises

(* The inductive invariant of the flags without the property itself. *)
FlagCoreInv == TypeOK /\ CoreInv

(* It holds at first and every step keeps it. *)
LEMMA FlagCoreInvInductive ==
  ASSUME Configuration
  PROVE  /\ Init => FlagCoreInv
         /\ FlagCoreInv /\ [Next]_vars => FlagCoreInv'
<1>1. Init => FlagCoreInv
  BY InitType, CoreInitInv DEF Init, FlagCoreInv
<1>2. FlagCoreInv /\ [Next]_vars => FlagCoreInv'
  BY NextKeepsType, NextEffect, CoreStepKeepsInv, EffectKeepsInv DEF TypeOK, FlagCoreInv
<1> QED BY <1>1, <1>2

(***************************************************************************)
(* Without time sharing, and with queue indices that fit the status byte,  *)
(* a thread is in exactly the queue its status byte names and thread code  *)
(* only executes in the most urgent ready thread, also when a flag wakes   *)
(* up all its waiters at once or an interrupt handler does                 *)
(* (thinkos_flag.c, __thinkos_flag_give, cm3_systick_isr).                 *)
(***************************************************************************)
THEOREM FlagScheduling ==
  ASSUME Configuration
  PROVE  Spec => [](StatusNamesQueue /\ HighestReadyRuns)
<1>1. FlagCoreInv => StatusNamesQueue /\ HighestReadyRuns
  BY CoreInvImplies DEF TypeOK, FlagCoreInv
<1> QED BY <1>1, FlagCoreInvInductive, PTL DEF Spec

--------------------------------------------------------------------------------
(* A waiter's call ends only after it has left the queue. *)
LEMMA WaiterKeepsCall ==
  ASSUME Configuration, TypeOK, CoreInv, NEW t \in Thread,
         NEW f \in Flag, t \in wq_lst[Queue(f)], CoreStep \/ FlagEffect
  PROVE  call'[t] = call[t]
<1>1. ~Running(t)
  BY RunningLemma, QueueLemma DEF TypeOK
<1>2. ASSUME NEW u \in Thread, Running(u), NEW c, call' = [call EXCEPT ![u] = c]
      PROVE  call'[t] = call[t]
  BY <1>1, <1>2 DEF TypeOK, CoreTypeOK
<1>3. CASE CoreStep
  BY <1>2, <1>3
     DEF CoreStep, PendSV, SysTick, SysTickEntry, SysTickScan, SysTickUnlink,
         SysTickWakeup, SysTickExit, thinkos_sleep_svc, thinkos_alarm_svc, ClockWait,
         Calls, Blocked, thinkos_yield, CoreReturn, CallReturn
<1>4. CASE FlagEffect
  BY <1>2, <1>4
     DEF FlagEffect, Lowers, Raises, Hands, Sets, coreVars, Wakeup, Blocks, BlocksTimed,
         FlagBlock, FlagTimedBlock, Blocked, CallReturn
<1> QED BY <1>3, <1>4

(* The property, for one flag. *)
Waits(g) ==
  g \in flag_sig =>
    \A t \in wq_lst[Queue(g)] : call[t].op \in FlagWaitOps /\ g \in flag_lock

(* Shorter queues and fewer signals do no harm, if the locks stay. *)
LEMMA ShrinkKeepsSignal ==
  ASSUME Configuration, TypeOK, CoreInv, NoSignalPastWaiter, CoreStep \/ FlagEffect,
         NEW g \in Flag, g \in flag_lock => g \in flag_lock',
         g \in flag_sig' => g \in flag_sig,
         wq_lst'[Queue(g)] \subseteq wq_lst[Queue(g)]
  PROVE  Waits(g)'
<1>1. SUFFICES ASSUME NEW t \in wq_lst'[Queue(g)], g \in flag_sig'
               PROVE  call'[t].op \in FlagWaitOps /\ g \in flag_lock'
  BY DEF Waits
<1>2. t \in wq_lst[Queue(g)] /\ t \in Thread
  BY <1>1, QueueLemma DEF TypeOK, CoreTypeOK, QueuesOK
<1>3. call[t].op \in FlagWaitOps /\ g \in flag_lock
  BY <1>1, <1>2 DEF NoSignalPastWaiter, Queue
<1>4. call'[t] = call[t]
  BY <1>2, WaiterKeepsCall
<1> QED BY <1>1, <1>3, <1>4

(* Every effect of a flag call keeps the property. *)
LEMMA EffectKeepsSignal ==
  ASSUME Configuration, TypeOK, CoreInv, NoSignalPastWaiter, FlagEffect,
         NEW g \in Flag
  PROVE  Waits(g)'
<1>1. CASE UNCHANGED <<coreVars, flag_sig, flag_lock>>
  BY <1>1, ShrinkKeepsSignal DEF coreVars
<1>2. ASSUME NEW f \in Flag, Lowers(f)
      PROVE  Waits(g)'
  <2>1. CASE g = f
    BY <1>2, <2>1 DEF Lowers, Waits
  <2>2. CASE g # f
    BY <1>2, <2>2, ShrinkKeepsSignal DEF Lowers, OtherLocksKept, coreVars
  <2> QED BY <2>1, <2>2
<1>3. ASSUME NEW f \in Flag, Raises(f)
      PROVE  Waits(g)'
  <2>1. CASE g = f
    BY <1>3, <2>1 DEF Raises, coreVars, Waits
  <2>2. CASE g # f
    BY <1>3, <2>2, ShrinkKeepsSignal DEF Raises, OtherLocksKept, coreVars
  <2> QED BY <2>1, <2>2
<1>4. ASSUME NEW f \in Flag, Hands(f)
      PROVE  Waits(g)'
  <2>1. CASE g = f
    BY <1>4, <2>1 DEF Hands, Waits
  <2>2. CASE g # f
    <3>1. wq_lst' = wakeup(wq_lst, Queue(f), {wq_head(Queue(f))})
      BY <1>4 DEF Hands, Wakeup
    <3>2. wq_lst'[Queue(g)] = wq_lst[Queue(g)]
      BY <2>2, <3>1, QueueLemma, WakeupQueues
    <3> QED BY <1>4, <2>2, <3>2, ShrinkKeepsSignal DEF Hands, OtherLocksKept
  <2> QED BY <2>1, <2>2
<1>5. ASSUME NEW f \in Flag, Sets(f)
      PROVE  Waits(g)'
  <2>1. wq_lst' = wakeup(wq_lst, Queue(f), wq_lst[Queue(f)])
    BY <1>5 DEF Sets, Wakeup
  <2>2. CASE g = f
    <3>1. wq_lst'[Queue(g)] = {}
      BY <2>1, <2>2, QueueLemma, WakeupQueues
    <3> QED BY <3>1 DEF Waits
  <2>3. CASE g # f
    <3>1. wq_lst'[Queue(g)] = wq_lst[Queue(g)]
      BY <2>1, <2>3, QueueLemma, WakeupQueues
    <3> QED BY <1>5, <2>3, <3>1, ShrinkKeepsSignal DEF Sets
  <2> QED BY <2>2, <2>3
<1>6. ASSUME NEW f \in Flag, NEW t \in Thread, NEW op \in FlagOps,
             Blocks(t, f, op) \/ BlocksTimed(t, f, op)
      PROVE  Waits(g)'
  <2>1. \A v \in ObjectWQ :
          wq_lst'[v] = IF v = Queue(f) THEN wq_lst[v] \cup {t} ELSE wq_lst[v]
    BY <1>6, QueueLemma, BlockQueues
       DEF Blocks, BlocksTimed, FlagBlock, FlagTimedBlock, TypeOK, CoreTypeOK
  <2>2. UNCHANGED <<flag_sig, flag_lock>> /\ HeldBack(f, op)
    BY <1>6 DEF Blocks, BlocksTimed, FlagBlock, FlagTimedBlock, flagVars
  <2>3. CASE g = f
    <3>1. SUFFICES ASSUME f \in flag_sig, NEW u \in wq_lst'[Queue(f)]
                   PROVE  call'[u].op \in FlagWaitOps /\ f \in flag_lock
      BY <2>2, <2>3 DEF Waits
    <3>2. CASE u = t
      <4>1. call'[t].op = op
        BY <1>6 DEF Blocks, BlocksTimed, FlagBlock, FlagTimedBlock, Blocked, Call, TypeOK,
                    CoreTypeOK
      <4> QED BY <2>2, <3>1, <3>2, <4>1 DEF HeldBack
    <3>3. CASE u # t
      <4>1. u \in wq_lst[Queue(f)] /\ u \in Thread
        BY <2>1, <3>1, <3>3, QueueLemma DEF TypeOK, CoreTypeOK, QueuesOK
      <4>2. call'[u] = call[u]
        BY <4>1, WaiterKeepsCall
      <4> QED BY <3>1, <4>1, <4>2 DEF NoSignalPastWaiter, Queue
    <3> QED BY <3>2, <3>3
  <2>4. CASE g # f
    BY <2>1, <2>2, <2>4, QueueLemma, ShrinkKeepsSignal
  <2> QED BY <2>3, <2>4
<1>7. ASSUME NEW t \in Thread, CallReturn(t), UNCHANGED <<flag_sig, flag_lock>>
      PROVE  Waits(g)'
  BY <1>7, ShrinkKeepsSignal DEF CallReturn
<1> QED BY <1>1, <1>2, <1>3, <1>4, <1>5, <1>6, <1>7 DEF FlagEffect

(***************************************************************************)
(* A thread waits beside a signal only if it waits for the lock as well    *)
(* and the flag is locked; a taker never does. For any number of threads   *)
(* and flags, whatever the mix of the two protocols, timeouts and          *)
(* interrupt-level calls, in the configurations without time sharing whose *)
(* queue indices fit the status byte. The core invariant is needed for the *)
(* waiter's call to be the one it blocked in: nobody in a flag's queue     *)
(* executes code (thinkos_flag.c, __thinkos_flag_give).                    *)
(***************************************************************************)
THEOREM NoSignalLeftBehind ==
  ASSUME Configuration
  PROVE  Spec => []NoSignalPastWaiter
<1> DEFINE I == FlagCoreInv /\ NoSignalPastWaiter
<1>1. Init => I
  <2>1. Init => NoSignalPastWaiter
    BY DEF Init, NoSignalPastWaiter
  <2> QED BY <2>1, FlagCoreInvInductive
<1>2. I /\ [Next]_vars => I'
  <2>1. SUFFICES ASSUME I, [Next]_vars PROVE I'
    OBVIOUS
  <2>2. FlagCoreInv'
    BY <2>1, FlagCoreInvInductive
  <2>3. ASSUME NEW g \in Flag PROVE Waits(g)'
    <3>1. CASE CoreStep /\ UNCHANGED <<flag_sig, flag_lock>>
      <4>1. wq_lst'[Queue(g)] \subseteq wq_lst[Queue(g)]
        BY <2>1, <3>1, CoreStepQueues, QueueLemma DEF FlagCoreInv, TypeOK
      <4> QED BY <2>1, <3>1, <4>1, ShrinkKeepsSignal DEF FlagCoreInv
    <3>2. CASE FlagEffect
      BY <2>1, <3>2, EffectKeepsSignal DEF FlagCoreInv
    <3> QED BY <2>1, <3>1, <3>2, NextEffect DEF FlagCoreInv
  <2>4. (flag_sig \subseteq Flag)'
    BY <2>2 DEF FlagCoreInv, TypeOK
  <2>5. NoSignalPastWaiter'
    BY <2>3, <2>4 DEF NoSignalPastWaiter, Waits, Queue
  <2> QED BY <2>2, <2>5
<1> QED BY <1>1, <1>2, PTL DEF Spec

--------------------------------------------------------------------------------
(* Every effect keeps the scheduler due when it has to be. *)
LEMMA EffectKeepsPriority ==
  ASSUME TypeOK, PriorityInv, FlagEffect
  PROVE  PriorityInv'
<1>1. CASE UNCHANGED coreVars
  BY <1>1, QuietKeepsPriority DEF coreVars
<1>2. ASSUME NEW f, NEW ths, Wakeup(Queue(f), ths)
      PROVE  PriorityInv'
  BY <1>2, WakeupKeepsPriority DEF Wakeup, handlerVars, TypeOK
<1>3. ASSUME NEW f \in Flag, NEW t \in Thread, NEW op,
             Blocks(t, f, op) \/ BlocksTimed(t, f, op)
      PROVE  PriorityInv'
  BY <1>3, QuietKeepsPriority
     DEF Blocks, BlocksTimed, FlagBlock, FlagTimedBlock, Blocked, handlerVars
<1>4. ASSUME NEW t \in Thread, CallReturn(t)
      PROVE  PriorityInv'
  BY <1>4, QuietKeepsPriority DEF CallReturn, handlerVars
<1> QED BY <1>1, <1>2, <1>3, <1>4 DEF FlagEffect, Lowers, Raises, Hands, Sets

(***************************************************************************)
(* Thread code only executes in the first thread of the ready queue, with  *)
(* time sharing or without it: every give, set and release that wakes      *)
(* threads up requests the scheduler, from a thread and from an interrupt  *)
(* handler (thinkos_flag.c, __thinkos_flag_give).                          *)
(***************************************************************************)
THEOREM FlagPriority == Spec => []HighestReadyRuns
<1> DEFINE I == TypeOK /\ PriorityInv
<1>1. Init => I
  BY InitType, PriorityInvLemma DEF Init
<1>2. I /\ [Next]_vars => I'
  BY NextKeepsType, NextEffect, CoreStepKeepsPriority, EffectKeepsPriority DEF TypeOK
<1>3. I => HighestReadyRuns
  BY PriorityInvLemma
<1> QED BY <1>1, <1>2, <1>3, PTL DEF Spec

--------------------------------------------------------------------------------
(* No effect puts a thread past the clock interrupt. *)
LEMMA EffectKeepsTimeout ==
  ASSUME TypeOK, TimeoutInv, FlagEffect
  PROVE  TimeoutInv' /\ UNCHANGED tick
<1>1. CASE UNCHANGED <<tick, ticks, clock, wq_lst>>
  BY <1>1, QuietKeepsTimeout
<1>2. ASSUME NEW f, NEW ths, Wakeup(Queue(f), ths)
      PROVE  TimeoutInv' /\ UNCHANGED tick
  <2>1. wq_lst'[WQ_CLOCK] \subseteq wq_lst[WQ_CLOCK]
    BY <1>2, LayoutLemma DEF Wakeup, wakeup
  <2> QED BY <1>2, <2>1, QuietKeepsTimeout DEF Wakeup, handlerVars
<1>3. ASSUME NEW f \in Flag, NEW t \in Thread, NEW op,
             Blocks(t, f, op) \/ BlocksTimed(t, f, op)
      PROVE  TimeoutInv' /\ UNCHANGED tick
  BY <1>3, ThreadKeepsTimeout
     DEF Blocks, BlocksTimed, FlagBlock, FlagTimedBlock, Running, handlerVars
<1> QED BY <1>1, <1>2, <1>3
        DEF FlagEffect, Lowers, Raises, Hands, Sets, CallReturn, coreVars, handlerVars

(***************************************************************************)
(* A clock interrupt leaves no expired flag wait behind, in any            *)
(* configuration and although interrupt handlers wake up threads of its    *)
(* private copy while its loop runs (cm3_systick_isr, __thinkos_flag_give, *)
(* thinkos_flag_timedwait_svc, thinkos_flag_timedtake_svc).                *)
(***************************************************************************)
THEOREM FlagTimeouts == Spec => NoMissedTimeout
<1> DEFINE I == TypeOK /\ TimeoutInv
           A == tick.pc # "none" /\ tick'.pc = "none" =>
                  \A t \in wq_lst'[WQ_CLOCK] : TicksLeft(t)' > 0
<1>1. Init => I
  BY InitType DEF Init, CoreInit, NoTick, TimeoutInv
<1>2. I /\ [Next]_vars => I' /\ [A]_coreVars
  <2>1. SUFFICES ASSUME I, [Next]_vars PROVE I' /\ [A]_coreVars
    OBVIOUS
  <2>2. TypeOK'
    BY <2>1, NextKeepsType
  <2>3. CASE SysTick
    BY <2>1, <2>2, <2>3, SysTickKeepsTimeout, SysTickExitTimeout DEF TypeOK
  <2>4. CASE tick.pc = "none" /\ UNCHANGED tick
    BY <2>2, <2>4, ThreadKeepsTimeout
  <2>5. CASE FlagEffect
    BY <2>1, <2>2, <2>5, EffectKeepsTimeout
  <2> QED BY <2>1, <2>3, <2>4, <2>5, NextEffect, CoreStepTick
<1> QED BY <1>1, <1>2, PTL DEF Spec, NoMissedTimeout

================================================================================
