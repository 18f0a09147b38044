------------------------------ MODULE ThinkOSCore ------------------------------
(***************************************************************************)
(* The run-time block and the exception handlers every ThinkOS service     *)
(* call works on: the wait-queue list, the thread status bytes, the        *)
(* scheduler (PendSV), the clock interrupt (SysTick) with its time-share   *)
(* accounting, and the thread-level calls that only touch this state       *)
(* (sleep, alarm, yield).                                                  *)
(*                                                                         *)
(* Grain of atomicity, from the exception priorities of thinkos_irq.h and  *)
(* thinkos_core.c: a service call (SVC) is never preempted by a thread, by *)
(* the scheduler, by SysTick or by a regular interrupt, so each handler is *)
(* one action; PendSV has the lowest priority, so it runs after every      *)
(* pending interrupt and before the next thread instruction; SysTick runs  *)
(* below the interrupt handlers that post to objects, so its loop is       *)
(* several actions that those handlers interleave with.                    *)
(***************************************************************************)
EXTENDS Integers, FiniteSets, FiniteSetsExt

CONSTANTS
  THREADS_MAX,       (* THINKOS_THREADS_MAX                                  *)
  WORD_BITS,         (* bits of a wait-queue bitmap: 32 in the code          *)
  MUTEX_MAX, COND_MAX, SEMAPHORE_MAX, EVENT_MAX, FLAG_MAX,
  ENABLE_TIMESHARE, ENABLE_JOIN, ENABLE_PAUSE,
  CLOCK_MOD,         (* modulus of the tick counter: 2^32 in the code        *)
  TIMEOUTS,          (* the ms arguments of the timed calls                  *)
  SLEEPS, ALARMS,    (* the arguments of thinkos_sleep() and thinkos_alarm() *)
  SCHED_PRI,         (* time-share priority each thread is created with      *)
  SCHED_LIMIT        (* sched_limit once all threads are created             *)

ASSUME CoreAssumption ==
  /\ THREADS_MAX \in Nat \ {0} /\ WORD_BITS \in Nat /\ THREADS_MAX <= WORD_BITS
  /\ MUTEX_MAX \in Nat /\ COND_MAX \in Nat /\ SEMAPHORE_MAX \in Nat
  /\ EVENT_MAX \in Nat /\ FLAG_MAX \in Nat
  /\ ENABLE_TIMESHARE \in BOOLEAN /\ ENABLE_JOIN \in BOOLEAN
  /\ ENABLE_PAUSE \in BOOLEAN
  /\ CLOCK_MOD \in Nat \ {0, 1}
  /\ TIMEOUTS \subseteq Nat /\ SLEEPS \subseteq Nat
  /\ ALARMS \subseteq 0 .. CLOCK_MOD - 1
  /\ SCHED_LIMIT \in Nat \ {0}
  /\ SCHED_PRI \in [0 .. THREADS_MAX - 1 -> 0 .. SCHED_LIMIT]

Thread == 0 .. THREADS_MAX - 1

(* The idle thread is not a Thread: it has no wait state and no status byte. *)
IDLE == THREADS_MAX

(* What the scheduler and the wait queues return when no bit is set. *)
THREAD_NULL == WORD_BITS

NONE == -1

(***************************************************************************)
(* Return values of the service calls.                                     *)
(***************************************************************************)
OK        == 0
ETIMEDOUT == -1
EINVAL    == -3
EAGAIN    == -4
EDEADLK   == -5
EPERM     == -6

(***************************************************************************)
(* Layout of the wait-queue list wq_lst[]: the optional queues only take a *)
(* slot in the configurations that enable them.                            *)
(***************************************************************************)
Slot(enabled) == IF enabled THEN 1 ELSE 0

WQ_READY    == 0
WQ_TMSHARE  == 1
WQ_CANCELED == 1 + Slot(ENABLE_TIMESHARE)
WQ_PAUSED   == WQ_CANCELED + Slot(ENABLE_JOIN)
WQ_CLOCK    == WQ_PAUSED + Slot(ENABLE_PAUSE)
MUTEX_BASE  == WQ_CLOCK + 1
COND_BASE   == MUTEX_BASE + MUTEX_MAX
SEM_BASE    == COND_BASE + COND_MAX
EVENT_BASE  == SEM_BASE + SEMAPHORE_MAX
FLAG_BASE   == EVENT_BASE + EVENT_MAX
JOIN_BASE   == FLAG_BASE + FLAG_MAX
WQ_LST_END  == JOIN_BASE + (IF ENABLE_JOIN THEN THREADS_MAX ELSE 0)

WQ == 0 .. WQ_LST_END - 1

(* The queues of the objects: a thread in one of them is blocked on it. *)
ObjectWQ == MUTEX_BASE .. WQ_LST_END - 1

(* THREADS_MAX < 32: the idle thread's bit stays in the ready queue. *)
IdleBit == IF THREADS_MAX < WORD_BITS THEN {IDLE} ELSE {}

--------------------------------------------------------------------------------
VARIABLES
  wq_lst,       (* [WQ -> set of threads]: the wait-queue bitmaps            *)
  active,       (* thread whose context the CPU holds                       *)
  pendsv,       (* the scheduler interrupt is pending                       *)
  th_stat,      (* [Thread -> 0..255]: queue index << 1 + clock enable bit  *)
  ticks,        (* milliseconds since boot, modulo CLOCK_MOD                *)
  clock,        (* [Thread -> tick at which the timed wait ends]            *)
  sched_val,    (* [Thread -> remaining time-share credit]                  *)
  tick,         (* local state of the SysTick handler                       *)
  r0,           (* [Thread -> return value in the thread's exception frame] *)
  call          (* [Thread -> the service call the thread has not seen      *)
                (*            return yet]                                   *)

coreVars == <<wq_lst, active, pendsv, th_stat, ticks, clock, sched_val,
              tick, r0, call>>

(* What no service call changes. *)
handlerVars == <<active, ticks, sched_val, tick>>

(* The calls that may block, and the second half of the condition waits. *)
BlockingCalls ==
  {"none", "sleep", "alarm", "mutex_lock", "mutex_timedlock",
   "cond_wait", "cond_timedwait", "cond_relock", "cond_relock_timedout",
   "sem_wait", "sem_timedwait", "ev_wait", "ev_timedwait",
   "flag_wait", "flag_timedwait", "flag_take", "flag_timedtake",
   "join", "irq_wait"}

NoCall == [op |-> "none", wq |-> 0, mwq |-> 0]

Call(op, wq, mwq) == [op |-> op, wq |-> wq, mwq |-> mwq]

NoTick == [pc |-> "none", wq |-> {}, j |-> 0, stat |-> 0, sched |-> FALSE]

(* Thread t executes its own code: no exception handler is active or due. *)
Running(t) ==
  /\ t \in Thread
  /\ active = t
  /\ ~pendsv
  /\ tick.pc = "none"

--------------------------------------------------------------------------------
(***************************************************************************)
(* Queue operations. Each returns the new wait-queue list.                 *)
(***************************************************************************)

(* Lowest-numbered thread of a bitmap: __clz(__rbit(bitmap)). *)
LowestBit(bitmap) == IF bitmap = {} THEN THREAD_NULL ELSE Min(bitmap)

(* __thinkos_wq_head() *)
wq_head(wq) == LowestBit(wq_lst[wq])

(* Faulty variant: the clock enable bit is forgotten. *)
Stat_no_clock_bit(wq, clk) == (2 * wq) % 256

(* The value th_stat[] takes: (wq << 1) + clk, in an 8 bit field. *)
Stat(wq, clk) == (2 * wq + clk) % 256

StatWQ(stat) == stat \div 2

(* Queue part of __thinkos_wq_insert() and __thinkos_tmdwq_insert(). *)
wq_insert(q, wq, th) == [q EXCEPT ![wq] = @ \cup {th}]

tmdwq_insert(q, wq, th) ==
  wq_insert(wq_insert(q, wq, th), WQ_CLOCK, th)

(* Faulty variant: the thread stays in the clock queue. *)
wakeup_keeps_clock(q, wq, ths) ==
  [q EXCEPT ![WQ_READY] = @ \cup ths, ![wq] = @ \ ths]

(* Queue part of __thinkos_wakeup(), for all the threads ths of queue wq. *)
wakeup(q, wq, ths) ==
  [w \in WQ |-> IF w = WQ_READY              THEN q[w] \cup ths
                ELSE IF w \in {wq, WQ_CLOCK} THEN q[w] \ ths
                ELSE q[w]]

(* The time-share threads get their turn when nobody else is ready. *)
collect(q, empty) ==
  IF ENABLE_TIMESHARE /\ q[WQ_READY] = empty
  THEN [q EXCEPT ![WQ_READY] = @ \cup q[WQ_TMSHARE], ![WQ_TMSHARE] = {}]
  ELSE q

(* Faulty variant: the time-share queue is not looked at. *)
wait_without_collect(q, th) == [q EXCEPT ![WQ_READY] = @ \ {th}]

(* __thinkos_wait() *)
wait(q, th) == collect([q EXCEPT ![WQ_READY] = @ \ {th}], IdleBit)

(***************************************************************************)
(* A handler that wakes th up stores the call's result through ctx[th].    *)
(* The scheduler saves ctx[th] when it switches th out. An interrupt that  *)
(* wakes up a thread which has just blocked, before the pending scheduler  *)
(* ran, writes through the pointer of the PREVIOUS switch: the frame of    *)
(* the blocked call only if the stack depth happens to be the same.        *)
(***************************************************************************)
CtxWrite(regs, ths, ret) ==
  LET written == [th \in Thread |-> IF th \in ths THEN ret ELSE regs[th]]
  IN  IF active \in ths
      THEN {written, [written EXCEPT ![active] = regs[active]]}
      ELSE {written}

(* Faulty variant: the scheduler is not requested. *)
Wakeup_no_sched(wq, ths) ==
  /\ wq_lst' = wakeup(wq_lst, wq, ths)
  /\ th_stat' = [th \in Thread |-> IF th \in ths THEN 0 ELSE th_stat[th]]
  /\ r0' \in CtxWrite(r0, ths, OK)
  /\ UNCHANGED <<pendsv, clock, call, handlerVars>>

(* __thinkos_wakeup() of each thread of ths, then __thinkos_defer_sched(). *)
Wakeup(wq, ths) ==
  /\ wq_lst' = wakeup(wq_lst, wq, ths)
  /\ th_stat' = [th \in Thread |-> IF th \in ths THEN 0 ELSE th_stat[th]]
  /\ r0' \in CtxWrite(r0, ths, OK)
  /\ pendsv' = (pendsv \/ ths # {})
  /\ UNCHANGED <<clock, call, handlerVars>>

(* __thinkos_wakeup_return() of each thread of told, with its own result. *)
WakeupReturn(wq, told) ==
  LET ths     == DOMAIN told
      written == [th \in Thread |-> IF th \in ths THEN told[th] ELSE r0[th]]
  IN  /\ wq_lst' = wakeup(wq_lst, wq, ths)
      /\ th_stat' = [th \in Thread |-> IF th \in ths THEN 0 ELSE th_stat[th]]
      /\ r0' \in IF active \in ths
                 THEN {written, [written EXCEPT ![active] = r0[active]]}
                 ELSE {written}
      /\ pendsv' = (pendsv \/ ths # {})
      /\ UNCHANGED <<clock, call, handlerVars>>

(***************************************************************************)
(* Thread t blocks in call c with a default result in its frame. A call    *)
(* that does not block returns before anything else can happen to t, so    *)
(* its result is not kept: r0 and call describe blocked calls only.        *)
(***************************************************************************)
Blocked(t, c, ret) ==
  /\ r0' = [r0 EXCEPT ![t] = ret]
  /\ call' = [call EXCEPT ![t] = c]
  /\ pendsv' = TRUE

SetStat(th, stat) == th_stat' = [th_stat EXCEPT ![th] = stat]

SetClock(t, ms) == clock' = [clock EXCEPT ![t] = (ticks + ms) % CLOCK_MOD]

--------------------------------------------------------------------------------
(* The scheduler: cm3_pendsv_isr(). *)
PendSV ==
  /\ pendsv
  /\ tick.pc = "none"
  /\ active' = wq_head(WQ_READY)
  /\ pendsv' = FALSE
  /\ UNCHANGED <<wq_lst, th_stat, ticks, clock, sched_val, tick,
                 r0, call>>

(* (int32_t)(clock - ticks) *)
TicksLeft(th) ==
  LET d == (clock[th] - ticks) % CLOCK_MOD
  IN  IF 2 * d < CLOCK_MOD THEN d ELSE d - CLOCK_MOD

(* Faulty variant: one tick too late. *)
Expired_late(th) == TicksLeft(th) < 0

Expired(th) == TicksLeft(th) <= 0

(***************************************************************************)
(* The clock interrupt: cm3_systick_isr(). The loop works on a copy of     *)
(* wq_clock and may be preempted, at any of its steps, by an interrupt     *)
(* handler that wakes up the thread it is working on.                      *)
(***************************************************************************)
SysTickEntry ==
  /\ tick.pc = "none"
  /\ ticks' = (ticks + 1) % CLOCK_MOD
  /\ tick' = [pc |-> "scan", wq |-> wq_lst[WQ_CLOCK], j |-> 0, stat |-> 0,
               sched |-> FALSE]
  /\ UNCHANGED <<wq_lst, active, pendsv, th_stat, clock, sched_val, r0, call>>

(* The wait of the next thread in the copy is over or not; read its status. *)
SysTickScan ==
  /\ tick.pc = "scan"
  /\ tick.wq # {}
  /\ LET j == Min(tick.wq)
     IN  tick' = IF Expired(j)
                 THEN [pc |-> "unlink", wq |-> tick.wq \ {j}, j |-> j,
                       stat |-> th_stat[j], sched |-> TRUE]
                 ELSE [tick EXCEPT !.wq = @ \ {j}]
  /\ UNCHANGED <<wq_lst, active, pendsv, th_stat, ticks, clock, sched_val, r0, call>>

(* Faulty variant: the bit in the object's queue stays. *)
SysTickUnlink_keeps_queue ==
  /\ tick.pc = "unlink"
  /\ SetStat(tick.j, 0)
  /\ tick' = [tick EXCEPT !.pc = "wakeup"]
  /\ UNCHANGED <<wq_lst, active, pendsv, ticks, clock, sched_val, r0, call>>

(* Faulty variant: the status is not reset. *)
SysTickUnlink_keeps_status ==
  /\ tick.pc = "unlink"
  /\ wq_lst' = [wq_lst EXCEPT ![StatWQ(tick.stat)] = @ \ {tick.j}]
  /\ tick' = [tick EXCEPT !.pc = "wakeup"]
  /\ UNCHANGED <<active, pendsv, th_stat, ticks, clock, sched_val, r0, call>>

(* Remove it from the queue its status names. *)
SysTickUnlink ==
  /\ tick.pc = "unlink"
  /\ SetStat(tick.j, 0)
  /\ wq_lst' = [wq_lst EXCEPT ![StatWQ(tick.stat)] = @ \ {tick.j}]
  /\ tick' = [tick EXCEPT !.pc = "wakeup"]
  /\ UNCHANGED <<active, pendsv, ticks, clock, sched_val, r0, call>>

(* Remove it from the clock queue and make it ready. *)
SysTickWakeup ==
  /\ tick.pc = "wakeup"
  /\ wq_lst' = wakeup(wq_lst, WQ_CLOCK, {tick.j})
  /\ tick' = [pc |-> "scan", wq |-> tick.wq, j |-> 0, stat |-> 0,
               sched |-> tick.sched]
  /\ UNCHANGED <<active, pendsv, th_stat, ticks, clock, sched_val, r0, call>>

(* The credit left to the active thread once it has paid for the tick. *)
Charged == sched_val[active] - SCHED_PRI[active]

(* Faulty variant: the scheduler is not requested. *)
EndTimeslice_no_sched ==
  /\ sched_val' = [sched_val EXCEPT ![active] = Charged + SCHED_LIMIT]
  /\ wq_lst' = collect([wq_lst EXCEPT ![WQ_TMSHARE] = @ \cup {active},
                                      ![WQ_READY] = @ \ {active}], IdleBit)
  /\ UNCHANGED pendsv

(* No credit left: send the active thread to the time-share queue. *)
EndTimeslice ==
  /\ sched_val' = [sched_val EXCEPT ![active] = Charged + SCHED_LIMIT]
  /\ wq_lst' = collect([wq_lst EXCEPT ![WQ_TMSHARE] = @ \cup {active},
                                      ![WQ_READY] = @ \ {active}], IdleBit)
  /\ pendsv' = TRUE

(* Faulty variant: a wakeup by the clock does not request the scheduler. *)
TickResched_never == pendsv

(* if (sched) __thinkos_defer_sched() *)
TickResched == pendsv \/ tick.sched

(* Charge the active thread for the tick and request the scheduler. *)
SysTickExit ==
  /\ tick.pc = "scan"
  /\ tick.wq = {}
  /\ \/ /\ ~ENABLE_TIMESHARE \/ active \notin Thread
        /\ pendsv' = TickResched
        /\ UNCHANGED <<sched_val, wq_lst>>
     \/ /\ ENABLE_TIMESHARE /\ active \in Thread /\ Charged >= 0
        /\ sched_val' = [sched_val EXCEPT ![active] = Charged]
        /\ pendsv' = TickResched
        /\ UNCHANGED wq_lst
     \/ /\ ENABLE_TIMESHARE /\ active \in Thread /\ Charged < 0
        /\ EndTimeslice
  /\ tick' = NoTick
  /\ UNCHANGED <<active, th_stat, ticks, clock, r0, call>>

SysTick ==
  \/ SysTickEntry \/ SysTickScan \/ SysTickUnlink \/ SysTickWakeup \/ SysTickExit

--------------------------------------------------------------------------------
(***************************************************************************)
(* Leave the ready queue. Unlike __thinkos_wait(), the waits on semaphores *)
(* and event sets test for a bitmap without any bit set, the idle thread's *)
(* included.                                                               *)
(***************************************************************************)
wait_unless_empty(q, t) == collect([q EXCEPT ![WQ_READY] = @ \ {t}], {})

(* thinkos_bmp_alloc(): the first free object, or -1. *)
bmp_alloc(Objects, alloc) ==
  IF Objects \subseteq alloc THEN NONE ELSE Min(Objects \ alloc)

(* Thread t's call ends at once with the result ret and changes nothing. *)
Refuse(t, ret) == UNCHANGED coreVars

(* Thread t runs and is about to make a service call. *)
Calls(t) == Running(t) /\ call[t] = NoCall

(***************************************************************************)
(* Thread-level calls. No result is stored for the two waits on the clock. *)
(***************************************************************************)
ClockWait(t, op, end) ==
  /\ Calls(t)
  /\ clock' = [clock EXCEPT ![t] = end]
  /\ wq_lst' = wait(wq_insert(wq_lst, WQ_CLOCK, t), t)
  /\ SetStat(t, Stat(WQ_CLOCK, 1))
  /\ Blocked(t, Call(op, WQ_CLOCK, 0), r0[t])
  /\ UNCHANGED handlerVars

(* Faulty variant: the sum does not wrap. *)
thinkos_sleep_svc_unwrapped(t, ms) == ClockWait(t, "sleep", ticks + ms)

thinkos_sleep_svc(t, ms) == ClockWait(t, "sleep", (ticks + ms) % CLOCK_MOD)

thinkos_alarm_svc(t, clk) == ClockWait(t, "alarm", clk)

thinkos_yield(t) ==
  /\ Calls(t)
  /\ pendsv' = TRUE
  /\ UNCHANGED <<wq_lst, th_stat, clock, r0, call, handlerVars>>

(* The caller sees a blocked call return and goes on. *)
CallReturn(t) ==
  /\ Running(t)
  /\ r0' = [r0 EXCEPT ![t] = OK]
  /\ call' = [call EXCEPT ![t] = NoCall]
  /\ UNCHANGED <<wq_lst, pendsv, th_stat, clock, handlerVars>>

CoreOps == {"sleep", "alarm"}

CoreReturn(t) ==
  /\ call[t].op \in CoreOps
  /\ CallReturn(t)

(***************************************************************************)
(* All threads have been created by a main thread of the highest           *)
(* time-share priority; the scheduler is pending from the last creation.   *)
(***************************************************************************)
CoreInit ==
  /\ wq_lst = [w \in WQ |-> IF w = WQ_READY THEN Thread \cup IdleBit ELSE {}]
  /\ active \in Thread
  /\ pendsv = TRUE
  /\ th_stat = [t \in Thread |-> 0]
  /\ ticks = 0
  /\ clock = [t \in Thread |-> 0]
  /\ sched_val = [t \in Thread |-> SCHED_LIMIT \div 2]
  /\ tick = NoTick
  /\ r0 = [t \in Thread |-> OK]
  /\ call = [t \in Thread |-> NoCall]

CoreStep ==
  \/ PendSV
  \/ SysTick
  \/ \E t \in Thread :
       \/ \E ms \in SLEEPS : thinkos_sleep_svc(t, ms)
       \/ \E clk \in ALARMS : thinkos_alarm_svc(t, clk)
       \/ thinkos_yield(t)
       \/ CoreReturn(t)

CoreSpec == CoreInit /\ [][CoreStep]_coreVars

(***************************************************************************)
(* Fairness. The tick interrupt keeps coming and its handler is never      *)
(* stopped for good. The scheduler and a thread that may run get the CPU   *)
(* between two ticks again and again (a handler is far shorter than the    *)
(* tick period), although each tick disables them: strong fairness.        *)
(***************************************************************************)
CoreFairness ==
  /\ WF_coreVars(SysTick)
  /\ SF_coreVars(PendSV)
  /\ \A t \in Thread : SF_coreVars(CoreReturn(t))

FairCoreSpec == CoreSpec /\ CoreFairness

--------------------------------------------------------------------------------
(* The wait-queue list: the idle thread is in the ready queue and no other. *)
QueuesOK(q) ==
  /\ q \in [WQ -> SUBSET (Thread \cup IdleBit)]
  /\ IdleBit \subseteq q[WQ_READY]
  /\ \A w \in WQ \ {WQ_READY} : q[w] \subseteq Thread

TickRecord ==
  [pc : {"none", "scan", "unlink", "wakeup"}, wq : SUBSET Thread, j : Thread,
   stat : 0 .. 255, sched : BOOLEAN]

CallRecord == [op : BlockingCalls, wq : Int, mwq : Int]

(* Every variable of the run-time block is in the range of its C type. *)
CoreTypeOK ==
  /\ QueuesOK(wq_lst)
  /\ active \in Thread \cup {IDLE}
  /\ pendsv \in BOOLEAN
  /\ th_stat \in [Thread -> 0 .. 255]
  /\ ticks \in 0 .. CLOCK_MOD - 1
  /\ clock \in [Thread -> 0 .. CLOCK_MOD - 1]
  /\ sched_val \in [Thread -> Int]
  /\ tick \in TickRecord
  /\ r0 \in [Thread -> Int]
  /\ call \in [Thread -> CallRecord]

(* The thread whose wait the SysTick handler is ending right now. *)
Expiring(t) == tick.pc \in {"unlink", "wakeup"} /\ tick.j = t

(***************************************************************************)
(* A thread is ready, or it is blocked in exactly the queue its status     *)
(* byte names, and in the clock queue exactly if the status says so. This  *)
(* is what lets a timeout find and clear the right queue bit               *)
(* (__thinkos_wq_insert, __thinkos_tmdwq_insert, __thinkos_wakeup,         *)
(* cm3_systick_isr). Claimed for the configurations without time sharing.  *)
(***************************************************************************)
StatusNamesQueue ==
  \A t \in Thread : ~Expiring(t) =>
    \A w \in WQ :
      (t \in wq_lst[w]) <=> \/ w = StatWQ(th_stat[t])
                            \/ (w = WQ_CLOCK /\ th_stat[t] % 2 = 1)

(***************************************************************************)
(* Strict priority: thread code only ever executes in the lowest-numbered  *)
(* ready thread, so no operation that makes a more urgent thread ready     *)
(* forgets to request the scheduler (__thinkos_defer_sched).               *)
(***************************************************************************)
HighestReadyRuns ==
  ~pendsv /\ tick.pc = "none" => active = wq_head(WQ_READY)

(***************************************************************************)
(* Nobody waits for a time-share turn while the CPU is idle: whichever     *)
(* call or tick empties the ready queue collects the waiting threads       *)
(* (__thinkos_wait, cm3_systick_isr).                                      *)
(***************************************************************************)
IdleMeansNobodyWaits ==
  ENABLE_TIMESHARE /\ wq_lst[WQ_READY] = IdleBit => wq_lst[WQ_TMSHARE] = {}

(***************************************************************************)
(* A clock interrupt leaves no expired thread behind, whatever happened to *)
(* the queues while its loop ran and across the wrap of the tick counter   *)
(* (cm3_systick_isr).                                                      *)
(***************************************************************************)
NoMissedTimeout ==
  [][tick.pc # "none" /\ tick'.pc = "none" =>
       \A t \in wq_lst'[WQ_CLOCK] : TicksLeft(t)' > 0]_coreVars

(***************************************************************************)
(* Every sleep and every alarm of the most urgent thread ends and is seen  *)
(* by it, whatever the other threads do and also when the tick counter     *)
(* wraps or the alarm lies in the past (thinkos_sleep_svc,                 *)
(* thinkos_alarm_svc, cm3_systick_isr, cm3_pendsv_isr).                    *)
(***************************************************************************)
UrgentWaitEnds == call[0].op \in CoreOps ~> call[0] = NoCall
================================================================================
