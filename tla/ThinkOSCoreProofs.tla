--------------------------- MODULE ThinkOSCoreProofs ---------------------------
(***************************************************************************)
(* What the operators of ThinkOSCore preserve, for every configuration:    *)
(* the lemmas the proofs about the objects' modules rest on.               *)
(***************************************************************************)
EXTENDS ThinkOSCore, TLAPS, WellFoundedInduction

(* A nonempty set of naturals has a least element, and Min returns it. *)
LEMMA MinLemma ==
  ASSUME NEW S, S \subseteq Nat, S # {}
  PROVE  Min(S) \in S /\ \A y \in S : Min(S) <= y
<1>1. PICK x \in S : \A y \in S : ~(<<y, x>> \in OpToRel(<, Nat))
  BY NatLessThanWellFounded, WFMin
<1>2. \A y \in S : x <= y
  <2>1. SUFFICES ASSUME NEW y \in S, y < x PROVE FALSE
    OBVIOUS
  <2>2. <<y, x>> \in OpToRel(<, Nat)
    BY <2>1 DEF OpToRel
  <2> QED BY <1>1, <2>2
<1> QED BY <1>2 DEF Min

(* The layout: the queues every configuration has are distinct. *)
LEMMA LayoutLemma ==
  /\ WQ_LST_END \in Nat
  /\ WQ_READY \in WQ /\ WQ_CLOCK \in WQ /\ WQ_READY # WQ_CLOCK
  /\ WQ_CLOCK < MUTEX_BASE
  /\ ENABLE_TIMESHARE => WQ_TMSHARE \in WQ /\ WQ_TMSHARE # WQ_READY
  /\ MUTEX_BASE \in Nat /\ COND_BASE \in Nat /\ SEM_BASE \in Nat
  /\ WQ_READY = 0 /\ WQ_CLOCK \in Nat \ {0}
  /\ MUTEX_BASE + MUTEX_MAX = COND_BASE
  /\ COND_BASE + COND_MAX = SEM_BASE
  /\ SEM_BASE + SEMAPHORE_MAX <= WQ_LST_END
BY CoreAssumption DEF WQ_LST_END, JOIN_BASE, FLAG_BASE, EVENT_BASE, SEM_BASE,
   COND_BASE, MUTEX_BASE, WQ_CLOCK, WQ_PAUSED, WQ_CANCELED, WQ_TMSHARE,
   WQ_READY, WQ, Slot

(* Threads are numbers; the idle thread and the null thread are none. *)
LEMMA ThreadLemma ==
  /\ Thread \subseteq Nat /\ IDLE \in Nat /\ IDLE \notin Thread
  /\ Thread \cup IdleBit \subseteq Nat
  /\ 0 \in Thread
  /\ THREAD_NULL \notin Thread
  /\ \A t \in Thread : t \notin IdleBit
  /\ NONE \notin Thread
BY CoreAssumption DEF Thread, IDLE, IdleBit, THREAD_NULL, NONE

(* The scheduler always finds a thread or the idle thread. *)
LEMMA HeadType ==
  ASSUME QueuesOK(wq_lst)
  PROVE  wq_head(WQ_READY) \in Thread \cup {IDLE}
<1>1. CASE wq_lst[WQ_READY] = {}
  <2>1. IdleBit = {}
    BY <1>1, LayoutLemma DEF QueuesOK
  <2>2. THREAD_NULL = IDLE
    BY <2>1, CoreAssumption DEF IdleBit, THREAD_NULL, IDLE
  <2> QED BY <1>1, <2>2 DEF wq_head, LowestBit
<1>2. CASE wq_lst[WQ_READY] # {}
  <2>1. wq_lst[WQ_READY] \subseteq Thread \cup IdleBit
    BY LayoutLemma DEF QueuesOK
  <2>2. Min(wq_lst[WQ_READY]) \in wq_lst[WQ_READY]
    BY <1>2, <2>1, MinLemma, ThreadLemma
  <2> QED BY <1>2, <2>1, <2>2 DEF wq_head, LowestBit, IdleBit
<1> QED BY <1>1, <1>2

(* The head of a queue that is not empty is one of the threads in it. *)
LEMMA HeadMember ==
  ASSUME QueuesOK(wq_lst), NEW w \in WQ, w # WQ_READY, wq_lst[w] # {}
  PROVE  wq_head(w) \in wq_lst[w] /\ wq_head(w) \in Thread
<1>1. wq_lst[w] \subseteq Thread
  BY DEF QueuesOK
<1>2. Min(wq_lst[w]) \in wq_lst[w]
  BY <1>1, MinLemma, ThreadLemma
<1> QED BY <1>1, <1>2 DEF wq_head, LowestBit

(* Queueing a thread keeps the wait-queue list well formed. *)
LEMMA InsertType ==
  ASSUME NEW q, QueuesOK(q), NEW w \in WQ, w # WQ_READY, NEW t \in Thread
  PROVE  QueuesOK(wq_insert(q, w, t)) /\ QueuesOK(tmdwq_insert(q, w, t))
<1>1. ASSUME NEW p, QueuesOK(p), NEW v \in WQ, v # WQ_READY
      PROVE QueuesOK(wq_insert(p, v, t))
  BY <1>1, LayoutLemma DEF QueuesOK, wq_insert
<1> QED BY <1>1, LayoutLemma DEF tmdwq_insert

(* So does waking threads up, *)
LEMMA WakeupType ==
  ASSUME NEW q, QueuesOK(q), NEW w \in WQ, NEW ths, ths \subseteq Thread
  PROVE  QueuesOK(wakeup(q, w, ths))
BY LayoutLemma DEF QueuesOK, wakeup

(* collecting the time-share threads, *)
LEMMA CollectType ==
  ASSUME NEW q, QueuesOK(q)
  PROVE  QueuesOK(collect(q, IdleBit)) /\ QueuesOK(collect(q, {}))
BY LayoutLemma DEF QueuesOK, collect

(* and leaving the ready queue (__thinkos_wait). *)
LEMMA WaitType ==
  ASSUME NEW q, QueuesOK(q), NEW t \in Thread
  PROVE  QueuesOK(wait(q, t))
<1>1. QueuesOK([q EXCEPT ![WQ_READY] = @ \ {t}])
  BY LayoutLemma, ThreadLemma DEF QueuesOK
<1> QED BY <1>1, CollectType DEF wait

(* A status byte is a byte. *)
LEMMA StatType ==
  ASSUME NEW w \in WQ, NEW b \in {0, 1}
  PROVE  Stat(w, b) \in 0 .. 255
BY LayoutLemma DEF Stat, WQ

(* A blocked thread's result: whatever CtxWrite returns is a register file. *)
LEMMA CtxType ==
  ASSUME NEW regs \in [Thread -> Int], NEW ths, NEW ret \in Int,
         NEW new \in CtxWrite(regs, ths, ret)
  PROVE  new \in [Thread -> Int]
BY DEF CtxWrite

(* (ticks + ms) wraps into the range of the counter. *)
LEMMA ClockType ==
  ASSUME ticks \in 0 .. CLOCK_MOD - 1, NEW ms \in Nat
  PROVE  (ticks + ms) % CLOCK_MOD \in 0 .. CLOCK_MOD - 1
BY CoreAssumption

(* The record of a blocking call. *)
LEMMA CallType ==
  ASSUME NEW op \in BlockingCalls, NEW w \in Int, NEW mw \in Int
  PROVE  Call(op, w, mw) \in CallRecord
BY DEF Call, CallRecord

(* The calls of the object modules that block or wake threads up. *)
LEMMA WakeupKeepsType ==
  ASSUME CoreTypeOK, NEW w \in WQ, NEW ths, ths \subseteq Thread, Wakeup(w, ths)
  PROVE  CoreTypeOK'
<1>1. QueuesOK(wq_lst')
  BY WakeupType DEF Wakeup, CoreTypeOK
<1>2. r0' \in [Thread -> Int]
  BY CtxType DEF Wakeup, CoreTypeOK, OK
<1>3. th_stat' \in [Thread -> 0 .. 255]
  BY DEF Wakeup, CoreTypeOK
<1> QED BY <1>1, <1>2, <1>3 DEF Wakeup, CoreTypeOK, handlerVars, QueuesOK

(* A call that blocks t: queues, status byte, clock, result and call record. *)
LEMMA BlockKeepsType ==
  ASSUME CoreTypeOK, NEW t \in Thread,
         NEW q, QueuesOK(q), wq_lst' = q,
         NEW stat \in 0 .. 255, SetStat(t, stat),
         clock' \in [Thread -> 0 .. CLOCK_MOD - 1],
         NEW c \in CallRecord, NEW ret \in Int,
         Blocked(t, c, ret),
         UNCHANGED handlerVars
  PROVE  CoreTypeOK'
BY DEF CoreTypeOK, SetStat, Blocked, handlerVars, QueuesOK

(* The return of a blocked call keeps the types. *)
LEMMA CallReturnKeepsType ==
  ASSUME CoreTypeOK, NEW t \in Thread, CallReturn(t)
  PROVE  CoreTypeOK'
<1>1. NoCall \in CallRecord
  BY DEF NoCall, CallRecord, BlockingCalls
<1> QED BY <1>1 DEF CoreTypeOK, CallReturn, handlerVars, QueuesOK, OK

(* The end of a timed wait is a tick value (__thinkos_tmdwq_insert). *)
LEMMA SetClockType ==
  ASSUME CoreTypeOK, NEW t \in Thread, NEW ms \in Nat, SetClock(t, ms)
  PROVE  clock' \in [Thread -> 0 .. CLOCK_MOD - 1]
BY ClockType DEF CoreTypeOK, SetClock

(* thinkos_sleep_svc and thinkos_alarm_svc keep the types. *)
LEMMA ClockWaitKeepsType ==
  ASSUME CoreTypeOK, NEW t \in Thread, NEW op \in BlockingCalls,
         NEW end \in 0 .. CLOCK_MOD - 1, ClockWait(t, op, end)
  PROVE  CoreTypeOK'
<1>1. QueuesOK(wait(wq_insert(wq_lst, WQ_CLOCK, t), t))
  BY LayoutLemma, InsertType, WaitType DEF CoreTypeOK
<1>2. Stat(WQ_CLOCK, 1) \in 0 .. 255
  BY LayoutLemma, StatType
<1>3. Call(op, WQ_CLOCK, 0) \in CallRecord
  BY LayoutLemma, CallType
<1>4. r0[t] \in Int /\ clock' \in [Thread -> 0 .. CLOCK_MOD - 1]
  BY DEF CoreTypeOK, ClockWait
<1> QED BY <1>1, <1>2, <1>3, <1>4, BlockKeepsType DEF ClockWait

(* Every step of cm3_systick_isr keeps the types. *)
LEMMA SysTickKeepsType ==
  ASSUME CoreTypeOK, SysTick
  PROVE  CoreTypeOK'
<1>1. CASE SysTickEntry
  <2>1. wq_lst[WQ_CLOCK] \subseteq Thread
    BY LayoutLemma DEF CoreTypeOK, QueuesOK
  <2>2. ticks' \in 0 .. CLOCK_MOD - 1
    BY <1>1, ClockType DEF SysTickEntry, CoreTypeOK
  <2>3. tick' \in TickRecord
    BY <1>1, <2>1, ThreadLemma DEF SysTickEntry, TickRecord
  <2> QED BY <1>1, <2>2, <2>3 DEF SysTickEntry, CoreTypeOK, QueuesOK
<1>2. CASE SysTickScan
  <2>1. Min(tick.wq) \in Thread
    BY <1>2, MinLemma, ThreadLemma DEF SysTickScan, CoreTypeOK, TickRecord
  <2>2. tick' \in TickRecord
    BY <1>2, <2>1 DEF SysTickScan, CoreTypeOK, TickRecord
  <2> QED BY <1>2, <2>2 DEF SysTickScan, CoreTypeOK, QueuesOK
<1>3. CASE SysTickUnlink
  <2>2. tick' \in TickRecord /\ tick.j \in Thread
    BY <1>3 DEF SysTickUnlink, CoreTypeOK, TickRecord
  <2>1. QueuesOK(wq_lst')
    <3> DEFINE v == StatWQ(tick.stat)
               q == [wq_lst EXCEPT ![v] = @ \ {tick.j}]
    <3>1. \A w \in WQ : q[w] = IF w = v THEN wq_lst[w] \ {tick.j} ELSE wq_lst[w]
      BY DEF CoreTypeOK, QueuesOK
    <3>2. q \in [WQ -> SUBSET (Thread \cup IdleBit)]
      BY DEF CoreTypeOK, QueuesOK
    <3>3. wq_lst' = q
      BY <1>3 DEF SysTickUnlink
    <3> QED BY <2>2, <3>1, <3>2, <3>3, LayoutLemma, ThreadLemma
            DEF CoreTypeOK, QueuesOK
  <2> QED BY <1>3, <2>1, <2>2 DEF SysTickUnlink, CoreTypeOK, QueuesOK, SetStat
<1>4. CASE SysTickWakeup
  <2>1. QueuesOK(wq_lst')
    BY <1>4, LayoutLemma, WakeupType DEF SysTickWakeup, CoreTypeOK, TickRecord
  <2>2. tick' \in TickRecord
    BY <1>4, ThreadLemma DEF SysTickWakeup, CoreTypeOK, TickRecord
  <2> QED BY <1>4, <2>1, <2>2 DEF SysTickWakeup, CoreTypeOK, QueuesOK
<1>5. CASE SysTickExit
  <2>1. tick' \in TickRecord
    BY <1>5, ThreadLemma DEF TickRecord, SysTickExit, NoTick
  <2>2. active \in Thread => Charged \in Int /\ Charged + SCHED_LIMIT \in Int
    BY CoreAssumption DEF CoreTypeOK, Charged, Thread
  <2>3. sched_val' \in [Thread -> Int]
    BY <1>5, <2>2 DEF SysTickExit, CoreTypeOK, EndTimeslice
  <2>4. QueuesOK(wq_lst')
    <3>1. CASE UNCHANGED wq_lst
      BY <3>1 DEF CoreTypeOK
    <3>2. CASE ENABLE_TIMESHARE /\ active \in Thread /\ EndTimeslice
      <4>1. QueuesOK([wq_lst EXCEPT ![WQ_TMSHARE] = @ \cup {active},
                                    ![WQ_READY] = @ \ {active}])
        BY <3>2, LayoutLemma, ThreadLemma DEF CoreTypeOK, QueuesOK
      <4> QED BY <3>2, <4>1, CollectType DEF EndTimeslice
    <3> QED BY <1>5, <3>1, <3>2 DEF SysTickExit
  <2>5. pendsv' \in BOOLEAN
    BY <1>5 DEF SysTickExit, CoreTypeOK, TickResched, EndTimeslice
  <2> QED BY <1>5, <2>1, <2>3, <2>4, <2>5 DEF SysTickExit, CoreTypeOK, QueuesOK
<1> QED BY <1>1, <1>2, <1>3, <1>4, <1>5 DEF SysTick

(* Every step of the core keeps the types. *)
LEMMA CoreStepKeepsType ==
  ASSUME CoreTypeOK, CoreStep
  PROVE  CoreTypeOK'
<1>1. CASE PendSV
  BY <1>1, HeadType DEF PendSV, CoreTypeOK, QueuesOK
<1>2. CASE SysTick
  BY <1>2, SysTickKeepsType
<1>3. ASSUME NEW t \in Thread, NEW ms \in SLEEPS, thinkos_sleep_svc(t, ms)
      PROVE  CoreTypeOK'
  <2>1. (ticks + ms) % CLOCK_MOD \in 0 .. CLOCK_MOD - 1
    BY ClockType, CoreAssumption DEF CoreTypeOK
  <2> QED BY <1>3, <2>1, ClockWaitKeepsType DEF thinkos_sleep_svc, BlockingCalls
<1>4. ASSUME NEW t \in Thread, NEW clk \in ALARMS, thinkos_alarm_svc(t, clk)
      PROVE  CoreTypeOK'
  <2>1. clk \in 0 .. CLOCK_MOD - 1
    BY CoreAssumption
  <2> QED BY <1>4, <2>1, ClockWaitKeepsType DEF thinkos_alarm_svc, BlockingCalls
<1>5. ASSUME NEW t \in Thread, thinkos_yield(t)
      PROVE  CoreTypeOK'
  BY <1>5 DEF thinkos_yield, CoreTypeOK, QueuesOK, handlerVars
<1>6. ASSUME NEW t \in Thread, CoreReturn(t)
      PROVE  CoreTypeOK'
  BY <1>6, CallReturnKeepsType DEF CoreReturn
<1> QED BY <1>1, <1>2, <1>3, <1>4, <1>5, <1>6 DEF CoreStep

(* The state after thinkos_init and the creations is well typed. *)
LEMMA CoreInitType ==
  ASSUME CoreInit
  PROVE  CoreTypeOK
<1>1. SCHED_LIMIT \div 2 \in Int
  BY CoreAssumption
<1>2. QueuesOK(wq_lst)
  BY LayoutLemma DEF CoreInit, QueuesOK
<1>3. ticks \in 0 .. CLOCK_MOD - 1 /\ clock \in [Thread -> 0 .. CLOCK_MOD - 1]
  BY CoreAssumption DEF CoreInit
<1> QED BY <1>1, <1>2, <1>3, ThreadLemma
        DEF CoreInit, CoreTypeOK, NoTick, NoCall, OK, TickRecord, CallRecord, BlockingCalls

(***************************************************************************)
(* The run-time block keeps its type in every configuration, with time     *)
(* sharing or without it: in particular the scheduler always finds a       *)
(* thread to run, and the idle thread is never queued on an object.        *)
(***************************************************************************)
THEOREM CoreTypeCorrect == CoreSpec => []CoreTypeOK
<1>1. CoreInit => CoreTypeOK
  BY CoreInitType
<1>2. CoreTypeOK /\ [CoreStep]_coreVars => CoreTypeOK'
  <2>1. CASE CoreStep
    BY <2>1, CoreStepKeepsType
  <2>2. CASE UNCHANGED coreVars
    BY <2>2 DEF coreVars, CoreTypeOK, QueuesOK
  <2> QED BY <2>1, <2>2
<1> QED BY <1>1, <1>2, PTL DEF CoreSpec

--------------------------------------------------------------------------------
(***************************************************************************)
(* The inductive core of the safety proofs, for the configurations without *)
(* time sharing whose queue indices fit the status byte.                   *)
(***************************************************************************)
Configuration == ~ENABLE_TIMESHARE /\ WQ_LST_END <= 128

(* t is in exactly the queues its status byte names. *)
Consistent(t) ==
  \A w \in WQ :
    (t \in wq_lst[w]) <=> (w = StatWQ(th_stat[t])
                              \/ (w = WQ_CLOCK /\ th_stat[t] % 2 = 1))

(* Every thread is consistent but the one SysTick is about to make ready. *)
StatusInv ==
  \A t \in Thread :
    /\ StatWQ(th_stat[t]) = 0 => th_stat[t] = 0
    /\ ~(tick.pc = "wakeup" /\ tick.j = t) => Consistent(t)

(* What the SysTick handler knows of the thread it works on. *)
TickInv ==
  /\ tick.pc = "none" => ~tick.sched
  /\ tick.pc \in {"unlink", "wakeup"} => tick.sched
  /\ tick.pc = "unlink" =>
       tick.stat = th_stat[tick.j] \/ th_stat[tick.j] = 0
  /\ tick.pc = "wakeup" =>
       /\ th_stat[tick.j] = 0
       /\ \A w \in WQ \ {WQ_READY, WQ_CLOCK} : tick.j \notin wq_lst[w]

(* The scheduler is due whenever the wrong thread has the CPU. *)
SchedInv == ~pendsv /\ ~tick.sched => active = wq_head(WQ_READY)

(* Without interrupt handlers, nobody leaves the clock queue behind SysTick. *)
NoIrqInv ==
  /\ tick.pc # "none" => tick.wq \subseteq wq_lst[WQ_CLOCK]
  /\ tick.pc \in {"unlink", "wakeup"} => tick.j \notin tick.wq
  /\ tick.pc = "unlink" =>
       tick.stat = th_stat[tick.j] /\ tick.j \in wq_lst[WQ_CLOCK]

CoreInv == StatusInv /\ TickInv /\ SchedInv

(* The status byte encodes queue and clock bit without loss. *)
LEMMA StatLemma ==
  ASSUME Configuration, NEW w \in WQ, NEW b \in {0, 1}
  PROVE  StatWQ(Stat(w, b)) = w /\ Stat(w, b) % 2 = b
BY LayoutLemma DEF Configuration, Stat, StatWQ, WQ

(* Status 0: ready, and no clock. *)
LEMMA ZeroStat == StatWQ(0) = 0 /\ 0 % 2 = 0
BY DEF StatWQ

(* A thread that executes its own code is in the ready queue and no other. *)
LEMMA RunningLemma ==
  ASSUME CoreTypeOK, CoreInv, NEW t \in Thread, Running(t)
  PROVE  /\ th_stat[t] = 0
         /\ \A w \in WQ : t \in wq_lst[w] <=> w = WQ_READY
<1>1. t = wq_head(WQ_READY)
  BY DEF Running, CoreInv, SchedInv, TickInv
<1>2. wq_lst[WQ_READY] # {}
  BY <1>1, ThreadLemma DEF wq_head, LowestBit
<1>3. wq_lst[WQ_READY] \subseteq Nat
  BY LayoutLemma, ThreadLemma DEF CoreTypeOK, QueuesOK
<1>4. t \in wq_lst[WQ_READY]
  BY <1>1, <1>2, <1>3, MinLemma DEF wq_head, LowestBit
<1>5. Consistent(t)
  BY DEF CoreInv, StatusInv, Running
<1>6. StatWQ(th_stat[t]) = 0
  BY <1>4, <1>5, LayoutLemma DEF Consistent
<1>7. th_stat[t] = 0
  BY <1>6 DEF CoreInv, StatusInv
<1>8. StatWQ(th_stat[t]) = WQ_READY /\ ~(th_stat[t] % 2 = 1)
  BY <1>7, ZeroStat, LayoutLemma
<1>9. \A w \in WQ : t \in wq_lst[w] <=> w = WQ_READY
  BY <1>5, <1>8, Zenon DEF Consistent
<1> QED BY <1>7, <1>9

(* Effect on the queues of a call that blocks t on queue w. *)
LEMMA BlockEffect ==
  ASSUME Configuration, CoreTypeOK, CoreInv, NEW t \in Thread, Running(t),
         NEW w \in WQ, w # WQ_READY
  PROVE  \A v \in WQ, u \in Thread :
           /\ u \in wait(wq_insert(wq_lst, w, t), t)[v]
                <=> IF u = t THEN v = w ELSE u \in wq_lst[v]
           /\ u \in wait(tmdwq_insert(wq_lst, w, t), t)[v]
                <=> IF u = t THEN v \in {w, WQ_CLOCK} ELSE u \in wq_lst[v]
<1> DEFINE Queues == [WQ -> SUBSET (Thread \cup IdleBit)]
<1>1. ASSUME NEW q \in Queues
      PROVE  \A v \in WQ : wait(q, t)[v] = IF v = WQ_READY THEN q[v] \ {t} ELSE q[v]
  BY DEF wait, collect, Configuration
<1>2. ASSUME NEW q \in Queues, NEW x \in WQ
      PROVE  /\ wq_insert(q, x, t) \in Queues
             /\ \A v \in WQ : wq_insert(q, x, t)[v]
                               = IF v = x THEN q[v] \cup {t} ELSE q[v]
  BY DEF wq_insert
<1>3. \A v \in WQ : t \in wq_lst[v] <=> v = WQ_READY
  BY RunningLemma
<1>4. wq_lst \in Queues
  BY DEF CoreTypeOK, QueuesOK
<1> DEFINE p == wq_insert(wq_lst, w, t)
<1>5. /\ p \in Queues
      /\ \A v \in WQ : p[v] = IF v = w THEN wq_lst[v] \cup {t} ELSE wq_lst[v]
  BY <1>2, <1>4
<1>6. /\ wq_insert(p, WQ_CLOCK, t) \in Queues
      /\ \A v \in WQ : wq_insert(p, WQ_CLOCK, t)[v]
                        = IF v = WQ_CLOCK THEN p[v] \cup {t} ELSE p[v]
  BY <1>2, <1>5, LayoutLemma
<1>7. \A v \in WQ : wait(p, t)[v] = IF v = WQ_READY THEN p[v] \ {t} ELSE p[v]
  BY <1>1, <1>5
<1>8. \A v \in WQ : wait(tmdwq_insert(wq_lst, w, t), t)[v]
                    = IF v = WQ_READY THEN wq_insert(p, WQ_CLOCK, t)[v] \ {t}
                                      ELSE wq_insert(p, WQ_CLOCK, t)[v]
  BY <1>1, <1>6 DEF tmdwq_insert
<1>9. ASSUME NEW v \in WQ, NEW u \in Thread
      PROVE  u \in wait(p, t)[v] <=> IF u = t THEN v = w ELSE u \in wq_lst[v]
  <2> HIDE DEF p
  <2> QED BY <1>3, <1>5, <1>7
<1>10. ASSUME NEW v \in WQ, NEW u \in Thread
       PROVE  u \in wait(tmdwq_insert(wq_lst, w, t), t)[v]
                <=> IF u = t THEN v \in {w, WQ_CLOCK} ELSE u \in wq_lst[v]
  <2> DEFINE r == wq_insert(p, WQ_CLOCK, t)
  <2>1. r[v] = IF v = WQ_CLOCK THEN p[v] \cup {t} ELSE p[v]
    BY <1>6
  <2>2. p[v] = IF v = w THEN wq_lst[v] \cup {t} ELSE wq_lst[v]
    BY <1>5
  <2>3. wait(tmdwq_insert(wq_lst, w, t), t)[v]
        = IF v = WQ_READY THEN r[v] \ {t} ELSE r[v]
    BY <1>8
  <2>4. t \in wq_lst[v] <=> v = WQ_READY
    BY <1>3
  <2> HIDE DEF p, r
  <2> QED BY <2>1, <2>2, <2>3, <2>4, LayoutLemma
<1> QED BY <1>9, <1>10

(***************************************************************************)
(* A call that blocks t in the queues its new status byte names, and wakes *)
(* up the threads of `woken' first.                                        *)
(***************************************************************************)
LEMMA BlockKeepsInv ==
  ASSUME CoreTypeOK, CoreInv, NEW t \in Thread, Running(t),
         NEW stat, StatWQ(stat) # 0, NEW woken,
         \A v \in WQ :
           t \in wq_lst'[v]
             <=> (v = StatWQ(stat) \/ (v = WQ_CLOCK /\ stat % 2 = 1)),
         \A u \in Thread \ {t} : \A v \in WQ :
           u \in wq_lst'[v]
             <=> IF u \in woken THEN v = WQ_READY ELSE u \in wq_lst[v],
         \A u \in Thread :
           th_stat'[u] = IF u = t THEN stat
                         ELSE IF u \in woken THEN 0 ELSE th_stat[u],
         pendsv' = TRUE,
         UNCHANGED tick
  PROVE  CoreInv'
<1>1. StatusInv'
  <2>1. SUFFICES ASSUME NEW u \in Thread
        PROVE  /\ StatWQ(th_stat'[u]) = 0 => th_stat'[u] = 0
               /\ Consistent(u)'
    BY DEF StatusInv
  <2>2. CASE u = t
    <3>1. th_stat'[u] = stat
      BY <2>2
    <3> QED BY <2>2, <3>1 DEF Consistent
  <2>3. CASE u # t /\ u \notin woken
    <3>1. th_stat'[u] = th_stat[u]
      BY <2>3
    <3>2. Consistent(u) /\ (StatWQ(th_stat[u]) = 0 => th_stat[u] = 0)
      BY DEF CoreInv, StatusInv, Running
    <3> QED BY <2>3, <3>1, <3>2 DEF Consistent
  <2>4. CASE u # t /\ u \in woken
    <3>1. th_stat'[u] = 0 /\ \A w \in WQ : u \in wq_lst'[w] <=> w = 0
      BY <2>4, LayoutLemma
    <3>2. \A w \in WQ :
            u \in wq_lst'[w] <=> (w = StatWQ(0) \/ (w = WQ_CLOCK /\ 0 % 2 = 1))
      BY <3>1, ZeroStat
    <3> QED BY <3>1, <3>2 DEF Consistent
  <2> QED BY <2>2, <2>3, <2>4
<1>2. TickInv'
  BY DEF CoreInv, TickInv, Running
<1>3. SchedInv'
  BY DEF SchedInv
<1> QED BY <1>1, <1>2, <1>3 DEF CoreInv

(* The two ways to block on queue w, with and without a timeout. *)
LEMMA WaitKeepsInv ==
  ASSUME Configuration, CoreTypeOK, CoreInv, NEW t \in Thread, Running(t),
         NEW w \in WQ, w # WQ_READY,
         \/ /\ wq_lst' = wait(wq_insert(wq_lst, w, t), t)
            /\ \/ w # WQ_CLOCK /\ SetStat(t, Stat(w, 0))
               \/ w = WQ_CLOCK /\ SetStat(t, Stat(w, 1))
         \/ /\ wq_lst' = wait(tmdwq_insert(wq_lst, w, t), t)
            /\ SetStat(t, Stat(w, 1)),
         pendsv' = TRUE,
         UNCHANGED tick
  PROVE  CoreInv'
<1> DEFINE woken == {}
<1>1. CASE /\ wq_lst' = wait(wq_insert(wq_lst, w, t), t)
           /\ w # WQ_CLOCK /\ SetStat(t, Stat(w, 0))
  <2>1. StatWQ(Stat(w, 0)) = w /\ Stat(w, 0) % 2 = 0
    BY StatLemma
  <2>2. \A v \in WQ, u \in Thread :
          u \in wq_lst'[v] <=> IF u = t THEN v = w ELSE u \in wq_lst[v]
    BY <1>1, BlockEffect
  <2>3. \A v \in WQ :
          t \in wq_lst'[v]
            <=> (v = StatWQ(Stat(w, 0)) \/ (v = WQ_CLOCK /\ Stat(w, 0) % 2 = 1))
    BY <2>1, <2>2
  <2>4. \A u \in Thread \ {t} : \A v \in WQ :
          u \in wq_lst'[v] <=> IF u \in woken THEN v = WQ_READY ELSE u \in wq_lst[v]
    BY <2>2
  <2>5. StatWQ(Stat(w, 0)) # 0
    BY <2>1, LayoutLemma
  <2>6. \A u \in Thread :
          th_stat'[u] = IF u = t THEN Stat(w, 0)
                        ELSE IF u \in woken THEN 0 ELSE th_stat[u]
    BY <1>1 DEF SetStat, CoreTypeOK
  <2> HIDE DEF woken
  <2> QED BY <2>3, <2>4, <2>5, <2>6, BlockKeepsInv
<1>2. CASE /\ \/ wq_lst' = wait(wq_insert(wq_lst, w, t), t) /\ w = WQ_CLOCK
              \/ wq_lst' = wait(tmdwq_insert(wq_lst, w, t), t)
           /\ SetStat(t, Stat(w, 1))
  <2>1. StatWQ(Stat(w, 1)) = w /\ Stat(w, 1) % 2 = 1
    BY StatLemma
  <2>2. \A v \in WQ, u \in Thread :
          u \in wq_lst'[v] <=> IF u = t THEN v \in {w, WQ_CLOCK} ELSE u \in wq_lst[v]
    BY <1>2, BlockEffect
  <2>3. \A v \in WQ :
          t \in wq_lst'[v]
            <=> (v = StatWQ(Stat(w, 1)) \/ (v = WQ_CLOCK /\ Stat(w, 1) % 2 = 1))
    BY <2>1, <2>2
  <2>4. \A u \in Thread \ {t} : \A v \in WQ :
          u \in wq_lst'[v] <=> IF u \in woken THEN v = WQ_READY ELSE u \in wq_lst[v]
    BY <2>2
  <2>5. StatWQ(Stat(w, 1)) # 0
    BY <2>1, LayoutLemma
  <2>6. \A u \in Thread :
          th_stat'[u] = IF u = t THEN Stat(w, 1)
                        ELSE IF u \in woken THEN 0 ELSE th_stat[u]
    BY <1>2 DEF SetStat, CoreTypeOK
  <2> HIDE DEF woken
  <2> QED BY <2>3, <2>4, <2>5, <2>6, BlockKeepsInv
<1> QED BY <1>1, <1>2

(* Effect on the queues of a wakeup of threads blocked on queue w. *)
LEMMA WakeupEffect ==
  ASSUME CoreTypeOK, CoreInv, NEW w \in WQ, w \notin {WQ_READY, WQ_CLOCK},
         NEW ths, ths \subseteq wq_lst[w]
  PROVE  \A v \in WQ, u \in Thread :
           u \in wakeup(wq_lst, w, ths)[v]
             <=> IF u \in ths THEN v = WQ_READY ELSE u \in wq_lst[v]
<1>1. SUFFICES ASSUME NEW v \in WQ, NEW u \in Thread
      PROVE  u \in wakeup(wq_lst, w, ths)[v]
               <=> IF u \in ths THEN v = WQ_READY ELSE u \in wq_lst[v]
  OBVIOUS
<1>2. CASE u \in ths
  <2>1. ~(tick.pc = "wakeup" /\ tick.j = u)
    BY <1>2 DEF CoreInv, TickInv
  <2>2. Consistent(u)
    BY <2>1 DEF CoreInv, StatusInv
  <2>3. w = StatWQ(th_stat[u])
    BY <1>2, <2>2 DEF Consistent
  <2>4. u \in wq_lst[v] => v \in {w, WQ_CLOCK}
    BY <2>2, <2>3 DEF Consistent
  <2> QED BY <1>2, <2>4, LayoutLemma DEF wakeup
<1>3. CASE u \notin ths
  BY <1>3 DEF wakeup
<1> QED BY <1>2, <1>3

(* A step that leaves queues, status and handlers alone keeps CoreInv. *)
LEMMA QuietKeepsInv ==
  ASSUME CoreInv, UNCHANGED <<wq_lst, th_stat, tick, active>>, pendsv' \in {pendsv, TRUE}
  PROVE  CoreInv'
BY DEF CoreInv, StatusInv, TickInv, SchedInv, Consistent, wq_head

(* A wakeup preserves the core invariant, also in the middle of SysTick. *)
LEMMA WakingKeepsInv ==
  ASSUME CoreTypeOK, CoreInv,
         NEW w \in WQ, w \notin {WQ_READY, WQ_CLOCK},
         NEW ths, ths \subseteq wq_lst[w],
         wq_lst' = wakeup(wq_lst, w, ths),
         th_stat' = [th \in Thread |-> IF th \in ths THEN 0 ELSE th_stat[th]],
         pendsv' = (pendsv \/ ths # {}),
         UNCHANGED <<tick, active>>
  PROVE  CoreInv'
<1>1. wq_lst[w] \subseteq Thread
  BY DEF CoreTypeOK, QueuesOK
<1>2. \A v \in WQ, u \in Thread :
        u \in wq_lst'[v] <=> IF u \in ths THEN v = WQ_READY ELSE u \in wq_lst[v]
  BY WakeupEffect
<1>3. \A u \in Thread : th_stat'[u] = IF u \in ths THEN 0 ELSE th_stat[u]
  OBVIOUS
<1>5. StatusInv'
  BY <1>2, <1>3, ZeroStat, LayoutLemma DEF CoreInv, StatusInv, Consistent
<1>6. TickInv'
  <2>1. tick.j \in Thread
    BY DEF CoreTypeOK, TickRecord
  <2> QED BY <1>2, <1>3, <2>1 DEF CoreInv, TickInv
<1>7. SchedInv'
  <2>1. CASE ths # {}
    BY <2>1 DEF SchedInv
  <2>2. CASE ths = {}
    <3>1. wq_lst'[WQ_READY] = wq_lst[WQ_READY] /\ (pendsv' <=> pendsv)
      BY <2>2, LayoutLemma DEF wakeup
    <3> QED BY <3>1 DEF CoreInv, SchedInv, wq_head
  <2> QED BY <2>1, <2>2
<1> QED BY <1>5, <1>6, <1>7 DEF CoreInv

(* __thinkos_wakeup and __thinkos_wakeup_return, of any number of threads. *)
LEMMA WakeupKeepsInv ==
  ASSUME CoreTypeOK, CoreInv, NEW w \in WQ, w \notin {WQ_READY, WQ_CLOCK},
         NEW ths, ths \subseteq wq_lst[w], Wakeup(w, ths)
  PROVE  CoreInv'
BY WakingKeepsInv DEF Wakeup, handlerVars

(* So does one that tells every thread its own result. *)
LEMMA WakeupReturnKeepsInv ==
  ASSUME CoreTypeOK, CoreInv, NEW w \in WQ, w \notin {WQ_READY, WQ_CLOCK},
         NEW told, DOMAIN told \subseteq wq_lst[w], WakeupReturn(w, told)
  PROVE  CoreInv'
<1> DEFINE ths == DOMAIN told
<1>1. /\ wq_lst' = wakeup(wq_lst, w, ths)
      /\ th_stat' = [th \in Thread |-> IF th \in ths THEN 0 ELSE th_stat[th]]
      /\ pendsv' = (pendsv \/ ths # {})
      /\ UNCHANGED <<tick, active>>
  BY DEF WakeupReturn, handlerVars
<1> HIDE DEF ths
<1> QED BY <1>1, WakingKeepsInv DEF ths

(* Every step of cm3_systick_isr keeps the core invariant. *)
LEMMA SysTickKeepsInv ==
  ASSUME Configuration, CoreTypeOK, CoreInv, SysTick
  PROVE  CoreInv'
<1>1. CASE SysTickEntry
  <2>1. tick'.pc = "scan" /\ tick'.sched = FALSE /\ tick.pc = "none"
    BY <1>1 DEF SysTickEntry
  <2>2. UNCHANGED <<wq_lst, th_stat, pendsv, active>>
    BY <1>1 DEF SysTickEntry
  <2> QED BY <2>1, <2>2
          DEF CoreInv, StatusInv, TickInv, SchedInv, Consistent, wq_head
<1>2. CASE SysTickScan
  <2> DEFINE j == Min(tick.wq)
  <2>1. UNCHANGED <<wq_lst, th_stat, pendsv, active>> /\ tick.pc = "scan"
    BY <1>2 DEF SysTickScan
  <2>2. CASE Expired(j)
    <3>1. /\ tick'.pc = "unlink" /\ tick'.sched = TRUE /\ tick'.j = j
          /\ tick'.stat = th_stat[j]
      BY <1>2, <2>2 DEF SysTickScan
    <3> QED BY <2>1, <3>1 DEF CoreInv, StatusInv, TickInv, SchedInv, Consistent
  <2>3. CASE ~Expired(j)
    <3>1. tick'.pc = "scan" /\ tick'.sched = tick.sched
      BY <1>2, <2>3 DEF SysTickScan, CoreTypeOK, TickRecord
    <3> QED BY <2>1, <3>1
            DEF CoreInv, StatusInv, TickInv, SchedInv, Consistent, wq_head
  <2> QED BY <2>2, <2>3
<1>3. CASE SysTickUnlink
  <2> DEFINE j == tick.j
             v == StatWQ(tick.stat)
  <2>1. j \in Thread /\ tick.pc = "unlink" /\ tick.sched
    BY <1>3 DEF SysTickUnlink, CoreTypeOK, TickRecord, CoreInv, TickInv
  <2>2. tick'.pc = "wakeup" /\ tick'.j = j /\ tick'.sched
    BY <1>3, <2>1 DEF SysTickUnlink, CoreTypeOK, TickRecord
  <2>3. \A u \in Thread : th_stat'[u] = IF u = j THEN 0 ELSE th_stat[u]
    BY <1>3 DEF SysTickUnlink, SetStat, CoreTypeOK
  <2>4. \A w \in WQ : wq_lst'[w] = IF w = v THEN wq_lst[w] \ {j} ELSE wq_lst[w]
    BY <1>3 DEF SysTickUnlink, CoreTypeOK, QueuesOK
  <2>5. Consistent(j)
    BY <2>1 DEF CoreInv, StatusInv
  <2>6. \A w \in WQ \ {WQ_READY, WQ_CLOCK} : j \notin wq_lst'[w]
    <3>1. CASE th_stat[j] = 0
      BY <2>4, <2>5, <3>1, ZeroStat, LayoutLemma DEF Consistent
    <3>2. CASE tick.stat = th_stat[j]
      BY <2>4, <2>5, <3>2 DEF Consistent
    <3> QED BY <2>1, <3>1, <3>2 DEF CoreInv, TickInv
  <2>7. StatusInv'
    <3>1. SUFFICES ASSUME NEW u \in Thread
          PROVE  /\ StatWQ(th_stat'[u]) = 0 => th_stat'[u] = 0
                 /\ u # j => Consistent(u)'
      BY <2>2 DEF StatusInv
    <3>2. CASE u = j
      BY <2>3, <3>2
    <3>3. CASE u # j
      <4>1. Consistent(u) /\ (StatWQ(th_stat[u]) = 0 => th_stat[u] = 0)
        BY <3>3 DEF CoreInv, StatusInv
      <4> QED BY <2>3, <2>4, <3>3, <4>1 DEF Consistent
    <3> QED BY <3>2, <3>3
  <2>8. TickInv'
    BY <2>1, <2>2, <2>3, <2>6 DEF TickInv
  <2>9. SchedInv'
    BY <2>2 DEF SchedInv
  <2> QED BY <2>7, <2>8, <2>9 DEF CoreInv
<1>4. CASE SysTickWakeup
  <2> DEFINE j == tick.j
  <2>1. j \in Thread /\ tick.pc = "wakeup" /\ tick.sched
    BY <1>4 DEF SysTickWakeup, CoreTypeOK, TickRecord, CoreInv, TickInv
  <2>2. tick'.pc = "scan" /\ tick'.sched
    BY <1>4, <2>1 DEF SysTickWakeup
  <2>3. UNCHANGED th_stat /\ wq_lst' = wakeup(wq_lst, WQ_CLOCK, {j})
    BY <1>4 DEF SysTickWakeup
  <2>4. th_stat[j] = 0 /\ \A w \in WQ \ {WQ_READY, WQ_CLOCK} : j \notin wq_lst[w]
    BY <2>1 DEF CoreInv, TickInv
  <2>5. \A w \in WQ : j \in wq_lst'[w] <=> w = WQ_READY
    BY <2>3, <2>4, LayoutLemma DEF wakeup
  <2>6. \A u \in Thread \ {j} : \A w \in WQ : u \in wq_lst'[w] <=> u \in wq_lst[w]
    BY <2>3 DEF wakeup
  <2>7. StatusInv'
    <3>1. SUFFICES ASSUME NEW u \in Thread
          PROVE  /\ StatWQ(th_stat'[u]) = 0 => th_stat'[u] = 0
                 /\ Consistent(u)'
      BY DEF StatusInv
    <3>2. CASE u = j
      <4>1. th_stat'[u] = 0 /\ \A w \in WQ : u \in wq_lst'[w] <=> w = 0
        BY <2>3, <2>4, <2>5, <3>2, LayoutLemma
      <4>2. \A w \in WQ :
              u \in wq_lst'[w] <=> (w = StatWQ(0) \/ (w = WQ_CLOCK /\ 0 % 2 = 1))
        BY <4>1, ZeroStat
      <4> QED BY <4>1, <4>2 DEF Consistent
    <3>3. CASE u # j
      <4>1. Consistent(u) /\ (StatWQ(th_stat[u]) = 0 => th_stat[u] = 0)
        BY <3>3 DEF CoreInv, StatusInv
      <4> QED BY <2>3, <2>6, <3>3, <4>1 DEF Consistent
    <3> QED BY <3>2, <3>3
  <2> QED BY <2>2, <2>7 DEF CoreInv, TickInv, SchedInv
<1>5. CASE SysTickExit
  <2>1. /\ UNCHANGED <<wq_lst, th_stat, active>>
        /\ pendsv' = TickResched
    BY <1>5 DEF SysTickExit, Configuration
  <2>3. ~pendsv' => ~pendsv /\ ~tick.sched
    BY <2>1 DEF TickResched
  <2>2. tick'.pc = "none" /\ tick'.sched = FALSE /\ tick.pc = "scan"
    BY <1>5 DEF SysTickExit, NoTick
  <2> QED BY <2>1, <2>2, <2>3
          DEF CoreInv, StatusInv, TickInv, SchedInv, Consistent, wq_head
<1> QED BY <1>1, <1>2, <1>3, <1>4, <1>5 DEF SysTick

(* Unless an interrupt handler runs, SysTick's copy stays accurate. *)
LEMMA SysTickKeepsNoIrq ==
  ASSUME CoreTypeOK, CoreInv, NoIrqInv, SysTick
  PROVE  NoIrqInv'
<1>1. CASE SysTickEntry
  BY <1>1 DEF SysTickEntry, NoIrqInv
<1>2. CASE SysTickScan
  <2> DEFINE j == Min(tick.wq)
  <2>1. j \in tick.wq /\ tick.pc = "scan" /\ UNCHANGED <<wq_lst, th_stat>>
    BY <1>2, MinLemma, ThreadLemma DEF SysTickScan, CoreTypeOK, TickRecord
  <2>2. tick.wq \subseteq wq_lst[WQ_CLOCK]
    BY <2>1 DEF NoIrqInv
  <2>3. CASE Expired(j)
    <3>1. /\ tick'.pc = "unlink" /\ tick'.j = j /\ tick'.stat = th_stat[j]
          /\ tick'.wq = tick.wq \ {j}
      BY <1>2, <2>3 DEF SysTickScan
    <3> QED BY <2>1, <2>2, <3>1 DEF NoIrqInv
  <2>4. CASE ~Expired(j)
    <3>1. tick'.pc = "scan" /\ tick'.wq = tick.wq \ {j}
      BY <1>2, <2>4 DEF SysTickScan, CoreTypeOK, TickRecord
    <3> QED BY <2>1, <2>2, <3>1 DEF NoIrqInv
  <2> QED BY <2>3, <2>4
<1>3. CASE SysTickUnlink
  <2>1. tick.pc = "unlink" /\ tick'.pc = "wakeup" /\ tick'.j = tick.j
        /\ tick'.wq = tick.wq
    BY <1>3 DEF SysTickUnlink, CoreTypeOK, TickRecord
  <2>2. wq_lst'[WQ_CLOCK] \in {wq_lst[WQ_CLOCK], wq_lst[WQ_CLOCK] \ {tick.j}}
    BY <1>3, LayoutLemma DEF SysTickUnlink, CoreTypeOK, QueuesOK
  <2> QED BY <2>1, <2>2 DEF NoIrqInv
<1>4. CASE SysTickWakeup
  <2>1. tick.pc = "wakeup" /\ tick'.pc = "scan" /\ tick'.wq = tick.wq
    BY <1>4 DEF SysTickWakeup
  <2>2. wq_lst'[WQ_CLOCK] = wq_lst[WQ_CLOCK] \ {tick.j}
    BY <1>4, LayoutLemma DEF SysTickWakeup, wakeup
  <2> QED BY <2>1, <2>2 DEF NoIrqInv
<1>5. CASE SysTickExit
  BY <1>5 DEF SysTickExit, NoTick, NoIrqInv
<1> QED BY <1>1, <1>2, <1>3, <1>4, <1>5 DEF SysTick

(* Every step of the core keeps the core invariant. *)
LEMMA CoreStepKeepsInv ==
  ASSUME Configuration, CoreTypeOK, CoreInv, CoreStep
  PROVE  CoreInv'
<1>1. CASE PendSV
  <2>1. UNCHANGED <<wq_lst, th_stat, tick>> /\ active' = wq_head(WQ_READY)
    BY <1>1 DEF PendSV
  <2> QED BY <2>1 DEF CoreInv, StatusInv, TickInv, SchedInv, Consistent, wq_head
<1>2. CASE SysTick
  BY <1>2, SysTickKeepsInv
<1>3. ASSUME NEW t \in Thread, NEW op, NEW end, ClockWait(t, op, end)
      PROVE  CoreInv'
  <2>1. Running(t)
    BY <1>3 DEF ClockWait, Calls
  <2> QED BY <1>3, <2>1, WaitKeepsInv, LayoutLemma
          DEF ClockWait, Blocked, handlerVars
<1>4. ASSUME NEW t \in Thread, thinkos_yield(t)
      PROVE  CoreInv'
  BY <1>4 DEF thinkos_yield, handlerVars, CoreInv, StatusInv, TickInv, SchedInv,
              Consistent, wq_head
<1>5. ASSUME NEW t \in Thread, CallReturn(t)
      PROVE  CoreInv'
  BY <1>5 DEF CallReturn, handlerVars, CoreInv, StatusInv, TickInv, SchedInv,
              Consistent, wq_head
<1> QED BY <1>1, <1>2, <1>3, <1>4, <1>5
        DEF CoreStep, thinkos_sleep_svc, thinkos_alarm_svc, CoreReturn

(* The core invariant holds initially. *)
LEMMA CoreInitInv ==
  ASSUME CoreInit
  PROVE  NoIrqInv /\ CoreInv
<1>1. tick.pc = "none" /\ ~tick.sched /\ pendsv = TRUE
  BY DEF CoreInit, NoTick
<1>2. \A t \in Thread : th_stat[t] = 0 /\ \A w \in WQ : t \in wq_lst[w] <=> w = 0
  BY LayoutLemma DEF CoreInit
<1>3. ASSUME NEW t \in Thread
      PROVE  Consistent(t)
  <2>1. \A w \in WQ : t \in wq_lst[w] <=> (w = StatWQ(0) \/ (w = WQ_CLOCK /\ 0 % 2 = 1))
    BY <1>2, ZeroStat
  <2> QED BY <1>2, <2>1 DEF Consistent
<1> QED BY <1>1, <1>2, <1>3
        DEF CoreInv, StatusInv, TickInv, SchedInv, NoIrqInv

(* The core invariant implies the two properties the runs check. *)
LEMMA CoreInvImplies ==
  ASSUME CoreTypeOK, CoreInv
  PROVE  StatusNamesQueue /\ HighestReadyRuns
<1>1. StatusNamesQueue
  <2>1. SUFFICES ASSUME NEW t \in Thread, ~Expiring(t), NEW w \in WQ
                 PROVE  (t \in wq_lst[w])
                          <=> (w = StatWQ(th_stat[t])
                                 \/ (w = WQ_CLOCK /\ th_stat[t] % 2 = 1))
    BY DEF StatusNamesQueue
  <2>2. Consistent(t)
    BY <2>1 DEF CoreInv, StatusInv, Expiring
  <2> QED BY <2>2 DEF Consistent
<1>2. HighestReadyRuns
  BY DEF HighestReadyRuns, CoreInv, SchedInv, TickInv
<1> QED BY <1>1, <1>2

(***************************************************************************)
(* Without time sharing, and with queue indices that fit the status byte,  *)
(* the status byte of every thread names its queue, and thread code only   *)
(* executes in the most urgent ready thread, for any number of threads and *)
(* any tick counter width (thinkos_core.c, thinkos_sleep.c).               *)
(***************************************************************************)
THEOREM CoreScheduling ==
  ASSUME Configuration
  PROVE  CoreSpec => [](StatusNamesQueue /\ HighestReadyRuns)
<1> DEFINE I == CoreTypeOK /\ CoreInv
<1>1. CoreInit => I
  BY CoreInitType, CoreInitInv
<1>2. I /\ [CoreStep]_coreVars => I'
  <2>1. SUFFICES ASSUME I, [CoreStep]_coreVars PROVE I'
    OBVIOUS
  <2>2. CASE CoreStep
    BY <2>1, <2>2, CoreStepKeepsType, CoreStepKeepsInv
  <2>3. CASE UNCHANGED coreVars
    BY <2>1, <2>3 DEF coreVars, CoreTypeOK, QueuesOK, CoreInv, StatusInv, TickInv,
                      SchedInv, Consistent, wq_head
  <2> QED BY <2>1, <2>2, <2>3
<1>3. I => StatusNamesQueue /\ HighestReadyRuns
  BY CoreInvImplies
<1> QED BY <1>1, <1>2, <1>3, PTL DEF CoreSpec

--------------------------------------------------------------------------------
(***************************************************************************)
(* Lemmas for the objects' modules, in every configuration.                *)
(***************************************************************************)

(* The objects' queues follow one another and are none of the core's. *)
LEMMA ObjectLayout ==
  /\ SEM_BASE \in Nat /\ EVENT_BASE \in Nat /\ FLAG_BASE \in Nat /\ JOIN_BASE \in Nat
  /\ MUTEX_BASE <= SEM_BASE
  /\ SEM_BASE + SEMAPHORE_MAX = EVENT_BASE
  /\ EVENT_BASE + EVENT_MAX = FLAG_BASE
  /\ FLAG_BASE + FLAG_MAX = JOIN_BASE
  /\ JOIN_BASE <= WQ_LST_END
  /\ ENABLE_JOIN => JOIN_BASE + THREADS_MAX = WQ_LST_END
  /\ ObjectWQ \subseteq WQ
  /\ WQ_READY \notin ObjectWQ /\ WQ_CLOCK \notin ObjectWQ
  /\ ENABLE_TIMESHARE => WQ_TMSHARE \notin ObjectWQ /\ WQ_TMSHARE # WQ_CLOCK
BY CoreAssumption DEF WQ_LST_END, JOIN_BASE, FLAG_BASE, EVENT_BASE, SEM_BASE,
   COND_BASE, MUTEX_BASE, WQ_CLOCK, WQ_PAUSED, WQ_CANCELED, WQ_TMSHARE,
   WQ_READY, WQ, ObjectWQ, Slot

(* thinkos_bmp_alloc returns a free object or -1. *)
LEMMA AllocLemma ==
  ASSUME NEW S, S \subseteq Nat, NEW alloc
  PROVE  bmp_alloc(S, alloc) = NONE \/ bmp_alloc(S, alloc) \in S \ alloc
<1>1. CASE S \subseteq alloc
  BY <1>1 DEF bmp_alloc
<1>2. CASE ~(S \subseteq alloc)
  BY <1>2, MinLemma DEF bmp_alloc
<1> QED BY <1>1, <1>2

(* A queue has a head exactly if it is not empty. *)
LEMMA HeadNull ==
  ASSUME QueuesOK(wq_lst), NEW w \in WQ, w # WQ_READY
  PROVE  wq_head(w) = THREAD_NULL <=> wq_lst[w] = {}
BY HeadMember, ThreadLemma DEF wq_head, LowestBit

(* The wait of the semaphores and event sets keeps the queues well formed, *)
LEMMA UnlessEmptyType ==
  ASSUME NEW q, QueuesOK(q), NEW t \in Thread
  PROVE  QueuesOK(wait_unless_empty(q, t))
<1>1. QueuesOK([q EXCEPT ![WQ_READY] = @ \ {t}])
  BY LayoutLemma, ThreadLemma DEF QueuesOK
<1> QED BY <1>1, CollectType DEF wait_unless_empty

(* and without time sharing is that of the other objects. *)
LEMMA UnlessEmptyIsWait ==
  ASSUME Configuration, NEW q, NEW t
  PROVE  wait_unless_empty(q, t) = wait(q, t)
BY DEF wait_unless_empty, wait, collect, Configuration

(* __thinkos_wakeup_return keeps the types. *)
LEMMA WakeupReturnKeepsType ==
  ASSUME CoreTypeOK, NEW w \in WQ, NEW told, DOMAIN told \subseteq Thread,
         \A u \in DOMAIN told : told[u] \in Int, WakeupReturn(w, told)
  PROVE  CoreTypeOK'
<1> DEFINE ths == DOMAIN told
           written == [th \in Thread |-> IF th \in ths THEN told[th] ELSE r0[th]]
<1>1. QueuesOK(wq_lst')
  BY WakeupType DEF WakeupReturn, CoreTypeOK
<1>2. r0' \in [Thread -> Int]
  <2>1. written \in [Thread -> Int]
    BY DEF CoreTypeOK
  <2>2. r0' \in {written, [written EXCEPT ![active] = r0[active]]}
    BY DEF WakeupReturn
  <2>3. active \in Thread => r0[active] \in Int
    BY DEF CoreTypeOK
  <2> HIDE DEF written
  <2> QED BY <2>1, <2>2, <2>3
<1>3. th_stat' \in [Thread -> 0 .. 255]
  BY DEF WakeupReturn, CoreTypeOK
<1> QED BY <1>1, <1>2, <1>3 DEF WakeupReturn, CoreTypeOK, handlerVars, QueuesOK

(* A call that blocks t on w puts t in that object's queue and no other. *)
LEMMA BlockQueues ==
  ASSUME QueuesOK(wq_lst), NEW t \in Thread, NEW w \in ObjectWQ,
         \/ wq_lst' = wait(wq_insert(wq_lst, w, t), t)
         \/ wq_lst' = wait(tmdwq_insert(wq_lst, w, t), t)
         \/ wq_lst' = wait_unless_empty(wq_insert(wq_lst, w, t), t)
         \/ wq_lst' = wait_unless_empty(tmdwq_insert(wq_lst, w, t), t)
  PROVE  \A v \in ObjectWQ :
           wq_lst'[v] = IF v = w THEN wq_lst[v] \cup {t} ELSE wq_lst[v]
<1>1. ASSUME NEW q, QueuesOK(q)
      PROVE  /\ \A v \in ObjectWQ : wait(q, t)[v] = q[v]
             /\ \A v \in ObjectWQ : wait_unless_empty(q, t)[v] = q[v]
  <2> DEFINE p == [q EXCEPT ![WQ_READY] = @ \ {t}]
  <2>1. p \in [WQ -> SUBSET (Thread \cup IdleBit)]
    BY <1>1 DEF QueuesOK
  <2>2. \A v \in ObjectWQ : p[v] = q[v]
    BY <1>1, ObjectLayout DEF QueuesOK
  <2>3. ASSUME NEW e PROVE \A v \in ObjectWQ : collect(p, e)[v] = p[v]
    <3> HIDE DEF p
    <3> QED BY <2>1, ObjectLayout DEF collect
  <2> QED BY <2>2, <2>3 DEF wait, wait_unless_empty
<1>2. /\ QueuesOK(wq_insert(wq_lst, w, t)) /\ QueuesOK(tmdwq_insert(wq_lst, w, t))
  BY InsertType, ObjectLayout
<1>3. \A v \in ObjectWQ :
        /\ wq_insert(wq_lst, w, t)[v]
             = IF v = w THEN wq_lst[v] \cup {t} ELSE wq_lst[v]
        /\ tmdwq_insert(wq_lst, w, t)[v]
             = IF v = w THEN wq_lst[v] \cup {t} ELSE wq_lst[v]
  <2> DEFINE p == wq_insert(wq_lst, w, t)
  <2>1. p \in [WQ -> SUBSET (Thread \cup IdleBit)]
    BY <1>2 DEF QueuesOK
  <2>2. \A v \in WQ : p[v] = IF v = w THEN wq_lst[v] \cup {t} ELSE wq_lst[v]
    BY DEF wq_insert, QueuesOK
  <2>3. \A v \in ObjectWQ : wq_insert(p, WQ_CLOCK, t)[v] = p[v]
    <3> HIDE DEF p
    <3> QED BY <2>1, ObjectLayout DEF wq_insert
  <2> HIDE DEF p
  <2>4. \A v \in ObjectWQ : p[v] = IF v = w THEN wq_lst[v] \cup {t} ELSE wq_lst[v]
    BY <2>2, ObjectLayout
  <2> QED BY <2>3, <2>4 DEF p, tmdwq_insert
<1> QED BY <1>1, <1>2, <1>3

(* A wakeup takes the threads out of that object's queue and no other. *)
LEMMA WakeupQueues ==
  ASSUME NEW w \in WQ, NEW ths, wq_lst' = wakeup(wq_lst, w, ths)
  PROVE  \A v \in ObjectWQ :
           wq_lst'[v] = IF v = w THEN wq_lst[v] \ ths ELSE wq_lst[v]
BY ObjectLayout DEF wakeup

(* The clock interrupt never puts a thread in an object's queue, *)
LEMMA SysTickQueues ==
  ASSUME CoreTypeOK, SysTick
  PROVE  \A v \in ObjectWQ : wq_lst'[v] \subseteq wq_lst[v]
<1>1. CASE SysTickEntry \/ SysTickScan
  BY <1>1 DEF SysTickEntry, SysTickScan
<1>2. CASE SysTickUnlink
  BY <1>2, ObjectLayout DEF SysTickUnlink, CoreTypeOK, QueuesOK
<1>3. CASE SysTickWakeup
  BY <1>3, ObjectLayout DEF SysTickWakeup, wakeup
<1>4. CASE SysTickExit
  <2>1. CASE UNCHANGED wq_lst
    BY <2>1
  <2>2. CASE ENABLE_TIMESHARE /\ EndTimeslice
    <3> DEFINE p == [wq_lst EXCEPT ![WQ_TMSHARE] = @ \cup {active},
                                   ![WQ_READY] = @ \ {active}]
    <3>1. \A v \in ObjectWQ : p[v] = wq_lst[v]
      BY <2>2, ObjectLayout DEF CoreTypeOK, QueuesOK
    <3>2. DOMAIN p = WQ /\ p = [v \in WQ |-> p[v]]
      BY DEF CoreTypeOK, QueuesOK
    <3>3. \A v \in ObjectWQ : collect(p, IdleBit)[v] = p[v]
      <4> HIDE DEF p
      <4> QED BY <2>2, <3>2, ObjectLayout DEF collect
    <3> QED BY <2>2, <3>1, <3>3 DEF EndTimeslice
  <2> QED BY <1>4, <2>1, <2>2 DEF SysTickExit
<1> QED BY <1>1, <1>2, <1>3, <1>4 DEF SysTick

(* and neither does any other step of the core. *)
LEMMA CoreStepQueues ==
  ASSUME CoreTypeOK, CoreStep
  PROVE  \A v \in ObjectWQ : wq_lst'[v] \subseteq wq_lst[v]
<1>1. CASE SysTick
  BY <1>1, SysTickQueues
<1>2. ASSUME NEW t \in Thread, NEW op, NEW end, ClockWait(t, op, end)
      PROVE  \A v \in ObjectWQ : wq_lst'[v] \subseteq wq_lst[v]
  <2> DEFINE p == wq_insert(wq_lst, WQ_CLOCK, t)
             r == [p EXCEPT ![WQ_READY] = @ \ {t}]
  <2>1. QueuesOK(p)
    BY InsertType, LayoutLemma DEF CoreTypeOK
  <2>2. \A v \in ObjectWQ : p[v] = wq_lst[v]
    BY ObjectLayout DEF wq_insert, CoreTypeOK, QueuesOK
  <2>3. \A v \in ObjectWQ : r[v] = p[v]
    <3> HIDE DEF p
    <3> QED BY <2>1, ObjectLayout DEF QueuesOK
  <2>4. r \in [WQ -> SUBSET (Thread \cup IdleBit)]
    <3> HIDE DEF p
    <3> QED BY <2>1 DEF QueuesOK
  <2>5. \A v \in ObjectWQ : collect(r, IdleBit)[v] = r[v]
    <3> HIDE DEF r
    <3> QED BY <2>4, ObjectLayout DEF collect
  <2>6. wq_lst' = collect(r, IdleBit)
    BY <1>2 DEF ClockWait, wait
  <2> QED BY <2>2, <2>3, <2>5, <2>6
<1>3. CASE PendSV \/ \E t \in Thread : thinkos_yield(t) \/ CoreReturn(t)
  BY <1>3 DEF PendSV, thinkos_yield, CoreReturn, CallReturn
<1> QED BY <1>1, <1>2, <1>3 DEF CoreStep, thinkos_sleep_svc, thinkos_alarm_svc

--------------------------------------------------------------------------------
(***************************************************************************)
(* Timeouts, in every configuration: what the clock interrupt has still to *)
(* look at while its loop runs.                                            *)
(***************************************************************************)
TimeoutInv ==
  tick.pc # "none" =>
    \A t \in wq_lst[WQ_CLOCK] : t \in tick.wq \/ Expiring(t) \/ TicksLeft(t) > 0

(* The time left is an integer, whatever the width of the tick counter. *)
LEMMA TicksLeftType ==
  ASSUME CoreTypeOK, NEW t \in Thread
  PROVE  TicksLeft(t) \in Int
<1>1. clock[t] \in Int /\ ticks \in Int /\ CLOCK_MOD \in Nat \ {0}
  BY CoreAssumption DEF CoreTypeOK
<1>2. (clock[t] - ticks) % CLOCK_MOD \in Int
  BY <1>1
<1> QED BY <1>1, <1>2 DEF TicksLeft

(* Whoever only takes threads out of the clock queue keeps the invariant. *)
LEMMA QuietKeepsTimeout ==
  ASSUME TimeoutInv, UNCHANGED <<tick, ticks, clock>>,
         wq_lst'[WQ_CLOCK] \subseteq wq_lst[WQ_CLOCK]
  PROVE  TimeoutInv'
BY DEF TimeoutInv, Expiring, TicksLeft

(* So does whoever runs while the handler does not. *)
LEMMA ThreadKeepsTimeout ==
  ASSUME tick.pc = "none", UNCHANGED tick
  PROVE  TimeoutInv'
BY DEF TimeoutInv

(* Every step of cm3_systick_isr keeps the invariant, *)
LEMMA SysTickKeepsTimeout ==
  ASSUME CoreTypeOK, TimeoutInv, SysTick
  PROVE  TimeoutInv'
<1>1. CASE SysTickEntry
  BY <1>1 DEF SysTickEntry, TimeoutInv
<1>2. CASE SysTickScan
  <2> DEFINE j == Min(tick.wq)
  <2>1. /\ UNCHANGED <<wq_lst, ticks, clock>> /\ tick.pc = "scan"
        /\ j \in Thread
    BY <1>2, MinLemma, ThreadLemma DEF SysTickScan, CoreTypeOK, TickRecord
  <2>2. \A t \in wq_lst[WQ_CLOCK] : t \in tick.wq \/ TicksLeft(t) > 0
    BY <2>1 DEF TimeoutInv, Expiring
  <2>3. \A t \in wq_lst[WQ_CLOCK] : TicksLeft(t)' = TicksLeft(t)
    BY <2>1 DEF TicksLeft
  <2>4. CASE Expired(j)
    <3>1. tick'.pc = "unlink" /\ tick'.wq = tick.wq \ {j} /\ tick'.j = j
      BY <1>2, <2>4 DEF SysTickScan
    <3> QED BY <2>1, <2>2, <2>3, <3>1 DEF TimeoutInv, Expiring
  <2>5. CASE ~Expired(j)
    <3>1. tick'.pc = "scan" /\ tick'.wq = tick.wq \ {j}
      BY <1>2, <2>5 DEF SysTickScan, CoreTypeOK, TickRecord
    <3>2. TicksLeft(j) > 0
      BY <2>1, <2>5, TicksLeftType DEF Expired
    <3> QED BY <2>1, <2>2, <2>3, <3>1, <3>2 DEF TimeoutInv
  <2> QED BY <2>4, <2>5
<1>3. CASE SysTickUnlink
  <2>1. /\ tick.pc = "unlink" /\ tick'.pc = "wakeup" /\ tick'.j = tick.j
        /\ tick'.wq = tick.wq
        /\ UNCHANGED <<ticks, clock>>
    BY <1>3 DEF SysTickUnlink, CoreTypeOK, TickRecord
  <2>2. wq_lst'[WQ_CLOCK] \subseteq wq_lst[WQ_CLOCK]
    BY <1>3, LayoutLemma DEF SysTickUnlink, CoreTypeOK, QueuesOK
  <2> QED BY <2>1, <2>2 DEF TimeoutInv, Expiring, TicksLeft
<1>4. CASE SysTickWakeup
  <2>1. /\ tick.pc = "wakeup" /\ tick'.pc = "scan" /\ tick'.wq = tick.wq
        /\ UNCHANGED <<ticks, clock>>
    BY <1>4 DEF SysTickWakeup
  <2>2. wq_lst'[WQ_CLOCK] = wq_lst[WQ_CLOCK] \ {tick.j}
    BY <1>4, LayoutLemma DEF SysTickWakeup, wakeup
  <2> QED BY <2>1, <2>2 DEF TimeoutInv, Expiring, TicksLeft
<1>5. CASE SysTickExit
  BY <1>5 DEF SysTickExit, NoTick, TimeoutInv
<1> QED BY <1>1, <1>2, <1>3, <1>4, <1>5 DEF SysTick

(* and when the handler returns, no thread in the clock queue has expired. *)
LEMMA SysTickExitTimeout ==
  ASSUME CoreTypeOK, TimeoutInv, SysTick, tick.pc # "none", tick'.pc = "none"
  PROVE  \A t \in wq_lst'[WQ_CLOCK] : TicksLeft(t)' > 0
<1>1. SysTickExit
  BY DEF SysTick, SysTickEntry, SysTickScan, SysTickUnlink, SysTickWakeup,
         CoreTypeOK, TickRecord
<1>2. tick.pc = "scan" /\ tick.wq = {} /\ UNCHANGED <<ticks, clock>>
  BY <1>1 DEF SysTickExit
<1>3. wq_lst'[WQ_CLOCK] = wq_lst[WQ_CLOCK]
  <2>1. CASE UNCHANGED wq_lst
    BY <2>1
  <2>2. CASE ENABLE_TIMESHARE /\ EndTimeslice
    <3>1. WQ_CLOCK \in WQ /\ WQ_CLOCK # WQ_READY /\ WQ_CLOCK # WQ_TMSHARE
      BY <2>2, LayoutLemma, CoreAssumption
         DEF WQ_CLOCK, WQ_PAUSED, WQ_CANCELED, WQ_TMSHARE, Slot
    <3> QED BY <2>2, <3>1 DEF EndTimeslice, collect, CoreTypeOK, QueuesOK
  <2> QED BY <1>1, <2>1, <2>2 DEF SysTickExit
<1>4. \A t \in wq_lst[WQ_CLOCK] : TicksLeft(t) > 0
  BY <1>2 DEF TimeoutInv, Expiring
<1> QED BY <1>2, <1>3, <1>4 DEF TicksLeft

(* A step of the core outside SysTick leaves the handler alone. *)
LEMMA CoreStepTick ==
  ASSUME CoreStep
  PROVE  SysTick \/ (tick.pc = "none" /\ UNCHANGED tick)
BY DEF CoreStep, PendSV, thinkos_sleep_svc, thinkos_alarm_svc, ClockWait,
       thinkos_yield, CoreReturn, CallReturn, Calls, Running, handlerVars

(***************************************************************************)
(* A clock interrupt leaves no expired thread behind, for any number of    *)
(* threads, any counter width, with time sharing or without it             *)
(* (cm3_systick_isr with thinkos_sleep_svc and thinkos_alarm_svc).         *)
(***************************************************************************)
THEOREM CoreTimeouts == CoreSpec => NoMissedTimeout
<1> DEFINE I == CoreTypeOK /\ TimeoutInv
           A == tick.pc # "none" /\ tick'.pc = "none" =>
                  \A t \in wq_lst'[WQ_CLOCK] : TicksLeft(t)' > 0
<1>1. CoreInit => I
  BY CoreInitType DEF CoreInit, NoTick, TimeoutInv
<1>2. I /\ [CoreStep]_coreVars => I' /\ [A]_coreVars
  <2>1. SUFFICES ASSUME I, [CoreStep]_coreVars PROVE I' /\ [A]_coreVars
    OBVIOUS
  <2>2. CASE CoreStep
    <3>1. CoreTypeOK'
      BY <2>1, <2>2, CoreStepKeepsType
    <3>2. CASE SysTick
      BY <2>1, <3>1, <3>2, SysTickKeepsTimeout, SysTickExitTimeout
    <3>3. CASE tick.pc = "none" /\ UNCHANGED tick
      BY <3>1, <3>3, ThreadKeepsTimeout
    <3> QED BY <2>2, <3>2, <3>3, CoreStepTick
  <2>3. CASE UNCHANGED coreVars
    <3>1. CoreTypeOK'
      BY <2>1, <2>3 DEF coreVars, CoreTypeOK, QueuesOK
    <3>2. TimeoutInv'
      BY <2>1, <2>3, QuietKeepsTimeout DEF coreVars
    <3> QED BY <2>3, <3>1, <3>2
  <2> QED BY <2>1, <2>2, <2>3
<1> QED BY <1>1, <1>2, PTL DEF CoreSpec, NoMissedTimeout

--------------------------------------------------------------------------------
(***************************************************************************)
(* Strict priority, in every configuration: the scheduler is due whenever  *)
(* the wrong thread has the CPU, whatever the status bytes say.            *)
(***************************************************************************)
PriorityInv ==
  /\ tick.pc = "none" => ~tick.sched
  /\ tick.pc \in {"unlink", "wakeup"} => tick.sched
  /\ SchedInv

(* Whoever leaves the ready queue alone, or requests the scheduler, keeps  *)
(* the invariant;                                                          *)
LEMMA QuietKeepsPriority ==
  ASSUME PriorityInv, UNCHANGED <<tick, active>>,
         pendsv' = TRUE \/ (pendsv' = pendsv /\ wq_lst'[WQ_READY] = wq_lst[WQ_READY])
  PROVE  PriorityInv'
BY DEF PriorityInv, SchedInv, wq_head

(* whoever wakes threads up requests it, if there are any. *)
LEMMA WakeupKeepsPriority ==
  ASSUME CoreTypeOK, PriorityInv, NEW w, NEW ths,
         wq_lst' = wakeup(wq_lst, w, ths), pendsv' = (pendsv \/ ths # {}),
         UNCHANGED <<tick, active>>
  PROVE  PriorityInv'
<1>1. wq_lst'[WQ_READY] = wq_lst[WQ_READY] \cup ths
  BY LayoutLemma DEF wakeup
<1>2. CASE ths = {}
  BY <1>1, <1>2, QuietKeepsPriority DEF CoreTypeOK
<1>3. CASE ths # {}
  BY <1>3, QuietKeepsPriority
<1> QED BY <1>2, <1>3

(* Every step of cm3_systick_isr keeps the invariant, *)
LEMMA SysTickKeepsPriority ==
  ASSUME CoreTypeOK, PriorityInv, SysTick
  PROVE  PriorityInv'
<1>1. CASE SysTickEntry
  BY <1>1 DEF SysTickEntry, PriorityInv, SchedInv, wq_head
<1>2. CASE SysTickScan
  BY <1>2 DEF SysTickScan, PriorityInv, SchedInv, wq_head, CoreTypeOK, TickRecord
<1>3. CASE SysTickUnlink
  BY <1>3 DEF SysTickUnlink, PriorityInv, SchedInv, CoreTypeOK, TickRecord
<1>4. CASE SysTickWakeup
  BY <1>4 DEF SysTickWakeup, PriorityInv, SchedInv
<1>5. CASE SysTickExit
  <2>1. CASE pendsv' = TickResched /\ UNCHANGED wq_lst
    BY <1>5, <2>1
       DEF SysTickExit, PriorityInv, SchedInv, wq_head, TickResched, NoTick
  <2>2. CASE EndTimeslice
    BY <1>5, <2>2 DEF SysTickExit, EndTimeslice, PriorityInv, SchedInv, NoTick
  <2> QED BY <1>5, <2>1, <2>2 DEF SysTickExit
<1> QED BY <1>1, <1>2, <1>3, <1>4, <1>5 DEF SysTick

(* and so does every other step of the core. *)
LEMMA CoreStepKeepsPriority ==
  ASSUME CoreTypeOK, PriorityInv, CoreStep
  PROVE  PriorityInv'
<1>1. CASE PendSV
  BY <1>1 DEF PendSV, PriorityInv, SchedInv, wq_head
<1>2. CASE SysTick
  BY <1>2, SysTickKeepsPriority
<1>3. ASSUME NEW t \in Thread, NEW op, NEW end, ClockWait(t, op, end)
      PROVE  PriorityInv'
  BY <1>3, QuietKeepsPriority DEF ClockWait, Blocked, handlerVars
<1>4. ASSUME NEW t \in Thread, thinkos_yield(t) \/ CoreReturn(t)
      PROVE  PriorityInv'
  BY <1>4, QuietKeepsPriority DEF thinkos_yield, CoreReturn, CallReturn, handlerVars
<1> QED BY <1>1, <1>2, <1>3, <1>4 DEF CoreStep, thinkos_sleep_svc, thinkos_alarm_svc

(* It holds at first, and is what thread code relies on. *)
LEMMA PriorityInvLemma ==
  /\ CoreInit => PriorityInv
  /\ PriorityInv => HighestReadyRuns
BY DEF CoreInit, NoTick, PriorityInv, SchedInv, HighestReadyRuns

(***************************************************************************)
(* Strict priority for any number of threads, with time sharing or without *)
(* it and whatever fits the status byte: thread code only executes in the  *)
(* first thread of the ready queue (cm3_pendsv_isr, cm3_systick_isr,       *)
(* thinkos_sleep_svc, thinkos_alarm_svc, thinkos_yield).                   *)
(***************************************************************************)
THEOREM CorePriority == CoreSpec => []HighestReadyRuns
<1> DEFINE I == CoreTypeOK /\ PriorityInv
<1>1. CoreInit => I
  BY CoreInitType, PriorityInvLemma
<1>2. I /\ [CoreStep]_coreVars => I'
  <2>1. CASE CoreStep
    BY <2>1, CoreStepKeepsType, CoreStepKeepsPriority
  <2>2. CASE UNCHANGED coreVars
    BY <2>2, QuietKeepsPriority DEF coreVars, CoreTypeOK, QueuesOK
  <2> QED BY <2>1, <2>2
<1>3. I => HighestReadyRuns
  BY PriorityInvLemma
<1> QED BY <1>1, <1>2, <1>3, PTL DEF CoreSpec

--------------------------------------------------------------------------------
(***************************************************************************)
(* Time-share turns. What the clock interrupt needs of the threads in its  *)
(* queue so as not to take a thread out of the ready queue: their status   *)
(* names another one. With queue indices that fit the status byte.         *)
(***************************************************************************)
StatusByteFits == WQ_LST_END <= 128

ClockStatus ==
  /\ \A t \in wq_lst[WQ_CLOCK] :
       ~(tick.pc = "wakeup" /\ tick.j = t) => StatWQ(th_stat[t]) # WQ_READY
  /\ tick.pc # "none" => tick.wq \subseteq wq_lst[WQ_CLOCK]
  /\ tick.pc \in {"unlink", "wakeup"} => tick.j \notin tick.wq
  /\ tick.pc = "unlink" => StatWQ(tick.stat) # WQ_READY

(* The queue a blocking call names is not the ready queue. *)
LEMMA FitStat ==
  ASSUME StatusByteFits, NEW w \in WQ, w # WQ_READY, NEW b \in {0, 1}
  PROVE  StatWQ(Stat(w, b)) # WQ_READY
BY LayoutLemma DEF StatusByteFits, Stat, StatWQ, WQ, WQ_READY

(* The time-share queue is neither of the two others. *)
LEMMA TmshareLayout ==
  ASSUME ENABLE_TIMESHARE
  PROVE  /\ WQ_TMSHARE \in WQ /\ WQ_TMSHARE # WQ_READY /\ WQ_TMSHARE # WQ_CLOCK
         /\ WQ_TMSHARE \notin ObjectWQ
BY LayoutLemma, ObjectLayout, CoreAssumption
   DEF WQ, ObjectWQ, MUTEX_BASE, WQ_CLOCK, WQ_PAUSED, WQ_CANCELED, WQ_TMSHARE, WQ_READY,
       Slot

(* collect leaves nobody behind in the time-share queue of an idle CPU, *)
LEMMA CollectIdle ==
  ASSUME NEW q, QueuesOK(q), wq_lst' = collect(q, IdleBit)
  PROVE  IdleMeansNobodyWaits' /\ wq_lst'[WQ_CLOCK] = q[WQ_CLOCK]
<1>1. CASE ~ENABLE_TIMESHARE
  BY <1>1 DEF IdleMeansNobodyWaits, collect
<1>2. CASE ENABLE_TIMESHARE
  BY <1>2, LayoutLemma, TmshareLayout DEF IdleMeansNobodyWaits, collect, QueuesOK
<1> QED BY <1>1, <1>2

(* which is how a thread leaves the ready queue, *)
LEMMA WaitIdle ==
  ASSUME NEW q, QueuesOK(q), NEW t \in Thread, wq_lst' = wait(q, t)
  PROVE  IdleMeansNobodyWaits' /\ wq_lst'[WQ_CLOCK] = q[WQ_CLOCK]
<1> DEFINE r == [q EXCEPT ![WQ_READY] = @ \ {t}]
<1>1. QueuesOK(r)
  BY LayoutLemma, ThreadLemma DEF QueuesOK
<1>2. r[WQ_CLOCK] = q[WQ_CLOCK] /\ wq_lst' = collect(r, IdleBit)
  BY LayoutLemma DEF wait, QueuesOK
<1> HIDE DEF r
<1> QED BY <1>1, <1>2, CollectIdle

(* and a wakeup makes the CPU busy if it wakes anybody up. *)
LEMMA WakeupIdle ==
  ASSUME CoreTypeOK, IdleMeansNobodyWaits, NEW w, w \in ObjectWQ \cup {WQ_CLOCK},
         NEW ths, ths \subseteq Thread, wq_lst' = wakeup(wq_lst, w, ths)
  PROVE  IdleMeansNobodyWaits' /\ wq_lst'[WQ_CLOCK] = wq_lst[WQ_CLOCK] \ ths
<1>1. /\ wq_lst'[WQ_READY] = wq_lst[WQ_READY] \cup ths
      /\ wq_lst'[WQ_CLOCK] = wq_lst[WQ_CLOCK] \ ths
      /\ ENABLE_TIMESHARE => wq_lst'[WQ_TMSHARE] = wq_lst[WQ_TMSHARE]
  BY LayoutLemma, TmshareLayout DEF wakeup
<1>2. wq_lst'[WQ_READY] = IdleBit => wq_lst[WQ_READY] = IdleBit
  BY <1>1, ThreadLemma, LayoutLemma DEF CoreTypeOK, QueuesOK
<1> QED BY <1>1, <1>2 DEF IdleMeansNobodyWaits

(* A call that blocks with a status of its own, or wakes up whom it resets, *)
(* keeps what the clock interrupt needs.                                    *)
LEMMA CallKeepsClockStatus ==
  ASSUME ClockStatus, tick.pc = "none", UNCHANGED tick,
         \A u \in wq_lst'[WQ_CLOCK] :
           \/ u \in wq_lst[WQ_CLOCK] /\ th_stat'[u] = th_stat[u]
           \/ StatWQ(th_stat'[u]) # WQ_READY
  PROVE  ClockStatus'
BY DEF ClockStatus

(* Every step of cm3_systick_isr keeps both. *)
LEMMA SysTickKeepsIdle ==
  ASSUME CoreTypeOK, ClockStatus, IdleMeansNobodyWaits, SysTick
  PROVE  ClockStatus' /\ IdleMeansNobodyWaits'
<1>0. /\ wq_lst[WQ_CLOCK] \subseteq Thread /\ tick.wq \subseteq Thread
      /\ tick.j \in Thread
  BY LayoutLemma DEF CoreTypeOK, QueuesOK, TickRecord
<1>1. CASE SysTickEntry
  BY <1>1 DEF SysTickEntry, ClockStatus, IdleMeansNobodyWaits
<1>2. CASE SysTickScan
  <2> DEFINE j == Min(tick.wq)
  <2>1. /\ j \in tick.wq /\ tick.pc = "scan"
        /\ UNCHANGED <<wq_lst, th_stat>>
        /\ \/ tick' = [pc |-> "unlink", wq |-> tick.wq \ {j}, j |-> j,
                       stat |-> th_stat[j], sched |-> TRUE]
           \/ tick' = [tick EXCEPT !.wq = @ \ {j}]
    BY <1>0, <1>2, MinLemma, ThreadLemma DEF SysTickScan
  <2> HIDE DEF j
  <2>2. StatWQ(th_stat[j]) # WQ_READY
    BY <2>1 DEF ClockStatus
  <2>3. ClockStatus'
    BY <2>1, <2>2 DEF ClockStatus, CoreTypeOK, TickRecord
  <2> QED BY <2>1, <2>3 DEF IdleMeansNobodyWaits
<1>3. CASE SysTickUnlink
  <2>1. PICK v, j : v = StatWQ(tick.stat) /\ j = tick.j
    OBVIOUS
  <2>2. /\ v # WQ_READY /\ j \in Thread /\ j \notin tick.wq
        /\ wq_lst' = [wq_lst EXCEPT ![v] = @ \ {j}]
        /\ th_stat' = [th_stat EXCEPT ![j] = 0]
        /\ tick' = [tick EXCEPT !.pc = "wakeup"] /\ tick.pc = "unlink"
    BY <1>0, <1>3, <2>1 DEF SysTickUnlink, SetStat, ClockStatus
  <2>3. \A w \in WQ : wq_lst'[w] \subseteq wq_lst[w]
    BY <2>2 DEF CoreTypeOK, QueuesOK
  <2>4. wq_lst'[WQ_READY] = wq_lst[WQ_READY]
    BY <2>2, LayoutLemma DEF CoreTypeOK, QueuesOK
  <2>5. IdleMeansNobodyWaits'
    BY <2>3, <2>4, TmshareLayout DEF IdleMeansNobodyWaits
  <2>6. \A u \in wq_lst[WQ_CLOCK] \ {j} : u \in wq_lst'[WQ_CLOCK]
    BY <2>2, LayoutLemma DEF CoreTypeOK, QueuesOK
  <2>7. tick'.j = j /\ tick'.wq = tick.wq /\ tick'.pc = "wakeup"
    BY <2>1, <2>2 DEF CoreTypeOK, TickRecord
  <2>8. \A u \in Thread \ {j} : th_stat'[u] = th_stat[u]
    BY <2>2 DEF CoreTypeOK
  <2>9. \A u \in wq_lst'[WQ_CLOCK] : u \in wq_lst[WQ_CLOCK]
    BY <2>3, LayoutLemma
  <2>10. ClockStatus'
    BY <1>0, <2>2, <2>6, <2>7, <2>8, <2>9 DEF ClockStatus
  <2> QED BY <2>5, <2>10
<1>4. CASE SysTickWakeup
  <2>1. PICK j \in Thread : j = tick.j
    BY <1>0
  <2>2. /\ wq_lst' = wakeup(wq_lst, WQ_CLOCK, {j})
        /\ tick.pc = "wakeup" /\ tick'.pc = "scan" /\ tick'.wq = tick.wq
        /\ UNCHANGED th_stat
    BY <1>4, <2>1 DEF SysTickWakeup
  <2>3. IdleMeansNobodyWaits' /\ wq_lst'[WQ_CLOCK] = wq_lst[WQ_CLOCK] \ {j}
    BY <2>2, WakeupIdle
  <2>4. ClockStatus'
    BY <2>1, <2>2, <2>3 DEF ClockStatus
  <2> QED BY <2>3, <2>4
<1>5. CASE SysTickExit
  <2>1. IdleMeansNobodyWaits' /\ wq_lst'[WQ_CLOCK] = wq_lst[WQ_CLOCK]
    <3>1. CASE UNCHANGED wq_lst
      BY <3>1 DEF IdleMeansNobodyWaits
    <3>2. CASE ENABLE_TIMESHARE /\ active \in Thread /\ EndTimeslice
      <4> DEFINE q == [wq_lst EXCEPT ![WQ_TMSHARE] = @ \cup {active},
                                     ![WQ_READY] = @ \ {active}]
      <4>1. QueuesOK(q) /\ q[WQ_CLOCK] = wq_lst[WQ_CLOCK]
        BY <3>2, LayoutLemma, TmshareLayout, ThreadLemma DEF CoreTypeOK, QueuesOK
      <4>2. wq_lst' = collect(q, IdleBit)
        BY <3>2 DEF EndTimeslice
      <4> HIDE DEF q
      <4> QED BY <4>1, <4>2, CollectIdle
    <3> QED BY <1>5, <3>1, <3>2 DEF SysTickExit
  <2>2. tick'.pc = "none" /\ tick.pc = "scan" /\ UNCHANGED th_stat
    BY <1>5 DEF SysTickExit, NoTick
  <2>3. ClockStatus'
    BY <2>1, <2>2 DEF ClockStatus
  <2> QED BY <2>1, <2>3
<1> QED BY <1>1, <1>2, <1>3, <1>4, <1>5 DEF SysTick

(* and so does every other step of the core. *)
LEMMA CoreStepKeepsIdle ==
  ASSUME StatusByteFits, CoreTypeOK, ClockStatus, IdleMeansNobodyWaits, CoreStep
  PROVE  ClockStatus' /\ IdleMeansNobodyWaits'
<1>1. CASE SysTick
  BY <1>1, SysTickKeepsIdle
<1>2. ASSUME NEW t \in Thread, NEW op, NEW end, ClockWait(t, op, end)
      PROVE  ClockStatus' /\ IdleMeansNobodyWaits'
  <2> DEFINE q == wq_insert(wq_lst, WQ_CLOCK, t)
  <2>1. QueuesOK(q) /\ q[WQ_CLOCK] = wq_lst[WQ_CLOCK] \cup {t}
    BY InsertType, LayoutLemma DEF wq_insert, CoreTypeOK, QueuesOK
  <2>2. /\ wq_lst' = wait(q, t) /\ tick.pc = "none" /\ UNCHANGED tick
        /\ th_stat' = [th_stat EXCEPT ![t] = Stat(WQ_CLOCK, 1)]
    BY <1>2 DEF ClockWait, Calls, Running, SetStat, handlerVars
  <2> HIDE DEF q
  <2>3. IdleMeansNobodyWaits' /\ wq_lst'[WQ_CLOCK] = wq_lst[WQ_CLOCK] \cup {t}
    BY <2>1, <2>2, WaitIdle
  <2>4. StatWQ(Stat(WQ_CLOCK, 1)) # WQ_READY
    BY FitStat, LayoutLemma
  <2>5. wq_lst[WQ_CLOCK] \subseteq Thread
    BY LayoutLemma DEF CoreTypeOK, QueuesOK
  <2>6. \A u \in Thread : th_stat'[u] = IF u = t THEN Stat(WQ_CLOCK, 1) ELSE th_stat[u]
    BY <2>2 DEF CoreTypeOK
  <2>7. ClockStatus'
    BY <2>2, <2>3, <2>4, <2>5, <2>6, CallKeepsClockStatus
  <2> QED BY <2>3, <2>7
<1>3. CASE PendSV \/ \E t \in Thread : thinkos_yield(t) \/ CoreReturn(t)
  BY <1>3 DEF PendSV, thinkos_yield, CoreReturn, CallReturn, handlerVars, ClockStatus,
              IdleMeansNobodyWaits
<1> QED BY <1>1, <1>2, <1>3 DEF CoreStep, thinkos_sleep_svc, thinkos_alarm_svc

(* At first nobody waits for anything. *)
LEMMA InitIdle ==
  ASSUME CoreInit
  PROVE  ClockStatus /\ IdleMeansNobodyWaits
BY LayoutLemma, TmshareLayout DEF CoreInit, NoTick, ClockStatus, IdleMeansNobodyWaits

(***************************************************************************)
(* Nobody waits for a time-share turn while the CPU is idle, for any       *)
(* number of threads and any schedule priorities, when the queue indices   *)
(* fit the status byte. If they did not, the clock interrupt would take a  *)
(* thread out of the ready queue without collecting the others             *)
(* (__thinkos_wait, cm3_systick_isr).                                      *)
(***************************************************************************)
THEOREM CoreTimeshareTurns ==
  ASSUME StatusByteFits
  PROVE  CoreSpec => []IdleMeansNobodyWaits
<1> DEFINE I == CoreTypeOK /\ ClockStatus /\ IdleMeansNobodyWaits
<1>1. CoreInit => I
  BY CoreInitType, InitIdle
<1>2. I /\ [CoreStep]_coreVars => I'
  <2>1. CASE CoreStep
    BY <2>1, CoreStepKeepsType, CoreStepKeepsIdle
  <2>2. CASE UNCHANGED coreVars
    BY <2>2 DEF coreVars, CoreTypeOK, QueuesOK, ClockStatus, IdleMeansNobodyWaits
  <2> QED BY <2>1, <2>2
<1> QED BY <1>1, <1>2, PTL DEF CoreSpec

================================================================================
