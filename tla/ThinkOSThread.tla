----------------------------- MODULE ThinkOSThread -----------------------------
(***************************************************************************)
(* Threads: create, exit, join and cancel (thinkos.c), the end of a thread *)
(* (thinkos_thread_exit() of thinkos_core.c) and the wait for an interrupt *)
(* (thinkos_irq.c).                                                        *)
(*                                                                         *)
(* thinkos_thread_exit() runs as ordinary thread code: between its steps   *)
(* the clock and other interrupts come in, and other threads run. Its      *)
(* first part, with the interrupts masked, is one step.                    *)
(***************************************************************************)
EXTENDS ThinkOSCore

CONSTANTS
  MAIN,            (* the thread thinkos_init() turns its caller into       *)
  CODES,           (* [Thread -> codes the thread may end with]             *)
  SLEEPERS,        (* threads that call thinkos_sleep()                     *)
  CANCELABLE,      (* threads the program cancels                           *)
  IRQ_MAX,         (* THINKOS_IRQ_MAX                                       *)
  IRQ_WAITS        (* <<thread, irq>>: the thread calls thinkos_irq_wait()  *)

VARIABLES
  th_alloc,        (* allocated thread slots                                *)
  th_pc,           (* [Thread -> where in its life the thread is]           *)
  irq_th,          (* [Irq -> thread the interrupt makes ready]             *)
  irq_enabled,     (* interrupt sources that are enabled                    *)
  owed             (* history: [Thread -> the code its join has to return]  *)

threadVars == <<th_alloc, th_pc, irq_th, irq_enabled, owed>>

vars == <<coreVars, threadVars>>

Irq == 0 .. IRQ_MAX - 1

ASSUME ThreadAssumption ==
  /\ ENABLE_JOIN
  /\ MAIN \in Thread
  /\ CODES \in [Thread -> SUBSET Nat]
  /\ SLEEPERS \subseteq Thread /\ CANCELABLE \subseteq Thread
  /\ IRQ_MAX \in Nat
  /\ IRQ_WAITS \subseteq Thread \X Nat

(* Thread and slot numbers a caller may pass: one past the last included. *)
ThreadArg == 0 .. THREADS_MAX

(***************************************************************************)
(* The life of a thread. "main" is the main thread, which no return        *)
(* address leads to thinkos_thread_exit(). "exit", "release" and "wait"    *)
(* are the three steps of that function that are still to come, with the   *)
(* code in r0. A "dead" thread is not there, or loops at the end of it.    *)
(***************************************************************************)
ThreadPc == {"main", "task", "exit", "release", "wait", "dead"}

Task(t) == th_pc[t] \in {"main", "task"}

ThreadCalls(t) == Calls(t) /\ Task(t)

(* The argument check: in range and allocated. *)
IsThread(th) == th \in th_alloc

ThreadRefuse(t, ret) == Refuse(t, ret) /\ UNCHANGED threadVars

(***************************************************************************)
(* owed[t] is no part of the code: it remembers, for a thread that joins,  *)
(* the code with which the thread it joined passed the wake-up of the      *)
(* joiners. It is NONE while that thread has not come there, and LATE if   *)
(* it had passed it, and only not yet freed its slot, when the join was    *)
(* made. No guard looks at it.                                             *)
(***************************************************************************)
LATE == -2

--------------------------------------------------------------------------------
(* thinkos_alloc_lo(): the first free slot from start upwards, or -1. *)
alloc_lo(start) ==
  LET up == {s \in Thread \ th_alloc : s >= start}
  IN  IF up = {} THEN NONE ELSE Min(up)

(* thinkos_alloc_hi(): the first free slot from start downwards, or -1. *)
alloc_hi(start) ==
  LET down == {s \in Thread \ th_alloc : s <= start}
  IN  IF down = {} THEN NONE ELSE Max(down)

(* The slot of a new thread that asks for slot id. *)
NewSlot(id) ==
  IF id \in Thread /\ alloc_lo(id) # NONE THEN alloc_lo(id) ELSE alloc_hi(id)

(* A stack that is too small is rejected after the slot has been taken. *)
thinkos_thread_create_small(t, id) ==
  /\ ThreadCalls(t)
  /\ NewSlot(id) # NONE
  /\ th_alloc' = th_alloc \cup {NewSlot(id)}
  /\ UNCHANGED <<coreVars, th_pc, irq_th, irq_enabled, owed>>

(* Faulty variant: the failure of the allocation is not looked at. *)
thinkos_thread_create_svc_unchecked(t, id, paused) ==
  LET th == NewSlot(id)
  IN  /\ ThreadCalls(t)
      /\ th_alloc' = th_alloc \cup {th}
      /\ th_pc' = [s \in Thread |-> IF s = th THEN "task" ELSE th_pc[s]]
      /\ wq_lst' = [wq_lst EXCEPT ![WQ_READY] = @ \cup ({th} \cap Thread)]
      /\ pendsv' = TRUE
      /\ UNCHANGED <<active, th_stat, ticks, clock, tick, r0, call, sched_val,
                     irq_th, irq_enabled, owed>>

(* The new thread starts from a fresh context, ready or paused. *)
thinkos_thread_create_svc(t, id, paused) ==
  LET th == NewSlot(id)
  IN  /\ ThreadCalls(t)
      /\ IF th = NONE
         THEN ThreadRefuse(t, EINVAL)
         ELSE /\ th_alloc' = th_alloc \cup {th}
              /\ th_pc' = [th_pc EXCEPT ![th] = "task"]
              /\ r0' = [r0 EXCEPT ![th] = OK]
              /\ call' = [call EXCEPT ![th] = NoCall]
              /\ owed' = [owed EXCEPT ![th] = NONE]
              /\ sched_val' = [sched_val EXCEPT ![th] = SCHED_LIMIT \div 2]
              /\ wq_lst' = wq_insert(wq_lst,
                                     IF paused THEN WQ_PAUSED ELSE WQ_READY, th)
              /\ pendsv' = (pendsv \/ ~paused)
              /\ UNCHANGED <<active, th_stat, ticks, clock, tick,
                             irq_th, irq_enabled>>

(***************************************************************************)
(* The caller stays ready, although it is queued as cancelled, and goes on *)
(* in thinkos_thread_exit().                                               *)
(***************************************************************************)
thinkos_exit_svc(t, code) ==
  /\ ThreadCalls(t)
  /\ wq_lst' = wq_insert(wq_lst, WQ_CANCELED, t)
  /\ SetStat(t, Stat(WQ_CANCELED, 0))
  /\ th_pc' = [th_pc EXCEPT ![t] = "exit"]
  /\ r0' = [r0 EXCEPT ![t] = code]
  /\ pendsv' = TRUE
  /\ UNCHANGED <<clock, call, handlerVars, th_alloc, irq_th, irq_enabled, owed>>

(* The task function returns: lr holds thinkos_thread_exit(). *)
TaskReturn(t, code) ==
  /\ Calls(t)
  /\ th_pc[t] = "task"
  /\ th_pc' = [th_pc EXCEPT ![t] = "exit"]
  /\ r0' = [r0 EXCEPT ![t] = code]
  /\ UNCHANGED <<wq_lst, pendsv, th_stat, clock, call, handlerVars,
                 th_alloc, irq_th, irq_enabled, owed>>

(* Faulty variant: only the ready and the clock queue are looked at. *)
Unqueued_keeps_wait(q, th) ==
  [q EXCEPT ![WQ_READY] = @ \ {th}, ![WQ_CLOCK] = @ \ {th}]

(* The queues without th: the one its status names, time share and clock. *)
Unqueued(q, th) ==
  [w \in WQ |-> IF \/ w \in {StatWQ(th_stat[th]), WQ_CLOCK}
                   \/ ENABLE_TIMESHARE /\ w = WQ_TMSHARE
                THEN q[w] \ {th} ELSE q[w]]

(***************************************************************************)
(* Cancel a thread other than the caller: it waits, with                   *)
(* thinkos_thread_exit() as its next instruction, for a join.              *)
(***************************************************************************)
thinkos_cancel_svc(t, th, code) ==
  /\ ThreadCalls(t)
  /\ th # t
  /\ IF ~IsThread(th)
     THEN ThreadRefuse(t, EINVAL)
     ELSE /\ wq_lst' = wq_insert(Unqueued(wq_lst, th), WQ_CANCELED, th)
          /\ SetStat(th, Stat(WQ_CANCELED, 0))
          /\ th_pc' = [th_pc EXCEPT ![th] = "exit"]
          /\ r0' = [r0 EXCEPT ![th] = code]
          /\ call' = [call EXCEPT ![th] = NoCall]
          /\ owed' = [owed EXCEPT ![th] = NONE]
          /\ UNCHANGED <<pendsv, clock, handlerVars,
                         th_alloc, irq_th, irq_enabled>>

(* Faulty variant: a cancelled thread is not made ready. *)
Released_not_ready(q, th) == [q EXCEPT ![WQ_CANCELED] = @ \ {th}]

(* A cancelled thread is ready again, to run thinkos_thread_exit(). *)
Released(q, th) ==
  IF th \in q[WQ_CANCELED]
  THEN [q EXCEPT ![WQ_CANCELED] = @ \ {th}, ![WQ_READY] = @ \cup {th}]
  ELSE q

(* Wait for th to exit; -1 is the result until it sets its code. *)
thinkos_join_svc(t, th) ==
  /\ ThreadCalls(t)
  /\ IF ~IsThread(th)
     THEN ThreadRefuse(t, EINVAL)
     ELSE /\ wq_lst' = wait(wq_insert(Released(wq_lst, th), JOIN_BASE + th, t), t)
          /\ SetStat(t, Stat(JOIN_BASE + th, 0))
          /\ Blocked(t, Call("join", JOIN_BASE + th, 0), -1)
          /\ owed' = [owed EXCEPT ![t] = IF th_pc[th] = "release" THEN LATE ELSE NONE]
          /\ UNCHANGED <<clock, handlerVars, th_alloc, th_pc, irq_th, irq_enabled>>

--------------------------------------------------------------------------------
(* Faulty variant: the loop over the threads starts one too late. *)
Joiners_but_first(t) == (wq_lst[JOIN_BASE + t] \cap th_alloc) \ {0}

(***************************************************************************)
(* thinkos_thread_exit(). With the interrupts masked, the thread leaves    *)
(* the queue its status names (the ready queue, if the task returned) and  *)
(* makes the threads that join it ready; their status bytes keep naming    *)
(* the join queue. The scheduler is not requested.                         *)
(***************************************************************************)
Joiners(t) == wq_lst[JOIN_BASE + t] \cap th_alloc

(* History: whoever joined t before this point is to get its code. *)
OweCode(t) ==
  owed' = [j \in Thread |->
             IF call[j] = Call("join", JOIN_BASE + t, 0) /\ owed[j] = NONE
             THEN r0[t] ELSE owed[j]]

(* Faulty variant: the joiners do not get the code. *)
ExitUnlink_no_code(t) ==
  /\ Running(t)
  /\ th_pc[t] = "exit"
  /\ SetStat(t, 0)
  /\ wq_lst' = [w \in WQ |->
       (IF w = StatWQ(th_stat[t]) THEN wq_lst[w] \ {t} ELSE wq_lst[w])
         \cup (IF w = WQ_READY THEN Joiners(t) ELSE {})]
  /\ th_pc' = [th_pc EXCEPT ![t] = "release"]
  /\ OweCode(t)
  /\ UNCHANGED <<r0, pendsv, clock, call, handlerVars, th_alloc, irq_th, irq_enabled>>

ExitUnlink(t) ==
  /\ Running(t)
  /\ th_pc[t] = "exit"
  /\ SetStat(t, 0)
  /\ wq_lst' =
       LET left == [wq_lst EXCEPT ![StatWQ(th_stat[t])] = @ \ {t}]
       IN  [w \in WQ |->
              IF w = WQ_READY           THEN left[w] \cup Joiners(t)
              ELSE IF w = JOIN_BASE + t THEN left[w] \ Joiners(t)
              ELSE IF ENABLE_TIMESHARE /\ w = WQ_TMSHARE THEN left[w] \ {t}
              ELSE left[w]]
  /\ r0' = [th \in Thread |-> IF th \in Joiners(t) THEN r0[t] ELSE r0[th]]
  /\ th_pc' = [th_pc EXCEPT ![t] = "release"]
  /\ OweCode(t)
  /\ UNCHANGED <<pendsv, clock, call, handlerVars, th_alloc, irq_th, irq_enabled>>

(* Releases the thread block: from here on the slot may be used again. *)
ExitRelease(t) ==
  /\ Running(t)
  /\ th_pc[t] = "release"
  /\ th_alloc' = th_alloc \ {t}
  /\ th_pc' = [th_pc EXCEPT ![t] = "wait"]
  /\ UNCHANGED <<coreVars, irq_th, irq_enabled, owed>>

(* Wait forever. *)
ExitWait(t) ==
  /\ Running(t)
  /\ th_pc[t] = "wait"
  /\ wq_lst' = wait(wq_lst, t)
  /\ r0' = [r0 EXCEPT ![t] = OK]
  /\ th_pc' = [th_pc EXCEPT ![t] = "dead"]
  /\ pendsv' = TRUE
  /\ UNCHANGED <<th_stat, clock, call, handlerVars, th_alloc, irq_th, irq_enabled, owed>>

--------------------------------------------------------------------------------
(***************************************************************************)
(* Interrupts. A thread that waits for one is in no queue and has status   *)
(* 0: only irq_th[] knows of it.                                           *)
(***************************************************************************)
thinkos_irq_wait_svc(t, irq) ==
  /\ ThreadCalls(t)
  /\ IF irq \notin Irq
     THEN ThreadRefuse(t, EINVAL)
     ELSE /\ irq_th' = [irq_th EXCEPT ![irq] = t]
          /\ irq_enabled' = irq_enabled \cup {irq}
          /\ wq_lst' = wait(wq_lst, t)
          /\ Blocked(t, Call("irq_wait", 0, 0), irq)
          /\ UNCHANGED <<th_stat, clock, handlerVars, th_alloc, th_pc, owed>>

(* Faulty variant: the scheduler is not requested. *)
cm3_default_isr_no_sched(irq) ==
  /\ irq \in irq_enabled
  /\ irq_enabled' = irq_enabled \ {irq}
  /\ wq_lst' = [wq_lst EXCEPT ![WQ_READY] = @ \cup {irq_th[irq]}]
  /\ UNCHANGED <<active, pendsv, th_stat, ticks, clock, sched_val, tick, r0, call,
                 th_alloc, th_pc, irq_th, owed>>

(* The interrupt comes once it is enabled: it disables itself. *)
cm3_default_isr(irq) ==
  /\ irq \in irq_enabled
  /\ irq_enabled' = irq_enabled \ {irq}
  /\ wq_lst' = [wq_lst EXCEPT ![WQ_READY] = @ \cup {irq_th[irq]}]
  /\ pendsv' = TRUE
  /\ UNCHANGED <<active, th_stat, ticks, clock, sched_val, tick, r0, call,
                 th_alloc, th_pc, irq_th, owed>>

--------------------------------------------------------------------------------
ThreadOps == {"join", "irq_wait"} \cup CoreOps

ThreadReturn(t) ==
  /\ Task(t)
  /\ call[t].op \in ThreadOps
  /\ CallReturn(t)
  /\ owed' = [owed EXCEPT ![t] = NONE]
  /\ UNCHANGED <<th_alloc, th_pc, irq_th, irq_enabled>>

(* thinkos_init(): the main thread alone, and nothing pending. *)
ThreadInit ==
  /\ wq_lst = [w \in WQ |-> IF w = WQ_READY THEN {MAIN} \cup IdleBit ELSE {}]
  /\ active = MAIN
  /\ pendsv = FALSE
  /\ th_stat = [t \in Thread |-> 0]
  /\ ticks = 0
  /\ clock = [t \in Thread |-> 0]
  /\ sched_val = [t \in Thread |-> SCHED_PRI[t] \div 2]
  /\ tick = NoTick
  /\ r0 = [t \in Thread |-> OK]
  /\ call = [t \in Thread |-> NoCall]
  /\ th_alloc = {MAIN}
  /\ th_pc = [t \in Thread |-> IF t = MAIN THEN "main" ELSE "dead"]
  /\ irq_th = [irq \in Irq |-> NONE]
  /\ irq_enabled = {}
  /\ owed = [t \in Thread |-> NONE]

PausedOption == IF ENABLE_PAUSE THEN BOOLEAN ELSE {FALSE}

(* A slot whose creation failed after it was taken: nobody has its number. *)
Leaked(th) == IsThread(th) /\ th_pc[th] = "dead"

ExitStep(t) == ExitUnlink(t) \/ ExitRelease(t) \/ ExitWait(t)

ThreadStep ==
  \/ /\ \/ PendSV
        \/ SysTick
        \/ \E t \in SLEEPERS, ms \in SLEEPS : Task(t) /\ thinkos_sleep_svc(t, ms)
     /\ UNCHANGED threadVars
  \/ \E t \in Thread :
       \/ \E id \in ThreadArg, paused \in PausedOption :
            thinkos_thread_create_svc(t, id, paused)
       \/ \E id \in ThreadArg : thinkos_thread_create_small(t, id)
       \/ \E code \in CODES[t] : thinkos_exit_svc(t, code) \/ TaskReturn(t, code)
       \/ \E th \in CANCELABLE : \E code \in CODES[th] :
            ~Leaked(th) /\ thinkos_cancel_svc(t, th, code)
       \/ \E th \in ThreadArg : thinkos_join_svc(t, th)
       \/ \E irq \in {w[2] : w \in {v \in IRQ_WAITS : v[1] = t}} :
            thinkos_irq_wait_svc(t, irq)
       \/ ThreadReturn(t)
       \/ ExitStep(t)
  \/ \E irq \in Irq : cm3_default_isr(irq)

Spec == ThreadInit /\ [][ThreadStep]_vars

(***************************************************************************)
(* Fairness: that of the core (see CoreFairness), for the code of the two  *)
(* most urgent threads up to the end of a join.                            *)
(***************************************************************************)
JoinFairness ==
  /\ WF_vars(SysTick /\ UNCHANGED threadVars)
  /\ SF_vars(PendSV /\ UNCHANGED threadVars)
  /\ SF_vars(ExitStep(1))
  /\ SF_vars(ThreadReturn(0))

FairSpec == Spec /\ JoinFairness

--------------------------------------------------------------------------------
(* The run-time block and the thread bitmaps are in their ranges. *)
TypeOK ==
  /\ CoreTypeOK
  /\ th_alloc \subseteq Thread
  /\ th_pc \in [Thread -> ThreadPc]
  /\ irq_th \in [Irq -> Thread \cup {NONE}]
  /\ irq_enabled \subseteq Irq
  /\ \A irq \in irq_enabled : irq_th[irq] \in Thread
  /\ owed \in [Thread -> Int]

(***************************************************************************)
(* A slot that is free for a new thread is in no queue, but for the ready  *)
(* bit of a thread about to wait forever: thinkos_thread_create_svc()      *)
(* clears neither the queues nor the status byte, so it relies on          *)
(* thinkos_thread_exit() to have removed every trace, however the thread   *)
(* ended and whatever it was doing when it was cancelled.                  *)
(***************************************************************************)
FreeSlotIsClean ==
  \A t \in Thread \ th_alloc :
    /\ th_pc[t] \in {"wait", "dead"}
    /\ th_stat[t] = 0
    /\ \A w \in WQ : t \in wq_lst[w] => w = WQ_READY /\ th_pc[t] = "wait"

(***************************************************************************)
(* A thread that has not reached thinkos_thread_exit(), or waits there for *)
(* a join, is in some queue or has an interrupt to make it ready: no       *)
(* cancel, join, timeout or slot reuse loses it (thinkos_cancel_svc,       *)
(* thinkos_join_svc, thinkos_irq_wait_svc, cm3_systick_isr).               *)
(***************************************************************************)
NoThreadVanishes ==
  \A t \in th_alloc : Task(t) \/ th_pc[t] = "exit" =>
    \/ \E w \in WQ : t \in wq_lst[w]
    \/ \E irq \in irq_enabled : irq_th[irq] = t
    \/ Expiring(t)

(***************************************************************************)
(* A join returns the very code with which the joined thread came through  *)
(* the wake-up of its joiners, never the default -1 and never the code of  *)
(* another thread that used the slot before or after, whichever way the    *)
(* joined thread ended and whoever else joins it (thinkos_join_svc,        *)
(* thinkos_thread_exit). One case is left out because the code gets it     *)
(* wrong: a join made while the thread is past that wake-up and has not    *)
(* freed its slot yet is accepted and answered by nobody, or, when the     *)
(* slot is used again, with the code of the next thread.                   *)
(***************************************************************************)
JoinReturnsCode ==
  \A t, th \in Thread :
    /\ Running(t)
    /\ Task(t)
    /\ call[t] = Call("join", JOIN_BASE + th, 0)
    /\ owed[t] # LATE
    => owed[t] # NONE /\ r0[t] = owed[t]

(***************************************************************************)
(* Once the thread that the most urgent thread joins has come to           *)
(* thinkos_thread_exit() and is ready to run it, by a return, an exit, or  *)
(* a cancellation that a join has released, the join ends, whatever the    *)
(* other threads and the clock do in between (thinkos_thread_exit,         *)
(* thinkos_join_svc). A thread that is cancelled while it is joined is not *)
(* ready: thinkos_cancel_svc() parks it until another thread joins it, and *)
(* until then the first join does not end.                                 *)
(***************************************************************************)
UrgentJoinEnds ==
  ( /\ call[0] = Call("join", JOIN_BASE + 1, 0)
    /\ th_pc[1] = "exit"
    /\ 1 \in wq_lst[WQ_READY] )
  ~> call[0] = NoCall

(***************************************************************************)
(* Task code only ever executes in the most urgent ready thread. Inside    *)
(* thinkos_thread_exit(), between the wake-up of the joiners and the final *)
(* wait, it is not so: nothing requests the scheduler there.               *)
(***************************************************************************)
HighestTaskRuns ==
  /\ ~pendsv
  /\ tick.pc = "none"
  /\ active \in Thread => th_pc[active] \notin {"release", "wait"}
  => active = wq_head(WQ_READY)
================================================================================
