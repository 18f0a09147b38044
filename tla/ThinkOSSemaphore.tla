---------------------------- MODULE ThinkOSSemaphore ----------------------------
(***************************************************************************)
(* Counting semaphores: thinkos_semaphore.c, and __thinkos_sem_post() of   *)
(* thinkos_irq.h, with which an interrupt handler posts without a service  *)
(* call. The handlers mask all interrupts around the test of the value and *)
(* the queue operation, so each is one action for the interrupts as well.  *)
(***************************************************************************)
EXTENDS ThinkOSCore

CONSTANTS
  SEM_VALUES,      (* values given to sem_alloc() and sem_init()            *)
  SEM_VALUE_CAP,   (* bound: the callers do not post beyond this value      *)
  RESET_SEMS,      (* semaphores the application frees or initialises while *)
                   (* they may be in use                                    *)
  IRQ_SEMS,        (* semaphores an interrupt handler posts to              *)
  TIMED_SEMS       (* semaphores threads wait on with a timeout             *)

VARIABLES
  sem_val,         (* [Sem -> value]                                        *)
  sem_alloc,       (* allocated semaphores                                  *)
  posts            (* [Sem -> parity of the posts made]: a history variable *)

semVars == <<sem_val, sem_alloc, posts>>

vars == <<coreVars, semVars>>

Sem == 0 .. SEMAPHORE_MAX - 1

ASSUME SemAssumption ==
  /\ SEM_VALUE_CAP \in Nat /\ SEM_VALUES \subseteq 0 .. SEM_VALUE_CAP
  /\ RESET_SEMS \subseteq Sem /\ IRQ_SEMS \subseteq Sem
  /\ TIMED_SEMS \subseteq Sem

(* Object numbers a caller may pass: one past the last semaphore included. *)
SemArg == SEM_BASE .. SEM_BASE + SEMAPHORE_MAX

(* The argument check: in range and allocated. *)
IsSem(wq) == wq - SEM_BASE \in sem_alloc

SemRefuse(t, ret) == Refuse(t, ret) /\ UNCHANGED semVars

--------------------------------------------------------------------------------
thinkos_sem_alloc_svc(t, value) ==
  LET idx == bmp_alloc(Sem, sem_alloc)
  IN  /\ Calls(t)
      /\ IF idx = NONE
         THEN SemRefuse(t, NONE)
         ELSE /\ sem_alloc' = sem_alloc \cup {idx}
              /\ sem_val' = [sem_val EXCEPT ![idx] = value]
              /\ UNCHANGED <<coreVars, posts>>

(* No check that the semaphore has no waiters. *)
thinkos_sem_free_svc(t, wq) ==
  /\ Calls(t)
  /\ IF wq - SEM_BASE \notin Sem
     THEN SemRefuse(t, EINVAL)
     ELSE /\ wq - SEM_BASE \in RESET_SEMS
          /\ sem_alloc' = sem_alloc \ {wq - SEM_BASE}
          /\ UNCHANGED <<coreVars, sem_val, posts>>

(* The waiters, if any, are not woken up. *)
thinkos_sem_init_svc(t, wq, value) ==
  /\ Calls(t)
  /\ \/ ~IsSem(wq) /\ SemRefuse(t, EINVAL)
     \/ /\ IsSem(wq)
        /\ wq - SEM_BASE \in RESET_SEMS
        /\ sem_val' = [sem_val EXCEPT ![wq - SEM_BASE] = value]
        /\ UNCHANGED <<coreVars, sem_alloc, posts>>

(* Faulty variant: nobody looks whether there is a token. *)
SemTake_unchecked(t, wq) ==
  /\ IsSem(wq)
  /\ sem_val' = [sem_val EXCEPT ![wq - SEM_BASE] = @ - 1]
  /\ UNCHANGED <<sem_alloc, posts>>

(* A token is there: take it. *)
SemTake(t, wq) ==
  /\ IsSem(wq)
  /\ sem_val[wq - SEM_BASE] > 0
  /\ sem_val' = [sem_val EXCEPT ![wq - SEM_BASE] = @ - 1]
  /\ UNCHANGED <<sem_alloc, posts>>

(* Faulty variant: the value is not tested. *)
SemEmpty_untested(wq) == IsSem(wq)

SemEmpty(wq) == IsSem(wq) /\ sem_val[wq - SEM_BASE] = 0

thinkos_sem_wait_svc(t, wq) ==
  /\ Calls(t)
  /\ \/ ~IsSem(wq) /\ SemRefuse(t, EINVAL)
     \/ SemTake(t, wq) /\ UNCHANGED coreVars
     \/ /\ SemEmpty(wq)
        /\ wq_lst' = wait_unless_empty(wq_insert(wq_lst, wq, t), t)
        /\ SetStat(t, Stat(wq, 0))
        /\ Blocked(t, Call("sem_wait", wq, 0), OK)
        /\ UNCHANGED <<clock, handlerVars, semVars>>

thinkos_sem_trywait_svc(t, wq) ==
  /\ Calls(t)
  /\ \/ ~IsSem(wq) /\ SemRefuse(t, EINVAL)
     \/ SemTake(t, wq) /\ UNCHANGED coreVars
     \/ SemEmpty(wq) /\ SemRefuse(t, EAGAIN)

(* The scheduler is requested even if the call does not block. *)
thinkos_sem_timedwait_svc(t, wq, ms) ==
  /\ Calls(t)
  /\ \/ ~IsSem(wq) /\ SemRefuse(t, EINVAL)
     \/ /\ SemTake(t, wq)
        /\ pendsv' = TRUE
        /\ UNCHANGED <<wq_lst, th_stat, clock, r0, call, handlerVars>>
     \/ /\ SemEmpty(wq)
        /\ wq_lst' = wait_unless_empty(tmdwq_insert(wq_lst, wq, t), t)
        /\ SetStat(t, Stat(wq, 1))
        /\ SetClock(t, ms)
        /\ wq - SEM_BASE \in TIMED_SEMS
        /\ Blocked(t, Call("sem_timedwait", wq, 0), ETIMEDOUT)
        /\ UNCHANGED <<handlerVars, semVars>>

(* The token goes to the first waiter; without one it is kept. *)
SemPost(wq) ==
  LET th == wq_head(wq)
  IN  /\ posts' = [posts EXCEPT ![wq - SEM_BASE] = 1 - @]
      /\ UNCHANGED sem_alloc
      /\ IF th = THREAD_NULL
         THEN /\ sem_val[wq - SEM_BASE] < SEM_VALUE_CAP
              /\ sem_val' = [sem_val EXCEPT ![wq - SEM_BASE] = @ + 1]
              /\ UNCHANGED coreVars
         ELSE Wakeup(wq, {th}) /\ UNCHANGED sem_val

thinkos_sem_post_svc(t, wq) ==
  /\ Calls(t)
  /\ \/ ~IsSem(wq) /\ SemRefuse(t, EINVAL)
     \/ IsSem(wq) /\ SemPost(wq)

(***************************************************************************)
(* thinkos_sem_post_i(): no argument check; any moment of a thread, of the *)
(* SysTick loop, or between a service call and the scheduler will do.      *)
(***************************************************************************)
thinkos_sem_post_i(wq) ==
  /\ wq - SEM_BASE \in IRQ_SEMS \cap sem_alloc
  /\ SemPost(wq)

SemOps == {"sem_wait", "sem_timedwait"}

SemReturn(t) ==
  /\ call[t].op \in SemOps
  /\ CallReturn(t)
  /\ UNCHANGED semVars

--------------------------------------------------------------------------------
Init ==
  /\ CoreInit
  /\ sem_val = [s \in Sem |-> 0]
  /\ sem_alloc = {}
  /\ posts = [s \in Sem |-> 0]

SemStep(t) ==
  \/ \E value \in SEM_VALUES : thinkos_sem_alloc_svc(t, value)
  \/ \E wq \in SemArg :
       \/ thinkos_sem_free_svc(t, wq)
       \/ \E value \in SEM_VALUES : thinkos_sem_init_svc(t, wq, value)
       \/ thinkos_sem_wait_svc(t, wq)
       \/ thinkos_sem_trywait_svc(t, wq)
       \/ \E ms \in TIMEOUTS : thinkos_sem_timedwait_svc(t, wq, ms)
       \/ thinkos_sem_post_svc(t, wq)
  \/ SemReturn(t)

IrqStep == \E s \in IRQ_SEMS : thinkos_sem_post_i(SEM_BASE + s)

Next ==
  \/ CoreStep /\ UNCHANGED semVars
  \/ \E t \in Thread : SemStep(t)
  \/ IrqStep

Spec == Init /\ [][Next]_vars

--------------------------------------------------------------------------------
(* Every variable stays in the range its C type and use give it. *)
TypeOK ==
  /\ CoreTypeOK
  /\ sem_val \in [Sem -> 0 .. SEM_VALUE_CAP]
  /\ sem_alloc \subseteq Sem
  /\ posts \in [Sem -> {0, 1}]

(***************************************************************************)
(* No thread waits on a semaphore that has tokens, whatever the order of   *)
(* posts (by threads and by interrupts), timeouts and waits.               *)
(***************************************************************************)
WaitersMeanNoToken ==
  \A s \in Sem \ RESET_SEMS : wq_lst[SEM_BASE + s] # {} => sem_val[s] = 0

(* What the caller of a semaphore call sees of it, for semaphore s. *)
RequestOf(s, t) ==
  IF call[t].op \notin SemOps \/ call[t].wq # SEM_BASE + s THEN "none"
  ELSE IF t \in wq_lst[SEM_BASE + s] THEN "waiting"
  ELSE IF r0[t] = OK THEN "got"
  ELSE "timedout"

(* Semaphore 0 alone, as its callers see it, and semaphore 1. *)
Abstract ==
  INSTANCE Semaphore WITH open  <- 0 \in sem_alloc,
                          value <- sem_val[0],
                          req   <- [t \in Thread |-> RequestOf(0, t)],
                          posts <- posts[0]

AbstractForIrq ==
  INSTANCE Semaphore WITH open  <- 1 \in sem_alloc,
                          value <- sem_val[1],
                          req   <- [t \in Thread |-> RequestOf(1, t)],
                          posts <- posts[1]

(***************************************************************************)
(* Refinement: semaphore 0, as its callers see it, is the counting         *)
(* semaphore with timed waits of module Semaphore: no token is lost or     *)
(* duplicated, and none is taken by a call that reports a timeout.         *)
(***************************************************************************)
IsSemaphore == Abstract!Spec

(***************************************************************************)
(* Refinement: so is semaphore 1, to which an interrupt handler posts and  *)
(* on which nobody waits with a timeout, between a service call and the    *)
(* scheduler and inside the clock interrupt's loop as well                 *)
(* (__thinkos_sem_post).                                                   *)
(***************************************************************************)
IsSemaphoreForIrq == AbstractForIrq!Spec
================================================================================
