------------------------------- MODULE ThinkOSFlag -------------------------------
(***************************************************************************)
(* Flags: thinkos_flag.c, and the interrupt-level calls of thinkos_irq.h.  *)
(* A flag is a signal bit with a wait queue. thinkos_flag_take() consumes  *)
(* the signal; thinkos_flag_wait() also locks the flag, and the next wait  *)
(* is held back, signal or not, until thinkos_flag_release().              *)
(***************************************************************************)
EXTENDS ThinkOSCore

CONSTANT
  IRQ_FLAGS        (* flags an interrupt handler gives, sets and clears     *)

VARIABLES
  flag_sig,        (* signalled flags                                       *)
  flag_lock,       (* locked flags                                          *)
  flag_alloc       (* allocated flags                                       *)

flagVars == <<flag_sig, flag_lock, flag_alloc>>

vars == <<coreVars, flagVars>>

Flag == 0 .. FLAG_MAX - 1

ASSUME FlagAssumption == IRQ_FLAGS \subseteq Flag

(* Object numbers a caller may pass: one past the last flag included. *)
FlagArg == FLAG_BASE .. FLAG_BASE + FLAG_MAX

(* The argument check: in range and allocated. *)
IsFlag(wq) == wq - FLAG_BASE \in flag_alloc

Signalled(wq) == wq - FLAG_BASE \in flag_sig
Locked(wq)    == wq - FLAG_BASE \in flag_lock

FlagRefuse(t, ret) == Refuse(t, ret) /\ UNCHANGED flagVars

--------------------------------------------------------------------------------
(* Faulty variant: the failure of the allocation is not looked at. *)
thinkos_flag_alloc_svc_unchecked(t) ==
  /\ Calls(t)
  /\ flag_alloc' = flag_alloc \cup {bmp_alloc(Flag, flag_alloc)}
  /\ UNCHANGED <<coreVars, flag_sig, flag_lock>>

thinkos_flag_alloc_svc(t) ==
  LET idx == bmp_alloc(Flag, flag_alloc)
  IN  /\ Calls(t)
      /\ IF idx = NONE
         THEN FlagRefuse(t, NONE)
         ELSE /\ flag_alloc' = flag_alloc \cup {idx}
              /\ flag_sig' = flag_sig \ {idx}
              /\ flag_lock' = flag_lock \ {idx}
              /\ UNCHANGED coreVars

(* No check that the flag is unlocked or that nobody waits. *)
thinkos_flag_free_svc(t, wq) ==
  /\ Calls(t)
  /\ IF wq - FLAG_BASE \notin Flag
     THEN FlagRefuse(t, EINVAL)
     ELSE /\ flag_alloc' = flag_alloc \ {wq - FLAG_BASE}
          /\ UNCHANGED <<coreVars, flag_sig, flag_lock>>

(* The caller waits for the flag; its argument register keeps the number. *)
FlagBlock(t, wq, op) ==
  /\ wq_lst' = wait(wq_insert(wq_lst, wq, t), t)
  /\ SetStat(t, Stat(wq, 0))
  /\ Blocked(t, Call(op, wq, 0), wq)
  /\ UNCHANGED <<clock, handlerVars, flagVars>>

(* Faulty variant: the status does not say that the clock is running. *)
FlagTimedBlock_untimed_status(t, wq, ms, op) ==
  /\ wq_lst' = wait(tmdwq_insert(wq_lst, wq, t), t)
  /\ SetStat(t, Stat(wq, 0))
  /\ SetClock(t, ms)
  /\ Blocked(t, Call(op, wq, 0), ETIMEDOUT)
  /\ UNCHANGED <<handlerVars, flagVars>>

FlagTimedBlock(t, wq, ms, op) ==
  /\ wq_lst' = wait(tmdwq_insert(wq_lst, wq, t), t)
  /\ SetStat(t, Stat(wq, 1))
  /\ SetClock(t, ms)
  /\ Blocked(t, Call(op, wq, 0), ETIMEDOUT)
  /\ UNCHANGED <<handlerVars, flagVars>>

(* thinkos_flag_wait() needs the signal and the lock. *)
MayPass(wq) == IsFlag(wq) /\ Signalled(wq) /\ ~Locked(wq)

PassFlag(wq) ==
  /\ MayPass(wq)
  /\ flag_lock' = flag_lock \cup {wq - FLAG_BASE}
  /\ flag_sig' = flag_sig \ {wq - FLAG_BASE}
  /\ UNCHANGED <<coreVars, flag_alloc>>

thinkos_flag_wait_svc(t, wq) ==
  /\ Calls(t)
  /\ \/ ~IsFlag(wq) /\ FlagRefuse(t, EINVAL)
     \/ PassFlag(wq)
     \/ IsFlag(wq) /\ ~MayPass(wq) /\ FlagBlock(t, wq, "flag_wait")

thinkos_flag_timedwait_svc(t, wq, ms) ==
  /\ Calls(t)
  /\ \/ ~IsFlag(wq) /\ FlagRefuse(t, EINVAL)
     \/ PassFlag(wq)
     \/ IsFlag(wq) /\ ~MayPass(wq) /\ FlagTimedBlock(t, wq, ms, "flag_timedwait")

(* Faulty variant: the signal that came in the meantime is left alone. *)
thinkos_flag_release_svc_no_wakeup(t, wq, sig) ==
  /\ Calls(t)
  /\ \/ ~IsFlag(wq) /\ FlagRefuse(t, EINVAL)
     \/ /\ IsFlag(wq)
        /\ flag_lock' = flag_lock \ {wq - FLAG_BASE}
        /\ flag_sig' = IF sig THEN flag_sig \cup {wq - FLAG_BASE} ELSE flag_sig
        /\ UNCHANGED <<coreVars, flag_alloc>>

(* Unlock the flag; pass a signal, new or old, and the lock to a waiter. *)
thinkos_flag_release_svc(t, wq, sig) ==
  LET idx == wq - FLAG_BASE
      th  == wq_head(wq)
  IN  /\ Calls(t)
      /\ \/ ~IsFlag(wq) /\ FlagRefuse(t, EINVAL)
         \/ /\ IsFlag(wq)
            /\ (sig \/ Signalled(wq)) /\ th # THREAD_NULL
            /\ flag_sig' = flag_sig \ {idx}
            /\ flag_lock' = flag_lock \cup {idx}
            /\ Wakeup(wq, {th})
            /\ UNCHANGED flag_alloc
         \/ /\ IsFlag(wq)
            /\ ~((sig \/ Signalled(wq)) /\ th # THREAD_NULL)
            /\ flag_sig' = IF sig THEN flag_sig \cup {idx} ELSE flag_sig
            /\ flag_lock' = flag_lock \ {idx}
            /\ UNCHANGED <<coreVars, flag_alloc>>

(* thinkos_flag_take() does not look at the lock. *)
TakeSignal(wq) ==
  /\ IsFlag(wq)
  /\ Signalled(wq)
  /\ flag_sig' = flag_sig \ {wq - FLAG_BASE}
  /\ UNCHANGED <<coreVars, flag_lock, flag_alloc>>

NoSignal(wq) == IsFlag(wq) /\ ~Signalled(wq)

thinkos_flag_take_svc(t, wq) ==
  /\ Calls(t)
  /\ \/ ~IsFlag(wq) /\ FlagRefuse(t, EINVAL)
     \/ TakeSignal(wq)
     \/ NoSignal(wq) /\ FlagBlock(t, wq, "flag_take")

thinkos_flag_timedtake_svc(t, wq, ms) ==
  /\ Calls(t)
  /\ \/ ~IsFlag(wq) /\ FlagRefuse(t, EINVAL)
     \/ TakeSignal(wq)
     \/ NoSignal(wq) /\ FlagTimedBlock(t, wq, ms, "flag_timedtake")

(***************************************************************************)
(* Give: one waiter, whichever call it is in, and neither looking at the   *)
(* lock nor setting it, or else the signal.                                *)
(***************************************************************************)
FlagGive(wq) ==
  LET th == wq_head(wq)
  IN  /\ UNCHANGED <<flag_lock, flag_alloc>>
      /\ IF Signalled(wq) \/ th = THREAD_NULL
         THEN flag_sig' = flag_sig \cup {wq - FLAG_BASE} /\ UNCHANGED coreVars
         ELSE Wakeup(wq, {th}) /\ UNCHANGED flag_sig

(* Faulty variant: the scheduler is not requested. *)
FlagSet_no_sched(wq) ==
  /\ flag_sig' = flag_sig \cup {wq - FLAG_BASE}
  /\ Wakeup_no_sched(wq, wq_lst[wq])
  /\ UNCHANGED <<flag_lock, flag_alloc>>

(* Set: the signal, and every waiter. *)
FlagSet(wq) ==
  /\ flag_sig' = flag_sig \cup {wq - FLAG_BASE}
  /\ Wakeup(wq, wq_lst[wq])
  /\ UNCHANGED <<flag_lock, flag_alloc>>

FlagClr(wq) ==
  /\ flag_sig' = flag_sig \ {wq - FLAG_BASE}
  /\ UNCHANGED <<coreVars, flag_lock, flag_alloc>>

thinkos_flag_give_svc(t, wq) ==
  /\ Calls(t)
  /\ \/ ~IsFlag(wq) /\ FlagRefuse(t, EINVAL)
     \/ IsFlag(wq) /\ FlagGive(wq)

thinkos_flag_set_svc(t, wq) ==
  /\ Calls(t)
  /\ \/ ~IsFlag(wq) /\ FlagRefuse(t, EINVAL)
     \/ IsFlag(wq) /\ FlagSet(wq)

thinkos_flag_clr_svc(t, wq) ==
  /\ Calls(t)
  /\ \/ ~IsFlag(wq) /\ FlagRefuse(t, EINVAL)
     \/ IsFlag(wq) /\ FlagClr(wq)

(***************************************************************************)
(* The calls of an interrupt handler, at any moment of a thread, of the    *)
(* SysTick loop, or between a service call and the scheduler.              *)
(***************************************************************************)
FlagIrq ==
  \E f \in IRQ_FLAGS \cap flag_alloc :
    FlagGive(FLAG_BASE + f) \/ FlagSet(FLAG_BASE + f) \/ FlagClr(FLAG_BASE + f)

FlagWaitOps == {"flag_wait", "flag_timedwait"}
FlagTakeOps == {"flag_take", "flag_timedtake"}

FlagReturn(t) ==
  /\ call[t].op \in FlagWaitOps \cup FlagTakeOps
  /\ CallReturn(t)
  /\ UNCHANGED flagVars

--------------------------------------------------------------------------------
Init ==
  /\ CoreInit
  /\ flag_sig = {}
  /\ flag_lock = {}
  /\ flag_alloc = {}

FlagStep(t) ==
  \/ thinkos_flag_alloc_svc(t)
  \/ \E wq \in FlagArg :
       \/ thinkos_flag_free_svc(t, wq)
       \/ thinkos_flag_wait_svc(t, wq)
       \/ thinkos_flag_take_svc(t, wq)
       \/ \E ms \in TIMEOUTS : \/ thinkos_flag_timedwait_svc(t, wq, ms)
                               \/ thinkos_flag_timedtake_svc(t, wq, ms)
       \/ \E sig \in BOOLEAN : thinkos_flag_release_svc(t, wq, sig)
       \/ thinkos_flag_give_svc(t, wq)
       \/ thinkos_flag_set_svc(t, wq)
       \/ thinkos_flag_clr_svc(t, wq)
  \/ FlagReturn(t)

Next ==
  \/ CoreStep /\ UNCHANGED flagVars
  \/ \E t \in Thread : FlagStep(t)
  \/ FlagIrq

Spec == Init /\ [][Next]_vars

--------------------------------------------------------------------------------
(* Every variable stays in the range its C type and use give it. *)
TypeOK ==
  /\ CoreTypeOK
  /\ flag_sig \subseteq Flag
  /\ flag_lock \subseteq Flag
  /\ flag_alloc \subseteq Flag

(***************************************************************************)
(* A thread waits beside a signal only if it waits for the lock as well,   *)
(* and the flag is locked: the release that is due will pass the signal    *)
(* on. A taker never waits beside a signal. Whatever the mix of the two    *)
(* protocols, timeouts and interrupt-level calls (thinkos_flag_wait_svc,   *)
(* _take_svc, _give_svc, _set_svc, _release_svc, __thinkos_flag_give).     *)
(***************************************************************************)
NoSignalPastWaiter ==
  \A f \in flag_sig : \A t \in wq_lst[FLAG_BASE + f] :
    call[t].op \in FlagWaitOps /\ f \in flag_lock
================================================================================
