------------------------------ MODULE ThinkOSMutex ------------------------------
(***************************************************************************)
(* Mutexes and condition variables: thinkos_mutex.c and thinkos_cond.c,    *)
(* with the user-level stubs of thinkos_svc.h that take the mutex again    *)
(* after a condition wait. The two are one module because a condition wait *)
(* releases a mutex inside its own service call.                           *)
(***************************************************************************)
EXTENDS ThinkOSCore

CONSTANTS
  FREEABLE      (* indices of the mutexes the application frees at run time *)

VARIABLES
  lock,         (* [Mutex -> owner thread, or -1]                           *)
  mutex_alloc,  (* allocated mutexes                                        *)
  cond_alloc,   (* allocated condition variables                            *)
  held          (* [Thread -> mutexes the thread's own code has been told   *)
                (*            it owns]: what a caller relies on             *)

mutexVars == <<lock, mutex_alloc, cond_alloc, held>>

vars == <<coreVars, mutexVars>>

Mutex == 0 .. MUTEX_MAX - 1
Cond  == 0 .. COND_MAX - 1

ASSUME MutexAssumption == FREEABLE \subseteq Mutex

(* Object numbers a caller may pass: one past the last of the kind included. *)
MutexArg == MUTEX_BASE .. MUTEX_BASE + MUTEX_MAX
CondArg  == COND_BASE .. COND_BASE + COND_MAX

(* The argument check: in range and allocated. *)
IsMutex(wq) == wq - MUTEX_BASE \in mutex_alloc
IsCond(wq)  == wq - COND_BASE \in cond_alloc

Owner(wq) == lock[wq - MUTEX_BASE]

--------------------------------------------------------------------------------
MutexRefuse(t, ret) == Refuse(t, ret) /\ UNCHANGED mutexVars

thinkos_mutex_alloc_svc(t) ==
  LET idx == bmp_alloc(Mutex, mutex_alloc)
  IN  /\ Calls(t)
      /\ IF idx = NONE
         THEN MutexRefuse(t, NONE)
         ELSE /\ mutex_alloc' = mutex_alloc \cup {idx}
              /\ lock' = [lock EXCEPT ![idx] = NONE]
              /\ UNCHANGED <<coreVars, cond_alloc, held>>

(* No check that the mutex is unlocked, unused or even allocated. *)
thinkos_mutex_free_svc(t, wq) ==
  /\ Calls(t)
  /\ IF wq - MUTEX_BASE \notin Mutex
     THEN MutexRefuse(t, EINVAL)
     ELSE /\ wq - MUTEX_BASE \in FREEABLE
          /\ mutex_alloc' = mutex_alloc \ {wq - MUTEX_BASE}
          /\ UNCHANGED <<coreVars, lock, cond_alloc, held>>

(* Outcomes of a lock attempt that need no waiting. *)
LockRefused(t, wq) ==
  \/ ~IsMutex(wq)                   /\ MutexRefuse(t, EINVAL)
  \/ IsMutex(wq) /\ Owner(wq) = t   /\ MutexRefuse(t, EDEADLK)

(* Faulty variant: the owner is not looked at. *)
TakeLock_unchecked(t, wq) ==
  /\ IsMutex(wq)
  /\ lock' = [lock EXCEPT ![wq - MUTEX_BASE] = t]
  /\ UNCHANGED <<mutex_alloc, cond_alloc>>

TakeLock(t, wq) ==
  /\ IsMutex(wq)
  /\ Owner(wq) = NONE
  /\ lock' = [lock EXCEPT ![wq - MUTEX_BASE] = t]
  /\ UNCHANGED <<mutex_alloc, cond_alloc>>

LockTaken(t, wq) ==
  /\ TakeLock(t, wq)
  /\ held' = [held EXCEPT ![t] = @ \cup {wq - MUTEX_BASE}]
  /\ UNCHANGED coreVars

LockBusy(t, wq) == IsMutex(wq) /\ Owner(wq) \notin {NONE, t}

(* Thread t blocks in call c until the owner hands the mutex over. *)
LockWait(t, wq, c) ==
  /\ LockBusy(t, wq)
  /\ wq_lst' = wait(wq_insert(wq_lst, wq, t), t)
  /\ SetStat(t, Stat(wq, 0))
  /\ Blocked(t, c, OK)
  /\ UNCHANGED <<clock, handlerVars, mutexVars>>

thinkos_mutex_lock_svc(t, wq) ==
  /\ Calls(t)
  /\ \/ LockRefused(t, wq)
     \/ LockTaken(t, wq)
     \/ LockWait(t, wq, Call("mutex_lock", wq, wq))

thinkos_mutex_trylock_svc(t, wq) ==
  /\ Calls(t)
  /\ \/ LockRefused(t, wq)
     \/ LockTaken(t, wq)
     \/ LockBusy(t, wq) /\ MutexRefuse(t, EAGAIN)

thinkos_mutex_timedlock_svc(t, wq, ms) ==
  /\ Calls(t)
  /\ \/ LockRefused(t, wq)
     \/ LockTaken(t, wq)
     \/ /\ LockBusy(t, wq)
        /\ wq_lst' = wait(tmdwq_insert(wq_lst, wq, t), t)
        /\ SetStat(t, Stat(wq, 1))
        /\ SetClock(t, ms)
        /\ Blocked(t, Call("mutex_timedlock", wq, wq), ETIMEDOUT)
        /\ UNCHANGED <<handlerVars, mutexVars>>

(* Faulty variants: an empty queue is not told apart; no waiter is. *)
NextOwner_unchecked(wq) == wq_head(wq)

NextOwner_nobody(wq) == NONE

(***************************************************************************)
(* The owner leaves: the lock goes to the first waiter, if there is one.   *)
(***************************************************************************)
NextOwner(wq) == IF wq_lst[wq] = {} THEN NONE ELSE wq_head(wq)

(* Faulty variant: the old owner stays in lock[]. *)
HandOver_keeps_owner(t, wq) ==
  /\ IsMutex(wq)
  /\ Owner(wq) = t
  /\ held' = [held EXCEPT ![t] = @ \ {wq - MUTEX_BASE}]
  /\ UNCHANGED <<lock, mutex_alloc, cond_alloc>>

HandOver(t, wq) ==
  /\ IsMutex(wq)
  /\ Owner(wq) = t
  /\ lock' = [lock EXCEPT ![wq - MUTEX_BASE] = NextOwner(wq)]
  /\ held' = [held EXCEPT ![t] = @ \ {wq - MUTEX_BASE}]
  /\ UNCHANGED <<mutex_alloc, cond_alloc>>

thinkos_mutex_unlock_svc(t, wq) ==
  LET th == NextOwner(wq)
  IN  /\ Calls(t)
      /\ \/ ~IsMutex(wq)                   /\ MutexRefuse(t, EINVAL)
         \/ IsMutex(wq) /\ Owner(wq) # t   /\ MutexRefuse(t, EPERM)
         \/ /\ HandOver(t, wq)
            /\ IF th = NONE THEN UNCHANGED coreVars ELSE Wakeup(wq, {th})

--------------------------------------------------------------------------------
thinkos_cond_alloc_svc(t) ==
  LET idx == bmp_alloc(Cond, cond_alloc)
  IN  /\ Calls(t)
      /\ IF idx = NONE
         THEN MutexRefuse(t, NONE)
         ELSE /\ cond_alloc' = cond_alloc \cup {idx}
              /\ UNCHANGED <<coreVars, lock, mutex_alloc, held>>

thinkos_cond_free_svc(t, wq) ==
  /\ Calls(t)
  /\ IF wq - COND_BASE \notin Cond
     THEN MutexRefuse(t, EINVAL)
     ELSE /\ cond_alloc' = cond_alloc \ {wq - COND_BASE}
          /\ UNCHANGED <<coreVars, lock, mutex_alloc, held>>

CondWaitRefused(t, cwq, mwq) ==
  \/ ~(IsCond(cwq) /\ IsMutex(mwq))                   /\ MutexRefuse(t, EINVAL)
  \/ IsCond(cwq) /\ IsMutex(mwq) /\ Owner(mwq) # t    /\ MutexRefuse(t, EPERM)

(***************************************************************************)
(* Put t in the condition's queue, hand the mutex over, wait. `queued' is  *)
(* the wait-queue list with t inserted, `stat' its status byte, `ret' the  *)
(* result the call has if nobody signals.                                  *)
(***************************************************************************)
ReleaseAndWait(t, mwq, c, queued, stat, ret) ==
  LET th == NextOwner(mwq)
  IN  /\ HandOver(t, mwq)
      /\ call' = [call EXCEPT ![t] = c]
      /\ pendsv' = TRUE
      /\ IF th = NONE
         THEN /\ wq_lst' = wait(queued, t)
              /\ SetStat(t, stat)
              /\ r0' = [r0 EXCEPT ![t] = ret]
         ELSE /\ wq_lst' = wait(wakeup(queued, mwq, {th}), t)
              /\ th_stat' = [th_stat EXCEPT ![t] = stat, ![th] = 0]
              /\ r0' \in CtxWrite([r0 EXCEPT ![t] = ret], {th}, OK)
      /\ UNCHANGED handlerVars

thinkos_cond_wait_svc(t, cwq, mwq) ==
  /\ Calls(t)
  /\ \/ CondWaitRefused(t, cwq, mwq)
     \/ /\ IsCond(cwq)
        /\ ReleaseAndWait(t, mwq, Call("cond_wait", cwq, mwq),
                          wq_insert(wq_lst, cwq, t), Stat(cwq, 0), OK)
        /\ UNCHANGED clock

thinkos_cond_timedwait_svc(t, cwq, mwq, ms) ==
  /\ Calls(t)
  /\ \/ CondWaitRefused(t, cwq, mwq)
     \/ /\ IsCond(cwq)
        /\ ReleaseAndWait(t, mwq, Call("cond_timedwait", cwq, mwq),
                          tmdwq_insert(wq_lst, cwq, t), Stat(cwq, 1),
                          ETIMEDOUT)
        /\ SetClock(t, ms)

thinkos_cond_signal_svc(t, cwq) ==
  /\ Calls(t)
  /\ \/ ~IsCond(cwq) /\ MutexRefuse(t, EINVAL)
     \/ /\ IsCond(cwq)
        /\ Wakeup(cwq, {th \in wq_lst[cwq] : th = wq_head(cwq)})
        /\ UNCHANGED mutexVars

thinkos_cond_broadcast_svc(t, cwq) ==
  /\ Calls(t)
  /\ \/ ~IsCond(cwq) /\ MutexRefuse(t, EINVAL)
     \/ IsCond(cwq) /\ Wakeup(cwq, wq_lst[cwq]) /\ UNCHANGED mutexVars

--------------------------------------------------------------------------------
(***************************************************************************)
(* Return to the caller. The thinkos_cond_wait() and                       *)
(* thinkos_cond_timedwait() stubs lock the mutex again, unless the wait    *)
(* failed, and return what the lock call returned. The name of the call    *)
(* remembers whether the wait had timed out.                               *)
(***************************************************************************)
CondWaitOps == {"cond_wait", "cond_timedwait"}
RelockOps   == {"cond_relock", "cond_relock_timedout"}
LockOps     == {"mutex_lock", "mutex_timedlock"} \cup RelockOps

CondRelock(t) ==
  LET mwq == call[t].mwq
      c   == Call(IF r0[t] = ETIMEDOUT THEN "cond_relock_timedout"
                                       ELSE "cond_relock", mwq, mwq)
  IN  /\ Running(t)
      /\ call[t].op \in CondWaitOps
      /\ r0[t] >= ETIMEDOUT
      /\ \/ /\ ~IsMutex(mwq) \/ Owner(mwq) = t
            /\ CallReturn(t)
            /\ UNCHANGED mutexVars
         \/ /\ TakeLock(t, mwq)
            /\ r0' = [r0 EXCEPT ![t] = OK]
            /\ call' = [call EXCEPT ![t] = c]
            /\ UNCHANGED <<wq_lst, pendsv, th_stat, clock, handlerVars, held>>
         \/ LockWait(t, mwq, c)

(* The mutex a finished call hands to its caller. *)
Granted(t) ==
  IF call[t].op \in LockOps /\ r0[t] = OK THEN {call[t].mwq - MUTEX_BASE} ELSE {}

MutexReturn(t) ==
  /\ call[t].op \in LockOps
  /\ CallReturn(t)
  /\ held' = [held EXCEPT ![t] = @ \cup Granted(t)]
  /\ UNCHANGED <<lock, mutex_alloc, cond_alloc>>

--------------------------------------------------------------------------------
Init ==
  /\ CoreInit
  /\ lock = [m \in Mutex |-> NONE]
  /\ mutex_alloc = {}
  /\ cond_alloc = {}
  /\ held = [t \in Thread |-> {}]

MutexStep(t) ==
  \/ thinkos_mutex_alloc_svc(t)
  \/ \E wq \in MutexArg :
       \/ thinkos_mutex_free_svc(t, wq)
       \/ thinkos_mutex_lock_svc(t, wq)
       \/ thinkos_mutex_trylock_svc(t, wq)
       \/ \E ms \in TIMEOUTS : thinkos_mutex_timedlock_svc(t, wq, ms)
       \/ thinkos_mutex_unlock_svc(t, wq)

CondStep(t) ==
  \/ thinkos_cond_alloc_svc(t)
  \/ \E cwq \in CondArg :
       \/ thinkos_cond_free_svc(t, cwq)
       \/ \E mwq \in MutexArg :
            \/ thinkos_cond_wait_svc(t, cwq, mwq)
            \/ \E ms \in TIMEOUTS : thinkos_cond_timedwait_svc(t, cwq, mwq, ms)
       \/ thinkos_cond_signal_svc(t, cwq)
       \/ thinkos_cond_broadcast_svc(t, cwq)

Next ==
  \/ CoreStep /\ UNCHANGED mutexVars
  \/ \E t \in Thread : \/ MutexStep(t)
                       \/ CondStep(t)
                       \/ CondRelock(t)
                       \/ MutexReturn(t)

Spec == Init /\ [][Next]_vars

(* As in ThinkOSCore, for the returns of this module's calls as well. *)
Fairness ==
  /\ WF_vars(SysTick /\ UNCHANGED mutexVars)
  /\ SF_vars(PendSV /\ UNCHANGED mutexVars)
  /\ \A t \in Thread :
       /\ SF_vars(CoreReturn(t) /\ UNCHANGED mutexVars)
       /\ SF_vars(CondRelock(t))
       /\ SF_vars(MutexReturn(t))

FairSpec == Spec /\ Fairness

--------------------------------------------------------------------------------
(* Every variable stays in the range its C type and use give it. *)
TypeOK ==
  /\ CoreTypeOK
  /\ lock \in [Mutex -> Thread \cup {NONE}]
  /\ mutex_alloc \subseteq Mutex
  /\ cond_alloc \subseteq Cond
  /\ held \in [Thread -> SUBSET Mutex]
  /\ \A t \in Thread : call[t].op \in LockOps \cup CondWaitOps
                          => call[t].mwq - MUTEX_BASE \in Mutex

(***************************************************************************)
(* A mutex nobody owns has an empty wait queue: no sequence of locks,      *)
(* timeouts, hand-overs and condition waits leaves a thread waiting for a  *)
(* lock that is free (thinkos_mutex_lock_svc, _unlock_svc, cond waits).    *)
(***************************************************************************)
FreeLockHasNoWaiter ==
  \A m \in Mutex \ FREEABLE :
    lock[m] = NONE => wq_lst[MUTEX_BASE + m] = {}

(***************************************************************************)
(* Mutual exclusion as the callers see it: a thread whose lock call has    *)
(* returned success is the owner recorded in lock[], until it releases.    *)
(***************************************************************************)
HeldIsOwned ==
  \A t \in Thread : \A m \in held[t] \ FREEABLE : lock[m] = t

(***************************************************************************)
(* No orphaned lock: the owner recorded in lock[] knows it, or has a lock  *)
(* call in its frame that will report success. A thread that is told its   *)
(* timed lock expired never owns the mutex.                                *)
(***************************************************************************)
OwnerIsTold ==
  \A t \in Thread : \A m \in Mutex \ FREEABLE :
    lock[m] = t => m \in held[t] \cup Granted(t)

(***************************************************************************)
(* A thread blocked in a lock call or in a condition wait does not own the *)
(* mutex it is going to lock: the wait released it, whoever it went to,    *)
(* and it cannot be waiting for itself (thinkos_cond_wait_svc,             *)
(* thinkos_cond_timedwait_svc, thinkos_mutex_lock_svc).                    *)
(***************************************************************************)
WaiterIsNotOwner ==
  \A t \in Thread : \A w \in ObjectWQ :
    t \in wq_lst[w] => Owner(call[t].mwq) # t

(***************************************************************************)
(* A mutex that is handed over to the most urgent thread reaches it: the   *)
(* thread gets to run and sees its call return (thinkos_mutex_unlock_svc,  *)
(* thinkos_cond_wait_svc, cm3_pendsv_isr and the stubs of thinkos_svc.h).  *)
(***************************************************************************)
HandOverReachesOwner == \A m \in Mutex : lock[m] = 0 ~> m \in held[0]

(***************************************************************************)
(* A timed wait of the most urgent thread ends, by the owner, a signal or  *)
(* the clock (thinkos_mutex_timedlock_svc, thinkos_cond_timedwait_svc,     *)
(* cm3_systick_isr).                                                       *)
(***************************************************************************)
UrgentTimedWaitEnds ==
  \A op \in {"mutex_timedlock", "cond_timedwait"} :
    call[0].op = op ~> call[0].op # op

(***************************************************************************)
(* A condition wait that ran into its timeout says so to its caller        *)
(* (thinkos_cond_timedwait of thinkos_svc.h).                              *)
(***************************************************************************)
CondTimeoutReported ==
  [][\A t \in Thread :
       call[t].op = "cond_relock_timedout" /\ call'[t] = NoCall
         => r0[t] = ETIMEDOUT]_vars
================================================================================
