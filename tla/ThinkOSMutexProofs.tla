--------------------------- MODULE ThinkOSMutexProofs ---------------------------
(***************************************************************************)
(* Proofs about mutexes and condition variables: type correctness in every *)
(* configuration, and mutual exclusion, absence of orphaned locks, and     *)
(* strict-priority scheduling in the configurations without time sharing   *)
(* whose queue indices fit the status byte. The last sections prove what   *)
(* the blocking calls guarantee to the scheduler, to the clock interrupt   *)
(* and to the time-share threads, in configurations with time sharing as   *)
(* well, and that nobody waits for a mutex of its own.                     *)
(***************************************************************************)
EXTENDS ThinkOSMutex, ThinkOSCoreProofs

--------------------------------------------------------------------------------
(* An argument that passes the check names a mutex's (a condition's) queue. *)
LEMMA MutexArgLemma ==
  ASSUME mutex_alloc \subseteq Mutex, NEW wq \in Int, IsMutex(wq)
  PROVE  /\ wq - MUTEX_BASE \in Mutex
         /\ wq \in WQ /\ wq \notin {WQ_READY, WQ_CLOCK}
BY LayoutLemma, CoreAssumption DEF IsMutex, Mutex, WQ

(* The same for condition variables. *)
LEMMA CondArgLemma ==
  ASSUME cond_alloc \subseteq Cond, NEW wq \in Int, IsCond(wq)
  PROVE  /\ wq - COND_BASE \in Cond
         /\ wq \in WQ /\ wq \notin {WQ_READY, WQ_CLOCK}
BY LayoutLemma, CoreAssumption DEF IsCond, Cond, WQ

(* Object numbers are integers. *)
LEMMA ArgType == MutexArg \subseteq Int /\ CondArg \subseteq Int
BY LayoutLemma, CoreAssumption DEF MutexArg, CondArg

(* The next owner is a thread that waits for the mutex, or nobody. *)
LEMMA NextOwnerLemma ==
  ASSUME CoreTypeOK, NEW w \in WQ, w # WQ_READY
  PROVE  \/ NextOwner(w) = NONE /\ wq_lst[w] = {}
         \/ NextOwner(w) \in Thread /\ NextOwner(w) \in wq_lst[w]
BY HeadMember DEF NextOwner, CoreTypeOK

(* Mutex and condition indices are naturals. *)
LEMMA ObjectSets == Mutex \subseteq Nat /\ Cond \subseteq Nat
BY CoreAssumption DEF Mutex, Cond

--------------------------------------------------------------------------------
(* The part of the type invariant that is about the calls' records. *)
CallsOK ==
  \A t \in Thread : call[t].op \in LockOps \cup CondWaitOps
                      => call[t].mwq - MUTEX_BASE \in Mutex

MutexTypeOK ==
  /\ lock \in [Mutex -> Thread \cup {NONE}]
  /\ mutex_alloc \subseteq Mutex
  /\ cond_alloc \subseteq Cond
  /\ held \in [Thread -> SUBSET Mutex]

(* The type invariant, by parts. *)
LEMMA TypeParts == TypeOK <=> CoreTypeOK /\ MutexTypeOK /\ CallsOK
BY DEF TypeOK, MutexTypeOK, CallsOK

(* A thread's call record is replaced by one on an allocated mutex. *)
LEMMA CallsLemma ==
  ASSUME CoreTypeOK, CallsOK, NEW t \in Thread, NEW c \in CallRecord,
         c.mwq - MUTEX_BASE \in Mutex \/ c = NoCall,
         call' = [call EXCEPT ![t] = c]
  PROVE  CallsOK'
BY DEF CallsOK, CoreTypeOK, NoCall, LockOps, RelockOps, CondWaitOps

(* Taking a free lock keeps the types of the mutex state, *)
LEMMA TakeLockType ==
  ASSUME MutexTypeOK, NEW t \in Thread, NEW wq \in Int, TakeLock(t, wq)
  PROVE  /\ lock' \in [Mutex -> Thread \cup {NONE}]
         /\ mutex_alloc' \subseteq Mutex /\ cond_alloc' \subseteq Cond
BY DEF MutexTypeOK, TakeLock

(* and so does handing it over. *)
LEMMA HandOverType ==
  ASSUME CoreTypeOK, MutexTypeOK, NEW t \in Thread, NEW wq \in Int, HandOver(t, wq)
  PROVE  MutexTypeOK'
<1>1. wq \in WQ /\ wq # WQ_READY
  BY MutexArgLemma DEF HandOver, MutexTypeOK
<1>2. NextOwner(wq) \in Thread \cup {NONE}
  BY <1>1, NextOwnerLemma
<1> QED BY <1>2 DEF MutexTypeOK, HandOver

(* Blocking in thinkos_mutex_lock_svc keeps the types, *)
LEMMA LockWaitType ==
  ASSUME TypeOK, NEW t \in Thread, NEW wq \in Int,
         NEW c \in CallRecord, c.mwq = wq, LockWait(t, wq, c)
  PROVE  TypeOK'
<1>1. wq - MUTEX_BASE \in Mutex /\ wq \in WQ /\ wq # WQ_READY
  BY MutexArgLemma DEF LockWait, LockBusy, TypeOK
<1>2. QueuesOK(wait(wq_insert(wq_lst, wq, t), t))
  BY <1>1, InsertType, WaitType DEF TypeOK, CoreTypeOK
<1>3. Stat(wq, 0) \in 0 .. 255
  BY <1>1, StatType
<1>4. clock' \in [Thread -> 0 .. CLOCK_MOD - 1]
  BY DEF LockWait, TypeOK, CoreTypeOK
<1>5. CoreTypeOK'
  BY <1>2, <1>3, <1>4, BlockKeepsType DEF LockWait, TypeOK, OK
<1>6. CallsOK'
  BY <1>1, CallsLemma, TypeParts DEF LockWait, Blocked
<1>7. MutexTypeOK'
  BY TypeParts DEF LockWait, mutexVars, MutexTypeOK
<1> QED BY <1>5, <1>6, <1>7, TypeParts DEF TypeOK, MutexTypeOK, CallsOK

(* and so does blocking in thinkos_mutex_timedlock_svc. *)
LEMMA TimedLockType ==
  ASSUME TypeOK, NEW t \in Thread, NEW wq \in MutexArg, NEW ms \in TIMEOUTS,
         thinkos_mutex_timedlock_svc(t, wq, ms), LockBusy(t, wq)
  PROVE  TypeOK'
<1>1. wq \in Int /\ wq - MUTEX_BASE \in Mutex /\ wq \in WQ /\ wq # WQ_READY
  BY MutexArgLemma, ArgType DEF LockBusy, TypeOK
<1>2. /\ wq_lst' = wait(tmdwq_insert(wq_lst, wq, t), t)
      /\ SetStat(t, Stat(wq, 1)) /\ SetClock(t, ms)
      /\ Blocked(t, Call("mutex_timedlock", wq, wq), ETIMEDOUT)
      /\ UNCHANGED <<handlerVars, mutexVars>>
  <2>1. ~LockRefused(t, wq) /\ ~LockTaken(t, wq)
    BY DEF LockBusy, LockRefused, LockTaken, TakeLock
  <2> QED BY <2>1 DEF thinkos_mutex_timedlock_svc
<1>3. QueuesOK(wait(tmdwq_insert(wq_lst, wq, t), t))
  BY <1>1, InsertType, WaitType DEF TypeOK, CoreTypeOK
<1>4. Stat(wq, 1) \in 0 .. 255
  BY <1>1, StatType
<1>5. Call("mutex_timedlock", wq, wq) \in CallRecord
  BY <1>1, CallType DEF BlockingCalls
<1>6. clock' \in [Thread -> 0 .. CLOCK_MOD - 1]
  BY <1>2, SetClockType, CoreAssumption DEF TypeOK
<1>7. CoreTypeOK'
  BY <1>2, <1>3, <1>4, <1>5, <1>6, BlockKeepsType DEF TypeOK, ETIMEDOUT
<1>8. CallsOK'
  BY <1>1, <1>2, <1>5, CallsLemma, TypeParts DEF Blocked, Call
<1>9. MutexTypeOK'
  BY <1>2, TypeParts DEF mutexVars, MutexTypeOK
<1> QED BY <1>7, <1>8, <1>9 DEF TypeOK, MutexTypeOK, CallsOK

(* The two condition waits. *)
LEMMA ReleaseType ==
  ASSUME TypeOK, NEW t \in Thread, NEW mwq \in Int,
         NEW c \in CallRecord, c.mwq = mwq,
         NEW q, QueuesOK(q), NEW stat \in 0 .. 255, NEW ret \in Int,
         ReleaseAndWait(t, mwq, c, q, stat, ret),
         clock' \in [Thread -> 0 .. CLOCK_MOD - 1]
  PROVE  TypeOK'
<1>1. mwq - MUTEX_BASE \in Mutex /\ mwq \in WQ /\ mwq # WQ_READY
  BY MutexArgLemma DEF ReleaseAndWait, HandOver, TypeOK
<1>2. CoreTypeOK /\ MutexTypeOK /\ CallsOK
  BY TypeParts
<1>3. MutexTypeOK'
  BY <1>2, HandOverType DEF ReleaseAndWait
<1>4. CallsOK'
  BY <1>1, <1>2, CallsLemma DEF ReleaseAndWait
<1> DEFINE th == NextOwner(mwq)
           regs == [r0 EXCEPT ![t] = ret]
<1>5. regs \in [Thread -> Int]
  BY <1>2 DEF CoreTypeOK
<1>6. QueuesOK(wq_lst') /\ th_stat' \in [Thread -> 0 .. 255] /\ r0' \in [Thread -> Int]
  <2>1. CASE th = NONE
    <3>1. /\ wq_lst' = wait(q, t) /\ r0' = regs
          /\ th_stat' = [th_stat EXCEPT ![t] = stat]
      BY <2>1 DEF ReleaseAndWait, SetStat
    <3> QED BY <1>2, <1>5, <3>1, WaitType DEF CoreTypeOK
  <2>2. CASE th # NONE
    <3>1. /\ wq_lst' = wait(wakeup(q, mwq, {th}), t)
          /\ r0' \in CtxWrite(regs, {th}, OK)
          /\ th_stat' = [th_stat EXCEPT ![t] = stat, ![th] = 0]
      BY <2>2 DEF ReleaseAndWait
    <3>2. th \in Thread
      BY <1>1, <1>2, <2>2, NextOwnerLemma
    <3> HIDE DEF th, regs
    <3>3. QueuesOK(wakeup(q, mwq, {th}))
      BY <1>1, <3>2, WakeupType
    <3>4. QueuesOK(wq_lst')
      BY <3>1, <3>3, WaitType
    <3>5. r0' \in [Thread -> Int]
      BY <1>5, <3>1, CtxType DEF OK
    <3>6. th_stat' \in [Thread -> 0 .. 255]
      BY <1>2, <3>1, <3>2 DEF CoreTypeOK
    <3> QED BY <3>4, <3>5, <3>6
  <2> QED BY <2>1, <2>2
<1>7. call' \in [Thread -> CallRecord] /\ pendsv' = TRUE /\ UNCHANGED handlerVars
  BY <1>2 DEF CoreTypeOK, ReleaseAndWait
<1>8. CoreTypeOK'
  BY <1>2, <1>6, <1>7 DEF CoreTypeOK, handlerVars, QueuesOK
<1> QED BY <1>3, <1>4, <1>8 DEF TypeOK, MutexTypeOK, CallsOK

(* Steps that leave the core state alone, or only wake threads up. *)
LEMMA ObjectsType ==
  ASSUME TypeOK, MutexTypeOK', CoreTypeOK', UNCHANGED call
  PROVE  TypeOK'
BY DEF TypeOK, MutexTypeOK

(* A refused call changes nothing. *)
LEMMA RefuseType ==
  ASSUME TypeOK, UNCHANGED <<coreVars, mutexVars>>
  PROVE  TypeOK'
BY DEF TypeOK, coreVars, mutexVars, CoreTypeOK, QueuesOK

(* A call that leaves the run-time block alone keeps its types. *)
LEMMA CoreSame ==
  ASSUME CoreTypeOK, UNCHANGED coreVars
  PROVE  CoreTypeOK' /\ UNCHANGED call
BY DEF coreVars, CoreTypeOK, QueuesOK

(* A lock call that succeeds at once keeps the types. *)
LEMMA LockTakenType ==
  ASSUME TypeOK, NEW t \in Thread, NEW wq \in Int, LockTaken(t, wq)
  PROVE  TypeOK'
<1>1. wq - MUTEX_BASE \in Mutex
  BY MutexArgLemma DEF LockTaken, TakeLock, TypeOK
<1>2. CoreTypeOK' /\ UNCHANGED call
  BY CoreSame DEF LockTaken, TypeOK
<1>3. MutexTypeOK'
  <2>1. held' \in [Thread -> SUBSET Mutex]
    BY <1>1 DEF LockTaken, TypeOK
  <2> QED BY <2>1, TakeLockType, TypeParts DEF LockTaken, MutexTypeOK
<1> QED BY <1>2, <1>3, ObjectsType

(* thinkos_mutex_unlock_svc keeps the types. *)
LEMMA UnlockType ==
  ASSUME TypeOK, NEW t \in Thread, NEW wq \in Int, thinkos_mutex_unlock_svc(t, wq)
  PROVE  TypeOK'
<1>1. CASE UNCHANGED <<coreVars, mutexVars>>
  BY <1>1, RefuseType
<1>2. CASE HandOver(t, wq) /\ UNCHANGED coreVars
  BY <1>2, TypeParts, HandOverType, CoreSame, ObjectsType
<1>3. CASE HandOver(t, wq) /\ NextOwner(wq) # NONE /\ Wakeup(wq, {NextOwner(wq)})
  <2>1. wq \in WQ /\ wq # WQ_READY
    BY <1>3, MutexArgLemma DEF HandOver, TypeOK
  <2>2. NextOwner(wq) \in Thread
    BY <1>3, <2>1, NextOwnerLemma DEF TypeOK
  <2>3. CoreTypeOK' /\ UNCHANGED call
    BY <1>3, <2>1, <2>2, WakeupKeepsType DEF TypeOK, Wakeup
  <2> QED BY <1>3, <2>3, TypeParts, HandOverType, ObjectsType
<1> QED BY <1>1, <1>2, <1>3
        DEF thinkos_mutex_unlock_svc, MutexRefuse, Refuse

(* Allocating and freeing mutexes and conditions keeps the types. *)
LEMMA AllocType ==
  ASSUME TypeOK, NEW t \in Thread,
         \/ thinkos_mutex_alloc_svc(t)
         \/ thinkos_cond_alloc_svc(t)
         \/ \E wq \in MutexArg : thinkos_mutex_free_svc(t, wq)
         \/ \E wq \in CondArg : thinkos_cond_free_svc(t, wq)
  PROVE  TypeOK'
<1>1. CASE UNCHANGED <<coreVars, mutexVars>>
  BY <1>1, RefuseType
<1>2. CASE thinkos_mutex_alloc_svc(t) /\ ~UNCHANGED <<coreVars, mutexVars>>
  <2> DEFINE idx == bmp_alloc(Mutex, mutex_alloc)
  <2>1. idx = NONE \/ idx \in Mutex \ mutex_alloc
    BY AllocLemma, ObjectSets
  <2>2. /\ idx # NONE
        /\ mutex_alloc' = mutex_alloc \cup {idx}
        /\ lock' = [lock EXCEPT ![idx] = NONE]
        /\ UNCHANGED <<coreVars, cond_alloc, held>>
    BY <1>2 DEF thinkos_mutex_alloc_svc, MutexRefuse, Refuse
  <2> HIDE DEF idx
  <2> QED BY <2>1, <2>2, CoreSame, ObjectsType DEF TypeOK, MutexTypeOK
<1>3. CASE thinkos_cond_alloc_svc(t) /\ ~UNCHANGED <<coreVars, mutexVars>>
  <2> DEFINE idx == bmp_alloc(Cond, cond_alloc)
  <2>1. idx = NONE \/ idx \in Cond \ cond_alloc
    BY AllocLemma, ObjectSets
  <2>2. /\ idx # NONE
        /\ cond_alloc' = cond_alloc \cup {idx}
        /\ UNCHANGED <<coreVars, lock, mutex_alloc, held>>
    BY <1>3 DEF thinkos_cond_alloc_svc, MutexRefuse, Refuse
  <2> HIDE DEF idx
  <2> QED BY <2>1, <2>2, CoreSame, ObjectsType DEF TypeOK, MutexTypeOK
<1>4. ASSUME NEW wq \in MutexArg, thinkos_mutex_free_svc(t, wq)
      PROVE  TypeOK'
  BY <1>1, <1>4, CoreSame, ObjectsType
     DEF TypeOK, MutexTypeOK, thinkos_mutex_free_svc, MutexRefuse, Refuse
<1>5. ASSUME NEW wq \in CondArg, thinkos_cond_free_svc(t, wq)
      PROVE  TypeOK'
  BY <1>1, <1>5, CoreSame, ObjectsType
     DEF TypeOK, MutexTypeOK, thinkos_cond_free_svc, MutexRefuse, Refuse
<1> QED BY <1>1, <1>2, <1>3, <1>4, <1>5

(* Every mutex call keeps the types. *)
LEMMA MutexStepType ==
  ASSUME TypeOK, NEW t \in Thread, MutexStep(t)
  PROVE  TypeOK'
<1>1. ASSUME NEW wq \in MutexArg, LockRefused(t, wq) \/ MutexRefuse(t, EAGAIN)
      PROVE  TypeOK'
  BY <1>1, RefuseType DEF LockRefused, MutexRefuse, Refuse
<1>2. ASSUME NEW wq \in MutexArg, LockTaken(t, wq)
      PROVE  TypeOK'
  BY <1>2, ArgType, LockTakenType
<1>3. ASSUME NEW wq \in MutexArg, LockWait(t, wq, Call("mutex_lock", wq, wq))
      PROVE  TypeOK'
  <2>1. wq \in Int
    BY ArgType
  <2>2. Call("mutex_lock", wq, wq) \in CallRecord
    BY <2>1, CallType DEF BlockingCalls
  <2>3. Call("mutex_lock", wq, wq).mwq = wq
    BY DEF Call
  <2> QED BY <1>3, <2>1, <2>2, <2>3, LockWaitType
<1>4. ASSUME NEW wq \in MutexArg, thinkos_mutex_lock_svc(t, wq)
      PROVE  TypeOK'
  BY <1>1, <1>2, <1>3, <1>4 DEF thinkos_mutex_lock_svc
<1>5. ASSUME NEW wq \in MutexArg, thinkos_mutex_trylock_svc(t, wq)
      PROVE  TypeOK'
  BY <1>1, <1>2, <1>5 DEF thinkos_mutex_trylock_svc
<1>6. ASSUME NEW wq \in MutexArg, NEW ms \in TIMEOUTS,
             thinkos_mutex_timedlock_svc(t, wq, ms)
      PROVE  TypeOK'
  <2>1. CASE LockBusy(t, wq)
    BY <1>6, <2>1, TimedLockType
  <2>2. CASE ~LockBusy(t, wq)
    BY <1>1, <1>2, <1>6, <2>2 DEF thinkos_mutex_timedlock_svc
  <2> QED BY <2>1, <2>2
<1>7. ASSUME NEW wq \in MutexArg, thinkos_mutex_unlock_svc(t, wq)
      PROVE  TypeOK'
  BY <1>7, ArgType, UnlockType
<1> QED BY <1>4, <1>5, <1>6, <1>7, AllocType DEF MutexStep

(* Every condition-variable call keeps the types. *)
LEMMA CondStepType ==
  ASSUME TypeOK, NEW t \in Thread, CondStep(t)
  PROVE  TypeOK'
<1>1. CASE UNCHANGED <<coreVars, mutexVars>>
  BY <1>1, RefuseType
<1>2. ASSUME NEW cwq \in CondArg, NEW mwq \in MutexArg,
             thinkos_cond_wait_svc(t, cwq, mwq), ~UNCHANGED <<coreVars, mutexVars>>
      PROVE  TypeOK'
  <2>1. cwq \in Int /\ mwq \in Int
    BY ArgType
  <2>2. /\ IsCond(cwq)
        /\ ReleaseAndWait(t, mwq, Call("cond_wait", cwq, mwq),
                          wq_insert(wq_lst, cwq, t), Stat(cwq, 0), OK)
        /\ UNCHANGED clock
    BY <1>2 DEF thinkos_cond_wait_svc, CondWaitRefused, MutexRefuse, Refuse
  <2>3. cwq \in WQ /\ cwq # WQ_READY
    BY <2>1, <2>2, CondArgLemma DEF TypeOK
  <2>4. QueuesOK(wq_insert(wq_lst, cwq, t)) /\ Stat(cwq, 0) \in 0 .. 255
    BY <2>3, InsertType, StatType DEF TypeOK, CoreTypeOK
  <2>5. Call("cond_wait", cwq, mwq) \in CallRecord
    BY <2>1, CallType DEF BlockingCalls
  <2>6. Call("cond_wait", cwq, mwq).mwq = mwq
    BY DEF Call
  <2>7. clock' \in [Thread -> 0 .. CLOCK_MOD - 1] /\ OK \in Int
    BY <2>2 DEF TypeOK, CoreTypeOK, OK
  <2> QED BY <2>1, <2>2, <2>4, <2>5, <2>6, <2>7, ReleaseType
<1>3. ASSUME NEW cwq \in CondArg, NEW mwq \in MutexArg, NEW ms \in TIMEOUTS,
             thinkos_cond_timedwait_svc(t, cwq, mwq, ms),
             ~UNCHANGED <<coreVars, mutexVars>>
      PROVE  TypeOK'
  <2>1. cwq \in Int /\ mwq \in Int
    BY ArgType
  <2>2. /\ IsCond(cwq)
        /\ ReleaseAndWait(t, mwq, Call("cond_timedwait", cwq, mwq),
                          tmdwq_insert(wq_lst, cwq, t), Stat(cwq, 1), ETIMEDOUT)
        /\ SetClock(t, ms)
    BY <1>3 DEF thinkos_cond_timedwait_svc, CondWaitRefused, MutexRefuse, Refuse
  <2>3. cwq \in WQ /\ cwq # WQ_READY
    BY <2>1, <2>2, CondArgLemma DEF TypeOK
  <2>4. QueuesOK(tmdwq_insert(wq_lst, cwq, t)) /\ Stat(cwq, 1) \in 0 .. 255
    BY <2>3, InsertType, StatType DEF TypeOK, CoreTypeOK
  <2>5. Call("cond_timedwait", cwq, mwq) \in CallRecord
    BY <2>1, CallType DEF BlockingCalls
  <2>6. Call("cond_timedwait", cwq, mwq).mwq = mwq
    BY DEF Call
  <2>7. clock' \in [Thread -> 0 .. CLOCK_MOD - 1] /\ ETIMEDOUT \in Int
    BY <2>2, SetClockType, CoreAssumption DEF TypeOK, ETIMEDOUT
  <2> QED BY <2>1, <2>2, <2>4, <2>5, <2>6, <2>7, ReleaseType
<1>4. ASSUME NEW cwq \in CondArg, NEW ths, ths \subseteq wq_lst[cwq],
             IsCond(cwq), Wakeup(cwq, ths), UNCHANGED mutexVars
      PROVE  TypeOK'
  <2>1. cwq \in WQ /\ cwq # WQ_READY
    BY <1>4, ArgType, CondArgLemma DEF TypeOK
  <2>2. ths \subseteq Thread
    BY <1>4, <2>1 DEF TypeOK, CoreTypeOK, QueuesOK
  <2>3. CoreTypeOK' /\ UNCHANGED call
    BY <1>4, <2>1, <2>2, WakeupKeepsType DEF TypeOK, Wakeup
  <2> QED BY <1>4, <2>3, ObjectsType DEF TypeOK, MutexTypeOK, mutexVars
<1>5. ASSUME NEW cwq \in CondArg, thinkos_cond_signal_svc(t, cwq)
      PROVE  TypeOK'
  <2> DEFINE ths == {th \in wq_lst[cwq] : th = wq_head(cwq)}
  <2>1. ths \subseteq wq_lst[cwq]
    OBVIOUS
  <2>2. \/ UNCHANGED <<coreVars, mutexVars>>
        \/ IsCond(cwq) /\ Wakeup(cwq, ths) /\ UNCHANGED mutexVars
    BY <1>5 DEF thinkos_cond_signal_svc, MutexRefuse, Refuse
  <2> HIDE DEF ths
  <2> QED BY <1>1, <1>4, <2>1, <2>2
<1>6. ASSUME NEW cwq \in CondArg, thinkos_cond_broadcast_svc(t, cwq)
      PROVE  TypeOK'
  BY <1>1, <1>4, <1>6 DEF thinkos_cond_broadcast_svc, MutexRefuse, Refuse
<1> QED BY <1>1, <1>2, <1>3, <1>5, <1>6, AllocType DEF CondStep

(* The second lock call of a condition wait keeps the types. *)
LEMMA CondRelockType ==
  ASSUME TypeOK, NEW t \in Thread, CondRelock(t)
  PROVE  TypeOK'
<1> DEFINE mwq == call[t].mwq
           op  == IF r0[t] = ETIMEDOUT THEN "cond_relock_timedout" ELSE "cond_relock"
           c   == Call(op, mwq, mwq)
<1>1. mwq \in Int /\ mwq - MUTEX_BASE \in Mutex
  BY DEF TypeOK, CoreTypeOK, CallRecord, CondRelock
<1>2. op \in BlockingCalls
  BY DEF BlockingCalls
<1>3. c \in CallRecord /\ c.mwq = mwq
  BY <1>1, <1>2, CallType DEF Call
<1>4. CASE CallReturn(t) /\ UNCHANGED mutexVars
  <2>1. CoreTypeOK'
    BY <1>4, CallReturnKeepsType DEF TypeOK
  <2>2. NoCall \in CallRecord
    BY DEF NoCall, CallRecord, BlockingCalls
  <2>3. CallsOK'
    BY <1>4, <2>2, TypeParts, CallsLemma DEF CallReturn
  <2> QED BY <1>4, <2>1, <2>3 DEF TypeOK, CallsOK, mutexVars
<1>5. CASE /\ TakeLock(t, mwq)
           /\ r0' = [r0 EXCEPT ![t] = OK]
           /\ call' = [call EXCEPT ![t] = c]
           /\ UNCHANGED <<wq_lst, pendsv, th_stat, clock, handlerVars, held>>
  <2> HIDE DEF c, mwq
  <2>1. CallsOK'
    BY <1>1, <1>3, <1>5, TypeParts, CallsLemma
  <2>2. CoreTypeOK'
    BY <1>3, <1>5 DEF TypeOK, CoreTypeOK, QueuesOK, handlerVars, OK
  <2>3. MutexTypeOK'
    BY <1>1, <1>5, TypeParts, TakeLockType DEF MutexTypeOK
  <2> QED BY <2>1, <2>2, <2>3 DEF TypeOK, CallsOK, MutexTypeOK
<1>6. CASE LockWait(t, mwq, c)
  <2> HIDE DEF c, mwq
  <2> QED BY <1>1, <1>3, <1>6, LockWaitType
<1> QED BY <1>4, <1>5, <1>6 DEF CondRelock

(* The return of a lock call keeps the types. *)
LEMMA MutexReturnType ==
  ASSUME TypeOK, NEW t \in Thread, MutexReturn(t)
  PROVE  TypeOK'
<1>1. CoreTypeOK'
  BY CallReturnKeepsType DEF TypeOK, MutexReturn
<1>2. NoCall \in CallRecord
  BY DEF NoCall, CallRecord, BlockingCalls
<1>3. CallsOK'
  BY <1>2, TypeParts, CallsLemma DEF CallReturn, MutexReturn
<1>4. Granted(t) \subseteq Mutex
  BY DEF Granted, TypeOK
<1> QED BY <1>1, <1>3, <1>4 DEF TypeOK, CallsOK, MutexReturn

(* The core does not touch the records of lock calls. *)
LEMMA CoreKeepsCalls ==
  ASSUME TypeOK, CoreStep
  PROVE  CallsOK'
<1>1. CASE UNCHANGED call
  BY <1>1 DEF TypeOK, CallsOK
<1>2. ASSUME NEW t \in Thread, NEW op \in CoreOps, NEW end, ClockWait(t, op, end)
      PROVE  CallsOK'
  <2>1. \A u \in Thread : call'[u] = IF u = t THEN Call(op, WQ_CLOCK, 0) ELSE call[u]
    BY <1>2 DEF ClockWait, Blocked, TypeOK, CoreTypeOK
  <2>2. Call(op, WQ_CLOCK, 0).op \notin LockOps \cup CondWaitOps
    BY DEF Call, CoreOps, LockOps, RelockOps, CondWaitOps
  <2> QED BY <2>1, <2>2 DEF TypeOK, CallsOK
<1>3. ASSUME NEW t \in Thread, CallReturn(t)
      PROVE  CallsOK'
  <2>1. NoCall \in CallRecord
    BY DEF NoCall, CallRecord, BlockingCalls
  <2> QED BY <1>3, <2>1, TypeParts, CallsLemma DEF CallReturn
<1>4. PendSV \/ SysTick => UNCHANGED call
  BY DEF PendSV, SysTick, SysTickEntry, SysTickScan, SysTickUnlink, SysTickWakeup,
         SysTickExit
<1>5. ASSUME NEW t \in Thread, thinkos_yield(t)
      PROVE  UNCHANGED call
  BY <1>5 DEF thinkos_yield
<1> QED BY <1>1, <1>2, <1>3, <1>4, <1>5
        DEF CoreStep, thinkos_sleep_svc, thinkos_alarm_svc, CoreReturn, CoreOps

(* Every step keeps the types. *)
LEMMA NextType ==
  ASSUME TypeOK, Next
  PROVE  TypeOK'
<1>1. CASE CoreStep /\ UNCHANGED mutexVars
  BY <1>1, CoreKeepsCalls, CoreStepKeepsType DEF TypeOK, CallsOK, mutexVars
<1> QED BY <1>1, MutexStepType, CondStepType, CondRelockType, MutexReturnType
        DEF Next

(* The initial state is well typed. *)
LEMMA InitType == Init => TypeOK
<1> SUFFICES ASSUME Init PROVE TypeOK
  OBVIOUS
<1>2. CoreTypeOK
  BY CoreInitType DEF Init
<1>3. \A t \in Thread : call[t].op = "none"
  BY DEF Init, CoreInit, NoCall
<1> QED BY <1>2, <1>3 DEF Init, TypeOK, LockOps, RelockOps, CondWaitOps

(***************************************************************************)
(* In every configuration, time sharing and any number of objects          *)
(* included, the run-time block, the locks and the allocation maps keep    *)
(* their types: no call stores THREAD_NULL or the idle thread as an owner, *)
(* puts the idle thread into an object's queue, or lets the clock leave    *)
(* its width (thinkos_mutex.c, thinkos_cond.c, thinkos_core.c).            *)
(***************************************************************************)
THEOREM MutexTypeCorrect == Spec => []TypeOK
<1>1. TypeOK /\ [Next]_vars => TypeOK'
  BY NextType, RefuseType DEF vars
<1> QED BY <1>1, InitType, PTL DEF Spec

--------------------------------------------------------------------------------
(***************************************************************************)
(* The inductive invariant. Waits(t, m): t is in the queue of mutex m.     *)
(* WillOwn(t, m): t has a lock call on m in its frame that will report     *)
(* success.                                                                *)
(***************************************************************************)
Waits(t, m) == t \in wq_lst[MUTEX_BASE + m]

WillOwn(t, m) ==
  call[t].op \in LockOps /\ r0[t] = OK /\ call[t].mwq = MUTEX_BASE + m

(* A thread in a mutex's queue is there for a lock call on this mutex; one *)
(* that the clock may wake up has the timeout as its result so far.        *)
LockWaiter(t, m) ==
  Waits(t, m) => /\ call[t].op \in LockOps
                 /\ call[t].mwq = MUTEX_BASE + m
                 /\ t \in wq_lst[WQ_CLOCK] => r0[t] = ETIMEDOUT

(* A thread waits for somebody else. *)
WaitsForOther(t, m) == Waits(t, m) => lock[m] # NONE /\ lock[m] # t

(* A lock call that will report success and no longer waits has the lock. *)
GrantIsOwned(t, m) == WillOwn(t, m) /\ ~Waits(t, m) => lock[m] = t

HeldIsLocked(t, m) == m \in held[t] => lock[m] = t

OwnerKnows(t, m) == lock[m] = t => m \in held[t] \/ WillOwn(t, m)

PairInv(t, m) ==
  /\ LockWaiter(t, m)
  /\ m \notin FREEABLE => /\ WaitsForOther(t, m)
                          /\ GrantIsOwned(t, m)
                          /\ HeldIsLocked(t, m)
                          /\ OwnerKnows(t, m)

(* A thread in a condition's queue is there for a condition wait. *)
CondWaiter(t) ==
  \A c \in Cond : t \in wq_lst[COND_BASE + c] => call[t].op \in CondWaitOps

(* A mutex that is not allocated is not locked. *)
AllocInv == \A m \in Mutex : m \notin FREEABLE /\ m \notin mutex_alloc => lock[m] = NONE

MutexInv ==
  /\ \A t \in Thread, m \in Mutex : PairInv(t, m)
  /\ \A t \in Thread : CondWaiter(t)
  /\ AllocInv

Inv == TypeOK /\ CoreInv /\ NoIrqInv /\ MutexInv

(* Queues of different objects are different. *)
LEMMA QueueLayout ==
  /\ \A m \in Mutex : /\ MUTEX_BASE + m \in WQ
                      /\ MUTEX_BASE + m # WQ_READY /\ MUTEX_BASE + m # WQ_CLOCK
  /\ \A c \in Cond : /\ COND_BASE + c \in WQ
                     /\ COND_BASE + c # WQ_READY /\ COND_BASE + c # WQ_CLOCK
  /\ \A m \in Mutex, c \in Cond : MUTEX_BASE + m # COND_BASE + c
  /\ \A m, n \in Mutex : MUTEX_BASE + m = MUTEX_BASE + n => m = n
  /\ \A wq \in Int, m \in Mutex : wq - MUTEX_BASE = m <=> wq = MUTEX_BASE + m
BY LayoutLemma, CoreAssumption DEF Mutex, Cond, WQ, COND_BASE

(* The threads a release of the mutex wakes up: its next owner, if any. *)
Woken(wq) == {u \in wq_lst[wq] : u = NextOwner(wq)}

(* Woken is the next owner, if there is one. *)
LEMMA WokenLemma ==
  ASSUME CoreTypeOK, NEW wq \in WQ, wq # WQ_READY
  PROVE  /\ Woken(wq) \subseteq wq_lst[wq] /\ Woken(wq) \subseteq Thread
         /\ NextOwner(wq) = NONE => Woken(wq) = {} /\ wq_lst[wq] = {}
         /\ NextOwner(wq) # NONE => Woken(wq) = {NextOwner(wq)}
<1>1. wq_lst[wq] \subseteq Thread
  BY DEF CoreTypeOK, QueuesOK
<1>2. NONE \notin Thread
  BY ThreadLemma DEF NONE
<1> QED BY <1>1, <1>2, NextOwnerLemma DEF Woken

(***************************************************************************)
(* The owner t gives mutex wq up, to the waiter it wakes up if there is    *)
(* one: what every release, by unlock or by a condition wait, preserves.   *)
(***************************************************************************)
LEMMA ReleaseKeepsPairs ==
  ASSUME TypeOK, MutexInv, NEW t \in Thread, NEW wq \in Int, HandOver(t, wq),
         call[t].op \notin LockOps, call'[t].op \notin LockOps,
         \A m \in Mutex : ~Waits(t, m) /\ ~Waits(t, m)',
         \A u \in Thread \ {t} :
           /\ call'[u] = call[u]
           /\ r0'[u] = IF u \in Woken(wq) THEN OK ELSE r0[u]
           /\ u \in wq_lst'[WQ_CLOCK] => u \in wq_lst[WQ_CLOCK]
           /\ \A m \in Mutex : Waits(u, m)' <=> Waits(u, m) /\ u \notin Woken(wq)
  PROVE  (\A u \in Thread, m \in Mutex : PairInv(u, m)') /\ AllocInv'
<1> DEFINE n == wq - MUTEX_BASE
<1>1. /\ n \in Mutex /\ n \in mutex_alloc /\ lock[n] = t /\ wq = MUTEX_BASE + n
      /\ wq \in WQ /\ wq # WQ_READY
  BY MutexArgLemma, QueueLayout DEF HandOver, Owner, IsMutex, TypeOK
<1>2. /\ \A m \in Mutex : lock'[m] = IF m = n THEN NextOwner(wq) ELSE lock[m]
      /\ \A u \in Thread : held'[u] = IF u = t THEN held[u] \ {n} ELSE held[u]
      /\ mutex_alloc' = mutex_alloc
  BY <1>1 DEF HandOver, TypeOK
<1>3. /\ Woken(wq) \subseteq wq_lst[wq] /\ Woken(wq) \subseteq Thread
      /\ NextOwner(wq) = NONE => Woken(wq) = {} /\ wq_lst[wq] = {}
      /\ NextOwner(wq) # NONE => Woken(wq) = {NextOwner(wq)}
  BY <1>1, WokenLemma DEF TypeOK
<1>4. NONE \notin Thread /\ t \notin Woken(wq)
  BY <1>1, <1>3, ThreadLemma DEF NONE, Waits
<1> HIDE DEF n
<1>5. AllocInv'
  BY <1>1, <1>2 DEF AllocInv, MutexInv
<1>6. ASSUME NEW u \in Thread, NEW m \in Mutex
      PROVE  PairInv(u, m)'
  <2>1. PairInv(u, m)
    BY DEF MutexInv
  <2>2. m \notin FREEABLE => PairInv(u, m) /\ PairInv(t, m)
    BY DEF MutexInv
  <2>3. CASE u = t
    <3>1. ~WillOwn(t, m)' /\ ~WillOwn(t, m)
      BY DEF WillOwn
    <3>2. lock'[m] = t => m # n
      BY <1>2, <1>3, <1>4
    <3> QED BY <1>2, <2>1, <2>3, <3>1, <3>2
            DEF PairInv, LockWaiter, WaitsForOther, GrantIsOwned, HeldIsLocked,
                OwnerKnows
  <2>4. CASE u # t /\ u \in Woken(wq)
    <3>1. u = NextOwner(wq) /\ Waits(u, n)
      BY <1>1, <1>3, <2>4 DEF Woken, Waits
    <3>2. call[u].op \in LockOps /\ call[u].mwq = MUTEX_BASE + n
      BY <1>1, <3>1 DEF MutexInv, PairInv, LockWaiter
    <3>3. WillOwn(u, m)' <=> m = n
      BY <1>1, <2>4, <3>2, QueueLayout DEF WillOwn
    <3>4. ~Waits(u, m)'
      BY <2>4
    <3>5. ~Waits(u, m) \/ m = n
      BY <1>1, <3>2, QueueLayout, <2>1 DEF PairInv, LockWaiter
    <3>6. LockWaiter(u, m)'
      BY <3>4 DEF LockWaiter
    <3>7. ASSUME m \notin FREEABLE, m = n
          PROVE  /\ WaitsForOther(u, m)' /\ GrantIsOwned(u, m)'
                 /\ HeldIsLocked(u, m)' /\ OwnerKnows(u, m)'
      BY <1>2, <3>1, <3>3, <3>4, <3>7
         DEF WaitsForOther, GrantIsOwned, HeldIsLocked, OwnerKnows
    <3>8. ASSUME m \notin FREEABLE, m # n
          PROVE  /\ WaitsForOther(u, m)' /\ GrantIsOwned(u, m)'
                 /\ HeldIsLocked(u, m)' /\ OwnerKnows(u, m)'
      <4>1. ~WillOwn(u, m)
        BY <1>1, <3>2, <3>8, QueueLayout DEF WillOwn
      <4> QED BY <1>2, <2>2, <2>4, <3>3, <3>4, <3>8, <4>1
         DEF PairInv, WaitsForOther, GrantIsOwned, HeldIsLocked, OwnerKnows
    <3> QED BY <3>6, <3>7, <3>8 DEF PairInv
  <2>5. CASE u # t /\ u \notin Woken(wq)
    <3>1. /\ WillOwn(u, m)' <=> WillOwn(u, m)
          /\ Waits(u, m)' <=> Waits(u, m)
          /\ held'[u] = held[u]
      BY <1>2, <2>5 DEF WillOwn
    <3>2. LockWaiter(u, m)'
      BY <2>1, <2>5, <3>1 DEF PairInv, LockWaiter
    <3>3. ASSUME m \notin FREEABLE, m = n
          PROVE  /\ WaitsForOther(u, m)' /\ GrantIsOwned(u, m)'
                 /\ HeldIsLocked(u, m)' /\ OwnerKnows(u, m)'
      <4>1. lock[m] = t /\ lock'[m] = NextOwner(wq) /\ lock'[m] # u
        BY <1>1, <1>2, <1>3, <1>4, <2>5, <3>3
      <4>2. Waits(u, m) => lock'[m] # NONE
        BY <1>1, <1>3, <3>3, <4>1 DEF Waits
      <4> QED BY <2>2, <2>5, <3>1, <3>3, <4>1, <4>2
         DEF PairInv, WaitsForOther, GrantIsOwned, HeldIsLocked, OwnerKnows
    <3>4. ASSUME m \notin FREEABLE, m # n
          PROVE  /\ WaitsForOther(u, m)' /\ GrantIsOwned(u, m)'
                 /\ HeldIsLocked(u, m)' /\ OwnerKnows(u, m)'
      <4>1. lock'[m] = lock[m]
        BY <1>2, <3>4
      <4> QED BY <2>2, <3>1, <3>4, <4>1
         DEF PairInv, WaitsForOther, GrantIsOwned, HeldIsLocked, OwnerKnows
    <3> QED BY <3>2, <3>3, <3>4 DEF PairInv
  <2> QED BY <2>3, <2>4, <2>5
<1> QED BY <1>5, <1>6

(* A thread that a step does not concern; somebody may take a free lock. *)
LEMMA Bystander ==
  ASSUME NEW u \in Thread, NEW m \in Mutex, PairInv(u, m),
         call'[u] = call[u], r0'[u] = r0[u], held'[u] = held[u],
         Waits(u, m)' <=> Waits(u, m),
         u \in wq_lst'[WQ_CLOCK] => u \in wq_lst[WQ_CLOCK],
         m \notin FREEABLE =>
           \/ lock'[m] = lock[m]
           \/ lock[m] = NONE /\ lock'[m] # NONE /\ lock'[m] # u
  PROVE  PairInv(u, m)'
<1>1. WillOwn(u, m)' <=> WillOwn(u, m)
  BY DEF WillOwn
<1>2. u # NONE
  BY ThreadLemma DEF NONE
<1> QED BY <1>1, <1>2
        DEF PairInv, LockWaiter, WaitsForOther, GrantIsOwned, HeldIsLocked, OwnerKnows

(* A thread without a lock call, before and after: it may take the lock. *)
LEMMA NoLockCall ==
  ASSUME NEW u \in Thread, NEW m \in Mutex, PairInv(u, m),
         call[u].op \notin LockOps, call'[u].op \notin LockOps, ~Waits(u, m)',
         m \notin FREEABLE =>
           \/ lock'[m] = u /\ m \in held'[u]
           \/ /\ lock'[m] = lock[m]
              /\ m \in held'[u] <=> m \in held[u]
  PROVE  PairInv(u, m)'
<1>1. ~WillOwn(u, m) /\ ~WillOwn(u, m)'
  BY DEF WillOwn
<1> QED BY <1>1
        DEF PairInv, LockWaiter, WaitsForOther, GrantIsOwned, HeldIsLocked, OwnerKnows

(* A running thread waits for no mutex and for no condition. *)
LEMMA RunningWaitsNot ==
  ASSUME CoreTypeOK, CoreInv, NEW t \in Thread, Running(t)
  PROVE  /\ \A m \in Mutex : ~Waits(t, m)
         /\ \A c \in Cond : t \notin wq_lst[COND_BASE + c]
         /\ t \notin wq_lst[WQ_CLOCK]
<1>1. \A w \in WQ : t \in wq_lst[w] <=> w = WQ_READY
  BY RunningLemma
<1>2. WQ_CLOCK \in WQ /\ WQ_CLOCK # WQ_READY
  BY LayoutLemma
<1>3. \A m \in Mutex : ~Waits(t, m)
  BY <1>1, QueueLayout DEF Waits
<1>4. \A c \in Cond : t \notin wq_lst[COND_BASE + c]
  BY <1>1, QueueLayout
<1> QED BY <1>1, <1>2, <1>3, <1>4

(* t blocks on mutex wq, in a call that is not a lock call yet. *)
LEMMA LockBlockKeepsMutexInv ==
  ASSUME TypeOK, CoreInv, MutexInv, NEW t \in Thread, Running(t),
         call[t].op \notin LockOps, NEW wq \in Int, LockBusy(t, wq),
         NEW c \in CallRecord, c.op \in LockOps, c.mwq = wq, NEW ret,
         \A v \in WQ : t \in wq_lst'[v] => v = wq \/ (v = WQ_CLOCK /\ ret = ETIMEDOUT),
         \A u \in Thread \ {t} : \A v \in WQ : u \in wq_lst'[v] <=> u \in wq_lst[v],
         call' = [call EXCEPT ![t] = c],
         r0' = [r0 EXCEPT ![t] = ret],
         t \in wq_lst'[wq],
         UNCHANGED mutexVars
  PROVE  MutexInv'
<1> DEFINE n == wq - MUTEX_BASE
<1>1. /\ n \in Mutex /\ wq = MUTEX_BASE + n /\ lock[n] # NONE /\ lock[n] # t
      /\ wq \in WQ /\ wq # WQ_READY /\ wq # WQ_CLOCK
  BY MutexArgLemma, QueueLayout DEF LockBusy, Owner, IsMutex, TypeOK
<1>2. /\ \A u \in Thread : call'[u] = IF u = t THEN c ELSE call[u]
      /\ \A u \in Thread : r0'[u] = IF u = t THEN ret ELSE r0[u]
      /\ lock' = lock /\ held' = held /\ mutex_alloc' = mutex_alloc
  BY DEF TypeOK, CoreTypeOK, mutexVars
<1> HIDE DEF n
<1>3. AllocInv'
  BY <1>2 DEF MutexInv, AllocInv
<1>4. ASSUME NEW u \in Thread, NEW d \in Cond, u \in wq_lst'[COND_BASE + d]
      PROVE  call'[u].op \in CondWaitOps
  <2>1. /\ COND_BASE + d \in WQ /\ COND_BASE + d # WQ_CLOCK
        /\ COND_BASE + d # MUTEX_BASE + n
    BY <1>1, QueueLayout
  <2>2. u # t
    BY <1>1, <1>4, <2>1
  <2> QED BY <1>2, <1>4, <2>1, <2>2 DEF MutexInv, CondWaiter
<1>5. ASSUME NEW u \in Thread, NEW m \in Mutex
      PROVE  PairInv(u, m)'
  <2>1. PairInv(u, m)
    BY DEF MutexInv
  <2>2. CASE u # t
    BY <1>2, <2>1, <2>2, QueueLayout, LayoutLemma, Bystander DEF Waits
  <2>3. CASE u = t /\ m = n
    <3>1. Waits(t, n)' /\ (t \in wq_lst'[WQ_CLOCK] => ret = ETIMEDOUT)
      BY <1>1, LayoutLemma DEF Waits
    <3>2. ~WillOwn(t, n)
      BY DEF WillOwn
    <3> QED BY <1>1, <1>2, <2>1, <2>3, <3>1, <3>2
            DEF PairInv, LockWaiter, WaitsForOther, GrantIsOwned, HeldIsLocked,
                OwnerKnows
  <2>4. CASE u = t /\ m # n
    <3>1. ~Waits(t, m)'
      <4>1. /\ MUTEX_BASE + m \in WQ /\ MUTEX_BASE + m # WQ_CLOCK
            /\ MUTEX_BASE + m # MUTEX_BASE + n
        BY <1>1, <2>4, QueueLayout
      <4> QED BY <1>1, <4>1 DEF Waits
    <3>2. ~WillOwn(t, m) /\ ~WillOwn(t, m)'
      BY <1>1, <1>2, <2>4, QueueLayout DEF WillOwn
    <3> QED BY <1>2, <2>1, <2>4, <3>1, <3>2
            DEF PairInv, LockWaiter, WaitsForOther, GrantIsOwned, HeldIsLocked,
                OwnerKnows
  <2> QED BY <2>2, <2>3, <2>4
<1> QED BY <1>3, <1>4, <1>5 DEF MutexInv, CondWaiter

(* The service calls are made while no SysTick handler is active. *)
LEMMA CallKeepsNoIrq ==
  ASSUME NEW t \in Thread, Running(t), UNCHANGED tick
  PROVE  NoIrqInv'
BY DEF Running, NoIrqInv

(* A thread about to make a call is in no other. *)
LEMMA CallsNoLock ==
  ASSUME NEW t \in Thread, Calls(t)
  PROVE  Running(t) /\ call[t].op \notin LockOps /\ call[t].op \notin CondWaitOps
BY DEF Calls, NoCall, LockOps, RelockOps, CondWaitOps

(* Blocking in thinkos_mutex_lock_svc keeps the invariant, *)
LEMMA LockWaitKeepsInv ==
  ASSUME Configuration, Inv, NEW t \in Thread, Running(t), call[t].op \notin LockOps,
         NEW wq \in Int, NEW c \in CallRecord, c.op \in LockOps, c.mwq = wq,
         LockWait(t, wq, c)
  PROVE  Inv'
<1>1. TypeOK'
  BY LockWaitType DEF Inv
<1>2. /\ wq \in WQ /\ wq # WQ_READY /\ wq # WQ_CLOCK
      /\ wq_lst' = wait(wq_insert(wq_lst, wq, t), t)
      /\ UNCHANGED tick
  BY MutexArgLemma DEF LockWait, LockBusy, Inv, TypeOK, handlerVars
<1>3. CoreInv'
  BY <1>2, WaitKeepsInv DEF LockWait, Inv, TypeOK, Blocked
<1>4. \A v \in WQ, u \in Thread :
        u \in wq_lst'[v] <=> IF u = t THEN v = wq ELSE u \in wq_lst[v]
  BY <1>2, BlockEffect DEF Inv, TypeOK
<1>5. /\ LockBusy(t, wq) /\ UNCHANGED mutexVars
      /\ call' = [call EXCEPT ![t] = c] /\ r0' = [r0 EXCEPT ![t] = OK]
  BY DEF LockWait, Blocked
<1>6. /\ \A v \in WQ : t \in wq_lst'[v] => v = wq
      /\ \A u \in Thread \ {t} : \A v \in WQ : u \in wq_lst'[v] <=> u \in wq_lst[v]
      /\ t \in wq_lst'[wq]
  BY <1>2, <1>4
<1>7. TypeOK /\ CoreInv /\ MutexInv
  BY DEF Inv
<1>8. MutexInv'
  BY <1>5, <1>6, <1>7, LockBlockKeepsMutexInv
<1> QED BY <1>1, <1>2, <1>3, <1>8, CallKeepsNoIrq DEF Inv

(* and so does blocking in thinkos_mutex_timedlock_svc. *)
LEMMA TimedLockKeepsInv ==
  ASSUME Configuration, Inv, NEW t \in Thread, NEW wq \in MutexArg, NEW ms \in TIMEOUTS,
         thinkos_mutex_timedlock_svc(t, wq, ms), LockBusy(t, wq)
  PROVE  Inv'
<1>1. TypeOK'
  BY TimedLockType DEF Inv
<1>2. /\ wq \in WQ /\ wq # WQ_READY /\ wq # WQ_CLOCK /\ wq \in Int
      /\ Calls(t)
  BY MutexArgLemma, ArgType DEF thinkos_mutex_timedlock_svc, LockBusy, Inv, TypeOK
<1> DEFINE c == Call("mutex_timedlock", wq, wq)
<1>3. /\ wq_lst' = wait(tmdwq_insert(wq_lst, wq, t), t)
      /\ SetStat(t, Stat(wq, 1))
      /\ Blocked(t, c, ETIMEDOUT)
      /\ UNCHANGED <<handlerVars, mutexVars>>
  <2>1. ~LockRefused(t, wq) /\ ~LockTaken(t, wq)
    BY DEF LockBusy, LockRefused, LockTaken, TakeLock
  <2> QED BY <2>1 DEF thinkos_mutex_timedlock_svc
<1>4. c \in CallRecord /\ c.op \in LockOps /\ c.mwq = wq
  BY <1>2, CallType DEF BlockingCalls, Call, LockOps
<1> HIDE DEF c
<1>5. Running(t) /\ call[t].op \notin LockOps
  BY <1>2, CallsNoLock
<1>6. UNCHANGED tick
  BY <1>3 DEF handlerVars
<1>7. CoreInv'
  BY <1>2, <1>3, <1>5, <1>6, WaitKeepsInv DEF Inv, TypeOK, Blocked
<1>8. \A v \in WQ, u \in Thread :
        u \in wq_lst'[v] <=> IF u = t THEN v \in {wq, WQ_CLOCK} ELSE u \in wq_lst[v]
  BY <1>2, <1>3, <1>5, BlockEffect DEF Inv, TypeOK
<1>9. MutexInv'
  BY <1>2, <1>3, <1>4, <1>5, <1>8, LockBlockKeepsMutexInv DEF Inv, Blocked
<1> QED BY <1>1, <1>5, <1>6, <1>7, <1>9, CallKeepsNoIrq DEF Inv

(* Steps that leave the core state alone. *)
LEMMA CoreSameInv ==
  ASSUME Inv, UNCHANGED coreVars
  PROVE  /\ CoreInv' /\ NoIrqInv'
         /\ \A u \in Thread : CondWaiter(u)'
         /\ UNCHANGED <<call, r0, wq_lst>>
BY DEF Inv, MutexInv, coreVars, CoreInv, StatusInv, TickInv, SchedInv, NoIrqInv,
       Consistent, CondWaiter, wq_head

(* A step that changes nothing keeps the invariant. *)
LEMMA SameInv ==
  ASSUME Inv, UNCHANGED <<coreVars, mutexVars>>
  PROVE  Inv'
<1>1. TypeOK'
  BY RefuseType DEF Inv
<1>2. UNCHANGED <<call, r0, wq_lst, lock, held, mutex_alloc>>
  BY DEF coreVars, mutexVars
<1>3. MutexInv'
  BY <1>2 DEF Inv, MutexInv, PairInv, LockWaiter, WaitsForOther, GrantIsOwned,
              HeldIsLocked, OwnerKnows, Waits, WillOwn, CondWaiter, AllocInv
<1> QED BY <1>1, <1>3, CoreSameInv DEF Inv

(* A lock call that succeeds at once keeps the invariant. *)
LEMMA LockTakenKeepsInv ==
  ASSUME Inv, NEW t \in Thread, Calls(t), NEW wq \in Int, LockTaken(t, wq)
  PROVE  Inv'
<1> DEFINE n == wq - MUTEX_BASE
<1>1. TypeOK'
  BY LockTakenType DEF Inv
<1>2. n \in Mutex /\ n \in mutex_alloc /\ lock[n] = NONE
  BY DEF LockTaken, TakeLock, IsMutex, Owner, Inv, TypeOK
<1>3. /\ \A m \in Mutex : lock'[m] = IF m = n THEN t ELSE lock[m]
      /\ \A u \in Thread : held'[u] = IF u = t THEN held[u] \cup {n} ELSE held[u]
      /\ UNCHANGED mutex_alloc /\ UNCHANGED coreVars
  BY <1>2 DEF LockTaken, TakeLock, Inv, TypeOK
<1>4. CoreTypeOK /\ CoreInv
  BY DEF Inv, TypeOK
<1>5. /\ CoreInv' /\ NoIrqInv'
      /\ \A u \in Thread : CondWaiter(u)'
      /\ UNCHANGED <<call, r0, wq_lst>>
  BY <1>3, CoreSameInv
<1>6. Running(t) /\ call[t].op \notin LockOps /\ \A m \in Mutex : ~Waits(t, m)
  BY <1>4, CallsNoLock, RunningWaitsNot
<1> HIDE DEF n
<1>7. ASSUME NEW u \in Thread, NEW m \in Mutex
      PROVE  PairInv(u, m)'
  <2>1. PairInv(u, m)
    BY DEF Inv, MutexInv
  <2>2. t # NONE
    BY ThreadLemma DEF NONE
  <2>3. Waits(u, m)' <=> Waits(u, m)
    BY <1>5 DEF Waits
  <2>4. CASE u = t
    BY <1>3, <1>5, <1>6, <2>1, <2>3, <2>4, NoLockCall
  <2>5. CASE u # t
    BY <1>2, <1>3, <1>5, <2>1, <2>2, <2>3, <2>5, Bystander
  <2> QED BY <2>4, <2>5
<1>8. AllocInv'
  BY <1>2, <1>3 DEF Inv, MutexInv, AllocInv
<1> QED BY <1>1, <1>5, <1>7, <1>8 DEF Inv, MutexInv

(* Allocating and freeing keeps the invariant. *)
LEMMA AllocKeepsInv ==
  ASSUME Inv, NEW t \in Thread,
         \/ thinkos_mutex_alloc_svc(t)
         \/ thinkos_cond_alloc_svc(t)
         \/ \E wq \in MutexArg : thinkos_mutex_free_svc(t, wq)
         \/ \E wq \in CondArg : thinkos_cond_free_svc(t, wq)
  PROVE  Inv'
<1>1. TypeOK'
  BY AllocType DEF Inv
<1> DEFINE idx == bmp_alloc(Mutex, mutex_alloc)
<1>2. idx = NONE \/ idx \in Mutex \ mutex_alloc
  BY AllocLemma, ObjectSets
<1>3. /\ UNCHANGED coreVars /\ UNCHANGED held
      /\ \/ UNCHANGED lock /\ mutex_alloc \subseteq mutex_alloc' \cup FREEABLE
         \/ /\ idx # NONE /\ mutex_alloc' = mutex_alloc \cup {idx}
            /\ lock' = [lock EXCEPT ![idx] = NONE]
  BY DEF thinkos_mutex_alloc_svc, thinkos_cond_alloc_svc, thinkos_mutex_free_svc,
         thinkos_cond_free_svc, MutexRefuse, Refuse, mutexVars
<1> HIDE DEF idx
<1>4. \A m \in Mutex \ FREEABLE :
        lock'[m] = lock[m] /\ (m \notin mutex_alloc' => m \notin mutex_alloc)
  BY <1>2, <1>3 DEF Inv, TypeOK, MutexInv, AllocInv
<1>5. /\ CoreInv' /\ NoIrqInv'
      /\ \A u \in Thread : CondWaiter(u)'
      /\ UNCHANGED <<call, r0, wq_lst>>
  BY <1>3, CoreSameInv
<1>6. ASSUME NEW u \in Thread, NEW m \in Mutex
      PROVE  PairInv(u, m)'
  <2>1. PairInv(u, m)
    BY DEF Inv, MutexInv
  <2>2. Waits(u, m)' <=> Waits(u, m)
    BY <1>5 DEF Waits
  <2> QED BY <1>3, <1>4, <1>5, <2>1, <2>2, Bystander
<1>7. AllocInv'
  BY <1>4 DEF Inv, MutexInv, AllocInv
<1> QED BY <1>1, <1>5, <1>6, <1>7 DEF Inv, MutexInv

(* thinkos_mutex_unlock_svc keeps the invariant. *)
LEMMA UnlockKeepsInv ==
  ASSUME Configuration, Inv, NEW t \in Thread, NEW wq \in Int,
         thinkos_mutex_unlock_svc(t, wq)
  PROVE  Inv'
<1>1. CASE UNCHANGED <<coreVars, mutexVars>>
  BY <1>1, SameInv
<1>2. CASE /\ HandOver(t, wq)
           /\ IF NextOwner(wq) = NONE THEN UNCHANGED coreVars
              ELSE Wakeup(wq, {NextOwner(wq)})
  <2>1. TypeOK'
    BY UnlockType DEF Inv
  <2>2. /\ Running(t) /\ call[t].op \notin LockOps
        /\ CoreTypeOK /\ CoreInv /\ TypeOK /\ MutexInv
    BY CallsNoLock DEF thinkos_mutex_unlock_svc, Inv, TypeOK
  <2>3. /\ wq \in WQ /\ wq # WQ_READY /\ wq # WQ_CLOCK
        /\ wq - MUTEX_BASE \in Mutex /\ wq = MUTEX_BASE + (wq - MUTEX_BASE)
    BY <1>2, MutexArgLemma, QueueLayout DEF HandOver, Inv, TypeOK
  <2>4. \A m \in Mutex : ~Waits(t, m)
    BY <2>2, RunningWaitsNot
  <2>5. CASE NextOwner(wq) = NONE
    <3>1. Woken(wq) = {}
      BY <2>2, <2>3, <2>5, WokenLemma
    <3>2. /\ CoreInv' /\ NoIrqInv'
          /\ \A u \in Thread : CondWaiter(u)'
          /\ UNCHANGED <<call, r0, wq_lst>>
      BY <1>2, <2>5, CoreSameInv
    <3>3. \A u \in Thread, m \in Mutex : Waits(u, m)' <=> Waits(u, m)
      BY <3>2 DEF Waits
    <3>4. (\A u \in Thread, m \in Mutex : PairInv(u, m)') /\ AllocInv'
      BY <1>2, <2>2, <2>4, <3>1, <3>2, <3>3, ReleaseKeepsPairs
    <3> QED BY <2>1, <3>2, <3>4 DEF Inv, MutexInv
  <2>6. CASE NextOwner(wq) # NONE
    <3>1. /\ Woken(wq) = {NextOwner(wq)} /\ Woken(wq) \subseteq wq_lst[wq]
          /\ Woken(wq) # {} /\ Woken(wq) \subseteq Thread
      BY <2>2, <2>3, <2>6, WokenLemma
    <3>2. Wakeup(wq, Woken(wq))
      BY <1>2, <2>6, <3>1
    <3>3. CoreInv' /\ UNCHANGED <<tick, call>>
      BY <2>2, <2>3, <3>1, <3>2, WakeupKeepsInv DEF Wakeup, handlerVars
    <3>4. \A v \in WQ, u \in Thread :
            u \in wq_lst'[v] <=> IF u \in Woken(wq) THEN v = WQ_READY ELSE u \in wq_lst[v]
      BY <2>2, <2>3, <3>1, <3>2, WakeupEffect DEF Wakeup
    <3>5. t \notin Woken(wq)
      BY <2>3, <2>4, <3>1 DEF Waits
    <3>6. \A u \in Thread : r0'[u] = IF u \in Woken(wq) THEN OK ELSE r0[u]
      BY <2>2, <3>2, <3>5 DEF Wakeup, CtxWrite, Running
    <3>7. \A u \in Thread, m \in Mutex :
            Waits(u, m)' <=> Waits(u, m) /\ u \notin Woken(wq)
      BY <3>4, QueueLayout DEF Waits
    <3>8. \A u \in Thread : u \in wq_lst'[WQ_CLOCK] => u \in wq_lst[WQ_CLOCK]
      BY <3>4, LayoutLemma
    <3>9. (\A u \in Thread, m \in Mutex : PairInv(u, m)') /\ AllocInv'
      BY <1>2, <2>2, <2>4, <3>3, <3>6, <3>7, <3>8, ReleaseKeepsPairs
    <3>10. \A u \in Thread : CondWaiter(u)'
      BY <2>2, <3>3, <3>4, QueueLayout DEF MutexInv, CondWaiter
    <3>11. NoIrqInv'
      BY <2>2, <3>3, CallKeepsNoIrq
    <3> QED BY <2>1, <3>3, <3>9, <3>10, <3>11 DEF Inv, MutexInv
  <2> QED BY <2>5, <2>6
<1> QED BY <1>1, <1>2 DEF thinkos_mutex_unlock_svc, MutexRefuse, Refuse

(* A signal or a broadcast: threads in a condition's queue have no lock call. *)
LEMMA SignalKeepsInv ==
  ASSUME Configuration, Inv, NEW t \in Thread, Running(t), NEW cwq \in Int, IsCond(cwq),
         NEW ths, ths \subseteq wq_lst[cwq], Wakeup(cwq, ths), UNCHANGED mutexVars,
         TypeOK'
  PROVE  Inv'
<1>1. /\ cwq - COND_BASE \in Cond /\ cwq = COND_BASE + (cwq - COND_BASE)
      /\ cwq \in WQ /\ cwq # WQ_READY /\ cwq # WQ_CLOCK
  BY CondArgLemma, LayoutLemma DEF Inv, TypeOK
<1>2. CoreTypeOK /\ CoreInv /\ TypeOK /\ MutexInv
  BY DEF Inv, TypeOK
<1>3. UNCHANGED <<tick, call>> /\ UNCHANGED <<lock, held, mutex_alloc>>
  BY DEF Wakeup, handlerVars, mutexVars
<1>4. \A v \in WQ, u \in Thread :
        u \in wq_lst'[v] <=> IF u \in ths THEN v = WQ_READY ELSE u \in wq_lst[v]
  BY <1>1, <1>2, WakeupEffect DEF Wakeup
<1>5. CASE ths = {}
  <2>1. /\ wq_lst' = wq_lst /\ th_stat' = th_stat /\ r0' = r0
        /\ UNCHANGED <<pendsv, clock, call, handlerVars>>
    <3>1. wq_lst' = wq_lst
      BY <1>2, <1>5 DEF Wakeup, wakeup, CoreTypeOK, QueuesOK
    <3>2. th_stat' = th_stat /\ r0' = r0
      BY <1>2, <1>5 DEF Wakeup, CtxWrite, CoreTypeOK
    <3>3. pendsv' = pendsv
      BY <1>2, <1>5 DEF Wakeup, CoreTypeOK
    <3> QED BY <3>1, <3>2, <3>3 DEF Wakeup
  <2> QED BY <2>1, SameInv DEF coreVars, handlerVars
<1>6. CASE ths # {}
  <2>1. CoreInv'
    BY <1>1, <1>2, <1>6, WakeupKeepsInv
  <2>2. ASSUME NEW u \in ths
        PROVE  u \in Thread /\ call[u].op \in CondWaitOps
    BY <1>1, <1>2, <2>2 DEF MutexInv, CondWaiter, CoreTypeOK, QueuesOK
  <2>3. \A u \in Thread : CondWaiter(u)'
    BY <1>2, <1>3, <1>4, QueueLayout DEF MutexInv, CondWaiter
  <2>4. AllocInv'
    BY <1>2, <1>3 DEF MutexInv, AllocInv
  <2>5. ASSUME NEW u \in Thread, NEW m \in Mutex
        PROVE  PairInv(u, m)'
    <3>1. PairInv(u, m)
      BY <1>2 DEF MutexInv
    <3>2. Waits(u, m)' <=> Waits(u, m) /\ u \notin ths
      BY <1>4, QueueLayout DEF Waits
    <3>3. CASE u \in ths
      <4>1. call[u].op \notin LockOps
        BY <2>2, <3>3 DEF LockOps, RelockOps, CondWaitOps
      <4> QED BY <1>3, <3>1, <3>2, <3>3, <4>1, NoLockCall
    <3>4. CASE u \notin ths
      <4>1. r0'[u] = r0[u]
        BY <3>4 DEF Wakeup, CtxWrite
      <4>2. u \in wq_lst'[WQ_CLOCK] => u \in wq_lst[WQ_CLOCK]
        BY <1>4, <3>4, LayoutLemma
      <4> QED BY <1>3, <3>1, <3>2, <3>4, <4>1, <4>2, Bystander
    <3> QED BY <3>3, <3>4
  <2> QED BY <1>3, <2>1, <2>3, <2>4, <2>5, CallKeepsNoIrq DEF Inv, MutexInv
<1> QED BY <1>5, <1>6

--------------------------------------------------------------------------------
(* Effect on the queues of a call that blocks t on cwq and wakes ths up. *)
LEMMA ReleaseEffect ==
  ASSUME Configuration, CoreTypeOK, CoreInv, NEW t \in Thread, Running(t),
         NEW cwq \in WQ, cwq # WQ_READY, cwq # WQ_CLOCK,
         NEW mwq \in WQ, mwq # WQ_READY, mwq # WQ_CLOCK, mwq # cwq,
         NEW ths, ths \subseteq wq_lst[mwq]
  PROVE  \A v \in WQ, u \in Thread :
           /\ u \in wait(wakeup(wq_insert(wq_lst, cwq, t), mwq, ths), t)[v]
                <=> IF u = t THEN v = cwq
                    ELSE IF u \in ths THEN v = WQ_READY ELSE u \in wq_lst[v]
           /\ u \in wait(wakeup(tmdwq_insert(wq_lst, cwq, t), mwq, ths), t)[v]
                <=> IF u = t THEN v = cwq \/ v = WQ_CLOCK
                    ELSE IF u \in ths THEN v = WQ_READY ELSE u \in wq_lst[v]
<1> SUFFICES ASSUME NEW v \in WQ, NEW u \in Thread
    PROVE  /\ u \in wait(wakeup(wq_insert(wq_lst, cwq, t), mwq, ths), t)[v]
                <=> IF u = t THEN v = cwq
                    ELSE IF u \in ths THEN v = WQ_READY ELSE u \in wq_lst[v]
           /\ u \in wait(wakeup(tmdwq_insert(wq_lst, cwq, t), mwq, ths), t)[v]
                <=> IF u = t THEN v = cwq \/ v = WQ_CLOCK
                    ELSE IF u \in ths THEN v = WQ_READY ELSE u \in wq_lst[v]
  OBVIOUS
<1>1. ASSUME NEW q PROVE wait(wakeup(q, mwq, ths), t)[v]
                          = IF v = WQ_READY THEN wakeup(q, mwq, ths)[v] \ {t}
                                            ELSE wakeup(q, mwq, ths)[v]
  <2> DEFINE r == wakeup(q, mwq, ths)
  <2>1. DOMAIN r = WQ /\ r = [w \in WQ |-> r[w]]
    BY DEF wakeup
  <2> HIDE DEF r
  <2>2. wait(r, t) = [r EXCEPT ![WQ_READY] = @ \ {t}]
    BY DEF wait, collect, Configuration
  <2> QED BY <2>1, <2>2 DEF r
<1>2. ASSUME NEW q
      PROVE  wakeup(q, mwq, ths)[v] = IF v = WQ_READY THEN q[v] \cup ths
                                      ELSE IF v \in {mwq, WQ_CLOCK} THEN q[v] \ ths
                                      ELSE q[v]
  BY DEF wakeup
<1> DEFINE p == wq_insert(wq_lst, cwq, t)
           r == tmdwq_insert(wq_lst, cwq, t)
<1>3. p[v] = IF v = cwq THEN wq_lst[v] \cup {t} ELSE wq_lst[v]
  BY DEF wq_insert, CoreTypeOK, QueuesOK
<1>4. r[v] = IF v = cwq \/ v = WQ_CLOCK THEN wq_lst[v] \cup {t} ELSE wq_lst[v]
  BY LayoutLemma DEF wq_insert, tmdwq_insert, CoreTypeOK, QueuesOK
<1>5. t \in wq_lst[v] <=> v = WQ_READY
  BY RunningLemma
<1>6. t \notin ths
  BY RunningLemma
<1>7. u \in ths /\ u \in wq_lst[v] => v = mwq \/ v = WQ_CLOCK
  <2>1. SUFFICES ASSUME u \in ths PROVE u \in wq_lst[v] => v = mwq \/ v = WQ_CLOCK
    OBVIOUS
  <2>2. Consistent(u)
    BY DEF CoreInv, StatusInv, Running
  <2>3. mwq = StatWQ(th_stat[u])
    BY <2>1, <2>2 DEF Consistent
  <2> QED BY <2>2, <2>3 DEF Consistent
<1> HIDE DEF p, r
<1>8. u \in wait(wakeup(p, mwq, ths), t)[v]
        <=> IF u = t THEN v = cwq
            ELSE IF u \in ths THEN v = WQ_READY ELSE u \in wq_lst[v]
  <2>1. wait(wakeup(p, mwq, ths), t)[v]
        = IF v = WQ_READY THEN wakeup(p, mwq, ths)[v] \ {t}
                          ELSE wakeup(p, mwq, ths)[v]
    BY <1>1
  <2>2. wakeup(p, mwq, ths)[v] = IF v = WQ_READY THEN p[v] \cup ths
                                 ELSE IF v \in {mwq, WQ_CLOCK} THEN p[v] \ ths
                                 ELSE p[v]
    BY <1>2
  <2> QED BY <1>3, <1>5, <1>6, <1>7, <2>1, <2>2, LayoutLemma
<1>9. u \in wait(wakeup(r, mwq, ths), t)[v]
        <=> IF u = t THEN v = cwq \/ v = WQ_CLOCK
            ELSE IF u \in ths THEN v = WQ_READY ELSE u \in wq_lst[v]
  <2>1. wait(wakeup(r, mwq, ths), t)[v]
        = IF v = WQ_READY THEN wakeup(r, mwq, ths)[v] \ {t}
                          ELSE wakeup(r, mwq, ths)[v]
    BY <1>1
  <2>2. wakeup(r, mwq, ths)[v] = IF v = WQ_READY THEN r[v] \cup ths
                                 ELSE IF v \in {mwq, WQ_CLOCK} THEN r[v] \ ths
                                 ELSE r[v]
    BY <1>2
  <2> QED BY <1>4, <1>5, <1>6, <1>7, <2>1, <2>2, LayoutLemma
<1> QED BY <1>8, <1>9 DEF p, r

(***************************************************************************)
(* A condition wait, timed (clk = 1) or not (clk = 0): t goes to the       *)
(* condition's queue, the next owner of the mutex, if any, is woken up.    *)
(***************************************************************************)
LEMMA ReleaseKeepsInv ==
  ASSUME Configuration, Inv, TypeOK', NEW t \in Thread, Calls(t),
         NEW cwq \in Int, IsCond(cwq), NEW mwq \in Int,
         NEW c \in CallRecord, c.op \in CondWaitOps,
         NEW q, NEW clk \in {0, 1}, NEW ret,
         \/ q = wq_insert(wq_lst, cwq, t) /\ clk = 0
         \/ q = tmdwq_insert(wq_lst, cwq, t) /\ clk = 1,
         ReleaseAndWait(t, mwq, c, q, Stat(cwq, clk), ret)
  PROVE  Inv'
<1> DEFINE W == Woken(mwq)
           th == NextOwner(mwq)
<1>1. CoreTypeOK /\ CoreInv /\ TypeOK /\ MutexInv
  BY DEF Inv, TypeOK
<1>2. Running(t) /\ call[t].op \notin LockOps /\ active = t
  BY CallsNoLock DEF Running
<1>3. HandOver(t, mwq) /\ call' = [call EXCEPT ![t] = c] /\ pendsv' = TRUE
      /\ UNCHANGED tick /\ UNCHANGED active
  BY DEF ReleaseAndWait, handlerVars
<1>4. /\ mwq \in WQ /\ mwq # WQ_READY /\ mwq # WQ_CLOCK
      /\ mwq - MUTEX_BASE \in Mutex /\ mwq = MUTEX_BASE + (mwq - MUTEX_BASE)
  BY <1>1, <1>3, MutexArgLemma, QueueLayout DEF HandOver, TypeOK
<1>5. /\ cwq \in WQ /\ cwq # WQ_READY /\ cwq # WQ_CLOCK
      /\ cwq - COND_BASE \in Cond /\ cwq = COND_BASE + (cwq - COND_BASE)
  BY <1>1, CondArgLemma, LayoutLemma DEF TypeOK
<1>6. mwq # cwq
  BY <1>4, <1>5, QueueLayout
<1>7. /\ W \subseteq wq_lst[mwq] /\ W \subseteq Thread
      /\ th = NONE => W = {}
      /\ th # NONE => W = {th}
  BY <1>1, <1>4, WokenLemma
<1>8. (\A m \in Mutex : ~Waits(t, m)) /\ t \notin W
  BY <1>1, <1>2, <1>4, <1>7, RunningWaitsNot DEF Waits
<1> HIDE DEF W, th
<1>9. \A v \in WQ, u \in Thread :
        u \in wq_lst'[v]
          <=> IF u = t THEN v = cwq \/ (v = WQ_CLOCK /\ clk = 1)
              ELSE IF u \in W THEN v = WQ_READY ELSE u \in wq_lst[v]
  <2>1. CASE th = NONE
    <3>1. wq_lst' = wait(q, t) /\ W = {}
      BY <1>7, <2>1 DEF ReleaseAndWait, th
    <3> QED BY <1>1, <1>2, <1>5, <3>1, BlockEffect
  <2>2. CASE th # NONE
    <3>1. wq_lst' = wait(wakeup(q, mwq, W), t)
      BY <1>7, <2>2 DEF ReleaseAndWait, th
    <3> QED BY <1>1, <1>2, <1>4, <1>5, <1>6, <1>7, <3>1, ReleaseEffect
  <2> QED BY <2>1, <2>2
<1>10. /\ \A u \in Thread : th_stat'[u] = IF u = t THEN Stat(cwq, clk)
                                          ELSE IF u \in W THEN 0 ELSE th_stat[u]
       /\ \A u \in Thread : r0'[u] = IF u = t THEN ret
                                     ELSE IF u \in W THEN OK ELSE r0[u]
  <2>1. CASE th = NONE
    <3>1. /\ W = {} /\ th_stat' = [th_stat EXCEPT ![t] = Stat(cwq, clk)]
          /\ r0' = [r0 EXCEPT ![t] = ret]
      BY <1>7, <2>1 DEF ReleaseAndWait, th, SetStat
    <3> QED BY <1>1, <3>1 DEF CoreTypeOK
  <2>2. CASE th # NONE
    <3>1. /\ W = {th}
          /\ th_stat' = [th_stat EXCEPT ![t] = Stat(cwq, clk), ![th] = 0]
          /\ r0' \in CtxWrite([r0 EXCEPT ![t] = ret], {th}, OK)
      BY <1>7, <2>2 DEF ReleaseAndWait, th
    <3>2. th # t /\ th \in Thread
      BY <1>7, <1>8, <3>1
    <3>3. \A u \in Thread : th_stat'[u] = IF u = t THEN Stat(cwq, clk)
                                          ELSE IF u \in W THEN 0 ELSE th_stat[u]
      BY <1>1, <3>1, <3>2 DEF CoreTypeOK
    <3>4. \A u \in Thread : r0'[u] = IF u = t THEN ret
                                     ELSE IF u \in W THEN OK ELSE r0[u]
      BY <1>1, <1>2, <3>1, <3>2 DEF CoreTypeOK, CtxWrite
    <3> QED BY <3>3, <3>4
  <2> QED BY <2>1, <2>2
<1>11. CoreInv'
  <2> DEFINE stat == Stat(cwq, clk)
  <2>1. StatWQ(stat) = cwq /\ stat % 2 = clk
    BY <1>5, StatLemma
  <2>2. StatWQ(stat) # 0
    BY <1>5, <2>1, LayoutLemma
  <2>3. \A v \in WQ :
          t \in wq_lst'[v]
            <=> (v = StatWQ(stat) \/ (v = WQ_CLOCK /\ stat % 2 = 1))
    BY <1>9, <2>1
  <2>4. \A u \in Thread \ {t} : \A v \in WQ :
          u \in wq_lst'[v] <=> IF u \in W THEN v = WQ_READY ELSE u \in wq_lst[v]
    BY <1>9
  <2> HIDE DEF stat
  <2> QED BY <1>1, <1>2, <1>3, <1>10, <2>2, <2>3, <2>4, BlockKeepsInv DEF stat
<1>12. /\ \A u \in Thread : call'[u] = IF u = t THEN c ELSE call[u]
       /\ c.op \notin LockOps
  BY <1>1, <1>3 DEF CoreTypeOK, LockOps, RelockOps, CondWaitOps
<1>13. \A u \in Thread, m \in Mutex :
         Waits(u, m)' <=> Waits(u, m) /\ u \notin W /\ u # t
  <2> SUFFICES ASSUME NEW u \in Thread, NEW m \in Mutex
      PROVE  Waits(u, m)' <=> Waits(u, m) /\ u \notin W /\ u # t
    OBVIOUS
  <2>1. /\ MUTEX_BASE + m \in WQ /\ MUTEX_BASE + m # cwq
        /\ MUTEX_BASE + m # WQ_CLOCK /\ MUTEX_BASE + m # WQ_READY
    BY <1>5, QueueLayout
  <2> QED BY <1>9, <2>1 DEF Waits
<1>14. \A u \in Thread \ {t} : u \in wq_lst'[WQ_CLOCK] => u \in wq_lst[WQ_CLOCK]
  BY <1>9, LayoutLemma
<1>15. (\A u \in Thread, m \in Mutex : PairInv(u, m)') /\ AllocInv'
  BY <1>1, <1>2, <1>3, <1>8, <1>10, <1>12, <1>13, <1>14, ReleaseKeepsPairs DEF W
<1>16. ASSUME NEW u \in Thread, NEW d \in Cond, u \in wq_lst'[COND_BASE + d]
       PROVE  call'[u].op \in CondWaitOps
  <2>1. COND_BASE + d \in WQ /\ COND_BASE + d # WQ_READY
    BY QueueLayout
  <2> QED BY <1>1, <1>9, <1>12, <1>16, <2>1 DEF MutexInv, CondWaiter
<1> QED BY <1>2, <1>3, <1>11, <1>15, <1>16, CallKeepsNoIrq
        DEF Inv, MutexInv, CondWaiter

(* Steps of t's own code on its call record: nothing else of the core moves. *)
LEMMA ReturnKeepsCore ==
  ASSUME Inv, NEW t \in Thread, Running(t),
         UNCHANGED <<wq_lst, pendsv, th_stat, clock, handlerVars>>
  PROVE  CoreInv' /\ NoIrqInv'
BY CallKeepsNoIrq DEF Inv, handlerVars, CoreInv, StatusInv, TickInv, SchedInv,
                      Consistent, wq_head

(* The second lock call of a condition wait keeps the invariant. *)
LEMMA CondRelockKeepsInv ==
  ASSUME Configuration, Inv, NEW t \in Thread, CondRelock(t)
  PROVE  Inv'
<1> DEFINE mwq == call[t].mwq
           n   == mwq - MUTEX_BASE
           op  == IF r0[t] = ETIMEDOUT THEN "cond_relock_timedout" ELSE "cond_relock"
           c   == Call(op, mwq, mwq)
<1>1. TypeOK'
  BY CondRelockType DEF Inv
<1>2. CoreTypeOK /\ CoreInv /\ TypeOK /\ MutexInv
  BY DEF Inv, TypeOK
<1>3. Running(t) /\ call[t].op \in CondWaitOps /\ call[t].op \notin LockOps
  BY DEF CondRelock, LockOps, RelockOps, CondWaitOps
<1>4. mwq \in Int /\ n \in Mutex /\ mwq = MUTEX_BASE + n
  BY <1>2, <1>3, LayoutLemma DEF TypeOK, CoreTypeOK, CallRecord
<1>5. op \in BlockingCalls /\ op \in LockOps
  BY DEF BlockingCalls, LockOps, RelockOps
<1>6. c \in CallRecord /\ c.mwq = mwq /\ c.op \in LockOps
  BY <1>4, <1>5, CallType DEF Call
<1>7. /\ \A m \in Mutex : ~Waits(t, m)
      /\ \A d \in Cond : t \notin wq_lst[COND_BASE + d]
  BY <1>2, <1>3, RunningWaitsNot
<1>8. CASE CallReturn(t) /\ UNCHANGED mutexVars
  <2>1. /\ UNCHANGED <<wq_lst, pendsv, th_stat, clock, handlerVars>>
        /\ UNCHANGED <<lock, held, mutex_alloc>>
        /\ \A u \in Thread : call'[u] = IF u = t THEN NoCall ELSE call[u]
        /\ \A u \in Thread : r0'[u] = IF u = t THEN OK ELSE r0[u]
    BY <1>2, <1>8 DEF CallReturn, mutexVars, CoreTypeOK
  <2>2. NoCall.op \notin LockOps
    BY DEF NoCall, LockOps, RelockOps
  <2>3. ASSUME NEW u \in Thread, NEW m \in Mutex
        PROVE  PairInv(u, m)'
    <3>1. PairInv(u, m) /\ (Waits(u, m)' <=> Waits(u, m))
      BY <1>2, <2>1 DEF MutexInv, Waits
    <3>2. CASE u = t
      BY <1>3, <1>7, <2>1, <2>2, <3>1, <3>2, NoLockCall
    <3>3. CASE u # t
      BY <2>1, <3>1, <3>3, Bystander
    <3> QED BY <3>2, <3>3
  <2>4. \A u \in Thread : CondWaiter(u)'
    BY <1>2, <1>7, <2>1 DEF MutexInv, CondWaiter
  <2>5. AllocInv'
    BY <1>2, <2>1 DEF MutexInv, AllocInv
  <2> QED BY <1>1, <1>3, <2>1, <2>3, <2>4, <2>5, ReturnKeepsCore DEF Inv, MutexInv
<1>9. CASE /\ TakeLock(t, mwq)
           /\ r0' = [r0 EXCEPT ![t] = OK]
           /\ call' = [call EXCEPT ![t] = c]
           /\ UNCHANGED <<wq_lst, pendsv, th_stat, clock, handlerVars, held>>
  <2>1. /\ \A u \in Thread : call'[u] = IF u = t THEN c ELSE call[u]
        /\ \A u \in Thread : r0'[u] = IF u = t THEN OK ELSE r0[u]
    BY <1>2, <1>9 DEF CoreTypeOK
  <2>2. /\ lock[n] = NONE /\ n \in mutex_alloc /\ mutex_alloc' = mutex_alloc
        /\ \A m \in Mutex : lock'[m] = IF m = n THEN t ELSE lock[m]
    BY <1>2, <1>4, <1>9 DEF TakeLock, Owner, IsMutex, TypeOK
  <2>3. t # NONE
    BY ThreadLemma DEF NONE
  <2> HIDE DEF c, n, mwq
  <2>4. ASSUME NEW u \in Thread, NEW m \in Mutex
        PROVE  PairInv(u, m)'
    <3>1. PairInv(u, m) /\ (Waits(u, m)' <=> Waits(u, m))
      BY <1>2, <1>9 DEF MutexInv, Waits
    <3>2. CASE u # t
      BY <1>9, <2>1, <2>2, <2>3, <3>1, <3>2, Bystander
    <3>3. CASE u = t
      <4>1. ~WillOwn(t, m) /\ ~Waits(t, m)'
        BY <1>3, <1>7, <3>1, <3>3 DEF WillOwn
      <4>2. WillOwn(t, m)' <=> m = n
        BY <1>4, <1>6, <2>1, QueueLayout DEF WillOwn
      <4> QED BY <1>9, <2>2, <3>1, <3>3, <4>1, <4>2
              DEF PairInv, LockWaiter, WaitsForOther, GrantIsOwned, HeldIsLocked,
                  OwnerKnows
    <3> QED BY <3>2, <3>3
  <2>5. \A u \in Thread : CondWaiter(u)'
    BY <1>2, <1>7, <1>9, <2>1 DEF MutexInv, CondWaiter
  <2>6. AllocInv'
    BY <1>2, <2>2 DEF MutexInv, AllocInv
  <2> QED BY <1>1, <1>3, <1>9, <2>4, <2>5, <2>6, ReturnKeepsCore DEF Inv, MutexInv
<1>10. CASE LockWait(t, mwq, c)
  <2> HIDE DEF c, mwq
  <2> QED BY <1>3, <1>4, <1>6, <1>10, LockWaitKeepsInv
<1> QED BY <1>8, <1>9, <1>10 DEF CondRelock

(* The return of a lock call keeps the invariant. *)
LEMMA MutexReturnKeepsInv ==
  ASSUME Inv, NEW t \in Thread, MutexReturn(t)
  PROVE  Inv'
<1>1. TypeOK'
  BY MutexReturnType DEF Inv
<1>2. CoreTypeOK /\ CoreInv /\ TypeOK /\ MutexInv
  BY DEF Inv, TypeOK
<1>3. Running(t)
  BY DEF MutexReturn, CallReturn
<1>4. /\ \A m \in Mutex : ~Waits(t, m)
      /\ \A d \in Cond : t \notin wq_lst[COND_BASE + d]
  BY <1>2, <1>3, RunningWaitsNot
<1>5. /\ UNCHANGED <<wq_lst, pendsv, th_stat, clock, handlerVars>>
      /\ UNCHANGED <<lock, mutex_alloc>>
      /\ \A u \in Thread : call'[u] = IF u = t THEN NoCall ELSE call[u]
      /\ \A u \in Thread : r0'[u] = IF u = t THEN OK ELSE r0[u]
      /\ \A u \in Thread : held'[u] = IF u = t THEN held[u] \cup Granted(t) ELSE held[u]
  BY <1>2 DEF MutexReturn, CallReturn, TypeOK, CoreTypeOK
<1>6. \A m \in Mutex : m \in Granted(t) <=> WillOwn(t, m)
  <2>1. call[t].mwq \in Int
    BY <1>2 DEF CoreTypeOK, CallRecord
  <2> QED BY <2>1, QueueLayout DEF Granted, WillOwn
<1>7. NoCall.op \notin LockOps
  BY DEF NoCall, LockOps, RelockOps
<1>8. ASSUME NEW u \in Thread, NEW m \in Mutex
      PROVE  PairInv(u, m)'
  <2>1. PairInv(u, m) /\ (Waits(u, m)' <=> Waits(u, m))
    BY <1>2, <1>5 DEF MutexInv, Waits
  <2>2. CASE u # t
    BY <1>5, <2>1, <2>2, Bystander
  <2>3. CASE u = t
    <3>1. ~Waits(t, m)' /\ ~Waits(t, m) /\ ~WillOwn(t, m)'
      BY <1>4, <1>5, <1>7, <2>1, <2>3 DEF WillOwn
    <3> QED BY <1>5, <1>6, <2>1, <2>3, <3>1
            DEF PairInv, LockWaiter, WaitsForOther, GrantIsOwned, HeldIsLocked,
                OwnerKnows
  <2> QED BY <2>2, <2>3
<1>9. \A u \in Thread : CondWaiter(u)'
  BY <1>2, <1>4, <1>5 DEF MutexInv, CondWaiter
<1>10. AllocInv'
  BY <1>2, <1>5 DEF MutexInv, AllocInv
<1> QED BY <1>1, <1>3, <1>5, <1>8, <1>9, <1>10, ReturnKeepsCore DEF Inv, MutexInv

(***************************************************************************)
(* SysTick only takes threads out of an object's queue that are in the     *)
(* clock queue: those whose call has the timeout as its result.            *)
(***************************************************************************)
LEMMA SysTickEffect ==
  ASSUME Configuration, CoreTypeOK, CoreInv, NoIrqInv, SysTick
  PROVE  /\ UNCHANGED <<r0, call>>
         /\ \A u \in Thread : \A v \in WQ \ {WQ_READY} :
              /\ u \in wq_lst'[v] => u \in wq_lst[v]
              /\ u \in wq_lst[v] /\ u \notin wq_lst'[v] => u \in wq_lst[WQ_CLOCK]
<1>1. UNCHANGED <<r0, call>>
  BY DEF SysTick, SysTickEntry, SysTickScan, SysTickUnlink, SysTickWakeup, SysTickExit
<1>2. CASE SysTickEntry \/ SysTickScan \/ SysTickExit
  BY <1>1, <1>2 DEF SysTickEntry, SysTickScan, SysTickExit, Configuration
<1>3. CASE SysTickUnlink
  <2>1. tick.j \in wq_lst[WQ_CLOCK]
    BY <1>3 DEF SysTickUnlink, NoIrqInv
  <2>2. \A w \in WQ : wq_lst'[w] = IF w = StatWQ(tick.stat) THEN wq_lst[w] \ {tick.j}
                                   ELSE wq_lst[w]
    BY <1>3 DEF SysTickUnlink, CoreTypeOK, QueuesOK
  <2> QED BY <1>1, <2>1, <2>2
<1>4. CASE SysTickWakeup
  BY <1>1, <1>4 DEF SysTickWakeup, wakeup
<1> QED BY <1>2, <1>3, <1>4 DEF SysTick

(* A timeout, however it falls, keeps the mutex invariant. *)
LEMMA SysTickKeepsMutexInv ==
  ASSUME Configuration, Inv, SysTick, UNCHANGED mutexVars
  PROVE  MutexInv'
<1>1. CoreTypeOK /\ CoreInv /\ NoIrqInv /\ MutexInv
  BY DEF Inv, TypeOK
<1>2. /\ UNCHANGED <<r0, call>> /\ UNCHANGED <<lock, held, mutex_alloc>>
      /\ \A u \in Thread : \A v \in WQ \ {WQ_READY} :
           /\ u \in wq_lst'[v] => u \in wq_lst[v]
           /\ u \in wq_lst[v] /\ u \notin wq_lst'[v] => u \in wq_lst[WQ_CLOCK]
  BY <1>1, SysTickEffect DEF mutexVars
<1>3. AllocInv'
  BY <1>1, <1>2 DEF MutexInv, AllocInv
<1>4. \A u \in Thread : CondWaiter(u)'
  BY <1>1, <1>2, QueueLayout DEF MutexInv, CondWaiter
<1>5. ASSUME NEW u \in Thread, NEW m \in Mutex
      PROVE  PairInv(u, m)'
  <2>1. PairInv(u, m)
    BY <1>1 DEF MutexInv
  <2>2. /\ MUTEX_BASE + m \in WQ \ {WQ_READY} /\ WQ_CLOCK \in WQ \ {WQ_READY}
    BY QueueLayout, LayoutLemma
  <2>3. WillOwn(u, m)' <=> WillOwn(u, m)
    BY <1>2 DEF WillOwn
  <2>4. Waits(u, m)' => Waits(u, m)
    BY <1>2, <2>2 DEF Waits
  <2>5. Waits(u, m) /\ ~Waits(u, m)' => ~WillOwn(u, m)
    <3>1. ETIMEDOUT # OK
      BY DEF ETIMEDOUT, OK
    <3> QED BY <1>2, <2>1, <2>2, <3>1 DEF Waits, WillOwn, PairInv, LockWaiter
  <2>6. u \in wq_lst'[WQ_CLOCK] => u \in wq_lst[WQ_CLOCK]
    BY <1>2, <2>2
  <2> QED BY <1>2, <2>1, <2>3, <2>4, <2>5, <2>6
          DEF PairInv, LockWaiter, WaitsForOther, GrantIsOwned, HeldIsLocked,
              OwnerKnows
<1> QED BY <1>3, <1>4, <1>5 DEF MutexInv

(* Every step of the core keeps the invariant. *)
LEMMA CoreStepKeepsMutexInv ==
  ASSUME Configuration, Inv, CoreStep, UNCHANGED mutexVars
  PROVE  Inv'
<1>1. TypeOK'
  BY NextType DEF Inv, Next
<1>2. CoreTypeOK /\ CoreInv /\ MutexInv /\ NoIrqInv
  BY DEF Inv, TypeOK
<1>3. CoreInv'
  BY <1>2, CoreStepKeepsInv
<1>4. UNCHANGED <<lock, held, mutex_alloc>>
  BY DEF mutexVars
<1>5. CASE SysTick
  BY <1>1, <1>2, <1>3, <1>5, SysTickKeepsNoIrq, SysTickKeepsMutexInv DEF Inv
<1>6. CASE PendSV
  BY <1>1, <1>2, <1>3, <1>4, <1>6
     DEF PendSV, Inv, NoIrqInv, MutexInv, PairInv, LockWaiter, WaitsForOther,
         GrantIsOwned, HeldIsLocked, OwnerKnows, Waits, WillOwn, CondWaiter, AllocInv
<1>7. ASSUME NEW t \in Thread, thinkos_yield(t)
      PROVE  Inv'
  BY <1>1, <1>2, <1>3, <1>4, <1>7
     DEF thinkos_yield, handlerVars, Inv, NoIrqInv, MutexInv, PairInv, LockWaiter,
         WaitsForOther, GrantIsOwned, HeldIsLocked, OwnerKnows, Waits, WillOwn,
         CondWaiter, AllocInv
<1>8. ASSUME NEW t \in Thread, Running(t), UNCHANGED tick,
             call[t].op \notin LockOps, NEW c, c.op \notin LockOps,
             \A u \in Thread : call'[u] = IF u = t THEN c ELSE call[u],
             \A u \in Thread \ {t} : r0'[u] = r0[u],
             \A v \in WQ : t \in wq_lst'[v] => v = WQ_READY \/ v = WQ_CLOCK,
             \A u \in Thread \ {t} : \A v \in WQ : u \in wq_lst'[v] <=> u \in wq_lst[v]
      PROVE  Inv'
  <2>1. ASSUME NEW u \in Thread, NEW m \in Mutex
        PROVE  PairInv(u, m)'
    <3>1. PairInv(u, m)
      BY <1>2 DEF MutexInv
    <3>2. CASE u = t
      <4>1. ~Waits(t, m)'
        BY <1>8, QueueLayout DEF Waits
      <4> QED BY <1>4, <1>8, <3>1, <3>2, <4>1, NoLockCall
    <3>3. CASE u # t
      <4>1. Waits(u, m)' <=> Waits(u, m)
        BY <1>8, <3>3, QueueLayout DEF Waits
      <4>2. u \in wq_lst'[WQ_CLOCK] => u \in wq_lst[WQ_CLOCK]
        BY <1>8, <3>3, LayoutLemma
      <4> QED BY <1>4, <1>8, <3>1, <3>3, <4>1, <4>2, Bystander
    <3> QED BY <3>2, <3>3
  <2>2. ASSUME NEW u \in Thread, NEW d \in Cond, u \in wq_lst'[COND_BASE + d]
        PROVE  call'[u].op \in CondWaitOps
    <3>1. /\ COND_BASE + d \in WQ /\ COND_BASE + d # WQ_READY
          /\ COND_BASE + d # WQ_CLOCK
      BY QueueLayout
    <3>2. u # t
      BY <1>8, <2>2, <3>1
    <3> QED BY <1>2, <1>8, <2>2, <3>1, <3>2 DEF MutexInv, CondWaiter
  <2>3. AllocInv'
    BY <1>2, <1>4 DEF MutexInv, AllocInv
  <2> QED BY <1>1, <1>3, <1>8, <2>1, <2>2, <2>3, CallKeepsNoIrq
          DEF Inv, MutexInv, CondWaiter
<1>9. ASSUME NEW t \in Thread, NEW op \in CoreOps, NEW end, ClockWait(t, op, end)
      PROVE  Inv'
  <2> DEFINE c == Call(op, WQ_CLOCK, 0)
  <2>1. c.op \notin LockOps
    BY DEF Call, CoreOps, LockOps, RelockOps
  <2>2. Running(t) /\ call[t].op \notin LockOps
    BY <1>9, CallsNoLock DEF ClockWait
  <2>3. /\ wq_lst' = wait(wq_insert(wq_lst, WQ_CLOCK, t), t) /\ UNCHANGED tick
        /\ r0' = [r0 EXCEPT ![t] = r0[t]] /\ call' = [call EXCEPT ![t] = c]
    BY <1>9 DEF ClockWait, Blocked, handlerVars
  <2>4. \A v \in WQ, u \in Thread :
          u \in wq_lst'[v] <=> IF u = t THEN v = WQ_CLOCK ELSE u \in wq_lst[v]
    BY <1>2, <2>2, <2>3, BlockEffect, LayoutLemma
  <2>5. /\ \A u \in Thread : call'[u] = IF u = t THEN c ELSE call[u]
        /\ \A u \in Thread \ {t} : r0'[u] = r0[u]
    BY <1>2, <2>3 DEF CoreTypeOK
  <2> HIDE DEF c
  <2> QED BY <1>8, <2>1, <2>2, <2>3, <2>4, <2>5
<1>10. ASSUME NEW t \in Thread, CoreReturn(t)
       PROVE  Inv'
  <2>1. NoCall.op \notin LockOps
    BY DEF NoCall, LockOps, RelockOps
  <2>2. Running(t) /\ call[t].op \notin LockOps /\ UNCHANGED <<tick, wq_lst>>
    BY <1>10 DEF CoreReturn, CallReturn, CoreOps, LockOps, RelockOps, handlerVars
  <2>3. /\ \A u \in Thread : call'[u] = IF u = t THEN NoCall ELSE call[u]
        /\ \A u \in Thread \ {t} : r0'[u] = r0[u]
    BY <1>2, <1>10 DEF CoreReturn, CallReturn, CoreTypeOK
  <2>4. \A v \in WQ : t \in wq_lst'[v] => v = WQ_READY
    BY <1>2, <2>2, RunningLemma
  <2> QED BY <1>8, <2>1, <2>2, <2>3, <2>4
<1> QED BY <1>5, <1>6, <1>7, <1>9, <1>10
        DEF CoreStep, thinkos_sleep_svc, thinkos_alarm_svc, CoreOps

--------------------------------------------------------------------------------
(* Every mutex call keeps the invariant. *)
LEMMA MutexStepKeepsInv ==
  ASSUME Configuration, Inv, NEW t \in Thread, MutexStep(t)
  PROVE  Inv'
<1>1. ASSUME NEW wq \in MutexArg, LockRefused(t, wq) \/ MutexRefuse(t, EAGAIN)
      PROVE  Inv'
  BY <1>1, SameInv DEF LockRefused, MutexRefuse, Refuse
<1>2. ASSUME NEW wq \in MutexArg, Calls(t), LockTaken(t, wq)
      PROVE  Inv'
  BY <1>2, ArgType, LockTakenKeepsInv
<1>3. ASSUME NEW wq \in MutexArg, Calls(t), LockWait(t, wq, Call("mutex_lock", wq, wq))
      PROVE  Inv'
  <2> DEFINE c == Call("mutex_lock", wq, wq)
  <2>1. wq \in Int /\ Running(t) /\ call[t].op \notin LockOps
    BY <1>3, ArgType, CallsNoLock
  <2>2. c \in CallRecord
    BY <2>1, CallType DEF BlockingCalls
  <2>3. c.mwq = wq /\ c.op \in LockOps
    BY DEF Call, LockOps
  <2> HIDE DEF c
  <2>4. LockWait(t, wq, c)
    BY <1>3 DEF c
  <2> QED BY <2>1, <2>2, <2>3, <2>4, LockWaitKeepsInv
<1>4. ASSUME NEW wq \in MutexArg, thinkos_mutex_lock_svc(t, wq)
      PROVE  Inv'
  BY <1>1, <1>2, <1>3, <1>4 DEF thinkos_mutex_lock_svc
<1>5. ASSUME NEW wq \in MutexArg, thinkos_mutex_trylock_svc(t, wq)
      PROVE  Inv'
  BY <1>1, <1>2, <1>5 DEF thinkos_mutex_trylock_svc
<1>6. ASSUME NEW wq \in MutexArg, NEW ms \in TIMEOUTS,
             thinkos_mutex_timedlock_svc(t, wq, ms)
      PROVE  Inv'
  <2>1. CASE LockBusy(t, wq)
    BY <1>6, <2>1, TimedLockKeepsInv
  <2>2. CASE ~LockBusy(t, wq)
    BY <1>1, <1>2, <1>6, <2>2 DEF thinkos_mutex_timedlock_svc
  <2> QED BY <2>1, <2>2
<1>7. ASSUME NEW wq \in MutexArg, thinkos_mutex_unlock_svc(t, wq)
      PROVE  Inv'
  BY <1>7, ArgType, UnlockKeepsInv
<1> QED BY <1>4, <1>5, <1>6, <1>7, AllocKeepsInv DEF MutexStep

(* Every condition-variable call keeps the invariant. *)
LEMMA CondStepKeepsInv ==
  ASSUME Configuration, Inv, NEW t \in Thread, CondStep(t)
  PROVE  Inv'
<1>1. TypeOK'
  BY CondStepType DEF Inv
<1>2. CASE UNCHANGED <<coreVars, mutexVars>>
  BY <1>2, SameInv
<1>3. ASSUME NEW cwq \in CondArg, NEW mwq \in MutexArg,
             thinkos_cond_wait_svc(t, cwq, mwq), ~UNCHANGED <<coreVars, mutexVars>>
      PROVE  Inv'
  <2> DEFINE c == Call("cond_wait", cwq, mwq)
             q == wq_insert(wq_lst, cwq, t)
  <2>1. /\ Calls(t) /\ IsCond(cwq)
        /\ ReleaseAndWait(t, mwq, c, q, Stat(cwq, 0), OK)
    BY <1>3 DEF thinkos_cond_wait_svc, CondWaitRefused, MutexRefuse, Refuse
  <2>2. cwq \in Int /\ mwq \in Int
    BY ArgType
  <2>3. c \in CallRecord
    BY <2>2, CallType DEF BlockingCalls
  <2>4. c.op \in CondWaitOps
    BY DEF Call, CondWaitOps
  <2> HIDE DEF c
  <2> QED BY <1>1, <2>1, <2>2, <2>3, <2>4, ReleaseKeepsInv
<1>4. ASSUME NEW cwq \in CondArg, NEW mwq \in MutexArg, NEW ms \in TIMEOUTS,
             thinkos_cond_timedwait_svc(t, cwq, mwq, ms),
             ~UNCHANGED <<coreVars, mutexVars>>
      PROVE  Inv'
  <2> DEFINE c == Call("cond_timedwait", cwq, mwq)
             q == tmdwq_insert(wq_lst, cwq, t)
  <2>1. /\ Calls(t) /\ IsCond(cwq)
        /\ ReleaseAndWait(t, mwq, c, q, Stat(cwq, 1), ETIMEDOUT)
    BY <1>4 DEF thinkos_cond_timedwait_svc, CondWaitRefused, MutexRefuse, Refuse
  <2>2. cwq \in Int /\ mwq \in Int
    BY ArgType
  <2>3. c \in CallRecord
    BY <2>2, CallType DEF BlockingCalls
  <2>4. c.op \in CondWaitOps
    BY DEF Call, CondWaitOps
  <2> HIDE DEF c
  <2> QED BY <1>1, <2>1, <2>2, <2>3, <2>4, ReleaseKeepsInv
<1>5. ASSUME NEW cwq \in CondArg, thinkos_cond_signal_svc(t, cwq)
      PROVE  Inv'
  <2> DEFINE ths == {th \in wq_lst[cwq] : th = wq_head(cwq)}
  <2>1. ths \subseteq wq_lst[cwq] /\ cwq \in Int
    BY ArgType
  <2>2. \/ UNCHANGED <<coreVars, mutexVars>>
        \/ Running(t) /\ IsCond(cwq) /\ Wakeup(cwq, ths) /\ UNCHANGED mutexVars
    BY <1>5 DEF thinkos_cond_signal_svc, MutexRefuse, Refuse, Calls
  <2> HIDE DEF ths
  <2> QED BY <1>1, <1>2, <2>1, <2>2, SignalKeepsInv
<1>6. ASSUME NEW cwq \in CondArg, thinkos_cond_broadcast_svc(t, cwq)
      PROVE  Inv'
  BY <1>1, <1>2, <1>6, ArgType, SignalKeepsInv
     DEF thinkos_cond_broadcast_svc, MutexRefuse, Refuse, Calls
<1> QED BY <1>2, <1>3, <1>4, <1>5, <1>6, AllocKeepsInv DEF CondStep

(* The invariant holds initially. *)
LEMMA InitInv ==
  ASSUME Init
  PROVE  Inv
<1>1. TypeOK
  BY InitType
<1>2. CoreInv /\ NoIrqInv
  BY CoreInitInv DEF Init
<1>3. /\ \A t \in Thread : call[t].op \notin LockOps /\ held[t] = {}
      /\ \A m \in Mutex : lock[m] = NONE
  BY DEF Init, CoreInit, NoCall, LockOps, RelockOps
<1>4. /\ \A t \in Thread, m \in Mutex : ~Waits(t, m)
      /\ \A t \in Thread, c \in Cond : t \notin wq_lst[COND_BASE + c]
  BY QueueLayout DEF Init, CoreInit, Waits
<1>5. NONE \notin Thread
  BY ThreadLemma DEF NONE
<1>6. MutexInv
  BY <1>3, <1>4, <1>5
     DEF MutexInv, PairInv, LockWaiter, WaitsForOther, GrantIsOwned, HeldIsLocked,
         OwnerKnows, WillOwn, CondWaiter, AllocInv
<1> QED BY <1>1, <1>2, <1>6 DEF Inv

(* What the inductive invariant says in the terms of the checked properties. *)
LEMMA InvImplies ==
  ASSUME Inv
  PROVE  /\ HeldIsOwned /\ OwnerIsTold /\ FreeLockHasNoWaiter
         /\ StatusNamesQueue /\ HighestReadyRuns
<1>1. TypeOK /\ CoreTypeOK /\ CoreInv /\ MutexInv
  BY DEF Inv, TypeOK
<1>2. HeldIsOwned
  BY <1>1 DEF HeldIsOwned, MutexInv, PairInv, HeldIsLocked, TypeOK
<1>3. OwnerIsTold
  <2>1. SUFFICES ASSUME NEW t \in Thread, NEW m \in Mutex, WillOwn(t, m)
                 PROVE  m \in Granted(t)
    BY <1>1 DEF OwnerIsTold, MutexInv, PairInv, OwnerKnows
  <2>2. call[t].mwq \in Int
    BY <1>1 DEF CoreTypeOK, CallRecord
  <2> QED BY <2>1, <2>2, QueueLayout DEF Granted, WillOwn
<1>4. FreeLockHasNoWaiter
  <2>1. SUFFICES ASSUME NEW m \in Mutex \ FREEABLE, lock[m] = NONE,
                        NEW t \in wq_lst[MUTEX_BASE + m]
                 PROVE  FALSE
    BY DEF FreeLockHasNoWaiter
  <2>2. t \in Thread
    BY <1>1, QueueLayout DEF CoreTypeOK, QueuesOK
  <2> QED BY <1>1, <2>1, <2>2 DEF MutexInv, PairInv, WaitsForOther, Waits
<1> QED BY <1>1, <1>2, <1>3, <1>4, CoreInvImplies

(* The invariant is inductive, hence always true. *)
LEMMA InvAlways ==
  ASSUME Configuration
  PROVE  Spec => []Inv
<1>1. Init => Inv
  BY InitInv
<1>2. Inv /\ [Next]_vars => Inv'
  BY SameInv, CoreStepKeepsMutexInv, MutexStepKeepsInv, CondStepKeepsInv,
     CondRelockKeepsInv, MutexReturnKeepsInv DEF Next, vars
<1> QED BY <1>1, <1>2, PTL DEF Spec

(***************************************************************************)
(* Mutual exclusion: for any number of threads, mutexes, conditions and    *)
(* timeouts, a thread that was told it holds a mutex is the owner in       *)
(* lock[], so no two threads are told they hold the same mutex             *)
(* (thinkos_mutex.c, thinkos_cond.c, cm3_systick_isr).                     *)
(***************************************************************************)
THEOREM MutualExclusion ==
  ASSUME Configuration
  PROVE  Spec => []HeldIsOwned
BY InvAlways, InvImplies, PTL

(***************************************************************************)
(* No lock is orphaned: the owner in lock[] knows that it is, or finds out *)
(* when its call returns, also if the clock and a hand-over race.          *)
(***************************************************************************)
THEOREM NoOrphanedLock ==
  ASSUME Configuration
  PROVE  Spec => []OwnerIsTold
BY InvAlways, InvImplies, PTL

(***************************************************************************)
(* Nobody waits for a free mutex (thinkos_mutex_unlock_svc and the         *)
(* releases of the condition waits hand over to a waiter if there is one). *)
(***************************************************************************)
THEOREM NobodyWaitsForFreeLock ==
  ASSUME Configuration
  PROVE  Spec => []FreeLockHasNoWaiter
BY InvAlways, InvImplies, PTL

(***************************************************************************)
(* The status byte of every blocked thread names its queue, so that the    *)
(* clock interrupt clears the right bit, and thread code only runs in the  *)
(* most urgent ready thread, with mutexes and conditions in use.           *)
(***************************************************************************)
THEOREM MutexScheduling ==
  ASSUME Configuration
  PROVE  Spec => [](StatusNamesQueue /\ HighestReadyRuns)
BY InvAlways, InvImplies, PTL

--------------------------------------------------------------------------------
(***************************************************************************)
(* What a step of the module can do to the queues and to the owners.       *)
(***************************************************************************)
MutexQueue(m) == MUTEX_BASE + m
CondQueue(c)  == COND_BASE + c

(* The queues with t in that of an object and, if b = 1, in the clock's. *)
Put(t, w, b) == IF b = 0 THEN wq_insert(wq_lst, w, t) ELSE tmdwq_insert(wq_lst, w, t)

(* Nobody blocks and nobody is woken up; t may take a lock or return. *)
Stays(t) ==
  /\ Running(t)
  /\ UNCHANGED <<wq_lst, th_stat, pendsv, handlerVars>>
  /\ \A u \in Thread \ {t} : call'[u] = call[u]
  /\ \A m \in Mutex : lock'[m] \in {lock[m], NONE, t}

(* t waits for a mutex of somebody else. *)
Blocks(t, m, b, c) ==
  /\ Running(t)
  /\ lock[m] # t
  /\ c.op \in LockOps /\ c.mwq = MutexQueue(m)
  /\ wq_lst' = wait(Put(t, MutexQueue(m), b), t)
  /\ SetStat(t, Stat(MutexQueue(m), b))
  /\ call' = [call EXCEPT ![t] = c]
  /\ pendsv' = TRUE
  /\ UNCHANGED <<handlerVars, lock>>

(* t wakes up threads that wait for a condition, *)
Signals(t, c, ths) ==
  /\ Running(t)
  /\ ths \subseteq wq_lst[CondQueue(c)]
  /\ Wakeup(CondQueue(c), ths)
  /\ UNCHANGED lock

(* hands its mutex over to the first waiter, *)
Unlocks(t, m) ==
  /\ Running(t)
  /\ lock[m] = t
  /\ Woken(MutexQueue(m)) = {NextOwner(MutexQueue(m))}
  /\ Wakeup(MutexQueue(m), Woken(MutexQueue(m)))
  /\ lock' = [lock EXCEPT ![m] = NextOwner(MutexQueue(m))]

(* or does so and waits for a condition. *)
Releases(t, m, c, b, r) ==
  /\ Running(t)
  /\ lock[m] = t
  /\ r.op \in CondWaitOps /\ r.mwq = MutexQueue(m)
  /\ wq_lst' = wait(wakeup(Put(t, CondQueue(c), b), MutexQueue(m), Woken(MutexQueue(m))), t)
  /\ th_stat' = [u \in Thread |-> IF u \in Woken(MutexQueue(m)) THEN 0
                                  ELSE IF u = t THEN Stat(CondQueue(c), b) ELSE th_stat[u]]
  /\ call' = [call EXCEPT ![t] = r]
  /\ pendsv' = TRUE
  /\ lock' = [lock EXCEPT ![m] = NextOwner(MutexQueue(m))]
  /\ UNCHANGED handlerVars

MutexEffect ==
  \E t \in Thread :
    \/ Stays(t)
    \/ \E m \in Mutex : Unlocks(t, m)
    \/ \E c \in Cond, ths \in SUBSET Thread : Signals(t, c, ths)
    \/ \E m \in Mutex, b \in {0, 1}, r \in CallRecord :
         Blocks(t, m, b, r) \/ \E c \in Cond : Releases(t, m, c, b, r)

--------------------------------------------------------------------------------
(* The queues of the objects are objects' queues, each its own. *)
LEMMA ObjectQueues ==
  /\ \A m \in Mutex : /\ MutexQueue(m) \in ObjectWQ /\ MutexQueue(m) \in WQ
                      /\ MutexQueue(m) \in Int
                      /\ MutexQueue(m) \notin {WQ_READY, WQ_CLOCK}
                      /\ MutexQueue(m) - MUTEX_BASE = m
  /\ \A c \in Cond : /\ CondQueue(c) \in ObjectWQ /\ CondQueue(c) \in WQ
                     /\ CondQueue(c) \in Int
                     /\ CondQueue(c) \notin {WQ_READY, WQ_CLOCK}
  /\ \A m \in Mutex, c \in Cond : MutexQueue(m) # CondQueue(c)
BY LayoutLemma, ObjectLayout, CoreAssumption
   DEF Mutex, Cond, MutexQueue, CondQueue, WQ, ObjectWQ, COND_BASE

(* An argument that passes the check names a mutex's or a condition's queue. *)
LEMMA ArgQueues ==
  ASSUME TypeOK
  PROVE  /\ \A wq \in Int : IsMutex(wq) =>
              wq - MUTEX_BASE \in Mutex /\ wq = MutexQueue(wq - MUTEX_BASE)
         /\ \A wq \in Int : IsCond(wq) =>
              wq - COND_BASE \in Cond /\ wq = CondQueue(wq - COND_BASE)
BY LayoutLemma, CoreAssumption
   DEF IsMutex, IsCond, TypeOK, MutexQueue, CondQueue, COND_BASE

(* Waking up nobody changes no queue. *)
LEMMA WakeNobody ==
  ASSUME NEW q, QueuesOK(q), NEW w
  PROVE  wakeup(q, w, {}) = q
BY DEF wakeup, QueuesOK

(* Putting a thread in an object's queue keeps the queues well formed. *)
LEMMA PutType ==
  ASSUME CoreTypeOK, NEW t \in Thread, NEW w \in WQ, w # WQ_READY, NEW b
  PROVE  QueuesOK(Put(t, w, b))
BY InsertType DEF Put, CoreTypeOK

(* Without an effect on the run-time block but on the caller's own call. *)
LEMMA StaysLemma ==
  ASSUME TypeOK, NEW t \in Thread, Running(t), NEW c,
         UNCHANGED <<wq_lst, th_stat, pendsv, handlerVars>>,
         call' = call \/ call' = [call EXCEPT ![t] = c],
         \A m \in Mutex : lock'[m] \in {lock[m], NONE, t}
  PROVE  MutexEffect
BY DEF MutexEffect, Stays, TypeOK, CoreTypeOK

(* A call that is refused, *)
LEMMA RefusedEffect ==
  ASSUME TypeOK, NEW t \in Thread, Calls(t), UNCHANGED <<coreVars, lock>>
  PROVE  MutexEffect
BY StaysLemma DEF Calls, coreVars, handlerVars

(* takes a free lock, *)
LEMMA TakenEffect ==
  ASSUME TypeOK, NEW t \in Thread, Running(t), NEW wq \in Int, NEW c, TakeLock(t, wq),
         call' = call \/ call' = [call EXCEPT ![t] = c],
         UNCHANGED <<wq_lst, th_stat, pendsv, handlerVars>>
  PROVE  MutexEffect
<1>1. \A m \in Mutex : lock'[m] \in {lock[m], NONE, t}
  BY DEF TakeLock, TypeOK
<1> QED BY <1>1, StaysLemma

(* or waits for it. *)
LEMMA LockWaitEffect ==
  ASSUME TypeOK, NEW t \in Thread, Running(t), NEW wq \in Int, LockBusy(t, wq),
         NEW c \in CallRecord, c.op \in LockOps, c.mwq = wq,
         NEW b \in {0, 1}, wq_lst' = wait(Put(t, wq, b), t), SetStat(t, Stat(wq, b)),
         call' = [call EXCEPT ![t] = c], pendsv' = TRUE, UNCHANGED <<handlerVars, lock>>
  PROVE  MutexEffect
<1> DEFINE m == wq - MUTEX_BASE
<1>1. m \in Mutex /\ wq = MutexQueue(m) /\ lock[m] # t
  BY ArgQueues DEF LockBusy, Owner
<1> HIDE DEF m
<1>2. Blocks(t, m, b, c)
  BY <1>1 DEF Blocks
<1> QED BY <1>1, <1>2 DEF MutexEffect

(* The calls of thinkos_mutex.c have one of the effects. *)
LEMMA MutexStepEffect ==
  ASSUME TypeOK, NEW t \in Thread, MutexStep(t)
  PROVE  MutexEffect
<1> USE DEF MutexRefuse, Refuse, mutexVars
<1>1. CASE thinkos_mutex_alloc_svc(t)
  <2>1. \A m \in Mutex : lock'[m] \in {lock[m], NONE, t}
    BY <1>1 DEF thinkos_mutex_alloc_svc, TypeOK
  <2> QED BY <1>1, <2>1, StaysLemma
          DEF thinkos_mutex_alloc_svc, Calls, coreVars, handlerVars
<1>2. ASSUME NEW wq \in MutexArg, thinkos_mutex_free_svc(t, wq)
      PROVE  MutexEffect
  BY <1>2, RefusedEffect DEF thinkos_mutex_free_svc
<1>3. ASSUME NEW wq \in MutexArg, Calls(t), LockRefused(t, wq) \/ LockTaken(t, wq)
      PROVE  MutexEffect
  <2>1. CASE LockRefused(t, wq)
    BY <1>3, <2>1, RefusedEffect DEF LockRefused
  <2>2. CASE LockTaken(t, wq)
    BY <1>3, <2>2, ArgType, TakenEffect DEF LockTaken, Calls, coreVars, handlerVars
  <2> QED BY <1>3, <2>1, <2>2
<1>4. ASSUME NEW wq \in MutexArg, thinkos_mutex_lock_svc(t, wq)
      PROVE  MutexEffect
  <2>1. CASE LockWait(t, wq, Call("mutex_lock", wq, wq))
    <3> DEFINE c == Call("mutex_lock", wq, wq)
    <3>1. wq \in Int /\ c \in CallRecord /\ c.op \in LockOps /\ c.mwq = wq
      BY ArgType, CallType DEF Call, LockOps, BlockingCalls
    <3>2. /\ Running(t) /\ LockBusy(t, wq) /\ wq_lst' = wait(Put(t, wq, 0), t)
          /\ SetStat(t, Stat(wq, 0)) /\ call' = [call EXCEPT ![t] = c]
          /\ pendsv' = TRUE /\ UNCHANGED <<handlerVars, lock>>
      BY <1>4, <2>1 DEF LockWait, thinkos_mutex_lock_svc, Calls, Blocked, Put
    <3> HIDE DEF c
    <3> QED BY <3>1, <3>2, LockWaitEffect
  <2> QED BY <1>3, <1>4, <2>1 DEF thinkos_mutex_lock_svc
<1>5. ASSUME NEW wq \in MutexArg, thinkos_mutex_trylock_svc(t, wq)
      PROVE  MutexEffect
  BY <1>3, <1>5, RefusedEffect DEF thinkos_mutex_trylock_svc
<1>6. ASSUME NEW wq \in MutexArg, NEW ms \in TIMEOUTS,
             thinkos_mutex_timedlock_svc(t, wq, ms)
      PROVE  MutexEffect
  <2>1. CASE ~(LockRefused(t, wq) \/ LockTaken(t, wq))
    <3> DEFINE c == Call("mutex_timedlock", wq, wq)
    <3>1. wq \in Int /\ c \in CallRecord /\ c.op \in LockOps /\ c.mwq = wq
      BY ArgType, CallType DEF Call, LockOps, BlockingCalls
    <3>2. /\ Running(t) /\ LockBusy(t, wq) /\ wq_lst' = wait(Put(t, wq, 1), t)
          /\ SetStat(t, Stat(wq, 1)) /\ call' = [call EXCEPT ![t] = c]
          /\ pendsv' = TRUE /\ UNCHANGED <<handlerVars, lock>>
      BY <1>6, <2>1 DEF thinkos_mutex_timedlock_svc, Calls, Blocked, Put
    <3> HIDE DEF c
    <3> QED BY <3>1, <3>2, LockWaitEffect
  <2> QED BY <1>3, <1>6, <2>1 DEF thinkos_mutex_timedlock_svc
<1>7. ASSUME NEW wq \in MutexArg, thinkos_mutex_unlock_svc(t, wq)
      PROVE  MutexEffect
  <2>1. CASE HandOver(t, wq) /\ IF NextOwner(wq) = NONE THEN UNCHANGED coreVars
                                 ELSE Wakeup(wq, {NextOwner(wq)})
    <3>1. PICK m \in Mutex : wq = MutexQueue(m) /\ m = wq - MUTEX_BASE
      BY <2>1, ArgQueues, ArgType DEF HandOver
    <3>2. Running(t) /\ lock[m] = t /\ lock' = [lock EXCEPT ![m] = NextOwner(wq)]
      BY <1>7, <2>1, <3>1 DEF HandOver, Owner, thinkos_mutex_unlock_svc, Calls
    <3>3. CASE NextOwner(wq) = NONE
      <4>1. \A n \in Mutex : lock'[n] \in {lock[n], NONE, t}
        BY <3>2, <3>3 DEF TypeOK
      <4> QED BY <2>1, <3>2, <3>3, <4>1, StaysLemma DEF coreVars, handlerVars
    <3>4. CASE NextOwner(wq) # NONE
      <4>1. Woken(wq) = {NextOwner(wq)}
        BY <3>1, <3>4, ObjectQueues, WokenLemma DEF TypeOK
      <4>2. Unlocks(t, m)
        BY <2>1, <3>1, <3>2, <3>4, <4>1 DEF Unlocks
      <4> QED BY <4>2 DEF MutexEffect
    <3> QED BY <3>3, <3>4
  <2> QED BY <1>7, <2>1, RefusedEffect DEF thinkos_mutex_unlock_svc
<1> QED BY <1>1, <1>2, <1>4, <1>5, <1>6, <1>7 DEF MutexStep

(* The release of a condition wait. *)
LEMMA ReleaseIsEffect ==
  ASSUME TypeOK, NEW t \in Thread, Running(t), NEW cwq \in Int, IsCond(cwq),
         NEW mwq \in Int, NEW r \in CallRecord, r.op \in CondWaitOps, r.mwq = mwq,
         NEW b \in {0, 1}, NEW ret,
         ReleaseAndWait(t, mwq, r, Put(t, cwq, b), Stat(cwq, b), ret)
  PROVE  MutexEffect
<1>1. PICK m \in Mutex : mwq = MutexQueue(m) /\ m = mwq - MUTEX_BASE
  BY ArgQueues DEF ReleaseAndWait, HandOver
<1>2. PICK c \in Cond : cwq = CondQueue(c)
  BY ArgQueues
<1>3. /\ lock[m] = t /\ lock' = [lock EXCEPT ![m] = NextOwner(mwq)]
      /\ call' = [call EXCEPT ![t] = r] /\ pendsv' = TRUE /\ UNCHANGED handlerVars
  BY <1>1 DEF ReleaseAndWait, HandOver, Owner
<1> DEFINE stat == Stat(cwq, b)
           q    == Put(t, cwq, b)
<1>4. QueuesOK(q)
  BY <1>2, ObjectQueues, PutType DEF TypeOK
<1>5. /\ NextOwner(mwq) = NONE => Woken(mwq) = {}
      /\ NextOwner(mwq) # NONE => Woken(mwq) = {NextOwner(mwq)}
  BY <1>1, ObjectQueues, WokenLemma DEF TypeOK
<1>6. CASE NextOwner(mwq) = NONE
  <2>1. wq_lst' = wait(q, t) /\ th_stat' = [th_stat EXCEPT ![t] = stat]
    BY <1>6 DEF ReleaseAndWait, SetStat
  <2> HIDE DEF q, stat
  <2>2. wq_lst' = wait(wakeup(q, mwq, Woken(mwq)), t)
    BY <1>4, <1>5, <1>6, <2>1, WakeNobody
  <2>3. th_stat' = [u \in Thread |-> IF u \in Woken(mwq) THEN 0
                                     ELSE IF u = t THEN stat ELSE th_stat[u]]
    BY <1>5, <1>6, <2>1 DEF TypeOK, CoreTypeOK
  <2>4. Releases(t, m, c, b, r)
    BY <1>1, <1>2, <1>3, <2>2, <2>3 DEF Releases, q, stat
  <2> QED BY <2>4 DEF MutexEffect
<1>7. CASE NextOwner(mwq) # NONE
  <2>1. /\ wq_lst' = wait(wakeup(q, mwq, {NextOwner(mwq)}), t)
        /\ th_stat' = [th_stat EXCEPT ![t] = stat, ![NextOwner(mwq)] = 0]
    BY <1>7 DEF ReleaseAndWait
  <2> HIDE DEF q, stat
  <2>2. wq_lst' = wait(wakeup(q, mwq, Woken(mwq)), t)
    BY <1>5, <1>7, <2>1
  <2>3. th_stat' = [u \in Thread |-> IF u \in Woken(mwq) THEN 0
                                     ELSE IF u = t THEN stat ELSE th_stat[u]]
    BY <1>5, <1>7, <2>1 DEF TypeOK, CoreTypeOK
  <2>4. Releases(t, m, c, b, r)
    BY <1>1, <1>2, <1>3, <2>2, <2>3 DEF Releases, q, stat
  <2> QED BY <2>4 DEF MutexEffect
<1> QED BY <1>6, <1>7

(* The calls of thinkos_cond.c have one of the effects, *)
LEMMA CondStepEffect ==
  ASSUME TypeOK, NEW t \in Thread, CondStep(t)
  PROVE  MutexEffect
<1> USE DEF MutexRefuse, Refuse, mutexVars
<1>1. CASE thinkos_cond_alloc_svc(t)
  BY <1>1, RefusedEffect DEF thinkos_cond_alloc_svc
<1>2. ASSUME NEW cwq \in CondArg, thinkos_cond_free_svc(t, cwq)
      PROVE  MutexEffect
  BY <1>2, RefusedEffect DEF thinkos_cond_free_svc
<1>3. ASSUME NEW cwq \in CondArg, NEW mwq \in MutexArg, thinkos_cond_wait_svc(t, cwq, mwq)
      PROVE  MutexEffect
  <2>1. CASE CondWaitRefused(t, cwq, mwq)
    BY <1>3, <2>1, RefusedEffect DEF thinkos_cond_wait_svc, CondWaitRefused
  <2>2. CASE ~CondWaitRefused(t, cwq, mwq)
    <3> DEFINE r == Call("cond_wait", cwq, mwq)
    <3>1. cwq \in Int /\ mwq \in Int /\ r \in CallRecord /\ r.op \in CondWaitOps /\ r.mwq = mwq
      BY ArgType, CallType DEF Call, CondWaitOps, BlockingCalls
    <3>2. /\ Running(t) /\ IsCond(cwq)
          /\ ReleaseAndWait(t, mwq, r, Put(t, cwq, 0), Stat(cwq, 0), OK)
      BY <1>3, <2>2 DEF thinkos_cond_wait_svc, Calls, Put
    <3> HIDE DEF r
    <3> QED BY <3>1, <3>2, ReleaseIsEffect
  <2> QED BY <2>1, <2>2
<1>4. ASSUME NEW cwq \in CondArg, NEW mwq \in MutexArg, NEW ms \in TIMEOUTS,
             thinkos_cond_timedwait_svc(t, cwq, mwq, ms)
      PROVE  MutexEffect
  <2>1. CASE CondWaitRefused(t, cwq, mwq)
    BY <1>4, <2>1, RefusedEffect DEF thinkos_cond_timedwait_svc, CondWaitRefused
  <2>2. CASE ~CondWaitRefused(t, cwq, mwq)
    <3> DEFINE r == Call("cond_timedwait", cwq, mwq)
    <3>1. cwq \in Int /\ mwq \in Int /\ r \in CallRecord /\ r.op \in CondWaitOps /\ r.mwq = mwq
      BY ArgType, CallType DEF Call, CondWaitOps, BlockingCalls
    <3>2. /\ Running(t) /\ IsCond(cwq)
          /\ ReleaseAndWait(t, mwq, r, Put(t, cwq, 1), Stat(cwq, 1), ETIMEDOUT)
      BY <1>4, <2>2 DEF thinkos_cond_timedwait_svc, Calls, Put
    <3> HIDE DEF r
    <3> QED BY <3>1, <3>2, ReleaseIsEffect
  <2> QED BY <2>1, <2>2
<1>5. ASSUME NEW cwq \in CondArg,
             thinkos_cond_signal_svc(t, cwq) \/ thinkos_cond_broadcast_svc(t, cwq)
      PROVE  MutexEffect
  <2>1. CASE ~IsCond(cwq)
    BY <1>5, <2>1, RefusedEffect DEF thinkos_cond_signal_svc, thinkos_cond_broadcast_svc
  <2>2. CASE IsCond(cwq)
    <3>1. PICK c \in Cond : cwq = CondQueue(c)
      BY <2>2, ArgQueues, ArgType
    <3>2. PICK ths \in SUBSET wq_lst[cwq] : Wakeup(cwq, ths)
      BY <1>5, <2>2 DEF thinkos_cond_signal_svc, thinkos_cond_broadcast_svc
    <3>3. ths \in SUBSET Thread
      BY <3>1, ObjectQueues DEF TypeOK, CoreTypeOK, QueuesOK
    <3>4. Running(t) /\ UNCHANGED lock
      BY <1>5, <2>2 DEF thinkos_cond_signal_svc, thinkos_cond_broadcast_svc, Calls
    <3> QED BY <3>1, <3>2, <3>3, <3>4 DEF MutexEffect, Signals
  <2> QED BY <2>1, <2>2
<1> QED BY <1>1, <1>2, <1>3, <1>4, <1>5 DEF CondStep

(* and so have the returns to the caller. *)
LEMMA ReturnEffect ==
  ASSUME TypeOK, NEW t \in Thread, CondRelock(t) \/ MutexReturn(t)
  PROVE  MutexEffect
<1>1. CASE CallReturn(t) /\ UNCHANGED lock
  BY <1>1, StaysLemma DEF CallReturn
<1>2. CASE CondRelock(t) /\ ~(CallReturn(t) /\ UNCHANGED lock)
  <2> DEFINE mwq == call[t].mwq
             c   == Call(IF r0[t] = ETIMEDOUT THEN "cond_relock_timedout"
                                              ELSE "cond_relock", mwq, mwq)
  <2>1. mwq \in Int
    BY DEF TypeOK, CoreTypeOK, CallRecord
  <2>2. c \in CallRecord /\ c.op \in LockOps /\ c.mwq = mwq
    BY <2>1, CallType DEF Call, LockOps, RelockOps, BlockingCalls
  <2>3. Running(t)
    BY <1>2 DEF CondRelock
  <2>4. CASE TakeLock(t, mwq) /\ call' = [call EXCEPT ![t] = c]
             /\ UNCHANGED <<wq_lst, th_stat, pendsv, handlerVars>>
    <3> HIDE DEF c, mwq
    <3> QED BY <2>1, <2>3, <2>4, TakenEffect
  <2>5. CASE LockWait(t, mwq, c)
    <3>1. /\ LockBusy(t, mwq) /\ wq_lst' = wait(Put(t, mwq, 0), t)
          /\ SetStat(t, Stat(mwq, 0)) /\ call' = [call EXCEPT ![t] = c]
          /\ pendsv' = TRUE /\ UNCHANGED <<handlerVars, lock>>
      BY <2>5 DEF LockWait, Blocked, Put, mutexVars
    <3> HIDE DEF c, mwq
    <3> QED BY <2>1, <2>2, <2>3, <3>1, LockWaitEffect
  <2> QED BY <1>2, <2>4, <2>5 DEF CondRelock, mutexVars
<1> QED BY <1>1, <1>2 DEF MutexReturn

(* Steps and stuttering steps keep the types. *)
LEMMA NextKeepsType ==
  ASSUME TypeOK, [Next]_vars
  PROVE  TypeOK'
<1>1. CASE UNCHANGED vars
  BY <1>1, RefuseType DEF vars
<1> QED BY <1>1, NextType

(* Every step is one of the core or has an effect on a mutex. *)
LEMMA NextEffect ==
  ASSUME TypeOK, Next
  PROVE  (CoreStep /\ UNCHANGED lock) \/ MutexEffect
BY MutexStepEffect, CondStepEffect, ReturnEffect DEF Next, mutexVars

--------------------------------------------------------------------------------
(* Every effect keeps the scheduler due when it has to be, *)
LEMMA EffectKeepsPriority ==
  ASSUME TypeOK, PriorityInv, MutexEffect
  PROVE  PriorityInv'
<1>1. ASSUME NEW t \in Thread, Stays(t)
      PROVE  PriorityInv'
  BY <1>1, QuietKeepsPriority DEF Stays, handlerVars
<1>2. ASSUME NEW t \in Thread, NEW m \in Mutex, NEW b, NEW r,
             Blocks(t, m, b, r) \/ \E c \in Cond : Releases(t, m, c, b, r)
      PROVE  PriorityInv'
  BY <1>2, QuietKeepsPriority DEF Blocks, Releases, handlerVars
<1>3. ASSUME NEW w, NEW ths, Wakeup(w, ths)
      PROVE  PriorityInv'
  BY <1>3, WakeupKeepsPriority DEF Wakeup, handlerVars, TypeOK
<1> QED BY <1>1, <1>2, <1>3 DEF MutexEffect, Signals, Unlocks

(***************************************************************************)
(* Thread code only executes in the first thread of the ready queue, with  *)
(* time sharing or without it: every hand-over, signal and broadcast       *)
(* requests the scheduler (thinkos_mutex.c, thinkos_cond.c).               *)
(***************************************************************************)
THEOREM MutexPriority == Spec => []HighestReadyRuns
<1> DEFINE I == TypeOK /\ PriorityInv
<1>1. Init => I
  BY InitType, PriorityInvLemma DEF Init
<1>2. I /\ [Next]_vars => I'
  <2>1. CASE Next
    BY <2>1, NextKeepsType, NextEffect, CoreStepKeepsPriority, EffectKeepsPriority DEF TypeOK
  <2>2. CASE UNCHANGED vars
    BY <2>2, NextKeepsType, QuietKeepsPriority DEF vars, coreVars
  <2> QED BY <2>1, <2>2
<1>3. I => HighestReadyRuns
  BY PriorityInvLemma
<1> QED BY <1>1, <1>2, <1>3, PTL DEF Spec

(* and runs while the clock interrupt does not. *)
LEMMA EffectTick ==
  ASSUME MutexEffect
  PROVE  tick.pc = "none" /\ UNCHANGED tick
BY DEF MutexEffect, Stays, Blocks, Signals, Unlocks, Releases, Running, Wakeup, handlerVars

(***************************************************************************)
(* A clock interrupt leaves no expired lock call or condition wait behind, *)
(* in any configuration (cm3_systick_isr, thinkos_mutex_timedlock_svc,     *)
(* thinkos_cond_timedwait_svc).                                            *)
(***************************************************************************)
THEOREM MutexTimeouts == Spec => NoMissedTimeout
<1> DEFINE I == TypeOK /\ TimeoutInv
           A == tick.pc # "none" /\ tick'.pc = "none" =>
                  \A t \in wq_lst'[WQ_CLOCK] : TicksLeft(t)' > 0
<1>1. Init => I
  BY InitType DEF Init, CoreInit, NoTick, TimeoutInv
<1>2. I /\ [Next]_vars => I' /\ [A]_coreVars
  <2>1. SUFFICES ASSUME I, [Next]_vars PROVE I' /\ [A]_coreVars
    OBVIOUS
  <2>2. TypeOK'
    BY <2>1, NextKeepsType
  <2>3. CASE SysTick
    BY <2>1, <2>2, <2>3, SysTickKeepsTimeout, SysTickExitTimeout DEF TypeOK
  <2>4. CASE tick.pc = "none" /\ UNCHANGED tick
    BY <2>2, <2>4, ThreadKeepsTimeout
  <2>5. CASE UNCHANGED vars
    <3>1. TimeoutInv' /\ UNCHANGED coreVars
      BY <2>1, <2>5, QuietKeepsTimeout DEF vars, coreVars
    <3> QED BY <2>2, <3>1
  <2> QED BY <2>1, <2>3, <2>4, <2>5, NextEffect, CoreStepTick, EffectTick
<1> QED BY <1>1, <1>2, PTL DEF Spec, NoMissedTimeout

--------------------------------------------------------------------------------
(* What Put does to the clock queue. *)
LEMMA PutClock ==
  ASSUME CoreTypeOK, NEW t \in Thread, NEW w \in ObjectWQ, NEW b
  PROVE  Put(t, w, b)[WQ_CLOCK] \subseteq wq_lst[WQ_CLOCK] \cup {t}
<1>1. w \in WQ /\ w # WQ_CLOCK /\ WQ_CLOCK \in WQ
  BY ObjectLayout, LayoutLemma
<1> DEFINE q == wq_insert(wq_lst, w, t)
<1>2. q[WQ_CLOCK] = wq_lst[WQ_CLOCK] /\ DOMAIN q = WQ /\ q = [v \in WQ |-> q[v]]
  BY <1>1 DEF wq_insert, CoreTypeOK, QueuesOK
<1> HIDE DEF q
<1>3. wq_insert(q, WQ_CLOCK, t)[WQ_CLOCK] = wq_lst[WQ_CLOCK] \cup {t}
  BY <1>1, <1>2 DEF wq_insert
<1> QED BY <1>2, <1>3 DEF Put, tmdwq_insert, q

(* Every effect leaves nobody behind in the time-share queue. *)
LEMMA EffectKeepsIdle ==
  ASSUME StatusByteFits, TypeOK, ClockStatus, IdleMeansNobodyWaits, MutexEffect
  PROVE  ClockStatus' /\ IdleMeansNobodyWaits'
<1>0. tick.pc = "none" /\ UNCHANGED tick /\ CoreTypeOK /\ wq_lst[WQ_CLOCK] \subseteq Thread
  BY EffectTick, LayoutLemma DEF TypeOK, CoreTypeOK, QueuesOK
<1>1. ASSUME NEW t \in Thread, Stays(t)
      PROVE  ClockStatus' /\ IdleMeansNobodyWaits'
  BY <1>1, <1>0, CallKeepsClockStatus DEF Stays, IdleMeansNobodyWaits
<1>2. ASSUME NEW w \in ObjectWQ, NEW ths, ths \subseteq Thread, Wakeup(w, ths)
      PROVE  ClockStatus' /\ IdleMeansNobodyWaits'
  <2>1. IdleMeansNobodyWaits' /\ wq_lst'[WQ_CLOCK] = wq_lst[WQ_CLOCK] \ ths
    BY <1>0, <1>2, WakeupIdle DEF Wakeup
  <2>2. \A u \in Thread : th_stat'[u] = IF u \in ths THEN 0 ELSE th_stat[u]
    BY <1>2 DEF Wakeup
  <2> QED BY <1>0, <2>1, <2>2, CallKeepsClockStatus
<1>3. ASSUME NEW t \in Thread, NEW m \in Mutex, NEW b \in {0, 1}, NEW r, Blocks(t, m, b, r)
      PROVE  ClockStatus' /\ IdleMeansNobodyWaits'
  <2> DEFINE w == MutexQueue(m)
             q == Put(t, w, b)
  <2>1. w \in ObjectWQ /\ w \in WQ /\ w # WQ_READY
    BY ObjectQueues
  <2>2. wq_lst' = wait(q, t) /\ th_stat' = [th_stat EXCEPT ![t] = Stat(w, b)]
    BY <1>3 DEF Blocks, SetStat
  <2>3. QueuesOK(q) /\ q[WQ_CLOCK] \subseteq wq_lst[WQ_CLOCK] \cup {t}
    BY <1>0, <2>1, PutType, PutClock
  <2>4. StatWQ(Stat(w, b)) # WQ_READY
    BY <2>1, FitStat
  <2> HIDE DEF q, w
  <2>5. IdleMeansNobodyWaits' /\ wq_lst'[WQ_CLOCK] \subseteq wq_lst[WQ_CLOCK] \cup {t}
    BY <2>2, <2>3, WaitIdle
  <2>6. \A u \in Thread : th_stat'[u] = IF u = t THEN Stat(w, b) ELSE th_stat[u]
    BY <2>2, <1>0 DEF CoreTypeOK
  <2> QED BY <1>0, <2>4, <2>5, <2>6, CallKeepsClockStatus
<1>4. ASSUME NEW t \in Thread, NEW m \in Mutex, NEW c \in Cond, NEW b \in {0, 1}, NEW r,
             Releases(t, m, c, b, r)
      PROVE  ClockStatus' /\ IdleMeansNobodyWaits'
  <2> DEFINE w   == CondQueue(c)
             p   == Put(t, w, b)
             ths == Woken(MutexQueue(m))
             q   == wakeup(p, MutexQueue(m), ths)
  <2>1. w \in ObjectWQ /\ w \in WQ /\ w # WQ_READY /\ MutexQueue(m) \in WQ
        /\ ths \subseteq Thread
    BY <1>0, ObjectQueues, WokenLemma
  <2>2. /\ wq_lst' = wait(q, t)
        /\ th_stat' = [u \in Thread |-> IF u \in ths THEN 0
                                        ELSE IF u = t THEN Stat(w, b) ELSE th_stat[u]]
    BY <1>4 DEF Releases
  <2>3. QueuesOK(p) /\ p[WQ_CLOCK] \subseteq wq_lst[WQ_CLOCK] \cup {t}
    BY <1>0, <2>1, PutType, PutClock
  <2>4. StatWQ(Stat(w, b)) # WQ_READY
    BY <2>1, FitStat
  <2> HIDE DEF p, w, ths
  <2>5. QueuesOK(q) /\ q[WQ_CLOCK] = p[WQ_CLOCK] \ ths
    BY <2>1, <2>3, WakeupType, LayoutLemma DEF wakeup
  <2> HIDE DEF q
  <2>6. /\ IdleMeansNobodyWaits'
        /\ wq_lst'[WQ_CLOCK] \subseteq (wq_lst[WQ_CLOCK] \cup {t}) \ ths
    BY <2>2, <2>3, <2>5, WaitIdle
  <2> QED BY <1>0, <2>2, <2>4, <2>6, CallKeepsClockStatus
<1>5. ASSUME NEW t \in Thread, NEW m \in Mutex, Unlocks(t, m)
      PROVE  ClockStatus' /\ IdleMeansNobodyWaits'
  BY <1>0, <1>2, <1>5, ObjectQueues, WokenLemma DEF Unlocks
<1>6. ASSUME NEW t \in Thread, NEW c \in Cond, NEW ths \in SUBSET Thread, Signals(t, c, ths)
      PROVE  ClockStatus' /\ IdleMeansNobodyWaits'
  BY <1>2, <1>6, ObjectQueues DEF Signals
<1> QED BY <1>1, <1>3, <1>4, <1>5, <1>6 DEF MutexEffect

(***************************************************************************)
(* Nobody waits for a time-share turn while the CPU is idle, also when     *)
(* threads block on mutexes and conditions: __thinkos_wait collects the    *)
(* time-share threads with the thread that leaves, and the clock interrupt *)
(* never takes a thread out of the ready queue. With queue indices that    *)
(* fit the status byte (thinkos_mutex.c, thinkos_cond.c).                  *)
(***************************************************************************)
THEOREM MutexTimeshareTurns ==
  ASSUME StatusByteFits
  PROVE  Spec => []IdleMeansNobodyWaits
<1> DEFINE I == TypeOK /\ ClockStatus /\ IdleMeansNobodyWaits
<1>1. Init => I
  BY InitType, InitIdle DEF Init
<1>2. I /\ [Next]_vars => I'
  <2>1. CASE Next
    BY <2>1, NextKeepsType, NextEffect, CoreStepKeepsIdle, EffectKeepsIdle DEF TypeOK
  <2>2. CASE UNCHANGED vars
    BY <2>2, NextKeepsType DEF vars, coreVars, ClockStatus, IdleMeansNobodyWaits
  <2> QED BY <2>1, <2>2
<1> QED BY <1>1, <1>2, PTL DEF Spec

--------------------------------------------------------------------------------
(***************************************************************************)
(* Whoever waits for an object is in a lock call or in a condition wait,   *)
(* and does not own the mutex of that call.                                *)
(***************************************************************************)
WaitsAsStranger(u) ==
  /\ call[u].op \in LockOps \cup CondWaitOps
  /\ lock[call[u].mwq - MUTEX_BASE] # u

StrangerInv ==
  \A u \in Thread : (\E w \in ObjectWQ : u \in wq_lst[w]) => WaitsAsStranger(u)

(* Outside SysTick, a thread is in the queue of one object at most. *)
LEMMA OneObject ==
  ASSUME CoreInv, tick.pc = "none", NEW u \in Thread,
         NEW v \in ObjectWQ, u \in wq_lst[v], NEW w \in ObjectWQ, u \in wq_lst[w]
  PROVE  v = w
BY ObjectLayout DEF CoreInv, StatusInv, Consistent

(* A thread that keeps its call and gets no lock stays a stranger. *)
LEMMA StaysStranger ==
  ASSUME TypeOK, StrangerInv, NEW u \in Thread, NEW w \in ObjectWQ, u \in wq_lst[w],
         call'[u] = call[u],
         \A m \in Mutex : lock'[m] = u => lock[m] = u
  PROVE  WaitsAsStranger(u)'
BY DEF TypeOK, StrangerInv, WaitsAsStranger

(* The queues after a condition wait, seen by the waiting threads. *)
LEMMA ReleaseQueues ==
  ASSUME Configuration, TypeOK, CoreInv, NEW t \in Thread, NEW m \in Mutex, NEW c \in Cond,
         NEW b \in {0, 1}, NEW r, Releases(t, m, c, b, r)
  PROVE  \A v \in ObjectWQ, u \in Thread \ {t} :
           u \in wq_lst'[v] => u \in wq_lst[v] /\ u \notin Woken(MutexQueue(m))
<1>1. SUFFICES ASSUME NEW v \in ObjectWQ, NEW u \in Thread \ {t}, u \in wq_lst'[v]
               PROVE  u \in wq_lst[v] /\ u \notin Woken(MutexQueue(m))
  OBVIOUS
<1> DEFINE ths == Woken(MutexQueue(m))
<1>2. ths \subseteq wq_lst[MutexQueue(m)]
  BY ObjectQueues, WokenLemma DEF TypeOK
<1>3. v \in WQ /\ v # WQ_READY
  BY ObjectLayout
<1> HIDE DEF ths
<1>4. wq_lst' = wait(wakeup(Put(t, CondQueue(c), b), MutexQueue(m), ths), t)
  BY DEF Releases, ths
<1>5. u \in wq_lst'[v] <=> IF u \in ths THEN v = WQ_READY ELSE u \in wq_lst[v]
  <2>1. Running(t) /\ CoreTypeOK
    BY DEF Releases, TypeOK
  <2> QED BY <1>2, <1>3, <1>4, <2>1, ObjectQueues, ReleaseEffect DEF Put
<1> QED BY <1>1, <1>3, <1>5 DEF ths

(* Every effect keeps the waiting threads strangers. *)
LEMMA EffectKeepsStranger ==
  ASSUME Configuration, TypeOK, CoreInv, StrangerInv, MutexEffect,
         NEW u \in Thread, NEW w \in ObjectWQ, u \in wq_lst'[w]
  PROVE  WaitsAsStranger(u)'
<1>0. CoreTypeOK /\ w \in WQ /\ w # WQ_READY /\ NONE \notin Thread /\ tick.pc = "none"
  BY ObjectLayout, ThreadLemma, EffectTick DEF TypeOK
<1>1. ASSUME NEW t \in Thread, Stays(t)
      PROVE  WaitsAsStranger(u)'
  <2>1. u \in wq_lst[w] /\ u # t
    BY <1>0, <1>1, RunningLemma DEF Stays
  <2>2. call'[u] = call[u]
    BY <1>1, <2>1 DEF Stays
  <2>3. \A m \in Mutex : lock'[m] = u => lock[m] = u
    BY <1>0, <1>1, <2>1 DEF Stays
  <2> QED BY <2>1, <2>2, <2>3, StaysStranger
<1>2. ASSUME NEW t \in Thread, NEW m \in Mutex, NEW b \in {0, 1}, NEW r \in CallRecord,
             Blocks(t, m, b, r)
      PROVE  WaitsAsStranger(u)'
  <2>1. call' = [call EXCEPT ![t] = r] /\ UNCHANGED lock
    BY <1>2 DEF Blocks
  <2>2. CASE u = t
    <3>1. call'[t] = r /\ r.op \in LockOps /\ r.mwq - MUTEX_BASE = m /\ lock[m] # t
      BY <1>0, <1>2, <2>1, ObjectQueues DEF Blocks, CoreTypeOK
    <3> QED BY <2>1, <2>2, <3>1 DEF WaitsAsStranger
  <2>3. CASE u # t
    <3>1. u \in wq_lst[w]
      <4>1. \A v \in ObjectWQ :
              wq_lst'[v] = IF v = MutexQueue(m) THEN wq_lst[v] \cup {t} ELSE wq_lst[v]
        BY <1>0, <1>2, ObjectQueues, BlockQueues DEF Blocks, Put, CoreTypeOK
      <4> QED BY <2>3, <4>1
    <3> QED BY <1>0, <2>1, <2>3, <3>1, StaysStranger DEF CoreTypeOK
  <2> QED BY <2>2, <2>3
<1>3. ASSUME NEW t \in Thread, NEW c \in Cond, NEW ths \in SUBSET Thread, Signals(t, c, ths)
      PROVE  WaitsAsStranger(u)'
  <2>1. wq_lst' = wakeup(wq_lst, CondQueue(c), ths) /\ UNCHANGED <<call, lock>>
    BY <1>3 DEF Signals, Wakeup
  <2>2. u \in wq_lst[w]
    BY <2>1, WakeupQueues, ObjectQueues
  <2> QED BY <2>1, <2>2, StaysStranger
<1>4. ASSUME NEW t \in Thread, NEW m \in Mutex, Unlocks(t, m)
      PROVE  WaitsAsStranger(u)'
  <2>1. /\ wq_lst' = wakeup(wq_lst, MutexQueue(m), Woken(MutexQueue(m)))
        /\ UNCHANGED call
        /\ Woken(MutexQueue(m)) = {NextOwner(MutexQueue(m))}
        /\ lock' = [lock EXCEPT ![m] = NextOwner(MutexQueue(m))]
    BY <1>4 DEF Unlocks, Wakeup
  <2>2. u \in wq_lst[w] /\ (w = MutexQueue(m) => u \notin Woken(MutexQueue(m)))
    <3>1. MutexQueue(m) \in WQ
      BY ObjectQueues
    <3>2. wq_lst'[w] = IF w = MutexQueue(m) THEN wq_lst[w] \ Woken(MutexQueue(m))
                                            ELSE wq_lst[w]
      BY <2>1, <3>1, WakeupQueues
    <3> QED BY <3>2
  <2>3. NextOwner(MutexQueue(m)) # u
    <3>1. SUFFICES ASSUME u \in Woken(MutexQueue(m)) PROVE FALSE
      BY <2>1
    <3>2. u \in wq_lst[MutexQueue(m)]
      BY <3>1 DEF Woken
    <3> QED BY <1>0, <2>2, <3>1, <3>2, ObjectQueues, OneObject
  <2>4. \A n \in Mutex : lock'[n] = u => lock[n] = u
    BY <2>1, <2>3 DEF TypeOK
  <2> QED BY <2>1, <2>2, <2>4, StaysStranger
<1>5. ASSUME NEW t \in Thread, NEW m \in Mutex, NEW c \in Cond, NEW b \in {0, 1},
             NEW r \in CallRecord, Releases(t, m, c, b, r)
      PROVE  WaitsAsStranger(u)'
  <2>1. /\ call' = [call EXCEPT ![t] = r] /\ Running(t)
        /\ lock' = [lock EXCEPT ![m] = NextOwner(MutexQueue(m))]
        /\ r.op \in CondWaitOps /\ r.mwq = MutexQueue(m)
    BY <1>5 DEF Releases
  <2>2. /\ Woken(MutexQueue(m)) \subseteq wq_lst[MutexQueue(m)]
        /\ NextOwner(MutexQueue(m)) = NONE
             \/ Woken(MutexQueue(m)) = {NextOwner(MutexQueue(m))}
    BY <1>0, ObjectQueues, WokenLemma
  <2>3. CASE u = t
    <3>1. t \notin wq_lst[MutexQueue(m)]
      BY <1>0, <2>1, RunningLemma, ObjectQueues
    <3>2. NextOwner(MutexQueue(m)) # t
      BY <1>0, <2>2, <3>1
    <3>3. call'[t] = r /\ lock'[m] # t /\ r.mwq - MUTEX_BASE = m
      BY <1>0, <2>1, <3>2, ObjectQueues DEF TypeOK, CoreTypeOK
    <3> QED BY <2>1, <2>3, <3>3 DEF WaitsAsStranger
  <2>4. CASE u # t
    <3>1. u \in wq_lst[w] /\ u \notin Woken(MutexQueue(m))
      BY <1>5, <2>4, ReleaseQueues
    <3>2. \A n \in Mutex : lock'[n] = u => lock[n] = u
      BY <1>0, <2>1, <2>2, <3>1 DEF TypeOK
    <3>3. call'[u] = call[u]
      BY <1>0, <2>1, <2>4 DEF CoreTypeOK
    <3> QED BY <3>1, <3>2, <3>3, StaysStranger
  <2> QED BY <2>3, <2>4
<1> QED BY <1>1, <1>2, <1>3, <1>4, <1>5 DEF MutexEffect

(* A step of the core changes the call of the running thread only. *)
LEMMA CoreStepCalls ==
  ASSUME CoreTypeOK, CoreStep, NEW u \in Thread, ~Running(u)
  PROVE  call'[u] = call[u]
<1>1. ASSUME NEW t \in Thread, Running(t), NEW c, call' = [call EXCEPT ![t] = c]
      PROVE  call'[u] = call[u]
  BY <1>1 DEF CoreTypeOK
<1> QED BY <1>1
        DEF CoreStep, PendSV, SysTick, SysTickEntry, SysTickScan, SysTickUnlink,
            SysTickWakeup, SysTickExit, thinkos_sleep_svc, thinkos_alarm_svc, ClockWait,
            Calls, Blocked, thinkos_yield, CoreReturn, CallReturn

(***************************************************************************)
(* A thread blocked in a lock call or in a condition wait does not own the *)
(* mutex it is going to lock, also if that mutex is freed and allocated    *)
(* again in the meantime: no thread waits for itself. The core invariant   *)
(* is needed for a hand-over to find its new owner in no other queue       *)
(* (thinkos_mutex.c, thinkos_cond.c, cm3_systick_isr).                     *)
(***************************************************************************)
THEOREM NobodyWaitsForItself ==
  ASSUME Configuration
  PROVE  Spec => []WaiterIsNotOwner
<1>1. Init => StrangerInv
  BY ObjectLayout DEF Init, CoreInit, StrangerInv
<1>2. Inv /\ StrangerInv /\ [Next]_vars => StrangerInv'
  <2>1. SUFFICES ASSUME Inv, StrangerInv, [Next]_vars,
                        NEW u \in Thread, NEW w \in ObjectWQ, u \in wq_lst'[w]
                 PROVE  WaitsAsStranger(u)'
    BY DEF StrangerInv
  <2>2. TypeOK /\ CoreTypeOK /\ CoreInv
    BY <2>1 DEF Inv, TypeOK
  <2>3. CASE CoreStep /\ UNCHANGED lock
    <3>1. u \in wq_lst[w]
      BY <2>1, <2>2, <2>3, CoreStepQueues
    <3>2. ~Running(u)
      BY <2>2, <3>1, RunningLemma, ObjectLayout
    <3>3. call'[u] = call[u]
      BY <2>2, <2>3, <3>2, CoreStepCalls
    <3> QED BY <2>1, <2>2, <2>3, <3>1, <3>3, StaysStranger
  <2>4. CASE MutexEffect
    BY <2>1, <2>2, <2>4, EffectKeepsStranger
  <2>5. CASE UNCHANGED vars
    BY <2>1, <2>2, <2>5, StaysStranger DEF vars, coreVars, mutexVars
  <2> QED BY <2>1, <2>2, <2>3, <2>4, <2>5, NextEffect
<1>3. StrangerInv => WaiterIsNotOwner
  BY DEF StrangerInv, WaitsAsStranger, WaiterIsNotOwner, Owner
<1> QED BY <1>1, <1>2, <1>3, InvAlways, PTL DEF Spec

================================================================================
