------------------------------ MODULE ThinkOSEvent ------------------------------
(***************************************************************************)
(* Event sets: thinkos_event.c, and __thinkos_ev_raise() of thinkos_irq.h, *)
(* with which an interrupt handler raises an event without a service call. *)
(* A set has a bitmap of pending events and a bitmap of the events that    *)
(* may wake up a waiter.                                                   *)
(***************************************************************************)
EXTENDS ThinkOSCore

CONSTANTS
  EVENT_BITS,      (* events of a set: 32 in the code                       *)
  IRQ_EVENT_SETS   (* sets an interrupt handler raises events of            *)

VARIABLES
  ev_pend,         (* [EventSet -> pending events]                          *)
  ev_mask,         (* [EventSet -> events that are not masked]              *)
  ev_alloc         (* allocated event sets                                  *)

eventVars == <<ev_pend, ev_mask, ev_alloc>>

vars == <<coreVars, eventVars>>

EventSet == 0 .. EVENT_MAX - 1
Event    == 0 .. EVENT_BITS - 1

ASSUME EventAssumption == EVENT_BITS \in Nat \ {0} /\ IRQ_EVENT_SETS \subseteq EventSet

(* Object and event numbers a caller may pass: one past the last included. *)
EventSetArg == EVENT_BASE .. EVENT_BASE + EVENT_MAX
EventArg    == 0 .. EVENT_BITS

(* The argument check: in range and allocated. *)
IsEventSet(wq) == wq - EVENT_BASE \in ev_alloc

EventRefuse(t, ret) == Refuse(t, ret) /\ UNCHANGED eventVars

--------------------------------------------------------------------------------
(* Faulty variant: the failure of the allocation is not looked at. *)
thinkos_ev_alloc_svc_unchecked(t) ==
  /\ Calls(t)
  /\ ev_alloc' = ev_alloc \cup {bmp_alloc(EventSet, ev_alloc)}
  /\ UNCHANGED <<coreVars, ev_pend, ev_mask>>

(* Every event is unmasked and none is pending, whoever waits already. *)
thinkos_ev_alloc_svc(t) ==
  LET idx == bmp_alloc(EventSet, ev_alloc)
  IN  /\ Calls(t)
      /\ IF idx = NONE
         THEN EventRefuse(t, NONE)
         ELSE /\ ev_alloc' = ev_alloc \cup {idx}
              /\ ev_mask' = [ev_mask EXCEPT ![idx] = Event]
              /\ ev_pend' = [ev_pend EXCEPT ![idx] = {}]
              /\ UNCHANGED coreVars

(* No check that nobody waits. *)
thinkos_ev_free_svc(t, wq) ==
  /\ Calls(t)
  /\ IF wq - EVENT_BASE \notin EventSet
     THEN EventRefuse(t, EINVAL)
     ELSE /\ ev_alloc' = ev_alloc \ {wq - EVENT_BASE}
          /\ UNCHANGED <<coreVars, ev_pend, ev_mask>>

(* The pending events a waiter may be told of. *)
Deliverable(no) == ev_pend[no] \cap ev_mask[no]

(* An event is there: the lowest one ends the call. *)
EventTaken(wq) ==
  LET no == wq - EVENT_BASE
  IN  /\ IsEventSet(wq)
      /\ Deliverable(no) # {}
      /\ ev_pend' = [ev_pend EXCEPT ![no] = @ \ {Min(Deliverable(no))}]
      /\ UNCHANGED <<coreVars, ev_mask, ev_alloc>>

NothingPending(wq) == IsEventSet(wq) /\ Deliverable(wq - EVENT_BASE) = {}

(* The provisional result is the argument register, the set's number. *)
thinkos_ev_wait_svc(t, wq) ==
  /\ Calls(t)
  /\ \/ ~IsEventSet(wq) /\ EventRefuse(t, EINVAL)
     \/ EventTaken(wq)
     \/ /\ NothingPending(wq)
        /\ wq_lst' = wait_unless_empty(wq_insert(wq_lst, wq, t), t)
        /\ SetStat(t, Stat(wq, 0))
        /\ Blocked(t, Call("ev_wait", wq, 0), wq)
        /\ UNCHANGED <<clock, handlerVars, eventVars>>

thinkos_ev_timedwait_svc(t, wq, ms) ==
  /\ Calls(t)
  /\ \/ ~IsEventSet(wq) /\ EventRefuse(t, EINVAL)
     \/ EventTaken(wq)
     \/ /\ NothingPending(wq)
        /\ wq_lst' = wait_unless_empty(tmdwq_insert(wq_lst, wq, t), t)
        /\ SetStat(t, Stat(wq, 1))
        /\ SetClock(t, ms)
        /\ Blocked(t, Call("ev_timedwait", wq, 0), ETIMEDOUT)
        /\ UNCHANGED <<handlerVars, eventVars>>

(* The first waiter is told the event; masked or without one, it pends. *)
EventRaise(wq, ev) ==
  LET no == wq - EVENT_BASE
      th == wq_head(wq)
  IN  /\ UNCHANGED <<ev_mask, ev_alloc>>
      /\ IF ev \in ev_mask[no] /\ th # THREAD_NULL
         THEN /\ WakeupReturn(wq, [t \in {th} |-> ev])
              /\ UNCHANGED ev_pend
         ELSE /\ ev_pend' = [ev_pend EXCEPT ![no] = @ \cup {ev}]
              /\ UNCHANGED coreVars

thinkos_ev_raise_svc(t, wq, ev) ==
  /\ Calls(t)
  /\ \/ (ev \notin Event \/ ~IsEventSet(wq)) /\ EventRefuse(t, EINVAL)
     \/ ev \in Event /\ IsEventSet(wq) /\ EventRaise(wq, ev)

thinkos_ev_mask_svc(t, wq, msk) ==
  /\ Calls(t)
  /\ \/ ~IsEventSet(wq) /\ EventRefuse(t, EINVAL)
     \/ /\ IsEventSet(wq)
        /\ ev_mask' = [ev_mask EXCEPT ![wq - EVENT_BASE] = @ \ msk]
        /\ UNCHANGED <<coreVars, ev_pend, ev_alloc>>

(* Position of x in S, from 0. *)
Rank(S, x) == Cardinality({y \in S : y < x})

(* Faulty variant: only the first waiter is woken up. *)
Matches_first(pending, waiters) ==
  {m \in pending \X waiters : m[1] = Min(pending) /\ m[2] = Min(waiters)}

(***************************************************************************)
(* The loop that gives the lowest event to the lowest waiter until one of  *)
(* them runs out pairs them by rank.                                       *)
(***************************************************************************)
Matches(pending, waiters) ==
  {m \in pending \X waiters : Rank(pending, m[1]) = Rank(waiters, m[2])}

(* Faulty variant: the pending events are given without the scheduler. *)
UnmaskWakeup_no_sched(wq, told) ==
  /\ wq_lst' = wakeup(wq_lst, wq, DOMAIN told)
  /\ th_stat' = [th \in Thread |-> IF th \in DOMAIN told THEN 0 ELSE th_stat[th]]
  /\ r0' = [th \in Thread |-> IF th \in DOMAIN told THEN told[th] ELSE r0[th]]
  /\ UNCHANGED <<pendsv, clock, call, handlerVars>>

(* The scheduler is requested with the first of them. *)
UnmaskWakeup(wq, told) == WakeupReturn(wq, told)

thinkos_ev_unmask_svc(t, wq, msk) ==
  LET no       == wq - EVENT_BASE
      matches  == Matches(ev_pend[no] \cap msk, wq_lst[wq])
      told     == [th \in {m[2] : m \in matches} |->
                     (CHOOSE m \in matches : m[2] = th)[1]]
  IN  /\ Calls(t)
      /\ \/ ~IsEventSet(wq) /\ EventRefuse(t, EINVAL)
         \/ /\ IsEventSet(wq)
            /\ ev_mask' = [ev_mask EXCEPT ![no] = @ \cup msk]
            /\ ev_pend' = [ev_pend EXCEPT ![no] = @ \ {m[1] : m \in matches}]
            /\ UnmaskWakeup(wq, told)
            /\ UNCHANGED ev_alloc

(* thinkos_ev_raise_i(): no argument check, at any moment. *)
thinkos_ev_raise_i(wq, ev) ==
  /\ wq - EVENT_BASE \in IRQ_EVENT_SETS \cap ev_alloc
  /\ EventRaise(wq, ev)

EventOps == {"ev_wait", "ev_timedwait"}

EventReturn(t) ==
  /\ call[t].op \in EventOps
  /\ CallReturn(t)
  /\ UNCHANGED eventVars

--------------------------------------------------------------------------------
Init ==
  /\ CoreInit
  /\ ev_pend = [s \in EventSet |-> {}]
  /\ ev_mask = [s \in EventSet |-> Event]
  /\ ev_alloc = {}

EventStep(t) ==
  \/ thinkos_ev_alloc_svc(t)
  \/ \E wq \in EventSetArg :
       \/ thinkos_ev_free_svc(t, wq)
       \/ thinkos_ev_wait_svc(t, wq)
       \/ \E ms \in TIMEOUTS : thinkos_ev_timedwait_svc(t, wq, ms)
       \/ \E ev \in EventArg : thinkos_ev_raise_svc(t, wq, ev)
       \/ \E msk \in SUBSET Event \ {{}} :
            \/ thinkos_ev_mask_svc(t, wq, msk)
            \/ thinkos_ev_unmask_svc(t, wq, msk)
  \/ EventReturn(t)

EventIrq ==
  \E s \in IRQ_EVENT_SETS, ev \in Event : thinkos_ev_raise_i(EVENT_BASE + s, ev)

Next ==
  \/ CoreStep /\ UNCHANGED eventVars
  \/ \E t \in Thread : EventStep(t)
  \/ EventIrq

Spec == Init /\ [][Next]_vars

--------------------------------------------------------------------------------
(* Every variable stays in the range its C type and use give it. *)
TypeOK ==
  /\ CoreTypeOK
  /\ ev_pend \in [EventSet -> SUBSET Event]
  /\ ev_mask \in [EventSet -> SUBSET Event]
  /\ ev_alloc \subseteq EventSet

(***************************************************************************)
(* Nobody waits on a set beside a pending event that is not masked,        *)
(* whatever the order of raises, masks, unmasks, timeouts and interrupts,  *)
(* and even if the set is freed and allocated again under the waiter       *)
(* (thinkos_ev_wait_svc, _raise_svc, _unmask_svc, __thinkos_ev_raise).     *)
(***************************************************************************)
NoEventPastWaiter ==
  \A s \in EventSet : wq_lst[EVENT_BASE + s] # {} => Deliverable(s) = {}
================================================================================
