------------------------------- MODULE MCThread --------------------------------
(* Model-checking instance of ThinkOSThread. *)
EXTENDS ThinkOSThread

(* No time sharing: every thread has schedule priority 0. *)
NoPriority == [t \in 0 .. THREADS_MAX - 1 |-> 0]

(* The codes of a slot; threads that use slot 1 in turn may differ. *)
Codes == [t \in 0 .. THREADS_MAX - 1 |-> IF t = 1 THEN {1, 2} ELSE {0}]

(* Thread 2 waits for interrupt 0; it also names one there is not. *)
OneIrqWaiter == {<<2, 0>>, <<2, 1>>}
================================================================================
