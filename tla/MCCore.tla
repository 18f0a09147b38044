--------------------------------- MODULE MCCore ---------------------------------
(* Model-checking instances of ThinkOSCore. *)
EXTENDS ThinkOSCore

(* No time sharing: every thread has schedule priority 0. *)
NoPriority == [t \in 0 .. THREADS_MAX - 1 |-> 0]

(* Time sharing between all threads but the most urgent one. *)
LowPriority == [t \in 0 .. THREADS_MAX - 1 |-> IF t = 0 THEN 0 ELSE 1]

(* Time sharing between all threads. *)
SamePriority == [t \in 0 .. THREADS_MAX - 1 |-> 1]
================================================================================
