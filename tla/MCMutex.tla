-------------------------------- MODULE MCMutex --------------------------------
(* Model-checking instance of ThinkOSMutex. *)
EXTENDS ThinkOSMutex

(* No time sharing: every thread has schedule priority 0. *)
NoPriority == [t \in 0 .. THREADS_MAX - 1 |-> 0]

(* Time sharing between all threads. *)
SamePriority == [t \in 0 .. THREADS_MAX - 1 |-> 1]
================================================================================
