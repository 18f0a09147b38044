-------------------------------- MODULE MCFlag ---------------------------------
(* Model-checking instance of ThinkOSFlag. *)
EXTENDS ThinkOSFlag

(* No time sharing: every thread has schedule priority 0. *)
NoPriority == [t \in 0 .. THREADS_MAX - 1 |-> 0]
================================================================================
