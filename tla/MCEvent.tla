-------------------------------- MODULE MCEvent --------------------------------
(* Model-checking instance of ThinkOSEvent. *)
EXTENDS ThinkOSEvent

(* No time sharing: every thread has schedule priority 0. *)
NoPriority == [t \in 0 .. THREADS_MAX - 1 |-> 0]
================================================================================
