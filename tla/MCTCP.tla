--------------------------------- MODULE MCTCP ---------------------------------
(* Model-checking instance of TCP. *)
EXTENDS TCP

(* One side sends: the client two blocks, or the server more than fit its queue. *)
OneSided ==
  {[h \in Host |-> IF h = "client" THEN 2 ELSE 0],
   [h \in Host |-> IF h = "client" THEN 0 ELSE 3]}

(* Or both send, the server more than fit its queue, *)
BothSend == OneSided \cup {[h \in Host |-> IF h = "client" THEN 2 ELSE 3]}

(* and then neither reads and no fault but a loss happens (a bound on the instance). *)
BothSendBound ==
  (\A h \in Host : app[h].sends > 0) =>
    faults = 0 /\ \A h \in Host : app[h].got = <<>>
================================================================================
