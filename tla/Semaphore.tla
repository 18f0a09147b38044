------------------------------- MODULE Semaphore -------------------------------
(***************************************************************************)
(* What a counting semaphore with timed waits promises its callers: every  *)
(* post either adds to the value or gives its token to exactly one         *)
(* request; a request only waits while the value is zero; a request that   *)
(* is reported as timed out has not consumed a post.                       *)
(***************************************************************************)
EXTENDS Naturals

CONSTANT Thread

VARIABLES
  open,     (* the semaphore has been set up                                *)
  value,    (* tokens nobody has claimed                                    *)
  req,      (* [Thread -> state of the thread's outstanding request]        *)
  posts     (* parity of the number of posts: tells a step that posts from  *)
            (* one that does not                                            *)

vars == <<open, value, req, posts>>

Move(t, from, to) ==
  /\ req[t] = from
  /\ req' = [req EXCEPT ![t] = to]

Init ==
  /\ open = FALSE
  /\ value = 0
  /\ req = [t \in Thread |-> "none"]
  /\ posts = 0

(* The semaphore is set up with some value, once. *)
Open ==
  /\ ~open
  /\ open' = TRUE
  /\ value' \in Nat
  /\ UNCHANGED <<req, posts>>

Take(t) ==
  /\ open
  /\ req[t] = "none"
  /\ value > 0
  /\ value' = value - 1
  /\ UNCHANGED <<open, req, posts>>

Wait(t) ==
  /\ open
  /\ value = 0
  /\ Move(t, "none", "waiting")
  /\ UNCHANGED <<open, value, posts>>

(* A post keeps the token, or gives it to a request that waits. *)
Post ==
  /\ open
  /\ \A t \in Thread : req[t] # "waiting"
  /\ value' = value + 1
  /\ posts' = 1 - posts
  /\ UNCHANGED <<open, req>>

Give(t) ==
  /\ Move(t, "waiting", "got")
  /\ posts' = 1 - posts
  /\ UNCHANGED <<open, value>>

Expire(t) ==
  /\ Move(t, "waiting", "timedout")
  /\ UNCHANGED <<open, value, posts>>

Return(t) ==
  /\ Move(t, "got", "none") \/ Move(t, "timedout", "none")
  /\ UNCHANGED <<open, value, posts>>

Next ==
  \/ Open
  \/ Post
  \/ \E t \in Thread : Take(t) \/ Wait(t) \/ Give(t) \/ Expire(t) \/ Return(t)

Spec == Init /\ [][Next]_vars
================================================================================
