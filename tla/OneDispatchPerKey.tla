-------------------------- MODULE OneDispatchPerKey --------------------------
(***************************************************************************)
(* What the Idempotency-Key of a manual delivery promises, without         *)
(* requests, routes, processes or evidence: while a key is kept it is      *)
(* dispatched once, the endpoint is posted to only while that dispatch is  *)
(* under way, and its outcome is told once, as completed only if the       *)
(* endpoint took it.  A dispatch whose process dies is never told of, and  *)
(* one that cannot be noted as running is never made.  The keys are kept   *)
(* in a bounded store that may be lost: one that is forgotten is new.      *)
(***************************************************************************)
CONSTANT Keys

VARIABLES
  status,   \* what a request with each key is told
  reached   \* keys whose delivery the endpoint has taken

vars == <<status, reached>>

Init ==
  /\ status = [k \in Keys |-> "none"]
  /\ reached = {}

\* Some keys are forgotten, their outcomes with them.
Without(forgotten, s) == [k \in Keys |-> IF k \in forgotten THEN "none" ELSE s[k]]

Dispatch(k, forgotten) ==
  /\ status[k] = "none" /\ k \notin forgotten
  /\ \E s \in {"running", "pending"} : status' = Without(forgotten, [status EXCEPT ![k] = s])
  /\ reached' = reached \ forgotten

Forget(forgotten) ==
  /\ status' = Without(forgotten, status)
  /\ reached' = reached \ forgotten

\* The endpoint takes a post, whether or not its answer arrives.
Reach(k) ==
  /\ status[k] = "running"
  /\ reached' = reached \cup {k}
  /\ UNCHANGED status

\* The last answer, or the lack of one, ends the dispatch.
Conclude(k) ==
  /\ status[k] = "running"
  /\ \E outcome \in {"failed"} \cup (IF k \in reached THEN {"completed"} ELSE {}) :
       status' = [status EXCEPT ![k] = outcome]
  /\ UNCHANGED reached

Next ==
  \/ \E k \in Keys : Reach(k) \/ Conclude(k)
  \/ \E forgotten \in SUBSET Keys : Forget(forgotten) \/ \E k \in Keys : Dispatch(k, forgotten)

Spec == Init /\ [][Next]_vars
=============================================================================
