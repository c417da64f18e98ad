------------------------------ MODULE JobLedger ------------------------------
(***************************************************************************)
(* What the queue of bulk operations promises to whoever created a job,    *)
(* without workers, attempts, backoff, leases, crashes or connections: a   *)
(* job that was accepted is never lost or given other targets; only its    *)
(* own targets are tried; outcomes are only added, and none once its       *)
(* cancellation was asked; and it ends once, withdrawn before anything was *)
(* tried, cancelled because that was asked, or done with an outcome for    *)
(* every target.                                                           *)
(***************************************************************************)
CONSTANTS Jobs, Targets

VARIABLES
  state,    \* per job: "absent", "waiting", "begun", "done" or "cancelled"
  targets,  \* per job: what it is for
  asked,    \* jobs whose cancellation was asked while they were begun
  tried,    \* per job: targets that were tried
  told      \* per job: targets that have an outcome

vars == <<state, targets, asked, tried, told>>

Init ==
  /\ state = [j \in Jobs |-> "absent"]
  /\ targets = [j \in Jobs |-> {}]
  /\ asked = {}
  /\ tried = [j \in Jobs |-> {}]
  /\ told = [j \in Jobs |-> {}]

Accept(j) ==
  /\ state[j] = "absent"
  /\ state' = [state EXCEPT ![j] = "waiting"]
  /\ \E T \in SUBSET Targets \ {{}} : targets' = [targets EXCEPT ![j] = T]
  /\ UNCHANGED <<asked, tried, told>>

Withdraw(j) ==
  /\ state[j] = "waiting"
  /\ state' = [state EXCEPT ![j] = "cancelled"]
  /\ UNCHANGED <<targets, asked, tried, told>>

Begin(j) ==
  /\ state[j] = "waiting"
  /\ state' = [state EXCEPT ![j] = "begun"]
  /\ UNCHANGED <<targets, asked, tried, told>>

Ask(j) ==
  /\ state[j] = "begun"
  /\ asked' = asked \cup {j}
  /\ UNCHANGED <<state, targets, tried, told>>

Try(j, t) ==
  /\ state[j] = "begun"
  /\ t \in targets[j]
  /\ tried' = [tried EXCEPT ![j] = @ \cup {t}]
  /\ UNCHANGED <<state, targets, asked, told>>

Tell(j, t) ==
  /\ state[j] = "begun" /\ j \notin asked
  /\ t \in targets[j]
  /\ told' = [told EXCEPT ![j] = @ \cup {t}]
  /\ UNCHANGED <<state, targets, asked, tried>>

End(j) ==
  /\ state[j] = "begun"
  /\ \/ j \in asked /\ state' = [state EXCEPT ![j] = "cancelled"]
     \/ /\ j \notin asked /\ targets[j] \subseteq told[j]
        /\ state' = [state EXCEPT ![j] = "done"]
  /\ UNCHANGED <<targets, asked, tried, told>>

Next ==
  \E j \in Jobs :
    \/ Accept(j) \/ Withdraw(j) \/ Begin(j) \/ Ask(j) \/ End(j)
    \/ \E t \in Targets : Try(j, t) \/ Tell(j, t)

Spec == Init /\ [][Next]_vars
=============================================================================
