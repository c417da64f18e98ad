---------------------------- MODULE ReadyOrNothing ----------------------------
(***************************************************************************)
(* What the setup of a connection promises, without calls, clocks,         *)
(* workers, processes or providers: it is begun once, and ends ready, with *)
(* its connection published at that moment and never again, or with        *)
(* nothing left of it.  What it is known to have made or claimed outside   *)
(* is kept on record until it has been cleared away.                       *)
(***************************************************************************)
CONSTANT Setups

VARIABLES
  phase,     \* per setup: "none", "open", "ready", "closing" or "closed"
  kept,      \* setups on record to hold something outside
  published  \* setups whose connection is in the inventory

vars == <<phase, kept, published>>

Init ==
  /\ phase = [s \in Setups |-> "none"]
  /\ kept = {}
  /\ published = {}

Open(s) ==
  /\ phase[s] = "none"
  /\ phase' = [phase EXCEPT ![s] = "open"]
  /\ UNCHANGED <<kept, published>>

\* Something is made or claimed for the setup.
Keep(s) ==
  /\ phase[s] = "open"
  /\ kept' = kept \cup {s}
  /\ UNCHANGED <<phase, published>>

\* What is ready holds what its connection stands for.
Publish(s) ==
  /\ phase[s] = "open"
  /\ phase' = [phase EXCEPT ![s] = "ready"]
  /\ kept' = kept \cup {s}
  /\ published' = published \cup {s}

\* An operator deletes the connection.
Withdraw(s) ==
  /\ s \in published
  /\ published' = published \ {s}
  /\ UNCHANGED <<phase, kept>>

\* Given up, for good at once only if nothing is on record.
GiveUp(s) ==
  /\ phase[s] = "open"
  /\ \E outcome \in {"closing"} \cup (IF s \in kept THEN {} ELSE {"closed"}) :
       phase' = [phase EXCEPT ![s] = outcome]
  /\ UNCHANGED <<kept, published>>

\* What was on record is cleared away.
Clear(s) ==
  /\ phase[s] = "closing"
  /\ s \in kept
  /\ phase' = [phase EXCEPT ![s] = "closed"]
  /\ kept' = kept \ {s}
  /\ UNCHANGED published

Next ==
  \E s \in Setups :
    Open(s) \/ Keep(s) \/ Publish(s) \/ Withdraw(s) \/ GiveUp(s) \/ Clear(s)

Spec == Init /\ [][Next]_vars
=============================================================================
