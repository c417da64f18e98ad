------------------------------ MODULE SendLedger ------------------------------
(***************************************************************************)
(* What the sending of messages promises, without stores, processes or     *)
(* webhooks: a call is sent once; a request is not sent while there is a   *)
(* record of another with its key; a caller is told once, and that the     *)
(* message was accepted only if the provider took one with its key; a      *)
(* resend holds its message alone, is sent only if the provider gave the   *)
(* message up and nobody is known to have sent it again, and is recorded   *)
(* as completed only if the provider took it.  Records may be lost.        *)
(***************************************************************************)
CONSTANTS Requests, Directs, Resends, KeyOf

VARIABLES
  message,   \* what became of each call's: "unsent", "sent", "taken" or "lost"
  retained,  \* calls of which there is a record
  told,      \* per request and direct send: "nothing", "accepted" or "refused"
  held,      \* resends under way, each with the message it is for
  closed     \* messages recorded to have been sent again

vars == <<message, retained, told, held, closed>>

Calls == Requests \cup Directs \cup Resends

\* The calls that are for what c is for.
Same(c) == IF c \in Requests THEN {r \in Requests : KeyOf[r] = KeyOf[c]} ELSE {c}

Init ==
  /\ message = [c \in Calls |-> "unsent"]
  /\ retained = {} /\ held = {} /\ closed = {}
  /\ told = [c \in Requests \cup Directs |-> "nothing"]

\* A new record may displace older ones.
Send(c) ==
  /\ message[c] = "unsent"
  /\ message' = [message EXCEPT ![c] = "sent"]
  /\ c \in Requests => told[c] = "nothing" /\ Same(c) \cap retained = {}
  /\ c \in Resends => \E m \in Calls \ closed : <<c, m>> \in held /\ message[m] = "lost"
  /\ c \in retained' /\ retained' \subseteq retained \cup {c}
  /\ UNCHANGED <<told, held, closed>>

\* The provider takes a message, and may give it up.
Progress(c) ==
  /\ \/ message[c] = "sent" /\ message' = [message EXCEPT ![c] = "taken"]
     \/ message[c] = "taken" /\ message' = [message EXCEPT ![c] = "lost"]
  /\ UNCHANGED <<retained, told, held, closed>>

Tell(c) ==
  /\ told[c] = "nothing"
  /\ \/ told' = [told EXCEPT ![c] = "refused"]
     \/ /\ \E r \in Same(c) : message[r] \in {"taken", "lost"}
        /\ told' = [told EXCEPT ![c] = "accepted"]
  /\ UNCHANGED <<message, retained, held, closed>>

Hold(x, m) ==
  /\ message[x] = "unsent" /\ m \notin closed
  /\ \A pair \in held : pair[1] # x /\ pair[2] # m
  /\ held' = held \cup {<<x, m>>}
  /\ UNCHANGED <<message, retained, told, closed>>

Release(pair) ==
  /\ held' = held \ {pair}
  /\ \/ UNCHANGED closed
     \/ message[pair[1]] \in {"taken", "lost"} /\ closed' = closed \cup {pair[2]}
  /\ UNCHANGED <<message, retained, told>>

\* A process dies, or a file cannot be read.
Lose ==
  /\ retained' \subseteq retained /\ held' \subseteq held /\ closed' \subseteq closed
  /\ UNCHANGED <<message, told>>

Next ==
  \/ Lose
  \/ \E c \in Calls : Send(c) \/ Progress(c)
  \/ \E c \in Requests \cup Directs : Tell(c)
  \/ \E x \in Resends, m \in Calls : Hold(x, m)
  \/ \E pair \in held : Release(pair)

Spec == Init /\ [][Next]_vars
=============================================================================
