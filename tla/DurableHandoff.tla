--------------------------- MODULE DurableHandoff ---------------------------
(***************************************************************************)
(* What the outbox promises, without statuses, leases, workers or time: an *)
(* event acknowledged to the provider is held until the receiver has       *)
(* processed it, and only then may the gateway forget it.  An event may be *)
(* processed more than once; only acknowledged events are.                 *)
(***************************************************************************)
CONSTANT Events

VARIABLES
  promised,  \* events acknowledged to the provider
  held,      \* events the gateway still has
  done       \* events the receiver has processed

vars == <<promised, held, done>>

Init ==
  /\ promised = {}
  /\ held = {}
  /\ done = {}

\* Acknowledge e and keep it; what the receiver has processed may be dropped
\* on the same occasion.
Accept(e) ==
  /\ promised' = promised \cup {e}
  /\ \E S \in SUBSET (held \cap done) : held' = (held \ S) \cup {e}
  /\ UNCHANGED done

\* The receiver processes an event it was promised.
Process(e) ==
  /\ e \in promised
  /\ done' = done \cup {e}
  /\ UNCHANGED <<promised, held>>

Next == \E e \in Events : Accept(e) \/ Process(e)

Spec == Init /\ [][Next]_vars
=============================================================================
