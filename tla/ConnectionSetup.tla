--------------------------- MODULE ConnectionSetup ---------------------------
(***************************************************************************)
(* Creating a connection: the durable setup that precedes it, its          *)
(* provisioning by an Evolution call or a Meta completion, its promotion   *)
(* to the inventory, its cancellation and expiry, and the worker that      *)
(* compensates for what was abandoned (services/connection_setups.py,      *)
(* connection_setup_cleanup.py, connection_registry.py and the routes      *)
(* that drive them).                                                       *)
(*                                                                         *)
(* The process is a single event loop: a step runs from one await to the   *)
(* next.  A setup that is active and past its expiry is expired by         *)
(* whichever request or sweep reads it first: that is Expire, and the      *)
(* other operations apply to setups that it does not concern.              *)
(*                                                                         *)
(* A definition named X_Fault, before X, is X with a bug in it: no part of *)
(* the model, it is what shows that a property can tell.                   *)
(***************************************************************************)
EXTENDS Naturals

CONSTANTS
  Setups,      \* setups that may be created
  KindOf,      \* what each connects: "evolution", "whatsapp" or "instagram"
  Calls,       \* Meta completions of one setup that may be in flight at once
  Accounts,    \* Instagram accounts that operators may authorize
  None,        \* no account
  Overtaking,  \* setups that may be closed while their Evolution call is in flight
  LostAnswers, \* an Evolution delete may be carried out and reported failed
  MaxCrashes   \* bound on process deaths

ASSUME SetupAssumption ==
  /\ KindOf \in [Setups -> {"evolution", "whatsapp", "instagram"}]
  /\ None \notin Accounts
  /\ Overtaking \subseteq Setups
  /\ LostAnswers \in BOOLEAN
  /\ MaxCrashes \in Nat

VARIABLES
  setup,       \* per setup: its stored record
  due,         \* per setup: expires_at has passed
  provision,   \* per setup: where its Evolution provisioning call is
  held,        \* per setup: the state in the record that call holds
  completing,  \* per setup: Meta completions in flight
  cleaning,    \* per setup: where its clean-up is
  final,       \* per setup: the final state that clean-up read
  inventory,   \* per setup: the connection record under its runtime name
  tombstone,   \* per setup: runtime name in deleted_legacy_names
  account,     \* per setup: Instagram account its connection is bound to
  listing,     \* runtime instances in a listing under way, or {}
  deleting,    \* per setup: the connection record an operator is deleting
  client,      \* the client that owns the setups exists
  requested,   \* per setup: a create request Evolution may still carry out
  instance,    \* per setup: its Evolution instance exists
  crashes      \* process deaths so far

calls == <<provision, held, completing, cleaning, final, listing, deleting>>
registry == <<inventory, tombstone, account, client>>
runtime == <<requested, instance>>
vars == <<setup, due, calls, registry, runtime, crashes>>

Active == {"draft", "onboarding", "provisioning"}
States == Active \cup {"none", "ready", "failed", "cancelled", "cleanup_pending", "expired"}
Record == [state : States,
           resource : {"none", "instance", "assets"},
           required : BOOLEAN,
           finalState : {"expired", "cancelled"}]

State(s) == setup[s].state
Meta(s) == KindOf[s] \in {"whatsapp", "instagram"}
Busy(s) == provision[s] # "idle"

\* Nothing closes the setup while its Evolution call is in flight: a Meta setup has none.
Steady(s) == Meta(s) \/ s \notin Overtaking

TypeOK ==
  /\ setup \in [Setups -> Record]
  /\ due \in [Setups -> BOOLEAN]
  /\ provision \in [Setups -> {"idle", "creating", "webhook", "verified"}]
  /\ held \in [Setups -> States]
  /\ completing \in [Setups -> SUBSET Calls]
  /\ cleaning \in [Setups -> {"idle", "deleting", "deleted", "absent"}]
  /\ final \in [Setups -> {"expired", "cancelled"}]
  /\ inventory \in [Setups -> {"none", "imported", "promoted"}]
  /\ tombstone \in [Setups -> BOOLEAN]
  /\ account \in [Setups -> Accounts \cup {None}]
  /\ listing \subseteq Setups
  /\ deleting \in [Setups -> {"none", "imported", "promoted"}]
  /\ client \in BOOLEAN
  /\ requested \in [Setups -> BOOLEAN]
  /\ instance \in [Setups -> BOOLEAN]
  /\ crashes \in 0 .. MaxCrashes

\* No request, no task in flight.
AtRest ==
  /\ provision = [s \in Setups |-> "idle"]
  /\ held = [s \in Setups |-> "none"]
  /\ completing = [s \in Setups |-> {}]
  /\ cleaning = [s \in Setups |-> "idle"]
  /\ final = [s \in Setups |-> "expired"]
  /\ listing = {}
  /\ deleting = [s \in Setups |-> "none"]

Init ==
  /\ setup = [s \in Setups |-> [state |-> "none", resource |-> "none",
                                required |-> FALSE, finalState |-> "expired"]]
  /\ due = [s \in Setups |-> FALSE]
  /\ AtRest
  /\ inventory = [s \in Setups |-> "none"]
  /\ tombstone = [s \in Setups |-> FALSE]
  /\ account = [s \in Setups |-> None]
  /\ client = TRUE
  /\ requested = [s \in Setups |-> FALSE]
  /\ instance = [s \in Setups |-> FALSE]
  /\ crashes = 0

-----------------------------------------------------------------------------
(* Expiry and cancellation.                                                *)

Overdue_Onboarding(s) == State(s) \in {"draft", "onboarding"} /\ due[s]
Overdue(s) == State(s) \in Active /\ due[s]

\* What is known to exist outside is never forgotten: it is left to the clean-up.
Closed_Forgetful(r, outcome) == [r EXCEPT !.state = outcome]
Closed(r, outcome) ==
  IF r.resource # "none"
    THEN [r EXCEPT !.state = "cleanup_pending", !.required = TRUE, !.finalState = outcome]
    ELSE [r EXCEPT !.state = outcome]

\* The setup's hour, at any time after its creation.
TimePasses(s) ==
  /\ State(s) # "none"
  /\ ~due[s]
  /\ due' = [due EXCEPT ![s] = TRUE]
  /\ UNCHANGED <<setup, calls, registry, runtime, crashes>>

Expire(s) ==
  /\ Overdue(s)
  /\ s \in Overtaking \/ ~Busy(s)
  /\ setup' = [setup EXCEPT ![s] = Closed(@, "expired")]
  /\ UNCHANGED <<due, calls, registry, runtime, crashes>>

\* Not while a Meta completion claims the setup.
Cancellable(s) == State(s) \in Active /\ ~(Meta(s) /\ State(s) = "provisioning")

Cancel(s) ==
  /\ ~Overdue(s)
  /\ Cancellable(s)
  /\ s \in Overtaking \/ ~Busy(s)
  /\ setup' = [setup EXCEPT ![s] = Closed(@, "cancelled")]
  /\ UNCHANGED <<due, calls, registry, runtime, crashes>>

-----------------------------------------------------------------------------
(* Creation.                                                               *)

\* A repeated request with the same key finds this record.
Create(s) ==
  /\ client
  /\ State(s) = "none"
  /\ setup' = [setup EXCEPT ![s].state = "draft"]
  /\ UNCHANGED <<due, calls, registry, runtime, crashes>>

\* The same request, or its repetition after a crash, begins the setup.
Startable(s) == State(s) = "draft" /\ ~Overdue(s)

BeginMeta(s) ==
  /\ Meta(s)
  /\ Startable(s)
  /\ setup' = [setup EXCEPT ![s].state = "onboarding"]
  /\ UNCHANGED <<due, calls, registry, runtime, crashes>>

BeginEvolution(s) ==
  /\ ~Meta(s)
  /\ Startable(s)
  /\ setup' = [setup EXCEPT ![s].state = "provisioning"]
  /\ provision' = [provision EXCEPT ![s] = "creating"]
  /\ requested' = [requested EXCEPT ![s] = TRUE]
  /\ UNCHANGED <<due, held, completing, cleaning, final, listing, deleting, registry,
                 instance, crashes>>

\* promote_setup_to_connection: the setup becomes ready and its connection is
\* published, in one write, if the client still exists.
Promote(s, a) ==
  IF client
    THEN /\ setup' = [setup EXCEPT ![s].state = "ready",
                                   ![s].resource = IF Meta(s) THEN "assets" ELSE @]
         /\ inventory' = [inventory EXCEPT ![s] = "promoted"]
         /\ tombstone' = [tombstone EXCEPT ![s] = FALSE]
         /\ account' = [account EXCEPT ![s] = a]
    ELSE /\ setup' = [setup EXCEPT ![s].resource = IF Meta(s) THEN "assets" ELSE @]
         /\ UNCHANGED <<inventory, tombstone, account>>

-----------------------------------------------------------------------------
(* Provisioning by Evolution.                                              *)

\* The create call returned: the resource is written to whatever the setup has
\* become, and the record that comes back is the one held from here on.
CreateSucceeds(s) ==
  /\ provision[s] = "creating"
  /\ instance[s]
  /\ setup' = [setup EXCEPT ![s].resource = "instance"]
  /\ held' = [held EXCEPT ![s] = State(s)]
  /\ provision' = [provision EXCEPT ![s] = "webhook"]
  /\ UNCHANGED <<due, completing, cleaning, final, listing, deleting, registry,
                 runtime, crashes>>

\* The create call failed, or its outcome is unknown: the transition is checked
\* against the record held since before the call, which was provisioning.
CreateFails(s) ==
  /\ provision[s] = "creating"
  /\ setup' = [setup EXCEPT ![s].state = "cleanup_pending", ![s].required = TRUE]
  /\ provision' = [provision EXCEPT ![s] = "idle"]
  /\ UNCHANGED <<due, held, completing, cleaning, final, listing, deleting, registry,
                 runtime, crashes>>

\* The webhook of the instance is set and read back.
WebhookVerified(s) ==
  /\ provision[s] = "webhook"
  /\ instance[s]
  /\ provision' = [provision EXCEPT ![s] = "verified"]
  /\ UNCHANGED <<setup, due, held, completing, cleaning, final, listing, deleting,
                 registry, runtime, crashes>>

\* The answer arrives: promotion looks at the held record only.
FinishProvision(s) ==
  /\ provision[s] = "verified"
  /\ IF held[s] = "provisioning" THEN Promote(s, None)
     ELSE UNCHANGED <<setup, inventory, tombstone, account>>
  /\ provision' = [provision EXCEPT ![s] = "idle"]
  /\ held' = [held EXCEPT ![s] = "none"]
  /\ UNCHANGED <<due, completing, cleaning, final, listing, deleting, client, runtime,
                 crashes>>

\* The webhook could not be set or verified: compensate.  The held record decides
\* again; a held clean-up is left as it is.
WebhookFailed(s) ==
  IF held[s] = "cleanup_pending" THEN setup' = setup
  ELSE setup' = [setup EXCEPT ![s].state = "cleanup_pending", ![s].required = TRUE]

WebhookFails(s) ==
  /\ provision[s] \in {"webhook", "verified"}
  /\ WebhookFailed(s)
  /\ provision' = [provision EXCEPT ![s] = "idle"]
  /\ held' = [held EXCEPT ![s] = "none"]
  /\ UNCHANGED <<due, completing, cleaning, final, listing, deleting, registry, runtime,
                 crashes>>

-----------------------------------------------------------------------------
(* Completion by Meta: Embedded Signup or the Instagram callback.          *)

\* begin_meta_provisioning claims the setup before the Graph calls; a failed
\* setup is resumed.  Embedded Signup names the assets, which are recorded now.
BeginCompletion(s, c) ==
  /\ Meta(s)
  /\ State(s) \in {"onboarding", "provisioning", "failed"} /\ ~Overdue(s)
  /\ c \notin completing[s]
  /\ completing' = [completing EXCEPT ![s] = @ \cup {c}]
  /\ setup' = [setup EXCEPT ![s].state = "provisioning",
                            ![s].resource = IF KindOf[s] = "whatsapp" THEN "assets" ELSE @]
  /\ UNCHANGED <<due, provision, held, cleaning, final, listing, deleting, registry,
                 runtime, crashes>>

\* assert_instagram_provider_account_unbound.
Unbound(a) == \A s \in Setups : inventory[s] = "promoted" => account[s] # a

\* mark_meta_failed: only what is still active fails.
FailCompletion_Always(s) == setup' = [setup EXCEPT ![s].state = "failed"]
FailCompletion(s) ==
  IF State(s) \in Active THEN setup' = [setup EXCEPT ![s].state = "failed"]
  ELSE UNCHANGED setup

\* complete_meta and complete_instagram: promotion for what is still being
\* provisioned; another completion may have made it ready, or failed it.
CompletionSucceeds_AnyState(s, a) == Promote(s, a)
CompletionSucceeds(s, a) ==
  IF State(s) = "provisioning" THEN Promote(s, a)
  ELSE UNCHANGED <<setup, inventory, tombstone, account>>

\* The Graph calls are over, with the account they discovered or with an error.
\* What follows runs in one step: the account check, and completion or failure.
EndCompletion(s, c) ==
  /\ c \in completing[s]
  /\ completing' = [completing EXCEPT ![s] = @ \ {c}]
  /\ IF Overdue(s)
       THEN /\ setup' = [setup EXCEPT ![s] = Closed(@, "expired")]
            /\ UNCHANGED <<inventory, tombstone, account>>
     ELSE \/ /\ FailCompletion(s)
             /\ UNCHANGED <<inventory, tombstone, account>>
          \/ KindOf[s] = "whatsapp" /\ CompletionSucceeds(s, None)
          \/ /\ KindOf[s] = "instagram"
             /\ \E a \in Accounts : Unbound(a) /\ CompletionSucceeds(s, a)
  /\ UNCHANGED <<due, provision, held, cleaning, final, listing, deleting, client,
                 runtime, crashes>>

-----------------------------------------------------------------------------
(* The clean-up worker.                                                    *)

\* Only an Evolution instance this setup created may be deleted.  Meta assets
\* may have existed before: they wait for an operator, and the setup with them.
Candidate_Expired(s) == State(s) = "expired" /\ setup[s].resource # "none"
Candidate(s) ==
  State(s) \in {"expired", "cleanup_pending"} /\ setup[s].resource # "none"

BeginCleanup(s) ==
  /\ Candidate(s)
  /\ cleaning[s] = "idle"
  /\ \/ /\ setup[s].resource = "instance"
        /\ cleaning' = [cleaning EXCEPT ![s] = "deleting"]
        /\ final' = [final EXCEPT ![s] = setup[s].finalState]
        /\ UNCHANGED setup
     \/ /\ setup[s].resource = "assets"
        /\ setup' = [setup EXCEPT ![s].state = "cleanup_pending", ![s].required = TRUE]
        /\ UNCHANGED <<cleaning, final>>
  /\ UNCHANGED <<due, provision, held, completing, listing, deleting, registry, runtime,
                 crashes>>

\* Evolution carries the delete out, or has nothing to delete.
DeleteLands(s) ==
  /\ cleaning[s] = "deleting"
  /\ cleaning' = [cleaning EXCEPT ![s] = IF instance[s] THEN "deleted" ELSE "absent"]
  /\ instance' = [instance EXCEPT ![s] = FALSE]
  /\ UNCHANGED <<setup, due, provision, held, completing, final, listing, deleting,
                 registry, requested, crashes>>

\* The last write of a clean-up, over whatever the setup has become.  An error
\* answer leaves the resource for another attempt; "not found" is one, since the
\* adapter raises EvolutionError for every status.
EndCleanup(s) ==
  /\ cleaning[s] = "deleted"
  /\ setup' = [setup EXCEPT ![s].state = final[s], ![s].required = FALSE,
                            ![s].resource = "none"]
  /\ cleaning' = [cleaning EXCEPT ![s] = "idle"]
  /\ final' = [final EXCEPT ![s] = "expired"]
  /\ UNCHANGED <<due, provision, held, completing, listing, deleting, registry, runtime,
                 crashes>>

PutOff(s) ==
  /\ \/ cleaning[s] \in {"deleting", "absent"}
     \/ LostAnswers /\ cleaning[s] = "deleted"
  /\ setup' = [setup EXCEPT ![s].state = "cleanup_pending", ![s].required = TRUE]
  /\ cleaning' = [cleaning EXCEPT ![s] = "idle"]
  /\ final' = [final EXCEPT ![s] = "expired"]
  /\ UNCHANGED <<due, provision, held, completing, listing, deleting, registry, runtime,
                 crashes>>

-----------------------------------------------------------------------------
(* The inventory.                                                          *)

\* Every listing of connections asks the runtime for its instances...
BeginListing ==
  /\ listing = {}
  /\ listing' = {s \in Setups : instance[s]}
  /\ UNCHANGED <<setup, due, provision, held, completing, cleaning, final, deleting,
                 registry, runtime, crashes>>

\* ... and imports those that have neither a record nor a tombstone.
EndListing ==
  /\ listing # {}
  /\ listing' = {}
  /\ inventory' = [s \in Setups |->
       IF s \in listing /\ inventory[s] = "none" /\ ~tombstone[s]
         THEN "imported" ELSE inventory[s]]
  /\ UNCHANGED <<setup, due, provision, held, completing, cleaning, final, deleting,
                 tombstone, account, client, runtime, crashes>>

\* delete_connection: the runtime instance, if one was listed, then the record
\* that was asked for, which may have been replaced meanwhile.
BeginDelete(s) ==
  /\ inventory[s] # "none"
  /\ deleting[s] = "none"
  /\ deleting' = [deleting EXCEPT ![s] = inventory[s]]
  /\ UNCHANGED <<setup, due, provision, held, completing, cleaning, final, listing,
                 registry, runtime, crashes>>

DeleteRuntime(s) ==
  /\ deleting[s] # "none"
  /\ instance[s]
  /\ instance' = [instance EXCEPT ![s] = FALSE]
  /\ UNCHANGED <<setup, due, calls, registry, requested, crashes>>

EndDelete(s) ==
  /\ deleting[s] # "none"
  /\ deleting' = [deleting EXCEPT ![s] = "none"]
  /\ IF inventory[s] = deleting[s]
       THEN /\ inventory' = [inventory EXCEPT ![s] = "none"]
            /\ tombstone' = [tombstone EXCEPT ![s] = TRUE]
            /\ account' = [account EXCEPT ![s] = None]
       ELSE UNCHANGED <<inventory, tombstone, account>>
  /\ UNCHANGED <<setup, due, provision, held, completing, cleaning, final, listing,
                 client, runtime, crashes>>

\* A client is deleted only while no connection is its own.
Unconnected == \A s \in Setups : inventory[s] # "promoted"

DeleteClient ==
  /\ client
  /\ Unconnected
  /\ client' = FALSE
  /\ UNCHANGED <<setup, due, calls, inventory, tombstone, account, runtime, crashes>>

-----------------------------------------------------------------------------

\* Evolution carries out a create request, whoever still waits for it.
CreateLands(s) ==
  /\ requested[s]
  /\ requested' = [requested EXCEPT ![s] = FALSE]
  /\ instance' = [instance EXCEPT ![s] = TRUE]
  /\ UNCHANGED <<setup, due, calls, registry, crashes>>

Crash ==
  /\ crashes < MaxCrashes
  /\ crashes' = crashes + 1
  /\ provision' = [s \in Setups |-> "idle"]
  /\ held' = [s \in Setups |-> "none"]
  /\ completing' = [s \in Setups |-> {}]
  /\ cleaning' = [s \in Setups |-> "idle"]
  /\ final' = [s \in Setups |-> "expired"]
  /\ listing' = {}
  /\ deleting' = [s \in Setups |-> "none"]
  /\ UNCHANGED <<setup, due, registry, runtime>>

Request(s) ==
  \/ Create(s)
  \/ BeginMeta(s)
  \/ BeginEvolution(s)
  \/ Cancel(s)
  \/ \E c \in Calls : BeginCompletion(s, c)
  \/ BeginDelete(s)

Provisioning(s) ==
  \/ CreateSucceeds(s)
  \/ CreateFails(s)
  \/ WebhookVerified(s)
  \/ WebhookFails(s)
  \/ FinishProvision(s)
  \/ \E c \in Calls : EndCompletion(s, c)

Cleaning(s) ==
  \/ BeginCleanup(s)
  \/ DeleteLands(s)
  \/ EndCleanup(s)
  \/ PutOff(s)

Next ==
  \/ \E s \in Setups :
       \/ Request(s)
       \/ Provisioning(s)
       \/ Cleaning(s)
       \/ TimePasses(s)
       \/ Expire(s)
       \/ DeleteRuntime(s)
       \/ EndDelete(s)
       \/ CreateLands(s)
  \/ BeginListing
  \/ EndListing
  \/ DeleteClient
  \/ Crash

Spec == Init /\ [][Next]_vars

\* Time passes, the sweep that expires setups and the clean-up worker run every
\* minute, calls end, and a delete that is attempted again and again is carried
\* out, and answered, once if it can be.
Fairness ==
  \A s \in Setups :
    /\ WF_vars(TimePasses(s))
    /\ WF_vars(Expire(s))
    /\ WF_vars(Provisioning(s))
    /\ WF_vars(BeginCleanup(s))
    /\ SF_vars(DeleteLands(s))
    /\ SF_vars(EndCleanup(s))
    /\ WF_vars(EndCleanup(s) \/ PutOff(s))

FairSpec == Spec /\ Fairness

-----------------------------------------------------------------------------
(* Properties.                                                             *)

\* A setup that was cancelled, has expired or waits for its clean-up is never
\* promoted, "even if the in-flight provider request later returns successfully"
\* (connection_setups.py:19-22).
IsClosed(s) == State(s) \in {"cancelled", "cleanup_pending", "expired"}
NeverRevived == [][\A s \in Setups : IsClosed(s) => setup'[s].state # "ready"]_vars

\* Only the Evolution call that was in flight when a setup was closed can revive it:
\* once that call is over, or if there was none, what is closed stays closed,
\* whichever completions, clean-ups, listings and crashes are still to come.
OnlyItsCallRevives ==
  [][\A s \in Setups : IsClosed(s) /\ ~Busy(s) => (IsClosed(s) /\ ~Busy(s))']_vars

\* A ready setup stays ready: neither a losing concurrent completion, nor an
\* expiry, nor a clean-up takes it back (mark_meta_failed, _expire_if_due, cleanup).
ReadyIsFinal ==
  [][\A s \in Setups : Steady(s) /\ State(s) = "ready" => setup'[s].state = "ready"]_vars

\* Setup and inventory agree: a connection is published with its setup ready, the
\* setup is ready from then on, and the connection's client exists
\* (promote_setup_to_connection, delete_client_if_unconnected).
PublishedIsReady ==
  \A s \in Setups :
    Steady(s) /\ inventory[s] = "promoted" => State(s) = "ready" /\ client

\* No Instagram account is bound to two connections, however many callbacks
\* discovered it at once (assert_instagram_provider_account_unbound).
AccountBoundOnce ==
  \A s, t \in Setups :
    s # t /\ account[s] # None => account[s] # account[t]

\* A setup is closed for good only when nothing it created or claimed is left: as
\* long as a resource is recorded, it stays in a state the clean-up looks at
\* (_expire_if_due, cancel, cleanup).  A setup that is closed while its create call
\* is in flight gets its resource afterwards: it is not what this says.
ClosedLeavesNothing ==
  \A s \in Setups :
    Steady(s) /\ State(s) \in {"cancelled", "expired"} =>
      setup[s].resource = "none" /\ ~setup[s].required

\* Once a connection's instance is published, only its own deletion removes it:
\* no clean-up is in flight for a ready setup.
CleanupSparesReady ==
  \A s \in Setups : Steady(s) /\ cleaning[s] # "idle" => State(s) # "ready"

\* No setup stays active for ever: it becomes ready, or is closed at its expiry.
NoSetupLingers == \A s \in Setups : State(s) \in Active ~> State(s) \notin Active

\* An instance that is known to belong to an abandoned setup is deleted, whatever
\* crashes and failed attempts come before (run_once, cleanup).
Abandoned(s) ==
  State(s) \in {"expired", "cleanup_pending"} /\ setup[s].resource = "instance"
AbandonedIsDeleted == \A s \in Setups : Abandoned(s) ~> ~instance[s]

\* The inductive invariant behind the above, setup by setup, whichever others are
\* closed during their call.  A setup whose call is in flight is being provisioned, and the record held says
\* so; what is being cleaned up is an instance of a setup that was closed; an
\* active setup does not require a clean-up; each kind has its own resource.
CallIsCurrent(s) ==
  Busy(s) =>
    /\ ~Meta(s) /\ State(s) = "provisioning"
    /\ provision[s] # "creating" => held[s] = "provisioning"

CleanupIsOfClosed(s) ==
  cleaning[s] # "idle" => ~Meta(s) /\ State(s) \in {"expired", "cleanup_pending"}

ActiveNeedsNoCleanup(s) == State(s) \in Active \cup {"none", "failed"} => ~setup[s].required

ResourceOfKind(s) ==
  /\ setup[s].resource = "assets" => Meta(s)
  /\ setup[s].resource = "instance" => ~Meta(s)
  /\ completing[s] # {} => Meta(s)

SetupInv ==
  /\ TypeOK
  /\ \A s \in Setups :
       Steady(s) =>
         /\ CallIsCurrent(s)
         /\ CleanupIsOfClosed(s)
         /\ ActiveNeedsNoCleanup(s)
         /\ ResourceOfKind(s)
  /\ ClosedLeavesNothing
  /\ PublishedIsReady

\* The inductive invariant behind AccountBoundOnce.
AccountInv ==
  /\ \A s \in Setups : account[s] # None => inventory[s] = "promoted"
  /\ AccountBoundOnce

\* What the setups promise: ready, or nothing left, whatever calls, listings,
\* clean-ups, deletions and crashes come in between.  Nothing that was closed is
\* begun or published again, a connection is published once, with what it stands
\* for on record, and what is on record is forgotten only when it was deleted
\* (connection_setups.py, connection_setup_cleanup.py, connection_registry.py).
Phase(s) ==
  CASE State(s) = "none" -> "none"
    [] State(s) \in Active \cup {"failed"} -> "open"
    [] State(s) = "ready" -> "ready"
    [] State(s) = "cleanup_pending" -> "closing"
    [] OTHER -> "closed"

Lifecycle == INSTANCE ReadyOrNothing WITH
  phase <- [s \in Setups |-> Phase(s)],
  kept <- {s \in Setups : setup[s].resource # "none"},
  published <- {s \in Setups : inventory[s] = "promoted"}

ImplementsLifecycle == Lifecycle!Spec

\* What SetupInv leaves open for that: an Evolution call that was answered, and a
\* clean-up in flight, have an instance on record; the latter's setup waits for it.
KeptInv ==
  \A s \in Setups :
    /\ provision[s] \in {"webhook", "verified"} => setup[s].resource = "instance"
    /\ cleaning[s] # "idle" =>
         State(s) = "cleanup_pending" /\ setup[s].resource = "instance"
=============================================================================
