------------------------- MODULE CoreInboundOutbox -------------------------
(***************************************************************************)
(* The durable Gateway -> Core outbox: CoreInboundDeliveryStore and its    *)
(* Postgres variant, the dispatcher that posts the events, the workers     *)
(* that run it, and the group webhook that fills it.                       *)
(*                                                                         *)
(* One connection is modelled.  An event is a provider message received    *)
(* under a binding: its eventId and its dedupe scope are both functions of *)
(* <<message, bindingId>> (group_transport.projection).                    *)
(*                                                                         *)
(* Time is relative.  A stored delivery carries one countdown, `timer',    *)
(* that stands for the only absolute time its status gives a meaning to:   *)
(* nextAttemptAt while pending or retry, leaseExpiresAt while delivering,  *)
(* the end of retention while delivered.  Zero means "that time is past".  *)
(*                                                                         *)
(* A definition named X_Fault, before X, is X with a bug in it: no part of *)
(* the model, it is what shows that a property can tell.                   *)
(***************************************************************************)
EXTENDS Integers, FiniteSets

CONSTANTS
  Messages,        \* provider message ids
  Groups,          \* group chats
  GroupOf,         \* the chat each message was sent in
  Workers,         \* dispatcher workers sharing the store
  Store,           \* "json" or "postgres": which store class is in use
  MaxBindings,     \* bound on the number of (re)bindings
  BatchLimit,      \* core_inbound_delivery_batch_size
  MaxAttempts,     \* core_inbound_delivery_max_attempts
  LeaseTime,       \* core_inbound_delivery_lease_seconds
  PostTimeout,     \* bot_webhook_timeout: the longest a POST may take
  Retention,       \* core_inbound_delivery_retention_days
  Backoff(_),      \* delay before the next attempt, after n attempts
  MaxDisturbances, \* bound on operator actions and worker failures
  None             \* no event

ASSUME MessagesAssumption ==
  /\ GroupOf \in [Messages -> Groups]
  /\ Store \in {"json", "postgres"}

ASSUME TimingAssumption ==
  /\ {MaxBindings, MaxDisturbances, PostTimeout} \subseteq Nat
  /\ {BatchLimit, MaxAttempts, LeaseTime, Retention} \subseteq Nat \ {0}
  /\ \A n \in 0 .. MaxAttempts : Backoff(n) \in Nat

\* An event: the provider message and the number of the binding it came under.
Events == Messages \X (1 .. MaxBindings)

ASSUME NoneAssumption == None \notin Events

VARIABLES
  outbox,       \* Events -> stored delivery, or Absent
  binding,      \* number of the current Core binding, 0 before the first
  granted,      \* groups the current binding's policy authorizes
  keyStored,    \* the Core channel API key can be read
  deleted,      \* the connection has been deleted
  batch,        \* per worker: claimed, not yet started
  current,      \* per worker: the event it is posting or settling
  pc,           \* per worker: where _deliver is
  outcome,      \* per worker: what the POST returned, once it did
  attemptsRead, \* per worker: attemptCount as read by retry_or_dead_letter
  elapsed,      \* per worker: how long its POST has been running
  wire,         \* requests sent that Core may still process
  core,         \* events Core has processed
  queued,       \* events the webhook acknowledged as group_queued
  disturbances  \* operator actions and failures so far (bounded)

connection == <<binding, granted, keyStored, deleted>>
worker     == <<batch, current, pc, outcome, attemptsRead, elapsed>>
external   == <<wire, core>>
vars == <<outbox, connection, worker, external, queued, disturbances>>

Statuses == {"pending", "retry", "delivering", "delivered", "failed", "dead_letter"}
Delivery == [status : Statuses \cup {"absent"}, attempts : Nat, timer : Nat]

Absent == [status |-> "absent", attempts |-> 0, timer |-> 0]
Pending == [status |-> "pending", attempts |-> 0, timer |-> 0]

Stored(e) == outbox[e].status # "absent"
Status(e) == outbox[e].status

TypeOK ==
  /\ outbox \in [Events -> Delivery]
  /\ binding \in 0 .. MaxBindings
  /\ granted \in SUBSET Groups
  /\ keyStored \in BOOLEAN
  /\ deleted \in BOOLEAN
  /\ batch \in [Workers -> SUBSET Events]
  /\ current \in [Workers -> Events \cup {None}]
  /\ pc \in [Workers -> {"idle", "posting", "settling", "retrying"}]
  /\ outcome \in [Workers -> {"none", "acknowledged", "rejected", "transient"}]
  /\ attemptsRead \in [Workers -> Nat]
  /\ elapsed \in [Workers -> Nat]
  /\ wire \in SUBSET Events
  /\ core \in SUBSET Events
  /\ queued \in SUBSET Events
  /\ disturbances \in Nat

Init ==
  /\ outbox = [e \in Events |-> Absent]
  /\ binding = 0
  /\ granted = {}
  /\ keyStored = FALSE
  /\ deleted = FALSE
  /\ batch = [w \in Workers |-> {}]
  /\ current = [w \in Workers |-> None]
  /\ pc = [w \in Workers |-> "idle"]
  /\ outcome = [w \in Workers |-> "none"]
  /\ attemptsRead = [w \in Workers |-> 0]
  /\ elapsed = [w \in Workers |-> 0]
  /\ wire = {}
  /\ core = {}
  /\ queued = {}
  /\ disturbances = 0

-----------------------------------------------------------------------------
(* The connection's binding and policy, as the dispatcher reads them.      *)

\* require_policy and the binding comparison that _deliver and the replay
\* route make: the event's binding is still the current one and its group is
\* still granted.
Authorized(e) ==
  /\ ~deleted
  /\ e[2] = binding
  /\ GroupOf[e[1]] \in granted

Disturb ==
  /\ disturbances < MaxDisturbances
  /\ disturbances' = disturbances + 1

\* Binding to Core: the credential is stored, then the binding replaced, which
\* drops the previous policy.
Bind ==
  /\ ~deleted
  /\ binding < MaxBindings
  /\ binding' = binding + 1
  /\ granted' = {}
  /\ keyStored' = TRUE
  /\ UNCHANGED <<deleted, outbox, worker, external, queued, disturbances>>

\* Core replaces the policy of the current binding.  (Granting where nothing was
\* granted is not counted as a disturbance.)
PutPolicy(G) ==
  /\ ~deleted
  /\ binding > 0
  /\ granted' = G
  /\ IF granted = {} THEN UNCHANGED disturbances ELSE Disturb
  /\ UNCHANGED <<binding, keyStored, deleted, outbox, worker, external, queued>>

\* The connection is deleted; its record is gone for good, its queue is not.
DeleteConnection ==
  /\ ~deleted
  /\ deleted' = TRUE
  /\ Disturb
  /\ UNCHANGED <<binding, granted, keyStored, outbox, worker, external, queued>>

\* An unreadable credential file reads as an empty one.
LoseKey ==
  /\ keyStored
  /\ keyStored' = FALSE
  /\ Disturb
  /\ UNCHANGED <<binding, granted, deleted, outbox, worker, external, queued>>

-----------------------------------------------------------------------------
(* Enqueueing.                                                             *)

Expired_AnyStatus(e) == outbox[e].timer = 0
Expired(e) == Status(e) = "delivered" /\ outbox[e].timer = 0

\* Insert e and drop the confirmed deliveries whose retention has elapsed.
InsertAndPrune(e) ==
  outbox' = [f \in Events |-> IF f = e THEN Pending
                              ELSE IF Expired(f) THEN Absent ELSE outbox[f]]

\* The JSON store looks for a duplicate first and prunes only when it inserts.
EnqueueJson(e) ==
  IF Stored(e) THEN UNCHANGED outbox ELSE InsertAndPrune(e)

\* The Postgres store deletes what expired first, a duplicate included.
EnqueuePostgres(e) ==
  IF Stored(e) /\ ~Expired(e)
    THEN outbox' = [f \in Events |-> IF Expired(f) THEN Absent ELSE outbox[f]]
    ELSE InsertAndPrune(e)

\* The provider delivers a group message, for the first time or again.  The
\* webhook answers group_queued once the event is durably stored.
Ingest(m) ==
  LET e == <<m, binding>> IN
  /\ binding > 0
  /\ Authorized(e)
  /\ IF Store = "json" THEN EnqueueJson(e) ELSE EnqueuePostgres(e)
  /\ queued' = queued \cup {e}
  /\ UNCHANGED <<connection, worker, external, disturbances>>

\* Only a delivery that is neither finished, nor queued, nor in flight.
Replayable_InFlight(e) == Status(e) \in {"failed", "dead_letter", "retry", "delivering"}
Replayable(e) == Status(e) \in {"failed", "dead_letter", "retry"}

\* Explicit replay by Core.
Replay(e) ==
  /\ Authorized(e)
  /\ Replayable(e)
  /\ outbox' = [outbox EXCEPT ![e] = Pending]
  /\ Disturb
  /\ UNCHANGED <<connection, worker, external, queued>>

-----------------------------------------------------------------------------
(* A worker: claim a batch, then deliver its events one after the other.   *)

Abandoned(e) == Status(e) = "delivering" /\ outbox[e].timer = 0

Due_NoRecovery == {e \in Events : Status(e) \in {"pending", "retry"} /\ outbox[e].timer = 0}
Due == {e \in Events : \/ Status(e) \in {"pending", "retry"} /\ outbox[e].timer = 0
                       \/ Abandoned(e)}

\* What one claim takes: up to the limit, abandoned deliveries first (they have
\* no nextAttemptAt, which sorts before every other).
Batches ==
  {S \in SUBSET Due :
     /\ S # {}
     /\ Cardinality(S) <= BatchLimit
     /\ S # Due => Cardinality(S) = BatchLimit
     /\ \A e \in S, f \in Due \ S : Abandoned(f) => Abandoned(e)}

Claimed(d) == [status |-> "delivering", attempts |-> d.attempts + 1, timer |-> LeaseTime]

ClaimDue(w) ==
  /\ pc[w] = "idle"
  /\ batch[w] = {}
  /\ \E S \in Batches :
       /\ outbox' = [e \in Events |-> IF e \in S THEN Claimed(outbox[e]) ELSE outbox[e]]
       /\ batch' = [batch EXCEPT ![w] = S]
  /\ UNCHANGED <<connection, current, pc, outcome, attemptsRead, elapsed, external,
                 queued, disturbances>>

\* The checks _deliver makes on every attempt, just before the request.
MayPost_Unchecked(e) == keyStored
MayPost(e) == Authorized(e) /\ keyStored

\* _deliver passes its checks and sends the request.
Send(w, e) ==
  /\ pc[w] = "idle"
  /\ e \in batch[w]
  /\ MayPost(e)
  /\ batch' = [batch EXCEPT ![w] = @ \ {e}]
  /\ current' = [current EXCEPT ![w] = e]
  /\ pc' = [pc EXCEPT ![w] = "posting"]
  /\ elapsed' = [elapsed EXCEPT ![w] = 0]
  /\ wire' = wire \cup {e}
  /\ UNCHANGED <<outbox, connection, outcome, attemptsRead, core, queued, disturbances>>

\* _update(e): set the status and its time.  A record that is gone raises
\* KeyError, which ends the worker's tick and leaves the rest of the batch
\* claimed until the lease expires.
Update(w, e, status, timer) ==
  \/ /\ Stored(e)
     /\ outbox' = [outbox EXCEPT ![e].status = status, ![e].timer = timer]
     /\ batch' = [batch EXCEPT ![w] = @ \ {e}]
  \/ /\ ~Stored(e)
     /\ UNCHANGED outbox
     /\ batch' = [batch EXCEPT ![w] = {}]

\* Worker w is done with its current event.
Done(w) ==
  /\ pc' = [pc EXCEPT ![w] = "idle"]
  /\ current' = [current EXCEPT ![w] = None]
  /\ outcome' = [outcome EXCEPT ![w] = "none"]
  /\ attemptsRead' = [attemptsRead EXCEPT ![w] = 0]
  /\ elapsed' = [elapsed EXCEPT ![w] = 0]

\* _deliver refuses the event: its authorization was revoked, its binding
\* replaced, or there is no key to authenticate with.
Refuse(w, e) ==
  /\ pc[w] = "idle"
  /\ e \in batch[w]
  /\ ~MayPost(e)
  /\ Update(w, e, "failed", 0)
  /\ UNCHANGED <<connection, current, pc, outcome, attemptsRead, elapsed, external,
                 queued, disturbances>>

\* The POST ends: 2xx or 409 (Core has the event), a permanent 4xx, or
\* anything else, a timeout included (Core may or may not have it).
Answer(w, o) ==
  /\ pc[w] = "posting"
  /\ o = "acknowledged" => current[w] \in core
  /\ outcome' = [outcome EXCEPT ![w] = o]
  /\ pc' = [pc EXCEPT ![w] = "settling"]
  /\ UNCHANGED <<outbox, connection, batch, current, attemptsRead, elapsed, external,
                 queued, disturbances>>

\* complete or fail_permanently.
Settle(w) ==
  /\ pc[w] = "settling"
  /\ \/ /\ outcome[w] = "acknowledged"
        /\ Update(w, current[w], "delivered", Retention)
     \/ /\ outcome[w] = "rejected"
        /\ Update(w, current[w], "failed", 0)
  /\ Done(w)
  /\ UNCHANGED <<connection, external, queued, disturbances>>

\* retry_or_dead_letter, first half: read the record.
ReadAttempts(w) ==
  /\ pc[w] = "settling"
  /\ outcome[w] = "transient"
  /\ \/ /\ Stored(current[w])
        /\ attemptsRead' = [attemptsRead EXCEPT ![w] = outbox[current[w]].attempts]
        /\ pc' = [pc EXCEPT ![w] = "retrying"]
        /\ UNCHANGED <<batch, current, outcome, elapsed>>
     \/ /\ ~Stored(current[w])
        /\ batch' = [batch EXCEPT ![w] = {}]
        /\ Done(w)
  /\ UNCHANGED <<outbox, connection, external, queued, disturbances>>

BudgetSpent(n) == n >= MaxAttempts

\* retry_or_dead_letter, second half: write on what was read, in a critical
\* section of its own.
WriteRetry(w) ==
  /\ pc[w] = "retrying"
  /\ \/ /\ BudgetSpent(attemptsRead[w])
        /\ Update(w, current[w], "dead_letter", 0)
     \/ /\ ~BudgetSpent(attemptsRead[w])
        /\ Update(w, current[w], "retry", Backoff(attemptsRead[w]))
  /\ Done(w)
  /\ UNCHANGED <<connection, external, queued, disturbances>>

\* The worker is stopped, its process dies, or a store operation raises: what
\* it claimed stays delivering, a request it sent stays on the wire.
Interrupt(w) ==
  /\ pc[w] # "idle" \/ batch[w] # {}
  /\ batch' = [batch EXCEPT ![w] = {}]
  /\ Done(w)
  /\ Disturb
  /\ UNCHANGED <<outbox, connection, external, queued>>

-----------------------------------------------------------------------------
(* Core and the clock.                                                     *)

\* Core processes a request, while the worker waits for it or later.
CoreProcesses(e) ==
  /\ e \in wire
  /\ wire' = wire \ {e}
  /\ core' = core \cup {e}
  /\ UNCHANGED <<outbox, connection, worker, queued, disturbances>>

Countdown(n) == IF n = 0 THEN 0 ELSE n - 1

\* One unit of time.  A POST does not outlast its timeout.
Tick ==
  /\ \A w \in Workers : pc[w] = "posting" => elapsed[w] < PostTimeout
  /\ outbox' = [e \in Events |-> [outbox[e] EXCEPT !.timer = Countdown(@)]]
  /\ elapsed' = [w \in Workers |-> IF pc[w] = "posting" THEN elapsed[w] + 1 ELSE elapsed[w]]
  /\ UNCHANGED <<connection, batch, current, pc, outcome, attemptsRead, external,
                 queued, disturbances>>

WorkerStep(w) ==
  \/ ClaimDue(w)
  \/ \E e \in Events : Send(w, e) \/ Refuse(w, e)
  \/ Settle(w)
  \/ ReadAttempts(w)
  \/ WriteRetry(w)

Answered(w) == \E o \in {"acknowledged", "rejected", "transient"} : Answer(w, o)

Operator ==
  \/ Bind
  \/ \E G \in SUBSET Groups : PutPolicy(G)
  \/ DeleteConnection
  \/ LoseKey
  \/ \E e \in Events : Replay(e)

Untimed ==
  \/ \E m \in Messages : Ingest(m)
  \/ \E w \in Workers : WorkerStep(w) \/ Answered(w) \/ Interrupt(w)
  \/ \E e \in Events : CoreProcesses(e)
  \/ Operator

Next == Untimed \/ Tick

Spec == Init /\ [][Next]_vars

\* The worker loop keeps running, a POST ends by its timeout, time passes.
\* Nothing is assumed of the provider, of Core or of the operator.
Fairness ==
  /\ \A w \in Workers : WF_vars(WorkerStep(w)) /\ WF_vars(Answered(w))
  /\ WF_vars(Tick)

FairSpec == Spec /\ Fairness

-----------------------------------------------------------------------------
(* Properties.                                                             *)

\* The events worker w has claimed and not settled.
InHand(w) == batch[w] \cup ({current[w]} \ {None})

\* What the webhook acknowledged is not lost: it is in the outbox until Core
\* has processed it, over crashes, retries, replays, unfenced writes and
\* pruning (enqueue, _without_expired, _update).
NoEventLost == \A e \in queued : Stored(e) \/ e \in core

\* A delivery is only marked delivered on the strength of Core's own answer,
\* whichever worker's write that is (complete).
DeliveredIsProcessed == \A e \in Events : Status(e) = "delivered" => e \in core

\* The inductive invariant behind the two above.  A worker that is not idle has
\* an event; nothing circulates that was not acknowledged to the provider; an
\* acknowledgement in hand is Core's.
BusyHasEvent == \A w \in Workers : pc[w] # "idle" => current[w] \in Events

OnlyQueuedCirculates ==
  /\ \A e \in Events : Stored(e) => e \in queued
  /\ \A w \in Workers : InHand(w) \subseteq queued
  /\ wire \subseteq queued

AcknowledgedIsProcessed ==
  \A w \in Workers :
    outcome[w] = "acknowledged" => pc[w] = "settling" /\ current[w] \in core

HandoffInv ==
  /\ TypeOK
  /\ BusyHasEvent
  /\ OnlyQueuedCirculates
  /\ AcknowledgedIsProcessed
  /\ DeliveredIsProcessed
  /\ NoEventLost

\* With one worker, a claim is exclusive until it is settled or abandoned: no
\* replay, policy change or redelivery moves a record away from the worker
\* that is posting it (claim_due, replay_group).
ClaimIsExclusive ==
  \A w \in Workers : \A e \in InHand(w) : Status(e) = "delivering"

\* With one worker, the retry budget is honoured: a delivery is dead-lettered
\* only once its attempts are used up, and waits for a retry only while some
\* are left, although the attempt count is read in one critical section and
\* written in another, and a replay resets it (retry_or_dead_letter).
RetryBudget ==
  \A e \in Events :
    /\ Status(e) = "dead_letter" => outbox[e].attempts >= MaxAttempts
    /\ Status(e) = "retry" => outbox[e].attempts < MaxAttempts

\* With one worker, delivered is final: the record is never reopened, it only
\* disappears after its retention, or is enqueued anew by a provider redelivery
\* after it.
DeliveredIsFinal ==
  [][\A e \in Events :
       Status(e) = "delivered" =>
         \/ outbox'[e].status \in {"delivered", "absent"}
         \/ Expired(e) /\ outbox'[e] = Pending]_vars

\* The inductive invariant behind the three above, for a sole worker: what it has
\* in hand is delivering under its claim, and the attempts it read are still the
\* record's.
SoleWriterInv ==
  /\ TypeOK
  /\ BusyHasEvent
  /\ \A w \in Workers : pc[w] = "idle" => current[w] = None
  /\ \A w \in Workers : current[w] \notin batch[w]
  /\ ClaimIsExclusive
  /\ \A w \in Workers : pc[w] = "retrying" => attemptsRead[w] = outbox[current[w]].attempts
  /\ RetryBudget

\* Whatever is due is brought to an end: delivered, failed or dead-lettered.
Waiting(e) == Status(e) \in {"pending", "retry", "delivering"}
EveryEventSettles == \A e \in Events : Waiting(e) ~> ~Waiting(e)

\* A revoked grant, a replaced binding or a deleted connection stops an event
\* wherever it waits: pending, for a retry, for its lease, claimed in a batch.
\* Unless its authorization returns, it comes to rest failed, over deaths of the
\* worker and whatever is left of its budget: not delivered, by no path to a
\* request, nor dead-lettered.  (An event that is being posted may still be.)
RevokedComesToRest ==
  \A e \in Events :
    Waiting(e) /\ ~Authorized(e) /\ (\A w \in Workers : current[w] # e)
      ~> Status(e) = "failed" \/ Authorized(e)

\* The outbox implements the hand-off it promises: what is stored is what is
\* held (enqueue, _without_expired), Core's processing is the receiver's.
Handoff == INSTANCE DurableHandoff
  WITH promised <- queued, held <- {e \in Events : Stored(e)}, done <- core

ImplementsHandoff == Handoff!Spec
=============================================================================
