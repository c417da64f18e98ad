-------------------------- MODULE OutboundAttempts --------------------------
(***************************************************************************)
(* Sending to the providers: the durable attempt store, the canonical      *)
(* outbound endpoint that dedupes on an idempotency key, direct sends from *)
(* the panel, provider status webhooks, reconciliation of uncertain        *)
(* attempts and the manual resend of failed ones.                          *)
(*                                                                         *)
(* A call is one request to the gateway.  A call creates at most one       *)
(* attempt, so an attempt is named by the call that created it.  The       *)
(* gateway is one asyncio process: what it does between two awaits (the    *)
(* provider call, the reconciler's lookup) is one step.  One Evolution     *)
(* connection is modelled, and text messages, the only resendable ones.    *)
(*                                                                         *)
(* A definition named X_Fault, before X, is X with a bug in it: no part of *)
(* the model, it is what shows that a property can tell.                   *)
(***************************************************************************)
EXTENDS Naturals, Sequences, FiniteSets

CONSTANTS
  Requests,   \* POSTs to the canonical outbound endpoint, retries included
  KeyOf,      \* the idempotency scope of each request
  Directs,    \* sends from the panel, which have no key
  Resends,    \* POSTs to the resend endpoint
  ActionKey,  \* the Idempotency-Key of each resend
  Retention,  \* outbound_provider_attempt_retention
  Faults,     \* kinds of fault that may happen
  MaxFaults,  \* bound on the number of faults
  None        \* no source

Calls == Requests \cup Directs \cup Resends

ASSUME CallsAssumption ==
  /\ Requests \cap Directs = {}
  /\ Requests \cap Resends = {}
  /\ Directs \cap Resends = {}
  /\ None \notin Calls
  /\ IsFiniteSet(Calls)

ASSUME BoundsAssumption ==
  /\ Retention \in Nat \ {0}
  /\ MaxFaults \in Nat
  /\ Faults \subseteq {"crash", "write", "attempts_file", "actions_file"}

VARIABLES
  log,          \* the retained attempts, oldest first
  attempt,      \* what is recorded of each attempt
  pc,           \* where each call is
  answer,       \* what its caller was told
  source,       \* per resend: the attempt it is for
  action,       \* per resend: the status of its manual action record
  inflight,     \* attempts being resent (in memory)
  reconciling,  \* attempts being reconciled (in memory)
  wire,         \* sends the provider may still process
  provider,     \* what became of each send at the provider
  faults        \* faults so far (bounded)

store   == <<log, attempt>>
calls   == <<pc, answer, source>>
resend  == <<action, inflight>>
outside == <<wire, provider>>
vars == <<store, calls, resend, reconciling, outside, faults>>

Delivery == {"pending", "accepted", "sent", "delivered", "read", "failed", "unknown"}
Attempt == [success : BOOLEAN,   \* semanticStatus = "success"
            delivery : Delivery, \* deliveryState
            settled : BOOLEAN,   \* reconciliationState = "not_required"
            known : BOOLEAN]     \* providerMessageId is recorded
Fresh == [success |-> FALSE, delivery |-> "pending", settled |-> FALSE, known |-> FALSE]

Retained == {log[i] : i \in 1 .. Len(log)}

TypeOK ==
  /\ log \in Seq(Calls)
  /\ attempt \in [Calls -> Attempt]
  /\ pc \in [Calls -> {"new", "looking", "sending", "done"}]
  /\ answer \in [Calls -> {"none", "accepted", "conflict", "blocked", "error"}]
  /\ source \in [Resends -> Calls \cup {None}]
  /\ action \in [Resends -> {"none", "pending", "running", "completed", "failed", "blocked"}]
  /\ inflight \in SUBSET Calls
  /\ reconciling \in SUBSET Calls
  /\ wire \in SUBSET Calls
  /\ provider \in [Calls -> {"none", "rejected", "sent", "delivered", "read", "failed"}]
  /\ faults \in Nat

Init ==
  /\ log = <<>>
  /\ attempt = [c \in Calls |-> Fresh]
  /\ pc = [c \in Calls |-> "new"]
  /\ answer = [c \in Calls |-> "none"]
  /\ source = [x \in Resends |-> None]
  /\ action = [x \in Resends |-> "none"]
  /\ inflight = {}
  /\ reconciling = {}
  /\ wire = {}
  /\ provider = [c \in Calls |-> "none"]
  /\ faults = 0

Fault(kind) ==
  /\ kind \in Faults
  /\ faults < MaxFaults
  /\ faults' = faults + 1

Reply(c, a) ==
  /\ pc' = [pc EXCEPT ![c] = "done"]
  /\ answer' = [answer EXCEPT ![c] = a]

-----------------------------------------------------------------------------
(* Sending.                                                                *)

\* A new attempt is appended and the oldest trimmed away, finished or not; only
\* then is the provider called.
CreateAndSend(c) ==
  /\ log' = IF Len(log) < Retention THEN Append(log, c) ELSE Append(Tail(log), c)
  /\ attempt' = [attempt EXCEPT ![c] = Fresh]
  /\ pc' = [pc EXCEPT ![c] = "sending"]
  /\ wire' = wire \cup {c}

SameScope_OnlySuccesses(a, r) == a \in Requests /\ KeyOf[a] = KeyOf[r] /\ attempt[a].success
SameScope(a, r) == a \in Requests /\ KeyOf[a] = KeyOf[r]

\* Accepted attempts are reused; what is in progress or unresolved conflicts.
DuplicateAnswer(a) ==
  IF attempt[a].success /\ attempt[a].delivery = "accepted" THEN "accepted" ELSE "conflict"

\* deliver, up to the provider call: look the key up and insert in one critical
\* section.
Deliver(r) ==
  /\ pc[r] = "new"
  /\ \/ /\ \A a \in Retained : ~SameScope(a, r)
        /\ CreateAndSend(r)
        /\ UNCHANGED answer
     \/ \E i \in 1 .. Len(log) :
          /\ SameScope(log[i], r)
          /\ \A j \in 1 .. i - 1 : ~SameScope(log[j], r)
          /\ Reply(r, DuplicateAnswer(log[i]))
          /\ UNCHANGED <<store, wire>>
  /\ UNCHANGED <<source, resend, reconciling, provider, faults>>

\* A send from the panel.
SendDirect(d) ==
  /\ pc[d] = "new"
  /\ CreateAndSend(d)
  /\ UNCHANGED <<answer, source, resend, reconciling, provider, faults>>

\* The attempt cannot be written: the provider is not called.
PersistFails(c) ==
  /\ pc[c] = "new"
  /\ Fault("write")
  /\ Reply(c, "error")
  /\ UNCHANGED <<store, source, resend, reconciling, outside>>

\* update_action of the resend c: a record that is gone is not recreated.
SetAction(c, status) ==
  action' = [x \in Resends |-> IF x = c /\ action[x] # "none" THEN status ELSE action[x]]

\* What a resend does when its provider call has ended.
CloseAction(c, status) ==
  /\ SetAction(c, status)
  /\ inflight' = IF c \in Resends THEN inflight \ {source[c]} ELSE inflight

\* finish_success or finish_error; an attempt trimmed in the meantime raises.
Finish(c, record) ==
  attempt' = IF c \in Retained THEN [attempt EXCEPT ![c] = record] ELSE attempt

Accepted(id) == [success |-> TRUE, delivery |-> "accepted", settled |-> TRUE, known |-> id]
Failed == [success |-> FALSE, delivery |-> "failed", settled |-> TRUE, known |-> FALSE]
Unknown_IsFailed == [success |-> FALSE, delivery |-> "failed", settled |-> TRUE, known |-> FALSE]
Unknown == [success |-> FALSE, delivery |-> "unknown", settled |-> FALSE, known |-> FALSE]

\* The provider answers positively; it may leave out the message id.
Succeeds(c) ==
  /\ pc[c] = "sending"
  /\ provider[c] \notin {"none", "rejected"}
  /\ \E id \in BOOLEAN : Finish(c, Accepted(id))
  /\ IF c \in Retained
       THEN Reply(c, "accepted") /\ CloseAction(c, "completed")
       ELSE Reply(c, "error") /\ CloseAction(c, "failed")
  /\ UNCHANGED <<log, source, reconciling, outside, faults>>

\* The provider refuses the request (4xx): the one error that settles it.
Rejected(c) ==
  /\ pc[c] = "sending"
  /\ provider[c] = "rejected"
  /\ Finish(c, Failed)
  /\ Reply(c, "error")
  /\ CloseAction(c, "failed")
  /\ UNCHANGED <<log, source, reconciling, outside, faults>>

\* A timeout, a network or a server error: the provider may have the message,
\* may get it later, or never.
Uncertain(c) ==
  /\ pc[c] = "sending"
  /\ provider[c] # "rejected"
  /\ Finish(c, Unknown)
  /\ Reply(c, "error")
  /\ CloseAction(c, "failed")
  /\ UNCHANGED <<log, source, reconciling, outside, faults>>

\* The outcome cannot be written: the attempt stays pending.
FinishFails(c) ==
  /\ pc[c] = "sending"
  /\ Fault("write")
  /\ Reply(c, "error")
  /\ CloseAction(c, "failed")
  /\ UNCHANGED <<store, source, reconciling, outside>>

-----------------------------------------------------------------------------
(* The manual resend.                                                      *)

\* An action in one of these suppresses every other resend of its attempt.
Active_NotCompleted == {"pending", "running"}
Active == {"pending", "running", "completed"}

\* Only what is recorded as failed, and is fully retained text, may be resent:
\* canonical attempts carry another provider operation.
Resendable(a) ==
  /\ a \in Retained \ Requests
  /\ attempt[a].delivery = "failed"
  /\ attempt[a].settled

BeingResent(a) == a \in inflight

\* create_or_get_action, then the in-memory guard.
ResendStart(x, a) ==
  LET twins == {y \in Resends : action[y] # "none" /\ ActionKey[y] = ActionKey[x]}
      prior == {y \in Resends : action[y] \in Active /\ source[y] = a}
  IN
  /\ pc[x] = "new"
  /\ a # x
  /\ Resendable(a)
  /\ \/ \* the same key again: its action, or a conflict if it is for another attempt
        /\ twins # {}
        /\ Reply(x, IF \E y \in twins : source[y] = a THEN "accepted" ELSE "conflict")
        /\ UNCHANGED <<source, resend>>
     \/ /\ twins = {}
        /\ prior # {}
        /\ Reply(x, "conflict")
        /\ UNCHANGED <<source, resend>>
     \/ /\ twins = {}
        /\ prior = {}
        /\ source' = [source EXCEPT ![x] = a]
        /\ \/ /\ BeingResent(a)
              /\ action' = [action EXCEPT ![x] = "blocked"]
              /\ Reply(x, "conflict")
              /\ UNCHANGED inflight
           \/ /\ ~BeingResent(a)
              /\ action' = [action EXCEPT ![x] = "pending"]
              /\ inflight' = inflight \cup {a}
              /\ pc' = [pc EXCEPT ![x] = "looking"]
              /\ UNCHANGED answer
  /\ UNCHANGED <<store, reconciling, outside, faults>>

\* The lookup by the recorded provider message id finds that the message failed.
ConfirmedFailed_AsRecorded(x) == attempt[source[x]].delivery = "failed"
ConfirmedFailed(x) == attempt[source[x]].known /\ provider[source[x]] = "failed"

\* The fresh lookup confirms the failure: send again.
ResendSend(x) ==
  /\ pc[x] = "looking"
  /\ ConfirmedFailed(x)
  /\ SetAction(x, "running")
  /\ CreateAndSend(x)
  /\ UNCHANGED <<answer, source, inflight, reconciling, provider, faults>>

\* The lookup finds something else, or nothing, or is unavailable.
ResendBlocked(x) ==
  /\ pc[x] = "looking"
  /\ SetAction(x, "blocked")
  /\ Reply(x, "blocked")
  /\ inflight' = inflight \ {source[x]}
  /\ UNCHANGED <<store, source, reconciling, outside, faults>>

\* The new attempt cannot be written: nothing closes the action.
ResendPersistFails(x) ==
  /\ pc[x] = "looking"
  /\ ConfirmedFailed(x)
  /\ Fault("write")
  /\ SetAction(x, "running")
  /\ Reply(x, "error")
  /\ inflight' = inflight \ {source[x]}
  /\ UNCHANGED <<store, source, reconciling, outside>>

-----------------------------------------------------------------------------
(* Reconciliation.                                                         *)

NeedsReconciling(a) == a \in Retained /\ attempt[a].delivery = "unknown" /\ ~attempt[a].settled

ReconcileStart(a) ==
  /\ NeedsReconciling(a)
  /\ a \notin reconciling
  /\ reconciling' = reconciling \cup {a}
  /\ UNCHANGED <<store, calls, resend, outside, faults>>

\* What the provider's message store shows of a send.
Observed(a) == IF provider[a] = "sent" THEN {"accepted", "sent"} ELSE {provider[a]}

\* The lookup ends.  Only one by a recorded provider message id can find the
\* message; any other outcome leaves the attempt as it is.
ReconcileEnd(a, found) ==
  /\ a \in reconciling
  /\ reconciling' = reconciling \ {a}
  /\ \E observed \in Observed(a) :
       attempt' = IF found /\ a \in Retained /\ attempt[a].known
                    THEN [attempt EXCEPT ![a].delivery = observed, ![a].settled = TRUE]
                    ELSE attempt
  /\ UNCHANGED <<log, calls, resend, outside, faults>>

-----------------------------------------------------------------------------
(* The provider, and the faults.                                           *)

ProviderTakes(c) ==
  /\ c \in wire
  /\ wire' = wire \ {c}
  /\ \E outcome \in {"sent", "rejected"} : provider' = [provider EXCEPT ![c] = outcome]
  /\ UNCHANGED <<store, calls, resend, reconciling, faults>>

ProviderProgresses(c) ==
  /\ \/ provider[c] = "sent" /\ provider' = [provider EXCEPT ![c] = "delivered"]
     \/ provider[c] = "sent" /\ provider' = [provider EXCEPT ![c] = "failed"]
     \/ provider[c] = "delivered" /\ provider' = [provider EXCEPT ![c] = "read"]
  /\ UNCHANGED <<store, calls, resend, reconciling, wire, faults>>

\* The statuses the provider has reported on its way to where it is.
Reported(state) ==
  CASE state = "sent" -> {"sent"}
    [] state = "delivered" -> {"sent", "delivered"}
    [] state = "read" -> {"sent", "delivered", "read"}
    [] state = "failed" -> {"sent", "failed"}
    [] OTHER -> {}

\* A status webhook, possibly late, again, or out of order.  It overwrites the
\* delivery state of the attempt with that message id, if there is one.
StatusWebhook(c) ==
  /\ c \in Retained
  /\ attempt[c].known
  /\ \E status \in Reported(provider[c]) :
       attempt' = [attempt EXCEPT ![c].delivery = status, ![c].settled = TRUE]
  /\ UNCHANGED <<log, calls, resend, reconciling, outside, faults>>

\* The process dies with its calls; what it wrote and sent stays.
Crash ==
  /\ Fault("crash")
  /\ pc' = [c \in Calls |-> IF pc[c] \in {"looking", "sending"} THEN "done" ELSE pc[c]]
  /\ inflight' = {}
  /\ reconciling' = {}
  /\ UNCHANGED <<store, answer, source, action, outside>>

\* A store file that cannot be read counts as an empty one.
LoseAttempts ==
  /\ Fault("attempts_file")
  /\ log' = <<>>
  /\ UNCHANGED <<attempt, calls, resend, reconciling, outside>>

LoseActions ==
  /\ Fault("actions_file")
  /\ action' = [x \in Resends |-> "none"]
  /\ UNCHANGED <<store, calls, inflight, reconciling, outside>>

CallStep(c) == Succeeds(c) \/ Rejected(c) \/ Uncertain(c) \/ FinishFails(c)

ResendStep(x) ==
  \/ \E a \in Calls : ResendStart(x, a)
  \/ ResendSend(x)
  \/ ResendBlocked(x)
  \/ ResendPersistFails(x)

ProviderStep(c) == ProviderTakes(c) \/ ProviderProgresses(c) \/ StatusWebhook(c)

Next ==
  \/ \E r \in Requests : Deliver(r)
  \/ \E d \in Directs : SendDirect(d)
  \/ \E c \in Requests \cup Directs : PersistFails(c)
  \/ \E c \in Calls : CallStep(c)
  \/ \E x \in Resends : ResendStep(x)
  \/ \E a \in Calls : ReconcileStart(a) \/ \E found \in BOOLEAN : ReconcileEnd(a, found)
  \/ \E c \in Calls : ProviderStep(c)
  \/ Crash
  \/ LoseAttempts
  \/ LoseActions

Spec == Init /\ [][Next]_vars

-----------------------------------------------------------------------------
(* Properties.                                                             *)

Issued(c) == c \in wire \/ provider[c] # "none"

\* While an attempt is retained, no other request with its idempotency key reaches
\* the provider, over concurrent requests, retries after a timeout, an error or a
\* crash, and sends whose outcome could not be written
\* (create_or_get_by_idempotency).
OneSendPerKey ==
  [][\A r, s \in Requests :
       /\ r # s
       /\ KeyOf[r] = KeyOf[s]
       /\ r \in Retained
       /\ Issued(s)'
       => Issued(s)]_vars

\* The delivery state is never better or worse than what the provider did: an
\* outcome the gateway does not know is not recorded as a failure, and no
\* acceptance is recorded that the provider did not give (_error_state,
\* record_provider_status, record_reconciliation).
Evidence(a) ==
  /\ attempt[a].delivery \in {"accepted", "sent", "delivered", "read"} =>
       provider[a] \notin {"none", "rejected"}
  /\ attempt[a].delivery \in {"delivered", "read"} => provider[a] \in {"delivered", "read"}
  /\ attempt[a].delivery = "failed" => provider[a] \in {"failed", "rejected"}

EvidenceIsTrue == \A a \in Retained : Evidence(a)

\* Only a message the provider itself gave up on is sent again, although the
\* recorded state the resend starts from may be stale by the time it sends.
ResentOnlyIfFailed ==
  \A x \in Resends : Issued(x) => provider[source[x]] = "failed"

Resending(x) == pc[x] \in {"looking", "sending"}

\* Two resends of one attempt are never under way together, even when the file
\* of manual actions is lost between them.
OneResendAtATime ==
  \A x, y \in Resends : Resending(x) /\ Resending(y) /\ source[x] = source[y] => x = y

\* Once a resend has completed, no other resend of that attempt is sent, under
\* any key and after any crash (create_or_get_action).
CompletedResendIsLast ==
  [][\A x, y \in Resends :
       /\ action[y] = "completed"
       /\ ~Issued(x)
       /\ Issued(x)'
       => source'[x] # source[y]]_vars

\* "A different key must not turn it into a second provider side effect": of the
\* resends of one attempt, the provider takes one.
ResendHasOneEffect ==
  \A x, y \in Resends :
    /\ source[x] = source[y]
    /\ {provider[x], provider[y]} \cap {"none", "rejected"} = {}
    => x = y

\* The inductive invariant behind EvidenceIsTrue: a call that has not sent is
\* unknown to the provider, which takes a send once; a recorded message id is one
\* the provider gave.
UnsentIsNotIssued == \A c \in Calls : pc[c] \in {"new", "looking"} => ~Issued(c)
TakenOnce == \A c \in wire : provider[c] = "none"
KnownIsTaken == \A c \in Calls : attempt[c].known => provider[c] \notin {"none", "rejected"}

EvidenceInv ==
  /\ TypeOK
  /\ UnsentIsNotIssued
  /\ TakenOnce
  /\ KnownIsTaken
  /\ \A a \in Calls : Evidence(a)

\* The inductive invariant behind the properties of resends: what is being resent
\* is guarded in memory, and nobody looks a message up that another resend has
\* already sent again.
ResendInv ==
  /\ \A x \in Resends : Resending(x) => source[x] \in inflight
  /\ \A x \in Resends : Issued(x) => source[x] \in Calls
  /\ \A x, y \in Resends : pc[x] = "looking" /\ action[y] = "completed" => source[x] # source[y]
  /\ OneResendAtATime
  /\ ResentOnlyIfFailed

\* What the calls come to: each is sent once, keys and resends are honoured, and what
\* callers are told, and what is recorded of a resend, is what the provider did
\* (deliver, execute_outbound_attempt, create_or_get_action, resend).
Message(c) ==
  CASE provider[c] = "failed" -> "lost"
    [] provider[c] \in {"sent", "delivered", "read"} -> "taken"
    [] provider[c] \in {"none", "rejected"} /\ Issued(c) -> "sent"
    [] OTHER -> "unsent"
Told(c) ==
  CASE answer[c] = "none" -> "nothing"
    [] answer[c] = "accepted" -> "accepted"
    [] OTHER -> "refused"

Ledger == INSTANCE SendLedger WITH
  message <- [c \in Calls |-> Message(c)],
  retained <- Retained,
  told <- [c \in Requests \cup Directs |-> Told(c)],
  held <- {<<x, source[x]>> : x \in {y \in Resends : Resending(y)}},
  closed <- {source[x] : x \in {y \in Resends : action[y] = "completed"}}

ImplementsSendLedger == Ledger!Spec

\* What ResendInv leaves open for that: a call is answered when it ends, and a resend
\* under way is not on record as completed.
AnsweredWhenDone ==
  /\ \A c \in Calls : pc[c] # "done" => answer[c] = "none"
  /\ \A x \in Resends : pc[x] # "done" => action[x] # "completed"
=============================================================================
