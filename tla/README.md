# Formal verification of the Botly Gateway

This directory holds the TLA+ specifications of the Gateway backend
(`src/gateway/app`, a FastAPI application), the TLC instances that model-check
them and the TLAPS proofs about them. Paths below are relative to
`src/gateway/app` unless they start with `docs/` or `deploy/`.

    tlc -config CoreInboundOutboxOneWriter.cfg MCCoreInboundOutbox.tla
    tlapm CoreInboundOutboxProofs.tla

`PROJECT.json` is the index: components, runs, what each definition models and
where (`map`), mutants (for each property a plausible bug that breaks it),
hazards, findings and theorems.

## 1. The system

Botly Gateway sits between messaging providers (WhatsApp through Evolution or
Meta's Cloud API, Instagram through Meta) and the consumers of the messages:
client webhooks, and Botly's Core for groups. It is **one asyncio process**: a
step runs from one `await` to the next, and what runs between two awaits is
atomic for every other coroutine. State is kept in JSON files that are rewritten
whole under a lock, in memory, and, for the Core outbox, optionally in Postgres,
which two processes may share. There is no message broker. Everything is
re-driven by workers that poll (`main.py`), and a crash loses what is in memory.

| Component | State it keeps | Operations | Talks to |
|---|---|---|---|
| Core inbound outbox (`services/core_inbound_dispatcher.py`, `core_inbound_pg_store.py`, `group_transport.py`) | deliveries with status, attempts, lease; binding, policy, channel key | enqueue, claim, deliver, complete, retry, dead-letter, replay, bind, put policy | Core (POST), Evolution's group webhook |
| Outbound attempts (`services/outbound_provider_attempts.py`, `canonical_outbound.py`, `provider_resend.py`, `manual_delivery_actions.py`, `provider_reconciliation.py`) | bounded log of attempts, manual actions; in-memory guards | canonical send, panel send, status webhook, reconcile, resend | providers, panel, Core |
| Bulk operations (`services/operations.py`) | jobs, results, leases | create, cancel, retry, duplicate, claim, run targets | Evolution |
| Connection setups and inventory (`services/connection_setups.py`, `connection_setup_cleanup.py`, `connection_registry.py`, `connections.py`) | setups, connections, tombstones, clients | create, provision, complete, promote, cancel, expire, clean up, list/import, delete | Evolution, Meta Graph |
| Inbound pipeline (`services/event_pipeline.py`, `reliability.py`, `routers/webhooks.py`, `routers/meta_webhook.py`, `services/webhook_delivery.py`) | dedupe, echo and flood memories, forward tasks | receive, filter, persist, queue, forward, retry | providers, client webhooks, the timeline |
| Message timeline and sends (`services/normalization.py`, `connection_operations.py`, `provider_deliveries.py`, `routers/messages.py`, `adapters/evolution/`) | two bounded layers of events and their file, the keys of events, the media index | normalize, save, restore, send by five routes, list messages and deliveries | providers, the panel, the attempts |
| Webhook centre (`services/instance_webhooks.py`, `webhook_deliveries.py`, `manual_delivery_actions.py`, `routers/webhook_center.py`, `routers/instance_webhooks.py`) | webhook configurations with encrypted secrets and counters, delivery evidence, manual actions | create, put, patch, enable, delete, test, repeat, redeliver, forward | client webhooks, operators |
| Automatic groups (`services/group_automatic.py`, `group_transport.py`, `core_channel_credentials.py`, `routers/group_transport.py`) | the binding and policy of a connection, the key of its Core channel, the group directory | bind, put policy, register automatically, refresh the directory | Core, Evolution |
| Meta onboarding (`services/meta/*`, `services/credential_manager.py`, `routers/meta_signup.py`) | checkpointed records, official credentials with the PIN, the catalogue of resources | run and resume: discover, subscribe, register, verify, catalogue | Meta Graph |
| Instagram authorization (`services/instagram_oauth.py`, `instagram_token_refresh.py`, `credential_manager.py`, `connections.py`) | OAuth states, tokens, bindings of accounts | authorize, callback, verify, bind to Core, disconnect, delete, refresh | Meta Graph, Core, setups |
| Automations, alerts (`services/automations.py`, `alerts.py`, `alert_signals.py`) | definitions and executions; alerts and dismissals | schedule, trigger, execute; look, reconcile, acknowledge, resolve, delete | pipeline events, connections, providers |
| Adapters, authentication, settings, read models, media, panel, deployment | caches and projections | — | — |

How they interact. A provider webhook reaches the *pipeline*, or, for a group
message of a bound connection, the *Core outbox*. A status webhook passes through
the pipeline to the *attempts* (`provider_status_correlation`). A send from the
panel or from Core creates an *attempt* and marks the echo memory of the
*pipeline*. A *setup* ends as a connection in the inventory, which the pipeline,
the outbox and the operations look up by name; deleting a connection does not
touch what is queued for it.

What is hard here:

* state read before an await and written back after it (`provision_evolution`
  promotes from a record it read two awaits ago; `retry_or_dead_letter` reads in
  one critical section and writes in another; forwards read the list of webhooks
  before they wait for the semaphore);
* two writers of one record: dispatcher and replay, two processes on Postgres
  with unfenced updates, two Meta completions of one setup, two onboardings that
  each hold their own copy of the record, status webhooks and reconciliation, the
  token refresh and a new authorization;
* one fact in two files: the key of a channel and the binding, the evidence of a
  delivery and its counter, the credential and the connection it belongs to;
* one message in many events: the answer of the provider, its echo in two
  spellings and its statuses, in any order, repeatedly, across restarts;
* provider calls with unknown outcome: a timeout says nothing of the side effect;
* crashes between the call and the record of the call;
* bounded stores that evict what is in use (attempt retention, dedupe store, the
  layers of the timeline, delivery evidence);
* countdowns: leases, retention, expiry, dedupe TTL.

## 2. Modules

| Module | What it is | Instances |
|---|---|---|
| `CoreInboundOutbox` | the outbox, both stores, its dispatcher and workers, binding and policy | `MCCoreInboundOutbox` |
| `DurableHandoff` | the abstract promise of the outbox; `CoreInboundOutbox` implements it | (refinement in both) |
| `CoreInboundOutboxProofs` | TLAPS proofs about the outbox | |
| `OutboundAttempts` | attempts, idempotent sends, status webhooks, reconciliation, manual resends | `MCOutboundAttempts` |
| `SendLedger` | the abstract promise of sending; `OutboundAttempts` implements it | (refinement in `MCOutboundAttempts`) |
| `OutboundAttemptsProofs` | TLAPS proofs about attempts and resends | |
| `OperationsQueue` | bulk operation jobs and their worker | `MCOperationsQueue` |
| `JobLedger` | the abstract promise of a bulk operation; `OperationsQueue` implements it | (refinement in `MCOperationsQueue`) |
| `OperationsQueueProofs` | TLAPS proofs about the queue | |
| `ConnectionSetup` | setups, provisioning, Meta completion, clean-up, inventory | `MCConnectionSetup` |
| `ReadyOrNothing` | the abstract promise of a setup; `ConnectionSetup` implements it | (refinement in `MCConnectionSetup`) |
| `ConnectionSetupProofs` | TLAPS proofs about setups | |
| `InboundPipeline` | filters, timeline, forward queue, dispatch with retries | `MCInboundPipeline` |
| `InboundPipelineProofs` | TLAPS proofs about the pipeline | |
| `MessageNormalization` | pure operators: what becomes of a provider's notification | through `MessageTimeline` |
| `MessageTimeline` | sends, the events of a connection, their file, what the panel is shown | `MCOutboundAttempts` |
| `MessageTimelineProofs` | TLAPS proofs about what is kept, restored and shown | |
| `InstagramAuthorization` | Business Login, bindings, tokens and their refresh | `MCProviderAccounts` |
| `MetaOnboarding` | the checkpointed onboarding of WhatsApp numbers | `MCProviderAccounts` |
| `ProviderAccountsProofs` | TLAPS proofs about bindings, tokens, checkpoints and PINs | |
| `OneDispatchPerKey` | the abstract promise of an Idempotency-Key; the redeliveries of `WebhookCenter` implement it | (refinement in `MCControlPlane`) |
| `WebhookCenter` | client webhooks, their secrets, evidence, counters and manual actions | `MCControlPlane` |
| `GroupTransport` | the binding of a connection to a channel of Core | `MCControlPlane` |
| `OperationalAlerts` | alerts and their reconciliation with incidents | `MCControlPlane` |
| `ControlPlaneProofs` | TLAPS proofs about webhooks, group bindings, alerts and automations | |
| `Automations` | the scheduler, triggers and executions of automations | `MCControlPlane` |

Conventions. A module has one action per handler or per stretch between two
awaits. A definition `X_Fault` stands next to `X` and is `X` with a bug; it is no
part of the model: substituting it for `X` must break the property it is listed
with in `PROJECT.json`. The constants called *bound* in a module's header limit
counters; all others are parameters of the program. An instance that holds several
modules, or several scenarios of one, has a variable `part`, fixed by the initial
state: a behaviour explores one part, and one run all of them.

### 2.1 CoreInboundOutbox

State: `outbox` (the stored deliveries; `timer` is the one absolute time that the
status gives a meaning to: `nextAttemptAt`, `leaseExpiresAt` or the end of
retention, as a countdown), the connection's `binding`, policy (`granted`), key
and deletion, and per worker what it has claimed (`batch`), what it is working on
(`current`, `pc`, `outcome`, `attemptsRead`, `elapsed`). `wire` and `core` are the
receiver's side. `queued` is what the webhook answered `group_queued` for.

Actions: `Ingest` (group webhook, `enqueue`), `ClaimDue`, `Send`/`Refuse` (the
checks of `_deliver`), `Answer`, `Settle` (`complete`, `fail_permanently`),
`ReadAttempts` and `WriteRetry` (the two critical sections of
`retry_or_dead_letter`), `Interrupt` (a worker stopped, killed, or ended by an
exception), `Replay`, `Bind`, `PutPolicy`, `DeleteConnection`, `LoseKey`,
`CoreProcesses`, `Tick`. `EnqueueJson` and `EnqueuePostgres` differ in when expired
records are dropped, as in the code.

That a revoked delivery is not posted is the check before the post and no more;
what can go wrong with revocation is that a delivery stays behind: waiting in
`retrying`, in the lease of a dead worker, or for a deleted key. `RevokedComesToRest`
says that it does not.

Simplifications: one connection. A batch is a set, worked on in any order; the
claim takes any due events after the abandoned ones (the code orders by
`createdAt`). The absence of a Core URL has the effect of `~keyStored`. The v1
envelope, which no live route enqueues, is left out.

### 2.2 OutboundAttempts

An attempt is named by the call that created it. `log` is the retained attempts,
oldest first, trimmed to `Retention` whatever their state, as in
`_trim_and_write_unlocked`. `wire` and `provider` hold what the provider may still
do and has done; `answer` is what the caller was told. Actions: `Deliver`
(`create_or_get_by_idempotency` and, if new, the send), `SendDirect`,
`PersistFails`, `Succeeds`/`Rejected`/`Uncertain`/`FinishFails` (the outcomes of
`execute_outbound_attempt`), `ResendStart`, `ResendSend`, `ResendBlocked`,
`ResendPersistFails`, `ReconcileStart`/`ReconcileEnd`, `StatusWebhook`, `Crash`,
`LoseAttempts` and `LoseActions` (an unreadable file reads as empty).

Simplifications: "played" is "read"; the rate limit and the retention of the
actions file are left out; a status webhook may be repeated at any time, which is
more than the pipeline's dedupe lets through.

`SendLedger` is what this comes to for callers and recipients. `Ledger` maps the call's
message to what the provider made of it (`Message`), the retained attempts to the
records, the answer to what was told (`Told`), the resends under way, each with what it
resends, to `held`, and the sources of completed resends to `closed`; it forgets keys of
actions, where a call is, states of delivery, and the lookup of uncertain attempts.

### 2.3 OperationsQueue

A job holds per target how many results say ok and error: a re-claimed job may
have several for a target. Actions: `Create`, `RetryJob`, `DuplicateJob`, `Cancel`,
`ListConnections` (the listing that `tick` awaits before it claims), `Claim`,
`Start`/`Finish`/`Failed`/`Wake` per target, `EndJob`, `Crash`, `Restart`, `Tick`,
`ChangeConnections`. A single worker process. A failed write of the store,
durations and progress are left out. `JobLedger` keeps of a job how far it is
(`Progress`), its targets, whether its cancellation was asked while it ran, which
targets were tried and which have a result; backoff, leases, attempts, crashes and the
worker are what it forgets.

### 2.4 ConnectionSetup

Per setup: the stored record, its Evolution call (`provision`, and `held`, the
state in the record that the coroutine holds), its Meta completions, its
clean-up, its connection in the inventory, and the Evolution instance.
`Overtaking` is the set of setups that may be cancelled or expire during their own
Evolution call. It is empty in `setup_mixed`; `setup_revived` shows what it breaks. The
properties speak of the setups to which it does not happen (`Steady`), whatever happens
to the others, and the theorems hold for every such set. `LostAnswers` allows a
delete to be carried out and reported failed. Left out: credentials, a delete that
lands after the clean-up gave up waiting, the length of the clean-up's backoff.
`ReadyOrNothing` sees of a setup its phase (`Phase`), whether its record names a
resource, and whether its connection was promoted.

### 2.5 InboundPipeline

`receive_webhook` and `_process_cloud_event` reach no await between the first
filter and `create_task`, so a webhook is received in one step that ends in one of
eight answers. `dedupe` is the TTL store of ids **and** fingerprints, in the order
in which they expire, with its eviction; `events` and `disk` are the timeline in
memory and in its file, rewritten by every pipeline event when the volume takes
writes. `tasks` and `posts` are the forward task of each request and its
dispatches: the webhooks are read once (`StartForward`), before the semaphore
(`AcquireSemaphore`), then each dispatch posts, retries and records independently.

Simplifications: staleness is a nondeterministic choice; one conversation; the
semaphore admits waiters in any order; a Meta POST with several messages is
several webhooks received in a row; the legacy default webhook is left out. What an
event contains and how the timeline keeps it is `MessageTimeline`; how webhooks are
configured, tested and redelivered is `WebhookCenter`.

### 2.6 MessageNormalization and MessageTimeline

`MessageNormalization` translates `services/normalization.py` and the Cloud API
half of `routers/meta_webhook.py` as operators on the facts of a notification that
the code tells apart: `Canonical` (names of events), `GuessKind` and `Interaction`
(the two classifications of a message), `Content`, `Context`, `MediaOf`, `ToInt64`
and `SourceTime` (a time from a number, digits, the halves of a long, a date),
`NormalizeStatus` and `ChosenUpdate` (which status of a batch counts). `Base` is how many
values one half of a long has, 2^32 in the code, and `NoNumber` a time that cannot be
read. What a time *means* is defined apart from how it is read: a long stands for the
numbers of the width of two halves that have these halves modulo `Base` (`Numbers`), and
`TimeIsMeant` asks for the first time in the notice that says something.

`MessageTimeline`: `business` and `operational` are the two layers in memory,
`stored` the file, `keys` and `keyOrder` the keys of events that were received,
`attempts` the bounded attempts as far as listings join them, `indexed` the media in
memory and on disk, `sends` the requests of the five routes. Actions: `Request`
(with its announcement and its attempt), `RefuseRequest`, `Post` (taken, taken with
a lost answer, not taken; the retries of `EvolutionClient` and the second form of
media), `Succeed`, `Fail`, `Receive`, `Operate`, `GetMedia`,
`UpdateMediaDownloadState`, `TimePasses`, `MtCrash`
(a process dies and the next reads the file). A failed write of the file is part of
each action. `Logical` and `Deliveries` are what the panel lists; `Record` is one
entry of the former.

Every order of events is written as `Arranged`: each of the chosen places of a
sequence stands where as many precede it. That is what Python's stable sort
(`list_events`) and the two passes of `_restore_business_events` compute, and unlike
`SortSeq`, which TLC evaluates and no prover knows, it can be reasoned about. `mt` is
history: `taken` counts what the provider did, `heard` holds the statuses that were
heard of and when, `file` says whether the file has been written since memory last
changed. An event that belongs to no send has the attempt `NoAttempt`.
`NoticesAssumption`: what a provider notifies under one identity has one direction and
one kind of message; the key of an event includes both, so without it two notices of
one identity would be two events.

Simplifications: one connection and one conversation; a clock that ticks only when
events could be told apart by it; the file of a medium is written or
not as that of the events is; uploads, number checks and filters are left out.

### 2.7 InstagramAuthorization

`conn` and `setup` are the inventory and the setups, `cred` the token store, whose
tokens are named by the authorization that obtained them, `intent` each OAuth state
with the callback that consumed it. `sweep` and `refreshing` are the refresh loop,
`verifying`, `coreCalls` and `deleting` what other requests wait for, `meta` Meta's
side. Actions: `Authorize`, `ExpireState`, `Callback`, `Exchange`, `Discover`,
`SubscriptionUnconfirmed`, `Bind` (from the last answer to the return, one step),
`Reverified`, `CallbackFails`; `StartVerify`/`EndVerify`, `StartCoreBind`/`EndCoreBind`,
`StartDisconnect`/`EndDisconnect`, `StartDeleteConnection`/`EndDeleteConnection`,
`CloseSetup`; `StartSweep`, `Visit`, `Renewed`, `NotRenewed`, `MarkExpired`,
`SkipToken`; `TokenAges`, `Revoke`, `IgCrash`.

Whether a stored token can be decrypted (`readable`) is settled by the key the process
runs with: a token is written readable, and after each death of the process any of them
may be unreadable, or readable again. The refresh visits the due tokens in the order of
the store, which is that of the numbers that stand for the accounts. One that cannot be
decrypted raises out of the loop over the list and is caught outside of it, so the sweep
ends there (`Visit`). The instance allows it for the first account of the store, the one
with another behind it, and one disturbance beside it (`OnlyFirstUnreadable`, a bound of
`MCProviderAccounts`); what is stored at first is of that account as well.

Simplifications: a token's life has three stages; the Core channel's key is present,
absent or orphaned; import of history and file writes that raise are left out.

### 2.8 MetaOnboarding

`stored` is the onboarding record of each instance, `official` its credential, `run`
each call of the orchestrator with **its own copy** of the record, `graph` Meta's
side and `catalogue` the discovered resources. Each action of `RunStep` is what
follows the answer of one Graph call; `CallRaises` ends the run, and what it asked
for may have happened; `MoCrash` ends all runs, and `LateLanding` is a registration
that arrives after its process died. Nothing prevents two runs of one instance, in
the model as in the code. A number stands for itself and its WABA. `Renumbering`
allows an instance to be onboarded with another number: the run excludes it, because
the checkpoints do not name their number (section 4).

### 2.9 WebhookCenter

`hooks` is the configuration with the form of each secret (clear, under the fallback
key, under the configured key), `ciphers` the keys of the running process, `deliveries`
the evidence, `actions` the idempotent manual actions, `routes` the coroutines.
`ActionsKept` is how many actions the store keeps, whatever their state; `seen` counts
for each key the dispatches since it was last forgotten. Actions: `Start` (all secrets
are re-encrypted at startup, or no process runs), `Create`, `Put`, `SetEnabled`,
`Delete`; `Ask` with `Patch`, `Test`, `Begin`, `Answer` (the requests of
`webhook_center`, which read the webhook, list the connections over an await, and go on
with what they read); `Forward`, `Retry`; `End` (the row and the counters),
`RecordFailure`, `Tell` (the action), between which there is no await and no other
coroutine moves (`Held`); `Crash`, and a death between the two files (`CrashInEnd`,
`CrashInRecord`).

*Writes that raise.* Each file is a write of its own, and `spent.faults` counts those
that raise. `BeginFails`: the write that makes the action running raises, it stays
pending and nothing is sent. `End` of an accepted post writes the row and the counters
inside the `try` of the attempt (`webhook_delivery.py:331`): when either raises, `:377`
takes it for a failing attempt and `:449` records a failure, a second row if the first
one was written (`RecordFailure`). `End` of a failing post, and `RecordFailure`, raise
out of the dispatcher, and the route tells the action failed. `TellFails`: the last
`update_action` raises (`routers/webhook_center.py:308`, `:381`) and the action stays
running.

*Keys that are forgotten.* A new action pushes out the oldest ones beyond
`ActionsKept`, running ones included (`Newest`, `manual_delivery_actions.py:185`); the
actions on messages, which share the file, and a file that cannot be read (`:86`) do the
same (`LoseActions`). The same Idempotency-Key then dispatches again, also while the
first dispatch is under way; what that one tells in the end is no longer kept. The file
of the evidence can be lost as well (`LoseEvidence`).

Simplifications: a file that cannot be read for a moment is lost from then on (in the
code the next write makes it so); a lost webhook configuration is as if its webhooks
were deleted; the creation times, by which actions and deliveries are trimmed, grow. A
payload is what its preview makes of it: whole, shortened, redacted or cut; a
*shortened* one is posted by a redelivery of what was kept (`Redelivered`), not by an
event, and is therefore no member of `Payloads`. An endpoint that takes a post late
takes it, here, when the post times out.

### 2.10 GroupTransport

`records` holds binding, policy, address and groups of each connection, `keys` the
channel whose key is held, `directory` and `fetching` the group directory in memory,
`lock` the lock of each connection, `calls` the coroutines. Actions: `PutPolicy`,
`StartBind`/`Bind`/`BindFails` (Core's request), `StartRegister`, `Enter`, `Listed`,
`CoreAdmits`, `Register`, `RegisterFails` (the registration, await by await),
`Fetched`, `ChangeWebhook`, `Remove`, `GtCrash`. `torn` notes a death between the key
and the record.

### 2.11 OperationalAlerts and Automations

Alerts: a request is `Look` (the connections and their stored status) and `Answered`
(after the await on Evolution: the live signals, reconciliation, and what the
operator asked); `Turn` changes what is the case. A fingerprint is a cause and a
connection.

Automations: a batch is one coroutine: a tick of the scheduler (`Tick`), the dispatch
of an event (`Dispatch`) or an operator (`Execute`). It decides what to run once and
runs it: `BeginExecution`, `Act` per action and attempt, `EndExecution`. `events`
counts the events whose dispatch is scheduled: an audit record is one as well.
Names, conditions and messages are left out; conditions only choose how many targets
there are.

## 3. Runs

The `expect: pass` runs cover every action of their module. Bounds are those of
the cfg; each is there so that the case named is reached. Properties of a proved
module that no run lists (`TypeOK`, `RetryBudget`, `DeliveredIsFinal`,
`DeliveredIsProcessed`, `OneResendAtATime`, `EndedIsFinal`, `EndedIsComplete`,
`CancellationHolds`, `ResentOnlyIfFailed`, `CleanupSparesReady`, `ReadyIsFinal`,
`AccountBoundOnce`, `MtTypeOK`, the `TypesOK` of the provider accounts and of the control
plane, and `OnlyItsCallRevives`) are established by the theorems of
section 5; of these, `ResentOnlyIfFailed` and `CancellationHolds` are also part of what
`SendLedger` and `JobLedger` ask.

| Run | Question | Bounds, and why they are enough |
|---|---|---|
| `outbox_one_writer` | with one worker: exclusive claims, every event settles, and one whose authorization is revoked while it waits comes to rest as failed unless it is authorized again | one message under two bindings = two events, so a batch of two; two attempts, so that retry and dead letter both occur; a lease of one tick, shorter than the batch; three disturbances: a revocation, a replay and a crash together |
| `outbox_two_writers` | two processes on Postgres: nothing acknowledged is lost, delivered means processed, the promise of `DurableHandoff` is kept | two workers, two events, one disturbance; no bound on relative speed, so every late write of a worker whose lease expired occurs |
| `outbound` | one send per idempotency key, true evidence; what callers are told and what resends do is as `SendLedger` has it: resends only of failed messages, one at a time, none after a completed one; each message and status on the timeline once, shown as it was heard, kept as it was meant, through restarts | part *keys*: two requests of one key and two panel sends, two attempts retained, so that one in flight is trimmed; one fault. Part *resends*: three resends, two with one key, of a panel send or of a resend; two faults, no lookup of uncertain attempts (they have no id to be looked up by, and nothing comes of it), and nothing is read, which is to a resend what delivered is. Part *timeline*: one send by any of five routes, its echo in two spellings, its statuses, a message of somebody else by either provider; two events kept, so that each of them is pushed out; two moments; one death or failed write; longs of two halves of four values (`Base` 4), so that the signed half and the sign bit both occur |
| `outbound_resend_twice` (violation) | "a different key must not turn it into a second provider side effect" | two resends under two keys, no fault |
| `operations` | jobs end as `JobLedger` has it, each once, withdrawn, cancelled as asked or with every outcome; verdicts are true; every job ends or strands | two jobs, two targets run concurrently, one retry, one crash, one change of connections |
| `operations_stranded` (violation) | every accepted job ends | one job, one crash |
| `setup_mixed` | setups, inventory and clean-up agree; a setup ends ready or with nothing left (`ReadyOrNothing`); every setup is settled | an Evolution setup and a WhatsApp setup with two completions, one client, one crash |
| `setup_revived` (violation) | "It must never be promoted after that point" | one setup, a cancellation or expiry during its webhook verification |
| `inbound` | forwards are on the timeline; a remembered message is forwarded once; each accepted message is accounted for and each forward ends | part *filters*: one message of each provider, all of one content; three webhooks, so that one is a copy of an accepted, a refused or an evicted one; a store of two keys, so that an id evicts a fingerprint; two disturbances (outages, restarts, sends from the panel). Part *forwards*: two requests, two webhooks, a semaphore and a queue of one, two attempts per dispatch, one disturbance |
| `provider_accounts` | one account per connection, each with its token; ready means subscribed and operational; due tokens are settled unless they or an earlier due one cannot be decrypted; the PIN is kept | part *instagram*: two logins, of a setup and of a linked connection, that may find either of two accounts; two disturbances, so that a disconnection, a revocation, an ageing token or a crash (with a change of keys) meet in pairs; the token that may be unreadable is the one of two that is visited first. Part *whatsapp*: two runs of one number, which overlap or resume each other, and a crash |
| `consent` (violation) | "It deletes the encrypted credential and provider-account binding" | one refresh and one disconnection |
| `control_plane` | secrets stay readable, a manual delivery is dispatched once per key while the key is kept, manual actions are true, counters lag behind the evidence only for deaths and raising writes, evidence goes only for newer evidence, key and binding agree, one alert per incident, automations tell what happened | parts *webhooks* and *redeliveries*: two webhooks, two coroutines, evidence of one delivery each, one action kept, so that a second key forgets the first; one death, loss or change of the configuration, or a raising write; in *redeliveries* up to two raising writes, with which the row, its second row and the action fail in pairs, and a death after them; part *groups*: two requests on one connection, two bindings, one change of the webhook, deletion or death; part *alerts*: two connections that may fail together, two requests at once; part *automations*: a timer and an event, whose batches overlap, two operator commands or deaths |

Deadlock is not checked: every one of these systems may be idle for good once its
bounded inputs are used up.

**Fairness.** `CoreInboundOutbox`: weak fairness of each worker's step and of the
end of its POST (`httpx` timeouts; the worker loop catches every exception and
sleeps), and of time. Nothing is assumed of Core, of the provider or of the
operator. `OperationsQueue`: the worker loop, the coroutines of a job, the end of
a provider call, the restart of a dead process (a container with a restart
policy), and time. `ConnectionSetup`: time, the sweep and the clean-up worker that
`main.py` starts, the end of calls; strong fairness of a delete that is attempted
every minute for ever being carried out and answered once. `InboundPipeline`: the
event loop runs the task that can run. `InstagramAuthorization`: the refresh loop
takes its steps (it catches every exception and `main.py` starts it with the
process), and, strongly, a token that is tried for ever is renewed or refused by
Meta in the end; users and operators owe nothing, so a token that cannot be decrypted
may block those behind it for ever, and `DueTokensAreSettled` says that nothing else
does. `EveryEventSettles` is checked with one
worker only: with two, the model's arbitrary order of claims lets one event
starve behind another, which the code's order by age excludes.

## 4. Findings

Four statements of the repository are refuted by its code, each with a run:

1. `setup_revived`: a setup cancelled or expired while its webhook is being
   verified becomes ready (`services/connection_setups.py:20-22` against `:206`).
2. `outbound_resend_twice`: a resend that timed out is recorded as failed and does
   not suppress another one under a different key
   (`services/manual_delivery_actions.py:151-154`).
3. `operations_stranded`: a job whose process dies while it is `retrying` is never
   claimed again (`services/operations.py:162`).
4. `consent`: a token refresh that awaits Meta while its account is disconnected
   stores the token again (`services/instagram_token_refresh.py:37` against
   `docs/INSTAGRAM_BUSINESS_LOGIN_G2.md:92-94`).

Seen while modelling, without a run of their own (each is in the model, and the
properties are worded so as to hold with it):

* the lease is taken for a whole batch whose POSTs run one after the other; with
  the default sizes it can expire before the batch ends and an event is handed
  out twice (Core gets one `eventId` twice);
* a repeated idempotency key is answered 409 once the message has been reported
  `delivered` rather than `accepted`;
* an `unknown` attempt never has a provider message id, which is what the
  reconciler looks it up by;
* a re-claimed job counts the errors of both runs against its number of targets
  and can end in error although a target succeeded;
* a setup that is cancelled during its create call is closed before its resource is
  on record; the answer then records the instance in a setup that is already
  cancelled, which the clean-up never looks at;
* a crash between the create call and the record of its resource leaks an
  Evolution instance, which the next listing imports as a connection; a delete
  whose answer was lost is retried for ever;
* a message that was answered 500 because its event could not be written is
  answered `duplicate` (200) when Evolution posts it again within the dedupe TTL,
  or, if its id was evicted, taken for saved and forwarded although the file does
  not have it; compare `docs/EVOLUTION_WEBHOOK_FIX.md:85`;
* Meta is answered 200 in that case too; a full queue, a shutdown and a crash lose
  forwards of accepted messages; Instagram messages meet neither the dedupe nor
  the queue limit; two messages of equal text within the TTL are one;
* a success whose history row cannot be written is recorded as a failure, or
  twice; a webhook disabled after the list was read is still posted to.

The timeline:

* of two statuses in one millisecond the earlier one is shown, and a late status
  that is out of order replaces a newer one; of a batch of updates only the last
  with a known status is kept;
* an attempt that left its store before the provider answered makes a send that the
  provider took end in an error, without an event of its own;
* Cloud API contacts are kept as none and reactions as removals; its media have no
  stable identity; Instagram times are seconds where milliseconds are expected;
* sends by the older route are listed twice among the deliveries once their attempt
  is gone, an echo counts as another outbound delivery, and a quick send overtaken by
  its echo is shown as "received"; Instagram sends carry no status;
* media in a data URI are posted twice after a lost answer.

Webhooks and operators:

* a PATCH writes back what it read before an await, over an update made meanwhile;
* a payload whose long strings were shortened for the evidence passes for whole and
  is redelivered in its shortened form (`routers/webhook_center.py:79-98`);
* a redelivery uses the configuration it read before the await; an action whose
  process dies, or whose last write raises, stays "running" and blocks its key; one whose
  first write raises stays "pending" and does the same;
* the action store forgets a running action for newer ones
  (`services/manual_delivery_actions.py:185`) or with an unreadable file (`:86`): its key
  dispatches again while the first dispatch is under way;
* an accepted delivery whose counters cannot be written has two rows, one ok and one
  failed, and one count (`services/webhook_delivery.py:331`, `:377`, `:449`).

Groups: the registration writes back a record it read before its lock, and does not
look at the stored policy after Core's answer, so a policy that disables the groups
meanwhile is overwritten; deleting a WhatsApp connection leaves the key of its Core
channel.

Alerts and automations: a request that listed the connections earlier forgets a
dismissal made since; a resolution by an operator suppresses the incident for ever;
"delete resolved" also dismisses an incident that is open again; an operator's pause
during an execution that fails becomes "error"; an execution whose process dies stays
"running"; `create_alert` is a stub and reported as done; an automation whose action
leaves an audit record can start itself.

Instagram and Meta: one due token that cannot be decrypted ends every sweep at its
record, and the tokens behind it are not refreshed until it is replaced, deleted or has
expired (`services/instagram_token_refresh.py:33`, caught at `:55`, outside of the loop);
a refresh can overwrite a new authorization of the account; a
refused binding leaves a credential nobody owns; a callback whose setup another
callback has made ready for another account ends without a word; the checkpoints of an
onboarding do not name their number, so that a resumed onboarding of another number
skips its subscription and registration; a failed listing of pages marks them removed;
of two onboardings the slower writes its whole record over the other's.

## 5. Proofs

The theorems hold for every value of the constants that satisfies the named
assumptions, which TLC evaluates in every run. They are safety properties; each
follows from an inductive invariant of the form `Init => Inv`,
`Inv /\ [Next]_vars => Inv'`.

**The outbox** (`CoreInboundOutboxProofs`), from `MessagesAssumption` (messages
belong to groups), `TimingAssumption` (delays, leases and bounds are naturals) and
`NoneAssumption` (`None` is no event), for any set of workers and both stores.

| Theorem | Establishes |
|---|---|
| `HandoffInvariant` | `HandoffInv` is invariant |
| `TypeCorrect` | `TypeOK` |
| `AcknowledgedIsNotLost` | `NoEventLost` |
| `DeliveredMeansProcessed` | `DeliveredIsProcessed` |
| `OutboxImplementsHandoff` | the outbox implements `DurableHandoff` |
| `SoleWriterOwnsItsClaims` | `ClaimIsExclusive`, one worker |
| `SoleWriterHonoursBudget` | `RetryBudget`, one worker |
| `SoleWriterNeverReopens` | `DeliveredIsFinal`, one worker |

`NoEventLost` is not inductive: a record is pruned when it is *delivered*, so one
must know that delivered means processed; that a settle writes *delivered* only
after Core's answer, so that an *acknowledged* outcome in a worker's hand means
processed (`AcknowledgedIsProcessed`); and that only events which were queued are
in a claim or on the wire (`OnlyQueuedCirculates`). `HandoffInv` is the
conjunction. It says nothing of claims and so survives unfenced writes by several
workers. The refinement uses it once more: what `Ingest` prunes is a subset of
what Core has processed, which is what `DurableHandoff!Accept` allows.

The three properties of a sole writer are false with two (the runs with two
writers do not list them) and are proved under `\A v, w \in Workers : v = w`.
`SoleWriterInv` adds that what the worker holds is *delivering*, that the event
it is posting has left its batch, and that between the two halves of
`retry_or_dead_letter` the attempts it read are still those of the record.

**The operations queue** (`OperationsQueueProofs`), from `OperationsAssumption`, for
any set of targets, any concurrency and lease, any number of jobs, process deaths
and changes of connections.

| Theorem | Establishes |
|---|---|
| `QueueInvariant` | `QueueInv` is invariant |
| `QueueTypeCorrect` | `TypeOK` |
| `CancelledStaysCancelled` | `CancellationHolds` |
| `EndedHasEveryOutcome` | `EndedIsComplete` |
| `EndedNeverChanges` | `EndedIsFinal` |
| `VerdictsAreTrue` | `VerdictIsTrue`, any finite set of targets |
| `QueueImplementsLedger` | the queue implements `JobLedger` |

`EndedIsComplete` needs to know, while the job still runs, that each target is at
work or has its result unless the job was cancelled (`NoTargetSkipped`);
`CancellationHolds` that a pending job was neither flagged nor begun
(`UnclaimedIsUntouched`); both, that the job being run is one that no one else has
ended (`ClaimedIsRunning`). `QueueInv` is the conjunction. `VerdictIsTrue` needs more: a job
that no crash disturbed has of each target one result, or none and is at work on it,
and a failure was told for as many targets as its results count (`CountInv`). The count
is a fold over a set. That it is the number of failed targets (`ErrorsAreFailures`) is
an induction over finite sets, carried out without an operator parameter: of the finite
sets for which the fact fails, as an ordinary set under strict inclusion, `WFMin` gives
a least one, and a least one there cannot be. The refinement needs, beside `QueueInv`,
that the worker works on targets of the job it runs (`WorksOnTargets`): a target that is
tried, or gets a result, is then one the job was accepted with. That a job which ends has
what `JobLedger!End` asks is `EndedIsComplete` one step earlier, at the step that ends
it.

**Attempts and resends** (`OutboundAttemptsProofs`), from `CallsAssumption` and
`BoundsAssumption`, for any calls and keys, any retention, any number of faults.

| Theorem | Establishes |
|---|---|
| `SendingInvariant` | `EvidenceInv` and `ResendInv` are invariant |
| `SendingTypeCorrect` | `TypeOK` |
| `RecordsAreTrue` | `EvidenceIsTrue` |
| `ResendsAreJustified` | `ResentOnlyIfFailed` |
| `ResendsDoNotOverlap` | `OneResendAtATime` |
| `CompletedResendIsFinal` | `CompletedResendIsLast` |
| `KeysAreHonoured` | `OneSendPerKey` |
| `SendingImplementsLedger` | sending implements `SendLedger` |

What a record says of the provider depends on where the call that wrote it is
(`Evidence`), so the invariant adds that a call that has not sent is unknown to the
provider (`UnsentIsNotIssued`), which takes a send once (`TakenOnce`), and that a
recorded message id is one the provider gave (`KnownIsTaken`). For the resends,
`ResendInv` adds that what is being resent is guarded by `inflight`, and that no
resend looks up a message which a completed one has sent: the check and the entry
in the actions file are one step. A `different key` after a resend that *failed* is
not covered, and could not be: `outbound_resend_twice` refutes it.

The refinement adds to the two invariants that a call is answered when it ends, and that
a resend under way is not on record as completed (`AnsweredWhenDone`): so a caller is told
once, and completing a resend releases what it held in the same step. The premises of
`SendLedger!Send` and `Tell` are what the invariants say of the state before the step:
that a request which sends has no record beside it with its key is
`create_or_get_by_idempotency`; that a repeated request which is told "accepted" has a
call with its key that the provider took is `Evidence` of the record it found; that a
resend holds a message the provider gave up is `ResentOnlyIfFailed`. A crash, and a file
that reads as empty, map to `Lose`: the ledger may forget who holds what and what was
sent again, which is why a resend of a lost action is allowed there as it is in the code.

**Setups** (`ConnectionSetupProofs`), from `SetupAssumption`, for any setups of any
kinds, any completions in flight, accounts, crashes and answers that are lost.

| Theorem | Establishes |
|---|---|
| `SetupTypeCorrect` | `TypeOK` |
| `AccountsAreBoundOnce` | `AccountBoundOnce` |
| `PublishedSetupsAreReady` | `PublishedIsReady`: of every `Steady` setup |
| `ClosedSetupsLeaveNothing` | `ClosedLeavesNothing`: of every `Steady` setup |
| `ReadySetupsAreSpared` | `CleanupSparesReady`: of every `Steady` setup |
| `ReadySetupsStayReady` | `ReadyIsFinal`: of every `Steady` setup |
| `ClosedSetupsStayClosed` | `OnlyItsCallRevives`: of every setup |
| `SetupsImplementLifecycle` | setups implement `ReadyOrNothing`, if `Overtaking = {}` |

Only the last has a condition. `AccountBoundOnce` needs that an account is held only by
a published connection, since that is what `Unbound` looks at (`AccountInv`). What a
cancellation or an expiry during an Evolution call breaks is the setup it happens to
(`setup_revived`), and no other: a step on one setup leaves what is stored of the
others, their calls and their clean-ups alone (`StepsAreApart`). So `SetupInv` is stated
setup by setup, for those that are `Steady`: every Meta setup, and every Evolution setup
outside of `Overtaking`. It says that a call in flight belongs to a setup that is being
provisioned, and that the record it holds says so (`CallIsCurrent`); that a clean-up in
flight is of a closed setup (`CleanupIsOfClosed`); that what is active requires none;
and that each kind has its own resource, so that Meta assets never reach the worker's
delete. `ReadyIsFinal` follows from `NextMoves`: under `SetupInv` a step leaves a
setup's state as it was, or the state was active or failed, or it goes from closed to
closed. `OnlyItsCallRevives` holds of the setups that are overtaken too: a closed setup
without a call gets none, completions look at its state again when they end, and a
clean-up leaves it closed (`NextStaysClosed`). So what `setup_revived` shows has no
other cause than the one call that was in flight. The refinement adds `KeptInv`: an
Evolution call that was answered has its instance on record, and so has a clean-up in
flight, whose setup still waits for it. Then what ends a setup for good finds nothing on
record or clears it in the same step, and what makes it ready publishes its connection
with it.

**The pipeline** (`InboundPipelineProofs`), from `RoutesAssumption` and
`LimitsAssumption`, for any messages, webhooks, limits, outages and restarts.

| Theorem | Establishes |
|---|---|
| `PipelineInvariant` | `PersistInv` and `DispatchInv` are invariant |
| `RememberedIsForwardedOnce` | `OneForwardPerMemory` |
| `ForwardedIsOnTheTimeline` | `ForwardedIsPersisted` |
| `AcceptedIsSettled` | `AcceptedIsAccountedFor` |

`MemoryInv`: what the dedupe store does not hold counts no forward; the argument
uses nothing of how the store evicts. `PersistInv`: an event that is in memory and
not in the file had its first write refused, which is why a repeated message can
pass for saved. `DispatchInv`: a dispatch under way belongs to a running task, the
webhooks that want the message have their dispatch from the moment the task runs,
and a task that ended has all their verdicts; only a restart, which begins another
life, loses a task.

**Instagram accounts** (`ProviderAccountsProofs`), from `InstagramAssumption`,
for any connections, setups, accounts, OAuth states, number of ageing tokens,
revocations and deaths.

| Theorem | Establishes |
|---|---|
| `AccountHasOneConnection` | `OneConnectionPerAccount` |
| `BindingKeepsToken` | `BoundHasToken` |
| `ReadyAccountsAreSubscribed` | `ReadyIsSubscribed` |

`OneConnectionPerAccount` and `BoundHasToken` are inductive with the types
(`InstagramTypes`): the check that an account is free and its binding are one step, and
while an account has one connection only that connection's disconnection or deletion
removes its token; a death may change which tokens can be decrypted, not which are
stored (`CrashKeepsCredentials`). `ReadyIsSubscribed` is not: a verification asks Meta
about one account and may come back to another. `SubscriptionKnown` says of every
verification under way, of a request or of a callback, that if the account has changed
meanwhile, its own callback has subscribed the new one.

**Onboarding of WhatsApp numbers** (`ProviderAccountsProofs`), from `MetaAssumption`, for
any instances, numbers, runs that overlap, failures, late registrations and deaths.

| Theorem | Establishes |
|---|---|
| `ReadyNumbersAreOperational` | `ReadyIsOperational`, if `~Renumbering` |
| `GeneratedPinIsKept` | `PinIsKept`, if `~Renumbering` |
| `ProviderAccountTypes` | `TypesOK` of the instance in which either moves |

A record written by one run may hold the checkpoints of another, so the invariant
ties no checkpoint to the run that wrote it: each one in a record, or in the copy a
run holds, was earned by *some* run of the instance (`CheckpointsEarned`), and what a
run has earned at Meta stays (`Persistence`). `Paired` (one number, one instance) then
makes these the same number; it is what `Renumbering` breaks. For the PIN,
`PinsOfRuns` says that a run uses the stored PIN unless the owner typed one in, and
`PinsAtMeta` that Meta has a PIN from a run of that number.

**The control plane** (`ControlPlaneProofs`), from `WhAssumption`, `GtAssumption`,
`AlAssumption` and `AuAssumption`, for any webhooks, connections, automations, requests
at once, limits and deaths.

| Theorem | Establishes |
|---|---|
| `PoliciesFollowTheBinding` | `BindingIsWhole` |
| `IncidentsHaveOneAlert` | `OneAlertPerIncident` |
| `StoredSecretsAreReadable` | `SecretsAreReadable` |
| `ManualDeliveriesAreTrue` | `ManualActionsAreTrue` |
| `CountersFollowTheEvidence` | `CountsAreEvidenced` |
| `AutomationsTellTheTruth` | `AutomationsTell` |
| `EvidenceIsKept` | `EvidenceIsRetained` |
| `ManualDeliveryImplementsOneDispatch` | the redeliveries implement `OneDispatchPerKey` |
| `ControlPlaneTypes` | `TypesOK` of the instance in which the parts take turns |

`BindingIsWhole` is inductive once the coroutines have their form (`GtForm`). The alerts
need `Single`: of the alerts of one incident an open one is alone, whoever closed the
others. For the webhooks, `WhInv` adds to the form of every record that a key has been
dispatched, since it was last forgotten, at most once and only while its action is kept,
that no two keys have one action, and that a route whose action is still kept is the one
that made it, with the action running until it is told (`Acting`); that what is in
memory is sealed (`Sealing`); and that the counters lag behind the rows by no more than
the deaths and the writes that raised (`Counting`). For the automations, `AuInv` adds to
the form of every record that an execution is carried out by one batch, whose memory of
what the actions came to agrees with what they did (`OwnExecutions`); so no other batch
disturbs the verdict, which holds for each entry of the history (`HistoryTells`) and for
the definition (`DefinitionsTell`). `EvidenceIsRetained` follows from a count: every
delivery that is kept has fewer than `Retention` newer ones of its webhook (`Newest`),
so of one more than that only the oldest goes, and it has exactly `Retention` newer
ones. The refinement maps what an action says and the keys that the endpoint has taken,
and forgets requests, routes, processes and evidence. `Acting` gives each of its steps:
a post, and the end of a dispatch, belong to a route whose action is running or
forgotten, so nothing is taken of a key after its outcome was told, no outcome is told
twice, and a dispatch that outlives its key says nothing of the next one with it.

**The timeline** (`MessageTimelineProofs`), from `TimelineAssumption`,
`NormalizationAssumption`, for `ReceivedAndKeptOnce` `NoticesAssumption` and for
`ReceivedIsKeptAsMeant` `TimesAssumption` (the times of a notice have one of the forms),
for any sends by any routes, any notices in any order, however often repeated, any
sizes of the three stores (as many keys as the code keeps for its events, or more), any
number of deaths and failed writes.

| Theorem | Establishes |
|---|---|
| `TimelineTypes` | `MtTypeOK` |
| `ReceivedAndKeptOnce` | `ReceivedOnce` |
| `SendsAreDeliveredOnce` | `OneDeliveryPerSend` |
| `TimelineIsRestored` | `TimelineSurvives` |
| `ShownIsWhatWasHeard` | `ShownAsHeard` |
| `ReceivedIsKeptAsMeant` | `KeptAsMeant` |

Each rests on `MtForm`, the form of every store, and on an invariant of its own:

* `ReceivedOnce` on `KeptOnce`. An event is refused while its key is remembered, so
  what must be known is that a key outlives its event. Keys and events are pushed out
  by different limits and not every event has a key, but fewer keys follow a key than
  events follow its event (`Remembered`); a restart rebuilds the keys from the layer
  in the same order, and re-establishes it. The file, which may be older than memory,
  must hold no event twice either, and of the sends it names none may still be under
  way (`KeptIsTrue`), or their event would be made a second time.
* `OneDeliveryPerSend` on `AttemptedOnce` (a send has one attempt, made when it is
  new), on `TakenOnce` and, for events, on `KeptOnce`. `MayBeTaken` says how often the
  provider can have taken a send at each point of its request.
* `TimelineSurvives` on `FileIsTrue`: the file is sorted, and is the newest part of
  the timeline whenever it is current. A restart splits the file into two layers and
  the next listing merges them. The result is the file again because two arrangements
  of a sorted sequence differ by a numbering that grows, and such a numbering is the
  identity.
* `ShownAsHeard` on `HeardIsKept`: times fall along the layer, and a status that was
  heard of either has its event or no event that is kept is older than it, since the
  oldest goes first. So if a status of a message is shown, the newest hearing of it
  still has its event; and of two events of one time it is the right one, because the
  merge is stable.
* `KeptAsMeant` on the operators of `MessageNormalization` (`NormalizedMeans`), for every
  notice: an event is only made by a normalisation, and every store, file and restart
  passes it on unchanged. The argument is about times. `ToInt64` puts a long together
  from a signed high half and the low bits of the other one; that this is the one number
  of two halves which agrees with both modulo `Base` needs that division with remainder
  is unique (`OneDivision`, `OneOfHalves`). `SaysNothing` names the one time that is
  there and is not read: an unsigned long of 2^63 or more whose high half came negative.

**Model-checked only.** Liveness (`EveryEventSettles`, `RevokedComesToRest`,
`EveryJobEndsOrStrands`, `NoSetupLingers`, `AbandonedIsDeleted`, `EveryForwardEnds`,
`DueTokensAreSettled`): liveness under fairness and `ENABLED` are not supported by the
prover. The library's induction theorems take operator parameters that no installed
backend can instantiate; where an induction was needed it is one over sets, by `WFMin`,
and what a recursive function computes for every input is not proved. `TypeOK` of
`InboundPipeline` (its proofs use `Typed`, the part they need) holds on the instance of
`inbound` and is not listed by it. The disagreements of section 4 are counterexamples
and have no proof. No module that is proved about declares a `RECURSIVE` operator.

## 6. What is not modelled

`PROJECT.json` lists every component. Left out: static catalogues and the
provisioning preview, which nothing durable depends on; authentication, users and
settings (stateless checks, single records under one lock); counters, dashboards and
reports that nothing decides on; the streaming and conversion of media, history
imports and exports; the browser panel, which keeps no authoritative state; the
deployment scripts. Of components that are modelled: names, logos and QR codes of
connections, participants and message exports of groups, filters of listings,
uploads and number checks. A provider adapter is, where its retries do not matter,
the nondeterministic answer of the model that calls it.

## 7. Plan

Done: every component above with operations that change durable state, each with an
instance; every invariant and every action property that a run checks is a theorem; five
components implement an abstract specification, on instances and by proof
(`DurableHandoff`, `SendLedger`, `JobLedger`, `ReadyOrNothing`, `OneDispatchPerKey`).
What remains to prove are the liveness properties, should a prover for them become
available, and more abstract specifications: the checkpoints of an onboarding as a set
that only grows, the pipeline as a relay. To model next: the import of Instagram history
against incoming messages, and the participants of groups.
