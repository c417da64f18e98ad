---------------------------- MODULE WebhookCenter ----------------------------
(***************************************************************************)
(* The webhooks of the customers and what an operator does with them: the  *)
(* configuration store with its encrypted secrets, the delivery evidence,  *)
(* tests, repeated tests and redeliveries with their idempotency keys.     *)
(* services/instance_webhooks.py, webhook_deliveries.py,                   *)
(* webhook_delivery.py, routers/webhook_center.py, instance_webhooks.py.   *)
(*                                                                         *)
(* One process, one event loop: a step ends where the code awaits.  The    *)
(* requests of webhook_center await the list of connections between        *)
(* reading the webhook and using what they read; the requests of           *)
(* instance_webhooks do not.                                               *)
(***************************************************************************)
EXTENDS Naturals, FiniteSets, Sequences, TLC

CONSTANTS
    Hooks,           \* webhook identifiers
    WhRoutes,        \* requests and forwards that are in progress at once
    WhKeys,          \* Idempotency-Key values
    Urls, Secrets,   \* what an operator may type in
    NoHook, NoSecret,
    Payloads,        \* what the payload of an event or of a test is to the preview
    Retention,       \* deliveries kept per webhook
    ActionsKept,     \* actions kept, of all operators and kinds
    Attempts,        \* posts of one dispatch (4 in the code)
    Writes,          \* bound: changes of the configuration by an operator
    Dispatches,      \* bound: dispatches
    WhCrashes,       \* bound: process deaths
    WhFaults,        \* bound: writes of a file that raise
    WhLosses         \* bound: files, or the oldest of them, that are lost

ASSUME WhAssumption ==
    /\ NoHook \notin Hooks /\ NoSecret \notin Secrets
    /\ IsFiniteSet(WhKeys)
    /\ Payloads \subseteq {"short", "long", "huge", "secret"}
    /\ Retention \in Nat \ {0} /\ ActionsKept \in Nat \ {0} /\ Attempts \in Nat \ {0}
    /\ Writes \in Nat /\ Dispatches \in Nat
    /\ WhCrashes \in Nat /\ WhFaults \in Nat /\ WhLosses \in Nat

VARIABLES
    hooks,       \* instance_webhooks.json: the configuration of each webhook
    ciphers,     \* the keys of the running process; empty: no process runs
    deliveries,  \* webhook_deliveries.json; the identifiers grow with time
    actions,     \* manual_delivery_actions.json, by idempotency key; the
                 \* identifiers of the actions grow with time
    routes,      \* the coroutines
    seen,        \* history: deliveries and actions ever recorded, dispatches of each
                 \* key since it was forgotten, actions that reached an endpoint
    spent        \* the bounds used up

whVars == <<hooks, ciphers, deliveries, actions, routes, seen, spent>>

AuthTypes == {"NONE", "BEARER"}
Forms == {"plain", "fallback", "configured"}
Webhook == [enabled: BOOLEAN, url: Urls, auth: AuthTypes, secret: Secrets \cup {NoSecret},
            form: Forms, ok: Nat, failed: Nat]

Texts == {"whole", "shortened", "cut", "redacted"}
Idle == [pc |-> "idle"]

\* The stores may hold a webhook, and a delivery, of an earlier process; a
\* store that is missing or cannot be read is empty.
Exists(h) == hooks[h] # NoHook
Kept == {{}} \cup {{[id |-> 1, hook |-> h, test |-> t, ok |-> TRUE, text |-> x, truncated |-> x = "cut"]} :
                     h \in Hooks, t \in BOOLEAN, x \in {"whole", "shortened", "cut"}}
KeptOf(h) == Cardinality({d \in deliveries : d.hook = h})
StoredHook(h) ==
    {NoHook} \cup [enabled: {TRUE}, url: Urls, auth: {"BEARER"}, secret: Secrets, form: {"plain"},
                   ok: {KeptOf(h)}, failed: {0}]
NoAction == [status |-> "none", id |-> 0]

WhInit ==
    /\ deliveries \in Kept
    /\ hooks \in [Hooks -> UNION {StoredHook(h) : h \in Hooks}] /\ \A h \in Hooks : hooks[h] \in StoredHook(h)
    /\ ciphers = <<>>
    /\ actions = [k \in WhKeys |-> NoAction]
    /\ routes = [r \in WhRoutes |-> Idle]
    /\ seen = [recorded |-> [h \in Hooks |-> KeptOf(h)], last |-> Cardinality(deliveries), made |-> 0,
               runs |-> [k \in WhKeys |-> 0], landed |-> {}]
    /\ spent = [writes |-> 0, dispatches |-> 0, crashes |-> 0, faults |-> 0, losses |-> 0]

Up == ciphers # <<>>
Spend(what, limit) == spent[what] < limit /\ spent' = [spent EXCEPT ![what] = @ + 1]

-------------------------------------------------------------------------------
(* The configuration store.                                                *)

\* The configured key first, then the key that protected the secrets before.
Ciphers_NoFallback(configured) == IF configured THEN <<"configured">> ELSE <<"fallback">>
Ciphers(configured) == IF configured THEN <<"configured", "fallback">> ELSE <<"fallback">>

\* Plain text is taken as it is; cipher text needs the key it was made with.
Opens(key, form) == form \in {"plain", key}
Decrypts(hook, keys) ==
    hook.secret = NoSecret \/ \E i \in DOMAIN keys : Opens(keys[i], hook.form)

Sealed(hook, keys) ==
    [hook EXCEPT !.form = IF hook.secret = NoSecret THEN "plain" ELSE Head(keys)]

\* At startup every secret is decrypted and encrypted with the first key.  One
\* that no key decrypts makes the startup raise: no process runs.
Start(configured) ==
    LET keys == Ciphers(configured) IN
    /\ ~Up
    /\ \A h \in Hooks : Exists(h) => Decrypts(hooks[h], keys)
    /\ ciphers' = keys
    /\ hooks' = [h \in Hooks |-> IF Exists(h) THEN Sealed(hooks[h], keys) ELSE NoHook]
    /\ UNCHANGED <<deliveries, actions, routes, seen, spent>>

\* A blank secret keeps the one that is stored, unless the type changes.
Merged(hook, auth, given) ==
    IF hook.auth = auth /\ given = NoSecret THEN hook.secret ELSE given

Updated(h, url, enabled, auth, given) ==
    [hooks EXCEPT ![h] = Sealed([@ EXCEPT !.url = url, !.enabled = enabled, !.auth = auth,
                                          !.secret = Merged(hooks[h], auth, given)], ciphers)]

Create(h, url, auth, given) ==
    /\ Up /\ ~Exists(h) /\ seen.recorded[h] = 0
    /\ Spend("writes", Writes)
    /\ hooks' = [hooks EXCEPT ![h] = Sealed([enabled |-> TRUE, url |-> url, auth |-> auth, secret |-> given,
                                             form |-> "plain", ok |-> 0, failed |-> 0], ciphers)]
    /\ UNCHANGED <<ciphers, deliveries, actions, routes, seen>>

Put(h, url, enabled, auth, given) ==
    /\ Up /\ Exists(h)
    /\ Spend("writes", Writes)
    /\ hooks' = Updated(h, url, enabled, auth, given)
    /\ UNCHANGED <<ciphers, deliveries, actions, routes, seen>>

SetEnabled(h, enabled) ==
    /\ Up /\ Exists(h)
    /\ Spend("writes", Writes)
    /\ hooks' = [hooks EXCEPT ![h].enabled = enabled]
    /\ UNCHANGED <<ciphers, deliveries, actions, routes, seen>>

\* The evidence of a webhook that is deleted stays.
Delete(h) ==
    /\ Up /\ Exists(h)
    /\ Spend("writes", Writes)
    /\ hooks' = [hooks EXCEPT ![h] = NoHook]
    /\ UNCHANGED <<ciphers, deliveries, actions, routes, seen>>

-------------------------------------------------------------------------------
(* The evidence.                                                           *)

\* Long strings are shortened and secrets redacted first; only what is still
\* too long after that is flagged as truncated.  What is sent again is sent as
\* it was kept: "shortened".
Preview(payload) ==
    [text |-> CASE payload = "short" -> "whole"
                [] payload \in {"long", "shortened"} -> "shortened"
                [] payload = "huge" -> "cut"
                [] payload = "secret" -> "redacted",
     truncated |-> payload = "huge"]

Delivery(r, ok) ==
    LET shown == Preview(routes[r].payload) IN
    [id |-> seen.last + 1, hook |-> routes[r].hook, test |-> routes[r].test, ok |-> ok,
     text |-> shown.text, truncated |-> shown.truncated]

Newer(log, d) == {e \in log : e.hook = d.hook /\ e.id > d.id}

\* Each webhook keeps its newest deliveries.
Recorded_OneLimit(r, ok) ==
    LET log == deliveries \cup {Delivery(r, ok)}
    IN  {d \in log : Cardinality({e \in log : e.id > d.id}) < Retention}
Recorded(r, ok) ==
    LET log == deliveries \cup {Delivery(r, ok)}
    IN  {d \in log : d.hook # routes[r].hook \/ Cardinality(Newer(log, d)) < Retention}

\* The counters of the webhook, if it is still configured.
Counted(h, ok) ==
    IF ~Exists(h) THEN hooks
    ELSE IF ok THEN [hooks EXCEPT ![h].ok = @ + 1] ELSE [hooks EXCEPT ![h].failed = @ + 1]

-------------------------------------------------------------------------------
(* Requests of the operators.                                              *)

Requests ==
    [what : {"enable"}, value : BOOLEAN] \cup [what : {"url"}, value : Urls]
    \cup [what : {"secret"}, value : Secrets] \cup [what : {"test"}]
    \cup [what : {"repeat", "redeliver"}, key : WhKeys, source : 1 .. Dispatches]

Configuration(h) == [url |-> hooks[h].url, enabled |-> hooks[h].enabled, auth |-> hooks[h].auth]

\* The webhook is read, with its secrets; then the connections are listed.
Ask(r, h, request) ==
    /\ Up /\ routes[r] = Idle /\ Exists(h)
    /\ routes' = [routes EXCEPT ![r] = [pc |-> "target", hook |-> h, item |-> Configuration(h), request |-> request]]
    /\ UNCHANGED <<hooks, ciphers, deliveries, actions, seen, spent>>

\* What the body leaves out is taken from what was read before the await.
Patch(r) ==
    LET q == routes[r].request  h == routes[r].hook  read == routes[r].item IN
    /\ routes[r].pc = "target" /\ q.what \in {"enable", "url", "secret"}
    /\ IF Exists(h)
       THEN hooks' = Updated(h, IF q.what = "url" THEN q.value ELSE read.url,
                             IF q.what = "enable" THEN q.value ELSE read.enabled,
                             read.auth, IF q.what = "secret" THEN q.value ELSE NoSecret)
       ELSE hooks' = hooks
    /\ routes' = [routes EXCEPT ![r] = Idle]
    /\ UNCHANGED <<ciphers, deliveries, actions, seen, spent>>

\* A dispatch that is made for no action has action 0.
Dispatching(r, test, payload, action) ==
    [pc |-> "posting", hook |-> routes[r].hook, test |-> test,
     payload |-> payload, action |-> action, left |-> Attempts]

\* A test, of the standard payload or of one that is given, is sent whether the
\* webhook subscribes to the event or not.
Test(r, payload) ==
    /\ routes[r].pc = "target" /\ routes[r].request.what = "test"
    /\ routes[r].item.enabled
    /\ Spend("dispatches", Dispatches)
    /\ routes' = [routes EXCEPT ![r] = Dispatching(r, TRUE, payload, 0)]
    /\ UNCHANGED <<hooks, ciphers, deliveries, actions, seen>>

\* A payload that is flagged, cannot be parsed or holds a redaction is refused.
Reconstructible(d) == ~d.truncated /\ d.text \notin {"cut", "redacted"}

Sources(r) ==
    {d \in deliveries : /\ Exists(routes[r].hook)
                        /\ d.hook = routes[r].hook /\ d.id = routes[r].request.source
                        /\ d.test = (routes[r].request.what = "repeat")
                        /\ d.test \/ Reconstructible(d)}

Manual(r) == routes[r].pc = "target" /\ routes[r].request.what \in {"repeat", "redeliver"}

\* The first request with a key makes the action; a later one, of the same
\* operation or not, makes none.
IsFirst_NotEnded(k) == actions[k].status \in {"none", "running"}
IsFirst(k) == actions[k].status = "none"

\* The newest actions are kept, whether or not they are running: the key of
\* another one is forgotten.
Newest(acts, limit) ==
    [k \in WhKeys |-> IF Cardinality({j \in WhKeys : acts[j].id > acts[k].id}) < limit THEN acts[k] ELSE NoAction]

Runs(acts, runs) == [k \in WhKeys |-> IF acts[k].status = "none" THEN 0 ELSE runs[k]]

Made(k, status) == Newest([actions EXCEPT ![k] = [status |-> status, id |-> seen.made + 1]], ActionsKept)

\* A test is repeated with the standard payload.
Redelivered(d) == IF d.test \/ d.text = "whole" THEN "short" ELSE d.text

\* The action is made, and running at once.
Begin(r) ==
    LET k == routes[r].request.key  acts == Made(k, "running") IN
    /\ Manual(r) /\ routes[r].item.enabled /\ IsFirst(k)
    /\ Spend("dispatches", Dispatches)
    /\ actions' = acts
    /\ seen' = [seen EXCEPT !.made = @ + 1, !.runs = Runs(acts, [seen.runs EXCEPT ![k] = @ + 1])]
    /\ \E d \in Sources(r) :
         routes' = [routes EXCEPT ![r] = Dispatching(r, d.test, Redelivered(d), seen.made + 1)]
    /\ UNCHANGED <<hooks, ciphers, deliveries>>

\* The write that says it is running raises: it stays pending and is not sent.
BeginFails(r) ==
    LET k == routes[r].request.key  acts == Made(k, "pending") IN
    /\ Manual(r) /\ routes[r].item.enabled /\ IsFirst(k) /\ Sources(r) # {}
    /\ Spend("faults", WhFaults)
    /\ actions' = acts
    /\ seen' = [seen EXCEPT !.made = @ + 1, !.runs = Runs(acts, @)]
    /\ routes' = [routes EXCEPT ![r] = Idle]
    /\ UNCHANGED <<hooks, ciphers, deliveries>>

\* Refused, for any of these reasons or by the rate limit of the operator, or
\* answered with what the action of this key has become.
Answer(r) ==
    /\ \/ Manual(r)
       \/ routes[r].pc = "target" /\ routes[r].request.what = "test" /\ ~routes[r].item.enabled
    /\ routes' = [routes EXCEPT ![r] = Idle]
    /\ UNCHANGED <<hooks, ciphers, deliveries, actions, seen, spent>>

\* An event that the filters of an enabled webhook let through is forwarded.
Forward(r, h, payload) ==
    /\ Up /\ routes[r] = Idle /\ Exists(h) /\ hooks[h].enabled
    /\ Spend("dispatches", Dispatches)
    /\ routes' = [routes EXCEPT ![r] = [pc |-> "posting", hook |-> h, test |-> FALSE,
                                        payload |-> payload, action |-> 0, left |-> Attempts]]
    /\ UNCHANGED <<hooks, ciphers, deliveries, actions, seen>>

-------------------------------------------------------------------------------
(* The dispatch.                                                           *)

\* The endpoint may take a post whose answer never arrives.
Outcomes == {"accepted", "refused", "unanswered", "unreachable"}
Lands(outcome) == outcome \in {"accepted", "unanswered"}

\* A refusal is not retried; the last of the attempts is not either.
IsLast(r, outcome) == outcome \in {"accepted", "refused"} \/ routes[r].left = 1

Landed(r, outcome) ==
    IF Lands(outcome) /\ routes[r].action # 0 THEN seen.landed \cup {routes[r].action} ELSE seen.landed

Retry(r, outcome) ==
    /\ routes[r].pc = "posting" /\ ~IsLast(r, outcome)
    /\ routes' = [routes EXCEPT ![r].left = @ - 1]
    /\ seen' = [seen EXCEPT !.landed = Landed(r, outcome)]
    /\ UNCHANGED <<hooks, ciphers, deliveries, actions, spent>>

\* What append_dispatch_history writes: the row, then the counters; either
\* write may raise, and what follows it is not written.
Extents == {"both", "row", "none"}

Noted(r, recorded, landed) ==
    IF recorded
    THEN [seen EXCEPT !.landed = landed, !.last = @ + 1, !.recorded[routes[r].hook] = @ + 1]
    ELSE [seen EXCEPT !.landed = landed]

AppendHistory_CountersFirst(r, ok, extent, landed) ==
    /\ extent = "row" => Exists(routes[r].hook)
    /\ deliveries' = IF extent = "both" THEN Recorded(r, ok) ELSE deliveries
    /\ hooks' = IF extent # "none" THEN Counted(routes[r].hook, ok) ELSE hooks
    /\ seen' = Noted(r, extent = "both", landed)
AppendHistory(r, ok, extent, landed) ==
    /\ extent = "row" => Exists(routes[r].hook)
    /\ deliveries' = IF extent # "none" THEN Recorded(r, ok) ELSE deliveries
    /\ hooks' = IF extent = "both" THEN Counted(routes[r].hook, ok) ELSE hooks
    /\ seen' = Noted(r, extent # "none", landed)

Charged(extent) == IF extent = "both" THEN spent' = spent ELSE Spend("faults", WhFaults)

ActionStatus_AnyAnswer(outcome) == IF outcome = "unreachable" THEN "failed" ELSE "completed"
ActionStatus(outcome) == IF outcome = "accepted" THEN "completed" ELSE "failed"

\* What is left to do: to tell the action, if there is one.
Telling(r, status) ==
    IF routes[r].action = 0 THEN Idle
    ELSE [pc |-> "telling", action |-> routes[r].action, status |-> status]

\* The evidence and the counters of a delivery.  Those of an accepted one are
\* written inside the try of its attempt: a write that raises there is taken
\* for a failing attempt that is not retried, and a failure is recorded next.
\* One that raises at a failure leaves the dispatcher, and the route of an
\* action tells that it failed.
End(r, outcome, extent) ==
    /\ routes[r].pc = "posting" /\ IsLast(r, outcome)
    /\ AppendHistory(r, outcome = "accepted", extent, Landed(r, outcome))
    /\ Charged(extent)
    /\ routes' = [routes EXCEPT ![r] = IF outcome = "accepted" /\ extent # "both"
                                      THEN [@ EXCEPT !.pc = "recording"]
                                      ELSE Telling(r, ActionStatus(outcome))]
    /\ UNCHANGED <<ciphers, actions>>

RecordFailure(r, extent) ==
    /\ routes[r].pc = "recording"
    /\ AppendHistory(r, FALSE, extent, seen.landed)
    /\ Charged(extent)
    /\ routes' = [routes EXCEPT ![r] = Telling(r, "failed")]
    /\ UNCHANGED <<ciphers, actions>>

\* An action that is no longer kept is not told of.
Tell(r) ==
    /\ routes[r].pc = "telling"
    /\ actions' = [k \in WhKeys |-> IF actions[k].id = routes[r].action
                                    THEN [actions[k] EXCEPT !.status = routes[r].status] ELSE actions[k]]
    /\ routes' = [routes EXCEPT ![r] = Idle]
    /\ UNCHANGED <<hooks, ciphers, deliveries, seen, spent>>

TellFails(r) ==
    /\ routes[r].pc = "telling"
    /\ Spend("faults", WhFaults)
    /\ routes' = [routes EXCEPT ![r] = Idle]
    /\ UNCHANGED <<hooks, ciphers, deliveries, actions, seen>>

Dies ==
    /\ Spend("crashes", WhCrashes)
    /\ ciphers' = <<>>
    /\ routes' = [r \in WhRoutes |-> Idle]
    /\ UNCHANGED actions

Crash == Up /\ Dies /\ UNCHANGED <<hooks, deliveries, seen>>

\* A death between the row and the counters.
CrashInEnd(r, outcome) ==
    /\ routes[r].pc = "posting" /\ IsLast(r, outcome)
    /\ AppendHistory(r, outcome = "accepted", "row", Landed(r, outcome))
    /\ Dies

CrashInRecord(r) ==
    /\ routes[r].pc = "recording"
    /\ AppendHistory(r, FALSE, "row", seen.landed)
    /\ Dies

\* A file that cannot be read is empty, and the actions on messages, kept in the
\* same file, push the oldest out.  (Webhooks that are lost are as if deleted.)
LoseActions(limit) ==
    /\ Spend("losses", WhLosses)
    /\ actions' = Newest(actions, limit)
    /\ seen' = [seen EXCEPT !.runs = Runs(Newest(actions, limit), @)]
    /\ UNCHANGED <<hooks, ciphers, deliveries, routes>>

LoseEvidence ==
    /\ Spend("losses", WhLosses)
    /\ deliveries' = {}
    /\ UNCHANGED <<hooks, ciphers, actions, routes, seen>>

\* No await lies between the last answer and the end of the request: while a
\* route writes, no other one moves.
Held == \E r \in WhRoutes : routes[r].pc \in {"recording", "telling"}

Operate ==
    \/ \E configured \in BOOLEAN : Start(configured)
    \/ \E h \in Hooks : Delete(h) \/ \E e \in BOOLEAN : SetEnabled(h, e)
    \/ \E h \in Hooks, u \in Urls, a \in AuthTypes, given \in Secrets \cup {NoSecret} :
          Create(h, u, a, given) \/ \E e \in BOOLEAN : Put(h, u, e, a, given)
    \/ \E r \in WhRoutes, h \in Hooks :
          (\E q \in Requests : Ask(r, h, q)) \/ (\E p \in Payloads : Forward(r, h, p))
    \/ \E r \in WhRoutes : Patch(r) \/ (\E p \in Payloads : Test(r, p)) \/ Begin(r) \/ BeginFails(r) \/ Answer(r)
    \/ \E r \in WhRoutes, o \in Outcomes : Retry(r, o) \/ (\E x \in Extents : End(r, o, x)) \/ CrashInEnd(r, o)

WhNext ==
    \/ ~Held /\ Operate
    \/ \E r \in WhRoutes, x \in Extents : RecordFailure(r, x)
    \/ \E r \in WhRoutes : Tell(r) \/ TellFails(r) \/ CrashInRecord(r)
    \/ \E limit \in 0 .. ActionsKept - 1 : LoseActions(limit)
    \/ LoseEvidence \/ Crash

WhSpec == WhInit /\ [][WhNext]_whVars

-------------------------------------------------------------------------------
(* Properties.                                                             *)

\* Every record has the form the code gives it.
WhTypeOK ==
    /\ hooks \in [Hooks -> Webhook \cup {NoHook}]
    /\ ciphers \in {<<>>, Ciphers(FALSE), Ciphers(TRUE)}
    /\ \A d \in deliveries : d.hook \in Hooks /\ d.text \in Texts /\ d.id \in 1 .. seen.last
    /\ actions \in [WhKeys -> [status: {"none", "pending", "running", "completed", "failed"}, id: 0 .. seen.made]]
    /\ \A r \in WhRoutes : routes[r].pc \in {"idle", "target", "posting", "recording", "telling"}

\* No secret is in the clear while the process runs, and setting the
\* configured key, at any time, leaves every stored secret readable: a
\* process that is started with it starts.
SecretsAreReadable ==
    \A h \in Hooks : Exists(h) =>
        /\ Decrypts(hooks[h], Ciphers(TRUE))
        /\ Up /\ hooks[h].secret # NoSecret => hooks[h].form # "plain"

\* What an action says.  A key is dispatched once, and again only after it was
\* forgotten, by the retention of the actions or with their file; an action is
\* completed only if the endpoint took that very delivery; and it stays running
\* only after a death or a write that raised: not for want of an answer, and not
\* because the row or the counters could not be written.
ManualActionsAreTrue ==
    \A k \in WhKeys :
        /\ seen.runs[k] <= 1
        /\ actions[k].status = "completed" => actions[k].id \in seen.landed
        /\ actions[k].status = "running" =>
              \/ spent.crashes > 0 \/ spent.faults > 0
              \/ \E r \in WhRoutes : routes[r].pc \in {"posting", "recording", "telling"} /\ routes[r].action = actions[k].id

\* The counters never claim a delivery without evidence, and miss one only for a
\* death or a raising write between the two files: the second row of an accepted
\* delivery, written after such a raise, is counted like any other.
CountsAreEvidenced ==
    \A h \in Hooks : Exists(h) =>
        LET counted == hooks[h].ok + hooks[h].failed IN
        counted <= seen.recorded[h] /\ seen.recorded[h] <= counted + spent.crashes + spent.faults

\* Evidence goes only for newer evidence of the same webhook, or with the whole
\* file: the traffic of another webhook, or the deletion of its own, leaves it.
EvidenceIsRetained ==
    [][deliveries' # {} => \A d \in deliveries \ deliveries' :
          Cardinality({e \in deliveries' : e.hook = d.hook /\ e.id > d.id}) = Retention]_whVars

\* While its key is kept, an operator's redelivery is dispatched once, is posted only
\* while it runs, and what its action says never changes again, whatever requests
\* repeat the key, whichever write raises and wherever the process dies; a delivery
\* that outlives its key says nothing of the next one (create_or_get_action,
\* update_action).
Once == INSTANCE OneDispatchPerKey WITH
    Keys <- WhKeys, status <- [k \in WhKeys |-> actions[k].status],
    reached <- {k \in WhKeys : actions[k].status # "none" /\ actions[k].id \in seen.landed}
DispatchesOncePerKey == Once!Spec
=============================================================================
