------------------------ MODULE InstagramAuthorization ------------------------
(***************************************************************************)
(* Instagram Business Login: the OAuth states, the callback with its three *)
(* calls to Meta, the binding of one professional account to one           *)
(* connection, the encrypted token store and the loop that keeps tokens    *)
(* alive, against disconnection, deletion and live verification.           *)
(* services/instagram_oauth.py, instagram_token_refresh.py,                *)
(* credential_manager.py, connections.py, and the Instagram part of        *)
(* routers/connections.py.                                                 *)
(*                                                                         *)
(* A step runs from one await to the next.  A token is named by the        *)
(* authorization (the OAuth state) that obtained it; what the refresh      *)
(* returns is the same authorization's.  Every variable that starts with a *)
(* verb in -ing is what a coroutine holds while it awaits.                 *)
(***************************************************************************)
EXTENDS Naturals, FiniteSets

CONSTANTS
    Setups,        \* Instagram setups; the connection a setup becomes has its name
    Linked,        \* connections that exist before any of this
    Accounts,      \* Instagram professional accounts, numbered as the token store orders them
    Intents,       \* OAuth states that are ever created
    NoAccount,
    Legacy,        \* the authorization of a connection made by an older version
    Disturbances   \* bound: requests of the operator, expiries, revocations, crashes

ASSUME InstagramAssumption ==
    /\ Setups \cap Linked = {}
    /\ Accounts \subseteq Nat
    /\ NoAccount \notin Accounts \cup Setups \cup Linked
    /\ Legacy \notin Intents
    /\ Disturbances \in Nat

VARIABLES
    conn,         \* the inventory
    setup,        \* the state of each setup
    cred,         \* the token store, by account
    intent,       \* each OAuth state and the callback that consumed it
    sweep,        \* snapshots of the credentials the refresh loop has still to visit
    refreshing,   \* the credential it is visiting
    verifying,    \* per connection: the account a verification asks Meta about
    coreCalls,    \* per connection: the calls to Core in flight
    deleting,     \* per connection: a deletion that is under way, or was cut short
    meta,         \* Meta's side: subscribed accounts, revoked authorizations
    disturbed

igVars == <<conn, setup, cred, intent, sweep, refreshing, verifying, coreCalls,
            deleting, meta, disturbed>>

Connections == Setups \cup Linked
Tokens == Intents \cup {Legacy}

\* The record of a connection, as far as Instagram is concerned.
Connection == [exists: BOOLEAN, state: {"oauth_pending", "connected", "disconnected"},
               account: Accounts \cup {NoAccount}, verified: BOOLEAN,
               core: {"none", "bound", "keyless"}]
Unmade == [exists |-> FALSE, state |-> "oauth_pending", account |-> NoAccount,
           verified |-> FALSE, core |-> "none"]

\* A stored token: whose it is, how far its expiry is, whether all scopes were granted,
\* and whether the key of the process decrypts it.
Credential == [token: Tokens, age: {"active", "due", "expired"}, scopes: BOOLEAN, readable: BOOLEAN]
NoCredential == [token |-> "none"]

Idle == [step |-> "idle"]

Stored(a) == cred[a] # NoCredential

IgInit ==
    /\ conn \in [Connections -> {Unmade} \cup
                   [exists: {TRUE}, state: {"oauth_pending"}, account: {NoAccount},
                    verified: {FALSE}, core: {"none"}] \cup
                   [exists: {TRUE}, state: {"connected"}, account: Accounts,
                    verified: {FALSE}, core: {"none"}]]
    /\ \A c \in Connections : conn[c].exists <=> c \in Linked
    /\ \A c, d \in Linked : c # d /\ conn[c].account # NoAccount => conn[c].account # conn[d].account
    /\ setup = [s \in Setups |-> "onboarding"]
    /\ cred \in [Accounts -> {NoCredential} \cup
                   [token: {Legacy}, age: {"active", "due"}, scopes: {TRUE}, readable: BOOLEAN]]
    /\ \A a \in Accounts : Stored(a) <=> \E c \in Linked : conn[c].account = a
    /\ intent = [i \in Intents |-> [stage |-> "unused"]]
    /\ sweep = {} /\ refreshing = Idle
    /\ verifying = [c \in Connections |-> NoAccount]
    /\ coreCalls = [c \in Connections |-> {}]
    /\ deleting = [c \in Connections |-> "no"]
    /\ meta = [subscribed |-> {}, revoked |-> {}]
    /\ disturbed = 0

-------------------------------------------------------------------------------
Disturb == disturbed < Disturbances /\ disturbed' = disturbed + 1

\* upsert_provider_credentials: the record is replaced whole, under the key in use.
Upsert(a, token, scopes) ==
    [cred EXCEPT ![a] = [token |-> token, age |-> "active", scopes |-> scopes, readable |-> TRUE]]

\* get_provider_access_token: nothing of no record; it raises for one that the key
\* does not decrypt.
HasToken(a, store) == store[a] # NoCredential /\ store[a].readable
Unreadable(a) == Stored(a) /\ ~cred[a].readable

\* instagram_readiness; the scopes count only where the caller requires them.
IsReady(c) ==
    LET r == conn[c] IN
    /\ r.exists /\ r.state # "disconnected" /\ r.account # NoAccount
    /\ Stored(r.account) /\ cred[r.account].age # "expired"
    /\ r.verified \/ (r.state = "connected" /\ r.core = "bound")

\* assert_instagram_provider_account_unbound
IsUnbound_Active(a, c) ==
    \A d \in Connections : conn[d].exists /\ conn[d].account = a /\ conn[d].verified => d = c
IsUnbound(a, c) == \A d \in Connections : conn[d].exists /\ conn[d].account = a => d = c

\* mark_meta_failed
SetupFailed(s) ==
    [setup EXCEPT ![s] = IF @ \in {"onboarding", "provisioning"} THEN "failed" ELSE @]

-------------------------------------------------------------------------------
(* The browser: authorize, and the callback that consumes the state.       *)

\* authorize_instagram: a setup can start from "onboarding" or "failed" only.
MayAuthorize(t) ==
    IF t \in Setups /\ ~conn[t].exists
    THEN setup[t] \in {"onboarding", "failed"}
    ELSE conn[t].exists

\* InstagramOAuthStateStore.create
Authorize(i, t) ==
    /\ intent[i].stage = "unused"
    /\ MayAuthorize(t)
    /\ intent' = [intent EXCEPT ![i] =
                    [stage |-> "issued", target |-> t, forSetup |-> ~conn[t].exists]]
    /\ UNCHANGED <<conn, setup, cred, sweep, refreshing, verifying, coreCalls, deleting, meta, disturbed>>

\* A state that is past its ttl is refused by consume and dropped by the next create.
ExpireState(i) ==
    /\ intent[i].stage = "issued"
    /\ intent' = [intent EXCEPT ![i] = [stage |-> "done"]]
    /\ UNCHANGED <<conn, setup, cred, sweep, refreshing, verifying, coreCalls, deleting, meta, disturbed>>

\* begin_meta_provisioning for a setup; a connection must only exist.
MayBegin(t) == IF t.forSetup THEN setup[t.target] \in {"onboarding", "provisioning", "failed"}
                             ELSE conn[t.target].exists

\* instagram_oauth_callback up to its first await.
Callback(i) ==
    LET t == intent[i] IN
    /\ t.stage = "issued"
    /\ \/ /\ MayBegin(t)
          /\ intent' = [intent EXCEPT ![i].stage = "exchange"]
          /\ setup' = IF t.forSetup THEN [setup EXCEPT ![t.target] = "provisioning"] ELSE setup
       \/ \* access_denied, no code, or a target that cannot go on
          /\ intent' = [intent EXCEPT ![i] = [stage |-> "done"]]
          /\ IF t.forSetup THEN setup' = SetupFailed(t.target) ELSE UNCHANGED setup
    /\ UNCHANGED <<conn, cred, sweep, refreshing, verifying, coreCalls, deleting, meta, disturbed>>

InFlight(i) == intent[i].stage \in {"exchange", "discovery", "subscription", "verification"}

\* Whatever a call to Meta raises ends the callback; its setup, if any, has failed.
CallbackFails(i) ==
    /\ InFlight(i)
    /\ intent' = [intent EXCEPT ![i] = [stage |-> "done"]]
    /\ IF intent[i].forSetup THEN setup' = SetupFailed(intent[i].target) ELSE UNCHANGED setup
    /\ UNCHANGED <<conn, cred, sweep, refreshing, verifying, coreCalls, deleting, meta, disturbed>>

\* exchange_code: the granted scopes may be fewer than the requested ones.
Exchange(i) ==
    /\ intent[i].stage = "exchange"
    /\ \E scopes \in BOOLEAN :
         intent' = [intent EXCEPT ![i] =
             [stage |-> "discovery", target |-> @.target, forSetup |-> @.forSetup, scopes |-> scopes]]
    /\ UNCHANGED <<conn, setup, cred, sweep, refreshing, verifying, coreCalls, deleting, meta, disturbed>>

\* discover_account: the account is the one the user logged in with.
Discover(i) ==
    /\ intent[i].stage = "discovery"
    /\ \E a \in Accounts :
         intent' = [intent EXCEPT ![i] =
             [stage |-> "subscription", target |-> @.target, forSetup |-> @.forSetup,
              scopes |-> @.scopes, account |-> a]]
    /\ UNCHANGED <<conn, setup, cred, sweep, refreshing, verifying, coreCalls, deleting, meta, disturbed>>

\* verify_messaging_webhook_subscription: the subscription may be in place although
\* the call that asked for it, or the read-back, has failed.
Subscribe(a) == meta' = [meta EXCEPT !.subscribed = @ \cup {a}]

SubscriptionUnconfirmed(i) ==
    /\ intent[i].stage = "subscription"
    /\ Subscribe(intent[i].account)
    /\ intent' = [intent EXCEPT ![i] = [stage |-> "done"]]
    /\ IF intent[i].forSetup THEN setup' = SetupFailed(intent[i].target) ELSE UNCHANGED setup
    /\ UNCHANGED <<conn, cred, sweep, refreshing, verifying, coreCalls, deleting, disturbed>>

\* complete_instagram and _promote: the setup must be provisioning.  One that another
\* callback has made ready is returned as it is.
CompleteSetup(s, a) ==
    IF setup[s] = "provisioning"
    THEN /\ setup' = [setup EXCEPT ![s] = "ready"]
         /\ conn' = [conn EXCEPT ![s] = [exists |-> TRUE, state |-> "connected", account |-> a,
                                         verified |-> TRUE, core |-> "none"]]
    ELSE UNCHANGED <<setup, conn>>

\* bind_instagram_provider_account: the readiness of the binding that is there can
\* refuse the new one.
MayRebind(c, store) ==
    LET r == conn[c] IN
    \/ r.state = "disconnected"
    \/ r.account = NoAccount
    \/ store[r.account] # NoCredential /\ store[r.account].age # "expired" /\ store[r.account].scopes

BindConnection(c, a, store) ==
    /\ UNCHANGED setup
    /\ IF MayRebind(c, store)
       THEN conn' = [conn EXCEPT ![c].state = "connected", ![c].account = a, ![c].verified = TRUE]
       ELSE UNCHANGED conn

\* The rest of the callback, from the answer of the last call to its own return: one
\* step, so that the check that the account is free and the binding cannot be parted.
\* The credential is stored before the binding, and stays when the binding is refused.
\* If scopes are missing, the connection is verified once more, with the token it has.
Bind(i) ==
    LET t == intent[i]
        c == t.target
        store == Upsert(t.account, i, t.scopes)
        free == IF t.forSetup THEN IsUnbound(t.account, NoAccount)
                              ELSE conn[c].exists /\ IsUnbound(t.account, c)
    IN
    /\ t.stage = "subscription"
    /\ Subscribe(t.account)
    /\ IF free
       THEN /\ cred' = store
            /\ IF t.forSetup THEN CompleteSetup(c, t.account) ELSE BindConnection(c, t.account, store)
       ELSE /\ IF t.forSetup THEN setup' = SetupFailed(c) ELSE UNCHANGED setup
            /\ UNCHANGED <<conn, cred>>
    /\ intent' = [intent EXCEPT ![i] =
                    IF free /\ ~t.scopes /\ conn'[c].account # NoAccount /\ HasToken(conn'[c].account, store)
                    THEN [@ EXCEPT !.stage = "verification", !.account = conn'[c].account]
                    ELSE [stage |-> "done"]]
    /\ UNCHANGED <<sweep, refreshing, verifying, coreCalls, deleting, disturbed>>

\* mark_instagram_meta_verified: whatever the connection is bound to by now
MarkVerified(c) ==
    IF conn[c].exists /\ conn[c].account # NoAccount
    THEN [conn EXCEPT ![c].verified = TRUE, ![c].state = "connected"] ELSE conn

\* _verify_instagram_connection at the end of a callback
Reverified(i) ==
    /\ intent[i].stage = "verification"
    /\ Subscribe(intent[i].account)
    /\ conn' = MarkVerified(intent[i].target)
    /\ intent' = [intent EXCEPT ![i] = [stage |-> "done"]]
    /\ UNCHANGED <<setup, cred, sweep, refreshing, verifying, coreCalls, deleting, disturbed>>

-------------------------------------------------------------------------------
(* The operator: verification, the Core channel, disconnection, deletion.  *)

\* verify_instagram_connection: Meta is not asked about a connection that is ready
StartVerify(c) ==
    LET a == conn[c].account IN
    /\ conn[c].exists /\ a # NoAccount /\ HasToken(a, cred)
    /\ ~(IsReady(c) /\ cred[a].scopes) /\ verifying[c] = NoAccount
    /\ Disturb
    /\ verifying' = [verifying EXCEPT ![c] = a]
    /\ UNCHANGED <<conn, setup, cred, intent, sweep, refreshing, coreCalls, deleting, meta>>

\* verify_connection answers, or raises
EndVerify(c) ==
    /\ verifying[c] # NoAccount
    /\ \/ Subscribe(verifying[c]) /\ conn' = MarkVerified(c)
       \/ UNCHANGED <<meta, conn>>
    /\ verifying' = [verifying EXCEPT ![c] = NoAccount]
    /\ UNCHANGED <<setup, cred, intent, sweep, refreshing, coreCalls, deleting, disturbed>>

\* _authorize_connection_target: a connection whose account has not passed every
\* verification can only be verified, disconnected, read and deleted.
RouteOpen_Always(c) == conn[c].exists
RouteOpen(c) == conn[c].exists /\ (conn[c].account = NoAccount \/ IsReady(c))

\* PUT instagram/core-channel, to the answer of Core
StartCoreBind(c) ==
    /\ RouteOpen(c) /\ "bind" \notin coreCalls[c] /\ Disturb
    /\ coreCalls' = [coreCalls EXCEPT ![c] = @ \cup {"bind"}]
    /\ UNCHANGED <<conn, setup, cred, intent, sweep, refreshing, verifying, deleting, meta>>

\* bind_instagram_core_channel: a connection that is gone gets its Core key back out
EndCoreBind(c) ==
    /\ "bind" \in coreCalls[c]
    /\ \/ conn' = IF conn[c].exists
                  THEN [conn EXCEPT ![c].core = "bound", ![c].state = "connected"] ELSE conn
       \/ UNCHANGED conn
    /\ coreCalls' = [coreCalls EXCEPT ![c] = @ \ {"bind"}]
    /\ UNCHANGED <<setup, cred, intent, sweep, refreshing, verifying, deleting, meta, disturbed>>

\* delete_provider_credentials for the account that is bound
Forget(c) == IF conn[c].account = NoAccount THEN cred
             ELSE [cred EXCEPT ![conn[c].account] = NoCredential]

\* disconnect_instagram_connection
Disconnect_KeepsAccount(c) ==
    IF conn[c].exists
    THEN /\ cred' = Forget(c)
         /\ conn' = [conn EXCEPT ![c].core = "none", ![c].state = "connected"]
    ELSE UNCHANGED <<cred, conn>>
Disconnect(c) ==
    IF conn[c].exists
    THEN /\ cred' = Forget(c)
         /\ conn' = [conn EXCEPT ![c].account = NoAccount, ![c].core = "none",
                                 ![c].verified = FALSE, ![c].state = "disconnected"]
    ELSE UNCHANGED <<cred, conn>>

\* disconnect_instagram: a Core binding is revoked first, over an await
StartDisconnect(c) ==
    /\ conn[c].exists /\ "revoke" \notin coreCalls[c] /\ Disturb
    /\ IF conn[c].core # "none"
       THEN coreCalls' = [coreCalls EXCEPT ![c] = @ \cup {"revoke"}] /\ UNCHANGED <<cred, conn>>
       ELSE Disconnect(c) /\ UNCHANGED coreCalls
    /\ UNCHANGED <<setup, intent, sweep, refreshing, verifying, deleting, meta>>

EndDisconnect(c) ==
    /\ "revoke" \in coreCalls[c]
    /\ Disconnect(c) \/ UNCHANGED <<cred, conn>>
    /\ coreCalls' = [coreCalls EXCEPT ![c] = @ \ {"revoke"}]
    /\ UNCHANGED <<setup, intent, sweep, refreshing, verifying, deleting, meta, disturbed>>

\* delete_connection: the secrets go first, the record after the listing of the runtime
StartDeleteConnection(c) ==
    /\ conn[c].exists /\ deleting[c] # "running" /\ Disturb
    /\ cred' = Forget(c)
    /\ conn' = [conn EXCEPT ![c].core = IF @ = "bound" THEN "keyless" ELSE @]
    /\ deleting' = [deleting EXCEPT ![c] = "running"]
    /\ UNCHANGED <<setup, intent, sweep, refreshing, verifying, coreCalls, meta>>

EndDeleteConnection(c) ==
    /\ deleting[c] = "running"
    /\ conn' = [conn EXCEPT ![c] = Unmade]
    /\ deleting' = [deleting EXCEPT ![c] = "no"]
    /\ UNCHANGED <<setup, cred, intent, sweep, refreshing, verifying, coreCalls, meta, disturbed>>

\* A setup is cancelled, or expires: provisioning can only expire.
CloseSetup(s) ==
    /\ setup[s] \in {"onboarding", "provisioning"} /\ Disturb
    /\ setup' = [setup EXCEPT ![s] = "closed"]
    /\ UNCHANGED <<conn, cred, intent, sweep, refreshing, verifying, coreCalls, deleting, meta>>

-------------------------------------------------------------------------------
(* The refresh loop: one coroutine, one credential at a time, over a list  *)
(* it took at the start.                                                   *)

\* list_provider_credentials, less those that are healthy or already expired
ListDue_Late == {a \in Accounts : Stored(a) /\ cred[a].age = "expired"}
ListDue == {a \in Accounts : Stored(a) /\ cred[a].age = "due"}

StartSweep ==
    /\ sweep = {} /\ refreshing = Idle
    /\ ListDue # {}
    /\ sweep' = {[account |-> a, scopes |-> cred[a].scopes] : a \in ListDue}
    /\ UNCHANGED <<conn, setup, cred, intent, refreshing, verifying, coreCalls, deleting, meta, disturbed>>

\* The list is visited in the order of the store.  The token is read anew: none is left
\* of a credential deleted since the list was taken, and the record that would be marked
\* expired does not exist either.  One that cannot be decrypted raises, and that is
\* caught outside of the loop over the list: nothing more is visited.
Visit(r) ==
    /\ refreshing = Idle /\ r \in sweep /\ \A q \in sweep : r.account <= q.account
    /\ sweep' = IF Unreadable(r.account) THEN {} ELSE sweep \ {r}
    /\ refreshing' = IF HasToken(r.account, cred)
                     THEN [step |-> "renew", account |-> r.account, scopes |-> r.scopes,
                           token |-> cred[r.account].token]
                     ELSE Idle
    /\ UNCHANGED <<conn, setup, cred, intent, verifying, coreCalls, deleting, meta, disturbed>>

\* refresh_long_lived succeeded: the whole record is written, scopes from the list
Renewed ==
    /\ refreshing.step = "renew" /\ refreshing.token \notin meta.revoked
    /\ cred' = Upsert(refreshing.account, refreshing.token, refreshing.scopes)
    /\ refreshing' = Idle
    /\ UNCHANGED <<conn, setup, intent, sweep, verifying, coreCalls, deleting, meta, disturbed>>

NotRenewed ==
    /\ refreshing.step = "renew"
    /\ refreshing' = [refreshing EXCEPT !.step = "probe"]
    /\ UNCHANGED <<conn, setup, cred, intent, sweep, verifying, coreCalls, deleting, meta, disturbed>>

\* token_rejected and mark_provider_credentials_expired
Rejected == refreshing.step = "probe" /\ refreshing.token \in meta.revoked

MarkExpired ==
    /\ Rejected
    /\ cred' = IF Stored(refreshing.account)
               THEN [cred EXCEPT ![refreshing.account].age = "expired"] ELSE cred
    /\ refreshing' = Idle
    /\ UNCHANGED <<conn, setup, intent, sweep, verifying, coreCalls, deleting, meta, disturbed>>

\* Meta was not reached, or the token is too young: next time
SkipToken ==
    /\ refreshing.step = "probe"
    /\ refreshing' = Idle
    /\ UNCHANGED <<conn, setup, cred, intent, sweep, verifying, coreCalls, deleting, meta, disturbed>>

-------------------------------------------------------------------------------
(* The environment.                                                        *)

\* A token comes into the refresh window; left alone it lapses.
TokenAges(a) ==
    /\ Stored(a) /\ cred[a].age # "expired" /\ Disturb
    /\ cred' = [cred EXCEPT ![a].age = IF @ = "active" THEN "due" ELSE "expired"]
    /\ UNCHANGED <<conn, setup, intent, sweep, refreshing, verifying, coreCalls, deleting, meta>>

\* The user withdraws the authorization at Instagram.
Revoke(t) ==
    /\ t \notin meta.revoked /\ Disturb
    /\ \E a \in Accounts : Stored(a) /\ cred[a].token = t
    /\ meta' = [meta EXCEPT !.revoked = @ \cup {t}]
    /\ UNCHANGED <<conn, setup, cred, intent, sweep, refreshing, verifying, coreCalls, deleting>>

\* The process dies: every coroutine is gone, every file stays.  The key that the next
\* one is started with need not be the one each token was encrypted with.
IgCrash ==
    /\ Disturb
    /\ \E legible \in SUBSET Accounts :
         cred' = [a \in Accounts |-> IF Stored(a) THEN [cred[a] EXCEPT !.readable = a \in legible]
                                    ELSE NoCredential]
    /\ intent' = [i \in Intents |-> IF InFlight(i) THEN [stage |-> "done"] ELSE intent[i]]
    /\ sweep' = {} /\ refreshing' = Idle
    /\ verifying' = [c \in Connections |-> NoAccount]
    /\ coreCalls' = [c \in Connections |-> {}]
    /\ deleting' = [c \in Connections |-> IF deleting[c] = "no" THEN "no" ELSE "cut"]
    /\ UNCHANGED <<conn, setup, meta>>

-------------------------------------------------------------------------------
CallbackStep(i) == \/ Callback(i) \/ CallbackFails(i) \/ Exchange(i) \/ Discover(i)
                   \/ SubscriptionUnconfirmed(i) \/ Bind(i) \/ Reverified(i)
RefreshStep == \/ StartSweep \/ (\E r \in sweep : Visit(r))
               \/ Renewed \/ NotRenewed \/ MarkExpired \/ SkipToken

IgNext ==
    \/ \E i \in Intents : \/ \E t \in Connections : Authorize(i, t)
                          \/ ExpireState(i) \/ CallbackStep(i)
    \/ \E c \in Connections : \/ StartVerify(c) \/ EndVerify(c)
                              \/ StartCoreBind(c) \/ EndCoreBind(c)
                              \/ StartDisconnect(c) \/ EndDisconnect(c)
                              \/ StartDeleteConnection(c) \/ EndDeleteConnection(c)
    \/ \E s \in Setups : CloseSetup(s)
    \/ RefreshStep
    \/ \E a \in Accounts : TokenAges(a)
    \/ \E t \in Tokens : Revoke(t)
    \/ IgCrash

(* The loop runs as long as the process does, and is restarted with it; of *)
(* Meta it is assumed that a token that is tried for ever is renewed or    *)
(* refused in the end.  Nothing is assumed of users and operators.         *)
IgFairness ==
    /\ WF_igVars(RefreshStep)
    /\ \A a \in Accounts : SF_igVars(Renewed /\ refreshing.account = a)
    /\ \A a \in Accounts : SF_igVars(MarkExpired /\ refreshing.account = a)

IgSpec == IgInit /\ [][IgNext]_igVars /\ IgFairness

-------------------------------------------------------------------------------
(* Types.                                                                  *)
CallbackRecord == [stage: {"unused", "done"}] \cup
             [stage: {"issued", "exchange"}, target: Connections, forSetup: BOOLEAN] \cup
             [stage: {"discovery"}, target: Connections, forSetup: BOOLEAN, scopes: BOOLEAN] \cup
             [stage: {"subscription", "verification"}, target: Connections, forSetup: BOOLEAN,
              scopes: BOOLEAN, account: Accounts]

\* Every record has its form.
IgTypeOK ==
    /\ conn \in [Connections -> Connection]
    /\ setup \in [Setups -> {"onboarding", "provisioning", "failed", "ready", "closed"}]
    /\ cred \in [Accounts -> Credential \cup {NoCredential}]
    /\ intent \in [Intents -> CallbackRecord]
    /\ sweep \subseteq [account: Accounts, scopes: BOOLEAN]
    /\ refreshing \in {Idle} \cup
         [step: {"renew", "probe"}, account: Accounts, scopes: BOOLEAN, token: Tokens]
    /\ verifying \in [Connections -> Accounts \cup {NoAccount}]
    /\ coreCalls \in [Connections -> SUBSET {"bind", "revoke"}]
    /\ deleting \in [Connections -> {"no", "running", "cut"}]
    /\ meta \in [subscribed: SUBSET Accounts, revoked: SUBSET Tokens]
    /\ disturbed \in 0..Disturbances

-------------------------------------------------------------------------------
(* Safety.                                                                 *)

\* One account is bound to one connection, whichever callbacks, of setups and of
\* connections, discover it at the same time: an incoming message has one owner.
OneConnectionPerAccount ==
    \A c, d \in Connections :
        /\ conn[c].exists /\ conn[d].exists
        /\ conn[c].account = conn[d].account /\ conn[c].account # NoAccount
        => c = d

\* A bound connection has its token: no disconnection, deletion or failed login of
\* another connection takes it away, as long as its own deletion has not begun.
BoundHasToken ==
    \A c \in Connections :
        conn[c].exists /\ conn[c].account # NoAccount /\ deleting[c] = "no"
            => Stored(conn[c].account)

\* What is announced as ready receives messages: Meta has confirmed the webhook of the
\* very account that is bound, also if the binding changed during a verification.
ReadyIsSubscribed ==
    \A c \in Connections : IsReady(c) => conn[c].account \in meta.subscribed

\* A token appears in the store only when its user has just authorized it: in
\* particular, a disconnected account stays forgotten.
TokensComeByConsent ==
    [][\A a \in Accounts :
         cred[a] = NoCredential /\ cred'[a] # NoCredential =>
           \E i \in Intents : intent[i].stage = "subscription" /\ intent[i].account = a
                              /\ intent'[i].stage # "subscription"]_igVars

-------------------------------------------------------------------------------
(* Liveness.                                                               *)

Due(a) == Stored(a) /\ cred[a].age = "due"

\* A token in its refresh window does not just stay there: it is renewed, found to be
\* refused, expires, or is deleted with its connection.  Only one thing keeps it there:
\* that it, or one that is due before it in the store, cannot be decrypted, which ends
\* every sweep at that record (refresh_instagram_tokens); as soon as that one is
\* replaced, deleted or expired, the tokens behind it are settled too.
DueTokensAreSettled ==
    \A a \in Accounts :
        Due(a) ~> ~Due(a) \/ (\E b \in Accounts : b <= a /\ Due(b) /\ Unreadable(b))
===============================================================================
