------------------------- MODULE ProviderAccountsProofs -------------------------
(***************************************************************************)
(* Proofs about InstagramAuthorization, for any setups, connections,       *)
(* accounts and authorizations, and any number of disturbances; about      *)
(* MetaOnboarding, for any instances, numbers and runs, and any number of  *)
(* process deaths, as long as no instance changes its number               *)
(* (~Renumbering) where the theorem says so; and about both together.      *)
(***************************************************************************)
EXTENDS MCProviderAccounts, TLAPS

-------------------------------------------------------------------------------
(* Instagram accounts.                                                     *)

(* What a record says of itself.                                           *)

\* A stored credential is not the absence of one.
LEMMA CredentialIsStored ==
  ASSUME NEW r \in Credential
  PROVE  r # NoCredential
BY DEF Credential, NoCredential

\* An authorization that waits for Meta knows what it is for.
LEMMA CallbackKnows ==
  ASSUME IgTypeOK, NEW i \in Intents
  PROVE  /\ intent[i].stage \in {"issued", "exchange", "discovery", "subscription", "verification"} =>
              intent[i].target \in Connections /\ intent[i].forSetup \in BOOLEAN
         /\ intent[i].stage \in {"discovery", "subscription", "verification"} => intent[i].scopes \in BOOLEAN
         /\ intent[i].stage \in {"subscription", "verification"} => intent[i].account \in Accounts
BY DEF IgTypeOK, CallbackRecord

\* The refresh knows its token.
LEMMA RefreshKnows ==
  ASSUME IgTypeOK, refreshing # Idle
  PROVE  /\ refreshing.account \in Accounts /\ refreshing.token \in Tokens /\ refreshing.scopes \in BOOLEAN
         /\ refreshing.step \in {"renew", "probe"}
BY DEF IgTypeOK

-------------------------------------------------------------------------------
(* The operators.                                                          *)

\* Storing and deleting a credential, whatever the token.
LEMMA StoreEffect ==
  ASSUME IgTypeOK, NEW a \in Accounts, NEW t \in Tokens, NEW ok \in BOOLEAN
  PROVE  /\ Upsert(a, t, ok) \in [Accounts -> Credential \cup {NoCredential}]
         /\ Upsert(a, t, ok)[a] # NoCredential
         /\ \A b \in Accounts : b # a => Upsert(a, t, ok)[b] = cred[b]
<1>1. [token |-> t, age |-> "active", scopes |-> ok, readable |-> TRUE] \in Credential
  BY DEF Credential
<1> QED BY <1>1, CredentialIsStored DEF IgTypeOK, Upsert

LEMMA ForgetEffect ==
  ASSUME IgTypeOK, NEW c \in Connections
  PROVE  /\ Forget(c) \in [Accounts -> Credential \cup {NoCredential}]
         /\ \A b \in Accounts : b # conn[c].account => Forget(c)[b] = cred[b]
BY DEF IgTypeOK, Forget, Connection

\* A restart changes what can be read, not what is stored.
LEMMA CrashKeepsCredentials ==
  ASSUME IgTypeOK, IgCrash
  PROVE  /\ cred' \in [Accounts -> Credential \cup {NoCredential}]
         /\ \A a \in Accounts : Stored(a) => cred'[a] # NoCredential
<1>1. PICK legible \in SUBSET Accounts :
        cred' = [a \in Accounts |-> IF Stored(a) THEN [cred[a] EXCEPT !.readable = a \in legible]
                                   ELSE NoCredential]
  BY DEF IgCrash
<1>2. \A a \in Accounts : Stored(a) => [cred[a] EXCEPT !.readable = a \in legible] \in Credential
  <2> SUFFICES ASSUME NEW a \in Accounts, Stored(a)
               PROVE  [cred[a] EXCEPT !.readable = a \in legible] \in Credential
    OBVIOUS
  <2>1. cred[a] \in Credential
    BY DEF IgTypeOK, Stored
  <2> DEFINE read == a \in legible
  <2>2. read \in BOOLEAN
    OBVIOUS
  <2> HIDE DEF read
  <2>3. [cred[a] EXCEPT !.readable = read] \in Credential
    BY <2>1, <2>2 DEF Credential
  <2> QED BY <2>3 DEF read
<1>3. cred' \in [Accounts -> Credential \cup {NoCredential}]
  BY <1>1, <1>2
<1>4. \A a \in Accounts : Stored(a) => cred'[a] # NoCredential
  BY <1>1, <1>2, CredentialIsStored
<1> QED BY <1>3, <1>4

LEMMA SetupFailedType ==
  ASSUME IgTypeOK, NEW s \in Connections
  PROVE  SetupFailed(s) \in [Setups -> {"onboarding", "provisioning", "failed", "ready", "closed"}]
BY DEF IgTypeOK, SetupFailed

\* A verification changes neither who is there nor what is bound.
LEMMA MarkVerifiedEffect ==
  ASSUME IgTypeOK, NEW c \in Connections
  PROVE  /\ MarkVerified(c) \in [Connections -> Connection]
         /\ \A d \in Connections : /\ MarkVerified(c)[d].exists = conn[d].exists
                                   /\ MarkVerified(c)[d].account = conn[d].account
                                   /\ MarkVerified(c)[d].core = conn[d].core
                                   /\ d # c => MarkVerified(c)[d] = conn[d]
         /\ ~conn[c].exists => MarkVerified(c) = conn
<1>1. conn[c] \in Connection
  BY DEF IgTypeOK
<1>2. [conn[c] EXCEPT !.verified = TRUE, !.state = "connected"] \in Connection
  BY <1>1 DEF Connection
<1> QED BY <1>1, <1>2 DEF IgTypeOK, MarkVerified, Connection

\* The end of a callback binds the account it found to its target, if no other
\* connection has it, or binds nothing.
LEMMA BindEffect ==
  ASSUME IgTypeOK, NEW i \in Intents, Bind(i)
  PROVE  /\ intent[i].target \in Connections /\ intent[i].account \in Accounts
         /\ conn' \in [Connections -> Connection]
         /\ cred' \in [Accounts -> Credential \cup {NoCredential}]
         /\ setup' \in [Setups -> {"onboarding", "provisioning", "failed", "ready", "closed"}]
         /\ \A a \in Accounts : cred[a] # NoCredential => cred'[a] # NoCredential
         /\ \A d \in Connections \ {intent[i].target} : conn'[d] = conn[d]
         /\ \/ conn'[intent[i].target] = conn[intent[i].target]
            \/ /\ conn'[intent[i].target].account = intent[i].account
               /\ cred'[intent[i].account] # NoCredential
               /\ \A d \in Connections \ {intent[i].target} :
                    conn[d].exists => conn[d].account # intent[i].account
<1> DEFINE c == intent[i].target
           a == intent[i].account
           store == Upsert(a, i, intent[i].scopes)
           SetupStates == {"onboarding", "provisioning", "failed", "ready", "closed"}
<1>1. /\ c \in Connections /\ a \in Accounts /\ intent[i].scopes \in BOOLEAN
      /\ intent[i].forSetup \in BOOLEAN
  BY CallbackKnows DEF Bind
<1>2. /\ store \in [Accounts -> Credential \cup {NoCredential}]
      /\ store[a] # NoCredential
      /\ \A b \in Accounts : b # a => store[b] = cred[b]
  BY <1>1, StoreEffect DEF Tokens
<1>3. conn[c] \in Connection /\ conn \in [Connections -> Connection]
  BY <1>1 DEF IgTypeOK
<1>4. CASE UNCHANGED <<conn, cred>> /\ setup' \in {setup, SetupFailed(c)}
  BY <1>1, <1>3, <1>4, SetupFailedType DEF IgTypeOK
<1>5. CASE intent[i].forSetup /\ IsUnbound(a, NoAccount) /\ cred' = store /\ CompleteSetup(c, a)
  <2>1. [exists |-> TRUE, state |-> "connected", account |-> a, verified |-> TRUE, core |-> "none"] \in Connection
    BY <1>1 DEF Connection
  <2>2. \A d \in Connections : conn[d].exists => conn[d].account # a
    BY <1>5, InstagramAssumption DEF IsUnbound, Connections
  <2> QED BY <1>1, <1>2, <1>3, <1>5, <2>1, <2>2 DEF CompleteSetup, IgTypeOK
<1>6. CASE IsUnbound(a, c) /\ cred' = store /\ BindConnection(c, a, store)
  <2>1. [conn[c] EXCEPT !.state = "connected", !.account = a, !.verified = TRUE] \in Connection
    BY <1>1, <1>3 DEF Connection
  <2> QED BY <1>1, <1>2, <1>3, <1>6, <2>1 DEF BindConnection, IsUnbound, IgTypeOK, Connection
<1> QED BY <1>1, <1>4, <1>5, <1>6 DEF Bind

-------------------------------------------------------------------------------
(* Types.                                                                  *)

LEMMA IgTypeInit == IgInit => IgTypeOK
<1> SUFFICES ASSUME IgInit PROVE IgTypeOK
  OBVIOUS
<1>1. conn \in [Connections -> Connection]
  <2> DEFINE Before == {Unmade}
               \cup [exists: {TRUE}, state: {"oauth_pending"}, account: {NoAccount}, verified: {FALSE}, core: {"none"}]
               \cup [exists: {TRUE}, state: {"connected"}, account: Accounts, verified: {FALSE}, core: {"none"}]
  <2>1. Before \subseteq Connection
    <3>1. Unmade \in Connection
      BY DEF Connection, Unmade
    <3>2. [exists: {TRUE}, state: {"oauth_pending"}, account: {NoAccount}, verified: {FALSE}, core: {"none"}] \subseteq Connection
      BY ZenonT(30) DEF Connection
    <3>3. [exists: {TRUE}, state: {"connected"}, account: Accounts, verified: {FALSE}, core: {"none"}] \subseteq Connection
      BY ZenonT(30) DEF Connection
    <3> QED BY <3>1, <3>2, <3>3
  <2>2. conn \in [Connections -> Before]
    BY DEF IgInit
  <2> QED BY <2>1, <2>2
<1>2. cred \in [Accounts -> Credential \cup {NoCredential}]
  BY DEF IgInit, Credential, Tokens
<1>3. intent \in [Intents -> CallbackRecord]
  BY DEF IgInit, CallbackRecord
<1>4. disturbed \in 0 .. Disturbances
  BY InstagramAssumption DEF IgInit
<1>5. meta \in [subscribed: SUBSET Accounts, revoked: SUBSET Tokens]
  BY DEF IgInit
<1> QED BY <1>1, <1>2, <1>3, <1>4, <1>5 DEF IgInit, IgTypeOK

\* Steps of a callback: the record of its state moves on, or ends.
LEMMA CallbackType ==
  ASSUME IgTypeOK, NEW i \in Intents,
         (\E t \in Connections : Authorize(i, t)) \/ ExpireState(i) \/ CallbackStep(i)
  PROVE  IgTypeOK'
<1> DEFINE done == [stage |-> "done"]
<1>1. /\ done \in CallbackRecord
      /\ \A r \in CallbackRecord : [intent EXCEPT ![i] = r] \in [Intents -> CallbackRecord]
  BY DEF CallbackRecord, IgTypeOK
<1>2. \A c \in Connections : SetupFailed(c) \in [Setups -> {"onboarding", "provisioning", "failed", "ready", "closed"}]
  BY SetupFailedType
<1>3. CASE \E t \in Connections : Authorize(i, t)
  <2>1. PICK t \in Connections : Authorize(i, t)
    BY <1>3
  <2>2. [stage |-> "issued", target |-> t, forSetup |-> ~conn[t].exists] \in CallbackRecord
    BY DEF CallbackRecord
  <2> QED BY <1>1, <2>1, <2>2 DEF Authorize, IgTypeOK
<1>4. CASE ExpireState(i)
  BY <1>1, <1>4 DEF ExpireState, IgTypeOK
<1>5. CASE Callback(i)
  <2>1. intent[i].target \in Connections /\ intent[i].stage = "issued"
    BY <1>5, CallbackKnows DEF Callback
  <2>2. [intent[i] EXCEPT !.stage = "exchange"] \in CallbackRecord
    BY <2>1 DEF IgTypeOK, CallbackRecord
  <2>3. intent' \in [Intents -> CallbackRecord]
    BY <1>1, <1>5, <2>2 DEF Callback, IgTypeOK
  <2>4. setup' \in [Setups -> {"onboarding", "provisioning", "failed", "ready", "closed"}]
    BY <1>2, <1>5, <2>1 DEF Callback, IgTypeOK
  <2> QED BY <1>5, <2>3, <2>4 DEF Callback, IgTypeOK
<1>6. CASE CallbackFails(i)
  BY <1>1, <1>2, <1>6, CallbackKnows DEF CallbackFails, InFlight, IgTypeOK
<1>7. CASE Exchange(i)
  <2>1. intent[i].target \in Connections /\ intent[i].forSetup \in BOOLEAN
    BY <1>7, CallbackKnows DEF Exchange
  <2>2. \A ok \in BOOLEAN : [stage |-> "discovery", target |-> intent[i].target, forSetup |-> intent[i].forSetup,
                             scopes |-> ok] \in CallbackRecord
    BY <2>1 DEF CallbackRecord
  <2> QED BY <1>1, <1>7, <2>2 DEF Exchange, IgTypeOK
<1>8. CASE Discover(i)
  <2>1. intent[i].target \in Connections /\ intent[i].forSetup \in BOOLEAN /\ intent[i].scopes \in BOOLEAN
    BY <1>8, CallbackKnows DEF Discover
  <2>2. \A a \in Accounts : [stage |-> "subscription", target |-> intent[i].target, forSetup |-> intent[i].forSetup,
                             scopes |-> intent[i].scopes, account |-> a] \in CallbackRecord
    BY <2>1 DEF CallbackRecord
  <2> QED BY <1>1, <1>8, <2>2 DEF Discover, IgTypeOK
<1>9. CASE SubscriptionUnconfirmed(i)
  BY <1>1, <1>2, <1>9, CallbackKnows DEF SubscriptionUnconfirmed, Subscribe, IgTypeOK
<1>10. CASE Bind(i)
  <2>1. /\ intent[i].target \in Connections /\ intent[i].account \in Accounts
        /\ conn' \in [Connections -> Connection] /\ cred' \in [Accounts -> Credential \cup {NoCredential}]
        /\ setup' \in [Setups -> {"onboarding", "provisioning", "failed", "ready", "closed"}]
    BY <1>10, BindEffect
  <2>2. \A a \in Accounts : [intent[i] EXCEPT !.stage = "verification", !.account = a] \in CallbackRecord
    <3>1. intent[i] \in [stage: {"subscription", "verification"}, target: Connections, forSetup: BOOLEAN,
                         scopes: BOOLEAN, account: Accounts]
      BY <1>10 DEF Bind, IgTypeOK, CallbackRecord
    <3> QED BY <3>1 DEF CallbackRecord
  <2>3. conn'[intent[i].target].account # NoAccount => conn'[intent[i].target].account \in Accounts
    BY <2>1 DEF Connection
  <2>4. intent' \in [Intents -> CallbackRecord]
    BY <1>1, <1>10, <2>2, <2>3 DEF Bind, IgTypeOK
  <2>5. meta' \in [subscribed: SUBSET Accounts, revoked: SUBSET Tokens]
    BY <1>10, <2>1 DEF Bind, Subscribe, IgTypeOK
  <2> QED BY <1>10, <2>1, <2>4, <2>5 DEF Bind, IgTypeOK
<1>11. CASE Reverified(i)
  BY <1>1, <1>11, CallbackKnows, MarkVerifiedEffect DEF Reverified, Subscribe, IgTypeOK
<1> QED BY <1>3, <1>4, <1>5, <1>6, <1>7, <1>8, <1>9, <1>10, <1>11 DEF CallbackStep

\* Steps of the operator.
OperatorStep(c) ==
    \/ StartVerify(c) \/ EndVerify(c) \/ StartCoreBind(c) \/ EndCoreBind(c)
    \/ StartDisconnect(c) \/ EndDisconnect(c) \/ StartDeleteConnection(c) \/ EndDeleteConnection(c)

\* What a disconnection leaves.
LEMMA DisconnectEffect ==
  ASSUME IgTypeOK, NEW c \in Connections, Disconnect(c)
  PROVE  /\ conn' \in [Connections -> Connection]
         /\ cred' \in [Accounts -> Credential \cup {NoCredential}]
         /\ \A d \in Connections \ {c} : conn'[d] = conn[d]
         /\ conn'[c].exists = conn[c].exists
         /\ conn[c].exists => conn'[c].account = NoAccount
         /\ ~conn[c].exists => UNCHANGED <<conn, cred>>
         /\ \A b \in Accounts : b # conn[c].account => cred'[b] = cred[b]
<1>1. conn[c] \in Connection
  BY DEF IgTypeOK
<1>2. [conn[c] EXCEPT !.account = NoAccount, !.core = "none", !.verified = FALSE, !.state = "disconnected"] \in Connection
  BY <1>1 DEF Connection
<1>3. CASE ~conn[c].exists
  BY <1>3 DEF Disconnect, IgTypeOK
<1>4. CASE conn[c].exists
  <2>1. /\ conn' = [conn EXCEPT ![c] =
               [conn[c] EXCEPT !.account = NoAccount, !.core = "none", !.verified = FALSE, !.state = "disconnected"]]
        /\ cred' = Forget(c)
    BY <1>4 DEF Disconnect
  <2>2. conn' \in [Connections -> Connection] /\ \A d \in Connections \ {c} : conn'[d] = conn[d]
    BY <1>2, <2>1 DEF IgTypeOK
  <2>3. conn'[c].exists = conn[c].exists /\ conn'[c].account = NoAccount
    BY <1>1, <2>1 DEF IgTypeOK, Connection
  <2> QED BY <1>4, <2>1, <2>2, <2>3, ForgetEffect
<1> QED BY <1>3, <1>4

LEMMA OperatorType ==
  ASSUME IgTypeOK, NEW c \in Connections, OperatorStep(c)
  PROVE  IgTypeOK'
<1>1. conn[c] \in Connection
  BY DEF IgTypeOK
<1>2. Disturb => disturbed' \in 0 .. Disturbances
  BY InstagramAssumption DEF Disturb, IgTypeOK
<1>11. /\ [coreCalls EXCEPT ![c] = @ \cup {"bind"}] \in [Connections -> SUBSET {"bind", "revoke"}]
       /\ [coreCalls EXCEPT ![c] = @ \cup {"revoke"}] \in [Connections -> SUBSET {"bind", "revoke"}]
  <2>1. coreCalls \in [Connections -> SUBSET {"bind", "revoke"}]
    BY DEF IgTypeOK
  <2>2. coreCalls[c] \cup {"bind"} \in SUBSET {"bind", "revoke"} /\ coreCalls[c] \cup {"revoke"} \in SUBSET {"bind", "revoke"}
    BY <2>1
  <2> QED BY <2>1, <2>2
<1>3. CASE StartVerify(c)
  BY <1>1, <1>2, <1>3 DEF StartVerify, IgTypeOK, Connection
<1>4. CASE EndVerify(c)
  <2>1. conn' \in [Connections -> Connection]
    BY <1>4, MarkVerifiedEffect DEF EndVerify, IgTypeOK
  <2>2. verifying[c] \in Accounts
    BY <1>4 DEF EndVerify, IgTypeOK
  <2>3. meta' \in [subscribed: SUBSET Accounts, revoked: SUBSET Tokens]
    BY <1>4, <2>2 DEF EndVerify, Subscribe, IgTypeOK
  <2> QED BY <1>4, <2>1, <2>3 DEF EndVerify, IgTypeOK
<1>5. CASE StartCoreBind(c)
  BY <1>2, <1>5, <1>11 DEF StartCoreBind, IgTypeOK
<1>6. CASE EndCoreBind(c)
  <2>1. [conn[c] EXCEPT !.core = "bound", !.state = "connected"] \in Connection
    BY <1>1 DEF Connection
  <2>2. [conn EXCEPT ![c].core = "bound", ![c].state = "connected"]
          = [conn EXCEPT ![c] = [conn[c] EXCEPT !.core = "bound", !.state = "connected"]]
    BY <1>1 DEF IgTypeOK, Connection
  <2>3. conn' \in [Connections -> Connection]
    BY <1>6, <2>1, <2>2 DEF EndCoreBind, IgTypeOK
  <2>4. coreCalls' \in [Connections -> SUBSET {"bind", "revoke"}]
    BY <1>6 DEF EndCoreBind, IgTypeOK
  <2> QED BY <1>6, <2>3, <2>4 DEF EndCoreBind, IgTypeOK
<1>7. CASE StartDisconnect(c)
  BY <1>2, <1>7, <1>11, DisconnectEffect DEF StartDisconnect, IgTypeOK
<1>8. CASE EndDisconnect(c)
  BY <1>8, DisconnectEffect DEF EndDisconnect, IgTypeOK
<1>9. CASE StartDeleteConnection(c)
  <2>1. [conn[c] EXCEPT !.core = IF @ = "bound" THEN "keyless" ELSE @] \in Connection
    BY <1>1 DEF Connection
  <2>2. conn' = [conn EXCEPT ![c] = [conn[c] EXCEPT !.core = IF @ = "bound" THEN "keyless" ELSE @]]
    BY <1>9 DEF StartDeleteConnection
  <2> QED BY <1>2, <1>9, <2>1, <2>2, ForgetEffect DEF StartDeleteConnection, IgTypeOK
<1>10. CASE EndDeleteConnection(c)
  <2>1. Unmade \in Connection
    BY DEF Unmade, Connection
  <2> QED BY <1>10, <2>1 DEF EndDeleteConnection, IgTypeOK
<1> QED BY <1>3, <1>4, <1>5, <1>6, <1>7, <1>8, <1>9, <1>10 DEF OperatorStep

LEMMA RefreshType ==
  ASSUME IgTypeOK, RefreshStep
  PROVE  IgTypeOK'
<1>1. CASE StartSweep
  <2>1. \A a \in ListDue : cred[a] \in Credential /\ a \in Accounts
    BY DEF ListDue, Stored, IgTypeOK
  <2>2. sweep' \subseteq [account: Accounts, scopes: BOOLEAN]
    BY <1>1, <2>1 DEF StartSweep, Credential
  <2> QED BY <1>1, <2>2 DEF StartSweep, IgTypeOK
<1>2. CASE \E r \in sweep : Visit(r)
  <2>1. PICK r \in sweep : Visit(r)
    BY <1>2
  <2>2. r.account \in Accounts /\ r.scopes \in BOOLEAN
    BY DEF IgTypeOK
  <2>3. HasToken(r.account, cred) => cred[r.account].token \in Tokens
    BY <2>2 DEF IgTypeOK, HasToken, Credential
  <2>4. refreshing' \in {Idle} \cup [step: {"renew", "probe"}, account: Accounts, scopes: BOOLEAN, token: Tokens]
    BY <2>1, <2>2, <2>3 DEF Visit
  <2>5. sweep' \subseteq sweep
    BY <2>1 DEF Visit
  <2> QED BY <2>1, <2>4, <2>5 DEF Visit, IgTypeOK
<1>3. CASE Renewed
  BY <1>3, RefreshKnows, StoreEffect DEF Renewed, IgTypeOK, Idle
<1>4. CASE NotRenewed
  <2>1. refreshing # Idle
    BY <1>4 DEF NotRenewed, Idle
  <2>2. [refreshing EXCEPT !.step = "probe"] \in [step: {"renew", "probe"}, account: Accounts, scopes: BOOLEAN, token: Tokens]
    BY <2>1 DEF IgTypeOK
  <2> QED BY <1>4, <2>2 DEF NotRenewed, IgTypeOK
<1>5. CASE MarkExpired
  <2>1. refreshing.account \in Accounts
    BY <1>5, RefreshKnows DEF MarkExpired, Rejected, Idle
  <2>2. Stored(refreshing.account) => [cred[refreshing.account] EXCEPT !.age = "expired"] \in Credential
    BY <2>1 DEF IgTypeOK, Stored, Credential
  <2>3. cred' \in [Accounts -> Credential \cup {NoCredential}]
    BY <1>5, <2>1, <2>2 DEF MarkExpired, IgTypeOK
  <2> QED BY <1>5, <2>3 DEF MarkExpired, IgTypeOK
<1>6. CASE SkipToken
  BY <1>6 DEF SkipToken, IgTypeOK
<1> QED BY <1>1, <1>2, <1>3, <1>4, <1>5, <1>6 DEF RefreshStep

\* What happens around, and the end of a setup.
LEMMA AroundType ==
  ASSUME IgTypeOK,
         \/ \E s \in Setups : CloseSetup(s)
         \/ \E a \in Accounts : TokenAges(a)
         \/ \E t \in Tokens : Revoke(t)
         \/ IgCrash
  PROVE  IgTypeOK'
<1>1. Disturb => disturbed' \in 0 .. Disturbances
  BY InstagramAssumption DEF Disturb, IgTypeOK
<1>2. CASE \E s \in Setups : CloseSetup(s)
  BY <1>1, <1>2 DEF CloseSetup, IgTypeOK
<1>3. CASE \E a \in Accounts : TokenAges(a)
  <2>1. PICK a \in Accounts : TokenAges(a)
    BY <1>3
  <2>2. cred[a] \in Credential
    BY <2>1 DEF TokenAges, Stored, IgTypeOK
  <2>3. [cred[a] EXCEPT !.age = IF @ = "active" THEN "due" ELSE "expired"] \in Credential
    BY <2>2 DEF Credential
  <2>4. cred' = [cred EXCEPT ![a] = [cred[a] EXCEPT !.age = IF @ = "active" THEN "due" ELSE "expired"]]
    BY <2>1 DEF TokenAges
  <2>5. cred' \in [Accounts -> Credential \cup {NoCredential}]
    BY <2>3, <2>4 DEF IgTypeOK
  <2> QED BY <1>1, <2>1, <2>5 DEF TokenAges, IgTypeOK
<1>4. CASE \E t \in Tokens : Revoke(t)
  <2>1. PICK t \in Tokens : Revoke(t)
    BY <1>4
  <2>2. meta' \in [subscribed: SUBSET Accounts, revoked: SUBSET Tokens]
    BY <2>1 DEF Revoke, IgTypeOK
  <2> QED BY <1>1, <2>1, <2>2 DEF Revoke, IgTypeOK
<1>5. CASE IgCrash
  <2>1. intent' \in [Intents -> CallbackRecord]
    <3>1. [stage |-> "done"] \in CallbackRecord
      BY DEF CallbackRecord
    <3> QED BY <1>5, <3>1 DEF IgCrash, IgTypeOK
  <2>2. cred' \in [Accounts -> Credential \cup {NoCredential}]
    BY <1>5, CrashKeepsCredentials
  <2> QED BY <1>1, <1>5, <2>1, <2>2 DEF IgCrash, IgTypeOK
<1> QED BY <1>2, <1>3, <1>4, <1>5

LEMMA IgTypePreserved == IgTypeOK /\ [IgNext]_igVars => IgTypeOK'
<1> SUFFICES ASSUME IgTypeOK, [IgNext]_igVars PROVE IgTypeOK'
  OBVIOUS
<1>1. CASE UNCHANGED igVars
  BY <1>1 DEF igVars, IgTypeOK
<1>2. CASE IgNext
  BY <1>2, CallbackType, OperatorType, RefreshType, AroundType DEF IgNext, OperatorStep
<1> QED BY <1>1, <1>2

-------------------------------------------------------------------------------
(* One account, one connection; and its token.                             *)

\* A connection that is bound was bound before, or has been bound now, to an
\* account that no other has, with its token and its subscription.
AsBefore(c) == conn[c].exists /\ conn[c].account = conn'[c].account
BoundNow(c) ==
    /\ conn'[c].account \in Accounts
    /\ cred'[conn'[c].account] # NoCredential /\ conn'[c].account \in meta'.subscribed
    /\ \A d \in Connections \ {c} : conn'[d] = conn[d] /\ (conn[d].exists => conn[d].account # conn'[c].account)

\* No step binds in any other way.
LEMMA BindingsOfAStep ==
  ASSUME IgTypeOK, [IgNext]_igVars, NEW c \in Connections,
         conn'[c].exists, conn'[c].account # NoAccount
  PROVE  AsBefore(c) \/ BoundNow(c)
<1> USE DEF AsBefore
<1>1. CASE conn' = conn
  BY <1>1
<1>2. CASE \E i \in Intents : Bind(i)
  <2>1. PICK i \in Intents : Bind(i)
    BY <1>2
  <2>2. intent[i].account \in meta'.subscribed
    BY <2>1, BindEffect DEF Bind, Subscribe, IgTypeOK
  <2> QED BY <2>1, <2>2, BindEffect DEF BoundNow
<1>3. CASE \E i \in Intents : Reverified(i)
  BY <1>3, CallbackKnows, MarkVerifiedEffect DEF Reverified
<1>4. CASE \E d \in Connections : EndVerify(d)
  BY <1>4, MarkVerifiedEffect DEF EndVerify
<1>5. CASE \E d \in Connections : EndCoreBind(d)
  BY <1>5 DEF EndCoreBind, IgTypeOK, Connection
<1>6. CASE \E d \in Connections : StartDisconnect(d) \/ EndDisconnect(d)
  BY <1>6, DisconnectEffect DEF StartDisconnect, EndDisconnect
<1>7. CASE \E d \in Connections : StartDeleteConnection(d)
  BY <1>7 DEF StartDeleteConnection, IgTypeOK, Connection
<1>8. CASE \E d \in Connections : EndDeleteConnection(d)
  BY <1>8 DEF EndDeleteConnection, IgTypeOK, Unmade
<1> QED BY <1>1, <1>2, <1>3, <1>4, <1>5, <1>6, <1>7, <1>8
        DEF IgNext, igVars, CallbackStep, RefreshStep, Authorize, ExpireState, Callback, CallbackFails, Exchange,
            Discover, SubscriptionUnconfirmed, StartVerify, StartCoreBind, CloseSetup, StartSweep, Visit, Renewed,
            NotRenewed, MarkExpired, SkipToken, TokenAges, Revoke, IgCrash

\* Two connections never end up with one account.
LEMMA OneConnectionPreserved ==
  IgTypeOK /\ OneConnectionPerAccount /\ [IgNext]_igVars => OneConnectionPerAccount'
<1> SUFFICES ASSUME IgTypeOK, OneConnectionPerAccount, [IgNext]_igVars, NEW c \in Connections, NEW d \in Connections,
                    conn'[c].exists, conn'[d].exists,
                    conn'[c].account = conn'[d].account, conn'[c].account # NoAccount
             PROVE  c = d
  BY DEF OneConnectionPerAccount
<1>1. (AsBefore(c) \/ BoundNow(c)) /\ (AsBefore(d) \/ BoundNow(d))
  BY BindingsOfAStep
<1>2. CASE BoundNow(c)
  BY <1>2 DEF BoundNow
<1>3. CASE BoundNow(d)
  BY <1>3 DEF BoundNow
<1>4. CASE AsBefore(c) /\ AsBefore(d)
  BY <1>4 DEF AsBefore, OneConnectionPerAccount
<1> QED BY <1>1, <1>2, <1>3, <1>4

\* A deletion that has begun ends only with the record.
LEMMA DeletionEndsWithRecord ==
  ASSUME IgTypeOK, [IgNext]_igVars, NEW c \in Connections, conn'[c].exists, deleting'[c] = "no"
  PROVE  deleting[c] = "no"
<1>1. CASE deleting' = deleting
  BY <1>1
<1>2. CASE \E d \in Connections : StartDeleteConnection(d)
  BY <1>2 DEF StartDeleteConnection, IgTypeOK
<1>3. CASE \E d \in Connections : EndDeleteConnection(d)
  BY <1>3 DEF EndDeleteConnection, Unmade, IgTypeOK
<1>4. CASE IgCrash
  BY <1>4 DEF IgCrash, IgTypeOK
<1> QED BY <1>1, <1>2, <1>3, <1>4
        DEF IgNext, igVars, CallbackStep, RefreshStep, Authorize, ExpireState, Callback, CallbackFails, Exchange,
            Discover, SubscriptionUnconfirmed, Bind, Reverified, StartVerify, EndVerify, StartCoreBind, EndCoreBind,
            StartDisconnect, EndDisconnect, CloseSetup, StartSweep, Visit, Renewed, NotRenewed, MarkExpired,
            SkipToken, TokenAges, Revoke

\* Only its own disconnection or deletion takes the token of a connection away.
LEMMA TokenStays ==
  ASSUME IgTypeOK, OneConnectionPerAccount, [IgNext]_igVars, NEW c \in Connections,
         conn'[c].exists, conn'[c].account # NoAccount, AsBefore(c), deleting'[c] = "no",
         cred[conn[c].account] # NoCredential
  PROVE  cred'[conn[c].account] # NoCredential
<1> DEFINE a == conn[c].account
<1>1. a \in Accounts /\ conn[c].exists /\ conn'[c].account = a /\ a # NoAccount
  BY DEF IgTypeOK, Connection, AsBefore
<1>2. \A d \in Connections \ {c} : conn[d].exists => conn[d].account # a
  BY <1>1 DEF OneConnectionPerAccount
<1>3. CASE cred' = cred
  BY <1>3
<1>4. CASE \E i \in Intents : Bind(i)
  BY <1>1, <1>4, BindEffect
<1>5. CASE \E d \in Connections : Disconnect(d)
  <2>1. PICK d \in Connections : Disconnect(d)
    BY <1>5
  <2>2. CASE d = c
    BY <1>1, <2>1, <2>2, DisconnectEffect
  <2>3. CASE d # c
    BY <1>1, <1>2, <2>1, <2>3, DisconnectEffect
  <2> QED BY <2>2, <2>3
<1>6. CASE \E d \in Connections : StartDeleteConnection(d)
  <2>1. PICK d \in Connections : StartDeleteConnection(d)
    BY <1>6
  <2>2. d # c /\ conn[d].exists /\ cred' = Forget(d)
    BY <2>1 DEF StartDeleteConnection, IgTypeOK
  <2> QED BY <1>1, <1>2, <2>2, ForgetEffect
<1>7. CASE Renewed
  BY <1>1, <1>7, RefreshKnows, StoreEffect DEF Renewed, Idle
<1>8. CASE MarkExpired
  <2>1. cred[a] \in Credential
    BY <1>1 DEF IgTypeOK
  <2>2. [cred[a] EXCEPT !.age = "expired"] \in Credential
    BY <2>1 DEF Credential
  <2>3. cred'[a] \in Credential
    BY <1>1, <1>8, <2>1, <2>2 DEF MarkExpired, IgTypeOK
  <2> QED BY <2>3, CredentialIsStored
<1>9. CASE \E b \in Accounts : TokenAges(b)
  <2>1. PICK b \in Accounts : TokenAges(b)
    BY <1>9
  <2>2. cred[a] \in Credential
    BY <1>1 DEF IgTypeOK
  <2>3. [cred[a] EXCEPT !.age = IF @ = "active" THEN "due" ELSE "expired"] \in Credential
    BY <2>2 DEF Credential
  <2>4. cred' = [cred EXCEPT ![b] = [cred[b] EXCEPT !.age = IF @ = "active" THEN "due" ELSE "expired"]]
    BY <2>1 DEF TokenAges
  <2>5. cred'[a] \in Credential
    BY <1>1, <2>2, <2>3, <2>4 DEF IgTypeOK
  <2> QED BY <2>5, CredentialIsStored
<1>10. CASE IgCrash
  BY <1>1, <1>10, CrashKeepsCredentials DEF Stored
<1> QED BY <1>3, <1>4, <1>5, <1>6, <1>7, <1>8, <1>9, <1>10
        DEF IgNext, igVars, CallbackStep, RefreshStep, Authorize, ExpireState, Callback, CallbackFails, Exchange,
            Discover, SubscriptionUnconfirmed, Reverified, StartVerify, EndVerify, StartCoreBind, EndCoreBind,
            StartDisconnect, EndDisconnect, EndDeleteConnection, CloseSetup, StartSweep, Visit, NotRenewed,
            SkipToken, Revoke

LEMMA TokenPreserved ==
  IgTypeOK /\ OneConnectionPerAccount /\ BoundHasToken /\ [IgNext]_igVars => BoundHasToken'
<1> SUFFICES ASSUME IgTypeOK, OneConnectionPerAccount, BoundHasToken, [IgNext]_igVars, NEW c \in Connections,
                    conn'[c].exists, conn'[c].account # NoAccount, deleting'[c] = "no"
             PROVE  cred'[conn'[c].account] # NoCredential
  BY DEF BoundHasToken, Stored
<1>1. CASE BoundNow(c)
  BY <1>1 DEF BoundNow
<1>2. CASE AsBefore(c)
  <2>1. deleting[c] = "no"
    BY DeletionEndsWithRecord
  <2>2. cred[conn[c].account] # NoCredential
    BY <1>2, <2>1 DEF AsBefore, BoundHasToken, Stored
  <2> QED BY <1>2, <2>2, TokenStays DEF AsBefore
<1> QED BY <1>1, <1>2, BindingsOfAStep

-------------------------------------------------------------------------------
(* What is announced as ready is subscribed.                               *)

\* Why an account is believed to be subscribed: the confirmation of the verification,
\* the binding of Core or its request, and those that still wait for Meta.
Trusted(c) == conn[c].verified \/ conn[c].core # "none" \/ "bind" \in coreCalls[c]
SubscriptionKnown ==
    \A c \in Connections : conn[c].exists /\ conn[c].account # NoAccount =>
        /\ Trusted(c) => conn[c].account \in meta.subscribed
        /\ verifying[c] # NoAccount => conn[c].account \in meta.subscribed \cup {verifying[c]}
        /\ \A i \in Intents : intent[i].stage = "verification" /\ intent[i].target = c =>
             conn[c].account \in meta.subscribed \cup {intent[i].account}

\* Meta keeps its subscriptions.
LEMMA SubscriptionsGrow ==
  ASSUME IgTypeOK, [IgNext]_igVars
  PROVE  meta.subscribed \subseteq meta'.subscribed
<1>1. CASE meta' = meta
  BY <1>1
<1>2. CASE \E a \in Accounts : Subscribe(a)
  BY <1>2 DEF Subscribe, IgTypeOK
<1>3. CASE \E t \in Tokens : Revoke(t)
  BY <1>3 DEF Revoke, IgTypeOK
<1>4. CASE \E i \in Intents : SubscriptionUnconfirmed(i) \/ Bind(i) \/ Reverified(i)
  BY <1>2, <1>4, CallbackKnows DEF SubscriptionUnconfirmed, Bind, Reverified
<1>5. CASE \E d \in Connections : EndVerify(d)
  BY <1>1, <1>2, <1>5 DEF EndVerify, IgTypeOK
<1> QED BY <1>1, <1>3, <1>4, <1>5
        DEF IgNext, igVars, CallbackStep, RefreshStep, Authorize, ExpireState, Callback, CallbackFails, Exchange,
            Discover, StartVerify, StartCoreBind, EndCoreBind, StartDisconnect, EndDisconnect,
            StartDeleteConnection, EndDeleteConnection, CloseSetup, StartSweep, Visit, Renewed, NotRenewed,
            MarkExpired, SkipToken, TokenAges, IgCrash

\* What is ready is trusted.
LEMMA ReadyIsTrusted ==
  ASSUME NEW c \in Connections, IsReady(c)
  PROVE  conn[c].exists /\ conn[c].account # NoAccount /\ Trusted(c)
BY DEF IsReady, Trusted

\* Trust comes from a confirmation, or from what was trusted before.
LEMMA TrustOfAStep ==
  ASSUME IgTypeOK, SubscriptionKnown, [IgNext]_igVars, NEW c \in Connections,
         conn'[c].exists, conn'[c].account # NoAccount, AsBefore(c), Trusted(c)'
  PROVE  Trusted(c) \/ conn[c].account \in meta'.subscribed
<1> USE DEF Trusted
<1>1. conn[c].exists /\ conn'[c].account = conn[c].account /\ conn[c].account # NoAccount
  BY DEF AsBefore
<1>2. CASE UNCHANGED <<conn, coreCalls>>
  BY <1>2
<1>3. CASE \E i \in Intents : Bind(i)
  <2>1. PICK i \in Intents : Bind(i)
    BY <1>3
  <2>2. CASE conn'[c] = conn[c]
    BY <2>1, <2>2 DEF Bind
  <2>3. CASE conn'[c] # conn[c]
    <3>1. intent[i].target = c /\ intent[i].account \in Accounts /\ conn'[c].account = intent[i].account
      BY <2>1, <2>3, BindEffect
    <3>2. intent[i].account \in meta'.subscribed
      BY <2>1, <3>1 DEF Bind, Subscribe, IgTypeOK
    <3> QED BY <1>1, <3>1, <3>2
  <2> QED BY <2>2, <2>3
<1>4. CASE \E i \in Intents : Reverified(i)
  <2>1. PICK i \in Intents : Reverified(i)
    BY <1>4
  <2>2. CASE intent[i].target = c
    BY <1>1, <2>1, <2>2, CallbackKnows DEF Reverified, Subscribe, SubscriptionKnown, IgTypeOK
  <2>3. CASE intent[i].target # c
    BY <2>1, <2>3, CallbackKnows, MarkVerifiedEffect DEF Reverified
  <2> QED BY <2>2, <2>3
<1>5. CASE \E d \in Connections : EndVerify(d)
  <2>1. PICK d \in Connections : EndVerify(d)
    BY <1>5
  <2>2. CASE d = c /\ Subscribe(verifying[c])
    BY <1>1, <2>1, <2>2 DEF EndVerify, Subscribe, SubscriptionKnown, IgTypeOK
  <2>3. CASE d # c
    BY <2>1, <2>3, MarkVerifiedEffect DEF EndVerify
  <2> QED BY <2>1, <2>2, <2>3, <1>2 DEF EndVerify
<1>6. CASE \E d \in Connections : StartCoreBind(d)
  <2>1. PICK d \in Connections : StartCoreBind(d)
    BY <1>6
  <2>2. CASE d = c
    BY <1>1, <2>1, <2>2, ReadyIsTrusted DEF StartCoreBind, RouteOpen
  <2>3. CASE d # c
    BY <2>1, <2>3 DEF StartCoreBind, IgTypeOK
  <2> QED BY <2>2, <2>3
<1>7. CASE \E d \in Connections : EndCoreBind(d)
  BY <1>7 DEF EndCoreBind, IgTypeOK, Connection
<1>8. CASE \E d \in Connections : StartDisconnect(d)
  <2>1. PICK d \in Connections : StartDisconnect(d)
    BY <1>8
  <2>2. CASE Disconnect(d) /\ UNCHANGED coreCalls
    BY <1>1, <2>2, DisconnectEffect
  <2>3. CASE coreCalls' = [coreCalls EXCEPT ![d] = @ \cup {"revoke"}] /\ UNCHANGED conn
    BY <2>3 DEF IgTypeOK
  <2> QED BY <2>1, <2>2, <2>3 DEF StartDisconnect
<1>9. CASE \E d \in Connections : EndDisconnect(d)
  <2>1. PICK d \in Connections : EndDisconnect(d)
    BY <1>9
  <2>2. coreCalls'[c] \subseteq coreCalls[c]
    BY <2>1 DEF EndDisconnect, IgTypeOK
  <2>3. conn'[c] = conn[c]
    BY <1>1, <2>1, DisconnectEffect DEF EndDisconnect
  <2> QED BY <2>2, <2>3
<1>10. CASE \E d \in Connections : StartDeleteConnection(d)
  BY <1>10 DEF StartDeleteConnection, IgTypeOK, Connection
<1>11. CASE \E d \in Connections : EndDeleteConnection(d)
  BY <1>1, <1>11 DEF EndDeleteConnection, IgTypeOK, Unmade
<1>12. CASE IgCrash
  BY <1>12 DEF IgCrash
<1> QED BY <1>2, <1>3, <1>4, <1>5, <1>6, <1>7, <1>8, <1>9, <1>10, <1>11, <1>12
        DEF IgNext, igVars, CallbackStep, RefreshStep, Authorize, ExpireState, Callback, CallbackFails, Exchange,
            Discover, SubscriptionUnconfirmed, StartVerify, CloseSetup, StartSweep, Visit, Renewed, NotRenewed,
            MarkExpired, SkipToken, TokenAges, Revoke

\* A verification asks about the account that is bound when it starts.
LEMMA VerifyingOfAStep ==
  ASSUME IgTypeOK, [IgNext]_igVars, NEW c \in Connections, verifying'[c] # NoAccount
  PROVE  verifying'[c] = verifying[c] \/ (verifying'[c] = conn[c].account /\ conn' = conn)
<1>1. CASE verifying' = verifying
  BY <1>1
<1>2. CASE \E d \in Connections : StartVerify(d)
  BY <1>2 DEF StartVerify, IgTypeOK
<1>3. CASE \E d \in Connections : EndVerify(d)
  BY <1>3 DEF EndVerify, IgTypeOK
<1>4. CASE IgCrash
  BY <1>4 DEF IgCrash
<1> QED BY <1>1, <1>2, <1>3, <1>4
        DEF IgNext, igVars, CallbackStep, RefreshStep, Authorize, ExpireState, Callback, CallbackFails, Exchange,
            Discover, SubscriptionUnconfirmed, Bind, Reverified, StartCoreBind, EndCoreBind, StartDisconnect,
            EndDisconnect, StartDeleteConnection, EndDeleteConnection, CloseSetup, StartSweep, Visit, Renewed,
            NotRenewed, MarkExpired, SkipToken, TokenAges, Revoke

\* So does the verification at the end of a callback.
LEMMA ReverificationOfAStep ==
  ASSUME IgTypeOK, [IgNext]_igVars, NEW c \in Connections, NEW i \in Intents,
         intent'[i].stage = "verification", intent'[i].target = c
  PROVE  intent'[i] = intent[i] \/ intent'[i].account = conn'[c].account
<1>1. CASE intent'[i] = intent[i]
  BY <1>1
<1>2. CASE \E j \in Intents, t \in Connections : Authorize(j, t)
  BY <1>2 DEF Authorize, IgTypeOK
<1>3. CASE \E j \in Intents : ExpireState(j) \/ CallbackFails(j) \/ SubscriptionUnconfirmed(j) \/ Reverified(j)
  BY <1>3 DEF ExpireState, CallbackFails, SubscriptionUnconfirmed, Reverified, IgTypeOK
<1>4. CASE \E j \in Intents : Callback(j)
  <2>1. PICK j \in Intents : Callback(j)
    BY <1>4
  <2>2. \/ intent' = [intent EXCEPT ![j] = [intent[j] EXCEPT !.stage = "exchange"]]
        \/ intent' = [intent EXCEPT ![j] = [stage |-> "done"]]
    BY <2>1 DEF Callback
  <2>3. intent[j] \in [stage: {"issued", "exchange"}, target: Connections, forSetup: BOOLEAN]
    BY <2>1 DEF Callback, IgTypeOK, CallbackRecord
  <2>4. [intent[j] EXCEPT !.stage = "exchange"].stage # "verification"
    BY <2>3
  <2>5. [stage |-> "done"].stage # "verification"
    OBVIOUS
  <2>6. j # i
    BY <2>2, <2>4, <2>5 DEF IgTypeOK
  <2> QED BY <2>2, <2>6 DEF IgTypeOK
<1>5. CASE \E j \in Intents : Exchange(j) \/ Discover(j)
  BY <1>5 DEF Exchange, Discover, IgTypeOK
<1>6. CASE \E j \in Intents : Bind(j)
  <2>1. PICK j \in Intents : Bind(j)
    BY <1>6
  <2>2. CASE j # i
    BY <2>1, <2>2 DEF Bind, IgTypeOK
  <2>3. CASE j = i
    <3>1. intent[i] \in [stage: {"subscription", "verification"}, target: Connections, forSetup: BOOLEAN,
                         scopes: BOOLEAN, account: Accounts]
      BY <2>1, <2>3 DEF Bind, IgTypeOK, CallbackRecord
    <3>2. intent'[i] \in { [stage |-> "done"],
                           [intent[i] EXCEPT !.stage = "verification", !.account = conn'[intent[i].target].account] }
      BY <2>1, <2>3 DEF Bind, IgTypeOK
    <3>3. intent'[i] = [intent[i] EXCEPT !.stage = "verification", !.account = conn'[intent[i].target].account]
      BY <3>2
    <3>4. intent'[i].account = conn'[intent[i].target].account /\ intent'[i].target = intent[i].target
      BY <3>1, <3>3
    <3> QED BY <3>4
  <2> QED BY <2>2, <2>3
<1>7. CASE IgCrash
  BY <1>7 DEF IgCrash
<1>8. CASE intent' = intent
  BY <1>8
<1> QED BY <1>2, <1>3, <1>4, <1>5, <1>6, <1>7, <1>8
        DEF IgNext, igVars, CallbackStep, RefreshStep, StartVerify, EndVerify, StartCoreBind, EndCoreBind,
            StartDisconnect, EndDisconnect, StartDeleteConnection, EndDeleteConnection, CloseSetup, StartSweep,
            Visit, Renewed, NotRenewed, MarkExpired, SkipToken, TokenAges, Revoke

LEMMA SubscriptionPreserved ==
  IgTypeOK /\ SubscriptionKnown /\ [IgNext]_igVars => SubscriptionKnown'
<1> SUFFICES ASSUME IgTypeOK, SubscriptionKnown, [IgNext]_igVars, NEW c \in Connections,
                    conn'[c].exists, conn'[c].account # NoAccount
             PROVE  /\ Trusted(c)' => conn'[c].account \in meta'.subscribed
                    /\ verifying'[c] # NoAccount => conn'[c].account \in meta'.subscribed \cup {verifying'[c]}
                    /\ \A i \in Intents : intent'[i].stage = "verification" /\ intent'[i].target = c =>
                         conn'[c].account \in meta'.subscribed \cup {intent'[i].account}
  BY DEF SubscriptionKnown
<1>1. CASE BoundNow(c)
  BY <1>1 DEF BoundNow
<1>2. CASE AsBefore(c)
  <2>1. /\ conn[c].exists /\ conn'[c].account = conn[c].account /\ conn[c].account # NoAccount
        /\ meta.subscribed \subseteq meta'.subscribed
    BY <1>2, SubscriptionsGrow DEF AsBefore
  <2>2. Trusted(c)' => conn[c].account \in meta'.subscribed
    BY <1>2, <2>1, TrustOfAStep DEF SubscriptionKnown
  <2>3. verifying'[c] # NoAccount => conn[c].account \in meta'.subscribed \cup {verifying'[c]}
    BY <2>1, VerifyingOfAStep DEF SubscriptionKnown
  <2>4. ASSUME NEW i \in Intents, intent'[i].stage = "verification", intent'[i].target = c
        PROVE  conn'[c].account \in meta'.subscribed \cup {intent'[i].account}
    BY <2>1, <2>4, ReverificationOfAStep DEF SubscriptionKnown
  <2> QED BY <2>1, <2>2, <2>3, <2>4
<1> QED BY <1>1, <1>2, BindingsOfAStep

-------------------------------------------------------------------------------
(* The theorems.                                                           *)

LEMMA BindingsInit == IgInit => OneConnectionPerAccount /\ BoundHasToken /\ SubscriptionKnown
<1> SUFFICES ASSUME IgInit PROVE OneConnectionPerAccount /\ BoundHasToken /\ SubscriptionKnown
  OBVIOUS
<1>1. /\ IgTypeOK
      /\ \A c \in Connections : conn[c].exists <=> c \in Linked
  BY IgTypeInit DEF IgInit
<1>2. OneConnectionPerAccount
  BY <1>1 DEF IgInit, OneConnectionPerAccount
<1>3. BoundHasToken
  <2> SUFFICES ASSUME NEW c \in Connections, conn[c].exists, conn[c].account # NoAccount
               PROVE  cred[conn[c].account] # NoCredential
    BY DEF BoundHasToken, Stored
  <2>1. conn[c].account \in Accounts /\ c \in Linked
    BY <1>1 DEF IgTypeOK, Connection
  <2> QED BY <2>1 DEF IgInit, Stored
<1>4. SubscriptionKnown
  <2> SUFFICES ASSUME NEW c \in Connections
               PROVE  ~Trusted(c) /\ verifying[c] = NoAccount /\ \A i \in Intents : intent[i].stage # "verification"
    BY DEF SubscriptionKnown
  <2>1. ~conn[c].verified /\ conn[c].core = "none"
    <3> DEFINE Before == {Unmade}
                 \cup [exists: {TRUE}, state: {"oauth_pending"}, account: {NoAccount}, verified: {FALSE}, core: {"none"}]
                 \cup [exists: {TRUE}, state: {"connected"}, account: Accounts, verified: {FALSE}, core: {"none"}]
    <3>1. conn[c] \in Before
      BY DEF IgInit
    <3>2. Unmade.verified = FALSE /\ Unmade.core = "none"
      BY DEF Unmade
    <3>3. ASSUME NEW A, NEW S, NEW r \in [exists: {TRUE}, state: S, account: A, verified: {FALSE}, core: {"none"}]
          PROVE  r.verified = FALSE /\ r.core = "none"
      BY ZenonT(30)
    <3>4. \A r \in Before : r.verified = FALSE /\ r.core = "none"
      BY <3>2, <3>3
    <3> QED BY <3>1, <3>4
  <2> QED BY <2>1 DEF IgInit, Trusted
<1> QED BY <1>2, <1>3, <1>4

\* Every record has its form: what the callbacks, the refresh loop and the operator
\* leave in the inventory, the token store and the OAuth states.
LEMMA InstagramTypes == IgSpec => []IgTypeOK
<1> QED BY IgTypeInit, IgTypePreserved, PTL DEF IgSpec

\* The check that the account is free and the binding are one step, for setups and
\* connections alike: no account is ever bound to two connections.
THEOREM AccountHasOneConnection == IgSpec => []OneConnectionPerAccount
<1> QED BY BindingsInit, InstagramTypes, OneConnectionPreserved, PTL DEF IgSpec

\* As an account has one connection, what removes the token of an account is the
\* disconnection or the deletion of that connection, and nothing else.
THEOREM BindingKeepsToken == IgSpec => []BoundHasToken
<1> QED BY BindingsInit, InstagramTypes, AccountHasOneConnection, TokenPreserved, PTL DEF IgSpec

\* What is announced as ready has its webhook: a verification that is under way when the
\* binding changes cannot vouch for the new account, which its own callback subscribed.
THEOREM ReadyAccountsAreSubscribed == IgSpec => []ReadyIsSubscribed
<1>1. SubscriptionKnown => ReadyIsSubscribed
  BY ReadyIsTrusted DEF SubscriptionKnown, ReadyIsSubscribed
<1>2. IgSpec => []SubscriptionKnown
  BY BindingsInit, InstagramTypes, SubscriptionPreserved, PTL DEF IgSpec
<1> QED BY <1>1, <1>2, PTL

-------------------------------------------------------------------------------
(* Onboarding of WhatsApp numbers.                                         *)

(* The records.                                                            *)

Pcs == Waiting \cup {"ready", "failed", "lost"}
Going == [pc: Pcs, name: Names, phone: Phones, type: Types, rec: OnboardingRecord, pin: PinValues \cup {NoPin}]
Used(q) == run[q].pc # "unused"
\* Before the credential is made.
Early == {"oauth", "token", "discovery", "subscribe"}

LEMMA UsedForm ==
  ASSUME MoTypeOK, NEW r \in Runs
  PROVE  Used(r) <=> run[r] \in Going
BY DEF MoTypeOK, Used, Going, Pcs, Waiting

\* A checkpoint adds what was reached, and changes no type.
LEMMA AdvanceForm ==
  ASSUME NEW rec \in OnboardingRecord, NEW reached \in SUBSET (Steps \cup {"READY"})
  PROVE  /\ Advance(rec, reached) \in OnboardingRecord
         /\ Advance(rec, reached).steps = rec.steps \cup reached
         /\ Advance(rec, reached).type = rec.type
<1>1. rec.steps \cup reached \in SUBSET (Steps \cup {"READY"})
  BY DEF OnboardingRecord
<1>2. (IF "READY" \in reached THEN FALSE ELSE rec.failed) \in BOOLEAN
  BY DEF OnboardingRecord
<1> DEFINE b == IF "READY" \in reached THEN FALSE ELSE rec.failed
           s == rec.steps \cup reached
           new == [rec EXCEPT !.steps = s, !.failed = b]
<1>3. Advance(rec, reached) = new
  BY Zenon DEF Advance
<1>4. b \in BOOLEAN /\ s \in SUBSET (Steps \cup {"READY"})
  BY <1>1, <1>2
<1> HIDE DEF b, s
<1>5. new \in OnboardingRecord /\ new.steps = s /\ new.type = rec.type
  BY <1>4 DEF OnboardingRecord
<1> HIDE DEF new
<1>6. s = rec.steps \cup reached
  BY DEF s
<1> QED BY <1>3, <1>5, <1>6

\* A failure takes only READY away.
LEMMA FailedForm ==
  ASSUME NEW rec \in OnboardingRecord
  PROVE  /\ Failed(rec) \in OnboardingRecord
         /\ Failed(rec).steps \subseteq rec.steps
         /\ Failed(rec).type = rec.type
<1>1. rec.steps \ {"READY"} \in SUBSET (Steps \cup {"READY"})
  BY DEF OnboardingRecord
<1>2. \A s \in SUBSET (Steps \cup {"READY"}) :
        LET new == [rec EXCEPT !.steps = s, !.failed = TRUE]
        IN  new \in OnboardingRecord /\ new.steps = s /\ new.type = rec.type
  BY DEF OnboardingRecord
<1> QED BY <1>1, <1>2 DEF Failed

\* A run that moves on writes the record it holds.
LEMMA MovesEffect ==
  ASSUME MoTypeOK, NEW r \in Runs, Used(r), NEW pc \in Pcs, NEW rec \in OnboardingRecord, Moves(r, pc, rec)
  PROVE  /\ run'[r] \in Going /\ run'[r].pc = pc /\ run'[r].rec = rec
         /\ run'[r].name = run[r].name /\ run'[r].phone = run[r].phone
         /\ run'[r].type = run[r].type /\ run'[r].pin = run[r].pin
         /\ run' = [run EXCEPT ![r] = run'[r]]
         /\ stored' = [stored EXCEPT ![run[r].name] = rec]
<1>1. run[r] \in Going
  BY UsedForm
<1> DEFINE new == [run[r] EXCEPT !.pc = pc, !.rec = rec]
<1>2. /\ new \in Going /\ new.pc = pc /\ new.rec = rec
      /\ new.name = run[r].name /\ new.phone = run[r].phone
      /\ new.type = run[r].type /\ new.pin = run[r].pin
  BY <1>1 DEF Going
<1>3. run' = [run EXCEPT ![r] = new] /\ run'[r] = new
  BY DEF Moves, MoTypeOK
<1> QED BY <1>2, <1>3 DEF Moves, Put

-------------------------------------------------------------------------------
(* What a step of a run may do.                                            *)

\* The credential is stored again with the PIN it has, or with one for a registration:
\* the owner's, the one that is stored, or a new one.
KeepsPin(r) ==
    /\ run'[r].pin = run[r].pin
    /\ run'[r].pc \in Early => run[r].pc \in Early
    /\ run'[r].pc # "register"
    /\ official' \in {official, UpsertOfficial(run[r].name, run[r].phone)}
TakesPin(r) ==
    LET kept == UpsertOfficial(run[r].name, run[r].phone)[run[r].name].pin IN
    /\ run[r].pc \in Early /\ run'[r].pc = "register"
    /\ run'[r].pin = OwnerPin \/ (IF kept = NoPin THEN run'[r].pin = r ELSE run'[r].pin = kept)
    /\ official' = [official EXCEPT ![run[r].name] = [phone |-> run[r].phone, pin |-> run'[r].pin]]

\* The checkpoints of the new record were in the old one, or are true now.
Reaches(r) ==
    /\ run'[r].rec.type = run[r].rec.type
    /\ "APP_SUBSCRIBED" \in run'[r].rec.steps =>
         "APP_SUBSCRIBED" \in run[r].rec.steps \/ run[r].phone \in graph'.subscribed
    /\ "PHONE_REGISTERED" \in run'[r].rec.steps =>
         \/ "PHONE_REGISTERED" \in run[r].rec.steps
         \/ run[r].type = "COEXISTENCE"
         \/ run[r].pc = "register" /\ (run[r].pin # NoPin => graph'.pin[run[r].phone] # NoPin)
    /\ "CREDENTIALS_PERSISTED" \in run'[r].rec.steps =>
         "CREDENTIALS_PERSISTED" \in run[r].rec.steps \/ official'[run[r].name].phone = run[r].phone

\* Meta forgets neither a subscription nor a PIN, and learns only the PIN of the run.
GraphGrows(r) ==
    /\ graph' \in [subscribed: SUBSET Phones, pin: [Phones -> PinValues \cup {NoPin}]]
    /\ graph.subscribed \subseteq graph'.subscribed
    /\ \A p \in Phones : \/ graph'.pin[p] = graph.pin[p]
                         \/ graph.pin[p] = NoPin /\ p = run[r].phone /\ graph'.pin[p] = run[r].pin

Moved(r) ==
    /\ Used(r) /\ run'[r] \in Going
    /\ run'[r].name = run[r].name /\ run'[r].phone = run[r].phone /\ run'[r].type = run[r].type
    /\ run' = [run EXCEPT ![r] = run'[r]]
    /\ stored' = [stored EXCEPT ![run[r].name] = run'[r].rec]

LEMMA GraphSame == ASSUME MoTypeOK, NEW r, graph' = graph PROVE GraphGrows(r)
BY DEF GraphGrows, MoTypeOK

LEMMA GraphSubscribes ==
  ASSUME MoTypeOK, NEW r, run[r].phone \in Phones, graph' = [graph EXCEPT !.subscribed = @ \cup {run[r].phone}]
  PROVE  GraphGrows(r) /\ run[r].phone \in graph'.subscribed
BY DEF GraphGrows, MoTypeOK

LEMMA GraphRegisters ==
  ASSUME MoTypeOK, NEW r, run[r].phone \in Phones, run[r].pin \in PinValues \cup {NoPin},
         graph.pin[run[r].phone] = NoPin, graph' = [graph EXCEPT !.pin[run[r].phone] = run[r].pin]
  PROVE  GraphGrows(r) /\ graph'.pin[run[r].phone] = run[r].pin
<1>1. graph'.subscribed = graph.subscribed /\ graph'.pin = [graph.pin EXCEPT ![run[r].phone] = run[r].pin]
  BY DEF MoTypeOK
<1>2. graph' \in [subscribed: SUBSET Phones, pin: [Phones -> PinValues \cup {NoPin}]]
  BY DEF MoTypeOK
<1> QED BY <1>1, <1>2 DEF GraphGrows, MoTypeOK

\* The credential and the registration.
LEMMA RegistrationEffect ==
  ASSUME MoTypeOK, NEW r \in Runs, Used(r), run[r].pc \in {"discovery", "subscribe"},
         NEW rec \in OnboardingRecord, rec.type = run[r].rec.type, ToRegistration(r, rec),
         "APP_SUBSCRIBED" \in rec.steps =>
           "APP_SUBSCRIBED" \in run[r].rec.steps \/ run[r].phone \in graph'.subscribed,
         rec.steps \subseteq run[r].rec.steps \cup {"DISCOVERY_OK", "APP_SUBSCRIBED", "WEBHOOK_VERIFIED"}
  PROVE  Moved(r) /\ Reaches(r) /\ (KeepsPin(r) \/ TakesPin(r))
<1>1. run[r] \in Going
  BY UsedForm
<1>2. CASE "PHONE_REGISTERED" \in rec.steps /\ Moves(r, "verify", rec) /\ UNCHANGED official
  BY <1>2, MovesEffect DEF Moved, Reaches, KeepsPin, Pcs, Waiting, Early
<1>3. CASE run[r].type = "COEXISTENCE" /\ UNCHANGED official /\ Moves(r, "verify", Advance(rec, {"PHONE_REGISTERED"}))
  <2> DEFINE new == Advance(rec, {"PHONE_REGISTERED"})
  <2>1. new \in OnboardingRecord /\ new.steps = rec.steps \cup {"PHONE_REGISTERED"} /\ new.type = rec.type
    BY AdvanceForm DEF Steps
  <2> HIDE DEF new
  <2> QED BY <1>3, <2>1, MovesEffect DEF Moved, Reaches, KeepsPin, Pcs, Waiting, Early, new
<1>4. CASE "PHONE_REGISTERED" \notin rec.steps /\ run[r].type # "COEXISTENCE"
  <2> DEFINE n == run[r].name
             p == run[r].phone
             kept == UpsertOfficial(n, p)[n].pin
  <2>1. PICK typed \in BOOLEAN :
          LET pin == RegistrationPin(r, UpsertOfficial(n, p)[n], typed) IN
          /\ official' = [official EXCEPT ![n] = [phone |-> p, pin |-> pin]]
          /\ run' = [run EXCEPT ![r] = [@ EXCEPT !.pc = "register", !.rec = rec, !.pin = pin]]
          /\ Put(r, rec)
    BY <1>4 DEF ToRegistration
  <2> DEFINE pin == RegistrationPin(r, UpsertOfficial(n, p)[n], typed)
             new == [run[r] EXCEPT !.pc = "register", !.rec = rec, !.pin = pin]
  <2>2. kept \in PinValues \cup {NoPin}
    BY <1>1 DEF UpsertOfficial, MoTypeOK, Going
  <2>3. pin \in PinValues /\ (pin = OwnerPin \/ (IF kept = NoPin THEN pin = r ELSE pin = kept))
    BY <2>2 DEF RegistrationPin, PinValues
  <2> HIDE DEF pin
  <2>4. /\ new \in Going /\ new.pc = "register" /\ new.rec = rec /\ new.pin = pin
        /\ new.name = run[r].name /\ new.phone = run[r].phone /\ new.type = run[r].type
    BY <1>1, <2>3 DEF Going, Pcs, Waiting
  <2>5. run' = [run EXCEPT ![r] = new] /\ run'[r] = new
    BY <2>1 DEF pin, MoTypeOK
  <2>6. official' = [official EXCEPT ![n] = [phone |-> p, pin |-> pin]] /\ stored' = [stored EXCEPT ![n] = rec]
    BY <2>1 DEF pin, Put
  <2> HIDE DEF new
  <2>7. Moved(r) /\ Reaches(r)
    <3>1. Moved(r)
      BY <2>4, <2>5, <2>6 DEF Moved
    <3>2. run'[r].rec = rec
      BY <2>4, <2>5
    <3> QED BY <1>4, <3>1, <3>2 DEF Reaches
  <2>8. TakesPin(r)
    BY <2>3, <2>4, <2>5, <2>6 DEF TakesPin, Early
  <2> QED BY <2>7, <2>8
<1> QED BY <1>2, <1>3, <1>4 DEF ToRegistration

\* Every step of a run.
LEMMA RunStepEffect ==
  ASSUME MoTypeOK, NEW r \in Runs, RunStep(r)
  PROVE  Moved(r) /\ Reaches(r) /\ (KeepsPin(r) \/ TakesPin(r)) /\ GraphGrows(r)
<1>1. Used(r) /\ run[r] \in Going
  <2>1. Used(r)
    BY DEF RunStep, CallRaises, Exchanged, TokenVerified, Discovered, NotConfigured, Subscribed, Registered,
           PhoneVerified, Completed, Waiting, Used
  <2> QED BY <2>1, UsedForm
<1>2. run[r].rec \in OnboardingRecord /\ run[r].phone \in Phones /\ run[r].pin \in PinValues \cup {NoPin}
      /\ run[r].name \in Names
  BY <1>1 DEF Going
<1>3. \A pc \in Pcs \ {"register"}, rec \in OnboardingRecord :
        Moves(r, pc, rec) /\ (pc \in Early => run[r].pc \in Early)
          /\ official' \in {official, UpsertOfficial(run[r].name, run[r].phone)}
        => Moved(r) /\ KeepsPin(r) /\ run'[r].rec = rec
  BY <1>1, MovesEffect DEF Moved, KeepsPin
<1>4. CASE CallRaises(r)
  <2>1. /\ Failed(run[r].rec) \in OnboardingRecord /\ Failed(run[r].rec).type = run[r].rec.type
        /\ Failed(run[r].rec).steps \subseteq run[r].rec.steps
    BY <1>2, FailedForm
  <2>2. Moved(r) /\ KeepsPin(r) /\ run'[r].rec = Failed(run[r].rec)
    BY <1>3, <1>4, <2>1 DEF CallRaises, Pcs, Early
  <2>3. GraphGrows(r)
    BY <1>2, <1>4, GraphSame, GraphSubscribes, GraphRegisters DEF CallRaises
  <2> QED BY <2>1, <2>2, <2>3 DEF Reaches
<1>5. CASE Exchanged(r)
  <2> DEFINE rec == Advance(run[r].rec, {"OAUTH_OK"})
  <2>1. rec \in OnboardingRecord /\ rec.steps = run[r].rec.steps \cup {"OAUTH_OK"} /\ rec.type = run[r].rec.type
    BY <1>2, AdvanceForm DEF Steps
  <2> HIDE DEF rec
  <2>2. Moved(r) /\ KeepsPin(r) /\ run'[r].rec = rec
    BY <1>3, <1>5, <2>1 DEF Exchanged, Pcs, Waiting, Early, rec
  <2> QED BY <1>5, <2>1, <2>2, GraphSame DEF Reaches, Exchanged
<1>6. CASE TokenVerified(r)
  <2> DEFINE rec == Advance(run[r].rec, {"TOKEN_VALID"})
  <2>1. rec \in OnboardingRecord /\ rec.steps = run[r].rec.steps \cup {"TOKEN_VALID"} /\ rec.type = run[r].rec.type
    BY <1>2, AdvanceForm DEF Steps
  <2> HIDE DEF rec
  <2>2. Moved(r) /\ KeepsPin(r) /\ run'[r].rec = rec
    BY <1>3, <1>6, <2>1 DEF TokenVerified, Pcs, Waiting, Early, rec
  <2> QED BY <1>6, <2>1, <2>2, GraphSame DEF Reaches, TokenVerified
<1>7. CASE Discovered(r) \/ NotConfigured(r)
  <2> DEFINE rec == Advance(run[r].rec, {"DISCOVERY_OK"})
  <2>1. /\ rec \in OnboardingRecord /\ rec.steps = run[r].rec.steps \cup {"DISCOVERY_OK"}
        /\ rec.type = run[r].rec.type
    BY <1>2, AdvanceForm DEF Steps
  <2>2. /\ Failed(rec) \in OnboardingRecord /\ Failed(rec).type = run[r].rec.type
        /\ Failed(rec).steps \subseteq run[r].rec.steps \cup {"DISCOVERY_OK"}
    BY <2>1, FailedForm
  <2> HIDE DEF rec
  <2>3. run[r].pc = "discovery" /\ graph' = graph
    BY <1>7 DEF Discovered, NotConfigured
  <2>4. CASE ToRegistration(r, rec)
    BY <1>1, <2>1, <2>3, <2>4, RegistrationEffect, GraphSame
  <2>5. CASE Moves(r, "subscribe", rec) /\ UNCHANGED official
    <3>1. Moved(r) /\ KeepsPin(r) /\ run'[r].rec = rec
      BY <1>3, <2>1, <2>3, <2>5 DEF Pcs, Waiting, Early
    <3> QED BY <2>1, <2>3, <3>1, GraphSame DEF Reaches
  <2>6. CASE Moves(r, "failed", Failed(rec)) /\ UNCHANGED official
    <3>1. Moved(r) /\ KeepsPin(r) /\ run'[r].rec = Failed(rec)
      BY <1>3, <2>2, <2>3, <2>6 DEF Pcs, Early
    <3> QED BY <2>2, <2>3, <3>1, GraphSame DEF Reaches
  <2> QED BY <1>7, <2>4, <2>5, <2>6 DEF Discovered, NotConfigured, rec
<1>8. CASE Subscribed(r)
  <2> DEFINE rec == Advance(run[r].rec, {"APP_SUBSCRIBED", "WEBHOOK_VERIFIED"})
  <2>1. /\ rec \in OnboardingRecord /\ rec.type = run[r].rec.type
        /\ rec.steps = run[r].rec.steps \cup {"APP_SUBSCRIBED", "WEBHOOK_VERIFIED"}
    BY <1>2, AdvanceForm DEF Steps
  <2> HIDE DEF rec
  <2>2. GraphGrows(r) /\ run[r].phone \in graph'.subscribed
    BY <1>2, <1>8, GraphSubscribes DEF Subscribed, SubscriptionHolds
  <2>3. ToRegistration(r, rec) /\ run[r].pc = "subscribe"
    BY <1>8 DEF Subscribed, rec
  <2> QED BY <1>1, <2>1, <2>2, <2>3, RegistrationEffect
<1>9. CASE Registered(r)
  <2> DEFINE rec == Advance(run[r].rec, {"PHONE_REGISTERED"})
  <2>1. rec \in OnboardingRecord /\ rec.steps = run[r].rec.steps \cup {"PHONE_REGISTERED"} /\ rec.type = run[r].rec.type
    BY <1>2, AdvanceForm DEF Steps
  <2> HIDE DEF rec
  <2>2. Moved(r) /\ KeepsPin(r) /\ run'[r].rec = rec
    BY <1>3, <1>9, <2>1 DEF Registered, Pcs, Waiting, Early, rec
  <2>3. GraphGrows(r) /\ (run[r].pin # NoPin => graph'.pin[run[r].phone] # NoPin)
    BY <1>2, <1>9, GraphSame, GraphRegisters DEF Registered
  <2> QED BY <1>9, <2>1, <2>2, <2>3 DEF Reaches, Registered
<1>10. CASE PhoneVerified(r)
  <2> DEFINE rec == Advance(run[r].rec, {"PHONE_VERIFIED"})
  <2>1. rec \in OnboardingRecord /\ rec.steps = run[r].rec.steps \cup {"PHONE_VERIFIED"} /\ rec.type = run[r].rec.type
    BY <1>2, AdvanceForm DEF Steps
  <2> HIDE DEF rec
  <2>2. Moved(r) /\ KeepsPin(r) /\ run'[r].rec = rec
    BY <1>3, <1>10, <2>1 DEF PhoneVerified, Pcs, Waiting, Early, rec
  <2> QED BY <1>10, <2>1, <2>2, GraphSame DEF Reaches, PhoneVerified
<1>11. CASE Completed(r)
  <2> DEFINE rec == Advance(run[r].rec, {"EVOLUTION_READY", "CREDENTIALS_PERSISTED", "READY"})
  <2>1. /\ rec \in OnboardingRecord /\ rec.type = run[r].rec.type
        /\ rec.steps = run[r].rec.steps \cup {"EVOLUTION_READY", "CREDENTIALS_PERSISTED", "READY"}
    BY <1>2, AdvanceForm DEF Steps
  <2> HIDE DEF rec
  <2>2. Moved(r) /\ KeepsPin(r) /\ run'[r].rec = rec
    BY <1>3, <1>11, <2>1 DEF Completed, Pcs, Early, rec
  <2>3. official'[run[r].name].phone = run[r].phone
    BY <1>2, <1>11 DEF Completed, UpsertOfficial, MoTypeOK
  <2> QED BY <1>11, <2>1, <2>2, <2>3, GraphSame DEF Reaches, Completed
<1> QED BY <1>4, <1>5, <1>6, <1>7, <1>8, <1>9, <1>10, <1>11 DEF RunStep

-------------------------------------------------------------------------------
(* Types.                                                                  *)

\* A run that starts takes the stored record over, or a new one of its type.
LEMMA StartEffect ==
  ASSUME MoTypeOK, NEW r \in Runs, NEW n \in Names, NEW p \in Phones, NEW type \in Types, StartRun(r, n, p, type)
  PROVE  /\ ~Used(r)
         /\ run'[r] \in Going /\ run'[r].pc = "oauth" /\ run'[r].name = n /\ run'[r].phone = p
         /\ run'[r].type = type /\ run'[r].pin = NoPin /\ run'[r].rec = StartRecord(n, type)
         /\ run' = [run EXCEPT ![r] = run'[r]]
         /\ stored' = [stored EXCEPT ![n] = StartRecord(n, type)]
         /\ StartRecord(n, type) \in OnboardingRecord /\ StartRecord(n, type).type = type
         /\ (stored[n] # Nothing /\ StartRecord(n, type) = stored[n]) \/ StartRecord(n, type).steps = {}
<1>1. /\ StartRecord(n, type) \in OnboardingRecord /\ StartRecord(n, type).type = type
      /\ (stored[n] # Nothing /\ StartRecord(n, type) = stored[n]) \/ StartRecord(n, type).steps = {}
  <2>1. CASE stored[n] # Nothing /\ stored[n].type = type
    BY <2>1 DEF StartRecord, MoTypeOK
  <2>2. CASE ~(stored[n] # Nothing /\ stored[n].type = type)
    <3>1. StartRecord(n, type) = [type |-> type, steps |-> {}, failed |-> FALSE]
      BY <2>2 DEF StartRecord
    <3>2. [type |-> type, steps |-> {}, failed |-> FALSE] \in OnboardingRecord
      BY DEF OnboardingRecord
    <3> QED BY <3>1, <3>2
  <2> QED BY <2>1, <2>2
<1> DEFINE rec == StartRecord(n, type)
<1>2. /\ ~Used(r)
      /\ run' = [run EXCEPT ![r] = [pc |-> "oauth", name |-> n, phone |-> p, type |-> type, rec |-> rec, pin |-> NoPin]]
      /\ stored' = [stored EXCEPT ![n] = rec]
  BY DEF StartRun, Used
<1>3. rec \in OnboardingRecord
  BY <1>1
<1> HIDE DEF rec
<1>4. [pc |-> "oauth", name |-> n, phone |-> p, type |-> type, rec |-> rec, pin |-> NoPin] \in Going
  BY <1>3 DEF Going, Pcs, Waiting
<1>5. run'[r] = [pc |-> "oauth", name |-> n, phone |-> p, type |-> type, rec |-> rec, pin |-> NoPin]
  BY <1>2 DEF MoTypeOK
<1>6. /\ run'[r].pc = "oauth" /\ run'[r].name = n /\ run'[r].phone = p
      /\ run'[r].type = type /\ run'[r].pin = NoPin /\ run'[r].rec = rec
  BY <1>5
<1>7. run' = [run EXCEPT ![r] = run'[r]] /\ run'[r] \in Going
  BY <1>2, <1>4, <1>5
<1>8. rec = StartRecord(n, type)
  BY DEF rec
<1> QED BY <1>1, <1>2, <1>6, <1>7, <1>8

\* A crash loses the runs that wait, and nothing of what they have done.
LEMMA CrashEffect ==
  ASSUME MoTypeOK, MoCrash, NEW q \in Runs
  PROVE  /\ Used(q) <=> Used(q)'
         /\ Used(q) => /\ run'[q] \in Going /\ run'[q].pc \in {run[q].pc, "lost"}
                       /\ run'[q].name = run[q].name /\ run'[q].phone = run[q].phone
                       /\ run'[q].type = run[q].type /\ run'[q].rec = run[q].rec /\ run'[q].pin = run[q].pin
         /\ ~Used(q) => run'[q] = run[q]
<1>1. CASE run[q].pc \in Waiting
  <2>1. run[q] \in Going /\ Used(q)
    BY <1>1, UsedForm DEF Waiting, Used
  <2>2. run'[q] = [run[q] EXCEPT !.pc = "lost"]
    BY <1>1 DEF MoCrash
  <2> QED BY <2>1, <2>2 DEF Going, Pcs, Used
<1>2. CASE run[q].pc \notin Waiting
  <2>1. run'[q] = run[q]
    BY <1>2 DEF MoCrash
  <2> QED BY <2>1, UsedForm DEF Used
<1> QED BY <1>1, <1>2

\* A request that arrives after the death of its process registers its PIN.
LEMMA LateEffect ==
  ASSUME MoTypeOK, NEW r \in Runs, LateLanding(r)
  PROVE  Used(r) /\ GraphGrows(r)
<1>1. Used(r)
  BY DEF LateLanding, Used
<1>2. run[r] \in Going
  BY <1>1, UsedForm
<1> QED BY <1>1, <1>2, GraphRegisters DEF LateLanding, Going

LEMMA MoTypePreserved == MoTypeOK /\ [MoNext]_moVars => MoTypeOK'
<1> SUFFICES ASSUME MoTypeOK, [MoNext]_moVars PROVE MoTypeOK'
  OBVIOUS
<1> DEFINE RunsOK(f) == f \in [Runs -> {[pc |-> "unused"]} \cup Going]
<1>1. MoTypeOK <=>
        /\ stored \in [Names -> OnboardingRecord \cup {Nothing}]
        /\ official \in [Names -> [phone: Phones \cup {NoPhone}, pin: PinValues \cup {NoPin}]]
        /\ RunsOK(run)
        /\ graph \in [subscribed: SUBSET Phones, pin: [Phones -> PinValues \cup {NoPin}]]
        /\ catalogue \in [Phones -> [Resources -> {"unknown", "discovered", "removed"}]]
        /\ crashes \in 0..Crashes
  BY DEF MoTypeOK, Going, Pcs
<1>2. MoTypeOK' <=>
        /\ stored' \in [Names -> OnboardingRecord \cup {Nothing}]
        /\ official' \in [Names -> [phone: Phones \cup {NoPhone}, pin: PinValues \cup {NoPin}]]
        /\ RunsOK(run')
        /\ graph' \in [subscribed: SUBSET Phones, pin: [Phones -> PinValues \cup {NoPin}]]
        /\ catalogue' \in [Phones -> [Resources -> {"unknown", "discovered", "removed"}]]
        /\ crashes' \in 0..Crashes
  BY DEF MoTypeOK, Going, Pcs
<1>3. CASE UNCHANGED moVars
  BY <1>1, <1>2, <1>3 DEF moVars
<1>4. CASE \E r \in Runs, n \in Names, p \in Phones, type \in Types : StartRun(r, n, p, type)
  <2>1. PICK r \in Runs, n \in Names, p \in Phones, type \in Types : StartRun(r, n, p, type)
    BY <1>4
  <2>2. /\ run' = [run EXCEPT ![r] = run'[r]] /\ run'[r] \in Going
        /\ stored' = [stored EXCEPT ![n] = StartRecord(n, type)] /\ StartRecord(n, type) \in OnboardingRecord
    BY <2>1, StartEffect
  <2>3. RunsOK(run')
    BY <1>1, <2>2
  <2> QED BY <1>1, <1>2, <2>1, <2>2, <2>3 DEF StartRun
<1>5. CASE \E r \in Runs : RunStep(r)
  <2>1. PICK r \in Runs : RunStep(r)
    BY <1>5
  <2>2. Moved(r) /\ (KeepsPin(r) \/ TakesPin(r)) /\ GraphGrows(r)
    BY <2>1, RunStepEffect
  <2>3. run[r] \in Going
    BY <2>2, UsedForm DEF Moved
  <2>4. RunsOK(run')
    BY <1>1, <2>2 DEF Moved
  <2>5. stored' \in [Names -> OnboardingRecord \cup {Nothing}]
    BY <1>1, <2>2 DEF Moved, Going
  <2>6. official' \in [Names -> [phone: Phones \cup {NoPhone}, pin: PinValues \cup {NoPin}]]
    <3> DEFINE Creds == [phone: Phones \cup {NoPhone}, pin: PinValues \cup {NoPin}]
    <3>1. UpsertOfficial(run[r].name, run[r].phone) \in [Names -> Creds]
      <4>1. run[r].name \in Names /\ run[r].phone \in Phones /\ official[run[r].name] \in Creds
        BY <1>1, <2>3 DEF Going
      <4>2. \A x \in PinValues \cup {NoPin} : [phone |-> run[r].phone, pin |-> x] \in Creds
        BY <4>1
      <4> QED BY <1>1, <4>1, <4>2 DEF UpsertOfficial
    <3>2. [phone |-> run[r].phone, pin |-> run'[r].pin] \in Creds
      BY <2>2, <2>3 DEF Moved, Going
    <3> QED BY <1>1, <2>2, <3>1, <3>2 DEF KeepsPin, TakesPin
  <2>7. catalogue' \in [Phones -> [Resources -> {"unknown", "discovered", "removed"}]] /\ crashes' = crashes
    <3>1. CASE UNCHANGED <<catalogue, crashes>>
      BY <1>1, <3>1
    <3>2. CASE \E found \in Found : catalogue' = Sync(run[r].phone, found) /\ crashes' = crashes
      <4>1. PICK found \in Found : catalogue' = Sync(run[r].phone, found) /\ crashes' = crashes
        BY <3>2
      <4>2. run[r].phone \in Phones /\ catalogue[run[r].phone] \in [Resources -> {"unknown", "discovered", "removed"}]
        BY <1>1, <2>3 DEF Going
      <4>3. [k \in Resources |-> IF k \in found THEN "discovered"
              ELSE IF catalogue[run[r].phone][k] = "unknown" THEN catalogue[run[r].phone][k] ELSE "removed"]
              \in [Resources -> {"unknown", "discovered", "removed"}]
        BY <4>2
      <4> QED BY <1>1, <4>1, <4>2, <4>3 DEF Sync
    <3> QED BY <2>1, <3>1, <3>2
            DEF RunStep, CallRaises, Exchanged, TokenVerified, Discovered, NotConfigured, Subscribed, Registered,
                PhoneVerified, Completed
  <2> QED BY <1>1, <1>2, <2>2, <2>4, <2>5, <2>6, <2>7 DEF GraphGrows
<1>6. CASE \E r \in Runs : LateLanding(r)
  BY <1>1, <1>2, <1>6, LateEffect DEF LateLanding, GraphGrows
<1>7. CASE MoCrash
  <2>1. crashes' \in 0..Crashes
    BY <1>1, <1>7, MetaAssumption DEF MoCrash
  <2>2. RunsOK(run')
    <3>1. \A q \in Runs : run'[q] \in {[pc |-> "unused"]} \cup Going
      BY <1>1, <1>7, CrashEffect, UsedForm DEF Used
    <3> QED BY <1>7, <3>1 DEF MoCrash
  <2> QED BY <1>1, <1>2, <1>7, <2>1, <2>2 DEF MoCrash
<1> QED BY <1>3, <1>4, <1>5, <1>6, <1>7 DEF MoNext

LEMMA MoTypeInit == MoInit => MoTypeOK
<1> SUFFICES ASSUME MoInit PROVE MoTypeOK
  OBVIOUS
<1>1. crashes \in 0..Crashes
  BY MetaAssumption DEF MoInit
<1>2. graph \in [subscribed: SUBSET Phones, pin: [Phones -> PinValues \cup {NoPin}]]
  BY DEF MoInit, PinValues
<1>3. catalogue \in [Phones -> [Resources -> {"unknown", "discovered", "removed"}]]
  BY DEF MoInit
<1> QED BY <1>1, <1>2, <1>3 DEF MoInit, MoTypeOK

-------------------------------------------------------------------------------
(* The invariant.                                                          *)

\* One number, one instance.
Paired ==
    \A q, t \in Runs : Used(q) /\ Used(t) => (run[q].name = run[t].name <=> run[q].phone = run[t].phone)

\* A credential is that of a run, and without a number it has no PIN.
CredentialsOfRuns ==
    \A n \in Names :
        /\ official[n].phone # NoPhone =>
             \E q \in Runs : Used(q) /\ run[q].name = n /\ run[q].phone = official[n].phone
        /\ official[n].phone = NoPhone => official[n].pin = NoPin

\* A run has a PIN from the moment it asks for a registration.
PinWithRegistration ==
    \A q \in Runs : Used(q) =>
        /\ run[q].pc \in Early => run[q].pin = NoPin
        /\ run[q].pc = "register" => run[q].pin # NoPin

\* The PIN of a run is the stored one, unless the owner has typed one in.
OwnerTyped(n) == \E q \in Runs : Used(q) /\ run[q].name = n /\ run[q].pin = OwnerPin
PinsOfRuns ==
    \A q \in Runs : Used(q) /\ run[q].pin # NoPin =>
        OwnerTyped(run[q].name) \/ run[q].pin = official[run[q].name].pin

\* A generated PIN at Meta is the PIN of a run of that number.
PinsAtMeta ==
    \A p \in Phones : graph.pin[p] \in Runs =>
        \E q \in Runs : Used(q) /\ run[q].phone = p /\ run[q].pin = graph.pin[p]

\* What the checkpoints stand for.
SubscribedFor(n) == \E q \in Runs : Used(q) /\ run[q].name = n /\ run[q].phone \in graph.subscribed
RegisteredFor(n) == \E q \in Runs : Used(q) /\ run[q].name = n /\ graph.pin[run[q].phone] # NoPin
CredentialFor(n) == official[n].phone # NoPhone
Earned(n, rec) ==
    /\ "APP_SUBSCRIBED" \in rec.steps => SubscribedFor(n)
    /\ "PHONE_REGISTERED" \in rec.steps /\ rec.type = "STANDARD" => RegisteredFor(n)
    /\ "CREDENTIALS_PERSISTED" \in rec.steps => CredentialFor(n)
CheckpointsEarned ==
    /\ \A n \in Names : stored[n] # Nothing => Earned(n, stored[n])
    /\ \A q \in Runs : Used(q) => run[q].rec.type = run[q].type /\ Earned(run[q].name, run[q].rec)

MoInv ==
    /\ MoTypeOK /\ Paired /\ CredentialsOfRuns /\ PinWithRegistration /\ PinsOfRuns /\ PinsAtMeta
    /\ CheckpointsEarned

\* What a run has done stays done: who it is, its PIN, what Meta knows, that there is a
\* credential.
Persists ==
    /\ \A q \in Runs : Used(q) =>
         /\ Used(q)' /\ run'[q].name = run[q].name /\ run'[q].phone = run[q].phone
         /\ run[q].pin # NoPin => run'[q].pin = run[q].pin
    /\ graph.subscribed \subseteq graph'.subscribed
    /\ \A p \in Phones : graph.pin[p] # NoPin => graph'.pin[p] = graph.pin[p]
    /\ \A n \in Names : official[n].phone # NoPhone => official'[n].phone # NoPhone

LEMMA Persistence ==
  ASSUME MoTypeOK, PinWithRegistration, [MoNext]_moVars
  PROVE  Persists
<1>1. CASE UNCHANGED moVars
  BY <1>1 DEF moVars, Persists, Used
<1>2. CASE \E r \in Runs, n \in Names, p \in Phones, type \in Types : StartRun(r, n, p, type)
  <2>1. PICK r \in Runs, n \in Names, p \in Phones, type \in Types : StartRun(r, n, p, type)
    BY <1>2
  <2>2. ~Used(r) /\ run' = [run EXCEPT ![r] = run'[r]] /\ UNCHANGED <<graph, official>>
    <3>1. ~Used(r) /\ run' = [run EXCEPT ![r] = run'[r]]
      BY <2>1, StartEffect
    <3> QED BY <2>1, <3>1 DEF StartRun
  <2>3. \A q \in Runs : Used(q) => run'[q] = run[q]
    BY <2>2 DEF MoTypeOK
  <2> QED BY <2>2, <2>3 DEF Persists, Used
<1>3. CASE \E r \in Runs : RunStep(r)
  <2>1. PICK r \in Runs : RunStep(r)
    BY <1>3
  <2>2. Moved(r) /\ (KeepsPin(r) \/ TakesPin(r)) /\ GraphGrows(r)
    BY <2>1, RunStepEffect
  <2>3. run[r] \in Going
    BY <2>2, UsedForm DEF Moved
  <2>4. \A q \in Runs \ {r} : run'[q] = run[q]
    BY <2>2 DEF Moved, MoTypeOK
  <2>5. run[r].pin # NoPin => run'[r].pin = run[r].pin
    BY <2>2 DEF KeepsPin, TakesPin, PinWithRegistration, Moved
  <2>6. run'[r].pc # "unused"
    BY <2>2 DEF Moved, Going, Pcs, Waiting
  <2>7. \A n \in Names : official[n].phone # NoPhone => official'[n].phone # NoPhone
    <3>1. run[r].name \in Names /\ run[r].phone # NoPhone
      BY <2>3, MetaAssumption DEF Going
    <3>2. CASE KeepsPin(r)
      BY <3>1, <3>2 DEF KeepsPin, UpsertOfficial, MoTypeOK
    <3>3. CASE TakesPin(r)
      BY <3>1, <3>3 DEF TakesPin, MoTypeOK
    <3> QED BY <2>2, <3>2, <3>3
  <2> QED BY <2>2, <2>4, <2>5, <2>6, <2>7 DEF Persists, Used, Moved, GraphGrows
<1>4. CASE \E r \in Runs : LateLanding(r)
  BY <1>4, LateEffect DEF LateLanding, Persists, Used, GraphGrows
<1>5. CASE MoCrash
  BY <1>5, CrashEffect DEF MoCrash, Persists
<1> QED BY <1>1, <1>2, <1>3, <1>4, <1>5 DEF MoNext

\* What stands, stands.
SubscribedThen(n) == \E q \in Runs : Used(q)' /\ run'[q].name = n /\ run'[q].phone \in graph'.subscribed
RegisteredThen(n) == \E q \in Runs : Used(q)' /\ run'[q].name = n /\ graph'.pin[run'[q].phone] # NoPin
CredentialThen(n) == official'[n].phone # NoPhone
OwnerTypedThen(n) == \E q \in Runs : Used(q)' /\ run'[q].name = n /\ run'[q].pin = OwnerPin

LEMMA Standing ==
  ASSUME MoTypeOK, Persists, NEW n \in Names
  PROVE  /\ SubscribedFor(n) => SubscribedThen(n)
         /\ RegisteredFor(n) => RegisteredThen(n)
         /\ CredentialFor(n) => CredentialThen(n)
         /\ OwnerTyped(n) => OwnerTypedThen(n)
<1>1. \A q \in Runs : Used(q) => run[q].phone \in Phones
  BY UsedForm DEF Going
<1>2. SubscribedFor(n) => SubscribedThen(n)
  BY DEF SubscribedFor, SubscribedThen, Persists
<1>3. RegisteredFor(n) => RegisteredThen(n)
  BY <1>1 DEF RegisteredFor, RegisteredThen, Persists
<1>4. CredentialFor(n) => CredentialThen(n)
  BY DEF CredentialFor, CredentialThen, Persists
<1>5. OwnerTyped(n) => OwnerTypedThen(n)
  <2>1. OwnerPin # NoPin
    BY MetaAssumption
  <2> QED BY <2>1 DEF OwnerTyped, OwnerTypedThen, Persists
<1> QED BY <1>2, <1>3, <1>4, <1>5

\* So does what a checkpoint was reached for.
EarnedThen(n, rec) ==
    /\ "APP_SUBSCRIBED" \in rec.steps => SubscribedThen(n)
    /\ "PHONE_REGISTERED" \in rec.steps /\ rec.type = "STANDARD" => RegisteredThen(n)
    /\ "CREDENTIALS_PERSISTED" \in rec.steps => CredentialThen(n)

LEMMA EarnedStands ==
  ASSUME MoTypeOK, Persists, NEW n \in Names, NEW rec, Earned(n, rec)
  PROVE  EarnedThen(n, rec)
BY Standing DEF Earned, EarnedThen

\* The invariant of the next state, in these terms.
LEMMA CheckpointsThen ==
  ASSUME \A m \in Names : stored'[m] # Nothing => EarnedThen(m, stored'[m]),
         \A q \in Runs : Used(q)' => run'[q].rec.type = run'[q].type /\ EarnedThen(run'[q].name, run'[q].rec)
  PROVE  CheckpointsEarned'
BY DEF CheckpointsEarned, Earned, EarnedThen, SubscribedFor, RegisteredFor, CredentialFor,
       SubscribedThen, RegisteredThen, CredentialThen

LEMMA PinsThen ==
  ASSUME \A q \in Runs : Used(q)' /\ run'[q].pin # NoPin =>
           OwnerTypedThen(run'[q].name) \/ run'[q].pin = official'[run'[q].name].pin
  PROVE  PinsOfRuns'
BY DEF PinsOfRuns, OwnerTyped, OwnerTypedThen

\* A run that begins.
LEMMA StartPreserves ==
  ASSUME ~Renumbering, MoInv, Persists, MoTypeOK',
         NEW r \in Runs, NEW n \in Names, NEW p \in Phones, NEW type \in Types, StartRun(r, n, p, type)
  PROVE  MoInv'
<1> USE DEF MoInv
<1>1. /\ ~Used(r) /\ run'[r].pc = "oauth" /\ run'[r].name = n /\ run'[r].phone = p /\ run'[r].type = type
      /\ run'[r].pin = NoPin /\ run'[r].rec = StartRecord(n, type)
      /\ stored' = [stored EXCEPT ![n] = StartRecord(n, type)] /\ StartRecord(n, type).type = type
      /\ (stored[n] # Nothing /\ StartRecord(n, type) = stored[n]) \/ StartRecord(n, type).steps = {}
      /\ UNCHANGED <<official, graph>>
  <2>1. UNCHANGED <<official, graph>>
    BY DEF StartRun
  <2> QED BY <2>1, StartEffect
<1>2. /\ \A q \in Runs \ {r} : run'[q] = run[q]
      /\ \A q \in Runs \ {r} : Used(q)' <=> Used(q)
      /\ Used(r)'
  BY <1>1, StartEffect DEF MoTypeOK, Used
<1>3. \A q \in Runs : Used(q) => (run[q].name = n <=> run[q].phone = p)
  BY DEF StartRun, Used
<1>4. Paired'
  BY <1>1, <1>2, <1>3 DEF Paired
<1>5. CredentialsOfRuns'
  BY <1>1, <1>2 DEF CredentialsOfRuns
<1>6. PinWithRegistration'
  BY <1>1, <1>2 DEF PinWithRegistration
<1>7. PinsOfRuns'
  <2> SUFFICES ASSUME NEW q \in Runs, Used(q)', run'[q].pin # NoPin
               PROVE  OwnerTypedThen(run'[q].name) \/ run'[q].pin = official'[run'[q].name].pin
    BY PinsThen
  <2>1. q # r /\ run'[q] = run[q] /\ Used(q)
    BY <1>1, <1>2
  <2>2. run[q].name \in Names
    BY <2>1, UsedForm DEF Going
  <2>3. OwnerTyped(run[q].name) => OwnerTypedThen(run[q].name)
    BY <2>2, Standing
  <2> QED BY <1>1, <2>1, <2>3 DEF PinsOfRuns
<1>8. PinsAtMeta'
  BY <1>1, <1>2 DEF PinsAtMeta
<1>9. CheckpointsEarned'
  <2>1. EarnedThen(n, StartRecord(n, type))
    <3>1. CASE stored[n] # Nothing /\ StartRecord(n, type) = stored[n]
      BY <3>1, EarnedStands DEF CheckpointsEarned
    <3>2. CASE StartRecord(n, type).steps = {}
      BY <3>2 DEF EarnedThen
    <3> QED BY <1>1, <3>1, <3>2
  <2>2. ASSUME NEW m \in Names, stored'[m] # Nothing
        PROVE  EarnedThen(m, stored'[m])
    <3>1. CASE m = n
      BY <1>1, <2>1, <3>1 DEF MoTypeOK
    <3>2. CASE m # n
      BY <1>1, <2>2, <3>2, EarnedStands DEF CheckpointsEarned, MoTypeOK
    <3> QED BY <3>1, <3>2
  <2>3. ASSUME NEW q \in Runs, Used(q)'
        PROVE  run'[q].rec.type = run'[q].type /\ EarnedThen(run'[q].name, run'[q].rec)
    <3>1. CASE q = r
      BY <1>1, <2>1, <3>1
    <3>2. CASE q # r
      <4>1. Used(q) /\ run'[q] = run[q] /\ run[q].name \in Names
        BY <1>2, <2>3, <3>2, UsedForm DEF Going
      <4>2. run[q].rec.type = run[q].type /\ Earned(run[q].name, run[q].rec)
        BY <4>1 DEF CheckpointsEarned
      <4> QED BY <4>1, <4>2, EarnedStands
    <3> QED BY <3>1, <3>2
  <2> QED BY <2>2, <2>3, CheckpointsThen
<1> QED BY <1>4, <1>5, <1>6, <1>7, <1>8, <1>9

\* A step of a run.
LEMMA RunPreserves ==
  ASSUME MoInv, Persists, MoTypeOK', NEW r \in Runs, RunStep(r)
  PROVE  MoInv'
<1> USE DEF MoInv
<1> DEFINE n == run[r].name
           p == run[r].phone
<1>1. Moved(r) /\ Reaches(r) /\ (KeepsPin(r) \/ TakesPin(r)) /\ GraphGrows(r)
  BY RunStepEffect
<1>2. run[r] \in Going /\ Used(r) /\ n \in Names /\ p \in Phones /\ p # NoPhone
  BY <1>1, UsedForm, MetaAssumption DEF Moved, Going
<1>3. /\ \A q \in Runs \ {r} : run'[q] = run[q]
      /\ \A q \in Runs : /\ Used(q)' <=> Used(q)
                         /\ Used(q) => run'[q].name = run[q].name /\ run'[q].phone = run[q].phone
  <2>1. \A q \in Runs \ {r} : run'[q] = run[q]
    BY <1>1 DEF Moved, MoTypeOK
  <2>2. Used(r)' /\ run'[r].name = n /\ run'[r].phone = p
    BY <1>1, <1>2 DEF Moved, Persists
  <2> QED BY <1>2, <2>1, <2>2 DEF Used
<1>4. official[n].phone = p \/ (official[n].phone = NoPhone /\ official[n].pin = NoPin)
  BY <1>2 DEF CredentialsOfRuns, Paired
<1>5. UpsertOfficial(n, p)[n] = [phone |-> p, pin |-> official[n].pin]
  BY <1>2, <1>4 DEF UpsertOfficial, MoTypeOK
<1>6. /\ \A m \in Names \ {n} : official'[m] = official[m]
      /\ \/ official'[n] = official[n] \/ official'[n].phone = p
  <2>1. CASE KeepsPin(r)
    BY <1>2, <2>1 DEF KeepsPin, UpsertOfficial, MoTypeOK
  <2>2. CASE TakesPin(r)
    BY <1>2, <2>2 DEF TakesPin, MoTypeOK
  <2> QED BY <1>1, <2>1, <2>2
<1>7. Paired'
  BY <1>3 DEF Paired
<1>8. CredentialsOfRuns'
  <2> SUFFICES ASSUME NEW m \in Names
               PROVE  /\ official'[m].phone # NoPhone =>
                           \E q \in Runs : Used(q)' /\ run'[q].name = m /\ run'[q].phone = official'[m].phone
                      /\ official'[m].phone = NoPhone => official'[m].pin = NoPin
    BY DEF CredentialsOfRuns
  <2>1. CASE official'[m] = official[m]
    BY <1>3, <2>1 DEF CredentialsOfRuns
  <2>2. CASE m = n /\ official'[n].phone = p
    BY <1>2, <1>3, <2>2
  <2> QED BY <1>6, <2>1, <2>2
<1>9. PinWithRegistration'
  <2>1. ASSUME NEW q \in Runs, q # r, Used(q)'
        PROVE  (run'[q].pc \in Early => run'[q].pin = NoPin) /\ (run'[q].pc = "register" => run'[q].pin # NoPin)
    BY <1>3, <2>1 DEF PinWithRegistration
  <2>2. (run'[r].pc \in Early => run'[r].pin = NoPin) /\ (run'[r].pc = "register" => run'[r].pin # NoPin)
    <3>1. CASE KeepsPin(r)
      BY <1>2, <3>1 DEF KeepsPin, PinWithRegistration
    <3>2. CASE TakesPin(r)
      BY <3>2, MetaAssumption DEF TakesPin, Early
    <3> QED BY <1>1, <3>1, <3>2
  <2> QED BY <2>1, <2>2 DEF PinWithRegistration
<1>10. PinsOfRuns'
  <2> SUFFICES ASSUME NEW q \in Runs, Used(q)', run'[q].pin # NoPin
               PROVE  OwnerTypedThen(run'[q].name) \/ run'[q].pin = official'[run'[q].name].pin
    BY PinsThen
  <2>1. Used(q) /\ run'[q].name = run[q].name /\ run[q].name \in Names
    BY <1>3, UsedForm DEF Going
  <2>2. OwnerTyped(run[q].name) => OwnerTypedThen(run[q].name)
    BY <2>1, Standing
  <2>4. CASE KeepsPin(r)
    <3>1. run'[q].pin = run[q].pin
      BY <1>3, <2>4 DEF KeepsPin
    <3>2. official'[run[q].name].pin = official[run[q].name].pin
      BY <1>2, <1>5, <1>6, <2>1, <2>4 DEF KeepsPin
    <3> QED BY <2>1, <2>2, <3>1, <3>2 DEF PinsOfRuns
  <2>5. CASE TakesPin(r)
    <3>1. /\ official'[n].pin = run'[r].pin
          /\ run'[r].pin = OwnerPin \/ (IF official[n].pin = NoPin THEN run'[r].pin = r ELSE run'[r].pin = official[n].pin)
      BY <1>2, <1>5, <2>5 DEF TakesPin, MoTypeOK
    <3>2. CASE run'[r].pin = OwnerPin /\ run[q].name = n
      BY <1>2, <1>3, <2>1, <3>2 DEF OwnerTypedThen
    <3>3. CASE run[q].name # n
      <4>1. q # r /\ official'[run[q].name] = official[run[q].name] /\ run'[q] = run[q]
        BY <1>3, <1>6, <2>1, <3>3
      <4> QED BY <2>1, <2>2, <4>1 DEF PinsOfRuns
    <3>4. CASE run'[r].pin # OwnerPin /\ run[q].name = n
      <4>1. CASE q = r
        BY <2>1, <3>1, <3>4, <4>1
      <4>2. CASE q # r
        <5>1. run'[q] = run[q] /\ (OwnerTyped(n) \/ run[q].pin = official[n].pin) /\ run[q].pin # NoPin
          BY <1>3, <2>1, <3>4, <4>2 DEF PinsOfRuns
        <5>2. CASE OwnerTyped(n)
          BY <2>1, <2>2, <3>4, <5>2
        <5>3. CASE run[q].pin = official[n].pin
          BY <2>1, <3>1, <3>4, <5>1, <5>3
        <5> QED BY <5>1, <5>2, <5>3
      <4> QED BY <4>1, <4>2
    <3> QED BY <3>2, <3>3, <3>4
  <2> QED BY <1>1, <2>4, <2>5
<1>11. PinsAtMeta'
  <2> SUFFICES ASSUME NEW x \in Phones, graph'.pin[x] \in Runs
               PROVE  \E q \in Runs : Used(q)' /\ run'[q].phone = x /\ run'[q].pin = graph'.pin[x]
    BY DEF PinsAtMeta
  <2>1. graph'.pin[x] # NoPin
    BY MetaAssumption
  <2>2. CASE graph'.pin[x] = graph.pin[x]
    <3>1. PICK q \in Runs : Used(q) /\ run[q].phone = x /\ run[q].pin = graph.pin[x]
      BY <2>2 DEF PinsAtMeta
    <3> QED BY <2>1, <2>2, <3>1 DEF Persists
  <2>3. CASE x = p /\ graph'.pin[x] = run[r].pin
    BY <1>2, <2>1, <2>3 DEF Persists
  <2> QED BY <1>1, <2>2, <2>3 DEF GraphGrows
<1>12. CheckpointsEarned'
  <2>1. run[r].rec.type = run[r].type /\ Earned(n, run[r].rec)
    BY <1>2 DEF CheckpointsEarned
  <2>2. EarnedThen(n, run[r].rec)
    BY <1>2, <2>1, EarnedStands
  <2>3. EarnedThen(n, run'[r].rec)
    <3>1. "APP_SUBSCRIBED" \in run'[r].rec.steps => SubscribedThen(n)
      BY <1>1, <1>2, <1>3, <2>2 DEF Reaches, EarnedThen, SubscribedThen
    <3>2. "PHONE_REGISTERED" \in run'[r].rec.steps /\ run'[r].rec.type = "STANDARD" => RegisteredThen(n)
      <4>1. run[r].pc = "register" => run[r].pin # NoPin
        BY <1>2 DEF PinWithRegistration
      <4>2. graph'.pin[p] # NoPin => RegisteredThen(n)
        BY <1>2, <1>3 DEF RegisteredThen
      <4> QED BY <1>1, <2>1, <2>2, <4>1, <4>2 DEF Reaches, EarnedThen
    <3>3. "CREDENTIALS_PERSISTED" \in run'[r].rec.steps => CredentialThen(n)
      BY <1>1, <1>2, <2>2 DEF Reaches, EarnedThen, CredentialThen
    <3> QED BY <3>1, <3>2, <3>3 DEF EarnedThen
  <2>4. ASSUME NEW m \in Names, stored'[m] # Nothing
        PROVE  EarnedThen(m, stored'[m])
    <3>1. CASE m = n
      BY <1>1, <2>3, <3>1 DEF Moved, MoTypeOK
    <3>2. CASE m # n
      BY <1>1, <2>4, <3>2, EarnedStands DEF CheckpointsEarned, Moved, MoTypeOK
    <3> QED BY <3>1, <3>2
  <2>5. ASSUME NEW q \in Runs, Used(q)'
        PROVE  run'[q].rec.type = run'[q].type /\ EarnedThen(run'[q].name, run'[q].rec)
    <3>1. CASE q = r
      BY <1>1, <1>2, <1>3, <2>1, <2>3, <3>1 DEF Reaches, Moved
    <3>2. CASE q # r
      <4>1. Used(q) /\ run'[q] = run[q] /\ run[q].name \in Names
        BY <1>3, <2>5, <3>2, UsedForm DEF Going
      <4>2. run[q].rec.type = run[q].type /\ Earned(run[q].name, run[q].rec)
        BY <4>1 DEF CheckpointsEarned
      <4> QED BY <4>1, <4>2, EarnedStands
    <3> QED BY <3>1, <3>2
  <2> QED BY <2>4, <2>5, CheckpointsThen
<1> QED BY <1>7, <1>8, <1>9, <1>10, <1>11, <1>12

\* A death, a request that lands after it, or nothing.
LEMMA RestPreserves ==
  ASSUME MoInv, Persists, MoTypeOK',
         MoCrash \/ (\E r \in Runs : LateLanding(r)) \/ UNCHANGED moVars
  PROVE  MoInv'
<1> USE DEF MoInv
<1>1. /\ UNCHANGED <<stored, official>>
      /\ \A q \in Runs : /\ Used(q)' <=> Used(q)
                         /\ Used(q) => /\ run'[q].pc \in {run[q].pc, "lost"}
                                       /\ run'[q].name = run[q].name /\ run'[q].phone = run[q].phone
                                       /\ run'[q].type = run[q].type /\ run'[q].rec = run[q].rec
                                       /\ run'[q].pin = run[q].pin
  <2>1. CASE MoCrash
    BY <2>1, CrashEffect DEF MoCrash
  <2>2. CASE run' = run /\ UNCHANGED <<stored, official>>
    BY <2>2 DEF Used
  <2> QED BY <2>1, <2>2 DEF LateLanding, moVars
<1>2. Paired'
  BY <1>1 DEF Paired
<1>3. CredentialsOfRuns'
  <2> SUFFICES ASSUME NEW m \in Names
               PROVE  /\ official'[m].phone # NoPhone =>
                           \E q \in Runs : Used(q)' /\ run'[q].name = m /\ run'[q].phone = official'[m].phone
                      /\ official'[m].phone = NoPhone => official'[m].pin = NoPin
    BY DEF CredentialsOfRuns
  <2> QED BY <1>1 DEF CredentialsOfRuns
<1>4. PinWithRegistration'
  BY <1>1 DEF PinWithRegistration, Early
<1>5. PinsOfRuns'
  <2> SUFFICES ASSUME NEW q \in Runs, Used(q)', run'[q].pin # NoPin
               PROVE  OwnerTypedThen(run'[q].name) \/ run'[q].pin = official'[run'[q].name].pin
    BY PinsThen
  <2>1. Used(q) /\ run'[q].name = run[q].name /\ run'[q].pin = run[q].pin /\ run[q].name \in Names
    BY <1>1, UsedForm DEF Going
  <2>2. OwnerTyped(run[q].name) => OwnerTypedThen(run[q].name)
    BY <2>1, Standing
  <2> QED BY <1>1, <2>1, <2>2 DEF PinsOfRuns
<1>6. PinsAtMeta'
  <2> SUFFICES ASSUME NEW x \in Phones, graph'.pin[x] \in Runs
               PROVE  \E q \in Runs : Used(q)' /\ run'[q].phone = x /\ run'[q].pin = graph'.pin[x]
    BY DEF PinsAtMeta
  <2>1. CASE graph'.pin[x] = graph.pin[x]
    BY <1>1, <2>1 DEF PinsAtMeta
  <2>2. CASE \E r \in Runs : Used(r) /\ x = run[r].phone /\ graph'.pin[x] = run[r].pin
    BY <1>1, <2>2
  <2>3. CASE \E r \in Runs : LateLanding(r)
    BY <2>1, <2>2, <2>3, LateEffect DEF GraphGrows
  <2> QED BY <2>1, <2>3 DEF MoCrash, moVars
<1>7. CheckpointsEarned'
  <2>1. ASSUME NEW m \in Names, stored'[m] # Nothing
        PROVE  EarnedThen(m, stored'[m])
    BY <1>1, <2>1, EarnedStands DEF CheckpointsEarned
  <2>2. ASSUME NEW q \in Runs, Used(q)'
        PROVE  run'[q].rec.type = run'[q].type /\ EarnedThen(run'[q].name, run'[q].rec)
    <3>1. Used(q) /\ run[q].name \in Names
      BY <1>1, <2>2, UsedForm DEF Going
    <3>2. run[q].rec.type = run[q].type /\ Earned(run[q].name, run[q].rec)
      BY <3>1 DEF CheckpointsEarned
    <3> QED BY <1>1, <3>1, <3>2, EarnedStands
  <2> QED BY <2>1, <2>2, CheckpointsThen
<1> QED BY <1>2, <1>3, <1>4, <1>5, <1>6, <1>7

LEMMA InvPreserved == ~Renumbering /\ MoInv /\ [MoNext]_moVars => MoInv'
<1> SUFFICES ASSUME ~Renumbering, MoInv, [MoNext]_moVars PROVE MoInv'
  OBVIOUS
<1>1. MoTypeOK' /\ Persists
  BY MoTypePreserved, Persistence DEF MoInv
<1>2. CASE \E r \in Runs, n \in Names, p \in Phones, type \in Types : StartRun(r, n, p, type)
  BY <1>1, <1>2, StartPreserves
<1>3. CASE \E r \in Runs : RunStep(r)
  BY <1>1, <1>3, RunPreserves
<1>4. CASE MoCrash \/ (\E r \in Runs : LateLanding(r)) \/ UNCHANGED moVars
  BY <1>1, <1>4, RestPreserves
<1> QED BY <1>2, <1>3, <1>4 DEF MoNext

LEMMA InvInit == MoInit => MoInv
<1> SUFFICES ASSUME MoInit PROVE MoInv
  OBVIOUS
<1>1. \A q \in Runs : ~Used(q)
  BY DEF MoInit, Used
<1>2. \A p \in Phones : graph.pin[p] \notin Runs
  BY MetaAssumption DEF MoInit
<1>3. CredentialsOfRuns
  BY DEF MoInit, CredentialsOfRuns
<1>4. CheckpointsEarned
  BY <1>1 DEF MoInit, CheckpointsEarned
<1> QED BY <1>1, <1>2, <1>3, <1>4, MoTypeInit
        DEF MoInv, Paired, PinWithRegistration, PinsOfRuns, PinsAtMeta

-------------------------------------------------------------------------------
(* The theorems.                                                           *)

\* Every record has its form, whatever is renumbered.
LEMMA OnboardingTypes == MoSpec => []MoTypeOK
<1> QED BY MoTypeInit, MoTypePreserved, PTL DEF MoSpec

\* The checkpoints of an instance were each reached by some run of its number: an
\* instance that is READY is subscribed, registered and has its credential, however
\* many runs wrote its record, failed or died.
THEOREM ReadyNumbersAreOperational ==
  ASSUME ~Renumbering
  PROVE  MoSpec => []ReadyIsOperational
<1>1. MoInv => ReadyIsOperational
  <2> SUFFICES ASSUME MoInv, NEW n \in Names, Status(n) = "READY"
               PROVE  /\ official[n].phone \in graph.subscribed
                      /\ stored[n].type = "STANDARD" => graph.pin[official[n].phone] # NoPin
    BY DEF ReadyIsOperational
  <2>1. /\ stored[n] # Nothing /\ {"APP_SUBSCRIBED", "PHONE_REGISTERED", "CREDENTIALS_PERSISTED"} \subseteq stored[n].steps
    BY DEF Status, Steps
  <2>2. Earned(n, stored[n])
    BY <2>1 DEF MoInv, CheckpointsEarned
  <2>3. PICK q \in Runs : Used(q) /\ run[q].name = n /\ run[q].phone = official[n].phone
    BY <2>1, <2>2 DEF Earned, CredentialFor, MoInv, CredentialsOfRuns
  <2>4. PICK t \in Runs : Used(t) /\ run[t].name = n /\ run[t].phone \in graph.subscribed
    BY <2>1, <2>2 DEF Earned, SubscribedFor
  <2>5. stored[n].type = "STANDARD" => \E u \in Runs : Used(u) /\ run[u].name = n /\ graph.pin[run[u].phone] # NoPin
    BY <2>1, <2>2 DEF Earned, RegisteredFor
  <2> QED BY <2>3, <2>4, <2>5 DEF MoInv, Paired
<1>2. MoInv /\ [MoNext]_moVars => MoInv'
  BY InvPreserved
<1> QED BY <1>1, <1>2, InvInit, PTL DEF MoSpec

\* A PIN is stored before it is sent, and a stored PIN is sent again: the PIN that Meta
\* has from the gateway is never lost, whatever failed or died.
THEOREM GeneratedPinIsKept ==
  ASSUME ~Renumbering
  PROVE  MoSpec => []PinIsKept
<1>1. MoInv => PinIsKept
  <2> SUFFICES ASSUME MoInv, NEW r \in Runs, Used(r), graph.pin[run[r].phone] = r, ~OwnerTyped(run[r].name)
               PROVE  official[run[r].name].pin = r
    BY DEF PinIsKept, OwnerTyped, Used
  <2>1. run[r].phone \in Phones
    BY UsedForm DEF MoInv, Going
  <2>2. PICK q \in Runs : Used(q) /\ run[q].phone = run[r].phone /\ run[q].pin = r
    BY <2>1 DEF MoInv, PinsAtMeta
  <2>3. run[q].name = run[r].name /\ r # NoPin
    BY <2>2, MetaAssumption DEF MoInv, Paired
  <2> QED BY <2>2, <2>3 DEF MoInv, PinsOfRuns
<1>2. MoInv /\ [MoNext]_moVars => MoInv'
  BY InvPreserved
<1> QED BY <1>1, <1>2, InvInit, PTL DEF MoSpec

-------------------------------------------------------------------------------
(* Both together.                                                          *)

\* Whichever of the two moves, every credential, connection, authorization, onboarding
\* record and run has the form that the code gives it.
THEOREM ProviderAccountTypes == MCSpec => []TypesOK
<1>1. MCInit => IgInit /\ MoInit
  BY DEF MCInit
<1>2. [MCNext]_all => [IgNext]_igVars /\ [MoNext]_moVars
  BY DEF MCNext, all
<1>3. MCSpec => IgSpec /\ MoSpec
  BY <1>1, <1>2, PTL DEF MCSpec, IgSpec, MoSpec
<1> QED BY <1>3, InstagramTypes, OnboardingTypes, PTL DEF TypesOK
===============================================================================
