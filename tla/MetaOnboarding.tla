---------------------------- MODULE MetaOnboarding ----------------------------
(***************************************************************************)
(* The onboarding of official WhatsApp numbers: the checkpointed run over  *)
(* Meta's Graph API, its durable record, the credential with the number's  *)
(* two-step PIN, and the catalogue of discovered resources.                *)
(* services/meta/*, platforms/meta/*, routers/meta_signup.py, the official *)
(* part of services/credential_manager.py.                                 *)
(*                                                                         *)
(* A run holds its own copy of the record and every checkpoint writes the  *)
(* copy whole.  Two runs of one instance can be in progress: nothing       *)
(* prevents it.  A phone stands for the number with its WABA.              *)
(***************************************************************************)
EXTENDS Naturals, FiniteSets

CONSTANTS
    Names,        \* instance names
    Runs,         \* calls of run() that are ever made
    Phones,       \* numbers at Meta
    NoPhone, NoPin,
    OwnerPin,     \* the PIN that the owner of a number knows and may type in
    Renumbering,  \* whether an instance may be onboarded again with another number
    Crashes       \* bound: process deaths

ASSUME MetaAssumption ==
    /\ NoPhone \notin Phones
    /\ NoPin \notin Runs /\ OwnerPin \notin Runs /\ NoPin # OwnerPin
    /\ Renumbering \in BOOLEAN
    /\ Crashes \in Nat

VARIABLES
    stored,      \* the onboarding records
    official,    \* the credential of each instance: its number and the PIN
    run,         \* per run: where it is, and its copy of the record
    graph,       \* Meta's side: subscribed numbers, the PIN of each number
    catalogue,   \* status of the resources of each number's account
    crashes

moVars == <<stored, official, run, graph, catalogue, crashes>>

Types == {"STANDARD", "COEXISTENCE"}
Steps == {"OAUTH_OK", "TOKEN_VALID", "DISCOVERY_OK", "APP_SUBSCRIBED", "PHONE_REGISTERED",
          "PHONE_VERIFIED", "WEBHOOK_VERIFIED", "EVOLUTION_READY", "CREDENTIALS_PERSISTED"}
OnboardingRecord == [type: Types, steps: SUBSET (Steps \cup {"READY"}), failed: BOOLEAN]
Nothing == [type |-> "none"]

\* A generated PIN is named by the run that generated it.
PinValues == Runs \cup {OwnerPin}
Resources == {"waba", "page"}

MoInit ==
    /\ stored = [n \in Names |-> Nothing]
    /\ official = [n \in Names |-> [phone |-> NoPhone, pin |-> NoPin]]
    /\ run = [r \in Runs |-> [pc |-> "unused"]]
    /\ graph \in [subscribed: {{}}, pin: [Phones -> {NoPin, OwnerPin}]]
    /\ catalogue = [p \in Phones |-> [k \in Resources |-> "unknown"]]
    /\ crashes = 0

-------------------------------------------------------------------------------
(* The store.                                                              *)

\* start: the record is resumed, unless it is of the other type
StartRecord(n, type) ==
    IF stored[n] # Nothing /\ stored[n].type = type THEN stored[n]
    ELSE [type |-> type, steps |-> {}, failed |-> FALSE]

\* advance: a checkpoint is kept once reached; READY clears the errors
Advance(rec, reached) ==
    [rec EXCEPT !.steps = @ \cup reached, !.failed = IF "READY" \in reached THEN FALSE ELSE @]

\* fail
Failed(rec) == [rec EXCEPT !.steps = @ \ {"READY"}, !.failed = TRUE]

\* put
Put(r, rec) == stored' = [stored EXCEPT ![run[r].name] = rec]

\* MetaOnboardingRecord.public_dict: READY needs every required checkpoint
Status(n) == IF stored[n] # Nothing /\ "READY" \in stored[n].steps /\ Steps \subseteq stored[n].steps
             THEN "READY" ELSE "INCOMPLETE"

(* The credential.                                                         *)

\* upsert_official_credentials: the PIN is kept for the same number only
UpsertOfficial_Rotates(n, p) == [official EXCEPT ![n] = [phone |-> p, pin |-> NoPin]]
UpsertOfficial(n, p) ==
    [official EXCEPT ![n] = [phone |-> p, pin |-> IF @.phone = p THEN @.pin ELSE NoPin]]

\* get_or_create_registration_pin, on a credential just stored
RegistrationPin(r, cred, typed) ==
    IF typed THEN OwnerPin ELSE IF cred.pin # NoPin THEN cred.pin ELSE r

-------------------------------------------------------------------------------
(* A run.  Each step is what follows the answer of one Graph call.         *)

Moves(r, pc, rec) ==
    /\ run' = [run EXCEPT ![r] = [@ EXCEPT !.pc = pc, !.rec = rec]]
    /\ Put(r, rec)

\* complete_signup and run() up to the exchange of the code.  With ~Renumbering an
\* instance is always onboarded with the number it began with.
StartRun(r, n, p, type) ==
    /\ run[r].pc = "unused"
    /\ Renumbering \/ \A q \in Runs : run[q].pc # "unused" /\ run[q].name = n => run[q].phone = p
    /\ \A q \in Runs : run[q].pc # "unused" /\ run[q].phone = p => run[q].name = n
    /\ run' = [run EXCEPT ![r] = [pc |-> "oauth", name |-> n, phone |-> p, type |-> type,
                                  rec |-> StartRecord(n, type), pin |-> NoPin]]
    /\ stored' = [stored EXCEPT ![n] = StartRecord(n, type)]
    /\ UNCHANGED <<official, graph, catalogue, crashes>>

Waiting == {"oauth", "token", "discovery", "subscribe", "register", "verify", "resources"}

\* MetaPlatform.request raises: refused, timed out, or not reached.  What the request
\* asked for may have been done all the same.
CallRaises(r) ==
    /\ run[r].pc \in Waiting \ {"resources"}
    /\ Moves(r, "failed", Failed(run[r].rec))
    /\ graph' \in {graph} \cup
         (IF run[r].pc = "subscribe" THEN {[graph EXCEPT !.subscribed = @ \cup {run[r].phone}]}
          ELSE IF run[r].pc = "register" /\ graph.pin[run[r].phone] = NoPin
               THEN {[graph EXCEPT !.pin[run[r].phone] = run[r].pin]} ELSE {})
    /\ UNCHANGED <<official, catalogue, crashes>>

\* authenticate
Exchanged(r) ==
    /\ run[r].pc = "oauth"
    /\ Moves(r, "token", Advance(run[r].rec, {"OAUTH_OK"}))
    /\ UNCHANGED <<official, graph, catalogue, crashes>>

\* verify_token: valid, of this app, with both scopes
TokenVerified(r) ==
    /\ run[r].pc = "token"
    /\ Moves(r, "discovery", Advance(run[r].rec, {"TOKEN_VALID"}))
    /\ UNCHANGED <<official, graph, catalogue, crashes>>

\* The registration: the credential with its PIN is stored before the call; a
\* coexistence number is not registered at all.
ToRegistration(r, rec) ==
    LET n == run[r].name
        p == run[r].phone IN
    IF "PHONE_REGISTERED" \in rec.steps
    THEN Moves(r, "verify", rec) /\ UNCHANGED official
    ELSE IF run[r].type = "COEXISTENCE"
    THEN Moves(r, "verify", Advance(rec, {"PHONE_REGISTERED"})) /\ UNCHANGED official
    ELSE \E typed \in BOOLEAN :
         LET cred == UpsertOfficial(n, p)[n]
             pin == RegistrationPin(r, cred, typed) IN
         /\ official' = [official EXCEPT ![n] = [phone |-> p, pin |-> pin]]
         /\ run' = [run EXCEPT ![r] = [@ EXCEPT !.pc = "register", !.rec = rec, !.pin = pin]]
         /\ Put(r, rec)

\* resolve_phone_number_id and discover, the check of the webhook configuration, and
\* the decision whether the subscription has to be made
Discovered(r) ==
    LET rec == Advance(run[r].rec, {"DISCOVERY_OK"}) IN
    /\ run[r].pc = "discovery"
    /\ IF {"APP_SUBSCRIBED", "WEBHOOK_VERIFIED"} \subseteq rec.steps
       THEN ToRegistration(r, rec)
       ELSE Moves(r, "subscribe", rec) /\ UNCHANGED official
    /\ UNCHANGED <<graph, catalogue, crashes>>

\* _verify_webhook_configuration: a secret or the public address is missing
NotConfigured(r) ==
    /\ run[r].pc = "discovery"
    /\ Moves(r, "failed", Failed(Advance(run[r].rec, {"DISCOVERY_OK"})))
    /\ UNCHANGED <<official, graph, catalogue, crashes>>

SubscriptionHolds_Assumed(r) == graph' = graph
\* ensure_subscribed: asked for, and read back
SubscriptionHolds(r) == graph' = [graph EXCEPT !.subscribed = @ \cup {run[r].phone}]

Subscribed(r) ==
    /\ run[r].pc = "subscribe"
    /\ SubscriptionHolds(r)
    /\ ToRegistration(r, Advance(run[r].rec, {"APP_SUBSCRIBED", "WEBHOOK_VERIFIED"}))
    /\ UNCHANGED <<catalogue, crashes>>

\* ensure_registered: a PIN that is not the number's own means that it is registered
Registered(r) ==
    LET p == run[r].phone IN
    /\ run[r].pc = "register"
    /\ graph' = IF graph.pin[p] = NoPin THEN [graph EXCEPT !.pin[p] = run[r].pin] ELSE graph
    /\ Moves(r, "verify", Advance(run[r].rec, {"PHONE_REGISTERED"}))
    /\ UNCHANGED <<official, catalogue, crashes>>

\* verify_phone and _validate_phone_state
PhoneVerified(r) ==
    /\ run[r].pc = "verify"
    /\ Moves(r, "resources", Advance(run[r].rec, {"PHONE_VERIFIED"}))
    /\ UNCHANGED <<official, graph, catalogue, crashes>>

\* _discover_whatsapp_business returns the account whatever Meta says; the pages are
\* whatever is listed, and none if the listing fails
Found == {{"waba"}, {"waba", "page"}}

\* MetaResourceStore.sync: what is found is discovered again, what is not is removed
Sync(p, found) ==
    [catalogue EXCEPT ![p] = [k \in Resources |->
        IF k \in found THEN "discovered" ELSE IF @[k] = "unknown" THEN @[k] ELSE "removed"]]

\* _sync_legacy_resources and the rest of run(): the credential is always stored again.
\* If the catalogue cannot be had, the run goes on without it.
Completed(r) ==
    /\ run[r].pc = "resources"
    /\ \/ \E found \in Found : catalogue' = Sync(run[r].phone, found)
       \/ UNCHANGED catalogue
    /\ official' = UpsertOfficial(run[r].name, run[r].phone)
    /\ Moves(r, "ready", Advance(run[r].rec, {"EVOLUTION_READY", "CREDENTIALS_PERSISTED", "READY"}))
    /\ UNCHANGED <<graph, crashes>>

\* The process dies: the runs are gone, the files stay; a request on its way may land.
MoCrash ==
    /\ crashes < Crashes
    /\ crashes' = crashes + 1
    /\ run' = [r \in Runs |-> IF run[r].pc \in Waiting THEN [run[r] EXCEPT !.pc = "lost"] ELSE run[r]]
    /\ UNCHANGED <<stored, official, graph, catalogue>>

LateLanding(r) ==
    /\ run[r].pc = "lost" /\ run[r].pin # NoPin /\ graph.pin[run[r].phone] = NoPin
    /\ graph' = [graph EXCEPT !.pin[run[r].phone] = run[r].pin]
    /\ UNCHANGED <<stored, official, run, catalogue, crashes>>

RunStep(r) == \/ CallRaises(r) \/ Exchanged(r) \/ TokenVerified(r) \/ Discovered(r)
              \/ NotConfigured(r) \/ Subscribed(r) \/ Registered(r) \/ PhoneVerified(r)
              \/ Completed(r)

MoNext ==
    \/ \E r \in Runs : \/ \E n \in Names, p \in Phones, type \in Types : StartRun(r, n, p, type)
                       \/ RunStep(r) \/ LateLanding(r)
    \/ MoCrash

MoSpec == MoInit /\ [][MoNext]_moVars

-------------------------------------------------------------------------------
\* Every record has its form.
MoTypeOK ==
    /\ stored \in [Names -> OnboardingRecord \cup {Nothing}]
    /\ official \in [Names -> [phone: Phones \cup {NoPhone}, pin: PinValues \cup {NoPin}]]
    /\ run \in [Runs -> {[pc |-> "unused"]} \cup
                 [pc: Waiting \cup {"ready", "failed", "lost"}, name: Names, phone: Phones,
                  type: Types, rec: OnboardingRecord, pin: PinValues \cup {NoPin}]]
    /\ graph \in [subscribed: SUBSET Phones, pin: [Phones -> PinValues \cup {NoPin}]]
    /\ catalogue \in [Phones -> [Resources -> {"unknown", "discovered", "removed"}]]
    /\ crashes \in 0..Crashes

\* An instance that is shown as READY can be used: its credential is stored, Meta
\* delivers the messages of its number here, and has the number registered, although
\* the checkpoints that say so may be those of runs that failed or died, and other
\* runs may have overwritten the record since.  Numbers that are in use with the
\* Business app (coexistence) are registered by it.
ReadyIsOperational ==
    \A n \in Names : Status(n) = "READY" =>
        LET p == official[n].phone IN
        /\ p \in graph.subscribed
        /\ stored[n].type = "STANDARD" => graph.pin[p] # NoPin

\* The PIN that Meta has from the gateway is the PIN in the gateway's store, whatever
\* timed out, failed or died in between, and however often the onboarding is resumed:
\* without it nobody could register the number again.  (Unless its owner typed one in
\* meanwhile, which replaces the stored one.)
PinIsKept ==
    \A r \in Runs :
        /\ run[r].pc # "unused"
        /\ graph.pin[run[r].phone] = r
        /\ \A q \in Runs : run[q].pc # "unused" /\ run[q].name = run[r].name => run[q].pin # OwnerPin
        => official[run[r].name].pin = r
===============================================================================
