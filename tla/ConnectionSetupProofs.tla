------------------------ MODULE ConnectionSetupProofs ------------------------
(***************************************************************************)
(* Proofs about ConnectionSetup, for any set of setups of any kinds, any   *)
(* number of completions in flight, accounts and crashes.                  *)
(***************************************************************************)
EXTENDS ConnectionSetup, TLAPS

(* What a write leaves of a setup, and of the others.                      *)

Resources == {"none", "instance", "assets"}
NeedsCleanup(s) == setup[s].required

\* The setup s gets this state and this resource; the others are as they were.
Written(s, st, res) ==
  /\ setup' \in [Setups -> Record]
  /\ State(s)' = st
  /\ setup'[s].resource = res
  /\ \A t \in Setups : t # s => setup'[t] = setup[t]

\* A record put in the place of another.
LEMMA Replaced ==
  ASSUME TypeOK, NEW s \in Setups, NEW r \in Record, setup' = [setup EXCEPT ![s] = r],
         NEW st, NEW res, r.state = st, r.resource = res
  PROVE  /\ Written(s, st, res)
         /\ setup'[s] = r
BY DEF TypeOK, Written, State

\* Whether a clean-up is required after a write.
LEMMA Required ==
  ASSUME NEW r \in Record, NEW st, NEW res
  PROVE  /\ [r EXCEPT !.state = st].required <=> r.required
         /\ [r EXCEPT !.state = st, !.resource = res].required <=> r.required
         /\ [r EXCEPT !.resource = res].required <=> r.required
         /\ ~[r EXCEPT !.state = st, !.required = FALSE, !.resource = res].required
BY DEF Record

\* The state alone.
LEMMA StateWrite ==
  ASSUME TypeOK, NEW s \in Setups, NEW st \in States,
         setup' = [setup EXCEPT ![s].state = st]
  PROVE  /\ Written(s, st, setup[s].resource)
         /\ NeedsCleanup(s)' => NeedsCleanup(s)
<1> DEFINE r == [setup[s] EXCEPT !.state = st]
<1>a. setup[s] \in Record
  BY DEF TypeOK
<1>1. r \in Record
  <2>1. \A q \in Record : [q EXCEPT !.state = st] \in Record
    BY DEF Record, Resources
  <2> QED BY <1>a, <2>1
<1>2. r.state = st /\ r.resource = setup[s].resource
  <2>1. \A q \in Record : /\ [q EXCEPT !.state = st].state = st
                         /\ [q EXCEPT !.state = st].resource = q.resource
    BY DEF Record
  <2> QED BY <1>a, <2>1 DEF State
<1>3. setup' = [setup EXCEPT ![s] = r]
  BY DEF TypeOK, Record
<1>4. r.required => setup[s].required
  BY <1>a, Required
<1> HIDE DEF r
<1>5. NeedsCleanup(s)' => NeedsCleanup(s)
  BY <1>1, <1>3, <1>4, Replaced DEF NeedsCleanup
<1> QED BY <1>1, <1>2, <1>3, <1>5, Replaced

\* The state, and that a clean-up is required.
LEMMA CleanupWrite ==
  ASSUME TypeOK, NEW s \in Setups, NEW st \in States,
         setup' = [setup EXCEPT ![s].state = st, ![s].required = TRUE]
  PROVE  Written(s, st, setup[s].resource)
<1> DEFINE r == [setup[s] EXCEPT !.state = st, !.required = TRUE]
<1>a. setup[s] \in Record
  BY DEF TypeOK
<1>1. r \in Record
  <2>1. \A q \in Record : [q EXCEPT !.state = st, !.required = TRUE] \in Record
    BY DEF Record, Resources
  <2> QED BY <1>a, <2>1
<1>2. r.state = st /\ r.resource = setup[s].resource
  <2>1. \A q \in Record : /\ [q EXCEPT !.state = st, !.required = TRUE].state = st
                         /\ [q EXCEPT !.state = st, !.required = TRUE].resource = q.resource
    BY DEF Record
  <2> QED BY <1>a, <2>1 DEF State
<1>3. setup' = [setup EXCEPT ![s] = r]
  BY DEF TypeOK, Record
<1> HIDE DEF r
<1> QED BY <1>1, <1>2, <1>3, Replaced

\* State and resource.
LEMMA ResourceWrite ==
  ASSUME TypeOK, NEW s \in Setups, NEW st \in States, NEW res \in Resources,
         setup' = [setup EXCEPT ![s].state = st, ![s].resource = res]
  PROVE  /\ Written(s, st, res)
         /\ NeedsCleanup(s)' => NeedsCleanup(s)
<1> DEFINE r == [setup[s] EXCEPT !.state = st, !.resource = res]
<1>a. setup[s] \in Record
  BY DEF TypeOK
<1>1. r \in Record
  <2>1. \A q \in Record : [q EXCEPT !.state = st, !.resource = res] \in Record
    BY DEF Record, Resources
  <2> QED BY <1>a, <2>1
<1>2. r.state = st /\ r.resource = res
  <2>1. \A q \in Record : /\ [q EXCEPT !.state = st, !.resource = res].state = st
                         /\ [q EXCEPT !.state = st, !.resource = res].resource = res
    BY DEF Record
  <2> QED BY <1>a, <2>1 DEF State
<1>3. setup' = [setup EXCEPT ![s] = r]
  BY DEF TypeOK, Record
<1>4. r.required => setup[s].required
  BY <1>a, Required
<1> HIDE DEF r
<1>5. NeedsCleanup(s)' => NeedsCleanup(s)
  BY <1>1, <1>3, <1>4, Replaced DEF NeedsCleanup
<1> QED BY <1>1, <1>2, <1>3, <1>5, Replaced

\* The resource alone.
LEMMA ResourceOnlyWrite ==
  ASSUME TypeOK, NEW s \in Setups, NEW res \in Resources,
         setup' = [setup EXCEPT ![s].resource = res]
  PROVE  /\ Written(s, State(s), res)
         /\ NeedsCleanup(s)' => NeedsCleanup(s)
<1> DEFINE r == [setup[s] EXCEPT !.resource = res]
<1>a. setup[s] \in Record
  BY DEF TypeOK
<1>1. r \in Record
  <2>1. \A q \in Record : [q EXCEPT !.resource = res] \in Record
    BY DEF Record, Resources
  <2> QED BY <1>a, <2>1
<1>2. r.state = State(s) /\ r.resource = res
  <2>1. \A q \in Record : /\ [q EXCEPT !.resource = res].state = q.state
                         /\ [q EXCEPT !.resource = res].resource = res
    BY DEF Record
  <2> QED BY <1>a, <2>1 DEF State
<1>3. setup' = [setup EXCEPT ![s] = r]
  BY DEF TypeOK, Record
<1>4. r.required => setup[s].required
  BY <1>a, Required
<1> HIDE DEF r
<1>5. NeedsCleanup(s)' => NeedsCleanup(s)
  BY <1>1, <1>3, <1>4, Replaced DEF NeedsCleanup
<1> QED BY <1>1, <1>2, <1>3, <1>5, Replaced

\* The end of a clean-up.
LEMMA CleanedWrite ==
  ASSUME TypeOK, NEW s \in Setups, NEW st \in States,
         setup' = [setup EXCEPT ![s].state = st, ![s].required = FALSE, ![s].resource = "none"]
  PROVE  /\ Written(s, st, "none")
         /\ ~NeedsCleanup(s)'
<1> DEFINE r == [setup[s] EXCEPT !.state = st, !.required = FALSE, !.resource = "none"]
<1>a. setup[s] \in Record
  BY DEF TypeOK
<1>1. r \in Record
  <2>1. \A q \in Record : [q EXCEPT !.state = st, !.required = FALSE, !.resource = "none"] \in Record
    BY DEF Record, Resources
  <2> QED BY <1>a, <2>1
<1>2. r.state = st /\ r.resource = "none"
  <2>1. \A q \in Record : /\ [q EXCEPT !.state = st, !.required = FALSE, !.resource = "none"].state = st
                         /\ [q EXCEPT !.state = st, !.required = FALSE, !.resource = "none"].resource = "none"
    BY DEF Record
  <2> QED BY <1>a, <2>1 DEF State
<1>3. setup' = [setup EXCEPT ![s] = r]
  BY DEF TypeOK, Record
<1>4. ~r.required
  BY <1>a, Required
<1> HIDE DEF r
<1>5. ~NeedsCleanup(s)'
  BY <1>1, <1>3, <1>4, Replaced DEF NeedsCleanup
<1> QED BY <1>1, <1>2, <1>3, <1>5, Replaced

\* Expiry and cancellation: what holds a resource is left to the clean-up.
LEMMA CloseWrite ==
  ASSUME TypeOK, NEW s \in Setups, NEW outcome \in {"expired", "cancelled"},
         setup' = [setup EXCEPT ![s] = Closed(@, outcome)]
  PROVE  \/ Written(s, "cleanup_pending", setup[s].resource)
         \/ /\ Written(s, outcome, setup[s].resource)
            /\ setup[s].resource = "none"
            /\ NeedsCleanup(s)' => NeedsCleanup(s)
<1>a. setup[s] \in Record /\ {"cleanup_pending", outcome} \subseteq States
  BY DEF TypeOK, States
<1>1. CASE setup[s].resource # "none"
  <2> DEFINE r == [setup[s] EXCEPT !.state = "cleanup_pending", !.required = TRUE, !.finalState = outcome]
  <2>1. r \in Record /\ r.state = "cleanup_pending" /\ r.resource = setup[s].resource
    <3>1. \A q \in Record :
            LET u == [q EXCEPT !.state = "cleanup_pending", !.required = TRUE, !.finalState = outcome]
            IN  u \in Record /\ u.state = "cleanup_pending" /\ u.resource = q.resource
      BY DEF Record, States
    <3> QED BY <1>a, <3>1
  <2>2. setup' = [setup EXCEPT ![s] = r]
    BY <1>1 DEF Closed
  <2> HIDE DEF r
  <2> QED BY <2>1, <2>2, Replaced
<1>2. CASE setup[s].resource = "none"
  <2>1. setup' = [setup EXCEPT ![s].state = outcome]
    BY <1>2 DEF Closed
  <2> QED BY <1>a, <1>2, <2>1, StateWrite
<1> QED BY <1>1, <1>2

-----------------------------------------------------------------------------
(* What the actions write.                                                 *)

ResourceAfter(s) == IF Meta(s) THEN "assets" ELSE setup[s].resource

\* Promotion makes a setup ready and publishes its connection, or neither.
LEMMA PromoteEffect ==
  ASSUME TypeOK, NEW s \in Setups, NEW a, Promote(s, a)
  PROVE  \/ /\ client
            /\ Written(s, "ready", ResourceAfter(s))
            /\ inventory' = [inventory EXCEPT ![s] = "promoted"]
            /\ tombstone' = [tombstone EXCEPT ![s] = FALSE]
            /\ account' = [account EXCEPT ![s] = a]
         \/ /\ Written(s, State(s), ResourceAfter(s))
            /\ NeedsCleanup(s)' => NeedsCleanup(s)
            /\ UNCHANGED <<inventory, tombstone, account>>
<1>a. /\ ResourceAfter(s) \in Resources
      /\ "ready" \in States
  BY DEF TypeOK, Record, ResourceAfter, Resources, States
<1>1. CASE client
  <2>1. setup' = [setup EXCEPT ![s].state = "ready", ![s].resource = ResourceAfter(s)]
    BY <1>1 DEF Promote, TypeOK, Record, ResourceAfter
  <2> QED BY <1>1, <1>a, <2>1, ResourceWrite DEF Promote
<1>2. CASE ~client
  <2>1. setup' = [setup EXCEPT ![s].resource = ResourceAfter(s)]
    BY <1>2 DEF Promote, TypeOK, Record, ResourceAfter
  <2> QED BY <1>2, <1>a, <2>1, ResourceOnlyWrite DEF Promote
<1> QED BY <1>1, <1>2

\* A completion closes an overdue setup, fails an active one, promotes one that is
\* being provisioned, or leaves the setup alone.
LEMMA EndCompletionEffect ==
  ASSUME TypeOK, NEW s \in Setups, NEW c \in Calls, EndCompletion(s, c)
  PROVE  \/ UNCHANGED <<setup, inventory, tombstone, account>>
         \/ /\ Overdue(s)
            /\ setup' = [setup EXCEPT ![s] = Closed(@, "expired")]
            /\ UNCHANGED <<inventory, tombstone, account>>
         \/ /\ State(s) \in Active
            /\ setup' = [setup EXCEPT ![s].state = "failed"]
            /\ UNCHANGED <<inventory, tombstone, account>>
         \/ /\ State(s) = "provisioning"
            /\ \/ Promote(s, None)
               \/ \E a \in Accounts : Unbound(a) /\ Promote(s, a)
BY DEF EndCompletion, FailCompletion, CompletionSucceeds

\* A completion that begins claims the setup, and the assets it names.
LEMMA BeginCompletionEffect ==
  ASSUME TypeOK, NEW s \in Setups, NEW c \in Calls, BeginCompletion(s, c)
  PROVE  /\ \/ Written(s, "provisioning", "assets")
            \/ Written(s, "provisioning", setup[s].resource)
         /\ NeedsCleanup(s)' => NeedsCleanup(s)
<1> DEFINE res == IF KindOf[s] = "whatsapp" THEN "assets" ELSE setup[s].resource
<1>1. res \in Resources /\ "provisioning" \in States
  BY DEF TypeOK, Record, Resources, States, Active
<1>2. setup' = [setup EXCEPT ![s].state = "provisioning", ![s].resource = res]
  BY DEF BeginCompletion, TypeOK, Record
<1> HIDE DEF res
<1>3. /\ Written(s, "provisioning", res)
      /\ NeedsCleanup(s)' => NeedsCleanup(s)
  BY <1>1, <1>2, ResourceWrite
<1> QED BY <1>3 DEF res

-----------------------------------------------------------------------------
(* Type correctness.                                                       *)

\* Whatever happens, a setup is left as it was or replaced by a record.
LEMMA SetupTyped == TypeOK /\ [Next]_vars => setup' \in [Setups -> Record]
<1> SUFFICES ASSUME TypeOK, [Next]_vars PROVE setup' \in [Setups -> Record]
  OBVIOUS
<1>a. {"draft", "onboarding", "provisioning", "failed", "cleanup_pending", "expired", "cancelled"}
        \subseteq States
  BY DEF States, Active
<1>1. CASE UNCHANGED setup
  BY <1>1 DEF TypeOK
<1>2. ASSUME NEW s, NEW st, NEW res, Written(s, st, res) PROVE setup' \in [Setups -> Record]
  BY <1>2 DEF Written
<1>3. ASSUME NEW s \in Setups, NEW outcome \in {"expired", "cancelled"},
             setup' = [setup EXCEPT ![s] = Closed(@, outcome)]
      PROVE  setup' \in [Setups -> Record]
  BY <1>2, <1>3, CloseWrite
<1>4. ASSUME NEW s \in Setups, NEW st \in States, setup' = [setup EXCEPT ![s].state = st]
      PROVE  setup' \in [Setups -> Record]
  BY <1>2, <1>4, StateWrite
<1>5. ASSUME NEW s \in Setups,
             setup' = [setup EXCEPT ![s].state = "cleanup_pending", ![s].required = TRUE]
      PROVE  setup' \in [Setups -> Record]
  BY <1>a, <1>2, <1>5, CleanupWrite
<1>6. ASSUME NEW s \in Setups, Request(s) PROVE setup' \in [Setups -> Record]
  <2>1. CASE Create(s) \/ BeginMeta(s) \/ BeginEvolution(s)
    BY <1>a, <1>4, <2>1 DEF Create, BeginMeta, BeginEvolution
  <2>2. CASE Cancel(s)
    BY <1>3, <2>2 DEF Cancel
  <2>3. ASSUME NEW c \in Calls, BeginCompletion(s, c) PROVE setup' \in [Setups -> Record]
    BY <1>2, <2>3, BeginCompletionEffect
  <2> QED BY <1>1, <1>6, <2>1, <2>2, <2>3 DEF Request, BeginDelete
<1>7. ASSUME NEW s \in Setups, Provisioning(s) PROVE setup' \in [Setups -> Record]
  <2>1. CASE CreateSucceeds(s)
    BY <1>2, <2>1, ResourceOnlyWrite DEF CreateSucceeds, Resources
  <2>2. CASE CreateFails(s) \/ WebhookFails(s)
    BY <1>1, <1>5, <2>2 DEF CreateFails, WebhookFails, WebhookFailed
  <2>3. ASSUME NEW a, Promote(s, a) PROVE setup' \in [Setups -> Record]
    BY <1>2, <2>3, PromoteEffect
  <2>4. CASE FinishProvision(s)
    BY <1>1, <2>3, <2>4 DEF FinishProvision
  <2>5. ASSUME NEW c \in Calls, EndCompletion(s, c) PROVE setup' \in [Setups -> Record]
    BY <1>1, <1>a, <1>3, <1>4, <2>3, <2>5, EndCompletionEffect
  <2> QED BY <1>1, <1>7, <2>1, <2>2, <2>4, <2>5 DEF Provisioning, WebhookVerified
<1>8. ASSUME NEW s \in Setups, Cleaning(s) PROVE setup' \in [Setups -> Record]
  <2>1. CASE EndCleanup(s)
    <3>1. final[s] \in States
      BY <1>a DEF TypeOK
    <3> QED BY <1>2, <2>1, <3>1, CleanedWrite DEF EndCleanup
  <2> QED BY <1>1, <1>5, <1>8, <2>1 DEF Cleaning, BeginCleanup, DeleteLands, PutOff
<1>9. ASSUME NEW s \in Setups, Expire(s) PROVE setup' \in [Setups -> Record]
  BY <1>3, <1>9 DEF Expire
<1> QED
  BY <1>1, <1>6, <1>7, <1>8, <1>9
  DEF Next, TimePasses, DeleteRuntime, EndDelete, CreateLands, BeginListing, EndListing,
      DeleteClient, Crash, vars

\* What promotion publishes is of the right type.
LEMMA PromoteTyped ==
  ASSUME TypeOK, NEW s \in Setups, NEW a \in Accounts \cup {None},
         Promote(s, a) \/ UNCHANGED <<inventory, tombstone, account>>
  PROVE  /\ inventory' \in [Setups -> {"none", "imported", "promoted"}]
         /\ tombstone' \in [Setups -> BOOLEAN]
         /\ account' \in [Setups -> Accounts \cup {None}]
<1>1. inventory' \in [Setups -> {"none", "imported", "promoted"}]
  BY DEF TypeOK, Promote
<1>2. tombstone' \in [Setups -> BOOLEAN]
  BY DEF TypeOK, Promote
<1>3. account' \in [Setups -> Accounts \cup {None}]
  BY DEF TypeOK, Promote
<1> QED BY <1>1, <1>2, <1>3

\* The initial state is well typed.
LEMMA InitTypeOK == Init => TypeOK
<1> SUFFICES ASSUME Init PROVE TypeOK
  OBVIOUS
<1>1. setup \in [Setups -> Record]
  BY DEF Init, Record, States
<1>2. crashes \in 0 .. MaxCrashes
  BY SetupAssumption DEF Init
<1> QED BY <1>1, <1>2 DEF Init, AtRest, TypeOK, States

\* Every step keeps the types.
LEMMA NextTypeOK == TypeOK /\ [Next]_vars => TypeOK'
<1> SUFFICES ASSUME TypeOK, [Next]_vars PROVE TypeOK'
  OBVIOUS
<1>a. setup' \in [Setups -> Record]
  BY SetupTyped
<1>1. CASE UNCHANGED vars
  BY <1>1 DEF TypeOK, vars, calls, registry, runtime
<1>2. ASSUME NEW s \in Setups, Request(s) PROVE TypeOK'
  <2>1. CASE Create(s) \/ BeginMeta(s) \/ Cancel(s)
    BY <1>a, <2>1 DEF Create, BeginMeta, Cancel, TypeOK, calls, registry, runtime
  <2>2. CASE BeginEvolution(s)
    BY <1>a, <2>2 DEF BeginEvolution, TypeOK, registry
  <2>3. ASSUME NEW c \in Calls, BeginCompletion(s, c) PROVE TypeOK'
    BY <1>a, <2>3 DEF BeginCompletion, TypeOK, registry, runtime
  <2>4. CASE BeginDelete(s)
    BY <1>a, <2>4 DEF BeginDelete, TypeOK, registry, runtime
  <2> QED BY <1>2, <2>1, <2>2, <2>3, <2>4 DEF Request
<1>3. ASSUME NEW s \in Setups, Provisioning(s) PROVE TypeOK'
  <2>1. CASE CreateSucceeds(s)
    <3>1. State(s) \in States
      BY DEF TypeOK, Record, State
    <3> QED BY <1>a, <2>1, <3>1 DEF CreateSucceeds, TypeOK, registry, runtime
  <2>2. CASE CreateFails(s) \/ WebhookVerified(s)
    BY <1>a, <2>2 DEF CreateFails, WebhookVerified, TypeOK, registry, runtime
  <2>3. CASE WebhookFails(s)
    BY <1>a, <2>3 DEF WebhookFails, TypeOK, States, registry, runtime
  <2>4. CASE FinishProvision(s)
    <3>1. Promote(s, None) \/ UNCHANGED <<inventory, tombstone, account>>
      BY <2>4 DEF FinishProvision
    <3> QED BY <1>a, <2>4, <3>1, PromoteTyped DEF FinishProvision, TypeOK, States, runtime
  <2>5. ASSUME NEW c \in Calls, EndCompletion(s, c) PROVE TypeOK'
    <3>1. \E a \in Accounts \cup {None} : Promote(s, a) \/ UNCHANGED <<inventory, tombstone, account>>
      BY <2>5, EndCompletionEffect
    <3> QED BY <1>a, <2>5, <3>1, PromoteTyped DEF EndCompletion, TypeOK, runtime
  <2> QED BY <1>3, <2>1, <2>2, <2>3, <2>4, <2>5 DEF Provisioning
<1>4. ASSUME NEW s \in Setups, Cleaning(s) PROVE TypeOK'
  <2>1. CASE BeginCleanup(s)
    <3>1. setup[s].finalState \in {"expired", "cancelled"}
      BY DEF TypeOK, Record
    <3> QED BY <1>a, <2>1, <3>1 DEF BeginCleanup, TypeOK, registry, runtime
  <2>2. CASE DeleteLands(s)
    BY <1>a, <2>2 DEF DeleteLands, TypeOK, registry
  <2>3. CASE EndCleanup(s) \/ PutOff(s)
    BY <1>a, <2>3 DEF EndCleanup, PutOff, TypeOK, registry, runtime
  <2> QED BY <1>4, <2>1, <2>2, <2>3 DEF Cleaning
<1>5. ASSUME NEW s \in Setups, TimePasses(s) \/ Expire(s) \/ DeleteRuntime(s) \/ CreateLands(s)
      PROVE  TypeOK'
  <2>1. CASE TimePasses(s)
    BY <1>a, <2>1 DEF TimePasses, TypeOK, calls, registry, runtime
  <2>2. CASE Expire(s)
    BY <1>a, <2>2 DEF Expire, TypeOK, calls, registry, runtime
  <2>3. CASE DeleteRuntime(s)
    BY <1>a, <2>3 DEF DeleteRuntime, TypeOK, calls, registry, runtime
  <2>4. CASE CreateLands(s)
    BY <1>a, <2>4 DEF CreateLands, TypeOK, calls, registry, runtime
  <2> QED BY <1>5, <2>1, <2>2, <2>3, <2>4
<1>6. ASSUME NEW s \in Setups, EndDelete(s) PROVE TypeOK'
  BY <1>a, <1>6 DEF EndDelete, TypeOK, runtime
<1>7. CASE BeginListing \/ EndListing
  BY <1>a, <1>7 DEF BeginListing, EndListing, TypeOK, registry, runtime
<1>8. CASE DeleteClient
  BY <1>a, <1>8 DEF DeleteClient, TypeOK, calls, runtime
<1>9. CASE Crash
  <2>1. crashes' \in 0 .. MaxCrashes
    BY <1>9, SetupAssumption DEF Crash, TypeOK
  <2> QED BY <1>a, <1>9, <2>1 DEF Crash, TypeOK, States, registry, runtime
<1> QED
  BY <1>1, <1>2, <1>3, <1>4, <1>5, <1>6, <1>7, <1>8, <1>9 DEF Next

-----------------------------------------------------------------------------
(* One connection for an account.                                          *)

\* Promotion with an account that no published connection holds, or with none.
LEMMA PromoteBindsOnce ==
  ASSUME TypeOK, AccountInv, NEW s \in Setups, NEW a, Promote(s, a), a = None \/ Unbound(a)
  PROVE  AccountInv'
<1>1. CASE UNCHANGED <<inventory, account>>
  BY <1>1 DEF AccountInv, AccountBoundOnce
<1>2. CASE /\ inventory' = [inventory EXCEPT ![s] = "promoted"]
           /\ account' = [account EXCEPT ![s] = a]
  <2>1. \A t \in Setups : /\ inventory'[t] = IF t = s THEN "promoted" ELSE inventory[t]
                          /\ account'[t] = IF t = s THEN a ELSE account[t]
    BY <1>2 DEF TypeOK
  <2>2. \A t \in Setups : account[t] # None => account[t] # a
    BY DEF AccountInv, Unbound
  <2>3. AccountBoundOnce'
    BY <2>1, <2>2 DEF AccountInv, AccountBoundOnce
  <2> QED BY <2>1, <2>3 DEF AccountInv
<1> QED BY <1>1, <1>2 DEF Promote

\* Every step keeps an account with one published connection.
LEMMA NextAccountInv == TypeOK /\ AccountInv /\ [Next]_vars => AccountInv'
<1> SUFFICES ASSUME TypeOK, AccountInv, [Next]_vars PROVE AccountInv'
  OBVIOUS
<1>1. CASE UNCHANGED <<inventory, account>>
  BY <1>1 DEF AccountInv, AccountBoundOnce
<1>2. ASSUME NEW s \in Setups, FinishProvision(s) PROVE AccountInv'
  BY <1>1, <1>2, PromoteBindsOnce DEF FinishProvision
<1>3. ASSUME NEW s \in Setups, NEW c \in Calls, EndCompletion(s, c) PROVE AccountInv'
  BY <1>1, <1>3, EndCompletionEffect, PromoteBindsOnce
<1>4. CASE EndListing
  <2>1. \A t \in Setups : inventory[t] = "promoted" => inventory'[t] = "promoted"
    BY <1>4 DEF EndListing
  <2> QED BY <1>4, <2>1 DEF EndListing, AccountInv, AccountBoundOnce
<1>5. ASSUME NEW s \in Setups, EndDelete(s) PROVE AccountInv'
  <2>1. CASE /\ inventory' = [inventory EXCEPT ![s] = "none"]
             /\ account' = [account EXCEPT ![s] = None]
    <3>1. \A t \in Setups : /\ inventory'[t] = IF t = s THEN "none" ELSE inventory[t]
                            /\ account'[t] = IF t = s THEN None ELSE account[t]
      BY <2>1 DEF TypeOK
    <3> QED BY <3>1 DEF AccountInv, AccountBoundOnce
  <2> QED BY <1>1, <1>5, <2>1 DEF EndDelete
<1> QED
  BY <1>1, <1>2, <1>3, <1>4, <1>5
  DEF Next, Request, Create, BeginMeta, BeginEvolution, Cancel, BeginCompletion, BeginDelete,
      Provisioning, CreateSucceeds, CreateFails, WebhookVerified, WebhookFails,
      Cleaning, BeginCleanup, DeleteLands, EndCleanup, PutOff, TimePasses, Expire,
      DeleteRuntime, CreateLands, BeginListing, DeleteClient, Crash, vars, registry

\* Nothing is bound at first.
LEMMA InitAccountInv == Init => AccountInv
BY DEF Init, AccountInv, AccountBoundOnce

\* The state is well typed, whatever overtakes what.
THEOREM SetupTypeCorrect == Spec => []TypeOK
BY InitTypeOK, NextTypeOK, PTL DEF Spec

\* No two connections hold one account, however many callbacks discover it.
THEOREM AccountsAreBoundOnce == Spec => []AccountBoundOnce
<1>1. AccountInv => AccountBoundOnce
  BY DEF AccountInv
<1> QED BY <1>1, InitTypeOK, NextTypeOK, InitAccountInv, NextAccountInv, PTL DEF Spec

-----------------------------------------------------------------------------
(* Setups that are not closed during their Evolution call, whatever becomes *)
(* of the others.                                                          *)

\* The invariant, setup by setup.
Sound(s) ==
  /\ CallIsCurrent(s)
  /\ CleanupIsOfClosed(s)
  /\ ActiveNeedsNoCleanup(s)
  /\ ResourceOfKind(s)
  /\ State(s) \in {"cancelled", "expired"} => setup[s].resource = "none" /\ ~setup[s].required
  /\ inventory[s] = "promoted" => State(s) = "ready" /\ client

LEMMA SoundSetups == SetupInv <=> TypeOK /\ \A s \in Setups : Steady(s) => Sound(s)
BY DEF SetupInv, Sound, ClosedLeavesNothing, PublishedIsReady

\* A step on one setup leaves the others sound.
LEMMA OneSetup ==
  ASSUME SetupInv, TypeOK', NEW s \in Setups, Steady(s) => Sound(s)', client' = client,
         \A t \in Setups : t # s =>
           /\ setup'[t] = setup[t]
           /\ due'[t] = due[t]
           /\ provision'[t] = provision[t]
           /\ held'[t] = held[t]
           /\ completing'[t] = completing[t]
           /\ cleaning'[t] = cleaning[t]
           /\ inventory'[t] = inventory[t]
  PROVE  SetupInv'
<1>1. ASSUME NEW t \in Setups, t # s, Steady(t) PROVE Sound(t)'
  <2>1. Sound(t)
    BY <1>1, SoundSetups
  <2>2. CallIsCurrent(t)'
    BY <1>1, <2>1 DEF Sound, CallIsCurrent, Busy, Meta, State
  <2>3. CleanupIsOfClosed(t)'
    BY <1>1, <2>1 DEF Sound, CleanupIsOfClosed, Meta, State
  <2>4. ActiveNeedsNoCleanup(t)' /\ ResourceOfKind(t)'
    BY <1>1, <2>1 DEF Sound, ActiveNeedsNoCleanup, ResourceOfKind, Meta, State
  <2>5. State(t)' \in {"cancelled", "expired"} => setup'[t].resource = "none" /\ ~setup'[t].required
    BY <1>1, <2>1 DEF Sound, State
  <2>6. inventory'[t] = "promoted" => State(t)' = "ready" /\ client'
    BY <1>1, <2>1 DEF Sound, State
  <2> QED BY <2>2, <2>3, <2>4, <2>5, <2>6 DEF Sound
<1>2. \A t \in Setups : Steady(t) => Sound(t)'
  BY <1>1
<1>3. SetupInv' <=> TypeOK' /\ \A t \in Setups : Steady(t) => Sound(t)'
  BY DEF SetupInv, Sound, ClosedLeavesNothing, PublishedIsReady, Steady, Meta
<1> QED BY <1>2, <1>3

\* Nothing but s, and what is stored of it, is touched.
Frame(s) ==
  /\ client' = client
  /\ \A t \in Setups : t # s =>
       /\ due'[t] = due[t]
       /\ provision'[t] = provision[t]
       /\ held'[t] = held[t]
       /\ completing'[t] = completing[t]
       /\ cleaning'[t] = cleaning[t]
       /\ inventory'[t] = inventory[t]

\* What one assignment leaves alone.
LEMMA Others ==
  ASSUME NEW D, NEW T, NEW f \in [D -> T], NEW s \in D, NEW v, NEW g, g = [f EXCEPT ![s] = v]
  PROVE  \A t \in D : t # s => g[t] = f[t]
OBVIOUS

\* What a step must see to when it writes to s.
LEMMA WriteKeeps ==
  ASSUME SetupInv, TypeOK', NEW s \in Setups, NEW st, NEW res, Written(s, st, res), Frame(s),
         provision'[s] # "idle" =>
           /\ ~Meta(s) /\ st = "provisioning"
           /\ provision'[s] # "creating" => held'[s] = "provisioning",
         cleaning'[s] # "idle" => ~Meta(s) /\ st \in {"expired", "cleanup_pending"},
         st \in Active \cup {"none", "failed", "cancelled", "expired"} => ~NeedsCleanup(s)',
         res = "assets" => Meta(s),
         res = "instance" => ~Meta(s),
         completing'[s] # {} => Meta(s),
         st \in {"cancelled", "expired"} => res = "none",
         inventory'[s] = "promoted" => st = "ready" /\ client
  PROVE  SetupInv'
<1>1. State(s)' = st /\ setup'[s].resource = res
  BY DEF Written
<1>2. CallIsCurrent(s)'
  BY <1>1 DEF CallIsCurrent, Busy, Meta
<1>3. CleanupIsOfClosed(s)'
  BY <1>1 DEF CleanupIsOfClosed, Meta
<1>4. ActiveNeedsNoCleanup(s)'
  BY <1>1 DEF ActiveNeedsNoCleanup, NeedsCleanup
<1>5. ResourceOfKind(s)'
  BY <1>1 DEF ResourceOfKind, Meta
<1>6. State(s)' \in {"cancelled", "expired"} => setup'[s].resource = "none" /\ ~setup'[s].required
  BY <1>1 DEF NeedsCleanup
<1>7. inventory'[s] = "promoted" => State(s)' = "ready" /\ client'
  BY <1>1 DEF Frame
<1>8. Sound(s)'
  BY <1>2, <1>3, <1>4, <1>5, <1>6, <1>7 DEF Sound
<1> QED BY <1>8, OneSetup DEF Frame, Written

\* A setup that is left alone is written as it was.
LEMMA Unwritten ==
  ASSUME TypeOK, NEW s \in Setups, UNCHANGED setup
  PROVE  Written(s, State(s), setup[s].resource) /\ (NeedsCleanup(s)' => NeedsCleanup(s))
BY DEF TypeOK, Written, State, NeedsCleanup

\* What is known of a setup.
LEMMA Known ==
  ASSUME SetupInv, NEW s \in Setups, Steady(s)
  PROVE  /\ TypeOK
         /\ provision[s] # "idle" =>
              /\ ~Meta(s) /\ State(s) = "provisioning"
              /\ provision[s] # "creating" => held[s] = "provisioning"
         /\ cleaning[s] # "idle" => ~Meta(s) /\ State(s) \in {"expired", "cleanup_pending"}
         /\ State(s) \in Active \cup {"none", "failed", "cancelled", "expired"} => ~NeedsCleanup(s)
         /\ setup[s].resource = "assets" => Meta(s)
         /\ setup[s].resource = "instance" => ~Meta(s)
         /\ completing[s] # {} => Meta(s)
         /\ State(s) \in {"cancelled", "expired"} => setup[s].resource = "none"
         /\ inventory[s] = "promoted" => State(s) = "ready" /\ client
<1>1. TypeOK /\ Sound(s)
  BY SoundSetups
<1> QED
  BY <1>1 DEF Sound, CallIsCurrent, CleanupIsOfClosed, ActiveNeedsNoCleanup, ResourceOfKind,
              NeedsCleanup, Busy

\* A step that writes to no setup and begins nothing.
LEMMA QuietKeeps ==
  ASSUME SetupInv, TypeOK', UNCHANGED <<setup, due, client>>,
         \A t \in Setups :
           /\ provision'[t] \in {provision[t], "idle"}
           /\ provision'[t] # "idle" => held'[t] = held[t]
           /\ completing'[t] \subseteq completing[t]
           /\ cleaning'[t] # "idle" => cleaning[t] # "idle"
           /\ inventory'[t] = "promoted" => inventory[t] = "promoted"
  PROVE  SetupInv'
<1>1. ASSUME NEW t \in Setups, Steady(t) PROVE Sound(t)'
  <2>1. Sound(t)
    BY <1>1, SoundSetups
  <2>2. CallIsCurrent(t)'
    BY <2>1 DEF Sound, CallIsCurrent, Busy, Meta, State
  <2>3. CleanupIsOfClosed(t)'
    BY <2>1 DEF Sound, CleanupIsOfClosed, Meta, State
  <2>4. ActiveNeedsNoCleanup(t)' /\ ResourceOfKind(t)'
    BY <2>1 DEF Sound, ActiveNeedsNoCleanup, ResourceOfKind, Meta, State
  <2>5. State(t)' \in {"cancelled", "expired"} => setup'[t].resource = "none" /\ ~setup'[t].required
    BY <2>1 DEF Sound, State
  <2>6. inventory'[t] = "promoted" => State(t)' = "ready" /\ client'
    BY <2>1 DEF Sound, State
  <2> QED BY <2>2, <2>3, <2>4, <2>5, <2>6 DEF Sound
<1>2. SetupInv' <=> TypeOK' /\ \A t \in Setups : Steady(t) => Sound(t)'
  BY DEF SetupInv, Sound, ClosedLeavesNothing, PublishedIsReady, Steady, Meta
<1> QED BY <1>1, <1>2

\* A setup is closed: by an operator, or because its time is over. No call is in
\* flight for it.
LEMMA CloseKeeps ==
  ASSUME SetupInv, TypeOK', NEW s \in Setups, Steady(s), NEW outcome \in {"expired", "cancelled"},
         setup' = [setup EXCEPT ![s] = Closed(@, outcome)], Frame(s),
         State(s) \in Active, provision[s] = "idle",
         UNCHANGED <<due, provision, held, cleaning, inventory>>,
         completing'[s] \subseteq completing[s]
  PROVE  SetupInv'
<1>1. cleaning[s] = "idle" /\ inventory[s] # "promoted"
  BY Known DEF Active
<1>2. ~NeedsCleanup(s)
  BY Known
<1>3. CASE Written(s, "cleanup_pending", setup[s].resource)
  BY <1>1, <1>3, Known, WriteKeeps DEF Active
<1>4. CASE /\ Written(s, outcome, setup[s].resource)
           /\ setup[s].resource = "none"
           /\ NeedsCleanup(s)' => NeedsCleanup(s)
  BY <1>1, <1>2, <1>4, Known, WriteKeeps DEF Active
<1> QED BY <1>3, <1>4, Known, CloseWrite

\* What a request or the sweep closes is not being provisioned.
LEMMA ClosesIdle ==
  ASSUME SetupInv, NEW s \in Setups, Steady(s), Cancel(s) \/ Expire(s)
  PROVE  State(s) \in Active /\ provision[s] = "idle"
<1>1. Meta(s) => provision[s] = "idle"
  BY Known
<1> QED BY <1>1 DEF Cancel, Cancellable, Expire, Overdue, Steady, Busy

\* Time passes.
LEMMA TimePassesKeeps ==
  ASSUME SetupInv, TypeOK', NEW s \in Setups, Steady(s), TimePasses(s)
  PROVE  SetupInv'
<1>1. TypeOK /\ UNCHANGED <<setup, provision, held, completing, cleaning, inventory>>
  BY Known DEF TimePasses, calls, registry
<1>2. Frame(s)
  BY DEF TimePasses, Frame, calls, registry
<1> QED BY <1>1, <1>2, Known, Unwritten, WriteKeeps

\* A setup begins, is created or is closed.
LEMMA RequestKeeps ==
  ASSUME SetupInv, TypeOK', NEW s \in Setups, Steady(s), Request(s)
  PROVE  SetupInv'
<1>a. {"draft", "onboarding", "provisioning"} \subseteq States /\ TypeOK
  BY Known DEF States, Active
<1>1. CASE Create(s) \/ BeginMeta(s)
  <2>1. PICK st \in {"draft", "onboarding"} : setup' = [setup EXCEPT ![s].state = st]
    BY <1>1 DEF Create, BeginMeta
  <2>2. Written(s, st, setup[s].resource) /\ (NeedsCleanup(s)' => NeedsCleanup(s))
    BY <1>a, <2>1, StateWrite
  <2>3. State(s) \in {"none", "draft"}
    BY <1>1 DEF Create, BeginMeta, Startable
  <2>4. /\ UNCHANGED <<due, provision, held, completing, cleaning, inventory>>
        /\ Frame(s)
    BY <1>1 DEF Create, BeginMeta, Frame, calls, registry
  <2> QED BY <2>2, <2>3, <2>4, Known, WriteKeeps DEF Active
<1>2. CASE BeginEvolution(s)
  <2>1. Written(s, "provisioning", setup[s].resource) /\ (NeedsCleanup(s)' => NeedsCleanup(s))
    BY <1>a, <1>2, StateWrite DEF BeginEvolution
  <2>2. State(s) = "draft" /\ ~Meta(s)
    BY <1>2 DEF BeginEvolution, Startable
  <2>3. /\ provision'[s] = "creating"
        /\ UNCHANGED <<due, held, completing, cleaning, inventory>>
    BY <1>a, <1>2 DEF BeginEvolution, registry, TypeOK
  <2>4. Frame(s)
    BY <1>2 DEF BeginEvolution, Frame, registry
  <2> QED BY <2>1, <2>2, <2>3, <2>4, Known, WriteKeeps DEF Active
<1>3. CASE Cancel(s)
  <2>1. State(s) \in Active /\ provision[s] = "idle"
    BY <1>3, ClosesIdle
  <2>2. UNCHANGED <<due, provision, held, completing, cleaning, inventory>> /\ Frame(s)
    BY <1>3 DEF Cancel, Frame, calls, registry
  <2> QED BY <1>3, <2>1, <2>2, CloseKeeps DEF Cancel
<1>4. ASSUME NEW c \in Calls, BeginCompletion(s, c) PROVE SetupInv'
  <2>1. /\ Meta(s)
        /\ State(s) \in {"onboarding", "provisioning", "failed"}
        /\ UNCHANGED <<due, provision, held, cleaning, inventory>>
    BY <1>4 DEF BeginCompletion, registry
  <2>2. Frame(s)
    BY <1>4 DEF BeginCompletion, Frame, registry
  <2>3. provision[s] = "idle" /\ cleaning[s] = "idle" /\ inventory[s] # "promoted" /\ ~NeedsCleanup(s)
    BY <2>1, Known DEF Active
  <2>4. PICK res \in {"assets", setup[s].resource} : Written(s, "provisioning", res)
    BY <1>a, <1>4, BeginCompletionEffect
  <2>5. NeedsCleanup(s)' => NeedsCleanup(s)
    BY <1>a, <1>4, BeginCompletionEffect
  <2>6. res = "instance" => ~Meta(s)
    BY Known
  <2> QED BY <2>1, <2>2, <2>3, <2>4, <2>5, <2>6, WriteKeeps
<1>5. CASE BeginDelete(s)
  BY <1>5, QuietKeeps DEF BeginDelete, registry
<1> QED BY <1>1, <1>2, <1>3, <1>4, <1>5 DEF Request

\* Promotion of what is still being provisioned.
LEMMA PromoteKeeps ==
  ASSUME SetupInv, TypeOK', NEW s \in Setups, Steady(s), NEW a, Promote(s, a), Frame(s),
         State(s) = "provisioning", provision'[s] = "idle",
         UNCHANGED <<due, cleaning, client>>,
         completing'[s] \subseteq completing[s]
  PROVE  SetupInv'
<1>a. TypeOK
  BY Known
<1>1. /\ cleaning[s] = "idle"
      /\ inventory[s] # "promoted"
      /\ ~NeedsCleanup(s)
      /\ ResourceAfter(s) = "assets" => Meta(s)
      /\ ResourceAfter(s) = "instance" => ~Meta(s)
      /\ completing'[s] # {} => Meta(s)
  BY Known DEF ResourceAfter, Active
<1>2. CASE client /\ Written(s, "ready", ResourceAfter(s))
  BY <1>1, <1>2, WriteKeeps DEF Active
<1>3. CASE /\ Written(s, State(s), ResourceAfter(s))
           /\ NeedsCleanup(s)' => NeedsCleanup(s)
           /\ UNCHANGED inventory
  BY <1>1, <1>3, WriteKeeps
<1> QED BY <1>a, <1>2, <1>3, PromoteEffect

\* A call ends, for what is still being provisioned.
LEMMA ProvisioningKeeps ==
  ASSUME SetupInv, TypeOK', NEW s \in Setups, Steady(s), Provisioning(s)
  PROVE  SetupInv'
<1>a. TypeOK /\ {"failed", "cleanup_pending"} \subseteq States
  BY Known DEF States
<1>1. CASE CreateSucceeds(s)
  <2>1. Written(s, State(s), "instance") /\ (NeedsCleanup(s)' => NeedsCleanup(s))
    BY <1>a, <1>1, ResourceOnlyWrite DEF CreateSucceeds, Resources
  <2>2. /\ provision[s] = "creating"
        /\ held'[s] = State(s)
        /\ UNCHANGED <<due, completing, cleaning, inventory>>
    BY <1>a, <1>1 DEF CreateSucceeds, registry, TypeOK
  <2>3. Frame(s)
    BY <1>1 DEF CreateSucceeds, Frame, registry
  <2> QED BY <2>1, <2>2, <2>3, Known, WriteKeeps
<1>2. CASE CreateFails(s) \/ WebhookFails(s)
  <2>1. /\ provision[s] # "idle"
        /\ provision'[s] = "idle"
        /\ UNCHANGED <<due, completing, cleaning, inventory>>
    BY <1>a, <1>2 DEF CreateFails, WebhookFails, registry, TypeOK
  <2>2. Frame(s)
    <3>1. /\ provision' = [provision EXCEPT ![s] = "idle"]
          /\ held' = held \/ held' = [held EXCEPT ![s] = "none"]
          /\ UNCHANGED <<due, completing, cleaning, inventory, client>>
      BY <1>2 DEF CreateFails, WebhookFails, registry
    <3>2. \A t \in Setups : t # s => provision'[t] = provision[t] /\ held'[t] = held[t]
      BY <1>a, <3>1, Others DEF TypeOK
    <3> QED BY <3>1, <3>2 DEF Frame
  <2>3. WebhookFails(s) => held[s] = "provisioning"
    BY Known DEF WebhookFails
  <2>4. setup' = [setup EXCEPT ![s].state = "cleanup_pending", ![s].required = TRUE]
    BY <1>2, <2>3 DEF CreateFails, WebhookFails, WebhookFailed
  <2>5. Written(s, "cleanup_pending", setup[s].resource)
    BY <1>a, <2>4, CleanupWrite
  <2> QED BY <2>1, <2>2, <2>5, Known, WriteKeeps DEF Active
<1>3. CASE WebhookVerified(s)
  <2>1. /\ provision[s] = "webhook"
        /\ UNCHANGED <<setup, due, held, completing, cleaning, inventory>>
    BY <1>3 DEF WebhookVerified, registry
  <2>2. Frame(s)
    BY <1>3 DEF WebhookVerified, Frame, registry
  <2> QED BY <2>1, <2>2, Known, Unwritten, WriteKeeps
<1>4. CASE FinishProvision(s)
  <2>1. held[s] = "provisioning" /\ State(s) = "provisioning"
    BY <1>4, Known DEF FinishProvision
  <2>2. /\ Promote(s, None)
        /\ provision'[s] = "idle"
        /\ UNCHANGED <<due, completing, cleaning, client>>
    BY <1>a, <1>4, <2>1 DEF FinishProvision, TypeOK
  <2>3. Frame(s)
    <3>1. /\ inventory' = inventory \/ inventory' = [inventory EXCEPT ![s] = "promoted"]
          /\ provision' = [provision EXCEPT ![s] = "idle"]
          /\ held' = [held EXCEPT ![s] = "none"]
          /\ UNCHANGED <<due, completing, cleaning, client>>
      BY <1>4, <2>2 DEF FinishProvision, Promote
    <3>2. \A t \in Setups : t # s => /\ provision'[t] = provision[t]
                                    /\ held'[t] = held[t]
                                    /\ inventory'[t] = inventory[t]
      BY <1>a, <3>1, Others DEF TypeOK
    <3> QED BY <3>1, <3>2 DEF Frame
  <2> QED BY <2>1, <2>2, <2>3, PromoteKeeps
<1>5. ASSUME NEW c \in Calls, EndCompletion(s, c) PROVE SetupInv'
  <2>1. /\ completing[s] # {}
        /\ completing'[s] \subseteq completing[s]
        /\ \A t \in Setups : t # s => completing'[t] = completing[t]
        /\ UNCHANGED <<due, provision, held, cleaning, client>>
    BY <1>a, <1>5 DEF EndCompletion, TypeOK
  <2>2. Meta(s) /\ provision[s] = "idle"
    BY <2>1, Known
  <2>3. CASE UNCHANGED <<setup, inventory>>
    BY <2>1, <2>3, <1>a, Unwritten, Known, WriteKeeps DEF Frame
  <2>4. CASE /\ Overdue(s)
             /\ setup' = [setup EXCEPT ![s] = Closed(@, "expired")]
             /\ UNCHANGED inventory
    BY <2>1, <2>2, <2>4, CloseKeeps DEF Frame, Overdue
  <2>5. CASE /\ State(s) \in Active
             /\ setup' = [setup EXCEPT ![s].state = "failed"]
             /\ UNCHANGED inventory
    <3>1. Written(s, "failed", setup[s].resource) /\ (NeedsCleanup(s)' => NeedsCleanup(s))
      BY <1>a, <2>5, StateWrite
    <3>2. cleaning[s] = "idle" /\ inventory[s] # "promoted" /\ ~NeedsCleanup(s)
      BY <2>5, Known DEF Active
    <3> QED BY <2>1, <2>2, <2>5, <3>1, <3>2, Known, WriteKeeps DEF Frame
  <2>6. ASSUME NEW a, State(s) = "provisioning", Promote(s, a) PROVE SetupInv'
    <3>1. Frame(s)
      <4>1. inventory' = inventory \/ inventory' = [inventory EXCEPT ![s] = "promoted"]
        BY <2>6 DEF Promote
      <4>2. \A t \in Setups : t # s => inventory'[t] = inventory[t]
        BY <1>a, <4>1, Others DEF TypeOK
      <4> QED BY <2>1, <4>2 DEF Frame
    <3> QED BY <2>1, <2>2, <2>6, <3>1, PromoteKeeps
  <2> QED BY <1>a, <1>5, <2>3, <2>4, <2>5, <2>6, EndCompletionEffect
<1> QED BY <1>1, <1>2, <1>3, <1>4, <1>5 DEF Provisioning

\* The clean-up worker moves closed setups only.
LEMMA CleaningKeeps ==
  ASSUME SetupInv, TypeOK', NEW s \in Setups, Steady(s), Cleaning(s)
  PROVE  SetupInv'
<1>a. TypeOK /\ {"expired", "cancelled", "cleanup_pending"} \subseteq States
  BY Known DEF States
<1>1. CASE BeginCleanup(s)
  <2>1. /\ State(s) \in {"expired", "cleanup_pending"}
        /\ UNCHANGED <<due, provision, held, completing, inventory>>
    BY <1>1 DEF BeginCleanup, Candidate, registry
  <2>2. provision[s] = "idle" /\ inventory[s] # "promoted"
    BY <2>1, Known
  <2>3. Frame(s)
    <3>1. /\ cleaning' = cleaning \/ cleaning' = [cleaning EXCEPT ![s] = "deleting"]
          /\ UNCHANGED <<due, provision, held, completing, inventory, client>>
      BY <1>1 DEF BeginCleanup, registry
    <3>2. \A t \in Setups : t # s => cleaning'[t] = cleaning[t]
      BY <1>a, <3>1, Others DEF TypeOK
    <3> QED BY <3>1, <3>2 DEF Frame
  <2>4. CASE UNCHANGED setup /\ setup[s].resource = "instance"
    BY <1>a, <2>1, <2>2, <2>3, <2>4, Unwritten, Known, WriteKeeps
  <2>5. CASE /\ setup' = [setup EXCEPT ![s].state = "cleanup_pending", ![s].required = TRUE]
             /\ UNCHANGED cleaning
    <3>1. Written(s, "cleanup_pending", setup[s].resource)
      BY <1>a, <2>5, CleanupWrite
    <3> QED BY <2>1, <2>2, <2>3, <2>5, <3>1, Known, WriteKeeps DEF Active
  <2> QED BY <1>1, <2>4, <2>5 DEF BeginCleanup
<1>2. CASE DeleteLands(s)
  <2>1. /\ cleaning[s] # "idle"
        /\ UNCHANGED <<setup, due, provision, held, completing, inventory, client>>
        /\ \A t \in Setups : t # s => cleaning'[t] = cleaning[t]
    BY <1>2 DEF DeleteLands, registry
  <2> QED BY <2>1, QuietKeeps
<1>3. CASE EndCleanup(s)
  <2>1. /\ cleaning[s] # "idle"
        /\ cleaning'[s] = "idle"
        /\ UNCHANGED <<due, provision, held, completing, inventory>>
    BY <1>a, <1>3 DEF EndCleanup, registry, TypeOK
  <2>2. Frame(s)
    <3>1. /\ cleaning' = [cleaning EXCEPT ![s] = "idle"]
          /\ UNCHANGED <<due, provision, held, completing, inventory, client>>
      BY <1>3 DEF EndCleanup, registry
    <3>2. \A t \in Setups : t # s => cleaning'[t] = cleaning[t]
      BY <1>a, <3>1, Others DEF TypeOK
    <3> QED BY <3>1, <3>2 DEF Frame
  <2>3. provision[s] = "idle" /\ inventory[s] # "promoted"
    BY <2>1, Known
  <2>4. final[s] \in {"expired", "cancelled"} /\ final[s] \in States
    BY <1>a DEF TypeOK
  <2>5. Written(s, final[s], "none") /\ ~NeedsCleanup(s)'
    BY <1>a, <1>3, <2>4, CleanedWrite DEF EndCleanup
  <2> QED BY <2>1, <2>2, <2>3, <2>4, <2>5, Known, WriteKeeps
<1>4. CASE PutOff(s)
  <2>1. /\ cleaning[s] # "idle"
        /\ cleaning'[s] = "idle"
        /\ UNCHANGED <<due, provision, held, completing, inventory>>
    BY <1>a, <1>4 DEF PutOff, registry, TypeOK
  <2>2. Frame(s)
    <3>1. /\ cleaning' = [cleaning EXCEPT ![s] = "idle"]
          /\ UNCHANGED <<due, provision, held, completing, inventory, client>>
      BY <1>4 DEF PutOff, registry
    <3>2. \A t \in Setups : t # s => cleaning'[t] = cleaning[t]
      BY <1>a, <3>1, Others DEF TypeOK
    <3> QED BY <3>1, <3>2 DEF Frame
  <2>3. provision[s] = "idle" /\ inventory[s] # "promoted"
    BY <2>1, Known
  <2>4. Written(s, "cleanup_pending", setup[s].resource)
    BY <1>a, <1>4, CleanupWrite DEF PutOff
  <2> QED BY <2>1, <2>2, <2>3, <2>4, Known, WriteKeeps DEF Active
<1> QED BY <1>1, <1>2, <1>3, <1>4 DEF Cleaning

-----------------------------------------------------------------------------
(* The invariant, and what it gives.                                       *)

\* What happens to one setup.
StepOf(s) ==
  Request(s) \/ Provisioning(s) \/ Cleaning(s) \/ TimePasses(s) \/ Expire(s)

\* It happens to no other.
LEMMA StepsAreApart ==
  ASSUME TypeOK, NEW s \in Setups, StepOf(s)
  PROVE  Frame(s) /\ \A t \in Setups : t # s => setup'[t] = setup[t]
<1>1. CASE Request(s)
  BY <1>1 DEF Request, Create, BeginMeta, BeginEvolution, Cancel, BeginCompletion, BeginDelete,
              Frame, calls, registry, TypeOK
<1>2. ASSUME NEW a, Promote(s, a)
      PROVE  \A t \in Setups : t # s => setup'[t] = setup[t] /\ inventory'[t] = inventory[t]
  BY <1>2 DEF Promote, TypeOK
<1>3. CASE FinishProvision(s)
  <2>1. \A t \in Setups : t # s => setup'[t] = setup[t] /\ inventory'[t] = inventory[t]
    BY <1>2, <1>3 DEF FinishProvision
  <2> QED BY <1>3, <2>1 DEF FinishProvision, Frame, TypeOK
<1>4. ASSUME NEW c \in Calls, EndCompletion(s, c)
      PROVE  Frame(s) /\ \A t \in Setups : t # s => setup'[t] = setup[t]
  <2>1. \A t \in Setups : t # s => setup'[t] = setup[t] /\ inventory'[t] = inventory[t]
    BY <1>2, <1>4, EndCompletionEffect DEF TypeOK
  <2> QED BY <1>4, <2>1 DEF EndCompletion, Frame, TypeOK
<1>5. CASE CreateSucceeds(s) \/ CreateFails(s) \/ WebhookVerified(s) \/ WebhookFails(s)
  BY <1>5 DEF CreateSucceeds, CreateFails, WebhookVerified, WebhookFails, WebhookFailed, Frame,
              registry, TypeOK
<1>6. CASE Cleaning(s)
  BY <1>6 DEF Cleaning, BeginCleanup, DeleteLands, EndCleanup, PutOff, Frame, registry, TypeOK
<1>7. CASE TimePasses(s) \/ Expire(s)
  BY <1>7 DEF TimePasses, Expire, Frame, calls, registry, TypeOK
<1> QED BY <1>1, <1>3, <1>4, <1>5, <1>6, <1>7 DEF StepOf, Provisioning

\* A client that is deleted has nothing published.
LEMMA DeleteClientKeeps ==
  ASSUME SetupInv, TypeOK', DeleteClient
  PROVE  SetupInv'
<1>1. UNCHANGED <<setup, due, provision, held, completing, cleaning, inventory>>
  BY DEF DeleteClient, calls
<1>2. PublishedIsReady'
  BY <1>1 DEF DeleteClient, Unconnected, PublishedIsReady
<1>3. ClosedLeavesNothing'
  BY <1>1 DEF SetupInv, ClosedLeavesNothing, State
<1>4. \A s \in Setups : Steady(s) => CallIsCurrent(s)' /\ CleanupIsOfClosed(s)'
  BY <1>1 DEF SetupInv, CallIsCurrent, CleanupIsOfClosed, Busy, Meta, State
<1>5. \A s \in Setups : Steady(s) => ActiveNeedsNoCleanup(s)' /\ ResourceOfKind(s)'
  BY <1>1 DEF SetupInv, ActiveNeedsNoCleanup, ResourceOfKind, Meta, State
<1> QED BY <1>2, <1>3, <1>4, <1>5 DEF SetupInv, Steady, Meta

\* Every step keeps the invariant.
LEMMA NextSetupInv ==
  ASSUME SetupInv, [Next]_vars
  PROVE  SetupInv'
<1>a. TypeOK
  BY DEF SetupInv
<1>b. TypeOK'
  BY <1>a, NextTypeOK
<1>1. CASE UNCHANGED vars
  BY <1>b, <1>1, QuietKeeps DEF vars, calls, registry
<1>2. ASSUME NEW s \in Setups, Steady(s), StepOf(s) PROVE SetupInv'
  <2>1. CASE Expire(s)
    <3>1. Frame(s) /\ UNCHANGED <<due, provision, held, completing, cleaning, inventory>>
      BY <2>1 DEF Expire, Frame, calls, registry
    <3> QED BY <1>b, <1>2, <2>1, <3>1, ClosesIdle, CloseKeeps DEF Expire
  <2> QED BY <1>b, <1>2, <2>1, RequestKeeps, ProvisioningKeeps, CleaningKeeps, TimePassesKeeps DEF StepOf
<1>3. ASSUME NEW s \in Setups, ~Steady(s), StepOf(s) PROVE SetupInv'
  BY <1>a, <1>b, <1>3, StepsAreApart, OneSetup DEF Frame
<1>4. ASSUME NEW s \in Setups, DeleteRuntime(s) \/ CreateLands(s) PROVE SetupInv'
  BY <1>b, <1>4, QuietKeeps DEF DeleteRuntime, CreateLands, calls, registry
<1>5. ASSUME NEW s \in Setups, EndDelete(s) PROVE SetupInv'
  <2>1. \A t \in Setups : inventory'[t] = "promoted" => inventory[t] = "promoted"
    BY <1>a, <1>5 DEF EndDelete, TypeOK
  <2>2. UNCHANGED <<setup, due, client, provision, held, completing, cleaning>>
    BY <1>5 DEF EndDelete
  <2> QED BY <1>b, <2>1, <2>2, QuietKeeps
<1>6. CASE BeginListing \/ EndListing
  <2>1. \A t \in Setups : inventory'[t] = "promoted" => inventory[t] = "promoted"
    BY <1>6 DEF BeginListing, EndListing, registry
  <2>2. UNCHANGED <<setup, due, client, provision, held, completing, cleaning>>
    BY <1>6 DEF BeginListing, EndListing, registry
  <2> QED BY <1>b, <2>1, <2>2, QuietKeeps
<1>7. CASE Crash
  <2>1. UNCHANGED <<setup, due, client, inventory>>
    BY <1>7 DEF Crash, registry
  <2>2. \A t \in Setups : /\ provision'[t] = "idle"
                          /\ completing'[t] = {}
                          /\ cleaning'[t] = "idle"
    BY <1>7 DEF Crash
  <2> QED BY <1>b, <2>1, <2>2, QuietKeeps
<1> QED
  BY <1>b, <1>1, <1>2, <1>3, <1>4, <1>5, <1>6, <1>7, DeleteClientKeeps DEF Next, StepOf

LEMMA InitSetupInv == Init => SetupInv
<1> SUFFICES ASSUME Init PROVE SetupInv
  OBVIOUS
<1>1. TypeOK
  BY InitTypeOK
<1>2. \A s \in Setups : CallIsCurrent(s) /\ CleanupIsOfClosed(s)
  BY DEF Init, AtRest, CallIsCurrent, CleanupIsOfClosed, Busy
<1>3. \A s \in Setups : ActiveNeedsNoCleanup(s)
  BY DEF Init, ActiveNeedsNoCleanup
<1>4. \A s \in Setups : ResourceOfKind(s)
  BY DEF Init, AtRest, ResourceOfKind
<1>5. ClosedLeavesNothing /\ PublishedIsReady
  BY DEF Init, ClosedLeavesNothing, PublishedIsReady, State
<1> QED BY <1>1, <1>2, <1>3, <1>4, <1>5 DEF SetupInv

\* The published connection of a setup that was not closed during its Evolution call
\* has its setup ready and its client.
THEOREM PublishedSetupsAreReady == Spec => []PublishedIsReady
<1>1. SetupInv /\ [Next]_vars => SetupInv'
  BY NextSetupInv
<1>2. SetupInv => PublishedIsReady
  BY DEF SetupInv
<1> QED BY <1>1, <1>2, InitSetupInv, PTL DEF Spec

\* A setup is closed for good only when nothing of it is left: a Meta setup always, an
\* Evolution setup unless it, and not merely another, is closed during its call.
THEOREM ClosedSetupsLeaveNothing == Spec => []ClosedLeavesNothing
<1>1. SetupInv /\ [Next]_vars => SetupInv'
  BY NextSetupInv
<1>2. SetupInv => ClosedLeavesNothing
  BY DEF SetupInv
<1> QED BY <1>1, <1>2, InitSetupInv, PTL DEF Spec

\* No clean-up is in flight for a ready setup that was not closed during its call.
THEOREM ReadySetupsAreSpared == Spec => []CleanupSparesReady
<1>1. SetupInv /\ [Next]_vars => SetupInv'
  BY NextSetupInv
<1>2. SetupInv => CleanupSparesReady
  BY DEF SetupInv, CleanupIsOfClosed, CleanupSparesReady
<1> QED BY <1>1, <1>2, InitSetupInv, PTL DEF Spec

\* How the state of a setup moves: what is closed is only cleaned up, and what is
\* ready stays so.
Moves(t) ==
  \/ State(t)' = State(t)
  \/ State(t) \in Active \cup {"none", "failed"}
  \/ /\ State(t) \in {"expired", "cleanup_pending"}
     /\ State(t)' \in {"expired", "cancelled", "cleanup_pending"}

LEMMA WrittenMoves ==
  ASSUME NEW s \in Setups, NEW st, NEW res, Written(s, st, res),
         \/ st = State(s)
         \/ State(s) \in Active \cup {"none", "failed"}
         \/ State(s) \in {"expired", "cleanup_pending"} /\ st \in {"expired", "cancelled", "cleanup_pending"}
  PROVE  \A t \in Setups : Moves(t)
<1>1. State(s)' = st /\ \A t \in Setups : t # s => State(t)' = State(t)
  BY DEF Written, State
<1> QED BY <1>1 DEF Moves

LEMMA StillMoves ==
  ASSUME UNCHANGED setup
  PROVE  \A t \in Setups : Moves(t)
BY DEF Moves, State

\* A step on what is active, failed or not begun.
LEMMA OpenMoves ==
  ASSUME SetupInv, NEW s \in Setups, State(s) \in Active \cup {"none", "failed"},
         \A t \in Setups : t # s => setup'[t] = setup[t]
  PROVE  \A t \in Setups : Moves(t)
BY DEF Moves, State

\* The whole next-state relation.
LEMMA NextMoves ==
  ASSUME SetupInv, [Next]_vars
  PROVE  \A t \in Setups : Steady(t) => Moves(t)
<1>a. /\ TypeOK
      /\ {"expired", "cancelled", "cleanup_pending"} \subseteq States
  BY DEF SetupInv, States
<1>1. ASSUME UNCHANGED setup PROVE \A t \in Setups : Moves(t)
  BY <1>1, StillMoves
<1>2. ASSUME NEW s \in Setups, Steady(s), Create(s) \/ BeginMeta(s) \/ BeginEvolution(s)
      PROVE  \A t \in Setups : Moves(t)
  <2>1. /\ State(s) \in Active \cup {"none", "failed"}
        /\ \E st \in States : setup' = [setup EXCEPT ![s].state = st]
    BY <1>2 DEF Create, BeginMeta, BeginEvolution, Startable, Active, States
  <2> QED BY <1>a, <2>1, StateWrite, WrittenMoves
<1>3. ASSUME NEW s \in Setups, Steady(s), Cancel(s) \/ Expire(s) PROVE \A t \in Setups : Moves(t)
  <2>1. State(s) \in Active
    BY <1>3 DEF Cancel, Expire, Cancellable, Overdue
  <2>2. PICK outcome \in {"expired", "cancelled"} : setup' = [setup EXCEPT ![s] = Closed(@, outcome)]
    BY <1>3 DEF Cancel, Expire
  <2> QED BY <1>a, <2>1, <2>2, CloseWrite, WrittenMoves
<1>4. ASSUME NEW s \in Setups, Steady(s), NEW c \in Calls, BeginCompletion(s, c)
      PROVE  \A t \in Setups : Moves(t)
  <2>1. State(s) \in Active \cup {"none", "failed"}
    BY <1>4 DEF BeginCompletion, Active
  <2>2. PICK res \in {"assets", setup[s].resource} : Written(s, "provisioning", res)
    BY <1>a, <1>4, BeginCompletionEffect
  <2> QED BY <2>1, <2>2, WrittenMoves
<1>5. ASSUME NEW s \in Setups, Steady(s), CreateSucceeds(s) PROVE \A t \in Setups : Moves(t)
  <2>1. Written(s, State(s), "instance")
    BY <1>a, <1>5, ResourceOnlyWrite DEF CreateSucceeds, Resources
  <2> QED BY <2>1, WrittenMoves
<1>6. ASSUME NEW s \in Setups, Steady(s), CreateFails(s) \/ WebhookFails(s) PROVE \A t \in Setups : Moves(t)
  <2>1. provision[s] # "idle"
    BY <1>6 DEF CreateFails, WebhookFails
  <2>2. State(s) \in Active
    BY <1>6, <2>1, Known DEF Active
  <2>3. CASE setup' = [setup EXCEPT ![s].state = "cleanup_pending", ![s].required = TRUE]
    BY <1>a, <2>2, <2>3, CleanupWrite, WrittenMoves
  <2> QED BY <1>1, <1>6, <2>3 DEF CreateFails, WebhookFails, WebhookFailed
<1>7. ASSUME NEW s \in Setups, NEW a, Promote(s, a), State(s) = "provisioning"
      PROVE  \A t \in Setups : Moves(t)
  <2>1. \A t \in Setups : t # s => setup'[t] = setup[t]
    BY <1>a, <1>7, PromoteEffect DEF Written
  <2> QED BY <1>7, <2>1, OpenMoves DEF Active
<1>8. ASSUME NEW s \in Setups, Steady(s), FinishProvision(s) PROVE \A t \in Setups : Moves(t)
  <2>1. held[s] = "provisioning" /\ State(s) = "provisioning"
    BY <1>8, Known DEF FinishProvision
  <2> QED BY <1>7, <1>8, <2>1 DEF FinishProvision
<1>9. ASSUME NEW s \in Setups, Steady(s), NEW c \in Calls, EndCompletion(s, c)
      PROVE  \A t \in Setups : Moves(t)
  <2>1. CASE Overdue(s) /\ setup' = [setup EXCEPT ![s] = Closed(@, "expired")]
    BY <1>a, <2>1, CloseWrite, WrittenMoves DEF Overdue
  <2>2. CASE State(s) \in Active /\ setup' = [setup EXCEPT ![s].state = "failed"]
    <3>1. Written(s, "failed", setup[s].resource)
      BY <1>a, <2>2, StateWrite DEF States
    <3> QED BY <2>2, <3>1, WrittenMoves
  <2> QED BY <1>a, <1>1, <1>7, <1>9, <2>1, <2>2, EndCompletionEffect
<1>10. ASSUME NEW s \in Setups, Steady(s), Cleaning(s) PROVE \A t \in Setups : Moves(t)
  <2>1. ASSUME State(s) \in {"expired", "cleanup_pending"},
               setup' = [setup EXCEPT ![s].state = "cleanup_pending", ![s].required = TRUE]
        PROVE  \A t \in Setups : Moves(t)
    BY <1>a, <2>1, CleanupWrite, WrittenMoves
  <2>2. CASE BeginCleanup(s)
    BY <1>1, <2>1, <2>2 DEF BeginCleanup, Candidate
  <2>3. cleaning[s] # "idle" => State(s) \in {"expired", "cleanup_pending"}
    BY <1>10, Known
  <2>4. CASE PutOff(s)
    BY <2>1, <2>3, <2>4 DEF PutOff
  <2>5. CASE EndCleanup(s)
    <3>1. final[s] \in {"expired", "cancelled"} /\ final[s] \in States
      BY <1>a DEF TypeOK
    <3>2. Written(s, final[s], "none")
      BY <1>a, <2>5, <3>1, CleanedWrite DEF EndCleanup
    <3> QED BY <2>3, <2>5, <3>1, <3>2, WrittenMoves DEF EndCleanup
  <2>6. CASE DeleteLands(s)
    BY <1>1, <2>6 DEF DeleteLands
  <2> QED BY <1>10, <2>2, <2>4, <2>5, <2>6 DEF Cleaning
<1>11. ASSUME NEW s \in Setups, ~Steady(s), StepOf(s) PROVE \A t \in Setups : Steady(t) => Moves(t)
  BY <1>a, <1>11, StepsAreApart DEF Moves, State
<1>12. ASSUME NEW s \in Setups, StepOf(s) PROVE \A t \in Setups : Steady(t) => Moves(t)
  <2>1. CASE Steady(s)
    BY <1>1, <1>2, <1>3, <1>4, <1>5, <1>6, <1>8, <1>9, <1>10, <1>12, <2>1
    DEF StepOf, Request, Provisioning, BeginDelete, WebhookVerified, TimePasses
  <2> QED BY <1>11, <1>12, <2>1
<1> QED
  BY <1>1, <1>12
  DEF Next, StepOf, DeleteRuntime, EndDelete, CreateLands, BeginListing, EndListing, DeleteClient,
      Crash, vars

\* What is closed stays so, once no Evolution call is in flight for it.
LEMMA NextStaysClosed ==
  ASSUME TypeOK, [Next]_vars, NEW t \in Setups, IsClosed(t), ~Busy(t)
  PROVE  IsClosed(t)' /\ ~Busy(t)'
<1>1. ASSUME UNCHANGED setup, provision'[t] \in {provision[t], "idle"}
      PROVE  IsClosed(t)' /\ ~Busy(t)'
  BY <1>1 DEF IsClosed, Busy, State
<1>2. ASSUME NEW s \in Setups, s # t, StepOf(s) PROVE IsClosed(t)' /\ ~Busy(t)'
  BY <1>2, StepsAreApart DEF Frame, IsClosed, Busy, State
<1>3. ~Create(t) /\ ~BeginMeta(t) /\ ~BeginEvolution(t) /\ ~Cancel(t) /\ ~Expire(t)
  BY DEF IsClosed, Create, BeginMeta, BeginEvolution, Startable, Cancel, Cancellable, Expire, Overdue, Active
<1>4. ~CreateSucceeds(t) /\ ~CreateFails(t) /\ ~WebhookVerified(t) /\ ~WebhookFails(t) /\ ~FinishProvision(t)
  BY DEF Busy, CreateSucceeds, CreateFails, WebhookVerified, WebhookFails, FinishProvision
<1>5. CASE BeginDelete(t) \/ TimePasses(t)
  BY <1>1, <1>5 DEF BeginDelete, TimePasses, calls
<1>6. ASSUME NEW c \in Calls PROVE ~BeginCompletion(t, c)
  BY DEF IsClosed, BeginCompletion
<1>7. ASSUME NEW c \in Calls, EndCompletion(t, c) PROVE IsClosed(t)' /\ ~Busy(t)'
  <2>1. UNCHANGED setup
    BY <1>7, EndCompletionEffect DEF IsClosed, Overdue, Active
  <2> QED BY <1>1, <1>7, <2>1 DEF EndCompletion
<1>8. CASE Cleaning(t)
  <2>1. UNCHANGED provision
    BY <1>8 DEF Cleaning, BeginCleanup, DeleteLands, EndCleanup, PutOff
  <2>2. IsClosed(t)'
    BY <1>8 DEF Cleaning, BeginCleanup, DeleteLands, EndCleanup, PutOff, IsClosed, State, TypeOK, Record
  <2> QED BY <2>1, <2>2 DEF Busy
<1>9. ASSUME NEW s \in Setups, StepOf(s) PROVE IsClosed(t)' /\ ~Busy(t)'
  BY <1>2, <1>3, <1>4, <1>5, <1>6, <1>7, <1>8, <1>9 DEF StepOf, Request, Provisioning
<1>10. CASE Crash
  BY <1>1, <1>10 DEF Crash
<1> QED
  BY <1>1, <1>9, <1>10
  DEF Next, StepOf, DeleteRuntime, EndDelete, CreateLands, BeginListing, EndListing, DeleteClient, calls, vars

\* Only the Evolution call that was in flight when a setup was closed can revive it:
\* without one, or once it is over, the setup stays closed for ever, whichever setups
\* are closed during their calls.
THEOREM ClosedSetupsStayClosed == Spec => OnlyItsCallRevives
<1>1. TypeOK /\ [Next]_vars => TypeOK'
  BY NextTypeOK
<1>2. TypeOK /\ [Next]_vars =>
        [\A s \in Setups : IsClosed(s) /\ ~Busy(s) => (IsClosed(s) /\ ~Busy(s))']_vars
  BY NextStaysClosed
<1> QED BY <1>1, <1>2, InitTypeOK, PTL DEF Spec, OnlyItsCallRevives

\* A ready setup that was not closed during its Evolution call stays ready.
THEOREM ReadySetupsStayReady == Spec => ReadyIsFinal
<1>1. SetupInv /\ [Next]_vars => SetupInv'
  BY NextSetupInv
<1>2. SetupInv /\ [Next]_vars =>
        [\A s \in Setups : Steady(s) /\ State(s) = "ready" => setup'[s].state = "ready"]_vars
  BY NextMoves DEF Moves, State, Active
<1> QED BY <1>1, <1>2, InitSetupInv, PTL DEF Spec, ReadyIsFinal

-----------------------------------------------------------------------------
(* The setups implement the abstract lifecycle, if none is closed during   *)
(* its Evolution call.                                                     *)

Published(s) == inventory[s] = "promoted"

\* Nothing but s moves, as far as the lifecycle tells.
OthersRest(s) ==
  \A t \in Setups : t # s =>
    /\ setup'[t] = setup[t]
    /\ Published(t)' <=> Published(t)
    /\ provision'[t] # "idle" => provision'[t] = provision[t]
    /\ cleaning'[t] # "idle" => cleaning[t] # "idle"

\* What the invariant asks of s after a step.
KeptAfter(s, st, res) ==
  /\ provision'[s] \in {"webhook", "verified"} => res = "instance"
  /\ cleaning'[s] # "idle" => st = "cleanup_pending" /\ res = "instance"

\* A step on one setup keeps what is kept of the others.
LEMMA OneKept ==
  ASSUME KeptInv, NEW s \in Setups, NEW st, NEW res, Written(s, st, res), OthersRest(s),
         KeptAfter(s, st, res)
  PROVE  KeptInv'
<1>1. ASSUME NEW t \in Setups, t # s
      PROVE  /\ provision'[t] \in {"webhook", "verified"} => setup'[t].resource = "instance"
             /\ cleaning'[t] # "idle" => State(t)' = "cleanup_pending" /\ setup'[t].resource = "instance"
  BY <1>1 DEF KeptInv, OthersRest, State
<1>2. State(s)' = st /\ setup'[s].resource = res
  BY DEF Written
<1> QED BY <1>1, <1>2 DEF KeptInv, KeptAfter

\* The phase of a state.
PhaseIn(st) ==
  CASE st = "none" -> "none"
    [] st \in Active \cup {"failed"} -> "open"
    [] st = "ready" -> "ready"
    [] st = "cleanup_pending" -> "closing"
    [] OTHER -> "closed"

\* How the lifecycle reads a step on one setup.
LEMMA OnePhase ==
  ASSUME NEW s \in Setups, NEW st, NEW res, Written(s, st, res), OthersRest(s)
  PROVE  /\ [t \in Setups |-> Phase(t)]' = [[t \in Setups |-> Phase(t)] EXCEPT ![s] = PhaseIn(st)]
         /\ {t \in Setups : setup[t].resource # "none"}' =
              IF res # "none" THEN {t \in Setups : setup[t].resource # "none"} \cup {s}
              ELSE {t \in Setups : setup[t].resource # "none"} \ {s}
         /\ {t \in Setups : inventory[t] = "promoted"}' =
              IF Published(s)' THEN {t \in Setups : inventory[t] = "promoted"} \cup {s}
              ELSE {t \in Setups : inventory[t] = "promoted"} \ {s}
<1>1. State(s)' = st /\ setup'[s].resource = res
  BY DEF Written
<1>2. \A t \in Setups : t # s => Phase(t)' = Phase(t)
  BY DEF OthersRest, Phase, State
<1>3. Phase(s)' = PhaseIn(st)
  BY <1>1 DEF Phase, PhaseIn
<1>4. [t \in Setups |-> Phase(t)]' = [[t \in Setups |-> Phase(t)] EXCEPT ![s] = PhaseIn(st)]
  BY <1>2, <1>3
<1>5. {t \in Setups : setup[t].resource # "none"}' =
        IF res # "none" THEN {t \in Setups : setup[t].resource # "none"} \cup {s}
        ELSE {t \in Setups : setup[t].resource # "none"} \ {s}
  BY <1>1 DEF OthersRest
<1>6. {t \in Setups : inventory[t] = "promoted"}' =
        IF Published(s)' THEN {t \in Setups : inventory[t] = "promoted"} \cup {s}
        ELSE {t \in Setups : inventory[t] = "promoted"} \ {s}
  BY DEF OthersRest, Published
<1> QED BY <1>4, <1>5, <1>6

\* What a step that writes to s must be, for the lifecycle: it moves within its
\* phase, opens, becomes ready and is published, is given up, or is cleared.
Admitted(s, st, res) ==
  \/ /\ PhaseIn(st) = Phase(s)
     /\ res = setup[s].resource \/ (Phase(s) = "open" /\ res # "none")
     /\ Published(s)' <=> Published(s)
  \/ /\ PhaseIn(st) = Phase(s) /\ res = setup[s].resource
     /\ ~Published(s)'
  \/ /\ Phase(s) = "none" /\ PhaseIn(st) = "open"
     /\ res = setup[s].resource
     /\ Published(s)' <=> Published(s)
  \/ /\ Phase(s) = "open" /\ PhaseIn(st) = "ready"
     /\ res # "none"
     /\ Published(s)'
  \/ /\ Phase(s) = "open"
     /\ PhaseIn(st) = "closing" \/ (PhaseIn(st) = "closed" /\ res = "none")
     /\ res = setup[s].resource
     /\ Published(s)' <=> Published(s)
  \/ /\ Phase(s) = "closing" /\ PhaseIn(st) = "closed"
     /\ setup[s].resource # "none" /\ res = "none"
     /\ Published(s)' <=> Published(s)

\* Such a step is one of the lifecycle's, or none.
LEMMA AdmittedIsAbstract ==
  ASSUME NEW s \in Setups, NEW st, NEW res, Written(s, st, res), OthersRest(s),
         Admitted(s, st, res)
  PROVE  [Lifecycle!Next]_Lifecycle!vars
<1> DEFINE phase == [t \in Setups |-> Phase(t)]
           kept == {t \in Setups : setup[t].resource # "none"}
           published == {t \in Setups : inventory[t] = "promoted"}
<1>1. /\ phase' = [phase EXCEPT ![s] = PhaseIn(st)]
      /\ kept' = IF res # "none" THEN kept \cup {s} ELSE kept \ {s}
      /\ published' = IF Published(s)' THEN published \cup {s} ELSE published \ {s}
  BY OnePhase
<1>2. /\ phase \in [Setups -> {"none", "open", "ready", "closing", "closed"}]
      /\ phase[s] = Phase(s)
      /\ s \in kept <=> setup[s].resource # "none"
      /\ s \in published <=> Published(s)
  BY DEF Phase, Published
<1>3. UNCHANGED <<phase, kept, published>> => UNCHANGED Lifecycle!vars
  BY DEF Lifecycle!vars
<1>4. /\ Lifecycle!Open(s) <=>
           phase[s] = "none" /\ phase' = [phase EXCEPT ![s] = "open"] /\ UNCHANGED <<kept, published>>
      /\ Lifecycle!Keep(s) <=>
           phase[s] = "open" /\ kept' = kept \cup {s} /\ UNCHANGED <<phase, published>>
      /\ Lifecycle!Publish(s) <=>
           /\ phase[s] = "open" /\ phase' = [phase EXCEPT ![s] = "ready"]
           /\ kept' = kept \cup {s} /\ published' = published \cup {s}
      /\ Lifecycle!Withdraw(s) <=>
           s \in published /\ published' = published \ {s} /\ UNCHANGED <<phase, kept>>
      /\ Lifecycle!GiveUp(s) <=>
           /\ phase[s] = "open"
           /\ \E outcome \in {"closing"} \cup (IF s \in kept THEN {} ELSE {"closed"}) :
                phase' = [phase EXCEPT ![s] = outcome]
           /\ UNCHANGED <<kept, published>>
      /\ Lifecycle!Clear(s) <=>
           /\ phase[s] = "closing" /\ s \in kept
           /\ phase' = [phase EXCEPT ![s] = "closed"] /\ kept' = kept \ {s} /\ UNCHANGED published
  BY DEF Lifecycle!Open, Lifecycle!Keep, Lifecycle!Publish, Lifecycle!Withdraw, Lifecycle!GiveUp,
         Lifecycle!Clear
<1> HIDE DEF phase, kept, published
<1>5. CASE /\ PhaseIn(st) = Phase(s)
           /\ res = setup[s].resource \/ (Phase(s) = "open" /\ res # "none")
           /\ Published(s)' <=> Published(s)
  <2>1. phase' = phase /\ published' = published
    BY <1>1, <1>2, <1>5
  <2>2. kept' = kept \/ (phase[s] = "open" /\ kept' = kept \cup {s})
    BY <1>1, <1>2, <1>5
  <2> QED BY <1>3, <1>4, <2>1, <2>2 DEF Lifecycle!Next
<1>6. CASE PhaseIn(st) = Phase(s) /\ res = setup[s].resource /\ ~Published(s)'
  <2>1. phase' = phase /\ kept' = kept /\ published' = published \ {s}
    BY <1>1, <1>2, <1>6
  <2>2. published' = published \/ s \in published
    BY <2>1
  <2> QED BY <1>3, <1>4, <2>1, <2>2 DEF Lifecycle!Next
<1>7. CASE /\ Phase(s) = "none" /\ PhaseIn(st) = "open"
           /\ res = setup[s].resource
           /\ Published(s)' <=> Published(s)
  <2>1. /\ phase[s] = "none" /\ phase' = [phase EXCEPT ![s] = "open"]
        /\ UNCHANGED <<kept, published>>
    BY <1>1, <1>2, <1>7
  <2> QED BY <1>4, <2>1 DEF Lifecycle!Next
<1>8. CASE Phase(s) = "open" /\ PhaseIn(st) = "ready" /\ res # "none" /\ Published(s)'
  BY <1>1, <1>2, <1>4, <1>8 DEF Lifecycle!Next
<1>9. CASE /\ Phase(s) = "open"
           /\ PhaseIn(st) = "closing" \/ (PhaseIn(st) = "closed" /\ res = "none")
           /\ res = setup[s].resource
           /\ Published(s)' <=> Published(s)
  <2>1. phase[s] = "open" /\ UNCHANGED <<kept, published>>
    BY <1>1, <1>2, <1>9
  <2>2. \E outcome \in {"closing"} \cup (IF s \in kept THEN {} ELSE {"closed"}) :
          phase' = [phase EXCEPT ![s] = outcome]
    BY <1>1, <1>2, <1>9
  <2>3. Lifecycle!GiveUp(s)
    BY <1>4, <2>1, <2>2
  <2> QED BY <2>3 DEF Lifecycle!Next
<1>10. CASE /\ Phase(s) = "closing" /\ PhaseIn(st) = "closed"
            /\ setup[s].resource # "none" /\ res = "none"
            /\ Published(s)' <=> Published(s)
  <2>1. /\ phase[s] = "closing" /\ s \in kept
        /\ phase' = [phase EXCEPT ![s] = "closed"] /\ kept' = kept \ {s} /\ UNCHANGED published
    BY <1>1, <1>2, <1>10
  <2> QED BY <1>4, <2>1 DEF Lifecycle!Next
<1> QED BY <1>5, <1>6, <1>7, <1>8, <1>9, <1>10 DEF Admitted

\* A step that writes to s keeps what is kept, and is a step of the lifecycle.
LEMMA WrittenStep ==
  ASSUME KeptInv, NEW s \in Setups, NEW st, NEW res, Written(s, st, res), OthersRest(s),
         KeptAfter(s, st, res), Admitted(s, st, res)
  PROVE  KeptInv' /\ [Lifecycle!Next]_Lifecycle!vars
BY OneKept, AdmittedIsAbstract

\* A step that writes to no setup and publishes or withdraws nothing is none of the
\* lifecycle's.
LEMMA QuietStep ==
  ASSUME KeptInv, UNCHANGED setup,
         \A t \in Setups :
           /\ Published(t)' <=> Published(t)
           /\ provision'[t] \in {"webhook", "verified"} => provision[t] \in {"webhook", "verified"}
           /\ cleaning'[t] # "idle" => cleaning[t] # "idle"
  PROVE  KeptInv' /\ [Lifecycle!Next]_Lifecycle!vars
<1>1. KeptInv'
  BY DEF KeptInv, State
<1>2. [t \in Setups |-> Phase(t)]' = [t \in Setups |-> Phase(t)]
  BY DEF Phase, State
<1>3. {t \in Setups : inventory[t] = "promoted"}' = {t \in Setups : inventory[t] = "promoted"}
  BY DEF Published
<1>4. UNCHANGED Lifecycle!vars
  BY <1>2, <1>3 DEF Lifecycle!vars
<1> QED BY <1>1, <1>4

\* What is known of a setup beside Known.
LEMMA KnownKept ==
  ASSUME KeptInv, NEW s \in Setups
  PROVE  /\ provision[s] \in {"webhook", "verified"} => setup[s].resource = "instance"
         /\ cleaning[s] # "idle" => State(s) = "cleanup_pending" /\ setup[s].resource = "instance"
BY DEF KeptInv

\* The others rest when at most s is assigned to.
LEMMA RestOfOthers ==
  ASSUME NEW s \in Setups,
         \A t \in Setups : t # s =>
           /\ setup'[t] = setup[t]
           /\ inventory'[t] = inventory[t]
           /\ provision'[t] = provision[t]
           /\ cleaning'[t] = cleaning[t]
  PROVE  OthersRest(s)
BY DEF OthersRest, Published

\* A setup is closed for good only if nothing is on record.
LEMMA CloseStep ==
  ASSUME SetupInv, KeptInv, NEW s \in Setups, Steady(s), NEW outcome \in {"expired", "cancelled"},
         setup' = [setup EXCEPT ![s] = Closed(@, outcome)],
         State(s) \in Active, provision[s] = "idle",
         UNCHANGED <<provision, cleaning, inventory>>
  PROVE  KeptInv' /\ [Lifecycle!Next]_Lifecycle!vars
<1>1. TypeOK /\ cleaning[s] = "idle"
  BY Known DEF Active
<1>2. Phase(s) = "open" /\ (Published(s)' <=> Published(s))
  BY DEF Phase, Published, Active
<1>3. CASE Written(s, "cleanup_pending", setup[s].resource)
  <2>1. OthersRest(s)
    BY <1>3, RestOfOthers DEF Written
  <2>2. PhaseIn("cleanup_pending") = "closing"
    BY DEF PhaseIn, Active
  <2>3. Admitted(s, "cleanup_pending", setup[s].resource)
    BY <1>2, <2>2 DEF Admitted
  <2>4. KeptAfter(s, "cleanup_pending", setup[s].resource)
    BY <1>1 DEF KeptAfter
  <2> QED BY <1>3, <2>1, <2>3, <2>4, WrittenStep
<1>4. CASE Written(s, outcome, setup[s].resource) /\ setup[s].resource = "none"
  <2>1. OthersRest(s)
    BY <1>4, RestOfOthers DEF Written
  <2>2. PhaseIn(outcome) = "closed"
    BY DEF PhaseIn, Active
  <2>3. Admitted(s, outcome, setup[s].resource)
    BY <1>2, <1>4, <2>2 DEF Admitted
  <2>4. KeptAfter(s, outcome, setup[s].resource)
    BY <1>1 DEF KeptAfter
  <2> QED BY <1>4, <2>1, <2>3, <2>4, WrittenStep
<1> QED BY <1>1, <1>3, <1>4, CloseWrite

\* Requests open a setup, move it on or give it up.
LEMMA RequestStep ==
  ASSUME SetupInv, KeptInv, NEW s \in Setups, Steady(s), Request(s)
  PROVE  KeptInv' /\ [Lifecycle!Next]_Lifecycle!vars
<1>a. {"draft", "onboarding", "provisioning"} \subseteq States /\ TypeOK
  BY Known DEF States, Active
<1>1. CASE Create(s) \/ BeginMeta(s) \/ BeginEvolution(s)
  <2>1. PICK st \in Active : setup' = [setup EXCEPT ![s].state = st]
    BY <1>1 DEF Create, BeginMeta, BeginEvolution, Active
  <2>2. Written(s, st, setup[s].resource)
    BY <1>a, <2>1, StateWrite DEF Active
  <2>3. /\ State(s) \in {"none", "draft"}
        /\ UNCHANGED <<cleaning, inventory>>
        /\ provision' = provision \/ provision' = [provision EXCEPT ![s] = "creating"]
    BY <1>1 DEF Create, BeginMeta, BeginEvolution, Startable, calls, registry
  <2>4. OthersRest(s)
    BY <1>a, <2>2, <2>3, RestOfOthers DEF Written, TypeOK
  <2>5. cleaning[s] = "idle" /\ provision[s] = "idle"
    BY <2>3, Known
  <2>6. KeptAfter(s, st, setup[s].resource)
    BY <1>a, <2>3, <2>5 DEF KeptAfter, TypeOK
  <2>7. PhaseIn(st) = "open" /\ Phase(s) \in {"none", "open"} /\ (Published(s)' <=> Published(s))
    BY <2>3 DEF PhaseIn, Phase, Active, Published
  <2>8. Admitted(s, st, setup[s].resource)
    BY <2>7 DEF Admitted
  <2> QED BY <2>2, <2>4, <2>6, <2>8, WrittenStep
<1>2. CASE Cancel(s)
  <2>1. State(s) \in Active /\ provision[s] = "idle"
    BY <1>2, ClosesIdle
  <2>2. UNCHANGED <<provision, cleaning, inventory>>
    BY <1>2 DEF Cancel, calls, registry
  <2> QED BY <1>2, <2>1, <2>2, CloseStep DEF Cancel
<1>3. ASSUME NEW c \in Calls, BeginCompletion(s, c)
      PROVE  KeptInv' /\ [Lifecycle!Next]_Lifecycle!vars
  <2>1. /\ State(s) \in {"onboarding", "provisioning", "failed"}
        /\ UNCHANGED <<provision, cleaning, inventory>>
        /\ Meta(s)
    BY <1>3 DEF BeginCompletion, registry
  <2>2. provision[s] = "idle" /\ cleaning[s] = "idle"
    BY <2>1, Known
  <2>3. PICK res \in {"assets", setup[s].resource} : Written(s, "provisioning", res)
    BY <1>a, <1>3, BeginCompletionEffect
  <2>4. OthersRest(s)
    BY <2>1, <2>3, RestOfOthers DEF Written
  <2>5. KeptAfter(s, "provisioning", res)
    BY <2>1, <2>2 DEF KeptAfter
  <2>6. PhaseIn("provisioning") = "open" /\ Phase(s) = "open" /\ (Published(s)' <=> Published(s))
    BY <2>1 DEF PhaseIn, Phase, Active, Published
  <2>7. Admitted(s, "provisioning", res)
    BY <2>6 DEF Admitted
  <2> QED BY <2>3, <2>4, <2>5, <2>7, WrittenStep
<1>4. CASE BeginDelete(s)
  BY <1>4, QuietStep DEF BeginDelete, registry, Published
<1> QED BY <1>1, <1>2, <1>3, <1>4 DEF Request

\* A promotion publishes the connection with its resource on record, or only
\* records it.
LEMMA PromoteStep ==
  ASSUME SetupInv, KeptInv, NEW s \in Setups, Steady(s), NEW a, Promote(s, a), State(s) = "provisioning",
         ResourceAfter(s) # "none",
         provision'[s] = "idle", UNCHANGED cleaning,
         \A t \in Setups : t # s => provision'[t] = provision[t]
  PROVE  KeptInv' /\ [Lifecycle!Next]_Lifecycle!vars
<1>1. TypeOK /\ cleaning[s] = "idle"
  BY Known
<1>2. Phase(s) = "open"
  BY DEF Phase, Active
<1>3. ASSUME NEW st, Written(s, st, ResourceAfter(s)),
             inventory' = inventory \/ inventory' = [inventory EXCEPT ![s] = "promoted"]
      PROVE  OthersRest(s) /\ KeptAfter(s, st, ResourceAfter(s))
  <2>1. OthersRest(s)
    BY <1>1, <1>3, RestOfOthers DEF Written, TypeOK
  <2> QED BY <1>1, <2>1 DEF KeptAfter
<1>4. CASE /\ Written(s, "ready", ResourceAfter(s))
           /\ inventory' = [inventory EXCEPT ![s] = "promoted"]
  <2>1. PhaseIn("ready") = "ready" /\ Published(s)'
    BY <1>1, <1>4 DEF PhaseIn, Active, Published, TypeOK
  <2>2. Admitted(s, "ready", ResourceAfter(s))
    BY <1>2, <2>1 DEF Admitted
  <2> QED BY <1>3, <1>4, <2>2, WrittenStep
<1>5. CASE Written(s, State(s), ResourceAfter(s)) /\ UNCHANGED inventory
  <2>1. PhaseIn(State(s)) = Phase(s) /\ (Published(s)' <=> Published(s))
    BY <1>5 DEF PhaseIn, Phase, Published
  <2>2. Admitted(s, State(s), ResourceAfter(s))
    BY <1>2, <2>1 DEF Admitted
  <2> QED BY <1>3, <1>5, <2>2, WrittenStep
<1> QED BY <1>1, <1>4, <1>5, PromoteEffect

\* Calls end.
LEMMA ProvisioningStep ==
  ASSUME SetupInv, KeptInv, NEW s \in Setups, Steady(s), Provisioning(s)
  PROVE  KeptInv' /\ [Lifecycle!Next]_Lifecycle!vars
<1>a. TypeOK /\ {"failed", "cleanup_pending"} \subseteq States
  BY Known DEF States
<1>1. CASE CreateSucceeds(s)
  <2>1. Written(s, State(s), "instance")
    BY <1>a, <1>1, ResourceOnlyWrite DEF CreateSucceeds, Resources
  <2>2. /\ State(s) = "provisioning" /\ cleaning[s] = "idle"
        /\ provision' = [provision EXCEPT ![s] = "webhook"]
        /\ UNCHANGED <<cleaning, inventory>>
    BY <1>1, Known DEF CreateSucceeds, registry
  <2>3. OthersRest(s)
    BY <1>a, <2>1, <2>2, RestOfOthers DEF Written, TypeOK
  <2>4. KeptAfter(s, State(s), "instance")
    BY <2>2 DEF KeptAfter
  <2>5. PhaseIn(State(s)) = Phase(s) /\ Phase(s) = "open" /\ (Published(s)' <=> Published(s))
    BY <2>2 DEF PhaseIn, Phase, Active, Published
  <2>6. Admitted(s, State(s), "instance")
    BY <2>5 DEF Admitted
  <2> QED BY <2>1, <2>3, <2>4, <2>6, WrittenStep
<1>2. CASE CreateFails(s) \/ WebhookFails(s)
  <2>1. /\ provision[s] # "idle"
        /\ provision' = [provision EXCEPT ![s] = "idle"]
        /\ UNCHANGED <<cleaning, inventory>>
    BY <1>2 DEF CreateFails, WebhookFails, registry
  <2>2. WebhookFails(s) => held[s] = "provisioning"
    BY Known DEF WebhookFails
  <2>3. setup' = [setup EXCEPT ![s].state = "cleanup_pending", ![s].required = TRUE]
    BY <1>2, <2>2 DEF CreateFails, WebhookFails, WebhookFailed
  <2>4. Written(s, "cleanup_pending", setup[s].resource)
    BY <1>a, <2>3, CleanupWrite
  <2>5. OthersRest(s)
    BY <1>a, <2>1, <2>4, RestOfOthers DEF Written, TypeOK
  <2>6. State(s) = "provisioning" /\ cleaning[s] = "idle"
    BY <2>1, Known
  <2>7. KeptAfter(s, "cleanup_pending", setup[s].resource)
    BY <1>a, <2>1, <2>6 DEF KeptAfter, TypeOK
  <2>8. PhaseIn("cleanup_pending") = "closing" /\ Phase(s) = "open" /\ (Published(s)' <=> Published(s))
    BY <2>1, <2>6 DEF PhaseIn, Phase, Active, Published
  <2>9. Admitted(s, "cleanup_pending", setup[s].resource)
    BY <2>8 DEF Admitted
  <2> QED BY <2>4, <2>5, <2>7, <2>9, WrittenStep
<1>3. CASE WebhookVerified(s)
  <2>1. /\ provision[s] = "webhook"
        /\ provision' = [provision EXCEPT ![s] = "verified"]
        /\ UNCHANGED <<setup, cleaning, inventory>>
    BY <1>3 DEF WebhookVerified, registry
  <2>2. \A t \in Setups : provision'[t] \in {"webhook", "verified"} =>
                            provision[t] \in {"webhook", "verified"}
    BY <1>a, <2>1 DEF TypeOK
  <2> QED BY <2>1, <2>2, QuietStep DEF Published
<1>4. CASE FinishProvision(s)
  <2>1. provision[s] = "verified" /\ held[s] = "provisioning" /\ State(s) = "provisioning"
    BY <1>4, Known DEF FinishProvision
  <2>2. Promote(s, None) /\ UNCHANGED cleaning /\ provision' = [provision EXCEPT ![s] = "idle"]
    BY <1>4, <2>1 DEF FinishProvision
  <2>3. provision'[s] = "idle" /\ \A t \in Setups : t # s => provision'[t] = provision[t]
    BY <1>a, <2>2 DEF TypeOK
  <2>4. ResourceAfter(s) # "none"
    BY <2>1, KnownKept DEF ResourceAfter
  <2> QED BY <2>1, <2>2, <2>3, <2>4, PromoteStep
<1>5. ASSUME NEW c \in Calls, EndCompletion(s, c)
      PROVE  KeptInv' /\ [Lifecycle!Next]_Lifecycle!vars
  <2>1. completing[s] # {} /\ UNCHANGED <<provision, cleaning>>
    BY <1>5 DEF EndCompletion
  <2>2. Meta(s) /\ provision[s] = "idle"
    BY <2>1, Known
  <2>3. CASE UNCHANGED <<setup, inventory>>
    BY <2>1, <2>3, QuietStep DEF Published
  <2>4. CASE /\ Overdue(s)
             /\ setup' = [setup EXCEPT ![s] = Closed(@, "expired")]
             /\ UNCHANGED inventory
    BY <2>1, <2>2, <2>4, CloseStep DEF Overdue
  <2>5. CASE /\ State(s) \in Active
             /\ setup' = [setup EXCEPT ![s].state = "failed"]
             /\ UNCHANGED inventory
    <3>1. Written(s, "failed", setup[s].resource)
      BY <1>a, <2>5, StateWrite
    <3>2. OthersRest(s)
      BY <2>1, <2>5, <3>1, RestOfOthers DEF Written
    <3>3. cleaning[s] = "idle"
      BY <2>5, Known DEF Active
    <3>4. KeptAfter(s, "failed", setup[s].resource)
      BY <2>1, <2>2, <3>3 DEF KeptAfter
    <3>5. PhaseIn("failed") = "open" /\ Phase(s) = "open" /\ (Published(s)' <=> Published(s))
      BY <2>5 DEF PhaseIn, Phase, Active, Published
    <3>6. Admitted(s, "failed", setup[s].resource)
      BY <3>5 DEF Admitted
    <3> QED BY <3>1, <3>2, <3>4, <3>6, WrittenStep
  <2>6. ASSUME NEW a, State(s) = "provisioning", Promote(s, a)
        PROVE  KeptInv' /\ [Lifecycle!Next]_Lifecycle!vars
    <3>1. ResourceAfter(s) # "none"
      BY <2>2 DEF ResourceAfter
    <3> QED BY <2>1, <2>2, <2>6, <3>1, PromoteStep
  <2> QED BY <1>a, <1>5, <2>3, <2>4, <2>5, <2>6, EndCompletionEffect
<1> QED BY <1>1, <1>2, <1>3, <1>4, <1>5 DEF Provisioning

\* The clean-up clears what is on record, or leaves it there.
LEMMA CleaningStep ==
  ASSUME SetupInv, KeptInv, NEW s \in Setups, Steady(s), Cleaning(s)
  PROVE  KeptInv' /\ [Lifecycle!Next]_Lifecycle!vars
<1>a. TypeOK /\ {"expired", "cancelled", "cleanup_pending"} \subseteq States
  BY Known DEF States
<1>b. PhaseIn("cleanup_pending") = "closing"
  BY DEF PhaseIn, Active
<1>1. CASE BeginCleanup(s)
  <2>1. State(s) = "cleanup_pending" /\ provision[s] = "idle"
    BY <1>1, Known DEF BeginCleanup, Candidate
  <2>2. /\ UNCHANGED <<provision, inventory>>
        /\ cleaning[s] = "idle"
    BY <1>1 DEF BeginCleanup, registry
  <2>3. CASE /\ UNCHANGED setup /\ setup[s].resource = "instance"
             /\ cleaning' = [cleaning EXCEPT ![s] = "deleting"]
    <3>1. Written(s, State(s), setup[s].resource)
      BY <1>a, <2>3, Unwritten
    <3>2. OthersRest(s)
      BY <1>a, <2>2, <2>3, RestOfOthers DEF TypeOK
    <3>3. KeptAfter(s, State(s), setup[s].resource)
      BY <2>1, <2>2, <2>3 DEF KeptAfter
    <3>4. PhaseIn(State(s)) = Phase(s) /\ (Published(s)' <=> Published(s))
      BY <2>2 DEF PhaseIn, Phase, Published
    <3>5. Admitted(s, State(s), setup[s].resource)
      BY <3>4 DEF Admitted
    <3> QED BY <3>1, <3>2, <3>3, <3>5, WrittenStep
  <2>4. CASE /\ setup' = [setup EXCEPT ![s].state = "cleanup_pending", ![s].required = TRUE]
             /\ UNCHANGED cleaning
    <3>1. Written(s, "cleanup_pending", setup[s].resource)
      BY <1>a, <2>4, CleanupWrite
    <3>2. OthersRest(s)
      BY <2>2, <2>4, <3>1, RestOfOthers DEF Written
    <3>3. KeptAfter(s, "cleanup_pending", setup[s].resource)
      BY <2>1, <2>2, <2>4 DEF KeptAfter
    <3>4. Phase(s) = "closing" /\ (Published(s)' <=> Published(s))
      BY <2>1, <2>2 DEF Phase, Active, Published
    <3>5. Admitted(s, "cleanup_pending", setup[s].resource)
      BY <1>b, <3>4 DEF Admitted
    <3> QED BY <3>1, <3>2, <3>3, <3>5, WrittenStep
  <2> QED BY <1>1, <2>3, <2>4 DEF BeginCleanup
<1>2. CASE DeleteLands(s)
  <2>1. /\ UNCHANGED <<setup, provision, inventory>>
        /\ \A t \in Setups : t # s => cleaning'[t] = cleaning[t]
        /\ cleaning[s] # "idle"
    BY <1>a, <1>2 DEF DeleteLands, registry, TypeOK
  <2> QED BY <2>1, QuietStep DEF Published
<1>3. ASSUME cleaning[s] # "idle", cleaning' = [cleaning EXCEPT ![s] = "idle"],
             UNCHANGED <<provision, inventory>>
      PROVE  /\ State(s) = "cleanup_pending" /\ setup[s].resource = "instance" /\ Phase(s) = "closing"
             /\ Published(s)' <=> Published(s)
             /\ \A st, res : Written(s, st, res) => OthersRest(s) /\ KeptAfter(s, st, res)
  <2>1. State(s) = "cleanup_pending" /\ setup[s].resource = "instance" /\ Phase(s) = "closing"
    BY <1>3, KnownKept DEF Phase, Active
  <2>2. provision[s] = "idle"
    BY <2>1, Known
  <2>3. \A t \in Setups : t # s => cleaning'[t] = cleaning[t]
    BY <1>a, <1>3 DEF TypeOK
  <2>4. \A st, res : Written(s, st, res) => OthersRest(s)
    BY <1>3, <2>3, RestOfOthers DEF Written
  <2>5. \A st, res : KeptAfter(s, st, res)
    BY <1>a, <1>3, <2>2 DEF KeptAfter, TypeOK
  <2> QED BY <1>3, <2>1, <2>4, <2>5 DEF Published
<1>4. CASE EndCleanup(s)
  <2>1. /\ cleaning[s] # "idle" /\ cleaning' = [cleaning EXCEPT ![s] = "idle"]
        /\ UNCHANGED <<provision, inventory>>
    BY <1>4 DEF EndCleanup, registry
  <2>2. final[s] \in {"expired", "cancelled"} /\ final[s] \in States
    BY <1>a DEF TypeOK
  <2>3. Written(s, final[s], "none")
    BY <1>a, <1>4, <2>2, CleanedWrite DEF EndCleanup
  <2>4. PhaseIn(final[s]) = "closed"
    BY <2>2 DEF PhaseIn, Active
  <2>5. Admitted(s, final[s], "none")
    BY <1>3, <2>1, <2>4 DEF Admitted
  <2> QED BY <1>3, <2>1, <2>3, <2>5, WrittenStep
<1>5. CASE PutOff(s)
  <2>1. /\ cleaning[s] # "idle" /\ cleaning' = [cleaning EXCEPT ![s] = "idle"]
        /\ UNCHANGED <<provision, inventory>>
    BY <1>5 DEF PutOff, registry
  <2>2. Written(s, "cleanup_pending", setup[s].resource)
    BY <1>a, <1>5, CleanupWrite DEF PutOff
  <2>3. Admitted(s, "cleanup_pending", setup[s].resource)
    BY <1>b, <1>3, <2>1 DEF Admitted
  <2> QED BY <1>3, <2>1, <2>2, <2>3, WrittenStep
<1> QED BY <1>1, <1>2, <1>4, <1>5 DEF Cleaning

\* An operator's deletion withdraws at most one connection.
LEMMA EndDeleteStep ==
  ASSUME SetupInv, KeptInv, NEW s \in Setups, Steady(s), EndDelete(s)
  PROVE  KeptInv' /\ [Lifecycle!Next]_Lifecycle!vars
<1>a. TypeOK
  BY Known
<1>1. UNCHANGED <<setup, provision, cleaning>>
  BY DEF EndDelete
<1>2. CASE UNCHANGED inventory
  BY <1>1, <1>2, QuietStep DEF Published
<1>3. CASE inventory' = [inventory EXCEPT ![s] = "none"]
  <2>1. Written(s, State(s), setup[s].resource)
    BY <1>a, <1>1, Unwritten
  <2>2. OthersRest(s)
    BY <1>a, <1>1, <1>3, RestOfOthers DEF TypeOK
  <2>3. KeptAfter(s, State(s), setup[s].resource)
    BY <1>1, KnownKept DEF KeptAfter
  <2>4. PhaseIn(State(s)) = Phase(s) /\ ~Published(s)'
    BY <1>a, <1>3 DEF PhaseIn, Phase, Published, TypeOK
  <2>5. Admitted(s, State(s), setup[s].resource)
    BY <2>4 DEF Admitted
  <2> QED BY <2>1, <2>2, <2>3, <2>5, WrittenStep
<1> QED BY <1>2, <1>3 DEF EndDelete

\* The whole next-state relation.
LEMMA NextLifecycle ==
  ASSUME Overtaking = {}, SetupInv, KeptInv, [Next]_vars
  PROVE  KeptInv' /\ [Lifecycle!Next]_Lifecycle!vars
<1>a. \A s \in Setups : Steady(s)
  BY DEF Steady
<1>1. CASE UNCHANGED <<setup, provision, cleaning, inventory>>
  BY <1>1, QuietStep DEF Published
<1>2. ASSUME NEW s \in Setups, Expire(s) PROVE KeptInv' /\ [Lifecycle!Next]_Lifecycle!vars
  <2>1. UNCHANGED <<provision, cleaning, inventory>>
    BY <1>2 DEF Expire, calls, registry
  <2> QED BY <1>a, <1>2, <2>1, ClosesIdle, CloseStep DEF Expire
<1>3. CASE EndListing
  <2>1. UNCHANGED <<setup, provision, cleaning>>
    BY <1>3 DEF EndListing
  <2>2. \A t \in Setups : Published(t)' <=> Published(t)
    BY <1>3 DEF EndListing, Published
  <2> QED BY <2>1, <2>2, QuietStep
<1>4. CASE Crash
  <2>1. UNCHANGED <<setup, inventory>> /\ \A t \in Setups : provision'[t] = "idle" /\ cleaning'[t] = "idle"
    BY <1>4 DEF Crash, registry
  <2> QED BY <2>1, QuietStep DEF Published
<1> QED
  BY <1>a, <1>1, <1>2, <1>3, <1>4, RequestStep, ProvisioningStep, CleaningStep, EndDeleteStep
  DEF Next, TimePasses, DeleteRuntime, CreateLands, BeginListing, DeleteClient, calls, registry, vars

\* In the beginning there is nothing.
LEMMA InitLifecycle == Init => KeptInv /\ Lifecycle!Init
<1> SUFFICES ASSUME Init PROVE KeptInv /\ Lifecycle!Init
  OBVIOUS
<1>1. KeptInv
  BY DEF Init, AtRest, KeptInv
<1>2. \A s \in Setups : State(s) = "none" /\ setup[s].resource = "none" /\ inventory[s] = "none"
  BY DEF Init, State
<1>3. \A s \in Setups : Phase(s) = "none"
  BY <1>2 DEF Phase, Active
<1> QED BY <1>1, <1>2, <1>3 DEF Lifecycle!Init

\* When no setup is closed during its Evolution call, every setup ends ready, published once, or
\* with nothing left of it: the setups implement the abstract lifecycle.
THEOREM SetupsImplementLifecycle ==
  ASSUME Overtaking = {}
  PROVE  Spec => ImplementsLifecycle
<1>1. SetupInv /\ [Next]_vars => SetupInv'
  BY NextSetupInv
<1>2. SetupInv /\ KeptInv /\ [Next]_vars => KeptInv' /\ [Lifecycle!Next]_Lifecycle!vars
  BY NextLifecycle
<1> QED
  BY <1>1, <1>2, InitSetupInv, InitLifecycle, PTL DEF Spec, ImplementsLifecycle, Lifecycle!Spec
=============================================================================
