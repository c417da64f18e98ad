----------------------- MODULE OutboundAttemptsProofs -----------------------
(***************************************************************************)
(* Proofs about OutboundAttempts, for any set of requests, panel sends and *)
(* resends, any keys, any retention and any number of faults.              *)
(***************************************************************************)
EXTENDS OutboundAttempts, SequenceTheorems, TLAPS

(* What a step does to the attempts and to its call.                       *)

\* What is recorded of an attempt is one.
LEMMA Records ==
  /\ Fresh \in Attempt
  /\ Failed \in Attempt
  /\ Unknown \in Attempt
  /\ \A id \in BOOLEAN : Accepted(id) \in Attempt
BY DEF Fresh, Failed, Unknown, Accepted, Attempt, Delivery

\* A delivery state written into a record.
LEMMA Rewritten ==
  ASSUME NEW r \in Attempt, NEW d \in Delivery
  PROVE  /\ [r EXCEPT !.delivery = d, !.settled = TRUE] \in Attempt
         /\ [r EXCEPT !.delivery = d, !.settled = TRUE].delivery = d
<1>1. [r EXCEPT !.delivery = d, !.settled = TRUE] \in Attempt
  BY DEF Attempt
<1>2. [r EXCEPT !.delivery = d, !.settled = TRUE].delivery = d
  BY DEF Attempt
<1> QED BY <1>1, <1>2

\* An update of two fields is one record written.
LEMMA TwoFields ==
  ASSUME NEW S, NEW T, NEW f \in [S -> T], NEW x \in S, NEW d
  PROVE  [f EXCEPT ![x].delivery = d, ![x].settled = TRUE]
           = [f EXCEPT ![x] = [f[x] EXCEPT !.delivery = d, !.settled = TRUE]]
OBVIOUS

\* A delivery state written into the store.
LEMMA StoreRewritten ==
  ASSUME TypeOK, NEW a \in Calls, NEW d \in Delivery,
         attempt' = [attempt EXCEPT ![a].delivery = d, ![a].settled = TRUE]
  PROVE  attempt' \in [Calls -> Attempt]
<1> DEFINE r == [attempt[a] EXCEPT !.delivery = d, !.settled = TRUE]
<1>1. attempt \in [Calls -> Attempt]
  BY DEF TypeOK
<1>2. r \in Attempt
  BY <1>1, Rewritten
<1>3. attempt' = [attempt EXCEPT ![a] = r]
  BY <1>1, TwoFields
<1> HIDE DEF r
<1> QED BY <1>1, <1>2, <1>3

\* A new attempt: the store stays a sequence of calls.
LEMMA CreateEffect ==
  ASSUME TypeOK, NEW c \in Calls, CreateAndSend(c)
  PROVE  /\ log' \in Seq(Calls)
         /\ attempt' \in [Calls -> Attempt]
         /\ pc' \in [Calls -> {"new", "looking", "sending", "done"}]
         /\ wire' \in SUBSET Calls
<1>1. Append(log, c) \in Seq(Calls)
  BY AppendProperties DEF TypeOK
<1>2. ASSUME ~(Len(log) < Retention) PROVE Append(Tail(log), c) \in Seq(Calls)
  <2>1. log # <<>>
    BY <1>2, EmptySeq, BoundsAssumption
  <2>2. Tail(log) \in Seq(Calls)
    BY <2>1, HeadTailProperties DEF TypeOK
  <2> QED BY <2>2, AppendProperties
<1>3. log' \in Seq(Calls)
  BY <1>1, <1>2 DEF CreateAndSend
<1>4. attempt' \in [Calls -> Attempt]
  BY Records DEF CreateAndSend, TypeOK
<1> QED BY <1>3, <1>4 DEF CreateAndSend, TypeOK

\* How a call ends: its caller is answered, its action is closed, and its attempt
\* is left as it was or takes a record its outcome stands for.
Outcome(c) ==
  {Unknown} \cup {r \in {Failed} : provider[c] = "rejected"}
            \cup {r \in {Accepted(TRUE), Accepted(FALSE)} : provider[c] \notin {"none", "rejected"}}

LEMMA CallStepEffect ==
  ASSUME NEW c \in Calls, CallStep(c)
  PROVE  /\ pc[c] = "sending"
         /\ pc' = [pc EXCEPT ![c] = "done"]
         /\ \E a \in {"accepted", "error"} : answer' = [answer EXCEPT ![c] = a]
         /\ \E status \in {"completed", "failed"} : CloseAction(c, status)
         /\ \/ attempt' = attempt
            \/ \E r \in Outcome(c) : attempt' = [attempt EXCEPT ![c] = r]
         /\ UNCHANGED <<log, source, reconciling, wire, provider>>
         /\ faults' = faults \/ \E kind \in Faults : Fault(kind)
<1>1. CASE Succeeds(c)
  <2>1. PICK id \in BOOLEAN : Finish(c, Accepted(id))
    BY <1>1 DEF Succeeds
  <2>2. Accepted(id) \in Outcome(c)
    BY <1>1 DEF Succeeds, Outcome
  <2>3. \/ attempt' = attempt
        \/ \E r \in Outcome(c) : attempt' = [attempt EXCEPT ![c] = r]
    BY <2>1, <2>2 DEF Finish
  <2> QED BY <1>1, <2>3 DEF Succeeds, Reply, outside
<1>2. CASE Rejected(c)
  <2>1. Failed \in Outcome(c)
    BY <1>2 DEF Rejected, Outcome
  <2> QED BY <1>2, <2>1 DEF Rejected, Finish, Reply, outside
<1>3. CASE Uncertain(c)
  <2>1. Unknown \in Outcome(c)
    BY DEF Outcome
  <2> QED BY <1>3, <2>1 DEF Uncertain, Finish, Reply, outside
<1>4. CASE FinishFails(c)
  BY <1>4 DEF FinishFails, Fault, Reply, store, outside
<1> QED BY <1>1, <1>2, <1>3, <1>4 DEF CallStep

\* An outcome is a record of an attempt.
LEMMA OutcomeIsRecord == \A c \in Calls : Outcome(c) \subseteq Attempt
BY Records DEF Outcome

\* A closed action stays one, and nothing new is being resent.
LEMMA CloseEffect ==
  ASSUME TypeOK, NEW c \in Calls, NEW status \in {"completed", "failed"},
         CloseAction(c, status)
  PROVE  /\ action' \in [Resends -> {"none", "pending", "running", "completed", "failed", "blocked"}]
         /\ inflight' \in SUBSET Calls
BY DEF TypeOK, CloseAction, SetAction

-----------------------------------------------------------------------------
(* Type correctness.                                                       *)

\* The initial state is well typed.
LEMMA InitTypeOK == Init => TypeOK
<1> SUFFICES ASSUME Init PROVE TypeOK
  OBVIOUS
<1>1. log \in Seq(Calls)
  BY EmptySeq DEF Init
<1>2. attempt \in [Calls -> Attempt]
  BY Records DEF Init
<1> QED BY <1>1, <1>2 DEF Init, TypeOK

\* Every step keeps the types.
LEMMA NextTypeOK ==
  ASSUME EvidenceInv, [Next]_vars
  PROVE  TypeOK'
<1>a. TypeOK
  BY DEF EvidenceInv
<1>b. ASSUME NEW kind \in Faults, Fault(kind) PROVE faults' \in Nat
  BY <1>a, <1>b DEF Fault, TypeOK
<1>1. CASE UNCHANGED vars
  BY <1>a, <1>1 DEF TypeOK, vars, store, calls, resend, outside
<1>2. ASSUME NEW r \in Requests, Deliver(r) PROVE TypeOK'
  <2>1. r \in Calls
    BY DEF Calls
  <2>2. CASE CreateAndSend(r) /\ UNCHANGED answer
    BY <1>2, <1>a, <2>1, <2>2, CreateEffect DEF Deliver, TypeOK, resend
  <2>3. ASSUME NEW a \in Calls, Reply(r, DuplicateAnswer(a)), UNCHANGED <<store, wire>>
        PROVE  TypeOK'
    <3>1. DuplicateAnswer(a) \in {"accepted", "conflict"}
      BY DEF DuplicateAnswer
    <3> QED BY <1>2, <1>a, <2>1, <2>3, <3>1 DEF Deliver, Reply, TypeOK, store, resend
  <2>4. \A i \in 1 .. Len(log) : log[i] \in Calls
    BY <1>a, ElementOfSeq DEF TypeOK
  <2> QED BY <1>2, <2>2, <2>3, <2>4 DEF Deliver
<1>3. ASSUME NEW d \in Directs, SendDirect(d) PROVE TypeOK'
  BY <1>3, <1>a, CreateEffect DEF SendDirect, TypeOK, resend, Calls
<1>4. ASSUME NEW c \in Requests \cup Directs, PersistFails(c) PROVE TypeOK'
  BY <1>4, <1>a, <1>b DEF PersistFails, Fault, Reply, TypeOK, store, resend, outside, Calls
<1>5. ASSUME NEW c \in Calls, CallStep(c) PROVE TypeOK'
  <2>1. attempt' \in [Calls -> Attempt]
    BY <1>5, <1>a, CallStepEffect, OutcomeIsRecord DEF TypeOK
  <2>2. /\ action' \in [Resends -> {"none", "pending", "running", "completed", "failed", "blocked"}]
        /\ inflight' \in SUBSET Calls
    BY <1>5, <1>a, CallStepEffect, CloseEffect
  <2>3. faults' \in Nat
    BY <1>5, <1>a, <1>b, CallStepEffect DEF TypeOK
  <2>4. /\ pc' \in [Calls -> {"new", "looking", "sending", "done"}]
        /\ answer' \in [Calls -> {"none", "accepted", "conflict", "blocked", "error"}]
    BY <1>5, <1>a, CallStepEffect DEF TypeOK
  <2> QED BY <1>5, <1>a, <2>1, <2>2, <2>3, <2>4, CallStepEffect DEF TypeOK
<1>6. ASSUME NEW x \in Resends, ResendStep(x) PROVE TypeOK'
  <2>1. x \in Calls
    BY DEF Calls
  <2>2. ASSUME NEW a \in Calls, ResendStart(x, a) PROVE TypeOK'
    BY <1>a, <2>1, <2>2 DEF ResendStart, Reply, TypeOK, store, resend, outside
  <2>3. CASE ResendSend(x)
    BY <1>a, <2>1, <2>3, CreateEffect DEF ResendSend, SetAction, TypeOK
  <2>4. CASE ResendBlocked(x)
    BY <1>a, <2>1, <2>4 DEF ResendBlocked, SetAction, Reply, TypeOK, store, outside
  <2>5. CASE ResendPersistFails(x)
    BY <1>a, <2>1, <2>5, <1>b DEF ResendPersistFails, Fault, SetAction, Reply, TypeOK, store, outside
  <2> QED BY <1>6, <2>2, <2>3, <2>4, <2>5 DEF ResendStep
<1>7. ASSUME NEW a \in Calls, ReconcileStart(a) PROVE TypeOK'
  BY <1>7, <1>a DEF ReconcileStart, TypeOK, store, calls, resend, outside
<1>8. ASSUME NEW a \in Calls, NEW found \in BOOLEAN, ReconcileEnd(a, found) PROVE TypeOK'
  <2>1. PICK observed \in Observed(a) :
          attempt' = IF found /\ a \in Retained /\ attempt[a].known
                       THEN [attempt EXCEPT ![a].delivery = observed, ![a].settled = TRUE]
                       ELSE attempt
    BY <1>8 DEF ReconcileEnd
  <2>2. attempt[a].known => observed \in Delivery
    BY <1>a DEF EvidenceInv, KnownIsTaken, Observed, TypeOK, Delivery
  <2>3. attempt' \in [Calls -> Attempt]
    <3>1. CASE found /\ a \in Retained /\ attempt[a].known
      BY <1>a, <2>1, <2>2, <3>1, StoreRewritten
    <3>2. CASE ~(found /\ a \in Retained /\ attempt[a].known)
      BY <1>a, <2>1, <3>2 DEF TypeOK
    <3> QED BY <3>1, <3>2
  <2> QED BY <1>8, <1>a, <2>3 DEF ReconcileEnd, TypeOK, calls, resend, outside
<1>9. ASSUME NEW c \in Calls, ProviderStep(c) PROVE TypeOK'
  <2>1. CASE ProviderTakes(c)
    BY <1>a, <2>1 DEF ProviderTakes, TypeOK, store, calls, resend
  <2>2. CASE ProviderProgresses(c)
    BY <1>a, <2>2 DEF ProviderProgresses, TypeOK, store, calls, resend
  <2>3. CASE StatusWebhook(c)
    <3>1. PICK status \in Reported(provider[c]) :
            attempt' = [attempt EXCEPT ![c].delivery = status, ![c].settled = TRUE]
      BY <2>3 DEF StatusWebhook
    <3>2. status \in Delivery
      BY DEF Reported, Delivery
    <3>3. attempt' \in [Calls -> Attempt]
      BY <1>a, <3>1, <3>2, StoreRewritten
    <3> QED BY <1>a, <2>3, <3>3 DEF StatusWebhook, TypeOK, calls, resend, outside
  <2> QED BY <1>9, <2>1, <2>2, <2>3 DEF ProviderStep
<1>10. CASE Crash
  BY <1>10, <1>a, <1>b DEF Crash, Fault, TypeOK, store, outside
<1>11. CASE LoseAttempts
  <2>1. log' \in Seq(Calls)
    BY <1>11, EmptySeq DEF LoseAttempts
  <2> QED BY <1>11, <1>a, <2>1 DEF LoseAttempts, Fault, TypeOK, calls, resend, outside
<1>12. CASE LoseActions
  BY <1>12, <1>a DEF LoseActions, Fault, TypeOK, store, calls, outside
<1> QED
  BY <1>1, <1>2, <1>3, <1>4, <1>5, <1>6, <1>7, <1>8, <1>9, <1>10, <1>11, <1>12 DEF Next

-----------------------------------------------------------------------------
(* The evidence for what is recorded.                                      *)

\* A step that records nothing, and lets nobody begin anew.
LEMMA RecordNothing ==
  ASSUME EvidenceInv, TypeOK', UNCHANGED <<attempt, wire, provider>>,
         \A c \in Calls : pc'[c] \in {"new", "looking"} => pc[c] \in {"new", "looking"}
  PROVE  EvidenceInv'
BY DEF EvidenceInv, UnsentIsNotIssued, Issued, TakenOnce, KnownIsTaken, Evidence

\* A send begins.
LEMMA CreateKeeps ==
  ASSUME EvidenceInv, TypeOK', UNCHANGED provider,
         NEW c \in Calls, pc[c] \in {"new", "looking"}, CreateAndSend(c)
  PROVE  EvidenceInv'
<1>1. provider[c] = "none"
  BY DEF EvidenceInv, UnsentIsNotIssued, Issued
<1>2. TakenOnce'
  BY <1>1 DEF EvidenceInv, TakenOnce, CreateAndSend
<1>3. UnsentIsNotIssued'
  BY DEF EvidenceInv, TypeOK, UnsentIsNotIssued, Issued, CreateAndSend
<1>4. \A a \in Calls : attempt'[a] = IF a = c THEN Fresh ELSE attempt[a]
  BY DEF EvidenceInv, TypeOK, CreateAndSend
<1>5. KnownIsTaken'
  BY <1>4 DEF EvidenceInv, KnownIsTaken, Fresh
<1>6. \A a \in Calls : Evidence(a)'
  BY <1>4 DEF EvidenceInv, Evidence, Fresh
<1> QED BY <1>2, <1>3, <1>5, <1>6 DEF EvidenceInv

\* A record of one attempt that agrees with the provider.
LEMMA RecordKeeps ==
  ASSUME EvidenceInv, TypeOK', UNCHANGED <<wire, provider>>,
         \A c \in Calls : pc'[c] \in {"new", "looking"} => pc[c] \in {"new", "looking"},
         NEW a \in Calls, NEW r \in Attempt, attempt' = [attempt EXCEPT ![a] = r],
         r.known => provider[a] \notin {"none", "rejected"},
         r.delivery \in {"accepted", "sent", "delivered", "read"} =>
           provider[a] \notin {"none", "rejected"},
         r.delivery \in {"delivered", "read"} => provider[a] \in {"delivered", "read"},
         r.delivery = "failed" => provider[a] \in {"failed", "rejected"}
  PROVE  EvidenceInv'
<1>1. \A b \in Calls : attempt'[b] = IF b = a THEN r ELSE attempt[b]
  BY DEF EvidenceInv, TypeOK
<1>2. KnownIsTaken'
  BY <1>1 DEF EvidenceInv, KnownIsTaken
<1>3. \A b \in Calls : Evidence(b)'
  BY <1>1 DEF EvidenceInv, Evidence
<1>4. UnsentIsNotIssued' /\ TakenOnce'
  BY DEF EvidenceInv, UnsentIsNotIssued, Issued, TakenOnce
<1> QED BY <1>2, <1>3, <1>4 DEF EvidenceInv

\* The provider moves on: what was recorded of it stays true.
LEMMA ProviderKeeps ==
  ASSUME EvidenceInv, TypeOK', NEW c \in Calls, ProviderTakes(c) \/ ProviderProgresses(c)
  PROVE  EvidenceInv'
<1>1. /\ UNCHANGED <<attempt, pc>>
      /\ wire' \subseteq wire
      /\ \A d \in Calls : d # c => provider'[d] = provider[d]
  BY DEF ProviderTakes, ProviderProgresses, EvidenceInv, TypeOK, store, calls
<1>2. \/ /\ provider[c] = "none"
         /\ c \notin wire'
         /\ c \in wire
         /\ provider'[c] \in {"sent", "rejected"}
      \/ provider[c] = "sent" /\ provider'[c] \in {"delivered", "failed"}
      \/ provider[c] = "delivered" /\ provider'[c] = "read"
  BY DEF ProviderTakes, ProviderProgresses, EvidenceInv, TypeOK, TakenOnce
<1>3. UnsentIsNotIssued'
  BY <1>1, <1>2 DEF EvidenceInv, UnsentIsNotIssued, Issued
<1>4. TakenOnce'
  BY <1>1, <1>2 DEF EvidenceInv, TypeOK, TakenOnce
<1>5. KnownIsTaken'
  BY <1>1, <1>2 DEF EvidenceInv, KnownIsTaken
<1>6. ASSUME NEW a \in Calls PROVE Evidence(a)'
  BY <1>1, <1>2 DEF EvidenceInv, Evidence
<1> QED BY <1>3, <1>4, <1>5, <1>6 DEF EvidenceInv

\* Every step keeps the invariant.
LEMMA NextEvidenceInv == EvidenceInv /\ [Next]_vars => EvidenceInv'
<1> SUFFICES ASSUME EvidenceInv, [Next]_vars PROVE EvidenceInv'
  OBVIOUS
<1>a. TypeOK /\ TypeOK'
  BY NextTypeOK DEF EvidenceInv
<1>1. CASE UNCHANGED <<attempt, pc, wire, provider>>
  BY <1>a, <1>1, RecordNothing
<1>2. ASSUME NEW c \in Calls, pc[c] \in {"new", "looking"}, CreateAndSend(c), UNCHANGED provider
      PROVE  EvidenceInv'
  BY <1>a, <1>2, CreateKeeps
<1>3. ASSUME NEW c \in Calls, pc[c] # "sending", pc' = [pc EXCEPT ![c] = "done"] \/ pc' = [pc EXCEPT ![c] = "looking"],
             UNCHANGED <<attempt, wire, provider>>, pc[c] \in {"new", "looking"}
      PROVE  EvidenceInv'
  BY <1>a, <1>3, RecordNothing DEF TypeOK
<1>4. ASSUME NEW r \in Requests, Deliver(r) PROVE EvidenceInv'
  BY <1>2, <1>3, <1>4 DEF Deliver, Reply, store, Calls
<1>5. ASSUME NEW d \in Directs, SendDirect(d) PROVE EvidenceInv'
  BY <1>2, <1>5 DEF SendDirect, Calls
<1>6. ASSUME NEW c \in Requests \cup Directs, PersistFails(c) PROVE EvidenceInv'
  BY <1>3, <1>6 DEF PersistFails, Reply, store, outside, Calls
<1>7. ASSUME NEW c \in Calls, CallStep(c) PROVE EvidenceInv'
  <2>1. /\ \A d \in Calls : pc'[d] \in {"new", "looking"} => pc[d] \in {"new", "looking"}
        /\ UNCHANGED <<wire, provider>>
    BY <1>a, <1>7, CallStepEffect DEF TypeOK
  <2>2. CASE attempt' = attempt
    BY <1>a, <2>1, <2>2, RecordNothing
  <2>3. ASSUME NEW r \in Outcome(c), attempt' = [attempt EXCEPT ![c] = r] PROVE EvidenceInv'
    <3>1. r \in Attempt
      BY OutcomeIsRecord
    <3>2. /\ r.known => provider[c] \notin {"none", "rejected"}
          /\ r.delivery \in {"accepted", "sent", "delivered", "read"} =>
               provider[c] \notin {"none", "rejected"}
          /\ r.delivery \in {"delivered", "read"} => provider[c] \in {"delivered", "read"}
          /\ r.delivery = "failed" => provider[c] \in {"failed", "rejected"}
      BY DEF Outcome, Unknown, Failed, Accepted
    <3> QED BY <1>a, <2>1, <2>3, <3>1, <3>2, RecordKeeps
  <2> QED BY <1>7, <2>2, <2>3, CallStepEffect
<1>8. ASSUME NEW x \in Resends, ResendStep(x) PROVE EvidenceInv'
  <2>1. x \in Calls
    BY DEF Calls
  <2>2. ASSUME NEW a \in Calls, ResendStart(x, a) PROVE EvidenceInv'
    BY <1>3, <2>1, <2>2 DEF ResendStart, Reply, store, outside
  <2>3. CASE ResendSend(x)
    BY <1>2, <2>1, <2>3 DEF ResendSend
  <2>4. CASE ResendBlocked(x) \/ ResendPersistFails(x)
    BY <1>3, <2>1, <2>4 DEF ResendBlocked, ResendPersistFails, Reply, store, outside
  <2> QED BY <1>8, <2>2, <2>3, <2>4 DEF ResendStep
<1>9. ASSUME NEW a \in Calls, NEW found \in BOOLEAN, ReconcileEnd(a, found) PROVE EvidenceInv'
  <2>1. PICK observed \in Observed(a) :
          attempt' = IF found /\ a \in Retained /\ attempt[a].known
                       THEN [attempt EXCEPT ![a].delivery = observed, ![a].settled = TRUE]
                       ELSE attempt
    BY <1>9 DEF ReconcileEnd
  <2>2. UNCHANGED <<pc, wire, provider>>
    BY <1>9 DEF ReconcileEnd, calls, outside
  <2>3. CASE attempt' = attempt
    BY <1>1, <2>2, <2>3
  <2>4. CASE attempt[a].known /\ attempt' = [attempt EXCEPT ![a].delivery = observed, ![a].settled = TRUE]
    <3> DEFINE r == [attempt[a] EXCEPT !.delivery = observed, !.settled = TRUE]
    <3>1. provider[a] \notin {"none", "rejected"}
      BY <2>4 DEF EvidenceInv, KnownIsTaken
    <3>2. observed \in Delivery
      BY <1>a, <3>1 DEF Observed, TypeOK, Delivery
    <3>3. r \in Attempt /\ r.delivery = observed
      BY <1>a, <3>2, Rewritten DEF TypeOK
    <3>4. attempt' = [attempt EXCEPT ![a] = r]
      BY <1>a, <2>4, TwoFields DEF TypeOK
    <3>5. /\ observed \in {"delivered", "read"} => provider[a] \in {"delivered", "read"}
          /\ observed = "failed" => provider[a] \in {"failed", "rejected"}
      BY DEF Observed
    <3> HIDE DEF r
    <3> QED BY <1>a, <2>2, <3>1, <3>3, <3>4, <3>5, RecordKeeps
  <2> QED BY <2>1, <2>3, <2>4
<1>10. ASSUME NEW c \in Calls, StatusWebhook(c) PROVE EvidenceInv'
  <2>1. PICK status \in Reported(provider[c]) :
          attempt' = [attempt EXCEPT ![c].delivery = status, ![c].settled = TRUE]
    BY <1>10 DEF StatusWebhook
  <2>2. UNCHANGED <<pc, wire, provider>>
    BY <1>10 DEF StatusWebhook, calls, outside
  <2> DEFINE r == [attempt[c] EXCEPT !.delivery = status, !.settled = TRUE]
  <2>3. provider[c] \notin {"none", "rejected"} /\ status \in Delivery
    BY <1>10 DEF Reported, Delivery
  <2>4. r \in Attempt /\ r.delivery = status
    BY <1>a, <2>3, Rewritten DEF TypeOK
  <2>5. attempt' = [attempt EXCEPT ![c] = r]
    BY <1>a, <2>1, TwoFields DEF TypeOK
  <2>6. /\ status \in {"delivered", "read"} => provider[c] \in {"delivered", "read"}
        /\ status = "failed" => provider[c] \in {"failed", "rejected"}
    BY DEF Reported
  <2> HIDE DEF r
  <2> QED BY <1>a, <2>2, <2>3, <2>4, <2>5, <2>6, RecordKeeps
<1>11. CASE Crash
  BY <1>a, <1>11, RecordNothing DEF Crash, TypeOK, store, outside
<1> QED
  BY <1>1, <1>4, <1>5, <1>6, <1>7, <1>8, <1>9, <1>10, <1>11, <1>a, ProviderKeeps
  DEF Next, ProviderStep, ReconcileStart, LoseAttempts, LoseActions,
      vars, store, calls, outside

\* The invariant holds of the empty store.
LEMMA InitEvidenceInv == Init => EvidenceInv
<1> SUFFICES ASSUME Init PROVE EvidenceInv
  OBVIOUS
<1>1. TypeOK
  BY InitTypeOK
<1>2. UnsentIsNotIssued /\ TakenOnce
  BY DEF Init, UnsentIsNotIssued, Issued, TakenOnce
<1>3. KnownIsTaken
  BY DEF Init, KnownIsTaken, Fresh
<1>4. \A a \in Calls : Evidence(a)
  BY DEF Init, Evidence, Fresh
<1> QED BY <1>1, <1>2, <1>3, <1>4 DEF EvidenceInv

-----------------------------------------------------------------------------
(* The guard of resends.                                                   *)

\* What the provider failed stays failed, and nobody is on the wire twice.
LEMMA FailedIsFinal ==
  ASSUME EvidenceInv, [Next]_vars, NEW c \in Calls, provider[c] = "failed"
  PROVE  provider'[c] = "failed"
BY DEF EvidenceInv, TypeOK, TakenOnce, Next, vars, outside, calls, store,
       Deliver, SendDirect, PersistFails, CallStep, Succeeds, Rejected, Uncertain, FinishFails,
       ResendStep, ResendStart, ResendSend, ResendBlocked, ResendPersistFails, ReconcileStart,
       ReconcileEnd, ProviderStep, ProviderTakes, ProviderProgresses, StatusWebhook, Crash,
       LoseAttempts, LoseActions

\* A step by which no resend starts or sends. An action may complete only if
\* nobody else is looking its attempt up.
LEMMA NoResendBegins ==
  ASSUME ResendInv, EvidenceInv, [Next]_vars, UNCHANGED source,
         \A x \in Resends : pc'[x] = pc[x] \/ pc'[x] = "done",
         \A x \in Resends : Resending(x)' => source[x] \in inflight',
         \A x \in Resends : Issued(x)' => Issued(x),
         \A x, y \in Resends : pc'[x] = "looking" /\ action'[y] = "completed" =>
           action[y] = "completed" \/ source[x] # source[y]
  PROVE  ResendInv'
<1>1. \A x \in Resends : Resending(x)' => Resending(x) /\ source'[x] \in inflight'
  BY DEF Resending
<1>2. OneResendAtATime'
  BY <1>1 DEF ResendInv, OneResendAtATime
<1>3. \A x \in Resends : Issued(x)' => source'[x] \in Calls
  BY DEF ResendInv
<1>4. ResentOnlyIfFailed'
  BY <1>3, FailedIsFinal DEF ResendInv, ResentOnlyIfFailed
<1>5. ASSUME NEW x \in Resends, NEW y \in Resends, pc'[x] = "looking", action'[y] = "completed"
      PROVE  source'[x] # source'[y]
  BY <1>5 DEF ResendInv
<1> QED BY <1>1, <1>2, <1>3, <1>4, <1>5 DEF ResendInv

\* A step that leaves the resends and their actions alone.
LEMMA ResendsUnchanged ==
  ASSUME ResendInv, EvidenceInv, [Next]_vars, UNCHANGED <<source, action, inflight>>,
         \A x \in Resends : pc'[x] = pc[x],
         \A x \in Resends : Issued(x)' => Issued(x)
  PROVE  ResendInv'
<1>1. \A x \in Resends : Resending(x)' => source[x] \in inflight'
  BY DEF ResendInv, Resending
<1> QED BY <1>1, NoResendBegins

\* A call that ends lets go of its guard and nobody else's.
LEMMA EndKeeps ==
  ASSUME ResendInv, EvidenceInv, [Next]_vars, UNCHANGED <<source, wire, provider>>,
         NEW c \in Calls, pc' = [pc EXCEPT ![c] = "done"],
         inflight' = IF c \in Resends THEN inflight \ {source[c]} ELSE inflight,
         c \in Resends => Resending(c),
         \A y \in Resends : action'[y] = "completed" => y = c \/ action[y] = "completed"
  PROVE  ResendInv'
<1>a. \A x \in Calls : pc'[x] = IF x = c THEN "done" ELSE pc[x]
  BY DEF EvidenceInv, TypeOK
<1>b. Resends \subseteq Calls
  BY DEF Calls
<1>1. \A x \in Resends : pc'[x] = pc[x] \/ pc'[x] = "done"
  BY <1>a, <1>b
<1>2. ASSUME NEW x \in Resends, Resending(x)' PROVE Resending(x) /\ x # c
  BY <1>2, <1>a, <1>b DEF Resending
<1>3. ASSUME NEW x \in Resends, Resending(x)' PROVE source[x] \in inflight'
  <2>1. c \in Resends => source[x] # source[c]
    BY <1>2, <1>3 DEF ResendInv, OneResendAtATime
  <2> QED BY <1>2, <1>3, <2>1 DEF ResendInv
<1>4. ASSUME NEW x \in Resends, NEW y \in Resends, pc'[x] = "looking", action'[y] = "completed"
      PROVE  action[y] = "completed" \/ source[x] # source[y]
  <2>1. Resending(x)'
    BY <1>4 DEF Resending
  <2> QED BY <1>2, <1>4, <2>1 DEF ResendInv, OneResendAtATime
<1>5. \A x \in Resends : Issued(x)' => Issued(x)
  BY DEF Issued
<1> QED BY <1>1, <1>3, <1>4, <1>5, NoResendBegins

\* A resend starts: the attempt was not being resent, and no other resend of it
\* had completed.
LEMMA ResendStartKeeps ==
  ASSUME ResendInv, EvidenceInv, [Next]_vars, NEW x \in Resends, NEW a \in Calls,
         ResendStart(x, a)
  PROVE  ResendInv'
<1>a. TypeOK /\ x \in Calls /\ Resends \subseteq Calls
  BY DEF EvidenceInv, Calls
<1>b. UNCHANGED <<wire, provider>> /\ pc[x] = "new" /\ ~Issued(x)
  BY <1>a DEF ResendStart, outside, EvidenceInv, UnsentIsNotIssued
<1>1. CASE UNCHANGED <<source, resend>> /\ pc' = [pc EXCEPT ![x] = "done"]
  <2>1. \A y \in Resends : pc'[y] = IF y = x THEN "done" ELSE pc[y]
    BY <1>a, <1>1 DEF TypeOK
  <2>2. \A y \in Resends : Resending(y)' => source[y] \in inflight'
    BY <1>1, <2>1 DEF ResendInv, Resending, resend
  <2> QED BY <1>b, <1>1, <2>1, <2>2, NoResendBegins DEF Issued, resend
<1>2. CASE /\ source' = [source EXCEPT ![x] = a]
           /\ action' = [action EXCEPT ![x] = "blocked"]
           /\ pc' = [pc EXCEPT ![x] = "done"]
           /\ UNCHANGED inflight
  <2>1. \A y \in Resends : /\ y # x => source'[y] = source[y] /\ action'[y] = action[y]
                           /\ y # x => pc'[y] = pc[y]
    BY <1>2
  <2>2. pc'[x] = "done" /\ action'[x] = "blocked"
    BY <1>a, <1>2 DEF TypeOK
  <2>3. ~Resending(x)' /\ \A y \in Resends : y # x => Resending(y)' = Resending(y)
    BY <2>1, <2>2 DEF Resending
  <2>4. \A y \in Resends : Issued(y)' = Issued(y)
    BY <1>b DEF Issued
  <2>5. OneResendAtATime'
    BY <2>1, <2>3 DEF ResendInv, OneResendAtATime
  <2>6. ResentOnlyIfFailed'
    BY <1>b, <2>1, <2>4 DEF ResendInv, ResentOnlyIfFailed
  <2>7. \A y \in Resends : Resending(y)' => source'[y] \in inflight'
    BY <1>2, <2>1, <2>3 DEF ResendInv
  <2>8. \A y \in Resends : Issued(y)' => source'[y] \in Calls
    BY <1>b, <2>1, <2>4 DEF ResendInv
  <2>9. \A y, z \in Resends : pc'[y] = "looking" /\ action'[z] = "completed" => source'[y] # source'[z]
    BY <2>1, <2>2 DEF ResendInv
  <2> QED BY <2>5, <2>6, <2>7, <2>8, <2>9 DEF ResendInv
<1>3. CASE /\ \A y \in Resends : ~(action[y] \in Active /\ source[y] = a)
           /\ a \notin inflight
           /\ source' = [source EXCEPT ![x] = a]
           /\ action' = [action EXCEPT ![x] = "pending"]
           /\ inflight' = inflight \cup {a}
           /\ pc' = [pc EXCEPT ![x] = "looking"]
  <2>1. \A y \in Resends : /\ y # x => source'[y] = source[y] /\ action'[y] = action[y]
                           /\ y # x => pc'[y] = pc[y]
    BY <1>3
  <2>2. pc'[x] = "looking" /\ action'[x] = "pending" /\ source'[x] = a
    BY <1>a, <1>3 DEF TypeOK
  <2>3. \A y \in Resends : y # x => Resending(y)' = Resending(y)
    BY <2>1 DEF Resending
  <2>4. \A y \in Resends : Issued(y)' = Issued(y)
    BY <1>b DEF Issued
  <2>5. \A y \in Resends : Resending(y) => source[y] # a
    BY <1>3 DEF ResendInv
  <2>6. OneResendAtATime'
    BY <2>1, <2>2, <2>3, <2>5 DEF ResendInv, OneResendAtATime
  <2>7. ResentOnlyIfFailed'
    BY <1>b, <2>1, <2>4 DEF ResendInv, ResentOnlyIfFailed
  <2>8. \A y \in Resends : Resending(y)' => source'[y] \in inflight'
    BY <1>3, <2>1, <2>2, <2>3 DEF ResendInv
  <2>9. \A y \in Resends : Issued(y)' => source'[y] \in Calls
    BY <1>b, <2>1, <2>4 DEF ResendInv
  <2>10. \A z \in Resends : action[z] = "completed" => source[z] # a
    BY <1>3 DEF Active
  <2>11. \A y, z \in Resends : pc'[y] = "looking" /\ action'[z] = "completed" => source'[y] # source'[z]
    BY <2>1, <2>2, <2>10 DEF ResendInv
  <2> QED BY <2>6, <2>7, <2>8, <2>9, <2>11 DEF ResendInv
<1> QED BY <1>1, <1>2, <1>3 DEF ResendStart, Reply, BeingResent

\* A resend sends: the provider confirmed that the message failed.
LEMMA ResendSendKeeps ==
  ASSUME ResendInv, EvidenceInv, [Next]_vars, NEW x \in Resends, ResendSend(x)
  PROVE  ResendInv'
<1>a. TypeOK /\ x \in Calls /\ Resends \subseteq Calls
  BY DEF EvidenceInv, Calls
<1>1. /\ UNCHANGED <<source, inflight, provider>>
      /\ pc[x] = "looking"
      /\ pc' = [pc EXCEPT ![x] = "sending"]
      /\ wire' = wire \cup {x}
      /\ provider[source[x]] = "failed"
  BY DEF ResendSend, CreateAndSend, ConfirmedFailed
<1>2. \A y \in Resends : action'[y] = "completed" => action[y] = "completed"
  BY DEF ResendSend, SetAction
<1>3. \A y \in Resends : pc'[y] = IF y = x THEN "sending" ELSE pc[y]
  BY <1>a, <1>1 DEF TypeOK
<1>4. \A y \in Resends : Resending(y)' <=> Resending(y)
  BY <1>1, <1>3 DEF Resending
<1>5. source[x] \in inflight /\ source[x] \in Calls
  BY <1>a, <1>1 DEF ResendInv, Resending, TypeOK
<1>6. \A y \in Resends : Issued(y)' => Issued(y) \/ y = x
  BY <1>1 DEF Issued
<1>7. ResentOnlyIfFailed'
  BY <1>1, <1>6 DEF ResendInv, ResentOnlyIfFailed
<1>8. OneResendAtATime'
  BY <1>1, <1>4 DEF ResendInv, OneResendAtATime
<1>9. \A y, z \in Resends : pc'[y] = "looking" /\ action'[z] = "completed" => source'[y] # source'[z]
  BY <1>1, <1>2, <1>3 DEF ResendInv
<1>10. \A y \in Resends : Resending(y)' => source'[y] \in inflight'
  BY <1>1, <1>4 DEF ResendInv
<1>11. \A y \in Resends : Issued(y)' => source'[y] \in Calls
  BY <1>1, <1>5, <1>6 DEF ResendInv
<1> QED BY <1>7, <1>8, <1>9, <1>10, <1>11 DEF ResendInv

\* Every step keeps the guard.
LEMMA NextResendInv == ResendInv /\ EvidenceInv /\ [Next]_vars => ResendInv'
<1> SUFFICES ASSUME ResendInv, EvidenceInv, [Next]_vars PROVE ResendInv'
  OBVIOUS
<1>a. TypeOK /\ Resends \subseteq Calls /\ Resends \cap (Requests \cup Directs) = {}
  BY CallsAssumption DEF EvidenceInv, Calls
<1>1. CASE UNCHANGED <<source, action, inflight, pc, wire, provider>>
  BY <1>1, ResendsUnchanged DEF Issued
<1>2. ASSUME NEW c \in Requests \cup Directs, UNCHANGED <<source, action, inflight, provider>>,
             \E p : pc' = [pc EXCEPT ![c] = p],
             wire' = wire \/ wire' = wire \cup {c}
      PROVE  ResendInv'
  BY <1>a, <1>2, ResendsUnchanged DEF Issued
<1>3. ASSUME NEW r \in Requests, Deliver(r) PROVE ResendInv'
  BY <1>2, <1>3 DEF Deliver, CreateAndSend, Reply, resend
<1>4. ASSUME NEW d \in Directs, SendDirect(d) PROVE ResendInv'
  BY <1>2, <1>4 DEF SendDirect, CreateAndSend, resend
<1>5. ASSUME NEW c \in Requests \cup Directs, PersistFails(c) PROVE ResendInv'
  BY <1>2, <1>5 DEF PersistFails, Reply, resend, outside
<1>6. ASSUME NEW c \in Calls, CallStep(c) PROVE ResendInv'
  <2>1. PICK status \in {"completed", "failed"} : CloseAction(c, status)
    BY <1>6, CallStepEffect
  <2>2. inflight' = IF c \in Resends THEN inflight \ {source[c]} ELSE inflight
    BY <2>1 DEF CloseAction
  <2>3. \A y \in Resends : action'[y] = "completed" => y = c \/ action[y] = "completed"
    BY <2>1 DEF CloseAction, SetAction
  <2> QED BY <1>6, <2>2, <2>3, CallStepEffect, EndKeeps DEF Resending
<1>7. ASSUME NEW x \in Resends, ResendStep(x) PROVE ResendInv'
  <2>1. CASE ResendBlocked(x) \/ ResendPersistFails(x)
    <3>1. \A y \in Resends : action'[y] = "completed" => action[y] = "completed"
      BY <2>1 DEF ResendBlocked, ResendPersistFails, SetAction
    <3>2. /\ pc[x] = "looking"
          /\ pc' = [pc EXCEPT ![x] = "done"]
          /\ inflight' = inflight \ {source[x]}
          /\ UNCHANGED <<source, wire, provider>>
      BY <2>1 DEF ResendBlocked, ResendPersistFails, Reply, outside
    <3> QED BY <1>a, <3>1, <3>2, EndKeeps DEF Resending
  <2> QED BY <1>7, <2>1, ResendStartKeeps, ResendSendKeeps DEF ResendStep
<1>8. ASSUME NEW c \in Calls, ProviderTakes(c) \/ ProviderProgresses(c) PROVE ResendInv'
  <2>1. UNCHANGED <<source, action, inflight, pc>>
    BY <1>8 DEF ProviderTakes, ProviderProgresses, calls, resend
  <2>2. \A x \in Resends : Issued(x)' => Issued(x)
    BY <1>a, <1>8 DEF ProviderTakes, ProviderProgresses, Issued, TypeOK
  <2> QED BY <2>1, <2>2, ResendsUnchanged
<1>9. CASE Crash
  <2>1. /\ UNCHANGED <<source, action, wire, provider>>
        /\ \A x \in Resends : pc'[x] = pc[x] \/ pc'[x] = "done"
        /\ \A x \in Resends : ~Resending(x)'
    BY <1>a, <1>9 DEF Crash, Resending, TypeOK, outside
  <2> QED BY <2>1, NoResendBegins DEF Issued
<1>10. CASE LoseActions
  <2>1. /\ UNCHANGED <<source, inflight, pc, wire, provider>>
        /\ \A x \in Resends : action'[x] = "none"
    BY <1>10 DEF LoseActions, calls, outside
  <2>2. \A x \in Resends : Resending(x)' => source[x] \in inflight'
    BY <2>1 DEF ResendInv, Resending
  <2> QED BY <2>1, <2>2, NoResendBegins DEF Issued
<1> QED
  BY <1>1, <1>3, <1>4, <1>5, <1>6, <1>7, <1>8, <1>9, <1>10
  DEF Next, ProviderStep, ReconcileStart, ReconcileEnd, StatusWebhook, LoseAttempts,
      vars, calls, resend, outside

\* Nothing is being resent at first.
LEMMA InitResendInv == Init => ResendInv
BY DEF Init, ResendInv, Resending, Issued, OneResendAtATime, ResentOnlyIfFailed, Calls

-----------------------------------------------------------------------------
(* The theorems.                                                           *)

\* EvidenceInv and ResendInv hold in every reachable state.
THEOREM SendingInvariant == Spec => [](EvidenceInv /\ ResendInv)
<1>1. Init => EvidenceInv /\ ResendInv
  BY InitEvidenceInv, InitResendInv
<1>2. EvidenceInv /\ ResendInv /\ [Next]_vars => EvidenceInv' /\ ResendInv'
  BY NextEvidenceInv, NextResendInv
<1> QED BY <1>1, <1>2, PTL DEF Spec

\* The state is well typed, over every fault.
THEOREM SendingTypeCorrect == Spec => []TypeOK
<1>1. EvidenceInv => TypeOK
  BY DEF EvidenceInv
<1> QED BY <1>1, SendingInvariant, PTL

\* What is recorded of a retained attempt agrees with the provider, over late and
\* reordered status webhooks, reconciliations, unknown outcomes and crashes.
THEOREM RecordsAreTrue == Spec => []EvidenceIsTrue
<1>1. EvidenceInv => EvidenceIsTrue
  BY LenProperties DEF EvidenceInv, EvidenceIsTrue, Retained, TypeOK
<1> QED BY <1>1, SendingInvariant, PTL

\* Only what the provider gave up on is sent again.
THEOREM ResendsAreJustified == Spec => []ResentOnlyIfFailed
<1>1. ResendInv => ResentOnlyIfFailed
  BY DEF ResendInv
<1> QED BY <1>1, SendingInvariant, PTL

\* No two resends of one attempt overlap, for any keys and any loss of actions.
THEOREM ResendsDoNotOverlap == Spec => []OneResendAtATime
<1>1. ResendInv => OneResendAtATime
  BY DEF ResendInv
<1> QED BY <1>1, SendingInvariant, PTL

\* A completed resend is the last of its attempt.
THEOREM CompletedResendIsFinal == Spec => CompletedResendIsLast
<1>1. ASSUME EvidenceInv, ResendInv, [Next]_vars, NEW x \in Resends, NEW y \in Resends,
             action[y] = "completed", ~Issued(x), Issued(x)'
      PROVE  source'[x] # source[y]
  <2>a. TypeOK /\ x \in Calls /\ Resends \cap (Requests \cup Directs) = {}
    BY <1>1, CallsAssumption DEF EvidenceInv, Calls
  <2>1. CASE ResendSend(x)
    BY <1>1, <2>1 DEF ResendSend, ResendInv
  <2>2. ASSUME UNCHANGED provider, wire' = wire \/ \E c \in Calls : c # x /\ wire' = wire \cup {c}
        PROVE  FALSE
    BY <1>1, <2>2 DEF Issued
  <2>3. ASSUME NEW c \in Calls, ProviderTakes(c) \/ ProviderProgresses(c) PROVE FALSE
    BY <1>1, <2>a, <2>3 DEF ProviderTakes, ProviderProgresses, Issued, TypeOK
  <2>4. ASSUME NEW c \in Calls, CallStep(c) PROVE FALSE
    BY <2>2, <2>4, CallStepEffect
  <2>5. ASSUME NEW r \in Requests, Deliver(r) PROVE FALSE
    BY <2>a, <2>2, <2>5 DEF Deliver, CreateAndSend, Calls
  <2>6. ASSUME NEW d \in Directs, SendDirect(d) PROVE FALSE
    BY <2>a, <2>2, <2>6 DEF SendDirect, CreateAndSend, Calls
  <2>7. ASSUME NEW z \in Resends, ResendStep(z), ~ResendSend(x) PROVE FALSE
    BY <2>2, <2>7 DEF ResendStep, ResendStart, ResendSend, ResendBlocked, ResendPersistFails,
                      CreateAndSend, outside, Calls
  <2> QED
    BY <1>1, <2>1, <2>2, <2>3, <2>4, <2>5, <2>6, <2>7
    DEF Next, PersistFails, ProviderStep, ReconcileStart, ReconcileEnd, StatusWebhook, Crash,
        LoseAttempts, LoseActions, vars, outside
<1>2. EvidenceInv /\ ResendInv /\ [Next]_vars =>
        [\A x, y \in Resends :
           /\ action[y] = "completed"
           /\ ~Issued(x)
           /\ Issued(x)'
           => source'[x] # source[y]]_vars
  BY <1>1
<1> QED BY <1>2, SendingInvariant, PTL DEF CompletedResendIsLast, Spec

\* A key that is retained lets no other request reach the provider.
THEOREM KeysAreHonoured == Spec => OneSendPerKey
<1>1. ASSUME EvidenceInv, [Next]_vars, NEW r \in Requests, NEW s \in Requests,
             r # s, KeyOf[r] = KeyOf[s], r \in Retained, Issued(s)'
      PROVE  Issued(s)
  <2>a. TypeOK /\ s \in Calls /\ Requests \cap (Resends \cup Directs) = {}
    BY <1>1, CallsAssumption DEF EvidenceInv, Calls
  <2>1. ASSUME UNCHANGED provider, wire' = wire \/ \E c \in Calls : c # s /\ wire' = wire \cup {c}
        PROVE  Issued(s)
    BY <1>1, <2>1 DEF Issued
  <2>2. ASSUME NEW c \in Calls, ProviderTakes(c) \/ ProviderProgresses(c) PROVE Issued(s)
    BY <1>1, <2>a, <2>2 DEF ProviderTakes, ProviderProgresses, Issued, TypeOK
  <2>3. ASSUME NEW c \in Calls, CallStep(c) PROVE Issued(s)
    BY <2>1, <2>3, CallStepEffect
  <2>4. ASSUME NEW q \in Requests, Deliver(q) PROVE Issued(s)
    <3>1. SameScope(r, s)
      BY <1>1 DEF SameScope
    <3>2. q = s => UNCHANGED wire
      BY <1>1, <2>4, <3>1 DEF Deliver
    <3> QED BY <2>1, <2>4, <3>2 DEF Deliver, CreateAndSend, Calls
  <2>5. ASSUME NEW d \in Directs, SendDirect(d) PROVE Issued(s)
    BY <2>a, <2>1, <2>5 DEF SendDirect, CreateAndSend, Calls
  <2>6. ASSUME NEW x \in Resends, ResendStep(x) PROVE Issued(s)
    BY <2>a, <2>1, <2>6 DEF ResendStep, ResendStart, ResendSend, ResendBlocked,
                            ResendPersistFails, CreateAndSend, outside, Calls
  <2> QED
    BY <1>1, <2>1, <2>2, <2>3, <2>4, <2>5, <2>6
    DEF Next, PersistFails, ProviderStep, ReconcileStart, ReconcileEnd, StatusWebhook, Crash,
        LoseAttempts, LoseActions, vars, outside
<1>2. EvidenceInv /\ [Next]_vars =>
        [\A r, s \in Requests :
           /\ r # s
           /\ KeyOf[r] = KeyOf[s]
           /\ r \in Retained
           /\ Issued(s)'
           => Issued(s)]_vars
  BY <1>1
<1> QED BY <1>2, SendingInvariant, PTL DEF OneSendPerKey, Spec
-----------------------------------------------------------------------------
(* The calls keep what the ledger promises.                                *)

\* What the ledger knows of the calls, of who holds what, and of what was sent again.
Messages == [c \in Calls |-> Message(c)]
Answers == [c \in Requests \cup Directs |-> Told(c)]
Holding == {<<x, source[x]>> : x \in {y \in Resends : Resending(y)}}
SentAgain == {source[x] : x \in {y \in Resends : action[y] = "completed"}}

\* The invariants together.
SendInv == EvidenceInv /\ ResendInv /\ AnsweredWhenDone

\* What they say of one call.
LEMMA SendKnown ==
  ASSUME SendInv
  PROVE  /\ TypeOK /\ Retained \subseteq Calls
         /\ Resends \subseteq Calls /\ Resends \cap (Requests \cup Directs) = {}
         /\ \A c \in Calls : pc[c] \in {"new", "looking"} => Message(c) = "unsent" /\ provider[c] = "none"
         /\ \A c \in Calls : pc[c] # "done" => answer[c] = "none"
         /\ \A x \in Resends : pc[x] # "done" => action[x] # "completed"
         /\ \A x \in Resends : Resending(x) => source[x] \in Calls /\ source[x] \in inflight
<1>1. TypeOK
  BY DEF SendInv, EvidenceInv
<1>2. Retained \subseteq Calls
  BY <1>1, ElementOfSeq DEF TypeOK, Retained
<1>3. \A c \in Calls : pc[c] \in {"new", "looking"} => Message(c) = "unsent" /\ provider[c] = "none"
  <2>1. \A c \in Calls : pc[c] \in {"new", "looking"} => ~Issued(c)
    BY DEF SendInv, EvidenceInv, UnsentIsNotIssued
  <2>2. \A c \in Calls : ~Issued(c) => Message(c) = "unsent"
    BY DEF Message, Issued
  <2> QED BY <2>1, <2>2 DEF Issued
<1>4. \A x \in Resends : Resending(x) => source[x] \in Calls /\ source[x] \in inflight
  BY <1>1 DEF SendInv, ResendInv, TypeOK
<1>5. Resends \subseteq Calls /\ Resends \cap (Requests \cup Directs) = {}
  BY CallsAssumption DEF Calls
<1> QED BY <1>1, <1>2, <1>3, <1>4, <1>5 DEF SendInv, AnsweredWhenDone

\* What stays the same if what it is made of does.
LEMMA SameLedger ==
  /\ UNCHANGED <<wire, provider>> => UNCHANGED Messages
  /\ UNCHANGED log => UNCHANGED Retained
  /\ (\A c \in Requests \cup Directs : answer'[c] = answer[c]) => UNCHANGED Answers
  /\ (\A x \in Resends : (Resending(x)' <=> Resending(x)) /\ (Resending(x) => source'[x] = source[x]))
       => UNCHANGED Holding
  /\ (\A x \in Resends : /\ action'[x] = "completed" <=> action[x] = "completed"
                         /\ action[x] = "completed" => source'[x] = source[x])
       => UNCHANGED SentAgain
<1>1. UNCHANGED <<wire, provider>> => UNCHANGED Messages
  BY DEF Messages, Message, Issued
<1>2. UNCHANGED log => UNCHANGED Retained
  BY DEF Retained
<1>3. (\A c \in Requests \cup Directs : answer'[c] = answer[c]) => UNCHANGED Answers
  BY DEF Answers, Told
<1>4. ASSUME \A x \in Resends : (Resending(x)' <=> Resending(x)) /\ (Resending(x) => source'[x] = source[x])
      PROVE  UNCHANGED Holding
  BY <1>4 DEF Holding
<1>5. ASSUME \A x \in Resends : /\ action'[x] = "completed" <=> action[x] = "completed"
                                /\ action[x] = "completed" => source'[x] = source[x]
      PROVE  UNCHANGED SentAgain
  BY <1>5 DEF SentAgain
<1> QED BY <1>1, <1>2, <1>3, <1>4, <1>5

\* A step that is none of the ledger's.
LEMMA NothingNew ==
  ASSUME UNCHANGED <<Messages, Retained, Answers, Holding, SentAgain>>
  PROVE  UNCHANGED Ledger!vars
BY DEF Ledger!vars, Messages, Answers, Holding, SentAgain

\* A new attempt is retained, and at most displaces others.
LEMMA CreateRetains ==
  ASSUME TypeOK, NEW c \in Calls, CreateAndSend(c)
  PROVE  c \in Retained' /\ Retained' \subseteq Retained \cup {c}
<1>1. log \in Seq(Calls) /\ Len(log) \in Nat
  BY LenProperties DEF TypeOK
<1>2. CASE log' = Append(log, c)
  <2>1. /\ Len(log') = Len(log) + 1
        /\ \A i \in 1 .. Len(log) + 1 : log'[i] = IF i = Len(log) + 1 THEN c ELSE log[i]
    BY <1>1, <1>2, AppendProperties
  <2> QED BY <1>1, <2>1 DEF Retained
<1>3. CASE log' = Append(Tail(log), c) /\ ~(Len(log) < Retention)
  <2> DEFINE t == Tail(log)  n == Len(log)
  <2>1. log # <<>>
    BY <1>3, EmptySeq, BoundsAssumption
  <2>2. t \in Seq(Calls) /\ Len(t) = n - 1 /\ \A i \in 1 .. Len(t) : t[i] = log[i + 1]
    BY <1>1, <2>1, HeadTailProperties
  <2>3. n \in Nat /\ n > 0 /\ log' = Append(t, c)
    BY <1>1, <1>3, <2>1, EmptySeq
  <2>4. Retained = {log[i] : i \in 1 .. n}
    BY DEF Retained
  <2> HIDE DEF t, n
  <2>5. /\ Len(log') = n
        /\ \A i \in 1 .. n : log'[i] = IF i = n THEN c ELSE t[i]
    <3>1. Len(Append(t, c)) = Len(t) + 1
      BY <2>2, AppendProperties
    <3>2. \A i \in 1 .. Len(t) + 1 : Append(t, c)[i] = IF i = Len(t) + 1 THEN c ELSE t[i]
      BY <2>2, AppendProperties
    <3> QED BY <2>2, <2>3, <3>1, <3>2
  <2>6. \A i \in 1 .. n : log'[i] = IF i = n THEN c ELSE log[i + 1]
    BY <2>2, <2>3, <2>5
  <2>7. Retained' = {log'[i] : i \in 1 .. n}
    BY <2>5 DEF Retained
  <2>8. n \in 1 .. n
    BY <2>3
  <2>9. ASSUME NEW i \in 1 .. n PROVE log'[i] \in Retained \cup {c}
    <3>1. i = n \/ i + 1 \in 1 .. n
      BY <2>3
    <3> QED BY <2>4, <2>6, <3>1
  <2>10. log'[n] = c
    BY <2>6, <2>8
  <2> QED BY <2>7, <2>8, <2>9, <2>10
<1> QED BY <1>2, <1>3 DEF CreateAndSend

\* A call is sent.
LEMMA SendingStep ==
  ASSUME SendInv, NEW c \in Calls, CreateAndSend(c), UNCHANGED <<provider, answer, source>>,
         c \in Resends => pc[c] = "looking" /\ ConfirmedFailed(c) /\ SetAction(c, "running"),
         c \notin Resends => pc[c] = "new" /\ UNCHANGED action,
         c \in Requests => \A a \in Retained : ~SameScope(a, c)
  PROVE  Ledger!Next
<1>1. /\ TypeOK /\ pc[c] \in {"new", "looking"} /\ Message(c) = "unsent" /\ provider[c] = "none"
      /\ answer[c] = "none" /\ Resends \subseteq Calls /\ Resends \cap (Requests \cup Directs) = {}
  BY SendKnown
<1>2. c \in Retained' /\ Retained' \subseteq Retained \cup {c}
  BY <1>1, CreateRetains
<1>3. Messages' = [Messages EXCEPT ![c] = "sent"] /\ Messages[c] = "unsent"
  <2>1. wire' = wire \cup {c} /\ provider' = provider
    BY DEF CreateAndSend
  <2>2. \A d \in Calls : Message(d)' = IF d = c THEN "sent" ELSE Message(d)
    BY <1>1, <2>1 DEF Message, Issued
  <2> QED BY <1>1, <2>2 DEF Messages
<1>4. pc' = [pc EXCEPT ![c] = "sending"]
  BY DEF CreateAndSend
<1>5. UNCHANGED Answers
  BY SameLedger
<1>6. UNCHANGED Holding
  <2>1. \A x \in Resends : (Resending(x)' <=> Resending(x))
    BY <1>1, <1>4 DEF Resending, TypeOK
  <2> QED BY <2>1, SameLedger
<1>7. UNCHANGED SentAgain
  <2>1. c \in Resends => action[c] # "completed"
    BY SendKnown
  <2>2. \A x \in Resends : action'[x] = "completed" <=> action[x] = "completed"
    BY <2>1 DEF SetAction
  <2> QED BY <2>2, SameLedger
<1>8. c \in Requests => Told(c) = "nothing" /\ Ledger!Same(c) \cap Retained = {}
  BY <1>1 DEF Told, Ledger!Same, SameScope
<1>9. c \in Resends => \E m \in Calls \ SentAgain : <<c, m>> \in Holding /\ Message(m) = "lost"
  <2> SUFFICES ASSUME c \in Resends PROVE \E m \in Calls \ SentAgain : <<c, m>> \in Holding /\ Message(m) = "lost"
    OBVIOUS
  <2>1. Resending(c) /\ source[c] \in Calls
    BY SendKnown DEF Resending
  <2>2. Message(source[c]) = "lost"
    BY DEF ConfirmedFailed, Message, Issued
  <2>3. source[c] \notin SentAgain
    BY DEF SendInv, ResendInv, SentAgain
  <2> QED BY <2>1, <2>2, <2>3 DEF Holding
<1>10. c \in Requests => Answers[c] = "nothing"
  BY <1>8 DEF Answers
<1>11. \A m \in Calls : Messages[m] = Message(m)
  BY DEF Messages
<1>12. Ledger!Calls = Calls
  BY DEF Ledger!Calls, Calls
<1>13. c \in Resends => \E m \in Ledger!Calls \ SentAgain : <<c, m>> \in Holding /\ Messages[m] = "lost"
  BY <1>9, <1>11, <1>12
<1>14. Ledger!Send(c)
  BY <1>2, <1>3, <1>5, <1>6, <1>7, <1>8, <1>10, <1>13
  DEF Ledger!Send, Messages, Answers, Holding, SentAgain
<1> QED BY <1>12, <1>14 DEF Ledger!Next


\* A caller is answered.
LEMMA AnsweringStep ==
  ASSUME SendInv, NEW c \in Requests \cup Directs, NEW a \in {"accepted", "conflict", "error"},
         pc[c] # "done", Reply(c, a), UNCHANGED <<log, wire, provider, source>>,
         \A x \in Resends : action'[x] = "completed" <=> action[x] = "completed",
         a = "accepted" => \E r \in Ledger!Same(c) : Message(r) \in {"taken", "lost"}
  PROVE  Ledger!Next
<1>1. /\ TypeOK /\ c \in Calls /\ answer[c] = "none" /\ c \notin Resends /\ Resends \subseteq Calls
  BY SendKnown DEF Calls
<1>2. Answers' = [Answers EXCEPT ![c] = IF a = "accepted" THEN "accepted" ELSE "refused"]
  <2>1. \A d \in Requests \cup Directs : answer'[d] = IF d = c THEN a ELSE answer[d]
    BY <1>1 DEF Reply, TypeOK, Calls
  <2>2. \A d \in Requests \cup Directs :
          Told(d)' = IF d = c THEN (IF a = "accepted" THEN "accepted" ELSE "refused") ELSE Told(d)
    BY <2>1 DEF Told
  <2> QED BY <2>2 DEF Answers
<1>3. Answers[c] = "nothing"
  BY <1>1 DEF Answers, Told
<1>4. UNCHANGED <<Messages, Retained, SentAgain>>
  BY SameLedger
<1>5. UNCHANGED Holding
  <2>1. \A x \in Resends : pc'[x] = pc[x]
    BY <1>1 DEF Reply, TypeOK
  <2>2. \A x \in Resends : Resending(x)' <=> Resending(x)
    BY <2>1 DEF Resending
  <2> QED BY <2>2, SameLedger
<1>6. a = "accepted" => \E r \in Ledger!Same(c) : Messages[r] \in {"taken", "lost"}
  <2>1. Ledger!Same(c) \subseteq Calls
    BY <1>1 DEF Ledger!Same, Calls
  <2> QED BY <2>1 DEF Messages
<1>7. Ledger!Tell(c)
  BY <1>2, <1>3, <1>4, <1>5, <1>6 DEF Ledger!Tell, Messages, Answers, Holding, SentAgain
<1> QED BY <1>7 DEF Ledger!Next

\* A resend lets go of its message.
LEMMA ReleasingStep ==
  ASSUME SendInv, NEW x \in Resends, Resending(x), pc' = [pc EXCEPT ![x] = "done"],
         \A c \in Requests \cup Directs : answer'[c] = answer[c],
         UNCHANGED <<log, wire, provider, source>>,
         NEW status \in {"running", "blocked", "failed", "completed"}, SetAction(x, status),
         status = "completed" => Message(x) \in {"taken", "lost"}
  PROVE  Ledger!Next
<1>1. TypeOK /\ x \in Calls /\ Resends \subseteq Calls /\ action[x] # "completed"
  BY SendKnown DEF Resending
<1>2. UNCHANGED <<Messages, Retained, Answers>>
  BY SameLedger
<1>3. <<x, source[x]>> \in Holding
  BY DEF Holding
<1>4. Holding' = Holding \ {<<x, source[x]>>}
  <2>1. \A y \in Resends : Resending(y)' <=> (Resending(y) /\ y # x)
    BY <1>1 DEF Resending, TypeOK
  <2> QED BY <2>1 DEF Holding
<1>5. SentAgain' = SentAgain \/ (status = "completed" /\ SentAgain' = SentAgain \cup {source[x]})
  <2>1. CASE status = "completed" /\ action[x] # "none"
    <3>1. \A y \in Resends : action'[y] = "completed" <=> (action[y] = "completed" \/ y = x)
      BY <2>1 DEF SetAction
    <3> QED BY <2>1, <3>1 DEF SentAgain
  <2>2. CASE ~(status = "completed" /\ action[x] # "none")
    <3>1. \A y \in Resends : action'[y] = "completed" <=> action[y] = "completed"
      BY <2>2, <1>1 DEF SetAction
    <3> QED BY <3>1, SameLedger
  <2> QED BY <2>1, <2>2
<1>6. Messages[x] = Message(x)
  BY <1>1 DEF Messages
<1>7. PICK pair \in Holding : pair = <<x, source[x]>>
  BY <1>3
<1>8. Ledger!Release(pair)
  BY <1>2, <1>4, <1>5, <1>6, <1>7 DEF Ledger!Release, Messages, Answers, Holding, SentAgain
<1> QED BY <1>7, <1>8 DEF Ledger!Next, Holding

\* A resend begins: it holds its message, or is turned away.
LEMMA HoldingStep ==
  ASSUME SendInv, NEW x \in Resends, NEW a \in Calls, ResendStart(x, a)
  PROVE  [Ledger!Next]_Ledger!vars
<1>1. /\ TypeOK /\ x \in Calls /\ x \notin Requests \cup Directs /\ Resends \subseteq Calls
      /\ pc[x] = "new" /\ Message(x) = "unsent" /\ action[x] # "completed" /\ ~Resending(x)
  BY SendKnown DEF ResendStart, Resending
<1>2. UNCHANGED <<log, wire, provider>>
  BY DEF ResendStart, store, outside
<1>3. \A c \in Requests \cup Directs : answer'[c] = answer[c]
  BY <1>1 DEF ResendStart, Reply, TypeOK, Calls
<1>4. UNCHANGED <<Messages, Retained, Answers>>
  BY <1>2, <1>3, SameLedger
<1>5. CASE /\ pc' = [pc EXCEPT ![x] = "done"] /\ \A y \in Resends \ {x} : source'[y] = source[y]
           /\ \A y \in Resends : action'[y] = "completed" <=> action[y] = "completed"
  <2>1. \A y \in Resends : Resending(y)' <=> Resending(y)
    BY <1>1, <1>5 DEF Resending, TypeOK
  <2>2. UNCHANGED <<Holding, SentAgain>>
    BY <1>1, <1>5, <2>1, SameLedger
  <2> QED BY <1>4, <2>2, NothingNew
<1>6. CASE /\ source' = [source EXCEPT ![x] = a] /\ ~BeingResent(a)
           /\ action' = [action EXCEPT ![x] = "pending"]
           /\ pc' = [pc EXCEPT ![x] = "looking"]
           /\ {y \in Resends : action[y] \in Active /\ source[y] = a} = {}
  <2>1. /\ source'[x] = a /\ \A y \in Resends \ {x} : source'[y] = source[y]
        /\ \A y \in Resends : action'[y] = "completed" <=> action[y] = "completed"
    BY <1>1, <1>6 DEF TypeOK
  <2>2. UNCHANGED SentAgain
    BY <1>1, <2>1, SameLedger
  <2>3. \A y \in Resends : Resending(y)' <=> (Resending(y) \/ y = x)
    BY <1>1, <1>6 DEF Resending, TypeOK
  <2>4. Holding' = Holding \cup {<<x, a>>}
    BY <1>1, <2>1, <2>3 DEF Holding
  <2>5. \A pair \in Holding : pair[1] # x /\ pair[2] # a
    BY <1>1, <1>6, SendKnown DEF Holding, BeingResent
  <2>6. a \notin SentAgain
    BY <1>6 DEF SentAgain, Active
  <2>7. Messages[x] = "unsent"
    BY <1>1 DEF Messages
  <2>8. Ledger!Hold(x, a)
    BY <1>4, <2>2, <2>4, <2>5, <2>6, <2>7 DEF Ledger!Hold, Messages, Answers, Holding, SentAgain
  <2>9. a \in Ledger!Calls
    BY DEF Ledger!Calls, Calls
  <2> QED BY <2>8, <2>9 DEF Ledger!Next
<1>7. \/ Reply(x, "accepted") /\ UNCHANGED <<source, resend>>
      \/ Reply(x, "conflict") /\ UNCHANGED <<source, resend>>
      \/ /\ Reply(x, "conflict") /\ source' = [source EXCEPT ![x] = a]
         /\ action' = [action EXCEPT ![x] = "blocked"]
      \/ /\ source' = [source EXCEPT ![x] = a] /\ ~BeingResent(a)
         /\ action' = [action EXCEPT ![x] = "pending"]
         /\ pc' = [pc EXCEPT ![x] = "looking"]
         /\ {y \in Resends : action[y] \in Active /\ source[y] = a} = {}
  BY DEF ResendStart
<1>8. ASSUME Reply(x, "accepted") \/ Reply(x, "conflict"), UNCHANGED <<source, resend>>
      PROVE  [Ledger!Next]_Ledger!vars
  BY <1>5, <1>8 DEF Reply, resend
<1>9. ASSUME Reply(x, "conflict"), source' = [source EXCEPT ![x] = a], action' = [action EXCEPT ![x] = "blocked"]
      PROVE  [Ledger!Next]_Ledger!vars
  <2>1. /\ \A y \in Resends \ {x} : source'[y] = source[y]
        /\ \A y \in Resends : action'[y] = "completed" <=> action[y] = "completed"
    BY <1>1, <1>9 DEF TypeOK
  <2> QED BY <1>5, <1>9, <2>1 DEF Reply
<1> QED BY <1>6, <1>7, <1>8, <1>9


\* The provider takes a message or gives it up; what else it does is not told apart.
LEMMA ProviderSteps ==
  ASSUME SendInv, NEW c \in Calls, ProviderTakes(c) \/ ProviderProgresses(c)
  PROVE  [Ledger!Next]_Ledger!vars
<1>1. TypeOK
  BY SendKnown
<1>2. UNCHANGED <<log, attempt, pc, answer, source, action, inflight>>
  BY DEF ProviderTakes, ProviderProgresses, store, calls, resend
<1>3. UNCHANGED <<Retained, Answers, Holding, SentAgain>>
  BY <1>2, SameLedger DEF Resending
<1>4. \/ Message(c) = "sent" /\ Message(c)' \in {"sent", "taken"}
      \/ Message(c) = "taken" /\ Message(c)' \in {"taken", "lost"}
  <2>1. CASE ProviderTakes(c)
    <3>1. c \in wire /\ provider[c] = "none" /\ provider'[c] \in {"sent", "rejected"}
      BY <1>1, <2>1 DEF ProviderTakes, SendInv, EvidenceInv, TakenOnce, TypeOK
    <3> QED BY <3>1 DEF Message, Issued
  <2>2. CASE ProviderProgresses(c)
    <3>1. \/ provider[c] = "sent" /\ provider'[c] \in {"delivered", "failed"}
          \/ provider[c] = "delivered" /\ provider'[c] = "read"
      BY <1>1, <2>2 DEF ProviderProgresses, TypeOK
    <3> QED BY <3>1 DEF Message, Issued
  <2> QED BY <2>1, <2>2
<1>5. \A d \in Calls \ {c} : Message(d)' = Message(d)
  <2>1. \A d \in Calls \ {c} : provider'[d] = provider[d] /\ (d \in wire' <=> d \in wire)
    BY <1>1 DEF ProviderTakes, ProviderProgresses, TypeOK
  <2> QED BY <2>1 DEF Message, Issued
<1>6. Messages[c] = Message(c) /\ Messages' = [Messages EXCEPT ![c] = Message(c)']
  <2> DEFINE m == Message(c)'
  <2>1. \A d \in Calls : Message(d)' = IF d = c THEN m ELSE Message(d)
    BY <1>5
  <2> HIDE DEF m
  <2>2. Messages' = [Messages EXCEPT ![c] = m]
    BY <2>1 DEF Messages
  <2> QED BY <2>2 DEF m, Messages
<1>7. CASE Message(c)' = Message(c)
  <2>1. UNCHANGED Messages
    BY <1>6, <1>7 DEF Messages
  <2> QED BY <1>3, <2>1, NothingNew
<1>8. CASE Message(c)' # Message(c)
  <2>1. Ledger!Progress(c)
    BY <1>3, <1>4, <1>6, <1>8 DEF Ledger!Progress, Messages, Answers, Holding, SentAgain
  <2>2. c \in Ledger!Calls
    BY DEF Ledger!Calls, Calls
  <2> QED BY <2>1, <2>2 DEF Ledger!Next
<1> QED BY <1>7, <1>8

\* A process dies, or a file cannot be read: what was promised is at most forgotten.
LEMMA LosingSteps ==
  ASSUME SendInv, Crash \/ LoseAttempts \/ LoseActions
  PROVE  Ledger!Next
<1>1. TypeOK /\ Resends \subseteq Calls
  BY SendKnown
<1>2. UNCHANGED <<Messages, Answers>>
  BY SameLedger DEF Crash, LoseAttempts, LoseActions, outside, calls
<1>3. Retained' \subseteq Retained
  BY SameLedger DEF Crash, LoseAttempts, LoseActions, store, Retained
<1>4. Holding' \subseteq Holding
  <2>1. CASE Crash
    <3>1. \A x \in Resends : ~Resending(x)'
      BY <1>1, <2>1 DEF Crash, Resending
    <3> QED BY <3>1 DEF Holding
  <2>2. CASE LoseAttempts \/ LoseActions
    BY <2>2, SameLedger DEF LoseAttempts, LoseActions, calls, Resending
  <2> QED BY <2>1, <2>2
<1>5. SentAgain' \subseteq SentAgain
  <2>1. CASE Crash \/ LoseAttempts
    BY <2>1, SameLedger DEF Crash, LoseAttempts, calls, resend
  <2>2. CASE LoseActions
    BY <2>2 DEF LoseActions, SentAgain
  <2> QED BY <2>1, <2>2
<1>6. Ledger!Lose
  BY <1>2, <1>3, <1>4, <1>5 DEF Ledger!Lose, Messages, Answers, Holding, SentAgain
<1> QED BY <1>6 DEF Ledger!Next

\* A request to the canonical endpoint is sent, or answered from the record of its key.
LEMMA DeliverSteps ==
  ASSUME SendInv, NEW r \in Requests, Deliver(r)
  PROVE  Ledger!Next
<1>1. /\ r \in Calls /\ r \notin Resends /\ pc[r] = "new" /\ TypeOK
      /\ UNCHANGED <<source, action, provider>>
  BY SendKnown DEF Deliver, Calls, resend
<1>2. CASE CreateAndSend(r) /\ UNCHANGED answer /\ \A a \in Retained : ~SameScope(a, r)
  BY <1>1, <1>2, SendingStep
<1>3. ASSUME NEW i \in 1 .. Len(log), SameScope(log[i], r), Reply(r, DuplicateAnswer(log[i])), UNCHANGED <<store, wire>>
      PROVE  Ledger!Next
  <2>1. DuplicateAnswer(log[i]) \in {"accepted", "conflict"}
    BY DEF DuplicateAnswer
  <2>2. PICK a \in {"accepted", "conflict", "error"} : a = DuplicateAnswer(log[i])
    BY <2>1
  <2>3. Reply(r, a) /\ UNCHANGED log
    BY <1>3, <2>2 DEF Reply, store
  <2>4. a = "accepted" => \E q \in Ledger!Same(r) : Message(q) \in {"taken", "lost"}
    <3> SUFFICES ASSUME a = "accepted" PROVE Message(log[i]) \in {"taken", "lost"} /\ log[i] \in Ledger!Same(r)
      OBVIOUS
    <3>1. log[i] \in Calls
      BY SendKnown DEF Retained
    <3>2. attempt[log[i]].delivery = "accepted"
      BY <2>2 DEF DuplicateAnswer
    <3>3. provider[log[i]] \notin {"none", "rejected"}
      BY <3>1, <3>2 DEF SendInv, EvidenceInv, Evidence
    <3>4. provider[log[i]] \in {"none", "rejected", "sent", "delivered", "read", "failed"}
      BY <1>1, <3>1 DEF TypeOK
    <3>5. Message(log[i]) \in {"taken", "lost"}
      BY <3>3, <3>4 DEF Message
    <3> QED BY <1>3, <3>5 DEF Ledger!Same, SameScope
  <2> QED BY <1>1, <1>3, <2>3, <2>4, AnsweringStep
<1> QED BY <1>2, <1>3 DEF Deliver

\* A call ends: its caller is told what the provider did, or the resend is closed.
LEMMA EndingSteps ==
  ASSUME SendInv, NEW c \in Calls, CallStep(c)
  PROVE  Ledger!Next
<1>1. TypeOK /\ Resends \cap (Requests \cup Directs) = {} /\ Resends \subseteq Calls
  BY SendKnown
<1>2. /\ pc[c] = "sending" /\ pc' = [pc EXCEPT ![c] = "done"]
      /\ UNCHANGED <<log, source, wire, provider>>
  BY CallStepEffect
<1>3. PICK a \in {"accepted", "error"}, status \in {"completed", "failed"} :
        /\ Reply(c, a) /\ SetAction(c, status)
        /\ a = "accepted" \/ status = "completed" => provider[c] \notin {"none", "rejected"}
  <2>1. CASE Succeeds(c)
    BY <2>1 DEF Succeeds, CloseAction
  <2>2. CASE Rejected(c) \/ Uncertain(c) \/ FinishFails(c)
    BY <2>2 DEF Rejected, Uncertain, FinishFails, CloseAction
  <2> QED BY <2>1, <2>2 DEF CallStep
<1>4. a = "accepted" \/ status = "completed" => Message(c) \in {"taken", "lost"}
  <2>1. provider[c] \in {"none", "rejected", "sent", "delivered", "read", "failed"}
    BY <1>1 DEF TypeOK
  <2> QED BY <1>3, <2>1 DEF Message
<1>5. CASE c \in Resends
  <2>1. Resending(c)
    BY <1>2 DEF Resending
  <2>2. \A d \in Requests \cup Directs : answer'[d] = answer[d]
    BY <1>1, <1>3, <1>5 DEF Reply, TypeOK, Calls
  <2> QED BY <1>2, <1>3, <1>4, <1>5, <2>1, <2>2, ReleasingStep
<1>6. CASE c \notin Resends
  <2>1. c \in Requests \cup Directs
    BY <1>6 DEF Calls
  <2>2. \A x \in Resends : action'[x] = "completed" <=> action[x] = "completed"
    BY <1>3, <1>6 DEF SetAction
  <2>3. c \in Ledger!Same(c)
    BY DEF Ledger!Same
  <2> QED BY <1>2, <1>3, <1>4, <2>1, <2>2, <2>3, AnsweringStep
<1> QED BY <1>5, <1>6

\* What a resend does.
LEMMA ResendSteps ==
  ASSUME SendInv, NEW x \in Resends, ResendStep(x)
  PROVE  [Ledger!Next]_Ledger!vars
<1>1. TypeOK /\ x \in Calls /\ x \notin Requests \cup Directs
  BY SendKnown
<1>2. ASSUME NEW a \in Calls, ResendStart(x, a) PROVE [Ledger!Next]_Ledger!vars
  BY <1>2, HoldingStep
<1>3. CASE ResendSend(x)
  BY <1>1, <1>3, SendingStep DEF ResendSend
<1>4. ASSUME NEW status \in {"running", "blocked"}, NEW a \in {"blocked", "error"}, pc[x] = "looking",
             SetAction(x, status), Reply(x, a), UNCHANGED <<store, source, outside>>
      PROVE  Ledger!Next
  <2>1. Resending(x) /\ pc' = [pc EXCEPT ![x] = "done"] /\ UNCHANGED <<log, wire, provider>>
    BY <1>4 DEF Resending, Reply, store, outside
  <2>2. \A d \in Requests \cup Directs : answer'[d] = answer[d]
    BY <1>1, <1>4 DEF Reply, TypeOK, Calls
  <2> QED BY <1>4, <2>1, <2>2, ReleasingStep
<1>5. CASE ResendBlocked(x)
  BY <1>4, <1>5 DEF ResendBlocked
<1>6. CASE ResendPersistFails(x)
  BY <1>4, <1>6 DEF ResendPersistFails
<1> QED BY <1>2, <1>3, <1>5, <1>6 DEF ResendStep

\* Every step of the calls is one of the ledger, or none.
LEMMA NextLedger == SendInv /\ [Next]_vars => [Ledger!Next]_Ledger!vars
<1> SUFFICES ASSUME SendInv, [Next]_vars PROVE [Ledger!Next]_Ledger!vars
  OBVIOUS
<1>1. ASSUME NEW r \in Requests, Deliver(r) PROVE [Ledger!Next]_Ledger!vars
  BY <1>1, DeliverSteps
<1>2. ASSUME NEW d \in Directs, SendDirect(d) PROVE [Ledger!Next]_Ledger!vars
  <2>1. d \in Calls /\ d \notin Resends /\ d \notin Requests
    BY CallsAssumption DEF Calls
  <2> QED BY <1>2, <2>1, SendingStep DEF SendDirect, resend
<1>3. ASSUME NEW c \in Requests \cup Directs, PersistFails(c) PROVE [Ledger!Next]_Ledger!vars
  BY <1>3, AnsweringStep DEF PersistFails, store, resend, outside
<1>4. ASSUME NEW c \in Calls, CallStep(c) PROVE [Ledger!Next]_Ledger!vars
  BY <1>4, EndingSteps
<1>5. ASSUME NEW x \in Resends, ResendStep(x) PROVE [Ledger!Next]_Ledger!vars
  BY <1>5, ResendSteps
<1>6. ASSUME NEW c \in Calls, ProviderTakes(c) \/ ProviderProgresses(c) PROVE [Ledger!Next]_Ledger!vars
  BY <1>6, ProviderSteps
<1>7. CASE Crash \/ LoseAttempts \/ LoseActions
  BY <1>7, LosingSteps
<1>8. ASSUME UNCHANGED <<log, pc, answer, source, action, wire, provider>> PROVE [Ledger!Next]_Ledger!vars
  <2>1. UNCHANGED <<Messages, Retained, Answers, Holding, SentAgain>>
    BY <1>8, SameLedger DEF Resending
  <2> QED BY <2>1, NothingNew
<1>9. ASSUME NEW a \in Calls,
             \/ ReconcileStart(a) \/ \E found \in BOOLEAN : ReconcileEnd(a, found)
             \/ StatusWebhook(a)
      PROVE  [Ledger!Next]_Ledger!vars
  BY <1>8, <1>9 DEF ReconcileStart, ReconcileEnd, StatusWebhook, store, calls, resend, outside
<1>10. CASE UNCHANGED vars
  BY <1>8, <1>10 DEF vars, store, calls, resend, outside
<1> QED BY <1>1, <1>2, <1>3, <1>4, <1>5, <1>6, <1>7, <1>9, <1>10 DEF Next, ProviderStep

\* A call is answered when it ends, and a resend under way is not yet completed.
LEMMA NextAnswered == SendInv /\ [Next]_vars => AnsweredWhenDone'
<1> SUFFICES ASSUME SendInv, [Next]_vars PROVE AnsweredWhenDone'
  OBVIOUS
<1>1. /\ TypeOK /\ Resends \subseteq Calls /\ Resends \cap (Requests \cup Directs) = {}
      /\ \A c \in Calls : pc[c] # "done" => answer[c] = "none"
      /\ \A x \in Resends : pc[x] # "done" => action[x] # "completed"
  BY SendKnown
<1>2. ASSUME NEW c \in Calls, \/ \E a \in {"accepted", "conflict", "blocked", "error"} : Reply(c, a)
                              \/ pc[c] # "done" /\ UNCHANGED answer /\ \A d \in Calls \ {c} : pc'[d] = pc[d],
             \A x \in Resends \ {c} : action'[x] = "completed" => action[x] = "completed",
             c \in Resends => pc'[c] = "done" \/ action'[c] # "completed"
      PROVE  AnsweredWhenDone'
  <2>1. \A d \in Calls : pc'[d] # "done" => answer'[d] = "none"
    BY <1>1, <1>2 DEF Reply, TypeOK
  <2>2. \A x \in Resends : pc'[x] # "done" => action'[x] # "completed"
    BY <1>1, <1>2 DEF Reply, TypeOK
  <2> QED BY <2>1, <2>2 DEF AnsweredWhenDone
<1>3. ASSUME NEW r \in Requests, Deliver(r) PROVE AnsweredWhenDone'
  <2>1. r \in Calls /\ r \notin Resends /\ UNCHANGED action /\ pc[r] # "done"
    BY <1>1, <1>3 DEF Deliver, Calls, resend
  <2>2. CASE CreateAndSend(r) /\ UNCHANGED answer
    BY <1>1, <1>2, <2>1, <2>2 DEF CreateAndSend, TypeOK
  <2>3. ASSUME NEW a \in Calls, Reply(r, DuplicateAnswer(a)) PROVE AnsweredWhenDone'
    <3>1. DuplicateAnswer(a) \in {"accepted", "conflict"}
      BY DEF DuplicateAnswer
    <3> QED BY <1>2, <2>1, <2>3, <3>1
  <2>4. \A i \in 1 .. Len(log) : log[i] \in Calls
    BY <1>1, ElementOfSeq DEF TypeOK
  <2> QED BY <1>3, <2>2, <2>3, <2>4 DEF Deliver
<1>4. ASSUME NEW d \in Directs, SendDirect(d) PROVE AnsweredWhenDone'
  BY <1>1, <1>2, <1>4 DEF SendDirect, CreateAndSend, TypeOK, Calls, resend
<1>5. ASSUME NEW c \in Requests \cup Directs, PersistFails(c) PROVE AnsweredWhenDone'
  BY <1>1, <1>2, <1>5 DEF PersistFails, Calls, resend
<1>6. ASSUME NEW c \in Calls, CallStep(c) PROVE AnsweredWhenDone'
  <2>1. PICK a \in {"accepted", "error"}, status \in {"completed", "failed"} : Reply(c, a) /\ SetAction(c, status)
    BY <1>6 DEF CallStep, Succeeds, Rejected, Uncertain, FinishFails, CloseAction
  <2>2. pc'[c] = "done"
    BY <1>1, <2>1 DEF Reply, TypeOK
  <2>3. \A x \in Resends \ {c} : action'[x] = "completed" => action[x] = "completed"
    BY <2>1 DEF SetAction
  <2> QED BY <1>2, <2>1, <2>2, <2>3
<1>7. ASSUME NEW x \in Resends, ResendStep(x) PROVE AnsweredWhenDone'
  <2>1. x \in Calls
    BY <1>1
  <2>2. ASSUME NEW a \in Calls, ResendStart(x, a) PROVE AnsweredWhenDone'
    <3>1. pc[x] = "new" /\ action[x] # "completed"
      BY <1>1, <2>1, <2>2 DEF ResendStart
    <3>2. \A y \in Resends : action'[y] = "completed" => action[y] = "completed"
      BY <1>1, <2>2 DEF ResendStart, resend, TypeOK
    <3>3. \/ Reply(x, "accepted") \/ Reply(x, "conflict")
          \/ pc' = [pc EXCEPT ![x] = "looking"] /\ UNCHANGED answer
      BY <2>2 DEF ResendStart
    <3>4. \/ \E b \in {"accepted", "conflict", "blocked", "error"} : Reply(x, b)
          \/ pc[x] # "done" /\ UNCHANGED answer /\ \A d \in Calls \ {x} : pc'[d] = pc[d]
      BY <1>1, <3>1, <3>3 DEF TypeOK
    <3> QED BY <1>2, <2>1, <3>1, <3>2, <3>4
  <2>3. CASE ResendSend(x)
    BY <1>1, <1>2, <2>1, <2>3 DEF ResendSend, CreateAndSend, SetAction, TypeOK
  <2>4. CASE ResendBlocked(x) \/ ResendPersistFails(x)
    BY <1>1, <1>2, <2>1, <2>4 DEF ResendBlocked, ResendPersistFails, SetAction
  <2> QED BY <1>7, <2>2, <2>3, <2>4 DEF ResendStep
<1>8. CASE UNCHANGED <<pc, answer, action>>
  BY <1>1, <1>8 DEF AnsweredWhenDone
<1>9. CASE Crash
  <2>1. UNCHANGED <<answer, action>> /\ \A c \in Calls : pc'[c] # "done" => pc[c] # "done"
    BY <1>1, <1>9 DEF Crash
  <2> QED BY <1>1, <2>1 DEF AnsweredWhenDone
<1>10. CASE LoseActions
  BY <1>1, <1>10 DEF LoseActions, calls, AnsweredWhenDone
<1> QED
  BY <1>3, <1>4, <1>5, <1>6, <1>7, <1>8, <1>9, <1>10
  DEF Next, ProviderStep, ProviderTakes, ProviderProgresses, ReconcileStart, ReconcileEnd,
      StatusWebhook, LoseAttempts, vars, store, calls, resend, outside

\* Nothing was sent at first.
LEMMA InitSending == Init => AnsweredWhenDone /\ Ledger!Init
<1> SUFFICES ASSUME Init PROVE AnsweredWhenDone /\ Ledger!Init
  OBVIOUS
<1>1. AnsweredWhenDone
  BY DEF Init, AnsweredWhenDone, Calls
<1>2. Messages = [c \in Ledger!Calls |-> "unsent"]
  <2>1. \A c \in Calls : Message(c) = "unsent"
    BY DEF Init, Message, Issued
  <2> QED BY <2>1 DEF Messages, Ledger!Calls, Calls
<1>3. Answers = [c \in Requests \cup Directs |-> "nothing"]
  <2>1. \A c \in Requests \cup Directs : Told(c) = "nothing"
    BY DEF Init, Told, Calls
  <2> QED BY <2>1 DEF Answers
<1>4. Holding = {} /\ SentAgain = {}
  BY DEF Init, Holding, SentAgain, Resending, Calls
<1>5. Retained = {}
  BY DEF Init, Retained
<1> QED BY <1>1, <1>2, <1>3, <1>4, <1>5 DEF Ledger!Init, Messages, Answers, Holding, SentAgain

\* The sending of messages keeps what the ledger promises, over crashes, unreadable files,
\* late webhooks and any interleaving of the calls.
THEOREM SendingImplementsLedger == Spec => ImplementsSendLedger
<1>1. Init => SendInv
  BY InitEvidenceInv, InitResendInv, InitSending DEF SendInv
<1>2. SendInv /\ [Next]_vars => SendInv'
  BY NextEvidenceInv, NextResendInv, NextAnswered DEF SendInv
<1>3. Init => Ledger!Init
  BY InitSending
<1>4. SendInv /\ [Next]_vars => [Ledger!Next]_Ledger!vars
  BY NextLedger
<1> QED BY <1>1, <1>2, <1>3, <1>4, PTL DEF Spec, ImplementsSendLedger, Ledger!Spec
=============================================================================
