-------------------------- MODULE ControlPlaneProofs --------------------------
(***************************************************************************)
(* Proofs about GroupTransport, OperationalAlerts, WebhookCenter and       *)
(* Automations, for any connections, channels, webhooks, automations,      *)
(* requests and bounds.                                                    *)
(***************************************************************************)
EXTENDS MCControlPlane, FiniteSetTheorems, TLAPS

(***************************************************************************)
(* Group bindings.                                                         *)
(***************************************************************************)

\* What a coroutine of a binding or of a registration holds.
CallRecord ==
    {Free} \cup [pc : {"binding"}, conn : Conns, channel : Channels]
    \cup [pc : {"waiting", "listing"}, conn : Conns, channel : Channels, prior : Record, url : CoreUrls]
    \cup [pc : {"posting"}, conn : Conns, channel : Channels, url : CoreUrls, groups : 0 .. Fetches]
    \cup [pc : {"admitted"}, conn : Conns, channel : Channels, url : CoreUrls, groups : 0 .. Fetches,
          binding : Bindings]
GtForm ==
    /\ GtTypeOK
    /\ calls \in [Calls -> CallRecord]
    /\ issued \in [policies : 0 .. Revisions, changes : 0 .. Changes, fetches : 0 .. Fetches]

\* Every coroutine knows its connection; one that Core has admitted, its binding.
LEMMA CallKnows ==
  ASSUME GtForm, NEW k \in Calls
  PROVE  /\ calls[k].pc \in {"binding", "waiting", "listing", "posting", "admitted"} =>
              calls[k].conn \in Conns /\ calls[k].channel \in Channels
         /\ calls[k].pc \in {"waiting", "listing", "posting", "admitted"} => calls[k].url \in CoreUrls
         /\ calls[k].pc \in {"waiting", "listing"} => calls[k].prior \in Record
         /\ calls[k].pc \in {"posting", "admitted"} => calls[k].groups \in 0 .. Fetches
         /\ calls[k].pc = "admitted" => calls[k].binding \in Bindings
BY DEF GtForm, CallRecord, Free

\* Each bound counts up to its limit.
LEMMA IssueForm ==
  ASSUME GtForm
  PROVE  /\ Issue("policies", Revisions) \/ Issue("changes", Changes) \/ Issue("fetches", Fetches) =>
              issued' \in [policies : 0 .. Revisions, changes : 0 .. Changes, fetches : 0 .. Fetches]
         /\ Issue("fetches", Fetches) => issued.fetches + 1 \in 0 .. Fetches
<1> DEFINE Counts == [policies : 0 .. Revisions, changes : 0 .. Changes, fetches : 0 .. Fetches]
<1>1. issued \in Counts /\ Revisions \in Nat /\ Changes \in Nat /\ Fetches \in Nat
  BY GtAssumption DEF GtForm
<1>2. Issue("policies", Revisions) => issued' \in Counts
  BY <1>1 DEF Issue
<1>3. Issue("changes", Changes) => issued' \in Counts
  BY <1>1 DEF Issue
<1>4. Issue("fetches", Fetches) => issued' \in Counts /\ issued.fetches + 1 \in 0 .. Fetches
  BY <1>1 DEF Issue
<1> QED BY <1>2, <1>3, <1>4

LEMMA GtFormInit == GtInit => GtForm
<1> SUFFICES ASSUME GtInit PROVE GtForm
  OBVIOUS
<1>1. Unbound \in Record
  BY GtAssumption DEF Unbound, Record
<1>2. calls \in [Calls -> CallRecord]
  BY DEF GtInit, CallRecord
<1>3. issued \in [policies : 0 .. Revisions, changes : 0 .. Changes, fetches : 0 .. Fetches]
  BY GtAssumption DEF GtInit
<1>4. GtTypeOK
  BY <1>1, GtAssumption DEF GtInit, GtTypeOK
<1> QED BY <1>2, <1>3, <1>4 DEF GtForm

\* A coroutine that starts, moves on, or ends.
LEMMA CallMoves ==
  ASSUME GtForm, NEW k \in Calls, NEW r \in CallRecord
  PROVE  [calls EXCEPT ![k] = r] \in [Calls -> CallRecord]
BY DEF GtForm

\* A binding starts from nothing.
LEMMA RebindingForm ==
  ASSUME NEW h \in Channels, NEW b \in Bindings
  PROVE  /\ [Unbound EXCEPT !.channel = h, !.binding = b] \in Record
         /\ [Unbound EXCEPT !.channel = h, !.binding = b].channel = h
         /\ [Unbound EXCEPT !.channel = h, !.binding = b].policy = NoPolicy
<1>1. [Unbound EXCEPT !.channel = h, !.binding = b]
        = [channel |-> h, binding |-> b, url |-> NoUrl, policy |-> NoPolicy, groups |-> 0]
  <2>1. [Unbound EXCEPT !.channel = h]
          = [channel |-> h, binding |-> NoBinding, url |-> NoUrl, policy |-> NoPolicy, groups |-> 0]
    BY DEF Unbound
  <2>2. [[channel |-> h, binding |-> NoBinding, url |-> NoUrl, policy |-> NoPolicy, groups |-> 0] EXCEPT !.binding = b]
          = [channel |-> h, binding |-> b, url |-> NoUrl, policy |-> NoPolicy, groups |-> 0]
    OBVIOUS
  <2> QED BY <2>1, <2>2
<1>2. [channel |-> h, binding |-> b, url |-> NoUrl, policy |-> NoPolicy, groups |-> 0] \in Record
  BY GtAssumption DEF Record
<1> QED BY <1>1, <1>2

\* Binding on the request of Core.
LEMMA BindingForm ==
  ASSUME GtForm, NEW k \in Calls, NEW c \in Conns,
         \/ \E h \in Channels : StartBind(k, c, h)
         \/ \E b \in Bindings : Bind(k, b)
         \/ BindFails(k)
  PROVE  GtForm'
<1>1. Free \in CallRecord
  BY DEF CallRecord
<1>2. CASE \E h \in Channels : StartBind(k, c, h)
  <2>1. PICK h \in Channels : StartBind(k, c, h)
    BY <1>2
  <2>2. [pc |-> "binding", conn |-> c, channel |-> h] \in CallRecord
    BY DEF CallRecord
  <2> QED BY <2>1, <2>2, CallMoves DEF StartBind, GtForm, GtTypeOK
<1>3. CASE \E b \in Bindings : Bind(k, b)
  <2>1. PICK b \in Bindings : Bind(k, b)
    BY <1>3
  <2>2. calls[k].conn \in Conns /\ calls[k].channel \in Channels
    BY <2>1, CallKnows DEF Bind
  <2>3. [Unbound EXCEPT !.channel = calls[k].channel, !.binding = b] \in Record
    BY <2>2, RebindingForm
  <2> QED BY <1>1, <2>1, <2>2, <2>3, CallMoves DEF Bind, GtForm, GtTypeOK
<1>4. CASE BindFails(k)
  BY <1>1, <1>4, CallMoves DEF BindFails, GtForm, GtTypeOK
<1> QED BY <1>2, <1>3, <1>4

\* A registration, from its request to its end.
LEMMA RegistrationForm ==
  ASSUME GtForm, NEW k \in Calls, NEW c \in Conns,
         \/ \E h \in Channels : StartRegister(k, c, h)
         \/ \E b \in Bindings : CoreAdmits(k, b)
         \/ Enter(k) \/ Listed(k) \/ Register(k) \/ RegisterFails(k)
  PROVE  GtForm'
<1>1. Free \in CallRecord
  BY DEF CallRecord
<1>2. CASE \E h \in Channels : StartRegister(k, c, h)
  <2>1. PICK h \in Channels : StartRegister(k, c, h)
    BY <1>2
  <2>2. records[c] \in Record /\ webhook[c] \in CoreUrls
    BY <2>1 DEF StartRegister, Present, GtForm, GtTypeOK
  <2>3. [pc |-> "waiting", conn |-> c, channel |-> h, prior |-> records[c], url |-> webhook[c]] \in CallRecord
    BY <2>2 DEF CallRecord
  <2> QED BY <2>1, <2>3, CallMoves DEF StartRegister, GtForm, GtTypeOK
<1>3. CASE \E b \in Bindings : CoreAdmits(k, b)
  <2>1. PICK b \in Bindings : CoreAdmits(k, b)
    BY <1>3
  <2>2. [pc |-> "admitted", conn |-> calls[k].conn, channel |-> calls[k].channel, url |-> calls[k].url,
         groups |-> calls[k].groups, binding |-> b] \in CallRecord
    BY <2>1, CallKnows DEF CoreAdmits, CallRecord
  <2> QED BY <2>1, <2>2, CallMoves, IssueForm DEF CoreAdmits, GtForm, GtTypeOK
<1>4. CASE Enter(k)
  <2>1. calls[k] \in [pc : {"waiting", "listing"}, conn : Conns, channel : Channels, prior : Record, url : CoreUrls]
    BY <1>4 DEF Enter, GtForm, CallRecord, Free
  <2>2. [calls[k] EXCEPT !.pc = "listing"] \in CallRecord
    BY <2>1 DEF CallRecord
  <2>3. calls' \in [Calls -> CallRecord]
    BY <1>1, <1>4, <2>2, CallMoves DEF Enter
  <2>4. lock' \in [Conns -> Calls \cup {NoCall}]
    BY <1>4, <2>1 DEF Enter, GtForm, GtTypeOK
  <2> QED BY <1>4, <2>3, <2>4 DEF Enter, GtForm, GtTypeOK
<1>5. CASE Listed(k)
  <2>1. /\ calls[k].conn \in Conns /\ calls[k].channel \in Channels /\ calls[k].url \in CoreUrls
        /\ calls[k].prior \in Record
    BY <1>5, CallKnows DEF Listed
  <2>2. (IF directory[calls[k].conn] = 0 THEN calls[k].prior.groups ELSE directory[calls[k].conn]) \in 0 .. Fetches
    BY <2>1 DEF Record, GtForm, GtTypeOK
  <2>3. calls' \in [Calls -> CallRecord]
    BY <1>5, <2>1, <2>2, CallMoves DEF Listed, CallRecord
  <2>4. fetching' \in [Conns -> BOOLEAN]
    BY <1>5, <2>1 DEF Listed, GtForm, GtTypeOK
  <2> QED BY <1>5, <2>3, <2>4 DEF Listed, GtForm, GtTypeOK
<1>6. CASE Register(k)
  <2>1. /\ calls[k].conn \in Conns /\ calls[k].channel \in Channels /\ calls[k].url \in CoreUrls
        /\ calls[k].groups \in 0 .. Fetches /\ calls[k].binding \in Bindings
    BY <1>6, CallKnows DEF Register
  <2>2. [enabled |-> TRUE, account |-> TRUE, channel |-> calls[k].channel, binding |-> calls[k].binding] \in Policy
    BY <2>1 DEF Policy
  <2>3. AccountBinding(k) \in Record
    BY <2>1, <2>2 DEF AccountBinding, Record
  <2> QED BY <1>1, <1>6, <2>1, <2>3, CallMoves DEF Register, KeysWith, Leaves, GtForm, GtTypeOK
<1>7. CASE RegisterFails(k)
  BY <1>1, <1>7, CallMoves, CallKnows DEF RegisterFails, Leaves, GtForm, GtTypeOK
<1> QED BY <1>2, <1>3, <1>4, <1>5, <1>6, <1>7

\* What happens around.
LEMMA SurroundingsForm ==
  ASSUME GtForm,
         \/ \E c \in Conns, valid \in BOOLEAN : Fetched(c, valid)
         \/ \E c \in Conns, u \in CoreUrls \cup {NoUrl} : ChangeWebhook(c, u)
         \/ \E c \in Conns : Remove(c)
         \/ GtCrash
  PROVE  GtForm'
<1>1. CASE \E c \in Conns, valid \in BOOLEAN : Fetched(c, valid)
  <2>1. PICK c \in Conns, valid \in BOOLEAN : Fetched(c, valid)
    BY <1>1
  <2>2. fetching' \in [Conns -> BOOLEAN]
    BY <2>1 DEF Fetched, GtForm, GtTypeOK
  <2>3. directory' \in [Conns -> 0 .. Fetches]
    BY <2>1, IssueForm DEF Fetched, GtForm, GtTypeOK
  <2>4. issued' \in [policies : 0 .. Revisions, changes : 0 .. Changes, fetches : 0 .. Fetches]
    BY <2>1, IssueForm DEF Fetched, GtForm
  <2> QED BY <2>1, <2>2, <2>3, <2>4 DEF Fetched, GtForm, GtTypeOK
<1>2. CASE \E c \in Conns, u \in CoreUrls \cup {NoUrl} : ChangeWebhook(c, u)
  BY <1>2, IssueForm DEF ChangeWebhook, GtForm, GtTypeOK
<1>3. CASE \E c \in Conns : Remove(c)
  BY <1>3, IssueForm DEF Remove, GtForm, GtTypeOK
<1>4. CASE GtCrash
  <2>1. calls' \in [Calls -> CallRecord]
    BY <1>4 DEF GtCrash, CallRecord
  <2>2. keys' \in [Conns -> Channels \cup {NoChannel}] /\ torn' \in [Conns -> BOOLEAN]
    BY <1>4, CallKnows DEF GtCrash, GtForm, GtTypeOK
  <2> QED BY <1>4, <2>1, <2>2, IssueForm, GtAssumption DEF GtCrash, GtForm, GtTypeOK
<1> QED BY <1>1, <1>2, <1>3, <1>4

LEMMA GtFormPreserved == GtForm /\ [GtNext]_gtVars => GtForm'
<1> SUFFICES ASSUME GtForm, [GtNext]_gtVars PROVE GtForm'
  OBVIOUS
<1>1. CASE UNCHANGED gtVars
  BY <1>1 DEF gtVars, GtForm, GtTypeOK
<1>2. CASE \E k \in Calls : \/ BindFails(k) \/ Enter(k) \/ Listed(k) \/ Register(k) \/ RegisterFails(k)
                            \/ \E b \in Bindings : Bind(k, b) \/ CoreAdmits(k, b)
  <2>1. PICK k \in Calls : \/ BindFails(k) \/ Enter(k) \/ Listed(k) \/ Register(k) \/ RegisterFails(k)
                           \/ \E b \in Bindings : Bind(k, b) \/ CoreAdmits(k, b)
    BY <1>2
  <2>2. calls[k].conn \in Conns
    BY <2>1, CallKnows DEF BindFails, Enter, Listed, Register, RegisterFails, Bind, CoreAdmits
  <2> QED BY <2>1, <2>2, BindingForm, RegistrationForm
<1>3. CASE \E k \in Calls, c \in Conns, h \in Channels : StartBind(k, c, h) \/ StartRegister(k, c, h)
  BY <1>3, BindingForm, RegistrationForm
<1>4. CASE \E c \in Conns, p \in Policy : PutPolicy(c, p)
  <2>1. PICK c \in Conns, p \in Policy : PutPolicy(c, p)
    BY <1>4
  <2>2. records[c] \in Record
    BY <2>1 DEF PutPolicy, Present, GtForm, GtTypeOK
  <2>3. [records[c] EXCEPT !.policy = p] \in Record
    BY <2>2 DEF Record
  <2> QED BY <2>1, <2>3, IssueForm DEF PutPolicy, GtForm, GtTypeOK
<1> QED BY <1>1, <1>2, <1>3, <1>4, SurroundingsForm DEF GtNext

\* A policy belongs to the binding beside it, and the key to its channel.
LEMMA BindingPreserved == GtForm /\ BindingIsWhole /\ [GtNext]_gtVars => BindingIsWhole'
<1> DEFINE Matched(r) == r.policy # NoPolicy => r.policy.binding = r.binding /\ r.policy.channel = r.channel
<1> SUFFICES ASSUME GtForm, BindingIsWhole, [GtNext]_gtVars, NEW c \in Conns, records'[c] # NoRecord
             PROVE  Matched(records'[c]) /\ (torn'[c] \/ records'[c].channel = keys'[c])
  BY DEF BindingIsWhole, Present
<1>1. records[c] # NoRecord => records[c] \in Record /\ Matched(records[c]) /\ (torn[c] \/ records[c].channel = keys[c])
  BY DEF BindingIsWhole, Present, GtForm, GtTypeOK
<1>2. CASE UNCHANGED <<records, keys, torn>>
  BY <1>1, <1>2
<1>3. CASE \E d \in Conns, p \in Policy : PutPolicy(d, p)
  <2>1. PICK d \in Conns, p \in Policy : PutPolicy(d, p)
    BY <1>3
  <2>2. CASE d # c
    BY <1>1, <2>1, <2>2 DEF PutPolicy, GtForm, GtTypeOK
  <2>3. CASE d = c
    <3>1. records[c] \in Record /\ p.channel = records[c].channel /\ p.binding = records[c].binding
      BY <1>1, <2>1, <2>3 DEF PutPolicy, Present, Fits
    <3>2. records'[c] = [records[c] EXCEPT !.policy = p]
      BY <2>1, <2>3 DEF PutPolicy, GtForm, GtTypeOK
    <3>3. /\ records'[c].policy = p /\ records'[c].channel = records[c].channel
          /\ records'[c].binding = records[c].binding
      BY <3>1, <3>2 DEF Record
    <3> QED BY <1>1, <2>1, <3>1, <3>3 DEF PutPolicy, Present
  <2> QED BY <2>2, <2>3
<1>4. CASE \E k \in Calls, b \in Bindings : Bind(k, b)
  <2>1. PICK k \in Calls, b \in Bindings : Bind(k, b)
    BY <1>4
  <2>2. calls[k].conn \in Conns /\ calls[k].channel \in Channels
    BY <2>1, CallKnows DEF Bind
  <2>3. CASE calls[k].conn # c
    BY <1>1, <2>1, <2>3 DEF Bind, GtForm, GtTypeOK
  <2>4. CASE calls[k].conn = c
    <3>1. /\ records'[c] = [Unbound EXCEPT !.channel = calls[k].channel, !.binding = b]
          /\ keys'[c] = calls[k].channel
      BY <2>1, <2>2, <2>4 DEF Bind, Present, GtForm, GtTypeOK
    <3> QED BY <2>2, <3>1, RebindingForm
  <2> QED BY <2>3, <2>4
<1>5. CASE \E k \in Calls : Register(k)
  <2>1. PICK k \in Calls : Register(k)
    BY <1>5
  <2>2. calls[k].conn \in Conns
    BY <2>1, CallKnows DEF Register
  <2>3. CASE calls[k].conn # c
    BY <1>1, <2>1, <2>3 DEF Register, KeysWith, GtForm, GtTypeOK
  <2>4. CASE calls[k].conn = c
    <3>1. records'[c] = AccountBinding(k) /\ keys'[c] = calls[k].channel
      BY <2>1, <2>2, <2>4 DEF Register, KeysWith, GtForm, GtTypeOK
    <3> QED BY <3>1 DEF AccountBinding
  <2> QED BY <2>3, <2>4
<1>6. CASE \E d \in Conns : Remove(d)
  <2>1. PICK d \in Conns : Remove(d)
    BY <1>6
  <2>2. d # c
    BY <2>1 DEF Remove, GtForm, GtTypeOK
  <2> QED BY <1>1, <2>1, <2>2 DEF Remove, GtForm, GtTypeOK
<1>7. CASE GtCrash
  <2>1. CASE UNCHANGED <<keys, torn>>
    BY <1>1, <1>7, <2>1 DEF GtCrash
  <2>2. CASE ~UNCHANGED <<keys, torn>>
    <3>1. PICK k \in Calls : /\ calls[k].pc \in {"binding", "admitted"}
                             /\ keys' = [keys EXCEPT ![calls[k].conn] = calls[k].channel]
                             /\ torn' = [torn EXCEPT ![calls[k].conn] = TRUE]
      BY <1>7, <2>2 DEF GtCrash
    <3>2. CASE calls[k].conn = c
      BY <1>1, <1>7, <3>1, <3>2 DEF GtCrash, GtForm, GtTypeOK
    <3>3. CASE calls[k].conn # c
      BY <1>1, <1>7, <3>1, <3>3 DEF GtCrash, GtForm, GtTypeOK
    <3> QED BY <3>2, <3>3
  <2> QED BY <2>1, <2>2
<1> QED BY <1>2, <1>3, <1>4, <1>5, <1>6, <1>7
        DEF GtNext, gtVars, StartBind, BindFails, StartRegister, Enter, Listed, Fetched, CoreAdmits, RegisterFails,
            ChangeWebhook

\* Every record of the group transport has its form.
LEMMA GroupTypes == GtSpec => []GtTypeOK
<1>1. GtForm => GtTypeOK
  BY DEF GtForm
<1> QED BY <1>1, GtFormInit, GtFormPreserved, PTL DEF GtSpec

\* A rebinding drops the policy that it finds, a policy is accepted for the binding that
\* stands only, and both writers of a binding write the key of its channel first: a
\* group message is never admitted by the policy of an earlier binding, and the key
\* differs from the binding only where a process died between the two files.
THEOREM PoliciesFollowTheBinding == GtSpec => []BindingIsWhole
<1>1. GtInit => BindingIsWhole
  <2> SUFFICES ASSUME GtInit, NEW c \in Conns
               PROVE  records[c].policy = NoPolicy /\ records[c].channel = keys[c]
    BY DEF BindingIsWhole
  <2> QED BY DEF GtInit, Unbound
<1>2. GtSpec => []GtForm
  BY GtFormInit, GtFormPreserved, PTL DEF GtSpec
<1> QED BY <1>1, <1>2, BindingPreserved, PTL DEF GtSpec

(***************************************************************************)
(* Alerts.                                                                 *)
(***************************************************************************)

\* What the proof needs to know of an alert.
AlertForm(a) ==
    /\ a = [id |-> a.id, of |-> a.of, status |-> a.status, source |-> a.source]
    /\ a.status \in {"new", "acknowledged", "resolved"}
Formed(s) == \A a \in s : AlertForm(a)
\* An open alert of an incident is its only one that is open or an operator's verdict.
Single(s) == \A a, b \in s : a.of = b.of /\ a # b /\ IsOpen(a) => ~IsOpen(b) /\ ~ByOperator(b)

\* Reconciliation resolves alerts whose incident is over, and leaves the others.
LEMMA SettledEffect ==
  ASSUME NEW a, AlertForm(a), NEW found
  PROVE  /\ AlertForm(Settled(a, found)) /\ Settled(a, found).of = a.of /\ Settled(a, found).id = a.id
         /\ IsOpen(Settled(a, found)) => IsOpen(a)
         /\ ~IsOpen(a) => Settled(a, found) = a
<1>1. CASE Settled(a, found) = a
  BY <1>1
<1>2. CASE IsOpen(a) /\ Settled(a, found) = [a EXCEPT !.status = "resolved", !.source = "automatic"]
  <2>1. [a EXCEPT !.status = "resolved", !.source = "automatic"]
          = [id |-> a.id, of |-> a.of, status |-> "resolved", source |-> "automatic"]
    <3>1. \A i, f, x, y : [[id |-> i, of |-> f, status |-> x, source |-> y] EXCEPT !.status = "resolved"]
                           = [id |-> i, of |-> f, status |-> "resolved", source |-> y]
      OBVIOUS
    <3>2. \A i, f, x, y : [[id |-> i, of |-> f, status |-> x, source |-> y] EXCEPT !.source = "automatic"]
                           = [id |-> i, of |-> f, status |-> x, source |-> "automatic"]
      OBVIOUS
    <3>3. a = [id |-> a.id, of |-> a.of, status |-> a.status, source |-> a.source]
      BY DEF AlertForm
    <3>4. [a EXCEPT !.status = "resolved"] = [id |-> a.id, of |-> a.of, status |-> "resolved", source |-> a.source]
      BY <3>1, <3>3
    <3>5. [[id |-> a.id, of |-> a.of, status |-> "resolved", source |-> a.source] EXCEPT !.source = "automatic"]
            = [id |-> a.id, of |-> a.of, status |-> "resolved", source |-> "automatic"]
      BY <3>2
    <3>6. [a EXCEPT !.status = "resolved", !.source = "automatic"]
            = [[a EXCEPT !.status = "resolved"] EXCEPT !.source = "automatic"]
      BY Zenon
    <3> QED BY <3>4, <3>5, <3>6, Zenon
  <2> QED BY <1>2, <2>1 DEF AlertForm, IsOpen
<1> QED BY <1>1, <1>2 DEF Settled

\* What an operator does to an alert.
LEMMA MovedEffect ==
  ASSUME NEW a, AlertForm(a), NEW status \in {"acknowledged", "resolved"}
  PROVE  /\ AlertForm(Moved(a, status)) /\ Moved(a, status).of = a.of /\ Moved(a, status).id = a.id
         /\ IsOpen(Moved(a, status)) => IsOpen(a)
         /\ ~IsOpen(a) => Moved(a, status) = a
<1>1. CASE a.status = "resolved"
  BY <1>1 DEF Moved, IsOpen
<1>2. CASE a.status # "resolved"
  <2>1. Moved(a, status) = [id |-> a.id, of |-> a.of, status |-> status,
                            source |-> IF status = "resolved" THEN "manual" ELSE a.source]
    BY <1>2 DEF Moved, AlertForm
  <2> QED BY <1>2, <2>1 DEF AlertForm, IsOpen
<1> QED BY <1>1, <1>2

\* Reconciliation, whatever the incidents that were found.
LEMMA SyncedIsSingle ==
  ASSUME NEW found, Formed(alerts), Single(alerts)
  PROVE  Formed(Synced(found)) /\ Single(Synced(found))
<1> DEFINE new == found \ Suppressed(found)
           old == {Settled(a, found) : a \in alerts}
           added == {[id |-> Numbered(new)[f], of |-> f, status |-> "new", source |-> "none"] : f \in new}
<1>1. Synced(found) = old \cup added
  BY DEF Synced
<1>2. \A a \in alerts : /\ AlertForm(Settled(a, found)) /\ Settled(a, found).of = a.of
                        /\ IsOpen(Settled(a, found)) => IsOpen(a)
                        /\ ~IsOpen(a) => Settled(a, found) = a
  BY SettledEffect DEF Formed
<1>3. \A x \in added : AlertForm(x) /\ x.of \in new /\ x.status = "new"
  BY DEF AlertForm
<1>4. \A x, y \in added : x.of = y.of => x = y
  OBVIOUS
<1>5. \A a \in alerts : a.of \in new => ~IsOpen(a) /\ ~ByOperator(a)
  BY DEF Suppressed
<1>6. Formed(Synced(found))
  BY <1>1, <1>2, <1>3 DEF Formed
<1>7. ASSUME NEW x \in Synced(found), NEW y \in Synced(found), x.of = y.of, x # y, IsOpen(x)
      PROVE  ~IsOpen(y) /\ ~ByOperator(y)
  <2>1. CASE x \in old /\ y \in old
    <3>1. PICK a \in alerts : x = Settled(a, found)
      BY <2>1
    <3>2. PICK b \in alerts : y = Settled(b, found)
      BY <2>1
    <3>3. ~IsOpen(b) /\ ~ByOperator(b)
      BY <1>2, <1>7, <3>1, <3>2 DEF Single
    <3> QED BY <1>2, <3>2, <3>3
  <2>2. CASE x \in added /\ y \in old
    <3>1. PICK b \in alerts : y = Settled(b, found)
      BY <2>2
    <3> QED BY <1>2, <1>3, <1>5, <1>7, <2>2, <3>1
  <2>3. CASE x \in old /\ y \in added
    <3>1. PICK a \in alerts : x = Settled(a, found)
      BY <2>3
    <3> QED BY <1>2, <1>3, <1>5, <1>7, <2>3, <3>1
  <2>4. CASE x \in added /\ y \in added
    BY <1>4, <1>7, <2>4
  <2> QED BY <1>1, <1>7, <2>1, <2>2, <2>3, <2>4
<1> QED BY <1>6, <1>7 DEF Single

LEMMA AlertsPreserved ==
  Formed(alerts) /\ Single(alerts) /\ [AlNext]_alVars => Formed(alerts') /\ Single(alerts')
<1> SUFFICES ASSUME Formed(alerts), Single(alerts), [AlNext]_alVars
             PROVE  Formed(alerts') /\ Single(alerts')
  OBVIOUS
<1>1. CASE alerts' = alerts
  BY <1>1
<1>2. CASE \E k \in AlCalls, reachable \in BOOLEAN : Answered(k, reachable)
  <2>1. PICK k \in AlCalls, reachable \in BOOLEAN : Answered(k, reachable)
    BY <1>2
  <2> DEFINE ask == inquiries[k].ask
             found == WithoutSuperseded(inquiries[k].found \cup UNION {Live(c, reachable) \X {c} : c \in AlConns})
             synced == Synced(found)
             status == IF ask.do = "resolve" THEN "resolved" ELSE "acknowledged"
             moved(a) == IF a.id = ask.id THEN Moved(a, status) ELSE a
  <2>2. Formed(synced) /\ Single(synced)
    BY SyncedIsSingle
  <2>3. CASE ask.do \in {"acknowledge", "resolve"}
    <3>1. alerts' = {moved(a) : a \in synced}
      BY <2>1, <2>3 DEF Answered
    <3>2. \A a \in synced : /\ AlertForm(moved(a)) /\ moved(a).of = a.of
                            /\ IsOpen(moved(a)) => IsOpen(a)
                            /\ ~IsOpen(a) => moved(a) = a
      BY <2>2, MovedEffect DEF Formed
    <3>3. Formed(alerts')
      BY <3>1, <3>2 DEF Formed
    <3>4. ASSUME NEW x \in alerts', NEW y \in alerts', x.of = y.of, x # y, IsOpen(x)
          PROVE  ~IsOpen(y) /\ ~ByOperator(y)
      <4>1. PICK a \in synced : x = moved(a)
        BY <3>1
      <4>2. PICK b \in synced : y = moved(b)
        BY <3>1
      <4>3. ~IsOpen(b) /\ ~ByOperator(b)
        BY <2>2, <3>2, <3>4, <4>1, <4>2 DEF Single
      <4> QED BY <3>2, <4>2, <4>3
    <3> QED BY <3>3, <3>4 DEF Single
  <2>4. CASE ask.do \notin {"acknowledge", "resolve"}
    <3>1. alerts' \subseteq synced
      BY <2>1, <2>4 DEF Answered
    <3> QED BY <2>2, <3>1 DEF Formed, Single
  <2> QED BY <2>3, <2>4
<1> QED BY <1>1, <1>2 DEF AlNext, alVars, Turn, Look, AlCrash

\* Every request reconciles what it found, perhaps long ago, with the alerts as they are
\* now, in one step: requests that overlap never open an incident twice, nor reopen
\* one that an operator has resolved while its alert is kept.
THEOREM IncidentsHaveOneAlert == AlSpec => []OneAlertPerIncident
<1>1. AlInit => Formed(alerts) /\ Single(alerts)
  BY DEF AlInit, Formed, Single
<1>2. Single(alerts) => OneAlertPerIncident
  BY DEF Single, OneAlertPerIncident
<1> DEFINE Inv == Formed(alerts) /\ Single(alerts)
<1>3. Inv /\ [AlNext]_alVars => Inv'
  BY AlertsPreserved
<1> QED BY <1>1, <1>2, <1>3, PTL DEF AlSpec

\* What there may be an alert of.
Causes ==
    {"connection_disconnected", "authentication_error", "embedded_signup_pending", "provider_degraded",
     "heartbeat_expired", "webhook_errors", "repeated_reconnects", "whatsapp_session_down",
     "instagram_token_expired", "instagram_token_expiring", "core_delivery_stalled", "core_delivery_failed"}
Incidents == Causes \X AlConns

AlForm ==
    /\ situation \in [AlConns -> Situation]
    /\ made \in [alerts : Nat, turns : Nat]
    /\ \A a \in alerts : a.id \in 1 .. made.alerts /\ a.of \in Incidents
    /\ dismissed \subseteq Incidents
    /\ \A k \in AlCalls : inquiries[k].pc = "asking" => inquiries[k].found \subseteq Incidents
    /\ DOMAIN inquiries = AlCalls /\ Formed(alerts) /\ Single(alerts)

LEMMA IncidentsAreFinite == IsFiniteSet(Incidents)
<1> DEFINE list == <<"connection_disconnected", "authentication_error", "embedded_signup_pending", "provider_degraded",
                     "heartbeat_expired", "webhook_errors", "repeated_reconnects", "whatsapp_session_down",
                     "instagram_token_expired", "instagram_token_expiring", "core_delivery_stalled", "core_delivery_failed">>
<1>1. /\ list \in [1 .. 12 -> Causes]
      /\ \A cause \in Causes : \E i \in 1 .. 12 : list[i] = cause
  BY DEF Causes
<1>2. ExistsSurjection(1 .. 12, Causes)
  <2> HIDE DEF list
  <2> QED BY <1>1 DEF ExistsSurjection, Surjection
<1>3. IsFiniteSet(Causes)
  BY <1>2, FS_NatSurjection
<1> QED BY <1>3, FS_Product, AlAssumption DEF Incidents

\* New alerts have identifiers of their own, next to those that were given.
LEMMA NumbersAreNext ==
  ASSUME AlForm, NEW new \in SUBSET Incidents
  PROVE  /\ Cardinality(new) \in Nat
         /\ \A f \in new : Numbered(new)[f] \in made.alerts + 1 .. made.alerts + Cardinality(new)
<1> DEFINE n == Cardinality(new)
<1>1. IsFiniteSet(new)
  BY IncidentsAreFinite, FS_Subset
<1>2. n \in Nat /\ ExistsBijection(1 .. n, new)
  BY <1>1, FS_CardinalityType
<1> HIDE DEF n
<1>3. PICK g \in [1 .. n -> new] : \A f \in new : \E i \in 1 .. n : g[i] = f
  <2>1. PICK g : g \in Bijection(1 .. n, new)
    BY <1>2 DEF ExistsBijection
  <2> QED BY <2>1 DEF Bijection, Surjection
<1> DEFINE place(f) == CHOOSE i \in 1 .. n : g[i] = f
           h == [f \in new |-> made.alerts + place(f)]
<1>4. \A f \in new : place(f) \in 1 .. n /\ g[place(f)] = f
  BY <1>3
<1> HIDE DEF place
<1>5. h \in [new -> made.alerts + 1 .. made.alerts + n] /\ \A x, y \in new : h[x] = h[y] => x = y
  BY <1>2, <1>4 DEF AlForm
<1> HIDE DEF h
<1>6. Numbered(new) \in [new -> made.alerts + 1 .. made.alerts + n]
  <2> DEFINE fits(f) == f \in [new -> made.alerts + 1 .. made.alerts + n] /\ \A x, y \in new : f[x] = f[y] => x = y
  <2>1. Numbered(new) = CHOOSE f \in [new -> made.alerts + 1 .. made.alerts + n] : \A x, y \in new : f[x] = f[y] => x = y
    BY DEF Numbered, n
  <2> QED BY <1>5, <2>1
<1> QED BY <1>2, <1>6 DEF n

\* What a request finds, by the stored status and at the providers.
LEMMA FoundIsIncident ==
  ASSUME NEW c \in AlConns, NEW reachable
  PROVE  Stored(c) \subseteq Causes /\ Live(c, reachable) \subseteq Causes
<1>1. Stored(c) \subseteq Causes
  BY DEF Stored, Causes
<1>2. SessionDown(c, reachable) => "whatsapp_session_down" \in Causes
  BY DEF Causes
<1>3. TokenCause(c) \subseteq Causes
  BY DEF TokenCause, Causes
<1>4. BacklogCause(c) \subseteq Causes
  BY DEF BacklogCause, Causes
<1> QED BY <1>1, <1>2, <1>3, <1>4 DEF Live

\* Reconciliation keeps the identifiers and numbers what is new.
LEMMA SyncedForm ==
  ASSUME AlForm, NEW found \in SUBSET Incidents
  PROVE  /\ Fresh(found) \in Nat
         /\ \A a \in Synced(found) : a.id \in 1 .. made.alerts + Fresh(found) /\ a.of \in Incidents
<1> DEFINE new == found \ Suppressed(found)
<1>1. /\ Cardinality(new) \in Nat /\ Fresh(found) = Cardinality(new)
      /\ \A f \in new : Numbered(new)[f] \in made.alerts + 1 .. made.alerts + Cardinality(new)
  BY NumbersAreNext DEF Fresh
<1>2. made.alerts \in Nat
  BY DEF AlForm
<1>3. ASSUME NEW a \in alerts
      PROVE  Settled(a, found).id \in 1 .. made.alerts + Fresh(found) /\ Settled(a, found).of \in Incidents
  <2>1. Settled(a, found).id = a.id /\ Settled(a, found).of = a.of
    BY SettledEffect DEF AlForm, Formed
  <2>2. a.id \in 1 .. made.alerts /\ a.of \in Incidents
    BY DEF AlForm
  <2> QED BY <1>1, <1>2, <2>1, <2>2
<1>4. ASSUME NEW f \in new
      PROVE  Numbered(new)[f] \in 1 .. made.alerts + Fresh(found) /\ f \in Incidents
  BY <1>1, <1>2
<1>5. Synced(found) = {Settled(a, found) : a \in alerts}
        \cup {[id |-> Numbered(new)[f], of |-> f, status |-> "new", source |-> "none"] : f \in new}
  BY DEF Synced
<1> HIDE DEF new
<1>6. ASSUME NEW a \in Synced(found)
      PROVE  a.id \in 1 .. made.alerts + Fresh(found) /\ a.of \in Incidents
  BY <1>3, <1>4, <1>5
<1> QED BY <1>1, <1>6

\* The store of alerts and the requests keep the forms the code gives them.
LEMMA AlFormPreserved == AlForm /\ [AlNext]_alVars => AlForm'
<1> SUFFICES ASSUME AlForm, [AlNext]_alVars PROVE AlForm'
  OBVIOUS
<1>1. Formed(alerts') /\ Single(alerts')
  BY AlertsPreserved DEF AlForm
<1>2. CASE UNCHANGED alVars
  BY <1>1, <1>2 DEF AlForm, alVars, Formed, Single
<1>3. ASSUME NEW c \in AlConns, Turn(c)
      PROVE  AlForm'
  <2>1. situation' \in [AlConns -> Situation]
    BY <1>3, AlAssumption DEF Turn, AlForm
  <2>2. made' \in [alerts : Nat, turns : Nat] /\ made'.alerts = made.alerts
    BY <1>3 DEF Turn, AlForm
  <2> QED BY <1>1, <1>3, <2>1, <2>2 DEF AlForm, Turn, Formed, Single
<1>4. ASSUME NEW k \in AlCalls, NEW ask \in Asks, Look(k, ask)
      PROVE  AlForm'
  <2>1. UNION {Stored(c) \X {c} : c \in AlConns} \subseteq Incidents
    BY FoundIsIncident DEF Incidents
  <2>2. \A j \in AlCalls : inquiries'[j].pc = "asking" => inquiries'[j].found \subseteq Incidents
    BY <1>4, <2>1 DEF Look, AlForm
  <2> QED BY <1>1, <1>4, <2>2 DEF AlForm, Look, Formed, Single
<1>5. ASSUME NEW k \in AlCalls, NEW reachable \in BOOLEAN, Answered(k, reachable)
      PROVE  AlForm'
  <2> DEFINE ask == inquiries[k].ask
             found == WithoutSuperseded(inquiries[k].found \cup UNION {Live(c, reachable) \X {c} : c \in AlConns})
             synced == Synced(found)
             gone == CASE ask.do = "delete" -> {a \in synced : a.id = ask.id}
                       [] ask.do = "delete_resolved" -> {a \in synced : a.status = "resolved"}
                       [] OTHER -> {}
             status == IF ask.do = "resolve" THEN "resolved" ELSE "acknowledged"
             moved(a) == IF a.id = ask.id THEN Moved(a, status) ELSE a
  <2>1. found \in SUBSET Incidents
    <3>1. UNION {Live(c, reachable) \X {c} : c \in AlConns} \subseteq Incidents
      BY FoundIsIncident DEF Incidents
    <3>2. inquiries[k].found \subseteq Incidents
      BY <1>5 DEF Answered, AlForm
    <3> QED BY <3>1, <3>2 DEF WithoutSuperseded
  <2>2. /\ made' = [made EXCEPT !.alerts = @ + Fresh(found)]
        /\ alerts' = {moved(a) : a \in synced} \/ alerts' = synced \ gone
        /\ dismissed' = (dismissed \cap found) \cup {a.of : a \in gone}
        /\ inquiries' = [inquiries EXCEPT ![k] = Resting] /\ situation' = situation
    BY <1>5 DEF Answered
  <2>3. gone \subseteq synced
    OBVIOUS
  <2> HIDE DEF found, gone
  <2>4. /\ Fresh(found) \in Nat
        /\ \A a \in synced : a.id \in 1 .. made.alerts + Fresh(found) /\ a.of \in Incidents
    BY <2>1, SyncedForm
  <2>5. \A a \in synced : moved(a).id = a.id /\ moved(a).of = a.of
    <3>1. Formed(synced)
      BY SyncedIsSingle DEF AlForm
    <3> QED BY <3>1, MovedEffect DEF Formed
  <2> HIDE DEF synced, moved
  <2>6. \A a \in alerts' : a.id \in 1 .. made.alerts + Fresh(found) /\ a.of \in Incidents
    BY <2>2, <2>4, <2>5
  <2>7. made' \in [alerts : Nat, turns : Nat] /\ made'.alerts = made.alerts + Fresh(found)
    BY <2>2, <2>4 DEF AlForm
  <2>8. dismissed' \subseteq Incidents
    BY <2>2, <2>3, <2>4 DEF AlForm
  <2>9. DOMAIN inquiries' = AlCalls /\ \A j \in AlCalls : inquiries'[j].pc = "asking" => inquiries'[j].found \subseteq Incidents
    BY <2>2 DEF AlForm, Resting
  <2> QED BY <1>1, <2>2, <2>6, <2>7, <2>8, <2>9 DEF AlForm, Formed, Single
<1>6. CASE AlCrash
  BY <1>1, <1>6 DEF AlCrash, AlForm, Resting, Formed, Single
<1> QED BY <1>2, <1>3, <1>4, <1>5, <1>6 DEF AlNext

\* The alerts have the form the code gives them.
LEMMA AlertTypes == AlSpec => []AlTypeOK
<1>1. AlInit => AlForm
  BY AlAssumption DEF AlInit, AlForm, Resting, Formed, Single
<1>2. AlForm => AlTypeOK
  <2> SUFFICES ASSUME AlForm PROVE AlTypeOK
    OBVIOUS
  <2>1. \A a \in alerts : a.id \in 1 .. made.alerts /\ a.status \in {"new", "acknowledged", "resolved"}
    BY DEF AlForm, Formed, AlertForm
  <2>2. \A f \in dismissed : f[2] \in AlConns
    BY DEF AlForm, Incidents
  <2> QED BY <2>1, <2>2 DEF AlTypeOK, AlForm
<1> QED BY <1>1, <1>2, AlFormPreserved, PTL DEF AlSpec

(***************************************************************************)
(* Webhooks.                                                               *)
(***************************************************************************)

Previewed == {"short", "long", "huge", "secret", "shortened"}
Evidence == [id: Nat, hook: Hooks, test: BOOLEAN, ok: BOOLEAN, text: Texts, truncated: BOOLEAN]
Targeting == [pc: {"target"}, hook: Hooks, item: [url: Urls, enabled: BOOLEAN, auth: AuthTypes], request: Requests]
Posting == [pc: {"posting", "recording"}, hook: Hooks, test: BOOLEAN, payload: Previewed, action: Nat, left: Int]
ToldRecord == [pc: {"telling"}, action: Nat \ {0}, status: {"completed", "failed"}]
RouteRecord == {Idle} \cup Targeting \cup Posting \cup ToldRecord
ActionRecord == [status: {"none", "pending", "running", "completed", "failed"}, id: Nat]
SeenForm == [recorded: [Hooks -> Nat], last: Nat, made: Nat, runs: [WhKeys -> Nat], landed: SUBSET Nat]
SpentForm == [writes: Nat, dispatches: Nat, crashes: Nat, faults: Nat, losses: Nat]

\* Deaths and raising writes: what the counters may lag behind the evidence.
Lag == spent.crashes + spent.faults

\* What a route holds, and that no route outlives its process.
WhForm ==
    /\ hooks \in [Hooks -> Webhook \cup {NoHook}]
    /\ ciphers \in {<<>>, Ciphers(FALSE), Ciphers(TRUE)}
    /\ deliveries \subseteq Evidence /\ \A d \in deliveries : d.id \in 1 .. seen.last
    /\ actions \in [WhKeys -> ActionRecord]
    /\ routes \in [WhRoutes -> RouteRecord]
    /\ seen \in SeenForm
    /\ spent \in SpentForm
    /\ ~Up => \A r \in WhRoutes : routes[r] = Idle

LEMMA RouteKnows ==
  ASSUME WhForm, NEW r \in WhRoutes
  PROVE  /\ routes[r].pc = "target" => routes[r] \in Targeting /\ Up
         /\ routes[r].pc \in {"posting", "recording"} => routes[r] \in Posting /\ Up
         /\ routes[r].pc = "telling" => routes[r] \in ToldRecord /\ Up
         /\ Manual(r) => /\ routes[r].request.key \in WhKeys /\ routes[r].request.what \in {"repeat", "redeliver"}
                         /\ routes[r].request.source \in 1 .. Dispatches
<1>1. /\ routes[r].pc = "target" => routes[r] \in Targeting /\ Up
      /\ routes[r].pc \in {"posting", "recording"} => routes[r] \in Posting /\ Up
      /\ routes[r].pc = "telling" => routes[r] \in ToldRecord /\ Up
  BY DEF WhForm, RouteRecord, Idle, Targeting, Posting, ToldRecord
<1>2. Manual(r) => routes[r].request \in [what : {"repeat", "redeliver"}, key : WhKeys, source : 1 .. Dispatches]
  BY <1>1 DEF Manual, Targeting, Requests
<1> QED BY <1>1, <1>2

\* Each bound counts on its own; deaths and raising writes lengthen the lag.
LEMMA SpendForm ==
  ASSUME WhForm
  PROVE  /\ Lag \in Nat
         /\ \A limit : \A what \in {"writes", "dispatches", "losses"} :
              Spend(what, limit) => spent' \in SpentForm /\ Lag' = Lag
         /\ \A limit : \A what \in {"crashes", "faults"} :
              Spend(what, limit) => spent' \in SpentForm /\ Lag' = Lag + 1
         /\ spent' = spent => spent' \in SpentForm /\ Lag' = Lag
<1>0. spent \in SpentForm
  BY DEF WhForm
<1>1. Lag \in Nat /\ (spent' = spent => spent' \in SpentForm /\ Lag' = Lag)
  BY <1>0 DEF SpentForm, Lag
<1>2. ASSUME NEW limit, Spend("writes", limit) \/ Spend("dispatches", limit) \/ Spend("losses", limit)
      PROVE  spent' \in SpentForm /\ Lag' = Lag
  BY <1>0, <1>2 DEF Spend, SpentForm, Lag
<1>3. ASSUME NEW limit, Spend("crashes", limit) \/ Spend("faults", limit)
      PROVE  spent' \in SpentForm /\ Lag' = Lag + 1
  BY <1>0, <1>3 DEF Spend, SpentForm, Lag
<1> QED BY <1>1, <1>2, <1>3

\* The keys of a process: what it encrypts with, it can decrypt.
LEMMA HeadOfCiphers ==
  ASSUME WhForm, Up
  PROVE  Head(ciphers) \in {"configured", "fallback"}
BY DEF WhForm, Up, Ciphers

LEMMA SealedForm ==
  ASSUME NEW hook \in Webhook, NEW order, Head(order) \in {"configured", "fallback"}
  PROVE  /\ Sealed(hook, order) \in Webhook
         /\ Sealed(hook, order).ok = hook.ok /\ Sealed(hook, order).failed = hook.failed
         /\ Sealed(hook, order).secret # NoSecret => Sealed(hook, order).form # "plain"
<1> DEFINE form == IF hook.secret = NoSecret THEN "plain" ELSE Head(order)
<1>1. form \in Forms /\ (hook.secret # NoSecret => form # "plain")
  BY DEF Forms
<1>2. Sealed(hook, order) = [hook EXCEPT !.form = form]
  BY DEF Sealed
<1> HIDE DEF form
<1> QED BY <1>1, <1>2 DEF Webhook

\* An update changes what it is given, and seals the secret.
LEMMA UpdatedForm ==
  ASSUME WhForm, Up, NEW h \in Hooks, Exists(h), NEW url \in Urls, NEW enabled \in BOOLEAN,
         NEW auth \in AuthTypes, NEW given \in Secrets \cup {NoSecret}
  PROVE  /\ Updated(h, url, enabled, auth, given) \in [Hooks -> Webhook \cup {NoHook}]
         /\ Updated(h, url, enabled, auth, given)[h] \in Webhook
         /\ Updated(h, url, enabled, auth, given)[h].ok = hooks[h].ok
         /\ Updated(h, url, enabled, auth, given)[h].failed = hooks[h].failed
         /\ Updated(h, url, enabled, auth, given)[h].secret # NoSecret =>
              Updated(h, url, enabled, auth, given)[h].form # "plain"
         /\ \A g \in Hooks \ {h} : Updated(h, url, enabled, auth, given)[g] = hooks[g]
<1>1. hooks[h] \in Webhook /\ hooks \in [Hooks -> Webhook \cup {NoHook}]
  BY DEF WhForm, Exists
<1> DEFINE secret == Merged(hooks[h], auth, given)
           new == [hooks[h] EXCEPT !.url = url, !.enabled = enabled, !.auth = auth, !.secret = secret]
<1>2. secret \in Secrets \cup {NoSecret}
  BY <1>1 DEF Merged, Webhook
<1>3. Updated(h, url, enabled, auth, given) = [hooks EXCEPT ![h] = Sealed(new, ciphers)]
  BY DEF Updated
<1> HIDE DEF secret
<1>4. new \in Webhook /\ new.ok = hooks[h].ok /\ new.failed = hooks[h].failed
  BY <1>1, <1>2 DEF Webhook
<1> HIDE DEF new
<1>5. /\ Sealed(new, ciphers) \in Webhook /\ Sealed(new, ciphers).ok = new.ok
      /\ Sealed(new, ciphers).failed = new.failed
      /\ Sealed(new, ciphers).secret # NoSecret => Sealed(new, ciphers).form # "plain"
  BY <1>4, SealedForm, HeadOfCiphers
<1> QED BY <1>1, <1>3, <1>4, <1>5

\* A delivery is counted in one of the two counters, or nowhere.
LEMMA CountedForm ==
  ASSUME WhForm, NEW h \in Hooks, NEW ok \in BOOLEAN
  PROVE  /\ Counted(h, ok) \in [Hooks -> Webhook \cup {NoHook}]
         /\ \A g \in Hooks \ {h} : Counted(h, ok)[g] = hooks[g]
         /\ ~Exists(h) => Counted(h, ok)[h] = hooks[h]
         /\ Exists(h) => /\ Counted(h, ok)[h] \in Webhook
                         /\ Counted(h, ok)[h].ok + Counted(h, ok)[h].failed = hooks[h].ok + hooks[h].failed + 1
                         /\ Counted(h, ok)[h].secret = hooks[h].secret /\ Counted(h, ok)[h].form = hooks[h].form
<1>1. CASE ~Exists(h)
  BY <1>1 DEF WhForm, Counted
<1>2. CASE Exists(h)
  <2>1. hooks[h] \in Webhook
    BY <1>2 DEF WhForm, Exists
  <2> DEFINE up == [hooks[h] EXCEPT !.ok = @ + 1]
             down == [hooks[h] EXCEPT !.failed = @ + 1]
  <2>2. /\ up \in Webhook /\ up.ok = hooks[h].ok + 1 /\ up.failed = hooks[h].failed
        /\ up.secret = hooks[h].secret /\ up.form = hooks[h].form
    BY <2>1 DEF Webhook
  <2>3. /\ down \in Webhook /\ down.ok = hooks[h].ok /\ down.failed = hooks[h].failed + 1
        /\ down.secret = hooks[h].secret /\ down.form = hooks[h].form
    BY <2>1 DEF Webhook
  <2>4. hooks[h].ok \in Nat /\ hooks[h].failed \in Nat
    BY <2>1 DEF Webhook
  <2>5. Counted(h, ok) = [hooks EXCEPT ![h] = up] \/ Counted(h, ok) = [hooks EXCEPT ![h] = down]
    BY <1>2 DEF Counted
  <2>6. hooks \in [Hooks -> Webhook \cup {NoHook}]
    BY DEF WhForm
  <2> HIDE DEF up, down
  <2>7. PICK new : /\ new \in Webhook /\ Counted(h, ok) = [hooks EXCEPT ![h] = new]
                   /\ new = up \/ new = down
    BY <2>2, <2>3, <2>5
  <2>8. /\ Counted(h, ok) \in [Hooks -> Webhook \cup {NoHook}] /\ Counted(h, ok)[h] = new
        /\ \A g \in Hooks \ {h} : Counted(h, ok)[g] = hooks[g]
    BY <2>6, <2>7
  <2>9. /\ new.ok + new.failed = hooks[h].ok + hooks[h].failed + 1
        /\ new.secret = hooks[h].secret /\ new.form = hooks[h].form
    BY <2>2, <2>3, <2>4, <2>7
  <2> QED BY <1>2, <2>7, <2>8, <2>9
<1> QED BY <1>1, <1>2

\* The evidence of a delivery.
LEMMA RecordedForm ==
  ASSUME WhForm, NEW r \in WhRoutes, routes[r].pc \in {"posting", "recording"}, NEW ok \in BOOLEAN
  PROVE  Recorded(r, ok) \subseteq Evidence /\ \A d \in Recorded(r, ok) : d.id \in 1 .. seen.last + 1
<1>1. routes[r] \in Posting
  BY RouteKnows
<1>2. routes[r].payload \in Previewed /\ routes[r].hook \in Hooks /\ routes[r].test \in BOOLEAN
  BY <1>1 DEF Posting
<1>3. Preview(routes[r].payload).text \in Texts /\ Preview(routes[r].payload).truncated \in BOOLEAN
  BY <1>2 DEF Preview, Texts, Previewed
<1>4. Delivery(r, ok) \in Evidence /\ Delivery(r, ok).id = seen.last + 1 /\ seen.last \in Nat
  BY <1>2, <1>3 DEF Delivery, Evidence, WhForm, SeenForm
<1> QED BY <1>4 DEF WhForm, Recorded

\* What is noted of a delivery: its row, if that is written, and what has landed.
LEMMA NotedForm ==
  ASSUME WhForm, NEW r \in WhRoutes, routes[r].pc \in {"posting", "recording"},
         NEW recorded \in BOOLEAN, NEW landed \in SUBSET Nat
  PROVE  LET next == Noted(r, recorded, landed) IN
         /\ next \in SeenForm /\ next.made = seen.made /\ next.runs = seen.runs /\ next.landed = landed
         /\ next.last = IF recorded THEN seen.last + 1 ELSE seen.last
         /\ next.recorded = IF recorded THEN [seen.recorded EXCEPT ![routes[r].hook] = @ + 1] ELSE seen.recorded
<1> DEFINE h == routes[r].hook
           counts == IF recorded THEN [seen.recorded EXCEPT ![h] = @ + 1] ELSE seen.recorded
           last == IF recorded THEN seen.last + 1 ELSE seen.last
           next == [recorded |-> counts, last |-> last, made |-> seen.made, runs |-> seen.runs, landed |-> landed]
<1>1. h \in Hooks
  BY RouteKnows DEF Posting
<1>2. seen \in SeenForm
  BY DEF WhForm
<1>3. Noted(r, recorded, landed) = next
  <2>1. CASE recorded
    BY <1>2, <2>1 DEF Noted, SeenForm
  <2>2. CASE ~recorded
    BY <1>2, <2>2 DEF Noted, SeenForm
  <2> QED BY <2>1, <2>2
<1>4. counts \in [Hooks -> Nat]
  BY <1>1, <1>2 DEF SeenForm
<1>5. last \in Nat /\ seen.made \in Nat /\ seen.runs \in [WhKeys -> Nat]
  BY <1>2 DEF SeenForm
<1> HIDE DEF h, counts, last
<1>6. next \in SeenForm
  BY <1>4, <1>5 DEF SeenForm
<1> QED BY <1>3, <1>6 DEF counts, last, h
\* A webhook without plain secrets; counters that agree with the evidence.
SealedHook(hook) == hook.secret # NoSecret => hook.form # "plain"
CountsFit(hook, recorded, lag) ==
    LET counted == hook.ok + hook.failed IN counted <= recorded /\ recorded <= counted + lag
Sealing == Up => \A h \in Hooks : Exists(h) => SealedHook(hooks[h])
Counting == \A h \in Hooks : Exists(h) => CountsFit(hooks[h], seen.recorded[h], Lag)

\* What a change of the configuration leaves: webhooks of the form, sealed, with
\* counters that agree.
HooksFit(next, recorded, lag) ==
    /\ next \in [Hooks -> Webhook \cup {NoHook}]
    /\ \A g \in Hooks : next[g] # NoHook => SealedHook(next[g]) /\ CountsFit(next[g], recorded[g], lag)

LEMMA StartFits ==
  ASSUME WhForm, Counting, NEW configured \in BOOLEAN, Start(configured)
  PROVE  HooksFit(hooks', seen.recorded, Lag)
<1> DEFINE order == Ciphers(configured)
<1>1. hooks' = [h \in Hooks |-> IF Exists(h) THEN Sealed(hooks[h], order) ELSE NoHook]
  BY DEF Start
<1>2. Head(order) \in {"configured", "fallback"}
  BY DEF Ciphers
<1> HIDE DEF order
<1>3. \A h \in Hooks : Exists(h) => hooks[h] \in Webhook
  BY DEF WhForm, Exists
<1>4. ASSUME NEW h \in Hooks, Exists(h)
      PROVE  /\ Sealed(hooks[h], order) \in Webhook /\ SealedHook(Sealed(hooks[h], order))
             /\ CountsFit(Sealed(hooks[h], order), seen.recorded[h], Lag)
  <2>1. /\ Sealed(hooks[h], order) \in Webhook
        /\ Sealed(hooks[h], order).ok = hooks[h].ok /\ Sealed(hooks[h], order).failed = hooks[h].failed
        /\ Sealed(hooks[h], order).secret # NoSecret => Sealed(hooks[h], order).form # "plain"
    BY <1>2, <1>3, <1>4, SealedForm
  <2> QED BY <1>4, <2>1 DEF SealedHook, Counting, CountsFit
<1> QED BY <1>1, <1>4 DEF HooksFit

LEMMA UpdateFits ==
  ASSUME WhForm, Sealing, Counting, Up, NEW h \in Hooks, Exists(h), NEW url \in Urls, NEW enabled \in BOOLEAN,
         NEW auth \in AuthTypes, NEW given \in Secrets \cup {NoSecret}
  PROVE  HooksFit(Updated(h, url, enabled, auth, given), seen.recorded, Lag)
<1> DEFINE next == Updated(h, url, enabled, auth, given)
<1>1. /\ next \in [Hooks -> Webhook \cup {NoHook}] /\ next[h].ok = hooks[h].ok /\ next[h].failed = hooks[h].failed
      /\ next[h].secret # NoSecret => next[h].form # "plain"
      /\ \A g \in Hooks \ {h} : next[g] = hooks[g]
  BY UpdatedForm
<1> HIDE DEF next
<1>2. SealedHook(next[h]) /\ CountsFit(next[h], seen.recorded[h], Lag)
  BY <1>1 DEF SealedHook, Counting, CountsFit
<1>3. ASSUME NEW g \in Hooks \ {h}, next[g] # NoHook
      PROVE  SealedHook(next[g]) /\ CountsFit(next[g], seen.recorded[g], Lag)
  BY <1>1, <1>3 DEF Sealing, Counting, Exists
<1>4. HooksFit(next, seen.recorded, Lag)
  BY <1>1, <1>2, <1>3 DEF HooksFit
<1> QED BY <1>4 DEF next

LEMMA CreateFits ==
  ASSUME WhForm, Sealing, Counting, NEW h \in Hooks, NEW url \in Urls, NEW auth \in AuthTypes,
         NEW given \in Secrets \cup {NoSecret}, Create(h, url, auth, given)
  PROVE  HooksFit(hooks', seen.recorded, Lag)
<1> DEFINE new == [enabled |-> TRUE, url |-> url, auth |-> auth, secret |-> given,
                   form |-> "plain", ok |-> 0, failed |-> 0]
<1>1. hooks' = [hooks EXCEPT ![h] = Sealed(new, ciphers)] /\ Up /\ seen.recorded[h] = 0
  BY DEF Create
<1>2. new \in Webhook /\ new.ok = 0 /\ new.failed = 0
  BY DEF Webhook, Forms
<1> HIDE DEF new
<1>3. /\ Sealed(new, ciphers) \in Webhook /\ Sealed(new, ciphers).ok = 0 /\ Sealed(new, ciphers).failed = 0
      /\ Sealed(new, ciphers).secret # NoSecret => Sealed(new, ciphers).form # "plain"
  BY <1>1, <1>2, HeadOfCiphers, SealedForm
<1>4. Lag \in Nat /\ hooks \in [Hooks -> Webhook \cup {NoHook}]
  BY SpendForm DEF WhForm
<1>5. SealedHook(Sealed(new, ciphers)) /\ CountsFit(Sealed(new, ciphers), seen.recorded[h], Lag)
  BY <1>1, <1>3, <1>4 DEF SealedHook, CountsFit
<1>6. \A g \in Hooks : hooks[g] # NoHook => SealedHook(hooks[g]) /\ CountsFit(hooks[g], seen.recorded[g], Lag)
  BY <1>1 DEF Sealing, Counting, Exists
<1> QED BY <1>1, <1>3, <1>4, <1>5, <1>6 DEF HooksFit

LEMMA SwitchFits ==
  ASSUME WhForm, Sealing, Counting, NEW h \in Hooks, NEW enabled \in BOOLEAN,
         SetEnabled(h, enabled) \/ Delete(h)
  PROVE  HooksFit(hooks', seen.recorded, Lag)
<1>1. hooks \in [Hooks -> Webhook \cup {NoHook}] /\ Up /\ hooks[h] \in Webhook
  BY DEF WhForm, SetEnabled, Delete, Exists
<1> DEFINE new == [hooks[h] EXCEPT !.enabled = enabled]
<1>2. /\ new \in Webhook /\ new.ok = hooks[h].ok /\ new.failed = hooks[h].failed
      /\ new.secret = hooks[h].secret /\ new.form = hooks[h].form
  BY <1>1 DEF Webhook
<1>3. hooks' = [hooks EXCEPT ![h] = new] \/ hooks' = [hooks EXCEPT ![h] = NoHook]
  BY DEF SetEnabled, Delete
<1> HIDE DEF new
<1>4. \A g \in Hooks : hooks[g] # NoHook => SealedHook(hooks[g]) /\ CountsFit(hooks[g], seen.recorded[g], Lag)
  BY <1>1 DEF Sealing, Counting, Exists
<1>5. hooks[h] # NoHook => SealedHook(new) /\ CountsFit(new, seen.recorded[h], Lag)
  BY <1>2, <1>4 DEF SealedHook, CountsFit
<1>6. hooks[h] # NoHook
  BY DEF SetEnabled, Delete, Exists
<1> QED BY <1>1, <1>2, <1>3, <1>4, <1>5, <1>6 DEF HooksFit

\* The row and the counters: both, the row alone or neither, with the lag that leaves.
LEMMA AppendFits ==
  ASSUME WhForm, Sealing, Counting, NEW r \in WhRoutes, routes[r].pc \in {"posting", "recording"},
         NEW ok \in BOOLEAN, NEW extent \in Extents, NEW landed \in SUBSET Nat,
         AppendHistory(r, ok, extent, landed),
         NEW lag \in Nat, lag = IF extent = "both" THEN Lag ELSE Lag + 1
  PROVE  /\ HooksFit(hooks', seen'.recorded, lag)
         /\ deliveries' \subseteq Evidence /\ \A d \in deliveries' : d.id \in 1 .. seen'.last
         /\ seen' \in SeenForm /\ seen'.made = seen.made /\ seen'.runs = seen.runs /\ seen'.landed = landed
<1> DEFINE h == routes[r].hook
           next == Counted(h, ok)
           recorded == seen'.recorded
<1>1. h \in Hooks /\ Up
  BY RouteKnows DEF Posting
<1>2. /\ deliveries' = IF extent # "none" THEN Recorded(r, ok) ELSE deliveries
      /\ hooks' = IF extent = "both" THEN next ELSE hooks
      /\ seen' = Noted(r, extent # "none", landed)
  BY DEF AppendHistory
<1>3. /\ seen' \in SeenForm /\ seen'.made = seen.made /\ seen'.runs = seen.runs /\ seen'.landed = landed
      /\ seen'.last = IF extent # "none" THEN seen.last + 1 ELSE seen.last
      /\ recorded = IF extent # "none" THEN [seen.recorded EXCEPT ![h] = @ + 1] ELSE seen.recorded
  BY <1>2, NotedForm
<1>4. deliveries' \subseteq Evidence /\ \A d \in deliveries' : d.id \in 1 .. seen'.last
  <2>1. CASE extent = "none"
    BY <1>2, <1>3, <2>1 DEF WhForm
  <2>2. CASE extent # "none"
    BY <1>2, <1>3, <2>2, RecordedForm
  <2> QED BY <2>1, <2>2
<1>5. /\ next \in [Hooks -> Webhook \cup {NoHook}]
      /\ \A g \in Hooks \ {h} : next[g] = hooks[g]
      /\ ~Exists(h) => next[h] = hooks[h]
      /\ Exists(h) => /\ next[h] \in Webhook
                      /\ next[h].ok + next[h].failed = hooks[h].ok + hooks[h].failed + 1
                      /\ next[h].secret = hooks[h].secret /\ next[h].form = hooks[h].form
  BY <1>1, CountedForm
<1> HIDE DEF h, next, recorded
<1>6. /\ \A g \in Hooks \ {h} : recorded[g] = seen.recorded[g]
      /\ recorded[h] = IF extent # "none" THEN seen.recorded[h] + 1 ELSE seen.recorded[h]
      /\ seen.recorded \in [Hooks -> Nat] /\ Lag \in Nat
  BY <1>1, <1>3, SpendForm DEF WhForm, SeenForm
<1>7. hooks \in [Hooks -> Webhook \cup {NoHook}]
  BY DEF WhForm
<1>8. \A g \in Hooks : Exists(g) =>
         /\ hooks[g].ok \in Nat /\ hooks[g].failed \in Nat
         /\ SealedHook(hooks[g]) /\ CountsFit(hooks[g], seen.recorded[g], Lag)
  BY <1>1, <1>7 DEF Exists, Sealing, Counting, Webhook
<1>9. CASE extent = "both"
  <2>1. ASSUME NEW g \in Hooks, next[g] # NoHook
        PROVE  SealedHook(next[g]) /\ CountsFit(next[g], recorded[g], Lag)
    <3>1. Exists(g)
      BY <1>5, <2>1 DEF Exists
    <3>2. CASE g = h
      <4>1. SealedHook(next[g])
        BY <1>5, <1>8, <3>1, <3>2 DEF SealedHook
      <4>2. next[g].ok + next[g].failed = hooks[g].ok + hooks[g].failed + 1 /\ recorded[g] = seen.recorded[g] + 1
        BY <1>5, <1>6, <1>9, <3>1, <3>2
      <4> QED BY <1>6, <1>8, <3>1, <4>1, <4>2 DEF CountsFit
    <3>3. CASE g # h
      BY <1>5, <1>6, <1>8, <3>1, <3>3 DEF CountsFit
    <3> QED BY <3>2, <3>3
  <2>2. HooksFit(next, recorded, Lag)
    BY <1>5, <2>1 DEF HooksFit
  <2> QED BY <1>2, <1>3, <1>4, <1>9, <2>2 DEF recorded
<1>10. CASE extent # "both"
  <2>1. ASSUME NEW g \in Hooks, Exists(g)
        PROVE  SealedHook(hooks[g]) /\ CountsFit(hooks[g], recorded[g], Lag + 1)
    BY <1>6, <1>8, <2>1 DEF CountsFit
  <2>2. HooksFit(hooks, recorded, Lag + 1)
    BY <1>7, <2>1 DEF HooksFit, Exists
  <2> QED BY <1>2, <1>3, <1>4, <1>10, <2>2 DEF recorded
<1> QED BY <1>9, <1>10

\* The action a route dispatches, 0 for none.  The three parts of Acting: what an
\* action says; that no two keys share one; that a route alone dispatches its action,
\* which says that it is running as long as it is kept.
ActionOf(route) == IF route.pc \in {"posting", "recording", "telling"} THEN route.action ELSE 0
KeyFits(k) ==
    /\ seen.runs[k] = IF actions[k].status \in {"none", "pending"} THEN 0 ELSE 1
    /\ actions[k].id <= seen.made
    /\ actions[k].status = "none" <=> actions[k].id = 0
    /\ actions[k].status = "completed" => actions[k].id \in seen.landed
    /\ actions[k].status = "running" => Lag > 0 \/ \E r \in WhRoutes : ActionOf(routes[r]) = actions[k].id
RouteFits(r) ==
    LET n == ActionOf(routes[r]) IN n # 0 =>
        /\ n <= seen.made
        /\ \A k \in WhKeys : actions[k].id = n => actions[k].status = "running"
        /\ routes[r].pc = "telling" /\ routes[r].status = "completed" => n \in seen.landed
        /\ \A s \in WhRoutes : ActionOf(routes[s]) = n => s = r
Acting ==
    /\ \A k \in WhKeys : KeyFits(k)
    /\ \A j, k \in WhKeys : actions[j].id = actions[k].id /\ actions[j].id # 0 => j = k
    /\ \A r \in WhRoutes : RouteFits(r)
    /\ \A n \in seen.landed : 0 < n /\ n <= seen.made

LEMMA ActionOfForm ==
  ASSUME NEW route \in RouteRecord
  PROVE  ActionOf(route) \in Nat
BY DEF ActionOf, RouteRecord, Idle, Targeting, Posting, ToldRecord

\* A route that turns: it keeps its action, or gives up one that a death or a raising
\* write may leave running.
LEMMA RouteTurns ==
  ASSUME WhForm, Acting, NEW r \in WhRoutes, NEW route \in RouteRecord,
         routes' = [routes EXCEPT ![r] = route], actions' = actions,
         seen'.made = seen.made, seen'.runs = seen.runs, seen.landed \subseteq seen'.landed,
         \A n \in seen'.landed \ seen.landed : n # 0 /\ n = ActionOf(routes[r]),
         Lag' \in Nat, Lag <= Lag',
         \/ ActionOf(route) = ActionOf(routes[r])
         \/ ActionOf(route) = 0 /\ Lag' > 0,
         route.pc = "telling" /\ route.status = "completed" => route.action \in seen'.landed
  PROVE  routes' \in [WhRoutes -> RouteRecord] /\ Acting'
<1>1. /\ routes' \in [WhRoutes -> RouteRecord] /\ routes'[r] = route
      /\ \A s \in WhRoutes \ {r} : routes'[s] = routes[s]
  BY DEF WhForm
<1>2. /\ \A s \in WhRoutes : ActionOf(routes[s]) \in Nat /\ ActionOf(routes'[s]) \in Nat
      /\ Lag \in Nat /\ seen.made \in Nat
  BY <1>1, ActionOfForm, SpendForm DEF WhForm, SeenForm
<1>3. \A s \in WhRoutes : ActionOf(routes'[s]) \in {0, ActionOf(routes[s])}
  BY <1>1
<1>4. \A s \in WhRoutes : RouteFits(s)
  BY DEF Acting
<1>5. ASSUME NEW k \in WhKeys
      PROVE  KeyFits(k)'
  <2>1. KeyFits(k)
    BY DEF Acting
  <2>2. actions[k].status = "running" =>
           Lag' > 0 \/ \E s \in WhRoutes : ActionOf(routes'[s]) = actions[k].id
    <3> SUFFICES ASSUME actions[k].status = "running", ~(Lag' > 0)
                 PROVE  \E s \in WhRoutes : ActionOf(routes'[s]) = actions[k].id
      OBVIOUS
    <3>1. PICK s \in WhRoutes : ActionOf(routes[s]) = actions[k].id
      BY <1>2, <2>1 DEF KeyFits
    <3>2. ActionOf(routes'[s]) = ActionOf(routes[s])
      BY <1>1
    <3> QED BY <3>1, <3>2
  <2> QED BY <2>1, <2>2 DEF KeyFits
<1>6. ASSUME NEW s \in WhRoutes
      PROVE  RouteFits(s)'
  <2> SUFFICES ASSUME ActionOf(routes'[s]) # 0
               PROVE  /\ ActionOf(routes'[s]) <= seen'.made
                      /\ \A k \in WhKeys : actions'[k].id = ActionOf(routes'[s]) => actions'[k].status = "running"
                      /\ routes'[s].pc = "telling" /\ routes'[s].status = "completed" => ActionOf(routes'[s]) \in seen'.landed
                      /\ \A q \in WhRoutes : ActionOf(routes'[q]) = ActionOf(routes'[s]) => q = s
    BY DEF RouteFits
  <2>1. ActionOf(routes'[s]) = ActionOf(routes[s])
    BY <1>3
  <2>2. \A q \in WhRoutes : ActionOf(routes'[q]) = ActionOf(routes'[s]) => ActionOf(routes[q]) = ActionOf(routes[s])
    BY <1>3, <2>1
  <2>3. routes'[s].pc = "telling" /\ routes'[s].status = "completed" => ActionOf(routes'[s]) \in seen'.landed
    <3>1. CASE s = r
      BY <1>1, <3>1 DEF ActionOf
    <3>2. CASE s # r
      BY <1>1, <1>4, <2>1, <3>2 DEF RouteFits
    <3> QED BY <3>1, <3>2
  <2>4. RouteFits(s)
    BY <1>4
  <2> QED BY <2>1, <2>2, <2>3, <2>4 DEF RouteFits
<1>7. \A n \in seen'.landed : 0 < n /\ n <= seen'.made
  <2> SUFFICES ASSUME NEW n \in seen'.landed, n \notin seen.landed PROVE 0 < n /\ n <= seen.made
    BY DEF Acting
  <2>1. n # 0 /\ n = ActionOf(routes[r]) /\ n \in Nat
    BY <1>2
  <2> QED BY <1>2, <1>4, <2>1 DEF RouteFits
<1> QED BY <1>1, <1>5, <1>6, <1>7 DEF Acting

\* The store keeps the newest actions as they are, and the one just made among them.
LEMMA MadeKeeps ==
  ASSUME WhForm, Acting, NEW k \in WhKeys, NEW status \in {"pending", "running"}
  PROVE  /\ Made(k, status) \in [WhKeys -> ActionRecord]
         /\ Made(k, status)[k].status = status /\ Made(k, status)[k].id = seen.made + 1
         /\ \A j \in WhKeys \ {k} : \/ Made(k, status)[j] = actions[j]
                                    \/ Made(k, status)[j].status = "none" /\ Made(k, status)[j].id = 0
<1> DEFINE act == [status |-> status, id |-> seen.made + 1]
           acts == [actions EXCEPT ![k] = act]
<1>1. seen.made \in Nat /\ actions \in [WhKeys -> ActionRecord]
  BY DEF WhForm, SeenForm
<1>2. act \in ActionRecord /\ act.status = status /\ act.id = seen.made + 1
  BY <1>1 DEF ActionRecord
<1>3. NoAction \in ActionRecord /\ NoAction.status = "none" /\ NoAction.id = 0
  BY DEF NoAction, ActionRecord
<1>4. Made(k, status) = [j \in WhKeys |-> IF Cardinality({i \in WhKeys : acts[i].id > acts[j].id}) < ActionsKept
                                          THEN acts[j] ELSE NoAction]
  BY DEF Made, Newest
<1> HIDE DEF act
<1>5. acts \in [WhKeys -> ActionRecord] /\ acts[k] = act /\ \A j \in WhKeys \ {k} : acts[j] = actions[j]
  BY <1>1, <1>2
<1> HIDE DEF acts
<1>6. {i \in WhKeys : acts[i].id > acts[k].id} = {}
  <2> SUFFICES ASSUME NEW i \in WhKeys PROVE ~(acts[i].id > acts[k].id)
    OBVIOUS
  <2>1. actions[i].id <= seen.made /\ actions[i].id \in Nat
    BY <1>1 DEF Acting, KeyFits, ActionRecord
  <2> QED BY <1>1, <1>2, <1>5, <2>1
<1>7. Made(k, status)[k] = act
  BY <1>4, <1>5, <1>6, FS_EmptySet, WhAssumption
<1> QED BY <1>2, <1>3, <1>4, <1>5, <1>7

LEMMA NewestKeeps ==
  ASSUME WhForm, NEW limit
  PROVE  /\ Newest(actions, limit) \in [WhKeys -> ActionRecord]
         /\ \A j \in WhKeys : \/ Newest(actions, limit)[j] = actions[j]
                              \/ Newest(actions, limit)[j].status = "none" /\ Newest(actions, limit)[j].id = 0
<1>1. NoAction \in ActionRecord /\ NoAction.status = "none" /\ NoAction.id = 0
  BY DEF NoAction, ActionRecord
<1>2. actions \in [WhKeys -> ActionRecord]
  BY DEF WhForm
<1> QED BY <1>1, <1>2 DEF Newest

\* The requests that hold no action, and the dispatches they start.
LEMMA RequestsTurn ==
  ASSUME WhForm, Acting, NEW r \in WhRoutes,
         \/ \E h \in Hooks, q \in Requests : Ask(r, h, q)
         \/ \E h \in Hooks, p \in Payloads : Forward(r, h, p)
         \/ \E p \in Payloads : Test(r, p)
         \/ Patch(r) \/ Answer(r)
  PROVE  routes' \in [WhRoutes -> RouteRecord] /\ Acting' /\ spent' \in SpentForm /\ Lag' = Lag
<1>0. Payloads \subseteq Previewed /\ Attempts \in Int
  BY WhAssumption DEF Previewed
<1>1. UNCHANGED <<actions, seen>> /\ (spent' = spent \/ Spend("dispatches", Dispatches))
  BY DEF Ask, Forward, Test, Patch, Answer
<1>2. spent' \in SpentForm /\ Lag' = Lag /\ Lag \in Nat
  BY <1>1, SpendForm
<1>3. ActionOf(routes[r]) = 0
  <2>1. routes[r] = Idle \/ routes[r].pc = "target"
    BY DEF Ask, Forward, Test, Patch, Answer, Manual
  <2> QED BY <2>1 DEF Idle, ActionOf
<1>4. \E route \in RouteRecord : /\ routes' = [routes EXCEPT ![r] = route] /\ ActionOf(route) = 0
                                 /\ route.pc # "telling"
  <2>1. CASE \E h \in Hooks, q \in Requests : Ask(r, h, q)
    <3>1. PICK h \in Hooks, q \in Requests : Ask(r, h, q)
      BY <2>1
    <3> DEFINE route == [pc |-> "target", hook |-> h, item |-> Configuration(h), request |-> q]
    <3>2. hooks[h] \in Webhook
      BY <3>1 DEF WhForm, Ask, Exists
    <3>3. Configuration(h) \in [url: Urls, enabled: BOOLEAN, auth: AuthTypes]
      BY <3>2 DEF Configuration, Webhook
    <3>4. route \in Targeting /\ route.pc = "target"
      BY <3>3 DEF Targeting
    <3>5. routes' = [routes EXCEPT ![r] = route]
      BY <3>1 DEF Ask
    <3> HIDE DEF route
    <3> QED BY <3>4, <3>5 DEF RouteRecord, ActionOf
  <2>2. CASE \E h \in Hooks, p \in Payloads : Forward(r, h, p)
    <3>1. PICK h \in Hooks, p \in Payloads : Forward(r, h, p)
      BY <2>2
    <3> DEFINE route == [pc |-> "posting", hook |-> h, test |-> FALSE, payload |-> p, action |-> 0, left |-> Attempts]
    <3>2. route \in Posting /\ route.action = 0 /\ route.pc = "posting"
      BY <1>0 DEF Posting
    <3>3. routes' = [routes EXCEPT ![r] = route]
      BY <3>1 DEF Forward
    <3> HIDE DEF route
    <3> QED BY <3>2, <3>3 DEF RouteRecord, ActionOf
  <2>3. CASE \E p \in Payloads : Test(r, p)
    <3>1. PICK p \in Payloads : Test(r, p)
      BY <2>3
    <3>2. routes[r].hook \in Hooks
      BY <3>1, RouteKnows DEF Test, Targeting
    <3> DEFINE route == Dispatching(r, TRUE, p, 0)
    <3>3. route \in Posting /\ route.action = 0 /\ route.pc = "posting"
      BY <1>0, <3>2 DEF Posting, Dispatching
    <3>4. routes' = [routes EXCEPT ![r] = route]
      BY <3>1 DEF Test
    <3> HIDE DEF route
    <3> QED BY <3>3, <3>4 DEF RouteRecord, ActionOf
  <2>4. CASE Patch(r) \/ Answer(r)
    <3>1. routes' = [routes EXCEPT ![r] = Idle]
      BY <2>4 DEF Patch, Answer
    <3>2. Idle \in RouteRecord /\ ActionOf(Idle) = 0 /\ Idle.pc # "telling"
      BY DEF RouteRecord, ActionOf, Idle
    <3> QED BY <3>1, <3>2
  <2> QED BY <2>1, <2>2, <2>3, <2>4
<1>5. PICK route \in RouteRecord : routes' = [routes EXCEPT ![r] = route] /\ ActionOf(route) = 0 /\ route.pc # "telling"
  BY <1>4
<1>6. routes' \in [WhRoutes -> RouteRecord] /\ Acting'
  <2>1. seen' = seen /\ actions' = actions /\ ActionOf(route) = ActionOf(routes[r]) /\ Lag <= Lag' /\ Lag' \in Nat
    BY <1>1, <1>2, <1>3, <1>5
  <2> QED BY <1>5, <2>1, RouteTurns
<1> QED BY <1>2, <1>6

\* A request makes an action: running and held by its route alone, or pending and held
\* by none.
LEMMA MakingTurns ==
  ASSUME WhForm, Acting, NEW r \in WhRoutes, NEW k \in WhKeys, NEW status \in {"pending", "running"},
         NEW route \in RouteRecord, route.pc # "telling",
         ActionOf(route) = IF status = "running" THEN seen.made + 1 ELSE 0,
         ActionOf(routes[r]) = 0, routes' = [routes EXCEPT ![r] = route],
         actions' = Made(k, status), seen'.made = seen.made + 1, seen'.landed = seen.landed,
         actions[k].status = "none",
         seen'.runs = Runs(Made(k, status), IF status = "running" THEN [seen.runs EXCEPT ![k] = @ + 1] ELSE seen.runs),
         Lag' \in Nat, Lag <= Lag'
  PROVE  routes' \in [WhRoutes -> RouteRecord] /\ Acting'
<1> DEFINE n == seen.made + 1
<1>1. /\ actions' \in [WhKeys -> ActionRecord] /\ actions'[k].status = status /\ actions'[k].id = n
      /\ \A j \in WhKeys \ {k} : actions'[j] = actions[j] \/ (actions'[j].status = "none" /\ actions'[j].id = 0)
  BY MadeKeeps
<1>2. /\ routes' \in [WhRoutes -> RouteRecord] /\ routes'[r] = route
      /\ \A s \in WhRoutes \ {r} : routes'[s] = routes[s]
  BY DEF WhForm
<1>3. /\ seen.made \in Nat /\ n \in Nat /\ n > seen.made /\ Lag \in Nat
      /\ actions \in [WhKeys -> ActionRecord] /\ seen.runs \in [WhKeys -> Nat]
  <2>1. Lag \in Nat
    BY SpendForm
  <2>2. seen.made \in Nat /\ seen.runs \in [WhKeys -> Nat] /\ actions \in [WhKeys -> ActionRecord]
    BY DEF WhForm, SeenForm
  <2> QED BY <2>1, <2>2
<1>4. \A j \in WhKeys : KeyFits(j) /\ actions[j].id \in Nat
  BY <1>3 DEF Acting, ActionRecord
<1>5. \A s \in WhRoutes : RouteFits(s) /\ ActionOf(routes[s]) \in Nat
  BY ActionOfForm DEF Acting, WhForm
<1>6. \A s \in WhRoutes : ActionOf(routes[s]) <= seen.made
  BY <1>3, <1>5 DEF RouteFits
<1>7. \A j \in WhKeys : seen'.runs[j] = IF actions'[j].status = "none" THEN 0
                                        ELSE IF j = k /\ status = "running" THEN seen.runs[j] + 1 ELSE seen.runs[j]
  BY <1>3 DEF Runs
<1> HIDE DEF n
<1>8. ASSUME NEW j \in WhKeys
      PROVE  KeyFits(j)'
  <2>1. CASE j = k
    <3>1. seen.runs[k] = 0
      BY <1>4 DEF KeyFits
    <3>2. seen'.runs[k] = IF status = "running" THEN 1 ELSE 0
      BY <1>1, <1>7, <3>1
    <3>3. status = "running" => ActionOf(routes'[r]) = n
      BY <1>2 DEF n
    <3>4. n <= seen'.made /\ n # 0
      BY <1>3 DEF n
    <3> QED BY <1>1, <2>1, <3>2, <3>3, <3>4 DEF KeyFits
  <2>2. CASE j # k /\ actions'[j] = actions[j]
    <3>1. KeyFits(j) /\ actions[j].id \in Nat
      BY <1>4
    <3>2. seen'.runs[j] = seen.runs[j]
      BY <1>7, <2>2, <3>1 DEF KeyFits
    <3>3. actions[j].status = "running" => Lag' > 0 \/ \E s \in WhRoutes : ActionOf(routes'[s]) = actions[j].id
      <4> SUFFICES ASSUME actions[j].status = "running", ~(Lag' > 0)
                   PROVE  \E s \in WhRoutes : ActionOf(routes'[s]) = actions[j].id
        OBVIOUS
      <4>1. PICK s \in WhRoutes : ActionOf(routes[s]) = actions[j].id
        BY <1>3, <3>1 DEF KeyFits
      <4>2. actions[j].id # 0
        BY <3>1 DEF KeyFits
      <4>3. s # r
        BY <4>1, <4>2
      <4> QED BY <1>2, <4>1, <4>3
    <3>4. actions[j].id <= seen'.made
      BY <1>3, <3>1 DEF KeyFits
    <3> QED BY <2>2, <3>1, <3>2, <3>3, <3>4 DEF KeyFits
  <2>3. CASE j # k /\ actions'[j].status = "none" /\ actions'[j].id = 0
    BY <1>3, <1>7, <2>3 DEF KeyFits
  <2> QED BY <1>1, <2>1, <2>2, <2>3
<1>9. \A i, j \in WhKeys : actions'[i].id = actions'[j].id /\ actions'[i].id # 0 => i = j
  <2>1. \A j \in WhKeys \ {k} : actions'[j].id # 0 => actions'[j] = actions[j] /\ actions'[j].id # n
    BY <1>1, <1>3, <1>4 DEF KeyFits
  <2> QED BY <1>1, <2>1 DEF Acting
<1>10. ASSUME NEW s \in WhRoutes
       PROVE  RouteFits(s)'
  <2>1. CASE s = r
    <3>1. CASE status = "running"
      <4>1. ActionOf(routes'[s]) = n /\ n <= seen'.made /\ routes'[s].pc # "telling"
        BY <1>2, <1>3, <2>1, <3>1 DEF n
      <4>2. \A j \in WhKeys : actions'[j].id = n => j = k
        BY <1>1, <1>3, <1>9
      <4>3. \A q \in WhRoutes : ActionOf(routes'[q]) = n => q = s
        <5>1. \A q \in WhRoutes \ {r} : ActionOf(routes'[q]) <= seen.made /\ ActionOf(routes'[q]) \in Nat
          BY <1>2, <1>5, <1>6
        <5> QED BY <1>3, <2>1, <5>1
      <4> QED BY <1>1, <3>1, <4>1, <4>2, <4>3 DEF RouteFits
    <3>2. CASE status # "running"
      BY <1>2, <2>1, <3>2 DEF RouteFits
    <3> QED BY <3>1, <3>2
  <2>2. CASE s # r
    <3> SUFFICES ASSUME ActionOf(routes'[s]) # 0 PROVE RouteFits(s)'
      BY DEF RouteFits
    <3>1. /\ routes'[s] = routes[s] /\ RouteFits(s) /\ ActionOf(routes[s]) # 0 /\ ActionOf(routes[s]) \in Nat
          /\ ActionOf(routes[s]) # n
      BY <1>2, <1>3, <1>5, <1>6, <2>2
    <3>2. ASSUME NEW j \in WhKeys, actions'[j].id = ActionOf(routes[s]) PROVE actions'[j].status = "running"
      <4>1. j # k /\ actions'[j] = actions[j]
        BY <1>1, <3>1, <3>2
      <4> QED BY <3>1, <3>2, <4>1 DEF RouteFits
    <3>3. ASSUME NEW q \in WhRoutes, ActionOf(routes'[q]) = ActionOf(routes[s]) PROVE q = s
      <4>1. q # r
        BY <1>2, <3>1, <3>3 DEF n
      <4> QED BY <1>2, <3>1, <3>3, <4>1 DEF RouteFits
    <3>4. ActionOf(routes[s]) <= seen'.made
      BY <1>3, <1>6, <3>1
    <3> QED BY <3>1, <3>2, <3>3, <3>4 DEF RouteFits
  <2> QED BY <2>1, <2>2
<1>11. \A m \in seen'.landed : 0 < m /\ m <= seen'.made
  <2>1. \A m \in seen.landed : m \in Nat
    BY DEF WhForm, SeenForm
  <2> QED BY <1>3, <2>1 DEF Acting
<1> QED BY <1>2, <1>8, <1>9, <1>10, <1>11 DEF Acting

\* What the first request with a key starts is a delivery of its own, held by it.
LEMMA BeginTurns ==
  ASSUME WhForm, Acting, NEW r \in WhRoutes, Begin(r) \/ BeginFails(r)
  PROVE  /\ routes' \in [WhRoutes -> RouteRecord] /\ Acting' /\ actions' \in [WhKeys -> ActionRecord]
         /\ seen' \in SeenForm /\ seen'.recorded = seen.recorded /\ seen'.last = seen.last
         /\ spent' \in SpentForm /\ Lag' \in Nat /\ Lag <= Lag'
<1> DEFINE status == IF Begin(r) THEN "running" ELSE "pending"
           n == seen.made + 1
<1>1. PICK k \in WhKeys : k = routes[r].request.key
  BY RouteKnows DEF Begin, BeginFails
<1>2. actions[k].status = "none" /\ routes[r].pc = "target" /\ ActionOf(routes[r]) = 0
  BY <1>1 DEF Begin, BeginFails, Manual, IsFirst, ActionOf
<1>3. Spend("dispatches", Dispatches) \/ Spend("faults", WhFaults)
  BY DEF Begin, BeginFails
<1>4. spent' \in SpentForm /\ Lag' \in Nat /\ Lag <= Lag'
  <2>1. /\ Lag \in Nat /\ (Spend("dispatches", Dispatches) => spent' \in SpentForm /\ Lag' = Lag)
        /\ (Spend("faults", WhFaults) => spent' \in SpentForm /\ Lag' = Lag + 1)
    BY SpendForm
  <2> QED BY <1>3, <2>1
<1> DEFINE runs == IF status = "running" THEN [seen.runs EXCEPT ![k] = @ + 1] ELSE seen.runs
           noted == Runs(Made(k, status), runs)
<1>5. seen \in SeenForm /\ n \in Nat
  BY DEF WhForm, SeenForm
<1>6. noted \in [WhKeys -> Nat]
  <2>1. runs \in [WhKeys -> Nat]
    BY <1>5 DEF SeenForm
  <2> HIDE DEF runs
  <2> QED BY <2>1 DEF Runs
<1>7. actions' = Made(k, status) /\ seen' = [seen EXCEPT !.made = n, !.runs = noted]
  <2>1. CASE Begin(r)
    <3>1. /\ actions' = Made(k, "running")
          /\ seen' = [seen EXCEPT !.made = @ + 1, !.runs = Runs(Made(k, "running"), [seen.runs EXCEPT ![k] = @ + 1])]
      BY <1>1, <2>1 DEF Begin
    <3>2. status = "running"
      BY <2>1
    <3> QED BY <3>1, <3>2
  <2>2. CASE ~Begin(r)
    <3>1. /\ actions' = Made(k, "pending")
          /\ seen' = [seen EXCEPT !.made = @ + 1, !.runs = Runs(Made(k, "pending"), @)]
      BY <1>1, <2>2 DEF BeginFails
    <3>2. status = "pending"
      BY <2>2
    <3> QED BY <3>1, <3>2
  <2> QED BY <2>1, <2>2
<1>8. \E route \in RouteRecord : /\ routes' = [routes EXCEPT ![r] = route] /\ route.pc # "telling"
                                 /\ ActionOf(route) = IF status = "running" THEN n ELSE 0
  <2>1. CASE Begin(r)
    <3>1. PICK d \in Sources(r) : routes' = [routes EXCEPT ![r] = Dispatching(r, d.test, Redelivered(d), n)]
      BY <2>1 DEF Begin
    <3>2. d \in Evidence /\ (d.test \/ Reconstructible(d))
      BY DEF Sources, WhForm
    <3>3. Redelivered(d) \in Previewed /\ d.test \in BOOLEAN /\ Attempts \in Int /\ routes[r].hook \in Hooks
      <4>1. d.test \in BOOLEAN /\ d.text \in Texts
        BY <3>2 DEF Evidence
      <4>2. Redelivered(d) \in Previewed
        BY <3>2, <4>1 DEF Texts, Previewed, Reconstructible, Redelivered
      <4> QED BY <1>2, <4>1, <4>2, WhAssumption, RouteKnows DEF Targeting
    <3> DEFINE payload == Redelivered(d)
               route == Dispatching(r, d.test, payload, n)
    <3> HIDE DEF payload
    <3>4. route \in Posting /\ route.pc = "posting" /\ route.action = n
      BY <1>5, <3>3 DEF Posting, Dispatching, payload
    <3>5. routes' = [routes EXCEPT ![r] = route]
      BY <3>1 DEF payload
    <3> HIDE DEF route, n
    <3>6. route \in RouteRecord /\ ActionOf(route) = n /\ route.pc # "telling"
      BY <3>4 DEF RouteRecord, ActionOf
    <3> QED BY <2>1, <3>5, <3>6
  <2>2. CASE ~Begin(r)
    <3>1. routes' = [routes EXCEPT ![r] = Idle]
      BY <2>2 DEF BeginFails
    <3>2. Idle \in RouteRecord /\ ActionOf(Idle) = 0 /\ Idle.pc # "telling"
      BY DEF RouteRecord, ActionOf, Idle
    <3> QED BY <2>2, <3>1, <3>2
  <2> QED BY <2>1, <2>2
<1> HIDE DEF noted, n
<1>9. /\ seen' \in SeenForm /\ seen'.recorded = seen.recorded /\ seen'.last = seen.last /\ seen'.landed = seen.landed
      /\ seen'.made = n /\ seen'.runs = noted
  BY <1>5, <1>6, <1>7 DEF SeenForm
<1>10. PICK route \in RouteRecord : /\ routes' = [routes EXCEPT ![r] = route] /\ route.pc # "telling"
                                    /\ ActionOf(route) = IF status = "running" THEN n ELSE 0
  BY <1>8
<1>11. status \in {"pending", "running"}
  OBVIOUS
<1> HIDE DEF status
<1>12. routes' \in [WhRoutes -> RouteRecord] /\ Acting'
  BY <1>2, <1>4, <1>7, <1>9, <1>10, <1>11, MakingTurns DEF n, noted
<1>13. actions' \in [WhKeys -> ActionRecord]
  BY <1>7, <1>11, MadeKeeps
<1> QED BY <1>4, <1>9, <1>12, <1>13

\* Nothing but the action of the route lands, and what is accepted has landed.
LEMMA LandedForm ==
  ASSUME WhForm, NEW r \in WhRoutes, routes[r].pc = "posting", NEW outcome \in Outcomes
  PROVE  /\ Landed(r, outcome) \in SUBSET Nat /\ seen.landed \subseteq Landed(r, outcome)
         /\ \A n \in Landed(r, outcome) \ seen.landed : n # 0 /\ n = ActionOf(routes[r])
         /\ outcome = "accepted" /\ routes[r].action # 0 => routes[r].action \in Landed(r, outcome)
<1>1. routes[r].action \in Nat
  BY RouteKnows DEF Posting
<1>2. seen.landed \in SUBSET Nat
  BY DEF WhForm, SeenForm
<1> QED BY <1>1, <1>2 DEF Landed, Lands, ActionOf

\* The next attempt is of the same action.
LEMMA RetryTurns ==
  ASSUME WhForm, Acting, NEW r \in WhRoutes, NEW outcome \in Outcomes, Retry(r, outcome)
  PROVE  /\ routes' \in [WhRoutes -> RouteRecord] /\ Acting'
         /\ seen' \in SeenForm /\ seen'.recorded = seen.recorded /\ seen'.last = seen.last
<1>1. routes[r].pc = "posting" /\ routes[r] \in Posting
  BY RouteKnows DEF Retry
<1> DEFINE left == routes[r].left - 1
           route == [routes[r] EXCEPT !.left = left]
           landed == Landed(r, outcome)
<1>2. left \in Int
  BY <1>1 DEF Posting
<1>3. routes' = [routes EXCEPT ![r] = route] /\ seen' = [seen EXCEPT !.landed = landed]
  BY DEF Retry
<1>4. actions' = actions /\ spent' = spent
  BY DEF Retry
<1> HIDE DEF left
<1>5. route \in Posting /\ route.pc = "posting" /\ route.action = routes[r].action
  BY <1>1, <1>2 DEF Posting
<1> HIDE DEF route
<1>6. route \in RouteRecord /\ ActionOf(route) = ActionOf(routes[r]) /\ route.pc # "telling"
  BY <1>1, <1>5 DEF RouteRecord, ActionOf
<1>7. /\ landed \in SUBSET Nat /\ seen.landed \subseteq landed
      /\ \A n \in landed \ seen.landed : n # 0 /\ n = ActionOf(routes[r])
  BY <1>1, LandedForm
<1> HIDE DEF landed
<1>8. seen' \in SeenForm /\ seen'.recorded = seen.recorded /\ seen'.last = seen.last /\ seen'.runs = seen.runs
      /\ seen'.landed = landed /\ seen'.made = seen.made
  BY <1>3, <1>7 DEF SeenForm, WhForm
<1>9. Lag' \in Nat /\ Lag <= Lag'
  BY <1>4, SpendForm
<1>10. routes' \in [WhRoutes -> RouteRecord] /\ Acting'
  BY <1>3, <1>4, <1>6, <1>7, <1>8, <1>9, RouteTurns
<1> QED BY <1>8, <1>10

\* What is left to do holds the action still.
LEMMA TellingForm ==
  ASSUME WhForm, NEW r \in WhRoutes, routes[r].pc \in {"posting", "recording"},
         NEW status \in {"completed", "failed"}
  PROVE  /\ Telling(r, status) \in RouteRecord /\ ActionOf(Telling(r, status)) = ActionOf(routes[r])
         /\ Telling(r, status).pc = "telling" => /\ Telling(r, status).status = status /\ routes[r].action # 0
                                                 /\ Telling(r, status).action = routes[r].action
<1>1. routes[r].action \in Nat /\ ActionOf(routes[r]) = routes[r].action
  BY RouteKnows DEF Posting, ActionOf
<1>2. CASE routes[r].action = 0
  BY <1>1, <1>2 DEF Telling, RouteRecord, Idle, ActionOf
<1>3. CASE routes[r].action # 0
  <2> DEFINE n == routes[r].action
             route == [pc |-> "telling", action |-> n, status |-> status]
  <2>1. Telling(r, status) = route
    BY <1>3 DEF Telling
  <2>2. n \in Nat \ {0}
    BY <1>1, <1>3
  <2> HIDE DEF n
  <2>3. route \in ToldRecord /\ route.pc = "telling" /\ route.status = status /\ route.action = n
    BY <2>2 DEF ToldRecord
  <2> HIDE DEF route
  <2>4. route \in RouteRecord /\ ActionOf(route) = n
    BY <2>3 DEF RouteRecord, ActionOf
  <2> QED BY <1>1, <1>3, <2>1, <2>3, <2>4 DEF n
<1> QED BY <1>2, <1>3

\* A dispatch that ends, recorded in full or not, keeps its action until it has told it.
LEMMA EndTurns ==
  ASSUME WhForm, Acting, NEW r \in WhRoutes, NEW extent \in Extents,
         NEW outcome \in Outcomes \cup {"raised"},
         outcome # "raised" => End(r, outcome, extent), outcome = "raised" => RecordFailure(r, extent),
         seen'.made = seen.made, seen'.runs = seen.runs,
         seen'.landed = IF outcome = "raised" THEN seen.landed ELSE Landed(r, outcome)
  PROVE  /\ routes' \in [WhRoutes -> RouteRecord] /\ Acting' /\ actions' = actions
         /\ spent' \in SpentForm /\ Lag' \in Nat /\ Lag' = IF extent = "both" THEN Lag ELSE Lag + 1
<1>1. routes[r].pc \in {"posting", "recording"} /\ actions' = actions /\ Charged(extent)
      /\ (outcome # "raised" => routes[r].pc = "posting")
  BY DEF End, RecordFailure
<1>2. spent' \in SpentForm /\ Lag' \in Nat /\ Lag' = (IF extent = "both" THEN Lag ELSE Lag + 1) /\ Lag \in Nat
  <2>1. /\ Lag \in Nat /\ (spent' = spent => spent' \in SpentForm /\ Lag' = Lag)
        /\ (Spend("faults", WhFaults) => spent' \in SpentForm /\ Lag' = Lag + 1)
    BY SpendForm
  <2> QED BY <1>1, <2>1 DEF Charged
<1>3. /\ seen.landed \subseteq seen'.landed
      /\ \A n \in seen'.landed \ seen.landed : n # 0 /\ n = ActionOf(routes[r])
      /\ outcome = "accepted" /\ routes[r].action # 0 => routes[r].action \in seen'.landed
  BY <1>1, LandedForm
<1>4. \E route \in RouteRecord :
         /\ routes' = [routes EXCEPT ![r] = route] /\ ActionOf(route) = ActionOf(routes[r])
         /\ route.pc = "telling" /\ route.status = "completed" => route.action \in seen'.landed
  <2>1. CASE outcome = "raised"
    <3>1. routes' = [routes EXCEPT ![r] = Telling(r, "failed")]
      BY <2>1 DEF RecordFailure
    <3> DEFINE route == Telling(r, "failed")
    <3>2. route \in RouteRecord /\ ActionOf(route) = ActionOf(routes[r]) /\ (route.pc = "telling" => route.status = "failed")
      BY <1>1, TellingForm
    <3> HIDE DEF route
    <3> QED BY <3>1, <3>2 DEF route
  <2>2. CASE outcome # "raised" /\ outcome = "accepted" /\ extent # "both"
    <3> DEFINE route == [routes[r] EXCEPT !.pc = "recording"]
    <3>1. routes' = [routes EXCEPT ![r] = route]
      BY <2>2 DEF End
    <3>2. routes[r] \in Posting
      BY <1>1, RouteKnows
    <3>3. route \in Posting /\ route.pc = "recording" /\ route.action = routes[r].action
      BY <3>2 DEF Posting
    <3> HIDE DEF route
    <3>4. route \in RouteRecord /\ ActionOf(route) = ActionOf(routes[r]) /\ route.pc # "telling"
      BY <1>1, <3>3 DEF RouteRecord, ActionOf
    <3> QED BY <3>1, <3>4
  <2>3. CASE outcome # "raised" /\ ~(outcome = "accepted" /\ extent # "both")
    <3> DEFINE status == ActionStatus(outcome)
               route == Telling(r, status)
    <3>1. routes' = [routes EXCEPT ![r] = route]
      BY <2>3 DEF End
    <3>2. status \in {"completed", "failed"} /\ (status = "completed" => outcome = "accepted")
      BY DEF ActionStatus
    <3> HIDE DEF status
    <3>3. /\ route \in RouteRecord /\ ActionOf(route) = ActionOf(routes[r])
          /\ route.pc = "telling" => route.status = status /\ route.action = routes[r].action /\ routes[r].action # 0
      BY <1>1, <3>2, TellingForm
    <3> HIDE DEF route
    <3> QED BY <1>3, <3>1, <3>2, <3>3
  <2> QED BY <2>1, <2>2, <2>3
<1>5. PICK route \in RouteRecord :
         /\ routes' = [routes EXCEPT ![r] = route] /\ ActionOf(route) = ActionOf(routes[r])
         /\ route.pc = "telling" /\ route.status = "completed" => route.action \in seen'.landed
  BY <1>4
<1>6. Lag <= Lag'
  BY <1>2
<1>7. routes' \in [WhRoutes -> RouteRecord] /\ Acting'
  BY <1>1, <1>2, <1>3, <1>5, <1>6, RouteTurns
<1> QED BY <1>1, <1>2, <1>7

\* The action of the route, if it is kept, says how the dispatch went.
LEMMA TellTurns ==
  ASSUME WhForm, Acting, NEW r \in WhRoutes, Tell(r), spent' = spent, seen' = seen
  PROVE  /\ routes' \in [WhRoutes -> RouteRecord] /\ Acting' /\ actions' \in [WhKeys -> ActionRecord]
<1> DEFINE n == routes[r].action
           status == routes[r].status
<1>1. /\ routes[r].pc = "telling" /\ routes' = [routes EXCEPT ![r] = Idle]
      /\ actions' = [k \in WhKeys |-> IF actions[k].id = n THEN [actions[k] EXCEPT !.status = status] ELSE actions[k]]
  BY DEF Tell
<1>2. n \in Nat \ {0} /\ status \in {"completed", "failed"} /\ ActionOf(routes[r]) = n
  BY <1>1, RouteKnows DEF ToldRecord, ActionOf
<1>3. RouteFits(r) /\ (status = "completed" => n \in seen.landed)
  BY <1>1, <1>2 DEF Acting, RouteFits
<1> HIDE DEF n, status
<1>4. actions \in [WhKeys -> ActionRecord]
  BY DEF WhForm
<1>5. /\ actions' \in [WhKeys -> ActionRecord]
      /\ \A k \in WhKeys : actions'[k].id = actions[k].id
      /\ \A k \in WhKeys : actions'[k].status = IF actions[k].id = n THEN status ELSE actions[k].status
  <2>1. ASSUME NEW k \in WhKeys
        PROVE  /\ [actions[k] EXCEPT !.status = status] \in ActionRecord
               /\ [actions[k] EXCEPT !.status = status].id = actions[k].id
               /\ [actions[k] EXCEPT !.status = status].status = status
    BY <1>2, <1>4 DEF ActionRecord
  <2> QED BY <1>1, <1>4, <2>1
<1>6. /\ routes' \in [WhRoutes -> RouteRecord] /\ routes'[r] = Idle /\ ActionOf(routes'[r]) = 0
      /\ \A s \in WhRoutes \ {r} : routes'[s] = routes[s]
  BY <1>1 DEF WhForm, RouteRecord, ActionOf, Idle
<1>7. Lag' = Lag
  BY DEF Lag
<1>8. ASSUME NEW k \in WhKeys
      PROVE  KeyFits(k)'
  <2>1. KeyFits(k) /\ actions[k].id \in Nat
    BY <1>4 DEF Acting, ActionRecord
  <2>2. CASE actions[k].id = n
    <3>1. actions[k].status = "running"
      BY <1>2, <1>3, <2>2 DEF RouteFits
    <3> QED BY <1>2, <1>3, <1>5, <2>1, <2>2, <3>1 DEF KeyFits
  <2>3. CASE actions[k].id # n
    <3>1. actions'[k].status = actions[k].status /\ actions'[k].id = actions[k].id
      BY <1>5, <2>3
    <3>2. ASSUME NEW s \in WhRoutes, ActionOf(routes[s]) = actions[k].id
          PROVE  ActionOf(routes'[s]) = actions[k].id
      BY <1>2, <1>6, <2>3, <3>2
    <3> QED BY <1>7, <2>1, <3>1, <3>2 DEF KeyFits
  <2> QED BY <2>2, <2>3
<1>9. ASSUME NEW s \in WhRoutes
      PROVE  RouteFits(s)'
  <2>1. CASE s = r
    BY <1>6, <2>1 DEF RouteFits
  <2>2. CASE s # r
    <3>1. routes'[s] = routes[s] /\ RouteFits(s)
      BY <1>6, <2>2 DEF Acting
    <3>2. ActionOf(routes[s]) # 0 => ActionOf(routes[s]) # n
      BY <1>2, <2>2, <3>1 DEF RouteFits
    <3>3. \A q \in WhRoutes : ActionOf(routes'[q]) \in {0, ActionOf(routes[q])}
      BY <1>6
    <3> QED BY <1>5, <3>1, <3>2, <3>3 DEF RouteFits
  <2> QED BY <2>1, <2>2
<1>10. \A i, j \in WhKeys : actions'[i].id = actions'[j].id /\ actions'[i].id # 0 => i = j
  BY <1>5 DEF Acting
<1>11. \A m \in seen'.landed : 0 < m /\ m <= seen'.made
  BY DEF Acting
<1> QED BY <1>5, <1>6, <1>8, <1>9, <1>10, <1>11 DEF Acting

\* If the write raises, the action is left as it is.
LEMMA UntoldTurns ==
  ASSUME WhForm, Acting, NEW r \in WhRoutes, TellFails(r)
  PROVE  routes' \in [WhRoutes -> RouteRecord] /\ Acting' /\ spent' \in SpentForm /\ Lag' = Lag + 1 /\ Lag \in Nat
<1>1. spent' \in SpentForm /\ Lag' = Lag + 1 /\ Lag \in Nat
  BY SpendForm DEF TellFails
<1>2. /\ Idle \in RouteRecord /\ ActionOf(Idle) = 0 /\ Idle.pc # "telling"
  BY DEF Idle, RouteRecord, ActionOf
<1>3. routes' = [routes EXCEPT ![r] = Idle] /\ actions' = actions /\ seen' = seen
  BY DEF TellFails
<1>4. Lag' \in Nat /\ Lag <= Lag' /\ Lag' > 0
  BY <1>1
<1> QED BY <1>1, <1>2, <1>3, <1>4, RouteTurns

\* A death takes the routes; the actions they held are left as running.
LEMMA DeathTurns ==
  ASSUME WhForm, Acting, Dies, seen'.runs = seen.runs, seen'.made = seen.made, seen.landed \subseteq seen'.landed,
         \A n \in seen'.landed \ seen.landed : n # 0 /\ \E r \in WhRoutes : n = ActionOf(routes[r])
  PROVE  routes' \in [WhRoutes -> RouteRecord] /\ Acting' /\ spent' \in SpentForm /\ Lag' = Lag + 1 /\ Lag \in Nat
<1>1. routes' = [s \in WhRoutes |-> Idle] /\ actions' = actions
  BY DEF Dies
<1>2. spent' \in SpentForm /\ Lag' = Lag + 1 /\ Lag \in Nat
  BY SpendForm DEF Dies
<1>3. \A s \in WhRoutes : ActionOf(routes'[s]) = 0
  BY <1>1 DEF ActionOf, Idle
<1>4. routes' \in [WhRoutes -> RouteRecord]
  BY <1>1 DEF RouteRecord
<1>5. ASSUME NEW k \in WhKeys
      PROVE  KeyFits(k)'
  <2>1. KeyFits(k) /\ Lag' > 0
    BY <1>2 DEF Acting
  <2> QED BY <1>1, <2>1 DEF KeyFits
<1>6. \A s \in WhRoutes : RouteFits(s)'
  BY <1>3 DEF RouteFits
<1>7. \A n \in seen'.landed : 0 < n /\ n <= seen'.made
  <2> SUFFICES ASSUME NEW n \in seen'.landed, n \notin seen.landed PROVE 0 < n /\ n <= seen.made
    BY DEF Acting
  <2>1. PICK r \in WhRoutes : n # 0 /\ n = ActionOf(routes[r])
    OBVIOUS
  <2>2. n \in Nat /\ RouteFits(r)
    BY <2>1, ActionOfForm DEF WhForm, Acting
  <2> QED BY <2>1, <2>2 DEF RouteFits
<1> QED BY <1>1, <1>2, <1>4, <1>5, <1>6, <1>7 DEF Acting

\* The actions that are lost are forgotten; the others are as they were.
LEMMA LossTurns ==
  ASSUME WhForm, Acting, NEW limit, LoseActions(limit)
  PROVE  /\ Acting' /\ actions' \in [WhKeys -> ActionRecord]
         /\ seen' \in SeenForm /\ seen'.recorded = seen.recorded /\ seen'.last = seen.last
         /\ spent' \in SpentForm /\ Lag' = Lag
<1> DEFINE acts == Newest(actions, limit)
           runs == Runs(acts, seen.runs)
<1>1. /\ Spend("losses", WhLosses) /\ actions' = acts /\ seen' = [seen EXCEPT !.runs = runs]
      /\ routes' = routes
  BY DEF LoseActions
<1>2. spent' \in SpentForm /\ Lag' = Lag
  BY <1>1, SpendForm
<1>3. /\ acts \in [WhKeys -> ActionRecord]
      /\ \A j \in WhKeys : acts[j] = actions[j] \/ (acts[j].status = "none" /\ acts[j].id = 0)
  BY NewestKeeps
<1> HIDE DEF acts
<1>4. seen \in SeenForm
  BY DEF WhForm
<1>5. runs \in [WhKeys -> Nat] /\ \A j \in WhKeys : runs[j] = IF acts[j].status = "none" THEN 0 ELSE seen.runs[j]
  BY <1>4 DEF Runs, SeenForm
<1> HIDE DEF runs
<1>6. /\ seen' \in SeenForm /\ seen'.recorded = seen.recorded /\ seen'.last = seen.last /\ seen'.made = seen.made
      /\ seen'.landed = seen.landed /\ seen'.runs = runs
  BY <1>1, <1>4, <1>5 DEF SeenForm
<1>7. seen.made \in Nat /\ actions \in [WhKeys -> ActionRecord]
  BY <1>4 DEF SeenForm, WhForm
<1>8. ASSUME NEW k \in WhKeys
      PROVE  KeyFits(k)'
  <2>1. KeyFits(k)
    BY DEF Acting
  <2>2. CASE acts[k] = actions[k]
    <3>1. runs[k] = seen.runs[k]
      BY <1>5, <2>1, <2>2 DEF KeyFits
    <3> QED BY <1>1, <1>2, <1>6, <2>1, <2>2, <3>1 DEF KeyFits
  <2>3. CASE acts[k].status = "none" /\ acts[k].id = 0
    BY <1>1, <1>5, <1>6, <1>7, <2>3 DEF KeyFits
  <2> QED BY <1>3, <2>2, <2>3
<1>9. ASSUME NEW r \in WhRoutes
      PROVE  RouteFits(r)'
  <2>1. RouteFits(r)
    BY DEF Acting
  <2>2. \A k \in WhKeys : acts[k].id = ActionOf(routes[r]) /\ ActionOf(routes[r]) # 0 => acts[k] = actions[k]
    BY <1>3
  <2> QED BY <1>1, <1>6, <2>1, <2>2 DEF RouteFits
<1>10. \A i, j \in WhKeys : actions'[i].id = actions'[j].id /\ actions'[i].id # 0 => i = j
  BY <1>1, <1>3 DEF Acting
<1>11. \A m \in seen'.landed : 0 < m /\ m <= seen'.made
  BY <1>6 DEF Acting
<1>12. Acting'
  BY <1>8, <1>9, <1>10, <1>11 DEF Acting
<1> QED BY <1>1, <1>2, <1>3, <1>6, <1>12

WhInv == WhForm /\ Sealing /\ Counting /\ Acting

\* What the steps below establish one by one.
StoresForm ==
    /\ ciphers \in {<<>>, Ciphers(FALSE), Ciphers(TRUE)}
    /\ deliveries \subseteq Evidence /\ \A d \in deliveries : d.id \in 1 .. seen.last
    /\ seen \in SeenForm
    /\ spent \in SpentForm

LEMMA InvOfParts ==
  ASSUME StoresForm', HooksFit(hooks', seen'.recorded, Lag'), Acting',
         actions' \in [WhKeys -> ActionRecord], routes' \in [WhRoutes -> RouteRecord],
         Up' \/ \A r \in WhRoutes : routes'[r] = Idle
  PROVE  WhInv'
<1>1. WhForm'
  BY DEF WhForm, StoresForm, HooksFit
<1>2. Sealing' /\ Counting'
  BY DEF Sealing, Counting, HooksFit, Exists
<1> QED BY <1>1, <1>2 DEF WhInv

LEMMA PartsOfInv ==
  ASSUME WhInv
  PROVE  /\ StoresForm /\ actions \in [WhKeys -> ActionRecord] /\ routes \in [WhRoutes -> RouteRecord]
         /\ Lag \in Nat /\ (Up => HooksFit(hooks, seen.recorded, Lag))
<1>1. StoresForm /\ actions \in [WhKeys -> ActionRecord] /\ routes \in [WhRoutes -> RouteRecord]
  BY DEF WhInv, WhForm, StoresForm
<1>2. Up => HooksFit(hooks, seen.recorded, Lag)
  BY DEF WhInv, WhForm, Sealing, Counting, HooksFit, Exists
<1>3. Lag \in Nat
  BY SpendForm DEF WhInv
<1> QED BY <1>1, <1>2, <1>3

\* A longer lag is no harm.
LEMMA FitsLonger ==
  ASSUME WhInv, Up, NEW lag \in Nat, Lag <= lag
  PROVE  HooksFit(hooks, seen.recorded, lag)
<1>1. HooksFit(hooks, seen.recorded, Lag) /\ Lag \in Nat /\ seen.recorded \in [Hooks -> Nat]
  BY PartsOfInv DEF StoresForm, SeenForm
<1>2. \A g \in Hooks : hooks[g] # NoHook => hooks[g].ok \in Nat /\ hooks[g].failed \in Nat
  BY <1>1 DEF HooksFit, Webhook
<1> QED BY <1>1, <1>2 DEF HooksFit, CountsFit

\* A change of the configuration touches neither the evidence nor the actions.
LEMMA StoreKeeps ==
  ASSUME WhInv, HooksFit(hooks', seen.recorded, Lag),
         Up', ciphers' \in {<<>>, Ciphers(FALSE), Ciphers(TRUE)}, spent' \in SpentForm, Lag' = Lag,
         UNCHANGED <<deliveries, actions, routes, seen>>
  PROVE  WhInv'
<1>1. StoresForm' /\ HooksFit(hooks', seen'.recorded, Lag')
  BY PartsOfInv DEF StoresForm
<1>2. Acting'
  BY DEF WhInv, Acting, KeyFits, RouteFits
<1>3. actions' \in [WhKeys -> ActionRecord] /\ routes' \in [WhRoutes -> RouteRecord]
  BY PartsOfInv
<1> QED BY <1>1, <1>2, <1>3, InvOfParts

\* A step of a request that leaves the configuration and the evidence.
LEMMA RouteKeeps ==
  ASSUME WhInv, Up, Acting', routes' \in [WhRoutes -> RouteRecord], actions' \in [WhKeys -> ActionRecord],
         seen' \in SeenForm, seen'.recorded = seen.recorded, seen'.last = seen.last,
         spent' \in SpentForm, Lag' \in Nat, Lag <= Lag',
         UNCHANGED <<hooks, ciphers, deliveries>>
  PROVE  WhInv'
<1>1. PICK lag \in Nat : lag = Lag'
  OBVIOUS
<1>2. HooksFit(hooks, seen.recorded, lag)
  BY <1>1, FitsLonger
<1>3. StoresForm' /\ HooksFit(hooks', seen'.recorded, Lag')
  BY <1>1, <1>2, PartsOfInv DEF StoresForm
<1>4. Up'
  BY DEF Up
<1> QED BY <1>3, <1>4, InvOfParts

LEMMA StoreActionsKeep ==
  ASSUME WhInv,
         \/ \E configured \in BOOLEAN : Start(configured)
         \/ \E h \in Hooks : Delete(h) \/ \E e \in BOOLEAN : SetEnabled(h, e)
         \/ \E h \in Hooks, u \in Urls, a \in AuthTypes, given \in Secrets \cup {NoSecret} :
               Create(h, u, a, given) \/ \E e \in BOOLEAN : Put(h, u, e, a, given)
  PROVE  WhInv'
<1>0. WhForm /\ Sealing /\ Counting
  BY DEF WhInv
<1>1. ASSUME NEW configured \in BOOLEAN, Start(configured)
      PROVE  WhInv'
  <2>1. ciphers' = Ciphers(configured) /\ UNCHANGED <<deliveries, actions, routes, seen, spent>>
    BY <1>1 DEF Start
  <2>2. ciphers' \in {<<>>, Ciphers(FALSE), Ciphers(TRUE)} /\ Up'
    BY <2>1 DEF Up, Ciphers
  <2>3. HooksFit(hooks', seen.recorded, Lag)
    BY <1>0, <1>1, StartFits
  <2>4. spent' \in SpentForm /\ Lag' = Lag
    BY <1>0, <2>1, SpendForm
  <2> QED BY <2>1, <2>2, <2>3, <2>4, StoreKeeps
<1>2. ASSUME NEW h \in Hooks, NEW e \in BOOLEAN, SetEnabled(h, e) \/ Delete(h)
      PROVE  WhInv'
  <2>1. /\ Up /\ Spend("writes", Writes) /\ UNCHANGED <<ciphers, deliveries, actions, routes, seen>>
    BY <1>2 DEF SetEnabled, Delete
  <2>2. HooksFit(hooks', seen.recorded, Lag)
    BY <1>0, <1>2, SwitchFits
  <2>3. spent' \in SpentForm /\ Lag' = Lag
    BY <1>0, <2>1, SpendForm
  <2>4. ciphers' \in {<<>>, Ciphers(FALSE), Ciphers(TRUE)} /\ Up'
    BY <1>0, <2>1 DEF WhForm, Up
  <2> QED BY <2>1, <2>2, <2>3, <2>4, StoreKeeps
<1>3. ASSUME NEW h \in Hooks, NEW u \in Urls, NEW a \in AuthTypes, NEW given \in Secrets \cup {NoSecret},
             Create(h, u, a, given) \/ \E e \in BOOLEAN : Put(h, u, e, a, given)
      PROVE  WhInv'
  <2>1. /\ Up /\ Spend("writes", Writes) /\ UNCHANGED <<ciphers, deliveries, actions, routes, seen>>
    BY <1>3 DEF Create, Put
  <2>2. HooksFit(hooks', seen.recorded, Lag)
    <3>1. CASE Create(h, u, a, given)
      BY <1>0, <3>1, CreateFits
    <3>2. CASE \E e \in BOOLEAN : Put(h, u, e, a, given)
      <4>1. PICK e \in BOOLEAN : Exists(h) /\ hooks' = Updated(h, u, e, a, given)
        BY <3>2 DEF Put
      <4>2. HooksFit(Updated(h, u, e, a, given), seen.recorded, Lag)
        BY <1>0, <2>1, <4>1, UpdateFits
      <4> QED BY <4>1, <4>2
    <3> QED BY <1>3, <3>1, <3>2
  <2>3. spent' \in SpentForm /\ Lag' = Lag
    BY <1>0, <2>1, SpendForm
  <2>4. ciphers' \in {<<>>, Ciphers(FALSE), Ciphers(TRUE)} /\ Up'
    BY <1>0, <2>1 DEF WhForm, Up
  <2> QED BY <2>1, <2>2, <2>3, <2>4, StoreKeeps
<1> QED BY <1>1, <1>2, <1>3

LEMMA RequestsKeep ==
  ASSUME WhInv, NEW r \in WhRoutes,
         \/ \E h \in Hooks, q \in Requests : Ask(r, h, q)
         \/ \E h \in Hooks, p \in Payloads : Forward(r, h, p)
         \/ \E p \in Payloads : Test(r, p)
         \/ Answer(r)
  PROVE  WhInv'
<1>0. WhForm /\ Acting /\ actions \in [WhKeys -> ActionRecord] /\ seen \in SeenForm /\ Lag \in Nat
  BY PartsOfInv DEF WhInv, StoresForm
<1>1. routes' \in [WhRoutes -> RouteRecord] /\ Acting' /\ spent' \in SpentForm /\ Lag' = Lag
  BY <1>0, RequestsTurn
<1>2. UNCHANGED <<hooks, ciphers, deliveries, actions, seen>>
  BY DEF Ask, Forward, Test, Answer
<1>3. Up
  <2>1. Up \/ routes[r].pc = "target"
    BY DEF Ask, Forward, Test, Answer, Manual
  <2> QED BY <1>0, <2>1, RouteKnows
<1> QED BY <1>0, <1>1, <1>2, <1>3, RouteKeeps

LEMMA PatchKeeps ==
  ASSUME WhInv, NEW r \in WhRoutes, Patch(r)
  PROVE  WhInv'
<1> DEFINE q == routes[r].request  h == routes[r].hook  read == routes[r].item
<1>0. /\ WhForm /\ Sealing /\ Counting /\ Acting /\ StoresForm /\ actions \in [WhKeys -> ActionRecord]
  BY PartsOfInv DEF WhInv
<1>1. routes[r] \in Targeting /\ Up
  BY <1>0, RouteKnows DEF Patch
<1>2. q \in Requests /\ q.what \in {"enable", "url", "secret"} /\ h \in Hooks
      /\ read.url \in Urls /\ read.enabled \in BOOLEAN /\ read.auth \in AuthTypes
  BY <1>1 DEF Patch, Targeting
<1> DEFINE url == IF q.what = "url" THEN q.value ELSE read.url
           enabled == IF q.what = "enable" THEN q.value ELSE read.enabled
           given == IF q.what = "secret" THEN q.value ELSE NoSecret
<1>3. url \in Urls
  BY <1>2 DEF Requests
<1>4. enabled \in BOOLEAN
  BY <1>2, Zenon DEF Requests
<1>5. given \in Secrets \cup {NoSecret}
  BY <1>2 DEF Requests
<1>6. /\ hooks' = hooks \/ (Exists(h) /\ hooks' = Updated(h, url, enabled, read.auth, given))
      /\ UNCHANGED <<ciphers, deliveries, actions, seen, spent>>
  BY DEF Patch
<1>7. routes' \in [WhRoutes -> RouteRecord] /\ Acting' /\ Lag' = Lag
  BY <1>0, RequestsTurn
<1> HIDE DEF url, enabled, given, q, h, read
<1>8. HooksFit(hooks', seen.recorded, Lag)
  <2>1. HooksFit(hooks, seen.recorded, Lag)
    BY <1>1, PartsOfInv
  <2>2. Exists(h) => HooksFit(Updated(h, url, enabled, read.auth, given), seen.recorded, Lag)
    BY <1>0, <1>1, <1>2, <1>3, <1>4, <1>5, UpdateFits
  <2> QED BY <1>6, <2>1, <2>2
<1>9. StoresForm' /\ HooksFit(hooks', seen'.recorded, Lag') /\ actions' \in [WhKeys -> ActionRecord] /\ Up'
  BY <1>0, <1>1, <1>6, <1>7, <1>8 DEF StoresForm, Up
<1> QED BY <1>7, <1>9, InvOfParts

LEMMA DispatchKeeps ==
  ASSUME WhInv, NEW r \in WhRoutes,
         \/ Begin(r) \/ BeginFails(r) \/ \E o \in Outcomes : Retry(r, o)
         \/ Tell(r) \/ TellFails(r)
  PROVE  WhInv'
<1>0. /\ WhForm /\ Acting /\ StoresForm /\ actions \in [WhKeys -> ActionRecord] /\ Lag \in Nat
  BY PartsOfInv DEF WhInv
<1>1. CASE Begin(r) \/ BeginFails(r)
  <2>1. /\ routes' \in [WhRoutes -> RouteRecord] /\ Acting' /\ actions' \in [WhKeys -> ActionRecord]
        /\ seen' \in SeenForm /\ seen'.recorded = seen.recorded /\ seen'.last = seen.last
        /\ spent' \in SpentForm /\ Lag' \in Nat /\ Lag <= Lag'
    BY <1>0, <1>1, BeginTurns
  <2>2. UNCHANGED <<hooks, ciphers, deliveries>> /\ routes[r].pc = "target"
    BY <1>1 DEF Begin, BeginFails, Manual
  <2>3. Up
    BY <1>0, <2>2, RouteKnows
  <2> QED BY <2>1, <2>2, <2>3, RouteKeeps
<1>2. ASSUME NEW o \in Outcomes, Retry(r, o)
      PROVE  WhInv'
  <2>1. /\ routes' \in [WhRoutes -> RouteRecord] /\ Acting'
        /\ seen' \in SeenForm /\ seen'.recorded = seen.recorded /\ seen'.last = seen.last
    BY <1>0, <1>2, RetryTurns
  <2>2. UNCHANGED <<hooks, ciphers, deliveries, actions, spent>> /\ routes[r].pc = "posting"
    BY <1>2 DEF Retry
  <2>3. spent' \in SpentForm /\ Lag' = Lag /\ Up
    BY <1>0, <2>2, SpendForm, RouteKnows
  <2> QED BY <1>0, <2>1, <2>2, <2>3, RouteKeeps
<1>3. CASE Tell(r)
  <2>1. UNCHANGED <<hooks, ciphers, deliveries, seen, spent>> /\ routes[r].pc = "telling"
    BY <1>3 DEF Tell
  <2>2. routes' \in [WhRoutes -> RouteRecord] /\ Acting' /\ actions' \in [WhKeys -> ActionRecord]
    BY <1>0, <1>3, <2>1, TellTurns
  <2>3. spent' \in SpentForm /\ Lag' = Lag /\ Up /\ seen' \in SeenForm
    BY <1>0, <2>1, SpendForm, RouteKnows DEF StoresForm
  <2> QED BY <1>0, <2>1, <2>2, <2>3, RouteKeeps
<1>4. CASE TellFails(r)
  <2>1. UNCHANGED <<hooks, ciphers, deliveries, actions, seen>> /\ routes[r].pc = "telling"
    BY <1>4 DEF TellFails
  <2>2. routes' \in [WhRoutes -> RouteRecord] /\ Acting' /\ spent' \in SpentForm /\ Lag' = Lag + 1
    BY <1>0, <1>4, UntoldTurns
  <2>3. Up /\ seen' \in SeenForm /\ Lag' \in Nat /\ Lag <= Lag'
    BY <1>0, <2>1, <2>2, RouteKnows DEF StoresForm
  <2> QED BY <1>0, <2>1, <2>2, <2>3, RouteKeeps
<1> QED BY <1>1, <1>2, <1>3, <1>4

LEMMA EndKeeps ==
  ASSUME WhInv, NEW r \in WhRoutes, NEW extent \in Extents, NEW outcome \in Outcomes \cup {"raised"},
         outcome # "raised" => End(r, outcome, extent), outcome = "raised" => RecordFailure(r, extent)
  PROVE  WhInv'
<1> DEFINE now == IF outcome = "raised" THEN seen.landed ELSE Landed(r, outcome)
<1>0. /\ WhForm /\ Sealing /\ Counting /\ Acting /\ StoresForm /\ actions \in [WhKeys -> ActionRecord] /\ Lag \in Nat
  BY PartsOfInv DEF WhInv
<1>1. routes[r].pc \in {"posting", "recording"} /\ Up /\ (outcome # "raised" => routes[r].pc = "posting")
      /\ UNCHANGED <<ciphers, actions>>
  BY <1>0, RouteKnows DEF End, RecordFailure
<1>2. now \in SUBSET Nat
  BY <1>0, <1>1, LandedForm DEF WhForm, SeenForm
<1>3. PICK ok \in BOOLEAN, landed \in SUBSET Nat : landed = now /\ AppendHistory(r, ok, extent, landed)
  <2>1. CASE outcome = "raised"
    <3>1. AppendHistory(r, FALSE, extent, seen.landed)
      BY <2>1 DEF RecordFailure
    <3> QED BY <1>2, <2>1, <3>1
  <2>2. CASE outcome # "raised"
    <3>1. AppendHistory(r, outcome = "accepted", extent, Landed(r, outcome))
      BY <2>2 DEF End
    <3>2. (outcome = "accepted") \in BOOLEAN
      OBVIOUS
    <3> QED BY <1>2, <2>2, <3>1, <3>2
  <2> QED BY <2>1, <2>2
<1>4. PICK lag \in Nat : lag = IF extent = "both" THEN Lag ELSE Lag + 1
  BY <1>0
<1>5. /\ HooksFit(hooks', seen'.recorded, lag)
      /\ deliveries' \subseteq Evidence /\ \A d \in deliveries' : d.id \in 1 .. seen'.last
      /\ seen' \in SeenForm /\ seen'.made = seen.made /\ seen'.runs = seen.runs /\ seen'.landed = now
  BY <1>0, <1>1, <1>3, <1>4, AppendFits
<1> HIDE DEF now
<1>6. /\ routes' \in [WhRoutes -> RouteRecord] /\ Acting' /\ spent' \in SpentForm /\ Lag' = lag
  BY <1>0, <1>4, <1>5, EndTurns DEF now
<1>7. StoresForm' /\ HooksFit(hooks', seen'.recorded, Lag') /\ Up' /\ actions' \in [WhKeys -> ActionRecord]
  BY <1>0, <1>1, <1>5, <1>6 DEF StoresForm, Up
<1> QED BY <1>6, <1>7, InvOfParts

LEMMA DeathKeeps ==
  ASSUME WhInv, Dies, Up,
         \/ UNCHANGED <<hooks, deliveries, seen>>
         \/ \E r \in WhRoutes :
              \/ \E o \in Outcomes : CrashInEnd(r, o)
              \/ CrashInRecord(r)
  PROVE  WhInv'
<1>0. /\ WhForm /\ Sealing /\ Counting /\ Acting /\ StoresForm /\ actions \in [WhKeys -> ActionRecord] /\ Lag \in Nat
  BY PartsOfInv DEF WhInv
<1>1. ciphers' = <<>> /\ actions' = actions /\ \A r \in WhRoutes : routes'[r] = Idle
  BY DEF Dies
<1>2. PICK lag \in Nat : lag = Lag + 1
  BY <1>0
<1> DEFINE Written ==
             /\ HooksFit(hooks', seen'.recorded, lag)
             /\ deliveries' \subseteq Evidence /\ \A d \in deliveries' : d.id \in 1 .. seen'.last
             /\ seen' \in SeenForm /\ seen'.made = seen.made /\ seen'.runs = seen.runs /\ seen.landed \subseteq seen'.landed
             /\ \A n \in seen'.landed \ seen.landed : n # 0 /\ \E r \in WhRoutes : n = ActionOf(routes[r])
<1>3. Written
  <2>1. CASE UNCHANGED <<hooks, deliveries, seen>>
    <3>1. HooksFit(hooks, seen.recorded, lag)
      BY <1>0, <1>2, FitsLonger
    <3> QED BY <1>0, <2>1, <3>1 DEF StoresForm
  <2>2. ASSUME NEW r \in WhRoutes, NEW o \in Outcomes, CrashInEnd(r, o)
        PROVE  Written
    <3>1. routes[r].pc = "posting"
      BY <2>2 DEF CrashInEnd
    <3>2. /\ Landed(r, o) \in SUBSET Nat /\ seen.landed \subseteq Landed(r, o)
          /\ \A n \in Landed(r, o) \ seen.landed : n # 0 /\ n = ActionOf(routes[r])
      BY <1>0, <3>1, LandedForm
    <3>3. PICK ok \in BOOLEAN, landed \in SUBSET Nat : landed = Landed(r, o) /\ AppendHistory(r, ok, "row", landed)
      BY <2>2, <3>2 DEF CrashInEnd
    <3>4. /\ HooksFit(hooks', seen'.recorded, lag)
          /\ deliveries' \subseteq Evidence /\ \A d \in deliveries' : d.id \in 1 .. seen'.last
          /\ seen' \in SeenForm /\ seen'.made = seen.made /\ seen'.runs = seen.runs /\ seen'.landed = landed
      BY <1>0, <1>2, <3>1, <3>3, AppendFits DEF Extents
    <3> QED BY <3>2, <3>3, <3>4
  <2>3. ASSUME NEW r \in WhRoutes, CrashInRecord(r)
        PROVE  Written
    <3>1. routes[r].pc = "recording"
      BY <2>3 DEF CrashInRecord
    <3>2. PICK landed \in SUBSET Nat : landed = seen.landed /\ AppendHistory(r, FALSE, "row", landed)
      BY <1>0, <2>3 DEF CrashInRecord, WhForm, SeenForm
    <3>3. /\ HooksFit(hooks', seen'.recorded, lag)
          /\ deliveries' \subseteq Evidence /\ \A d \in deliveries' : d.id \in 1 .. seen'.last
          /\ seen' \in SeenForm /\ seen'.made = seen.made /\ seen'.runs = seen.runs /\ seen'.landed = landed
      BY <1>0, <1>2, <3>1, <3>2, AppendFits DEF Extents
    <3> QED BY <3>2, <3>3
  <2> QED BY <2>1, <2>2, <2>3
<1>4. routes' \in [WhRoutes -> RouteRecord] /\ Acting' /\ spent' \in SpentForm /\ Lag' = lag
  BY <1>0, <1>2, <1>3, DeathTurns
<1>5. StoresForm' /\ HooksFit(hooks', seen'.recorded, Lag')
  BY <1>1, <1>3, <1>4 DEF StoresForm
<1> QED BY <1>0, <1>1, <1>4, <1>5, InvOfParts

\* Nothing depends on evidence that is lost, nor on an action.
LEMMA LossKeeps ==
  ASSUME WhInv, LoseEvidence \/ \E limit \in Nat : LoseActions(limit)
  PROVE  WhInv'
<1>0. WhForm /\ Sealing /\ Counting /\ Acting
  BY DEF WhInv
<1>1. UNCHANGED <<hooks, ciphers, routes>> /\ deliveries' \subseteq deliveries
  BY DEF LoseEvidence, LoseActions
<1>2. /\ Acting' /\ actions' \in [WhKeys -> ActionRecord]
      /\ seen' \in SeenForm /\ seen'.recorded = seen.recorded /\ seen'.last = seen.last
      /\ spent' \in SpentForm /\ Lag' = Lag
  <2>1. CASE LoseEvidence
    <3>1. actions' = actions /\ seen' = seen /\ routes' = routes /\ Spend("losses", WhLosses)
      BY <2>1 DEF LoseEvidence
    <3>2. spent' \in SpentForm /\ Lag' = Lag
      BY <1>0, <3>1, SpendForm
    <3>3. Acting'
      BY <1>0, <3>1, <3>2 DEF Acting, KeyFits, RouteFits
    <3> QED BY <1>0, <3>1, <3>2, <3>3 DEF WhForm
  <2>2. CASE \E limit \in Nat : LoseActions(limit)
    BY <1>0, <2>2, LossTurns
  <2> QED BY <2>1, <2>2
<1>3. WhForm'
  BY <1>0, <1>1, <1>2 DEF WhForm, Up
<1>4. Sealing' /\ Counting'
  BY <1>0, <1>1, <1>2 DEF Sealing, Counting, Up, Exists
<1> QED BY <1>2, <1>3, <1>4 DEF WhInv

LEMMA WhInvHolds == WhSpec => []WhInv
<1>1. WhInit => WhInv
  <2> SUFFICES ASSUME WhInit PROVE WhInv
    OBVIOUS
  <2> DEFINE first(h, t, x) == [id |-> 1, hook |-> h, test |-> t, ok |-> TRUE, text |-> x, truncated |-> x = "cut"]
             Shown == {"whole", "shortened", "cut"}
  <2>0. deliveries = {} \/ \E h \in Hooks, t \in BOOLEAN, x \in Shown : deliveries = {first(h, t, x)}
    <3>1. Kept = {{}} \cup {{first(h, t, x)} : h \in Hooks, t \in BOOLEAN, x \in Shown}
      BY DEF Kept
    <3>2. deliveries \in Kept
      BY DEF WhInit
    <3> HIDE DEF first, Shown
    <3> QED BY <3>1, <3>2
  <2>1. deliveries \subseteq Evidence /\ \A d \in deliveries : d.id = 1
    <3>1. \A h \in Hooks, t \in BOOLEAN, x \in Shown : first(h, t, x) \in Evidence /\ first(h, t, x).id = 1
      <4> SUFFICES ASSUME NEW h \in Hooks, NEW t \in BOOLEAN, NEW x \in Shown
                   PROVE  first(h, t, x) \in Evidence /\ first(h, t, x).id = 1
        OBVIOUS
      <4> DEFINE cut == x = "cut"
      <4>1. first(h, t, x) = [id |-> 1, hook |-> h, test |-> t, ok |-> TRUE, text |-> x, truncated |-> cut]
        OBVIOUS
      <4>2. cut \in BOOLEAN /\ x \in Texts /\ TRUE \in BOOLEAN /\ 1 \in Nat
        BY DEF Texts
      <4> HIDE DEF cut
      <4> QED BY <4>1, <4>2, Zenon DEF Evidence
    <3> HIDE DEF first, Shown
    <3> QED BY <2>0, <3>1
  <2> HIDE DEF first, Shown
  <2>2. IsFiniteSet(deliveries) /\ Cardinality(deliveries) \in Nat /\ (deliveries # {} => Cardinality(deliveries) = 1)
    <3>1. CASE deliveries = {}
      BY <3>1, FS_EmptySet
    <3>2. CASE \E h \in Hooks, t \in BOOLEAN, x \in Shown : deliveries = {first(h, t, x)}
      <4>1. PICK d : deliveries = {d}
        BY <3>2
      <4>2. IsFiniteSet(deliveries) /\ Cardinality(deliveries) = 1
        BY <4>1, FS_Singleton, Zenon
      <4> QED BY <4>2
    <3> QED BY <2>0, <3>1, <3>2
  <2>3. ASSUME NEW h \in Hooks
        PROVE  KeptOf(h) \in Nat
    <3> DEFINE own == {d \in deliveries : d.hook = h}
    <3>1. own \subseteq deliveries
      OBVIOUS
    <3> HIDE DEF own
    <3>2. IsFiniteSet(own)
      BY <2>2, <3>1, FS_Subset
    <3>3. Cardinality(own) \in Nat
      BY <3>2, FS_CardinalityType
    <3> QED BY <3>3 DEF KeptOf, own
  <2>4. /\ seen.recorded = [h \in Hooks |-> KeptOf(h)] /\ seen.last = Cardinality(deliveries) /\ seen.made = 0
        /\ seen.runs = [k \in WhKeys |-> 0] /\ seen.landed = {}
        /\ seen \in SeenForm
    BY <2>2, <2>3 DEF WhInit, SeenForm
  <2>5. spent \in SpentForm /\ Lag = 0
    BY DEF WhInit, SpentForm, Lag
  <2>6. /\ hooks \in [Hooks -> Webhook \cup {NoHook}]
        /\ \A h \in Hooks : hooks[h] # NoHook => CountsFit(hooks[h], seen.recorded[h], Lag)
    <3>0. \A h \in Hooks : hooks[h] \in StoredHook(h)
      BY DEF WhInit
    <3>1. \A h \in Hooks : hooks[h] \in StoredHook(h) /\ StoredHook(h) \subseteq Webhook \cup {NoHook}
      <4>1. ASSUME NEW h \in Hooks, NEW w \in StoredHook(h), w # NoHook
            PROVE  w \in Webhook
        <5>1. w \in [enabled: {TRUE}, url: Urls, auth: {"BEARER"}, secret: Secrets, form: {"plain"},
                     ok: {KeptOf(h)}, failed: {0}]
          BY <4>1 DEF StoredHook
        <5>2. /\ {TRUE} \subseteq BOOLEAN /\ {"BEARER"} \subseteq AuthTypes
              /\ Secrets \subseteq Secrets \cup {NoSecret} /\ {"plain"} \subseteq Forms
              /\ {KeptOf(h)} \subseteq Nat /\ {0} \subseteq Nat
          BY <2>3 DEF AuthTypes, Forms
        <5> QED BY <5>1, <5>2, ZenonT(30) DEF Webhook
      <4> QED BY <3>0, <4>1
    <3>2. hooks \in [Hooks -> Webhook \cup {NoHook}]
      BY <3>1 DEF WhInit
    <3>3. ASSUME NEW h \in Hooks, hooks[h] # NoHook
          PROVE  CountsFit(hooks[h], seen.recorded[h], Lag)
      <4>1. hooks[h].ok = KeptOf(h) /\ hooks[h].failed = 0
        BY <3>1, <3>3 DEF StoredHook
      <4> QED BY <2>3, <2>4, <2>5, <4>1 DEF CountsFit
    <3> QED BY <3>2, <3>3
  <2>7. ~Up /\ actions = [k \in WhKeys |-> NoAction] /\ routes = [r \in WhRoutes |-> Idle] /\ ciphers = <<>>
    BY DEF WhInit, Up
  <2>8. actions \in [WhKeys -> ActionRecord] /\ \A k \in WhKeys : actions[k].status = "none" /\ actions[k].id = 0
    BY <2>7 DEF ActionRecord, NoAction
  <2>9. \A d \in deliveries : d.id \in 1 .. seen.last
    BY <2>1, <2>2, <2>4
  <2>10. routes \in [WhRoutes -> RouteRecord] /\ \A r \in WhRoutes : routes[r] = Idle /\ ActionOf(routes[r]) = 0
    BY <2>7 DEF RouteRecord, ActionOf, Idle
  <2>11. WhForm
    BY <2>1, <2>4, <2>5, <2>6, <2>7, <2>8, <2>9, <2>10 DEF WhForm
  <2>12. Acting
    BY <2>4, <2>8, <2>10 DEF Acting, KeyFits, RouteFits
  <2> QED BY <2>6, <2>7, <2>11, <2>12 DEF WhInv, Sealing, Counting, Exists
<1>2. WhInv /\ [WhNext]_whVars => WhInv'
  <2> SUFFICES ASSUME WhInv, [WhNext]_whVars PROVE WhInv'
    OBVIOUS
  <2>1. CASE UNCHANGED whVars
    <3>1. WhForm'
      BY <2>1 DEF whVars, WhInv, WhForm, Up
    <3>2. Sealing' /\ Counting'
      BY <2>1 DEF whVars, WhInv, Sealing, Counting, Up, Exists, Lag
    <3>3. Acting'
      BY <2>1 DEF whVars, WhInv, Acting, KeyFits, RouteFits, Lag
    <3> QED BY <3>1, <3>2, <3>3 DEF WhInv
  <2>2. CASE Operate
    <3>1. ASSUME NEW r \in WhRoutes, NEW o \in Outcomes, \E x \in Extents : End(r, o, x) PROVE WhInv'
      <4>1. PICK x \in Extents : End(r, o, x)
        BY <3>1
      <4>2. o # "raised"
        BY DEF Outcomes
      <4> QED BY <4>1, <4>2, EndKeeps
    <3>2. ASSUME NEW r \in WhRoutes, NEW o \in Outcomes, CrashInEnd(r, o) PROVE WhInv'
      <4>1. Dies /\ Up
        BY <3>2, RouteKnows DEF CrashInEnd, WhInv
      <4> QED BY <3>2, <4>1, DeathKeeps
    <3> QED BY <2>2, <3>1, <3>2, StoreActionsKeep, RequestsKeep, PatchKeeps, DispatchKeeps DEF Operate
  <2>3. ASSUME NEW r \in WhRoutes, NEW x \in Extents, RecordFailure(r, x) PROVE WhInv'
    BY <2>3, EndKeeps
  <2>4. ASSUME NEW r \in WhRoutes, Tell(r) \/ TellFails(r) PROVE WhInv'
    BY <2>4, DispatchKeeps
  <2>5. ASSUME NEW r \in WhRoutes, CrashInRecord(r) PROVE WhInv'
    <3>1. Dies /\ Up
      BY <2>5, RouteKnows DEF CrashInRecord, WhInv
    <3> QED BY <2>5, <3>1, DeathKeeps
  <2>6. ASSUME NEW limit \in 0 .. ActionsKept - 1, LoseActions(limit) PROVE WhInv'
    BY <2>6, LossKeeps
  <2>7. CASE LoseEvidence
    BY <2>7, LossKeeps
  <2>8. CASE Crash
    BY <2>8, DeathKeeps DEF Crash
  <2> QED BY <2>1, <2>2, <2>3, <2>4, <2>5, <2>6, <2>7, <2>8 DEF WhNext
<1> QED BY <1>1, <1>2, PTL DEF WhSpec

\* The stores, the routes and the evidence have the form the code gives them.
LEMMA WebhookTypes == WhSpec => []WhTypeOK
<1>1. WhInv => WhTypeOK
  <2> SUFFICES ASSUME WhInv PROVE WhTypeOK
    OBVIOUS
  <2>1. WhForm
    BY DEF WhInv
  <2>2. \A d \in deliveries : d.hook \in Hooks /\ d.text \in Texts /\ d.id \in 1 .. seen.last
    BY <2>1 DEF WhForm, Evidence
  <2>3. \A r \in WhRoutes : routes[r].pc \in {"idle", "target", "posting", "recording", "telling"}
    BY <2>1 DEF WhForm, RouteRecord, Idle, Targeting, Posting, ToldRecord
  <2>4. actions \in [WhKeys -> [status: {"none", "pending", "running", "completed", "failed"}, id: 0 .. seen.made]]
    <3>1. actions \in [WhKeys -> ActionRecord] /\ seen.made \in Nat
      BY <2>1 DEF WhForm, SeenForm
    <3>2. \A k \in WhKeys : actions[k].id \in 0 .. seen.made
      BY <3>1 DEF WhInv, Acting, KeyFits, ActionRecord
    <3> QED BY <3>1, <3>2 DEF ActionRecord
  <2> QED BY <2>1, <2>2, <2>3, <2>4 DEF WhTypeOK, WhForm
<1> QED BY <1>1, WhInvHolds, PTL

\* Whatever keys the process has run with, one that is started with the configured
\* key and the fallback reads every secret, and none is in the clear while it runs.
THEOREM StoredSecretsAreReadable == WhSpec => []SecretsAreReadable
<1>1. WhInv => SecretsAreReadable
  <2> SUFFICES ASSUME WhInv, NEW h \in Hooks, Exists(h)
               PROVE  /\ Decrypts(hooks[h], Ciphers(TRUE))
                      /\ Up /\ hooks[h].secret # NoSecret => hooks[h].form # "plain"
    BY DEF SecretsAreReadable
  <2>1. hooks[h] \in Webhook
    BY DEF WhInv, WhForm, Exists
  <2>2. Ciphers(TRUE) = <<"configured", "fallback">>
    BY DEF Ciphers
  <2>3. hooks[h].form \in Forms
    BY <2>1 DEF Webhook
  <2> DEFINE order == Ciphers(TRUE)  form == hooks[h].form
  <2>4. order = <<"configured", "fallback">>
    BY <2>2
  <2> HIDE DEF order, form
  <2>5. DOMAIN order = 1 .. 2 /\ order[1] = "configured" /\ order[2] = "fallback"
    BY <2>4
  <2>6. form \in {"plain", order[1]} \/ form \in {"plain", order[2]}
    BY <2>3, <2>5 DEF Forms, form
  <2>7. \E i \in DOMAIN order : Opens(order[i], form)
    BY <2>5, <2>6 DEF Opens
  <2>8. Decrypts(hooks[h], Ciphers(TRUE))
    BY <2>7 DEF Decrypts, order, form
  <2> QED BY <2>8 DEF WhInv, Sealing, SealedHook
<1> QED BY <1>1, WhInvHolds, PTL

\* The Idempotency-Key of a manual delivery: any requests, retries, raising writes and
\* deaths of the process dispatch it once until it is forgotten, and what its action
\* says of the endpoint is so.
THEOREM ManualDeliveriesAreTrue == WhSpec => []ManualActionsAreTrue
<1>1. WhInv => ManualActionsAreTrue
  <2> SUFFICES ASSUME WhInv, NEW k \in WhKeys
               PROVE  /\ seen.runs[k] <= 1
                      /\ actions[k].status = "completed" => actions[k].id \in seen.landed
                      /\ actions[k].status = "running" =>
                            \/ spent.crashes > 0 \/ spent.faults > 0
                            \/ \E r \in WhRoutes : /\ routes[r].pc \in {"posting", "recording", "telling"}
                                                   /\ routes[r].action = actions[k].id
    BY DEF ManualActionsAreTrue
  <2>1. KeyFits(k) /\ spent.crashes \in Nat /\ spent.faults \in Nat
    BY DEF WhInv, Acting, WhForm, SpentForm
  <2>2. Lag > 0 => spent.crashes > 0 \/ spent.faults > 0
    BY <2>1 DEF Lag
  <2>3. actions[k].status = "running" =>
           \A r \in WhRoutes : ActionOf(routes[r]) = actions[k].id =>
              routes[r].pc \in {"posting", "recording", "telling"} /\ routes[r].action = actions[k].id
    BY <2>1 DEF KeyFits, ActionOf
  <2> QED BY <2>1, <2>2, <2>3 DEF KeyFits
<1> QED BY <1>1, WhInvHolds, PTL

\* A step of one key is a step.
LEMMA KeyMoves ==
  ASSUME NEW k \in WhKeys, Once!Reach(k) \/ Once!Conclude(k)
  PROVE  Once!Next
BY DEF Once!Next

\* What is forgotten is new again, its status and what has landed of it.
LEMMA Forgets ==
  ASSUME WhInv, NEW k \in WhKeys, NEW status, status # "none", seen'.landed = seen.landed,
         actions'[k].status = status, actions'[k].id = seen.made + 1, actions[k].status = "none",
         \A j \in WhKeys \ {k} : actions'[j] = actions[j] \/ (actions'[j].status = "none" /\ actions'[j].id = 0),
         NEW forgotten \in SUBSET WhKeys, forgotten = {j \in WhKeys : actions'[j].status = "none"}
  PROVE  /\ [j \in WhKeys |-> actions'[j].status]
              = [j \in WhKeys |-> IF j \in forgotten THEN "none" ELSE IF j = k THEN status ELSE actions[j].status]
         /\ {j \in WhKeys : actions'[j].status # "none" /\ actions'[j].id \in seen'.landed}
              = {j \in WhKeys : actions[j].status # "none" /\ actions[j].id \in seen.landed} \ forgotten
<1>1. seen.made + 1 \notin seen.landed
  <2>1. seen.made \in Nat
    BY DEF WhInv, WhForm, SeenForm
  <2>2. \A n \in seen.landed : n <= seen.made
    BY DEF WhInv, Acting
  <2> QED BY <2>1, <2>2
<1>2. ASSUME NEW j \in WhKeys
      PROVE  actions'[j].status = IF j \in forgotten THEN "none" ELSE IF j = k THEN status ELSE actions[j].status
  OBVIOUS
<1>3. ASSUME NEW j \in WhKeys
      PROVE  actions'[j].status # "none" /\ actions'[j].id \in seen'.landed
               <=> actions[j].status # "none" /\ actions[j].id \in seen.landed /\ j \notin forgotten
  BY <1>1
<1> QED BY <1>2, <1>3

\* The first request with a key dispatches it, or leaves it pending.
LEMMA BeginsOnce ==
  ASSUME WhInv, NEW r \in WhRoutes, Begin(r) \/ BeginFails(r)
  PROVE  Once!Next
<1>1. PICK k \in WhKeys : k = routes[r].request.key /\ actions[k].status = "none"
  BY RouteKnows DEF Begin, BeginFails, WhInv, IsFirst
<1>2. PICK status \in {"running", "pending"} : actions' = Made(k, status)
  BY <1>1 DEF Begin, BeginFails
<1>3. seen'.landed = seen.landed
  BY DEF Begin, BeginFails, WhInv, WhForm, SeenForm
<1>4. /\ actions'[k].status = status /\ actions'[k].id = seen.made + 1
      /\ \A j \in WhKeys \ {k} : actions'[j] = actions[j] \/ (actions'[j].status = "none" /\ actions'[j].id = 0)
  BY <1>2, MadeKeeps DEF WhInv
<1>5. PICK forgotten \in SUBSET WhKeys : forgotten = {j \in WhKeys : actions'[j].status = "none"}
  OBVIOUS
<1>6. /\ [j \in WhKeys |-> actions'[j].status]
           = [j \in WhKeys |-> IF j \in forgotten THEN "none" ELSE IF j = k THEN status ELSE actions[j].status]
      /\ {j \in WhKeys : actions'[j].status # "none" /\ actions'[j].id \in seen'.landed}
           = {j \in WhKeys : actions[j].status # "none" /\ actions[j].id \in seen.landed} \ forgotten
  BY <1>1, <1>3, <1>4, <1>5, Forgets
<1>7. k \notin forgotten
  BY <1>4, <1>5
<1>8. Once!Dispatch(k, forgotten)
  BY <1>1, <1>6, <1>7 DEF Once!Dispatch, Once!Without
<1> QED BY <1>8 DEF Once!Next

\* The endpoint takes nothing but what is under way, or was forgotten.
LEMMA LandsOnce ==
  ASSUME WhInv, NEW r \in WhRoutes, routes[r].pc = "posting", NEW outcome \in Outcomes,
         actions' = actions, seen'.landed = seen.landed \/ seen'.landed = Landed(r, outcome)
  PROVE  [Once!Next]_(Once!vars)
<1> DEFINE n == routes[r].action
<1>1. CASE seen'.landed = seen.landed
  BY <1>1 DEF Once!vars
<1>2. CASE seen'.landed = seen.landed \cup {n} /\ n # 0
  <2>1. RouteFits(r) /\ ActionOf(routes[r]) = n
    BY DEF WhInv, Acting, ActionOf
  <2> HIDE DEF n
  <2>2. CASE \E k \in WhKeys : actions[k].id = n
    <3>1. PICK k \in WhKeys : actions[k].id = n
      BY <2>2
    <3>2. actions[k].status = "running"
      BY <1>2, <2>1, <3>1 DEF RouteFits
    <3>3. \A j \in WhKeys : actions[j].id = n => j = k
      BY <1>2, <3>1 DEF WhInv, Acting
    <3>4. Once!Reach(k)
      BY <1>2, <3>1, <3>2, <3>3 DEF Once!Reach
    <3> QED BY <3>4, KeyMoves
  <2>3. CASE \A k \in WhKeys : actions[k].id # n
    BY <1>2, <2>3 DEF Once!vars
  <2> QED BY <2>2, <2>3
<1> QED BY <1>1, <1>2 DEF Landed

\* What is told concludes its key, if that is kept.
LEMMA TellsOnce ==
  ASSUME WhInv, NEW r \in WhRoutes, Tell(r)
  PROVE  [Once!Next]_(Once!vars)
<1> DEFINE n == routes[r].action
           status == routes[r].status
<1>1. /\ routes[r].pc = "telling" /\ seen' = seen
      /\ actions' = [k \in WhKeys |-> IF actions[k].id = n THEN [actions[k] EXCEPT !.status = status] ELSE actions[k]]
  BY DEF Tell
<1>2. n \in Nat \ {0} /\ status \in {"completed", "failed"} /\ ActionOf(routes[r]) = n
  BY <1>1, RouteKnows DEF WhInv, ToldRecord, ActionOf
<1>3. RouteFits(r) /\ (status = "completed" => n \in seen.landed)
  BY <1>1, <1>2 DEF WhInv, Acting, RouteFits
<1> HIDE DEF n, status
<1>4. actions \in [WhKeys -> ActionRecord]
  BY DEF WhInv, WhForm
<1>5. \A k \in WhKeys : /\ actions'[k].id = actions[k].id
                        /\ actions'[k].status = IF actions[k].id = n THEN status ELSE actions[k].status
  <2>1. ASSUME NEW k \in WhKeys
        PROVE  /\ [actions[k] EXCEPT !.status = status].id = actions[k].id
               /\ [actions[k] EXCEPT !.status = status].status = status
    BY <1>4 DEF ActionRecord
  <2> QED BY <1>1, <2>1
<1>6. CASE \E k \in WhKeys : actions[k].id = n
  <2>1. PICK k \in WhKeys : actions[k].id = n
    BY <1>6
  <2>2. actions[k].status = "running"
    BY <1>2, <1>3, <2>1 DEF RouteFits
  <2>3. \A j \in WhKeys : actions[j].id = n <=> j = k
    BY <1>2, <2>1 DEF WhInv, Acting
  <2>4. \A j \in WhKeys : actions'[j].status = IF j = k THEN status ELSE actions[j].status
    BY <1>5, <2>3
  <2>5. \A j \in WhKeys : actions'[j].status # "none" /\ actions'[j].id \in seen'.landed
                            <=> actions[j].status # "none" /\ actions[j].id \in seen.landed
    BY <1>1, <1>2, <1>5, <2>2, <2>4
  <2>6. status = "completed" => k \in {j \in WhKeys : actions[j].status # "none" /\ actions[j].id \in seen.landed}
    BY <1>3, <2>1, <2>2
  <2>7. Once!Conclude(k)
    BY <1>2, <2>2, <2>4, <2>5, <2>6 DEF Once!Conclude
  <2> QED BY <2>7, KeyMoves
<1>7. CASE \A k \in WhKeys : actions[k].id # n
  BY <1>1, <1>5, <1>7 DEF Once!vars
<1> QED BY <1>6, <1>7

\* The keys whose actions are lost are forgotten.
LEMMA LosesOnce ==
  ASSUME WhInv, NEW limit, LoseActions(limit)
  PROVE  Once!Next
<1>1. actions' = Newest(actions, limit) /\ seen'.landed = seen.landed
  BY DEF LoseActions, WhInv, WhForm, SeenForm
<1>2. \A j \in WhKeys : actions'[j] = actions[j] \/ (actions'[j].status = "none" /\ actions'[j].id = 0)
  BY <1>1, NewestKeeps DEF WhInv
<1>3. PICK forgotten \in SUBSET WhKeys : forgotten = {j \in WhKeys : actions'[j].status = "none"}
  OBVIOUS
<1>4. /\ \A j \in WhKeys : actions'[j].status = IF j \in forgotten THEN "none" ELSE actions[j].status
      /\ \A j \in WhKeys : actions'[j].status # "none" /\ actions'[j].id \in seen'.landed
                             <=> actions[j].status # "none" /\ actions[j].id \in seen.landed /\ j \notin forgotten
  BY <1>1, <1>2, <1>3
<1>5. Once!Forget(forgotten)
  BY <1>4 DEF Once!Forget, Once!Without
<1> QED BY <1>5 DEF Once!Next

\* While its key is kept, an operator's redelivery is dispatched once, is posted only
\* while it runs, and what its action says never changes again, whatever requests
\* repeat the key, whichever write raises and wherever the process dies
\* (create_or_get_action, update_action).
THEOREM ManualDeliveryImplementsOneDispatch == WhSpec => DispatchesOncePerKey
<1>1. WhInit => Once!Init
  <2> SUFFICES ASSUME WhInit PROVE Once!Init
    OBVIOUS
  <2>1. \A k \in WhKeys : actions[k].status = "none"
    BY DEF WhInit, NoAction
  <2> QED BY <2>1 DEF Once!Init
<1>2. WhInv /\ [WhNext]_whVars => [Once!Next]_(Once!vars)
  <2> SUFFICES ASSUME WhInv, [WhNext]_whVars PROVE [Once!Next]_(Once!vars)
    OBVIOUS
  <2>1. CASE actions' = actions /\ seen'.landed = seen.landed
    BY <2>1 DEF Once!vars
  <2>2. ASSUME NEW r \in WhRoutes, Begin(r) \/ BeginFails(r) PROVE [Once!Next]_(Once!vars)
    BY <2>2, BeginsOnce
  <2>3. ASSUME NEW r \in WhRoutes, NEW outcome \in Outcomes, Retry(r, outcome)
        PROVE  [Once!Next]_(Once!vars)
    <3>1. seen'.landed = Landed(r, outcome)
      BY <2>3 DEF Retry, WhInv, WhForm, SeenForm
    <3> QED BY <2>3, <3>1, LandsOnce DEF Retry
  <2>4. ASSUME NEW r \in WhRoutes, NEW outcome \in Outcomes,
               \/ \E x \in Extents : End(r, outcome, x)
               \/ CrashInEnd(r, outcome)
        PROVE  [Once!Next]_(Once!vars)
    <3>1. PICK recorded \in BOOLEAN : seen' = Noted(r, recorded, Landed(r, outcome))
      BY <2>4 DEF End, CrashInEnd, AppendHistory
    <3>2. routes[r].pc = "posting" /\ actions' = actions
      BY <2>4 DEF End, CrashInEnd, Dies
    <3>3. PICK landed \in SUBSET Nat : landed = Landed(r, outcome)
      BY <3>2, LandedForm DEF WhInv
    <3>4. seen'.landed = Landed(r, outcome)
      BY <3>1, <3>2, <3>3, NotedForm DEF WhInv
    <3> QED BY <3>2, <3>4, LandsOnce
  <2>5. ASSUME NEW r \in WhRoutes, CrashInRecord(r) \/ \E x \in Extents : RecordFailure(r, x)
        PROVE  [Once!Next]_(Once!vars)
    <3>1. PICK recorded \in BOOLEAN : seen' = Noted(r, recorded, seen.landed)
      BY <2>5 DEF RecordFailure, CrashInRecord, AppendHistory
    <3>2. routes[r].pc = "recording" /\ actions' = actions
      BY <2>5 DEF RecordFailure, CrashInRecord, Dies
    <3>3. PICK landed \in SUBSET Nat : landed = seen.landed
      BY DEF WhInv, WhForm, SeenForm
    <3>4. seen'.landed = seen.landed
      BY <3>1, <3>2, <3>3, NotedForm DEF WhInv
    <3> QED BY <2>1, <3>2, <3>4
  <2>6. ASSUME NEW r \in WhRoutes, Tell(r) PROVE [Once!Next]_(Once!vars)
    BY <2>6, TellsOnce
  <2>7. ASSUME NEW limit, LoseActions(limit) PROVE [Once!Next]_(Once!vars)
    BY <2>7, LosesOnce
  <2>8. ASSUME Operate PROVE [Once!Next]_(Once!vars)
    <3>1. \/ UNCHANGED <<actions, seen>>
          \/ \E r \in WhRoutes : Begin(r) \/ BeginFails(r)
          \/ \E r \in WhRoutes, o \in Outcomes : Retry(r, o) \/ (\E x \in Extents : End(r, o, x)) \/ CrashInEnd(r, o)
      BY <2>8 DEF Operate, Start, Delete, SetEnabled, Create, Put, Ask, Forward, Patch, Test, Answer
    <3> QED BY <2>1, <2>2, <2>3, <2>4, <3>1
  <2>9. \/ UNCHANGED <<actions, seen>>
        \/ \E r \in WhRoutes : Tell(r) \/ CrashInRecord(r) \/ \E x \in Extents : RecordFailure(r, x)
        \/ \E limit : LoseActions(limit)
        \/ Operate
    BY DEF WhNext, whVars, TellFails, LoseEvidence, Crash, Dies
  <2> QED BY <2>1, <2>5, <2>6, <2>7, <2>8, <2>9
<1> QED BY <1>1, <1>2, WhInvHolds, PTL DEF WhSpec, DispatchesOncePerKey, Once!Spec

\* record_delivery writes the evidence before the counters: they lag behind it by at
\* most the deaths of the process and the writes that raise, and never run ahead.
THEOREM CountersFollowTheEvidence == WhSpec => []CountsAreEvidenced
<1>1. WhInv => CountsAreEvidenced
  <2> SUFFICES ASSUME WhInv, NEW h \in Hooks, Exists(h)
               PROVE  LET counted == hooks[h].ok + hooks[h].failed IN
                      counted <= seen.recorded[h] /\ seen.recorded[h] <= counted + spent.crashes + spent.faults
    BY DEF CountsAreEvidenced
  <2>1. hooks[h].ok \in Nat /\ hooks[h].failed \in Nat /\ spent \in SpentForm /\ seen.recorded[h] \in Nat
    BY DEF WhInv, WhForm, Exists, Webhook, SeenForm
  <2>2. CountsFit(hooks[h], seen.recorded[h], Lag)
    BY DEF WhInv, Counting
  <2> QED BY <2>1, <2>2 DEF CountsFit, Lag, SpentForm
<1> QED BY <1>1, WhInvHolds, PTL

\* What is kept of a webhook are its newest deliveries: fewer than Retention are newer
\* than any of them.
NewestKept(kept) == \A d \in kept : Cardinality(Newer(kept, d)) < Retention
Finite == IsFiniteSet(deliveries)

\* A delivery that is dropped is the oldest of one more than a webhook keeps: all that
\* are newer stay.
LEMMA RecordedKeeps ==
  ASSUME WhForm, Finite, NewestKept(deliveries), NEW r \in WhRoutes, routes[r].pc \in {"posting", "recording"}, NEW ok \in BOOLEAN
  PROVE  /\ IsFiniteSet(Recorded(r, ok)) /\ NewestKept(Recorded(r, ok))
         /\ \A d \in deliveries \ Recorded(r, ok) : Cardinality(Newer(Recorded(r, ok), d)) = Retention
<1> DEFINE n == Delivery(r, ok)
           log == deliveries \cup {n}
           next == Recorded(r, ok)
<1>1. /\ next \subseteq log
      /\ \A d \in log : d \in next <=> d.hook # n.hook \/ Cardinality(Newer(log, d)) < Retention
  BY DEF Recorded, Delivery
<1>0. \A d \in log : d.id \in Nat /\ d.id <= n.id /\ n.id \in Nat
  BY DEF WhForm, SeenForm, Evidence, Delivery
<1> HIDE DEF n, next
<1>2. IsFiniteSet(log)
  BY FS_AddElement DEF Finite
<1> HIDE DEF log
<1>3. ASSUME NEW kept \in SUBSET log, NEW d
      PROVE  /\ Newer(kept, d) \in SUBSET Newer(log, d) /\ IsFiniteSet(Newer(log, d))
             /\ Cardinality(Newer(kept, d)) <= Cardinality(Newer(log, d))
             /\ Cardinality(Newer(kept, d)) \in Nat /\ Cardinality(Newer(log, d)) \in Nat
  <2>1. Newer(kept, d) \in SUBSET Newer(log, d) /\ Newer(log, d) \in SUBSET log
    BY DEF Newer
  <2>2. IsFiniteSet(Newer(log, d))
    BY <1>2, <2>1, FS_Subset
  <2>3. IsFiniteSet(Newer(kept, d)) /\ Cardinality(Newer(kept, d)) <= Cardinality(Newer(log, d))
    BY <2>1, <2>2, FS_Subset
  <2> QED BY <2>1, <2>2, <2>3, FS_CardinalityType
<1>4. IsFiniteSet(next)
  BY <1>1, <1>2, FS_Subset
<1>5. ASSUME NEW d \in next
      PROVE  Cardinality(Newer(next, d)) < Retention
  <2>1. next \in SUBSET log
    BY <1>1
  <2>2. CASE d.hook = n.hook
    <3>1. Cardinality(Newer(log, d)) < Retention
      BY <1>1, <2>2
    <3> QED BY <1>3, <2>1, <3>1, WhAssumption
  <2>3. CASE d.hook # n.hook
    <3>1. d \in deliveries
      BY <1>1, <2>3 DEF log
    <3>2. Newer(log, d) = Newer(deliveries, d)
      BY <2>3 DEF Newer, log
    <3>3. Cardinality(Newer(log, d)) < Retention
      BY <3>1, <3>2 DEF NewestKept
    <3> QED BY <1>3, <2>1, <3>3, WhAssumption
  <2> QED BY <2>2, <2>3
<1>6. ASSUME NEW d \in deliveries \ next
      PROVE  Cardinality(Newer(next, d)) = Retention
  <2>1. d \in log /\ d.hook = n.hook /\ ~(Cardinality(Newer(log, d)) < Retention)
    BY <1>1 DEF log
  <2>2. Cardinality(Newer(log, d)) <= Retention
    <3>1. Newer(log, d) \in SUBSET (Newer(deliveries, d) \cup {n})
      BY DEF Newer, log
    <3>2. /\ IsFiniteSet(Newer(deliveries, d)) /\ Cardinality(Newer(deliveries, d)) \in Nat
          /\ Cardinality(Newer(deliveries, d)) < Retention
      <4>1. Newer(deliveries, d) \in SUBSET deliveries
        BY DEF Newer
      <4>2. IsFiniteSet(Newer(deliveries, d))
        BY <4>1, FS_Subset DEF Finite
      <4> QED BY <4>2, FS_CardinalityType DEF NewestKept
    <3>3. /\ IsFiniteSet(Newer(deliveries, d) \cup {n})
          /\ Cardinality(Newer(deliveries, d) \cup {n}) <= Cardinality(Newer(deliveries, d)) + 1
      <4> DEFINE old == Newer(deliveries, d)
      <4>1. IsFiniteSet(old) /\ Cardinality(old) \in Nat
        BY <3>2
      <4> HIDE DEF old
      <4>2. /\ IsFiniteSet(old \cup {n})
            /\ Cardinality(old \cup {n}) = IF n \in old THEN Cardinality(old) ELSE Cardinality(old) + 1
        BY <4>1, FS_AddElement
      <4>3. IsFiniteSet(old \cup {n}) /\ Cardinality(old \cup {n}) <= Cardinality(old) + 1
        BY <4>1, <4>2
      <4> QED BY <4>3 DEF old
    <3>4. Cardinality(Newer(log, d)) <= Cardinality(Newer(deliveries, d) \cup {n})
      BY <3>1, <3>3, FS_Subset
    <3>5. Cardinality(Newer(log, d)) \in Nat /\ Cardinality(Newer(deliveries, d) \cup {n}) \in Nat
      BY <1>3, <3>3, FS_CardinalityType
    <3> QED BY <3>2, <3>3, <3>4, <3>5, WhAssumption
  <2>3. Cardinality(Newer(log, d)) = Retention
    BY <1>3, <2>1, <2>2, WhAssumption
  <2>4. ASSUME NEW e \in Newer(log, d)
        PROVE  e \in next
    <3>1. e \in log /\ e.hook = n.hook
      BY <2>1 DEF Newer
    <3>2. Newer(log, e) \in SUBSET Newer(log, d) /\ e \notin Newer(log, e)
      <4> SUFFICES ASSUME NEW x \in Newer(log, e) PROVE x \in Newer(log, d) /\ x # e
        OBVIOUS
      <4>1. x \in log /\ x.hook = e.hook /\ x.id > e.id /\ e.id > d.id /\ d.hook = e.hook
        BY <2>1, <3>1 DEF Newer
      <4>2. x.id \in Nat /\ e.id \in Nat /\ d.id \in Nat
        BY <1>0, <2>1, <3>1, <4>1
      <4>3. x.id > d.id /\ x.hook = d.hook /\ x # e
        BY <4>1, <4>2
      <4> QED BY <4>1, <4>3 DEF Newer
    <3>3. Cardinality(Newer(log, e)) < Retention
      <4>1. Newer(log, e) \in SUBSET Newer(log, d) /\ Newer(log, e) # Newer(log, d)
        BY <3>2
      <4>2. IsFiniteSet(Newer(log, d)) /\ Cardinality(Newer(log, e)) \in Nat
        BY <1>3
      <4>3. Cardinality(Newer(log, e)) <= Retention /\ Cardinality(Newer(log, e)) # Retention
        BY <4>1, <4>2, <2>3, FS_Subset
      <4> QED BY <4>2, <4>3, WhAssumption
    <3> QED BY <1>1, <3>1, <3>3
  <2>5. Newer(next, d) = Newer(log, d)
    BY <1>1, <2>4 DEF Newer
  <2> QED BY <2>3, <2>5
<1> QED BY <1>4, <1>5, <1>6 DEF NewestKept, next

\* Traffic of one webhook, and the deletion of its configuration, leave the evidence
\* of the others and its own: unless the file is lost, what goes is the oldest of one
\* more than Retention.
THEOREM EvidenceIsKept == WhSpec => EvidenceIsRetained
<1>1. WhInit => Finite /\ NewestKept(deliveries)
  <2> SUFFICES ASSUME WhInit PROVE Finite /\ NewestKept(deliveries)
    OBVIOUS
  <2> DEFINE first(h, t, x) == [id |-> 1, hook |-> h, test |-> t, ok |-> TRUE, text |-> x, truncated |-> x = "cut"]
             Shown == {"whole", "shortened", "cut"}
  <2>1. deliveries \in {{}} \cup {{first(h, t, x)} : h \in Hooks, t \in BOOLEAN, x \in Shown}
    BY DEF WhInit, Kept
  <2>1a. \A h \in Hooks, t \in BOOLEAN, x \in Shown : first(h, t, x).id = 1
    OBVIOUS
  <2> HIDE DEF first, Shown
  <2>2. deliveries = {} \/ \E d : deliveries = {d} /\ d.id = 1
    BY <2>1, <2>1a
  <2>3. IsFiniteSet(deliveries)
    BY <2>2, FS_EmptySet, FS_Singleton
  <2>4. ASSUME NEW d \in deliveries
        PROVE  Cardinality(Newer(deliveries, d)) < Retention
    <3>2. Newer(deliveries, d) = {}
      BY <2>2 DEF Newer
    <3> QED BY <3>2, FS_EmptySet, WhAssumption
  <2> QED BY <2>3, <2>4 DEF Finite, NewestKept
<1>2. ASSUME WhInv, Finite, NewestKept(deliveries), [WhNext]_whVars
      PROVE  /\ Finite' /\ NewestKept(deliveries)'
             /\ deliveries' # {} => \A d \in deliveries \ deliveries' :
                   Cardinality({e \in deliveries' : e.hook = d.hook /\ e.id > d.id}) = Retention
  <2>1. \/ deliveries' = deliveries \/ deliveries' = {}
        \/ \E r \in WhRoutes, ok \in BOOLEAN : routes[r].pc \in {"posting", "recording"} /\ deliveries' = Recorded(r, ok)
    <3>1. ASSUME NEW r \in WhRoutes, NEW o \in Outcomes, NEW x, End(r, o, x) \/ CrashInEnd(r, o)
          PROVE  \E ok \in BOOLEAN : routes[r].pc = "posting" /\ (deliveries' = deliveries \/ deliveries' = Recorded(r, ok))
      BY <3>1 DEF End, CrashInEnd, AppendHistory
    <3>2. ASSUME NEW r \in WhRoutes, NEW x, RecordFailure(r, x) \/ CrashInRecord(r)
          PROVE  routes[r].pc = "recording" /\ (deliveries' = deliveries \/ deliveries' = Recorded(r, FALSE))
      BY <3>2 DEF RecordFailure, CrashInRecord, AppendHistory
    <3>3. Operate => \/ deliveries' = deliveries
                     \/ \E r \in WhRoutes, o \in Outcomes : (\E x \in Extents : End(r, o, x)) \/ CrashInEnd(r, o)
      BY DEF Operate, Start, Delete, SetEnabled, Create, Put, Ask, Forward, Patch, Test, Begin, BeginFails, Answer, Retry
    <3>4. \/ Operate \/ deliveries' = deliveries \/ deliveries' = {}
          \/ \E r \in WhRoutes : CrashInRecord(r) \/ \E x \in Extents : RecordFailure(r, x)
      BY <1>2 DEF WhNext, whVars, Tell, TellFails, LoseActions, LoseEvidence, Crash
    <3> QED BY <3>1, <3>2, <3>3, <3>4
  <2>2. CASE deliveries' = deliveries
    BY <1>2, <2>2 DEF Finite, NewestKept
  <2>3. CASE deliveries' = {}
    BY <2>3, FS_EmptySet DEF Finite, NewestKept
  <2>4. CASE \E r \in WhRoutes, ok \in BOOLEAN : routes[r].pc \in {"posting", "recording"} /\ deliveries' = Recorded(r, ok)
    <3>1. PICK r \in WhRoutes, ok \in BOOLEAN : routes[r].pc \in {"posting", "recording"} /\ deliveries' = Recorded(r, ok)
      BY <2>4
    <3>2. /\ IsFiniteSet(Recorded(r, ok)) /\ NewestKept(Recorded(r, ok))
          /\ \A d \in deliveries \ Recorded(r, ok) : Cardinality(Newer(Recorded(r, ok), d)) = Retention
      BY <1>2, <3>1, RecordedKeeps DEF WhInv
    <3> QED BY <3>1, <3>2 DEF Finite, NewestKept, Newer
  <2> QED BY <2>1, <2>2, <2>3, <2>4
<1> QED BY <1>1, <1>2, WhInvHolds, PTL DEF WhSpec, EvidenceIsRetained

(***************************************************************************)
(* Automations.                                                            *)
(***************************************************************************)

\* A batch that carries out an execution.
RunForm(run) ==
    /\ run = [pc |-> "acting", rest |-> run.rest, id |-> run.id, of |-> run.of, left |-> run.left,
              tries |-> run.tries, success |-> run.success, skipped |-> run.skipped]
    /\ run.rest \subseteq Autos /\ run.success \in BOOLEAN /\ run.skipped \in BOOLEAN
BatchForm(batch) ==
    batch = Waiting \/ batch \in [pc : {"next"}, rest : SUBSET Autos] \/ RunForm(batch)

Execution == [of : Autos, status : {"running"} \cup Verdicts]
Definition == [status : {"active", "paused", "error"}, due : BOOLEAN, result : {"none"} \cup Verdicts, recipe : Recipe]
Truth == [met : Seq(SUBSET Verdicts), last : [Autos -> {"none"} \cup Verdicts], stopped : [Autos -> BOOLEAN], deaths : Nat]

AuForm ==
    /\ definitions \in [Autos -> Definition]
    /\ executions \in Seq(Execution)
    /\ DOMAIN batches = Batches /\ \A b \in Batches : BatchForm(batches[b])
    /\ events \in [{"error_detected", "event_received"} -> Nat]
    /\ count \in [executions : Nat, occurrences : Nat, commands : Nat]
    /\ truth \in Truth
    /\ Len(executions) = count.executions /\ Len(truth.met) = count.executions

\* A batch carries out an execution of its own, and knows what it has met.
CarriesOut(b) ==
    LET run == batches[b] IN
    /\ run.id \in 1 .. count.executions /\ executions[run.id].status = "running"
    /\ "failed" \notin truth.met[run.id]
    /\ run.success <=> "succeeded" \in truth.met[run.id]
    /\ run.skipped <=> truth.met[run.id] \subseteq {"skipped"}
OwnExecutions ==
    /\ \A b \in Batches : batches[b].pc = "acting" => CarriesOut(b)
    /\ \A b, c \in Batches :
         batches[b].pc = "acting" /\ batches[c].pc = "acting" /\ batches[b].id = batches[c].id => b = c

\* What the history says of an execution, and the definition of its automation.
Told(status, met, running) ==
    /\ status = "running" => running
    /\ status = "failed" => "failed" \in met
    /\ status = "succeeded" => "succeeded" \in met /\ "failed" \notin met
    /\ status = "skipped" => met \subseteq {"skipped"}
HistoryTells == \A i \in 1 .. count.executions : Told(executions[i].status, truth.met[i], Running(i) \/ truth.deaths > 0)
DefinitionsTell ==
    \A a \in Autos : definitions[a].result = truth.last[a] /\ (truth.stopped[a] => definitions[a].status = "error")

AuInv == AuForm /\ OwnExecutions /\ HistoryTells /\ DefinitionsTell

LEMMA AuInvInit == AuInit => AuInv
<1> SUFFICES ASSUME AuInit PROVE AuInv
  OBVIOUS
<1>1. definitions \in [Autos -> Definition] /\ \A a \in Autos : definitions[a].result = "none"
  <2> DEFINE fresh(r) == [status |-> "active", due |-> FALSE, result |-> "none", recipe |-> r]
  <2>1. \A r \in Recipes : fresh(r) \in Definition /\ fresh(r).result = "none"
    BY AuAssumption DEF Definition
  <2>2. definitions \in [Autos -> {fresh(r) : r \in Recipes}]
    BY DEF AuInit
  <2> HIDE DEF fresh
  <2> QED BY <2>1, <2>2
<1>2. executions = <<>> /\ batches = [b \in Batches |-> Waiting]
  BY DEF AuInit
<1>3. \A b \in Batches : BatchForm(batches[b]) /\ batches[b].pc = "waiting"
  BY <1>2 DEF BatchForm, Waiting
<1>4. /\ count \in [executions : Nat, occurrences : Nat, commands : Nat] /\ count.executions = 0
      /\ events \in [{"error_detected", "event_received"} -> Nat]
  BY DEF AuInit
<1>5. /\ truth = [met |-> <<>>, last |-> [a \in Autos |-> "none"], stopped |-> [a \in Autos |-> FALSE], deaths |-> 0]
  BY DEF AuInit
<1>6. truth \in Truth /\ truth.met = <<>> /\ \A a \in Autos : truth.last[a] = "none" /\ ~truth.stopped[a]
  BY <1>5 DEF Truth
<1>7. AuForm
  BY <1>1, <1>2, <1>3, <1>4, <1>6 DEF AuForm
<1>8. OwnExecutions /\ HistoryTells /\ DefinitionsTell
  BY <1>1, <1>3, <1>4, <1>6 DEF OwnExecutions, HistoryTells, DefinitionsTell
<1> QED BY <1>7, <1>8 DEF AuInv

\* Who is running what.
LEMMA RunsKept ==
  ASSUME AuForm, OwnExecutions, HistoryTells,
         \A b \in Batches : batches'[b] = batches[b] \/ (batches[b].pc # "acting" /\ batches'[b].pc # "acting"),
         UNCHANGED executions, truth'.met = truth.met, truth'.deaths = truth.deaths, count'.executions = count.executions
  PROVE  OwnExecutions' /\ HistoryTells'
<1>1. \A b \in Batches : batches'[b].pc = "acting" => batches[b].pc = "acting" /\ batches'[b] = batches[b]
  OBVIOUS
<1>2. \A b \in Batches : batches[b].pc = "acting" => batches'[b] = batches[b]
  OBVIOUS
<1>3. OwnExecutions'
  <2>1. ASSUME NEW b \in Batches, batches'[b].pc = "acting"
        PROVE  CarriesOut(b)'
    BY <1>1, <2>1 DEF OwnExecutions, CarriesOut
  <2> QED BY <1>1, <2>1 DEF OwnExecutions
<1>4. \A i : Running(i) => Running(i)'
  BY <1>2 DEF Running
<1> QED BY <1>3, <1>4 DEF HistoryTells, Told

\* A batch that neither begins nor ends an execution.
LEMMA BatchTurns ==
  ASSUME AuInv, NEW b \in Batches, batches[b].pc # "acting",
         NEW batch, batch = Waiting \/ batch \in [pc : {"next"}, rest : SUBSET Autos],
         batches' = [batches EXCEPT ![b] = batch],
         events' \in [{"error_detected", "event_received"} -> Nat],
         UNCHANGED <<definitions, executions, count, truth>>
  PROVE  AuInv'
<1>1. batch.pc # "acting" /\ BatchForm(batch)
  BY DEF Waiting, BatchForm
<1>2. DOMAIN batches' = Batches /\ batches'[b] = batch /\ \A c \in Batches \ {b} : batches'[c] = batches[c]
  BY DEF AuInv, AuForm
<1>3. AuForm'
  BY <1>1, <1>2 DEF AuInv, AuForm, BatchForm
<1>4. OwnExecutions' /\ HistoryTells'
  BY <1>1, <1>2, RunsKept DEF AuInv
<1>5. DefinitionsTell'
  BY DEF AuInv, DefinitionsTell
<1> QED BY <1>3, <1>4, <1>5 DEF AuInv

LEMMA DecisionsKeep ==
  ASSUME AuInv,
         \/ Tick
         \/ \E b \in Dispatchers, kind \in DOMAIN events : Dispatch(b, kind)
         \/ \E b \in Dispatchers, a \in Autos : Execute(b, a)
         \/ \E b \in Batches : EndBatch(b)
  PROVE  AuInv'
<1>1. ASSUME NEW b \in Batches, NEW chosen \in SUBSET Autos, batches[b] = Waiting, Decide(b, chosen),
             events' \in [{"error_detected", "event_received"} -> Nat],
             UNCHANGED <<definitions, executions, count, truth>>
      PROVE  AuInv'
  <2> DEFINE batch == [pc |-> "next", rest |-> chosen]
  <2>1. batch \in [pc : {"next"}, rest : SUBSET Autos] /\ batches' = [batches EXCEPT ![b] = batch]
    BY <1>1 DEF Decide
  <2>2. batches[b].pc # "acting"
    BY <1>1 DEF Waiting
  <2> HIDE DEF batch
  <2> QED BY <1>1, <2>1, <2>2, BatchTurns
<1>2. events \in [{"error_detected", "event_received"} -> Nat] /\ Due \subseteq Autos /\ Dispatchers \subseteq Batches
  BY DEF AuInv, AuForm, Due, Active, Batches
<1>3. CASE Tick
  BY <1>1, <1>2, <1>3 DEF Tick, Batches
<1>4. ASSUME NEW b \in Dispatchers, NEW kind \in DOMAIN events, Dispatch(b, kind)
      PROVE  AuInv'
  <2>1. events' \in [{"error_detected", "event_received"} -> Nat]
    BY <1>2, <1>4 DEF Dispatch
  <2>2. Triggered(kind) \subseteq Autos
    BY DEF Triggered, Active
  <2> QED BY <1>1, <1>2, <1>4, <2>1, <2>2 DEF Dispatch
<1>5. ASSUME NEW b \in Dispatchers, NEW a \in Autos, Execute(b, a)
      PROVE  AuInv'
  BY <1>1, <1>2, <1>5 DEF Execute
<1>6. ASSUME NEW b \in Batches, EndBatch(b)
      PROVE  AuInv'
  BY <1>2, <1>6, BatchTurns DEF EndBatch
<1> QED BY <1>3, <1>4, <1>5, <1>6

\* The clock, the Gateway and the operators.
LEMMA OutsideKeeps ==
  ASSUME AuInv,
         \/ \E a \in Autos : TimePasses(a)
         \/ \E a \in Autos, s \in {"active", "paused", "error"} : Set(a, s)
         \/ \E kind \in DOMAIN events : Occurs(kind)
  PROVE  AuInv'
<1>0. /\ AuForm /\ OwnExecutions /\ HistoryTells /\ DefinitionsTell
      /\ definitions \in [Autos -> Definition] /\ count \in [executions : Nat, occurrences : Nat, commands : Nat]
      /\ truth \in Truth
  BY DEF AuInv, AuForm
<1>1. ASSUME NEW a \in Autos, TimePasses(a)
      PROVE  AuInv'
  <2> DEFINE new == [definitions[a] EXCEPT !.due = TRUE]
  <2>1. definitions[a] \in Definition
    BY <1>0
  <2>2. new \in Definition /\ new.result = definitions[a].result /\ new.status = definitions[a].status
    BY <2>1 DEF Definition
  <2>3. definitions' = [definitions EXCEPT ![a] = new] /\ UNCHANGED <<executions, batches, events, count, truth>>
    BY <1>1 DEF TimePasses
  <2> HIDE DEF new
  <2>4. AuForm' /\ DefinitionsTell'
    BY <1>0, <2>2, <2>3 DEF AuForm, DefinitionsTell
  <2>5. OwnExecutions' /\ HistoryTells'
    BY <1>0, <2>3, RunsKept
  <2> QED BY <2>4, <2>5 DEF AuInv
<1>2. ASSUME NEW a \in Autos, NEW s \in {"active", "paused", "error"}, Set(a, s)
      PROVE  AuInv'
  <2> DEFINE new == [definitions[a] EXCEPT !.status = s]
             stopped == [truth.stopped EXCEPT ![a] = FALSE]
  <2>1. definitions[a] \in Definition
    BY <1>0
  <2>2. new \in Definition /\ new.result = definitions[a].result
    BY <2>1 DEF Definition
  <2>3. stopped \in [Autos -> BOOLEAN] /\ ~stopped[a] /\ \A c \in Autos \ {a} : stopped[c] = truth.stopped[c]
    BY <1>0 DEF Truth
  <2>4. /\ definitions' = [definitions EXCEPT ![a] = new] /\ truth' = [truth EXCEPT !.stopped = stopped]
        /\ UNCHANGED <<executions, batches, events>> /\ Use("commands", Commands)
    BY <1>2 DEF Set
  <2>5. count' \in [executions : Nat, occurrences : Nat, commands : Nat] /\ count'.executions = count.executions
    BY <1>0, <2>4 DEF Use
  <2> HIDE DEF new, stopped
  <2>6. /\ truth' \in Truth /\ truth'.met = truth.met /\ truth'.deaths = truth.deaths
        /\ truth'.last = truth.last /\ truth'.stopped = stopped
    BY <1>0, <2>3, <2>4 DEF Truth
  <2>7. AuForm'
    BY <1>0, <2>2, <2>4, <2>5, <2>6 DEF AuForm
  <2>8. OwnExecutions' /\ HistoryTells'
    BY <1>0, <2>4, <2>5, <2>6, RunsKept
  <2>9. DefinitionsTell'
    BY <1>0, <2>2, <2>3, <2>4, <2>6 DEF DefinitionsTell
  <2> QED BY <2>7, <2>8, <2>9 DEF AuInv
<1>3. ASSUME NEW kind \in DOMAIN events, Occurs(kind)
      PROVE  AuInv'
  <2>1. UNCHANGED <<definitions, executions, batches, truth>> /\ Use("occurrences", Occurrences)
    BY <1>3 DEF Occurs
  <2>2. count' \in [executions : Nat, occurrences : Nat, commands : Nat] /\ count'.executions = count.executions
    BY <1>0, <2>1 DEF Use
  <2>3. events' \in [{"error_detected", "event_received"} -> Nat]
    BY <1>0, <1>3 DEF Occurs, AuForm
  <2>4. AuForm' /\ DefinitionsTell'
    BY <1>0, <2>1, <2>2, <2>3 DEF AuForm, DefinitionsTell
  <2>5. OwnExecutions' /\ HistoryTells'
    BY <1>0, <2>1, <2>2, RunsKept
  <2> QED BY <2>4, <2>5 DEF AuInv
<1> QED BY <1>1, <1>2, <1>3

\* All that was running is left so; a death explains it.
LEMMA AuCrashKeeps ==
  ASSUME AuInv, AuCrash
  PROVE  AuInv'
<1>0. /\ AuForm /\ HistoryTells /\ DefinitionsTell /\ truth \in Truth
      /\ count \in [executions : Nat, occurrences : Nat, commands : Nat]
  BY DEF AuInv, AuForm
<1>1. /\ batches' = [b \in Batches |-> Waiting] /\ truth' = [truth EXCEPT !.deaths = @ + 1]
      /\ UNCHANGED <<definitions, executions>> /\ Use("commands", Commands)
  BY DEF AuCrash
<1>2. count' \in [executions : Nat, occurrences : Nat, commands : Nat] /\ count'.executions = count.executions
  BY <1>0, <1>1 DEF Use
<1>3. events' \in [{"error_detected", "event_received"} -> Nat]
  BY <1>0 DEF AuForm, AuCrash
<1> DEFINE deaths == truth.deaths + 1
<1>4. deaths \in Nat /\ deaths > 0
  BY <1>0 DEF Truth
<1>5. truth' = [truth EXCEPT !.deaths = deaths]
  BY <1>1
<1> HIDE DEF deaths
<1>6. /\ truth' \in Truth /\ truth'.met = truth.met /\ truth'.deaths = deaths
      /\ truth'.last = truth.last /\ truth'.stopped = truth.stopped
  BY <1>0, <1>4, <1>5 DEF Truth
<1>7. \A b \in Batches : BatchForm(batches'[b]) /\ batches'[b].pc = "waiting"
  BY <1>1 DEF BatchForm, Waiting
<1>8. AuForm'
  BY <1>0, <1>1, <1>2, <1>3, <1>6, <1>7 DEF AuForm, BatchForm
<1>9. OwnExecutions'
  BY <1>7 DEF OwnExecutions
<1>10. HistoryTells'
  BY <1>0, <1>1, <1>2, <1>4, <1>6 DEF HistoryTells, Told
<1>11. DefinitionsTell'
  BY <1>0, <1>1, <1>6 DEF DefinitionsTell
<1> QED BY <1>8, <1>9, <1>10, <1>11 DEF AuInv

\* An execution that begins is the newest of the history, and of this batch alone.
LEMMA BeginExecutionKeeps ==
  ASSUME AuInv, NEW b \in Batches, NEW a \in Autos, NEW targets \in 0 .. 2, BeginExecution(b, a, targets)
  PROVE  AuInv'
<1> DEFINE n == count.executions + 1
           run == Begun(b, a, targets)
           new == [of |-> a, status |-> "running"]
           met == Append(truth.met, {})
<1>0. /\ AuForm /\ OwnExecutions /\ HistoryTells /\ DefinitionsTell /\ truth \in Truth
      /\ count \in [executions : Nat, occurrences : Nat, commands : Nat]
  BY DEF AuInv, AuForm
<1>1. /\ batches[b].pc = "next" /\ executions' = Append(executions, new) /\ truth' = [truth EXCEPT !.met = met]
      /\ batches' = [batches EXCEPT ![b] = run]
      /\ UNCHANGED <<definitions, events>> /\ Use("executions", Executions)
  BY DEF BeginExecution
<1>2. count' \in [executions : Nat, occurrences : Nat, commands : Nat] /\ count'.executions = n /\ n \in Nat
  BY <1>0, <1>1 DEF Use
<1>3. batches[b].rest \subseteq Autos
  BY <1>0, <1>1 DEF AuForm, BatchForm, RunForm, Waiting
<1>4. RunForm(run) /\ run.pc = "acting" /\ run.id = n /\ ~run.success /\ run.skipped
  BY <1>3 DEF RunForm, Begun
<1>5. new \in Execution /\ new.status = "running"
  BY DEF Execution
<1>6. truth.met \in Seq(SUBSET Verdicts) /\ Len(truth.met) = count.executions
      /\ executions \in Seq(Execution) /\ Len(executions) = count.executions
  BY <1>0 DEF AuForm, Truth
<1>7. /\ met \in Seq(SUBSET Verdicts) /\ Len(met) = n /\ met[n] = {}
      /\ \A i \in 1 .. count.executions : met[i] = truth.met[i]
  <2>1. {} \in SUBSET Verdicts
    OBVIOUS
  <2> QED BY <1>0, <1>6, <2>1
<1> HIDE DEF run, new, met
<1>8. /\ executions' \in Seq(Execution) /\ Len(executions') = n /\ executions'[n] = new
      /\ \A i \in 1 .. count.executions : executions'[i] = executions[i]
  BY <1>0, <1>1, <1>5, <1>6
<1>9. /\ truth' \in Truth /\ truth'.met = met /\ truth'.deaths = truth.deaths
      /\ truth'.last = truth.last /\ truth'.stopped = truth.stopped
  BY <1>0, <1>1, <1>7 DEF Truth
<1>10. DOMAIN batches' = Batches /\ batches'[b] = run /\ \A c \in Batches \ {b} : batches'[c] = batches[c]
  BY <1>0, <1>1 DEF AuForm
<1>11. AuForm'
  BY <1>0, <1>1, <1>2, <1>4, <1>7, <1>8, <1>9, <1>10 DEF AuForm, BatchForm
<1>12. \A c \in Batches \ {b} : batches[c].pc = "acting" =>
         CarriesOut(c) /\ batches[c].id \in 1 .. count.executions /\ batches[c].id # n
  BY <1>0 DEF OwnExecutions, CarriesOut
<1>13. OwnExecutions'
  <2>1. ASSUME NEW c \in Batches, batches'[c].pc = "acting"
        PROVE  CarriesOut(c)'
    <3>1. CASE c = b
      BY <1>0, <1>2, <1>4, <1>5, <1>7, <1>8, <1>9, <1>10, <3>1 DEF CarriesOut
    <3>2. CASE c # b
      <4>1. batches'[c] = batches[c] /\ CarriesOut(c) /\ batches[c].id \in 1 .. count.executions
        BY <1>10, <1>12, <2>1, <3>2
      <4>2. batches[c].id \in 1 .. count'.executions
        BY <1>0, <1>2, <4>1
      <4> QED BY <1>7, <1>8, <1>9, <4>1, <4>2 DEF CarriesOut
    <3> QED BY <3>1, <3>2
  <2>2. ASSUME NEW c \in Batches, NEW d \in Batches, batches'[c].pc = "acting", batches'[d].pc = "acting",
               batches'[c].id = batches'[d].id
        PROVE  c = d
    BY <1>0, <1>4, <1>10, <1>12, <2>2 DEF OwnExecutions
  <2> QED BY <2>1, <2>2 DEF OwnExecutions
<1>14. HistoryTells'
  <2>1. ASSUME NEW i \in 1 .. count.executions
        PROVE  Told(executions'[i].status, truth'.met[i], Running(i)' \/ truth'.deaths > 0)
    <3>1. Running(i) => Running(i)'
      BY <1>1, <1>10 DEF Running
    <3> QED BY <1>0, <1>7, <1>8, <1>9, <3>1 DEF HistoryTells, Told
  <2>2. ASSUME NEW i, i = n
        PROVE  Told(executions'[i].status, truth'.met[i], Running(i)' \/ truth'.deaths > 0)
    <3>1. Running(i)'
      BY <1>4, <1>10, <2>2 DEF Running
    <3>2. executions'[i].status = "running"
      BY <1>5, <1>8, <2>2
    <3> QED BY <3>1, <3>2 DEF Told
  <2>3. \A i \in 1 .. count'.executions : i \in 1 .. count.executions \/ i = n
    BY <1>0, <1>2
  <2> QED BY <2>1, <2>2, <2>3 DEF HistoryTells
<1>15. DefinitionsTell'
  BY <1>0, <1>1, <1>9 DEF DefinitionsTell
<1> QED BY <1>11, <1>13, <1>14, <1>15 DEF AuInv

\* An action notes what it came to, in the batch and in the history alike.
LEMMA ActKeeps ==
  ASSUME AuInv, NEW b \in Batches, NEW result \in Verdicts, Act(b, result)
  PROVE  AuInv'
<1> DEFINE run == batches[b]
           tries == run.tries - 1
           fail == [run EXCEPT !.tries = tries]
           success == run.success \/ result = "succeeded"
           skipped == run.skipped /\ result = "skipped"
           pass == [run EXCEPT !.left = Tail(run.left), !.tries = run.of.attempts, !.success = success, !.skipped = skipped]
           met == [truth.met EXCEPT ![run.id] = @ \cup {result}]
<1>0. /\ AuForm /\ OwnExecutions /\ HistoryTells /\ DefinitionsTell /\ truth \in Truth
      /\ count \in [executions : Nat, occurrences : Nat, commands : Nat]
  BY DEF AuInv, AuForm
<1>1. run.pc = "acting" /\ CarriesOut(b) /\ UNCHANGED <<definitions, executions, count>>
  BY <1>0 DEF Act, OwnExecutions
<1>2. RunForm(run)
  BY <1>0, <1>1 DEF AuForm, BatchForm, Waiting
<1>3. \/ batches' = [batches EXCEPT ![b] = fail] /\ truth' = truth
      \/ result # "failed" /\ batches' = [batches EXCEPT ![b] = pass] /\ truth' = [truth EXCEPT !.met = met]
  BY DEF Act, Met
<1>4. events' \in [{"error_detected", "event_received"} -> Nat]
  BY <1>0 DEF Act, Emitted, AuForm
<1> HIDE DEF tries
<1>5. RunForm(fail) /\ fail.pc = "acting" /\ fail.id = run.id /\ fail.success = run.success /\ fail.skipped = run.skipped
  BY <1>1, <1>2 DEF RunForm
<1>6. success \in BOOLEAN /\ skipped \in BOOLEAN
  BY <1>2 DEF RunForm
<1>7. /\ success <=> run.success \/ result = "succeeded"
      /\ skipped <=> run.skipped /\ result = "skipped"
  OBVIOUS
<1> HIDE DEF success, skipped
<1>8. RunForm(pass) /\ pass.pc = "acting" /\ pass.id = run.id /\ pass.success = success /\ pass.skipped = skipped
  <2> DEFINE left == Tail(run.left)  attempts == run.of.attempts
  <2>1. pass = [run EXCEPT !.left = left, !.tries = attempts, !.success = success, !.skipped = skipped]
    OBVIOUS
  <2> HIDE DEF left, attempts, pass
  <2>2. pass = [pc |-> "acting", rest |-> run.rest, id |-> run.id, of |-> run.of, left |-> left,
                tries |-> attempts, success |-> success, skipped |-> skipped]
    BY <1>1, <1>2, <2>1 DEF RunForm
  <2>3. /\ pass.pc = "acting" /\ pass.rest = run.rest /\ pass.id = run.id /\ pass.of = run.of /\ pass.left = left
        /\ pass.tries = attempts /\ pass.success = success /\ pass.skipped = skipped
    BY <2>2
  <2>4. pass = [pc |-> "acting", rest |-> pass.rest, id |-> pass.id, of |-> pass.of, left |-> pass.left,
                tries |-> pass.tries, success |-> pass.success, skipped |-> pass.skipped]
    BY <2>2, <2>3, Zenon
  <2> QED BY <1>2, <1>6, <2>3, <2>4, Zenon DEF RunForm
<1>9. run.id \in 1 .. count.executions /\ truth.met \in Seq(SUBSET Verdicts) /\ Len(truth.met) = count.executions
  BY <1>0, <1>1 DEF CarriesOut, AuForm, Truth
<1>10. /\ met \in Seq(SUBSET Verdicts) /\ Len(met) = count.executions /\ met[run.id] = truth.met[run.id] \cup {result}
       /\ \A i \in 1 .. count.executions : i # run.id => met[i] = truth.met[i]
  BY <1>0, <1>9
<1> HIDE DEF fail, pass, met
<1>11. PICK next : /\ batches' = [batches EXCEPT ![b] = next] /\ RunForm(next) /\ next.pc = "acting" /\ next.id = run.id
                   /\ \/ next = fail /\ truth' = truth
                      \/ next = pass /\ result # "failed" /\ truth' = [truth EXCEPT !.met = met]
  BY <1>3, <1>5, <1>8
<1>12. /\ truth' \in Truth /\ truth'.deaths = truth.deaths /\ truth'.last = truth.last /\ truth'.stopped = truth.stopped
       /\ Len(truth'.met) = count.executions
       /\ \A i \in 1 .. count.executions : i # run.id => truth'.met[i] = truth.met[i]
  <2>1. CASE truth' = truth
    BY <1>0, <1>9, <2>1
  <2>2. CASE truth' = [truth EXCEPT !.met = met]
    BY <1>0, <1>10, <2>2 DEF Truth
  <2> QED BY <1>11, <2>1, <2>2
<1>13. DOMAIN batches' = Batches /\ batches'[b] = next /\ \A c \in Batches \ {b} : batches'[c] = batches[c]
  BY <1>0, <1>11 DEF AuForm
<1>14. AuForm'
  BY <1>0, <1>1, <1>4, <1>11, <1>12, <1>13 DEF AuForm, BatchForm
<1>15. /\ "failed" \notin truth'.met[run.id]
       /\ next.success <=> "succeeded" \in truth'.met[run.id]
       /\ next.skipped <=> truth'.met[run.id] \subseteq {"skipped"}
  <2>0. /\ "failed" \notin truth.met[run.id]
        /\ run.success <=> "succeeded" \in truth.met[run.id]
        /\ run.skipped <=> truth.met[run.id] \subseteq {"skipped"}
    BY <1>1 DEF CarriesOut
  <2>1. CASE next = fail /\ truth' = truth
    BY <1>5, <2>0, <2>1
  <2>2. CASE next = pass /\ result # "failed" /\ truth' = [truth EXCEPT !.met = met]
    <3>1. truth'.met[run.id] = truth.met[run.id] \cup {result}
      BY <1>0, <1>10, <2>2 DEF Truth
    <3> QED BY <1>7, <1>8, <2>0, <2>2, <3>1
  <2> QED BY <1>11, <2>1, <2>2
<1>16. \A c \in Batches : batches[c].pc = "acting" => CarriesOut(c) /\ (c # b => batches[c].id # run.id)
  BY <1>0, <1>1 DEF OwnExecutions
<1>17. OwnExecutions'
  <2>1. ASSUME NEW c \in Batches, batches'[c].pc = "acting"
        PROVE  CarriesOut(c)'
    <3>1. CASE c = b
      BY <1>1, <1>9, <1>11, <1>13, <1>15, <3>1 DEF CarriesOut
    <3>2. CASE c # b
      <4>1. batches'[c] = batches[c] /\ CarriesOut(c) /\ batches[c].id # run.id
        BY <1>13, <1>16, <2>1, <3>2
      <4>2. batches[c].id \in 1 .. count.executions
        BY <4>1 DEF CarriesOut
      <4>3. truth'.met[batches[c].id] = truth.met[batches[c].id] /\ UNCHANGED <<executions, count>>
        BY <1>1, <1>12, <4>1, <4>2
      <4> QED BY <4>1, <4>3 DEF CarriesOut
    <3> QED BY <3>1, <3>2
  <2>2. ASSUME NEW c \in Batches, NEW d \in Batches, batches'[c].pc = "acting", batches'[d].pc = "acting",
               batches'[c].id = batches'[d].id
        PROVE  c = d
    BY <1>0, <1>1, <1>11, <1>13, <1>16, <2>2 DEF OwnExecutions
  <2> QED BY <2>1, <2>2 DEF OwnExecutions
<1>18. HistoryTells'
  <2>1. ASSUME NEW i \in 1 .. count.executions
        PROVE  Told(executions'[i].status, truth'.met[i], Running(i)' \/ truth'.deaths > 0)
    <3>1. Running(i) => Running(i)'
      BY <1>1, <1>11, <1>13 DEF Running
    <3>2. CASE i = run.id
      <4>1. executions'[i].status = "running" /\ Running(i)'
        BY <1>1, <1>11, <1>13, <3>2 DEF CarriesOut, Running
      <4> QED BY <4>1 DEF Told
    <3>3. CASE i # run.id
      BY <1>0, <1>1, <1>12, <3>1, <3>3 DEF HistoryTells, Told
    <3> QED BY <3>2, <3>3
  <2> QED BY <1>1, <2>1 DEF HistoryTells
<1>19. DefinitionsTell'
  BY <1>0, <1>1, <1>12 DEF DefinitionsTell
<1> QED BY <1>14, <1>17, <1>18, <1>19 DEF AuInv

\* The verdict follows from what the execution has met; no other batch knows it.
LEMMA EndExecutionKeeps ==
  ASSUME AuInv, NEW b \in Batches, EndExecution(b)
  PROVE  AuInv'
<1> DEFINE run == batches[b]
           id == run.id
           a == executions[id].of
           verdict == Verdict(run)
           status == Status(a, verdict)
           broken == run.left # <<>>
           mine == IF broken THEN truth.met[id] \cup {"failed"} ELSE truth.met[id]
           entry == [executions[id] EXCEPT !.status = verdict]
           new == [definitions[a] EXCEPT !.due = FALSE, !.result = verdict, !.status = status]
           met == [truth.met EXCEPT ![id] = mine]
           last == [truth.last EXCEPT ![a] = verdict]
           stopped == [truth.stopped EXCEPT ![a] = truth.stopped[a] \/ broken]
           next == [pc |-> "next", rest |-> run.rest]
<1>0. /\ AuForm /\ OwnExecutions /\ HistoryTells /\ DefinitionsTell /\ truth \in Truth
      /\ count \in [executions : Nat, occurrences : Nat, commands : Nat]
  BY DEF AuInv, AuForm
<1>1. run.pc = "acting" /\ CarriesOut(b) /\ UNCHANGED <<events, count>>
  BY <1>0 DEF EndExecution, OwnExecutions
<1>2. RunForm(run)
  BY <1>0, <1>1 DEF AuForm, BatchForm, Waiting
<1>3. /\ executions' = [executions EXCEPT ![id] = entry]
      /\ definitions' = [definitions EXCEPT ![a] = new]
      /\ batches' = [batches EXCEPT ![b] = next]
  BY DEF EndExecution
<1>4. truth' = [truth EXCEPT !.met = met, !.last = last, !.stopped = stopped]
  BY <1>0 DEF EndExecution, Truth
<1>5. /\ id \in 1 .. count.executions /\ executions \in Seq(Execution) /\ Len(executions) = count.executions
      /\ truth.met \in Seq(SUBSET Verdicts) /\ Len(truth.met) = count.executions
      /\ executions[id] \in Execution /\ a \in Autos /\ truth.met[id] \in SUBSET Verdicts
  <2>1. id \in 1 .. count.executions
    BY <1>1 DEF CarriesOut
  <2>2. /\ executions \in Seq(Execution) /\ Len(executions) = count.executions
        /\ truth.met \in Seq(SUBSET Verdicts) /\ Len(truth.met) = count.executions
    BY <1>0 DEF AuForm, Truth
  <2>3. executions[id] \in Execution /\ truth.met[id] \in SUBSET Verdicts
    BY <1>0, <2>1, <2>2
  <2> QED BY <2>1, <2>2, <2>3 DEF Execution
<1>6. /\ "failed" \notin truth.met[id]
      /\ run.success <=> "succeeded" \in truth.met[id]
      /\ run.skipped <=> truth.met[id] \subseteq {"skipped"}
  BY <1>1 DEF CarriesOut
<1>7. verdict \in Verdicts /\ (broken => verdict = "failed")
  BY DEF Verdict, Verdicts
<1>8. mine \in SUBSET Verdicts /\ \A running : Told(verdict, mine, running)
  <2>1. CASE broken
    BY <1>5, <1>7, <2>1 DEF Told, Verdicts
  <2>2. CASE ~broken
    <3>1. verdict = IF run.skipped /\ ~run.success THEN "skipped" ELSE "succeeded"
      BY <2>2 DEF Verdict
    <3>2. CASE run.skipped /\ ~run.success
      BY <1>5, <1>6, <2>2, <3>1, <3>2 DEF Told
    <3>3. CASE ~(run.skipped /\ ~run.success)
      <4>1. "succeeded" \in truth.met[id]
        BY <1>5, <1>6, <3>3 DEF Verdicts
      <4> QED BY <1>5, <1>6, <2>2, <3>1, <3>3, <4>1 DEF Told
    <3> QED BY <3>2, <3>3
  <2> QED BY <2>1, <2>2
<1>9. definitions \in [Autos -> Definition] /\ definitions[a] \in Definition
  BY <1>0, <1>5 DEF AuForm
<1>10. /\ status \in {"active", "paused", "error"} /\ (verdict = "failed" => status = "error")
       /\ definitions[a].status = "error" => status = "error"
  BY <1>9 DEF Status, Definition
<1>11. next \in [pc : {"next"}, rest : SUBSET Autos] /\ next.pc # "acting"
  BY <1>2 DEF RunForm
<1>12. stopped \in [Autos -> BOOLEAN] /\ (stopped[a] => truth.stopped[a] \/ broken)
       /\ \A c \in Autos \ {a} : stopped[c] = truth.stopped[c]
  BY <1>0, <1>5 DEF Truth
<1> HIDE DEF verdict, status, broken, mine, next, stopped, run
<1>13. entry \in Execution /\ entry.status = verdict /\ entry.of = a
  BY <1>5, <1>7 DEF Execution
<1>14. new \in Definition /\ new.result = verdict /\ new.status = status
  BY <1>7, <1>9, <1>10 DEF Definition
<1>15. /\ met \in Seq(SUBSET Verdicts) /\ Len(met) = count.executions /\ met[id] = mine
       /\ \A i \in 1 .. count.executions : i # id => met[i] = truth.met[i]
  BY <1>0, <1>5, <1>8
<1>16. /\ last \in [Autos -> {"none"} \cup Verdicts] /\ last[a] = verdict
       /\ \A c \in Autos \ {a} : last[c] = truth.last[c]
  BY <1>0, <1>5, <1>7 DEF Truth
<1> HIDE DEF entry, new, met, last
<1>17. /\ truth' \in Truth /\ truth'.met = met /\ truth'.last = last /\ truth'.stopped = stopped
       /\ truth'.deaths = truth.deaths
  BY <1>0, <1>4, <1>12, <1>15, <1>16 DEF Truth
<1>18. /\ executions' \in Seq(Execution) /\ Len(executions') = count.executions /\ executions'[id] = entry
       /\ \A i \in 1 .. count.executions : i # id => executions'[i] = executions[i]
  BY <1>0, <1>3, <1>5, <1>13
<1>19. DOMAIN batches' = Batches /\ batches'[b] = next /\ \A c \in Batches \ {b} : batches'[c] = batches[c]
  BY <1>0, <1>3 DEF AuForm
<1>20. definitions' \in [Autos -> Definition] /\ definitions'[a] = new /\ \A c \in Autos \ {a} : definitions'[c] = definitions[c]
  BY <1>3, <1>5, <1>9, <1>14
<1>21. AuForm'
  BY <1>0, <1>1, <1>11, <1>15, <1>17, <1>18, <1>19, <1>20 DEF AuForm, BatchForm
<1>22. \A c \in Batches : batches[c].pc = "acting" => CarriesOut(c) /\ (c # b => batches[c].id # id)
  BY <1>0, <1>1 DEF OwnExecutions, run
<1>23. OwnExecutions'
  <2>1. \A c \in Batches : batches'[c].pc = "acting" => c # b /\ batches[c].pc = "acting" /\ batches'[c] = batches[c]
    BY <1>11, <1>19
  <2>2. ASSUME NEW c \in Batches, batches'[c].pc = "acting"
        PROVE  CarriesOut(c)'
    <3>1. batches'[c] = batches[c] /\ CarriesOut(c) /\ batches[c].id # id
      BY <1>22, <2>1, <2>2
    <3>2. batches[c].id \in 1 .. count.executions
      BY <3>1 DEF CarriesOut
    <3>3. executions'[batches[c].id] = executions[batches[c].id] /\ truth'.met[batches[c].id] = truth.met[batches[c].id]
      BY <1>15, <1>17, <1>18, <3>1, <3>2
    <3> QED BY <1>1, <3>1, <3>3 DEF CarriesOut
  <2> QED BY <1>0, <2>1, <2>2 DEF OwnExecutions
<1>24. HistoryTells'
  <2>1. ASSUME NEW i \in 1 .. count.executions
        PROVE  Told(executions'[i].status, truth'.met[i], Running(i)' \/ truth'.deaths > 0)
    <3>1. CASE i = id
      BY <1>8, <1>13, <1>15, <1>17, <1>18, <3>1
    <3>2. CASE i # id
      <4>1. Running(i) => Running(i)'
        BY <1>19, <3>2 DEF Running, run
      <4> QED BY <1>0, <1>15, <1>17, <1>18, <3>2, <4>1 DEF HistoryTells, Told
    <3> QED BY <3>1, <3>2
  <2> QED BY <1>1, <2>1 DEF HistoryTells
<1>25. DefinitionsTell'
  <2>1. ASSUME NEW c \in Autos, c # a
        PROVE  definitions'[c].result = truth'.last[c] /\ (truth'.stopped[c] => definitions'[c].status = "error")
    BY <1>0, <1>12, <1>16, <1>17, <1>20, <2>1 DEF DefinitionsTell
  <2>2. definitions'[a].result = truth'.last[a] /\ (truth'.stopped[a] => definitions'[a].status = "error")
    BY <1>0, <1>5, <1>7, <1>10, <1>12, <1>14, <1>16, <1>17, <1>20 DEF DefinitionsTell
  <2> QED BY <2>1, <2>2 DEF DefinitionsTell
<1> QED BY <1>21, <1>23, <1>24, <1>25 DEF AuInv

LEMMA AuPreserved == AuInv /\ [AuNext]_auVars => AuInv'
<1> SUFFICES ASSUME AuInv, [AuNext]_auVars PROVE AuInv'
  OBVIOUS
<1>1. CASE UNCHANGED auVars
  BY <1>1 DEF auVars, AuInv, AuForm, BatchForm, OwnExecutions, CarriesOut, HistoryTells, Running, DefinitionsTell
<1>2. ASSUME NEW b \in Batches, NEW a \in Autos, NEW targets \in 0 .. 2, BeginExecution(b, a, targets)
      PROVE  AuInv'
  BY <1>2, BeginExecutionKeeps
<1>3. ASSUME NEW b \in Batches, NEW result \in Verdicts, Act(b, result)
      PROVE  AuInv'
  BY <1>3, ActKeeps
<1>4. ASSUME NEW b \in Batches, EndExecution(b)
      PROVE  AuInv'
  BY <1>4, EndExecutionKeeps
<1>5. CASE AuCrash
  BY <1>5, AuCrashKeeps
<1> QED BY <1>1, <1>2, <1>3, <1>4, <1>5, OutsideKeeps, DecisionsKeep DEF AuNext

\* Whatever executions overlap, fail, are skipped or die with their process,
\* the history and the definitions of the automations say what happened
\* (services/automations.py, execute_automation).
THEOREM AutomationsTellTheTruth == AuSpec => []AutomationsTell
<1>1. AuInv => AutomationsTell
  <2> SUFFICES ASSUME AuInv PROVE AutomationsTell
    OBVIOUS
  <2>1. executions \in Seq(Execution) /\ Len(executions) = count.executions
    BY DEF AuInv, AuForm
  <2>2. DOMAIN executions = 1 .. count.executions
    BY <2>1
  <2>3. ASSUME NEW i \in DOMAIN executions
        PROVE  CASE executions[i].status = "running" -> Running(i) \/ truth.deaths > 0
                 [] executions[i].status = "failed" -> "failed" \in truth.met[i]
                 [] executions[i].status = "succeeded" -> "succeeded" \in truth.met[i] /\ "failed" \notin truth.met[i]
                 [] executions[i].status = "skipped" -> truth.met[i] \subseteq {"skipped"}
    <3>1. Told(executions[i].status, truth.met[i], Running(i) \/ truth.deaths > 0)
      BY <2>2 DEF AuInv, HistoryTells
    <3>2. executions[i] \in Execution
      BY <2>1
    <3>3. executions[i].status \in {"running", "succeeded", "skipped", "failed"}
      BY <3>2 DEF Execution, Verdicts
    <3> QED BY <3>1, <3>3 DEF Told
  <2> QED BY <2>3 DEF AuInv, DefinitionsTell, AutomationsTell
<1> QED BY <1>1, AuInvInit, AuPreserved, PTL DEF AuSpec

\* The store and the coroutines keep the forms the code gives them.
LEMMA AutomationTypes == AuSpec => []AuTypeOK
<1>1. AuInv => AuTypeOK
  <2> SUFFICES ASSUME AuInv PROVE AuTypeOK
    OBVIOUS
  <2>1. executions \in Seq(Execution) /\ Len(executions) = count.executions /\ count.executions \in Nat
    BY DEF AuInv, AuForm
  <2>2. \A i \in DOMAIN executions : i <= count.executions /\ executions[i] \in Execution
    BY <2>1
  <2>3. \A i \in DOMAIN executions : i <= count.executions /\ executions[i].status \in {"running"} \cup Verdicts
    BY <2>2 DEF Execution
  <2>4. definitions \in [Autos -> Definition] /\ \A kind \in DOMAIN events : events[kind] \in Nat
    BY DEF AuInv, AuForm
  <2> QED BY <2>3, <2>4 DEF AuTypeOK, Definition
<1> QED BY <1>1, AuInvInit, AuPreserved, PTL DEF AuSpec

(***************************************************************************)
(* The four parts together.                                                *)
(***************************************************************************)

\* However the parts take turns, and whatever the bounds of the instance leave out of
\* each, every store and every coroutine of the operators' side has the form that the
\* code gives it.
THEOREM ControlPlaneTypes == MCSpec => []TypesOK
<1>1. MCInit => WhInit /\ GtInit /\ AlInit /\ AuInit
  BY DEF MCInit
<1>2. [MCNext]_mcVars => [WhNext]_whVars /\ [GtNext]_gtVars /\ [AlNext]_alVars /\ [AuNext]_auVars
  BY DEF MCNext, mcVars
<1>3. MCSpec => WhSpec /\ GtSpec /\ AlSpec /\ AuSpec
  BY <1>1, <1>2, PTL DEF MCSpec, WhSpec, GtSpec, AlSpec, AuSpec
<1> QED BY <1>3, WebhookTypes, GroupTypes, AlertTypes, AutomationTypes, PTL DEF TypesOK

===============================================================================
