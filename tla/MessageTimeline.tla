---------------------------- MODULE MessageTimeline ----------------------------
(***************************************************************************)
(* The timeline of one connection: what the Gateway sends and what its     *)
(* provider notifies become events, kept in memory and in a bounded file;  *)
(* the control panel is shown one record per message, and one delivery per *)
(* send.  services/normalization.py, routers/messages.py,                  *)
(* services/connection_operations.py, connections.py,                      *)
(* services/provider_deliveries.py, adapters/evolution/adapter.py.         *)
(*                                                                         *)
(* A send awaits its provider; the rest of a request runs in one step.     *)
(***************************************************************************)
EXTENDS MessageNormalization

CONSTANTS
    Sends,        \* sends of messages, each by one request
    Routes,       \* the routes they may come by
    Notices,      \* what the provider may notify, as often as it likes
    EventsKept,   \* events kept in memory, of each layer, and in the file
    KeysKept,     \* keys of events remembered
    AttemptsKept, \* attempts kept in their store
    Saves,        \* bound: events ever saved
    Upsets        \* bound: process deaths and failed writes

ASSUME TimelineAssumption ==
    /\ EventsKept \in Nat \ {0} /\ KeysKept \in Nat /\ KeysKept >= 3 * EventsKept
    /\ NoAttempt \notin Sends
    /\ AttemptsKept \in Nat \ {0} /\ Saves \in Nat /\ Upsets \in Nat
    /\ Routes \subseteq {"unified", "quick", "legacy", "interactive", "instagram"}

\* One identity is one message: what a provider notifies of it has one direction and
\* one kind.
ASSUME NoticesAssumption ==
    \A p \in Notices, q \in Notices :
        /\ IsBusiness(p) /\ Canonical(p.event) # "MESSAGES_UPDATE"
        /\ IsBusiness(q) /\ Canonical(q.event) = Canonical(p.event) /\ q.id = p.id
        => q.fromMe = p.fromMe /\ Kind(q.message) = Kind(p.message)

ASSUME TimesAssumption == \A p \in Notices : p.when \in Seq(Candidates)

VARIABLES
    business, operational,  \* the two layers in memory, newest first
    keyOrder, keys,         \* the keys of the events that were received, and their order
    stored,                 \* the events in the file, newest first
    attempts,               \* the store of attempts, oldest first
    indexed,                \* the media that can be served: in memory, on disk
    sends,                  \* the requests
    clock,                  \* milliseconds, as far as they tell events apart
    mt                      \* history: events saved, upsets, whether the file has all of memory, how often the
                            \* provider took each send, the statuses heard of and when each was first heard of

mtVars == <<business, operational, keyOrder, keys, stored, attempts, indexed, sends, clock, mt>>

New == [pc |-> "new"]

MtInit ==
    /\ business = <<>> /\ operational = <<>> /\ stored = <<>>
    /\ keyOrder = <<>> /\ keys = {}
    /\ attempts = <<>>
    /\ indexed = [memory |-> {}, disk |-> {}]
    /\ sends = [s \in Sends |-> New]
    /\ clock = 0
    /\ mt = [saves |-> 0, upsets |-> 0, file |-> "current", taken |-> [s \in Sends |-> 0], heard |-> {}]

-------------------------------------------------------------------------------
(* The store of events.                                                    *)

AppendLeft(e, s) == SubSeq(<<e>> \o s, 1, IF Len(s) < EventsKept THEN Len(s) + 1 ELSE EventsKept)

\* Of a sequence the places I, as they precede each other by R: each stands where as
\* many precede it.
Arranged(s, I, R) ==
    [k \in 1 .. Cardinality(I) |-> s[CHOOSE i \in I : Cardinality({j \in I : <<j, i>> \in R}) = k - 1]]

Ascending(I) == {x \in I \X I : x[1] < x[2]}
Descending(I) == {x \in I \X I : x[1] > x[2]}

\* Newest first; events of one millisecond stay in the order in which they were.
Newer(s, i, j) == s[i].at > s[j].at \/ (s[i].at = s[j].at /\ i < j)
ByTime(s) == Arranged(s, 1 .. Len(s), {x \in (1 .. Len(s)) \X (1 .. Len(s)) : Newer(s, x[1], x[2])})

FirstOf(s, n) == SubSeq(s, 1, IF Len(s) < n THEN Len(s) ELSE n)
ListEvents(b, o) == ByTime(b \o o)

\* The file is written as a whole, or stays as it is.  What is in memory stays.
WriteAs(ok, history) ==
    IF business' = business /\ operational' = operational
    THEN ok /\ UNCHANGED stored /\ mt' = history
    ELSE /\ mt.saves < Saves /\ (ok \/ mt.upsets < Upsets)
         /\ stored' = IF ok THEN FirstOf(ListEvents(business', operational'), EventsKept) ELSE stored
         /\ mt' = [history EXCEPT !.saves = @ + 1, !.upsets = IF ok THEN @ ELSE @ + 1, !.file = IF ok THEN "current" ELSE "behind"]
Write(ok) == WriteAs(ok, mt)

NoEventKey == <<>>
EventKey(e) ==
    IF e.id = NoId THEN NoEventKey ELSE <<e.name, e.id, e.dir, e.kind, IF e.dir = "status" THEN e.status ELSE "">>

Remember(k) ==
    LET order == Append(keyOrder, k)
        gone == IF Len(order) > KeysKept THEN {Head(order)} ELSE {}
    IN  /\ keyOrder' = IF gone = {} THEN order ELSE Tail(order)
        /\ keys' = (keys \cup {k}) \ gone

\* The file of a medium is written when that of the events is; a failure is not noticed.
PersistMediaIndexItem(media, ok) ==
    indexed' = [memory |-> indexed.memory \cup media, disk |-> IF ok THEN indexed.disk \cup media ELSE indexed.disk]
IndexMedia(e, ok) == PersistMediaIndexItem(e.media, ok)

\* Received events, and the sends of two routes, are kept once.
SaveEvent(e, ok) ==
    IF EventKey(e) # NoEventKey /\ EventKey(e) \in keys
    THEN UNCHANGED <<business, keyOrder, keys, indexed>>
    ELSE /\ IF EventKey(e) = NoEventKey THEN UNCHANGED <<keyOrder, keys>> ELSE Remember(EventKey(e))
         /\ business' = AppendLeft(e, business)
         /\ IndexMedia(e, ok)

SaveBusinessEvent(e) ==
    /\ business' = AppendLeft(e, business)
    /\ UNCHANGED <<keyOrder, keys, indexed>>

SavePipelineEvent == operational' = AppendLeft([name |-> "PIPELINE", at |-> clock], operational)

RestoredKeys_None(b) == <<>>
RestoredKeys(b) ==
    LET keyed == {i \in 1 .. Len(b) : EventKey(b[i]) # NoEventKey}
    IN  Arranged([i \in 1 .. Len(b) |-> EventKey(b[i])], keyed, Descending(keyed))
IsOperational(e) == e.name = "PIPELINE"
Places(s, layer) == {i \in 1 .. Len(s) : IsOperational(s[i]) <=> layer = "operational"}
Restored_Reversed(s, layer) == Arranged(s, Places(s, layer), Descending(Places(s, layer)))
Restored(s, layer) == Arranged(s, Places(s, layer), Ascending(Places(s, layer)))

-------------------------------------------------------------------------------
(* Sends.                                                                  *)

Providers(route) ==
    CASE route \in {"unified", "quick"} -> {"evolution", "meta"}
      [] route = "instagram" -> {"instagram"}
      [] OTHER -> {"evolution"}
Forms(route) ==
    CASE route \in {"unified", "legacy"} -> {"text", "url", "raw", "uri"}
      [] route \in {"quick", "instagram"} -> {"text"}
      [] OTHER -> {"buttons"}

\* Instagram messages, and media by the newer route, are sent without a word.
Announced(route, form) == route # "instagram" /\ ~(route = "unified" /\ form # "text")

\* The attempt is kept before the provider is asked.
KeepAttempt(s) ==
    LET all == Append(attempts, [of |-> s, id |-> NoId])
    IN  IF Len(all) > AttemptsKept THEN Tail(all) ELSE all

\* The client of Evolution may repeat a request, but no send.
Retries_One == 1
Retries == 0

Request(s, route, provider, form, ok) ==
    /\ sends[s] = New
    /\ sends' = [sends EXCEPT ![s] =
         [pc |-> "posting", route |-> route, provider |-> provider, form |-> form, tries |-> Retries]]
    /\ IF Announced(route, form) THEN SavePipelineEvent ELSE UNCHANGED operational
    /\ attempts' = IF route = "instagram" THEN attempts ELSE KeepAttempt(s)
    /\ UNCHANGED <<business, keyOrder, keys, indexed, clock>>
    /\ Write(ok)

\* The store of attempts cannot be written: nothing is sent.  A quick send that was
\* announced is not heard of again.
RefuseRequest(s, route, form) ==
    LET event == [name |-> "PIPELINE", at |-> clock]
        announced == IF Announced(route, form) THEN AppendLeft(event, operational) ELSE operational
    IN  /\ sends[s] = New /\ route # "instagram" /\ mt.upsets < Upsets /\ mt.saves < Saves
        /\ sends' = [sends EXCEPT ![s] = [pc |-> "ended"]]
        /\ operational' = IF route = "quick" THEN announced ELSE AppendLeft(event, announced)
        /\ stored' = FirstOf(ListEvents(business, operational'), EventsKept)
        /\ mt' = [mt EXCEPT !.upsets = @ + 1, !.saves = @ + 1, !.file = "current"]
        /\ UNCHANGED <<business, keyOrder, keys, attempts, indexed, clock>>

\* The identity that the provider gives what it takes.
ProviderId(s) == <<s, mt.taken[s]>>

\* A request that did not succeed is repeated as often as it may be; media in a
\* data URI are then posted without the prefix, whatever went wrong before.
Unanswered(send) ==
    CASE send.tries > 0 -> [send EXCEPT !.tries = @ - 1]
      [] send.tries = 0 /\ send.form = "uri" -> [send EXCEPT !.form = "raw", !.tries = Retries]
      [] OTHER -> [send EXCEPT !.pc = "failed"]

\* The provider takes the message and says so, takes it and the answer is lost,
\* or does not take it.
Post(s, answer) ==
    /\ sends[s].pc = "posting"
    /\ mt' = [mt EXCEPT !.taken[s] = IF answer = "failed" THEN @ ELSE @ + 1]
    /\ sends' = [sends EXCEPT ![s] = IF answer = "taken" THEN [@ EXCEPT !.pc = "taken"] ELSE Unanswered(@)]
    /\ UNCHANGED <<business, operational, keyOrder, keys, stored, attempts, indexed, clock>>

HasAttempt(s) == \E i \in 1 .. Len(attempts) : attempts[i].of = s
Finished(s, id) ==
    [i \in 1 .. Len(attempts) |-> IF attempts[i].of = s THEN [attempts[i] EXCEPT !.id = id] ELSE attempts[i]]

\* What the routes make of a success: each its own event.  The interactive routes
\* make none.
Sent(s, name, id, ref, status, attempt) ==
    [name |-> name, id |-> id, ref |-> ref, dir |-> "outbound",
     kind |-> IF sends[s].form = "text" THEN "text" ELSE "image", content |-> "text", reply |-> FALSE, mentions |-> {},
     status |-> status, source |-> NoNumber, media |-> {}, at |-> clock, attempt |-> attempt]

LocalEvent(s) == Sent(s, "LOCAL_OUTBOUND_SEND", ProviderId(s), ProviderId(s), "sent", s)

\* An Instagram message is not said to be sent.
InstagramEvent(s) == Sent(s, "LOCAL_OUTBOUND_SEND", ProviderId(s), ProviderId(s), "none", NoAttempt)

\* The provider's identity is kept aside.
QuickEvent(s) == Sent(s, "LOCAL_SEND", NoId, ProviderId(s), "sent", s)

\* Neither the identity nor the attempt is kept.
OlderEvent(s) == Sent(s, "LOCAL_SEND", NoId, NoId, "sent", NoAttempt)

Succeed(s, ok) ==
    LET send == sends[s] IN
    /\ send.pc = "taken"
    /\ send.route # "instagram" => HasAttempt(s)
    /\ attempts' = Finished(s, ProviderId(s))
    /\ sends' = [sends EXCEPT ![s] = [pc |-> "ended"]]
    /\ CASE send.route = "unified" -> SaveEvent(LocalEvent(s), ok)
         [] send.route = "instagram" -> SaveEvent(InstagramEvent(s), ok)
         [] send.route = "quick" -> SaveBusinessEvent(QuickEvent(s))
         [] send.route = "legacy" -> SaveBusinessEvent(OlderEvent(s))
         [] OTHER -> UNCHANGED <<business, keyOrder, keys, indexed>>
    /\ IF Announced(send.route, send.form) THEN SavePipelineEvent ELSE UNCHANGED operational
    /\ UNCHANGED clock
    /\ Write(ok)

\* The provider refused, or nothing is known; or the attempt has left the store
\* meanwhile, and nothing is kept of a message that the provider took.
Fail(s, ok) ==
    LET send == sends[s] IN
    /\ send.pc = "failed" \/ (send.pc = "taken" /\ send.route # "instagram" /\ ~HasAttempt(s))
    /\ sends' = [sends EXCEPT ![s] = [pc |-> "ended"]]
    /\ IF send.route = "instagram" THEN UNCHANGED operational ELSE SavePipelineEvent
    /\ UNCHANGED <<business, keyOrder, keys, attempts, indexed, clock>>
    /\ Write(ok)

-------------------------------------------------------------------------------
(* What the provider notifies: again and again, late, and in any order.    *)
(* (What a status does to the attempt it matches is in OutboundAttempts.)  *)

\* The messages that the provider knows: others', and those that it took.
Known(id) == id \in Sends \X Nat => id[2] <= mt.taken[id[1]]
Concerned(p) == IF Canonical(p.event) = "MESSAGES_UPDATE" THEN {p.items[i].id : i \in 1 .. Len(p.items)} ELSE {p.id}

\* A status is heard of anew when it is no longer remembered.
Hearing(p) ==
    IF Canonical(p.event) # "MESSAGES_UPDATE" THEN mt.heard
    ELSE LET id == ChosenUpdate(p.items).id  status == UpdateStatus(p.items)
         IN  IF \E k \in keys : k[1] = "MESSAGES_UPDATE" /\ k[2] = id /\ k[5] = status THEN mt.heard
             ELSE mt.heard \cup {[id |-> id, status |-> status, at |-> clock]}

Receive(p, ok) ==
    /\ \A id \in Concerned(p) : Known(id)
    /\ IF IsBusiness(p)
       THEN SaveEvent(Normalize(p, mt.saves, clock), ok)
       ELSE UNCHANGED <<business, keyOrder, keys, indexed>>
    /\ UNCHANGED <<operational, attempts, sends, clock>>
    /\ WriteAs(ok, [mt EXCEPT !.heard = Hearing(p)])

\* Whatever else the Gateway records.
Operate(ok) ==
    /\ SavePipelineEvent
    /\ UNCHANGED <<business, keyOrder, keys, attempts, indexed, sends, clock>>
    /\ Write(ok)

TimePasses ==
    /\ \E i \in 1 .. Len(business \o operational) : (business \o operational)[i].at = clock
    /\ clock' = clock + 1
    /\ UNCHANGED <<business, operational, keyOrder, keys, stored, attempts, indexed, sends, mt>>

\* A medium that is not in memory is looked up on disk.
GetMedia(medium) ==
    /\ medium \in indexed.disk \ indexed.memory
    /\ indexed' = [indexed EXCEPT !.memory = @ \cup {medium}]
    /\ UNCHANGED <<business, operational, keyOrder, keys, stored, attempts, sends, clock, mt>>

\* A download notes its source on the medium, and writes its file once more.
UpdateMediaDownloadState(medium) ==
    /\ medium \in indexed.memory \cup indexed.disk
    /\ PersistMediaIndexItem({medium}, TRUE)
    /\ UNCHANGED <<business, operational, keyOrder, keys, stored, attempts, sends, clock, mt>>

\* A process dies; the next one reads the file, and knows of no more.
IsHearing(e, h) == ~IsOperational(e) /\ e.dir = "status" /\ e.id = h.id /\ e.status = h.status /\ e.at = h.at
MtCrash ==
    /\ mt.upsets < Upsets
    /\ business' = Restored(stored, "business")
    /\ operational' = Restored(stored, "operational")
    /\ keyOrder' = RestoredKeys(business')
    /\ keys' = {keyOrder'[i] : i \in 1 .. Len(keyOrder')}
    /\ indexed' = [indexed EXCEPT !.memory = {}]
    /\ sends' = [s \in Sends |-> IF sends[s] = New THEN New ELSE [pc |-> "ended"]]
    /\ mt' = [mt EXCEPT !.upsets = @ + 1, !.heard = {h \in @ : \E i \in 1 .. Len(stored) : IsHearing(stored[i], h)}]
    /\ UNCHANGED <<stored, attempts, clock>>

MtNext ==
    \/ \E s \in Sends, route \in Routes, ok \in BOOLEAN :
         \E provider \in Providers(route), form \in Forms(route) :
            (form = "uri" => provider = "evolution") /\ Request(s, route, provider, form, ok)
    \/ \E s \in Sends, route \in Routes : \E form \in Forms(route) : RefuseRequest(s, route, form)
    \/ \E s \in Sends, answer \in {"taken", "lost", "failed"} : Post(s, answer)
    \/ \E s \in Sends, ok \in BOOLEAN : Succeed(s, ok) \/ Fail(s, ok)
    \/ \E p \in Notices, ok \in BOOLEAN : Receive(p, ok)
    \/ \E ok \in BOOLEAN : Operate(ok)
    \/ \E medium \in indexed.disk : GetMedia(medium)
    \/ \E medium \in indexed.memory \cup indexed.disk : UpdateMediaDownloadState(medium)
    \/ TimePasses \/ MtCrash

MtSpec == MtInit /\ [][MtNext]_mtVars

-------------------------------------------------------------------------------
(* What is shown: one record per message, one delivery per interaction.    *)

TimelineId(e) == IF e.id # NoId THEN e.id ELSE e.ref
Timeline == ListEvents(business, operational)

\* The places of what is shown, and of the messages among it.
Shown == {i \in 1 .. Len(Timeline) : ~IsOperational(Timeline[i])}
Messages == {i \in Shown : Timeline[i].dir # "status"}

\* The status that counts for a message.  Of those of one millisecond the last
\* in the list wins, which is the one that came first.
LatestStatus(id) ==
    LET of == {i \in Shown : Timeline[i].dir = "status" /\ TimelineId(Timeline[i]) = id}
        latest == {i \in of : \A j \in of : Timeline[j].at <= Timeline[i].at}
    IN  IF of = {} THEN "none" ELSE Timeline[CHOOSE i \in latest : \A j \in latest : j <= i].status

\* The events of one message; without an identity each is a message.
Group(i) ==
    IF TimelineId(Timeline[i]) = NoId THEN {i}
    ELSE {j \in Messages : TimelineId(Timeline[j]) = TimelineId(Timeline[i]) /\ Timeline[j].dir = Timeline[i].dir}

Oldest(group) == First({i \in group : \A j \in group : Timeline[j].at >= Timeline[i].at})
Primary_Newest(group) == First(group)
Primary(group) ==
    LET local == {i \in group : Timeline[i].name = "LOCAL_OUTBOUND_SEND"}
    IN  IF local # {} THEN Oldest(local) ELSE Oldest(group)

Record(i) ==
    LET id == TimelineId(Timeline[i])  primary == Timeline[Primary(Group(i))]
    IN  [id |-> id, dir |-> Timeline[i].dir, of |-> primary,
         status |-> IF LatestStatus(id) # "none" THEN LatestStatus(id) ELSE primary.status]
Logical == {Record(i) : i \in Messages}

\* The delivery of a send is its attempt; the event stands in for one that has
\* left the store.
FromEvents == {i \in Shown : ~(Timeline[i].attempt # NoAttempt /\ HasAttempt(Timeline[i].attempt))}
Deliveries(s) == Cardinality({i \in 1 .. Len(attempts) : attempts[i].of = s})
                 + Cardinality({i \in FromEvents : Timeline[i].attempt = s})

-------------------------------------------------------------------------------
(* Properties.                                                             *)

Event == [name : {"MESSAGES_UPSERT", "MESSAGES_UPDATE", "SEND_MESSAGE", "LOCAL_OUTBOUND_SEND", "LOCAL_SEND"},
          dir : {"inbound", "outbound", "status"}, attempt : Sends \cup {NoAttempt}]

\* The layers, the file and the two stores keep to their sizes and their forms.
MtTypeOK ==
    /\ \A s \in {business, operational, stored} : Len(s) <= EventsKept
    /\ \A i \in 1 .. Len(business) :
         [name |-> business[i].name, dir |-> business[i].dir, attempt |-> business[i].attempt] \in Event
    /\ Len(keyOrder) <= KeysKept /\ keys = {keyOrder[i] : i \in 1 .. Len(keyOrder)}
    /\ Len(attempts) <= AttemptsKept /\ \A i \in 1 .. Len(attempts) : attempts[i].of \in Sends
    /\ \A s \in Sends : sends[s].pc \in {"new", "posting", "taken", "failed", "ended"}

\* However often, and under whichever spelling, a provider notifies a message or
\* a status, before or after a restart, the timeline has it once, and it is
\* remembered for as long as it is shown (save_event, _restore_business_events).
ReceivedOnce ==
    \A i \in 1 .. Len(business) : EventKey(business[i]) # NoEventKey =>
        /\ EventKey(business[i]) \in keys
        /\ \A j \in 1 .. Len(business) : business[i].id = business[j].id /\ business[i].name = business[j].name
              /\ business[i].status = business[j].status => i = j

\* The control panel shows of a message the status heard of last, to the
\* millisecond; without one, what the Gateway sent to WhatsApp by the newer route
\* is "sent" even when the provider's echo overtakes the answer
\* (list_logical_messages).
ShownAsHeard ==
    \A r \in Logical : r.id # NoId =>
        \/ \E h \in mt.heard : /\ h.id = r.id /\ h.status = r.status
                               /\ \A g \in mt.heard : g.id = r.id => g.at <= h.at
        \/ /\ \A i \in Shown : ~(Timeline[i].dir = "status" /\ Timeline[i].id = r.id)
           /\ \/ r.status = "sent"
              \/ \A i \in Shown : ~(/\ Timeline[i].name = "LOCAL_OUTBOUND_SEND" /\ Timeline[i].id = r.id
                                    /\ Timeline[i].dir = r.dir /\ Timeline[i].attempt # NoAttempt)

\* The numbers that v may stand for: of a long, the one of 64 bits that has its halves.
Numbers(v) ==
    CASE v.form \in {"number", "digits"} -> {v.n}
      [] v.form = "long" ->
           {n \in (IF v.unsigned THEN 0 .. 2 * Sign - 1 ELSE -Sign .. Sign - 1) :
              (n \div Base - v.high) % Base = 0 /\ (n - v.low) % Base = 0}
      [] OTHER -> {}

Times(v) ==
    IF v.form = "iso" THEN {v.ms}
    ELSE {IF n < Threshold THEN n * 1000 ELSE n : n \in {m \in Numbers(v) : m > 0}}

\* An unsigned long of 2^63 or more whose halves look negative is no time.
SaysNothing(v) == Times(v) = {} \/ (v.form = "long" /\ v.unsigned /\ v.high < 0)

TimeIsMeant(when, time) ==
    \/ time = NoNumber /\ \A i \in 1 .. Len(when) : SaysNothing(when[i])
    \/ \E i \in 1 .. Len(when) : time \in Times(when[i]) /\ \A j \in 1 .. i - 1 : SaysNothing(when[j])

MentionsAreMeant(m, mentions) ==
    mentions = IF "mentioned" \in DOMAIN m.nested THEN m.nested["mentioned"]
               ELSE IF "mentioned" \in DOMAIN m.beside THEN m.beside["mentioned"] ELSE {}
AnswerIsMeant(m, reply) == reply <=> "quoted" \in DOMAIN m.nested \cup DOMAIN m.beside

Means(p, e) ==
    /\ e.name = Canonical(p.event) /\ TimeIsMeant(p.when, e.source)
    /\ IF e.name = "MESSAGES_UPDATE"
       THEN e.id = ChosenUpdate(p.items).id /\ e.mentions = {} /\ ~e.reply
       ELSE e.id = p.id /\ MentionsAreMeant(p.message, e.mentions) /\ AnswerIsMeant(p.message, e.reply)

\* What was received is kept, over restarts, as its sender meant it: with its time,
\* the first that can be read, whatever form it comes in (a number, digits, the halves
\* of a long of which the lower may look negative, a date), whom it mentions and
\* whether it is an answer (_to_int64, _unix_to_ms, _extract_source_timestamp_ms,
\* _build_context_and_metadata).
KeptAsMeant ==
    \A i \in 1 .. Len(business) :
        business[i].name \in {"LOCAL_OUTBOUND_SEND", "LOCAL_SEND"}
        \/ \E p \in Notices : IsBusiness(p) /\ Means(p, business[i])

\* A send is one message and one delivery.  A lost answer is not followed by a
\* second post, unless media come in a data URI (EvolutionClient.request,
\* EvolutionAdapter.send_media); and a delivery is listed from its attempt or, once
\* that is no longer kept, from the event that names it, never from both
\* (ProviderDeliveryQueryService._records).
OneDeliveryPerSend ==
    \A s \in Sends :
        /\ Deliveries(s) <= 1
        /\ sends[s].pc \in {"posting", "taken", "failed"} /\ sends[s].form \notin {"uri", "raw"} =>
             mt.taken[s] <= IF sends[s].pc = "posting" THEN 0 ELSE 1

\* A process that dies after a write loses nothing of what the file holds room
\* for, nor its order (_persist_business_events, _restore_business_events).
TimelineSurvives ==
    [][mt'.upsets > mt.upsets /\ mt'.saves = mt.saves /\ mt.file = "current" =>
          FirstOf(Timeline', EventsKept) = FirstOf(Timeline, EventsKept)]_mtVars
=============================================================================
