--------------------------- MODULE InboundPipeline ---------------------------
(***************************************************************************)
(* Provider webhooks, from the POST of Evolution or Meta to the POSTs that *)
(* forward the message to the client's webhooks: the filters of            *)
(* process_incoming_webhook, the timeline and its file, the in-memory      *)
(* forward tasks and dispatch_webhook_with_retry.                          *)
(*                                                                         *)
(* receive_webhook and _process_cloud_event reach no await between the     *)
(* first filter and create_task, so a webhook is received in one step; the *)
(* tasks interleave at every await.                                        *)
(***************************************************************************)
EXTENDS Integers, FiniteSets, SequencesExt

CONSTANTS
    Msgs,          \* provider messages
    Texts,         \* fingerprints of their contents
    Hooks,         \* client webhooks of the instance
    RouteOf,       \* [Msgs -> Routes]: the provider that posts the message
    TextOf,        \* [Msgs -> Texts]: message_fingerprint
    FromMe,        \* messages the business itself sent from its phone
    MaxItems,      \* dedupe_max_items
    FloodMax,      \* flood_max_messages
    MaxQueue,      \* bot_webhook_max_queue
    MaxParallel,   \* bot_webhook_max_parallel
    MaxAttempts,   \* 1 + len(_RETRY_BACKOFF_SECONDS)
    MaxRequests,      \* bound: webhooks received
    MaxDisturbances   \* bound: outages, crashes and operator actions together

Routes == {"evolution", "meta", "instagram"}

ASSUME RoutesAssumption ==
    /\ RouteOf \in [Msgs -> Routes]
    /\ TextOf \in [Msgs -> Texts]
    /\ FromMe \subseteq Msgs
    /\ Msgs \cap Texts = {}

ASSUME LimitsAssumption ==
    /\ {MaxItems, FloodMax, MaxQueue, MaxParallel, MaxAttempts} \subseteq Nat \ {0}
    /\ {MaxRequests, MaxDisturbances} \subseteq Nat

VARIABLES
    dedupe,     \* inbound_dedupe: ids and fingerprints, the first expires first
    echo,       \* outbound_echo: contents the Gateway has just sent
    flood,      \* messages of the conversation inside the flood window
    events,     \* _business_events and their keys: the timeline in memory
    disk,       \* the timeline in webhook_events_path
    diskOk,     \* the volume takes writes
    requests,   \* the webhooks received, each with its answer
    config,     \* each webhook: "on", "filtered" (no business events), "off"
    tasks,      \* the forward task of each request
    posts,      \* the dispatch of each task to each webhook
    outages, crashes,
    operations, \* what operators did: webhooks edited, messages sent
    forwards    \* history: forwards per dedupe key since it was last forgotten

memory == <<dedupe, echo, flood>>
timeline == <<events, disk>>
vars == <<memory, timeline, diskOk, requests, config, tasks, posts,
          outages, crashes, operations, forwards>>

-----------------------------------------------------------------------------
Requests == 1..MaxRequests

Answers == {"stale_dropped", "duplicate", "duplicate_fp", "echo_filtered",
            "throttled", "persist_error", "queued_dropped", "ok"}

\* A forward task is created ("new"), has read the webhooks ("waiting" for the
\* semaphore), dispatches ("running"), and ends; a crash or a shutdown loses it.
Phases == {"none", "new", "waiting", "running", "ended", "lost"}
Live == {"new", "waiting", "running"}

Idle == [phase |-> "none", msg |-> "none", hooks |-> [h \in Hooks |-> "off"]]
NoPost == [state |-> "none", attempt |-> 0, answer |-> "none", records |-> <<>>]

TypeOK ==
    /\ dedupe \in Seq(Msgs \cup Texts) /\ Len(dedupe) <= MaxItems
    /\ IsInjective(dedupe)
    /\ echo \subseteq Texts
    /\ flood \in 0..MaxRequests
    /\ disk \subseteq events /\ events \subseteq Msgs
    /\ diskOk \in BOOLEAN
    /\ requests \in Seq([msg : Msgs, answer : Answers, life : 0..MaxDisturbances])
    /\ Len(requests) <= MaxRequests
    /\ config \in [Hooks -> {"on", "filtered", "off"}]
    /\ tasks \in [Requests -> [phase : Phases, msg : Msgs \cup {"none"},
                           hooks : [Hooks -> {"on", "filtered", "off"}]]]
    /\ posts \in [Requests \X Hooks ->
          [state : {"none", "ready", "posted", "ended", "lost"},
           attempt : 0..MaxAttempts,
           answer : {"none", "ok", "retryable", "permanent"},
           records : {<<>>, <<"success">>, <<"failure">>, <<"success", "failure">>}]]
    /\ {outages, crashes, operations} \subseteq Nat
    /\ outages + crashes + operations <= MaxDisturbances
    /\ forwards \in [Msgs \cup Texts -> 0..MaxRequests]

Init ==
    /\ dedupe = <<>> /\ echo = {} /\ flood = 0
    /\ events = {} /\ disk = {} /\ diskOk = TRUE
    /\ requests = <<>>
    /\ config \in [Hooks -> {"on", "filtered", "off"}]
    /\ tasks = [r \in Requests |-> Idle]
    /\ posts = [p \in Requests \X Hooks |-> NoPost]
    /\ outages = 0 /\ crashes = 0 /\ operations = 0
    /\ forwards = [k \in Msgs \cup Texts |-> 0]

-----------------------------------------------------------------------------
(* The stores of the filters and the timeline                              *)

\* put: the key expires last, and the one that expires first makes room.
Put(store, key) ==
    LET longer == Append(Remove(store, key), key)
    IN  IF Len(longer) > MaxItems THEN Tail(longer) ELSE longer

Holds(store, key) == key \in Range(store)

\* The forwards are counted per key for as long as it stays in the store.
Recount(kept, store, queued) ==
    [k \in Msgs \cup Texts |->
        IF ~Holds(store, k) THEN 0
        ELSE (IF Holds(kept, k) THEN forwards[k] ELSE 0)
             + (IF k \in queued THEN 1 ELSE 0)]

\* Every pipeline event rewrites the whole file: what an earlier write missed
\* is written with the next one that succeeds.
Flush(ev) == disk' = IF diskOk THEN ev ELSE disk

\* save_event keeps the event in memory whether or not the write succeeds; an
\* event whose key is known is not written and counts as saved.
Saved_Ignored(m) == TRUE
Saved(m) == m \in events \/ diskOk
Record(m) ==
    /\ events' = events \cup {m}
    /\ Flush(events \cup {m})

-----------------------------------------------------------------------------
(* Receiving a webhook                                                     *)

LiveForwards == {r \in Requests : tasks[r].phase \in Live}

Answer(m, a) ==
    /\ Len(requests) < MaxRequests
    /\ requests' = Append(requests, [msg |-> m, answer |-> a, life |-> crashes])

\* create_task and _track_background_task.
Queue(m) ==
    tasks' = [tasks EXCEPT ![Len(requests) + 1] =
                 [phase |-> "new", msg |-> m, hooks |-> [h \in Hooks |-> "off"]]]

\* A filter ends the request: the timeline gains nothing, its file is rewritten.
Drop(m, a, store) ==
    /\ Answer(m, a)
    /\ dedupe' = store
    /\ forwards' = Recount(store, store, {})
    /\ Flush(events)
    /\ UNCHANGED <<echo, events, diskOk, config, tasks, posts,
                   outages, crashes, operations>>

\* The age is that of the source timestamp, which a webhook need not carry.
DropStale(m) ==
    /\ Drop(m, "stale_dropped", dedupe)
    /\ UNCHANGED flood

DropDuplicate(m) ==
    /\ Holds(dedupe, m)
    /\ Drop(m, "duplicate", dedupe)
    /\ UNCHANGED flood

\* The message passes the filter of the ids, and its id is remembered.
IsNew(m) == ~Holds(dedupe, m)

DropSameContent(m) ==
    /\ IsNew(m)
    /\ Holds(Put(dedupe, m), TextOf[m])
    /\ Drop(m, "duplicate_fp", Put(dedupe, m))
    /\ UNCHANGED flood

\* It passes the filter of the fingerprints too, and both are remembered.
HasNewContent_ById(m) == IsNew(m)
HasNewContent(m) == IsNew(m) /\ ~Holds(Put(dedupe, m), TextOf[m])
Remembered(m) == Put(Put(dedupe, m), TextOf[m])

IsEcho(m) == m \notin FromMe /\ TextOf[m] \in echo

DropEcho(m) ==
    /\ HasNewContent(m)
    /\ IsEcho(m)
    /\ Drop(m, "echo_filtered", Remembered(m))
    /\ UNCHANGED flood

DropFlood(m) ==
    /\ HasNewContent(m)
    /\ ~IsEcho(m)
    /\ flood + 1 > FloodMax
    /\ flood' = flood + 1
    /\ Drop(m, "throttled", Remembered(m))

Passes(m) ==
    /\ HasNewContent(m)
    /\ ~IsEcho(m)
    /\ flood + 1 <= FloodMax

\* Past the filters: the event is recorded, and forwarded if the write and the
\* queue allow it.
Accepted(m, queued) ==
    /\ Passes(m)
    /\ flood' = flood + 1
    /\ dedupe' = Remembered(m)
    /\ forwards' = Recount(Put(dedupe, m), Remembered(m), queued)
    /\ Record(m)
    /\ UNCHANGED <<echo, diskOk, config, posts, outages, crashes, operations>>

\* Evolution is answered 500 and may post it again, Meta is answered 200.
FailToPersist(m) ==
    /\ ~Saved(m)
    /\ Accepted(m, {})
    /\ Answer(m, "persist_error")
    /\ UNCHANGED tasks

DropFromQueue(m) ==
    /\ Saved(m)
    /\ Cardinality(LiveForwards) >= MaxQueue
    /\ Accepted(m, {})
    /\ Answer(m, "queued_dropped")
    /\ UNCHANGED tasks

Accept(m) ==
    /\ Saved(m)
    /\ Cardinality(LiveForwards) < MaxQueue
    /\ Accepted(m, {m, TextOf[m]})
    /\ Answer(m, "ok")
    /\ Queue(m)

ReceiveWhatsApp(m) ==
    /\ RouteOf[m] # "instagram"
    /\ \/ DropStale(m) \/ DropDuplicate(m) \/ DropSameContent(m) \/ DropEcho(m)
       \/ DropFlood(m) \/ FailToPersist(m) \/ DropFromQueue(m) \/ Accept(m)

\* Instagram messages meet no filter and no limit, and the outcome of the write
\* is not looked at.
ReceiveInstagram(m) ==
    /\ RouteOf[m] = "instagram"
    /\ Answer(m, "ok")
    /\ Queue(m)
    /\ IF m \in events THEN UNCHANGED timeline ELSE Record(m)
    /\ UNCHANGED <<memory, diskOk, config, posts, outages, crashes, operations, forwards>>

-----------------------------------------------------------------------------
(* Forwarding to the client's webhooks                                     *)

Targets(hooks) == {h \in Hooks : hooks[h] # "off"}
Running_NeverReleased == {r \in Requests : tasks[r].phase \in {"running", "ended"}}
Running == {r \in Requests : tasks[r].phase = "running"}

unchangedByForwards == <<memory, events, diskOk, requests, config,
                         outages, crashes, operations, forwards>>

\* The task's first step: the webhooks are read once, before the semaphore.
StartForward(r) ==
    /\ tasks[r].phase = "new"
    /\ tasks' = [tasks EXCEPT ![r].hooks = config,
                              ![r].phase = IF Targets(config) = {} THEN "ended"
                                           ELSE "waiting"]
    /\ Flush(events)
    /\ UNCHANGED <<unchangedByForwards, posts>>

\* The dispatches of one gather: a webhook that filters the event has none.
Ready(r, hooks) ==
    [p \in Requests \X Hooks |->
        IF p[1] = r /\ hooks[p[2]] = "on"
        THEN [NoPost EXCEPT !.state = "ready"] ELSE posts[p]]

AcquireSemaphore(r) ==
    /\ tasks[r].phase = "waiting"
    /\ Cardinality(Running) < MaxParallel
    /\ posts' = Ready(r, tasks[r].hooks)
    /\ tasks' = [tasks EXCEPT ![r].phase =
                    IF \E h \in Hooks : tasks[r].hooks[h] = "on"
                    THEN "running" ELSE "ended"]
    /\ Flush(events)
    /\ UNCHANGED unchangedByForwards

\* One POST leaves.
Post(r, h) ==
    /\ posts[r, h].state = "ready"
    /\ posts' = [posts EXCEPT ![<<r, h>>].state = "posted", ![<<r, h>>].attempt = @ + 1]
    /\ UNCHANGED <<unchangedByForwards, disk, tasks>>

\* _is_retryable with attempts left: the dispatch sleeps and posts again.
RetryLater(r, h) ==
    /\ posts[r, h].state = "posted"
    /\ posts[r, h].attempt < MaxAttempts
    /\ posts' = [posts EXCEPT ![<<r, h>>].state = "ready"]
    /\ UNCHANGED <<unchangedByForwards, disk, tasks>>

\* What append_dispatch_history leaves behind. While the volume fails, each of
\* its two files may refuse the write, after the row is added or before: a success
\* that raised is recorded again, as a failure, and that may raise too.
Recorded(answer) ==
    CASE answer = "ok" /\ diskOk -> {<<"success">>}
      [] answer = "ok" /\ ~diskOk ->
            {<<>>, <<"success">>, <<"failure">>, <<"success", "failure">>}
      [] answer # "ok" /\ diskOk -> {<<"failure">>}
      [] answer # "ok" /\ ~diskOk -> {<<>>, <<"failure">>}

Finished(p) == p.state \notin {"ready", "posted"}

\* gather returns once every dispatch has ended, h being the last one.
GatherDone_First(r, h) == TRUE
GatherDone(r, h) == \A g \in Hooks \ {h} : Finished(posts[r, g])

\* The answer that ends a dispatch; the last one ends the task.
EndDispatch(r, h) ==
    /\ posts[r, h].state = "posted"
    /\ \E answer \in {"ok", "retryable", "permanent"} : \E rows \in Recorded(answer) :
          /\ answer = "retryable" => posts[r, h].attempt = MaxAttempts
          /\ posts' = [posts EXCEPT ![<<r, h>>].state = "ended",
                                    ![<<r, h>>].records = rows,
                                    ![<<r, h>>].answer = answer]
    /\ tasks' = [tasks EXCEPT ![r].phase =
                    IF GatherDone(r, h)
                    THEN "ended" ELSE @]
    /\ Flush(events)
    /\ UNCHANGED unchangedByForwards

-----------------------------------------------------------------------------
(* The surroundings                                                        *)

MayDisturb == outages + crashes + operations < MaxDisturbances

\* The operator switches a webhook, edits its filters or deletes it.
Configure(h) ==
    /\ MayDisturb
    /\ operations' = operations + 1
    /\ \E c \in {"on", "filtered", "off"} \ {config[h]} :
          config' = [config EXCEPT ![h] = c]
    /\ UNCHANGED <<memory, timeline, diskOk, requests, tasks, posts,
                   outages, crashes, forwards>>

\* mark_outbound, called by the send routes of the panel.
MarkOutbound(t) ==
    /\ t \notin echo
    /\ MayDisturb
    /\ operations' = operations + 1
    /\ echo' = echo \cup {t}
    /\ UNCHANGED <<dedupe, flood, timeline, diskOk, requests, config, tasks,
                   posts, outages, crashes, forwards>>

\* Time passes: the oldest key of the dedupe store expires, ...
ExpireKey ==
    /\ dedupe # <<>>
    /\ dedupe' = Tail(dedupe)
    /\ forwards' = Recount(Tail(dedupe), Tail(dedupe), {})
    /\ UNCHANGED <<echo, flood, timeline, diskOk, requests, config, tasks,
                   posts, outages, crashes, operations>>

\* ... an echo expires, a message leaves the flood window.
TimePasses ==
    /\ \/ \E t \in echo : echo' = echo \ {t} /\ UNCHANGED flood
       \/ flood > 0 /\ flood' = flood - 1 /\ UNCHANGED echo
    /\ UNCHANGED <<dedupe, timeline, diskOk, requests, config, tasks, posts,
                   outages, crashes, operations, forwards>>

\* The volume stops taking writes, and takes them again.
DiskFails ==
    /\ diskOk
    /\ MayDisturb
    /\ diskOk' = FALSE /\ outages' = outages + 1
    /\ UNCHANGED <<memory, timeline, requests, config, tasks, posts, crashes,
                   operations, forwards>>

DiskRecovers ==
    /\ ~diskOk
    /\ diskOk' = TRUE
    /\ UNCHANGED <<memory, timeline, requests, config, tasks, posts, outages,
                   crashes, operations, forwards>>

\* The process dies, or shuts down and cancels its tasks, and starts again:
\* what was in memory is gone and the timeline is read back from its file.
Restart ==
    /\ MayDisturb
    /\ crashes' = crashes + 1
    /\ dedupe' = <<>> /\ echo' = {} /\ flood' = 0
    /\ events' = disk
    /\ tasks' = [r \in Requests |->
                    IF tasks[r].phase \in Live
                    THEN [tasks[r] EXCEPT !.phase = "lost"] ELSE tasks[r]]
    /\ posts' = [p \in Requests \X Hooks |->
                    IF Finished(posts[p]) THEN posts[p]
                    ELSE [posts[p] EXCEPT !.state = "lost"]]
    /\ forwards' = [k \in Msgs \cup Texts |-> 0]
    /\ UNCHANGED <<disk, diskOk, requests, config, outages, operations>>

-----------------------------------------------------------------------------
Forward(r) ==
    \/ StartForward(r) \/ AcquireSemaphore(r)
    \/ \E h \in Hooks : Post(r, h) \/ RetryLater(r, h) \/ EndDispatch(r, h)

Environment ==
    \/ \E h \in Hooks : Configure(h)
    \/ \E t \in Texts : MarkOutbound(t)
    \/ ExpireKey \/ TimePasses
    \/ DiskFails \/ DiskRecovers \/ Restart

Next ==
    \/ \E m \in Msgs : ReceiveWhatsApp(m) \/ ReceiveInstagram(m)
    \/ \E r \in Requests : Forward(r)
    \/ Environment

Spec == Init /\ [][Next]_vars

\* The event loop runs the tasks that can run; a POST has a timeout, and the
\* attempts are bounded. Nothing is assumed of providers, operators or the disk.
FairSpec == Spec /\ \A r \in Requests : WF_vars(Forward(r))
-----------------------------------------------------------------------------
(* Properties                                                              *)

RequestsSoFar == 1..Len(requests)

\* What is forwarded is on the timeline first, and in its file: a WhatsApp message
\* that is not there had its first write refused, and was taken for saved when the
\* provider posted it again (save_event, process_incoming_webhook).
ForwardedIsPersisted ==
    \A r \in RequestsSoFar :
        LET m == requests[r].msg IN
        /\ tasks[r].phase \in Live => m \in events
        /\ tasks[r].phase # "none" /\ RouteOf[m] # "instagram" =>
              \/ m \in disk
              \/ \E q \in 1..(r - 1) : requests[q].msg = m /\ requests[q].answer = "persist_error"

\* While its id or its content is remembered, a message is forwarded once at most,
\* whatever happened to its other copies: filtered, refused, evicted, dropped from
\* a full queue (inbound_dedupe, TTLStore).
OneForwardPerMemory == \A k \in Msgs \cup Texts : forwards[k] <= 1

\* Every webhook that read the message and wants it ends with one verdict.
Settled(r) ==
    \A h \in Hooks :
        LET p == posts[r, h] IN
        tasks[r].hooks[h] = "on" =>
            /\ p.state = "ended"
            /\ p.answer = "retryable" => p.attempt = MaxAttempts
            /\ outages = 0 =>
                  p.records = <<IF p.answer = "ok" THEN "success" ELSE "failure">>

\* A message answered "ok" is accounted for while the process lives: its task is
\* alive, or it ended with every webhook settled, retried as long as the answers
\* allowed and, unless the volume failed, with one true row in the history
\* (_forward_to_instance_webhooks, dispatch_webhook_with_retry).
AcceptedIsAccountedFor ==
    \A r \in RequestsSoFar :
        requests[r].answer = "ok" /\ requests[r].life = crashes =>
            \/ tasks[r].phase \in Live
            \/ tasks[r].phase = "ended" /\ Settled(r)

\* A forward never lasts for ever: not behind the semaphore, not in its retries.
EveryForwardEnds ==
    \A r \in Requests : (tasks[r].phase \in Live) ~> (tasks[r].phase \notin Live)

-----------------------------------------------------------------------------
(* The inductive invariants behind the safety properties                   *)

\* What is forgotten counts no forward.
MemoryInv ==
    /\ forwards \in [Msgs \cup Texts -> {0, 1}]
    /\ \A k \in Msgs \cup Texts : forwards[k] # 0 => Holds(dedupe, k)

\* A request refused because m could not be written.
Refused(m, q) == requests[q].msg = m /\ requests[q].answer = "persist_error"

\* A message that is on the timeline and not in its file was refused once; tasks
\* belong to webhooks received.
PersistInv ==
    /\ disk \subseteq events
    /\ \A m \in events \ disk :
          RouteOf[m] # "instagram" => \E q \in RequestsSoFar : Refused(m, q)
    /\ \A r \in Requests : tasks[r].phase # "none" => r \in RequestsSoFar
    /\ ForwardedIsPersisted

\* A dispatch under way belongs to a running task; the webhooks that want the
\* message have their dispatch from then on, and its verdict when the task has ended.
DispatchOfTask(r) ==
    /\ \A h \in Hooks : ~Finished(posts[r, h]) => tasks[r].phase = "running"
    /\ \A h \in Hooks : tasks[r].hooks[h] = "on" =>
          /\ tasks[r].phase = "running" => posts[r, h].state \in {"ready", "posted", "ended"}
          /\ tasks[r].phase = "ended" => posts[r, h].state = "ended"

\* What a dispatch leaves when it ends.
TrueVerdict(p) ==
    p.state = "ended" =>
        /\ p.answer = "retryable" => p.attempt = MaxAttempts
        /\ outages = 0 => p.records = <<IF p.answer = "ok" THEN "success" ELSE "failure">>

\* Only a restart, which begins another life, loses the task of an accepted message.
DispatchInv ==
    /\ \A r \in Requests : DispatchOfTask(r)
    /\ \A r \in Requests, h \in Hooks : TrueVerdict(posts[r, h])
    /\ ~diskOk => outages # 0
    /\ \A r \in RequestsSoFar :
          /\ requests[r].life <= crashes
          /\ requests[r].answer = "ok" /\ requests[r].life = crashes =>
                tasks[r].phase \in Live \cup {"ended"}
=============================================================================
