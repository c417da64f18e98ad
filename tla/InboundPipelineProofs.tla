------------------------ MODULE InboundPipelineProofs ------------------------
(***************************************************************************)
(* Proofs about InboundPipeline, for any messages, contents, webhooks and  *)
(* limits, any number of webhooks received, outages, restarts and          *)
(* operator actions.                                                       *)
(***************************************************************************)
EXTENDS InboundPipeline, SequenceTheorems, TLAPS

\* What the proofs need of the types. The bounds of the dedupe store, which is
\* built with SelectSeq, and the bounds on counters are not needed.
Received == [msg : Msgs, answer : Answers, life : Nat]
Switches == {"on", "filtered", "off"}
TaskRecords == [phase : Phases, msg : Msgs \cup {"none"}, hooks : [Hooks -> Switches]]
Histories == {<<>>, <<"success">>, <<"failure">>, <<"success", "failure">>}
DispatchStates == {"none", "ready", "posted", "ended", "lost"}
Verdicts == {"none", "ok", "retryable", "permanent"}
Dispatches == [state : DispatchStates, attempt : Nat, answer : Verdicts, records : Histories]

Typed ==
  /\ requests \in Seq(Received)
  /\ Len(requests) <= MaxRequests
  /\ config \in [Hooks -> Switches]
  /\ tasks \in [Requests -> TaskRecords]
  /\ posts \in [Requests \X Hooks -> Dispatches]
  /\ outages \in Nat /\ crashes \in Nat

-----------------------------------------------------------------------------
(* Each key is forwarded once while it is remembered.                      *)

\* Forgetting, with nothing forwarded.
LEMMA ForgetKeeps ==
  ASSUME MemoryInv, NEW store, dedupe' = store, forwards' = Recount(store, store, {})
  PROVE  MemoryInv'
<1>1. \A k \in Msgs \cup Texts :
        forwards'[k] = IF Holds(store, k) THEN forwards[k] ELSE 0
  BY DEF Recount, MemoryInv
<1>2. forwards' \in [Msgs \cup Texts -> {0, 1}]
  BY <1>1 DEF Recount, MemoryInv
<1>3. \A k \in Msgs \cup Texts : forwards'[k] # 0 => Holds(dedupe, k)'
  BY <1>1
<1> QED BY <1>2, <1>3 DEF MemoryInv

\* A message past the filters: neither its id nor its content counts a forward yet.
LEMMA AcceptKeeps ==
  ASSUME MemoryInv, NEW m \in Msgs, NEW queued \in {{}, {m, TextOf[m]}}, Accepted(m, queued)
  PROVE  MemoryInv'
<1> DEFINE kept == Put(dedupe, m)
           store == Remembered(m)
<1>1. /\ ~Holds(dedupe, m)
      /\ ~Holds(kept, TextOf[m])
      /\ dedupe' = store
      /\ forwards' = Recount(kept, store, queued)
  BY DEF Accepted, Passes, HasNewContent, IsNew
<1> HIDE DEF kept, store
<1>2. \A k \in Msgs \cup Texts :
        /\ ~Holds(store, k) => forwards'[k] = 0
        /\ Holds(store, k) =>
             forwards'[k] = (IF Holds(kept, k) THEN forwards[k] ELSE 0) + (IF k \in queued THEN 1 ELSE 0)
  BY <1>1 DEF Recount
<1>3. \A k \in Msgs \cup Texts : k \in queued /\ Holds(kept, k) => forwards[k] = 0
  BY <1>1 DEF MemoryInv
<1>4. \A k \in Msgs \cup Texts : forwards'[k] \in {0, 1}
  BY <1>2, <1>3 DEF MemoryInv
<1>5. forwards' \in [Msgs \cup Texts -> {0, 1}]
  BY <1>1, <1>4 DEF Recount
<1>6. \A k \in Msgs \cup Texts : forwards'[k] # 0 => Holds(dedupe, k)'
  BY <1>1, <1>2
<1> QED BY <1>5, <1>6 DEF MemoryInv

LEMMA InitMemoryInv == Init => MemoryInv
BY DEF Init, MemoryInv

\* Every step counts rightly.
LEMMA NextMemoryInv == MemoryInv /\ [Next]_vars => MemoryInv'
<1> SUFFICES ASSUME MemoryInv, [Next]_vars PROVE MemoryInv'
  OBVIOUS
<1>1. CASE UNCHANGED <<dedupe, forwards>>
  BY <1>1 DEF MemoryInv
<1>2. ASSUME NEW m \in Msgs, NEW a, NEW store, Drop(m, a, store) PROVE MemoryInv'
  BY <1>2, ForgetKeeps DEF Drop
<1>3. ASSUME NEW m \in Msgs, FailToPersist(m) \/ DropFromQueue(m) \/ Accept(m) PROVE MemoryInv'
  BY <1>3, AcceptKeeps DEF FailToPersist, DropFromQueue, Accept
<1>4. ASSUME NEW m \in Msgs, ReceiveWhatsApp(m) PROVE MemoryInv'
  BY <1>2, <1>3, <1>4 DEF ReceiveWhatsApp, DropStale, DropDuplicate, DropSameContent, DropEcho, DropFlood
<1>5. ASSUME NEW m \in Msgs, ReceiveInstagram(m) PROVE MemoryInv'
  BY <1>1, <1>5 DEF ReceiveInstagram, memory
<1>6. ASSUME NEW r \in Requests, Forward(r) PROVE MemoryInv'
  BY <1>1, <1>6
  DEF Forward, StartForward, AcquireSemaphore, Post, RetryLater, EndDispatch,
      unchangedByForwards, memory
<1>7. CASE ExpireKey
  BY <1>7, ForgetKeeps DEF ExpireKey
<1>8. CASE Restart
  BY <1>8 DEF Restart, MemoryInv
<1>9. CASE Environment
  BY <1>1, <1>7, <1>8, <1>9
  DEF Environment, Configure, MarkOutbound, TimePasses, DiskFails, DiskRecovers, memory
<1> QED
  BY <1>1, <1>4, <1>5, <1>6, <1>9 DEF Next, vars, memory

\* While its id or its content is remembered a message is forwarded once at most,
\* whatever else became of its copies.
THEOREM RememberedIsForwardedOnce == Spec => []OneForwardPerMemory
<1>1. MemoryInv => OneForwardPerMemory
  BY DEF MemoryInv, OneForwardPerMemory
<1> QED BY <1>1, InitMemoryInv, NextMemoryInv, PTL DEF Spec

-----------------------------------------------------------------------------
(* What the steps write.                                                   *)

\* One dispatch is replaced.
LEMMA OnePost ==
  ASSUME Typed, NEW r \in Requests, NEW h \in Hooks, NEW d \in Dispatches,
         posts' = [posts EXCEPT ![<<r, h>>] = d]
  PROVE  /\ posts' \in [Requests \X Hooks -> Dispatches]
         /\ posts'[r, h] = d
         /\ \A q \in Requests, g \in Hooks : q # r \/ g # h => posts'[q, g] = posts[q, g]
BY DEF Typed

\* One task is replaced.
LEMMA OneTask ==
  ASSUME Typed, NEW r \in Requests, NEW t \in TaskRecords, tasks' = [tasks EXCEPT ![r] = t]
  PROVE  /\ tasks' \in [Requests -> TaskRecords]
         /\ tasks'[r] = t
         /\ \A q \in Requests : q # r => tasks'[q] = tasks[q]
BY DEF Typed

\* Only the state of a dispatch is written.
LEMMA DispatchState ==
  ASSUME NEW d \in Dispatches, NEW st \in DispatchStates
  PROVE  /\ [d EXCEPT !.state = st] \in Dispatches
         /\ [d EXCEPT !.state = st].state = st
BY DEF Dispatches

\* A task moves on to another phase.
LEMMA TaskPhase ==
  ASSUME NEW t \in TaskRecords, NEW ph \in Phases
  PROVE  /\ [t EXCEPT !.phase = ph] \in TaskRecords
         /\ [t EXCEPT !.phase = ph].phase = ph
         /\ [t EXCEPT !.phase = ph].msg = t.msg
         /\ [t EXCEPT !.phase = ph].hooks = t.hooks
BY DEF TaskRecords

\* A POST leaves.
LEMMA PostEffect ==
  ASSUME Typed, NEW r \in Requests, NEW h \in Hooks, Post(r, h)
  PROVE  \E d \in Dispatches : d.state = "posted" /\ posts' = [posts EXCEPT ![<<r, h>>] = d]
<1> DEFINE n == posts[r, h].attempt + 1
           d == [posts[r, h] EXCEPT !.state = "posted", !.attempt = n]
<1>0. posts[r, h] \in Dispatches
  BY DEF Typed
<1>1. n \in Nat
  <2>1. \A q \in Dispatches : q.attempt + 1 \in Nat
    BY DEF Dispatches
  <2> QED BY <1>0, <2>1
<1>2. \A q \in Dispatches, v \in Nat :
        /\ [q EXCEPT !.state = "posted", !.attempt = v] \in Dispatches
        /\ [q EXCEPT !.state = "posted", !.attempt = v].state = "posted"
  BY DEF Dispatches, DispatchStates
<1>3. d \in Dispatches /\ d.state = "posted"
  <2> HIDE DEF n
  <2> QED BY <1>0, <1>1, <1>2
<1>4. posts' = [posts EXCEPT ![<<r, h>>] = d]
  BY <1>0 DEF Post, Typed, Dispatches
<1> QED BY <1>3, <1>4

LEMMA RetryEffect ==
  ASSUME Typed, NEW r \in Requests, NEW h \in Hooks, RetryLater(r, h)
  PROVE  \E d \in Dispatches : d.state = "ready" /\ posts' = [posts EXCEPT ![<<r, h>>] = d]
<1> DEFINE d == [posts[r, h] EXCEPT !.state = "ready"]
<1>1. d \in Dispatches /\ d.state = "ready"
  BY DispatchState DEF Typed, DispatchStates
<1>2. posts' = [posts EXCEPT ![<<r, h>>] = d]
  BY DEF RetryLater, Typed, Dispatches
<1> QED BY <1>1, <1>2

\* A dispatch ends with a verdict and the rows it could write.
LEMMA EndPost ==
  ASSUME Typed, NEW r \in Requests, NEW h \in Hooks, EndDispatch(r, h)
  PROVE  \E answer \in {"ok", "retryable", "permanent"}, d \in Dispatches :
           /\ posts' = [posts EXCEPT ![<<r, h>>] = d]
           /\ answer = "retryable" => d.attempt = MaxAttempts
           /\ d.state = "ended" /\ d.answer = answer /\ d.records \in Recorded(answer)
<1>1. PICK answer \in {"ok", "retryable", "permanent"} : \E rows \in Recorded(answer) :
        /\ answer = "retryable" => posts[r, h].attempt = MaxAttempts
        /\ posts' = [posts EXCEPT ![<<r, h>>].state = "ended",
                                  ![<<r, h>>].records = rows,
                                  ![<<r, h>>].answer = answer]
  BY DEF EndDispatch
<1>2. PICK rows \in Recorded(answer) :
        /\ answer = "retryable" => posts[r, h].attempt = MaxAttempts
        /\ posts' = [posts EXCEPT ![<<r, h>>].state = "ended",
                                  ![<<r, h>>].records = rows,
                                  ![<<r, h>>].answer = answer]
  BY <1>1
<1> DEFINE d == [posts[r, h] EXCEPT !.state = "ended", !.records = rows, !.answer = answer]
<1>3. rows \in Histories
  BY <1>2 DEF Recorded, Histories
<1>4. \A q \in Dispatches :
        LET u == [q EXCEPT !.state = "ended", !.records = rows, !.answer = answer]
        IN  /\ u \in Dispatches
            /\ u.state = "ended" /\ u.records = rows /\ u.answer = answer
            /\ u.attempt = q.attempt
  BY <1>3 DEF Dispatches, DispatchStates, Verdicts
<1>5. posts' = [posts EXCEPT ![<<r, h>>] = d]
  BY <1>2 DEF Typed, Dispatches
<1>6. /\ d \in Dispatches
      /\ d.state = "ended" /\ d.records = rows /\ d.answer = answer
      /\ d.attempt = posts[r, h].attempt
  BY <1>4 DEF Typed
<1> HIDE DEF d
<1> QED BY <1>2, <1>5, <1>6

\* The rows tell the verdict, unless the volume fails.
LEMMA EndVerdict ==
  ASSUME ~diskOk => outages # 0, NEW answer \in {"ok", "retryable", "permanent"},
         NEW d, d.answer = answer, d.records \in Recorded(answer),
         answer = "retryable" => d.attempt = MaxAttempts
  PROVE  TrueVerdict(d)
<1>1. outages = 0 => d.records = <<IF answer = "ok" THEN "success" ELSE "failure">>
  BY DEF Recorded
<1> QED BY <1>1 DEF TrueVerdict

\* The task goes on, or ends with the last dispatch.
LEMMA EndTask ==
  ASSUME Typed, NEW r \in Requests, NEW h \in Hooks, EndDispatch(r, h)
  PROVE  \E t \in TaskRecords :
           /\ tasks' = [tasks EXCEPT ![r] = t]
           /\ t.phase = IF GatherDone(r, h) THEN "ended" ELSE tasks[r].phase
           /\ t.msg = tasks[r].msg /\ t.hooks = tasks[r].hooks
<1> DEFINE ph == IF GatherDone(r, h) THEN "ended" ELSE tasks[r].phase
           t == [tasks[r] EXCEPT !.phase = ph]
<1>1. ph \in Phases
  BY DEF Typed, TaskRecords, Phases
<1>2. tasks' = [tasks EXCEPT ![r] = t]
  BY DEF EndDispatch, Typed, TaskRecords
<1>3. /\ t \in TaskRecords /\ t.phase = ph
      /\ t.msg = tasks[r].msg /\ t.hooks = tasks[r].hooks
  <2> HIDE DEF ph
  <2> QED BY <1>1, TaskPhase DEF Typed
<1> QED BY <1>2, <1>3

\* The task reads the webhooks.
LEMMA StartEffect ==
  ASSUME Typed, NEW r \in Requests, StartForward(r)
  PROVE  \E t \in TaskRecords :
           /\ tasks' = [tasks EXCEPT ![r] = t]
           /\ \/ t.phase = "waiting"
              \/ t.phase = "ended" /\ \A h \in Hooks : t.hooks[h] # "on"
           /\ t.msg = tasks[r].msg
<1> DEFINE ph == IF Targets(config) = {} THEN "ended" ELSE "waiting"
           t == [tasks[r] EXCEPT !.hooks = config, !.phase = ph]
<1>1. ph \in Phases /\ (ph = "ended" => \A h \in Hooks : config[h] # "on")
  BY DEF Phases, Targets
<1>2. ph \in {"waiting", "ended"}
  OBVIOUS
<1>3. tasks' = [tasks EXCEPT ![r] = t]
  BY DEF StartForward, Typed, TaskRecords
<1>4. \A q \in TaskRecords : LET u == [q EXCEPT !.hooks = config, !.phase = ph]
                             IN  /\ u \in TaskRecords
                                 /\ u.phase = ph /\ u.hooks = config /\ u.msg = q.msg
  BY <1>1 DEF TaskRecords, Typed
<1>5. t \in TaskRecords /\ t.phase = ph /\ t.hooks = config /\ t.msg = tasks[r].msg
  BY <1>4 DEF Typed
<1> QED BY <1>1, <1>2, <1>3, <1>5

\* The gather creates the dispatches.
LEMMA AcquireEffect ==
  ASSUME Typed, NEW r \in Requests, AcquireSemaphore(r)
  PROVE  /\ posts' \in [Requests \X Hooks -> Dispatches]
         /\ \A q \in Requests, g \in Hooks :
              posts'[q, g] = IF q = r /\ tasks[r].hooks[g] = "on"
                               THEN [NoPost EXCEPT !.state = "ready"] ELSE posts[q, g]
         /\ \E t \in TaskRecords :
              /\ tasks' = [tasks EXCEPT ![r] = t]
              /\ t.phase = IF \E h \in Hooks : tasks[r].hooks[h] = "on" THEN "running" ELSE "ended"
              /\ t.msg = tasks[r].msg /\ t.hooks = tasks[r].hooks
<1> DEFINE ph == IF \E h \in Hooks : tasks[r].hooks[h] = "on" THEN "running" ELSE "ended"
           t == [tasks[r] EXCEPT !.phase = ph]
<1>1. [NoPost EXCEPT !.state = "ready"] \in Dispatches
  BY DEF NoPost, Dispatches, DispatchStates, Verdicts, Histories
<1>2. posts' = [p \in Requests \X Hooks |->
                  IF p[1] = r /\ tasks[r].hooks[p[2]] = "on"
                    THEN [NoPost EXCEPT !.state = "ready"] ELSE posts[p]]
  BY DEF AcquireSemaphore, Ready
<1>3. posts' \in [Requests \X Hooks -> Dispatches]
  BY <1>1, <1>2 DEF Typed
<1>4. \A q \in Requests, g \in Hooks :
        posts'[q, g] = IF q = r /\ tasks[r].hooks[g] = "on"
                         THEN [NoPost EXCEPT !.state = "ready"] ELSE posts[q, g]
  BY <1>2
<1>5. ph \in Phases
  BY DEF Phases
<1>6. tasks' = [tasks EXCEPT ![r] = t]
  BY DEF AcquireSemaphore, Typed, TaskRecords
<1>7. /\ t \in TaskRecords /\ t.phase = ph
      /\ t.msg = tasks[r].msg /\ t.hooks = tasks[r].hooks
  <2> HIDE DEF ph
  <2> QED BY <1>5, TaskPhase DEF Typed
<1> QED BY <1>3, <1>4, <1>6, <1>7

\* The record of an event, and what it means that it is taken for saved.
Kept(m) == m \in events \/ disk' = events'

LEMMA RecordEffect ==
  ASSUME NEW m, Record(m)
  PROVE  /\ events' = events \cup {m}
         /\ disk' \in {disk, events'}
         /\ Saved(m) => Kept(m)
<1>1. CASE diskOk
  BY <1>1 DEF Record, Flush, Kept
<1>2. CASE ~diskOk
  BY <1>2 DEF Record, Flush, Kept, Saved
<1> QED BY <1>1, <1>2

LEMMA FlushEffect ==
  ASSUME Flush(events), UNCHANGED events
  PROVE  disk' \in {disk, events'}
BY DEF Flush

\* A webhook received: its answer; what it leaves on the timeline; and its task.
Dropped(m, a) == a # "ok" /\ UNCHANGED <<tasks, events>>
Unforwarded(m, a) ==
  /\ a # "ok"
  /\ UNCHANGED tasks
  /\ events' = events \cup {m}
  /\ a = "persist_error" \/ Kept(m)
Queued(m, a) ==
  /\ a = "ok"
  /\ Queue(m)
  /\ events' = events \cup {m}
  /\ RouteOf[m] = "instagram" \/ Kept(m)

Receives(m, a) ==
  /\ Answer(m, a)
  /\ UNCHANGED <<config, posts, diskOk, outages, crashes>>
  /\ disk' \in {disk, events'}
  /\ Dropped(m, a) \/ Unforwarded(m, a) \/ Queued(m, a)

LEMMA DropEffect ==
  ASSUME NEW m, NEW a, NEW store, Drop(m, a, store), a # "ok"
  PROVE  Receives(m, a)
BY FlushEffect DEF Drop, Receives, Dropped

LEMMA ReceiveEffect ==
  ASSUME NEW m \in Msgs, ReceiveWhatsApp(m) \/ ReceiveInstagram(m)
  PROVE  \E a \in Answers : Receives(m, a)
<1> USE DEF Answers
<1>1. CASE DropStale(m) \/ DropDuplicate(m) \/ DropSameContent(m) \/ DropEcho(m) \/ DropFlood(m)
  BY <1>1, DropEffect DEF DropStale, DropDuplicate, DropSameContent, DropEcho, DropFlood
<1>2. CASE FailToPersist(m)
  <2>1. /\ Record(m) /\ Answer(m, "persist_error")
        /\ UNCHANGED <<config, posts, diskOk, outages, crashes, tasks>>
    BY <1>2 DEF FailToPersist, Accepted
  <2>2. Receives(m, "persist_error")
    BY <2>1, RecordEffect DEF Receives, Unforwarded
  <2> QED BY <2>2
<1>3. CASE DropFromQueue(m)
  <2>1. /\ Record(m) /\ Saved(m) /\ Answer(m, "queued_dropped")
        /\ UNCHANGED <<config, posts, diskOk, outages, crashes, tasks>>
    BY <1>3 DEF DropFromQueue, Accepted
  <2>2. Receives(m, "queued_dropped")
    BY <2>1, RecordEffect DEF Receives, Unforwarded
  <2> QED BY <2>2
<1>4. CASE Accept(m)
  <2>1. /\ Record(m) /\ Saved(m) /\ Answer(m, "ok") /\ Queue(m)
        /\ UNCHANGED <<config, posts, diskOk, outages, crashes>>
    BY <1>4 DEF Accept, Accepted
  <2>2. Receives(m, "ok")
    BY <2>1, RecordEffect DEF Receives, Queued
  <2> QED BY <2>2
<1>5. CASE ReceiveInstagram(m)
  <2>1. /\ Answer(m, "ok") /\ Queue(m) /\ RouteOf[m] = "instagram"
        /\ UNCHANGED <<config, posts, diskOk, outages, crashes>>
    BY <1>5 DEF ReceiveInstagram
  <2>2. events' = events \cup {m} /\ disk' \in {disk, events'}
    BY <1>5, RecordEffect DEF ReceiveInstagram, timeline
  <2>3. Receives(m, "ok")
    BY <2>1, <2>2 DEF Receives, Queued
  <2> QED BY <2>3
<1> QED BY <1>1, <1>2, <1>3, <1>4, <1>5 DEF ReceiveWhatsApp

\* The requests, with a new one.
LEMMA AnswerEffect ==
  ASSUME Typed, MaxRequests \in Nat, NEW m \in Msgs, NEW a \in Answers, Answer(m, a)
  PROVE  /\ requests' \in Seq(Received)
         /\ Len(requests) \in Nat
         /\ Len(requests') = Len(requests) + 1
         /\ Len(requests) + 1 \in Requests
         /\ requests'[Len(requests) + 1] = [msg |-> m, answer |-> a, life |-> crashes]
         /\ \A q \in RequestsSoFar : requests'[q] = requests[q]
<1>1. [msg |-> m, answer |-> a, life |-> crashes] \in Received
  BY DEF Received, Typed
<1>2. Len(requests) \in Nat
  BY LenProperties DEF Typed
<1> QED BY <1>1, <1>2, AppendProperties DEF Typed, Answer, Requests, RequestsSoFar

\* The task of a new request.
LEMMA QueueEffect ==
  ASSUME Typed, Len(requests) + 1 \in Requests, NEW m \in Msgs, Queue(m)
  PROVE  /\ tasks' \in [Requests -> TaskRecords]
         /\ tasks'[Len(requests) + 1].phase = "new"
         /\ tasks'[Len(requests) + 1].hooks = [h \in Hooks |-> "off"]
         /\ \A q \in Requests : q # Len(requests) + 1 => tasks'[q] = tasks[q]
<1> DEFINE t == [phase |-> "new", msg |-> m, hooks |-> [h \in Hooks |-> "off"]]
<1>1. t \in TaskRecords
  BY DEF TaskRecords, Phases, Switches
<1>2. tasks' = [tasks EXCEPT ![Len(requests) + 1] = t]
  BY DEF Queue
<1>3. t.phase = "new" /\ t.hooks = [h \in Hooks |-> "off"]
  OBVIOUS
<1> HIDE DEF t
<1> QED BY <1>1, <1>2, <1>3, OneTask

-----------------------------------------------------------------------------
(* Types.                                                                  *)

LEMMA InitTyped == Init => Typed
<1> SUFFICES ASSUME Init PROVE Typed
  OBVIOUS
<1>1. Idle \in TaskRecords
  BY DEF Idle, TaskRecords, Phases, Switches
<1>2. NoPost \in Dispatches
  BY DEF NoPost, Dispatches, DispatchStates, Verdicts, Histories
<1>3. requests \in Seq(Received) /\ Len(requests) <= MaxRequests
  BY LimitsAssumption, EmptySeq DEF Init
<1>4. config \in [Hooks -> Switches]
  BY DEF Init, Switches
<1> QED BY <1>1, <1>2, <1>3, <1>4 DEF Init, Typed

LEMMA NextTyped == Typed /\ [Next]_vars => Typed'
<1> SUFFICES ASSUME Typed, [Next]_vars PROVE Typed'
  OBVIOUS
<1>a. MaxRequests \in Nat
  BY LimitsAssumption
<1>1. CASE UNCHANGED vars
  BY <1>1 DEF vars, memory, timeline, Typed
<1>2. ASSUME NEW m \in Msgs, ReceiveWhatsApp(m) \/ ReceiveInstagram(m) PROVE Typed'
  <2>1. PICK a \in Answers : Receives(m, a)
    BY <1>2, ReceiveEffect
  <2>2. Answer(m, a) /\ UNCHANGED <<config, posts, outages, crashes>>
    BY <2>1 DEF Receives
  <2>3. /\ requests' \in Seq(Received)
        /\ Len(requests') <= MaxRequests
        /\ Len(requests) + 1 \in Requests
    <3>1. /\ requests' \in Seq(Received)
          /\ Len(requests') = Len(requests) + 1
          /\ Len(requests) + 1 \in Requests
      BY <1>a, <2>2, AnswerEffect
    <3> QED BY <3>1 DEF Requests
  <2>4. tasks' \in [Requests -> TaskRecords]
    BY <2>1, <2>3, QueueEffect DEF Receives, Dropped, Unforwarded, Queued, Typed
  <2> QED BY <2>2, <2>3, <2>4 DEF Typed
<1>3. ASSUME NEW r \in Requests, StartForward(r) PROVE Typed'
  <2>1. tasks' \in [Requests -> TaskRecords]
    BY <1>3, StartEffect, OneTask
  <2> QED BY <1>3, <2>1 DEF StartForward, unchangedByForwards, Typed
<1>4. ASSUME NEW r \in Requests, AcquireSemaphore(r) PROVE Typed'
  <2>1. tasks' \in [Requests -> TaskRecords]
    BY <1>4, AcquireEffect, OneTask
  <2>2. posts' \in [Requests \X Hooks -> Dispatches]
    BY <1>4, AcquireEffect
  <2> QED BY <1>4, <2>1, <2>2 DEF AcquireSemaphore, unchangedByForwards, Typed
<1>5. ASSUME NEW r \in Requests, NEW h \in Hooks, Post(r, h) \/ RetryLater(r, h) PROVE Typed'
  <2>1. posts' \in [Requests \X Hooks -> Dispatches]
    <3>1. PICK d \in Dispatches : posts' = [posts EXCEPT ![<<r, h>>] = d]
      BY <1>5, PostEffect, RetryEffect
    <3> QED BY <3>1, OnePost
  <2> QED BY <1>5, <2>1 DEF Post, RetryLater, unchangedByForwards, Typed
<1>6. ASSUME NEW r \in Requests, NEW h \in Hooks, EndDispatch(r, h) PROVE Typed'
  <2>1. posts' \in [Requests \X Hooks -> Dispatches]
    <3>1. PICK d \in Dispatches : posts' = [posts EXCEPT ![<<r, h>>] = d]
      BY <1>6, EndPost
    <3> QED BY <3>1, OnePost
  <2>2. tasks' \in [Requests -> TaskRecords]
    BY <1>6, EndTask, OneTask
  <2> QED BY <1>6, <2>1, <2>2 DEF EndDispatch, unchangedByForwards, Typed
<1>7. ASSUME NEW h \in Hooks, Configure(h) PROVE Typed'
  <2>1. config' \in [Hooks -> Switches]
    BY <1>7 DEF Configure, Typed, Switches
  <2> QED BY <1>7, <2>1 DEF Configure, Typed
<1>8. CASE ExpireKey \/ TimePasses \/ DiskRecovers \/ \E t \in Texts : MarkOutbound(t)
  BY <1>8 DEF ExpireKey, TimePasses, DiskRecovers, MarkOutbound, Typed
<1>9. CASE DiskFails
  BY <1>9 DEF DiskFails, Typed
<1>10. CASE Restart
  <2>1. tasks' \in [Requests -> TaskRecords]
    <3>1. \A t \in TaskRecords : [t EXCEPT !.phase = "lost"] \in TaskRecords
      BY TaskPhase DEF Phases
    <3> QED BY <1>10, <3>1 DEF Restart, Typed
  <2>2. posts' \in [Requests \X Hooks -> Dispatches]
    <3>1. \A d \in Dispatches : [d EXCEPT !.state = "lost"] \in Dispatches
      BY DispatchState DEF DispatchStates
    <3> QED BY <1>10, <3>1 DEF Restart, Typed
  <2> QED BY <1>10, <2>1, <2>2 DEF Restart, Typed
<1> QED
  BY <1>1, <1>2, <1>3, <1>4, <1>5, <1>6, <1>7, <1>8, <1>9, <1>10 DEF Next, Forward, Environment

-----------------------------------------------------------------------------
(* The timeline and its file.                                              *)

\* A step that receives nothing and adds nothing to the timeline in memory.
LEMMA PersistKept ==
  ASSUME Typed, PersistInv, UNCHANGED requests,
         events' \subseteq events, disk \subseteq disk', disk' \subseteq events',
         \A r \in Requests :
           /\ tasks'[r].phase # "none" => tasks[r].phase # "none"
           /\ tasks'[r].phase \in Live => tasks[r].phase \in Live /\ events' = events
  PROVE  PersistInv'
<1>1. RequestsSoFar' = RequestsSoFar /\ \A m \in Msgs, q \in RequestsSoFar : Refused(m, q)' <=> Refused(m, q)
  BY DEF RequestsSoFar, Refused
<1>2. RequestsSoFar \subseteq Requests
  BY LimitsAssumption, LenProperties DEF Typed, RequestsSoFar, Requests
<1>3. \A m \in events' \ disk' :
         RouteOf[m] # "instagram" => \E q \in RequestsSoFar' : Refused(m, q)'
  <2>1. ASSUME NEW m \in events', m \notin disk', RouteOf[m] # "instagram"
        PROVE  \E q \in RequestsSoFar' : Refused(m, q)'
    <3>1. PICK q \in RequestsSoFar : Refused(m, q)
      BY <2>1 DEF PersistInv
    <3> QED BY <1>1, <3>1 DEF Refused
  <2> QED BY <2>1
<1>4. \A r \in Requests : tasks'[r].phase # "none" => r \in RequestsSoFar'
  BY <1>1 DEF PersistInv
<1>5. ForwardedIsPersisted'
  <2>1. ASSUME NEW r \in RequestsSoFar PROVE
          /\ tasks'[r].phase \in Live => requests[r].msg \in events'
          /\ tasks'[r].phase # "none" /\ RouteOf[requests[r].msg] # "instagram" =>
               \/ requests[r].msg \in disk'
               \/ \E q \in 1..(r - 1) : Refused(requests[r].msg, q)
    BY <1>2, <2>1 DEF PersistInv, ForwardedIsPersisted, Refused
  <2> QED BY <1>1, <2>1 DEF ForwardedIsPersisted, Refused
<1> QED BY <1>3, <1>4, <1>5 DEF PersistInv

\* A webhook is received. What is forwarded of it was written now, or before, or a
\* first write of it was refused.
LEMMA PersistReceived ==
  ASSUME Typed, PersistInv, NEW m \in Msgs, NEW a \in Answers, Receives(m, a)
  PROVE  PersistInv'
<1>0. PICK new : new = Len(requests) + 1
  OBVIOUS
<1>1. /\ Len(requests) \in Nat
      /\ Len(requests') = new
      /\ new \in Requests
      /\ requests'[new].msg = m /\ requests'[new].answer = a
      /\ \A q \in RequestsSoFar : requests'[q] = requests[q]
  <2>1. MaxRequests \in Nat /\ Answer(m, a)
    BY LimitsAssumption DEF Receives
  <2>2. requests'[new] = [msg |-> m, answer |-> a, life |-> crashes]
    BY <1>0, <2>1, AnswerEffect
  <2> QED BY <1>0, <2>1, <2>2, AnswerEffect
<1>2. /\ RequestsSoFar' = RequestsSoFar \cup {new}
      /\ new \notin RequestsSoFar
      /\ RequestsSoFar \subseteq Requests
      /\ \A q \in RequestsSoFar : q \in 1..(new - 1)
  <2>1. RequestsSoFar' = 1..(Len(requests) + 1)
    BY <1>0, <1>1 DEF RequestsSoFar
  <2>2. MaxRequests \in Nat /\ Len(requests) <= MaxRequests
    BY LimitsAssumption DEF Typed
  <2> QED BY <1>0, <1>1, <2>1, <2>2 DEF RequestsSoFar, Requests
<1>3. \A x, q : q \in RequestsSoFar /\ Refused(x, q) => q \in RequestsSoFar' /\ Refused(x, q)'
  BY <1>1, <1>2 DEF Refused
<1>4. /\ events \subseteq events' /\ events' \subseteq events \cup {m}
      /\ disk \subseteq disk' /\ disk' \subseteq events'
      /\ m \in events' /\ m \notin events => a = "persist_error" \/ m \in disk' \/ RouteOf[m] = "instagram"
  BY DEF Receives, Dropped, Unforwarded, Queued, Kept, PersistInv
<1>5. \A x \in events' \ disk' :
         RouteOf[x] # "instagram" => \E q \in RequestsSoFar' : Refused(x, q)'
  <2>1. ASSUME NEW x \in events', x \notin disk', RouteOf[x] # "instagram"
        PROVE  \E q \in RequestsSoFar' : Refused(x, q)'
    <3>1. CASE x \in events
      BY <1>3, <1>4, <2>1, <3>1 DEF PersistInv
    <3>2. CASE x \notin events
      <4>1. Refused(m, new)'
        BY <1>1, <1>4, <2>1, <3>2 DEF Refused
      <4> QED BY <1>2, <1>4, <2>1, <3>2, <4>1
    <3> QED BY <3>1, <3>2
  <2> QED BY <2>1
<1>6. \A r \in Requests : r # new => tasks'[r] = tasks[r]
  BY <1>0, <1>1, QueueEffect DEF Receives, Dropped, Unforwarded, Queued
<1>7. tasks'[new].phase # "none" =>
        /\ a = "ok" /\ m \in events'
        /\ RouteOf[m] = "instagram" \/ Kept(m)
  <2>1. tasks[new].phase = "none"
    BY <1>1, <1>2 DEF PersistInv
  <2> QED BY <2>1 DEF Receives, Dropped, Unforwarded, Queued
<1>8. \A r \in Requests : tasks'[r].phase # "none" => r \in RequestsSoFar'
  BY <1>2, <1>6 DEF PersistInv
<1>9. ASSUME NEW r \in RequestsSoFar' PROVE
        /\ tasks'[r].phase \in Live => requests'[r].msg \in events'
        /\ tasks'[r].phase # "none" /\ RouteOf[requests'[r].msg] # "instagram" =>
             \/ requests'[r].msg \in disk'
             \/ \E q \in 1..(r - 1) : Refused(requests[r].msg, q)'
  <2>1. CASE r \in RequestsSoFar
    <3>1. tasks'[r] = tasks[r] /\ requests'[r] = requests[r]
      BY <1>1, <1>2, <1>6, <2>1
    <3>2. /\ tasks[r].phase \in Live => requests[r].msg \in events
          /\ tasks[r].phase # "none" /\ RouteOf[requests[r].msg] # "instagram" =>
               \/ requests[r].msg \in disk
               \/ \E q \in 1..(r - 1) : Refused(requests[r].msg, q)
      BY <2>1 DEF PersistInv, ForwardedIsPersisted, Refused
    <3>3. \A q \in 1..(r - 1) : q \in RequestsSoFar
      BY <1>1, <2>1 DEF RequestsSoFar
    <3>4. tasks'[r].phase \in Live => requests'[r].msg \in events'
      BY <1>4, <3>1, <3>2
    <3>5. ASSUME tasks'[r].phase # "none", RouteOf[requests'[r].msg] # "instagram",
                 requests'[r].msg \notin disk'
          PROVE  \E q \in 1..(r - 1) : Refused(requests[r].msg, q)'
      <4>1. PICK q \in 1..(r - 1) : Refused(requests[r].msg, q)
        BY <1>4, <3>1, <3>2, <3>5
      <4> QED BY <1>1, <3>1, <3>3, <4>1 DEF Refused
    <3> QED BY <3>4, <3>5
  <2>2. CASE r = new
    <3>1. tasks'[r].phase \in Live => m \in events'
      BY <1>7, <2>2 DEF Live
    <3>2. ASSUME tasks'[r].phase # "none", RouteOf[m] # "instagram", m \notin disk'
          PROVE  \E q \in 1..(r - 1) : Refused(m, q)'
      <4>1. m \in events /\ m \notin disk
        BY <1>4, <1>7, <2>2, <3>2 DEF Kept
      <4>2. PICK q \in RequestsSoFar : Refused(m, q)
        BY <3>2, <4>1 DEF PersistInv
      <4> QED BY <1>2, <1>3, <2>2, <4>2
    <3> QED BY <1>1, <2>2, <3>1, <3>2 DEF Refused
  <2> QED BY <1>2, <1>9, <2>1, <2>2
<1>10. ForwardedIsPersisted'
  BY <1>9 DEF ForwardedIsPersisted, Refused
<1>11. disk' \subseteq events'
  BY <1>4
<1> QED BY <1>5, <1>8, <1>10, <1>11 DEF PersistInv

LEMMA InitPersistInv == Init => PersistInv
<1> SUFFICES ASSUME Init PROVE PersistInv
  OBVIOUS
<1>1. \A r \in Requests : tasks[r].phase = "none"
  BY DEF Init, Idle
<1>2. RequestsSoFar = {}
  BY EmptySeq DEF Init, RequestsSoFar
<1> QED BY <1>1, <1>2 DEF Init, PersistInv, ForwardedIsPersisted

LEMMA NextPersistInv == Typed /\ PersistInv /\ DispatchInv /\ [Next]_vars => PersistInv'
<1> SUFFICES ASSUME Typed, PersistInv, DispatchInv, [Next]_vars PROVE PersistInv'
  OBVIOUS
<1>a. disk \subseteq events
  BY DEF PersistInv
<1>1. CASE UNCHANGED <<requests, timeline, tasks>>
  BY <1>a, <1>1, PersistKept DEF timeline
<1>2. ASSUME NEW m \in Msgs, ReceiveWhatsApp(m) \/ ReceiveInstagram(m) PROVE PersistInv'
  BY <1>2, ReceiveEffect, PersistReceived
<1>3. ASSUME NEW r \in Requests, NEW t \in TaskRecords, tasks' = [tasks EXCEPT ![r] = t],
             tasks[r].phase \in Live, Flush(events), UNCHANGED <<requests, events>>
      PROVE  PersistInv'
  <2>1. disk \subseteq disk' /\ disk' \subseteq events'
    BY <1>a, <1>3, FlushEffect
  <2>2. \A q \in Requests : (tasks[q].phase # "none" /\ tasks[q].phase \in Live) \/ tasks'[q] = tasks[q]
    BY <1>3, OneTask DEF Live
  <2> QED BY <1>3, <2>1, <2>2, PersistKept
<1>4. ASSUME NEW r \in Requests, StartForward(r) PROVE PersistInv'
  <2>1. /\ tasks[r].phase \in Live
        /\ Flush(events) /\ UNCHANGED <<requests, events>>
    BY <1>4 DEF StartForward, unchangedByForwards, Live
  <2>2. PICK t \in TaskRecords : tasks' = [tasks EXCEPT ![r] = t]
    BY <1>4, StartEffect
  <2> QED BY <1>3, <2>1, <2>2
<1>5. ASSUME NEW r \in Requests, AcquireSemaphore(r) PROVE PersistInv'
  <2>1. /\ tasks[r].phase \in Live
        /\ Flush(events) /\ UNCHANGED <<requests, events>>
    BY <1>5 DEF AcquireSemaphore, unchangedByForwards, Live
  <2>2. PICK t \in TaskRecords : tasks' = [tasks EXCEPT ![r] = t]
    BY <1>5, AcquireEffect
  <2> QED BY <1>3, <2>1, <2>2
<1>6. ASSUME NEW r \in Requests, NEW h \in Hooks, Post(r, h) \/ RetryLater(r, h) PROVE PersistInv'
  BY <1>1, <1>6 DEF Post, RetryLater, unchangedByForwards, timeline
<1>9. ASSUME NEW r \in Requests, NEW h \in Hooks, EndDispatch(r, h) PROVE PersistInv'
  <2>1. Flush(events) /\ UNCHANGED <<requests, events>>
    BY <1>9 DEF EndDispatch, unchangedByForwards
  <2>2. tasks[r].phase \in Live
    BY <1>9 DEF EndDispatch, DispatchInv, DispatchOfTask, Finished, Live
  <2>3. PICK t \in TaskRecords : tasks' = [tasks EXCEPT ![r] = t]
    BY <1>9, EndTask
  <2> QED BY <1>3, <2>1, <2>2, <2>3
<1>7. CASE Restart
  <2>1. /\ UNCHANGED <<requests, disk>> /\ events' = disk
        /\ tasks' = [r \in Requests |-> IF tasks[r].phase \in Live
                                          THEN [tasks[r] EXCEPT !.phase = "lost"] ELSE tasks[r]]
    BY <1>7 DEF Restart
  <2>2. \A t \in TaskRecords : [t EXCEPT !.phase = "lost"].phase = "lost"
    BY TaskPhase DEF Phases
  <2>3. \A r \in Requests : tasks'[r].phase \notin Live /\ (tasks'[r].phase # "none" => tasks[r].phase # "none")
    BY <2>1, <2>2 DEF Typed, Live
  <2> QED BY <1>a, <2>1, <2>3, PersistKept
<1>8. CASE Environment
  BY <1>1, <1>7, <1>8
  DEF Environment, Configure, MarkOutbound, ExpireKey, TimePasses, DiskFails, DiskRecovers
<1> QED BY <1>1, <1>2, <1>4, <1>5, <1>6, <1>8, <1>9 DEF Next, Forward, vars

-----------------------------------------------------------------------------
(* Dispatches and their tasks.                                             *)

LEMMA SoFarAreRequests ==
  ASSUME Typed
  PROVE  Len(requests) \in Nat /\ RequestsSoFar \subseteq Requests
<1>1. MaxRequests \in Nat /\ Len(requests) \in Nat /\ Len(requests) <= MaxRequests
  BY LimitsAssumption, LenProperties DEF Typed
<1> QED BY <1>1 DEF RequestsSoFar, Requests

\* Tasks and dispatches that a step leaves alone.
LEMMA SameTask ==
  ASSUME NEW q \in Requests, DispatchOfTask(q), tasks'[q] = tasks[q],
         \A g \in Hooks : posts'[q, g] = posts[q, g]
  PROVE  DispatchOfTask(q)'
BY DEF DispatchOfTask, Finished

LEMMA SameVerdict ==
  ASSUME NEW q \in Requests, NEW g \in Hooks, TrueVerdict(posts[q, g]),
         posts'[q, g] = posts[q, g], outages' = 0 => outages = 0
  PROVE  TrueVerdict(posts[q, g])'
BY DEF TrueVerdict

\* A step on the dispatches of one task.
LEMMA DispatchKept ==
  ASSUME Typed, DispatchInv, NEW r \in Requests, UNCHANGED <<requests, crashes, outages, diskOk>>,
         \A q \in Requests : q # r =>
           tasks'[q] = tasks[q] /\ \A g \in Hooks : posts'[q, g] = posts[q, g],
         DispatchOfTask(r)', \A g \in Hooks : TrueVerdict(posts[r, g])',
         tasks[r].phase \in Live \cup {"ended"} => tasks'[r].phase \in Live \cup {"ended"}
  PROVE  DispatchInv'
<1>1. ASSUME NEW q \in Requests, q # r PROVE DispatchOfTask(q)'
  BY <1>1, SameTask DEF DispatchInv
<1>2. ASSUME NEW q \in Requests, NEW g \in Hooks, q # r PROVE TrueVerdict(posts[q, g])'
  BY <1>2, SameVerdict DEF DispatchInv
<1>3. ~diskOk' => outages' # 0
  BY DEF DispatchInv
<1>4. \A q \in RequestsSoFar' :
        /\ requests'[q].life <= crashes'
        /\ requests'[q].answer = "ok" /\ requests'[q].life = crashes' =>
              tasks'[q].phase \in Live \cup {"ended"}
  <2>1. RequestsSoFar' = RequestsSoFar
    BY DEF RequestsSoFar
  <2> QED BY <2>1, SoFarAreRequests DEF DispatchInv
<1>5. (\A q \in Requests : DispatchOfTask(q)') /\ \A q \in Requests, g \in Hooks : TrueVerdict(posts[q, g])'
  BY <1>1, <1>2
<1> QED BY <1>3, <1>4, <1>5 DEF DispatchInv

\* One dispatch of a running task moves on.
LEMMA PostKept ==
  ASSUME Typed, DispatchInv, NEW r \in Requests, NEW h \in Hooks, NEW d \in Dispatches,
         UNCHANGED <<requests, tasks, crashes, outages, diskOk>>,
         posts' = [posts EXCEPT ![<<r, h>>] = d],
         ~Finished(posts[r, h]), d.state \in {"ready", "posted"}
  PROVE  DispatchInv'
<1>1. /\ posts'[r, h] = d
      /\ \A q \in Requests, g \in Hooks : q # r \/ g # h => posts'[q, g] = posts[q, g]
  BY OnePost
<1>2. tasks[r].phase = "running"
  BY DEF DispatchInv, DispatchOfTask
<1>3. DispatchOfTask(r)'
  <2>1. \A g \in Hooks : tasks[r].hooks[g] = "on" => posts[r, g].state \in {"ready", "posted", "ended"}
    BY <1>2 DEF DispatchInv, DispatchOfTask
  <2>2. \A g \in Hooks : tasks[r].hooks[g] = "on" => posts'[r, g].state \in {"ready", "posted", "ended"}
    BY <1>1, <2>1
  <2> QED BY <1>2, <2>2 DEF DispatchOfTask
<1>4. ASSUME NEW g \in Hooks PROVE TrueVerdict(posts[r, g])'
  <2>1. CASE g = h
    BY <1>1, <2>1 DEF TrueVerdict
  <2>2. CASE g # h
    BY <1>1, <2>2, SameVerdict DEF DispatchInv
  <2> QED BY <2>1, <2>2
<1> QED BY <1>1, <1>3, <1>4, DispatchKept

\* A dispatch ends, and its task with the last one.
LEMMA EndKept ==
  ASSUME Typed, DispatchInv, NEW r \in Requests, NEW h \in Hooks, EndDispatch(r, h)
  PROVE  DispatchInv'
<1>1. PICK answer \in {"ok", "retryable", "permanent"}, d \in Dispatches :
        /\ posts' = [posts EXCEPT ![<<r, h>>] = d]
        /\ answer = "retryable" => d.attempt = MaxAttempts
        /\ d.state = "ended" /\ d.answer = answer /\ d.records \in Recorded(answer)
  BY EndPost
<1>2. PICK t \in TaskRecords :
        /\ tasks' = [tasks EXCEPT ![r] = t]
        /\ t.phase = IF GatherDone(r, h) THEN "ended" ELSE tasks[r].phase
        /\ t.hooks = tasks[r].hooks
  BY EndTask
<1>3. /\ posts'[r, h] = d
      /\ \A q \in Requests, g \in Hooks : q # r \/ g # h => posts'[q, g] = posts[q, g]
  BY <1>1, OnePost
<1>4. tasks'[r] = t /\ \A q \in Requests : q # r => tasks'[q] = tasks[q]
  BY <1>2, OneTask
<1>5. tasks[r].phase = "running"
  BY DEF EndDispatch, DispatchInv, DispatchOfTask, Finished
<1>6. UNCHANGED <<requests, crashes, outages, diskOk>>
  BY DEF EndDispatch, unchangedByForwards
<1>7. TrueVerdict(d) /\ \A g \in Hooks : TrueVerdict(posts[r, g])
  BY <1>1, EndVerdict DEF DispatchInv
<1>8. \A g \in Hooks : TrueVerdict(posts[r, g])'
  BY <1>3, <1>6, <1>7 DEF TrueVerdict
<1>9. DispatchOfTask(r)'
  <2>1. \A g \in Hooks : tasks[r].hooks[g] = "on" => posts[r, g].state \in {"ready", "posted", "ended"}
    BY <1>5 DEF DispatchInv, DispatchOfTask
  <2>2. \A g \in Hooks : tasks[r].hooks[g] = "on" => posts'[r, g].state \in {"ready", "posted", "ended"}
    BY <1>1, <1>3, <2>1
  <2>3. CASE GatherDone(r, h)
    <3>1. t.phase = "ended"
      BY <1>2, <2>3
    <3>2. \A g \in Hooks : g # h => Finished(posts[r, g])
      BY <2>3 DEF GatherDone
    <3>3. \A g \in Hooks : posts'[r, g].state \notin {"ready", "posted"}
      BY <1>1, <1>3, <3>2 DEF Finished
    <3> QED BY <1>2, <1>4, <2>2, <3>1, <3>3 DEF DispatchOfTask, Finished
  <2>4. CASE ~GatherDone(r, h)
    <3>1. t.phase = "running"
      BY <1>2, <1>5, <2>4
    <3> QED BY <1>2, <1>4, <2>2, <3>1 DEF DispatchOfTask
  <2> QED BY <2>3, <2>4
<1>10. tasks'[r].phase \in Live \cup {"ended"}
  BY <1>2, <1>4, <1>5 DEF Live
<1> QED BY <1>3, <1>4, <1>6, <1>8, <1>9, <1>10, DispatchKept

\* The task reads the webhooks: nothing is under way for it.
LEMMA StartKept ==
  ASSUME Typed, DispatchInv, NEW r \in Requests, StartForward(r)
  PROVE  DispatchInv'
<1>1. PICK t \in TaskRecords :
        /\ tasks' = [tasks EXCEPT ![r] = t]
        /\ \/ t.phase = "waiting"
           \/ t.phase = "ended" /\ \A h \in Hooks : t.hooks[h] # "on"
  BY StartEffect
<1>2. tasks'[r] = t /\ \A q \in Requests : q # r => tasks'[q] = tasks[q]
  BY <1>1, OneTask
<1>3. tasks[r].phase = "new" /\ UNCHANGED <<requests, crashes, outages, diskOk, posts>>
  BY DEF StartForward, unchangedByForwards
<1>4. \A g \in Hooks : Finished(posts[r, g])
  BY <1>3 DEF DispatchInv, DispatchOfTask
<1>5. DispatchOfTask(r)'
  BY <1>1, <1>2, <1>3, <1>4 DEF DispatchOfTask, Finished
<1>6. \A g \in Hooks : TrueVerdict(posts[r, g])'
  BY <1>3 DEF DispatchInv, TrueVerdict
<1> QED BY <1>1, <1>2, <1>3, <1>5, <1>6, DispatchKept DEF Live

\* The gather begins.
LEMMA AcquireKept ==
  ASSUME Typed, DispatchInv, NEW r \in Requests, AcquireSemaphore(r)
  PROVE  DispatchInv'
<1>1. PICK t \in TaskRecords :
        /\ tasks' = [tasks EXCEPT ![r] = t]
        /\ t.phase = IF \E h \in Hooks : tasks[r].hooks[h] = "on" THEN "running" ELSE "ended"
        /\ t.hooks = tasks[r].hooks
  BY AcquireEffect
<1>2. tasks'[r] = t /\ \A q \in Requests : q # r => tasks'[q] = tasks[q]
  BY <1>1, OneTask
<1>3. tasks[r].phase = "waiting" /\ UNCHANGED <<requests, crashes, outages, diskOk>>
  BY DEF AcquireSemaphore, unchangedByForwards
<1>4. \A g \in Hooks : Finished(posts[r, g])
  BY <1>3 DEF DispatchInv, DispatchOfTask
<1>5. \A q \in Requests, g \in Hooks :
        posts'[q, g] = IF q = r /\ tasks[r].hooks[g] = "on"
                         THEN [NoPost EXCEPT !.state = "ready"] ELSE posts[q, g]
  BY AcquireEffect
<1>6. [NoPost EXCEPT !.state = "ready"].state = "ready"
  BY DEF NoPost
<1>7. DispatchOfTask(r)'
  <2>1. ASSUME NEW g \in Hooks, tasks[r].hooks[g] = "on"
        PROVE  posts'[r, g].state = "ready" /\ t.phase = "running"
    BY <1>1, <1>5, <1>6, <2>1
  <2>2. ASSUME NEW g \in Hooks, tasks[r].hooks[g] # "on"
        PROVE  posts'[r, g] = posts[r, g]
    BY <1>5, <2>2
  <2> QED BY <1>1, <1>2, <1>4, <2>1, <2>2 DEF DispatchOfTask, Finished
<1>8. \A g \in Hooks : TrueVerdict(posts[r, g])'
  <2>1. ASSUME NEW g \in Hooks PROVE TrueVerdict(posts[r, g])'
    <3>1. CASE tasks[r].hooks[g] = "on"
      <4>1. posts'[r, g].state = "ready"
        BY <1>5, <1>6, <3>1
      <4> QED BY <4>1 DEF TrueVerdict
    <3>2. CASE tasks[r].hooks[g] # "on"
      <4>1. posts'[r, g] = posts[r, g] /\ TrueVerdict(posts[r, g])
        BY <1>5, <3>2 DEF DispatchInv
      <4> QED BY <1>3, <4>1, SameVerdict
    <3> QED BY <3>1, <3>2
  <2> QED BY <2>1
<1> QED BY <1>1, <1>2, <1>3, <1>5, <1>7, <1>8, DispatchKept DEF Live

\* A webhook is received: a task of its own, with nothing under way.
LEMMA DispatchReceived ==
  ASSUME Typed, PersistInv, DispatchInv, NEW m \in Msgs, NEW a \in Answers, Receives(m, a)
  PROVE  DispatchInv'
<1>0. PICK new : new = Len(requests) + 1
  OBVIOUS
<1>1. /\ new \in Requests
      /\ requests'[new] = [msg |-> m, answer |-> a, life |-> crashes]
      /\ \A q \in RequestsSoFar : requests'[q] = requests[q]
      /\ RequestsSoFar' = RequestsSoFar \cup {new}
      /\ new \notin RequestsSoFar
  <2>1. MaxRequests \in Nat /\ Answer(m, a)
    BY LimitsAssumption DEF Receives
  <2>2. Len(requests) \in Nat /\ Len(requests') = Len(requests) + 1
    BY <2>1, AnswerEffect
  <2>3. RequestsSoFar' = RequestsSoFar \cup {new} /\ new \notin RequestsSoFar
    BY <1>0, <2>2 DEF RequestsSoFar
  <2> QED BY <1>0, <2>1, <2>3, AnswerEffect
<1>2. /\ UNCHANGED <<posts, diskOk, outages, crashes>>
      /\ \A q \in Requests : q # new => tasks'[q] = tasks[q]
      /\ a = "ok" =>
           tasks'[new].phase = "new" /\ tasks'[new].hooks = [h \in Hooks |-> "off"]
      /\ a # "ok" => tasks'[new] = tasks[new]
  BY <1>0, <1>1, QueueEffect DEF Receives, Dropped, Unforwarded, Queued
<1>3. tasks[new].phase = "none"
  BY <1>1 DEF PersistInv
<1>4. DispatchOfTask(new)'
  BY <1>1, <1>2, <1>3 DEF DispatchInv, DispatchOfTask, Finished
<1>5. \A q \in Requests : q # new => DispatchOfTask(q)'
  BY <1>2, SameTask DEF DispatchInv
<1>6. \A q \in Requests, g \in Hooks : TrueVerdict(posts[q, g])'
  BY <1>2 DEF DispatchInv, TrueVerdict
<1>7. ASSUME NEW q \in RequestsSoFar' PROVE
        /\ requests'[q].life <= crashes'
        /\ requests'[q].answer = "ok" /\ requests'[q].life = crashes' =>
              tasks'[q].phase \in Live \cup {"ended"}
  <2>1. CASE q \in RequestsSoFar
    <3>1. requests'[q] = requests[q] /\ tasks'[q] = tasks[q] /\ crashes' = crashes
      BY <1>1, <1>2, <2>1, SoFarAreRequests
    <3> QED BY <2>1, <3>1 DEF DispatchInv
  <2>2. CASE q = new
    <3>1. requests'[q].life = crashes' /\ requests'[q].answer = a /\ crashes' \in Nat
      BY <1>1, <1>2, <2>2 DEF Typed
    <3>2. a = "ok" => tasks'[q].phase = "new"
      BY <1>2, <2>2
    <3> QED BY <3>1, <3>2 DEF Live
  <2> QED BY <1>1, <1>7, <2>1, <2>2
<1>8. ~diskOk' => outages' # 0
  BY <1>2 DEF DispatchInv
<1>9. \A q \in Requests : DispatchOfTask(q)'
  BY <1>4, <1>5
<1> QED BY <1>6, <1>7, <1>8, <1>9 DEF DispatchInv

\* A restart: what was under way is lost, and another life begins.
LEMMA DispatchRestarted ==
  ASSUME Typed, DispatchInv, Restart
  PROVE  DispatchInv'
<1>1. /\ crashes' = crashes + 1
      /\ UNCHANGED <<requests, diskOk, outages>>
      /\ \A r \in Requests : tasks'[r] = IF tasks[r].phase \in Live
                                           THEN [tasks[r] EXCEPT !.phase = "lost"] ELSE tasks[r]
      /\ \A r \in Requests, h \in Hooks :
           posts'[r, h] = IF Finished(posts[r, h]) THEN posts[r, h]
                          ELSE [posts[r, h] EXCEPT !.state = "lost"]
  BY DEF Restart
<1>2. \A t \in TaskRecords : [t EXCEPT !.phase = "lost"].phase = "lost"
  BY TaskPhase DEF Phases
<1>3. \A d \in Dispatches : [d EXCEPT !.state = "lost"].state = "lost"
  BY DispatchState DEF DispatchStates
<1>4. ASSUME NEW r \in Requests
      PROVE  \/ tasks'[r].phase = "lost"
             \/ tasks'[r] = tasks[r] /\ tasks[r].phase \notin Live
  <2>1. tasks[r] \in TaskRecords
    BY DEF Typed
  <2> QED BY <1>1, <1>2, <2>1
<1>5. ASSUME NEW r \in Requests, NEW h \in Hooks
      PROVE  IF Finished(posts[r, h]) THEN posts'[r, h] = posts[r, h] ELSE posts'[r, h].state = "lost"
  <2>1. posts[r, h] \in Dispatches
    BY DEF Typed
  <2> QED BY <1>1, <1>3, <2>1
<1>6. \A r \in Requests, h \in Hooks : posts'[r, h].state \notin {"ready", "posted"}
  BY <1>5 DEF Finished
<1>7. ASSUME NEW r \in Requests PROVE DispatchOfTask(r)'
  <2>1. \A h \in Hooks : Finished(posts[r, h])'
    BY <1>6 DEF Finished
  <2>2. CASE tasks'[r].phase = "lost"
    BY <2>1, <2>2 DEF DispatchOfTask
  <2>3. CASE tasks'[r] = tasks[r] /\ tasks[r].phase \notin Live
    <3>1. \A h \in Hooks : Finished(posts[r, h])
      BY <2>3 DEF DispatchInv, DispatchOfTask, Live
    <3>2. \A h \in Hooks : posts'[r, h] = posts[r, h]
      BY <1>5, <3>1
    <3> QED BY <2>3, <3>2, SameTask DEF DispatchInv
  <2> QED BY <1>4, <2>2, <2>3
<1>8. ASSUME NEW r \in Requests, NEW h \in Hooks PROVE TrueVerdict(posts[r, h])'
  <2>1. CASE Finished(posts[r, h])
    BY <1>1, <1>5, <2>1, SameVerdict DEF DispatchInv
  <2>2. CASE ~Finished(posts[r, h])
    BY <1>5, <2>2 DEF TrueVerdict
  <2> QED BY <2>1, <2>2
<1>9. \A q \in RequestsSoFar' :
        /\ requests'[q].life <= crashes'
        /\ requests'[q].life # crashes'
  <2>1. ASSUME NEW q \in RequestsSoFar PROVE requests[q].life \in Nat /\ requests[q].life <= crashes
    <3>1. requests[q] \in Received
      BY ElementOfSeq DEF Typed, RequestsSoFar
    <3>2. requests[q].life \in Nat
      BY <3>1 DEF Received
    <3> QED BY <3>2 DEF DispatchInv
  <2>2. RequestsSoFar' = RequestsSoFar /\ requests' = requests /\ crashes' = crashes + 1 /\ crashes \in Nat
    BY <1>1 DEF Typed, RequestsSoFar
  <2>3. ASSUME NEW q \in RequestsSoFar PROVE
          requests[q].life <= crashes + 1 /\ requests[q].life # crashes + 1
    BY <2>1, <2>2
  <2> QED BY <2>2, <2>3
<1>10. ~diskOk' => outages' # 0
  BY <1>1 DEF DispatchInv
<1> QED BY <1>7, <1>8, <1>9, <1>10 DEF DispatchInv

\* The volume fails for the first time, or again.
LEMMA DiskKept ==
  ASSUME Typed, DispatchInv, DiskFails \/ DiskRecovers
  PROVE  DispatchInv'
<1>1. /\ UNCHANGED <<requests, tasks, posts, crashes>>
      /\ outages' = outages \/ outages' = outages + 1
  BY DEF DiskFails, DiskRecovers
<1>2. ~diskOk' => outages' # 0
  BY DEF DiskFails, DiskRecovers, Typed
<1>3. \A r \in Requests : DispatchOfTask(r)'
  BY <1>1 DEF DispatchInv, DispatchOfTask, Finished
<1>4. outages' = 0 => outages = 0
  BY <1>1 DEF Typed
<1>5. \A r \in Requests, h \in Hooks : TrueVerdict(posts[r, h])'
  BY <1>1, <1>4 DEF DispatchInv, TrueVerdict
<1>6. \A q \in RequestsSoFar' :
        /\ requests'[q].life <= crashes'
        /\ requests'[q].answer = "ok" /\ requests'[q].life = crashes' =>
              tasks'[q].phase \in Live \cup {"ended"}
  BY <1>1 DEF DispatchInv, RequestsSoFar
<1> QED BY <1>2, <1>3, <1>5, <1>6 DEF DispatchInv

LEMMA InitDispatchInv == Init => DispatchInv
<1> SUFFICES ASSUME Init PROVE DispatchInv
  OBVIOUS
<1>1. \A r \in Requests : tasks[r] = Idle /\ \A h \in Hooks : posts[r, h] = NoPost
  BY DEF Init
<1>2. Idle.phase = "none" /\ NoPost.state = "none"
  BY DEF Idle, NoPost
<1>3. \A r \in Requests : DispatchOfTask(r)
  BY <1>1, <1>2 DEF DispatchOfTask, Finished
<1>4. \A r \in Requests, h \in Hooks : TrueVerdict(posts[r, h])
  BY <1>1, <1>2 DEF TrueVerdict
<1>5. RequestsSoFar = {}
  BY EmptySeq DEF Init, RequestsSoFar
<1>6. ~diskOk => outages # 0
  BY DEF Init
<1> QED BY <1>3, <1>4, <1>5, <1>6 DEF DispatchInv

LEMMA NextDispatchInv == Typed /\ PersistInv /\ DispatchInv /\ [Next]_vars => DispatchInv'
<1> SUFFICES ASSUME Typed, PersistInv, DispatchInv, [Next]_vars PROVE DispatchInv'
  OBVIOUS
<1>1. CASE UNCHANGED <<requests, tasks, posts, diskOk, outages, crashes>>
  <2>1. \A r \in Requests : DispatchOfTask(r)'
    BY <1>1 DEF DispatchInv, DispatchOfTask, Finished
  <2>2. \A r \in Requests, h \in Hooks : TrueVerdict(posts[r, h])'
    BY <1>1 DEF DispatchInv, TrueVerdict
  <2>3. \A q \in RequestsSoFar' :
          /\ requests'[q].life <= crashes'
          /\ requests'[q].answer = "ok" /\ requests'[q].life = crashes' =>
                tasks'[q].phase \in Live \cup {"ended"}
    BY <1>1 DEF DispatchInv, RequestsSoFar
  <2>4. ~diskOk' => outages' # 0
    BY <1>1 DEF DispatchInv
  <2> QED BY <2>1, <2>2, <2>3, <2>4 DEF DispatchInv
<1>2. ASSUME NEW m \in Msgs, ReceiveWhatsApp(m) \/ ReceiveInstagram(m) PROVE DispatchInv'
  BY <1>2, ReceiveEffect, DispatchReceived
<1>3. ASSUME NEW r \in Requests, NEW h \in Hooks, Post(r, h) PROVE DispatchInv'
  <2>1. /\ UNCHANGED <<requests, tasks, crashes, outages, diskOk>>
        /\ ~Finished(posts[r, h])
    BY <1>3 DEF Post, unchangedByForwards, Finished
  <2>2. PICK d \in Dispatches : d.state = "posted" /\ posts' = [posts EXCEPT ![<<r, h>>] = d]
    BY <1>3, PostEffect
  <2> QED BY <2>1, <2>2, PostKept
<1>4. ASSUME NEW r \in Requests, NEW h \in Hooks, RetryLater(r, h) PROVE DispatchInv'
  <2>1. /\ UNCHANGED <<requests, tasks, crashes, outages, diskOk>>
        /\ ~Finished(posts[r, h])
    BY <1>4 DEF RetryLater, unchangedByForwards, Finished
  <2>2. PICK d \in Dispatches : d.state = "ready" /\ posts' = [posts EXCEPT ![<<r, h>>] = d]
    BY <1>4, RetryEffect
  <2> QED BY <2>1, <2>2, PostKept
<1>5. ASSUME NEW r \in Requests, Forward(r) PROVE DispatchInv'
  BY <1>3, <1>4, <1>5, StartKept, AcquireKept, EndKept DEF Forward
<1>6. CASE Environment
  BY <1>1, <1>6, DiskKept, DispatchRestarted
  DEF Environment, Configure, MarkOutbound, ExpireKey, TimePasses
<1> QED BY <1>1, <1>2, <1>5, <1>6 DEF Next, vars

\* The invariants together.
THEOREM PipelineInvariant == Spec => [](Typed /\ PersistInv /\ DispatchInv)
BY InitTyped, NextTyped, InitPersistInv, NextPersistInv, InitDispatchInv, NextDispatchInv, PTL
   DEF Spec

\* What is forwarded is on the timeline first, and in its file, unless its first
\* write was refused.
THEOREM ForwardedIsOnTheTimeline == Spec => []ForwardedIsPersisted
<1>1. PersistInv => ForwardedIsPersisted
  BY DEF PersistInv
<1> QED BY <1>1, PipelineInvariant, PTL

\* While the process lives, an accepted message is being forwarded or every webhook
\* that wants it has its verdict, told by one row if the volume never failed.
THEOREM AcceptedIsSettled == Spec => []AcceptedIsAccountedFor
<1>1. Typed /\ DispatchInv => AcceptedIsAccountedFor
  <2> SUFFICES ASSUME Typed, DispatchInv, NEW r \in RequestsSoFar,
                      requests[r].answer = "ok", requests[r].life = crashes,
                      tasks[r].phase = "ended"
               PROVE  Settled(r)
    BY DEF DispatchInv, AcceptedIsAccountedFor
  <2>1. r \in Requests
    BY SoFarAreRequests
  <2>2. DispatchOfTask(r) /\ \A h \in Hooks : TrueVerdict(posts[r, h])
    BY <2>1 DEF DispatchInv
  <2> QED BY <2>2 DEF DispatchOfTask, TrueVerdict, Settled
<1> QED BY <1>1, PipelineInvariant, PTL
=============================================================================
