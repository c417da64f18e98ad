----------------------- MODULE CoreInboundOutboxProofs -----------------------
(***************************************************************************)
(* Proofs about CoreInboundOutbox, for every set of messages, groups and   *)
(* workers, either store and every value of the timing constants.          *)
(***************************************************************************)
EXTENDS CoreInboundOutbox, TLAPS

(* Type correctness.                                                       *)

\* The initial state is well typed.
LEMMA InitTypeOK == Init => TypeOK
<1> SUFFICES ASSUME Init PROVE TypeOK
  OBVIOUS
<1>1. Absent \in Delivery
  BY DEF Absent, Delivery
<1>2. outbox \in [Events -> Delivery]
  BY <1>1 DEF Init
<1>3. binding \in 0 .. MaxBindings
  BY TimingAssumption DEF Init
<1>4. /\ current \in [Workers -> Events \cup {None}]
      /\ batch \in [Workers -> SUBSET Events]
      /\ pc \in [Workers -> {"idle", "posting", "settling", "retrying"}]
      /\ outcome \in [Workers -> {"none", "acknowledged", "rejected", "transient"}]
      /\ attemptsRead \in [Workers -> Nat]
      /\ elapsed \in [Workers -> Nat]
  BY DEF Init
<1> QED BY <1>2, <1>3, <1>4 DEF Init, TypeOK

\* An update of two fields is one record written.
LEMMA TwoFields ==
  ASSUME NEW S, NEW T, NEW f \in [S -> T], NEW x \in S, NEW status, NEW timer
  PROVE  [f EXCEPT ![x].status = status, ![x].timer = timer]
           = [f EXCEPT ![x] = [f[x] EXCEPT !.status = status, !.timer = timer]]
OBVIOUS

\* What _update writes is a delivery.
LEMMA UpdateTypeOK ==
  ASSUME TypeOK, NEW w \in Workers, NEW e \in Events,
         NEW status \in Statuses, NEW timer \in Nat,
         Update(w, e, status, timer)
  PROVE  /\ outbox' \in [Events -> Delivery]
         /\ batch' \in [Workers -> SUBSET Events]
<1>1. CASE Stored(e)
  <2>1. /\ outbox' = [outbox EXCEPT ![e].status = status, ![e].timer = timer]
        /\ batch' = [batch EXCEPT ![w] = @ \ {e}]
    BY <1>1 DEF Update
  <2>2. \A d \in Delivery : [d EXCEPT !.status = status, !.timer = timer] \in Delivery
    BY DEF Delivery
  <2>3. outbox' = [outbox EXCEPT ![e] = [outbox[e] EXCEPT !.status = status, !.timer = timer]]
    BY <2>1, TwoFields DEF TypeOK
  <2>4. outbox' \in [Events -> Delivery]
    BY <1>1, <2>2, <2>3 DEF TypeOK
  <2> QED BY <2>1, <2>4 DEF TypeOK
<1>2. CASE ~Stored(e)
  <2>1. /\ outbox' = outbox
        /\ batch' = [batch EXCEPT ![w] = {}]
    BY <1>2 DEF Update
  <2> QED BY <2>1 DEF TypeOK
<1> QED BY <1>1, <1>2

\* A worker that is done is idle and well typed.
LEMMA DoneTypeOK ==
  ASSUME TypeOK, NEW w \in Workers, Done(w)
  PROVE  /\ pc' \in [Workers -> {"idle", "posting", "settling", "retrying"}]
         /\ current' \in [Workers -> Events \cup {None}]
         /\ outcome' \in [Workers -> {"none", "acknowledged", "rejected", "transient"}]
         /\ attemptsRead' \in [Workers -> Nat]
         /\ elapsed' \in [Workers -> Nat]
BY DEF Done, TypeOK

\* Enqueueing stores a delivery, prunes others, changes nothing else.
LEMMA EnqueueTypeOK ==
  ASSUME TypeOK, NEW e \in Events, EnqueueJson(e) \/ EnqueuePostgres(e)
  PROVE  outbox' \in [Events -> Delivery]
<1>1. Absent \in Delivery /\ Pending \in Delivery
  BY DEF Absent, Pending, Delivery, Statuses
<1> QED BY <1>1 DEF TypeOK, EnqueueJson, EnqueuePostgres, InsertAndPrune

\* Every step keeps the state well typed.
LEMMA NextTypeOK == TypeOK /\ BusyHasEvent /\ [Next]_vars => TypeOK'
<1> SUFFICES ASSUME TypeOK, BusyHasEvent, [Next]_vars PROVE TypeOK'
  OBVIOUS
<1> USE DEF connection, worker, external
<1>1. CASE Bind
  <2>1. binding' \in 0 .. MaxBindings
    BY <1>1, TimingAssumption DEF Bind, TypeOK
  <2> QED BY <1>1, <2>1 DEF Bind, TypeOK
<1>2. ASSUME NEW G \in SUBSET Groups, PutPolicy(G) PROVE TypeOK'
  BY <1>2 DEF PutPolicy, Disturb, TypeOK
<1>3. CASE DeleteConnection
  BY <1>3 DEF DeleteConnection, Disturb, TypeOK
<1>4. CASE LoseKey
  <2>1. keyStored' \in BOOLEAN
    BY <1>4 DEF LoseKey
  <2>2. disturbances' \in Nat
    BY <1>4 DEF LoseKey, Disturb, TypeOK
  <2> QED BY <1>4, <2>1, <2>2 DEF LoseKey, TypeOK
<1>5. ASSUME NEW e \in Events, Replay(e) PROVE TypeOK'
  <2>1. outbox' \in [Events -> Delivery]
    BY <1>5 DEF Replay, Replayable, Pending, TypeOK, Delivery, Statuses
  <2> QED BY <1>5, <2>1 DEF Replay, Replayable, Disturb, TypeOK
<1>6. ASSUME NEW m \in Messages, Ingest(m) PROVE TypeOK'
  <2> DEFINE e == <<m, binding>>
  <2>1. e \in Events
    BY <1>6 DEF Ingest, TypeOK, Events
  <2>2. EnqueueJson(e) \/ EnqueuePostgres(e)
    BY <1>6 DEF Ingest
  <2>3. outbox' \in [Events -> Delivery]
    BY <2>1, <2>2, EnqueueTypeOK
  <2>4. queued' = queued \cup {e}
    BY <1>6 DEF Ingest
  <2> HIDE DEF e
  <2> QED BY <1>6, <2>1, <2>3, <2>4 DEF Ingest, TypeOK
<1>7. ASSUME NEW w \in Workers, ClaimDue(w) PROVE TypeOK'
  <2>1. PICK S \in Batches :
          /\ outbox' = [e \in Events |-> IF e \in S THEN Claimed(outbox[e]) ELSE outbox[e]]
          /\ batch' = [batch EXCEPT ![w] = S]
    BY <1>7 DEF ClaimDue
  <2>2. S \subseteq Events
    BY <2>1 DEF Batches, Due
  <2>3. ASSUME NEW d \in Delivery PROVE Claimed(d) \in Delivery
    BY TimingAssumption DEF Claimed, Delivery, Statuses
  <2>4. outbox' \in [Events -> Delivery]
    BY <2>1, <2>3 DEF TypeOK
  <2>5. batch' \in [Workers -> SUBSET Events]
    BY <2>1, <2>2 DEF TypeOK
  <2> QED BY <1>7, <2>4, <2>5 DEF ClaimDue, TypeOK
<1>8. ASSUME NEW w \in Workers, NEW e \in Events, Send(w, e) PROVE TypeOK'
  BY <1>8 DEF Send, TypeOK
<1>9. ASSUME NEW w \in Workers, NEW e \in Events, Refuse(w, e) PROVE TypeOK'
  <2>1. Update(w, e, "failed", 0)
    BY <1>9 DEF Refuse
  <2>2. /\ outbox' \in [Events -> Delivery]
        /\ batch' \in [Workers -> SUBSET Events]
    BY <2>1, UpdateTypeOK DEF Statuses
  <2> QED BY <1>9, <2>2 DEF Refuse, TypeOK
<1>10. ASSUME NEW w \in Workers, Settle(w) PROVE TypeOK'
  <2> current[w] \in Events
    BY <1>10 DEF Settle, BusyHasEvent
  <2>1. PICK status \in {"delivered", "failed"}, timer \in {Retention, 0} :
          Update(w, current[w], status, timer)
    BY <1>10 DEF Settle
  <2>2. /\ outbox' \in [Events -> Delivery]
        /\ batch' \in [Workers -> SUBSET Events]
    BY <1>10, <2>1, UpdateTypeOK, TimingAssumption DEF Statuses
  <2> QED BY <1>10, <2>2, DoneTypeOK DEF Settle, TypeOK
<1>11. ASSUME NEW w \in Workers, ReadAttempts(w) PROVE TypeOK'
  <2>1. CASE Stored(current[w])
    <3>1. current[w] \in Events
      BY <1>11 DEF ReadAttempts, BusyHasEvent
    <3>2. outbox[current[w]].attempts \in Nat
      BY <3>1 DEF TypeOK, Delivery
    <3> QED BY <1>11, <2>1, <3>2 DEF ReadAttempts, TypeOK
  <2>2. CASE ~Stored(current[w])
    BY <1>11, <2>2, DoneTypeOK DEF ReadAttempts, TypeOK
  <2> QED BY <2>1, <2>2
<1>12. ASSUME NEW w \in Workers, WriteRetry(w) PROVE TypeOK'
  <2>1. current[w] \in Events
    BY <1>12 DEF WriteRetry, BusyHasEvent
  <2>2. ~BudgetSpent(attemptsRead[w]) => Backoff(attemptsRead[w]) \in Nat
    BY TimingAssumption DEF TypeOK, BudgetSpent
  <2>3. PICK status \in {"dead_letter", "retry"}, timer \in Nat :
          Update(w, current[w], status, timer)
    BY <1>12, <2>2 DEF WriteRetry
  <2>4. /\ outbox' \in [Events -> Delivery]
        /\ batch' \in [Workers -> SUBSET Events]
    BY <2>1, <2>3, UpdateTypeOK DEF Statuses
  <2> QED BY <1>12, <2>4, DoneTypeOK DEF WriteRetry, TypeOK
<1>13. ASSUME NEW w \in Workers, NEW o \in {"acknowledged", "rejected", "transient"},
              Answer(w, o)
       PROVE  TypeOK'
  BY <1>13 DEF Answer, TypeOK
<1>14. ASSUME NEW w \in Workers, Interrupt(w) PROVE TypeOK'
  <2>1. batch' \in [Workers -> SUBSET Events]
    BY <1>14 DEF Interrupt, TypeOK
  <2> QED BY <1>14, <2>1, DoneTypeOK DEF Interrupt, Disturb, TypeOK
<1>15. ASSUME NEW e \in Events, CoreProcesses(e) PROVE TypeOK'
  BY <1>15 DEF CoreProcesses, TypeOK
<1>16. CASE Tick
  <2>1. \A n \in Nat : Countdown(n) \in Nat
    BY DEF Countdown
  <2>2. outbox' \in [Events -> Delivery]
    BY <1>16, <2>1 DEF Tick, TypeOK, Delivery
  <2>3. elapsed' \in [Workers -> Nat]
    BY <1>16 DEF Tick, TypeOK
  <2> QED BY <1>16, <2>2, <2>3 DEF Tick, TypeOK
<1>17. CASE UNCHANGED vars
  BY <1>17 DEF vars, TypeOK
<1> QED
  BY <1>1, <1>2, <1>3, <1>4, <1>5, <1>6, <1>7, <1>8, <1>9, <1>10, <1>11, <1>12, <1>13,
     <1>14, <1>15, <1>16, <1>17 DEF Next, Untimed, Operator, WorkerStep, Answered

-----------------------------------------------------------------------------
(* Nothing acknowledged is lost.                                           *)

\* A worker has an event exactly while it is busy.
LEMMA NextBusy == TypeOK /\ BusyHasEvent /\ [Next]_vars => BusyHasEvent'
<1> SUFFICES ASSUME TypeOK, BusyHasEvent, [Next]_vars, NEW v \in Workers, pc'[v] # "idle"
             PROVE  current'[v] \in Events
  BY DEF BusyHasEvent
<1>1. CASE UNCHANGED <<pc, current>>
  BY <1>1 DEF BusyHasEvent
<1>2. ASSUME NEW w \in Workers, NEW e \in Events, Send(w, e)
      PROVE  current'[v] \in Events
  BY <1>2 DEF Send, BusyHasEvent, TypeOK
<1>3. ASSUME NEW w \in Workers, Done(w) PROVE current'[v] \in Events
  BY <1>3 DEF Done, BusyHasEvent, TypeOK
<1>4. ASSUME NEW w \in Workers, pc[w] # "idle", UNCHANGED current,
             pc' = [pc EXCEPT ![w] = "settling"] \/ pc' = [pc EXCEPT ![w] = "retrying"]
      PROVE  current'[v] \in Events
  BY <1>4 DEF BusyHasEvent, TypeOK
<1>5. \/ UNCHANGED <<pc, current>>
      \/ \E w \in Workers, e \in Events : Send(w, e)
      \/ \E w \in Workers : Done(w)
      \/ \E w \in Workers :
           /\ pc[w] # "idle"
           /\ UNCHANGED current
           /\ pc' = [pc EXCEPT ![w] = "settling"] \/ pc' = [pc EXCEPT ![w] = "retrying"]
  BY DEF Next, Untimed, Operator, WorkerStep, Answered, vars, connection, worker, external,
         Bind, PutPolicy, DeleteConnection, LoseKey, Replay, Ingest, ClaimDue, Refuse,
         Settle, ReadAttempts, WriteRetry, Answer, Interrupt, CoreProcesses, Tick
<1> QED BY <1>1, <1>2, <1>3, <1>4, <1>5

\* _update changes the status of its own event only, and never deletes one.
LEMMA UpdateEffect ==
  ASSUME TypeOK, NEW w \in Workers, NEW e \in Events,
         NEW status \in Statuses, NEW timer \in Nat,
         Update(w, e, status, timer)
  PROVE  /\ \A f \in Events : Stored(f)' <=> Stored(f)
         /\ \A f \in Events : Status(f)' = "delivered" =>
              Status(f) = "delivered" \/ (f = e /\ status = "delivered")
         /\ \A v \in Workers : batch'[v] \subseteq batch[v]
<1>1. CASE Stored(e)
  <2>1. /\ outbox' = [outbox EXCEPT ![e].status = status, ![e].timer = timer]
        /\ batch' = [batch EXCEPT ![w] = @ \ {e}]
    BY <1>1 DEF Update
  <2>2. /\ outbox'[e].status = status
        /\ \A f \in Events : f # e => outbox'[f] = outbox[f]
    BY <2>1 DEF TypeOK, Delivery
  <2> QED BY <1>1, <2>1, <2>2 DEF TypeOK, Stored, Status, Statuses
<1>2. CASE ~Stored(e)
  <2>1. /\ outbox' = outbox
        /\ batch' = [batch EXCEPT ![w] = {}]
    BY <1>2 DEF Update
  <2> QED BY <2>1 DEF TypeOK, Stored, Status
<1> QED BY <1>1, <1>2

\* A finished worker holds no event and no answer.
LEMMA DoneEffect ==
  ASSUME TypeOK, NEW w \in Workers, Done(w)
  PROVE  \A v \in Workers : /\ current'[v] \in {current[v], None}
                            /\ outcome'[v] = "acknowledged" =>
                                 /\ outcome[v] = "acknowledged"
                                 /\ UNCHANGED <<current[v], pc[v]>>
BY DEF Done, TypeOK

\* A step that stores nothing, claims nothing, sends nothing and marks delivered
\* only what Core has processed keeps the invariant.
LEMMA QuietStep ==
  ASSUME HandoffInv, TypeOK', BusyHasEvent',
         \A f \in Events : Stored(f)' <=> Stored(f),
         \A f \in Events : Status(f)' = "delivered" => Status(f) = "delivered" \/ f \in core,
         \A v \in Workers : batch'[v] \subseteq batch[v],
         \A v \in Workers : current'[v] \in {current[v], None},
         \A v \in Workers : outcome'[v] = "acknowledged" =>
           outcome[v] = "acknowledged" /\ UNCHANGED <<current[v], pc[v]>>,
         wire' \subseteq wire, core \subseteq core', queued' = queued
  PROVE  HandoffInv'
<1> USE DEF HandoffInv
<1>1. OnlyQueuedCirculates'
  BY DEF OnlyQueuedCirculates, InHand
<1>2. AcknowledgedIsProcessed'
  BY DEF AcknowledgedIsProcessed
<1>3. DeliveredIsProcessed'
  BY DEF DeliveredIsProcessed
<1>4. NoEventLost'
  BY DEF NoEventLost, TypeOK
<1> QED BY <1>1, <1>2, <1>3, <1>4

\* Ingesting acknowledges one event and stores it; what it prunes was delivered.
LEMMA IngestEffect ==
  ASSUME TypeOK, NEW m \in Messages, Ingest(m)
  PROVE  \E e \in Events :
           /\ queued' = queued \cup {e}
           /\ UNCHANGED <<batch, current, pc, outcome, wire, core>>
           /\ Stored(e)'
           /\ \A f \in Events :
                /\ Stored(f)' => Stored(f) \/ f = e
                /\ Stored(f) => Stored(f)' \/ Status(f) = "delivered"
                /\ Status(f)' = "delivered" => Status(f) = "delivered"
<1>0. PICK e \in Events :
      /\ EnqueueJson(e) \/ EnqueuePostgres(e)
      /\ queued' = queued \cup {e}
      /\ UNCHANGED <<batch, current, pc, outcome, wire, core>>
  BY DEF Ingest, TypeOK, Events, worker, external
<1>1. \A f \in Events : outbox'[f] \in {outbox[f], Pending, Absent}
  BY <1>0 DEF EnqueueJson, EnqueuePostgres, InsertAndPrune
<1>2. \A f \in Events : Stored(f)' => Stored(f) \/ f = e
  BY <1>0 DEF EnqueueJson, EnqueuePostgres, InsertAndPrune, Stored, Absent
<1>3. \A f \in Events : Stored(f) => Stored(f)' \/ Status(f) = "delivered"
  BY <1>0 DEF EnqueueJson, EnqueuePostgres, InsertAndPrune, Stored, Expired, Pending
<1>4. Stored(e)'
  <2>1. CASE InsertAndPrune(e)
    BY <1>0, <2>1 DEF InsertAndPrune, Stored, Pending
  <2>2. CASE Stored(e) /\ outbox'[e] = outbox[e]
    BY <2>2 DEF Stored
  <2>3. CASE Stored(e) /\ ~Expired(e)
              /\ outbox' = [f \in Events |-> IF Expired(f) THEN Absent ELSE outbox[f]]
    BY <1>0, <2>3 DEF Stored
  <2> QED BY <1>0, <2>1, <2>2, <2>3 DEF EnqueueJson, EnqueuePostgres
<1>5. \A f \in Events : Status(f)' = "delivered" => Status(f) = "delivered"
  BY <1>1 DEF Status, Pending, Absent
<1> QED BY <1>0, <1>2, <1>3, <1>4, <1>5

\* Ingesting keeps the invariant.
LEMMA IngestKeeps ==
  ASSUME HandoffInv, TypeOK', BusyHasEvent', NEW m \in Messages, Ingest(m)
  PROVE  HandoffInv'
<1>1. PICK e \in Events :
        /\ queued' = queued \cup {e}
        /\ UNCHANGED <<batch, current, pc, outcome, wire, core>>
        /\ Stored(e)'
        /\ \A f \in Events :
             /\ Stored(f)' => Stored(f) \/ f = e
             /\ Stored(f) => Stored(f)' \/ Status(f) = "delivered"
             /\ Status(f)' = "delivered" => Status(f) = "delivered"
  BY IngestEffect DEF HandoffInv
<1>2. OnlyQueuedCirculates'
  BY <1>1 DEF HandoffInv, OnlyQueuedCirculates, InHand
<1>3. AcknowledgedIsProcessed' /\ DeliveredIsProcessed'
  BY <1>1 DEF HandoffInv, AcknowledgedIsProcessed, DeliveredIsProcessed
<1>4. NoEventLost'
  <2> SUFFICES ASSUME NEW f \in queued' PROVE Stored(f)' \/ f \in core'
    BY DEF NoEventLost
  <2>1. CASE f = e
    BY <1>1, <2>1
  <2>2. CASE f \in queued
    <3>1. f \in Events
      BY <2>2 DEF HandoffInv, TypeOK
    <3>2. Stored(f) \/ f \in core
      BY <2>2 DEF HandoffInv, NoEventLost
    <3> QED BY <1>1, <3>1, <3>2 DEF HandoffInv, DeliveredIsProcessed
  <2> QED BY <1>1, <2>1, <2>2
<1> QED BY <1>2, <1>3, <1>4 DEF HandoffInv

\* What a worker claims, sends or is answered had been acknowledged.
LEMMA ClaimKeeps ==
  ASSUME HandoffInv, TypeOK', BusyHasEvent', NEW w \in Workers, ClaimDue(w)
  PROVE  HandoffInv'
<1>1. PICK S \in Batches :
        /\ outbox' = [e \in Events |-> IF e \in S THEN Claimed(outbox[e]) ELSE outbox[e]]
        /\ batch' = [batch EXCEPT ![w] = S]
  BY DEF ClaimDue
<1>2. S \subseteq Events /\ \A e \in S : Stored(e)
  BY <1>1 DEF Batches, Due, Abandoned, Stored, Status
<1>3. \A f \in Events : /\ Stored(f)' <=> Stored(f)
                        /\ Status(f)' = "delivered" => Status(f) = "delivered"
  BY <1>1, <1>2 DEF Claimed, Stored, Status
<1>4. UNCHANGED <<current, pc, outcome, wire, core, queued>>
  BY DEF ClaimDue, external
<1>5. S \subseteq queued
  BY <1>2 DEF HandoffInv, OnlyQueuedCirculates
<1>6. OnlyQueuedCirculates'
  BY <1>1, <1>3, <1>4, <1>5 DEF HandoffInv, OnlyQueuedCirculates, InHand, TypeOK
<1>7. AcknowledgedIsProcessed' /\ DeliveredIsProcessed'
  BY <1>3, <1>4 DEF HandoffInv, AcknowledgedIsProcessed, DeliveredIsProcessed
<1>8. NoEventLost'
  BY <1>3, <1>4 DEF HandoffInv, NoEventLost, TypeOK
<1> QED BY <1>6, <1>7, <1>8 DEF HandoffInv

\* What a worker sends had been acknowledged; it has no answer in hand yet.
LEMMA SendKeeps ==
  ASSUME HandoffInv, TypeOK', BusyHasEvent',
         NEW w \in Workers, NEW e \in Events, Send(w, e)
  PROVE  HandoffInv'
<1>1. /\ e \in batch[w]
      /\ batch' = [batch EXCEPT ![w] = @ \ {e}]
      /\ current' = [current EXCEPT ![w] = e]
      /\ pc' = [pc EXCEPT ![w] = "posting"]
      /\ pc[w] = "idle"
      /\ wire' = wire \cup {e}
      /\ UNCHANGED <<outbox, outcome, core, queued>>
  BY DEF Send
<1>2. e \in queued
  BY <1>1 DEF HandoffInv, OnlyQueuedCirculates, InHand
<1>3. OnlyQueuedCirculates'
  BY <1>1, <1>2 DEF HandoffInv, OnlyQueuedCirculates, InHand, TypeOK, Stored
<1>4. AcknowledgedIsProcessed'
  BY <1>1 DEF HandoffInv, AcknowledgedIsProcessed, TypeOK
<1>5. DeliveredIsProcessed' /\ NoEventLost'
  BY <1>1 DEF HandoffInv, DeliveredIsProcessed, NoEventLost, Status, Stored
<1> QED BY <1>3, <1>4, <1>5 DEF HandoffInv

\* A positive answer comes from Core's having processed the event.
LEMMA AnswerKeeps ==
  ASSUME HandoffInv, TypeOK', BusyHasEvent', NEW w \in Workers,
         NEW o \in {"acknowledged", "rejected", "transient"}, Answer(w, o)
  PROVE  HandoffInv'
<1>1. /\ o = "acknowledged" => current[w] \in core
      /\ outcome' = [outcome EXCEPT ![w] = o]
      /\ pc' = [pc EXCEPT ![w] = "settling"]
      /\ UNCHANGED <<outbox, batch, current, wire, core, queued>>
  BY DEF Answer, external
<1>2. AcknowledgedIsProcessed'
  BY <1>1 DEF HandoffInv, AcknowledgedIsProcessed, TypeOK
<1>3. OnlyQueuedCirculates'
  BY <1>1 DEF HandoffInv, OnlyQueuedCirculates, InHand, Stored
<1>4. DeliveredIsProcessed' /\ NoEventLost'
  BY <1>1 DEF HandoffInv, DeliveredIsProcessed, NoEventLost, Status, Stored
<1> QED BY <1>2, <1>3, <1>4 DEF HandoffInv

\* Every step of a worker, Core, the clock and the operator keeps the invariant.
LEMMA NextHandoffInv == HandoffInv /\ [Next]_vars => HandoffInv'
<1> SUFFICES ASSUME HandoffInv, [Next]_vars PROVE HandoffInv'
  OBVIOUS
<1>a. TypeOK' /\ BusyHasEvent'
  BY NextTypeOK, NextBusy DEF HandoffInv
<1>1. CASE UNCHANGED <<outbox, batch, current, pc, outcome, wire, core, queued>>
  BY <1>a, <1>1, QuietStep DEF Stored, Status
<1>2. ASSUME NEW e \in Events, Replay(e) PROVE HandoffInv'
  <2>1. /\ Stored(e)
        /\ outbox' = [outbox EXCEPT ![e] = Pending]
        /\ UNCHANGED <<batch, current, pc, outcome, wire, core, queued>>
    BY <1>2 DEF Replay, Replayable, Stored, Status, worker, external
  <2>2. \A f \in Events : Stored(f)' <=> Stored(f)
    BY <2>1 DEF HandoffInv, TypeOK, Stored, Pending
  <2>3. \A f \in Events : Status(f)' = "delivered" => Status(f) = "delivered"
    BY <2>1 DEF HandoffInv, TypeOK, Status, Pending
  <2> QED BY <1>a, <2>1, <2>2, <2>3, QuietStep
<1>3. ASSUME NEW m \in Messages, Ingest(m) PROVE HandoffInv'
  BY <1>a, <1>3, IngestKeeps
<1>4. ASSUME NEW w \in Workers, ClaimDue(w) PROVE HandoffInv'
  BY <1>a, <1>4, ClaimKeeps
<1>5. ASSUME NEW w \in Workers, NEW e \in Events, Send(w, e) PROVE HandoffInv'
  BY <1>a, <1>5, SendKeeps
<1>6. ASSUME NEW w \in Workers, NEW e \in Events, Refuse(w, e) PROVE HandoffInv'
  <2>1. /\ Update(w, e, "failed", 0)
        /\ UNCHANGED <<current, pc, outcome, wire, core, queued>>
    BY <1>6 DEF Refuse, external
  <2>2. /\ \A f \in Events : Stored(f)' <=> Stored(f)
        /\ \A f \in Events : Status(f)' = "delivered" => Status(f) = "delivered"
        /\ \A v \in Workers : batch'[v] \subseteq batch[v]
    BY <2>1, UpdateEffect DEF HandoffInv, Statuses
  <2> QED BY <1>a, <2>1, <2>2, QuietStep
<1>7. ASSUME NEW w \in Workers, Settle(w) PROVE HandoffInv'
  <2>1. /\ Done(w)
        /\ current[w] \in Events
        /\ UNCHANGED <<wire, core, queued>>
    BY <1>7 DEF Settle, external, HandoffInv, BusyHasEvent
  <2>2. PICK status \in {"delivered", "failed"}, timer \in {Retention, 0} :
          /\ Update(w, current[w], status, timer)
          /\ status = "delivered" => outcome[w] = "acknowledged"
    BY <1>7 DEF Settle
  <2>3. /\ \A f \in Events : Stored(f)' <=> Stored(f)
        /\ \A f \in Events : Status(f)' = "delivered" =>
             Status(f) = "delivered" \/ (f = current[w] /\ status = "delivered")
        /\ \A v \in Workers : batch'[v] \subseteq batch[v]
    BY <2>1, <2>2, UpdateEffect, TimingAssumption DEF HandoffInv, Statuses
  <2>4. status = "delivered" => current[w] \in core
    BY <2>2 DEF HandoffInv, AcknowledgedIsProcessed
  <2>5. \A f \in Events : Status(f)' = "delivered" => Status(f) = "delivered" \/ f \in core
    BY <2>3, <2>4
  <2> QED BY <1>a, <2>1, <2>3, <2>5, DoneEffect, QuietStep DEF HandoffInv
<1>8. ASSUME NEW w \in Workers, ReadAttempts(w) PROVE HandoffInv'
  <2>1. UNCHANGED <<outbox, wire, core, queued>>
    BY <1>8 DEF ReadAttempts, external
  <2>2. CASE Stored(current[w])
    <3>1. /\ pc' = [pc EXCEPT ![w] = "retrying"]
          /\ outcome[w] = "transient"
          /\ UNCHANGED <<batch, current, outcome>>
      BY <1>8, <2>2 DEF ReadAttempts
    <3>2. \A v \in Workers : outcome'[v] = "acknowledged" =>
            outcome[v] = "acknowledged" /\ UNCHANGED <<current[v], pc[v]>>
      BY <3>1 DEF HandoffInv, TypeOK
    <3> QED BY <1>a, <2>1, <3>1, <3>2, QuietStep DEF Stored, Status
  <2>3. CASE ~Stored(current[w])
    <3>1. Done(w) /\ batch' = [batch EXCEPT ![w] = {}]
      BY <1>8, <2>3 DEF ReadAttempts
    <3>2. \A v \in Workers : batch'[v] \subseteq batch[v]
      BY <3>1 DEF HandoffInv, TypeOK
    <3> QED BY <1>a, <2>1, <3>1, <3>2, DoneEffect, QuietStep DEF HandoffInv, Stored, Status
  <2> QED BY <2>2, <2>3
<1>9. ASSUME NEW w \in Workers, WriteRetry(w) PROVE HandoffInv'
  <2>1. /\ Done(w)
        /\ current[w] \in Events
        /\ UNCHANGED <<wire, core, queued>>
    BY <1>9 DEF WriteRetry, external, HandoffInv, BusyHasEvent
  <2>2. ~BudgetSpent(attemptsRead[w]) => Backoff(attemptsRead[w]) \in Nat
    BY TimingAssumption DEF HandoffInv, TypeOK, BudgetSpent
  <2>3. PICK status \in {"dead_letter", "retry"}, timer \in Nat :
          Update(w, current[w], status, timer)
    BY <1>9, <2>2 DEF WriteRetry
  <2>4. /\ \A f \in Events : Stored(f)' <=> Stored(f)
        /\ \A f \in Events : Status(f)' = "delivered" => Status(f) = "delivered"
        /\ \A v \in Workers : batch'[v] \subseteq batch[v]
    BY <2>1, <2>3, UpdateEffect DEF HandoffInv, Statuses
  <2> QED BY <1>a, <2>1, <2>4, DoneEffect, QuietStep DEF HandoffInv
<1>10. ASSUME NEW w \in Workers, NEW o \in {"acknowledged", "rejected", "transient"},
              Answer(w, o)
       PROVE  HandoffInv'
  BY <1>a, <1>10, AnswerKeeps
<1>11. ASSUME NEW w \in Workers, Interrupt(w) PROVE HandoffInv'
  <2>1. /\ Done(w)
        /\ batch' = [batch EXCEPT ![w] = {}]
        /\ UNCHANGED <<outbox, wire, core, queued>>
    BY <1>11 DEF Interrupt, external
  <2>2. \A v \in Workers : batch'[v] \subseteq batch[v]
    BY <2>1 DEF HandoffInv, TypeOK
  <2> QED BY <1>a, <2>1, <2>2, DoneEffect, QuietStep DEF HandoffInv, Stored, Status
<1>12. ASSUME NEW e \in Events, CoreProcesses(e) PROVE HandoffInv'
  <2>1. /\ wire' \subseteq wire
        /\ core \subseteq core'
        /\ UNCHANGED <<outbox, batch, current, pc, outcome, queued>>
    BY <1>12 DEF CoreProcesses, worker
  <2> QED BY <1>a, <2>1, QuietStep DEF Stored, Status
<1>13. CASE Tick
  <2>1. /\ outbox' = [e \in Events |-> [outbox[e] EXCEPT !.timer = Countdown(@)]]
        /\ UNCHANGED <<batch, current, pc, outcome, wire, core, queued>>
    BY <1>13 DEF Tick, external
  <2>2. \A f \in Events : outbox'[f].status = outbox[f].status
    BY <2>1 DEF HandoffInv, TypeOK, Delivery
  <2> QED BY <1>a, <2>1, <2>2, QuietStep DEF Stored, Status
<1> QED
  BY <1>1, <1>2, <1>3, <1>4, <1>5, <1>6, <1>7, <1>8, <1>9, <1>10, <1>11, <1>12, <1>13
  DEF Next, Untimed, Operator, WorkerStep, Answered, vars, worker, external,
      Bind, PutPolicy, DeleteConnection, LoseKey

\* The invariant holds of the empty outbox.
LEMMA InitHandoffInv == Init => HandoffInv
<1> SUFFICES ASSUME Init PROVE HandoffInv
  OBVIOUS
<1>1. TypeOK
  BY InitTypeOK
<1>2. \A e \in Events : ~Stored(e) /\ Status(e) # "delivered"
  BY DEF Init, Absent, Stored, Status
<1>3. OnlyQueuedCirculates
  BY <1>2 DEF Init, OnlyQueuedCirculates, InHand
<1> QED
  BY <1>1, <1>2, <1>3
  DEF Init, HandoffInv, BusyHasEvent, AcknowledgedIsProcessed, DeliveredIsProcessed, NoEventLost

\* HandoffInv holds in every reachable state.
THEOREM HandoffInvariant == Spec => []HandoffInv
BY InitHandoffInv, NextHandoffInv, PTL DEF Spec

\* The state is well typed, whatever the workers, the operator and Core do.
THEOREM TypeCorrect == Spec => []TypeOK
<1>1. HandoffInv => TypeOK
  BY DEF HandoffInv
<1> QED BY <1>1, HandoffInvariant, PTL

\* No acknowledged event is lost, for every number of workers and either store:
\* neither an unfenced write, nor pruning, nor a crash drops one Core lacks.
THEOREM AcknowledgedIsNotLost == Spec => []NoEventLost
<1>1. HandoffInv => NoEventLost
  BY DEF HandoffInv
<1> QED BY <1>1, HandoffInvariant, PTL

\* Delivered always means processed by Core.
THEOREM DeliveredMeansProcessed == Spec => []DeliveredIsProcessed
<1>1. HandoffInv => DeliveredIsProcessed
  BY DEF HandoffInv
<1> QED BY <1>1, HandoffInvariant, PTL

-----------------------------------------------------------------------------
(* The outbox implements the hand-off.                                     *)

\* Only the webhook stores, prunes or acknowledges; only Core processes.
LEMMA OtherStepsKeepHandoff ==
  ASSUME TypeOK, BusyHasEvent, [Next]_vars
  PROVE  \/ (\A f \in Events : Stored(f)' <=> Stored(f)) /\ UNCHANGED <<queued, core>>
         \/ \E m \in Messages : Ingest(m)
         \/ \E e \in Events : CoreProcesses(e)
<1> DEFINE Quiet == (\A f \in Events : Stored(f)' <=> Stored(f)) /\ UNCHANGED <<queued, core>>
<1>1. CASE UNCHANGED <<outbox, queued, core>>
  BY <1>1 DEF Stored
<1>2. ASSUME NEW w \in Workers, NEW e \in Events, NEW status \in Statuses, NEW timer \in Nat,
             Update(w, e, status, timer), UNCHANGED <<queued, core>>
      PROVE  Quiet
  BY <1>2, UpdateEffect
<1>3. ASSUME NEW e \in Events, Replay(e) PROVE Quiet
  BY <1>3 DEF Replay, Replayable, external, TypeOK, Stored, Status, Pending
<1>4. ASSUME NEW w \in Workers, ClaimDue(w) PROVE Quiet
  <2>1. PICK S \in Batches :
          outbox' = [e \in Events |-> IF e \in S THEN Claimed(outbox[e]) ELSE outbox[e]]
    BY <1>4 DEF ClaimDue
  <2>2. \A e \in S : Stored(e)
    BY <2>1 DEF Batches, Due, Abandoned, Stored, Status
  <2> QED BY <1>4, <2>1, <2>2 DEF ClaimDue, external, Stored, Claimed
<1>5. ASSUME NEW w \in Workers, NEW e \in Events, Refuse(w, e) PROVE Quiet
  BY <1>2, <1>5 DEF Refuse, external, Statuses
<1>6. ASSUME NEW w \in Workers, Settle(w) PROVE Quiet
  <2>1. current[w] \in Events
    BY <1>6 DEF Settle, BusyHasEvent
  <2>2. PICK status \in {"delivered", "failed"}, timer \in {Retention, 0} :
          Update(w, current[w], status, timer)
    BY <1>6 DEF Settle
  <2> QED BY <1>2, <1>6, <2>1, <2>2, TimingAssumption DEF Settle, external, Statuses
<1>7. ASSUME NEW w \in Workers, WriteRetry(w) PROVE Quiet
  <2>1. current[w] \in Events
    BY <1>7 DEF WriteRetry, BusyHasEvent
  <2>2. ~BudgetSpent(attemptsRead[w]) => Backoff(attemptsRead[w]) \in Nat
    BY TimingAssumption DEF TypeOK, BudgetSpent
  <2>3. PICK status \in {"dead_letter", "retry"}, timer \in Nat :
          Update(w, current[w], status, timer)
    BY <1>7, <2>2 DEF WriteRetry
  <2> QED BY <1>2, <1>7, <2>1, <2>3 DEF WriteRetry, external, Statuses
<1>8. CASE Tick
  <2>1. \A f \in Events : outbox'[f].status = outbox[f].status
    BY <1>8 DEF Tick, TypeOK, Delivery
  <2> QED BY <1>8, <2>1 DEF Tick, external, Stored
<1> QED
  BY <1>1, <1>3, <1>4, <1>5, <1>6, <1>7, <1>8
  DEF Next, Untimed, Operator, WorkerStep, Answered, vars, external,
      Bind, PutPolicy, DeleteConnection, LoseKey, Send, ReadAttempts, Answer, Interrupt

\* The outbox hands every event over as promised: it acknowledges an event only
\* by holding it, and lets go of none that Core has not processed.
THEOREM OutboxImplementsHandoff == Spec => ImplementsHandoff
<1> DEFINE held == {e \in Events : Stored(e)}
<1>1. Init => Handoff!Init
  BY DEF Init, Handoff!Init, Stored, Absent
<1>2. HandoffInv /\ [Next]_vars => [Handoff!Next]_(Handoff!vars)
  <2> SUFFICES ASSUME HandoffInv, [Next]_vars PROVE [Handoff!Next]_(Handoff!vars)
    OBVIOUS
  <2>1. CASE (\A f \in Events : Stored(f)' <=> Stored(f)) /\ UNCHANGED <<queued, core>>
    BY <2>1 DEF Handoff!vars
  <2>2. ASSUME NEW m \in Messages, Ingest(m) PROVE Handoff!Next
    <3>1. PICK e \in Events :
            /\ queued' = queued \cup {e}
            /\ core' = core
            /\ Stored(e)'
            /\ \A f \in Events :
                 /\ Stored(f)' => Stored(f) \/ f = e
                 /\ Stored(f) => Stored(f)' \/ Status(f) = "delivered"
      BY <2>2, IngestEffect DEF HandoffInv
    <3>2. \A f \in Events : Stored(f) => Stored(f)' \/ f \in core
      BY <3>1 DEF HandoffInv, DeliveredIsProcessed
    <3> DEFINE S == held \ held'
    <3>3. S \in SUBSET (held \cap core)
      BY <3>2
    <3>4. held' = (held \ S) \cup {e}
      BY <3>1
    <3>5. Handoff!Accept(e)
      BY <3>1, <3>3, <3>4 DEF Handoff!Accept
    <3> QED BY <3>5 DEF Handoff!Next
  <2>3. ASSUME NEW e \in Events, CoreProcesses(e) PROVE Handoff!Next
    <3>1. e \in queued
      BY <2>3 DEF CoreProcesses, HandoffInv, OnlyQueuedCirculates
    <3>2. Handoff!Process(e)
      BY <2>3, <3>1 DEF CoreProcesses, Handoff!Process, Stored
    <3> QED BY <3>2 DEF Handoff!Next
  <2> QED BY <2>1, <2>2, <2>3, OtherStepsKeepHandoff DEF HandoffInv
<1> QED BY <1>1, <1>2, HandoffInvariant, PTL DEF Spec, ImplementsHandoff, Handoff!Spec

-----------------------------------------------------------------------------
(* One writer.                                                             *)

\* A claim in hand is a stored delivery.
LEMMA InHandIsStored ==
  ASSUME SoleWriterInv, NEW w \in Workers, NEW e \in Events, e \in InHand(w)
  PROVE  Status(e) = "delivering" /\ Stored(e)
BY DEF SoleWriterInv, ClaimIsExclusive, Status, Stored

\* _update by the sole worker moves its own event on and nothing else.
LEMMA OwnUpdate ==
  ASSUME SoleWriterInv, NEW w \in Workers, NEW e \in Events, e \in InHand(w),
         NEW status \in Statuses, NEW timer \in Nat, Update(w, e, status, timer)
  PROVE  /\ Status(e)' = status
         /\ outbox'[e].attempts = outbox[e].attempts
         /\ \A f \in Events : f # e => outbox'[f] = outbox[f]
         /\ batch' = [batch EXCEPT ![w] = @ \ {e}]
<1>1. Stored(e)
  BY InHandIsStored
<1>2. /\ outbox' = [outbox EXCEPT ![e].status = status, ![e].timer = timer]
      /\ batch' = [batch EXCEPT ![w] = @ \ {e}]
  BY <1>1 DEF Update
<1> QED BY <1>2 DEF SoleWriterInv, TypeOK, Delivery, Status

\* Settling the current event leaves the worker idle, its batch in hand.
LEMMA OwnSettle ==
  ASSUME SoleWriterInv, \A v, w \in Workers : v = w, TypeOK', BusyHasEvent',
         NEW w \in Workers, pc[w] # "idle", Done(w),
         NEW status \in Statuses \ {"delivering"}, NEW timer \in Nat,
         Update(w, current[w], status, timer),
         status = "dead_letter" => outbox[current[w]].attempts >= MaxAttempts,
         status = "retry" => outbox[current[w]].attempts < MaxAttempts
  PROVE  SoleWriterInv'
<1>1. PICK e \in Events : e = current[w] /\ e \in InHand(w)
  BY NoneAssumption DEF SoleWriterInv, BusyHasEvent, InHand
<1>2. /\ Status(e)' = status
      /\ outbox'[e].attempts = outbox[e].attempts
      /\ \A f \in Events : f # e => outbox'[f] = outbox[f]
      /\ batch' = [batch EXCEPT ![w] = @ \ {e}]
  BY <1>1, OwnUpdate
<1>3. Workers = {w}
  OBVIOUS
<1>4. pc'[w] = "idle" /\ current'[w] = None
  BY DEF Done, SoleWriterInv, TypeOK
<1>5. batch'[w] = batch[w] /\ current'[w] \notin batch'[w]
  <2>1. e \notin batch[w]
    BY <1>1 DEF SoleWriterInv
  <2>2. batch'[w] = batch[w] \ {e} /\ batch[w] \subseteq Events
    BY <1>2 DEF SoleWriterInv, TypeOK
  <2> QED BY <1>4, <2>1, <2>2, NoneAssumption
<1>6. ClaimIsExclusive'
  BY <1>1, <1>2, <1>3, <1>4, <1>5 DEF ClaimIsExclusive, InHand, SoleWriterInv, TypeOK, Status
<1>7. RetryBudget'
  BY <1>1, <1>2 DEF RetryBudget, SoleWriterInv, Status
<1> QED BY <1>3, <1>4, <1>5, <1>6, <1>7 DEF SoleWriterInv

\* A sole worker keeps what it claimed to itself, through every step.
LEMMA NextSoleWriter ==
  ASSUME \A v, w \in Workers : v = w, SoleWriterInv, [Next]_vars
  PROVE  SoleWriterInv'
<1>a. TypeOK' /\ BusyHasEvent'
  BY NextTypeOK, NextBusy DEF SoleWriterInv
<1>b. ASSUME NEW w \in Workers PROVE Workers = {w}
  OBVIOUS
<1>1. CASE UNCHANGED <<outbox, batch, current, pc, attemptsRead>>
  BY <1>a, <1>1 DEF SoleWriterInv, ClaimIsExclusive, InHand, RetryBudget, Status
<1>2. ASSUME NEW e \in Events, Replay(e) PROVE SoleWriterInv'
  <2>1. /\ Status(e) # "delivering"
        /\ outbox' = [outbox EXCEPT ![e] = Pending]
        /\ UNCHANGED <<batch, current, pc, attemptsRead>>
    BY <1>2 DEF Replay, Replayable, worker
  <2>2. \A w \in Workers : e \notin InHand(w)
    BY <2>1, InHandIsStored
  <2>3. \A f \in Events : f # e => outbox'[f] = outbox[f]
    BY <2>1 DEF SoleWriterInv, TypeOK
  <2>4. outbox'[e].status = "pending"
    BY <2>1 DEF SoleWriterInv, TypeOK, Pending
  <2>5. ClaimIsExclusive'
    BY <2>1, <2>2, <2>3 DEF ClaimIsExclusive, InHand, Status, SoleWriterInv, TypeOK
  <2>6. RetryBudget'
    BY <2>3, <2>4 DEF RetryBudget, Status, SoleWriterInv
  <2>7. \A w \in Workers : pc'[w] = "retrying" => attemptsRead'[w] = outbox'[current'[w]].attempts
    <3> SUFFICES ASSUME NEW w \in Workers, pc[w] = "retrying"
                 PROVE  attemptsRead[w] = outbox'[current[w]].attempts
      BY <2>1
    <3>1. current[w] \in Events /\ current[w] # e
      BY <2>2, NoneAssumption DEF SoleWriterInv, BusyHasEvent, InHand
    <3> QED BY <2>3, <3>1 DEF SoleWriterInv
  <2> QED BY <1>a, <2>1, <2>5, <2>6, <2>7 DEF SoleWriterInv
<1>3. ASSUME NEW m \in Messages, Ingest(m) PROVE SoleWriterInv'
  <2>1. UNCHANGED <<batch, current, pc, attemptsRead>>
    BY <1>3 DEF Ingest, worker
  <2>2. \A f \in Events : outbox'[f] = outbox[f] \/ outbox'[f].status \in {"absent", "pending"}
    <3>1. PICK e \in Events : EnqueueJson(e) \/ EnqueuePostgres(e)
      BY <1>3 DEF Ingest, SoleWriterInv, TypeOK, Events
    <3> QED BY <3>1 DEF EnqueueJson, EnqueuePostgres, InsertAndPrune, Absent, Pending
  <2>3. \A f \in Events : Status(f) = "delivering" => outbox'[f] = outbox[f]
    <3>1. PICK e \in Events : EnqueueJson(e) \/ EnqueuePostgres(e)
      BY <1>3 DEF Ingest, SoleWriterInv, TypeOK, Events
    <3> QED BY <3>1 DEF EnqueueJson, EnqueuePostgres, InsertAndPrune, Stored, Expired, Status
  <2>4. ClaimIsExclusive'
    BY <2>1, <2>3 DEF ClaimIsExclusive, InHand, Status, SoleWriterInv, TypeOK
  <2>5. RetryBudget'
    BY <2>2 DEF RetryBudget, Status, SoleWriterInv
  <2>6. \A w \in Workers : pc'[w] = "retrying" => attemptsRead'[w] = outbox'[current'[w]].attempts
    <3> SUFFICES ASSUME NEW w \in Workers, pc[w] = "retrying"
                 PROVE  attemptsRead[w] = outbox'[current[w]].attempts
      BY <2>1
    <3>1. current[w] \in Events /\ current[w] \in InHand(w)
      BY NoneAssumption DEF SoleWriterInv, BusyHasEvent, InHand
    <3> QED BY <2>3, <3>1, InHandIsStored DEF SoleWriterInv
  <2> QED BY <1>a, <2>1, <2>4, <2>5, <2>6 DEF SoleWriterInv
<1>4. ASSUME NEW w \in Workers, ClaimDue(w) PROVE SoleWriterInv'
  <2>1. /\ pc[w] = "idle"
        /\ UNCHANGED <<current, pc, attemptsRead>>
    BY <1>4 DEF ClaimDue
  <2>2. PICK S \in Batches :
          /\ outbox' = [e \in Events |-> IF e \in S THEN Claimed(outbox[e]) ELSE outbox[e]]
          /\ batch' = [batch EXCEPT ![w] = S]
    BY <1>4 DEF ClaimDue
  <2>3. S \subseteq Events
    BY <2>2 DEF Batches, Due
  <2>4. batch'[w] = S /\ current'[w] = None
    BY <2>1, <2>2 DEF SoleWriterInv, TypeOK
  <2>5. ClaimIsExclusive'
    BY <1>b, <2>2, <2>3, <2>4 DEF ClaimIsExclusive, InHand, Status, Claimed
  <2>6. RetryBudget'
    BY <2>2 DEF RetryBudget, Status, Claimed, SoleWriterInv
  <2>7. current'[w] \notin batch'[w]
    BY <2>3, <2>4, NoneAssumption
  <2> QED BY <1>a, <1>b, <2>1, <2>4, <2>5, <2>6, <2>7 DEF SoleWriterInv
<1>5. ASSUME NEW w \in Workers, NEW e \in Events, Send(w, e) PROVE SoleWriterInv'
  <2>1. /\ pc[w] = "idle"
        /\ e \in batch[w]
        /\ batch' = [batch EXCEPT ![w] = @ \ {e}]
        /\ current' = [current EXCEPT ![w] = e]
        /\ pc' = [pc EXCEPT ![w] = "posting"]
        /\ UNCHANGED outbox
    BY <1>5 DEF Send
  <2>2. batch'[w] = batch[w] \ {e} /\ current'[w] = e /\ pc'[w] = "posting"
    BY <2>1 DEF SoleWriterInv, TypeOK
  <2>3. ClaimIsExclusive'
    BY <1>b, <2>1, <2>2 DEF ClaimIsExclusive, InHand, Status, SoleWriterInv
  <2>4. RetryBudget'
    BY <2>1 DEF RetryBudget, Status, SoleWriterInv
  <2> QED BY <1>a, <1>b, <2>2, <2>3, <2>4 DEF SoleWriterInv
<1>6. ASSUME NEW w \in Workers, NEW e \in Events, Refuse(w, e) PROVE SoleWriterInv'
  <2>1. /\ pc[w] = "idle"
        /\ e \in InHand(w)
        /\ Update(w, e, "failed", 0)
        /\ UNCHANGED <<current, pc, attemptsRead>>
    BY <1>6 DEF Refuse, InHand
  <2>2. /\ Status(e)' = "failed"
        /\ \A f \in Events : f # e => outbox'[f] = outbox[f]
        /\ batch' = [batch EXCEPT ![w] = @ \ {e}]
    BY <2>1, OwnUpdate DEF Statuses
  <2>3. batch'[w] = batch[w] \ {e} /\ current'[w] = None
    BY <2>1, <2>2 DEF SoleWriterInv, TypeOK
  <2>4. ClaimIsExclusive'
    BY <1>b, <2>2, <2>3 DEF ClaimIsExclusive, InHand, Status, SoleWriterInv, TypeOK
  <2>5. RetryBudget'
    BY <2>2 DEF RetryBudget, Status, SoleWriterInv
  <2> QED BY <1>a, <1>b, <2>1, <2>2, <2>3, <2>4, <2>5, NoneAssumption DEF SoleWriterInv, TypeOK
<1>7. ASSUME NEW w \in Workers, Settle(w) PROVE SoleWriterInv'
  <2>1. PICK status \in {"delivered", "failed"}, timer \in {Retention, 0} :
          Update(w, current[w], status, timer)
    BY <1>7 DEF Settle
  <2>2. pc[w] # "idle" /\ Done(w)
    BY <1>7 DEF Settle
  <2>3. status \in Statuses \ {"delivering", "dead_letter", "retry"} /\ timer \in Nat
    BY TimingAssumption DEF Statuses
  <2> QED BY <1>a, <2>1, <2>2, <2>3, OwnSettle
<1>8. ASSUME NEW w \in Workers, ReadAttempts(w) PROVE SoleWriterInv'
  <2>1. current[w] \in Events /\ current[w] \in InHand(w)
    BY <1>8, NoneAssumption DEF ReadAttempts, SoleWriterInv, BusyHasEvent, InHand
  <2>2. Stored(current[w])
    BY <2>1, InHandIsStored
  <2>3. /\ attemptsRead' = [attemptsRead EXCEPT ![w] = outbox[current[w]].attempts]
        /\ pc' = [pc EXCEPT ![w] = "retrying"]
        /\ UNCHANGED <<outbox, batch, current>>
    BY <1>8, <2>2 DEF ReadAttempts
  <2>4. pc'[w] = "retrying" /\ attemptsRead'[w] = outbox'[current'[w]].attempts
    BY <2>3 DEF SoleWriterInv, TypeOK
  <2>5. ClaimIsExclusive' /\ RetryBudget'
    BY <2>3 DEF SoleWriterInv, ClaimIsExclusive, RetryBudget, InHand, Status
  <2> QED BY <1>a, <1>b, <2>3, <2>4, <2>5 DEF SoleWriterInv
<1>9. ASSUME NEW w \in Workers, WriteRetry(w) PROVE SoleWriterInv'
  <2>1. attemptsRead[w] = outbox[current[w]].attempts /\ attemptsRead[w] \in Nat
    BY <1>9 DEF WriteRetry, SoleWriterInv, TypeOK
  <2>2. ~BudgetSpent(attemptsRead[w]) => Backoff(attemptsRead[w]) \in Nat
    BY <2>1, TimingAssumption DEF BudgetSpent
  <2>3. PICK status \in {"dead_letter", "retry"}, timer \in Nat :
          /\ Update(w, current[w], status, timer)
          /\ status = "dead_letter" => BudgetSpent(attemptsRead[w])
          /\ status = "retry" => ~BudgetSpent(attemptsRead[w])
    BY <1>9, <2>2 DEF WriteRetry
  <2>4. pc[w] # "idle" /\ Done(w)
    BY <1>9 DEF WriteRetry
  <2>5. status \in Statuses \ {"delivering"}
    BY DEF Statuses
  <2>6. /\ status = "dead_letter" => outbox[current[w]].attempts >= MaxAttempts
        /\ status = "retry" => outbox[current[w]].attempts < MaxAttempts
    BY <2>1, <2>3, TimingAssumption DEF BudgetSpent
  <2> QED BY <1>a, <2>3, <2>4, <2>5, <2>6, OwnSettle
<1>10. ASSUME NEW w \in Workers, NEW o \in {"acknowledged", "rejected", "transient"},
              Answer(w, o)
       PROVE  SoleWriterInv'
  <2>1. /\ pc[w] = "posting"
        /\ pc' = [pc EXCEPT ![w] = "settling"]
        /\ UNCHANGED <<outbox, batch, current, attemptsRead>>
    BY <1>10 DEF Answer
  <2>2. pc'[w] = "settling"
    BY <2>1 DEF SoleWriterInv, TypeOK
  <2>3. ClaimIsExclusive' /\ RetryBudget'
    BY <2>1 DEF SoleWriterInv, ClaimIsExclusive, RetryBudget, InHand, Status
  <2> QED BY <1>a, <1>b, <2>1, <2>2, <2>3 DEF SoleWriterInv
<1>11. ASSUME NEW w \in Workers, Interrupt(w) PROVE SoleWriterInv'
  <2>1. Done(w) /\ batch' = [batch EXCEPT ![w] = {}] /\ UNCHANGED outbox
    BY <1>11 DEF Interrupt
  <2>2. pc'[w] = "idle" /\ current'[w] = None /\ batch'[w] = {}
    BY <2>1 DEF Done, SoleWriterInv, TypeOK
  <2>3. ClaimIsExclusive' /\ RetryBudget'
    BY <1>b, <2>1, <2>2 DEF SoleWriterInv, ClaimIsExclusive, RetryBudget, InHand, Status
  <2> QED BY <1>a, <1>b, <2>2, <2>3 DEF SoleWriterInv
<1>12. CASE Tick
  <2>1. /\ outbox' = [e \in Events |-> [outbox[e] EXCEPT !.timer = Countdown(@)]]
        /\ UNCHANGED <<batch, current, pc, attemptsRead>>
    BY <1>12 DEF Tick
  <2>2. \A f \in Events : /\ outbox'[f].status = outbox[f].status
                          /\ outbox'[f].attempts = outbox[f].attempts
    BY <2>1 DEF SoleWriterInv, TypeOK, Delivery
  <2>3. ClaimIsExclusive'
    BY <2>1, <2>2 DEF SoleWriterInv, ClaimIsExclusive, InHand, Status, TypeOK
  <2>4. RetryBudget'
    BY <2>2 DEF SoleWriterInv, RetryBudget, Status
  <2>5. \A w \in Workers : pc'[w] = "retrying" => attemptsRead'[w] = outbox'[current'[w]].attempts
    BY <2>1, <2>2 DEF SoleWriterInv, BusyHasEvent
  <2> QED BY <1>a, <2>1, <2>3, <2>4, <2>5 DEF SoleWriterInv
<1> QED
  BY <1>1, <1>2, <1>3, <1>4, <1>5, <1>6, <1>7, <1>8, <1>9, <1>10, <1>11, <1>12
  DEF Next, Untimed, Operator, WorkerStep, Answered, vars, worker,
      Bind, PutPolicy, DeleteConnection, LoseKey, CoreProcesses

\* The sole-writer invariant holds of the empty outbox.
LEMMA InitSoleWriter == Init => SoleWriterInv
<1> SUFFICES ASSUME Init PROVE SoleWriterInv
  OBVIOUS
<1>1. TypeOK
  BY InitTypeOK
<1>2. ClaimIsExclusive /\ RetryBudget
  BY DEF Init, ClaimIsExclusive, RetryBudget, InHand, Status, Absent
<1> QED BY <1>1, <1>2 DEF Init, SoleWriterInv, BusyHasEvent

\* With one dispatcher worker, a claim is exclusive until it is settled or the
\* worker is interrupted, for every batch size, lease and timeout.
THEOREM SoleWriterOwnsItsClaims ==
  ASSUME \A v, w \in Workers : v = w
  PROVE  Spec => []ClaimIsExclusive
<1>1. SoleWriterInv /\ [Next]_vars => SoleWriterInv'
  BY NextSoleWriter
<1>2. SoleWriterInv => ClaimIsExclusive
  BY DEF SoleWriterInv
<1> QED BY <1>1, <1>2, InitSoleWriter, PTL DEF Spec

\* With one dispatcher worker, dead-lettering waits for the whole retry budget.
THEOREM SoleWriterHonoursBudget ==
  ASSUME \A v, w \in Workers : v = w
  PROVE  Spec => []RetryBudget
<1>1. SoleWriterInv /\ [Next]_vars => SoleWriterInv'
  BY NextSoleWriter
<1>2. SoleWriterInv => RetryBudget
  BY DEF SoleWriterInv
<1> QED BY <1>1, <1>2, InitSoleWriter, PTL DEF Spec

\* With one dispatcher worker, a delivered record is never reopened.
THEOREM SoleWriterNeverReopens ==
  ASSUME \A v, w \in Workers : v = w
  PROVE  Spec => DeliveredIsFinal
<1> DEFINE Final(e) == \/ outbox'[e].status \in {"delivered", "absent"}
                       \/ Expired(e) /\ outbox'[e] = Pending
<1>1. ASSUME SoleWriterInv, [Next]_vars, NEW e \in Events, Status(e) = "delivered"
      PROVE  Final(e)
  <2>1. CASE outbox'[e] = outbox[e]
    BY <1>1, <2>1 DEF Status
  <2>2. ASSUME NEW w \in Workers, NEW f \in Events, f \in InHand(w),
               NEW status \in Statuses, NEW timer \in Nat, Update(w, f, status, timer)
        PROVE  Final(e)
    <3>1. f # e
      BY <1>1, <2>2, InHandIsStored
    <3> QED BY <1>1, <2>1, <2>2, <3>1, OwnUpdate
  <2>3. ASSUME NEW f \in Events, Replay(f) PROVE Final(e)
    BY <1>1, <2>1, <2>3 DEF Replay, Replayable, SoleWriterInv, TypeOK, Status
  <2>4. ASSUME NEW m \in Messages, Ingest(m) PROVE Final(e)
    <3>1. PICK f \in Events : EnqueueJson(f) \/ EnqueuePostgres(f)
      BY <1>1, <2>4 DEF Ingest, SoleWriterInv, TypeOK, Events
    <3>2. outbox'[e] \in {outbox[e], Absent} \/ (Expired(e) /\ outbox'[e] = Pending)
      BY <1>1, <3>1 DEF EnqueueJson, EnqueuePostgres, InsertAndPrune, Stored, Expired, Status
    <3> QED BY <2>1, <3>2 DEF Absent
  <2>5. ASSUME NEW w \in Workers, ClaimDue(w) PROVE Final(e)
    <3>1. PICK S \in Batches :
            outbox' = [f \in Events |-> IF f \in S THEN Claimed(outbox[f]) ELSE outbox[f]]
      BY <2>5 DEF ClaimDue
    <3>2. e \notin S
      BY <1>1, <3>1 DEF Batches, Due, Abandoned
    <3> QED BY <2>1, <3>1, <3>2
  <2>6. ASSUME NEW w \in Workers, NEW f \in Events, Refuse(w, f) PROVE Final(e)
    BY <2>2, <2>6 DEF Refuse, InHand, Statuses
  <2>7. ASSUME NEW w \in Workers, pc[w] # "idle" PROVE current[w] \in Events /\ current[w] \in InHand(w)
    BY <1>1, <2>7, NoneAssumption DEF SoleWriterInv, BusyHasEvent, InHand
  <2>8. ASSUME NEW w \in Workers, Settle(w) PROVE Final(e)
    <3>1. PICK status \in {"delivered", "failed"}, timer \in {Retention, 0} :
            Update(w, current[w], status, timer)
      BY <2>8 DEF Settle
    <3> QED BY <2>2, <2>7, <2>8, <3>1, TimingAssumption DEF Settle, Statuses
  <2>9. ASSUME NEW w \in Workers, WriteRetry(w) PROVE Final(e)
    <3>1. ~BudgetSpent(attemptsRead[w]) => Backoff(attemptsRead[w]) \in Nat
      BY <1>1, TimingAssumption DEF SoleWriterInv, TypeOK, BudgetSpent
    <3>2. PICK status \in {"dead_letter", "retry"}, timer \in Nat :
            Update(w, current[w], status, timer)
      BY <2>9, <3>1 DEF WriteRetry
    <3> QED BY <2>2, <2>7, <2>9, <3>2 DEF WriteRetry, Statuses
  <2>10. CASE Tick
    BY <1>1, <2>10 DEF Tick, SoleWriterInv, TypeOK, Delivery, Status
  <2> QED
    BY <1>1, <2>1, <2>3, <2>4, <2>5, <2>6, <2>8, <2>9, <2>10
    DEF Next, Untimed, Operator, WorkerStep, Answered, vars, ReadAttempts, Answer, Send,
        Interrupt, Bind, PutPolicy, DeleteConnection, LoseKey, CoreProcesses
<1>2. SoleWriterInv /\ [Next]_vars => SoleWriterInv'
  BY NextSoleWriter
<1>3. SoleWriterInv /\ [Next]_vars =>
        [\A e \in Events : Status(e) = "delivered" => Final(e)]_vars
  BY <1>1
<1> QED BY <1>2, <1>3, InitSoleWriter, PTL DEF Spec, DeliveredIsFinal
=============================================================================
