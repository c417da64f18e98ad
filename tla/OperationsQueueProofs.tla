----------------------- MODULE OperationsQueueProofs -----------------------
(***************************************************************************)
(* Proofs about OperationsQueue, for every set of targets, any number of   *)
(* jobs, crashes and changes, any concurrency and lease.                   *)
(***************************************************************************)
EXTENDS OperationsQueue, SequenceTheorems, FiniteSetTheorems, TLAPS

\* Induction over the subsets of a finite set: a family that has a set whenever it
\* has all that are smaller has them all.
LEMMA FiniteSubsets ==
  ASSUME NEW S, IsFiniteSet(S), NEW F,
         \A U \in SUBSET S : (\A V \in SUBSET U : V # U => V \in F) => U \in F
  PROVE  S \in F
<1> DEFINE Missing == {U \in SUBSET S : U \notin F}
<1>1. SUFFICES ASSUME Missing # {} PROVE FALSE
  OBVIOUS
<1>2. FiniteSubsetsOf(S) = SUBSET S
  BY FS_FiniteSubsetsOfFinite
<1>3. IsWellFoundedOn(StrictSubsetOrdering(S), FiniteSubsetsOf(S))
  BY FS_StrictSubsetOrderingWellFounded
<1>4. PICK U \in Missing : \A V \in Missing : <<V, U>> \notin StrictSubsetOrdering(S)
  <2>1. Missing \subseteq FiniteSubsetsOf(S)
    BY <1>2
  <2> HIDE DEF Missing
  <2> QED BY <1>1, <1>3, <2>1, WFMin
<1> QED BY <1>4 DEF StrictSubsetOrdering

\* With at most one error for a target, the errors of a job are its failed targets.
LEMMA ErrorsAreFailures ==
  ASSUME NEW job, \A t \in Targets : job.results[t].bad \in {0, 1}
  PROVE  Errors(job) = Cardinality({t \in Targets : job.results[t].bad = 1})
<1> DEFINE bad(t) == job.results[t].bad
           Bad(U) == {t \in U : bad(t) = 1}
           One(U) == CHOOSE t \in U : TRUE
           Step(sum, U) == IF U = {} THEN 0 ELSE bad(One(U)) + sum[U \ {One(U)}]
           count == [U \in SUBSET Targets |-> Cardinality(Bad(U))]
           total == CHOOSE sum : sum = [U \in SUBSET Targets |-> Step(sum, U)]
<1>1. \A U \in SUBSET Targets : IsFiniteSet(U) /\ IsFiniteSet(Bad(U)) /\ Cardinality(Bad(U)) \in Nat
  BY OperationsAssumption, FS_Subset, FS_CardinalityType
<1>2. ASSUME NEW U \in SUBSET Targets, U # {}
      PROVE  count[U] = bad(One(U)) + count[U \ {One(U)}]
  <2> DEFINE t == One(U)
  <2>1. t \in U /\ t \in Targets /\ U \ {t} \in SUBSET Targets
    BY <1>2
  <2> SUFFICES count[U] = bad(t) + count[U \ {t}]
    OBVIOUS
  <2> HIDE DEF t
  <2>0. count[U] = Cardinality(Bad(U)) /\ count[U \ {t}] = Cardinality(Bad(U \ {t}))
    <3> HIDE DEF Bad
    <3> QED BY <2>1
  <2>2. CASE bad(t) = 1
    <3>1. Bad(U) \ {t} = Bad(U \ {t}) /\ t \in Bad(U)
      BY <2>1, <2>2
    <3>2. Cardinality(Bad(U \ {t})) = Cardinality(Bad(U)) - 1
      BY <1>1, <3>1, FS_RemoveElement
    <3> HIDE DEF count, Bad, bad
    <3> QED BY <1>1, <2>0, <2>2, <3>2
  <2>3. CASE bad(t) = 0
    <3>1. Bad(U) = Bad(U \ {t})
      BY <2>1, <2>3
    <3> HIDE DEF count, Bad, bad
    <3> QED BY <1>1, <2>0, <2>1, <2>3, <3>1
  <2> QED BY <2>1, <2>2, <2>3
<1>3. count[{}] = 0
  BY FS_EmptySet
<1>4. \A U \in SUBSET Targets : count[U] = Step(count, U)
  BY <1>2, <1>3
<1>5. count = [U \in SUBSET Targets |-> Step(count, U)]
  <2> HIDE DEF Step
  <2> QED BY <1>4
<1>6. total = [U \in SUBSET Targets |-> Step(total, U)]
  <2> HIDE DEF Step, count
  <2> QED BY <1>5
<1>7. \A U \in SUBSET Targets : total[U] = Step(total, U)
  <2> HIDE DEF total, Step
  <2> QED BY <1>6
<1> DEFINE Agreed == {U \in SUBSET Targets : total[U] = count[U]}
<1>8. ASSUME NEW U \in SUBSET Targets, \A V \in SUBSET U : V # U => V \in Agreed
      PROVE  U \in Agreed
  <2>1. CASE U = {}
    BY <1>3, <1>7, <2>1
  <2>2. CASE U # {}
    <3> DEFINE t == One(U)
    <3>1. t \in U /\ U \ {t} \in SUBSET U /\ U \ {t} # U
      BY <2>2
    <3>2. total[U \ {t}] = count[U \ {t}]
      <4> HIDE DEF t, total, count
      <4> QED BY <1>8, <3>1
    <3>3. total[U] = bad(t) + total[U \ {t}] /\ count[U] = bad(t) + count[U \ {t}]
      <4> HIDE DEF total, count, bad
      <4> QED BY <1>4, <1>7, <2>2
    <3> HIDE DEF t, total, count, bad
    <3> QED BY <3>2, <3>3
  <2> QED BY <2>1, <2>2
<1>9. total[Targets] = count[Targets]
  <2> HIDE DEF Agreed
  <2>1. Targets \in Agreed
    BY <1>8, OperationsAssumption, FiniteSubsets
  <2> QED BY <2>1 DEF Agreed
<1> QED BY <1>9 DEF Errors, MapThenSumSet, MapThenFoldSet

(* What a step writes is a job, at one place of the store.                 *)

\* A job replaced in the store: the rest is as it was.
LEMMA StoreJob ==
  ASSUME jobs \in Seq(Job), NEW k \in JobIds, NEW r \in Job,
         jobs' = [jobs EXCEPT ![k] = r]
  PROVE  /\ jobs' \in Seq(Job)
         /\ Len(jobs') = Len(jobs)
         /\ jobs'[k] = r
         /\ \A j \in JobIds : j # k => jobs'[j] = jobs[j]
BY ExceptSeq DEF JobIds

\* A job of the store is a job.
LEMMA IsJob ==
  ASSUME jobs \in Seq(Job), NEW j \in JobIds
  PROVE  jobs[j] \in Job
BY ElementOfSeq DEF JobIds

\* The targets written to by a step are those of jobs that exist.
LEMMA Touch ==
  ASSUME TypeOK, NEW t \in Targets,
         \/ UNCHANGED touched
         \/ claimed \in JobIds /\ touched' = [touched EXCEPT ![claimed] = @ \cup {t}]
  PROVE  touched' \in [JobIds -> SUBSET Targets]
BY DEF TypeOK

\* A new job is pending, untouched, at the end of the store.
LEMMA EnqueueEffect ==
  ASSUME TypeOK, NEW T \in SUBSET Targets \ {{}}, NEW p \in Policies, Enqueue(T, p)
  PROVE  /\ jobs' \in Seq(Job)
         /\ Len(jobs') = Len(jobs) + 1
         /\ \A j \in JobIds : jobs'[j] = jobs[j] /\ touched'[j] = touched[j]
         /\ jobs'[Len(jobs')] = NewJob(T, p)
         /\ touched'[Len(jobs')] = {}
         /\ touched' \in [1 .. Len(jobs') -> SUBSET Targets]
<1>1. NewJob(T, p) \in Job
  BY OperationsAssumption DEF NewJob, NoResults, Job, Count, Statuses
<1>2. jobs \in Seq(Job) /\ jobs' = Append(jobs, NewJob(T, p))
  BY DEF TypeOK, Enqueue
<1>3. touched \in Seq(SUBSET Targets) /\ Len(touched) = Len(jobs)
  <2>1. Len(jobs) \in Nat
    BY <1>2, LenProperties
  <2>2. touched \in [1 .. Len(jobs) -> SUBSET Targets]
    BY DEF TypeOK, JobIds
  <2>3. touched \in Seq(SUBSET Targets)
    BY <2>1, <2>2, SeqDef
  <2> QED BY <2>1, <2>2, <2>3, LenProperties
<1>4. touched' = Append(touched, {})
  BY DEF Enqueue
<1>5. /\ Append(touched, {}) \in Seq(SUBSET Targets)
      /\ Len(Append(touched, {})) = Len(touched) + 1
      /\ \A i \in 1 .. Len(touched) : Append(touched, {})[i] = touched[i]
      /\ Append(touched, {})[Len(touched) + 1] = {}
  BY <1>3, AppendProperties
<1>6. /\ jobs' \in Seq(Job)
      /\ Len(jobs') = Len(jobs) + 1
      /\ \A i \in 1 .. Len(jobs) : jobs'[i] = jobs[i]
      /\ jobs'[Len(jobs) + 1] = NewJob(T, p)
  BY <1>1, <1>2, AppendProperties
<1>7. touched' \in [1 .. Len(jobs') -> SUBSET Targets]
  BY <1>3, <1>4, <1>5, <1>6, LenProperties
<1> QED BY <1>3, <1>4, <1>5, <1>6, <1>7 DEF JobIds

\* Time touches nothing but the leases.
LEMMA TickEffect ==
  ASSUME TypeOK, Tick
  PROVE  /\ jobs' \in Seq(Job)
         /\ Len(jobs') = Len(jobs)
         /\ \A j \in JobIds : jobs'[j] = [jobs[j] EXCEPT !.lease = Countdown(@)]
<1>1. jobs \in Seq(Job) /\ Len(jobs) \in Nat
  BY LenProperties DEF TypeOK
<1>2. ASSUME NEW j \in JobIds PROVE [jobs[j] EXCEPT !.lease = Countdown(@)] \in Job
  <2>1. jobs[j] \in Job
    BY <1>1, IsJob
  <2>2. Countdown(jobs[j].lease) \in 0 .. LeaseTime
    BY <2>1, OperationsAssumption DEF Job, Countdown
  <2> QED BY <2>1, <2>2 DEF Job
<1>3. jobs' \in [1 .. Len(jobs) -> Job]
  BY <1>2 DEF Tick, JobIds
<1>4. jobs' \in Seq(Job)
  BY <1>1, <1>3, SeqDef
<1>5. Len(jobs') = Len(jobs)
  BY <1>1, <1>3, <1>4, LenProperties
<1> QED BY <1>4, <1>5 DEF Tick

-----------------------------------------------------------------------------
(* Every step keeps the invariant.                                         *)

\* Operators: a new job.
LEMMA EnqueueKeeps ==
  ASSUME QueueInv, NEW T \in SUBSET Targets \ {{}}, NEW p \in Policies, Enqueue(T, p)
  PROVE  QueueInv'
<1>1. /\ jobs' \in Seq(Job)
      /\ Len(jobs') = Len(jobs) + 1
      /\ \A j \in JobIds : jobs'[j] = jobs[j] /\ touched'[j] = touched[j]
      /\ jobs'[Len(jobs')] = NewJob(T, p)
      /\ touched'[Len(jobs')] = {}
      /\ touched' \in [1 .. Len(jobs') -> SUBSET Targets]
  BY EnqueueEffect DEF QueueInv
<1>2. UNCHANGED <<connections, phase, snapshot, claimed, task, attempt, crashes, changes>>
  BY DEF Enqueue, worker, bounds
<1>3. Len(jobs) \in Nat /\ JobIds' = JobIds \cup {Len(jobs')} /\ JobIds \subseteq JobIds'
  BY <1>1, LenProperties DEF QueueInv, TypeOK, JobIds
<1>4. TypeOK'
  BY <1>1, <1>2, <1>3 DEF QueueInv, TypeOK, JobIds
<1>5. /\ NewJob(T, p).status = "pending" /\ ~NewJob(T, p).cancel
      /\ NewJob(T, p).lease = 0
  BY DEF NewJob
<1>6. ClaimedIsRunning' /\ NoTargetSkipped'
  BY <1>1, <1>2, <1>3 DEF QueueInv, ClaimedIsRunning, NoTargetSkipped, HasResult
<1>7. UnclaimedIsUntouched' /\ RestingHasNoLease'
  BY <1>1, <1>3, <1>5 DEF QueueInv, UnclaimedIsUntouched, RestingHasNoLease
<1>8. EndedIsComplete' /\ CancellationHolds'
  BY <1>1, <1>3, <1>5 DEF QueueInv, EndedIsComplete, CancellationHolds, HasResult
<1> QED BY <1>4, <1>6, <1>7, <1>8 DEF QueueInv

\* What a cancellation writes.
LEMMA CancelWrites ==
  ASSUME QueueInv, NEW k \in JobIds, Cancel(k)
  PROVE  \E r \in Job :
        /\ jobs' = [jobs EXCEPT ![k] = r]
        /\ r.targets = jobs[k].targets /\ r.results = jobs[k].results /\ r.lease = jobs[k].lease
        /\ \/ jobs[k].status = "pending" /\ r.status = "cancelled" /\ r.cancel = jobs[k].cancel
           \/ jobs[k].status \in {"running", "retrying"} /\ r.status = jobs[k].status /\ r.cancel
<1>1. PICK r \in Job :
        /\ jobs' = [jobs EXCEPT ![k] = r]
        /\ r.targets = jobs[k].targets /\ r.results = jobs[k].results /\ r.lease = jobs[k].lease
        /\ \/ jobs[k].status = "pending" /\ r.status = "cancelled" /\ r.cancel = jobs[k].cancel
           \/ jobs[k].status \in {"running", "retrying"} /\ r.status = jobs[k].status /\ r.cancel
  <2>1. jobs[k] \in Job
    BY IsJob DEF QueueInv, TypeOK
  <2>2. [jobs[k] EXCEPT !.status = "cancelled"] \in Job
    BY <2>1 DEF Job, Statuses
  <2>3. [jobs[k] EXCEPT !.cancel = TRUE] \in Job
    BY <2>1 DEF Job
  <2> QED BY <2>1, <2>2, <2>3 DEF Cancel, Job
<1> QED BY <1>1

\* A cancellation withdraws a pending job and flags a running one.
LEMMA CancelKeeps ==
  ASSUME QueueInv, NEW k \in JobIds, Cancel(k)
  PROVE  QueueInv'
<1>1. PICK r \in Job :
        /\ jobs' = [jobs EXCEPT ![k] = r]
        /\ r.targets = jobs[k].targets /\ r.results = jobs[k].results /\ r.lease = jobs[k].lease
        /\ \/ jobs[k].status = "pending" /\ r.status = "cancelled" /\ r.cancel = jobs[k].cancel
           \/ jobs[k].status \in {"running", "retrying"} /\ r.status = jobs[k].status /\ r.cancel
  BY CancelWrites
<1>2. /\ jobs' \in Seq(Job) /\ Len(jobs') = Len(jobs) /\ jobs'[k] = r
      /\ \A j \in JobIds : j # k => jobs'[j] = jobs[j]
  BY <1>1, StoreJob DEF QueueInv, TypeOK
<1>3. UNCHANGED <<touched, connections, phase, snapshot, claimed, task, attempt, crashes, changes>>
  BY DEF Cancel, worker, bounds
<1>4. JobIds' = JobIds
  BY <1>2 DEF JobIds
<1>5. TypeOK'
  BY <1>2, <1>3, <1>4 DEF QueueInv, TypeOK
<1>6. ClaimedIsRunning' /\ NoTargetSkipped'
  BY <1>1, <1>2, <1>3, <1>4 DEF QueueInv, ClaimedIsRunning, NoTargetSkipped, HasResult
<1>7. UnclaimedIsUntouched' /\ RestingHasNoLease'
  BY <1>1, <1>2, <1>3, <1>4 DEF QueueInv, UnclaimedIsUntouched, RestingHasNoLease
<1>8. EndedIsComplete' /\ CancellationHolds'
  BY <1>1, <1>2, <1>3, <1>4
  DEF QueueInv, EndedIsComplete, CancellationHolds, HasResult, UnclaimedIsUntouched
<1> QED BY <1>5, <1>6, <1>7, <1>8 DEF QueueInv

\* Steps that leave the store, and what was touched, alone.
LEMMA QuietKeeps ==
  ASSUME QueueInv, TypeOK', UNCHANGED <<jobs, touched>>, ClaimedIsRunning',
         phase' = "running" =>
            /\ phase = "running" /\ claimed' = claimed
            /\ \A t \in Targets : task'[t] = "none" => task[t] = "none"
  PROVE  QueueInv'
<1>1. JobIds' = JobIds
  BY DEF JobIds
<1>2. NoTargetSkipped'
  <2> SUFFICES ASSUME phase' = "running", ~jobs[claimed].cancel,
                      NEW t \in jobs[claimed].targets, task'[t] = "none"
               PROVE  HasResult(claimed, t)
    BY DEF NoTargetSkipped, HasResult
  <2>1. claimed \in JobIds
    BY DEF QueueInv, ClaimedIsRunning
  <2>2. t \in Targets
    BY <2>1, IsJob DEF QueueInv, TypeOK, Job
  <2> QED BY <2>2 DEF QueueInv, NoTargetSkipped
<1>3. UnclaimedIsUntouched' /\ RestingHasNoLease'
  BY <1>1 DEF QueueInv, UnclaimedIsUntouched, RestingHasNoLease
<1>4. EndedIsComplete' /\ CancellationHolds'
  BY <1>1 DEF QueueInv, EndedIsComplete, CancellationHolds, HasResult
<1> QED BY <1>2, <1>3, <1>4 DEF QueueInv

\* What the claim of a job writes.
LEMMA ClaimWrites ==
  ASSUME QueueInv, NEW k \in JobIds, Claim(k)
  PROVE  \E r \in Job :
        /\ jobs' = [jobs EXCEPT ![k] = r]
        /\ r.targets = jobs[k].targets /\ r.results = jobs[k].results
        /\ r.cancel = jobs[k].cancel /\ r.status = "running"
<1>1. jobs[k] \in Job
  BY IsJob DEF QueueInv, TypeOK
<1>2. PICK r \in Job :
        /\ jobs' = [jobs EXCEPT ![k] = r]
        /\ r.targets = jobs[k].targets /\ r.results = jobs[k].results
        /\ r.cancel = jobs[k].cancel /\ r.status = "running"
  <2>1. LeaseTime \in 0 .. LeaseTime
    BY OperationsAssumption
  <2>2. [jobs[k] EXCEPT !.status = "running", !.lease = LeaseTime] \in Job
    BY <1>1, <2>1 DEF Job, Statuses
  <2>3. jobs \in [1 .. Len(jobs) -> Job] /\ k \in 1 .. Len(jobs)
    BY LenProperties DEF QueueInv, TypeOK, JobIds
  <2>4. jobs' = [jobs EXCEPT ![k] = [jobs[k] EXCEPT !.status = "running", !.lease = LeaseTime]]
    BY <2>3 DEF Claim
  <2> QED BY <1>1, <2>2, <2>4 DEF Job
<1> QED BY <1>2

\* The worker takes the oldest job: all its targets wait for their turn.
LEMMA ClaimKeeps ==
  ASSUME QueueInv, NEW k \in JobIds, Claim(k)
  PROVE  QueueInv'
<1>1. jobs[k] \in Job
  BY IsJob DEF QueueInv, TypeOK
<1>2. PICK r \in Job :
        /\ jobs' = [jobs EXCEPT ![k] = r]
        /\ r.targets = jobs[k].targets /\ r.results = jobs[k].results
        /\ r.cancel = jobs[k].cancel /\ r.status = "running"
  BY ClaimWrites
<1>3. /\ jobs' \in Seq(Job) /\ Len(jobs') = Len(jobs) /\ jobs'[k] = r
      /\ \A j \in JobIds : j # k => jobs'[j] = jobs[j]
  BY <1>2, StoreJob DEF QueueInv, TypeOK
<1>4. /\ UNCHANGED <<touched, connections, snapshot, attempt, crashes, changes>>
      /\ claimed' = k /\ phase' = "running"
      /\ task' = [t \in Targets |-> IF t \in jobs[k].targets THEN "waiting" ELSE "none"]
  BY DEF Claim, bounds
<1>5. JobIds' = JobIds /\ JobIds = 1 .. Len(jobs)
  BY <1>3 DEF JobIds
<1>6. TypeOK'
  <2>1. jobs' \in Seq(Job) /\ touched' \in [JobIds' -> SUBSET Targets] /\ claimed' \in 0 .. Len(jobs')
    BY <1>3, <1>4, <1>5, LenProperties DEF QueueInv, TypeOK
  <2> QED BY <1>4, <2>1 DEF QueueInv, TypeOK
<1>7. ClaimedIsRunning'
  BY <1>2, <1>3, <1>4, <1>5 DEF ClaimedIsRunning
<1>8. NoTargetSkipped'
  BY <1>1, <1>2, <1>3, <1>4 DEF NoTargetSkipped, Job
<1>9. jobs[k].status \in {"pending", "running"}
  BY DEF Claim, Selected, Claimable
<1>10. UnclaimedIsUntouched' /\ RestingHasNoLease'
  BY <1>2, <1>3, <1>4, <1>5 DEF QueueInv, UnclaimedIsUntouched, RestingHasNoLease
<1>11. EndedIsComplete' /\ CancellationHolds'
  BY <1>2, <1>3, <1>4, <1>5, <1>9 DEF QueueInv, EndedIsComplete, CancellationHolds, HasResult
<1> QED BY <1>6, <1>7, <1>8, <1>10, <1>11 DEF QueueInv

\* A target is at work only while the job it belongs to is being run.
LEMMA BusyIsRunning ==
  ASSUME QueueInv, NEW t \in Targets, task[t] # "none"
  PROVE  /\ phase = "running" /\ claimed \in JobIds
         /\ jobs[claimed].status \in {"running", "retrying"}
BY DEF QueueInv, ClaimedIsRunning

\* A target starts: the provider may be reached from here on.
LEMMA StartKeeps ==
  ASSUME QueueInv, NEW t \in Targets, Start(t)
  PROVE  QueueInv'
<1>1. /\ phase = "running" /\ claimed \in JobIds
      /\ jobs[claimed].status \in {"running", "retrying"}
  BY BusyIsRunning DEF Start
<1>2. /\ UNCHANGED <<jobs, connections, phase, snapshot, claimed, crashes, changes>>
      /\ task' = [task EXCEPT ![t] = "executing"]
      /\ attempt' = [attempt EXCEPT ![t] = 1]
      /\ touched' = touched \/ touched' = [touched EXCEPT ![claimed] = @ \cup {t}]
  BY DEF Start, bounds
<1>3. JobIds' = JobIds
  BY <1>2 DEF JobIds
<1>4. TypeOK'
  <2>1. touched' \in [JobIds -> SUBSET Targets]
    BY <1>1, <1>2, Touch DEF QueueInv
  <2>2. task' \in [Targets -> {"none", "waiting", "executing", "sleeping"}]
        /\ attempt' \in [Targets -> Nat]
    BY <1>2 DEF QueueInv, TypeOK
  <2> QED BY <1>2, <1>3, <2>1, <2>2 DEF QueueInv, TypeOK
<1>5. ClaimedIsRunning'
  BY <1>1, <1>2, <1>3 DEF ClaimedIsRunning
<1>6. NoTargetSkipped'
  <2>1. \A u \in Targets : task'[u] = "none" => task[u] = "none"
    BY <1>2 DEF QueueInv, TypeOK
  <2>2. jobs[claimed].targets \subseteq Targets
    BY <1>1, IsJob DEF QueueInv, TypeOK, Job
  <2> QED BY <1>1, <1>2, <2>1, <2>2 DEF QueueInv, NoTargetSkipped, HasResult
<1>7. \A j \in JobIds : j # claimed => touched'[j] = touched[j]
  BY <1>1, <1>2 DEF QueueInv, TypeOK
<1>8. UnclaimedIsUntouched' /\ RestingHasNoLease'
  BY <1>1, <1>2, <1>3, <1>7 DEF QueueInv, UnclaimedIsUntouched, RestingHasNoLease
<1>9. EndedIsComplete' /\ CancellationHolds'
  BY <1>1, <1>2, <1>3, <1>7 DEF QueueInv, EndedIsComplete, CancellationHolds, HasResult
<1> QED BY <1>4, <1>5, <1>6, <1>8, <1>9 DEF QueueInv

\* What the end of a target writes.
LEMMA FinishWrites ==
  ASSUME QueueInv, NEW t \in Targets, NEW ok \in BOOLEAN, Finish(t, ok), NEW k \in JobIds, k = claimed
  PROVE  \E r \in Job :
        /\ jobs' = [jobs EXCEPT ![k] = r]
        /\ r.targets = jobs[k].targets /\ r.status = jobs[k].status
        /\ r.cancel = jobs[k].cancel
        /\ \/ jobs[k].cancel
           \/ /\ r.results[t].ok + r.results[t].bad = jobs[k].results[t].ok + jobs[k].results[t].bad + 1
              /\ \A u \in Targets : u # t => r.results[u] = jobs[k].results[u]
<1>1. /\ phase = "running" /\ claimed \in JobIds
      /\ jobs[claimed].status \in {"running", "retrying"}
  BY BusyIsRunning DEF Finish
<1>2. k = claimed
  OBVIOUS
<1>3. jobs[k] \in Job
  BY IsJob DEF QueueInv, TypeOK
<1>5. PICK r \in Job :
        /\ jobs' = [jobs EXCEPT ![k] = r]
        /\ r.targets = jobs[k].targets /\ r.status = jobs[k].status
        /\ r.cancel = jobs[k].cancel
        /\ \/ jobs[k].cancel
           \/ /\ r.results[t].ok + r.results[t].bad = jobs[k].results[t].ok + jobs[k].results[t].bad + 1
              /\ \A u \in Targets : u # t => r.results[u] = jobs[k].results[u]
  <2>1. CASE jobs[k].cancel
    <3>1. jobs' = jobs
      BY <1>2, <2>1 DEF Finish, AppendResult
    <3>2. jobs' = [jobs EXCEPT ![k] = jobs[k]]
      <4>1. jobs \in [1 .. Len(jobs) -> Job] /\ k \in 1 .. Len(jobs)
        BY LenProperties DEF QueueInv, TypeOK, JobIds
      <4> QED BY <3>1, <4>1
    <3> QED BY <1>3, <2>1, <3>2
  <2>2. CASE ~jobs[k].cancel
    <3>1. PICK c \in Count :
            c = Counted(jobs[k].results[t], ok)
            /\ c.ok + c.bad = jobs[k].results[t].ok + jobs[k].results[t].bad + 1
      <4>1. PICK d \in Count : d = jobs[k].results[t]
        BY <1>3 DEF Job
      <4>2. CASE ok
        <5>1. [d EXCEPT !.ok = @ + 1] \in Count /\ d.ok + 1 + d.bad = d.ok + d.bad + 1
          BY DEF Count
        <5> QED BY <4>1, <4>2, <5>1 DEF Count, Counted
      <4>3. CASE ~ok
        <5>1. [d EXCEPT !.bad = @ + 1] \in Count /\ d.ok + (d.bad + 1) = d.ok + d.bad + 1
          BY DEF Count
        <5> QED BY <4>1, <4>3, <5>1 DEF Count, Counted
      <4> QED BY <4>2, <4>3
    <3>2. PICK r : r = [jobs[k] EXCEPT !.lease = LeaseTime, !.results = [@ EXCEPT ![t] = c]]
      OBVIOUS
    <3>3. LeaseTime \in 0 .. LeaseTime
      BY OperationsAssumption
    <3>4. r \in Job
      BY <1>3, <3>1, <3>2, <3>3 DEF Job
    <3>5. /\ r.targets = jobs[k].targets /\ r.status = jobs[k].status
          /\ r.results[t] = c
          /\ \A u \in Targets : u # t => r.results[u] = jobs[k].results[u]
      BY <1>3, <3>2 DEF Job
    <3>6. r.cancel = jobs[k].cancel
      BY <1>3, <3>2 DEF Job
    <3>7. jobs' = [jobs EXCEPT ![k] = r]
      <4>1. jobs \in [1 .. Len(jobs) -> Job] /\ k \in 1 .. Len(jobs)
        BY LenProperties DEF QueueInv, TypeOK, JobIds
      <4>2. jobs' = [jobs EXCEPT ![k].lease = LeaseTime,
                                 ![k].results[t] = Counted(@, ok)]
        BY <1>2, <2>2 DEF Finish, AppendResult
      <4>3. jobs' = [jobs EXCEPT ![k].lease = LeaseTime, ![k].results[t] = c]
        BY <1>3, <3>1, <4>1, <4>2 DEF Job
      <4> QED BY <3>2, <4>1, <4>3
    <3> QED BY <3>1, <3>4, <3>5, <3>6, <3>7
  <2> QED BY <2>1, <2>2
<1> QED BY <1>5

\* A result is recorded, unless the job's cancellation was asked.
LEMMA FinishKeeps ==
  ASSUME QueueInv, NEW t \in Targets, NEW ok \in BOOLEAN, Finish(t, ok)
  PROVE  QueueInv'
<1>1. /\ phase = "running" /\ claimed \in JobIds
      /\ jobs[claimed].status \in {"running", "retrying"}
  BY BusyIsRunning DEF Finish
<1>2. PICK k \in JobIds : k = claimed
  BY <1>1
<1>3. jobs[k] \in Job
  BY IsJob DEF QueueInv, TypeOK
<1>4. /\ UNCHANGED <<touched, connections, phase, snapshot, claimed, attempt, crashes, changes>>
      /\ task' = [task EXCEPT ![t] = "none"]
  BY DEF Finish, bounds
<1>5. PICK r \in Job :
        /\ jobs' = [jobs EXCEPT ![k] = r]
        /\ r.targets = jobs[k].targets /\ r.status = jobs[k].status
        /\ r.cancel = jobs[k].cancel
        /\ \/ jobs[k].cancel
           \/ /\ r.results[t].ok + r.results[t].bad = jobs[k].results[t].ok + jobs[k].results[t].bad + 1
              /\ \A u \in Targets : u # t => r.results[u] = jobs[k].results[u]
  BY <1>1, <1>2, FinishWrites
<1>6. /\ jobs' \in Seq(Job) /\ Len(jobs') = Len(jobs) /\ jobs'[k] = r
      /\ \A j \in JobIds : j # k => jobs'[j] = jobs[j]
  BY <1>5, StoreJob DEF QueueInv, TypeOK
<1>7. JobIds' = JobIds
  BY <1>6 DEF JobIds
<1>8. TypeOK'
  BY <1>4, <1>6, <1>7 DEF QueueInv, TypeOK
<1>9. ClaimedIsRunning'
  BY <1>1, <1>2, <1>4, <1>5, <1>6, <1>7 DEF ClaimedIsRunning
<1>10. NoTargetSkipped'
  <2> SUFFICES ASSUME ~r.cancel, NEW u \in r.targets, task'[u] = "none"
               PROVE  r.results[u].ok + r.results[u].bad > 0
    BY <1>2, <1>4, <1>6 DEF NoTargetSkipped, HasResult
  <2>1. u \in Targets /\ u \in jobs[k].targets
    BY <1>5 DEF Job
  <2>2. ~jobs[k].cancel
    BY <1>5
  <2>3. CASE u = t
    <3>1. jobs[k].results[t] \in Count
      BY <1>3 DEF Job
    <3> QED BY <1>5, <2>2, <2>3, <3>1 DEF Count
  <2>4. CASE u # t
    <3>1. task[u] = "none"
      BY <1>4, <2>1, <2>4 DEF QueueInv, TypeOK
    <3>2. HasResult(k, u)
      BY <1>1, <1>2, <2>1, <2>2, <3>1 DEF QueueInv, NoTargetSkipped
    <3> QED BY <1>5, <2>1, <2>2, <2>4, <3>2 DEF HasResult
  <2> QED BY <2>3, <2>4
<1>11. UnclaimedIsUntouched' /\ RestingHasNoLease'
  BY <1>1, <1>2, <1>4, <1>5, <1>6, <1>7 DEF QueueInv, UnclaimedIsUntouched, RestingHasNoLease
<1>12. EndedIsComplete' /\ CancellationHolds'
  BY <1>1, <1>2, <1>4, <1>5, <1>6, <1>7 DEF QueueInv, EndedIsComplete, CancellationHolds, HasResult
<1> QED BY <1>8, <1>9, <1>10, <1>11, <1>12 DEF QueueInv

\* What a failed attempt writes.
LEMMA FailedWrites ==
  ASSUME QueueInv, NEW t \in Targets, Failed(t), NEW k \in JobIds, k = claimed
  PROVE  \E r \in Job :
        /\ jobs' = [jobs EXCEPT ![k] = r]
        /\ r.targets = jobs[k].targets /\ r.results = jobs[k].results
        /\ r.status \in {"running", "retrying"} /\ r.cancel = jobs[k].cancel
<1>1. /\ phase = "running" /\ claimed \in JobIds
      /\ jobs[claimed].status \in {"running", "retrying"}
  BY BusyIsRunning DEF Failed
<1>2. k = claimed
  OBVIOUS
<1>3. jobs[k] \in Job /\ jobs \in [1 .. Len(jobs) -> Job] /\ k \in 1 .. Len(jobs)
  BY IsJob, LenProperties DEF QueueInv, TypeOK, JobIds
<1>5. PICK r \in Job :
        /\ jobs' = [jobs EXCEPT ![k] = r]
        /\ r.targets = jobs[k].targets /\ r.results = jobs[k].results
        /\ r.status \in {"running", "retrying"} /\ r.cancel = jobs[k].cancel
  <2>1. CASE jobs[k].cancel
    <3>1. jobs' = [jobs EXCEPT ![k] = jobs[k]]
      BY <1>2, <1>3, <2>1 DEF Failed
    <3> QED BY <1>1, <1>2, <1>3, <2>1, <3>1
  <2>2. CASE ~jobs[k].cancel
    <3>1. jobs' = [jobs EXCEPT ![k] = [jobs[k] EXCEPT !.status = "retrying"]]
      BY <1>2, <1>3, <2>2 DEF Failed
    <3>2. [jobs[k] EXCEPT !.status = "retrying"] \in Job
      BY <1>3 DEF Job, Statuses
    <3> QED BY <1>3, <3>1, <3>2 DEF Job
  <2> QED BY <2>1, <2>2
<1> QED BY <1>5

\* A failed attempt with another left: the job is retrying, or the target gives up
\* because the job's cancellation was asked.
LEMMA FailedKeeps ==
  ASSUME QueueInv, NEW t \in Targets, Failed(t)
  PROVE  QueueInv'
<1>1. /\ phase = "running" /\ claimed \in JobIds
      /\ jobs[claimed].status \in {"running", "retrying"}
  BY BusyIsRunning DEF Failed
<1>2. PICK k \in JobIds : k = claimed
  BY <1>1
<1>3. jobs[k] \in Job /\ jobs \in [1 .. Len(jobs) -> Job] /\ k \in 1 .. Len(jobs)
  BY IsJob, LenProperties DEF QueueInv, TypeOK, JobIds
<1>4. UNCHANGED <<touched, connections, phase, snapshot, claimed, crashes, changes>>
  BY DEF Failed, bounds
<1>5. PICK r \in Job :
        /\ jobs' = [jobs EXCEPT ![k] = r]
        /\ r.targets = jobs[k].targets /\ r.results = jobs[k].results
        /\ r.status \in {"running", "retrying"} /\ r.cancel = jobs[k].cancel
  BY <1>1, <1>2, FailedWrites
<1>6. /\ jobs' \in Seq(Job) /\ Len(jobs') = Len(jobs) /\ jobs'[k] = r
      /\ \A j \in JobIds : j # k => jobs'[j] = jobs[j]
  BY <1>5, StoreJob DEF QueueInv, TypeOK
<1>7. JobIds' = JobIds
  BY <1>6 DEF JobIds
<1>8. /\ task' \in [Targets -> {"none", "waiting", "executing", "sleeping"}]
      /\ attempt' \in [Targets -> Nat]
  <2>1. \/ task' = [task EXCEPT ![t] = "none"] /\ attempt' = attempt
        \/ /\ \E state \in {"sleeping", "executing"} : task' = [task EXCEPT ![t] = state]
           /\ attempt' = [attempt EXCEPT ![t] = @ + 1]
    <3>1. CASE jobs[claimed].cancel
      BY <3>1 DEF Failed
    <3>2. CASE ~jobs[claimed].cancel
      BY <3>2 DEF Failed
    <3> QED BY <3>1, <3>2
  <2> QED BY <2>1 DEF QueueInv, TypeOK
<1>9. TypeOK'
  BY <1>4, <1>6, <1>7, <1>8 DEF QueueInv, TypeOK
<1>10. ClaimedIsRunning'
  BY <1>1, <1>2, <1>4, <1>5, <1>6, <1>7 DEF ClaimedIsRunning
<1>11. NoTargetSkipped'
  <2> SUFFICES ASSUME ~r.cancel, NEW u \in r.targets, task'[u] = "none"
               PROVE  r.results[u].ok + r.results[u].bad > 0
    BY <1>2, <1>4, <1>6 DEF NoTargetSkipped, HasResult
  <2>1. u \in Targets /\ u \in jobs[k].targets
    BY <1>5 DEF Job
  <2>2. ~jobs[k].cancel
    BY <1>5
  <2>3. task' = [task EXCEPT ![t] = IF Backoff THEN "sleeping" ELSE "executing"]
    BY <1>2, <2>2 DEF Failed
  <2>4. task[u] = "none"
    BY <2>1, <2>3 DEF QueueInv, TypeOK
  <2>5. HasResult(k, u)
    BY <1>1, <1>2, <2>1, <2>2, <2>4 DEF QueueInv, NoTargetSkipped
  <2> QED BY <1>5, <2>5 DEF HasResult
<1>12. UnclaimedIsUntouched' /\ RestingHasNoLease'
  BY <1>1, <1>2, <1>4, <1>5, <1>6, <1>7 DEF QueueInv, UnclaimedIsUntouched, RestingHasNoLease
<1>13. EndedIsComplete' /\ CancellationHolds'
  BY <1>1, <1>2, <1>4, <1>5, <1>6, <1>7 DEF QueueInv, EndedIsComplete, CancellationHolds, HasResult
<1> QED BY <1>9, <1>10, <1>11, <1>12, <1>13 DEF QueueInv

\* What the last write of a run is.
LEMMA EndJobWrites ==
  ASSUME QueueInv, EndJob, NEW k \in JobIds, k = claimed
  PROVE  \E r \in Job :
           /\ jobs' = [jobs EXCEPT ![k] = r]
           /\ r.targets = jobs[k].targets /\ r.results = jobs[k].results
           /\ r.lease = 0 /\ r.status = Verdict(jobs[k]) /\ r.cancel = jobs[k].cancel
<1>1. jobs[k] \in Job /\ jobs \in [1 .. Len(jobs) -> Job] /\ k \in 1 .. Len(jobs)
  BY IsJob, LenProperties DEF QueueInv, TypeOK, JobIds
<1>2. 0 \in 0 .. LeaseTime
  BY OperationsAssumption
<1>3. PICK v \in Statuses : v = Verdict(jobs[k])
  BY DEF Verdict, Statuses
<1> DEFINE r == [jobs[k] EXCEPT !.status = v, !.lease = 0]
<1>4. r \in Job
  BY <1>1, <1>2 DEF Job
<1>5. jobs' = [jobs EXCEPT ![k].status = v, ![k].lease = 0]
  BY <1>3 DEF EndJob
<1>6. jobs' = [jobs EXCEPT ![k] = r]
  BY <1>1, <1>5
<1>7. r.targets = jobs[k].targets /\ r.results = jobs[k].results /\ r.lease = 0 /\ r.status = v
  BY <1>1 DEF Job
<1>8. r.cancel = jobs[k].cancel
  BY <1>1 DEF Job
<1> HIDE DEF r
<1> QED BY <1>3, <1>4, <1>6, <1>7, <1>8

\* The last write of a run.
LEMMA EndJobKeeps ==
  ASSUME QueueInv, EndJob
  PROVE  QueueInv'
<1>1. /\ phase = "running" /\ claimed \in JobIds
      /\ jobs[claimed].status \in {"running", "retrying"}
  BY DEF EndJob, QueueInv, ClaimedIsRunning
<1>2. PICK k \in JobIds : k = claimed
  BY <1>1
<1>3. jobs[k] \in Job /\ jobs \in [1 .. Len(jobs) -> Job] /\ k \in 1 .. Len(jobs)
  BY IsJob, LenProperties DEF QueueInv, TypeOK, JobIds
<1>4. /\ UNCHANGED <<touched, connections, task, crashes, changes>>
      /\ phase' = "listing" /\ snapshot' = {} /\ claimed' = 0
      /\ attempt' = [t \in Targets |-> 0]
  BY DEF EndJob, bounds
<1>5. \A t \in Targets : task[t] = "none"
  <2> SUFFICES ASSUME NEW t \in Targets PROVE task[t] = "none"
    OBVIOUS
  <2>1. task[t] \in {"none", "waiting", "executing", "sleeping"}
    BY DEF QueueInv, TypeOK
  <2>2. t \notin TargetsIn("waiting") /\ t \notin TargetsIn("executing")
        /\ t \notin TargetsIn("sleeping")
    BY DEF EndJob, Busy
  <2> QED BY <2>1, <2>2 DEF TargetsIn
<1>6. PICK v \in {"cancelled", "error", "completed"} :
        v = Verdict(jobs[k]) /\ (v = "cancelled" <=> jobs[k].cancel)
  <2>1. CASE jobs[k].cancel
    BY <2>1 DEF Verdict
  <2>2. CASE ~jobs[k].cancel
    BY <2>2 DEF Verdict
  <2> QED BY <2>1, <2>2
<1>7. PICK r \in Job :
        /\ jobs' = [jobs EXCEPT ![k] = r]
        /\ r.targets = jobs[k].targets /\ r.results = jobs[k].results
        /\ r.lease = 0 /\ r.status = v /\ r.cancel = jobs[k].cancel
  BY <1>2, <1>6, EndJobWrites
<1>8. /\ jobs' \in Seq(Job) /\ Len(jobs') = Len(jobs) /\ jobs'[k] = r
      /\ \A j \in JobIds : j # k => jobs'[j] = jobs[j]
  BY <1>7, StoreJob DEF QueueInv, TypeOK
<1>9. JobIds' = JobIds
  BY <1>8 DEF JobIds
<1>10. TypeOK'
  <2>1. claimed' \in 0 .. Len(jobs')
    BY <1>3, <1>4, <1>8
  <2> QED BY <1>4, <1>8, <1>9, <2>1 DEF QueueInv, TypeOK
<1>11. ClaimedIsRunning' /\ NoTargetSkipped'
  BY <1>4, <1>5 DEF ClaimedIsRunning, NoTargetSkipped
<1>12. UnclaimedIsUntouched' /\ RestingHasNoLease'
  BY <1>2, <1>4, <1>7, <1>8, <1>9 DEF QueueInv, UnclaimedIsUntouched, RestingHasNoLease
<1>13. EndedIsComplete'
  <2>1. v # "cancelled" => \A t \in r.targets : r.results[t].ok + r.results[t].bad > 0
    <3> SUFFICES ASSUME v # "cancelled", NEW t \in r.targets
                 PROVE  r.results[t].ok + r.results[t].bad > 0
      OBVIOUS
    <3>1. t \in Targets /\ t \in jobs[k].targets
      BY <1>7 DEF Job
    <3>2. HasResult(k, t)
      BY <1>1, <1>2, <1>5, <1>6, <3>1 DEF QueueInv, NoTargetSkipped
    <3> QED BY <1>7, <3>2 DEF HasResult
  <2> QED BY <1>7, <1>8, <1>9, <2>1 DEF QueueInv, EndedIsComplete, HasResult
<1>14. CancellationHolds'
  <2>1. v = "cancelled" <=> r.cancel
    BY <1>6, <1>7
  <2> QED BY <1>4, <1>7, <1>8, <1>9, <2>1 DEF QueueInv, CancellationHolds
<1> QED BY <1>10, <1>11, <1>12, <1>13, <1>14 DEF QueueInv

\* Time passes.
LEMMA TickKeeps ==
  ASSUME QueueInv, Tick
  PROVE  QueueInv'
<1>1. /\ jobs' \in Seq(Job)
      /\ Len(jobs') = Len(jobs)
      /\ \A j \in JobIds : jobs'[j] = [jobs[j] EXCEPT !.lease = Countdown(@)]
  BY TickEffect DEF QueueInv
<1>2. UNCHANGED <<touched, connections, phase, snapshot, claimed, task, attempt, crashes, changes>>
  BY DEF Tick, worker, bounds
<1>3. JobIds' = JobIds
  BY <1>1 DEF JobIds
<1>4. \A j \in JobIds : jobs[j] \in Job
  BY IsJob DEF QueueInv, TypeOK
<1>5. \A j \in JobIds :
        /\ jobs'[j].status = jobs[j].status /\ jobs'[j].targets = jobs[j].targets
        /\ jobs'[j].results = jobs[j].results /\ jobs'[j].lease = Countdown(jobs[j].lease)
  BY <1>1, <1>4 DEF Job
<1>6. \A j \in JobIds : jobs'[j].cancel = jobs[j].cancel
  BY <1>1, <1>4 DEF Job
<1>7. TypeOK'
  BY <1>1, <1>2, <1>3 DEF QueueInv, TypeOK
<1>8. ClaimedIsRunning' /\ NoTargetSkipped'
  BY <1>2, <1>3, <1>5, <1>6 DEF QueueInv, ClaimedIsRunning, NoTargetSkipped, HasResult
<1>9. UnclaimedIsUntouched' /\ RestingHasNoLease'
  BY <1>2, <1>3, <1>5, <1>6 DEF QueueInv, UnclaimedIsUntouched, RestingHasNoLease, Countdown
<1>10. EndedIsComplete' /\ CancellationHolds'
  BY <1>2, <1>3, <1>5, <1>6 DEF QueueInv, EndedIsComplete, CancellationHolds, HasResult
<1> QED BY <1>7, <1>8, <1>9, <1>10 DEF QueueInv

\* The steps that write nothing to the store.
LEMMA IdleStepKeeps ==
  ASSUME QueueInv,
         \/ ListConnections \/ NothingToClaim \/ Crash \/ Restart \/ ChangeConnections
         \/ \E t \in Targets : Wake(t)
         \/ UNCHANGED vars
  PROVE  QueueInv'
<1>1. UNCHANGED <<jobs, touched>> /\ JobIds' = JobIds
  BY DEF ListConnections, NothingToClaim, Crash, Restart, ChangeConnections, Wake, vars, JobIds
<1>2. TypeOK'
  <2>1. /\ crashes' \in 0 .. MaxCrashes /\ changes' \in 0 .. MaxChanges
        /\ phase' \in {"down", "listing", "claiming", "running"}
        /\ connections' \subseteq Targets /\ snapshot' \subseteq Targets
    BY OperationsAssumption
    DEF QueueInv, TypeOK, ListConnections, NothingToClaim, Crash, Restart,
        ChangeConnections, Wake, vars, worker, bounds
  <2>2. /\ claimed' \in 0 .. Len(jobs')
        /\ task' \in [Targets -> {"none", "waiting", "executing", "sleeping"}]
        /\ attempt' \in [Targets -> Nat]
    BY <1>1, LenProperties
    DEF QueueInv, TypeOK, ListConnections, NothingToClaim, Crash, Restart,
        ChangeConnections, Wake, vars, worker, bounds
  <2> QED BY <1>1, <2>1, <2>2 DEF QueueInv, TypeOK
<1>3. ClaimedIsRunning'
  BY <1>1
  DEF QueueInv, TypeOK, ClaimedIsRunning, ListConnections, NothingToClaim, Crash, Restart,
      ChangeConnections, Wake, vars, worker, bounds
<1>4. phase' = "running" =>
        /\ phase = "running" /\ claimed' = claimed
        /\ \A t \in Targets : task'[t] = "none" => task[t] = "none"
  BY DEF QueueInv, TypeOK, ListConnections, NothingToClaim, Crash, Restart,
         ChangeConnections, Wake, vars, worker, bounds
<1> QED BY <1>1, <1>2, <1>3, <1>4, QuietKeeps

\* No step breaks the invariant.
LEMMA NextQueueInv == QueueInv /\ [Next]_vars => QueueInv'
<1> SUFFICES ASSUME QueueInv, [Next]_vars PROVE QueueInv'
  OBVIOUS
<1>1. CASE Operator
  <2>1. ASSUME NEW j \in JobIds
        PROVE  jobs[j].targets \in SUBSET Targets \ {{}} /\ jobs[j].policy \in Policies
    BY IsJob DEF QueueInv, TypeOK, Job
  <2>2. CASE Create
    BY <2>2, EnqueueKeeps DEF Create
  <2>3. ASSUME NEW j \in JobIds, RetryJob(j) PROVE QueueInv'
    <3>1. PICK T \in SUBSET Targets \ {{}} : Enqueue(T, jobs[j].policy)
      BY <2>1, <2>3 DEF RetryJob, Failures
    <3> QED BY <2>1, <3>1, EnqueueKeeps
  <2>4. ASSUME NEW j \in JobIds, DuplicateJob(j) PROVE QueueInv'
    BY <2>1, <2>4, EnqueueKeeps DEF DuplicateJob
  <2>5. ASSUME NEW j \in JobIds, Cancel(j) PROVE QueueInv'
    BY <2>5, CancelKeeps
  <2> QED BY <1>1, <2>2, <2>3, <2>4, <2>5 DEF Operator
<1>2. CASE WorkerStep
  BY <1>2, IdleStepKeeps, ClaimKeeps, EndJobKeeps DEF WorkerStep
<1>3. ASSUME NEW t \in Targets, Start(t) \/ Ends(t) \/ Wake(t) PROVE QueueInv'
  BY <1>3, StartKeeps, FinishKeeps, FailedKeeps, IdleStepKeeps DEF Ends
<1>4. CASE Tick
  BY <1>4, TickKeeps
<1>5. CASE Crash \/ Restart \/ ChangeConnections \/ UNCHANGED vars
  BY <1>5, IdleStepKeeps
<1> QED BY <1>1, <1>2, <1>3, <1>4, <1>5 DEF Next

\* The empty queue satisfies the invariant.
LEMMA InitQueueInv == Init => QueueInv
<1> SUFFICES ASSUME Init PROVE QueueInv
  OBVIOUS
<1>1. jobs = <<>> /\ Len(jobs) = 0 /\ jobs \in Seq(Job) /\ JobIds = {}
  BY EmptySeq DEF Init, JobIds
<1>2. touched \in [JobIds -> SUBSET Targets]
  BY <1>1 DEF Init
<1>3. TypeOK
  BY <1>1, <1>2, OperationsAssumption DEF Init, Idle, TypeOK
<1>4. ClaimedIsRunning /\ NoTargetSkipped
  BY DEF Init, Idle, ClaimedIsRunning, NoTargetSkipped
<1> QED BY <1>1, <1>3, <1>4
  DEF QueueInv, UnclaimedIsUntouched, RestingHasNoLease, EndedIsComplete, CancellationHolds

\* The inductive invariant of the queue holds in every state it reaches.
THEOREM QueueInvariant == Spec => []QueueInv
BY InitQueueInv, NextQueueInv, PTL DEF Spec

\* The store and the worker stay well typed.
THEOREM QueueTypeCorrect == Spec => []TypeOK
<1>1. QueueInv => TypeOK
  BY DEF QueueInv
<1> QED BY <1>1, QueueInvariant, PTL

\* A cancellation that was accepted holds, wherever it met the job: before its claim,
\* in a call, in a backoff, before the last write, or across a crash.
THEOREM CancelledStaysCancelled == Spec => []CancellationHolds
<1>1. QueueInv => CancellationHolds
  BY DEF QueueInv
<1> QED BY <1>1, QueueInvariant, PTL

\* A job that ended by itself has an outcome for each of its targets.
THEOREM EndedHasEveryOutcome == Spec => []EndedIsComplete
<1>1. QueueInv => EndedIsComplete
  BY DEF QueueInv
<1> QED BY <1>1, QueueInvariant, PTL

-----------------------------------------------------------------------------
(* The verdict of a job that no crash disturbed.                           *)

Outcomes(j, t) == jobs[j].results[t].ok + jobs[j].results[t].bad
Told(j) ==
  /\ \A t \in jobs[j].targets : Outcomes(j, t) = 1
  /\ jobs[j].status = "error" <=> \A t \in jobs[j].targets : jobs[j].results[t].ok = 0

\* Without a crash the worker alone has a job in progress; each of its targets is at
\* work or has its one result, and nothing else has any.
OneRun(j) ==
  /\ phase = "running" /\ claimed = j
  /\ ~jobs[j].cancel =>
       \A t \in Targets :
         /\ task[t] # "none" => t \in jobs[j].targets
         /\ Outcomes(j, t) = IF t \in jobs[j].targets /\ task[t] = "none" THEN 1 ELSE 0
Accounted(j) ==
  /\ jobs[j].status = "pending" => \A t \in Targets : Outcomes(j, t) = 0
  /\ jobs[j].status \in {"running", "retrying"} => OneRun(j)
  /\ jobs[j].status \in {"completed", "error"} => Told(j)
CountInv == crashes = 0 => \A j \in JobIds : Accounted(j)

\* A step that touches one job, or none, and no other's worker.
LEMMA OthersAccounted ==
  ASSUME QueueInv, QueueInv', CountInv, crashes' = crashes, NEW k,
         JobIds \subseteq JobIds',
         \A j \in JobIds : j # k => jobs'[j] = jobs[j],
         \/ phase = "running" /\ claimed = k
         \/ UNCHANGED <<phase, claimed, task>>
         \/ phase # "running" /\ (phase' = "running" => claimed' = k)
         \/ UNCHANGED <<phase, claimed>> /\ \A t \in Targets : task'[t] = "none" <=> task[t] = "none"
  PROVE  crashes' = 0 => \A j \in JobIds : j # k => Accounted(j)'
<1> SUFFICES ASSUME crashes' = 0, NEW j \in JobIds, j # k
             PROVE  Accounted(j)'
  OBVIOUS
<1>1. Accounted(j) /\ jobs'[j] = jobs[j] /\ jobs[j] \in Job
  BY IsJob DEF CountInv, QueueInv, TypeOK
<1>2. CASE jobs[j].status \notin {"running", "retrying"}
  BY <1>1, <1>2 DEF Accounted, Told, Outcomes
<1>3. CASE jobs[j].status \in {"running", "retrying"}
  <2>1. OneRun(j)
    BY <1>1, <1>3 DEF Accounted
  <2>2. OneRun(j)'
    BY <1>1, <2>1 DEF OneRun, Outcomes
  <2> QED BY <1>1, <1>3, <2>2 DEF Accounted, Statuses, Job
<1> QED BY <1>2, <1>3

\* A new job has no outcome and nothing to say of one.
LEMMA EnqueueCounts ==
  ASSUME QueueInv, QueueInv', CountInv, NEW T \in SUBSET Targets \ {{}}, NEW p \in Policies, Enqueue(T, p)
  PROVE  CountInv'
<1> DEFINE k == Len(jobs')
<1>1. /\ Len(jobs') = Len(jobs) + 1 /\ jobs'[k] = NewJob(T, p)
      /\ \A j \in JobIds : jobs'[j] = jobs[j]
  BY EnqueueEffect DEF QueueInv
<1>2. Len(jobs) \in Nat
  BY LenProperties DEF QueueInv, TypeOK
<1>3. JobIds' = JobIds \cup {k} /\ k \notin JobIds
  BY <1>1, <1>2 DEF JobIds
<1>4. UNCHANGED <<phase, claimed, task, crashes>>
  BY DEF Enqueue, worker, bounds
<1>5. ASSUME NEW i, i = k PROVE Accounted(i)'
  BY <1>1, <1>5 DEF Accounted, NewJob, NoResults, Outcomes
<1> HIDE DEF k
<1>6. crashes' = 0 => \A j \in JobIds : j # k => Accounted(j)'
  BY <1>1, <1>3, <1>4, OthersAccounted
<1> QED BY <1>3, <1>5, <1>6 DEF CountInv

\* A cancellation touches no result; of a pending job it ends what no one has begun.
LEMMA CancelCounts ==
  ASSUME QueueInv, QueueInv', CountInv, NEW k \in JobIds, Cancel(k)
  PROVE  CountInv'
<1>1. PICK r \in Job :
        /\ jobs' = [jobs EXCEPT ![k] = r]
        /\ r.targets = jobs[k].targets /\ r.results = jobs[k].results
        /\ \/ jobs[k].status = "pending" /\ r.status = "cancelled"
           \/ jobs[k].status \in {"running", "retrying"} /\ r.status = jobs[k].status /\ r.cancel
  BY CancelWrites
<1>2. /\ Len(jobs') = Len(jobs) /\ jobs'[k] = r
      /\ \A j \in JobIds : j # k => jobs'[j] = jobs[j]
  BY <1>1, StoreJob DEF QueueInv, TypeOK
<1>3. JobIds' = JobIds /\ UNCHANGED <<phase, claimed, task, crashes>>
  BY <1>2 DEF JobIds, Cancel, worker, bounds
<1>4. crashes' = 0 => Accounted(k)'
  BY <1>1, <1>2, <1>3 DEF CountInv, Accounted, OneRun
<1>5. crashes' = 0 => \A j \in JobIds : j # k => Accounted(j)'
  BY <1>2, <1>3, OthersAccounted
<1> QED BY <1>3, <1>4, <1>5 DEF CountInv

\* A claim puts every target to work, once.
LEMMA ClaimCounts ==
  ASSUME QueueInv, QueueInv', CountInv, NEW k \in JobIds, Claim(k)
  PROVE  CountInv'
<1>1. PICK r \in Job :
        /\ jobs' = [jobs EXCEPT ![k] = r]
        /\ r.targets = jobs[k].targets /\ r.results = jobs[k].results
        /\ r.cancel = jobs[k].cancel /\ r.status = "running"
  BY ClaimWrites
<1>2. /\ Len(jobs') = Len(jobs) /\ jobs'[k] = r
      /\ \A j \in JobIds : j # k => jobs'[j] = jobs[j]
  BY <1>1, StoreJob DEF QueueInv, TypeOK
<1>3. /\ JobIds' = JobIds /\ crashes' = crashes
      /\ phase = "claiming" /\ phase' = "running" /\ claimed' = k
      /\ task' = [t \in Targets |-> IF t \in r.targets THEN "waiting" ELSE "none"]
  BY <1>1, <1>2 DEF JobIds, Claim, bounds
<1>4. crashes' = 0 => Accounted(k)'
  <2> SUFFICES ASSUME crashes' = 0 PROVE Accounted(k)'
    OBVIOUS
  <2>1. jobs[k].status = "pending"
    BY <1>3 DEF Claim, Selected, Claimable, CountInv, Accounted, OneRun
  <2>2. \A t \in Targets : Outcomes(k, t)' = 0
    BY <1>1, <1>2, <1>3, <2>1 DEF CountInv, Accounted, Outcomes
  <2>3. OneRun(k)'
    BY <1>2, <1>3, <2>2 DEF OneRun
  <2> QED BY <1>1, <1>2, <2>3 DEF Accounted
<1>5. crashes' = 0 => \A j \in JobIds : j # k => Accounted(j)'
  BY <1>2, <1>3, OthersAccounted
<1> QED BY <1>3, <1>4, <1>5 DEF CountInv

\* A target that is at work begins another attempt.
LEMMA TurnCounts ==
  ASSUME QueueInv, QueueInv', CountInv, NEW t \in Targets, Start(t) \/ Wake(t)
  PROVE  CountInv'
<1>1. /\ UNCHANGED <<jobs, phase, claimed, crashes>> /\ JobIds' = JobIds
      /\ task[t] \in {"waiting", "sleeping"} /\ task' = [task EXCEPT ![t] = "executing"]
  BY DEF Start, Wake, bounds, JobIds
<1>2. \A u \in Targets : task'[u] = "none" <=> task[u] = "none"
  BY <1>1 DEF QueueInv, TypeOK
<1>3. phase = "running" /\ claimed \in JobIds
  BY <1>1, BusyIsRunning
<1>4. crashes' = 0 => \A j \in JobIds : j # 0 => Accounted(j)'
  BY <1>1, <1>2, OthersAccounted
<1>5. \A j \in JobIds : j # 0
  BY DEF JobIds
<1> QED BY <1>1, <1>4, <1>5 DEF CountInv

\* The first outcome of a target moves it from the running to the counted.
LEMMA FinishCounts ==
  ASSUME QueueInv, QueueInv', CountInv, NEW t \in Targets, NEW ok \in BOOLEAN, Finish(t, ok)
  PROVE  CountInv'
<1>1. /\ phase = "running" /\ claimed \in JobIds
      /\ jobs[claimed].status \in {"running", "retrying"}
  BY BusyIsRunning DEF Finish
<1>2. PICK k \in JobIds : k = claimed
  BY <1>1
<1>3. PICK r \in Job :
        /\ jobs' = [jobs EXCEPT ![k] = r]
        /\ r.targets = jobs[k].targets /\ r.status = jobs[k].status
        /\ r.cancel = jobs[k].cancel
        /\ \/ jobs[k].cancel
           \/ /\ r.results[t].ok + r.results[t].bad = jobs[k].results[t].ok + jobs[k].results[t].bad + 1
              /\ \A u \in Targets : u # t => r.results[u] = jobs[k].results[u]
  BY <1>2, FinishWrites
<1>4. /\ Len(jobs') = Len(jobs) /\ jobs'[k] = r
      /\ \A j \in JobIds : j # k => jobs'[j] = jobs[j]
  BY <1>3, StoreJob DEF QueueInv, TypeOK
<1>5. /\ JobIds' = JobIds /\ UNCHANGED <<phase, claimed, crashes>>
      /\ task[t] = "executing" /\ task' = [task EXCEPT ![t] = "none"] /\ DOMAIN task = Targets
  BY <1>4 DEF JobIds, Finish, bounds, QueueInv, TypeOK
<1>6. crashes' = 0 => Accounted(k)'
  <2> SUFFICES ASSUME crashes' = 0 PROVE Accounted(k)'
    OBVIOUS
  <2>1. OneRun(k)
    BY <1>1, <1>2, <1>5 DEF CountInv, Accounted
  <2>2. ASSUME ~r.cancel, NEW u \in Targets
        PROVE  /\ task'[u] # "none" => u \in r.targets
               /\ Outcomes(k, u)' = IF u \in r.targets /\ task'[u] = "none" THEN 1 ELSE 0
    <3>1. ~jobs[k].cancel
      BY <1>3, <2>2
    <3>2. CASE u = t
      BY <1>3, <1>4, <1>5, <2>1, <3>1, <3>2 DEF OneRun, Outcomes
    <3>3. CASE u # t
      BY <1>3, <1>4, <1>5, <2>1, <3>1, <3>3 DEF OneRun, Outcomes
    <3> QED BY <3>2, <3>3
  <2>3. OneRun(k)'
    BY <1>4, <1>5, <2>1, <2>2 DEF OneRun
  <2> QED BY <1>1, <1>2, <1>3, <1>4, <2>3 DEF Accounted
<1>7. crashes' = 0 => \A j \in JobIds : j # k => Accounted(j)'
  BY <1>1, <1>2, <1>4, <1>5, OthersAccounted
<1> QED BY <1>5, <1>6, <1>7 DEF CountInv

\* A failed attempt that will be made again leaves the results as they are.
LEMMA FailedCounts ==
  ASSUME QueueInv, QueueInv', CountInv, NEW t \in Targets, Failed(t)
  PROVE  CountInv'
<1>1. /\ phase = "running" /\ claimed \in JobIds
      /\ jobs[claimed].status \in {"running", "retrying"}
  BY BusyIsRunning DEF Failed
<1>2. PICK k \in JobIds : k = claimed
  BY <1>1
<1>3. PICK r \in Job :
        /\ jobs' = [jobs EXCEPT ![k] = r]
        /\ r.targets = jobs[k].targets /\ r.results = jobs[k].results
        /\ r.status \in {"running", "retrying"} /\ r.cancel = jobs[k].cancel
  BY <1>2, FailedWrites
<1>4. /\ Len(jobs') = Len(jobs) /\ jobs'[k] = r
      /\ \A j \in JobIds : j # k => jobs'[j] = jobs[j]
  BY <1>3, StoreJob DEF QueueInv, TypeOK
<1>5. JobIds' = JobIds /\ UNCHANGED <<phase, claimed, crashes>>
  BY <1>4 DEF JobIds, Failed, bounds
<1>6. ~jobs[k].cancel => \A u \in Targets : task'[u] = "none" <=> task[u] = "none"
  BY <1>2 DEF Failed, QueueInv, TypeOK
<1>7. crashes' = 0 => Accounted(k)'
  <2> SUFFICES ASSUME crashes' = 0 PROVE Accounted(k)'
    OBVIOUS
  <2>1. OneRun(k)
    BY <1>1, <1>2, <1>5 DEF CountInv, Accounted
  <2>2. OneRun(k)'
    BY <1>3, <1>4, <1>5, <1>6, <2>1 DEF OneRun, Outcomes
  <2> QED BY <1>3, <1>4, <2>2 DEF Accounted
<1>8. crashes' = 0 => \A j \in JobIds : j # k => Accounted(j)'
  BY <1>1, <1>2, <1>4, <1>5, OthersAccounted
<1> QED BY <1>5, <1>7, <1>8 DEF CountInv

\* The verdict counts what each target came to.
LEMMA EndJobCounts ==
  ASSUME QueueInv, QueueInv', CountInv, EndJob
  PROVE  CountInv'
<1>1. /\ phase = "running" /\ claimed \in JobIds
      /\ jobs[claimed].status \in {"running", "retrying"}
  BY DEF EndJob, QueueInv, ClaimedIsRunning
<1>2. PICK k \in JobIds : k = claimed
  BY <1>1
<1>3. PICK r \in Job :
        /\ jobs' = [jobs EXCEPT ![k] = r]
        /\ r.targets = jobs[k].targets /\ r.results = jobs[k].results
        /\ r.lease = 0 /\ r.status = Verdict(jobs[k]) /\ r.cancel = jobs[k].cancel
  BY <1>2, EndJobWrites
<1>4. /\ Len(jobs') = Len(jobs) /\ jobs'[k] = r
      /\ \A j \in JobIds : j # k => jobs'[j] = jobs[j]
  BY <1>3, StoreJob DEF QueueInv, TypeOK
<1>5. JobIds' = JobIds /\ crashes' = crashes
  BY <1>4 DEF JobIds, EndJob, bounds
<1>6. \A t \in Targets : task[t] = "none"
  BY DEF EndJob, Busy, TargetsIn, QueueInv, TypeOK
<1>7. jobs[k] \in Job
  BY IsJob DEF QueueInv, TypeOK
<1>8. crashes' = 0 => Accounted(k)'
  <2> SUFFICES ASSUME crashes' = 0 PROVE Accounted(k)'
    OBVIOUS
  <2>1. CASE r.cancel
    BY <1>3, <1>4, <2>1 DEF Accounted, Verdict
  <2>2. CASE ~r.cancel
    <3> DEFINE job == jobs[k]
               Failing == {t \in Targets : job.results[t].bad = 1}
    <3>1. ~job.cancel
      BY <1>3, <2>2
    <3>2. \A t \in Targets : job.results[t] \in Count
      BY <1>7 DEF Job
    <3>3. \A t \in Targets : Outcomes(k, t) = IF t \in job.targets THEN 1 ELSE 0
      BY <1>1, <1>2, <1>5, <1>6, <3>1 DEF CountInv, Accounted, OneRun
    <3>4. \A t \in Targets : /\ job.results[t].bad \in {0, 1}
                             /\ job.results[t].bad = 1 => t \in job.targets
                             /\ t \in job.targets => (job.results[t].bad = 1 <=> job.results[t].ok = 0)
      BY <3>2, <3>3 DEF Outcomes, Count
    <3>5. Errors(job) = Cardinality(Failing)
      <4> HIDE DEF job
      <4> QED BY <3>4, ErrorsAreFailures
    <3>6. job.targets \in SUBSET Targets /\ Failing \in SUBSET job.targets
      BY <1>7, <3>4 DEF Job
    <3>7. IsFiniteSet(job.targets)
      BY <3>6, OperationsAssumption, FS_Subset
    <3>8. Errors(job) = Cardinality(job.targets) <=> Failing = job.targets
      BY <3>5, <3>6, <3>7, FS_Subset
    <3>9. r.status = "error" <=> \A t \in job.targets : job.results[t].ok = 0
      BY <1>3, <3>1, <3>4, <3>6, <3>8 DEF Verdict
    <3>10. r.status \in {"completed", "error"}
      BY <1>3, <3>1 DEF Verdict
    <3>11. \A t \in job.targets : Outcomes(k, t) = 1
      BY <3>3, <3>6
    <3>12. Told(k)'
      BY <1>3, <1>4, <3>9, <3>11 DEF Told, Outcomes
    <3> QED BY <1>4, <3>10, <3>12 DEF Accounted
  <2> QED BY <2>1, <2>2
<1>9. crashes' = 0 => \A j \in JobIds : j # k => Accounted(j)'
  BY <1>1, <1>2, <1>4, <1>5, OthersAccounted
<1> QED BY <1>5, <1>8, <1>9 DEF CountInv

\* Time changes leases only.
LEMMA TickCounts ==
  ASSUME QueueInv, CountInv, Tick
  PROVE  CountInv'
<1>1. /\ Len(jobs') = Len(jobs)
      /\ \A j \in JobIds : jobs'[j] = [jobs[j] EXCEPT !.lease = Countdown(@)]
  BY TickEffect DEF QueueInv
<1>2. JobIds' = JobIds /\ UNCHANGED <<phase, claimed, task, crashes>>
  BY <1>1 DEF JobIds, Tick, worker, bounds
<1>2a. \A j \in JobIds : jobs[j] \in Job
  BY IsJob DEF QueueInv, TypeOK
<1>3. \A j \in JobIds : jobs'[j].status = jobs[j].status /\ jobs'[j].targets = jobs[j].targets
                        /\ jobs'[j].results = jobs[j].results
  BY <1>1, <1>2a DEF Job
<1>4. \A j \in JobIds : jobs'[j].cancel = jobs[j].cancel
  BY <1>1, <1>2a DEF Job
<1>5. ASSUME NEW j \in JobIds, Accounted(j)
      PROVE  Accounted(j)'
  BY <1>2, <1>3, <1>4, <1>5 DEF Accounted, OneRun, Told, Outcomes
<1> QED BY <1>2, <1>5 DEF CountInv

\* What writes no job leaves the account as it is; a death ends it.
LEMMA IdleCounts ==
  ASSUME QueueInv, QueueInv', CountInv,
         ListConnections \/ NothingToClaim \/ Crash \/ Restart \/ ChangeConnections \/ UNCHANGED vars
  PROVE  CountInv'
<1>1. CASE Crash
  <2>1. crashes' # 0
    BY <1>1, OperationsAssumption DEF Crash, QueueInv, TypeOK
  <2> QED BY <2>1 DEF CountInv
<1>2. CASE ~Crash
  <2>1. /\ UNCHANGED <<jobs, claimed, task, crashes>> /\ JobIds' = JobIds
        /\ phase' = phase \/ (phase # "running" /\ phase' # "running")
    BY <1>2 DEF ListConnections, NothingToClaim, Restart, ChangeConnections, vars, worker, bounds, JobIds
  <2>2. \A j \in JobIds : Accounted(j) => Accounted(j)'
    BY <2>1 DEF Accounted, OneRun, Told, Outcomes
  <2> QED BY <2>1, <2>2 DEF CountInv
<1> QED BY <1>1, <1>2

\* The account is kept by every step.
LEMMA NextCountInv == QueueInv /\ QueueInv' /\ CountInv /\ [Next]_vars => CountInv'
<1> SUFFICES ASSUME QueueInv, QueueInv', CountInv, [Next]_vars PROVE CountInv'
  OBVIOUS
<1>1. CASE Operator
  <2>1. ASSUME NEW j \in JobIds
        PROVE  jobs[j].targets \in SUBSET Targets \ {{}} /\ jobs[j].policy \in Policies
    BY IsJob DEF QueueInv, TypeOK, Job
  <2>2. CASE Create
    BY <2>2, EnqueueCounts DEF Create
  <2>3. ASSUME NEW j \in JobIds, RetryJob(j) PROVE CountInv'
    <3>1. PICK T \in SUBSET Targets \ {{}} : Enqueue(T, jobs[j].policy)
      BY <2>1, <2>3 DEF RetryJob, Failures
    <3> QED BY <2>1, <3>1, EnqueueCounts
  <2>4. ASSUME NEW j \in JobIds, DuplicateJob(j) PROVE CountInv'
    BY <2>1, <2>4, EnqueueCounts DEF DuplicateJob
  <2>5. ASSUME NEW j \in JobIds, Cancel(j) PROVE CountInv'
    BY <2>5, CancelCounts
  <2> QED BY <1>1, <2>2, <2>3, <2>4, <2>5 DEF Operator
<1>2. CASE WorkerStep
  BY <1>2, IdleCounts, ClaimCounts, EndJobCounts DEF WorkerStep
<1>3. ASSUME NEW t \in Targets, Start(t) \/ Ends(t) \/ Wake(t) PROVE CountInv'
  BY <1>3, TurnCounts, FinishCounts, FailedCounts DEF Ends
<1>4. CASE Tick
  BY <1>4, TickCounts
<1>5. CASE Crash \/ Restart \/ ChangeConnections \/ UNCHANGED vars
  BY <1>5, IdleCounts
<1> QED BY <1>1, <1>2, <1>3, <1>4, <1>5 DEF Next

\* A job that no crash disturbed ends with one result for each target, and as error
\* exactly if all of them failed, whatever was retried, cancelled or interleaved.
THEOREM VerdictsAreTrue == Spec => []VerdictIsTrue
<1>1. Init => CountInv
  BY EmptySeq DEF Init, CountInv, JobIds
<1>2. CountInv => VerdictIsTrue
  BY DEF CountInv, Accounted, Told, Outcomes, VerdictIsTrue
<1> QED BY <1>1, <1>2, NextCountInv, QueueInvariant, PTL DEF Spec

-----------------------------------------------------------------------------
(* What an ended or cancelled job never undergoes.                         *)

\* Nothing of an ended job changes, nothing is recorded of one whose cancellation
\* was asked.
THEOREM EndedNeverChanges == Spec => EndedIsFinal
<1> DEFINE Final(j) == /\ Terminal(jobs[j]) => jobs'[j] = jobs[j]
                       /\ jobs[j].cancel => jobs'[j].cancel /\ jobs'[j].results = jobs[j].results
<1>1. ASSUME QueueInv, [Next]_vars, NEW j \in JobIds
      PROVE  Final(j)
  <2>1. CASE jobs'[j] = jobs[j]
    BY <2>1
  <2>2. jobs[j] \in Job /\ jobs \in [1 .. Len(jobs) -> Job] /\ j \in 1 .. Len(jobs)
    BY <1>1, IsJob, LenProperties DEF QueueInv, TypeOK, JobIds
  <2>3. ASSUME NEW T \in SUBSET Targets \ {{}}, NEW p \in Policies, Enqueue(T, p)
        PROVE  Final(j)
    BY <1>1, <2>1, <2>3, EnqueueEffect DEF QueueInv
  <2>4. CASE Operator
    <3>1. ASSUME NEW i \in JobIds
          PROVE  jobs[i].targets \in SUBSET Targets \ {{}} /\ jobs[i].policy \in Policies
      BY <1>1, IsJob DEF QueueInv, TypeOK, Job
    <3>2. ASSUME NEW i \in JobIds, RetryJob(i) PROVE Final(j)
      <4>1. PICK T \in SUBSET Targets \ {{}} : Enqueue(T, jobs[i].policy)
        BY <3>1, <3>2 DEF RetryJob, Failures
      <4> QED BY <2>3, <3>1, <4>1
    <3>3. ASSUME NEW i \in JobIds, DuplicateJob(i) PROVE Final(j)
      BY <2>3, <3>1, <3>3 DEF DuplicateJob
    <3>4. ASSUME NEW i \in JobIds, Cancel(i) PROVE Final(j)
      <4>1. CASE i # j
        BY <2>1, <2>2, <3>4, <4>1 DEF Cancel
      <4>2. CASE i = j
        <5>1. jobs[j].status \in {"pending", "running", "retrying"}
          BY <3>4, <4>2 DEF Cancel
        <5>2. ~jobs[j].cancel
          BY <1>1, <3>4, <4>2 DEF Cancel, QueueInv, UnclaimedIsUntouched
        <5> QED BY <5>1, <5>2 DEF Terminal
      <4> QED BY <4>1, <4>2
    <3> QED BY <2>3, <2>4, <3>2, <3>3, <3>4 DEF Operator, Create
  <2>5. ASSUME NEW k \in JobIds, Claim(k) PROVE Final(j)
    <3>1. CASE k # j
      BY <2>1, <2>2, <2>5, <3>1 DEF Claim
    <3>2. CASE k = j
      <4>1. jobs[j].status \in {"pending", "running"}
        BY <2>5, <3>2 DEF Claim, Selected, Claimable
      <4>2. jobs'[j].results = jobs[j].results
        BY <2>2, <2>5, <3>2 DEF Claim, Job
      <4>3. jobs'[j].cancel = jobs[j].cancel
        BY <2>2, <2>5, <3>2 DEF Claim, Job
      <4> QED BY <4>1, <4>2, <4>3 DEF Terminal
    <3> QED BY <3>1, <3>2
  <2>6. ASSUME NEW t \in Targets, Start(t) \/ Wake(t) PROVE Final(j)
    BY <2>1, <2>6 DEF Start, Wake
  <2>7. ASSUME NEW t \in Targets, Ends(t) PROVE Final(j)
    <3>1. jobs[claimed].status \in {"running", "retrying"}
      BY <1>1, <2>7, BusyIsRunning DEF Ends, Finish, Failed
    <3>2. CASE claimed # j
      BY <2>1, <2>2, <2>7, <3>2 DEF Ends, Finish, Failed, AppendResult
    <3>3. CASE claimed = j /\ jobs[j].cancel
      BY <2>1, <2>7, <3>3 DEF Ends, Finish, Failed, AppendResult
    <3>4. CASE claimed = j /\ ~jobs[j].cancel
      BY <3>1, <3>4 DEF Terminal
    <3> QED BY <3>2, <3>3, <3>4
  <2>8. CASE EndJob
    <3>1. jobs[claimed].status \in {"running", "retrying"}
      BY <1>1, <2>8 DEF EndJob, QueueInv, ClaimedIsRunning
    <3>2. CASE claimed # j
      BY <2>1, <2>2, <2>8, <3>2 DEF EndJob
    <3>3. CASE claimed = j
      <4>1. jobs'[j].results = jobs[j].results
        BY <2>2, <2>8, <3>3 DEF EndJob, Job
      <4>2. jobs'[j].cancel = jobs[j].cancel
        BY <2>2, <2>8, <3>3 DEF EndJob, Job
      <4> QED BY <3>1, <3>3, <4>1, <4>2 DEF Terminal
    <3> QED BY <3>2, <3>3
  <2>9. CASE Tick
    <3>1. jobs'[j] = [jobs[j] EXCEPT !.lease = Countdown(@)]
      BY <1>1, <2>9, TickEffect DEF QueueInv
    <3>2. jobs'[j].results = jobs[j].results
      BY <2>2, <3>1 DEF Job
    <3>3. jobs'[j].cancel = jobs[j].cancel
      BY <2>2, <3>1 DEF Job
    <3>4. Terminal(jobs[j]) => jobs'[j] = jobs[j]
      <4>1. Terminal(jobs[j]) => Countdown(jobs[j].lease) = jobs[j].lease
        BY <1>1 DEF QueueInv, RestingHasNoLease, Terminal, Countdown
      <4> QED BY <2>2, <3>1, <4>1 DEF Job
    <3> QED BY <3>2, <3>3, <3>4
  <2>10. CASE ListConnections \/ NothingToClaim \/ Crash \/ Restart \/ ChangeConnections
              \/ UNCHANGED vars
    BY <2>1, <2>10 DEF ListConnections, NothingToClaim, Crash, Restart, ChangeConnections, vars
  <2> QED BY <1>1, <2>4, <2>5, <2>6, <2>7, <2>8, <2>9, <2>10 DEF Next, WorkerStep
<1>2. QueueInv /\ [Next]_vars => [\A j \in JobIds : Final(j)]_vars
  BY <1>1
<1> QED BY <1>2, QueueInvariant, PTL DEF Spec, EndedIsFinal
-----------------------------------------------------------------------------
(* The queue keeps what the ledger promises.                               *)

\* What a step leaves the ledger of a job as, seen from outside.
Slots == 1 .. MaxJobs
For(j) == IF j \in JobIds THEN jobs[j].targets ELSE {}
Asked(j) == j \in JobIds /\ jobs[j].cancel
Tried(j) == IF j \in JobIds THEN touched[j] ELSE {}
Has(j) == IF j \in JobIds THEN {t \in Targets : HasResult(j, t)} ELSE {}

SameFlag(j) == Asked(j)' <=> Asked(j)
Same(j) ==
  /\ Progress(j)' = Progress(j) /\ For(j)' = For(j) /\ SameFlag(j)
  /\ Tried(j)' = Tried(j) /\ Has(j)' = Has(j)

\* What a step may do to one job.
Moves(k) ==
  \/ Same(k)
  \/ /\ Progress(k) = "absent" /\ Progress(k)' = "waiting"
     /\ For(k)' \in SUBSET Targets \ {{}}
     /\ SameFlag(k) /\ Tried(k)' = Tried(k) /\ Has(k)' = Has(k)
  \/ /\ Progress(k) = "waiting" /\ Progress(k)' \in {"begun", "cancelled"}
     /\ For(k)' = For(k) /\ SameFlag(k) /\ Tried(k)' = Tried(k) /\ Has(k)' = Has(k)
  \/ /\ Progress(k) = "begun" /\ Progress(k)' = "begun"
     /\ For(k)' = For(k) /\ Asked(k)' /\ Tried(k)' = Tried(k) /\ Has(k)' = Has(k)
  \/ /\ Progress(k) = "begun" /\ Progress(k)' = "begun"
     /\ For(k)' = For(k) /\ SameFlag(k) /\ Has(k)' = Has(k)
     /\ \E t \in Targets : t \in For(k) /\ Tried(k)' = Tried(k) \cup {t}
  \/ /\ Progress(k) = "begun" /\ Progress(k)' = "begun"
     /\ For(k)' = For(k) /\ SameFlag(k) /\ ~Asked(k) /\ Tried(k)' = Tried(k)
     /\ \E t \in Targets : t \in For(k) /\ Has(k)' = Has(k) \cup {t}
  \/ /\ Progress(k) = "begun"
     /\ \/ Progress(k)' = "cancelled" /\ Asked(k)
        \/ Progress(k)' = "done" /\ ~Asked(k) /\ For(k) \subseteq Has(k)
     /\ For(k)' = For(k) /\ SameFlag(k) /\ Tried(k)' = Tried(k) /\ Has(k)' = Has(k)

\* The five words of the ledger, one for each status.
LEMMA ProgressOf ==
  ASSUME NEW j, j \in JobIds => jobs[j].status \in Statuses
  PROVE  /\ Progress(j) = "absent" <=> j \notin JobIds
         /\ Progress(j) = "waiting" <=> j \in JobIds /\ jobs[j].status = "pending"
         /\ Progress(j) = "begun" <=> j \in JobIds /\ jobs[j].status \in {"running", "retrying"}
         /\ Progress(j) = "done" <=> j \in JobIds /\ jobs[j].status \in {"completed", "error"}
         /\ Progress(j) = "cancelled" <=> j \in JobIds /\ jobs[j].status = "cancelled"
BY DEF Progress, Statuses

\* The same after a step.
LEMMA ProgressAfter ==
  ASSUME NEW j, j \in JobIds' => jobs'[j].status \in Statuses
  PROVE  /\ Progress(j)' = "absent" <=> j \notin JobIds'
         /\ Progress(j)' = "waiting" <=> j \in JobIds' /\ jobs'[j].status = "pending"
         /\ Progress(j)' = "begun" <=> j \in JobIds' /\ jobs'[j].status \in {"running", "retrying"}
         /\ Progress(j)' = "done" <=> j \in JobIds' /\ jobs'[j].status \in {"completed", "error"}
         /\ Progress(j)' = "cancelled" <=> j \in JobIds' /\ jobs'[j].status = "cancelled"
BY DEF Progress, Statuses

\* A step that moves one job so is one of the ledger's.
LEMMA OneJobMoves ==
  ASSUME JobIds \subseteq Slots, JobIds' \subseteq Slots, NEW k \in Slots,
         \A j \in Slots : j # k => Same(j), Moves(k)
  PROVE  [Ledger!Next]_Ledger!vars
<1> DEFINE state == [j \in 1 .. MaxJobs |-> Progress(j)]
           targets == [j \in 1 .. MaxJobs |-> IF j \in JobIds THEN jobs[j].targets ELSE {}]
           asked == {j \in JobIds : jobs[j].cancel}
           tried == [j \in 1 .. MaxJobs |-> IF j \in JobIds THEN touched[j] ELSE {}]
           told == [j \in 1 .. MaxJobs |->
                      IF j \in JobIds THEN {t \in Targets : HasResult(j, t)} ELSE {}]
<1>1. /\ state = [j \in Slots |-> Progress(j)] /\ targets = [j \in Slots |-> For(j)]
      /\ tried = [j \in Slots |-> Tried(j)] /\ told = [j \in Slots |-> Has(j)]
  BY DEF Slots, For, Tried, Has
<1>2. /\ state' = [j \in Slots |-> Progress(j)'] /\ targets' = [j \in Slots |-> For(j)']
      /\ tried' = [j \in Slots |-> Tried(j)'] /\ told' = [j \in Slots |-> Has(j)']
  BY DEF Slots, For, Tried, Has
<1>3. asked = {j \in Slots : Asked(j)} /\ asked' = {j \in Slots : Asked(j)'}
  BY DEF Asked
<1>4. UNCHANGED <<state, targets, asked, tried, told>> => UNCHANGED Ledger!vars
  BY DEF Ledger!vars
<1>5. /\ Ledger!Accept(k) <=>
           /\ state[k] = "absent" /\ state' = [state EXCEPT ![k] = "waiting"]
           /\ \E T \in SUBSET Targets \ {{}} : targets' = [targets EXCEPT ![k] = T]
           /\ UNCHANGED <<asked, tried, told>>
      /\ Ledger!Withdraw(k) <=>
           /\ state[k] = "waiting" /\ state' = [state EXCEPT ![k] = "cancelled"]
           /\ UNCHANGED <<targets, asked, tried, told>>
      /\ Ledger!Begin(k) <=>
           /\ state[k] = "waiting" /\ state' = [state EXCEPT ![k] = "begun"]
           /\ UNCHANGED <<targets, asked, tried, told>>
      /\ Ledger!Ask(k) <=>
           state[k] = "begun" /\ asked' = asked \cup {k} /\ UNCHANGED <<state, targets, tried, told>>
      /\ Ledger!End(k) <=>
           /\ state[k] = "begun"
           /\ \/ k \in asked /\ state' = [state EXCEPT ![k] = "cancelled"]
              \/ /\ k \notin asked /\ targets[k] \subseteq told[k]
                 /\ state' = [state EXCEPT ![k] = "done"]
           /\ UNCHANGED <<targets, asked, tried, told>>
  BY DEF Ledger!Accept, Ledger!Withdraw, Ledger!Begin, Ledger!Ask, Ledger!End
<1>6. ASSUME NEW t \in Targets
      PROVE  /\ Ledger!Try(k, t) <=>
                  /\ state[k] = "begun" /\ t \in targets[k]
                  /\ tried' = [tried EXCEPT ![k] = @ \cup {t}]
                  /\ UNCHANGED <<state, targets, asked, told>>
             /\ Ledger!Tell(k, t) <=>
                  /\ state[k] = "begun" /\ k \notin asked /\ t \in targets[k]
                  /\ told' = [told EXCEPT ![k] = @ \cup {t}]
                  /\ UNCHANGED <<state, targets, asked, tried>>
  BY DEF Ledger!Try, Ledger!Tell
<1>7. k \in 1 .. MaxJobs
  BY DEF Slots
<1> HIDE DEF state, targets, asked, tried, told, Progress, For, Asked, Tried, Has
<1>8. /\ state' = [state EXCEPT ![k] = Progress(k)'] /\ state[k] = Progress(k)
      /\ Progress(k)' = Progress(k) => state' = state
  BY <1>1, <1>2 DEF Same
<1>9. /\ targets' = [targets EXCEPT ![k] = For(k)'] /\ targets[k] = For(k)
      /\ For(k)' = For(k) => targets' = targets
  BY <1>1, <1>2 DEF Same
<1>10. /\ tried' = [tried EXCEPT ![k] = Tried(k)'] /\ tried[k] = Tried(k)
       /\ Tried(k)' = Tried(k) => tried' = tried
  BY <1>1, <1>2 DEF Same
<1>11. /\ told' = [told EXCEPT ![k] = Has(k)'] /\ told[k] = Has(k)
       /\ Has(k)' = Has(k) => told' = told
  BY <1>1, <1>2 DEF Same
<1>12. /\ k \in asked <=> Asked(k)
       /\ SameFlag(k) => asked' = asked
       /\ Asked(k)' => asked' = asked \cup {k}
  BY <1>3 DEF Same, SameFlag
<1>13. CASE Same(k)
  BY <1>4, <1>8, <1>9, <1>10, <1>11, <1>12, <1>13 DEF Same
<1>14. CASE /\ Progress(k) = "absent" /\ Progress(k)' = "waiting"
            /\ For(k)' \in SUBSET Targets \ {{}}
            /\ SameFlag(k) /\ Tried(k)' = Tried(k) /\ Has(k)' = Has(k)
  <2>1. Ledger!Accept(k)
    BY <1>5, <1>8, <1>9, <1>10, <1>11, <1>12, <1>14
  <2> QED BY <1>7, <2>1 DEF Ledger!Next
<1>15. CASE /\ Progress(k) = "waiting" /\ Progress(k)' \in {"begun", "cancelled"}
            /\ For(k)' = For(k) /\ SameFlag(k) /\ Tried(k)' = Tried(k) /\ Has(k)' = Has(k)
  <2>1. Ledger!Begin(k) \/ Ledger!Withdraw(k)
    BY <1>5, <1>8, <1>9, <1>10, <1>11, <1>12, <1>15
  <2> QED BY <1>7, <2>1 DEF Ledger!Next
<1>16. CASE /\ Progress(k) = "begun" /\ Progress(k)' = "begun"
            /\ For(k)' = For(k) /\ Asked(k)' /\ Tried(k)' = Tried(k) /\ Has(k)' = Has(k)
  <2>1. Ledger!Ask(k)
    BY <1>5, <1>8, <1>9, <1>10, <1>11, <1>12, <1>16
  <2> QED BY <1>7, <2>1 DEF Ledger!Next
<1>17. CASE /\ Progress(k) = "begun" /\ Progress(k)' = "begun"
            /\ For(k)' = For(k) /\ SameFlag(k) /\ Has(k)' = Has(k)
            /\ \E t \in Targets : t \in For(k) /\ Tried(k)' = Tried(k) \cup {t}
  <2>1. PICK t \in Targets : t \in For(k) /\ Tried(k)' = Tried(k) \cup {t}
    BY <1>17
  <2>2. Ledger!Try(k, t)
    BY <1>6, <1>8, <1>9, <1>10, <1>11, <1>12, <1>17, <2>1
  <2> QED BY <1>7, <2>2 DEF Ledger!Next
<1>18. CASE /\ Progress(k) = "begun" /\ Progress(k)' = "begun"
            /\ For(k)' = For(k) /\ SameFlag(k) /\ ~Asked(k) /\ Tried(k)' = Tried(k)
            /\ \E t \in Targets : t \in For(k) /\ Has(k)' = Has(k) \cup {t}
  <2>1. PICK t \in Targets : t \in For(k) /\ Has(k)' = Has(k) \cup {t}
    BY <1>18
  <2>2. Ledger!Tell(k, t)
    BY <1>6, <1>8, <1>9, <1>10, <1>11, <1>12, <1>18, <2>1
  <2> QED BY <1>7, <2>2 DEF Ledger!Next
<1>19. CASE /\ Progress(k) = "begun"
            /\ \/ Progress(k)' = "cancelled" /\ Asked(k)
               \/ Progress(k)' = "done" /\ ~Asked(k) /\ For(k) \subseteq Has(k)
            /\ For(k)' = For(k) /\ SameFlag(k) /\ Tried(k)' = Tried(k) /\ Has(k)' = Has(k)
  <2>1. Ledger!End(k)
    BY <1>5, <1>8, <1>9, <1>10, <1>11, <1>12, <1>19
  <2> QED BY <1>7, <2>1 DEF Ledger!Next
<1> QED BY <1>13, <1>14, <1>15, <1>16, <1>17, <1>18, <1>19 DEF Moves

\* A step that moves no job is none of the ledger's.
LEMMA NoJobMoves ==
  ASSUME JobIds \subseteq Slots, JobIds' \subseteq Slots, \A j \in Slots : Same(j)
  PROVE  UNCHANGED Ledger!vars
<1>1. UNCHANGED <<[j \in Slots |-> Progress(j)], [j \in Slots |-> For(j)], {j \in Slots : Asked(j)},
                  [j \in Slots |-> Tried(j)], [j \in Slots |-> Has(j)]>>
  <2> HIDE DEF Progress, For, Asked, Tried, Has
  <2> QED BY DEF Same, SameFlag
<1>2. {j \in Slots : Asked(j)} = {j \in JobIds : jobs[j].cancel}
  BY DEF Asked
<1>3. {j \in Slots : Asked(j)}' = {j \in JobIds : jobs[j].cancel}'
  BY DEF Asked
<1> QED BY <1>1, <1>2, <1>3 DEF Ledger!vars, Slots, For, Tried, Has
\* The jobs that exist fit the ledger.
LEMMA InSlots ==
  ASSUME QueueInv, WorksOnTargets
  PROVE  Len(jobs) \in Nat /\ JobIds \subseteq Slots
BY OperationsAssumption, LenProperties DEF QueueInv, TypeOK, WorksOnTargets, JobIds, Slots

\* The same after a step.
LEMMA InSlotsAfter ==
  ASSUME QueueInv', WorksOnTargets'
  PROVE  JobIds' \subseteq Slots
<1>1. Len(jobs') \in Nat
  BY LenProperties DEF QueueInv, TypeOK
<1> QED BY <1>1, OperationsAssumption DEF WorksOnTargets, JobIds, Slots

\* A job that is not written to is, to the ledger, the same.
LEMMA OthersAreSame ==
  ASSUME NEW k, JobIds \subseteq JobIds', JobIds' \subseteq JobIds \cup {k},
         \A j \in JobIds : j # k => jobs'[j] = jobs[j] /\ touched'[j] = touched[j]
  PROVE  \A j \in Slots : j # k => Same(j)
BY DEF Same, SameFlag, Progress, For, Asked, Tried, Has, HasResult

\* The worker goes on with what it was doing, or with less.
LEMMA WorksOn ==
  ASSUME QueueInv, WorksOnTargets, Len(jobs') <= MaxJobs,
         \A j \in JobIds : jobs'[j].targets = jobs[j].targets,
         phase' = "running" =>
           /\ phase = "running" /\ claimed' = claimed
           /\ \A t \in Targets : task'[t] # "none" => task[t] # "none"
  PROVE  WorksOnTargets'
BY DEF QueueInv, ClaimedIsRunning, WorksOnTargets

\* A step that writes one job and moves it as the ledger allows.
LEMMA WrittenJob ==
  ASSUME QueueInv, QueueInv', WorksOnTargets, WorksOnTargets', NEW k \in JobIds, NEW r \in Job,
         jobs' = [jobs EXCEPT ![k] = r],
         \A j \in JobIds : j # k => touched'[j] = touched[j],
         Moves(k)
  PROVE  [Ledger!Next]_Ledger!vars
<1>1. Len(jobs') = Len(jobs) /\ \A j \in JobIds : j # k => jobs'[j] = jobs[j]
  BY StoreJob DEF QueueInv, TypeOK
<1>2. JobIds' = JobIds
  BY <1>1 DEF JobIds
<1>3. \A j \in Slots : j # k => Same(j)
  BY <1>1, <1>2, OthersAreSame
<1> QED BY <1>3, InSlots, InSlotsAfter, OneJobMoves

\* What the ledger says of a job before and after its record r replaces it.
LEMMA Reading ==
  ASSUME QueueInv, NEW k \in JobIds, NEW r \in Job, jobs' = [jobs EXCEPT ![k] = r],
         r.targets = jobs[k].targets, touched'[k] \in SUBSET Targets
  PROVE  /\ Progress(k) = "waiting" <=> jobs[k].status = "pending"
         /\ Progress(k) = "begun" <=> jobs[k].status \in {"running", "retrying"}
         /\ Progress(k)' = "waiting" <=> r.status = "pending"
         /\ Progress(k)' = "begun" <=> r.status \in {"running", "retrying"}
         /\ Progress(k)' = "done" <=> r.status \in {"completed", "error"}
         /\ Progress(k)' = "cancelled" <=> r.status = "cancelled"
         /\ For(k) = jobs[k].targets /\ For(k)' = For(k)
         /\ Asked(k) <=> jobs[k].cancel
         /\ Asked(k)' <=> r.cancel
         /\ Tried(k) = touched[k] /\ Tried(k)' = touched'[k]
         /\ Has(k) = {t \in Targets : jobs[k].results[t].ok + jobs[k].results[t].bad > 0}
         /\ Has(k)' = {t \in Targets : r.results[t].ok + r.results[t].bad > 0}
<1>1. Len(jobs') = Len(jobs) /\ jobs'[k] = r
  BY StoreJob DEF QueueInv, TypeOK
<1>2. k \in JobIds' /\ jobs[k] \in Job
  BY <1>1, IsJob DEF JobIds, QueueInv, TypeOK
<1>3. jobs[k].status \in Statuses /\ jobs'[k].status \in Statuses
  BY <1>1, <1>2 DEF Job
<1>4. /\ Progress(k) = "waiting" <=> jobs[k].status = "pending"
      /\ Progress(k) = "begun" <=> jobs[k].status \in {"running", "retrying"}
  BY <1>3, ProgressOf
<1>5. /\ Progress(k)' = "waiting" <=> r.status = "pending"
      /\ Progress(k)' = "begun" <=> r.status \in {"running", "retrying"}
      /\ Progress(k)' = "done" <=> r.status \in {"completed", "error"}
      /\ Progress(k)' = "cancelled" <=> r.status = "cancelled"
  BY <1>1, <1>2, <1>3, ProgressAfter
<1>6. For(k) = jobs[k].targets /\ For(k)' = For(k) /\ Tried(k) = touched[k] /\ Tried(k)' = touched'[k]
  BY <1>1, <1>2 DEF For, Tried
<1>7. Asked(k) <=> jobs[k].cancel
  BY DEF Asked
<1>8. Asked(k)' <=> r.cancel
  BY <1>1, <1>2 DEF Asked
<1>9. /\ Has(k) = {t \in Targets : jobs[k].results[t].ok + jobs[k].results[t].bad > 0}
      /\ Has(k)' = {t \in Targets : r.results[t].ok + r.results[t].bad > 0}
  BY <1>1, <1>2 DEF Has, HasResult
<1> QED BY <1>4, <1>5, <1>6, <1>7, <1>8, <1>9

\* Operators: a job is accepted.
LEMMA EnqueueStep ==
  ASSUME QueueInv, QueueInv', WorksOnTargets, NEW T \in SUBSET Targets \ {{}}, NEW p \in Policies,
         Enqueue(T, p)
  PROVE  WorksOnTargets' /\ [Ledger!Next]_Ledger!vars
<1>1. /\ Len(jobs') = Len(jobs) + 1
      /\ \A j \in JobIds : jobs'[j] = jobs[j] /\ touched'[j] = touched[j]
      /\ jobs'[Len(jobs')] = NewJob(T, p) /\ touched'[Len(jobs')] = {}
  BY EnqueueEffect DEF QueueInv
<1>2. PICK k \in Nat : k = Len(jobs')
  BY <1>1, InSlots
<1>3. /\ Len(jobs) < MaxJobs /\ UNCHANGED <<phase, claimed, task>>
  BY DEF Enqueue, worker
<1>4. JobIds' = JobIds \cup {k} /\ k \notin JobIds /\ k \in Slots /\ Len(jobs') <= MaxJobs
  BY <1>1, <1>2, <1>3, InSlots, OperationsAssumption DEF JobIds, Slots
<1>5. WorksOnTargets'
  BY <1>1, <1>3, <1>4, WorksOn
<1>6. \A j \in Slots : j # k => Same(j)
  BY <1>1, <1>4, OthersAreSame
<1>7. Moves(k)
  <2>1. Progress(k) = "absent" /\ For(k) = {} /\ ~Asked(k) /\ Tried(k) = {} /\ Has(k) = {}
    BY <1>4 DEF Progress, For, Asked, Tried, Has
  <2>2. jobs'[k] = NewJob(T, p) /\ touched'[k] = {} /\ k \in JobIds'
    BY <1>1, <1>2, <1>4
  <2>3. Progress(k)' = "waiting" /\ For(k)' = T /\ Tried(k)' = {}
    BY <2>2 DEF Progress, For, Tried, NewJob
  <2>4. ~Asked(k)'
    BY <2>2 DEF Asked, NewJob
  <2>5. Has(k)' = {}
    BY <2>2 DEF Has, HasResult, NewJob, NoResults
  <2> QED BY <2>1, <2>3, <2>4, <2>5 DEF Moves, SameFlag
<1> QED BY <1>4, <1>5, <1>6, <1>7, InSlots, InSlotsAfter, OneJobMoves

\* Operators: a job is withdrawn, or its cancellation is asked.
LEMMA CancelStep ==
  ASSUME QueueInv, QueueInv', WorksOnTargets, NEW k \in JobIds, Cancel(k)
  PROVE  WorksOnTargets' /\ [Ledger!Next]_Ledger!vars
<1>1. PICK r \in Job :
        /\ jobs' = [jobs EXCEPT ![k] = r]
        /\ r.targets = jobs[k].targets /\ r.results = jobs[k].results /\ r.lease = jobs[k].lease
        /\ \/ jobs[k].status = "pending" /\ r.status = "cancelled" /\ r.cancel = jobs[k].cancel
           \/ jobs[k].status \in {"running", "retrying"} /\ r.status = jobs[k].status /\ r.cancel
  BY CancelWrites
<1>2. UNCHANGED <<touched, phase, claimed, task>>
  BY DEF Cancel, worker
<1>3. WorksOnTargets'
  <2>1. /\ Len(jobs') = Len(jobs) /\ jobs'[k] = r
        /\ \A j \in JobIds : j # k => jobs'[j] = jobs[j]
    BY <1>1, StoreJob DEF QueueInv, TypeOK
  <2> QED BY <1>1, <1>2, <2>1, WorksOn DEF WorksOnTargets
<1>4. touched'[k] \in SUBSET Targets
  BY <1>2 DEF QueueInv, TypeOK
<1>5. Moves(k)
  <2>1. For(k)' = For(k) /\ Tried(k)' = Tried(k) /\ Has(k)' = Has(k)
    <3>1. /\ For(k)' = For(k) /\ Tried(k) = touched[k] /\ Tried(k)' = touched'[k]
          /\ Has(k) = {t \in Targets : jobs[k].results[t].ok + jobs[k].results[t].bad > 0}
          /\ Has(k)' = {t \in Targets : r.results[t].ok + r.results[t].bad > 0}
      BY <1>1, <1>4, Reading
    <3> QED BY <1>1, <1>2, <3>1
  <2>2. CASE jobs[k].status = "pending" /\ r.status = "cancelled" /\ r.cancel = jobs[k].cancel
    <3>1. Progress(k) = "waiting" /\ Progress(k)' = "cancelled"
      BY <1>1, <1>4, <2>2, Reading
    <3>2. SameFlag(k)
      BY <1>1, <1>4, <2>2, Reading DEF SameFlag
    <3> QED BY <2>1, <3>1, <3>2 DEF Moves
  <2>3. CASE jobs[k].status \in {"running", "retrying"} /\ r.status = jobs[k].status /\ r.cancel
    <3>1. Progress(k) = "begun" /\ Progress(k)' = "begun"
      BY <1>1, <1>4, <2>3, Reading
    <3>2. Asked(k)'
      BY <1>1, <1>4, <2>3, Reading
    <3> QED BY <2>1, <3>1, <3>2 DEF Moves
  <2> QED BY <1>1, <2>2, <2>3
<1> QED BY <1>1, <1>2, <1>3, <1>5, WrittenJob

\* The worker begins a job, or begins it again.
LEMMA ClaimStep ==
  ASSUME QueueInv, QueueInv', WorksOnTargets, NEW k \in JobIds, Claim(k)
  PROVE  WorksOnTargets' /\ [Ledger!Next]_Ledger!vars
<1>1. PICK r \in Job :
        /\ jobs' = [jobs EXCEPT ![k] = r]
        /\ r.targets = jobs[k].targets /\ r.results = jobs[k].results
        /\ r.cancel = jobs[k].cancel /\ r.status = "running"
  BY ClaimWrites
<1>2. /\ UNCHANGED touched /\ claimed' = k
      /\ task' = [t \in Targets |-> IF t \in jobs[k].targets THEN "waiting" ELSE "none"]
      /\ jobs[k].status \in {"pending", "running"}
  BY DEF Claim, Selected, Claimable
<1>3. WorksOnTargets'
  <2>1. Len(jobs') = Len(jobs) /\ jobs'[k] = r
    BY <1>1, StoreJob DEF QueueInv, TypeOK
  <2> QED BY <1>1, <1>2, <2>1 DEF WorksOnTargets
<1>4. touched'[k] \in SUBSET Targets
  BY <1>2 DEF QueueInv, TypeOK
<1>5. Moves(k)
  <2>1. For(k)' = For(k) /\ Tried(k)' = Tried(k) /\ Has(k)' = Has(k)
    <3>1. /\ For(k)' = For(k) /\ Tried(k) = touched[k] /\ Tried(k)' = touched'[k]
          /\ Has(k) = {t \in Targets : jobs[k].results[t].ok + jobs[k].results[t].bad > 0}
          /\ Has(k)' = {t \in Targets : r.results[t].ok + r.results[t].bad > 0}
      BY <1>1, <1>4, Reading
    <3> QED BY <1>1, <1>2, <3>1
  <2>2. Progress(k) \in {"waiting", "begun"} /\ Progress(k)' = "begun"
    BY <1>1, <1>2, <1>4, Reading
  <2>3. SameFlag(k)
    BY <1>1, <1>4, Reading DEF SameFlag
  <2> QED BY <2>1, <2>2, <2>3 DEF Moves, Same
<1> QED BY <1>1, <1>2, <1>3, <1>5, WrittenJob
\* A step that writes neither jobs nor what was touched.
LEMMA QuietStep ==
  ASSUME QueueInv, QueueInv', WorksOnTargets, UNCHANGED <<jobs, touched>>,
         phase' = "running" =>
           /\ phase = "running" /\ claimed' = claimed
           /\ \A t \in Targets : task'[t] # "none" => task[t] # "none"
  PROVE  WorksOnTargets' /\ [Ledger!Next]_Ledger!vars
<1>1. WorksOnTargets'
  BY WorksOn DEF WorksOnTargets
<1>2. JobIds' = JobIds
  BY DEF JobIds
<1>3. \A j \in Slots : Same(j)
  BY <1>2 DEF Same, SameFlag, Progress, For, Asked, Tried, Has, HasResult
<1> QED BY <1>1, <1>3, InSlots, InSlotsAfter, NoJobMoves

\* A target is tried.
LEMMA StartStep ==
  ASSUME QueueInv, QueueInv', WorksOnTargets, NEW t \in Targets, Start(t)
  PROVE  WorksOnTargets' /\ [Ledger!Next]_Ledger!vars
<1>1. /\ phase = "running" /\ claimed \in JobIds
      /\ jobs[claimed].status \in {"running", "retrying"}
  BY BusyIsRunning DEF Start
<1>2. PICK k \in JobIds : k = claimed
  BY <1>1
<1>3. /\ UNCHANGED <<jobs, phase, claimed>> /\ task[t] = "waiting"
      /\ task' = [task EXCEPT ![t] = "executing"]
      /\ touched' = touched \/ touched' = [touched EXCEPT ![k] = @ \cup {t}]
  BY <1>2 DEF Start
<1>4. WorksOnTargets'
  <2>1. \A u \in Targets : task'[u] # "none" => task[u] # "none"
    BY <1>3 DEF QueueInv, TypeOK
  <2> QED BY <1>3, <2>1, WorksOn DEF WorksOnTargets
<1>5. t \in jobs[k].targets
  BY <1>1, <1>2, <1>3 DEF WorksOnTargets
<1>6. /\ touched \in [JobIds -> SUBSET Targets] /\ touched' \in [JobIds -> SUBSET Targets]
      /\ \A j \in JobIds : j # k => touched'[j] = touched[j]
      /\ touched'[k] \in {touched[k], touched[k] \cup {t}}
  BY <1>3 DEF QueueInv, TypeOK, JobIds
<1>7. /\ jobs[k] \in Job /\ jobs' = [jobs EXCEPT ![k] = jobs[k]]
  BY <1>3, IsJob, LenProperties DEF QueueInv, TypeOK, JobIds
<1>8. Moves(k)
  <2>1. /\ Progress(k) = "begun" /\ Progress(k)' = "begun"
        /\ For(k) = jobs[k].targets /\ For(k)' = For(k)
    BY <1>1, <1>2, <1>6, <1>7, Reading
  <2>2. Tried(k) = touched[k] /\ Tried(k)' = touched'[k] /\ Has(k)' = Has(k)
    BY <1>6, <1>7, Reading
  <2>3. SameFlag(k)
    BY <1>6, <1>7, Reading DEF SameFlag
  <2> QED BY <1>5, <1>6, <2>1, <2>2, <2>3 DEF Moves, Same
<1> QED BY <1>4, <1>6, <1>7, <1>8, WrittenJob

\* A target has an outcome, or ends without one because that was asked.
LEMMA FinishStep ==
  ASSUME QueueInv, QueueInv', WorksOnTargets, NEW t \in Targets, NEW ok \in BOOLEAN, Finish(t, ok)
  PROVE  WorksOnTargets' /\ [Ledger!Next]_Ledger!vars
<1>1. /\ phase = "running" /\ claimed \in JobIds
      /\ jobs[claimed].status \in {"running", "retrying"}
  BY BusyIsRunning DEF Finish
<1>2. PICK k \in JobIds : k = claimed
  BY <1>1
<1>3. /\ UNCHANGED <<touched, phase, claimed>> /\ task[t] = "executing"
      /\ task' = [task EXCEPT ![t] = "none"]
  BY DEF Finish
<1>4. \A u \in Targets : task'[u] # "none" => task[u] # "none"
  BY <1>3 DEF QueueInv, TypeOK
<1>5. CASE jobs[k].cancel
  <2>1. jobs' = jobs
    BY <1>2, <1>5 DEF Finish, AppendResult
  <2> QED BY <1>3, <1>4, <2>1, QuietStep
<1>6. CASE ~jobs[k].cancel
  <2>1. PICK r \in Job :
          /\ jobs' = [jobs EXCEPT ![k] = r]
          /\ r.targets = jobs[k].targets /\ r.status = jobs[k].status
          /\ r.cancel = jobs[k].cancel
          /\ r.results[t].ok + r.results[t].bad = jobs[k].results[t].ok + jobs[k].results[t].bad + 1
          /\ \A u \in Targets : u # t => r.results[u] = jobs[k].results[u]
    BY <1>2, <1>6, FinishWrites
  <2>2. WorksOnTargets'
    <3>1. /\ Len(jobs') = Len(jobs) /\ jobs'[k] = r
          /\ \A j \in JobIds : j # k => jobs'[j] = jobs[j]
      BY <2>1, StoreJob DEF QueueInv, TypeOK
    <3> QED BY <1>3, <1>4, <2>1, <3>1, WorksOn DEF WorksOnTargets
  <2>3. t \in jobs[k].targets
    BY <1>1, <1>2, <1>3 DEF WorksOnTargets
  <2>4. touched'[k] = touched[k] /\ touched'[k] \in SUBSET Targets
    BY <1>3 DEF QueueInv, TypeOK
  <2>5. Moves(k)
    <3>1. Progress(k) = "begun" /\ Progress(k)' = "begun"
      BY <1>1, <1>2, <2>1, <2>4, Reading
    <3>2. SameFlag(k) /\ ~Asked(k)
      BY <1>6, <2>1, <2>4, Reading DEF SameFlag
    <3>3. /\ For(k) = jobs[k].targets /\ For(k)' = For(k)
          /\ Tried(k)' = touched'[k] /\ Tried(k) = touched[k]
      BY <2>1, <2>4, Reading
    <3>4. Has(k)' = Has(k) \cup {t}
      <4>1. jobs[k].results[t] \in Count
        BY IsJob DEF QueueInv, TypeOK, Job
      <4>2. r.results[t].ok + r.results[t].bad > 0
        BY <2>1, <4>1 DEF Count
      <4>3. /\ Has(k) = {u \in Targets : jobs[k].results[u].ok + jobs[k].results[u].bad > 0}
            /\ Has(k)' = {u \in Targets : r.results[u].ok + r.results[u].bad > 0}
        BY <2>1, <2>4, Reading
      <4> QED BY <2>1, <4>2, <4>3
    <3> QED BY <2>3, <2>4, <3>1, <3>2, <3>3, <3>4 DEF Moves
  <2> QED BY <1>3, <2>1, <2>2, <2>5, WrittenJob
<1> QED BY <1>5, <1>6

\* A failed attempt tells nothing yet.
LEMMA FailedStep ==
  ASSUME QueueInv, QueueInv', WorksOnTargets, NEW t \in Targets, Failed(t)
  PROVE  WorksOnTargets' /\ [Ledger!Next]_Ledger!vars
<1>1. /\ phase = "running" /\ claimed \in JobIds
      /\ jobs[claimed].status \in {"running", "retrying"}
  BY BusyIsRunning DEF Failed
<1>2. PICK k \in JobIds : k = claimed
  BY <1>1
<1>3. PICK r \in Job :
        /\ jobs' = [jobs EXCEPT ![k] = r]
        /\ r.targets = jobs[k].targets /\ r.results = jobs[k].results
        /\ r.status \in {"running", "retrying"} /\ r.cancel = jobs[k].cancel
  BY <1>2, FailedWrites
<1>4. /\ UNCHANGED <<touched, phase, claimed>> /\ task[t] = "executing"
      /\ \E st \in {"none", "sleeping", "executing"} : task' = [task EXCEPT ![t] = st]
  BY DEF Failed
<1>5. WorksOnTargets'
  <2>1. /\ Len(jobs') = Len(jobs) /\ jobs'[k] = r
        /\ \A j \in JobIds : j # k => jobs'[j] = jobs[j]
    BY <1>3, StoreJob DEF QueueInv, TypeOK
  <2>2. \A u \in Targets : task'[u] # "none" => task[u] # "none"
    BY <1>4 DEF QueueInv, TypeOK
  <2> QED BY <1>3, <1>4, <2>1, <2>2, WorksOn DEF WorksOnTargets
<1>6. touched'[k] = touched[k] /\ touched'[k] \in SUBSET Targets
  BY <1>4 DEF QueueInv, TypeOK
<1>7. Moves(k)
  <2>1. Progress(k) = "begun" /\ Progress(k)' = "begun"
    BY <1>1, <1>2, <1>3, <1>6, Reading
  <2>2. SameFlag(k)
    BY <1>3, <1>6, Reading DEF SameFlag
  <2>3. /\ For(k)' = For(k) /\ Tried(k) = touched[k] /\ Tried(k)' = touched'[k]
        /\ Has(k) = {u \in Targets : jobs[k].results[u].ok + jobs[k].results[u].bad > 0}
        /\ Has(k)' = {u \in Targets : r.results[u].ok + r.results[u].bad > 0}
    BY <1>3, <1>6, Reading
  <2> QED BY <1>3, <1>6, <2>1, <2>2, <2>3 DEF Moves, Same
<1> QED BY <1>3, <1>4, <1>5, <1>7, WrittenJob

\* A job ends cancelled, as was asked, or with an outcome for every target.
LEMMA EndJobStep ==
  ASSUME QueueInv, QueueInv', WorksOnTargets, EndJob
  PROVE  WorksOnTargets' /\ [Ledger!Next]_Ledger!vars
<1>1. /\ phase = "running" /\ claimed \in JobIds
      /\ jobs[claimed].status \in {"running", "retrying"}
  BY DEF EndJob, QueueInv, ClaimedIsRunning
<1>2. PICK k \in JobIds : k = claimed
  BY <1>1
<1>3. PICK r \in Job :
        /\ jobs' = [jobs EXCEPT ![k] = r]
        /\ r.targets = jobs[k].targets /\ r.results = jobs[k].results
        /\ r.lease = 0 /\ r.status = Verdict(jobs[k]) /\ r.cancel = jobs[k].cancel
  BY <1>2, EndJobWrites
<1>4. UNCHANGED touched /\ phase' = "listing"
  BY DEF EndJob
<1>5. WorksOnTargets'
  <2>1. Len(jobs') = Len(jobs)
    BY <1>3, StoreJob DEF QueueInv, TypeOK
  <2> QED BY <1>4, <2>1 DEF WorksOnTargets
<1>6. touched'[k] = touched[k] /\ touched'[k] \in SUBSET Targets
  BY <1>4 DEF QueueInv, TypeOK
<1>7. Moves(k)
  <2>1. Progress(k) = "begun"
    BY <1>1, <1>2, <1>3, <1>6, Reading
  <2>2. SameFlag(k)
    BY <1>3, <1>6, Reading DEF SameFlag
  <2>3. /\ For(k) = jobs[k].targets /\ For(k)' = For(k)
        /\ Tried(k) = touched[k] /\ Tried(k)' = touched'[k]
        /\ Has(k) = {u \in Targets : jobs[k].results[u].ok + jobs[k].results[u].bad > 0}
        /\ Has(k)' = {u \in Targets : r.results[u].ok + r.results[u].bad > 0}
    BY <1>3, <1>6, Reading
  <2>4. Tried(k)' = Tried(k) /\ Has(k)' = Has(k)
    BY <1>3, <1>6, <2>3
  <2>5. CASE jobs[k].cancel
    <3>1. r.status = "cancelled"
      BY <1>3, <2>5 DEF Verdict
    <3>2. Progress(k)' = "cancelled"
      BY <1>3, <1>6, <3>1, Reading
    <3>3. Asked(k)
      BY <1>3, <1>6, <2>5, Reading
    <3> QED BY <2>1, <2>2, <2>3, <2>4, <3>2, <3>3 DEF Moves
  <2>6. CASE ~jobs[k].cancel
    <3>1. r.status \in {"completed", "error"}
      BY <1>3, <2>6 DEF Verdict
    <3>2. Progress(k)' = "done"
      BY <1>3, <1>6, <3>1, Reading
    <3>3. ~Asked(k)
      BY <1>3, <1>6, <2>6, Reading
    <3>4. \A t \in Targets : task[t] = "none"
      BY DEF EndJob, Busy, TargetsIn, QueueInv, TypeOK
    <3>5. \A t \in jobs[k].targets : t \in Targets /\ HasResult(k, t)
      <4>1. jobs[k].targets \subseteq Targets
        BY IsJob DEF QueueInv, TypeOK, Job
      <4> QED BY <1>1, <1>2, <2>6, <3>4, <4>1 DEF QueueInv, NoTargetSkipped
    <3>6. For(k) \subseteq Has(k)
      BY <2>3, <3>5 DEF HasResult
    <3> QED BY <2>1, <2>2, <2>3, <2>4, <3>2, <3>3, <3>6 DEF Moves
  <2> QED BY <2>5, <2>6
<1> QED BY <1>3, <1>4, <1>5, <1>7, WrittenJob

\* Time is none of the ledger's business.
LEMMA TickStep ==
  ASSUME QueueInv, QueueInv', WorksOnTargets, Tick
  PROVE  WorksOnTargets' /\ [Ledger!Next]_Ledger!vars
<1>1. /\ Len(jobs') = Len(jobs)
      /\ \A j \in JobIds : jobs'[j] = [jobs[j] EXCEPT !.lease = Countdown(@)]
  BY TickEffect DEF QueueInv
<1>2. UNCHANGED <<touched, phase, claimed, task>> /\ JobIds' = JobIds
  BY <1>1 DEF Tick, worker, JobIds
<1>3. \A j \in JobIds : jobs[j] \in Job
  BY IsJob DEF QueueInv, TypeOK
<1>4. \A j \in JobIds : jobs'[j].status = jobs[j].status /\ jobs'[j].targets = jobs[j].targets
                        /\ jobs'[j].results = jobs[j].results
  BY <1>1, <1>3 DEF Job
<1>5. \A j \in JobIds : jobs'[j].cancel = jobs[j].cancel
  BY <1>1, <1>3 DEF Job
<1>6. WorksOnTargets'
  BY <1>1, <1>2, <1>4, WorksOn DEF WorksOnTargets
<1>7. \A j \in Slots : Same(j)
  <2>1. \A j : Progress(j)' = Progress(j) /\ For(j)' = For(j) /\ Tried(j)' = Tried(j)
    BY <1>2, <1>4 DEF Progress, For, Tried
  <2>2. \A j : SameFlag(j)
    BY <1>2, <1>5 DEF SameFlag, Asked
  <2>3. \A j : Has(j)' = Has(j)
    BY <1>2, <1>4 DEF Has, HasResult
  <2> QED BY <2>1, <2>2, <2>3 DEF Same
<1> QED BY <1>6, <1>7, InSlots, InSlotsAfter, NoJobMoves

\* The whole next-state relation.
LEMMA NextLedger ==
  ASSUME QueueInv, QueueInv', WorksOnTargets, [Next]_vars
  PROVE  WorksOnTargets' /\ [Ledger!Next]_Ledger!vars
<1>1. CASE Operator
  <2>1. ASSUME NEW j \in JobIds
        PROVE  jobs[j].targets \in SUBSET Targets \ {{}} /\ jobs[j].policy \in Policies
    BY IsJob DEF QueueInv, TypeOK, Job
  <2>2. CASE Create
    BY <2>2, EnqueueStep DEF Create
  <2>3. ASSUME NEW j \in JobIds, RetryJob(j) PROVE WorksOnTargets' /\ [Ledger!Next]_Ledger!vars
    <3>1. PICK T \in SUBSET Targets \ {{}} : Enqueue(T, jobs[j].policy)
      BY <2>1, <2>3 DEF RetryJob, Failures
    <3> QED BY <2>1, <3>1, EnqueueStep
  <2>4. ASSUME NEW j \in JobIds, DuplicateJob(j) PROVE WorksOnTargets' /\ [Ledger!Next]_Ledger!vars
    BY <2>1, <2>4, EnqueueStep DEF DuplicateJob
  <2> QED BY <1>1, <2>2, <2>3, <2>4, CancelStep DEF Operator
<1>2. ASSUME NEW t \in Targets, Wake(t) PROVE WorksOnTargets' /\ [Ledger!Next]_Ledger!vars
  <2>1. /\ UNCHANGED <<jobs, touched, phase, claimed>>
        /\ \A u \in Targets : task'[u] # "none" => task[u] # "none"
    BY <1>2 DEF Wake, QueueInv, TypeOK
  <2> QED BY <2>1, QuietStep
<1>3. CASE ListConnections \/ NothingToClaim \/ Crash \/ Restart \/ ChangeConnections \/ UNCHANGED vars
  <2>1. /\ UNCHANGED <<jobs, touched>>
        /\ phase' = "running" => UNCHANGED <<phase, claimed, task>>
    BY <1>3 DEF ListConnections, NothingToClaim, Crash, Restart, ChangeConnections, vars, worker
  <2> QED BY <2>1, QuietStep
<1> QED
  BY <1>1, <1>2, <1>3, ClaimStep, EndJobStep, StartStep, FinishStep, FailedStep, TickStep
  DEF Next, WorkerStep, Ends

\* In the beginning there is no job.
LEMMA InitLedger == Init => WorksOnTargets /\ Ledger!Init
<1> SUFFICES ASSUME Init PROVE WorksOnTargets /\ Ledger!Init
  OBVIOUS
<1>1. Len(jobs) = 0 /\ JobIds = {}
  BY EmptySeq DEF Init, JobIds
<1>2. WorksOnTargets
  BY <1>1, OperationsAssumption DEF Init, WorksOnTargets
<1>3. \A j : Progress(j) = "absent"
  BY <1>1 DEF Progress
<1> QED BY <1>1, <1>2, <1>3 DEF Ledger!Init

\* Whatever its workers go through, the queue keeps its promise of every job: it ends
\* once, withdrawn untried, cancelled as was asked, or with an outcome for every target.
THEOREM QueueImplementsLedger == Spec => ImplementsLedger
<1>1. QueueInv /\ QueueInv' /\ WorksOnTargets /\ [Next]_vars
        => WorksOnTargets' /\ [Ledger!Next]_Ledger!vars
  BY NextLedger
<1> QED
  BY <1>1, QueueInvariant, InitLedger, PTL DEF Spec, ImplementsLedger, Ledger!Spec
=============================================================================
