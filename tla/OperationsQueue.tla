--------------------------- MODULE OperationsQueue ---------------------------
(***************************************************************************)
(* The persistent queue of bulk operations (services/operations.py): jobs  *)
(* created, cancelled, retried and duplicated by operators, claimed one at *)
(* a time by the OperationWorker, whose targets run concurrently, each     *)
(* with its own retries, and re-claimed after a crash once their lease has *)
(* expired.                                                                *)
(*                                                                         *)
(* A job is its place in the store, which is the order of createdAt.  Its  *)
(* results are counted per target: a re-claimed job may hold several for   *)
(* the same one.  leaseExpiresAt is a countdown, zero once it has expired. *)
(*                                                                         *)
(* A definition named X_Fault, before X, is X with a bug in it: no part of *)
(* the model, it is what shows that a property can tell.                   *)
(***************************************************************************)
EXTENDS Integers, Sequences, FiniteSets, FiniteSetsExt

CONSTANTS
  Targets,         \* connection names
  Policies,        \* values of policy.maxAttempts an operator asks for
  Backoff,         \* policy.backoff of every job
  Concurrency,     \* operations_target_concurrency
  LeaseTime,       \* the 120 s lease
  MaxJobs,         \* bound on the jobs created
  MaxCrashes,      \* bound on process deaths
  MaxChanges       \* bound on connections appearing and disappearing

ASSUME OperationsAssumption ==
  /\ IsFiniteSet(Targets)
  /\ Policies \subseteq {0, 1, 3}
  /\ Backoff \in BOOLEAN
  /\ {Concurrency, LeaseTime, MaxJobs} \subseteq Nat \ {0}
  /\ {MaxCrashes, MaxChanges} \subseteq Nat

VARIABLES
  jobs,        \* the store: sequence of jobs
  touched,     \* per job: targets for which reconnect was ever requested
  connections, \* connections the runtime can reconnect
  phase,       \* the worker: "down", "listing", "claiming", "running"
  snapshot,    \* connections listed at the start of the worker's tick
  claimed,     \* index of the job being run, 0 if none
  task,        \* Targets -> state of its run_target coroutine
  attempt,     \* Targets -> attempts made, the current one included
  crashes,     \* process deaths so far
  changes      \* changes of connections so far

worker == <<phase, snapshot, claimed, task, attempt>>
bounds == <<crashes, changes>>
vars == <<jobs, touched, connections, worker, bounds>>

Statuses == {"pending", "running", "retrying", "completed", "error", "cancelled"}
Count == [ok : Nat, bad : Nat]
Job == [status : Statuses, targets : SUBSET Targets \ {{}}, policy : Policies,
        cancel : BOOLEAN, results : [Targets -> Count], lease : 0 .. LeaseTime]

JobIds == 1 .. Len(jobs)
Terminal(job) == job.status \in {"completed", "error", "cancelled"}
TargetsIn(state) == {t \in Targets : task[t] = state}
Busy == TargetsIn("executing") \cup TargetsIn("sleeping")

TypeOK ==
  /\ jobs \in Seq(Job)
  /\ touched \in [JobIds -> SUBSET Targets]
  /\ connections \subseteq Targets
  /\ phase \in {"down", "listing", "claiming", "running"}
  /\ snapshot \subseteq Targets
  /\ claimed \in 0 .. Len(jobs)
  /\ task \in [Targets -> {"none", "waiting", "executing", "sleeping"}]
  /\ attempt \in [Targets -> Nat]
  /\ crashes \in 0 .. MaxCrashes
  /\ changes \in 0 .. MaxChanges

Idle ==
  /\ snapshot = {}
  /\ claimed = 0
  /\ task = [t \in Targets |-> "none"]
  /\ attempt = [t \in Targets |-> 0]

Init ==
  /\ jobs = <<>>
  /\ touched = <<>>
  /\ connections = Targets
  /\ phase = "listing"
  /\ Idle
  /\ crashes = 0
  /\ changes = 0

-----------------------------------------------------------------------------
(* Operators' requests.                                                    *)

NoResults == [t \in Targets |-> [ok |-> 0, bad |-> 0]]
NewJob(T, policy) ==
  [status |-> "pending", targets |-> T, policy |-> policy, cancel |-> FALSE,
   results |-> NoResults, lease |-> 0]

Enqueue(T, policy) ==
  /\ Len(jobs) < MaxJobs
  /\ jobs' = Append(jobs, NewJob(T, policy))
  /\ touched' = Append(touched, {})
  /\ UNCHANGED <<connections, worker, bounds>>

Create == \E T \in SUBSET Targets \ {{}}, p \in Policies : Enqueue(T, p)

\* The failed targets of a job.
Failures(job) == {t \in job.targets : job.results[t].bad > 0}

\* retry_job: a new job for the failed targets or, if there are none, for all.
RetryJob(j) ==
  Enqueue(IF Failures(jobs[j]) # {} THEN Failures(jobs[j]) ELSE jobs[j].targets,
          jobs[j].policy)

DuplicateJob(j) == Enqueue(jobs[j].targets, jobs[j].policy)

\* cancel_job: at once if nobody has claimed the job, by a flag if it runs.
Cancel_Unflagged(j) ==
  /\ ~Terminal(jobs[j])
  /\ jobs' = [jobs EXCEPT ![j].status = "cancelled"]
  /\ UNCHANGED <<touched, connections, worker, bounds>>
Cancel(j) ==
  /\ \/ /\ jobs[j].status = "pending"
        /\ jobs' = [jobs EXCEPT ![j].status = "cancelled"]
     \/ /\ jobs[j].status \in {"running", "retrying"}
        /\ ~jobs[j].cancel
        /\ jobs' = [jobs EXCEPT ![j].cancel = TRUE]
  /\ UNCHANGED <<touched, connections, worker, bounds>>

-----------------------------------------------------------------------------
(* The worker's tick: list the connections, claim a job, run its targets.  *)

\* The runtime answers the listing; what it says is used for the whole job.
ListConnections ==
  /\ phase = "listing"
  /\ snapshot' = connections
  /\ phase' = "claiming"
  /\ UNCHANGED <<jobs, touched, connections, claimed, task, attempt, bounds>>

\* Pending, or left running by a process that died.  A job that is retrying is
\* neither.
Claimable_PendingOnly(j) == jobs[j].status = "pending"
Claimable(j) ==
  \/ jobs[j].status = "pending"
  \/ jobs[j].status = "running" /\ jobs[j].lease = 0

\* The oldest claimable job.
Selected(j) == Claimable(j) /\ \A i \in JobIds : i < j => ~Claimable(i)

\* All its targets are run, those that already have a result included.
Claim(j) ==
  /\ phase = "claiming"
  /\ Selected(j)
  /\ jobs' = [jobs EXCEPT ![j].status = "running", ![j].lease = LeaseTime]
  /\ claimed' = j
  /\ phase' = "running"
  /\ task' = [t \in Targets |-> IF t \in jobs[j].targets THEN "waiting" ELSE "none"]
  /\ UNCHANGED <<touched, connections, snapshot, attempt, bounds>>

NothingToClaim ==
  /\ phase = "claiming"
  /\ \A j \in JobIds : ~Claimable(j)
  /\ phase' = "listing"
  /\ snapshot' = {}
  /\ UNCHANGED <<jobs, touched, connections, claimed, task, attempt, bounds>>

\* run_target gets its turn at the semaphore, which it holds while it backs off,
\* and starts its first attempt.  A target that was not listed is not requested.
\* Nothing looks at the cancel flag here.
Start(t) ==
  /\ task[t] = "waiting"
  /\ Cardinality(Busy) < Concurrency
  /\ task' = [task EXCEPT ![t] = "executing"]
  /\ attempt' = [attempt EXCEPT ![t] = 1]
  /\ touched' = IF t \in snapshot THEN [touched EXCEPT ![claimed] = @ \cup {t}] ELSE touched
  /\ UNCHANGED <<jobs, connections, phase, snapshot, claimed, bounds>>

Counted(count, ok) ==
  IF ok THEN [count EXCEPT !.ok = @ + 1] ELSE [count EXCEPT !.bad = @ + 1]

\* _append_result: nothing is recorded of a job whose cancellation was asked.
AppendResult(t, ok) ==
  IF jobs[claimed].cancel
    THEN UNCHANGED jobs
    ELSE jobs' = [jobs EXCEPT ![claimed].lease = LeaseTime,
                              ![claimed].results[t] = Counted(@, ok)]

\* The attempt ends and needs no other, or no other is left: its result is kept.
Finish(t, ok) ==
  /\ task[t] = "executing"
  /\ ok => t \in snapshot
  /\ ok \/ attempt[t] > jobs[claimed].policy
  /\ AppendResult(t, ok)
  /\ task' = [task EXCEPT ![t] = "none"]
  /\ UNCHANGED <<touched, connections, phase, snapshot, claimed, attempt, bounds>>

\* The attempt fails and another is left.  _mark_retrying ends the target, without
\* a result, if the job's cancellation was asked; otherwise it marks the job
\* retrying, which nothing reverts while the job runs, and the target backs off or
\* tries again at once.
Failed(t) ==
  /\ task[t] = "executing"
  /\ attempt[t] <= jobs[claimed].policy
  /\ \/ /\ jobs[claimed].cancel
        /\ task' = [task EXCEPT ![t] = "none"]
        /\ UNCHANGED <<jobs, attempt>>
     \/ /\ ~jobs[claimed].cancel
        /\ jobs' = [jobs EXCEPT ![claimed].status = "retrying"]
        /\ task' = [task EXCEPT ![t] = IF Backoff THEN "sleeping" ELSE "executing"]
        /\ attempt' = [attempt EXCEPT ![t] = @ + 1]
  /\ UNCHANGED <<touched, connections, phase, snapshot, claimed, bounds>>

Wake(t) ==
  /\ task[t] = "sleeping"
  /\ task' = [task EXCEPT ![t] = "executing"]
  /\ UNCHANGED <<jobs, touched, connections, phase, snapshot, claimed, attempt, bounds>>

Errors(job) == MapThenSumSet(LAMBDA t : job.results[t].bad, Targets)

\* The status a run ends with: errors are counted over all results, against the
\* number of targets.
Verdict_AnyError(job) ==
  IF job.cancel THEN "cancelled" ELSE IF Errors(job) > 0 THEN "error" ELSE "completed"
Verdict(job) ==
  IF job.cancel THEN "cancelled"
  ELSE IF Errors(job) = Cardinality(job.targets) THEN "error" ELSE "completed"

\* Every target is done: the last write, and the next tick.
EndJob ==
  /\ phase = "running"
  /\ TargetsIn("waiting") \cup Busy = {}
  /\ jobs' = [jobs EXCEPT ![claimed].status = Verdict(jobs[claimed]), ![claimed].lease = 0]
  /\ phase' = "listing"
  /\ snapshot' = {}
  /\ claimed' = 0
  /\ attempt' = [t \in Targets |-> 0]
  /\ UNCHANGED <<touched, connections, task, bounds>>

-----------------------------------------------------------------------------
(* The process, the clock and the connections.                             *)

\* The process dies or is stopped; the store stays as it was.
Crash ==
  /\ phase # "down"
  /\ crashes < MaxCrashes
  /\ crashes' = crashes + 1
  /\ phase' = "down"
  /\ snapshot' = {}
  /\ claimed' = 0
  /\ task' = [t \in Targets |-> "none"]
  /\ attempt' = [t \in Targets |-> 0]
  /\ UNCHANGED <<jobs, touched, connections, changes>>

Restart ==
  /\ phase = "down"
  /\ phase' = "listing"
  /\ UNCHANGED <<jobs, touched, connections, snapshot, claimed, task, attempt, bounds>>

Countdown(n) == IF n = 0 THEN 0 ELSE n - 1

\* A lease only runs out: a job that outlives it is still run.
Tick ==
  /\ \E j \in JobIds : jobs[j].lease > 0
  /\ jobs' = [j \in JobIds |-> [jobs[j] EXCEPT !.lease = Countdown(@)]]
  /\ UNCHANGED <<touched, connections, worker, bounds>>

\* A connection is created or deleted.
ChangeConnections ==
  /\ changes < MaxChanges
  /\ changes' = changes + 1
  /\ \E t \in Targets :
       connections' = IF t \in connections THEN connections \ {t} ELSE connections \cup {t}
  /\ UNCHANGED <<jobs, touched, worker, crashes>>

Operator == Create \/ \E j \in JobIds : RetryJob(j) \/ DuplicateJob(j) \/ Cancel(j)

Ends(t) == (\E ok \in BOOLEAN : Finish(t, ok)) \/ Failed(t)

WorkerStep ==
  \/ ListConnections
  \/ \E j \in JobIds : Claim(j)
  \/ NothingToClaim
  \/ EndJob

Next ==
  \/ Operator
  \/ WorkerStep
  \/ \E t \in Targets : Start(t) \/ Ends(t) \/ Wake(t)
  \/ Crash
  \/ Restart
  \/ Tick
  \/ ChangeConnections

Spec == Init /\ [][Next]_vars

\* The worker's loop and the coroutines of its job are scheduled, a provider
\* call ends, a process that died is started again, and time passes.
Fairness ==
  /\ WF_vars(WorkerStep)
  /\ \A t \in Targets : WF_vars(Start(t)) /\ WF_vars(Ends(t)) /\ WF_vars(Wake(t))
  /\ WF_vars(Restart)
  /\ WF_vars(Tick)

FairSpec == Spec /\ Fairness

-----------------------------------------------------------------------------
(* Properties.                                                             *)

HasResult(j, t) == jobs[j].results[t].ok + jobs[j].results[t].bad > 0

\* A job that ended by itself has an outcome for each of its targets, whatever
\* crashes and re-claims it went through: no target is skipped because an earlier
\* run had begun it (_run_job, _append_result).
EndedIsComplete ==
  \A j \in JobIds :
    jobs[j].status \in {"completed", "error"} =>
      \A t \in jobs[j].targets : HasResult(j, t)

\* A job that no crash disturbed has exactly one result for each target, however
\* many attempts the target took, and its verdict is that of its results: error
\* if every target failed, completed if one did not (_run_job, _progress).
VerdictIsTrue ==
  \A j \in JobIds :
    crashes = 0 /\ jobs[j].status \in {"completed", "error"} =>
      /\ \A t \in jobs[j].targets : jobs[j].results[t].ok + jobs[j].results[t].bad = 1
      /\ jobs[j].status = "error" <=> \A t \in jobs[j].targets : jobs[j].results[t].ok = 0

\* A cancellation that was accepted is never outrun: a job whose cancellation was
\* asked ends cancelled and in no other way, and one that was withdrawn before it
\* was claimed never reaches the provider (cancel_job, _claim_next, _run_job).
CancellationHolds ==
  \A j \in JobIds :
    /\ jobs[j].cancel => jobs[j].status \in {"running", "retrying", "cancelled"}
    /\ jobs[j].status = "cancelled" /\ ~jobs[j].cancel => touched[j] = {}

\* The inductive invariant behind CancellationHolds and EndedIsComplete. While the
\* worker runs, it runs a job of the store that nobody else has ended; an unclaimed
\* job is untouched; a job that ended, or has not begun, holds no lease; of a
\* job being run, each target is still at work or has its result.
ClaimedIsRunning ==
  IF phase = "running"
    THEN claimed \in JobIds /\ jobs[claimed].status \in {"running", "retrying"}
    ELSE claimed = 0 /\ \A t \in Targets : task[t] = "none"

UnclaimedIsUntouched ==
  \A j \in JobIds : jobs[j].status = "pending" => ~jobs[j].cancel /\ touched[j] = {}

RestingHasNoLease ==
  \A j \in JobIds : jobs[j].status \notin {"running", "retrying"} => jobs[j].lease = 0

NoTargetSkipped ==
  phase = "running" /\ ~jobs[claimed].cancel =>
    \A t \in jobs[claimed].targets : task[t] = "none" => HasResult(claimed, t)

QueueInv ==
  /\ TypeOK
  /\ ClaimedIsRunning
  /\ UnclaimedIsUntouched
  /\ RestingHasNoLease
  /\ NoTargetSkipped
  /\ EndedIsComplete
  /\ CancellationHolds

\* Nothing of a job changes once it has ended, and nothing is recorded of it once
\* its cancellation was asked (_append_result, _mark_retrying).
EndedIsFinal ==
  [][\A j \in JobIds :
       /\ Terminal(jobs[j]) => jobs'[j] = jobs[j]
       /\ jobs[j].cancel => jobs'[j].cancel /\ jobs'[j].results = jobs[j].results]_vars

\* What the queue promises whoever created a job: it is never lost, tries nothing but
\* its targets, and ends once, withdrawn before anything was tried, cancelled as was
\* asked, or with an outcome for every target, whatever workers die or claim it again
\* (OperationService.cancel_job, OperationWorker._claim_next, _run_job, _append_result).
Progress(j) ==
  CASE j \notin JobIds -> "absent"
    [] j \in JobIds /\ jobs[j].status = "pending" -> "waiting"
    [] j \in JobIds /\ jobs[j].status \in {"running", "retrying"} -> "begun"
    [] j \in JobIds /\ jobs[j].status \in {"completed", "error"} -> "done"
    [] j \in JobIds /\ jobs[j].status = "cancelled" -> "cancelled"

Ledger == INSTANCE JobLedger WITH
  Jobs <- 1 .. MaxJobs,
  state <- [j \in 1 .. MaxJobs |-> Progress(j)],
  targets <- [j \in 1 .. MaxJobs |-> IF j \in JobIds THEN jobs[j].targets ELSE {}],
  asked <- {j \in JobIds : jobs[j].cancel},
  tried <- [j \in 1 .. MaxJobs |-> IF j \in JobIds THEN touched[j] ELSE {}],
  told <- [j \in 1 .. MaxJobs |->
             IF j \in JobIds THEN {t \in Targets : HasResult(j, t)} ELSE {}]

ImplementsLedger == Ledger!Spec

\* What QueueInv leaves open for that: the store is within its bound, and the worker
\* works on targets of the job it runs.
WorksOnTargets ==
  /\ Len(jobs) <= MaxJobs
  /\ phase = "running" => \A t \in Targets : task[t] # "none" => t \in jobs[claimed].targets

\* Every job that was accepted is brought to an end, over crashes and retries,
\* unless a process died while it was retrying: no worker ever claims it again
\* (_claim_next, _run_job).
Stranded(j) == jobs[j].status = "retrying" /\ claimed # j /\ crashes > 0
EveryJobEndsOrStrands ==
  \A j \in 1 .. MaxJobs :
    (j \in JobIds /\ ~Terminal(jobs[j])) ~> (j \in JobIds /\ (Terminal(jobs[j]) \/ Stranded(j)))

\* Every job that was accepted is brought to an end.
EveryJobEnds ==
  \A j \in 1 .. MaxJobs :
    (j \in JobIds /\ ~Terminal(jobs[j])) ~> (j \in JobIds /\ Terminal(jobs[j]))
=============================================================================
