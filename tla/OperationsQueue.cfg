\* Jobs with and without retries, cancelled at any point; the process may die once.
SPECIFICATION FairSpec
CONSTANTS
  t1 = t1
  t2 = t2
  Targets = {t1, t2}
  Policies = {1}
  Backoff = TRUE
  Concurrency = 2
  LeaseTime = 1
  MaxJobs = 2
  MaxCrashes = 1
  MaxChanges = 1
INVARIANT VerdictIsTrue
PROPERTIES ImplementsLedger EveryJobEndsOrStrands
