\* A crash strands a job that was retrying.
SPECIFICATION FairSpec
CONSTANTS
  t1 = t1
  t2 = t2
  Targets = {t1, t2}
  Policies = {0, 1}
  Backoff = FALSE
  Concurrency = 2
  LeaseTime = 1
  MaxJobs = 1
  MaxCrashes = 1
  MaxChanges = 0
PROPERTIES EveryJobEnds
