SPECIFICATION Spec
CONSTANTS
  Workers = {w1, w2}
  NoWorker = NoWorker
  Mails = {m1, m2}
  Resumed = {m2}
  Kinds = {"classification", "mail_decision"}
  EntryPoints = {"run_pending", "run_one"}
  MaxAttempts = 2
  Limit = 2
  MaxJobs = 2
  MaxCrashes = 1
SYMMETRY Symmetry
\* Registered jobs are bounded: an idle system whose jobs have ended stops.
CHECK_DEADLOCK FALSE
INVARIANTS ExecutionsBounded PendingResultHasJob NoLockCircle
PROPERTY ResultKept
