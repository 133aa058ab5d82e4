SPECIFICATION FairSpec
CONSTANTS
    Procs = {p1, p2}
    Users = {u1}
    MaxRuns = 2
    MaxCalls = 3
    MaxCrashes = 1
    MaxErrors = 1
 
INVARIANT OneActiveRun
INVARIANT ResumeContextComplete
INVARIANT CompletedRunForwarded
\* Calls are bounded: an idle system with no call left stops.
CHECK_DEADLOCK FALSE
