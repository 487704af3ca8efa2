SPECIFICATION FairJobsSpec
CONSTANTS
    j1 = j1
    j2 = j2
    w1 = w1
    w2 = w2
    NoJob = NoJob
    Job = {j1, j2}
    Worker = {w1, w2}
    Modes = {"poll", "bull"}
    MaxAttempts = 2
    Crashes = 1
CHECK_DEADLOCK FALSE
INVARIANT OneRunner
INVARIANT GivenUpInTime
PROPERTY PolledJobsSettle
