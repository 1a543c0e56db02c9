SPECIFICATION FairSpec
CONSTANTS
    Workers = {w1, w2}
    sweep = sweep
    plain = plain
    Tasks = {sweep, plain}
    Steps <- MCSteps
    NoTask = NoTask
    MaxWaiting = 1
INVARIANTS ThreadsInv ResultsInOrder PollerStopsAtOnce
PROPERTIES TaskRuns WorkersStop PoolSpec
