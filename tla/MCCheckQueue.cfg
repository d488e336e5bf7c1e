SPECIFICATION FairSpec
CONSTANTS
    c1 = c1
    c2 = c2
    c3 = c3
    c4 = c4
    w1 = w1
    w2 = w2
    Checks <- MCChecks
    Bad <- MCBad
    Workers <- MCWorkers
    Master = m
    BatchSize = 2
INVARIANTS
    TodoCounts
    VerdictRight
    IdleBetweenBlocks
PROPERTIES
    WaitReturns
    Implements
