SPECIFICATION Spec
CONSTANTS
    g = g
    a1 = a1
    a2 = a2
    b1 = b1
    b2 = b2
    b3 = b3
    c2 = c2
    t1 = t1
    t2 = t2
    Blocks <- Large
    Genesis = g
    Parent <- LargeParent
    Anc <- LargeAnc
    Work <- LargeWork
    Addr <- LargeWork
    Bad <- JustB2
    Contextual <- NoBlock
    FailsCheck <- NoBlock
    Damaged <- JustC2
    Checkpoints <- NoBlock
    Resubmitted <- B1B2
    Threads <- TwoThreads
    NoThread = NoThread
    ReplayDepth = 1
    Commands <- SafeCommands
    MaxOps = 1
    Faults <- WriteFault
INVARIANTS
    LinkedWhenComplete
    ArrivalOrder
    FailureHasCause
    CandidatesInRange
    ActiveChainValid
    BestIsCandidate
    CandidatesAtRest
    TipBestAtRest
PROPERTIES
    OrderFrozen
SYMMETRY Interchangeable
