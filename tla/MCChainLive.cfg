SPECIFICATION FairSpec
CONSTANTS
    g = g
    a1 = a1
    a2 = a2
    b1 = b1
    b2 = b2
    b3 = b3
    c2 = c2
    t1 = t1
    t2 = t2
    Blocks <- Small
    Genesis = g
    Parent <- SmallParent
    Anc <- SmallAnc
    Work <- SmallWork
    Addr <- SmallWork
    Bad <- JustB2
    Contextual <- NoBlock
    FailsCheck <- NoBlock
    Damaged <- NoBlock
    Checkpoints <- NoBlock
    Resubmitted <- NoBlock
    Threads <- TwoThreads
    NoThread = NoThread
    ReplayDepth = 1
    Commands <- InvalidateReconsider
    MaxOps = 1
    Faults <- NoFault
INVARIANTS
    TipBestAtRest
PROPERTIES
    ActivationEnds
    BetterBlockWins
