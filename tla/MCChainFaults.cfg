SPECIFICATION Spec
CONSTANTS
    g = g
    a1 = a1
    a2 = a2
    b1 = b1
    b2 = b2
    b3 = b3
    c2 = c2
    t1 = t1
    t2 = t2
    Blocks <- Small
    Genesis = g
    Parent <- SmallParent
    Anc <- SmallAnc
    Work <- SmallWork
    Addr <- SmallWork
    Bad <- NoBlock
    Contextual <- JustA1
    FailsCheck <- JustB2
    Damaged <- NoBlock
    Checkpoints <- JustB1
    Resubmitted <- JustB1
    Threads <- TwoThreads
    NoThread = NoThread
    ReplayDepth = 1
    Commands <- AnyCommand
    MaxOps = 1
    Faults <- AnyFault
INVARIANT TypeOK
PROPERTY CoinsFollowTip
SYMMETRY Interchangeable
