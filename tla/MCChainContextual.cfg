SPECIFICATION Spec
CONSTANTS
    g = g
    a1 = a1
    a2 = a2
    b1 = b1
    b2 = b2
    b3 = b3
    c2 = c2
    t1 = t1
    t2 = t2
    Blocks <- Small
    Genesis = g
    Parent <- SmallParent
    Anc <- SmallAnc
    Work <- SmallWork
    Addr <- SmallWork
    Bad <- JustB2
    Contextual <- ABlocks
    FailsCheck <- NoBlock
    Damaged <- NoBlock
    Checkpoints <- NoBlock
    Resubmitted <- NoBlock
    Threads <- OneThread
    NoThread = NoThread
    ReplayDepth = 1
    Commands <- NoCommand
    MaxOps = 1
    Faults <- NoFault
INVARIANTS
    TipBestAtRest
