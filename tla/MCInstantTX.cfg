SPECIFICATION Spec
CONSTANTS
    a = a
    b = b
    o1 = o1
    o2 = o2
    m1 = m1
    m2 = m2
    Tx <- MCTx
    Outpoint <- MCOutpoint
    Ins <- MCIns
    Requests <- MCRequests
    Mn <- MCMn
    Self = m2
    Ballots <- MCBallots
    Height <- MCHeight
    LockHeight <- MCLockHeight
    Required = 2
INVARIANTS
    TypeOK
    OneVoteEach
    LockBehindInput
PROPERTIES
    HolderStable
    LocksReleased
