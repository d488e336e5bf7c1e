SPECIFICATION Spec
CONSTANTS
    g = g
    a = a
    b = b
    c = c
    k = k
    d = d
    e = e
    y = y
    z = z
    p1 = p1
    p2 = p2
    Tx <- MCTx
    Base <- MCBase
    Generated <- MCGenerated
    Zerocoin <- MCZerocoin
    Outpoint <- MCOutpoint
    Source <- MCSource
    Ins <- MCIns
    Serial <- MCSerial
    Peer <- MCPeer
    Maturity = 2
    MaxOrphans = 2
    MaxBlocks = 3
    BlockSize = 2
SYMMETRY MCSymmetry
INVARIANTS
    TypeOK
    NextTxExact
    InputsAvailable
    InputsMature
    OrphanIndexExact
    OrphansTried
PROPERTIES
    LeavesForReason
