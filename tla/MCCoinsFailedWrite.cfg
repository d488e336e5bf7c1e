SPECIFICATION Spec
CONSTANTS
    t1 = t1
    t2 = t2
    o1 = o1
    o2 = o2
    b1 = b1
    b2 = b2
    Txs <- MCTxs
    Outs <- MCOuts
    Blocks <- MCBlocks
    NullHash = null
SYMMETRY MCSymmetry
PROPERTY DiskTakesCommitted
