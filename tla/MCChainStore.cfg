SPECIFICATION Spec
CONSTANTS
    g = g
    a1 = a1
    a2 = a2
    b1 = b1
    r1 = r1
    Blocks <- MCBlocks
    Genesis = g
    Parent <- MCParent
    Anc <- MCAnc
    Refused = {r1}
    Addresses <- MCAddresses
    Size <- MCSize
    UndoSize <- MCUndoSize
    MaxFile = 5
INVARIANTS
    TypeOK
    IndexCoversCoins
    IndexClosed
PROPERTIES
    StartsAgain
    ReplayExact
