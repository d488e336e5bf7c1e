---------------------------- MODULE MCChainStore ----------------------------
(***************************************************************************)
(* ChainStore for model checking: a chain of two blocks, a lower branch    *)
(* and a refused block.  The blocks and their undo data differ in size.    *)
(* MaxFile leaves room for all of them, one after the other; a block that  *)
(* a crash left without record may take the place of another.              *)
(***************************************************************************)
EXTENDS ChainStore, TLC

CONSTANTS g, a1, a2, b1, r1

MCBlocks == {g, a1, a2, b1, r1}
MCParent == a1 :> g @@ a2 :> a1 @@ b1 :> g @@ r1 :> g
MCAnc == g :> {g} @@ a1 :> {g, a1} @@ a2 :> {g, a1, a2} @@ b1 :> {g, b1}
         @@ r1 :> {g, r1}
InOrder == g :> 0 @@ a1 :> 1 @@ a2 :> 2 @@ b1 :> 3 @@ r1 :> 4
Reversed == [b \in MCBlocks |-> 4 - InOrder[b]]
MCAddresses == {InOrder, Reversed}
MCSize == [b \in MCBlocks |-> IF b = a2 THEN 2 ELSE 1]
MCUndoSize == [b \in MCBlocks |-> IF b = a1 THEN 2 ELSE 1]
=============================================================================
