---------------------------- MODULE MCChainState ----------------------------
(***************************************************************************)
(* Block trees and constants for the runs of ChainState.                   *)
(*                                                                         *)
(*     g -- a1 -- a2                                                       *)
(*      \-- b1 -- b2 -- b3                                                 *)
(*            \-- c2                                                       *)
(***************************************************************************)
EXTENDS ChainState, TLC

CONSTANTS g, a1, a2, b1, b2, b3, c2, t1, t2

Small == {g, a1, a2, b1, b2, b3}
Large == Small \cup {c2}

ParentOf == (a1 :> g) @@ (a2 :> a1) @@ (b1 :> g) @@ (b2 :> b1) @@ (b3 :> b2)
            @@ (c2 :> b1)

HeightOf == (g :> 0) @@ (a1 :> 1) @@ (a2 :> 2) @@ (b1 :> 1) @@ (b2 :> 2)
            @@ (b3 :> 3) @@ (c2 :> 2)

SmallParent == [b \in Small \ {g} |-> ParentOf[b]]
LargeParent == [b \in Large \ {g} |-> ParentOf[b]]

\* The chain below each block, by height.
AncOf[b \in Large] == {b} \cup IF b = g THEN {} ELSE AncOf[ParentOf[b]]

SmallAnc == [b \in Small |-> AncOf[b]]
LargeAnc == [b \in Large |-> AncOf[b]]
SmallWork == [b \in Small |-> HeightOf[b]]
LargeWork == [b \in Large |-> HeightOf[b]]

OneThread == {t1}
TwoThreads == {t1, t2}
Interchangeable == Permutations(TwoThreads)

NoBlock == {}
JustA1 == {a1}
JustB1 == {b1}
JustB2 == {b2}
JustC2 == {c2}
ABlocks == {a1, a2}
B1B2 == {b1, b2}

NoCommand == {}
InvalidateReconsider == {"invalidate", "reconsider"}
SafeCommands == {"invalidate", "replay"}
AnyCommand == SafeCommands \cup {"genesis", "reconsider"}

NoFault == {}
WriteFault == {"write"}
StepFault == {"step"}
AnyFault == {"write", "step"}
=============================================================================
