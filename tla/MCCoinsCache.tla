---------------------------- MODULE MCCoinsCache ----------------------------
(***************************************************************************)
(* CoinsCache for model checking.                                          *)
(***************************************************************************)
EXTENDS CoinsCache, TLC

CONSTANTS t1, t2, o1, o2, b1, b2

MCTxs == {t1, t2}
MCOuts == {o1, o2}
MCBlocks == {b1, b2}
MCSymmetry == Permutations(MCTxs) \cup Permutations(MCOuts) \cup Permutations(MCBlocks)
=============================================================================
