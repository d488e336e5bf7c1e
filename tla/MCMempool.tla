------------------------------ MODULE MCMempool ------------------------------
(***************************************************************************)
(* Mempool for model checking: a and its descendants b and c, a coinstake  *)
(* k that conflicts with a, d that spends the reward of k, two zerocoin    *)
(* spends of one serial number, and e, which conflicts with b and spends   *)
(* the output of one of them.                                              *)
(***************************************************************************)
EXTENDS Mempool, TLC

CONSTANTS g, a, b, c, k, d, e, y, z, p1, p2

MCTx == {g, a, b, c, k, d, e, y, z}
MCBase == {g}
MCGenerated == {k}
MCZerocoin == {y, z}
MCSource == "g0" :> g @@ "g1" :> g @@ "a0" :> a @@ "a1" :> a @@ "b0" :> b @@ "k0" :> k @@ "z0" :> z
MCOutpoint == DOMAIN MCSource
MCIns == g :> {} @@ a :> {"g0"} @@ b :> {"a0"} @@ c :> {"a1", "b0"}
         @@ k :> {"g0"} @@ d :> {"k0", "g1"} @@ e :> {"z0", "a0"}
         @@ y :> {} @@ z :> {}
MCSerial == [t \in MCTx |-> 1]
MCPeer == {p1, p2}
MCSymmetry == Permutations(MCPeer)
=============================================================================
