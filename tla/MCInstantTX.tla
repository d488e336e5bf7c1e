----------------------------- MODULE MCInstantTX -----------------------------
(***************************************************************************)
(* InstantTX for model checking: two requests that share an input, two     *)
(* masternodes, and one vote for another height.                           *)
(***************************************************************************)
EXTENDS InstantTX, TLC

CONSTANTS a, b, o1, o2, m1, m2

MCTx == {a, b}
MCOutpoint == {o1, o2}
MCIns == a :> {o1, o2} @@ b :> {o2}
MCRequests == {a, b}
MCMn == {m1, m2}
MCHeight == {1, 2}
MCBallots == MCMn \X MCRequests \X {1} \cup {<<m1, a, 2>>}
MCLockHeight == [t \in MCTx |-> 1]
=============================================================================
