------------------------------ MODULE FlatCoins -----------------------------
(***************************************************************************)
(* What the layers of coin views promise: three sets of unspent outputs,   *)
(* each with the block it belongs to.  A block is connected or             *)
(* disconnected in a working copy of the tip's set, which is kept as a     *)
(* whole or not at all, and a crash goes back to what was last written.  A *)
(* write that fails loses the tip's coins and leaves it its block.         *)
(***************************************************************************)
CONSTANTS Txs, Outs, Blocks, NullHash

VARIABLES
    disk,   \* the set in the database
    tip,    \* the set at the tip of the chain
    work,   \* the working copy, equal to tip when there is none
    open    \* there is a working copy

vars == <<disk, tip, work, open>>

Nothing == [coins |-> [t \in Txs |-> {}], best |-> NullHash]

Init == disk = Nothing /\ tip = Nothing /\ work = Nothing /\ open = FALSE

Open == ~open /\ open' = TRUE /\ UNCHANGED <<disk, tip, work>>

Change ==
    /\ open
    /\ \/ \E t \in Txs, v \in SUBSET Outs : work' = [work EXCEPT !.coins[t] = v]
       \/ \E b \in Blocks : work' = [work EXCEPT !.best = b]
    /\ UNCHANGED <<disk, tip, open>>

Keep == open /\ open' = FALSE /\ tip' = work /\ UNCHANGED <<disk, work>>

Drop == open /\ open' = FALSE /\ work' = tip /\ UNCHANGED <<disk, tip>>

Write == ~open /\ disk' = tip /\ UNCHANGED <<tip, work, open>>

WriteFails ==
    /\ ~open
    /\ tip' = [tip EXCEPT !.coins = disk.coins]
    /\ work' = tip'
    /\ UNCHANGED <<disk, open>>

Crash == tip' = disk /\ work' = disk /\ open' = FALSE /\ UNCHANGED disk

Next == Open \/ Change \/ Keep \/ Drop \/ Write \/ WriteFails \/ Crash

Spec == Init /\ [][Next]_vars
=============================================================================
