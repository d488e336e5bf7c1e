---------------------------- MODULE BlockVerdict ----------------------------
(***************************************************************************)
(* What ConnectBlock asks of the script check queue: the checks it hands   *)
(* over for a block are all accounted for in one verdict, and nothing of   *)
(* one block reaches the verdict on the next.                              *)
(***************************************************************************)
CONSTANTS Checks, Bad

VARIABLES
    added,    \* checks handed over for the current block
    verdict   \* what the controller answered: "pending", "ok" or "failed"

vars == <<added, verdict>>

Init == added = {} /\ verdict = "ok"

Begin == verdict # "pending" /\ verdict' = "pending" /\ added' = {}

Add ==
    /\ verdict = "pending"
    /\ added' \in SUBSET Checks
    /\ added \subseteq added'
    /\ UNCHANGED verdict

Decide ==
    /\ verdict = "pending"
    /\ verdict' = IF added \cap Bad = {} THEN "ok" ELSE "failed"
    /\ UNCHANGED added

Next == Begin \/ Add \/ Decide

Spec == Init /\ [][Next]_vars
=============================================================================
