---------------------------- MODULE MCCheckQueue ----------------------------
(***************************************************************************)
(* CheckQueue for model checking: few checks, one of them bad.             *)
(***************************************************************************)
EXTENDS CheckQueue, TLC

CONSTANTS c1, c2, c3, c4, w1, w2

MCBad == {c1}
MCChecks == {c1, c2, c3, c4}
MCWorkers == {w1, w2}
=============================================================================
