----------------------------- MODULE MCPointsLedger -----------------------------
(***************************************************************************)
(* Small instances of PointsLedger.  The constant values that a .cfg file    *)
(* cannot write (negative numbers, sets of pairs) are definitions here.     *)
(***************************************************************************)
EXTENDS PointsLedger, TLC

CONSTANTS t1, t2, t3, s1, s2, p1, p2

\* The scoring table's shape: a kill earns, a team kill costs.
MCAddAmounts == {2, -1}
MCGrants == {3}
OneKey == {<<s1, p1>>}

\* Threads are interchangeable.
MCSymmetry == Permutations(Threads)
================================================================================
