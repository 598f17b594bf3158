------------------------------- MODULE MCCdkRedeem -------------------------------
(***************************************************************************)
(* Small instances of CdkRedeem.                                            *)
(***************************************************************************)
EXTENDS CdkRedeem, TLC

CONSTANTS c1, c2, c3

\* One code is good for two uses.
MCMaxUses == [c \in Codes |-> IF c = c1 THEN 2 ELSE 1]

\* Threads and players are interchangeable.
MCSymmetry == Permutations(Threads) \cup Permutations(Players)
================================================================================
