------------------------------ MODULE MCTkForgive ------------------------------
(***************************************************************************)
(* Small instances of TkForgive.                                            *)
(***************************************************************************)
EXTENDS TkForgive, TLC

MCSymmetry == Permutations(Threads)
================================================================================
