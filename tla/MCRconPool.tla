------------------------------- MODULE MCRconPool -------------------------------
(***************************************************************************)
(* A small instance of RconPool: no symmetry, because it is checked for      *)
(* liveness.                                                                *)
(***************************************************************************)
EXTENDS RconPool
================================================================================
