---------------------------- MODULE MCLocalLogTailer ----------------------------
(***************************************************************************)
(* Small instances of LocalLogTailer.                                       *)
(***************************************************************************)
EXTENDS LocalLogTailer
================================================================================
