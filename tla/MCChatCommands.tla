----------------------------- MODULE MCChatCommands -----------------------------
(***************************************************************************)
(* Small instances of ChatCommands.                                         *)
(***************************************************************************)
EXTENDS ChatCommands, TLC

\* The default costs in proportion: a slot costs more than a team change.
MCFreeLottery == [c \in AllCommands |->
    CASE c = "redeem" -> 3 [] c = "switch_team" -> 2 [] OTHER -> 0]

\* A team kill's points, and a reward's.
MCChanges == {-2, 1}

MCSymmetry == Permutations(Threads)
================================================================================
