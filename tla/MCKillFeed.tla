------------------------------- MODULE MCKillFeed -------------------------------
(***************************************************************************)
(* Small instances of KillFeed.                                             *)
(***************************************************************************)
EXTENDS KillFeed, TLC

CONSTANTS s1, p1, p2, p3

\* Two mates, and one who is not there yet.
MCTeams == [s \in Servers |-> [p \in Players |-> IF p = p2 THEN 0 ELSE 1]]

\* His name is a part of the name of one of them: his death can be taken for theirs.
MCSimilar == {<<p2, p3>>}

MCSymmetry == Permutations(Threads)
================================================================================
