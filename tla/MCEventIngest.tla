------------------------------ MODULE MCEventIngest ------------------------------
(***************************************************************************)
(* Small instances of EventIngest.                                          *)
(***************************************************************************)
EXTENDS EventIngest, TLC

CONSTANTS x1, x2

Said(marks, text) == [marks |-> marks, fits |-> TRUE, text |-> text]

\* A chat line, one whose text quotes the words of a join, a revive, and a line of
\* a kind nobody handles.
MCLogLines == {Said({"chat"}, x1), Said({"chat", "joinSucceeded"}, x1),
               Said({"revive"}, x1), Said({"tickRate"}, x1)}

\* Messages and revives; the camera; player lists; a line of a relay that has just
\* registered; registrations of two relays with two servers.
Budget(n, f, p, c) == [lines |-> n, flights |-> f, lists |-> p, codes |-> c]
MCBudgets == {Budget(3, 0, 0, 0), Budget(0, 4, 0, 0), Budget(0, 0, 3, 0), Budget(1, 0, 0, 2),
              Budget(0, 0, 0, 4)}

MCSymmetry == Permutations(Threads) \cup Permutations(Servers) \cup Permutations(Relays) \cup
    Permutations(Players)
================================================================================
