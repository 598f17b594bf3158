\* Two chat lines at a time and a crash; a code for points good for two
\* uses, one for a slot good for one, and one whose text is not in upper case.
CONSTANTS
    c1 = c1
    c2 = c2
    c3 = c3
    Threads = {t1, t2}
    Players = {p1, p2}
    Codes = {c1, c2, c3}
    MixedCase = {c3}
    SlotCodes = {c2}
    MaxUses <- MCMaxUses
    MaxChats = 4
    MaxCrashes = 1
SYMMETRY MCSymmetry
CHECK_DEADLOCK FALSE
SPECIFICATION Spec
INVARIANTS
    UsesBounded
    OncePerPlayer
