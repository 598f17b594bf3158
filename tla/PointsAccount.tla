----------------------------- MODULE PointsAccount -----------------------------
(***************************************************************************)
(* What the points service promises a caller: one number per player and    *)
(* server that every call changes in a single indivisible step.            *)
(* PointsService::addPoints adds unconditionally (the result may be         *)
(* negative); PointsService::deductPoints takes the amount only from a      *)
(* balance that covers it (points_service.h:16-27).                         *)
(***************************************************************************)
EXTENDS Integers

CONSTANTS
    Keys,        \* the (server, player) pairs that can own points
    AddAmounts,  \* the amounts addPoints is called with, of either sign
    DeductAmounts \* the positive amounts deductPoints is called with

VARIABLE account

AccountInit == account \in [Keys -> Int]

\* addPoints: no balance is too small for it.
Credit(k, a) == account' = [account EXCEPT ![k] = @ + a]

\* deductPoints: the balance it takes from covers the amount.
Debit(k, a) ==
    /\ account[k] >= a
    /\ account' = [account EXCEPT ![k] = @ - a]

AccountNext ==
    \E k \in Keys :
        \/ \E a \in AddAmounts : Credit(k, a)
        \/ \E a \in DeductAmounts : Debit(k, a)

AccountSpec == AccountInit /\ [][AccountNext]_account
================================================================================
