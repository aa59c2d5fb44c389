---------------------------- MODULE MCTokenManager ----------------------------
(* Instances of TokenManager for TLC: a handful of calls on one account.     *)
EXTENDS TokenManager, TLC

CONSTANTS c1, c2, c3

CallSymmetry == Permutations(Calls)
=============================================================================
