---------------------------- MODULE MCCacheService ----------------------------
(* Instances of CacheService for TLC: one thread of two messages, one label, *)
(* one memoised query.                                                       *)
EXTENDS CacheService, TLC

CONSTANTS m1, m2, t1, l1, r1, r2, bg, q1

OneThread == [m \in Messages |-> t1]
AllTasks == Readers \cup {Background}
MessageSymmetry == Permutations({m1, m2})
QuerySymmetry == MessageSymmetry \cup Permutations({r1, r2})
=============================================================================
