-------------------------------- MODULE Induction --------------------------------
(* Induction over the natural numbers, stated about sets instead of predicates:   *)
(* the proofs about recursive definitions use it with the set of all numbers that *)
(* have the property in question.                                                 *)
EXTENDS Integers, WellFoundedInduction, TLAPS

Below == {p \in Nat \X Nat : p[1] < p[2]}

LEMMA BelowIsWellFounded == IsWellFoundedOn(Below, Nat)
<1>1. IsWellFoundedOn(OpToRel(<, Nat), Nat) BY NatLessThanWellFounded
<1>2. OpToRel(<, Nat) = Below BY DEF OpToRel, Below
<1> QED BY <1>1, <1>2

LEMMA LeastNumber == ASSUME NEW T \in SUBSET Nat, T # {}
                     PROVE  \E x \in T : \A y \in T : x <= y
<1>1. PICK x \in T : \A y \in T : <<y, x>> \notin Below BY BelowIsWellFounded, WFMin
<1>2. \A y \in T : <<y, x>> \in Below <=> y < x BY DEF Below
<1>3. \A y \in T : ~(y < x) BY <1>1, <1>2
<1>4. \A y \in T : x <= y BY <1>3
<1> QED BY <1>4

LEMMA GreatestNumber == ASSUME NEW m \in Nat, NEW T \in SUBSET (0 .. m), T # {}
                        PROVE  \E x \in T : \A y \in T : y <= x
<1> DEFINE U == {m - y : y \in T}
<1>1. U \in SUBSET Nat /\ U # {}
  <2>1. \A y \in T : m - y \in Nat OBVIOUS
  <2>2. U \subseteq Nat BY <2>1
  <2> QED BY <2>2
<1>2. PICK u \in U : \A v \in U : u <= v BY <1>1, LeastNumber
<1>3. PICK x \in T : u = m - x OBVIOUS
<1>4. ASSUME NEW y \in T PROVE y <= x
  <2>1. m - x <= m - y BY <1>2, <1>3
  <2> QED BY <2>1
<1> QED BY <1>4

LEMMA SetInduction == ASSUME NEW T, 0 \in T, \A n \in Nat : n \in T => n + 1 \in T
                      PROVE  Nat \subseteq T
<1> SUFFICES ASSUME Nat \ T # {} PROVE FALSE OBVIOUS
<1>1. PICK x \in Nat \ T : \A y \in Nat \ T : x <= y BY LeastNumber
<1>2. x # 0 BY <1>1
<1>3. x - 1 \in Nat BY <1>1, <1>2
<1>4. x - 1 \in T BY <1>1, <1>3
<1>5. x \in T BY <1>3, <1>4, <1>1
<1> QED BY <1>5, <1>1

(* The same up to a bound. *)
LEMMA BoundedInduction ==
  ASSUME NEW m \in Nat, NEW T, 0 \in T, \A n \in 0 .. m - 1 : n \in T => n + 1 \in T
  PROVE  0 .. m \subseteq T
<1> DEFINE U == {n \in Nat : n <= m => n \in T}
<1>1. 0 \in U OBVIOUS
<1>2. \A n \in Nat : n \in U => n + 1 \in U OBVIOUS
<1> HIDE DEF U
<1>3. Nat \subseteq U BY <1>1, <1>2, SetInduction
<1> QED BY <1>3 DEF U

(* With every smaller number to lean on. *)
LEMMA StrongInduction ==
  ASSUME NEW m \in Nat, NEW T, \A n \in 0 .. m : 0 .. n - 1 \subseteq T => n \in T
  PROVE  0 .. m \subseteq T
<1> SUFFICES ASSUME (0 .. m) \ T # {} PROVE FALSE OBVIOUS
<1>1. PICK x \in (0 .. m) \ T : \A y \in (0 .. m) \ T : x <= y
  <2>1. (0 .. m) \ T \in SUBSET Nat OBVIOUS
  <2> QED BY <2>1, LeastNumber
<1>2. 0 .. x - 1 \subseteq T BY <1>1
<1> QED BY <1>1, <1>2
================================================================================
