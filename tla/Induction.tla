------------------------------ MODULE Induction ------------------------------
(***************************************************************************)
(* Induction over the natural numbers, said with sets: a set of naturals   *)
(* has a smallest member, and one that has 0 and with each number the next *)
(* has them all.  What the recursive functions of the models compute       *)
(* (WorkerLoop!Doubled, WindowTree!Ancestor) is proved with it.            *)
(***************************************************************************)
EXTENDS Integers, TLAPS, WellFoundedInduction

\* The order of the naturals, as a relation.
LEMMA LessWF ==
    \E R : /\ IsWellFoundedOn(R, Nat)
           /\ \A m, n \in Nat : m < n => <<m, n>> \in R
<1>1. IsWellFoundedOn(OpToRel(<, Nat), Nat)
  BY NatLessThanWellFounded
<1>2. \A m, n \in Nat : m < n => <<m, n>> \in OpToRel(<, Nat)
  BY DEF OpToRel
<1> QED
  BY <1>1, <1>2

\* A set of naturals that is not empty has a smallest member.
LEMMA Smallest ==
    ASSUME NEW T, T \subseteq Nat, T # {}
    PROVE  \E x \in T : \A y \in T : ~(y < x)
<1>1. PICK R : /\ IsWellFoundedOn(R, Nat)
               /\ \A m, n \in Nat : m < n => <<m, n>> \in R
  BY LessWF
<1>2. IsWellFoundedOn(R, Nat)
  BY <1>1
<1>3. \E x \in T : \A y \in T : ~(<<y, x>> \in R)
  BY <1>2, WFMin
<1> QED
  BY <1>1, <1>3

\* The natural numbers of a set that has 0 and with each number the next.
LEMMA Inductive ==
    ASSUME NEW S, 0 \in S, \A n \in Nat : n \in S => n + 1 \in S
    PROVE  Nat \subseteq S
<1> SUFFICES ASSUME Nat \ S # {} PROVE FALSE
  OBVIOUS
<1>1. PICK x \in Nat \ S : \A y \in Nat \ S : ~(y < x)
  BY Smallest
<1>2. x # 0 /\ x - 1 \in Nat /\ x - 1 < x
  BY <1>1
<1>3. x - 1 \in S
  BY <1>1, <1>2
<1>4. (x - 1) + 1 \in S
  BY <1>2, <1>3
<1> QED
  BY <1>1, <1>4

==============================================================================
