----------------------------- MODULE Induction ------------------------------
(***************************************************************************)
(* Induction over data, in a form that can be cited: what the set T holds  *)
(* takes the place of a predicate.  Each is the existence of a minimal     *)
(* counterexample in a well-founded order of the library.                  *)
(***************************************************************************)
EXTENDS Integers, FiniteSets, FiniteSetTheorems, WellFoundedInduction, TLAPS

\* A set that holds zero, and with a number the next, holds every number.
LEMMA NumberInduction ==
    ASSUME NEW T, 0 \in T, \A n \in Nat : n \in T => n + 1 \in T
    PROVE  \A n \in Nat : n \in T
<1> DEFINE Rest == Nat \ T
<1>1. ASSUME Rest # {} PROVE FALSE
    <2>1. PICK n \in Rest : \A m \in Rest : <<m, n>> \notin OpToRel(<, Nat)
        BY <1>1, WFMin, NatLessThanWellFounded, Zenon
    <2>2. n \in Nat /\ n # 0
        OBVIOUS
    <2>3. n - 1 \in Nat /\ n - 1 < n
        BY <2>2
    <2>4. n - 1 \in T
        BY <2>1, <2>2, <2>3 DEF OpToRel
    <2> QED
        BY <2>2, <2>3, <2>4
<1> QED
    BY <1>1

\* A family that holds the empty set, and holds a set if it holds it without any
\* one of its elements, holds every subset of a finite set.
LEMMA SubsetInduction ==
    ASSUME NEW S, IsFiniteSet(S), NEW T, {} \in T,
           \A s \in SUBSET S : s # {} /\ (\A x \in s : s \ {x} \in T) => s \in T
    PROVE  \A s \in SUBSET S : s \in T
<1> DEFINE Rest == (SUBSET S) \ T
<1>1. ASSUME Rest # {} PROVE FALSE
    <2>1. IsWellFoundedOn(StrictSubsetOrdering(S), SUBSET S)
        BY FS_FiniteSubsetsOfFinite, FS_StrictSubsetOrderingWellFounded
    <2>2. PICK s \in Rest : \A u \in Rest : <<u, s>> \notin StrictSubsetOrdering(S)
        BY <1>1, <2>1, WFMin, Zenon
    <2>3. ASSUME NEW x \in s PROVE s \ {x} \in T
        <3>1. <<s \ {x}, s>> \in StrictSubsetOrdering(S)
            BY DEF StrictSubsetOrdering
        <3> QED
            BY <2>2, <3>1
    <2> QED
        BY <2>3
<1> QED
    BY <1>1
=============================================================================
