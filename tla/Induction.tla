----------------------------- MODULE Induction -----------------------------
(***************************************************************************)
(* Induction over the numbers, with sets in the place of predicates.       *)
(***************************************************************************)
EXTENDS Integers, FiniteSetsExt, WellFoundedInduction, TLAPS

(* A set of numbers has a least one. *)
LEMMA LeastNatural ==
    ASSUME NEW S, S \subseteq Nat, S # {}
    PROVE  \E n \in S : \A m \in S : n <= m
<1>1. PICK less : less = OpToRel(<, Nat)
    OBVIOUS
<1>2. IsWellFoundedOn(less, Nat)
    BY <1>1, NatLessThanWellFounded
<1>3. \A x, y \in Nat : x < y => <<x, y>> \in less
    BY <1>1 DEF OpToRel
<1>4. PICK n \in S : \A m \in S : ~ (<<m, n>> \in less)
    BY <1>2, WFMin
<1>5. \A m \in S : ~ (m < n)
    BY <1>3, <1>4
<1>6. QED
    BY <1>5

(* Induction up to n, with a set in the place of a predicate: otherwise    *)
(* there is a least number outside the set.                                *)
LEMMA CountUp ==
    ASSUME NEW n \in Nat, NEW P, 0 \in P,
           \A k \in 0..(n - 1) : k \in P => k + 1 \in P
    PROVE  0..n \subseteq P
<1> DEFINE S == {k \in 0..n : k \notin P}
<1> SUFFICES ASSUME S # {} PROVE FALSE
    OBVIOUS
<1>1. PICK m \in S : \A k \in S : m <= k
    <2>1. S \subseteq Nat
        OBVIOUS
    <2> HIDE DEF S
    <2>2. QED
        BY <2>1, LeastNatural
<1>2. m \in 1..n /\ m \notin P /\ m - 1 \in 0..(n - 1)
    BY <1>1
<1>3. m - 1 \notin S
    BY <1>1, <1>2
<1>4. m - 1 \in P /\ m - 1 + 1 = m
    BY <1>2, <1>3
<1>5. QED
    BY <1>2, <1>4

(* A set of indices has a largest one. *)
LEMMA LargestIndex ==
    ASSUME NEW n \in Nat, NEW S \in SUBSET (1..n), S # {}
    PROVE  Max(S) \in S /\ \A l \in S : l <= Max(S)
<1> DEFINE D == {n - k : k \in S}
<1>1. PICK d \in D : \A e \in D : d <= e
    <2>1. D \subseteq Nat /\ D # {}
        <3>1. \A k \in S : k \in Int /\ k <= n
            OBVIOUS
        <3>2. \A k \in S : n - k \in Nat
            BY <3>1
        <3>3. QED
            BY <3>2
    <2> HIDE DEF D
    <2>2. QED
        BY <2>1, LeastNatural
<1>2. PICK k \in S : d = n - k
    OBVIOUS
<1>3. \A l \in S : k >= l
    <2> SUFFICES ASSUME NEW l \in S
                 PROVE  k >= l
        OBVIOUS
    <2>1. n - k <= n - l
        BY <1>1, <1>2
    <2>2. QED
        BY <2>1
<1>4. QED
    BY <1>3 DEF Max
=============================================================================
