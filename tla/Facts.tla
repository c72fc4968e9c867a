-------------------------------- MODULE Facts --------------------------------
(***************************************************************************)
(* Facts about numbers and sequences that the proofs of several modules    *)
(* cite.                                                                   *)
(***************************************************************************)
EXTENDS Integers, Sequences, FiniteSets, Functions, FiniteSetTheorems,
        WellFoundedInduction, TLAPS

\* A set of naturals that is not empty has a least element (the top of the
\* heaps of the kernel, the last row a reader takes).
LEMMA LeastNatural ==
    ASSUME NEW T \in SUBSET Nat, T # {}
    PROVE  \E m \in T : \A k \in T : m <= k
<1> DEFINE R == OpToRel(<, Nat)
<1>1. IsWellFoundedOn(R, Nat)
    BY NatLessThanWellFounded
<1>2. PICK m \in T : \A y \in T : ~ (<<y, m>> \in R)
    <2> HIDE DEF R
    <2> QED BY <1>1, WFMin
<1>3. \A y \in Nat : y < m => <<y, m>> \in R
    BY DEF OpToRel
<1> HIDE DEF R
<1>4. \A k \in T : ~(k < m)
    BY <1>2, <1>3
<1>5. \A k \in T : m <= k
    BY <1>4
<1> QED BY <1>5

\* A bounded set of naturals that is not empty has a greatest element.
LEMMA GreatestNatural ==
    ASSUME NEW n \in Nat, NEW T \in SUBSET (0 .. n), T # {}
    PROVE  \E m \in T : \A k \in T : k <= m
<1> DEFINE U == {n - k : k \in T}
<1>1. U \in SUBSET Nat /\ U # {}
    <2>1. \A k \in T : n - k \in Nat
        OBVIOUS
    <2> QED BY <2>1
<1>2. PICK u \in U : \A k \in U : u <= k
    <2> HIDE DEF U
    <2> QED BY <1>1, LeastNatural
<1>3. PICK m \in T : u = n - m
    OBVIOUS
<1>4. \A k \in T : n - m <= n - k
    BY <1>2, <1>3
<1> QED BY <1>3, <1>4

\* Induction over the naturals, for a property given as a set.
LEMMA SetInduction ==
    ASSUME NEW S \in SUBSET Nat, 0 \in S, \A n \in S : n + 1 \in S
    PROVE  S = Nat
<1> SUFFICES ASSUME Nat \ S # {} PROVE FALSE
    OBVIOUS
<1>1. PICK m \in Nat \ S : \A k \in Nat \ S : m <= k
    BY LeastNatural
<1>2. m # 0 /\ m - 1 \in Nat
    BY <1>1
<1>3. m - 1 \in S
    BY <1>1, <1>2
<1> QED BY <1>1, <1>2, <1>3

\* A bijection from 1..n is a sequence that holds each element of its range
\* once.
LEMMA OrderingIsSequence ==
    ASSUME NEW S, IsFiniteSet(S), NEW q \in Bijection(1 .. Cardinality(S), S)
    PROVE  q \in Seq(S) /\ IsInjective(q) /\ Range(q) = S
<1>1. Cardinality(S) \in Nat
    BY FS_CardinalityType
<1> QED
    BY <1>1 DEF Bijection, Injection, Surjection, IsInjective, Range

\* An element that is not in a sequence may be appended to it.
LEMMA AppendFresh ==
    ASSUME NEW S, NEW q \in Seq(S), NEW e \in S
    PROVE  /\ Append(q, e) \in Seq(S)
           /\ Range(Append(q, e)) = Range(q) \cup {e}
           /\ IsInjective(q) /\ e \notin Range(q) => IsInjective(Append(q, e))
<1> DEFINE r == Append(q, e)
<1>1. r \in Seq(S) /\ Len(r) = Len(q) + 1 /\ DOMAIN r = 1 .. Len(q) + 1
    OBVIOUS
<1>2. r[Len(q) + 1] = e /\ \A k \in 1 .. Len(q) : r[k] = q[k]
    OBVIOUS
<1>3. DOMAIN q = 1 .. Len(q) /\ Len(q) \in Nat
    OBVIOUS
<1> HIDE DEF r
<1>4. Range(r) = Range(q) \cup {e}
    <2>1. ASSUME NEW x \in Range(r) PROVE x \in Range(q) \cup {e}
        BY <1>1, <1>2, <1>3 DEF Range
    <2>2. \A k \in 1 .. Len(q) : q[k] \in Range(r)
        BY <1>1, <1>2, <1>3 DEF Range
    <2>3. e \in Range(r)
        BY <1>1, <1>2, <1>3 DEF Range
    <2> QED BY <1>3, <2>1, <2>2, <2>3 DEF Range
<1>5. IsInjective(q) /\ e \notin Range(q) => IsInjective(r)
    BY <1>1, <1>2, <1>3 DEF Range, IsInjective
<1> QED BY <1>1, <1>4, <1>5 DEF r
=============================================================================
