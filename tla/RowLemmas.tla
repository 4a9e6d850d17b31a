----------------------------- MODULE RowLemmas -----------------------------
(***************************************************************************)
(* What the proofs need of tables whose rows have a number: the largest    *)
(* number there is, from which the next one is made, and counts of rows.   *)
(***************************************************************************)
EXTENDS Naturals, FiniteSetTheorems, TLAPS

\* A finite set of numbers has a largest one.  (The sets of larger numbers
\* are ordered by inclusion; the largest number is where that order ends.)
LEMMA FiniteMax ==
  ASSUME NEW S, IsFiniteSet(S), S \subseteq Nat, S # {}
  PROVE  \E n \in S : \A m \in S : m <= n
<1> DEFINE Above(x) == {y \in S : y > x}
           Family == {Above(x) : x \in S}
<1>1. IsWellFoundedOn(StrictSubsetOrdering(S), FiniteSubsetsOf(S))
  BY FS_StrictSubsetOrderingWellFounded
<1>2. Family \subseteq FiniteSubsetsOf(S) /\ Family # {}
  <2>1. ASSUME NEW x \in S
        PROVE  Above(x) \in FiniteSubsetsOf(S)
    BY FS_Subset DEF FiniteSubsetsOf
  <2> QED
    BY <2>1
<1>3. PICK T \in Family : \A U \in Family : ~(<<U, T>> \in StrictSubsetOrdering(S))
  <2> HIDE DEF Family
  <2> QED
    BY <1>1, <1>2, WFMin
<1>4. PICK x \in S : T = Above(x)
  BY <1>3
<1>5. ASSUME NEW y \in S, y > x
      PROVE  FALSE
  <2>1. x \in Nat /\ y \in Nat /\ \A z \in S : z \in Nat
    BY <1>5
  <2>2. \A z \in Above(y) : z \in Above(x)
    BY <2>1, <1>5
  <2>3. y \in Above(x)
    BY <1>5
  <2>4. y \notin Above(y)
    BY <2>1
  <2>5. Above(y) \subseteq S /\ Above(x) \subseteq S
    OBVIOUS
  <2>6. Above(y) \in Family /\ Above(x) \in Family
    OBVIOUS
  <2> HIDE DEF Above
  <2>7. <<Above(y), Above(x)>> \in StrictSubsetOrdering(S)
    BY <2>2, <2>3, <2>4, <2>5 DEF StrictSubsetOrdering
  <2> QED
    BY <1>3, <1>4, <2>6, <2>7
<1>6. \A m \in S : m \in Nat /\ x \in Nat
  OBVIOUS
<1> QED
  BY <1>5, <1>6

\* Rows with distinct bounded numbers are finitely many, and so are the numbers.
LEMMA FiniteRows ==
  ASSUME NEW R, NEW n \in Nat, \A r \in R : r.id \in 1 .. n,
         \A a, b \in R : a.id = b.id => a = b
  PROVE  /\ IsFiniteSet(R)
         /\ IsFiniteSet({r.id : r \in R}) /\ {r.id : r \in R} \subseteq Nat
<1> DEFINE f == [r \in R |-> r.id]
<1>1. f \in Injection(R, 1 .. n)
  BY DEF Injection, IsInjective
<1>2. IsFiniteSet(1 .. n)
  BY FS_Interval
<1>3. IsFiniteSet(R)
  <2> HIDE DEF f
  <2> QED
    BY <1>1, <1>2, FS_Injection
<1>4. {r.id : r \in R} \subseteq 1 .. n
  OBVIOUS
<1>5. IsFiniteSet({r.id : r \in R})
  BY <1>2, <1>4, FS_Subset
<1> QED
  BY <1>3, <1>4, <1>5

\* A set of a given finite set counts less than one with an element more.
LEMMA CountGrows ==
  ASSUME NEW B, IsFiniteSet(B), NEW A, A \subseteq B
  PROVE  /\ Cardinality(A) \in Nat /\ Cardinality(B) \in Nat
         /\ Cardinality(A) <= Cardinality(B)
         /\ \A x \in B \ A : Cardinality(A) + 1 <= Cardinality(B)
<1>1. IsFiniteSet(A) /\ Cardinality(A) <= Cardinality(B)
  BY FS_Subset
<1>2. Cardinality(A) \in Nat /\ Cardinality(B) \in Nat
  BY <1>1, FS_CardinalityType
<1>3. ASSUME NEW x \in B \ A
      PROVE  Cardinality(A) + 1 <= Cardinality(B)
  <2>1. Cardinality(A \cup {x}) = Cardinality(A) + 1
    BY <1>1, FS_AddElement
  <2>2. A \cup {x} \subseteq B
    BY <1>3
  <2>3. Cardinality(A \cup {x}) <= Cardinality(B)
    BY <2>2, FS_Subset
  <2> QED
    BY <2>1, <2>3
<1> QED
  BY <1>1, <1>2, <1>3
=============================================================================
