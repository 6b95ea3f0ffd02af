------------------------------ MODULE Counting ------------------------------
(***************************************************************************)
(* What the proofs of several components need to know of natural numbers   *)
(* and finite sets.                                                        *)
(***************************************************************************)
EXTENDS Integers, FiniteSetTheorems, WellFoundedInduction, TLAPS

-----------------------------------------------------------------------------
(* Natural numbers, by least counterexamples. *)

\* A set of naturals that is not empty has a least element.
LEMMA LeastNat ==
    ASSUME NEW T, T \subseteq Nat, T # {}
    PROVE  \E x \in T : \A y \in T : x <= y
<1> DEFINE R == OpToRel(<, Nat)
<1>1. IsWellFoundedOn(R, Nat)
  BY NatLessThanWellFounded
<1>2. \A y, x \in Nat : y < x => <<y, x>> \in R
  BY DEF OpToRel
<1> HIDE DEF R
<1>3. PICK x \in T : \A y \in T : ~(<<y, x>> \in R)
  BY <1>1, WFMin
<1>4. \A y \in T : ~(y < x)
  <2> SUFFICES ASSUME NEW y \in T, y < x PROVE FALSE
    OBVIOUS
  <2>1. y \in Nat /\ x \in Nat
    OBVIOUS
  <2>2. <<y, x>> \in R
    BY <1>2, <2>1
  <2> QED BY <1>3, <2>2
<1> QED BY <1>4

\* A finite set of naturals that is not empty has a greatest element.
LEMMA GreatestNat ==
    ASSUME NEW S, S \subseteq Nat, S # {}, IsFiniteSet(S)
    PROVE  \E x \in S : \A y \in S : y <= x
<1> DEFINE NoGreatest(A) == /\ A \subseteq Nat /\ A # {} /\ IsFiniteSet(A)
                            /\ \A x \in A : \E y \in A : ~(y <= x)
           Bad == {n \in Nat : \E A \in SUBSET Nat : NoGreatest(A) /\ Cardinality(A) = n}
<1> SUFFICES ASSUME NoGreatest(S) PROVE FALSE
  OBVIOUS
<1>1. Cardinality(S) \in Bad
  BY FS_CardinalityType
<1>2. PICK n \in Bad : \A m \in Bad : n <= m
  <2> HIDE DEF Bad
  <2>1. Bad \subseteq Nat
    BY DEF Bad
  <2> QED BY <1>1, <2>1, LeastNat
<1>3. PICK A \in SUBSET Nat : NoGreatest(A) /\ Cardinality(A) = n
  OBVIOUS
<1>4. PICK x \in A : TRUE
  BY <1>3
<1> DEFINE B == A \ {x}
<1>5. IsFiniteSet(B) /\ Cardinality(B) = n - 1
  BY <1>3, FS_RemoveElement
<1>6. n - 1 \in Nat
  BY <1>5, FS_CardinalityType
<1>7. B # {}
  <2> SUFFICES ASSUME B = {} PROVE FALSE
    OBVIOUS
  <2>1. A = {x}
    OBVIOUS
  <2> QED BY <1>3, <2>1
<1>8. ~NoGreatest(B)
  <2> SUFFICES ASSUME NoGreatest(B) PROVE FALSE
    OBVIOUS
  <2>1. n - 1 \in Bad
    BY <1>5, <1>6
  <2> QED BY <1>2, <1>6, <2>1
<1>9. PICK z \in B : \A y \in B : y <= z
  BY <1>5, <1>7, <1>8
<1>10. \A y \in A : y <= IF x <= z THEN z ELSE x
  BY <1>9
<1> QED BY <1>3, <1>10

-----------------------------------------------------------------------------
(* How many elements a set has after a step. *)

\* A part of a finite set has no more elements.
LEMMA CountSubset ==
    ASSUME NEW S, NEW T, IsFiniteSet(S), T \subseteq S
    PROVE  Cardinality(T) <= Cardinality(S)
BY FS_Subset

\* A set that gains at most one element.
LEMMA CountOneMore ==
    ASSUME NEW S, NEW T, NEW x, IsFiniteSet(S), T \subseteq S \cup {x}
    PROVE  Cardinality(T) <= Cardinality(S) + 1
<1>1. Cardinality(S) \in Nat
  BY FS_CardinalityType
<1>2. /\ IsFiniteSet(S \cup {x})
      /\ Cardinality(S \cup {x}) = IF x \in S THEN Cardinality(S) ELSE Cardinality(S) + 1
  BY FS_AddElement
<1>3. IsFiniteSet(T) /\ Cardinality(T) <= Cardinality(S \cup {x})
  BY <1>2, FS_Subset
<1>4. Cardinality(T) \in Nat
  BY <1>3, FS_CardinalityType
<1> QED BY <1>1, <1>2, <1>3, <1>4

\* A set that gains at most one element for one that it loses.
LEMMA CountTrade ==
    ASSUME NEW S, NEW T, NEW x, NEW y \in S, IsFiniteSet(S), T \subseteq (S \ {y}) \cup {x}
    PROVE  Cardinality(T) <= Cardinality(S)
<1>1. IsFiniteSet(S \ {y}) /\ Cardinality(S \ {y}) = Cardinality(S) - 1
  BY FS_RemoveElement
<1>2. Cardinality(T) <= Cardinality(S \ {y}) + 1
  BY <1>1, CountOneMore
<1>3. Cardinality(S) \in Nat /\ Cardinality(T) \in Nat
  <2>1. IsFiniteSet((S \ {y}) \cup {x})
    BY <1>1, FS_AddElement
  <2>2. IsFiniteSet(T)
    BY <2>1, FS_Subset
  <2> QED BY <2>2, FS_CardinalityType
<1> QED BY <1>1, <1>2, <1>3

\* A one-to-one image of a finite set has as many elements.
LEMMA CountImage ==
    ASSUME NEW S, IsFiniteSet(S), NEW f, DOMAIN f = S, f = [x \in S |-> f[x]],
           \A x, y \in S : f[x] = f[y] => x = y
    PROVE  /\ IsFiniteSet({f[x] : x \in S})
           /\ Cardinality({f[x] : x \in S}) = Cardinality(S)
<1> DEFINE T == {f[x] : x \in S}
<1>1. f \in [S -> T]
  OBVIOUS
<1>2. f \in Bijection(S, T)
  BY <1>1 DEF Bijection, Injection, Surjection, IsInjective
<1>3. ExistsBijection(S, T)
  BY <1>2 DEF ExistsBijection
<1> QED BY <1>3, FS_Bijection

\* Sets that have nothing in common.
LEMMA CountBoth ==
    ASSUME NEW S, NEW T, IsFiniteSet(S), IsFiniteSet(T), S \cap T = {}
    PROVE  /\ IsFiniteSet(S \cup T)
           /\ Cardinality(S \cup T) = Cardinality(S) + Cardinality(T)
           /\ Cardinality(S) \in Nat /\ Cardinality(T) \in Nat
<1>1. Cardinality(S) \in Nat /\ Cardinality(T) \in Nat
  BY FS_CardinalityType
<1>2. /\ IsFiniteSet(S \cup T)
      /\ Cardinality(S \cup T) = Cardinality(S) + Cardinality(T) - Cardinality(S \cap T)
  BY FS_Union
<1>3. Cardinality(S \cap T) = 0
  BY FS_EmptySet
<1> QED BY <1>1, <1>2, <1>3

\* A row of pairs.
LEMMA CountRow ==
    ASSUME NEW c, NEW m \in Nat
    PROVE  IsFiniteSet({c} \X (1..m)) /\ Cardinality({c} \X (1..m)) = m
<1>1. IsFiniteSet({c}) /\ Cardinality({c}) = 1
  BY FS_Singleton
<1>2. 1 \in Int /\ m \in Int /\ ~(1 > m) => m - 1 + 1 = m
  OBVIOUS
<1>3. IsFiniteSet(1..m) /\ Cardinality(1..m) = m
  BY <1>2, FS_Interval
<1>4. /\ IsFiniteSet({c} \X (1..m))
      /\ Cardinality({c} \X (1..m)) = Cardinality({c}) * Cardinality(1..m)
  BY <1>1, <1>3, FS_Product
<1> QED BY <1>1, <1>3, <1>4

=============================================================================
