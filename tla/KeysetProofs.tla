----------------------------- MODULE KeysetProofs -----------------------------
(***************************************************************************)
(* What Keyset takes for granted of pages: lemmas about the first elements *)
(* of a finite set, in any total order. The order is the set B of the      *)
(* pairs <<x, y>> with x before y, so that the lemmas can be cited for the *)
(* order of any instance of Keyset.                                        *)
(***************************************************************************)
EXTENDS Naturals, FiniteSetTheorems, TLAPS

Ordered(B, S) ==
    /\ IsFiniteSet(S)
    /\ \A x \in S : <<x, x>> \notin B
    /\ \A x, y, z \in S : <<x, y>> \in B /\ <<y, z>> \in B => <<x, z>> \in B
    /\ \A x, y \in S : x # y => <<x, y>> \in B \/ <<y, x>> \in B

Under(B, S, x) == {y \in S : <<y, x>> \in B}
Least(B, S, n) == {x \in S : Cardinality(Under(B, S, x)) < n}

-----------------------------------------------------------------------------
LEMMA OrderedSubset ==
  ASSUME NEW B, NEW S, Ordered(B, S), NEW T \in SUBSET S
  PROVE  Ordered(B, T)
<1>1. IsFiniteSet(T)
  BY FS_Subset DEF Ordered
<1>. QED  BY <1>1 DEF Ordered

\* Where x is before y, fewer are before x than before y.
LEMMA UnderGrows ==
  ASSUME NEW B, NEW S, Ordered(B, S), NEW x \in S, NEW y \in S, <<x, y>> \in B
  PROVE  /\ Cardinality(Under(B, S, x)) \in Nat /\ Cardinality(Under(B, S, y)) \in Nat
         /\ Cardinality(Under(B, S, x)) < Cardinality(Under(B, S, y))
<1>1. IsFiniteSet(S) /\ IsFiniteSet(Under(B, S, y))
  BY FS_Subset DEF Ordered, Under
<1>2. Under(B, S, x) \subseteq Under(B, S, y)
  BY DEF Ordered, Under
<1>3. x \in Under(B, S, y) /\ x \notin Under(B, S, x)
  BY DEF Ordered, Under
<1>4. IsFiniteSet(Under(B, S, x))
  BY <1>1, <1>2, FS_Subset
<1>5. /\ Cardinality(Under(B, S, x)) <= Cardinality(Under(B, S, y))
      /\ Cardinality(Under(B, S, y)) # Cardinality(Under(B, S, x))
  BY <1>1, <1>2, <1>3, FS_Subset
<1>. QED  BY <1>1, <1>4, <1>5, FS_CardinalityType

LEMMA UnderIsNat ==
  ASSUME NEW B, NEW S, Ordered(B, S), NEW x \in S
  PROVE  IsFiniteSet(Under(B, S, x)) /\ Cardinality(Under(B, S, x)) \in Nat
<1>1. IsFiniteSet(S) /\ Under(B, S, x) \subseteq S
  BY DEF Ordered, Under
<1>2. IsFiniteSet(Under(B, S, x))
  BY <1>1, FS_Subset
<1>. QED  BY <1>2, FS_CardinalityType

\* A set that is not empty has a first element: one with a smallest set before it.
LEMMA HasFirst ==
  ASSUME NEW B, NEW S, Ordered(B, S), S # {}
  PROVE  \E x \in S : \A y \in S \ {x} : <<x, y>> \in B
<1> DEFINE lower == {Under(B, S, x) : x \in S}
<1>1. lower \subseteq SUBSET S /\ lower # {}
  BY DEF Under
<1>2. IsWellFoundedOn(StrictSubsetOrdering(S), SUBSET S)
  BY FS_StrictSubsetOrderingWellFounded, FS_FiniteSubsetsOfFinite DEF Ordered
<1>3. \E U \in lower : \A V \in lower : <<V, U>> \notin StrictSubsetOrdering(S)
  <2> HIDE DEF lower
  <2>. QED  BY <1>1, <1>2, WFMin
<1>4. PICK x \in S : \A y \in S : <<Under(B, S, y), Under(B, S, x)>> \notin StrictSubsetOrdering(S)
  BY <1>3
<1>5. ASSUME NEW y \in S, <<y, x>> \in B
      PROVE  FALSE
  <2>1. Under(B, S, y) \subseteq Under(B, S, x)
    BY <1>5 DEF Ordered, Under
  <2>2. y \in Under(B, S, x) /\ y \notin Under(B, S, y)
    BY <1>5 DEF Ordered, Under
  <2>3. Under(B, S, y) \in SUBSET S /\ Under(B, S, x) \in SUBSET S
    BY DEF Under
  <2>. QED  BY <1>4, <2>1, <2>2, <2>3 DEF StrictSubsetOrdering
<1>. QED  BY <1>5 DEF Ordered

\* It has a last one: the first in the order turned round.
LEMMA HasLast ==
  ASSUME NEW B, NEW S, Ordered(B, S), S # {}
  PROVE  \E x \in S : \A y \in S \ {x} : <<y, x>> \in B
<1> DEFINE C == {p \in S \X S : <<p[2], p[1]>> \in B}
<1>1. \A x, y \in S : <<x, y>> \in C <=> <<y, x>> \in B
  OBVIOUS
<1> HIDE DEF C
<1>2. Ordered(C, S)
  BY <1>1 DEF Ordered
<1>. QED  BY <1>1, <1>2, HasFirst

-----------------------------------------------------------------------------
(* The n least.                                                            *)

LEMMA LeastIsLower ==
  ASSUME NEW B, NEW S, Ordered(B, S), NEW n \in Nat,
         NEW y \in Least(B, S, n), NEW x \in S, <<x, y>> \in B
  PROVE  x \in Least(B, S, n)
<1>1. y \in S /\ Cardinality(Under(B, S, y)) < n
  BY DEF Least
<1>2. /\ Cardinality(Under(B, S, x)) \in Nat /\ Cardinality(Under(B, S, y)) \in Nat
      /\ Cardinality(Under(B, S, x)) < Cardinality(Under(B, S, y))
  BY <1>1, UnderGrows
<1>. QED  BY <1>1, <1>2 DEF Least

LEMMA LeastIsFinite ==
  ASSUME NEW B, NEW S, Ordered(B, S), NEW n
  PROVE  /\ Least(B, S, n) \subseteq S
         /\ IsFiniteSet(Least(B, S, n))
         /\ Cardinality(Least(B, S, n)) \in Nat
<1>1. IsFiniteSet(S) /\ Least(B, S, n) \subseteq S
  BY DEF Ordered, Least
<1>2. IsFiniteSet(Least(B, S, n))
  BY <1>1, FS_Subset
<1>. QED  BY <1>1, <1>2, FS_CardinalityType

\* They are n, or all.
LEMMA LeastAreMany ==
  ASSUME NEW B, NEW S, Ordered(B, S), NEW n \in Nat, Least(B, S, n) # S
  PROVE  Cardinality(Least(B, S, n)) >= n
<1> DEFINE F == Least(B, S, n)
<1>1. F \subseteq S /\ IsFiniteSet(F) /\ Cardinality(F) \in Nat
  BY LeastIsFinite
<1>2. Ordered(B, S \ F) /\ S \ F # {}
  BY <1>1, OrderedSubset
<1>3. PICK x \in S \ F : \A y \in (S \ F) \ {x} : <<x, y>> \in B
  <2> HIDE DEF F
  <2>. QED  BY <1>2, HasFirst
<1>4. Under(B, S, x) \subseteq F
  <2> HIDE DEF F
  <2>1. SUFFICES ASSUME NEW y \in S, <<y, x>> \in B, y \notin F
                 PROVE  FALSE
    BY DEF Under
  <2>2. y # x
    BY <2>1 DEF Ordered
  <2>3. <<x, y>> \in B
    BY <1>3, <2>1, <2>2
  <2>. QED  BY <2>1, <2>3 DEF Ordered
<1>5. Cardinality(Under(B, S, x)) <= Cardinality(F)
  BY <1>1, <1>4, FS_Subset
<1>6. Cardinality(Under(B, S, x)) \in Nat
  BY UnderIsNat
<1>7. ~(Cardinality(Under(B, S, x)) < n)
  BY DEF Least
<1> HIDE DEF F
<1>8. Cardinality(F) >= n
  BY <1>1, <1>5, <1>6, <1>7
<1>. QED  BY <1>8 DEF F

\* They are no more than n.
LEMMA LeastAreFew ==
  ASSUME NEW B, NEW S, Ordered(B, S), NEW n \in Nat
  PROVE  Cardinality(Least(B, S, n)) <= n
<1> DEFINE F == Least(B, S, n)
<1>1. F \subseteq S /\ IsFiniteSet(F) /\ Cardinality(F) \in Nat
  BY LeastIsFinite
<1>2. CASE F = {}
  BY <1>2, FS_EmptySet
<1>3. CASE F # {}
  <2>1. PICK x \in F : \A y \in F \ {x} : <<y, x>> \in B
    <3>1. Ordered(B, F)
      BY <1>1, OrderedSubset
    <3> HIDE DEF F
    <3>. QED  BY <1>3, <3>1, HasLast
  <2>2. Cardinality(Under(B, S, x)) < n /\ x \in S
    BY DEF Least
  <2>3. F \ {x} \subseteq Under(B, S, x)
    <3> HIDE DEF F
    <3>. QED  BY <1>1, <2>1 DEF Under
  <2>4. IsFiniteSet(Under(B, S, x)) /\ Cardinality(Under(B, S, x)) \in Nat
    BY <2>2, UnderIsNat
  <2> HIDE DEF F
  <2>5. /\ Cardinality(F \ {x}) <= Cardinality(Under(B, S, x))
        /\ Cardinality(F \ {x}) = Cardinality(F) - 1
    BY <1>1, <2>3, <2>4, FS_Subset, FS_RemoveElement
  <2>6. Cardinality(F) <= n
    BY <1>1, <2>2, <2>4, <2>5
  <2>. QED  BY <2>6 DEF F
<1>. QED  BY <1>2, <1>3

\* A page read with one row more has no next one only if it is the last.
LEMMA LastPage ==
  ASSUME NEW B, NEW S, Ordered(B, S), NEW n \in Nat,
         Cardinality(Least(B, S, n + 1)) <= n
  PROVE  Least(B, S, n) = S
<1>1. IsFiniteSet(S) /\ Cardinality(S) \in Nat
  BY FS_CardinalityType DEF Ordered
<1>2. Cardinality(Least(B, S, n + 1)) \in Nat /\ n + 1 \in Nat
  BY LeastIsFinite
<1>3. Least(B, S, n + 1) = S
  <2>1. CASE Least(B, S, n + 1) # S
    <3>1. Cardinality(Least(B, S, n + 1)) >= n + 1
      BY <1>2, <2>1, LeastAreMany
    <3>. QED  BY <1>2, <3>1
  <2>. QED  BY <2>1
<1>4. ASSUME NEW x \in S
      PROVE  Cardinality(Under(B, S, x)) < n
  <2>1. Under(B, S, x) \subseteq S \ {x}
    BY DEF Under, Ordered
  <2>2. IsFiniteSet(S \ {x}) /\ Cardinality(S \ {x}) = Cardinality(S) - 1
    BY <1>1, FS_RemoveElement
  <2>3. Cardinality(Under(B, S, x)) <= Cardinality(S \ {x})
    BY <2>1, <2>2, FS_Subset
  <2>4. Cardinality(Under(B, S, x)) \in Nat
    BY UnderIsNat
  <2>. QED  BY <1>1, <1>3, <2>2, <2>3, <2>4
<1>. QED  BY <1>4 DEF Least

\* Of the rows read, the n first are the n first of all.
LEMMA SamePage ==
  ASSUME NEW B, NEW S, Ordered(B, S), NEW n \in Nat
  PROVE  Least(B, Least(B, S, n + 1), n) = Least(B, S, n)
<1> DEFINE R == Least(B, S, n + 1)
<1>1. n + 1 \in Nat
  OBVIOUS
<1>2. ASSUME NEW x \in R
      PROVE  Under(B, R, x) = Under(B, S, x)
  <2>1. R \subseteq S
    BY LeastIsFinite
  <2>2. \A y \in S : <<y, x>> \in B => y \in R
    BY <1>1, <1>2, LeastIsLower
  <2> HIDE DEF R
  <2>. QED  BY <2>1, <2>2 DEF Under
<1>3. R \subseteq S
  BY LeastIsFinite
<1>4. \A x \in S : Cardinality(Under(B, S, x)) < n => x \in R
  <2>1. ASSUME NEW x \in S, Cardinality(Under(B, S, x)) < n
        PROVE  x \in R
    <3>1. Cardinality(Under(B, S, x)) \in Nat
      BY UnderIsNat
    <3>2. Cardinality(Under(B, S, x)) < n + 1
      BY <2>1, <3>1
    <3>. QED  BY <3>2 DEF Least
  <2>. QED  BY <2>1
<1> HIDE DEF R
<1>5. Least(B, R, n) = Least(B, S, n)
  BY <1>2, <1>3, <1>4 DEF Least
<1>. QED  BY <1>5 DEF R

\* The cursor, the last row of a page that is not empty, is before the rows that
\* are left.
LEMMA CursorIsBefore ==
  ASSUME NEW B, NEW S, Ordered(B, S), NEW n \in Nat,
         NEW x \in Least(B, S, n), NEW y \in S \ Least(B, S, n)
  PROVE  <<x, y>> \in B
<1>1. x \in S /\ x # y
  BY LeastIsFinite
<1>2. <<y, x>> \notin B
  BY LeastIsLower
<1>. QED  BY <1>1, <1>2 DEF Ordered

\* A page has n rows unless it is the last, and never more. One row more than n is
\* read just if the page is not the rest of the list; then the page has a last row,
\* for the cursor, and all that is left comes after it.
THEOREM PageParts ==
  ASSUME NEW B, NEW S, Ordered(B, S), NEW n \in Nat, n > 0,
         NEW page, page = Least(B, S, n), NEW read, read = Least(B, S, n + 1)
  PROVE  /\ page \subseteq S /\ Cardinality(read) \in Nat
         /\ Cardinality(page) <= n
         /\ page # S => Cardinality(page) >= n
         /\ Cardinality(read) <= n => page = S
         /\ ~(Cardinality(read) <= n) =>
              /\ Cardinality(page) >= n
              /\ \E x \in page : \A y \in page \ {x} : <<y, x>> \in B
              /\ \A x \in page, y \in S \ page : <<x, y>> \in B
<1>1. page \subseteq S /\ read \subseteq S /\ Cardinality(read) \in Nat
  BY LeastIsFinite
<1>2. Cardinality(page) <= n /\ (page # S => Cardinality(page) >= n)
  BY LeastAreMany, LeastAreFew
<1>3. Cardinality(read) <= n => page = S
  BY LastPage
<1>4. ASSUME ~(Cardinality(read) <= n)
      PROVE  /\ Cardinality(page) >= n
             /\ \E x \in page : \A y \in page \ {x} : <<y, x>> \in B
  <2>1. Cardinality(page) >= n
    <3>1. CASE page = S
      <4>1. IsFiniteSet(page) /\ Cardinality(page) \in Nat
        BY LeastIsFinite
      <4>2. Cardinality(read) <= Cardinality(page)
        BY <1>1, <3>1, <4>1, FS_Subset
      <4>. QED  BY <1>1, <1>4, <4>1, <4>2
    <3>. QED  BY <1>2, <3>1
  <2>2. page # {}
    BY <2>1, FS_EmptySet
  <2>3. Ordered(B, page)
    BY <1>1, OrderedSubset
  <2>. QED  BY <2>1, <2>2, <2>3, HasLast
<1>5. \A x \in page, y \in S \ page : <<x, y>> \in B
  BY CursorIsBefore
<1>. QED  BY <1>1, <1>2, <1>3, <1>4, <1>5
===============================================================================
