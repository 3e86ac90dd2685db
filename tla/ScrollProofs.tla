---------------------------- MODULE ScrollProofs ----------------------------
(***************************************************************************)
(* What a page of a scroll leaves for the next one, for every set of       *)
(* points and every page size: the lemma under the proofs of the reads     *)
(* that are paged.                                                         *)
(***************************************************************************)
EXTENDS Scroll, TLAPS, FiniteSetTheorems, WellFoundedInduction

\* A nonempty set of numbers has a least element.
LEMMA LeastExists ==
  ASSUME NEW S \in SUBSET Nat, S # {}
  PROVE  Min(S) \in S /\ \A y \in S : Min(S) <= y
<1>1. PICK x \in S : \A y \in S : ~ (<<y, x>> \in OpToRel(<, Nat))
  BY NatLessThanWellFounded, WFMin
<1>2. OpToRel(<, Nat) = { q \in Nat \X Nat : q[1] < q[2] }
  BY DEF OpToRel
<1>3. ASSUME NEW y \in S
      PROVE  x <= y
  <2>1. ~ (<<y, x>> \in { q \in Nat \X Nat : q[1] < q[2] })
    BY <1>1, <1>2
  <2>2. QED
    BY <2>1
<1>4. QED
  BY <1>3 DEF Min

\* The next page starts after what was read: everything that is left and lies before
\* it is on the page, and a page with nothing after it is the last.
LEMMA PageLeavesNothing ==
  ASSUME NEW left \in SUBSET Nat, NEW size \in Nat \ {0}
  PROVE  /\ Continuation(left, size) \in left \cup {0}
         /\ Page(left, size) \subseteq left
         /\ Continuation(left, size) = 0 => Page(left, size) = left
         /\ \A p \in left : p < Continuation(left, size) => p \in Page(left, size)
<1> DEFINE rest == left \ Page(left, size)
<1>1. Page(left, size) \subseteq left
  BY DEF Page
<1>2. CASE rest = {}
  <2>1. Continuation(left, size) = 0 /\ Page(left, size) = left
    BY <1>1, <1>2 DEF Continuation
  <2>2. QED
    BY <1>1, <2>1
<1>3. CASE rest # {}
  <2>1. Continuation(left, size) = Min(rest)
    BY <1>3 DEF Continuation
  <2>2. rest \in SUBSET Nat
    OBVIOUS
  <2>3. Min(rest) \in rest /\ \A p \in rest : Min(rest) <= p
    <3> HIDE DEF rest
    <3>1. QED
      BY <1>3, <2>2, LeastExists
  <2>4. \A p \in left : p < Min(rest) => p \in Page(left, size)
    <3> SUFFICES ASSUME NEW p \in left, p < Min(rest), p \notin Page(left, size)
                 PROVE  FALSE
      OBVIOUS
    <3>1. p \in Nat /\ Min(rest) \in Nat /\ Min(rest) <= p
      BY <2>2, <2>3
    <3>2. QED
      BY <3>1
  <2>5. 0 \notin rest
    <3> SUFFICES ASSUME 0 \in left
                 PROVE  0 \in Page(left, size)
      OBVIOUS
    <3>1. { q \in left : q < 0 } = {}
      <4>1. \A q \in Nat : ~ (q < 0)
        OBVIOUS
      <4>2. QED
        BY <4>1
    <3>2. Cardinality({ q \in left : q < 0 }) = 0
      BY <3>1, FS_EmptySet
    <3>3. size > 0
      OBVIOUS
    <3>4. QED
      BY <3>2, <3>3 DEF Page
  <2>6. QED
    BY <1>1, <2>1, <2>3, <2>4, <2>5
<1>4. QED
  BY <1>2, <1>3

\* The next page starts behind the page: what is on it lies before what is not.
LEMMA PageComesFirst ==
  ASSUME NEW left \in SUBSET Nat, IsFiniteSet(left), NEW size \in Nat \ {0},
         Continuation(left, size) # 0
  PROVE  /\ Continuation(left, size) \in left
         /\ \A p \in Page(left, size) : p < Continuation(left, size)
<1> DEFINE next == Continuation(left, size)
           Less(p) == { q \in left : q < p }
<1>1. next \in left /\ next \notin Page(left, size)
  <2> DEFINE rest == left \ Page(left, size)
  <2>1. rest \in SUBSET Nat /\ rest # {} /\ next = Min(rest)
    BY DEF Continuation, Page
  <2>2. next \in rest
    <3> HIDE DEF rest, next
    <3>1. QED
      BY <2>1, LeastExists
  <2>3. QED
    BY <2>2
<1> HIDE DEF next
<1>2. ASSUME NEW p \in Page(left, size), ~ (p < next)
      PROVE  FALSE
  <2>1. p \in left /\ Cardinality(Less(p)) < size
    BY DEF Page
  <2>2. next <= p
    BY <1>1, <1>2, <2>1
  <2>3. Less(next) \in SUBSET Less(p) /\ Less(p) \in SUBSET left
    <3>1. ASSUME NEW q \in left, q < next
          PROVE  q < p
      BY <1>1, <2>1, <2>2, <3>1
    <3>2. QED
      BY <3>1
  <2>4. IsFiniteSet(Less(p))
    BY <2>3, FS_Subset
  <2>5. Cardinality(Less(next)) <= Cardinality(Less(p)) /\ IsFiniteSet(Less(next))
    BY <2>3, <2>4, FS_Subset
  <2>6. Cardinality(Less(next)) \in Nat /\ Cardinality(Less(p)) \in Nat
    BY <2>4, <2>5, FS_CardinalityType
  <2>7. Cardinality(Less(next)) < size
    <3> DEFINE m == Cardinality(Less(next))
               n == Cardinality(Less(p))
    <3> HIDE DEF m, n
    <3>1. m <= n /\ n < size /\ m \in Nat /\ n \in Nat
      BY <2>1, <2>5, <2>6 DEF m, n
    <3>2. m < size
      BY <3>1
    <3>3. QED
      BY <3>2 DEF m
  <2>8. next \in Page(left, size)
    BY <1>1, <2>7 DEF Page
  <2>9. QED
    BY <1>1, <2>8
<1>3. QED
  BY <1>1, <1>2 DEF next

\* The points of a collection a read has not come past.
Ahead(points, from) == { p \in points : p >= from }

\* A read that has come past nothing has all of them ahead.
LEMMA AllAhead ==
  ASSUME NEW points \in SUBSET Nat
  PROVE  Ahead(points, 0) = points
<1>1. ASSUME NEW p \in points
      PROVE  p >= 0
  OBVIOUS
<1>2. QED
  BY <1>1 DEF Ahead

\* What lies ahead of a read of finitely many points can be counted.
LEMMA AheadIsCounted ==
  ASSUME NEW points, IsFiniteSet(points), NEW from
  PROVE  Cardinality(Ahead(points, from)) \in Nat
<1>1. Ahead(points, from) \in SUBSET points
  BY DEF Ahead
<1>2. QED
  BY <1>1, FS_Subset, FS_CardinalityType

\* A scroll ends: while there is a next page, fewer points lie ahead of it than lay
\* ahead of the one before, whatever was added between the two.
LEMMA ScrollAdvances ==
  ASSUME NEW points \in SUBSET Nat, IsFiniteSet(points), NEW from \in Nat,
         NEW left \in SUBSET Ahead(points, from), NEW size \in Nat \ {0},
         Continuation(left, size) # 0
  PROVE  Cardinality(Ahead(points, Continuation(left, size)))
           < Cardinality(Ahead(points, from))
<1> DEFINE next == Continuation(left, size)
           rest == left \ Page(left, size)
<1>1. left \in SUBSET Nat /\ rest \in SUBSET Nat
  BY DEF Ahead
<1>2. Page(left, size) \subseteq left
  BY DEF Page
<1>3. rest # {} /\ next = Min(rest)
  BY <1>2 DEF Continuation
<1>4. next \in rest
  <2> HIDE DEF rest, next
  <2>1. QED
    BY <1>1, <1>3, LeastExists
<1>5. PICK first \in left : \A y \in left : first <= y
  <2>1. left # {}
    BY <1>4
  <2>2. Min(left) \in left /\ \A y \in left : Min(left) <= y
    BY <1>1, <2>1, LeastExists
  <2>3. QED
    BY <2>2
<1>6. first \in Page(left, size)
  <2>1. { q \in left : q < first } = {}
    <3>1. ASSUME NEW q \in left
          PROVE  ~ (q < first)
      BY <1>1, <1>5
    <3>2. QED
      BY <3>1
  <2>2. Cardinality({ q \in left : q < first }) = 0
    BY <2>1, FS_EmptySet
  <2>3. size > 0
    OBVIOUS
  <2>4. QED
    BY <2>2, <2>3 DEF Page
<1>7. /\ first \in Nat /\ next \in Nat /\ from <= first /\ first < next
      /\ first \in points
  <2>1. first \in Nat /\ next \in Nat /\ next \in left
    BY <1>1, <1>4
  <2>2. first # next
    BY <1>4, <1>6
  <2>3. first <= next
    BY <1>5, <2>1
  <2>4. from <= first /\ first \in points
    BY DEF Ahead
  <2>5. QED
    BY <2>1, <2>2, <2>3, <2>4
<1> HIDE DEF next, rest
<1>8. Ahead(points, next) \in SUBSET Ahead(points, from)
  <2>1. ASSUME NEW p \in points, p >= next
        PROVE  p >= from
    BY <1>7, <2>1
  <2>2. QED
    BY <2>1 DEF Ahead
<1>9. first \in Ahead(points, from) /\ first \notin Ahead(points, next)
  BY <1>7 DEF Ahead
<1>10. IsFiniteSet(Ahead(points, from))
  <2>1. Ahead(points, from) \in SUBSET points
    BY DEF Ahead
  <2>2. QED
    BY <2>1, FS_Subset
<1>11. /\ IsFiniteSet(Ahead(points, next))
       /\ Cardinality(Ahead(points, next)) <= Cardinality(Ahead(points, from))
       /\ Cardinality(Ahead(points, next)) # Cardinality(Ahead(points, from))
  BY <1>8, <1>9, <1>10, FS_Subset
<1>12. Cardinality(Ahead(points, next)) \in Nat /\ Cardinality(Ahead(points, from)) \in Nat
  BY <1>10, <1>11, FS_CardinalityType
<1>13. Cardinality(Ahead(points, next)) < Cardinality(Ahead(points, from))
  <2> DEFINE m == Cardinality(Ahead(points, next))
             n == Cardinality(Ahead(points, from))
  <2> HIDE DEF m, n
  <2>1. m <= n /\ m # n /\ m \in Nat /\ n \in Nat
    BY <1>11, <1>12 DEF m, n
  <2>2. m < n
    BY <2>1
  <2>3. QED
    BY <2>2 DEF m, n
<1>14. QED
  BY <1>13 DEF next
=============================================================================
