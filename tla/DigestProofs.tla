---------------------------- MODULE DigestProofs ----------------------------
(***************************************************************************)
(* Proofs about Digest, for any number of callers, articles, versions,     *)
(* days, pages and limits: a paged read misses nothing that stays as it    *)
(* was, no digest reaches into a window, a digest's label is true and it   *)
(* stands for the whole stretch.                                           *)
(*                                                                         *)
(* The argument rests on what a read has behind it: everything that was    *)
(* stored when it began and lies before the offset it continues at, but    *)
(* what was replaced since.                                                *)
(***************************************************************************)
EXTENDS Digest, ScrollProofs

-----------------------------------------------------------------------------
(* Lemmas about finite sets of numbers *)

\* A finite set of numbers has a greatest: the element with the fewest elements above it.
LEMMA GreatestExists ==
  ASSUME NEW S \in SUBSET Nat, IsFiniteSet(S), S # {}
  PROVE  Max(S) \in S /\ \A y \in S : y <= Max(S)
<1> DEFINE Above(x) == { y \in S : y > x }
           Sizes == { Cardinality(Above(x)) : x \in S }
<1>1. \A x \in S : IsFiniteSet(Above(x)) /\ Cardinality(Above(x)) \in Nat
  <2> TAKE x \in S
  <2>1. Above(x) \in SUBSET S
    OBVIOUS
  <2>2. IsFiniteSet(Above(x))
    BY <2>1, FS_Subset
  <2>3. QED
    BY <2>2, FS_CardinalityType
<1>2. Sizes \in SUBSET Nat /\ Sizes # {}
  BY <1>1
<1>3. Min(Sizes) \in Sizes /\ \A n \in Sizes : Min(Sizes) <= n
  <2> HIDE DEF Sizes
  <2>1. QED
    BY <1>2, LeastExists
<1>4. PICK x \in S : Min(Sizes) = Cardinality(Above(x))
  BY <1>3
<1>5. ASSUME NEW y \in S, ~ (y <= x)
      PROVE  FALSE
  <2>1. Above(y) \in SUBSET Above(x) /\ y \in Above(x) /\ y \notin Above(y)
    <3>1. S \subseteq Nat /\ y > x
      BY <1>5
    <3>2. ASSUME NEW z \in S, z > y
          PROVE  z > x
      <4>1. x \in Nat /\ y \in Nat /\ z \in Nat
        BY <3>1
      <4>2. QED
        BY <3>1, <3>2, <4>1
    <3>3. Above(y) \in SUBSET Above(x)
      BY <3>2
    <3>4. y \in Above(x)
      BY <3>1
    <3>5. y \notin Above(y)
      <4>1. y \in Nat
        BY <3>1
      <4>2. ~ (y > y)
        BY <4>1
      <4>3. QED
        BY <4>2
    <3>6. QED
      BY <3>3, <3>4, <3>5
  <2>2. Cardinality(Above(y)) <= Cardinality(Above(x))
    BY <1>1, <2>1, FS_Subset
  <2>3. Cardinality(Above(x)) <= Cardinality(Above(y))
    BY <1>3, <1>4
  <2>4. Cardinality(Above(x)) = Cardinality(Above(y))
    BY <1>1, <2>2, <2>3
  <2>5. Above(x) = Above(y)
    BY <1>1, <2>1, <2>4, FS_Subset
  <2>6. QED
    BY <2>1, <2>5
<1>6. QED
  BY <1>5 DEF Max

\* The days of a nonempty finite set of articles have a first and a last.
LEMMA DaysOfArticles ==
  ASSUME NEW A \in SUBSET Items, IsFiniteSet(A), A # {}
  PROVE  LET ds == { DateOf[x] : x \in A }
         IN  /\ Min(ds) \in ds /\ Max(ds) \in ds
             /\ \A d \in ds : Min(ds) <= d /\ d <= Max(ds)
<1> DEFINE ds == { DateOf[x] : x \in A }
           f == [x \in A |-> DateOf[x]]
<1>1. IsFiniteSet(A)
  OBVIOUS
<1>2. f \in Surjection(A, ds)
  BY DEF Surjection
<1>3. IsFiniteSet(ds)
  <2> HIDE DEF ds, f
  <2>1. QED
    BY <1>1, <1>2, FS_Surjection
<1>4. ds \in SUBSET Nat /\ ds # {}
  BY DaysAssumption, DateAssumption
<1> HIDE DEF ds
<1>5. Min(ds) \in ds /\ \A d \in ds : Min(ds) <= d
  BY <1>4, LeastExists
<1>6. Max(ds) \in ds /\ \A d \in ds : d <= Max(ds)
  BY <1>3, <1>4, GreatestExists
<1>7. QED
  BY <1>5, <1>6 DEF ds

-----------------------------------------------------------------------------
(* The inductive invariant *)

USE IdsAssumption, DaysAssumption, ItemsAssumption, DateAssumption, ValueAssumption,
    TodayAssumption, LimitAssumption

\* What is stored under an id is a version of it, and an id stays stored.
NewsAreKept ==
  /\ \A id \in Ids : news[id] # NoItem => news[id] \in ever /\ IdOf[news[id]] = id
  /\ \A x \in ever : news[IdOf[x]] # NoItem

\* A call that is not reading holds nothing; one that reads holds articles of its range
\* that have been stored, and began with such.
Holds(c) ==
  /\ pc[c] \in Resting \cup {"ingest"} => read[c] = {} /\ before[c] = {} /\ offset[c] = 0
  /\ \A x \in read[c] \cup before[c] : x \in ever /\ InRange(range[c], x)
  /\ IsFiniteSet(read[c])

\* What lies before the offset and was not replaced is read, and at the end everything is.
HasRead(c) ==
  /\ pc[c] = "page" =>
       \A x \in before[c] : Steady(IdOf[x]) /\ IdOf[x] < offset[c] => x \in read[c]
  /\ pc[c] \in {"split", "write", "store"} =>
       \A x \in before[c] : Steady(IdOf[x]) => x \in read[c]

\* The read has come past what it holds, so it meets no second version of it.
ReadOnce(c) ==
  /\ pc[c] = "page" => \A x \in read[c] : IdOf[x] < offset[c]
  /\ \A x, y \in read[c] : IdOf[x] = IdOf[y] => x = y

Reading == {"page", "split", "write", "store"}

\* A call's window does not end after the latest there has been, and a digest is written
\* of something.
IsDue(c) ==
  /\ pc[c] \in Reading => end[c] \in Days /\ end[c] <= horizon
  /\ pc[c] \in {"write", "store"} => Older(c) # {}

CallOK(c) == Holds(c) /\ HasRead(c) /\ ReadOnce(c) /\ IsDue(c)

IInv ==
  /\ TypeOK
  /\ NewsAreKept
  /\ clock <= horizon
  /\ \A c \in Callers : CallOK(c)
  /\ WindowStaysRaw
  /\ LabelIsTrue

-----------------------------------------------------------------------------
(* Lemmas about a page and a stretch *)

\* What is left of a read after its page: PageLeavesNothing for the articles of a range.
LEMMA ReadLeavesNothing ==
  ASSUME TypeOK, NEW c \in Callers
  PROVE  /\ OffsetAfter(c) \in Ids \cup {0}
         /\ OnPage(c) \subseteq Matching(c)
         /\ OffsetAfter(c) = 0 => OnPage(c) = Matching(c)
         /\ \A id \in Matching(c) : id < OffsetAfter(c) => id \in OnPage(c)
         /\ OffsetAfter(c) # 0 =>
              OffsetAfter(c) \in Matching(c) /\ \A id \in OnPage(c) : id < OffsetAfter(c)
<1>1. Matching(c) \subseteq Ids /\ Matching(c) \in SUBSET Nat
  BY DEF Matching, Within
<1>2. IsFiniteSet(Matching(c))
  BY <1>1, FS_Subset
<1>3. QED
  BY <1>1, <1>2, PageLeavesNothing, PageComesFirst DEF OnPage, OffsetAfter

\* What a page adds to a read: finitely many articles that are stored, of the range.
LEMMA PageOfArticles ==
  ASSUME TypeOK, NEW c \in Callers
  PROVE  LET new == { news[id] : id \in OnPage(c) }
         IN  /\ new \in SUBSET Items
             /\ IsFiniteSet(new)
             /\ \A id \in OnPage(c) : /\ id \in Ids /\ id >= offset[c]
                                      /\ news[id] # NoItem /\ InRange(range[c], news[id])
<1> DEFINE new == { news[id] : id \in OnPage(c) }
           f == [id \in OnPage(c) |-> news[id]]
<1>1. \A id \in OnPage(c) : /\ id \in Ids /\ id >= offset[c]
                            /\ news[id] # NoItem /\ InRange(range[c], news[id])
  BY ReadLeavesNothing DEF Matching, Within
<1>2. new \in SUBSET Items
  BY <1>1 DEF TypeOK
<1>3. IsFiniteSet(OnPage(c))
  BY <1>1, FS_Subset
<1>4. f \in Surjection(OnPage(c), new)
  BY DEF Surjection
<1>5. IsFiniteSet(new)
  <2> HIDE DEF f, new
  <2>1. QED
    BY <1>3, <1>4, FS_Surjection
<1>6. QED
  BY <1>1, <1>2, <1>5

\* A steady article is still stored as it was.
LEMMA SteadyIsStored ==
  ASSUME TypeOK, NewsAreKept, NEW x \in ever, Steady(IdOf[x])
  PROVE  IdOf[x] \in Ids /\ news[IdOf[x]] = x
BY DEF TypeOK, NewsAreKept, Steady

\* The period of a stretch that is not empty starts and ends on days of its
\* articles and covers all of them.
LEMMA PeriodOfStretch ==
  ASSUME TypeOK, NEW c \in Callers, IsFiniteSet(read[c]), Older(c) # {}
  PROVE  /\ Period(c) \in Periods
         /\ \E x \in Older(c) : DateOf[x] = Period(c)[1]
         /\ \E x \in Older(c) : DateOf[x] = Period(c)[2]
         /\ \A x \in Older(c) : InRange(Period(c), x)
<1> DEFINE ds == { DateOf[x] : x \in Older(c) }
<1>1. Older(c) \in SUBSET Items /\ IsFiniteSet(Older(c))
  <2>1. Older(c) \in SUBSET read[c] /\ read[c] \in SUBSET Items
    BY DEF Older, TypeOK
  <2>2. QED
    BY <2>1, FS_Subset
<1>2. /\ Min(ds) \in ds /\ Max(ds) \in ds
      /\ \A d \in ds : Min(ds) <= d /\ d <= Max(ds)
  BY <1>1, DaysOfArticles
<1>3. Period(c) = <<Min(ds), Max(ds)>>
  BY DEF Period
<1>4. ds \subseteq Days
  BY <1>1
<1> HIDE DEF ds
<1>5. Period(c) \in Periods
  <2>1. Min(ds) \in Days /\ Max(ds) \in Days /\ Min(ds) <= Max(ds)
    BY <1>2, <1>4
  <2>2. QED
    BY <1>3, <2>1 DEF Periods
<1>6. \A x \in Older(c) : DateOf[x] \in ds
  BY DEF ds
<1>7. \A x \in Older(c) : InRange(Period(c), x)
  BY <1>2, <1>3, <1>6 DEF InRange
<1>8. \A d \in ds : \E x \in Older(c) : DateOf[x] = d
  BY DEF ds
<1>9. Period(c)[1] \in ds /\ Period(c)[2] \in ds
  BY <1>2, <1>3
<1>10. QED
  BY <1>5, <1>7, <1>8, <1>9

\* What a call saves is a digest: its numbers are values of older articles.
LEMMA DigestOfStretch ==
  ASSUME TypeOK, NEW c \in Callers
  PROVE  /\ NumbersOf(c) \subseteq Nat /\ Shown(c) \subseteq Older(c)
         /\ \A n \in NumbersOf(c) : \E x \in Older(c) : ValueOf[x] = n
         /\ \A x \in Older(c) : ValueOf[x] \in NumbersOf(c) \cup {0}
BY DEF NumbersOf, Shown, Older, TypeOK
-----------------------------------------------------------------------------
(* What a step leaves alone *)

\* A step of the call c itself.
Acts(c) ==
  \/ \E p \in Periods, today \in Todays : Summarize(c, p, today)
  \/ Step(c)
  \/ Interrupt(c)

\* What the call o has in its hands is what it had.
Same(o) ==
  /\ pc'[o] = pc[o] /\ range'[o] = range[o] /\ end'[o] = end[o]
  /\ offset'[o] = offset[o] /\ read'[o] = read[o] /\ before'[o] = before[o]
  /\ attempts'[o] = attempts[o]

\* An article is only stored by StoreArticle.
LEMMA OnlyStoresArticles ==
  ASSUME [Next]_vars
  PROVE  UNCHANGED <<news, ever>> \/ \E x \in Items : StoreArticle(x)
<1> USE DEF store, history
<1>1. ASSUME NEW c \in Callers, Acts(c)
      PROVE  UNCHANGED <<news, ever>>
  BY <1>1 DEF Acts, Step, Summarize, Ingested, ReadPage, Split, WriteSummary, SummaryFails,
     SaveDigest, Interrupt
<1>2. ASSUME Midnight \/ UNCHANGED vars
      PROVE  UNCHANGED <<news, ever>>
  BY <1>2 DEF Midnight, vars
<1>3. QED
  BY <1>1, <1>2 DEF Next, Acts

\* What has been stored has been stored, and an article that is not steady stays so.
LEMMA EverGrows ==
  ASSUME TypeOK, [Next]_vars
  PROVE  /\ ever \subseteq ever'
         /\ \A x \in Items : Steady(IdOf[x])' => Steady(IdOf[x])
<1>1. ever \subseteq ever'
  BY OnlyStoresArticles DEF StoreArticle
<1>2. QED
  BY <1>1 DEF Steady

\* The current day is never behind, and the latest end of a window only moves on.
LEMMA DaysPass ==
  ASSUME TypeOK, clock <= horizon, [Next]_vars
  PROVE  horizon \in Days /\ horizon' \in Days /\ horizon <= horizon' /\ clock' <= horizon'
<1> USE DEF store, history
<1>1. /\ clock \in Days /\ horizon \in Days /\ clock \in Nat /\ horizon \in Nat
      /\ \A c \in Callers : end[c] \in Days \cup {NoDay}
  BY DEF TypeOK
<1>2. ASSUME NEW c \in Callers, Ingested(c)
      PROVE  horizon' \in Days /\ horizon <= horizon' /\ clock' <= horizon'
  <2>1. WindowEnd(c) \in Days /\ WindowEnd(c) \in Nat
    BY <1>1 DEF WindowEnd
  <2>2. clock' = clock /\ horizon' = IF horizon < WindowEnd(c) THEN WindowEnd(c) ELSE horizon
    BY <1>2 DEF Ingested
  <2>3. QED
    BY <1>1, <2>1, <2>2
<1>3. ASSUME NEW c \in Callers, Acts(c), ~ Ingested(c)
      PROVE  clock' = clock /\ horizon' = horizon
  BY <1>3 DEF Acts, Step, Summarize, ReadPage, Split, WriteSummary, SummaryFails,
     SaveDigest, Interrupt
<1>4. ASSUME NEW x \in Items, StoreArticle(x)
      PROVE  clock' = clock /\ horizon' = horizon
  BY <1>4 DEF StoreArticle
<1>5. CASE Midnight
  <2>1. /\ clock + 1 \in Days /\ clock' = clock + 1
        /\ horizon' = IF horizon < clock + 1 THEN clock + 1 ELSE horizon
    BY <1>5 DEF Midnight
  <2>2. QED
    BY <1>1, <2>1
<1>6. CASE UNCHANGED vars
  BY <1>1, <1>6 DEF vars
<1>7. QED
  BY <1>1, <1>2, <1>3, <1>4, <1>5, <1>6 DEF Next, Acts

\* What is stored under an id is replaced by a version of it, and nothing is removed.
LEMMA KeptStep ==
  ASSUME TypeOK, NewsAreKept, [Next]_vars
  PROVE  NewsAreKept'
<1>1. CASE UNCHANGED <<news, ever>>
  BY <1>1 DEF NewsAreKept
<1>2. ASSUME NEW x \in Items, StoreArticle(x)
      PROVE  NewsAreKept'
  <2>1. news' = [news EXCEPT ![IdOf[x]] = x] /\ ever' = ever \cup {x} /\ IdOf[x] \in Ids
    BY <1>2 DEF StoreArticle
  <2>2. news'[IdOf[x]] = x /\ \A id \in Ids \ {IdOf[x]} : news'[id] = news[id]
    BY <2>1 DEF TypeOK
  <2>3. \A y \in ever : IdOf[y] \in Ids
    BY DEF TypeOK
  <2>4. QED
    BY <2>1, <2>2, <2>3 DEF NewsAreKept
<1>3. QED
  BY <1>1, <1>2, OnlyStoresArticles

\* A step of one call is not a step of another.
LEMMA OthersStay ==
  ASSUME TypeOK, NEW c \in Callers, Acts(c), NEW o \in Callers, o # c
  PROVE  Same(o)
<1> USE DEF TypeOK, Same, Goto, Leave, store, locals, history
<1>1. ASSUME NEW p \in Periods, NEW today \in Todays, Summarize(c, p, today)
      PROVE  Same(o)
  BY <1>1 DEF Summarize
<1>2. CASE Ingested(c)
  BY <1>2 DEF Ingested
<1>3. CASE ReadPage(c)
  BY <1>3 DEF ReadPage
<1>4. CASE Split(c)
  BY <1>4 DEF Split
<1>5. CASE WriteSummary(c)
  BY <1>5 DEF WriteSummary
<1>6. CASE SummaryFails(c)
  BY <1>6 DEF SummaryFails
<1>7. CASE SaveDigest(c)
  BY <1>7 DEF SaveDigest
<1>8. CASE Interrupt(c)
  BY <1>8 DEF Interrupt
<1>9. QED
  BY <1>1, <1>2, <1>3, <1>4, <1>5, <1>6, <1>7, <1>8 DEF Acts, Step

\* A call that is left alone keeps its part of the invariant.
LEMMA SameStaysOK ==
  ASSUME TypeOK, TypeOK', clock <= horizon, [Next]_vars,
         NEW o \in Callers, CallOK(o), Same(o)
  PROVE  CallOK(o)'
<1>1. ever \subseteq ever' /\ \A x \in Items : Steady(IdOf[x])' => Steady(IdOf[x])
  BY EverGrows
<1>2. Holds(o)'
  BY <1>1 DEF CallOK, Holds, Same, InRange
<1>3. HasRead(o)'
  <2>1. before[o] \subseteq Items
    BY DEF TypeOK
  <2>2. QED
    BY <1>1, <2>1 DEF CallOK, HasRead, Same
<1>4. ReadOnce(o)'
  BY DEF CallOK, ReadOnce, Same
<1>5. Older(o)' = Older(o)
  BY DEF Same, Older, IsOlder, WindowStart
<1>6. IsDue(o)'
  <2>1. horizon \in Nat /\ horizon' \in Nat /\ horizon <= horizon'
    BY DaysPass
  <2>2. ASSUME pc'[o] \in Reading
        PROVE  end'[o] \in Days /\ end'[o] <= horizon'
    <3>1. end[o] \in Days /\ end[o] \in Nat /\ end[o] <= horizon /\ end'[o] = end[o]
      BY <2>2 DEF CallOK, IsDue, Same
    <3>2. QED
      BY <2>1, <3>1
  <2>3. QED
    BY <1>5, <2>2 DEF CallOK, IsDue, Same, Reading
<1>7. QED
  BY <1>2, <1>3, <1>4, <1>6 DEF CallOK

-----------------------------------------------------------------------------
(* What a step keeps *)

\* No step of the program leaves the types of its state.
LEMMA TypeStep ==
  ASSUME TypeOK, clock <= horizon, \A c \in Callers : CallOK(c), [Next]_vars
  PROVE  TypeOK'
<1> USE DEF store, locals, history
<1>0. /\ Resting = {"idle", "digest", "none", "retry_error", "store_error"}
      /\ Active = {"ingest", "page", "split", "write", "store"}
      /\ ATTEMPTS = 2
  BY DEF Resting, Active, ATTEMPTS
<1>1. ASSUME NEW x \in Items, StoreArticle(x)
      PROVE  TypeOK'
  BY <1>1 DEF TypeOK, StoreArticle
<1>2. CASE Midnight
  <2>1. horizon' \in Days
    BY DaysPass
  <2>2. QED
    BY <1>2, <2>1 DEF TypeOK, Midnight
<1>3. ASSUME NEW c \in Callers, NEW p \in Periods, NEW today \in Todays,
             Summarize(c, p, today)
      PROVE  TypeOK'
  BY <1>0, <1>3 DEF TypeOK, Summarize, Goto
<1>4. ASSUME NEW c \in Callers, Ingested(c)
      PROVE  TypeOK'
  <2>1. horizon' \in Days
    BY DaysPass
  <2>2. { news[id] : id \in Within(range[c]) } \in SUBSET Items
    BY DEF Within, TypeOK
  <2>3. WindowEnd(c) \in Days
    BY DEF WindowEnd, TypeOK
  <2>4. QED
    BY <1>0, <1>4, <2>1, <2>2, <2>3 DEF TypeOK, Ingested, Goto
<1>5. ASSUME NEW c \in Callers, ReadPage(c)
      PROVE  TypeOK'
  <2>1. /\ OffsetAfter(c) \in Ids \cup {0}
        /\ { news[id] : id \in OnPage(c) } \in SUBSET Items
    BY ReadLeavesNothing, PageOfArticles
  <2>2. QED
    BY <1>0, <1>5, <2>1 DEF TypeOK, ReadPage, Goto
<1>6. ASSUME NEW c \in Callers, NEW phase \in Resting, Leave(c, phase)
      PROVE  /\ pc' \in [Callers -> Active \cup Resting]
             /\ range' \in [Callers -> Periods] /\ end' \in [Callers -> Days \cup {NoDay}]
             /\ offset' \in [Callers -> Ids \cup {0}]
             /\ read' \in [Callers -> SUBSET Items] /\ before' \in [Callers -> SUBSET Items]
             /\ attempts' \in [Callers -> 0..(ATTEMPTS - 1)]
  BY <1>0, <1>6 DEF TypeOK, Leave, Goto
<1>7. ASSUME NEW c \in Callers, Split(c)
      PROVE  TypeOK'
  <2>1. CASE TooFew(c)
    BY <1>0, <1>6, <1>7, <2>1 DEF TypeOK, Split
  <2>2. CASE ~ TooFew(c)
    BY <1>0, <1>7, <2>2 DEF TypeOK, Split, Goto
  <2>3. QED
    BY <2>1, <2>2
<1>8. ASSUME NEW c \in Callers, WriteSummary(c)
      PROVE  TypeOK'
  BY <1>0, <1>8 DEF TypeOK, WriteSummary, Goto
<1>9. ASSUME NEW c \in Callers, SummaryFails(c)
      PROVE  TypeOK'
  <2>1. CASE attempts[c] + 1 = ATTEMPTS
    BY <1>0, <1>6, <1>9, <2>1 DEF TypeOK, SummaryFails
  <2>2. CASE attempts[c] + 1 # ATTEMPTS
    BY <1>0, <1>9, <2>2 DEF TypeOK, SummaryFails
  <2>3. QED
    BY <2>1, <2>2
<1>10. ASSUME NEW c \in Callers, SaveDigest(c)
       PROVE  TypeOK'
  <2>1. Period(c) \in Periods
    BY <1>10, PeriodOfStretch DEF SaveDigest, CallOK, Holds, IsDue
  <2>2. [numbers |-> NumbersOf(c), shown |-> Shown(c)] \in Digests
    <3>1. Older(c) \subseteq Items
      BY DEF Older, TypeOK
    <3>2. QED
      BY <3>1, DigestOfStretch DEF Digests
  <2>3. digests' \in [Periods -> Digests \cup {NoDigest}]
    BY <1>10, <2>1, <2>2 DEF TypeOK, SaveDigest
  <2>4. QED
    BY <1>0, <1>6, <1>10, <2>3 DEF TypeOK, SaveDigest
<1>11. ASSUME NEW c \in Callers, Interrupt(c)
       PROVE  TypeOK'
  BY <1>0, <1>6, <1>11 DEF TypeOK, Interrupt
<1>12. CASE UNCHANGED vars
  BY <1>12 DEF TypeOK, vars
<1>13. QED
  BY <1>1, <1>2, <1>3, <1>4, <1>5, <1>7, <1>8, <1>9, <1>10, <1>11, <1>12 DEF Next, Step

\* A step of a call keeps what the invariant says of that call.
LEMMA ActingStaysOK ==
  ASSUME TypeOK, NewsAreKept, clock <= horizon, NEW c \in Callers, CallOK(c), Acts(c)
  PROVE  CallOK(c)'
<1> USE DEF CallOK, store, locals, history
<1>0. /\ Resting = {"idle", "digest", "none", "retry_error", "store_error"}
      /\ Reading = {"page", "split", "write", "store"}
  BY DEF Resting, Reading
<1>1. ASSUME NEW p \in Periods, NEW today \in Todays, Summarize(c, p, today)
      PROVE  CallOK(c)'
  <2>1. /\ pc[c] \in Resting /\ pc'[c] = "ingest"
        /\ read' = read /\ before' = before /\ offset' = offset
    BY <1>1 DEF TypeOK, Summarize, Goto
  <2>2. read'[c] = {} /\ before'[c] = {} /\ offset'[c] = 0 /\ IsFiniteSet(read'[c])
    BY <2>1 DEF Holds
  <2>3. Holds(c)'
    BY <2>2 DEF Holds
  <2>4. HasRead(c)' /\ ReadOnce(c)' /\ IsDue(c)'
    BY <1>0, <2>1, <2>2 DEF HasRead, ReadOnce, IsDue
  <2>5. QED
    BY <2>3, <2>4
<1>2. CASE Ingested(c)
  <2>1. /\ pc[c] = "ingest" /\ pc'[c] = "page" /\ end'[c] = WindowEnd(c)
        /\ before'[c] = { news[id] : id \in Within(range[c]) }
        /\ horizon' = IF horizon < WindowEnd(c) THEN WindowEnd(c) ELSE horizon
        /\ UNCHANGED <<news, ever, range, offset, read>>
    BY <1>2 DEF TypeOK, Ingested, Goto
  <2>2. read[c] = {} /\ offset[c] = 0
    BY <2>1 DEF Holds
  <2>3. \A x \in before'[c] : x \in ever /\ InRange(range[c], x) /\ IdOf[x] \in Nat
    <3> SUFFICES ASSUME NEW x \in before'[c]
                 PROVE  x \in ever /\ InRange(range[c], x) /\ IdOf[x] \in Nat
      OBVIOUS
    <3>1. PICK id \in Within(range[c]) : x = news[id]
      BY <2>1
    <3>2. id \in Ids /\ x # NoItem /\ InRange(range[c], x)
      BY <3>1 DEF Within
    <3>3. x \in ever /\ IdOf[x] = id
      BY <3>1, <3>2 DEF NewsAreKept
    <3>4. QED
      BY <3>2, <3>3
  <2>4. Holds(c)'
    <3>1. read'[c] = {} /\ IsFiniteSet(read'[c])
      BY <2>1, <2>2 DEF Holds
    <3>2. \A x \in before'[c] : x \in ever' /\ InRange(range'[c], x)
      BY <2>1, <2>3
    <3>3. pc'[c] \notin Resting \cup {"ingest"}
      BY <1>0, <2>1
    <3>4. QED
      BY <3>1, <3>2, <3>3 DEF Holds, InRange
  <2>5. HasRead(c)'
    <3>1. \A x \in before'[c] : ~ (IdOf[x] < 0)
      BY <2>3
    <3>2. QED
      BY <2>1, <2>2, <3>1 DEF HasRead
  <2>6. ReadOnce(c)'
    BY <2>1, <2>2 DEF ReadOnce
  <2>7. IsDue(c)'
    <3>1. WindowEnd(c) \in Days /\ WindowEnd(c) \in Nat /\ horizon \in Nat
      BY DEF WindowEnd, TypeOK
    <3>2. QED
      BY <2>1, <3>1 DEF IsDue
  <2>8. QED
    BY <2>4, <2>5, <2>6, <2>7
<1>3. CASE ReadPage(c)
  <2> DEFINE new == { news[id] : id \in OnPage(c) }
  <2>1. /\ pc[c] = "page" /\ pc'[c] = IF OffsetAfter(c) = 0 THEN "split" ELSE "page"
        /\ read'[c] = read[c] \cup new /\ offset'[c] = OffsetAfter(c)
        /\ UNCHANGED <<news, clock, ever, horizon, range, end, before>>
    BY <1>3 DEF TypeOK, ReadPage, Goto
  <2>2. /\ new \in SUBSET Items /\ IsFiniteSet(new)
        /\ \A id \in OnPage(c) : /\ id \in Ids /\ id >= offset[c]
                                 /\ news[id] # NoItem /\ InRange(range[c], news[id])
    BY PageOfArticles
  <2>3. \A id \in OnPage(c) : news[id] \in ever /\ IdOf[news[id]] = id
    BY <2>2 DEF NewsAreKept
  <2>4. offset[c] \in Nat
    <3>1. Ids \cup {0} \subseteq Nat /\ offset[c] \in Ids \cup {0}
      BY DEF TypeOK
    <3>2. QED
      BY <3>1
  <2>5. Holds(c)'
    <3>1. IsFiniteSet(read'[c])
      <4>1. IsFiniteSet(read[c])
        BY DEF Holds
      <4>2. IsFiniteSet(read[c] \cup new)
        <5> HIDE DEF new
        <5>1. QED
          BY <2>2, <4>1, FS_Union
      <4>3. QED
        BY <2>1, <4>2
    <3>2. pc'[c] \notin Resting \cup {"ingest"}
      BY <1>0, <2>1
    <3>3. \A x \in read'[c] \cup before'[c] : x \in ever' /\ InRange(range'[c], x)
      BY <2>1, <2>2, <2>3 DEF Holds
    <3>4. QED
      BY <3>1, <3>2, <3>3 DEF Holds, InRange
  <2>6. \A x \in before[c] : Steady(IdOf[x]) =>
          \/ x \in read[c]
          \/ IdOf[x] \in Matching(c) /\ news[IdOf[x]] = x
    <3> SUFFICES ASSUME NEW x \in before[c], Steady(IdOf[x]), x \notin read[c]
                 PROVE  IdOf[x] \in Matching(c) /\ news[IdOf[x]] = x
      OBVIOUS
    <3>1. x \in ever /\ InRange(range[c], x) /\ ~ (IdOf[x] < offset[c])
      BY <2>1 DEF Holds, HasRead
    <3>2. IdOf[x] \in Ids /\ news[IdOf[x]] = x
      BY <3>1, SteadyIsStored
    <3>3. IdOf[x] \in Nat /\ x # NoItem
      BY <3>1, <3>2 DEF TypeOK
    <3>4. IdOf[x] >= offset[c]
      BY <2>4, <3>1, <3>3
    <3>5. QED
      BY <3>1, <3>2, <3>3, <3>4 DEF Matching, Within
  <2>7. HasRead(c)'
    <3>1. \A id \in Matching(c) : id \in OnPage(c) => news[id] \in read'[c]
      BY <2>1
    <3>2. \A id \in Ids : Steady(id)' = Steady(id)
      BY <2>1 DEF Steady
    <3>3. ASSUME NEW x \in before[c], Steady(IdOf[x]),
                 OffsetAfter(c) = 0 \/ IdOf[x] < OffsetAfter(c)
          PROVE  x \in read'[c]
      <4>1. CASE x \in read[c]
        BY <2>1, <4>1
      <4>2. CASE IdOf[x] \in Matching(c) /\ news[IdOf[x]] = x
        BY <3>1, <3>3, <4>2, ReadLeavesNothing
      <4>3. QED
        BY <2>6, <3>3, <4>1, <4>2
    <3>4. \A x \in before[c] : IdOf[x] \in Ids
      BY DEF TypeOK
    <3>5. QED
      BY <2>1, <3>2, <3>3, <3>4 DEF HasRead
  <2>8. ReadOnce(c)'
    <3>1. \A x \in read[c] : IdOf[x] < offset[c] /\ IdOf[x] \in Nat
      BY <2>1 DEF ReadOnce, TypeOK
    <3>2. \A x \in new : IdOf[x] \in OnPage(c) /\ news[IdOf[x]] = x
      BY <2>3
    <3>3. ASSUME OffsetAfter(c) # 0, NEW x \in read'[c]
          PROVE  IdOf[x] < OffsetAfter(c)
      <4>1. /\ OffsetAfter(c) \in Nat /\ OffsetAfter(c) >= offset[c]
            /\ \A id \in OnPage(c) : id < OffsetAfter(c)
        BY <3>3, ReadLeavesNothing DEF Matching, Within
      <4>2. CASE x \in read[c]
        BY <2>4, <3>1, <4>1, <4>2
      <4>3. CASE x \in new
        BY <3>2, <4>1, <4>3
      <4>4. QED
        BY <2>1, <3>3, <4>2, <4>3
    <3>4. ASSUME NEW x \in read'[c], NEW y \in read'[c], IdOf[x] = IdOf[y]
          PROVE  x = y
      <4>1. \A z \in read[c], w \in new : IdOf[z] # IdOf[w]
        <5> SUFFICES ASSUME NEW z \in read[c], NEW w \in new, IdOf[z] = IdOf[w]
                     PROVE  FALSE
          OBVIOUS
        <5>1. IdOf[w] \in OnPage(c)
          BY <3>2
        <5>2. IdOf[z] \in Nat /\ IdOf[z] < offset[c] /\ IdOf[z] >= offset[c]
          BY <2>2, <3>1, <5>1
        <5>3. QED
          BY <2>4, <5>2
      <4>2. \A z, w \in read[c] : IdOf[z] = IdOf[w] => z = w
        BY DEF ReadOnce
      <4>3. \A z, w \in new : IdOf[z] = IdOf[w] => z = w
        BY <3>2
      <4>4. x \in read[c] \cup new /\ y \in read[c] \cup new
        BY <2>1, <3>4
      <4> HIDE DEF new
      <4>5. QED
        BY <3>4, <4>1, <4>2, <4>3, <4>4
    <3>5. QED
      BY <2>1, <3>3, <3>4 DEF ReadOnce
  <2>9. IsDue(c)'
    BY <1>0, <2>1 DEF IsDue
  <2>10. QED
    BY <2>5, <2>7, <2>8, <2>9
<1>4. ASSUME NEW phase \in Resting, Leave(c, phase)
      PROVE  CallOK(c)'
  <2>1. /\ pc'[c] = phase /\ read'[c] = {} /\ before'[c] = {} /\ offset'[c] = 0
    BY <1>4 DEF TypeOK, Leave, Goto
  <2>2. IsFiniteSet(read'[c])
    BY <2>1, FS_EmptySet
  <2>3. Holds(c)'
    BY <2>1, <2>2 DEF Holds
  <2>4. HasRead(c)' /\ ReadOnce(c)' /\ IsDue(c)'
    BY <1>0, <2>1 DEF HasRead, ReadOnce, IsDue
  <2>5. QED
    BY <2>3, <2>4
<1>5. ASSUME UNCHANGED <<news, ever, horizon, range, end, offset, read, before>>,
             pc[c] # "page",
             pc'[c] \in {"split", "write", "store"}, pc[c] \in {"split", "write", "store"},
             pc'[c] \in {"write", "store"} => Older(c) # {}
      PROVE  CallOK(c)'
  <2>1. Older(c)' = Older(c)
    BY <1>5 DEF Older
  <2>2. \A id \in Ids : Steady(id)' = Steady(id)
    BY <1>5 DEF Steady
  <2>3. Holds(c)'
    BY <1>0, <1>5 DEF Holds
  <2>4. HasRead(c)'
    <3>1. \A x \in before[c] : IdOf[x] \in Ids
      BY DEF TypeOK
    <3>2. QED
      BY <1>5, <2>2, <3>1 DEF HasRead
  <2>5. ReadOnce(c)' /\ IsDue(c)'
    BY <1>0, <1>5, <2>1 DEF ReadOnce, IsDue
  <2>6. QED
    BY <2>3, <2>4, <2>5
<1>6. CASE Split(c)
  <2>1. CASE TooFew(c)
    BY <1>0, <1>4, <1>6, <2>1 DEF Split
  <2>2. CASE ~ TooFew(c)
    <3>1. Older(c) # {}
      <4> SUFFICES ASSUME Older(c) = {}
                   PROVE  FALSE
        OBVIOUS
      <4>1. Shown(c) = {}
        BY DEF Shown
      <4>2. Cardinality({}) = 0
        BY FS_EmptySet
      <4>3. QED
        BY <2>2, <4>1, <4>2 DEF TooFew
    <3>2. pc[c] = "split" /\ pc'[c] = "write"
      BY <1>6, <2>2 DEF TypeOK, Split, Goto
    <3>3. UNCHANGED <<news, ever, horizon, range, end, offset, read, before>>
      BY <1>6, <2>2 DEF Split
    <3>4. QED
      BY <1>5, <3>1, <3>2, <3>3
  <2>3. QED
    BY <2>1, <2>2
<1>7. CASE WriteSummary(c)
  <2>1. pc[c] = "write" /\ pc'[c] = "store"
    BY <1>7 DEF TypeOK, WriteSummary, Goto
  <2>2. QED
    BY <1>5, <1>7, <2>1 DEF WriteSummary, IsDue
<1>8. CASE SummaryFails(c)
  <2>1. CASE attempts[c] + 1 = ATTEMPTS
    BY <1>0, <1>4, <1>8, <2>1 DEF SummaryFails
  <2>2. CASE attempts[c] + 1 # ATTEMPTS
    BY <1>5, <1>8, <2>2 DEF SummaryFails, IsDue
  <2>3. QED
    BY <2>1, <2>2
<1>9. CASE SaveDigest(c)
  BY <1>0, <1>4, <1>9 DEF SaveDigest
<1>10. CASE Interrupt(c)
  BY <1>0, <1>4, <1>10 DEF Interrupt
<1>11. QED
  BY <1>1, <1>2, <1>3, <1>6, <1>7, <1>8, <1>9, <1>10 DEF Acts, Step

\* A digest is only written by SaveDigest.
LEMMA OnlySavesDigests ==
  ASSUME TypeOK, [Next]_vars
  PROVE  UNCHANGED digests \/ \E c \in Callers : SaveDigest(c)
<1> USE DEF store
<1>1. ASSUME NEW c \in Callers, Acts(c), ~ SaveDigest(c)
      PROVE  UNCHANGED digests
  BY <1>1 DEF Acts, Step, Summarize, Ingested, ReadPage, Split, WriteSummary, SummaryFails,
     Interrupt
<1>2. ASSUME NEW x \in Items, StoreArticle(x)
      PROVE  UNCHANGED digests
  BY <1>2 DEF StoreArticle
<1>3. ASSUME Midnight \/ UNCHANGED vars
      PROVE  UNCHANGED digests
  BY <1>3 DEF Midnight, vars
<1>4. QED
  BY <1>1, <1>2, <1>3 DEF Next, Acts

\* A digest is written of articles before its window, and the latest window only moves on.
LEMMA RawStep ==
  ASSUME TypeOK, clock <= horizon, \A c \in Callers : CallOK(c), WindowStaysRaw, [Next]_vars
  PROVE  WindowStaysRaw'
<1> SUFFICES ASSUME NEW p \in Periods, digests'[p] # NoDigest
             PROVE  p[2] < WindowStart(horizon')
  BY DEF WindowStaysRaw, WindowStart
<1>1. horizon \in Nat /\ horizon' \in Nat /\ horizon <= horizon' /\ p[2] \in Nat
  BY DaysPass DEF Periods
<1>2. CASE digests'[p] = digests[p]
  <2>1. p[2] < WindowStart(horizon)
    BY <1>2 DEF WindowStaysRaw
  <2>2. QED
    BY <1>1, <2>1 DEF WindowStart
<1>3. CASE digests'[p] # digests[p]
  <2>1. PICK c \in Callers : SaveDigest(c)
    BY <1>3, OnlySavesDigests
  <2>2. /\ p = Period(c) /\ Older(c) # {} /\ IsFiniteSet(read[c])
        /\ end[c] \in Nat /\ end[c] <= horizon
    BY <1>3, <2>1 DEF SaveDigest, TypeOK, CallOK, Holds, IsDue, Reading
  <2>3. PICK x \in Older(c) : DateOf[x] = p[2]
    BY <2>2, PeriodOfStretch
  <2>4. p[2] < WindowStart(end[c])
    BY <2>3 DEF Older, IsOlder
  <2>5. QED
    BY <1>1, <2>2, <2>4 DEF WindowStart
<1>4. QED
  BY <1>2, <1>3

\* A digest is labelled by articles the call has read, and those have been stored.
LEMMA LabelStep ==
  ASSUME TypeOK, \A c \in Callers : CallOK(c), LabelIsTrue, [Next]_vars
  PROVE  LabelIsTrue'
<1> SUFFICES ASSUME NEW p \in Periods, digests'[p] # NoDigest
             PROVE  /\ \A d \in {p[1], p[2]} : \E x \in ever' : DateOf[x] = d
                    /\ \A n \in digests'[p].numbers :
                         \E x \in ever' : InRange(p, x) /\ ValueOf[x] = n
  BY DEF LabelIsTrue, InRange
<1>1. ever \subseteq ever'
  BY EverGrows
<1>2. CASE digests'[p] = digests[p]
  BY <1>1, <1>2 DEF LabelIsTrue
<1>3. CASE digests'[p] # digests[p]
  <2>1. PICK c \in Callers : SaveDigest(c)
    BY <1>3, OnlySavesDigests
  <2>2. /\ p = Period(c) /\ digests'[p].numbers = NumbersOf(c)
        /\ Older(c) # {} /\ IsFiniteSet(read[c])
    BY <1>3, <2>1 DEF SaveDigest, TypeOK, CallOK, Holds, IsDue
  <2>3. Older(c) \subseteq ever
    BY DEF Older, CallOK, Holds
  <2>4. \A d \in {p[1], p[2]} : \E x \in Older(c) : DateOf[x] = d
    BY <2>2, PeriodOfStretch
  <2>5. \A n \in NumbersOf(c) : \E x \in Older(c) : InRange(p, x) /\ ValueOf[x] = n
    BY <2>2, PeriodOfStretch, DigestOfStretch
  <2>6. QED
    BY <1>1, <2>2, <2>3, <2>4, <2>5
<1>4. QED
  BY <1>2, <1>3

-----------------------------------------------------------------------------
(* The theorems *)

\* IInv holds of the initial states and every step keeps it.
THEOREM InductiveInvariant == Spec => []IInv
<1>1. ASSUME Init
      PROVE  IInv
  <2>1. TypeOK
    BY <1>1 DEF Init, TypeOK, Resting, ATTEMPTS
  <2>2. ASSUME NEW c \in Callers
        PROVE  CallOK(c)
    <3>1. pc[c] = "idle" /\ read[c] = {} /\ before[c] = {} /\ offset[c] = 0
      BY <1>1 DEF Init
    <3>2. IsFiniteSet(read[c])
      BY <3>1, FS_EmptySet
    <3>3. QED
      BY <3>1, <3>2 DEF CallOK, Holds, HasRead, ReadOnce, IsDue, Reading
  <2>3. WindowStaysRaw /\ LabelIsTrue /\ NewsAreKept
    BY <1>1 DEF Init, WindowStaysRaw, LabelIsTrue, NewsAreKept
  <2>4. clock <= horizon
    BY <1>1 DEF Init
  <2>5. QED
    BY <2>1, <2>2, <2>3, <2>4 DEF IInv
<1>2. ASSUME IInv, [Next]_vars
      PROVE  IInv'
  <2>1. TypeOK'
    BY <1>2, TypeStep DEF IInv
  <2>2. ASSUME NEW o \in Callers
        PROVE  CallOK(o)'
    <3>1. CallOK(o) /\ TypeOK /\ NewsAreKept /\ clock <= horizon
      BY <1>2 DEF IInv
    <3>2. CASE Acts(o)
      BY <3>1, <3>2, ActingStaysOK
    <3>3. CASE \E c \in Callers : c # o /\ Acts(c)
      BY <1>2, <2>1, <3>1, <3>3, OthersStay, SameStaysOK
    <3>4. CASE (\E x \in Items : StoreArticle(x)) \/ Midnight \/ UNCHANGED vars
      <4>1. Same(o)
        BY <3>4 DEF StoreArticle, Midnight, vars, locals, Same
      <4>2. QED
        BY <1>2, <2>1, <3>1, <4>1, SameStaysOK
    <3>5. QED
      BY <1>2, <3>2, <3>3, <3>4 DEF Next, Acts
  <2>3. WindowStaysRaw' /\ LabelIsTrue' /\ NewsAreKept' /\ clock' <= horizon'
    BY <1>2, RawStep, LabelStep, KeptStep, DaysPass DEF IInv
  <2>4. QED
    BY <2>1, <2>2, <2>3 DEF IInv
<1>3. QED
  BY <1>1, <1>2, PTL DEF Spec

\* The state of summarize keeps its types (Digest, every operation).
THEOREM TypeCorrectness == Spec => []TypeOK
<1>1. IInv => TypeOK
  BY DEF IInv
<1>2. QED
  BY <1>1, InductiveInvariant, PTL

\* A paged read reports every article that was stored when it began and was not replaced
\* by another version, nothing that was never stored, and no article twice, whatever is
\* committed and replaced between its pages (read_news_range).
THEOREM PagedReadIsComplete == Spec => []ReadIsComplete
<1>1. IInv => ReadIsComplete
  BY DEF IInv, CallOK, Holds, HasRead, ReadOnce, ReadIsComplete
<1>2. QED
  BY <1>1, InductiveInvariant, PTL

\* No digest covers a day of the latest window there has been, whatever `today` the
\* calls pass, although midnight may pass while it is written (context.py, partition).
THEOREM WindowIsNotDigested == Spec => []WindowStaysRaw
<1>1. IInv => WindowStaysRaw
  BY DEF IInv
<1>2. QED
  BY <1>1, InductiveInvariant, PTL

\* The latest window is the current one when no call passes a `today` that has not come
\* yet: then what the current window holds stays raw (steps.py, summarize; today = None,
\* or a day that is replayed).
THEOREM CurrentWindowIsNotDigested ==
  ASSUME \A today \in Todays : today = NoDay \/ today <= FirstDay
  PROVE  Spec => [](\A p \in Periods : digests[p] # NoDigest => p[2] < WindowStart(clock))
<1> DEFINE Inv == /\ horizon = clock /\ FirstDay <= clock
                  /\ \A c \in Callers : pc[c] = "ingest" => end[c] \in Todays
<1>1. Init => Inv
  BY DEF Init
<1>2. ASSUME IInv, Inv, [Next]_vars
      PROVE  Inv'
  <2> USE DEF store, locals, history
  <2>0. /\ clock \in Nat /\ FirstDay \in Nat /\ TypeOK
        /\ Resting = {"idle", "digest", "none", "retry_error", "store_error"}
    BY <1>2 DEF IInv, TypeOK, Resting
  <2>1. ASSUME NEW c \in Callers, NEW p \in Periods, NEW today \in Todays,
               Summarize(c, p, today)
        PROVE  Inv'
    BY <1>2, <2>0, <2>1 DEF Summarize, Goto, TypeOK
  <2>2. ASSUME NEW c \in Callers, Ingested(c)
        PROVE  Inv'
    <3>1. WindowEnd(c) \in Nat /\ WindowEnd(c) <= clock
      <4>1. end[c] \in Todays /\ FirstDay <= clock
        BY <1>2, <2>2 DEF Ingested
      <4>2. end[c] # NoDay => end[c] \in Nat /\ end[c] <= FirstDay
        BY <4>1
      <4>3. QED
        BY <2>0, <4>1, <4>2 DEF WindowEnd
    <3>2. horizon' = horizon /\ clock' = clock
      BY <1>2, <2>0, <2>2, <3>1 DEF Ingested
    <3>3. QED
      BY <1>2, <2>0, <2>2, <3>2 DEF Ingested, Goto, TypeOK
  <2>3. ASSUME NEW c \in Callers, ReadPage(c) \/ WriteSummary(c)
        PROVE  Inv'
    BY <1>2, <2>0, <2>3 DEF ReadPage, WriteSummary, Goto, TypeOK
  <2>4. ASSUME NEW c \in Callers,
               Split(c) \/ SummaryFails(c) \/ SaveDigest(c) \/ Interrupt(c)
        PROVE  Inv'
    <3>1. UNCHANGED <<clock, horizon, end>> /\ pc'[c] # "ingest" /\
          \A o \in Callers : pc'[o] = pc[o] \/ pc'[o] # "ingest"
      BY <2>0, <2>4 DEF Split, SummaryFails, SaveDigest, Interrupt, Leave, Goto, TypeOK
    <3>2. QED
      BY <1>2, <3>1
  <2>5. ASSUME NEW x \in Items, StoreArticle(x)
        PROVE  Inv'
    BY <1>2, <2>5 DEF StoreArticle
  <2>6. CASE Midnight
    BY <1>2, <2>0, <2>6 DEF Midnight
  <2>7. CASE UNCHANGED vars
    BY <1>2, <2>7 DEF vars
  <2>8. QED
    BY <1>2, <2>1, <2>2, <2>3, <2>4, <2>5, <2>6, <2>7 DEF Next, Step
<1>3. IInv /\ Inv => \A p \in Periods : digests[p] # NoDigest => p[2] < WindowStart(clock)
  BY DEF IInv, WindowStaysRaw
<1> HIDE DEF Inv
<1>4. QED
  BY <1>1, <1>2, <1>3, InductiveInvariant, PTL DEF Spec

\* The period and the numbers of a digest are those of articles that have been stored
\* (build_digest: no label of days or numbers that were not read).
THEOREM LabelsAreTrue == Spec => []LabelIsTrue
<1>1. IInv => LabelIsTrue
  BY DEF IInv
<1>2. QED
  BY <1>1, InductiveInvariant, PTL

\* Where ingest runs do not disagree about an article, the label is true of what the store
\* still says: the articles a period starts and ends with and takes its numbers from are
\* stored as they were (steps.py, ingest: what `news` holds is not stored again).
THEOREM LabelsStayTrue ==
  Spec => []((\A id \in Ids : Steady(id)) =>
               \A p \in Periods : digests[p] # NoDigest =>
                 /\ \A d \in {p[1], p[2]} :
                      \E id \in Ids : news[id] # NoItem /\ DateOf[news[id]] = d
                 /\ \A n \in digests[p].numbers :
                      \E id \in Within(p) : ValueOf[news[id]] = n)
<1> DEFINE Stored(p) ==
             /\ \A d \in {p[1], p[2]} :
                  \E id \in Ids : news[id] # NoItem /\ DateOf[news[id]] = d
             /\ \A n \in digests[p].numbers :
                  \E id \in Within(p) : ValueOf[news[id]] = n
<1>1. ASSUME IInv, \A id \in Ids : Steady(id), NEW p \in Periods, digests[p] # NoDigest
      PROVE  Stored(p)
  <2>1. \A x \in ever : IdOf[x] \in Ids /\ news[IdOf[x]] = x /\ x # NoItem
    <3>1. \A x \in ever : x \in Items /\ IdOf[x] \in Ids
      BY <1>1 DEF IInv, TypeOK
    <3>2. QED
      BY <1>1, <3>1, SteadyIsStored DEF IInv
  <2>2. LabelIsTrue
    BY <1>1 DEF IInv
  <2>3. ASSUME NEW d \in {p[1], p[2]}
        PROVE  \E id \in Ids : news[id] # NoItem /\ DateOf[news[id]] = d
    <3>1. PICK x \in ever : DateOf[x] = d
      BY <1>1, <2>2 DEF LabelIsTrue
    <3>2. QED
      BY <2>1, <3>1
  <2>4. ASSUME NEW n \in digests[p].numbers
        PROVE  \E id \in Within(p) : ValueOf[news[id]] = n
    <3>1. PICK x \in ever : InRange(p, x) /\ ValueOf[x] = n
      BY <1>1, <2>2 DEF LabelIsTrue
    <3>2. IdOf[x] \in Within(p)
      BY <2>1, <3>1 DEF Within
    <3>3. QED
      BY <2>1, <3>1, <3>2
  <2>5. QED
    BY <2>3, <2>4
<1>2. IInv => ((\A id \in Ids : Steady(id)) =>
                 \A p \in Periods : digests[p] # NoDigest => Stored(p))
  BY <1>1
<1>3. QED
  BY <1>2, InductiveInvariant, PTL

\* A digest stands for every article of its range that is older than the window and was
\* not replaced by another version since the read began, however few of them the prompt
\* shows (steps.py, summarize).
THEOREM StandsForAll == Spec => StandsForTheWholeStretch
<1>1. ASSUME IInv, [Next]_vars, NEW c \in Callers, pc[c] = "store", pc'[c] = "digest"
      PROVE  \E p \in Periods :
               /\ digests'[p] # NoDigest
               /\ \A x \in before[c] : Steady(IdOf[x]) /\ IsOlder(end[c], x) =>
                    InRange(p, x) /\ ValueOf[x] \in digests'[p].numbers \cup {0}
  <2>1. TypeOK /\ CallOK(c) /\ IsFiniteSet(read[c])
    BY <1>1 DEF IInv, CallOK, Holds
  <2>2. Older(c) # {} /\ \A x \in before[c] : Steady(IdOf[x]) => x \in read[c]
    BY <1>1, <2>1 DEF CallOK, IsDue, HasRead
  <2>3. SaveDigest(c)
    <3>1. ~ Same(c)
      BY <1>1 DEF Same
    <3>2. Acts(c)
      <4>1. CASE \E o \in Callers : Acts(o)
        BY <2>1, <3>1, <4>1, OthersStay
      <4>2. CASE (\E x \in Items : StoreArticle(x)) \/ Midnight \/ UNCHANGED vars
        BY <3>1, <4>2 DEF StoreArticle, Midnight, vars, locals, Same
      <4>3. QED
        BY <1>1, <4>1, <4>2 DEF Next, Acts
    <3>3. QED
      BY <1>1, <2>1, <3>2 DEF Acts, Step, Summarize, Ingested, ReadPage, Split, WriteSummary,
         SummaryFails, Interrupt, TypeOK, Goto, Leave, Resting
  <2>4. Period(c) \in Periods /\ \A x \in Older(c) : InRange(Period(c), x)
    BY <2>1, <2>2, PeriodOfStretch
  <2>5. digests'[Period(c)] = [numbers |-> NumbersOf(c), shown |-> Shown(c)]
    BY <2>1, <2>3, <2>4 DEF SaveDigest, TypeOK
  <2>6. digests'[Period(c)] \in Digests
    <3>1. Older(c) \subseteq Items
      BY <2>1 DEF Older, TypeOK
    <3>2. QED
      BY <2>1, <2>5, <3>1, DigestOfStretch DEF Digests
  <2>7. \A x \in before[c] : Steady(IdOf[x]) /\ IsOlder(end[c], x) => x \in Older(c)
    BY <2>2 DEF Older
  <2>8. digests'[Period(c)] # NoDigest
    BY <2>6, NoDigestAssumption
  <2>9. \A x \in Older(c) : ValueOf[x] \in digests'[Period(c)].numbers \cup {0}
    BY <2>1, <2>5, DigestOfStretch
  <2>10. QED
    BY <2>4, <2>7, <2>8, <2>9
<1>2. IInv /\ [Next]_vars => [\A c \in Callers : pc[c] = "store" /\ pc'[c] = "digest" =>
       \E p \in Periods :
         /\ digests'[p] # NoDigest
         /\ \A x \in before[c] : Steady(IdOf[x]) /\ IsOlder(end[c], x) =>
              /\ InRange(p, x)
              /\ ValueOf[x] \in digests'[p].numbers \cup {0}]_vars
  BY <1>1
<1>3. QED
  BY <1>2, InductiveInvariant, PTL DEF Spec, StandsForTheWholeStretch

-----------------------------------------------------------------------------
(* Calls that follow one another *)

\* Every number of a digest is the value of an article of its period that has been
\* stored, one that was stored before a call now under way began to read, or one that
\* ingest runs disagree about.
Witnessed(c) ==
  \A p \in Periods : digests[p] # NoDigest =>
    \A n \in digests[p].numbers :
      /\ n # 0
      /\ \E x \in ever :
           /\ InRange(p, x) /\ ValueOf[x] = n
           /\ Steady(IdOf[x]) /\ pc[c] \in Reading /\ InRange(range[c], x) => x \in before[c]

\* What the digest of the call's period stands for is in the call's own stretch, but what
\* was replaced.
LEMMA SaveKeepsNumbers ==
  ASSUME TypeOK, NEW c \in Callers, CallOK(c), Witnessed(c), SaveDigest(c)
  PROVE  /\ Period(c) \in Periods
         /\ digests' = [digests EXCEPT ![Period(c)] =
              [numbers |-> NumbersOf(c), shown |-> Shown(c)]]
         /\ digests[Period(c)] # NoDigest =>
              \A n \in digests[Period(c)].numbers \ NumbersOf(c) :
                \E x \in ever :
                  InRange(Period(c), x) /\ ValueOf[x] = n /\ ~ Steady(IdOf[x])
<1>1. /\ Older(c) # {} /\ IsFiniteSet(read[c]) /\ pc[c] \in Reading
      /\ \A x \in before[c] : Steady(IdOf[x]) => x \in read[c]
  BY DEF SaveDigest, CallOK, Holds, IsDue, HasRead, Reading
<1>2. /\ Period(c) \in Periods
      /\ \E x \in Older(c) : DateOf[x] = Period(c)[1]
      /\ \E x \in Older(c) : DateOf[x] = Period(c)[2]
  BY <1>1, PeriodOfStretch
<1>3. PICK first \in Older(c), last \in Older(c) :
        DateOf[first] = Period(c)[1] /\ DateOf[last] = Period(c)[2]
  BY <1>2
<1>4. /\ range[c][1] <= DateOf[first] /\ DateOf[last] <= range[c][2]
      /\ DateOf[last] < WindowStart(end[c])
  BY DEF Older, IsOlder, CallOK, Holds, InRange
<1>5. /\ range[c][1] \in Nat /\ range[c][2] \in Nat /\ WindowStart(end[c]) \in Int
      /\ DateOf[first] \in Nat /\ DateOf[last] \in Nat
  <2>1. range[c] \in Periods /\ end[c] \in Nat /\ first \in Items /\ last \in Items
    BY <1>1 DEF TypeOK, Older, CallOK, IsDue
  <2>2. range[c][1] \in Nat /\ range[c][2] \in Nat
    BY <2>1 DEF Periods
  <2>3. WindowStart(end[c]) \in Int
    BY <2>1 DEF WindowStart
  <2>4. QED
    BY <2>1, <2>2, <2>3
<1>6. ASSUME NEW n \in digests[Period(c)].numbers \ NumbersOf(c), digests[Period(c)] # NoDigest
      PROVE  \E x \in ever : InRange(Period(c), x) /\ ValueOf[x] = n /\ ~ Steady(IdOf[x])
  <2>1. n # 0
    BY <1>2, <1>6 DEF Witnessed
  <2>2. PICK x \in ever :
          /\ InRange(Period(c), x) /\ ValueOf[x] = n
          /\ Steady(IdOf[x]) /\ InRange(range[c], x) => x \in before[c]
    BY <1>1, <1>2, <1>6 DEF Witnessed
  <2>3. ASSUME Steady(IdOf[x])
        PROVE  FALSE
    <3>1. DateOf[x] \in Nat
      BY DEF TypeOK
    <3>2. InRange(range[c], x) /\ IsOlder(end[c], x)
      BY <1>3, <1>4, <1>5, <2>2, <3>1 DEF InRange, IsOlder
    <3>3. x \in Older(c)
      BY <1>1, <2>2, <2>3, <3>2 DEF Older
    <3>4. n \in NumbersOf(c)
      BY <2>1, <2>2, <3>3 DEF NumbersOf
    <3>5. QED
      BY <1>6, <3>4
  <2>4. QED
    BY <2>2, <2>3
<1>7. QED
  BY <1>2, <1>6 DEF SaveDigest

\* With one caller, a step keeps every number witnessed.
LEMMA WitnessedStep ==
  ASSUME \A c, o \in Callers : c = o,
         TypeOK, NewsAreKept, NEW c \in Callers, CallOK(c), Witnessed(c), [Next]_vars
  PROVE  Witnessed(c)'
<1> USE DEF store, locals, history
<1>1. /\ ever \subseteq ever' /\ ever \subseteq Items
      /\ \A x \in Items : Steady(IdOf[x])' => Steady(IdOf[x])
  BY EverGrows DEF TypeOK
<1>2. ASSUME UNCHANGED digests, pc'[c] \notin Reading
      PROVE  Witnessed(c)'
  BY <1>1, <1>2 DEF Witnessed, InRange
<1>3. ASSUME UNCHANGED digests, pc[c] \in Reading, range'[c] = range[c], before'[c] = before[c]
      PROVE  Witnessed(c)'
  BY <1>1, <1>3 DEF Witnessed, InRange
<1>4. CASE SaveDigest(c)
  <2>1. pc'[c] = "digest"
    BY <1>4 DEF SaveDigest, Leave, Goto, TypeOK
  <2>2. ASSUME NEW p \in Periods, digests'[p] # NoDigest, NEW n \in digests'[p].numbers
        PROVE  n # 0 /\ \E x \in ever' : InRange(p, x) /\ ValueOf[x] = n
    <3>1. CASE p = Period(c)
      <4>1. Older(c) # {} /\ IsFiniteSet(read[c])
        BY <1>4 DEF SaveDigest, CallOK, Holds, IsDue
      <4>2. n \in NumbersOf(c)
        BY <1>4, <2>2, <3>1 DEF SaveDigest, TypeOK
      <4>3. PICK x \in Older(c) : ValueOf[x] = n
        BY <4>2, DigestOfStretch
      <4>4. InRange(p, x) /\ x \in ever
        BY <3>1, <4>1, PeriodOfStretch DEF Older, CallOK, Holds
      <4>5. QED
        BY <1>1, <4>2, <4>3, <4>4 DEF NumbersOf
    <3>2. CASE p # Period(c)
      <4>1. digests'[p] = digests[p]
        BY <1>4, <3>2 DEF SaveDigest, TypeOK
      <4>2. QED
        BY <1>1, <2>2, <4>1 DEF Witnessed
    <3>3. QED
      BY <3>1, <3>2
  <2>3. QED
    BY <2>1, <2>2 DEF Witnessed, Reading, InRange
<1>5. ASSUME NEW p \in Periods, NEW today \in Todays, Summarize(c, p, today)
      PROVE  Witnessed(c)'
  BY <1>2, <1>5 DEF Summarize, Goto, TypeOK, Reading
<1>6. CASE Ingested(c)
  <2>1. /\ digests' = digests /\ range' = range /\ ever' = ever
        /\ before'[c] = { news[id] : id \in Within(range[c]) }
    BY <1>6 DEF Ingested, TypeOK
  <2>2. ASSUME NEW x \in ever, Steady(IdOf[x]), InRange(range[c], x)
        PROVE  x \in before'[c]
    <3>1. IdOf[x] \in Ids /\ news[IdOf[x]] = x
      BY <2>2, SteadyIsStored
    <3>2. IdOf[x] \in Within(range[c])
      BY <1>1, <2>2, <3>1 DEF Within
    <3>3. QED
      BY <2>1, <3>1, <3>2
  <2>3. QED
    BY <1>1, <2>1, <2>2 DEF Witnessed, InRange
<1>7. CASE ReadPage(c) \/ WriteSummary(c)
  BY <1>3, <1>7 DEF ReadPage, WriteSummary, Reading
<1>8. CASE Split(c) \/ SummaryFails(c)
  BY <1>2, <1>3, <1>8 DEF Split, SummaryFails, Leave, Goto, TypeOK, Reading
<1>9. CASE Interrupt(c)
  BY <1>2, <1>9 DEF Interrupt, Leave, Goto, TypeOK, Reading
<1>10. CASE (\E x \in Items : StoreArticle(x)) \/ Midnight \/ UNCHANGED vars
  <2>1. UNCHANGED <<digests, pc, range, before>>
    BY <1>10 DEF StoreArticle, Midnight, vars
  <2>2. QED
    BY <1>2, <1>3, <2>1
<1>11. QED
  BY <1>4, <1>5, <1>6, <1>7, <1>8, <1>9, <1>10 DEF Next, Step

\* When calls follow one another, the point that replaces a digest carries every number
\* of the one it replaces, but those of articles that overlapping ingest runs stored in
\* two versions (save_digest, one point per period).
THEOREM ReplacedDigestsGrow ==
  ASSUME \A c, o \in Callers : c = o
  PROVE  Spec => DigestsOnlyGrow
<1> DEFINE Inv == \A c \in Callers : Witnessed(c)
<1>1. Init => Inv
  BY DEF Init, Witnessed
<1>2. IInv /\ Inv /\ [Next]_vars => Inv'
  BY WitnessedStep DEF IInv
<1>3. ASSUME IInv, Inv, [Next]_vars
      PROVE  [\A p \in Periods : digests[p] # NoDigest =>
                \A n \in digests[p].numbers \ digests'[p].numbers :
                  \E x \in ever :
                    InRange(p, x) /\ ValueOf[x] = n /\ ~ Steady(IdOf[x])]_digests
  <2>1. ASSUME NEW c \in Callers, SaveDigest(c), NEW p \in Periods, digests[p] # NoDigest,
               NEW n \in digests[p].numbers \ digests'[p].numbers
        PROVE  \E x \in ever : InRange(p, x) /\ ValueOf[x] = n /\ ~ Steady(IdOf[x])
    <3>1. TypeOK /\ CallOK(c) /\ Witnessed(c)
      BY <1>3 DEF IInv
    <3>2. p = Period(c) /\ digests'[p].numbers = NumbersOf(c)
      BY <2>1, <3>1, SaveKeepsNumbers DEF TypeOK
    <3>3. QED
      BY <2>1, <3>1, <3>2, SaveKeepsNumbers
  <2>2. QED
    BY <1>3, <2>1, OnlySavesDigests DEF IInv
<1>4. QED
  BY <1>1, <1>2, <1>3, InductiveInvariant, PTL DEF Spec, DigestsOnlyGrow

-----------------------------------------------------------------------------
(* A call runs out of steps *)

\* How many steps a call can still take: the requests ahead, a page of the read for
\* each article it has not come past, and the model runs it may still try.
StepsLeft(c) ==
  IF pc[c] = "ingest" THEN Cardinality(Ids) + ATTEMPTS + 4
  ELSE IF pc[c] = "page" THEN Cardinality(Ahead(Ids, offset[c])) + ATTEMPTS + 3
  ELSE IF pc[c] = "split" THEN ATTEMPTS + 2
  ELSE IF pc[c] = "write" THEN ATTEMPTS - attempts[c] + 1
  ELSE IF pc[c] = "store" THEN 1
  ELSE 0

\* It is a number, and it is the resting calls that have none left.
Counted ==
  \A c \in Callers : StepsLeft(c) \in Nat /\ (pc[c] \in Active <=> StepsLeft(c) > 0)

\* A call's place among the phases fixes whether it has any.
LEMMA StepsAreCounted ==
  ASSUME TypeOK, NEW c \in Callers
  PROVE  /\ Cardinality(Ahead(Ids, offset[c])) \in Nat
         /\ StepsLeft(c) \in Nat
         /\ pc[c] \in Active <=> StepsLeft(c) > 0
<1>1. Cardinality(Ids) \in Nat /\ Cardinality(Ahead(Ids, offset[c])) \in Nat
  BY AheadIsCounted, FS_CardinalityType
<1>2. attempts[c] \in 0..1 /\ ATTEMPTS = 2 /\ pc[c] \in Active \cup Resting
  BY DEF TypeOK, ATTEMPTS
<1>3. QED
  BY <1>1, <1>2 DEF StepsLeft, Active, Resting

\* Every step of a call takes one of the steps it has left.
LEMMA StepsAreTaken ==
  ASSUME IInv, IInv', NEW c \in Callers, Step(c) \/ Interrupt(c)
  PROVE  StepsLeft(c)' < StepsLeft(c)
<1> USE DEF Goto, Leave
<1>1. /\ attempts[c] \in 0..1 /\ attempts'[c] \in 0..1 /\ ATTEMPTS = 2
      /\ pc \in [Callers -> Active \cup Resting] /\ attempts \in [Callers -> 0..1]
      /\ offset \in [Callers -> Ids \cup {0}]
  BY DEF IInv, TypeOK, ATTEMPTS
<1>2. /\ StepsLeft(c) \in Nat /\ (pc[c] \in Active <=> StepsLeft(c) > 0)
      /\ Cardinality(Ahead(Ids, offset[c])) \in Nat
  BY StepsAreCounted DEF IInv
<1>3. ASSUME pc[c] \in Active, pc'[c] \in Resting
      PROVE  StepsLeft(c)' < StepsLeft(c)
  <2>1. StepsLeft(c)' = 0
    BY <1>3 DEF StepsLeft, Resting
  <2>2. QED
    BY <1>2, <1>3, <2>1
<1>4. CASE Ingested(c)
  <2>1. pc[c] = "ingest" /\ pc'[c] = "page" /\ offset'[c] = offset[c]
    BY <1>1, <1>4 DEF Ingested
  <2>2. offset[c] = 0
    BY <2>1 DEF IInv, CallOK, Holds
  <2>3. Ahead(Ids, 0) = Ids
    BY AllAhead
  <2>4. Cardinality(Ids) \in Nat
    BY FS_CardinalityType
  <2>5. QED
    BY <1>1, <2>1, <2>2, <2>3, <2>4 DEF StepsLeft
<1>5. CASE ReadPage(c)
  <2>1. pc[c] = "page" /\ offset'[c] = OffsetAfter(c)
    BY <1>1, <1>5 DEF ReadPage
  <2>2. CASE OffsetAfter(c) = 0
    <3>1. pc'[c] = "split"
      BY <1>1, <1>5, <2>2 DEF ReadPage
    <3>2. QED
      BY <1>1, <1>2, <2>1, <3>1 DEF StepsLeft
  <2>3. CASE OffsetAfter(c) # 0
    <3>1. pc'[c] = "page"
      BY <1>1, <1>5, <2>3 DEF ReadPage
    <3>2. Matching(c) \in SUBSET Ahead(Ids, offset[c]) /\ offset[c] \in Nat
      <4>1. offset[c] \in Ids \cup {0}
        BY <1>1
      <4>2. Matching(c) \subseteq Ahead(Ids, offset[c])
        BY DEF Matching, Within, Ahead
      <4>3. offset[c] \in Nat
        <5>1. Ids \cup {0} \subseteq Nat
          OBVIOUS
        <5>2. QED
          BY <4>1, <5>1, Zenon
      <4>4. QED
        BY <4>2, <4>3
    <3>3. Cardinality(Ahead(Ids, OffsetAfter(c))) < Cardinality(Ahead(Ids, offset[c]))
      BY <2>3, <3>2, ScrollAdvances DEF OffsetAfter
    <3>4. Cardinality(Ahead(Ids, offset'[c])) \in Nat
      BY AheadIsCounted
    <3>5. StepsLeft(c) = Cardinality(Ahead(Ids, offset[c])) + ATTEMPTS + 3
      BY <2>1 DEF StepsLeft
    <3>6. StepsLeft(c)' = Cardinality(Ahead(Ids, offset'[c])) + ATTEMPTS + 3
      BY <3>1 DEF StepsLeft, ATTEMPTS
    <3>7. QED
      BY <1>1, <1>2, <2>1, <3>3, <3>4, <3>5, <3>6
  <2>4. QED
    BY <2>2, <2>3
<1>6. CASE Split(c)
  <2>1. pc[c] = "split" /\ (pc'[c] = "none" \/ (pc'[c] = "write" /\ attempts'[c] = attempts[c]))
    BY <1>1, <1>6 DEF Split, locals
  <2>2. QED
    BY <1>1, <2>1 DEF StepsLeft
<1>7. CASE WriteSummary(c)
  <2>1. pc[c] = "write" /\ pc'[c] = "store"
    BY <1>1, <1>7 DEF WriteSummary
  <2>2. QED
    BY <1>1, <2>1 DEF StepsLeft
<1>8. CASE SummaryFails(c)
  <2>1. /\ pc[c] = "write"
        /\ \/ pc'[c] = "retry_error"
           \/ pc'[c] = "write" /\ attempts'[c] = attempts[c] + 1
    BY <1>1, <1>8 DEF SummaryFails
  <2>2. QED
    BY <1>1, <2>1 DEF StepsLeft
<1>9. CASE SaveDigest(c) \/ Interrupt(c)
  <2>1. pc[c] \in Active /\ pc'[c] \in Resting
    BY <1>1, <1>9 DEF SaveDigest, Interrupt, Active, Resting
  <2>2. QED
    BY <1>3, <2>1
<1>10. QED
  BY <1>4, <1>5, <1>6, <1>7, <1>8, <1>9 DEF Step

\* A call ends after at most Cardinality(Ids) + ATTEMPTS + 4 steps of its own, whatever is
\* committed while it reads: each of them leaves it fewer, and nothing else gives it more
\* (read_news_range, RetryPolicy).
THEOREM CallsRunOut ==
  Spec => /\ []Counted
          /\ [][\A c \in Callers :
                  /\ Step(c) \/ Interrupt(c) => StepsLeft(c)' < StepsLeft(c)
                  /\ pc[c] \in Active => StepsLeft(c)' <= StepsLeft(c)]_vars
<1>1. IInv => Counted
  BY StepsAreCounted DEF IInv, Counted
<1>2. IInv' => Counted'
  BY <1>1, PTL
<1>3. ASSUME IInv, IInv', [Next]_vars, NEW c \in Callers, pc[c] \in Active
      PROVE  StepsLeft(c)' <= StepsLeft(c)
  <2>1. StepsLeft(c) \in Nat /\ StepsLeft(c)' \in Nat
    BY <1>1, <1>2, <1>3 DEF Counted
  <2>2. CASE Step(c) \/ Interrupt(c)
    BY <1>3, <2>1, <2>2, StepsAreTaken
  <2>3. ASSUME Same(c)
        PROVE  StepsLeft(c)' <= StepsLeft(c)
    BY <2>1, <2>3 DEF Same, StepsLeft, ATTEMPTS
  <2>4. CASE \E o \in Callers : o # c /\ Acts(o)
    BY <1>3, <2>3, <2>4, OthersStay DEF IInv
  <2>5. CASE (\E x \in Items : StoreArticle(x)) \/ Midnight \/ UNCHANGED vars
    BY <2>3, <2>5 DEF StoreArticle, Midnight, vars, locals, Same
  <2>6. ~ \E p \in Periods, today \in Todays : Summarize(c, p, today)
    BY <1>3 DEF Summarize, Active, Resting
  <2>7. QED
    BY <1>3, <2>2, <2>4, <2>5, <2>6 DEF Next, Acts
<1>4. IInv /\ IInv' /\ [Next]_vars =>
        [\A c \in Callers :
           /\ Step(c) \/ Interrupt(c) => StepsLeft(c)' < StepsLeft(c)
           /\ pc[c] \in Active => StepsLeft(c)' <= StepsLeft(c)]_vars
  BY <1>3, StepsAreTaken
<1>5. QED
  BY <1>1, <1>4, InductiveInvariant, PTL DEF Spec
=============================================================================
