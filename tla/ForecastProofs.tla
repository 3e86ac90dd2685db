--------------------------- MODULE ForecastProofs ---------------------------
(***************************************************************************)
(* Proofs about Forecast, for any number of callers, days, articles and    *)
(* patterns: the types (a reading always has a number to rest on), cited   *)
(* patterns are stored, nothing of a later day reaches a reading, and the  *)
(* memory of a reading misses no evidence of an article whose versions     *)
(* agree on its day; and calls implement visits to the reading room.       *)
(*                                                                         *)
(* None of these is inductive alone.  IInv adds what ingest keeps of the   *)
(* store (evidence first, of the article's own day unless it is disputed)  *)
(* and what a call has in its hands: its items and numbers are of its      *)
(* window and still backed by activations, what lies before the offset of  *)
(* a paged read has been read, what it no longer has to save is in the     *)
(* store, and a call that has read nothing holds nothing.                  *)
(***************************************************************************)
EXTENDS Forecast, ScrollProofs

USE DaysAssumption, ItemsAssumption, DateAssumption, ValueAssumption, DayNumberAssumption,
    LinksAssumption, NoReadingAssumption

-----------------------------------------------------------------------------
(* The inductive invariant *)

\* What ingest keeps of the store: every point under its own id, evidence first and,
\* unless the article is disputed, of the article's own day, and a collection for it.
EvidenceFirst ==
  /\ \A id \in Ids : news[id] # NoItem =>
       /\ IdOf[news[id]] = id
       /\ "news" \in collections
       /\ \A n \in newsNumbers[id] :
            /\ numberHistory[<<id, n>>] # NoItem
            /\ id \notin disputed => DateOf[numberHistory[<<id, n>>]] = DateOf[news[id]]
  /\ \A k \in Ids \X Numbers : numberHistory[k] # NoItem =>
       IdOf[numberHistory[k]] = k[1] /\ "number_history" \in collections
  /\ \A d \in Days : forecasts[d] # NoReading => "forecasts" \in collections

\* A call that has read nothing yet, or is over, holds nothing, and only a read has
\* an offset.
HoldsNothing(c) ==
  /\ pc[c] \in Resting \cup {"ingest", "lookup"} =>
       items[c] = {} /\ carries[c] = {} /\ before[c] = {}
  /\ pc[c] \in Resting \cup {"ingest", "lookup", "window"} =>
       memory[c] = {} /\ found[c] = {} /\ unsaved[c] = {}
  /\ pc[c] \in Resting \cup {"ingest", "lookup", "find", "save"} => offset[c] = 0

\* A version of the article is among the items; the memory has an activation of the
\* number for the article.
Shows(c, id) == \E x \in items[c] : IdOf[x] = id

Remembered(c, k) == \E a \in memory[c] : IdOf[a[1]] = k[1] /\ a[2] = k[2]

\* What lies before the offset of a read has been read, and at its end everything is,
\* whatever is disputed aside.
HasRead(c) ==
  /\ \A id \in before[c] :
       /\ news[id] # NoItem
       /\ id \notin disputed => InWindow(c, news[id])
  /\ pc[c] = "window" => \A id \in before[c] \ disputed : id < offset[c] => Shows(c, id)
  /\ pc[c] # "window" => \A id \in before[c] \ disputed : Shows(c, id)
  /\ WindowDays <= HistoryDays /\ pc[c] = "history" =>
       \A k \in carries[c] :
         k[1] \notin disputed /\ PointOf[k] < offset[c] => Remembered(c, k)
  /\ WindowDays <= HistoryDays /\ pc[c] \in {"write", "store"} =>
       \A k \in carries[c] : k[1] \notin disputed => Remembered(c, k)

\* What a call has read is of its window, and its numbers are still in the history.
ReadsItsWindow(c) ==
  /\ IsFiniteSet(items[c])
  /\ want[c] # "analyze" => \A x \in items[c] : InWindow(c, x)
  /\ \A k \in carries[c] :
       /\ news[k[1]] # NoItem /\ numberHistory[k] # NoItem
       /\ k[1] \notin disputed => InWindow(c, numberHistory[k])
  /\ \A a \in memory[c] : DateOf[a[1]] <= day[c]

\* What a call has found and need not save any more is stored, and a reading is
\* written when nothing is left to save.
SavesWhatItFound(c) ==
  /\ \A p \in found[c] \ unsaved[c] : patterns[p] # "absent"
  /\ pc[c] \in {"history", "write", "store"} => unsaved[c] = {}
  /\ pc[c] = "store" => result[c] \in Readings /\ result[c].patterns = found[c]

CallOK(c) == HoldsNothing(c) /\ HasRead(c) /\ ReadsItsWindow(c) /\ SavesWhatItFound(c)

\* A call that only analyzes never reaches the readings.
OnlyForecastsWrite ==
  \A c \in Callers : want[c] = "analyze" => pc[c] \in Resting \cup {"find", "save"}

IInv ==
  /\ TypeOK
  /\ EvidenceFirst
  /\ OnlyForecastsWrite
  /\ \A c \in Callers : CallOK(c)
  /\ CitedPatternsStored

-----------------------------------------------------------------------------
(* The number a reading rests on *)

\* A finite family of reduced values has a dominant one: the vote has a winner.
LEMMA DominantIsReduced ==
  ASSUME NEW D, IsFiniteSet(D), NEW f \in [D -> ReducedNumbers]
  PROVE  DominantNumber(f) \in ReducedNumbers \cup {0}
<1>1. CASE D = {}
  BY <1>1 DEF DominantNumber
<1>2. CASE D # {}
  <2> DEFINE top == Cardinality(D) * 34 + 33
             Gap(v) == top - (Votes(f, v) * 34 + v)
             Gaps == { Gap(v) : v \in Values(f) }
  <2>1. Cardinality(D) \in Nat
    BY FS_CardinalityType
  <2>2. \A v : Votes(f, v) \in Nat /\ Votes(f, v) <= Cardinality(D)
    <3> TAKE v
    <3>1. { i \in D : f[i] = v } \in SUBSET D
      OBVIOUS
    <3>2. /\ IsFiniteSet({ i \in D : f[i] = v })
          /\ Cardinality({ i \in D : f[i] = v }) <= Cardinality(D)
      BY <3>1, FS_Subset
    <3>3. Cardinality({ i \in D : f[i] = v }) \in Nat
      BY <3>2, FS_CardinalityType
    <3>4. Votes(f, v) = Cardinality({ i \in D : f[i] = v })
      BY DEF Votes
    <3>5. QED
      BY <3>2, <3>3, <3>4
  <2>3. Values(f) \subseteq ReducedNumbers /\ Values(f) # {}
    BY <1>2 DEF Values
  <2>4. \A v \in Values(f) : v \in 1..33
    BY <2>3 DEF ReducedNumbers, MasterNumbers
  <2>5. \A v \in Values(f) : Gap(v) \in Nat
    BY <2>1, <2>2, <2>4
  <2>6. Gaps \in SUBSET Nat /\ Gaps # {}
    BY <2>3, <2>5
  <2>7. PICK least \in Gaps : \A g \in Gaps : ~ (<<g, least>> \in OpToRel(<, Nat))
    <3> HIDE DEF Gaps
    <3>1. QED
      BY <2>6, NatLessThanWellFounded, WFMin
  <2>8. \A g \in Gaps : least <= g
    <3> HIDE DEF Gaps
    <3>1. OpToRel(<, Nat) = { q \in Nat \X Nat : q[1] < q[2] }
      BY DEF OpToRel
    <3>2. ASSUME NEW g \in Gaps
          PROVE  least <= g
      <4>1. least \in Nat /\ g \in Nat
        BY <2>6
      <4>2. ~ (<<g, least>> \in { q \in Nat \X Nat : q[1] < q[2] })
        BY <2>7, <3>1
      <4>3. QED
        BY <4>1, <4>2
    <3>3. QED
      BY <3>2
  <2>9. PICK v \in Values(f) : least = Gap(v)
    OBVIOUS
  <2>10. ASSUME NEW w \in Values(f)
         PROVE  \/ Votes(f, v) > Votes(f, w)
                \/ Votes(f, v) = Votes(f, w) /\ v >= w
    <3>1. Gap(v) <= Gap(w)
      BY <2>8, <2>9
    <3>2. QED
      BY <3>1, <2>1, <2>2, <2>4
  <2>11. DominantNumber(f) \in Values(f)
    BY <1>2, <2>10 DEF DominantNumber
  <2>12. QED
    BY <2>3, <2>11
<1>3. QED
  BY <1>1, <1>2

\* The facts a reading is built from are those of a reading, whatever the prose.
LEMMA ReadingsAreReadings ==
  ASSUME TypeOK, NEW c \in Callers, IsFiniteSet(items[c]), NEW text \in Texts
  PROVE  ReadingOf(c, text) \in Readings
<1> DEFINE voters == { x \in items[c] : ValueOf[x] # 0 }
<1>1. IsFiniteSet(voters)
  BY FS_Subset
<1>2. VotingValues(c) \in [voters -> ReducedNumbers]
  BY DEF VotingValues, TypeOK
<1>3. DominantNumber(VotingValues(c)) \in ReducedNumbers \cup {0}
  BY <1>1, <1>2, DominantIsReduced
<1>4. ReadingNumber(c) \in ReducedNumbers
  BY <1>3 DEF ReadingNumber, TypeOK
<1>5. IsMaster(DominantNumber(VotingValues(c))) \in BOOLEAN
  BY DEF IsMaster
<1>6. found[c] \in SUBSET PatternIds
  BY DEF TypeOK
<1>7. QED
  BY <1>4, <1>5, <1>6 DEF ReadingOf, Readings
-----------------------------------------------------------------------------
(* A page of each read *)

\* A page of the window: articles of the window, and nothing of it is passed over.
LEMMA NewsPage ==
  ASSUME TypeOK, NEW c \in Callers
  PROVE  LET page == Page(NewsLeft(c), PageSize)
         IN  /\ NewsOffset(c) \in Nat
             /\ page \subseteq NewsLeft(c)
             /\ NewsOffset(c) = 0 => page = NewsLeft(c)
             /\ \A id \in NewsLeft(c) : id < NewsOffset(c) => id \in page
<1>1. NewsLeft(c) \in SUBSET Nat
  BY IdsAssumption DEF NewsLeft, WindowNews, TypeOK
<1>2. PageSize \in Nat \ {0}
  BY WindowAssumption
<1> HIDE DEF NewsLeft
<1> DEFINE left == NewsLeft(c)
<1> HIDE DEF left
<1>3. /\ Continuation(left, PageSize) \in left \cup {0}
      /\ Page(left, PageSize) \subseteq left
      /\ Continuation(left, PageSize) = 0 => Page(left, PageSize) = left
      /\ \A p \in left : p < Continuation(left, PageSize) => p \in Page(left, PageSize)
  <2>1. left \in SUBSET Nat
    BY <1>1 DEF left
  <2>2. QED
    BY <1>2, <2>1, PageLeavesNothing
<1>4. QED
  BY <1>1, <1>3 DEF NewsOffset, left

\* A page of the memory, likewise, over the points of the activations.
LEMMA HistoryPage ==
  ASSUME TypeOK, NEW c \in Callers
  PROVE  LET page == Page(HistoryLeft(c), PageSize)
         IN  /\ HistoryOffset(c) \in Nat
             /\ HistoryOffset(c) = 0 => page = HistoryLeft(c)
             /\ \A p \in HistoryLeft(c) : p < HistoryOffset(c) => p \in page
             /\ \A k \in WindowActivations(c) :
                  PointOf[k] \in Nat /\ (PointOf[k] < offset[c] \/ PointOf[k] \in HistoryLeft(c))
<1>1. WindowActivations(c) \subseteq Ids \X Numbers
  BY DEF WindowActivations, TypeOK
<1>2. \A k \in WindowActivations(c) : PointOf[k] \in Nat
  BY <1>1, PointAssumption
<1>3. HistoryLeft(c) \in SUBSET Nat
  BY <1>2 DEF HistoryLeft
<1>4. \A k \in WindowActivations(c) : PointOf[k] < offset[c] \/ PointOf[k] \in HistoryLeft(c)
  <2>1. offset[c] \in Nat
    BY DEF TypeOK
  <2>2. QED
    BY <1>2, <2>1 DEF HistoryLeft
<1>5. PageSize \in Nat \ {0}
  BY WindowAssumption
<1> HIDE DEF HistoryLeft
<1> DEFINE left == HistoryLeft(c)
<1> HIDE DEF left
<1>6. /\ Continuation(left, PageSize) \in left \cup {0}
      /\ Page(left, PageSize) \subseteq left
      /\ Continuation(left, PageSize) = 0 => Page(left, PageSize) = left
      /\ \A p \in left : p < Continuation(left, PageSize) => p \in Page(left, PageSize)
  <2>1. left \in SUBSET Nat
    BY <1>3 DEF left
  <2>2. QED
    BY <1>5, <2>1, PageLeavesNothing
<1>7. QED
  BY <1>2, <1>3, <1>4, <1>6 DEF HistoryOffset, left

-----------------------------------------------------------------------------
(* Type correctness *)

\* A call that leaves keeps the types of what it had in its hands.
LEMMA LeaveTypes ==
  ASSUME TypeOK, NEW c \in Callers, NEW phase \in Resting,
         NEW r \in Readings \cup {NoReading}, Leave(c, phase, r)
  PROVE  /\ pc' \in [Callers -> Active \cup Resting]
         /\ items' \in [Callers -> SUBSET Items]
         /\ carries' \in [Callers -> SUBSET (Ids \X Numbers)]
         /\ found' \in [Callers -> SUBSET PatternIds]
         /\ unsaved' \in [Callers -> SUBSET PatternIds]
         /\ memory' \in [Callers -> SUBSET (Items \X Numbers)]
         /\ attempts' \in [Callers -> 0..(ATTEMPTS - 1)]
         /\ result' \in [Callers -> Readings \cup {NoReading}]
         /\ offset' \in [Callers -> Nat]
         /\ before' \in [Callers -> SUBSET Ids]
<1>1. pc' \in [Callers -> Active \cup Resting]
  BY DEF TypeOK, Leave, Goto
<1>2. attempts' \in [Callers -> 0..(ATTEMPTS - 1)]
  BY DEF TypeOK, Leave, ATTEMPTS
<1>3. /\ items' \in [Callers -> SUBSET Items]
      /\ carries' \in [Callers -> SUBSET (Ids \X Numbers)]
      /\ memory' \in [Callers -> SUBSET (Items \X Numbers)]
  BY DEF TypeOK, Leave
<1>4. /\ found' \in [Callers -> SUBSET PatternIds]
      /\ unsaved' \in [Callers -> SUBSET PatternIds]
  BY DEF TypeOK, Leave
<1>5. /\ result' \in [Callers -> Readings \cup {NoReading}]
      /\ offset' \in [Callers -> Nat]
      /\ before' \in [Callers -> SUBSET Ids]
  BY DEF TypeOK, Leave
<1>6. QED
  BY <1>1, <1>2, <1>3, <1>4, <1>5

\* What a step of the program keeps of what ingest wrote: nothing is removed, and what
\* is not disputed stays on its day.
StoreKeeps ==
  /\ disputed \subseteq disputed'
  /\ \A id \in Ids : news[id] # NoItem =>
       /\ news'[id] # NoItem
       /\ id \notin disputed' => DateOf[news'[id]] = DateOf[news[id]]
  /\ \A k \in Ids \X Numbers : numberHistory[k] # NoItem =>
       /\ numberHistory'[k] # NoItem
       /\ news[k[1]] # NoItem /\ k[1] \notin disputed' =>
            DateOf[numberHistory'[k]] = DateOf[numberHistory[k]]

\* What ingest does beside a call: points are added or replaced, collections are
\* added, and the rest is left alone.
LEMMA IngestGrows ==
  ASSUME TypeOK, IngestStep
  PROVE  /\ UNCHANGED <<patterns, forecasts, pc, request, locals>>
         /\ collections \subseteq collections' /\ collections' \subseteq Collections
         /\ news' \in [Ids -> Items \cup {NoItem}]
         /\ newsNumbers' \in [Ids -> SUBSET Numbers]
         /\ numberHistory' \in [Ids \X Numbers -> Items \cup {NoItem}]
         /\ disputed' \subseteq Ids
         /\ StoreKeeps
<1>1. /\ UNCHANGED <<patterns, forecasts, pc, request, locals>> /\ Ingest!Next
      /\ disputed' = disputed \cup { id \in Ids : Disputes(id) }
  BY DEF IngestStep
<1> DEFINE Grows == /\ collections \subseteq collections' /\ collections' \subseteq Collections
                    /\ news' \in [Ids -> Items \cup {NoItem}]
                    /\ newsNumbers' \in [Ids -> SUBSET Numbers]
                    /\ numberHistory' \in [Ids \X Numbers -> Items \cup {NoItem}]
                    /\ \A id \in Ids : news[id] # NoItem => news'[id] # NoItem
                    /\ \A k \in Ids \X Numbers :
                         numberHistory[k] # NoItem => numberHistory'[k] # NoItem
<1>2. ASSUME Ingest!PrepareNews \/ Ingest!RecordFails
      PROVE  Grows
  <2>1. UNCHANGED <<news, newsNumbers, numberHistory>>
    BY <1>2 DEF Ingest!PrepareNews, Ingest!RecordFails
  <2>2. collections \subseteq collections' /\ collections' \subseteq Collections
    BY <1>2 DEF Ingest!PrepareNews, Ingest!RecordFails, TypeOK, Collections
  <2>3. QED
    BY <2>1, <2>2 DEF TypeOK
<1>3. ASSUME NEW rows \in Ingest!Rows, Ingest!RecordActivations(rows)
      PROVE  Grows
  <2>1. rows \in [Ids \X Numbers -> Items \cup {NoItem}]
    BY DEF Ingest!Rows
  <2>2. /\ collections' = collections \cup {"number_history"}
        /\ UNCHANGED <<news, newsNumbers>>
        /\ numberHistory' =
             [k \in Ids \X Numbers |-> IF rows[k] = NoItem THEN numberHistory[k] ELSE rows[k]]
    BY <1>3 DEF Ingest!RecordActivations
  <2>3. numberHistory' \in [Ids \X Numbers -> Items \cup {NoItem}]
    BY <2>1, <2>2 DEF TypeOK
  <2>4. \A k \in Ids \X Numbers : numberHistory[k] # NoItem => numberHistory'[k] # NoItem
    BY <2>2
  <2>5. QED
    BY <2>2, <2>3, <2>4 DEF TypeOK, Collections
<1>4. ASSUME NEW batch \in Ingest!Batches, NEW numbers \in [Ids -> SUBSET Numbers],
             Ingest!StoreArticles(batch, numbers)
      PROVE  Grows
  <2>1. batch \in [Ids -> Items \cup {NoItem}]
    BY DEF Ingest!Batches
  <2>2. /\ UNCHANGED <<collections, numberHistory>> /\ newsNumbers' = numbers
        /\ news' = [id \in Ids |-> IF batch[id] = NoItem THEN news[id] ELSE batch[id]]
    BY <1>4 DEF Ingest!StoreArticles
  <2>3. news' \in [Ids -> Items \cup {NoItem}]
    BY <2>1, <2>2 DEF TypeOK
  <2>4. \A id \in Ids : news[id] # NoItem => news'[id] # NoItem
    BY <2>2
  <2>5. QED
    BY <2>2, <2>3, <2>4 DEF TypeOK
<1> HIDE DEF Grows
<1>5. Grows
  BY <1>1, <1>2, <1>3, <1>4 DEF Ingest!Next
<1>6. disputed' \subseteq Ids
  BY <1>1 DEF TypeOK
<1>7. ASSUME NEW id \in Ids, news[id] # NoItem, id \notin disputed'
      PROVE  DateOf[news'[id]] = DateOf[news[id]]
  BY <1>1, <1>5, <1>7 DEF Disputes, Grows
<1>8. ASSUME NEW k \in Ids \X Numbers, numberHistory[k] # NoItem, news[k[1]] # NoItem,
             k[1] \notin disputed'
      PROVE  DateOf[numberHistory'[k]] = DateOf[numberHistory[k]]
  <2>1. k = <<k[1], k[2]>> /\ k[1] \in Ids /\ k[2] \in Numbers
    OBVIOUS
  <2>2. news'[k[1]] # NoItem
    BY <1>5, <1>8, <2>1 DEF Grows
  <2>3. ~ Disputes(k[1])
    BY <1>1, <1>8, <2>1
  <2>4. QED
    BY <1>8, <2>1, <2>2, <2>3 DEF Disputes
<1>9. StoreKeeps
  BY <1>1, <1>5, <1>7, <1>8 DEF StoreKeeps, Grows
<1>10. QED
  BY <1>1, <1>5, <1>6, <1>9 DEF Grows

\* No step of the program leaves the types of its state.
LEMMA TypeStep ==
  ASSUME TypeOK, \A c \in Callers : IsFiniteSet(items[c]), [Next]_vars
  PROVE  TypeOK'
<1> USE DEF request, ingest, store, locals, Collections, Wants
<1>0. /\ {"idle", "returned", "retry_error", "store_error"} = Resting
      /\ {"ingest", "lookup", "window", "find", "save", "history", "write", "store"} = Active
  BY DEF Active, Resting
<1>1. CASE IngestStep
  BY <1>1, IngestGrows DEF TypeOK
<1>2. ASSUME NEW c \in Callers, NEW d \in Days, NEW w \in Wants \ {"analyze"}, Ask(c, d, w)
      PROVE  TypeOK'
  BY <1>0, <1>2 DEF TypeOK, Goto, Ask
<1>3. ASSUME NEW c \in Callers, NEW ids \in SUBSET Ids, AskPatterns(c, ids)
      PROVE  TypeOK'
  <2>1. { news[id] : id \in ids } \ {NoItem} \subseteq Items
    BY DEF TypeOK
  <2>2. QED
    BY <1>0, <1>3, <2>1 DEF TypeOK, Goto, AskPatterns
<1>4. ASSUME NEW c \in Callers, Lookup(c)
      PROVE  TypeOK'
  <2>1. CASE "forecasts" \in collections /\ forecasts[day[c]] # NoReading
    <3>1. Leave(c, "returned", forecasts[day[c]])
      BY <1>4, <2>1 DEF Lookup
    <3>2. forecasts[day[c]] \in Readings \cup {NoReading}
      BY DEF TypeOK
    <3>3. QED
      BY <1>0, <1>4, <3>1, <3>2, LeaveTypes DEF TypeOK, Lookup
  <2>2. CASE ~ ("forecasts" \in collections /\ forecasts[day[c]] # NoReading)
    <3>1. before' = [before EXCEPT ![c] = WindowNews(c)]
      BY <1>4, <2>2 DEF Lookup
    <3>2. before' \in [Callers -> SUBSET Ids]
      BY <3>1 DEF TypeOK, WindowNews
    <3>3. /\ pc' = [pc EXCEPT ![c] = "window"]
          /\ UNCHANGED <<store, request, offset, items, carries, found, unsaved, memory,
                         attempts, result>>
      BY <1>4, <2>2 DEF Goto, Lookup
    <3>4. pc' \in [Callers -> Active \cup Resting]
      BY <1>0, <3>3 DEF TypeOK
    <3>5. QED
      BY <3>2, <3>3, <3>4 DEF TypeOK
  <2>3. QED
    BY <2>1, <2>2
<1>5. ASSUME NEW c \in Callers, ReadWindow(c)
      PROVE  TypeOK'
  <2>1. /\ NewsOffset(c) \in Nat
        /\ Page(NewsLeft(c), PageSize) \subseteq WindowNews(c)
    BY NewsPage DEF NewsLeft, TypeOK
  <2>2. { news[id] : id \in Page(NewsLeft(c), PageSize) } \subseteq Items
    BY <2>1 DEF WindowNews, TypeOK
  <2>3. QED
    BY <1>0, <1>5, <2>1, <2>2 DEF TypeOK, Goto, ReadWindow
<1>6. ASSUME NEW c \in Callers, FindPatterns(c)
      PROVE  TypeOK'
  BY <1>0, <1>6 DEF TypeOK, Goto, FindPatterns, ATTEMPTS
<1>7. ASSUME NEW c \in Callers, ModelFails(c)
      PROVE  TypeOK'
  <2>1. CASE attempts[c] + 1 = ATTEMPTS
    <3>1. Leave(c, "retry_error", NoReading)
      BY <1>7, <2>1 DEF ModelFails
    <3>2. QED
      BY <1>0, <1>7, <3>1, LeaveTypes DEF TypeOK, ModelFails
  <2>2. CASE ~ (attempts[c] + 1 = ATTEMPTS)
    BY <1>0, <1>7, <2>2 DEF TypeOK, ModelFails, ATTEMPTS
  <2>3. QED
    BY <2>1, <2>2
<1>8. ASSUME NEW c \in Callers, SavePattern(c)
      PROVE  TypeOK'
  BY <1>0, <1>8 DEF TypeOK, Goto, SavePattern
<1>9. ASSUME NEW c \in Callers, AnalysisStored(c)
       PROVE  TypeOK'
  <2>1. CASE want[c] = "analyze"
    <3>1. Leave(c, "returned", NoReading)
      BY <1>9, <2>1 DEF AnalysisStored
    <3>2. QED
      BY <1>0, <1>9, <3>1, LeaveTypes DEF TypeOK, AnalysisStored
  <2>2. CASE ~ (want[c] = "analyze")
    <3>1. pc' = [pc EXCEPT ![c] = "history"] /\ UNCHANGED <<store, request, locals>>
      BY <1>9, <2>2 DEF Goto, AnalysisStored
    <3>2. pc' \in [Callers -> Active \cup Resting]
      BY <1>0, <3>1 DEF TypeOK
    <3>3. QED
      BY <3>1, <3>2 DEF TypeOK
  <2>3. QED
    BY <2>1, <2>2
<1>10. ASSUME NEW c \in Callers, DayHistory(c)
       PROVE  TypeOK'
  <2>1. HistoryOffset(c) \in Nat
    BY HistoryPage
  <2>2. { <<numberHistory[k], k[2]>> : k \in { j \in WindowActivations(c) :
            PointOf[j] \in Page(HistoryLeft(c), PageSize) /\ j[2] \in NumbersOf(c) } }
          \subseteq Items \X Numbers
    BY DEF WindowActivations, TypeOK
  <2>3. QED
    BY <1>0, <1>10, <2>1, <2>2 DEF TypeOK, Goto, DayHistory
<1>11. ASSUME NEW c \in Callers, BuildForecast(c)
       PROVE  TypeOK'
  <2>1. PICK text \in Texts : result' = [result EXCEPT ![c] = ReadingOf(c, text)]
    BY <1>11 DEF BuildForecast
  <2>2. ReadingOf(c, text) \in Readings
    BY ReadingsAreReadings
  <2>3. QED
    BY <1>0, <1>11, <2>1, <2>2 DEF TypeOK, Goto, BuildForecast, ATTEMPTS
<1>12. ASSUME NEW c \in Callers, SaveForecast(c)
       PROVE  TypeOK'
  <2>1. Leave(c, "returned", result[c]) /\ result[c] \in Readings \cup {NoReading}
    BY <1>12 DEF TypeOK, SaveForecast
  <2>2. QED
    BY <1>0, <1>12, <2>1, LeaveTypes DEF TypeOK, SaveForecast
<1>13. ASSUME NEW c \in Callers, Interrupt(c)
       PROVE  TypeOK'
  <2>1. Leave(c, "store_error", NoReading)
    BY <1>13 DEF Interrupt
  <2>2. collections' \subseteq Collections
    BY <1>13 DEF TypeOK, Interrupt
  <2>3. QED
    BY <1>0, <1>13, <2>1, <2>2, LeaveTypes DEF TypeOK, Interrupt
<1>14. ASSUME NEW c \in Callers, Ingested(c) \/ NoHistory(c)
       PROVE  TypeOK'
  BY <1>0, <1>14 DEF TypeOK, Goto, Ingested, NoHistory
<1>15. ASSUME NEW p \in ClientPatterns, SavePatternTool(p)
       PROVE  TypeOK'
  <2>1. patterns' \in [PatternIds -> {"absent", "first", "later"}]
    <3>1. PICK point \in {patterns[p], IF patterns[p] = "absent" THEN "first" ELSE "later"} :
            patterns' = [patterns EXCEPT ![p] = point]
      BY <1>15 DEF SavePatternTool
    <3>2. patterns \in [PatternIds -> {"absent", "first", "later"}] /\ p \in PatternIds
      BY ClientAssumption DEF TypeOK
    <3>3. point \in {"absent", "first", "later"}
      BY <3>1, <3>2
    <3>4. QED
      BY <3>1, <3>2, <3>3
  <2>2. collections' \subseteq Collections
    BY <1>15 DEF TypeOK, SavePatternTool
  <2>3. UNCHANGED <<ingest, forecasts, pc, request, locals>>
    BY <1>15 DEF SavePatternTool
  <2>4. QED
    BY <2>1, <2>2, <2>3 DEF TypeOK
<1>16. CASE UNCHANGED vars
  BY <1>16 DEF TypeOK, vars
<1>17. QED
  BY <1>1, <1>2, <1>3, <1>4, <1>5, <1>6, <1>7, <1>8, <1>9, <1>10, <1>11, <1>12, <1>13,
     <1>14, <1>15, <1>16 DEF Next, CallStep
-----------------------------------------------------------------------------
(* What a step leaves alone *)

\* A step of the call c itself.
Acts(c) ==
  \/ \E d \in Days, w \in Wants \ {"analyze"} : Ask(c, d, w)
  \/ \E ids \in SUBSET Ids : AskPatterns(c, ids)
  \/ CallStep(c)
  \/ Interrupt(c)

\* What the call o has in its hands is what it had.
Same(o) ==
  /\ pc'[o] = pc[o] /\ day'[o] = day[o] /\ want'[o] = want[o]
  /\ items'[o] = items[o] /\ carries'[o] = carries[o] /\ memory'[o] = memory[o]
  /\ found'[o] = found[o] /\ unsaved'[o] = unsaved[o] /\ result'[o] = result[o]
  /\ offset'[o] = offset[o] /\ before'[o] = before[o] /\ attempts'[o] = attempts[o]

\* Nothing is taken from the articles, the history and the saved patterns, so what a
\* call relies on stays.
LEMMA StoreGrows ==
  ASSUME TypeOK, [Next]_vars
  PROVE  /\ StoreKeeps
         /\ \A p \in PatternIds : patterns[p] # "absent" => patterns'[p] # "absent"
<1> USE DEF ingest, store
<1>1. CASE IngestStep
  BY <1>1, IngestGrows
<1>2. ASSUME NEW c \in Callers, Acts(c), ~ SavePattern(c)
      PROVE  UNCHANGED <<ingest, patterns>>
  BY <1>2 DEF Acts, CallStep, Ask, AskPatterns, Ingested, Lookup, ReadWindow, FindPatterns,
     ModelFails, AnalysisStored, NoHistory, DayHistory, BuildForecast, SaveForecast, Interrupt
<1>3. ASSUME NEW c \in Callers, SavePattern(c)
      PROVE  /\ UNCHANGED ingest
             /\ \A p \in PatternIds : patterns[p] # "absent" => patterns'[p] # "absent"
  <2>1. PICK p \in unsaved[c] :
          patterns' = [patterns EXCEPT ![p] = IF @ = "absent" THEN "first" ELSE "later"]
    BY <1>3 DEF SavePattern
  <2>2. QED
    BY <1>3, <2>1 DEF TypeOK, SavePattern
<1>4. ASSUME NEW p \in ClientPatterns, SavePatternTool(p)
      PROVE  /\ UNCHANGED ingest
             /\ \A q \in PatternIds : patterns[q] # "absent" => patterns'[q] # "absent"
  <2>1. PICK point \in {patterns[p], IF patterns[p] = "absent" THEN "first" ELSE "later"} :
          patterns' = [patterns EXCEPT ![p] = point]
    BY <1>4 DEF SavePatternTool
  <2>2. QED
    BY <1>4, <2>1 DEF TypeOK, SavePatternTool
<1>5. CASE UNCHANGED vars
  BY <1>5 DEF vars, StoreKeeps
<1>6. (UNCHANGED ingest) => StoreKeeps
  BY DEF StoreKeeps
<1>7. QED
  BY <1>1, <1>2, <1>3, <1>4, <1>5, <1>6 DEF Next, Acts

\* A step of one call is not a step of another.
LEMMA OthersStay ==
  ASSUME TypeOK, NEW c \in Callers, Acts(c), NEW o \in Callers, o # c
  PROVE  Same(o)
<1> USE DEF TypeOK, Same, Goto, Leave, request, locals
<1>1. ASSUME NEW d \in Days, NEW w \in Wants \ {"analyze"}, Ask(c, d, w)
      PROVE  Same(o)
  BY <1>1 DEF Ask
<1>2. ASSUME NEW ids \in SUBSET Ids, AskPatterns(c, ids)
      PROVE  Same(o)
  BY <1>2 DEF AskPatterns
<1>3. CASE Lookup(c)
  BY <1>3 DEF Lookup
<1>4. CASE ReadWindow(c)
  BY <1>4 DEF ReadWindow
<1>5. CASE FindPatterns(c)
  BY <1>5 DEF FindPatterns
<1>6. CASE ModelFails(c)
  BY <1>6 DEF ModelFails
<1>7. CASE SavePattern(c)
  BY <1>7 DEF SavePattern
<1>8. CASE AnalysisStored(c)
  BY <1>8 DEF AnalysisStored
<1>9. CASE DayHistory(c)
  BY <1>9 DEF DayHistory
<1>10. CASE BuildForecast(c)
  BY <1>10 DEF BuildForecast
<1>11. CASE SaveForecast(c)
  BY <1>11 DEF SaveForecast
<1>12. CASE Interrupt(c)
  BY <1>12 DEF Interrupt
<1>13. CASE Ingested(c) \/ NoHistory(c)
  BY <1>13 DEF Ingested, NoHistory
<1>14. QED
  BY <1>1, <1>2, <1>3, <1>4, <1>5, <1>6, <1>7, <1>8, <1>9, <1>10, <1>11, <1>12, <1>13
     DEF Acts, CallStep

\* A call that is left alone keeps its part of the invariant.
LEMMA SameStaysOK ==
  ASSUME TypeOK, [Next]_vars, NEW o \in Callers, CallOK(o), Same(o)
  PROVE  CallOK(o)'
<1>1. HoldsNothing(o)'
  BY DEF CallOK, HoldsNothing, Same
<1>2. ReadsItsWindow(o)'
  <2>1. StoreKeeps
    BY StoreGrows
  <2>2. ASSUME NEW k \in carries[o]
        PROVE  /\ news'[k[1]] # NoItem /\ numberHistory'[k] # NoItem
               /\ k[1] \notin disputed' => InWindow(o, numberHistory[k])
                    /\ DateOf[numberHistory'[k]] = DateOf[numberHistory[k]]
    <3>1. k \in Ids \X Numbers /\ k[1] \in Ids
      BY DEF TypeOK
    <3>2. /\ news[k[1]] # NoItem /\ numberHistory[k] # NoItem
          /\ k[1] \notin disputed => InWindow(o, numberHistory[k])
      BY DEF CallOK, ReadsItsWindow
    <3>3. QED
      BY <2>1, <3>1, <3>2 DEF StoreKeeps
  <2>3. QED
    BY <2>2 DEF CallOK, ReadsItsWindow, Same, InWindow
<1>3. SavesWhatItFound(o)'
  <2>1. \A p \in PatternIds : patterns[p] # "absent" => patterns'[p] # "absent"
    BY StoreGrows
  <2>2. found[o] \subseteq PatternIds
    BY DEF TypeOK
  <2>3. QED
    BY <2>1, <2>2 DEF CallOK, SavesWhatItFound, Same
<1>4. HasRead(o)'
  <2>1. StoreKeeps
    BY StoreGrows
  <2>2. before[o] \subseteq Ids
    BY DEF TypeOK
  <2>3. ASSUME NEW id \in before[o]
        PROVE  /\ news'[id] # NoItem
               /\ id \notin disputed' => InWindow(o, news[id])
                    /\ DateOf[news'[id]] = DateOf[news[id]]
    <3>1. /\ news[id] # NoItem
          /\ id \notin disputed => InWindow(o, news[id])
      BY DEF CallOK, HasRead
    <3>2. QED
      BY <2>1, <2>2, <3>1 DEF StoreKeeps
  <2>4. disputed \subseteq disputed'
    BY <2>1 DEF StoreKeeps
  <2>5. QED
    BY <2>3, <2>4 DEF CallOK, HasRead, Same, InWindow, Shows, Remembered
<1>5. QED
  BY <1>1, <1>2, <1>3, <1>4 DEF CallOK

-----------------------------------------------------------------------------
(* What a step keeps *)

\* Ingest writes evidence first, no call touches what it wrote, and the collection
\* of the readings is there before the first of them.
LEMMA EvidenceStep ==
  ASSUME TypeOK, EvidenceFirst, [Next]_vars
  PROVE  EvidenceFirst'
<1> USE DEF EvidenceFirst, ingest, store
<1>1. CASE IngestStep
  <2>1. /\ UNCHANGED forecasts /\ collections \subseteq collections'
        /\ disputed' = disputed \cup { id \in Ids : Disputes(id) }
    BY <1>1, IngestGrows DEF IngestStep
  <2> DEFINE Backed == /\ \A id \in Ids : news'[id] # NoItem =>
                            /\ IdOf[news'[id]] = id
                            /\ "news" \in collections'
                            /\ \A n \in newsNumbers'[id] : numberHistory'[<<id, n>>] # NoItem
                       /\ \A k \in Ids \X Numbers : numberHistory'[k] # NoItem =>
                            IdOf[numberHistory'[k]] = k[1] /\ "number_history" \in collections'
  <2>2. CASE Ingest!PrepareNews
    BY <2>1, <2>2 DEF Ingest!PrepareNews
  <2>3. ASSUME NEW rows \in Ingest!Rows, Ingest!RecordActivations(rows)
        PROVE  Backed
    <3>1. /\ UNCHANGED <<news, newsNumbers>>
          /\ numberHistory' =
               [k \in Ids \X Numbers |-> IF rows[k] = NoItem THEN numberHistory[k] ELSE rows[k]]
          /\ "number_history" \in collections'
      BY <2>3 DEF Ingest!RecordActivations
    <3>2. \A k \in Ids \X Numbers : rows[k] # NoItem => IdOf[rows[k]] = k[1]
      BY DEF Ingest!Rows
    <3>3. ASSUME NEW id \in Ids, news[id] # NoItem, NEW n \in newsNumbers[id]
          PROVE  numberHistory'[<<id, n>>] # NoItem
      <4>1. <<id, n>> \in Ids \X Numbers
        BY DEF TypeOK
      <4>2. numberHistory[<<id, n>>] # NoItem
        BY <3>3
      <4>3. QED
        BY <3>1, <4>1, <4>2
    <3>4. QED
      BY <2>1, <3>1, <3>2, <3>3
  <2>4. CASE Ingest!RecordFails
    BY <2>1, <2>4 DEF Ingest!RecordFails
  <2>5. ASSUME NEW batch \in Ingest!Batches, NEW numbers \in [Ids -> SUBSET Numbers],
               Ingest!StoreArticles(batch, numbers)
        PROVE  Backed
    <3>1. /\ UNCHANGED <<collections, numberHistory>> /\ "news" \in collections
          /\ news' = [id \in Ids |-> IF batch[id] = NoItem THEN news[id] ELSE batch[id]]
          /\ newsNumbers' = numbers
          /\ \A id \in Ids :
               IF batch[id] = NoItem THEN numbers[id] = newsNumbers[id]
               ELSE \A n \in numbers[id] : numberHistory[<<id, n>>] # NoItem
      BY <2>5 DEF Ingest!StoreArticles
    <3>2. \A id \in Ids : batch[id] # NoItem => IdOf[batch[id]] = id
      BY DEF Ingest!Batches
    <3>3. QED
      BY <3>1, <3>2
  <2>6. Backed
    BY <1>1, <2>2, <2>3, <2>4, <2>5 DEF IngestStep, Ingest!Next
  <2>7. ASSUME NEW id \in Ids, news'[id] # NoItem, id \notin disputed', NEW n \in newsNumbers'[id]
        PROVE  DateOf[numberHistory'[<<id, n>>]] = DateOf[news'[id]]
    <3>1. ~ Disputes(id)
      BY <2>1, <2>7
    <3>2. QED
      BY <2>7, <3>1 DEF Disputes
  <2>8. QED
    BY <2>1, <2>6, <2>7
<1>2. ASSUME NEW c \in Callers, Acts(c), ~ SaveForecast(c)
      PROVE  /\ UNCHANGED <<ingest, forecasts>>
             /\ collections \subseteq collections'
  BY <1>2 DEF Acts, CallStep, Ask, AskPatterns, Ingested, Lookup, ReadWindow, FindPatterns,
     ModelFails, SavePattern, AnalysisStored, NoHistory, DayHistory, BuildForecast, Interrupt
<1>3. ASSUME NEW c \in Callers, SaveForecast(c)
      PROVE  EvidenceFirst'
  BY <1>3 DEF SaveForecast
<1>4. ASSUME NEW p \in ClientPatterns, SavePatternTool(p)
      PROVE  EvidenceFirst'
  BY <1>4 DEF SavePatternTool
<1>5. CASE UNCHANGED vars
  BY <1>5 DEF vars
<1>6. QED
  BY <1>1, <1>2, <1>3, <1>4, <1>5 DEF Next, Acts

\* A call that leaves has nothing in its hands.
LEMMA LeaveOK ==
  ASSUME TypeOK, NEW c \in Callers, NEW phase \in Resting, NEW r, Leave(c, phase, r)
  PROVE  CallOK(c)'
<1>1. /\ pc'[c] = phase
      /\ items'[c] = {} /\ carries'[c] = {} /\ memory'[c] = {}
      /\ found'[c] = {} /\ unsaved'[c] = {}
      /\ offset'[c] = 0 /\ before'[c] = {}
  BY DEF TypeOK, Leave, Goto
<1>2. pc'[c] \notin {"window", "history", "write", "store"}
  BY <1>1 DEF Resting
<1>3. IsFiniteSet({})
  BY FS_EmptySet
<1>4. QED
  BY <1>1, <1>2, <1>3
     DEF CallOK, HoldsNothing, HasRead, ReadsItsWindow, SavesWhatItFound

\* There are finitely many articles, so a call holds finitely many versions of them.
LEMMA FiniteArticles ==
  ASSUME NEW ids \in SUBSET Ids
  PROVE  IsFiniteSet({ news[id] : id \in ids })
<1> DEFINE Version == [id \in ids |-> news[id]]
<1>1. IsFiniteSet(ids)
  BY IdsAssumption, FS_Subset
<1>2. Version \in Surjection(ids, { news[id] : id \in ids })
  BY DEF Surjection
<1>3. QED
  BY <1>1, <1>2, FS_Surjection

\* A page of the window leaves nothing of it behind.
LEMMA WindowPageOK ==
  ASSUME TypeOK, EvidenceFirst, NEW c \in Callers, CallOK(c), ReadWindow(c)
  PROVE  CallOK(c)'
<1> DEFINE page == Page(NewsLeft(c), PageSize)
<1>1. /\ NewsOffset(c) \in Nat
      /\ page \subseteq NewsLeft(c)
      /\ NewsOffset(c) = 0 => page = NewsLeft(c)
      /\ \A id \in NewsLeft(c) : id < NewsOffset(c) => id \in page
  BY NewsPage
<1>2. \A id \in NewsLeft(c) : id \in Ids /\ news[id] # NoItem /\ InWindow(c, news[id])
  BY DEF NewsLeft, WindowNews
<1> HIDE DEF page
<1>3. /\ pc[c] = "window"
      /\ pc'[c] \in {"window", "find", "history"}
      /\ pc'[c] = "window" <=> NewsOffset(c) # 0
      /\ items'[c] = items[c] \cup { news[id] : id \in page }
      /\ carries'[c] = carries[c] \cup
           { k \in Ids \X Numbers : k[1] \in page /\ k[2] \in newsNumbers[k[1]] }
      /\ offset'[c] = NewsOffset(c)
      /\ UNCHANGED <<news, numberHistory, disputed, patterns, day, want, found, unsaved, memory,
                     before>>
  BY DEF ReadWindow, Goto, TypeOK, store, ingest, request, page
<1>4. HoldsNothing(c)'
  BY <1>3 DEF CallOK, HoldsNothing, Resting
<1>5. HasRead(c)'
  <2>1. \A id \in before[c] :
          /\ id \in Ids /\ news[id] # NoItem
          /\ id \notin disputed => InWindow(c, news[id])
    BY DEF CallOK, HasRead, TypeOK
  <2>2. ASSUME NEW id \in before[c] \ disputed, id < NewsOffset(c) \/ NewsOffset(c) = 0
        PROVE  \E x \in items'[c] : IdOf[x] = id
    <3>1. CASE id < offset[c]
      <4>1. \E x \in items[c] : IdOf[x] = id
        BY <1>3, <3>1 DEF CallOK, HasRead, Shows
      <4>2. QED
        BY <1>3, <4>1
    <3>2. CASE ~ (id < offset[c])
      <4>1. id \in Nat /\ offset[c] \in Nat
        BY <2>1, IdsAssumption DEF TypeOK
      <4>2. id \in NewsLeft(c)
        BY <2>1, <3>2, <4>1 DEF NewsLeft, WindowNews
      <4>3. id \in page
        BY <1>1, <2>2, <4>2
      <4>4. news[id] \in items'[c] /\ IdOf[news[id]] = id
        BY <1>3, <2>1, <4>3 DEF EvidenceFirst
      <4>5. QED
        BY <4>4
    <3>3. QED
      BY <3>1, <3>2
  <2>3. carries'[c] = {} \/ pc'[c] \notin {"write", "store"}
    BY <1>3
  <2>4. ASSUME NEW k \in carries'[c], pc'[c] = "history"
        PROVE  ~ (PointOf[k] < offset'[c])
    <3>1. carries'[c] \subseteq Ids \X Numbers
      BY <1>3 DEF TypeOK
    <3>2. PointOf[k] \in Nat
      BY <3>1, PointAssumption
    <3>3. offset'[c] = 0
      BY <1>3, <2>4
    <3>4. QED
      BY <3>2, <3>3
  <2>5. QED
    BY <1>3, <2>1, <2>2, <2>3, <2>4 DEF HasRead, InWindow, Shows
<1>6. ReadsItsWindow(c)'
  <2>1. IsFiniteSet({ news[id] : id \in page })
    BY <1>1, <1>2, FiniteArticles
  <2>2. IsFiniteSet(items'[c])
    <3>1. IsFiniteSet(items[c])
      BY DEF CallOK, ReadsItsWindow
    <3>2. IsFiniteSet(items[c] \cup { news[id] : id \in page })
      BY <2>1, <3>1, FS_Union
    <3>3. QED
      BY <1>3, <3>2
  <2>3. \A x \in items'[c] : want[c] # "analyze" => InWindow(c, x)
    BY <1>1, <1>2, <1>3 DEF CallOK, ReadsItsWindow
  <2>4. ASSUME NEW k \in carries'[c]
        PROVE  /\ news[k[1]] # NoItem /\ numberHistory[k] # NoItem
               /\ k[1] \notin disputed => InWindow(c, numberHistory[k])
    <3>1. CASE k \in carries[c]
      BY <3>1 DEF CallOK, ReadsItsWindow
    <3>2. CASE k \in Ids \X Numbers /\ k[1] \in page /\ k[2] \in newsNumbers[k[1]]
      <4>1. k = <<k[1], k[2]>> /\ k[1] \in Ids
        BY <3>2
      <4>2. news[k[1]] # NoItem /\ InWindow(c, news[k[1]])
        BY <1>1, <1>2, <3>2
      <4>3. /\ numberHistory[<<k[1], k[2]>>] # NoItem
            /\ k[1] \notin disputed =>
                 DateOf[numberHistory[<<k[1], k[2]>>]] = DateOf[news[k[1]]]
        BY <3>2, <4>1, <4>2 DEF EvidenceFirst
      <4>4. QED
        BY <4>1, <4>2, <4>3 DEF InWindow
    <3>3. QED
      BY <1>3, <3>1, <3>2
  <2>5. \A a \in memory'[c] : DateOf[a[1]] <= day[c]
    BY <1>3 DEF CallOK, ReadsItsWindow
  <2>6. QED
    BY <1>3, <2>2, <2>3, <2>4, <2>5 DEF ReadsItsWindow, InWindow
<1>7. SavesWhatItFound(c)'
  BY <1>3 DEF CallOK, HoldsNothing, SavesWhatItFound
<1>8. QED
  BY <1>4, <1>5, <1>6, <1>7 DEF CallOK

\* A page of the memory leaves no evidence of the window behind.
LEMMA HistoryPageOK ==
  ASSUME TypeOK, EvidenceFirst, NEW c \in Callers, CallOK(c), DayHistory(c)
  PROVE  CallOK(c)'
<1> DEFINE page  == Page(HistoryLeft(c), PageSize)
           shown == { <<numberHistory[k], k[2]>> : k \in { j \in WindowActivations(c) :
                        PointOf[j] \in page /\ j[2] \in NumbersOf(c) } }
<1>1. /\ HistoryOffset(c) \in Nat
      /\ HistoryOffset(c) = 0 => page = HistoryLeft(c)
      /\ \A p \in HistoryLeft(c) : p < HistoryOffset(c) => p \in page
      /\ \A k \in WindowActivations(c) :
           PointOf[k] \in Nat /\ (PointOf[k] < offset[c] \/ PointOf[k] \in HistoryLeft(c))
  BY HistoryPage
<1>2. /\ pc[c] = "history"
      /\ pc'[c] = IF HistoryOffset(c) # 0 THEN "history" ELSE "write"
      /\ memory'[c] = memory[c] \cup shown
      /\ offset'[c] = HistoryOffset(c)
      /\ UNCHANGED <<news, numberHistory, disputed, patterns, day, want, items, carries, found,
                     unsaved, before>>
  BY DEF DayHistory, Goto, TypeOK, store, ingest, request
<1>3. \A a \in shown : DateOf[a[1]] <= day[c]
  <2>1. day[c] \in Nat /\ DateOf \in [Items -> Nat]
    BY DEF TypeOK
  <2>2. \A k \in WindowActivations(c) : DateOf[numberHistory[k]] <= day[c]
    <3> SUFFICES ASSUME NEW k \in WindowActivations(c)
                 PROVE  DateOf[numberHistory[k]] <= day[c]
      OBVIOUS
    <3>1. /\ numberHistory[k] \in Items
          /\ Remembers(day[c], HistoryDays, DateOf[numberHistory[k]])
      BY DEF WindowActivations, TypeOK
    <3>2. QED
      BY <2>1, <3>1 DEF Remembers
  <2>3. QED
    BY <2>2
<1>4. ASSUME WindowDays <= HistoryDays, NEW k \in carries[c], k[1] \notin disputed
      PROVE  k \in WindowActivations(c) /\ k[2] \in NumbersOf(c)
  <2>1. /\ numberHistory[k] # NoItem
        /\ Covers(day[c], WindowDays, DateOf[numberHistory[k]])
    BY <1>4 DEF CallOK, ReadsItsWindow, InWindow
  <2>2. k \in Ids \X Numbers
    BY DEF TypeOK
  <2>3. DateOf[numberHistory[k]] \in Nat /\ day[c] \in Nat
    BY <2>1, <2>2 DEF TypeOK
  <2>4. Remembers(day[c], HistoryDays, DateOf[numberHistory[k]])
    BY <1>4, <2>1, <2>3, WindowAssumption DEF Covers, Remembers
  <2>5. QED
    BY <2>1, <2>2, <2>4 DEF NumbersOf, WindowActivations
<1>5. ASSUME WindowDays <= HistoryDays, NEW k \in carries[c], k[1] \notin disputed,
             PointOf[k] < HistoryOffset(c) \/ HistoryOffset(c) = 0
      PROVE  \E a \in memory'[c] : IdOf[a[1]] = k[1] /\ a[2] = k[2]
  <2>1. CASE PointOf[k] < offset[c]
    <3>1. \E a \in memory[c] : IdOf[a[1]] = k[1] /\ a[2] = k[2]
      BY <1>2, <1>5, <2>1 DEF CallOK, HasRead, Remembered
    <3>2. QED
      BY <1>2, <3>1
  <2>2. CASE PointOf[k] \in HistoryLeft(c)
    <3>1. PointOf[k] \in page
      BY <1>1, <1>5, <2>2
    <3>2. <<numberHistory[k], k[2]>> \in shown
      BY <1>4, <1>5, <3>1
    <3>3. IdOf[numberHistory[k]] = k[1]
      BY <1>4, <1>5 DEF EvidenceFirst, WindowActivations
    <3>4. <<numberHistory[k], k[2]>> \in memory'[c]
      BY <1>2, <3>2
    <3>5. QED
      BY <3>3, <3>4
  <2>3. QED
    BY <1>1, <1>4, <1>5, <2>1, <2>2
<1> HIDE DEF page, shown
<1>6. HoldsNothing(c)'
  BY <1>2 DEF CallOK, HoldsNothing, Resting
<1>7. HasRead(c)'
  BY <1>2, <1>5 DEF CallOK, HasRead, InWindow, Shows, Remembered
<1>8. ReadsItsWindow(c)'
  BY <1>2, <1>3 DEF CallOK, ReadsItsWindow, InWindow
<1>9. SavesWhatItFound(c)'
  BY <1>2 DEF CallOK, SavesWhatItFound
<1>10. QED
  BY <1>6, <1>7, <1>8, <1>9 DEF CallOK

\* A step of a call keeps what the invariant says of that call.
LEMMA ActingStaysOK ==
  ASSUME TypeOK, EvidenceFirst, NEW c \in Callers, CallOK(c), Acts(c)
  PROVE  CallOK(c)'
<1> USE DEF store, request, ingest, locals, CallOK, Shows, Remembered
<1>0. /\ Resting = {"idle", "returned", "retry_error", "store_error"}
      /\ IsFiniteSet({})
  BY FS_EmptySet DEF Resting
<1>1. ASSUME NEW d \in Days, NEW w \in Wants \ {"analyze"}, Ask(c, d, w)
      PROVE  CallOK(c)'
  <2>1. /\ pc'[c] \in {"ingest", "lookup"}
        /\ items[c] = {} /\ carries[c] = {} /\ memory[c] = {} /\ before[c] = {}
        /\ found[c] = {} /\ unsaved[c] = {} /\ offset[c] = 0
        /\ UNCHANGED <<offset, items, carries, memory, before, found, unsaved>>
    BY <1>0, <1>1 DEF TypeOK, Ask, Goto, HoldsNothing
  <2>2. HoldsNothing(c)' /\ HasRead(c)'
    BY <1>0, <2>1 DEF HoldsNothing, HasRead
  <2>3. ReadsItsWindow(c)' /\ SavesWhatItFound(c)'
    BY <1>0, <2>1 DEF ReadsItsWindow, SavesWhatItFound
  <2>4. QED
    BY <2>2, <2>3
<1>2. ASSUME NEW ids \in SUBSET Ids, AskPatterns(c, ids)
      PROVE  CallOK(c)'
  <2>1. IsFiniteSet({ news[id] : id \in ids } \ {NoItem})
    BY FiniteArticles, FS_Subset
  <2>2. pc'[c] = "store_error" => items'[c] = {}
    BY <1>2 DEF TypeOK, AskPatterns, Goto, EvidenceFirst
  <2>3. HoldsNothing(c)'
    BY <1>0, <1>2, <2>2 DEF TypeOK, AskPatterns, Goto, HoldsNothing
  <2>4. HasRead(c)'
    BY <1>0, <1>2 DEF TypeOK, AskPatterns, Goto, HoldsNothing, HasRead
  <2>5. ReadsItsWindow(c)'
    BY <1>0, <1>2, <2>1 DEF TypeOK, AskPatterns, Goto, HoldsNothing, ReadsItsWindow
  <2>6. SavesWhatItFound(c)'
    BY <1>0, <1>2 DEF TypeOK, AskPatterns, Goto, HoldsNothing, SavesWhatItFound
  <2>7. QED
    BY <2>3, <2>4, <2>5, <2>6
<1>3. CASE Lookup(c)
  <2>1. CASE "forecasts" \in collections /\ forecasts[day[c]] # NoReading
    BY <1>0, <1>3, <2>1, LeaveOK DEF Lookup
  <2>2. CASE ~ ("forecasts" \in collections /\ forecasts[day[c]] # NoReading)
    <3>1. /\ pc'[c] = "window"
          /\ before'[c] = WindowNews(c)
          /\ items[c] = {} /\ carries[c] = {} /\ memory[c] = {} /\ found[c] = {}
          /\ unsaved[c] = {} /\ offset[c] = 0
          /\ UNCHANGED <<store, offset, items, carries, memory, found, unsaved, day>>
      BY <1>3, <2>2 DEF TypeOK, Lookup, Goto, HoldsNothing
    <3>2. \A id \in before'[c] :
            news[id] # NoItem /\ id \in Nat \ {0} /\ InWindow(c, news[id])
      BY <3>1, IdsAssumption DEF WindowNews
    <3>3. HoldsNothing(c)' /\ HasRead(c)'
      BY <1>0, <3>1, <3>2 DEF HoldsNothing, HasRead, InWindow
    <3>4. ReadsItsWindow(c)' /\ SavesWhatItFound(c)'
      BY <1>0, <3>1 DEF ReadsItsWindow, SavesWhatItFound
    <3>5. QED
      BY <3>3, <3>4
  <2>3. QED
    BY <2>1, <2>2
<1>4. CASE ReadWindow(c)
  BY <1>4, WindowPageOK
<1>5. CASE FindPatterns(c)
  <2>1. pc[c] = "find" /\ pc'[c] = "save" /\ found'[c] = unsaved'[c]
    BY <1>5 DEF TypeOK, FindPatterns, Goto
  <2>2. UNCHANGED <<store, day, want, offset, items, carries, memory, result, before>>
    BY <1>5 DEF FindPatterns
  <2>3. HoldsNothing(c)' /\ HasRead(c)'
    BY <1>0, <2>1, <2>2 DEF HoldsNothing, HasRead, InWindow
  <2>4. ReadsItsWindow(c)' /\ SavesWhatItFound(c)'
    BY <1>0, <2>1, <2>2 DEF ReadsItsWindow, SavesWhatItFound, InWindow
  <2>5. QED
    BY <2>3, <2>4
<1>6. CASE ModelFails(c)
  <2>1. CASE attempts[c] + 1 = ATTEMPTS
    BY <1>0, <1>6, <2>1, LeaveOK DEF ModelFails
  <2>2. CASE ~ (attempts[c] + 1 = ATTEMPTS)
    BY <1>6, <2>2
       DEF ModelFails, HoldsNothing, HasRead, ReadsItsWindow, SavesWhatItFound, InWindow
  <2>3. QED
    BY <2>1, <2>2
<1>7. CASE SavePattern(c)
  <2>1. PICK p \in unsaved[c] :
          /\ patterns' = [patterns EXCEPT ![p] = IF @ = "absent" THEN "first" ELSE "later"]
          /\ unsaved' = [unsaved EXCEPT ![c] = @ \ {p}]
    BY <1>7 DEF SavePattern
  <2>2. pc[c] = "save" /\ pc' = pc /\ found' = found
    BY <1>7 DEF SavePattern
  <2>3. UNCHANGED <<ingest, day, want, offset, items, carries, memory, before>>
    BY <1>7 DEF SavePattern
  <2>4. HoldsNothing(c)' /\ HasRead(c)' /\ ReadsItsWindow(c)'
    BY <1>0, <2>2, <2>3 DEF HoldsNothing, HasRead, ReadsItsWindow, InWindow
  <2>5. \A q \in found[c] \ (unsaved[c] \ {p}) : patterns'[q] # "absent"
    BY <2>1 DEF TypeOK, SavesWhatItFound
  <2>6. SavesWhatItFound(c)'
    BY <2>1, <2>2, <2>5 DEF TypeOK, SavesWhatItFound
  <2>7. QED
    BY <2>4, <2>6
<1>8. CASE AnalysisStored(c)
  <2>1. CASE want[c] = "analyze"
    BY <1>0, <1>8, <2>1, LeaveOK DEF AnalysisStored
  <2>2. CASE want[c] # "analyze"
    <3>1. pc[c] = "save" /\ pc'[c] = "history" /\ unsaved[c] = {}
      BY <1>8, <2>2 DEF TypeOK, AnalysisStored, Goto
    <3>2. UNCHANGED <<store, request, locals>>
      BY <1>8, <2>2 DEF AnalysisStored
    <3>3. HoldsNothing(c)' /\ ReadsItsWindow(c)' /\ SavesWhatItFound(c)'
      BY <1>0, <3>1, <3>2 DEF HoldsNothing, ReadsItsWindow, SavesWhatItFound, InWindow
    <3>4. ASSUME NEW k \in carries[c]
          PROVE  ~ (PointOf[k] < offset[c])
      <4>1. carries[c] \subseteq Ids \X Numbers
        BY DEF TypeOK
      <4>2. PointOf[k] \in Nat \ {0} /\ offset[c] = 0
        BY <3>1, <4>1, PointAssumption DEF HoldsNothing
      <4>3. QED
        BY <4>2
    <3>5. HasRead(c)'
      BY <3>1, <3>2, <3>4 DEF HasRead, InWindow
    <3>6. QED
      BY <3>3, <3>5
  <2>3. QED
    BY <2>1, <2>2
<1>9. CASE DayHistory(c)
  BY <1>9, HistoryPageOK
<1>10. CASE BuildForecast(c)
  <2>1. PICK text \in Texts : result' = [result EXCEPT ![c] = ReadingOf(c, text)]
    BY <1>10 DEF BuildForecast
  <2>2. ReadingOf(c, text) \in Readings /\ ReadingOf(c, text).patterns = found[c]
    <3>1. IsFiniteSet(items[c])
      BY DEF ReadsItsWindow
    <3>2. QED
      BY <3>1, ReadingsAreReadings DEF ReadingOf
  <2>3. pc[c] = "write" /\ pc'[c] = "store" /\ result'[c] = ReadingOf(c, text)
    BY <1>10, <2>1 DEF TypeOK, BuildForecast, Goto
  <2>4. UNCHANGED <<store, day, want, offset, items, carries, memory, found, unsaved, before>>
    BY <1>10 DEF BuildForecast
  <2>5. HoldsNothing(c)' /\ HasRead(c)'
    BY <1>0, <2>3, <2>4 DEF HoldsNothing, HasRead, InWindow
  <2>6. ReadsItsWindow(c)' /\ SavesWhatItFound(c)'
    BY <2>2, <2>3, <2>4 DEF ReadsItsWindow, SavesWhatItFound, InWindow
  <2>7. QED
    BY <2>5, <2>6
<1>11. CASE SaveForecast(c)
  BY <1>0, <1>11, LeaveOK DEF SaveForecast
<1>12. CASE Interrupt(c)
  BY <1>0, <1>12, LeaveOK DEF Interrupt
<1>13. CASE Ingested(c)
  <2>1. pc[c] = "ingest" /\ pc'[c] = "lookup"
    BY <1>13 DEF TypeOK, Ingested, Goto
  <2>2. UNCHANGED <<store, request, locals>>
    BY <1>13 DEF Ingested
  <2>3. QED
    BY <1>0, <2>1, <2>2
       DEF HoldsNothing, HasRead, ReadsItsWindow, SavesWhatItFound, InWindow
<1>14. CASE NoHistory(c)
  <2>1. pc[c] = "history" /\ pc'[c] = "write"
    BY <1>14 DEF TypeOK, NoHistory, Goto
  <2>2. UNCHANGED <<store, request, locals>>
    BY <1>14 DEF NoHistory
  <2>3. carries[c] = {}
    <3>1. CASE NumbersOf(c) = {}
      <4>1. \A k \in carries[c] : k[2] \in NumbersOf(c)
        BY DEF NumbersOf
      <4>2. QED
        BY <3>1, <4>1
    <3>2. CASE "number_history" \notin collections
      <4>1. carries[c] \subseteq Ids \X Numbers
        BY DEF TypeOK
      <4>2. \A k \in carries[c] : numberHistory[k] # NoItem
        BY DEF ReadsItsWindow
      <4>3. \A k \in Ids \X Numbers :
              numberHistory[k] # NoItem => "number_history" \in collections
        BY DEF EvidenceFirst
      <4>4. QED
        BY <3>2, <4>1, <4>2, <4>3
    <3>3. QED
      BY <1>14, <3>1, <3>2 DEF NoHistory
  <2>4. QED
    BY <1>0, <2>1, <2>2, <2>3
       DEF HoldsNothing, HasRead, ReadsItsWindow, SavesWhatItFound, InWindow
<1>15. QED
  BY <1>1, <1>2, <1>3, <1>4, <1>5, <1>6, <1>7, <1>8, <1>9, <1>10, <1>11, <1>12, <1>13, <1>14
     DEF Acts, CallStep

\* No step takes a call that only analyzes to the reads and the save of a forecast.
LEMMA AnalyzeStep ==
  ASSUME TypeOK, OnlyForecastsWrite, [Next]_vars
  PROVE  OnlyForecastsWrite'
<1> USE DEF TypeOK, OnlyForecastsWrite, Goto, Leave, request, locals, store
<1>0. Resting = {"idle", "returned", "retry_error", "store_error"}
  BY DEF Resting
<1>1. ASSUME NEW c \in Callers, NEW d \in Days, NEW w \in Wants \ {"analyze"}, Ask(c, d, w)
      PROVE  OnlyForecastsWrite'
  BY <1>1 DEF Ask
<1>2. ASSUME NEW c \in Callers, NEW ids \in SUBSET Ids, AskPatterns(c, ids)
      PROVE  OnlyForecastsWrite'
  BY <1>0, <1>2 DEF AskPatterns
<1>3. ASSUME NEW c \in Callers, Lookup(c) \/ Ingested(c)
      PROVE  OnlyForecastsWrite'
  BY <1>0, <1>3 DEF Lookup, Ingested
<1>4. ASSUME NEW c \in Callers, ReadWindow(c)
      PROVE  OnlyForecastsWrite'
  BY <1>0, <1>4 DEF ReadWindow
<1>5. ASSUME NEW c \in Callers, FindPatterns(c) \/ SavePattern(c)
      PROVE  OnlyForecastsWrite'
  BY <1>0, <1>5 DEF FindPatterns, SavePattern
<1>6. ASSUME NEW c \in Callers, ModelFails(c)
      PROVE  OnlyForecastsWrite'
  BY <1>0, <1>6 DEF ModelFails
<1>7. ASSUME NEW c \in Callers, AnalysisStored(c)
      PROVE  OnlyForecastsWrite'
  BY <1>0, <1>7 DEF AnalysisStored
<1>8. ASSUME NEW c \in Callers, NoHistory(c) \/ DayHistory(c)
      PROVE  OnlyForecastsWrite'
  BY <1>0, <1>8 DEF NoHistory, DayHistory
<1>9. ASSUME NEW c \in Callers, BuildForecast(c)
      PROVE  OnlyForecastsWrite'
  BY <1>0, <1>9 DEF BuildForecast
<1>10. ASSUME NEW c \in Callers, SaveForecast(c) \/ Interrupt(c)
       PROVE  OnlyForecastsWrite'
  BY <1>0, <1>10 DEF SaveForecast, Interrupt
<1>11. CASE IngestStep \/ (\E p \in ClientPatterns : SavePatternTool(p)) \/ UNCHANGED vars
  BY <1>11 DEF IngestStep, SavePatternTool, vars
<1>12. QED
  BY <1>1, <1>2, <1>3, <1>4, <1>5, <1>6, <1>7, <1>8, <1>9, <1>10, <1>11 DEF Next, CallStep

\* A reading is stored after everything it cites, and nothing it cites goes away.
LEMMA CitedStep ==
  ASSUME TypeOK, \A c \in Callers : CallOK(c), CitedPatternsStored, [Next]_vars
  PROVE  CitedPatternsStored'
<1>1. \A p \in PatternIds : patterns[p] # "absent" => patterns'[p] # "absent"
  BY StoreGrows
<1>2. \A d \in Days : forecasts[d] # NoReading => forecasts[d].patterns \subseteq PatternIds
  BY DEF TypeOK, Readings
<1>3. CASE UNCHANGED forecasts
  BY <1>1, <1>2, <1>3 DEF CitedPatternsStored
<1>4. ASSUME NEW c \in Callers, SaveForecast(c)
      PROVE  CitedPatternsStored'
  <2>1. /\ forecasts' = [forecasts EXCEPT ![day[c]] = result[c]]
        /\ pc[c] = "store" /\ patterns' = patterns
    BY <1>4 DEF SaveForecast
  <2>2. \A p \in result[c].patterns : patterns[p] # "absent"
    BY <2>1 DEF CallOK, SavesWhatItFound
  <2>3. QED
    BY <2>1, <2>2 DEF CitedPatternsStored, TypeOK
<1>5. ASSUME NEW c \in Callers, Acts(c), ~ SaveForecast(c)
      PROVE  UNCHANGED forecasts
  BY <1>5 DEF Acts, CallStep, Ask, AskPatterns, Lookup, ReadWindow, FindPatterns, ModelFails,
     SavePattern, AnalysisStored, NoHistory, DayHistory, BuildForecast, Interrupt, Ingested, store
<1>6. ASSUME IngestStep \/ (\E p \in ClientPatterns : SavePatternTool(p)) \/ UNCHANGED vars
      PROVE  UNCHANGED forecasts
  BY <1>6 DEF IngestStep, SavePatternTool, vars, store
<1>7. QED
  BY <1>3, <1>4, <1>5, <1>6 DEF Next, Acts

-----------------------------------------------------------------------------
(* The theorems *)

\* IInv holds of the initial states and every step keeps it, for any number of
\* calls that overlap, fail and are interrupted beside ingest.
THEOREM InductiveInvariant == Spec => []IInv
<1>1. ASSUME Init
      PROVE  IInv
  <2>1. TypeOK
    BY <1>1 DEF Init, TypeOK, Resting, Wants, ATTEMPTS
  <2>2. EvidenceFirst /\ OnlyForecastsWrite
    BY <1>1, FS_EmptySet DEF Init, EvidenceFirst, OnlyForecastsWrite
  <2>3. ASSUME NEW c \in Callers
        PROVE  CallOK(c)
    <3>1. IsFiniteSet({})
      BY FS_EmptySet
    <3>2. QED
      BY <1>1, <3>1 DEF Init, CallOK, HoldsNothing, HasRead, ReadsItsWindow, SavesWhatItFound
  <2>4. CitedPatternsStored
    BY <1>1 DEF Init, CitedPatternsStored
  <2>5. QED
    BY <2>1, <2>2, <2>3, <2>4 DEF IInv
<1>2. ASSUME IInv, [Next]_vars
      PROVE  IInv'
  <2>1. TypeOK'
    BY <1>2, TypeStep DEF IInv, CallOK, ReadsItsWindow
  <2>2. EvidenceFirst' /\ OnlyForecastsWrite'
    BY <1>2, EvidenceStep, AnalyzeStep DEF IInv
  <2>3. CitedPatternsStored'
    BY <1>2, CitedStep DEF IInv
  <2>4. ASSUME NEW o \in Callers
        PROVE  CallOK(o)'
    <3>1. CallOK(o) /\ TypeOK /\ EvidenceFirst
      BY <1>2 DEF IInv
    <3>2. CASE Acts(o)
      BY <3>1, <3>2, ActingStaysOK
    <3>3. CASE \E c \in Callers : c # o /\ Acts(c)
      BY <1>2, <3>1, <3>3, OthersStay, SameStaysOK
    <3>4. CASE IngestStep \/ (\E p \in ClientPatterns : SavePatternTool(p)) \/ UNCHANGED vars
      <4>1. Same(o)
        BY <3>4 DEF IngestStep, SavePatternTool, Same, vars,
           locals, request
      <4>2. QED
        BY <1>2, <3>1, <4>1, SameStaysOK
    <3>5. QED
      BY <1>2, <3>2, <3>3, <3>4 DEF Next, Acts
  <2>5. QED
    BY <2>1, <2>2, <2>3, <2>4 DEF IInv
<1>3. QED
  BY <1>1, <1>2, PTL DEF Spec

\* The state of forecast keeps its types (Forecast, every operation).
THEOREM TypeCorrectness == Spec => []TypeOK
<1>1. IInv => TypeOK
  BY DEF IInv
<1>2. QED
  BY <1>1, InductiveInvariant, PTL

\* A stored reading always has a number to rest on, on a day without news too
\* (steps.py, forecast: the fallback to the day's own number).
THEOREM AlwaysANumber == Spec => []RestsOnANumber
<1>1. IInv => RestsOnANumber
  BY DEF IInv, TypeOK, RestsOnANumber, Readings
<1>2. QED
  BY <1>1, InductiveInvariant, PTL

\* A stored reading cites only stored patterns, although they are saved one by
\* one by calls that may end in between (steps.py, analyze).
THEOREM CitedAreStored == Spec => []CitedPatternsStored
<1>1. IInv => CitedPatternsStored
  BY DEF IInv
<1>2. QED
  BY <1>1, InductiveInvariant, PTL

\* No article and no activation of a later day reaches a reading (read_news_range
\* and get_activations, their upper bounds).
THEOREM NothingFromLaterDays == Spec => []NothingFromTheFuture
<1>1. ASSUME IInv
      PROVE  NothingFromTheFuture
  <2>1. ASSUME NEW c \in Callers, want[c] # "analyze", NEW x \in items[c]
        PROVE  DateOf[x] <= day[c]
    <3>1. Covers(day[c], WindowDays, DateOf[x])
      BY <1>1, <2>1 DEF IInv, CallOK, ReadsItsWindow, InWindow
    <3>2. DateOf[x] \in Nat /\ day[c] \in Nat
      BY <1>1, <2>1 DEF IInv, TypeOK
    <3>3. QED
      BY <3>1, <3>2 DEF Covers
  <2>2. \A c \in Callers : \A a \in memory[c] : DateOf[a[1]] <= day[c]
    BY <1>1 DEF IInv, CallOK, ReadsItsWindow
  <2>3. QED
    BY <2>1, <2>2 DEF NothingFromTheFuture
<1>2. QED
  BY <1>1, InductiveInvariant, PTL

\* With a memory at least as long as the window, a reading shows every article that
\* the window held when the read began, and the model is shown an activation of every
\* number of every one of its articles, although the two are read at different times
\* and overlapping ingest runs write in between; save for the articles whose stored
\* version and activations came to disagree on the day, which IngestStep records in
\* `disputed` (steps.py, _window_items and _day_history).
THEOREM EvidenceIsComplete ==
  ASSUME WindowDays <= HistoryDays
  PROVE  Spec => []EvidenceComplete
<1>1. IInv => EvidenceComplete
  BY DEF IInv, CallOK, HasRead, EvidenceComplete, Shows, Remembered
<1>2. QED
  BY <1>1, InductiveInvariant, PTL

-----------------------------------------------------------------------------
(* Calls implement visits to the reading room *)

\* What a visitor sees of a call's step is that call's move, and no other's.
LEMMA OneMoves ==
  ASSUME TypeOK, NEW c \in Callers, Acts(c), NEW p, NEW r,
         Phase(c)' = p, (IF Phase(c)' = "served" THEN result'[c] ELSE NoReading) = r
  PROVE  Room!Moves(c, p, r)
<1>1. ASSUME NEW o \in Callers, o # c
      PROVE  Phase(o)' = Phase(o) /\ result'[o] = result[o]
  BY <1>1, OthersStay DEF Same, Phase
<1>2. QED
  BY <1>1 DEF Room!Moves

\* A step a visitor does not notice.
LEMMA Unnoticed ==
  ASSUME TypeOK, NEW c \in Callers, Acts(c), Phase(c)' = Phase(c), Phase(c) # "served",
         UNCHANGED <<forecasts, day>>
  PROVE  UNCHANGED Room!vars
<1>1. ASSUME NEW o \in Callers, o # c
      PROVE  Phase(o)' = Phase(o) /\ result'[o] = result[o]
  BY <1>1, OthersStay DEF Same, Phase
<1>2. QED
  BY <1>1 DEF Room!vars

\* A step of the program is a move of one visitor, or goes unnoticed.
LEMMA StepRefines ==
  ASSUME IInv, [Next]_vars
  PROVE  [Room!Next]_(Room!vars)
<1> USE DEF store, request, locals, ingest
<1>0. /\ TypeOK /\ EvidenceFirst /\ OnlyForecastsWrite
      /\ Resting = {"idle", "returned", "retry_error", "store_error"}
      /\ Active = {"ingest", "lookup", "window", "find", "save", "history", "write", "store"}
  BY DEF IInv, Resting, Active
<1>1. ASSUME NEW c \in Callers, NEW d \in Days, NEW w \in Wants \ {"analyze"}, Ask(c, d, w)
      PROVE  Room!Next
  <2>1. Phase(c) \in {"away", "served"} /\ Phase(c)' = "asked"
    BY <1>0, <1>1 DEF Ask, Goto, Phase, TypeOK
  <2>2. Room!Moves(c, "asked", NoReading)
    BY <1>0, <1>1, <2>1, OneMoves DEF Acts
  <2>3. Room!Ask(c, d)
    BY <1>1, <2>1, <2>2 DEF Room!Ask, Ask
  <2>4. QED
    BY <2>3 DEF Room!Next
<1>2. ASSUME NEW c \in Callers, Acts(c), Phase(c)' = "away", UNCHANGED <<forecasts, day>>
      PROVE  Room!Next
  <2>1. Room!Moves(c, "away", NoReading)
    BY <1>0, <1>2, OneMoves
  <2>2. QED
    BY <1>2, <2>1 DEF Room!Next, Room!GoAway
<1>3. ASSUME NEW c \in Callers, NEW ids \in SUBSET Ids, AskPatterns(c, ids)
      PROVE  Room!Next
  <2>1. Phase(c)' = "away" /\ UNCHANGED <<forecasts, day>>
    BY <1>0, <1>3 DEF AskPatterns, Phase, TypeOK
  <2>2. QED
    BY <1>2, <1>3, <2>1 DEF Acts
<1>4. ASSUME NEW c \in Callers, Lookup(c)
      PROVE  Room!Next
  <2>1. Phase(c) = "asked" /\ want[c] # "analyze" /\ UNCHANGED <<forecasts, day, want>>
    BY <1>0, <1>4 DEF Lookup, Phase, OnlyForecastsWrite
  <2>2. CASE "forecasts" \in collections /\ forecasts[day[c]] # NoReading
    <3>1. pc'[c] = "returned" /\ result'[c] = forecasts[day[c]]
      BY <1>0, <1>4, <2>2 DEF Lookup, Leave, Goto, TypeOK
    <3>2. Phase(c)' = "served"
      BY <1>0, <2>1, <3>1 DEF Phase
    <3>3. Room!Moves(c, "served", forecasts[day[c]])
      <4>1. PICK r : r = forecasts[day[c]]
        OBVIOUS
      <4>2. Acts(c)
        BY <1>4 DEF Acts, CallStep
      <4>3. (IF Phase(c)' = "served" THEN result'[c] ELSE NoReading) = r
        BY <3>1, <3>2, <4>1
      <4>4. Room!Moves(c, "served", r)
        BY <1>0, <3>2, <4>2, <4>3, OneMoves
      <4>5. QED
        BY <4>1, <4>4 DEF Room!Moves
    <3>4. Room!Serve(c)
      BY <2>1, <2>2, <3>3 DEF Room!Serve
    <3>5. QED
      BY <3>4 DEF Room!Next
  <2>3. CASE ~ ("forecasts" \in collections /\ forecasts[day[c]] # NoReading)
    <3>1. pc'[c] = "window"
      BY <1>0, <1>4, <2>3 DEF Lookup, Goto, TypeOK
    <3>2. Phase(c)' = "composing"
      BY <1>0, <2>1, <3>1 DEF Phase
    <3>3. forecasts[day[c]] = NoReading
      BY <1>0, <2>3 DEF EvidenceFirst, TypeOK
    <3>4. Room!Moves(c, "composing", NoReading)
      BY <1>0, <1>4, <3>2, OneMoves DEF Acts, CallStep
    <3>5. Room!Compose(c)
      BY <2>1, <3>3, <3>4 DEF Room!Compose
    <3>6. QED
      BY <3>5 DEF Room!Next
  <2>4. QED
    BY <2>2, <2>3
<1>5. ASSUME NEW c \in Callers, SaveForecast(c)
      PROVE  Room!Next
  <2>1. pc[c] = "store" /\ want[c] # "analyze" /\ UNCHANGED <<day, want>>
    BY <1>0, <1>5 DEF SaveForecast, OnlyForecastsWrite
  <2>2. pc'[c] = "returned" /\ result'[c] = result[c]
    BY <1>0, <1>5 DEF SaveForecast, Leave, Goto, TypeOK
  <2>3. Phase(c) = "composing" /\ Phase(c)' = "served"
    BY <1>0, <2>1, <2>2 DEF Phase
  <2>4. result[c] \in Readings
    BY <2>1 DEF IInv, CallOK, SavesWhatItFound
  <2>5. /\ forecasts' = [forecasts EXCEPT ![day[c]] = result[c]]
        /\ forecasts'[day[c]] = result[c]
    BY <1>0, <1>5 DEF SaveForecast, TypeOK
  <2>6. PICK r : r = result[c]
    OBVIOUS
  <2>7. Room!Moves(c, "served", r)
    <3>1. Acts(c)
      BY <1>5 DEF Acts, CallStep
    <3>2. (IF Phase(c)' = "served" THEN result'[c] ELSE NoReading) = r
      BY <2>2, <2>3, <2>6
    <3>3. QED
      BY <1>0, <2>3, <3>1, <3>2, OneMoves
  <2>8. Room!Write(c)
    <3>1. forecasts' = [forecasts EXCEPT ![day[c]] = forecasts'[day[c]]]
      BY <2>5
    <3>2. Room!Moves(c, "served", forecasts'[day[c]])
      BY <2>5, <2>6, <2>7 DEF Room!Moves
    <3>3. forecasts'[day[c]] \in Readings
      BY <2>4, <2>5
    <3>4. QED
      BY <2>1, <2>3, <3>1, <3>2, <3>3 DEF Room!Write
  <2>9. QED
    BY <2>8 DEF Room!Next
<1>6. ASSUME NEW c \in Callers, Interrupt(c)
      PROVE  Room!Next
  <2>1. Phase(c)' = "away" /\ UNCHANGED <<forecasts, day>>
    BY <1>0, <1>6 DEF Interrupt, Leave, Goto, Phase, TypeOK
  <2>2. QED
    BY <1>2, <1>6, <2>1 DEF Acts
<1>7. ASSUME NEW c \in Callers, ModelFails(c)
      PROVE  Room!Next \/ UNCHANGED Room!vars
  <2>1. CASE attempts[c] + 1 = ATTEMPTS
    <3>1. Phase(c)' = "away" /\ UNCHANGED <<forecasts, day>>
      BY <1>0, <1>7, <2>1 DEF ModelFails, Leave, Goto, Phase, TypeOK
    <3>2. QED
      BY <1>2, <1>7, <3>1 DEF Acts, CallStep
  <2>2. CASE ~ (attempts[c] + 1 = ATTEMPTS)
    <3>1. Phase(c)' = Phase(c) /\ Phase(c) # "served" /\ UNCHANGED <<forecasts, day>>
      BY <1>0, <1>7, <2>2 DEF ModelFails, Phase
    <3>2. QED
      BY <1>0, <1>7, <3>1, Unnoticed DEF Acts, CallStep
  <2>3. QED
    BY <2>1, <2>2
<1>8. ASSUME NEW c \in Callers, AnalysisStored(c)
      PROVE  Room!Next \/ UNCHANGED Room!vars
  <2>1. CASE want[c] = "analyze"
    <3>1. Phase(c)' = "away" /\ UNCHANGED <<forecasts, day>>
      BY <1>8, <2>1 DEF AnalysisStored, Phase
    <3>2. QED
      BY <1>2, <1>8, <3>1 DEF Acts, CallStep
  <2>2. CASE want[c] # "analyze"
    <3>1. Phase(c)' = Phase(c) /\ Phase(c) # "served" /\ UNCHANGED <<forecasts, day>>
      BY <1>0, <1>8, <2>2 DEF AnalysisStored, Goto, Phase, TypeOK
    <3>2. QED
      BY <1>0, <1>8, <3>1, Unnoticed DEF Acts, CallStep
  <2>3. QED
    BY <2>1, <2>2
<1>9. ASSUME NEW c \in Callers,
             \/ Ingested(c) \/ ReadWindow(c) \/ FindPatterns(c) \/ SavePattern(c)
             \/ NoHistory(c) \/ DayHistory(c) \/ BuildForecast(c)
      PROVE  UNCHANGED Room!vars
  <2>1. pc'[c] \in {"lookup", "window", "find", "save", "history", "write", "store"}
    BY <1>0, <1>9 DEF Goto, TypeOK, Ingested, ReadWindow, FindPatterns, SavePattern, NoHistory,
       DayHistory, BuildForecast
  <2>2. /\ UNCHANGED <<forecasts, day, want>>
        /\ pc[c] \in Active
        /\ pc'[c] = "lookup" <=> pc[c] = "ingest"
        /\ pc[c] # "lookup"
    BY <1>0, <1>9, <2>1 DEF Goto, TypeOK, Ingested, ReadWindow, FindPatterns, SavePattern,
       NoHistory, DayHistory, BuildForecast
  <2>3. Phase(c)' = Phase(c) /\ Phase(c) # "served"
    BY <1>0, <2>1, <2>2 DEF Phase
  <2>4. QED
    BY <1>0, <1>9, <2>2, <2>3, Unnoticed DEF Acts, CallStep
<1>10. CASE IngestStep \/ (\E p \in ClientPatterns : SavePatternTool(p)) \/ UNCHANGED vars
  <2>1. UNCHANGED <<forecasts, pc, day, want, result>>
    BY <1>10 DEF IngestStep, SavePatternTool, vars
  <2>2. QED
    BY <2>1 DEF Room!vars, Phase
<1>11. QED
  BY <1>1, <1>3, <1>4, <1>5, <1>6, <1>7, <1>8, <1>9, <1>10 DEF Next, CallStep

\* To whoever asks for readings, overlapping calls are visits to one reading room: a
\* day that is read is answered from storage, and a reading is only replaced by a call
\* that looked before the day was read (steps.py, forecast and _cached_forecast).
THEOREM ForecastImplementsReadingRoom == Spec => ImplementsReadingRoom
<1>1. Init => Room!Init
  <2> SUFFICES ASSUME Init
               PROVE  Room!Init
    OBVIOUS
  <2>1. \A c \in Callers : Phase(c) = "away"
    BY DEF Init, Phase, Active
  <2>2. QED
    BY <2>1 DEF Init, Room!Init
<1>2. QED
  BY <1>1, StepRefines, InductiveInvariant, PTL DEF Spec, ImplementsReadingRoom, Room!Spec

-----------------------------------------------------------------------------
(* A call runs out of steps *)

Points == { PointOf[k] : k \in Ids \X Numbers }

\* How many steps a call can still take: the requests ahead, a page of each read for
\* each point it has not come past, a save for each pattern it still holds, and the
\* model runs it may still try.
StepsLeft(c) ==
  IF pc[c] = "ingest"
    THEN Cardinality(Ids) + Cardinality(PatternIds) + Cardinality(Points) + 2 * ATTEMPTS + 7
  ELSE IF pc[c] = "lookup"
    THEN Cardinality(Ids) + Cardinality(PatternIds) + Cardinality(Points) + 2 * ATTEMPTS + 6
  ELSE IF pc[c] = "window"
    THEN Cardinality(Ahead(Ids, offset[c])) + Cardinality(PatternIds) + Cardinality(Points)
           + 2 * ATTEMPTS + 5
  ELSE IF pc[c] = "find"
    THEN Cardinality(PatternIds) + Cardinality(Points) + 2 * ATTEMPTS - attempts[c] + 4
  ELSE IF pc[c] = "save"
    THEN Cardinality(unsaved[c]) + Cardinality(Points) + ATTEMPTS + 4
  ELSE IF pc[c] = "history"
    THEN Cardinality(Ahead(Points, offset[c])) + ATTEMPTS + 3
  ELSE IF pc[c] = "write" THEN ATTEMPTS - attempts[c] + 2
  ELSE IF pc[c] = "store" THEN 1
  ELSE 0

\* It is a number, and it is the resting calls that have none left.
Counted ==
  \A c \in Callers : StepsLeft(c) \in Nat /\ (pc[c] \in Active <=> StepsLeft(c) > 0)

\* What the steps are counted by are numbers.
LEMMA CountsAreNumbers ==
  ASSUME TypeOK, NEW c \in Callers
  PROVE  /\ Cardinality(Ids) \in Nat
         /\ Cardinality(PatternIds) \in Nat
         /\ Cardinality(Points) \in Nat
         /\ Cardinality(Ahead(Ids, offset[c])) \in Nat
         /\ Cardinality(Ahead(Points, offset[c])) \in Nat
         /\ IsFiniteSet(unsaved[c])
         /\ Cardinality(unsaved[c]) \in Nat
         /\ attempts[c] \in 0..1 /\ ATTEMPTS = 2
<1>1. IsFiniteSet(Ids) /\ IsFiniteSet(PatternIds) /\ IsFiniteSet(Points)
  BY IdsAssumption, FiniteAssumption DEF Points
<1>2. unsaved[c] \in SUBSET PatternIds /\ attempts[c] \in 0..1 /\ ATTEMPTS = 2
  BY DEF TypeOK, ATTEMPTS
<1>3. IsFiniteSet(unsaved[c])
  BY <1>1, <1>2, FS_Subset
<1>4. QED
  BY <1>1, <1>2, <1>3, AheadIsCounted, FS_CardinalityType

\* A call's place among the phases fixes whether it has any.
LEMMA StepsAreCounted == IInv => Counted
<1> SUFFICES ASSUME IInv, NEW c \in Callers
             PROVE  StepsLeft(c) \in Nat /\ (pc[c] \in Active <=> StepsLeft(c) > 0)
  BY DEF Counted
<1>1. pc[c] \in Active \cup Resting
  BY DEF IInv, TypeOK
<1>2. TypeOK
  BY DEF IInv
<1>3. QED
  BY <1>1, <1>2, CountsAreNumbers DEF StepsLeft, Active, Resting

\* A further page of the window leaves fewer pages of it.
LEMMA WindowPageTaken ==
  ASSUME IInv, NEW c \in Callers, NewsOffset(c) # 0
  PROVE  Cardinality(Ahead(Ids, NewsOffset(c))) < Cardinality(Ahead(Ids, offset[c]))
<1>1. WindowNews(c) \subseteq Ids /\ offset[c] \in Nat
  BY DEF IInv, TypeOK, WindowNews
<1>2. NewsLeft(c) \in SUBSET Ahead(Ids, offset[c])
  BY <1>1 DEF NewsLeft, Ahead
<1>3. Ids \in SUBSET Nat /\ IsFiniteSet(Ids) /\ PageSize \in Nat \ {0}
  BY IdsAssumption, WindowAssumption
<1>4. QED
  BY <1>1, <1>2, <1>3, ScrollAdvances DEF NewsOffset

\* So does a further page of the memory.
LEMMA HistoryPageTaken ==
  ASSUME IInv, NEW c \in Callers, HistoryOffset(c) # 0
  PROVE  Cardinality(Ahead(Points, HistoryOffset(c))) < Cardinality(Ahead(Points, offset[c]))
<1>1. WindowActivations(c) \subseteq Ids \X Numbers /\ offset[c] \in Nat
  BY DEF IInv, TypeOK, WindowActivations
<1>2. Points \in SUBSET Nat /\ IsFiniteSet(Points) /\ PageSize \in Nat \ {0}
  BY PointAssumption, FiniteAssumption, WindowAssumption DEF Points
<1>3. HistoryLeft(c) \in SUBSET Ahead(Points, offset[c])
  <2> SUFFICES ASSUME NEW p \in HistoryLeft(c)
               PROVE  p \in Ahead(Points, offset[c])
    OBVIOUS
  <2>1. p \in Points
    BY <1>1 DEF HistoryLeft, Points
  <2>2. p \in Nat /\ p \notin 0..(offset[c] - 1)
    BY <1>2, <2>1 DEF HistoryLeft
  <2>3. p >= offset[c]
    BY <1>1, <2>2
  <2>4. QED
    BY <2>1, <2>3 DEF Ahead
<1>4. QED
  BY <1>1, <1>2, <1>3, ScrollAdvances DEF HistoryOffset

\* Every step of a call takes one of the steps it has left.
LEMMA StepsAreTaken ==
  ASSUME IInv, IInv', NEW c \in Callers, CallStep(c) \/ Interrupt(c)
  PROVE  StepsLeft(c)' < StepsLeft(c)
<1> USE DEF Goto, Leave
<1>1. /\ pc \in [Callers -> Active \cup Resting] /\ attempts \in [Callers -> 0..1]
      /\ offset \in [Callers -> Nat] /\ unsaved \in [Callers -> SUBSET PatternIds]
      /\ attempts'[c] \in 0..1 /\ unsaved'[c] \in SUBSET PatternIds
      /\ offset'[c] \in Nat
  BY DEF IInv, TypeOK, ATTEMPTS
<1>2. /\ Cardinality(Ids) \in Nat
      /\ Cardinality(PatternIds) \in Nat
      /\ Cardinality(Points) \in Nat
      /\ Cardinality(Ahead(Ids, offset[c])) \in Nat
      /\ Cardinality(Ahead(Points, offset[c])) \in Nat
      /\ IsFiniteSet(unsaved[c])
      /\ Cardinality(unsaved[c]) \in Nat
      /\ attempts[c] \in 0..1 /\ ATTEMPTS = 2
  BY CountsAreNumbers DEF IInv
<1>3. /\ IsFiniteSet(Ids) /\ IsFiniteSet(PatternIds) /\ IsFiniteSet(Points)
      /\ Ids \in SUBSET Nat /\ Points \in SUBSET Nat
  BY IdsAssumption, PointAssumption, FiniteAssumption DEF Points
<1>4. /\ Cardinality(Ahead(Ids, offset'[c])) \in Nat
      /\ Cardinality(Ahead(Points, offset'[c])) \in Nat
      /\ Ahead(Ids, 0) = Ids /\ Ahead(Points, 0) = Points
  BY <1>3, AheadIsCounted, AllAhead
<1>5. /\ IsFiniteSet(unsaved'[c]) /\ Cardinality(unsaved'[c]) \in Nat
      /\ Cardinality(unsaved'[c]) <= Cardinality(PatternIds)
  BY <1>1, <1>3, FS_Subset, FS_CardinalityType
<1>6. /\ pc[c] \in {"ingest", "lookup", "find", "save"} => offset[c] = 0
      /\ pc'[c] \in {"ingest", "lookup", "find", "save"} => offset'[c] = 0
  <2>1. pc[c] \in {"ingest", "lookup", "find", "save"} => offset[c] = 0
    BY DEF IInv, CallOK, HoldsNothing
  <2>2. pc'[c] \in {"ingest", "lookup", "find", "save"} => offset'[c] = 0
    BY DEF IInv, CallOK, HoldsNothing
  <2>3. QED
    BY <2>1, <2>2
<1>7. ASSUME pc[c] \in Active, pc'[c] \in Resting
      PROVE  StepsLeft(c)' < StepsLeft(c)
  <2>1. StepsLeft(c)' = 0
    BY <1>7 DEF StepsLeft, Resting
  <2>2. StepsLeft(c) \in Nat /\ StepsLeft(c) > 0
    BY <1>7, StepsAreCounted DEF Counted
  <2>3. QED
    BY <2>1, <2>2
<1>8. CASE Ingested(c)
  <2>1. pc[c] = "ingest" /\ pc'[c] = "lookup"
    BY <1>1, <1>8 DEF Ingested
  <2>2. QED
    BY <1>2, <2>1 DEF StepsLeft
<1>9. CASE Lookup(c)
  <2>1. CASE pc'[c] = "returned"
    BY <1>7, <1>9, <2>1 DEF Lookup, Active, Resting
  <2>2. CASE pc'[c] # "returned"
    <3>1. pc[c] = "lookup" /\ pc'[c] = "window" /\ offset'[c] = offset[c]
      BY <1>1, <1>9, <2>2 DEF Lookup
    <3>2. offset'[c] = 0
      BY <1>6, <3>1
    <3>3. Cardinality(Ahead(Ids, offset'[c])) = Cardinality(Ids)
      BY <1>4, <3>2
    <3>4. StepsLeft(c)' = Cardinality(Ahead(Ids, offset'[c])) + Cardinality(PatternIds)
                            + Cardinality(Points) + 2 * ATTEMPTS + 5
      BY <3>1 DEF StepsLeft, ATTEMPTS, Points
    <3>5. StepsLeft(c) = Cardinality(Ids) + Cardinality(PatternIds) + Cardinality(Points)
                           + 2 * ATTEMPTS + 6
      BY <3>1 DEF StepsLeft
    <3>6. QED
      BY <1>2, <3>3, <3>4, <3>5
  <2>3. QED
    BY <2>1, <2>2
<1>10. CASE ReadWindow(c)
  <2>1. pc[c] = "window" /\ offset'[c] = NewsOffset(c)
    BY <1>1, <1>10 DEF ReadWindow
  <2>2. StepsLeft(c) = Cardinality(Ahead(Ids, offset[c])) + Cardinality(PatternIds)
                         + Cardinality(Points) + 2 * ATTEMPTS + 5
    BY <2>1 DEF StepsLeft
  <2>3. CASE NewsOffset(c) # 0
    <3>1. pc'[c] = "window"
      BY <1>1, <1>10, <2>3 DEF ReadWindow
    <3>2. Cardinality(Ahead(Ids, offset'[c])) < Cardinality(Ahead(Ids, offset[c]))
      BY <2>1, <2>3, WindowPageTaken
    <3>3. StepsLeft(c)' = Cardinality(Ahead(Ids, offset'[c])) + Cardinality(PatternIds)
                            + Cardinality(Points) + 2 * ATTEMPTS + 5
      BY <3>1 DEF StepsLeft, ATTEMPTS, Points
    <3>4. QED
      BY <1>2, <1>4, <2>2, <3>2, <3>3
  <2>4. CASE NewsOffset(c) = 0
    <3>1. CASE pc'[c] = "find"
      <4>1. StepsLeft(c)' = Cardinality(PatternIds) + Cardinality(Points)
                              + 2 * ATTEMPTS - attempts'[c] + 4
        BY <3>1 DEF StepsLeft, ATTEMPTS, Points
      <4>2. QED
        BY <1>1, <1>2, <2>2, <4>1
    <3>2. CASE pc'[c] = "history"
      <4>1. Cardinality(Ahead(Points, offset'[c])) = Cardinality(Points)
        BY <1>4, <2>1, <2>4
      <4>2. StepsLeft(c)' = Cardinality(Ahead(Points, offset'[c])) + ATTEMPTS + 3
        BY <3>2 DEF StepsLeft, ATTEMPTS, Points
      <4>3. QED
        BY <1>2, <2>2, <4>1, <4>2
    <3>3. QED
      BY <1>1, <1>10, <2>4, <3>1, <3>2 DEF ReadWindow
  <2>5. QED
    BY <2>3, <2>4
<1>11. CASE FindPatterns(c)
  <2>1. pc[c] = "find" /\ pc'[c] = "save"
    BY <1>1, <1>11 DEF FindPatterns
  <2>2. StepsLeft(c)' = Cardinality(unsaved'[c]) + Cardinality(Points) + ATTEMPTS + 4
    BY <2>1 DEF StepsLeft, ATTEMPTS, Points
  <2>3. StepsLeft(c) = Cardinality(PatternIds) + Cardinality(Points)
                         + 2 * ATTEMPTS - attempts[c] + 4
    BY <2>1 DEF StepsLeft
  <2>4. QED
    BY <1>2, <1>5, <2>2, <2>3
<1>12. CASE ModelFails(c)
  <2>1. pc[c] \in {"find", "write"} /\ pc[c] \in Active
    BY <1>12 DEF ModelFails, Active
  <2>2. CASE pc'[c] = "retry_error"
    BY <1>7, <2>1, <2>2 DEF Resting
  <2>3. CASE pc'[c] # "retry_error"
    <3>1. pc'[c] = pc[c] /\ attempts'[c] = attempts[c] + 1
      BY <1>1, <1>12, <2>3 DEF ModelFails
    <3>2. CASE pc[c] = "find"
      <4>1. StepsLeft(c)' = Cardinality(PatternIds) + Cardinality(Points)
                              + 2 * ATTEMPTS - attempts'[c] + 4
        BY <3>1, <3>2 DEF StepsLeft, ATTEMPTS, Points
      <4>2. StepsLeft(c) = Cardinality(PatternIds) + Cardinality(Points)
                             + 2 * ATTEMPTS - attempts[c] + 4
        BY <3>2 DEF StepsLeft
      <4>3. QED
        BY <1>2, <3>1, <4>1, <4>2
    <3>3. CASE pc[c] = "write"
      <4>1. StepsLeft(c)' = ATTEMPTS - attempts'[c] + 2
        BY <3>1, <3>3 DEF StepsLeft, ATTEMPTS
      <4>2. StepsLeft(c) = ATTEMPTS - attempts[c] + 2
        BY <3>3 DEF StepsLeft
      <4>3. QED
        BY <1>2, <3>1, <4>1, <4>2
    <3>4. QED
      BY <2>1, <3>2, <3>3
  <2>4. QED
    BY <2>2, <2>3
<1>13. CASE SavePattern(c)
  <2>1. PICK p \in unsaved[c] : unsaved' = [unsaved EXCEPT ![c] = @ \ {p}]
    BY <1>13 DEF SavePattern
  <2>2. pc[c] = "save" /\ pc'[c] = "save" /\ unsaved'[c] = unsaved[c] \ {p}
    BY <1>1, <1>13, <2>1 DEF SavePattern
  <2>3. Cardinality(unsaved'[c]) = Cardinality(unsaved[c]) - 1
    <3>1. p \in unsaved[c] /\ IsFiniteSet(unsaved[c])
      BY <1>2
    <3>2. Cardinality(unsaved[c] \ {p}) = Cardinality(unsaved[c]) - 1
      BY <3>1, FS_RemoveElement
    <3>3. QED
      BY <2>2, <3>2
  <2>4. StepsLeft(c)' = Cardinality(unsaved'[c]) + Cardinality(Points) + ATTEMPTS + 4
    BY <2>2 DEF StepsLeft, ATTEMPTS, Points
  <2>5. StepsLeft(c) = Cardinality(unsaved[c]) + Cardinality(Points) + ATTEMPTS + 4
    BY <2>2 DEF StepsLeft
  <2>6. QED
    BY <1>2, <1>5, <2>3, <2>4, <2>5
<1>14. CASE AnalysisStored(c)
  <2>1. pc[c] = "save" /\ pc[c] \in Active
    BY <1>14 DEF AnalysisStored, Active
  <2>2. CASE pc'[c] = "returned"
    BY <1>7, <2>1, <2>2 DEF Resting
  <2>3. CASE pc'[c] # "returned"
    <3>1. pc'[c] = "history" /\ offset'[c] = 0
      BY <1>1, <1>6, <1>14, <2>1, <2>3 DEF AnalysisStored, locals
    <3>2. Cardinality(Ahead(Points, offset'[c])) = Cardinality(Points)
      BY <1>4, <3>1
    <3>3. StepsLeft(c)' = Cardinality(Ahead(Points, offset'[c])) + ATTEMPTS + 3
      BY <3>1 DEF StepsLeft, ATTEMPTS, Points
    <3>4. StepsLeft(c) = Cardinality(unsaved[c]) + Cardinality(Points) + ATTEMPTS + 4
      BY <2>1 DEF StepsLeft
    <3>5. QED
      BY <1>2, <3>2, <3>3, <3>4
  <2>4. QED
    BY <2>2, <2>3
<1>15. CASE NoHistory(c) \/ DayHistory(c)
  <2>1. pc[c] = "history"
    BY <1>15 DEF NoHistory, DayHistory
  <2>2. StepsLeft(c) = Cardinality(Ahead(Points, offset[c])) + ATTEMPTS + 3
    BY <2>1 DEF StepsLeft
  <2>3. CASE pc'[c] = "write"
    <3>1. StepsLeft(c)' = ATTEMPTS - attempts'[c] + 2
      BY <2>3 DEF StepsLeft, ATTEMPTS
    <3>2. QED
      BY <1>1, <1>2, <2>2, <3>1
  <2>4. CASE pc'[c] # "write"
    <3>1. pc'[c] = "history" /\ offset'[c] = HistoryOffset(c) /\ HistoryOffset(c) # 0
      BY <1>1, <1>15, <2>4 DEF NoHistory, DayHistory
    <3>2. Cardinality(Ahead(Points, offset'[c])) < Cardinality(Ahead(Points, offset[c]))
      BY <3>1, HistoryPageTaken
    <3>3. StepsLeft(c)' = Cardinality(Ahead(Points, offset'[c])) + ATTEMPTS + 3
      BY <3>1 DEF StepsLeft, ATTEMPTS, Points
    <3>4. QED
      BY <1>2, <1>4, <2>2, <3>2, <3>3
  <2>5. QED
    BY <2>3, <2>4
<1>16. CASE BuildForecast(c)
  <2>1. pc[c] = "write" /\ pc'[c] = "store"
    BY <1>1, <1>16 DEF BuildForecast
  <2>2. QED
    BY <1>2, <2>1 DEF StepsLeft
<1>17. CASE SaveForecast(c) \/ Interrupt(c)
  <2>1. pc[c] \in Active /\ pc'[c] \in Resting
    BY <1>1, <1>17 DEF SaveForecast, Interrupt, Active, Resting
  <2>2. QED
    BY <1>7, <2>1
<1>18. QED
  BY <1>8, <1>9, <1>10, <1>11, <1>12, <1>13, <1>14, <1>15, <1>16, <1>17 DEF CallStep

\* A call ends after at most Cardinality(Ids) + Cardinality(PatternIds) + Cardinality(Points)
\* + 2 * ATTEMPTS + 7 steps of its own, whatever is committed and saved beside it: each of
\* them leaves it fewer, and nothing else gives it more (read_news_range, get_activations,
\* save_pattern once per pattern, RetryPolicy).
THEOREM CallsRunOut ==
  Spec => /\ []Counted
          /\ [][\A c \in Callers :
                  /\ CallStep(c) \/ Interrupt(c) => StepsLeft(c)' < StepsLeft(c)
                  /\ pc[c] \in Active => StepsLeft(c)' <= StepsLeft(c)]_vars
<1>1. IInv => Counted
  BY StepsAreCounted
<1>2. IInv' => Counted'
  BY <1>1, PTL
<1>3. ASSUME IInv, IInv', [Next]_vars, NEW c \in Callers, pc[c] \in Active
      PROVE  StepsLeft(c)' <= StepsLeft(c)
  <2>1. StepsLeft(c) \in Nat /\ StepsLeft(c)' \in Nat
    BY <1>1, <1>2, <1>3 DEF Counted
  <2>2. CASE CallStep(c) \/ Interrupt(c)
    BY <1>3, <2>1, <2>2, StepsAreTaken
  <2>3. ASSUME Same(c)
        PROVE  StepsLeft(c)' <= StepsLeft(c)
    <3>1. StepsLeft(c)' = StepsLeft(c)
      BY <2>3 DEF Same, StepsLeft, ATTEMPTS, Points
    <3>2. QED
      BY <2>1, <3>1
  <2>4. CASE \E o \in Callers : o # c /\ Acts(o)
    BY <1>3, <2>3, <2>4, OthersStay DEF IInv
  <2>5. CASE IngestStep \/ (\E p \in ClientPatterns : SavePatternTool(p)) \/ UNCHANGED vars
    BY <2>3, <2>5 DEF IngestStep, SavePatternTool, vars, request, locals, Same
  <2>6. /\ ~ \E d \in Days, w \in Wants \ {"analyze"} : Ask(c, d, w)
        /\ ~ \E ids \in SUBSET Ids : AskPatterns(c, ids)
    BY <1>3 DEF Ask, AskPatterns, Active, Resting
  <2>7. QED
    BY <1>3, <2>2, <2>4, <2>5, <2>6 DEF Next, Acts
<1>4. IInv /\ IInv' /\ [Next]_vars =>
        [\A c \in Callers :
           /\ CallStep(c) \/ Interrupt(c) => StepsLeft(c)' < StepsLeft(c)
           /\ pc[c] \in Active => StepsLeft(c)' <= StepsLeft(c)]_vars
  BY <1>3, StepsAreTaken
<1>5. QED
  BY <1>1, <1>4, InductiveInvariant, PTL DEF Spec
=============================================================================
