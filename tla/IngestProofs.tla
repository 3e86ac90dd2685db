---------------------------- MODULE IngestProofs ----------------------------
(***************************************************************************)
(* The commit-marker discipline of the ingest step, for every number of    *)
(* runs, articles, pages and interruptions; and that ingest implements the *)
(* article memory its readers see.                                         *)
(***************************************************************************)
EXTENDS Ingest, TLAPS, WellFoundedInduction, FiniteSetTheorems

USE IdsAssumption, StatedAssumption, AnswersAssumption, PagesAssumption,
    NoItemAssumption, MaxAbortsAssumption

-----------------------------------------------------------------------------
(* The inductive invariant.  CommitMarker alone is not inductive: the last   *)
(* write relies on what the run's own earlier writes left behind.            *)

\* What a run still has to read is part of what it found fresh, on its page.
ReadsItsPage ==
  \A r \in Runs : unread[r] \subseteq fresh[r] /\ fresh[r] \subseteq OnPage(page[r])

\* The writes begin when every fresh item is read.
ReadBeforeWriting ==
  \A r \in Runs : pc[r] \in {"activations", "patterns", "news"} => unread[r] = {}

\* A reading never misses a number the text states.
ReadsWhatIsStated ==
  \A r \in Runs : \A x \in fresh[r] \ unread[r] : Stated[x] \subseteq readings[r][x]

\* Every number run r read has its point in `rows`.
Written(rows, r) ==
  \A x \in fresh[r] : \A n \in readings[r][x] : rows[<<IdOf[x], n>>] # NoItem

\* A run past a write finds that write in the store.
EvidenceFirst ==
  \A r \in Runs :
    /\ pc[r] \in {"patterns", "news"} => Written(numberHistory, r)
    /\ pc[r] = "news" => Written(numberPatterns, r)

\* A stored version sits under its own id, with what its text states.
StoredStates ==
  \A id \in Ids :
    news[id] # NoItem => IdOf[news[id]] = id /\ Stated[news[id]] \subseteq newsNumbers[id]

IInv ==
  /\ TypeOK
  /\ ReadsItsPage
  /\ ReadBeforeWriting
  /\ ReadsWhatIsStated
  /\ EvidenceFirst
  /\ StoredStates
  /\ CommitMarker

-----------------------------------------------------------------------------
(* Lemmas about a page and a batch *)

\* A page, or no page at all, is a sequence of items.
LEMMA PagesAreSequences == \A p \in Pages \cup {<<>>} : p \in Seq(Items)
<1>1. \A p \in Pages : p \in Seq(Items)
  BY PagesAssumption
<1>2. <<>> \in Seq(Items)
  OBVIOUS
<1>3. QED
  BY <1>1, <1>2

\* The position of an item of a page is one of the page's indices.
LEMMA PositionOnPage ==
  ASSUME NEW p \in Pages \cup {<<>>}, NEW x \in OnPage(p)
  PROVE  /\ p \in Seq(Items)
         /\ Position(p, x) \in 1..Len(p)
<1>1. p \in Seq(Items)
  BY PagesAreSequences
<1>2. PICK i \in DOMAIN p : p[i] = x
  BY DEF OnPage
<1>3. Position(p, x) \in DOMAIN p
  BY <1>2 DEF Position
<1>4. QED
  BY <1>1, <1>3

\* Of a batch of items that share a point, one stands last on the page.
LEMMA LastHasPosition ==
  ASSUME NEW p \in Pages \cup {<<>>}, NEW S, S \subseteq OnPage(p), S # {}
  PROVE  \E x \in S : \A y \in S : Position(p, y) <= Position(p, x)
<1> DEFINE Back(x) == Len(p) - Position(p, x)
           Backs == { Back(x) : x \in S }
<1>1. \A x \in S : Position(p, x) \in 1..Len(p)
  BY PositionOnPage
<1>2. Len(p) \in Nat
  <2>1. p \in Seq(Items)
    BY PagesAreSequences
  <2>2. QED
    BY <2>1
<1>3. \A x \in S : Back(x) \in Nat
  BY <1>1, <1>2
<1>4. Backs \in SUBSET Nat /\ Backs # {}
  BY <1>3
<1>5. PICK least \in Backs : \A b \in Backs : least <= b
  <2> HIDE DEF Backs
  <2>1. PICK least \in Backs : \A b \in Backs : ~ (<<b, least>> \in OpToRel(<, Nat))
    BY <1>4, NatLessThanWellFounded, WFMin
  <2>2. OpToRel(<, Nat) = { q \in Nat \X Nat : q[1] < q[2] }
    BY DEF OpToRel
  <2>3. ASSUME NEW b \in Backs
        PROVE  least <= b
    <3>1. least \in Nat /\ b \in Nat
      BY <1>4
    <3>2. ~ (<<b, least>> \in { q \in Nat \X Nat : q[1] < q[2] })
      BY <2>1, <2>2
    <3>3. QED
      BY <3>1, <3>2
  <2>4. QED
    BY <2>3
<1>6. PICK x \in S : least = Back(x)
  BY DEF Backs
<1>7. \A y \in S : Position(p, y) <= Position(p, x)
  <2> SUFFICES ASSUME NEW y \in S
               PROVE  Position(p, y) <= Position(p, x)
    OBVIOUS
  <2>1. Back(x) <= Back(y)
    BY <1>5, <1>6
  <2>2. QED
    BY <2>1, <1>1, <1>2
<1>8. QED
  BY <1>7

\* It is the one that is left in the point.
LEMMA LastOfBatch ==
  ASSUME NEW p \in Pages \cup {<<>>}, NEW S, S \subseteq OnPage(p), S # {}
  PROVE  LastOf(p, S) \in S
BY LastHasPosition DEF LastOf

\* What a batch of activations does to a collection: its type is kept, no point
\* disappears, and every number the run read has its point.
LEMMA BatchOfActivations ==
  ASSUME NEW rows \in [Ids \X Numbers -> Items \cup {NoItem}],
         NEW r \in Runs, TypeOK, ReadsItsPage
  PROVE  /\ WithActivations(rows, r) \in [Ids \X Numbers -> Items \cup {NoItem}]
         /\ \A k \in Ids \X Numbers :
              rows[k] # NoItem => WithActivations(rows, r)[k] # NoItem
         /\ Written(WithActivations(rows, r), r)
<1>1. \A k \in Ids \X Numbers : Sources(r, k) # {} =>
        /\ LastOf(page[r], Sources(r, k)) \in Items
        /\ LastOf(page[r], Sources(r, k)) # NoItem
  <2> SUFFICES ASSUME NEW k \in Ids \X Numbers, Sources(r, k) # {}
               PROVE  LastOf(page[r], Sources(r, k)) \in Items
    OBVIOUS
  <2>1. Sources(r, k) \subseteq OnPage(page[r])
    BY DEF Sources, ReadsItsPage
  <2>2. page[r] \in Pages \cup {<<>>}
    BY DEF TypeOK
  <2>3. LastOf(page[r], Sources(r, k)) \in Sources(r, k)
    BY <2>1, <2>2, LastOfBatch
  <2>4. QED
    BY <2>3 DEF Sources, TypeOK
<1>2. \A k \in Ids \X Numbers :
        WithActivations(rows, r)[k] =
          IF Sources(r, k) = {} THEN rows[k] ELSE LastOf(page[r], Sources(r, k))
  BY DEF WithActivations
<1>3. WithActivations(rows, r) \in [Ids \X Numbers -> Items \cup {NoItem}]
  BY <1>1 DEF WithActivations
<1>4. ASSUME NEW x \in fresh[r], NEW n \in readings[r][x]
      PROVE  WithActivations(rows, r)[<<IdOf[x], n>>] # NoItem
  <2>1. <<IdOf[x], n>> \in Ids \X Numbers
    BY DEF TypeOK
  <2>2. x \in Sources(r, <<IdOf[x], n>>)
    BY DEF Sources
  <2>3. QED
    BY <2>1, <2>2, <1>1, <1>2
<1>5. QED
  BY <1>1, <1>2, <1>3, <1>4 DEF Written

-----------------------------------------------------------------------------
(* Type correctness *)

\* What the upsert of the articles leaves in `news` is well typed, and the
\* version it leaves in a point is one the run read for that id.
LEMMA BatchOfArticles ==
  ASSUME TypeOK, ReadsItsPage, NEW r \in Runs, UpsertNews(r), NEW id \in Ids
  PROVE  \/ /\ Versions(r, id) = {}
            /\ news'[id] = news[id]
            /\ newsNumbers'[id] = newsNumbers[id]
         \/ /\ news'[id] \in fresh[r]
            /\ IdOf[news'[id]] = id
            /\ newsNumbers'[id] = readings[r][news'[id]]
<1>1. page[r] \in Pages \cup {<<>>}
  BY DEF TypeOK
<1>2. Versions(r, id) \subseteq OnPage(page[r])
  BY DEF Versions, ReadsItsPage
<1>3. CASE Versions(r, id) = {}
  BY <1>3 DEF UpsertNews
<1>4. CASE Versions(r, id) # {}
  <2>1. news'[id] = LastOf(page[r], Versions(r, id))
    BY <1>4 DEF UpsertNews
  <2>2. news'[id] \in Versions(r, id)
    BY <2>1, <1>1, <1>2, <1>4, LastOfBatch
  <2>3. newsNumbers'[id] = readings[r][news'[id]]
    BY <2>1, <1>4 DEF UpsertNews
  <2>4. QED
    BY <2>2, <2>3 DEF Versions
<1>5. QED
  BY <1>3, <1>4

\* No step of the program leaves the types of its state.
LEMMA TypeStep ==
  ASSUME TypeOK, ReadsItsPage, [Next]_vars
  PROVE  TypeOK'
<1>1. ASSUME NEW r \in Runs, NEW p \in Pages, Fetch(r, p)
      PROVE  TypeOK'
  BY <1>1 DEF TypeOK, Fetch, store, Phases, Resting
<1>2. ASSUME NEW r \in Runs, Prepare(r)
      PROVE  TypeOK'
  BY <1>2 DEF TypeOK, Prepare, Advance, After, local, Phases, Resting
<1>3. ASSUME NEW r \in Runs, Check(r)
      PROVE  TypeOK'
  <2>1. { x \in OnPage(page[r]) : news[IdOf[x]] = NoItem } \subseteq Items
    <3>1. page[r] \in Seq(Items)
      BY PagesAreSequences DEF TypeOK
    <3>2. QED
      BY <3>1 DEF OnPage
  <2>2. pc' \in [Runs -> Phases \cup Resting]
    BY <1>3 DEF TypeOK, Check, Advance, After, Phases, Resting
  <2>3. fresh' \in [Runs -> SUBSET Items] /\ unread' \in [Runs -> SUBSET Items]
    BY <1>3, <2>1 DEF TypeOK, Check
  <2>4. QED
    BY <1>3, <2>2, <2>3 DEF TypeOK, Check, store
<1>4. ASSUME NEW r \in Runs, Extract(r)
      PROVE  TypeOK'
  <2>1. PICK x \in unread[r], answer \in Answers \cup {{}} :
          /\ unread' = [unread EXCEPT ![r] = @ \ {x}]
          /\ readings' = [readings EXCEPT ![r][x] = answer \cup Stated[x]]
    BY <1>4 DEF Extract
  <2>2. x \in Items /\ answer \cup Stated[x] \subseteq Numbers
    BY DEF TypeOK
  <2>3. readings' \in [Runs -> [Items -> SUBSET Numbers]]
    BY <2>1, <2>2 DEF TypeOK
  <2>4. unread' \in [Runs -> SUBSET Items]
    BY <2>1 DEF TypeOK
  <2>5. QED
    BY <1>4, <2>3, <2>4 DEF TypeOK, Extract, store
<1>5. ASSUME NEW r \in Runs, Compute(r)
      PROVE  TypeOK'
  BY <1>5 DEF TypeOK, Compute, Advance, After, store, local, Phases, Resting
<1>6. ASSUME NEW r \in Runs, RecordActivations(r)
      PROVE  TypeOK'
  <2>1. numberHistory' \in [Ids \X Numbers -> Items \cup {NoItem}]
    BY <1>6, BatchOfActivations DEF RecordActivations, TypeOK
  <2>2. pc' \in [Runs -> Phases \cup Resting]
    BY <1>6 DEF TypeOK, RecordActivations, Advance, After, Phases, Resting
  <2>3. collections' \subseteq {"news", "numbers", "number_history"}
    BY <1>6 DEF TypeOK, RecordActivations
  <2>4. QED
    BY <1>6, <2>1, <2>2, <2>3 DEF TypeOK, RecordActivations, local
<1>7. ASSUME NEW r \in Runs, UpsertNumberPatterns(r)
      PROVE  TypeOK'
  <2>1. numberPatterns' \in [Ids \X Numbers -> Items \cup {NoItem}]
    BY <1>7, BatchOfActivations DEF UpsertNumberPatterns, TypeOK
  <2>2. pc' \in [Runs -> Phases \cup Resting]
    BY <1>7 DEF TypeOK, UpsertNumberPatterns, Advance, After, Phases, Resting
  <2>3. collections' \subseteq {"news", "numbers", "number_history"}
    BY <1>7 DEF TypeOK, UpsertNumberPatterns
  <2>4. QED
    BY <1>7, <2>1, <2>2, <2>3 DEF TypeOK, UpsertNumberPatterns, local
<1>8. ASSUME NEW r \in Runs, UpsertNews(r)
      PROVE  TypeOK'
  <2>1. \A id \in Ids : news'[id] \in Items \cup {NoItem} /\ newsNumbers'[id] \subseteq Numbers
    BY <1>8, BatchOfArticles DEF TypeOK
  <2>2. news' \in [Ids -> Items \cup {NoItem}] /\ newsNumbers' \in [Ids -> SUBSET Numbers]
    BY <1>8, <2>1 DEF UpsertNews
  <2>3. pc' \in [Runs -> Phases \cup Resting]
    BY <1>8 DEF TypeOK, UpsertNews, Advance, After, Phases, Resting
  <2>4. collections' \subseteq {"news", "numbers", "number_history"}
    BY <1>8 DEF TypeOK, UpsertNews
  <2>5. QED
    BY <1>8, <2>2, <2>3, <2>4 DEF TypeOK, UpsertNews, local
<1>9. ASSUME NEW r \in Runs, Abort(r)
      PROVE  TypeOK'
  <2>1. aborts' \in 0..MaxAborts
    BY <1>9, MaxAbortsAssumption DEF TypeOK, Abort
  <2>2. pc' \in [Runs -> Phases \cup Resting]
    BY <1>9 DEF TypeOK, Abort, Phases, Resting
  <2>3. collections' \subseteq {"news", "numbers", "number_history"}
    BY <1>9 DEF TypeOK, Abort
  <2>4. QED
    BY <1>9, <2>1, <2>2, <2>3 DEF TypeOK, Abort, local
<1>10. CASE UNCHANGED vars
  BY <1>10 DEF TypeOK, vars, store, local
<1>11. QED
  BY <1>1, <1>2, <1>3, <1>4, <1>5, <1>6, <1>7, <1>8, <1>9, <1>10 DEF Next, Step

-----------------------------------------------------------------------------
(* The commit marker *)

\* A run keeps reading its own page, reads everything before it writes, and
\* never misses what a text states.
LEMMA ReadingStep ==
  ASSUME TypeOK, ReadsItsPage, ReadBeforeWriting, ReadsWhatIsStated, [Next]_vars
  PROVE  ReadsItsPage' /\ ReadBeforeWriting' /\ ReadsWhatIsStated'
<1>1. ASSUME NEW r \in Runs, NEW p \in Pages, Fetch(r, p)
      PROVE  ReadsItsPage' /\ ReadBeforeWriting' /\ ReadsWhatIsStated'
  BY <1>1 DEF TypeOK, ReadsItsPage, ReadBeforeWriting, ReadsWhatIsStated, Fetch
<1>2. ASSUME NEW r \in Runs, Check(r)
      PROVE  ReadsItsPage' /\ ReadBeforeWriting' /\ ReadsWhatIsStated'
  BY <1>2 DEF TypeOK, ReadsItsPage, ReadBeforeWriting, ReadsWhatIsStated, Check,
              Advance, After
<1>3. ASSUME NEW r \in Runs, Extract(r)
      PROVE  ReadsItsPage' /\ ReadBeforeWriting' /\ ReadsWhatIsStated'
  <2>1. PICK x \in unread[r], answer \in Answers \cup {{}} :
          /\ unread' = [unread EXCEPT ![r] = @ \ {x}]
          /\ readings' = [readings EXCEPT ![r][x] = answer \cup Stated[x]]
    BY <1>3 DEF Extract
  <2>2. ReadsItsPage'
    BY <1>3, <2>1 DEF TypeOK, ReadsItsPage, Extract
  <2>3. ReadBeforeWriting'
    BY <1>3, <2>1 DEF TypeOK, ReadBeforeWriting, Extract
  <2>4. ASSUME NEW s \in Runs, NEW y \in fresh'[s] \ unread'[s]
        PROVE  Stated[y] \subseteq readings'[s][y]
    <3>1. x \in Items /\ y \in Items /\ fresh' = fresh
      BY <1>3 DEF TypeOK, Extract
    <3>2. CASE s = r /\ y = x
      BY <3>1, <3>2, <2>1 DEF TypeOK
    <3>3. CASE ~ (s = r /\ y = x)
      <4>1. y \in fresh[s] \ unread[s]
        BY <3>1, <3>3, <2>1, <2>4 DEF TypeOK
      <4>2. readings'[s][y] = readings[s][y]
        BY <3>1, <3>3, <2>1 DEF TypeOK
      <4>3. QED
        BY <4>1, <4>2 DEF ReadsWhatIsStated
    <3>4. QED
      BY <3>2, <3>3
  <2>5. QED
    BY <2>2, <2>3, <2>4 DEF ReadsWhatIsStated
<1>4. ASSUME UNCHANGED local, ReadBeforeWriting'
      PROVE  ReadsItsPage' /\ ReadBeforeWriting' /\ ReadsWhatIsStated'
  BY <1>4 DEF ReadsItsPage, ReadsWhatIsStated, local
<1>5. ASSUME NEW r \in Runs, Compute(r) \/ Prepare(r) \/ UpsertNews(r) \/ Abort(r)
      PROVE  UNCHANGED local /\ ReadBeforeWriting'
  <2>1. UNCHANGED local
    BY <1>5 DEF Compute, Prepare, UpsertNews, Abort
  <2>2. CASE Compute(r)
    BY <2>1, <2>2 DEF TypeOK, ReadBeforeWriting, Compute, Advance, local
  <2>3. CASE Prepare(r)
    BY <2>1, <2>3 DEF TypeOK, ReadBeforeWriting, Prepare, Advance, After, local
  <2>4. CASE UpsertNews(r)
    BY <2>1, <2>4 DEF TypeOK, ReadBeforeWriting, UpsertNews, Advance, After, local
  <2>5. CASE Abort(r)
    BY <2>1, <2>5 DEF TypeOK, ReadBeforeWriting, Abort, local
  <2>6. QED
    BY <1>5, <2>1, <2>2, <2>3, <2>4, <2>5
<1>6. ASSUME NEW r \in Runs, RecordActivations(r) \/ UpsertNumberPatterns(r)
      PROVE  UNCHANGED local /\ ReadBeforeWriting'
  <2>1. UNCHANGED local /\ unread[r] = {} /\ \A s \in Runs \ {r} : pc'[s] = pc[s]
    BY <1>6 DEF TypeOK, ReadBeforeWriting, RecordActivations, UpsertNumberPatterns, Advance
  <2>2. QED
    BY <2>1 DEF ReadBeforeWriting, local
<1>7. CASE UNCHANGED vars
  BY <1>7 DEF ReadsItsPage, ReadBeforeWriting, ReadsWhatIsStated, vars, local
<1>8. QED
  BY <1>1, <1>2, <1>3, <1>4, <1>5, <1>6, <1>7 DEF Next, Step

\* The two number collections only grow, and a run that writes one of them finds
\* every number it read there.
LEMMA ActivationsStep ==
  ASSUME TypeOK, ReadsItsPage, NEW r \in Runs
  PROVE  /\ RecordActivations(r) =>
              /\ \A k \in Ids \X Numbers : numberHistory[k] # NoItem => numberHistory'[k] # NoItem
              /\ Written(numberHistory', r)
         /\ UpsertNumberPatterns(r) =>
              /\ \A k \in Ids \X Numbers : numberPatterns[k] # NoItem => numberPatterns'[k] # NoItem
              /\ Written(numberPatterns', r)
<1>1. /\ numberHistory \in [Ids \X Numbers -> Items \cup {NoItem}]
      /\ numberPatterns \in [Ids \X Numbers -> Items \cup {NoItem}]
  BY DEF TypeOK
<1>2. /\ \A k \in Ids \X Numbers :
           numberHistory[k] # NoItem => WithActivations(numberHistory, r)[k] # NoItem
      /\ Written(WithActivations(numberHistory, r), r)
  BY <1>1, BatchOfActivations
<1>3. /\ \A k \in Ids \X Numbers :
           numberPatterns[k] # NoItem => WithActivations(numberPatterns, r)[k] # NoItem
      /\ Written(WithActivations(numberPatterns, r), r)
  BY <1>1, BatchOfActivations
<1>4. RecordActivations(r) => numberHistory' = WithActivations(numberHistory, r)
  BY DEF RecordActivations
<1>5. UpsertNumberPatterns(r) => numberPatterns' = WithActivations(numberPatterns, r)
  BY DEF UpsertNumberPatterns
<1>6. QED
  BY <1>2, <1>3, <1>4, <1>5

\* A run past a write finds that write in the store: points are overwritten and
\* never removed, and the readings do not change once the writes began.
LEMMA EvidenceStep ==
  ASSUME TypeOK, ReadsItsPage, ReadBeforeWriting, EvidenceFirst, [Next]_vars
  PROVE  EvidenceFirst'
<1>1. ASSUME NEW r \in Runs, RecordActivations(r)
      PROVE  EvidenceFirst'
  <2>2. /\ \A k \in Ids \X Numbers : numberHistory[k] # NoItem => numberHistory'[k] # NoItem
        /\ Written(numberHistory', r)
    BY <1>1, ActivationsStep
  <2>3. \A s \in Runs : Written(numberHistory, s) => Written(numberHistory', s)
    BY <2>2 DEF Written, TypeOK
  <2>4. /\ UNCHANGED <<local, numberPatterns>>
        /\ pc'[r] = "patterns"
        /\ \A s \in Runs \ {r} : pc'[s] = pc[s]
    BY <1>1 DEF TypeOK, RecordActivations, Advance, After
  <2>5. QED
    BY <2>2, <2>3, <2>4 DEF EvidenceFirst, Written, local
<1>2. ASSUME NEW r \in Runs, UpsertNumberPatterns(r)
      PROVE  EvidenceFirst'
  <2>2. /\ \A k \in Ids \X Numbers : numberPatterns[k] # NoItem => numberPatterns'[k] # NoItem
        /\ Written(numberPatterns', r)
    BY <1>2, ActivationsStep
  <2>3. \A s \in Runs : Written(numberPatterns, s) => Written(numberPatterns', s)
    BY <2>2 DEF Written, TypeOK
  <2>4. /\ UNCHANGED <<local, numberHistory>>
        /\ pc[r] = "patterns" /\ pc'[r] = "news"
        /\ \A s \in Runs \ {r} : pc'[s] = pc[s]
    BY <1>2 DEF TypeOK, UpsertNumberPatterns, Advance, After
  <2>5. QED
    BY <2>2, <2>3, <2>4 DEF EvidenceFirst, Written, local
<1>3. ASSUME NEW r \in Runs, UNCHANGED <<numberHistory, numberPatterns>>,
             \A s \in Runs \ {r} : /\ pc'[s] = pc[s]
                                   /\ fresh'[s] = fresh[s]
                                   /\ readings'[s] = readings[s],
             pc'[r] \notin {"patterns", "news"}
      PROVE  EvidenceFirst'
  BY <1>3 DEF EvidenceFirst, Written
<1>4. ASSUME NEW r \in Runs, Prepare(r) \/ Compute(r) \/ UpsertNews(r) \/ Abort(r)
      PROVE  EvidenceFirst'
  <2>1. CASE Prepare(r)
    BY <1>3, <2>1 DEF TypeOK, Prepare, Advance, After, local
  <2>2. CASE Compute(r)
    BY <1>3, <2>2 DEF TypeOK, Compute, Advance, After, store, local
  <2>3. CASE UpsertNews(r)
    BY <1>3, <2>3 DEF TypeOK, UpsertNews, Advance, After, local
  <2>4. CASE Abort(r)
    BY <1>3, <2>4 DEF TypeOK, Abort, local
  <2>5. QED
    BY <1>4, <2>1, <2>2, <2>3, <2>4
<1>5. ASSUME NEW r \in Runs, NEW p \in Pages, Fetch(r, p)
      PROVE  EvidenceFirst'
  BY <1>3, <1>5 DEF TypeOK, Fetch, store
<1>6. ASSUME NEW r \in Runs, Check(r)
      PROVE  EvidenceFirst'
  BY <1>3, <1>6 DEF TypeOK, Check, Advance, After, store
<1>7. ASSUME NEW r \in Runs, Extract(r)
      PROVE  EvidenceFirst'
  BY <1>3, <1>7 DEF TypeOK, Extract, store
<1>8. CASE UNCHANGED vars
  BY <1>8 DEF EvidenceFirst, Written, vars, store, local
<1>9. QED
  BY <1>1, <1>2, <1>4, <1>5, <1>6, <1>7, <1>8 DEF Next, Step

\* A step that leaves the articles alone keeps them documented: the points of
\* their numbers are never removed.
LEMMA StoredStep ==
  ASSUME IInv, [Next]_vars
  PROVE  StoredStates' /\ CommitMarker'
<1> USE DEF IInv
<1>1. ASSUME NEW r \in Runs, UpsertNews(r)
      PROVE  StoredStates' /\ CommitMarker'
  <2>1. pc[r] = "news" /\ unread[r] = {} /\ UNCHANGED <<numberHistory, numberPatterns>>
    BY <1>1 DEF UpsertNews, ReadBeforeWriting
  <2>2. ASSUME NEW id \in Ids, news'[id] # NoItem
        PROVE  /\ IdOf[news'[id]] = id
               /\ Stated[news'[id]] \subseteq newsNumbers'[id]
               /\ \A n \in newsNumbers'[id] : /\ numberHistory[<<id, n>>] # NoItem
                                               /\ numberPatterns[<<id, n>>] # NoItem
    <3>1. CASE news'[id] = news[id] /\ newsNumbers'[id] = newsNumbers[id]
      BY <2>2, <3>1 DEF StoredStates, CommitMarker
    <3>2. CASE /\ news'[id] \in fresh[r]
               /\ IdOf[news'[id]] = id
               /\ newsNumbers'[id] = readings[r][news'[id]]
      <4>1. Stated[news'[id]] \subseteq newsNumbers'[id]
        BY <2>1, <3>2 DEF ReadsWhatIsStated
      <4>2. Written(numberHistory, r) /\ Written(numberPatterns, r)
        BY <2>1 DEF EvidenceFirst
      <4>3. QED
        BY <3>2, <4>1, <4>2 DEF Written
    <3>3. QED
      BY <1>1, <3>1, <3>2, BatchOfArticles
  <2>3. QED
    BY <2>1, <2>2 DEF StoredStates, CommitMarker
<1>2. ASSUME UNCHANGED <<news, newsNumbers>>,
             \A k \in Ids \X Numbers : /\ numberHistory[k] # NoItem => numberHistory'[k] # NoItem
                                       /\ numberPatterns[k] # NoItem => numberPatterns'[k] # NoItem
      PROVE  StoredStates' /\ CommitMarker'
  BY <1>2 DEF StoredStates, CommitMarker, TypeOK
<1>3. ASSUME NEW r \in Runs, RecordActivations(r)
      PROVE  StoredStates' /\ CommitMarker'
  BY <1>2, <1>3, ActivationsStep DEF RecordActivations
<1>4. ASSUME NEW r \in Runs, UpsertNumberPatterns(r)
      PROVE  StoredStates' /\ CommitMarker'
  BY <1>2, <1>4, ActivationsStep DEF UpsertNumberPatterns
<1>5. ASSUME UNCHANGED <<news, newsNumbers, numberHistory, numberPatterns>>
      PROVE  StoredStates' /\ CommitMarker'
  BY <1>2, <1>5
<1>6. ASSUME NEW r \in Runs,
             \/ \E p \in Pages : Fetch(r, p)
             \/ Prepare(r) \/ Check(r) \/ Extract(r) \/ Compute(r) \/ Abort(r)
      PROVE  UNCHANGED <<news, newsNumbers, numberHistory, numberPatterns>>
  BY <1>6 DEF Fetch, Prepare, Check, Extract, Compute, Abort, store
<1>7. CASE UNCHANGED vars
  BY <1>5, <1>7 DEF vars, store
<1>8. QED
  BY <1>1, <1>3, <1>4, <1>5, <1>6, <1>7 DEF Next, Step

\* The invariant holds of an empty store with no run under way.
LEMMA InitInvariant == Init => IInv
<1> SUFFICES ASSUME Init
             PROVE  IInv
  OBVIOUS
<1>1. TypeOK
  BY MaxAbortsAssumption DEF Init, TypeOK, Resting
<1>2. ReadsItsPage /\ ReadBeforeWriting /\ ReadsWhatIsStated
  BY DEF Init, ReadsItsPage, ReadBeforeWriting, ReadsWhatIsStated
<1>3. EvidenceFirst /\ StoredStates /\ CommitMarker
  BY DEF Init, EvidenceFirst, StoredStates, CommitMarker
<1>4. QED
  BY <1>1, <1>2, <1>3 DEF IInv

\* IInv is an invariant of ingest.
THEOREM InductiveInvariant == Spec => []IInv
<1>1. IInv /\ [Next]_vars => IInv'
  <2> SUFFICES ASSUME IInv, [Next]_vars
               PROVE  IInv'
    OBVIOUS
  <2>1. TypeOK'
    BY TypeStep DEF IInv
  <2>2. ReadsItsPage' /\ ReadBeforeWriting' /\ ReadsWhatIsStated'
    BY ReadingStep DEF IInv
  <2>3. EvidenceFirst'
    BY EvidenceStep DEF IInv
  <2>4. StoredStates' /\ CommitMarker'
    BY StoredStep
  <2>5. QED
    BY <2>1, <2>2, <2>3, <2>4 DEF IInv
<1>2. QED
  BY <1>1, InitInvariant, PTL DEF Spec

\* The state of ingest keeps its types.
THEOREM TypeCorrectness == Spec => []TypeOK
<1>1. IInv => TypeOK
  BY DEF IInv
<1>2. QED
  BY <1>1, InductiveInvariant, PTL

\* A stored article has the activation and the pattern of every number it is
\* stored with, for any number of overlapping runs cut short anywhere.
THEOREM CommitMarkerHolds == Spec => []CommitMarker
<1>1. IInv => CommitMarker
  BY DEF IInv
<1>2. QED
  BY <1>1, InductiveInvariant, PTL

-----------------------------------------------------------------------------
(* Ingest implements the article memory *)

\* With the commit marker, a reader is told exactly what was stored.
LEMMA RememberedIsStored ==
  ASSUME TypeOK, CommitMarker
  PROVE  Remembered = [id \in Ids |->
           IF news[id] = NoItem THEN Unknown
           ELSE [item |-> news[id], numbers |-> newsNumbers[id]]]
<1>1. ASSUME NEW id \in Ids, news[id] # NoItem
      PROVE  { n \in newsNumbers[id] : /\ numberHistory[<<id, n>>] # NoItem
                                       /\ numberPatterns[<<id, n>>] # NoItem } = newsNumbers[id]
  BY <1>1 DEF CommitMarker
<1>2. QED
  BY <1>1 DEF Remembered

\* So a reader sees the stored versions with their numbers, before and after a step.
LEMMA ReaderSeesStored ==
  ASSUME IInv, IInv'
  PROVE  LET Stored == [id \in Ids |->
               IF news[id] = NoItem THEN Unknown
               ELSE [item |-> news[id], numbers |-> newsNumbers[id]]]
         IN  Remembered = Stored /\ Remembered' = Stored'
<1>1. TypeOK' /\ CommitMarker'
  BY DEF IInv
<1>2. ASSUME NEW id \in Ids, news'[id] # NoItem
      PROVE  { n \in newsNumbers'[id] : /\ numberHistory'[<<id, n>>] # NoItem
                                        /\ numberPatterns'[<<id, n>>] # NoItem }
               = newsNumbers'[id]
  BY <1>1, <1>2 DEF CommitMarker
<1>3. QED
  BY <1>2, RememberedIsStored DEF IInv, Remembered, Unknown

\* Writing the articles of a run is a batch remembered at once.
LEMMA UpsertRemembers ==
  ASSUME IInv, IInv', NEW r \in Runs, UpsertNews(r)
  PROVE  Memory!Remember({ id \in Ids : Versions(r, id) # {} })
<1> DEFINE Stored == [id \in Ids |->
             IF news[id] = NoItem THEN Unknown
             ELSE [item |-> news[id], numbers |-> newsNumbers[id]]]
           S == { id \in Ids : Versions(r, id) # {} }
<1>1. Remembered = Stored /\ Remembered' = Stored'
  BY ReaderSeesStored
<1>2. ASSUME NEW id \in Ids \ S
      PROVE  Stored'[id] = Stored[id]
  <2>1. news'[id] = news[id] /\ newsNumbers'[id] = newsNumbers[id]
    BY DEF UpsertNews
  <2>2. QED
    BY <2>1 DEF Unknown
<1>3. ASSUME NEW id \in S
      PROVE  Stored'[id] \in Memory!Recollections(id)
  <2>1. news'[id] \in Items /\ news'[id] # NoItem
    <3>1. page[r] \in Pages \cup {<<>>} /\ Versions(r, id) \subseteq OnPage(page[r])
      BY DEF IInv, TypeOK, Versions, ReadsItsPage
    <3>2. LastOf(page[r], Versions(r, id)) \in Versions(r, id)
      BY <3>1, LastOfBatch
    <3>3. news'[id] = LastOf(page[r], Versions(r, id))
      BY DEF UpsertNews
    <3>4. QED
      BY <3>2, <3>3, NoItemAssumption DEF Versions, IInv, TypeOK
  <2>2. newsNumbers'[id] \in SUBSET Numbers
    BY DEF IInv, TypeOK
  <2>3. IdOf[news'[id]] = id /\ Stated[news'[id]] \subseteq newsNumbers'[id]
    BY <2>1 DEF IInv, StoredStates
  <2>4. Stored'[id] = [item |-> news'[id], numbers |-> newsNumbers'[id]]
    BY <2>1 DEF Unknown
  <2>5. QED
    BY <2>1, <2>2, <2>3, <2>4 DEF Memory!Recollections
<1>4. DOMAIN Remembered' = Ids
  BY <1>1
<1> HIDE DEF S, Stored
<1>5. Memory!Remember(S)
  BY <1>1, <1>2, <1>3, <1>4 DEF Memory!Remember
<1>6. QED
  BY <1>5 DEF S

\* Every other step changes nothing a reader sees.
LEMMA OthersRememberNothing ==
  ASSUME IInv, IInv', [Next]_vars
  PROVE  (\E r \in Runs : UpsertNews(r)) \/ UNCHANGED Remembered
<1>1. ASSUME UNCHANGED <<news, newsNumbers>>
      PROVE  UNCHANGED Remembered
  BY <1>1, ReaderSeesStored DEF Unknown
<1>2. ASSUME NEW r \in Runs,
             \/ \E p \in Pages : Fetch(r, p)
             \/ Prepare(r) \/ Check(r) \/ Extract(r) \/ Compute(r)
             \/ RecordActivations(r) \/ UpsertNumberPatterns(r) \/ Abort(r)
      PROVE  UNCHANGED <<news, newsNumbers>>
  BY <1>2 DEF Fetch, Prepare, Check, Extract, Compute, RecordActivations,
              UpsertNumberPatterns, Abort, store
<1>3. CASE UNCHANGED vars
  BY <1>1, <1>3 DEF vars, store
<1>4. QED
  BY <1>1, <1>2, <1>3 DEF Next, Step

\* A step of ingest is a batch remembered at once, or changes nothing a reader sees.
LEMMA StepRefines ==
  ASSUME IInv, IInv', [Next]_vars
  PROVE  [Memory!Next]_Remembered
BY UpsertRemembers, OthersRememberNothing DEF Memory!Next

\* Ingest implements the article memory: readers never see an article without
\* the evidence of its numbers, and never see one disappear.
THEOREM IngestImplementsMemory == Spec => ImplementsMemory
<1>1. Init => Memory!Init
  BY DEF Init, Memory!Init, Remembered
<1>2. QED
  BY <1>1, StepRefines, InductiveInvariant, PTL DEF Spec, ImplementsMemory, Memory!Spec

-----------------------------------------------------------------------------
(* The collection a first run checks *)

\* A run with something on its page has made sure that `news` exists.
PreparedNews ==
  \A r \in Runs :
    /\ pc[r] \in {"check", "extract", "activations", "patterns", "news"}
    /\ page[r] # <<>>
    => "news" \in collections

\* No step removes a collection, so what a run made sure of stays.
LEMMA PreparedStep ==
  ASSUME TypeOK, PreparedNews, [Next]_vars
  PROVE  PreparedNews'
<1>1. ASSUME NEW r \in Runs, Prepare(r)
      PROVE  PreparedNews'
  BY <1>1 DEF Prepare, PreparedNews, local, Advance, TypeOK
<1>2. ASSUME NEW r \in Runs, NEW p \in Pages, Fetch(r, p)
      PROVE  PreparedNews'
  BY <1>2 DEF Fetch, PreparedNews, store, TypeOK
<1>3. ASSUME NEW r \in Runs, Check(r) \/ Extract(r) \/ Compute(r)
      PROVE  PreparedNews'
  BY <1>3 DEF Check, Extract, Compute, PreparedNews, store, local, Advance, After, TypeOK
<1>4. ASSUME NEW r \in Runs, RecordActivations(r)
      PROVE  PreparedNews'
  BY <1>4 DEF RecordActivations, PreparedNews, local, Advance, After, TypeOK
<1>5. ASSUME NEW r \in Runs, UpsertNumberPatterns(r)
      PROVE  PreparedNews'
  BY <1>5 DEF UpsertNumberPatterns, PreparedNews, local, Advance, After, TypeOK
<1>6. ASSUME NEW r \in Runs, UpsertNews(r)
      PROVE  PreparedNews'
  BY <1>6 DEF UpsertNews, PreparedNews, local, Advance, After, TypeOK
<1>7. ASSUME NEW r \in Runs, Abort(r)
      PROVE  PreparedNews'
  BY <1>7 DEF Abort, PreparedNews, local, TypeOK
<1>8. CASE UNCHANGED vars
  BY <1>8 DEF vars, store, local, PreparedNews
<1>9. QED
  BY <1>1, <1>2, <1>3, <1>4, <1>5, <1>6, <1>7, <1>8 DEF Next, Step

\* A run with something on its page finds the collection in every later step, whatever
\* became of the other runs (steps.py, ingest; create_news_collection).
THEOREM NewsIsPrepared == Spec => []PreparedNews
<1>1. Init => PreparedNews
  BY DEF Init, PreparedNews
<1>2. QED
  BY <1>1, PreparedStep, TypeCorrectness, PTL DEF Spec

\* Nothing can be fresh on an empty page, and nothing is read from it.
LEMMA EmptyPageHoldsNothing ==
  ASSUME IInv, NEW r \in Runs, page[r] = <<>>
  PROVE  /\ fresh[r] = {} /\ ~ HasActivations(r)
         /\ \A id \in Ids : Versions(r, id) = {}
         /\ \A k \in Ids \X Numbers : Sources(r, k) = {}
<1>1. OnPage(<<>>) = {}
  BY DEF OnPage
<1>2. fresh[r] = {}
  BY <1>1 DEF IInv, ReadsItsPage
<1>3. QED
  BY <1>2 DEF HasActivations, Versions, Sources

\* The phase of a run with an empty page passes over the store without a trace.
LEMMA EmptyPageStep ==
  ASSUME IInv, NEW r \in Runs, page[r] = <<>>, pc[r] \in Phases,
         Step(r) \/ Abort(r)
  PROVE  UNCHANGED store
<1>1. /\ fresh[r] = {} /\ ~ HasActivations(r)
      /\ \A id \in Ids : Versions(r, id) = {}
      /\ \A k \in Ids \X Numbers : Sources(r, k) = {}
  BY EmptyPageHoldsNothing
<1>2. ASSUME NEW rows \in [Ids \X Numbers -> Items \cup {NoItem}]
      PROVE  WithActivations(rows, r) = rows
  BY <1>1 DEF WithActivations
<1>3. CASE Prepare(r) \/ Abort(r)
  BY <1>1, <1>3 DEF Prepare, Abort, store
<1>4. CASE Check(r) \/ Extract(r) \/ Compute(r)
  BY <1>4 DEF Check, Extract, Compute
<1>5. CASE RecordActivations(r)
  BY <1>1, <1>2, <1>5 DEF RecordActivations, IInv, TypeOK, store
<1>6. CASE UpsertNumberPatterns(r)
  BY <1>1, <1>2, <1>6 DEF UpsertNumberPatterns, IInv, TypeOK, store
<1>7. CASE UpsertNews(r)
  <2>1. news' = [id \in Ids |-> news[id]] /\ newsNumbers' = [id \in Ids |-> newsNumbers[id]]
    BY <1>1, <1>7 DEF UpsertNews
  <2>2. QED
    BY <1>1, <1>7, <2>1 DEF UpsertNews, IInv, TypeOK, store
<1>8. QED
  BY <1>3, <1>4, <1>5, <1>6, <1>7 DEF Step

\* The collection is made for a page that has something on it and for no other: a first
\* run finds `news` when it looks for what it already holds, wherever other runs were
\* cut short, and an empty page leaves the store as it was (steps.py, ingest).
THEOREM EmptyPageIsHarmless == Spec => EmptyPageTouchesNothing
<1> DEFINE Harmless ==
      \A r \in Runs : pc[r] \in Phases /\ pc'[r] # pc[r] =>
        IF page[r] = <<>> THEN UNCHANGED store
        ELSE pc[r] = "check" => "news" \in collections
<1>1. ASSUME IInv, PreparedNews, [Next]_vars
      PROVE  [Harmless]_vars
  <2>1. SUFFICES ASSUME NEW r \in Runs, pc[r] \in Phases, pc'[r] # pc[r]
                 PROVE  IF page[r] = <<>> THEN UNCHANGED store
                        ELSE pc[r] = "check" => "news" \in collections
    OBVIOUS
  <2>2. CASE page[r] # <<>>
    BY <2>1, <2>2, <1>1 DEF PreparedNews
  <2>3. CASE page[r] = <<>>
    <3>1. PICK s \in Runs :
            (\E p \in Pages : Fetch(s, p)) \/ Step(s) \/ Abort(s)
      BY <1>1, <2>1 DEF Next, vars
    <3>2. s = r
      BY <2>1, <3>1, <1>1 DEF Fetch, Step, Abort, Prepare, Check, Extract, Compute, IInv, TypeOK,
         RecordActivations, UpsertNumberPatterns, UpsertNews, Advance
    <3>3. Step(r) \/ Abort(r)
      BY <2>1, <3>1, <3>2 DEF Fetch, Phases, Resting
    <3>4. QED
      BY <1>1, <2>1, <2>3, <3>3, EmptyPageStep
  <2>4. QED
    BY <2>2, <2>3
<1>2. QED
  BY <1>1, InductiveInvariant, NewsIsPrepared, PTL DEF Spec, EmptyPageTouchesNothing

-----------------------------------------------------------------------------
(* Ingest implements the batches that `forecast` is interrupted by *)

\* A run that found something fresh had something on its page.
LEMMA FreshHasPage ==
  ASSUME IInv, NEW r \in Runs, fresh[r] # {}
  PROVE  page[r] # <<>>
<1>1. fresh[r] \subseteq OnPage(page[r])
  BY DEF IInv, ReadsItsPage
<1>2. OnPage(<<>>) = {}
  BY DEF OnPage
<1>3. QED
  BY <1>1, <1>2

\* What run r writes into the log, as the batch its readers are told of.
RowsOf(r) ==
  [k \in Ids \X Numbers |->
     IF Sources(r, k) = {} THEN NoItem ELSE LastOf(page[r], Sources(r, k))]

\* Each row is a version of its own article, and the batch is empty exactly when no
\* number was read.
LEMMA RowsAreRows ==
  ASSUME IInv, NEW r \in Runs
  PROVE  /\ RowsOf(r) \in Readers!Rows
         /\ \A k \in Ids \X Numbers : RowsOf(r)[k] = NoItem <=> Sources(r, k) = {}
         /\ HasActivations(r) => \E k \in Ids \X Numbers : RowsOf(r)[k] # NoItem
<1>1. ASSUME NEW k \in Ids \X Numbers, Sources(r, k) # {}
      PROVE  /\ RowsOf(r)[k] \in Items /\ RowsOf(r)[k] # NoItem
             /\ IdOf[RowsOf(r)[k]] = k[1]
  <2>1. page[r] \in Pages \cup {<<>>} /\ Sources(r, k) \subseteq OnPage(page[r])
    BY DEF IInv, TypeOK, Sources, ReadsItsPage
  <2>2. LastOf(page[r], Sources(r, k)) \in Sources(r, k)
    BY <1>1, <2>1, LastOfBatch
  <2>3. RowsOf(r)[k] = LastOf(page[r], Sources(r, k))
    BY <1>1 DEF RowsOf
  <2>4. QED
    BY <2>2, <2>3 DEF Sources, IInv, TypeOK
<1>2. ASSUME NEW k \in Ids \X Numbers, Sources(r, k) = {}
      PROVE  RowsOf(r)[k] = NoItem
  BY <1>2 DEF RowsOf
<1>3. RowsOf(r) \in [Ids \X Numbers -> Items \cup {NoItem}]
  <2>1. \A k \in Ids \X Numbers : RowsOf(r)[k] \in Items \cup {NoItem}
    BY <1>1, <1>2
  <2>2. QED
    BY <2>1 DEF RowsOf
<1>4. RowsOf(r) \in Readers!Rows
  BY <1>1, <1>2, <1>3 DEF Readers!Rows
<1>5. ASSUME HasActivations(r)
      PROVE  \E k \in Ids \X Numbers : RowsOf(r)[k] # NoItem
  <2>1. PICK x \in fresh[r], n \in Numbers : n \in readings[r][x]
    BY <1>5 DEF HasActivations, IInv, TypeOK
  <2>2. <<IdOf[x], n>> \in Ids \X Numbers /\ x \in Sources(r, <<IdOf[x], n>>)
    BY <2>1 DEF Sources, IInv, TypeOK
  <2>3. QED
    BY <1>1, <2>2
<1>6. QED
  BY <1>1, <1>2, <1>4, <1>5

\* A step that changes neither the articles nor the log, nor the collections a reader
\* looks for, is not seen.
LEMMA NothingToRead ==
  ASSUME UNCHANGED <<news, newsNumbers, numberHistory>>,
         collections' \cap {"news", "number_history"} = collections \cap {"news", "number_history"}
  PROVE  UNCHANGED Readers!vars
BY DEF Readers!vars

\* Writing the log is a batch of activations, or nothing when no number was read.
LEMMA RecordShows ==
  ASSUME IInv, PreparedNews, NEW r \in Runs, RecordActivations(r)
  PROVE  [Readers!Next]_(Readers!vars)
<1>1. /\ RowsOf(r) \in Readers!Rows
      /\ \A k \in Ids \X Numbers : RowsOf(r)[k] = NoItem <=> Sources(r, k) = {}
      /\ HasActivations(r) => \E k \in Ids \X Numbers : RowsOf(r)[k] # NoItem
  BY RowsAreRows
<1>2. numberHistory' = WithActivations(numberHistory, r) /\ UNCHANGED <<news, newsNumbers>>
  BY DEF RecordActivations
<1>3. numberHistory' =
        [k \in Ids \X Numbers |->
           IF RowsOf(r)[k] = NoItem THEN numberHistory[k] ELSE RowsOf(r)[k]]
  BY <1>1, <1>2 DEF WithActivations, RowsOf
<1>4. CASE HasActivations(r)
  <2>1. "news" \in collections
    <3>1. fresh[r] # {}
      BY <1>4 DEF HasActivations
    <3>2. QED
      BY <3>1, FreshHasPage DEF PreparedNews, RecordActivations
  <2>2. collections' = collections \cup {"number_history"}
    BY <1>4 DEF RecordActivations
  <2>3. Readers!RecordActivations(RowsOf(r))
    BY <1>1, <1>2, <1>3, <1>4, <2>1, <2>2 DEF Readers!RecordActivations
  <2>4. QED
    BY <1>1, <2>3 DEF Readers!Next
<1>5. CASE ~ HasActivations(r)
  <2>1. \A k \in Ids \X Numbers : Sources(r, k) = {}
    BY <1>5 DEF HasActivations, Sources
  <2>2. numberHistory' = numberHistory
    BY <1>2, <2>1 DEF WithActivations, IInv, TypeOK
  <2>3. QED
    BY <1>2, <1>5, <2>2, NothingToRead DEF RecordActivations
<1>6. QED
  BY <1>4, <1>5

\* Writing the articles is a batch of articles whose activations are in the log.
LEMMA UpsertShows ==
  ASSUME IInv, IInv', PreparedNews, NEW r \in Runs, UpsertNews(r)
  PROVE  [Readers!Next]_(Readers!vars)
<1> DEFINE batch == [id \in Ids |->
             IF Versions(r, id) = {} THEN NoItem ELSE LastOf(page[r], Versions(r, id))]
<1>1. ASSUME NEW id \in Ids, Versions(r, id) # {}
      PROVE  /\ batch[id] \in Items /\ batch[id] # NoItem /\ IdOf[batch[id]] = id
             /\ news'[id] = batch[id]
  <2>1. page[r] \in Pages \cup {<<>>} /\ Versions(r, id) \subseteq OnPage(page[r])
    BY DEF IInv, TypeOK, Versions, ReadsItsPage
  <2>2. LastOf(page[r], Versions(r, id)) \in Versions(r, id)
    BY <1>1, <2>1, LastOfBatch
  <2>3. batch[id] = LastOf(page[r], Versions(r, id)) /\ news'[id] = batch[id]
    BY <1>1 DEF UpsertNews
  <2>4. QED
    BY <2>2, <2>3 DEF Versions, IInv, TypeOK
<1>2. ASSUME NEW id \in Ids, Versions(r, id) = {}
      PROVE  /\ batch[id] = NoItem
             /\ news'[id] = news[id] /\ newsNumbers'[id] = newsNumbers[id]
  BY <1>2 DEF UpsertNews
<1>3. batch \in [Ids -> Items \cup {NoItem}]
  BY <1>1, <1>2
<1> HIDE DEF batch
<1>4. batch \in Readers!Batches
  BY <1>1, <1>2, <1>3 DEF Readers!Batches
<1>5. newsNumbers' \in [Ids -> SUBSET Numbers] /\ news' \in [Ids -> Items \cup {NoItem}]
  BY DEF IInv, TypeOK
<1>6. news' = [id \in Ids |-> IF batch[id] = NoItem THEN news[id] ELSE batch[id]]
  <2>1. \A id \in Ids : news'[id] = IF batch[id] = NoItem THEN news[id] ELSE batch[id]
    BY <1>1, <1>2
  <2>2. QED
    BY <1>5, <2>1
<1>7. ASSUME NEW id \in Ids, batch[id] # NoItem, NEW n \in newsNumbers'[id]
      PROVE  numberHistory[<<id, n>>] # NoItem
  <2>1. news'[id] # NoItem
    BY <1>1, <1>2, <1>7
  <2>2. numberHistory'[<<id, n>>] # NoItem
    BY <1>7, <2>1 DEF IInv, CommitMarker
  <2>3. QED
    BY <2>2 DEF UpsertNews
<1>8. CASE fresh[r] = {}
  <2>1. \A id \in Ids : Versions(r, id) = {}
    BY <1>8 DEF Versions
  <2>2. UNCHANGED <<news, newsNumbers, numberHistory>>
    BY <1>2, <1>5, <2>1 DEF UpsertNews, IInv, TypeOK
  <2>3. QED
    BY <1>8, <2>2, NothingToRead DEF UpsertNews
<1>9. CASE fresh[r] # {}
  <2>1. "news" \in collections
    BY <1>9, FreshHasPage DEF PreparedNews, UpsertNews
  <2>2. collections' = collections
    BY <1>9, <2>1 DEF UpsertNews
  <2>3. Readers!StoreArticles(batch, newsNumbers')
    BY <1>1, <1>2, <1>6, <1>7, <2>1, <2>2 DEF Readers!StoreArticles, UpsertNews
  <2>4. QED
    BY <1>4, <1>5, <2>3 DEF Readers!Next
<1>10. QED
  BY <1>8, <1>9

\* A step of a run is a batch, a collection created for one, or nothing a reader sees.
LEMMA StepShowsEvidence ==
  ASSUME IInv, IInv', PreparedNews, [Next]_vars
  PROVE  [Readers!Next]_(Readers!vars)
<1> DEFINE Read == {"news", "number_history"}
<1>1. ASSUME collections' = collections \cup {"news"},
             UNCHANGED <<news, newsNumbers, numberHistory>>
      PROVE  [Readers!Next]_(Readers!vars)
  <2>1. collections' \cap Read = (collections \cap Read) \cup {"news"}
    BY <1>1
  <2>2. Readers!PrepareNews
    BY <1>1, <2>1 DEF Readers!PrepareNews
  <2>3. QED
    BY <2>2 DEF Readers!Next
<1>2. ASSUME NEW r \in Runs, Prepare(r)
      PROVE  [Readers!Next]_(Readers!vars)
  BY <1>1, <1>2, NothingToRead DEF Prepare
<1>3. ASSUME NEW r \in Runs, UpsertNumberPatterns(r)
      PROVE  [Readers!Next]_(Readers!vars)
  BY <1>3, NothingToRead DEF UpsertNumberPatterns
<1>4. ASSUME NEW r \in Runs, Abort(r)
      PROVE  [Readers!Next]_(Readers!vars)
  <2>1. UNCHANGED <<news, newsNumbers, numberHistory>>
    BY <1>4 DEF Abort
  <2>2. CASE collections' = collections \/ collections' = collections \cup {"numbers"}
    BY <2>1, <2>2, NothingToRead
  <2>3. CASE collections' = collections \cup {"news"}
    BY <1>1, <2>1, <2>3
  <2>4. CASE /\ pc[r] = "activations" /\ HasActivations(r)
             /\ collections' = collections \cup {"number_history"}
    <3>1. "news" \in collections
      <4>1. fresh[r] # {}
        BY <2>4 DEF HasActivations
      <4>2. QED
        BY <2>4, <4>1, FreshHasPage DEF PreparedNews
    <3>2. collections' \cap Read = (collections \cap Read) \cup {"number_history"}
      BY <2>4
    <3>3. Readers!RecordFails
      BY <2>1, <3>1, <3>2 DEF Readers!RecordFails
    <3>4. QED
      BY <3>3 DEF Readers!Next
  <2>5. QED
    BY <1>4, <2>2, <2>3, <2>4 DEF Abort
<1>5. ASSUME NEW r \in Runs,
             \/ \E p \in Pages : Fetch(r, p)
             \/ Check(r) \/ Extract(r) \/ Compute(r)
      PROVE  [Readers!Next]_(Readers!vars)
  BY <1>5, NothingToRead DEF Fetch, Check, Extract, Compute, store
<1>6. CASE UNCHANGED vars
  BY <1>6, NothingToRead DEF vars, store
<1>7. QED
  BY <1>2, <1>3, <1>4, <1>5, <1>6, RecordShows, UpsertShows DEF Next, Step

\* What `forecast` is interrupted by is the ingest step: any number of runs, cut short
\* anywhere, is to its readers the batches Evidence describes, each point with the
\* version it was written from (steps.py, ingest), so that what Forecast is shown to
\* keep beside Evidence it keeps beside these runs.
THEOREM IngestImplementsEvidence == Spec => ImplementsEvidence
<1>1. Init => Readers!Init
  BY DEF Init, Readers!Init
<1>2. QED
  BY <1>1, StepShowsEvidence, InductiveInvariant, NewsIsPrepared, PTL
     DEF Spec, ImplementsEvidence, Readers!Spec

-----------------------------------------------------------------------------
(* Runs that follow one another *)

\* What a run found fresh is stored by nobody else, and what an interrupted run
\* left unread is stored by nobody at all.
FreshIsNew ==
  \A r \in Runs :
    /\ \A x \in unread[r] : news[IdOf[x]] = NoItem
    /\ pc[r] \in {"extract", "activations", "patterns", "news"} =>
         \A x \in fresh[r] : news[IdOf[x]] = NoItem

\* The point of every number run r read holds the last version it was read in.
Latest(rows, r) ==
  \A x \in fresh[r] : \A n \in readings[r][x] :
    rows[<<IdOf[x], n>>] = LastOf(page[r], Sources(r, <<IdOf[x], n>>))

WritesLatest ==
  \A r \in Runs :
    /\ pc[r] \in {"patterns", "news"} => Latest(numberHistory, r)
    /\ pc[r] = "news" => Latest(numberPatterns, r)

AloneInv == FreshIsNew /\ WritesLatest /\ ActivationsDescribeArticle

\* A batch leaves in each point the last version its number was read in, and leaves
\* alone the points of the articles it does not hold.
LEMMA BatchIsLatest ==
  ASSUME TypeOK, NEW r \in Runs, NEW rows,
         \A x \in fresh[r] : news[IdOf[x]] = NoItem
  PROVE  /\ Latest(WithActivations(rows, r), r)
         /\ \A id \in Ids, n \in Numbers :
              news[id] # NoItem => WithActivations(rows, r)[<<id, n>>] = rows[<<id, n>>]
<1>1. ASSUME NEW x \in fresh[r], NEW n \in readings[r][x]
      PROVE  WithActivations(rows, r)[<<IdOf[x], n>>]
               = LastOf(page[r], Sources(r, <<IdOf[x], n>>))
  <2>1. <<IdOf[x], n>> \in Ids \X Numbers
    BY DEF TypeOK
  <2>2. x \in Sources(r, <<IdOf[x], n>>)
    BY DEF Sources
  <2>3. QED
    BY <2>1, <2>2 DEF WithActivations
<1>2. ASSUME NEW id \in Ids, NEW n \in Numbers, news[id] # NoItem
      PROVE  WithActivations(rows, r)[<<id, n>>] = rows[<<id, n>>]
  <2>1. Sources(r, <<id, n>>) = {}
    BY <1>2 DEF Sources
  <2>2. QED
    BY <2>1 DEF WithActivations
<1>3. QED
  BY <1>1, <1>2 DEF Latest

\* The last of a batch is also the last of the items that carry one of its numbers.
LEMMA LastOfSome ==
  ASSUME NEW p \in Pages \cup {<<>>}, NEW S, S \subseteq OnPage(p), NEW T, T \subseteq S,
         LastOf(p, S) \in T
  PROVE  LastOf(p, T) = LastOf(p, S)
<1> DEFINE x == LastOf(p, S)
           y == LastOf(p, T)
<1>1. \A z \in OnPage(p) : Position(p, z) \in Nat /\ p[Position(p, z)] = z
  <2> SUFFICES ASSUME NEW z \in OnPage(p)
               PROVE  Position(p, z) \in Nat /\ p[Position(p, z)] = z
    OBVIOUS
  <2>1. PICK i \in DOMAIN p : p[i] = z
    BY DEF OnPage
  <2>2. p[Position(p, z)] = z
    BY <2>1 DEF Position
  <2>3. QED
    BY <2>2, PositionOnPage
<1>2. x \in S /\ \A z \in S : Position(p, z) <= Position(p, x)
  <2>1. \E m \in S : \A z \in S : Position(p, z) <= Position(p, m)
    BY LastHasPosition
  <2>2. QED
    BY <2>1 DEF LastOf
<1>3. x \in T /\ \A z \in T : Position(p, z) <= Position(p, x)
  BY <1>2
<1>4. y \in T /\ \A z \in T : Position(p, z) <= Position(p, y)
  BY <1>3 DEF LastOf
<1> HIDE DEF x, y
<1>5. Position(p, x) = Position(p, y)
  <2>1. Position(p, x) \in Nat /\ Position(p, y) \in Nat
    BY <1>1, <1>3, <1>4
  <2>2. Position(p, x) <= Position(p, y) /\ Position(p, y) <= Position(p, x)
    BY <1>3, <1>4
  <2>3. QED
    BY <2>1, <2>2
<1>6. p[Position(p, x)] = x /\ p[Position(p, y)] = y
  BY <1>1, <1>3, <1>4
<1>7. QED
  BY <1>5, <1>6 DEF x, y

\* What a run read of its page decides which items carry a number.
LEMMA SourcesUnchanged ==
  ASSUME UNCHANGED local, NEW r \in Runs, NEW k
  PROVE  Sources(r, k)' = Sources(r, k)
<1>1. fresh' = fresh /\ readings' = readings
  BY DEF local
<1>2. ASSUME NEW x
      PROVE  x \in Sources(r, k)' <=> x \in Sources(r, k)
  BY <1>1 DEF Sources
<1>3. QED
  BY <1>2

\* Nor does it change what the latest points are.
LEMMA LatestUnchanged ==
  ASSUME UNCHANGED local, NEW r \in Runs, NEW rows, Latest(rows, r)
  PROVE  \A x \in fresh'[r] : \A n \in readings'[r][x] :
           rows[<<IdOf[x], n>>] = LastOf(page'[r], Sources(r, <<IdOf[x], n>>)')
<1>1. fresh' = fresh /\ readings' = readings /\ page' = page
  BY DEF local
<1>2. SUFFICES ASSUME NEW x \in fresh[r], NEW n \in readings[r][x]
               PROVE  rows[<<IdOf[x], n>>] = LastOf(page[r], Sources(r, <<IdOf[x], n>>)')
  BY <1>1
<1>3. Sources(r, <<IdOf[x], n>>)' = Sources(r, <<IdOf[x], n>>)
  BY SourcesUnchanged
<1>4. QED
  BY <1>3 DEF Latest

\* A step of runs that follow one another keeps what they rely on.
LEMMA AloneStep ==
  ASSUME \A r, s \in Runs : r = s, IInv, AloneInv, [Next]_vars
  PROVE  AloneInv'
<1> USE DEF IInv, AloneInv
<1>1. ASSUME NEW r \in Runs, UpsertNews(r)
      PROVE  AloneInv'
  <2>1. /\ pc[r] = "news" /\ unread[r] = {} /\ pc'[r] = "done"
        /\ UNCHANGED <<numberHistory, numberPatterns, local>>
    BY <1>1 DEF UpsertNews, Advance, After, TypeOK, ReadBeforeWriting
  <2>2. FreshIsNew' /\ WritesLatest'
    BY <2>1 DEF FreshIsNew, WritesLatest, local
  <2>3. ASSUME NEW id \in Ids, news'[id] # NoItem, NEW n \in newsNumbers'[id]
        PROVE  numberHistory[<<id, n>>] = news'[id] /\ numberPatterns[<<id, n>>] = news'[id]
    <3>1. CASE Versions(r, id) = {}
      <4>1. news'[id] = news[id] /\ newsNumbers'[id] = newsNumbers[id]
        BY <1>1, <3>1 DEF UpsertNews
      <4>2. QED
        BY <2>3, <4>1 DEF ActivationsDescribeArticle
    <3>2. CASE Versions(r, id) # {}
      <4> DEFINE x == LastOf(page[r], Versions(r, id))
                 S == Sources(r, <<id, n>>)
      <4>1. news'[id] = x /\ newsNumbers'[id] = readings[r][x]
        BY <1>1, <3>2 DEF UpsertNews
      <4>2. page[r] \in Pages \cup {<<>>} /\ Versions(r, id) \subseteq OnPage(page[r])
        BY DEF TypeOK, Versions, ReadsItsPage
      <4>3. x \in fresh[r] /\ IdOf[x] = id
        BY <3>2, <4>2, LastOfBatch DEF Versions
      <4>4. x \in S /\ S \subseteq Versions(r, id)
        BY <2>3, <4>1, <4>3 DEF Sources, Versions
      <4>5. LastOf(page[r], S) = x
        BY <3>2, <4>2, <4>4, LastOfSome
      <4>6. /\ numberHistory[<<id, n>>] = LastOf(page[r], S)
            /\ numberPatterns[<<id, n>>] = LastOf(page[r], S)
        BY <2>1, <2>3, <4>1, <4>3 DEF WritesLatest, Latest
      <4>7. QED
        BY <4>1, <4>5, <4>6
    <3>3. QED
      BY <3>1, <3>2
  <2>4. QED
    BY <2>1, <2>2, <2>3 DEF ActivationsDescribeArticle
<1>2. ASSUME NEW r \in Runs, RecordActivations(r)
      PROVE  AloneInv'
  <2>1. /\ pc[r] = "activations" /\ pc'[r] = "patterns"
        /\ numberHistory' = WithActivations(numberHistory, r)
        /\ UNCHANGED <<news, newsNumbers, numberPatterns, local>>
    BY <1>2 DEF RecordActivations, Advance, After, TypeOK
  <2>2. /\ Latest(numberHistory', r)
        /\ \A id \in Ids, n \in Numbers :
             news[id] # NoItem => numberHistory'[<<id, n>>] = numberHistory[<<id, n>>]
    BY <2>1, BatchIsLatest DEF FreshIsNew
  <2>3. FreshIsNew'
    BY <2>1 DEF FreshIsNew, local
  <2>4. WritesLatest'
    <3> SUFFICES ASSUME NEW s \in Runs, pc'[s] \in {"patterns", "news"}
                 PROVE  /\ Latest(numberHistory, s)'
                        /\ pc'[s] = "news" => Latest(numberPatterns, s)'
      BY DEF WritesLatest
    <3>1. s = r
      OBVIOUS
    <3>2. PICK rows : rows = numberHistory'
      OBVIOUS
    <3>3. Latest(rows, r)
      BY <2>2, <3>2
    <3>4. Latest(numberHistory, s)'
      BY <2>1, <3>1, <3>2, <3>3, LatestUnchanged DEF Latest
    <3>5. QED
      BY <2>1, <3>1, <3>4
  <2>5. ActivationsDescribeArticle'
    BY <2>1, <2>2 DEF ActivationsDescribeArticle, TypeOK
  <2>6. QED
    BY <2>3, <2>4, <2>5
<1>3. ASSUME NEW r \in Runs, UpsertNumberPatterns(r)
      PROVE  AloneInv'
  <2>1. /\ pc[r] = "patterns" /\ pc'[r] = "news"
        /\ numberPatterns' = WithActivations(numberPatterns, r)
        /\ UNCHANGED <<news, newsNumbers, numberHistory, local>>
    BY <1>3 DEF UpsertNumberPatterns, Advance, After, TypeOK
  <2>2. /\ Latest(numberPatterns', r)
        /\ \A id \in Ids, n \in Numbers :
             news[id] # NoItem => numberPatterns'[<<id, n>>] = numberPatterns[<<id, n>>]
    BY <2>1, BatchIsLatest DEF FreshIsNew
  <2>3. FreshIsNew'
    BY <2>1 DEF FreshIsNew, local
  <2>4. WritesLatest'
    <3> SUFFICES ASSUME NEW s \in Runs, pc'[s] \in {"patterns", "news"}
                 PROVE  /\ Latest(numberHistory, s)'
                        /\ pc'[s] = "news" => Latest(numberPatterns, s)'
      BY DEF WritesLatest
    <3>1. s = r
      OBVIOUS
    <3>2. PICK rows : rows = numberPatterns'
      OBVIOUS
    <3>3. Latest(rows, r)
      BY <2>2, <3>2
    <3>4. Latest(numberPatterns, s)'
      BY <2>1, <3>1, <3>2, <3>3, LatestUnchanged DEF Latest
    <3>5. PICK log : log = numberHistory
      OBVIOUS
    <3>6. Latest(log, r)
      BY <2>1, <3>5 DEF WritesLatest
    <3>7. Latest(numberHistory, s)'
      BY <2>1, <3>1, <3>5, <3>6, LatestUnchanged DEF Latest
    <3>8. QED
      BY <3>4, <3>7
  <2>5. ActivationsDescribeArticle'
    BY <2>1, <2>2 DEF ActivationsDescribeArticle, TypeOK
  <2>6. QED
    BY <2>3, <2>4, <2>5
<1>4. ASSUME NEW r \in Runs, pc'[r] \notin {"patterns", "news"},
             UNCHANGED <<news, newsNumbers, numberHistory, numberPatterns>>, FreshIsNew'
      PROVE  AloneInv'
  BY <1>4 DEF WritesLatest, ActivationsDescribeArticle
<1>5. ASSUME NEW r \in Runs, NEW p \in Pages, Fetch(r, p)
      PROVE  AloneInv'
  <2>1. pc'[r] = "prepare" /\ unread'[r] = {} /\ UNCHANGED store
    BY <1>5 DEF Fetch, TypeOK
  <2>2. FreshIsNew'
    BY <2>1 DEF FreshIsNew
  <2>3. QED
    BY <1>4, <2>1, <2>2 DEF store
<1>6. ASSUME NEW r \in Runs, Check(r)
      PROVE  AloneInv'
  <2>1. /\ pc'[r] = "extract" /\ UNCHANGED store
        /\ \A x \in fresh'[r] \cup unread'[r] : news[IdOf[x]] = NoItem
    BY <1>6 DEF Check, Advance, After, TypeOK
  <2>2. FreshIsNew'
    BY <2>1 DEF FreshIsNew, store
  <2>3. QED
    BY <1>4, <2>1, <2>2 DEF store
<1>7. ASSUME NEW r \in Runs, Extract(r)
      PROVE  AloneInv'
  <2>1. /\ pc[r] = "extract" /\ pc' = pc /\ fresh' = fresh /\ UNCHANGED store
        /\ unread'[r] \subseteq unread[r]
    BY <1>7 DEF Extract, TypeOK
  <2>2. FreshIsNew'
    BY <2>1 DEF FreshIsNew, store
  <2>3. QED
    BY <1>4, <2>1, <2>2 DEF store
<1>8. ASSUME NEW r \in Runs, Prepare(r) \/ Compute(r) \/ Abort(r)
      PROVE  AloneInv'
  <2>1. /\ UNCHANGED <<news, newsNumbers, numberHistory, numberPatterns, local>>
        /\ pc'[r] \in {"check", "activations", "failed"}
        /\ pc'[r] = "activations" => pc[r] = "extract"
    BY <1>8 DEF Prepare, Compute, Abort, Advance, After, TypeOK, store
  <2>2. FreshIsNew'
    BY <2>1 DEF FreshIsNew, local
  <2>3. QED
    BY <1>4, <2>1, <2>2
<1>9. CASE UNCHANGED vars
  <2>1. UNCHANGED <<news, newsNumbers, numberHistory, numberPatterns, pc, local>>
    BY <1>9 DEF vars, store
  <2>2. FreshIsNew' /\ ActivationsDescribeArticle'
    BY <2>1 DEF FreshIsNew, ActivationsDescribeArticle, local
  <2>3. PICK log, rows : log = numberHistory /\ rows = numberPatterns
    OBVIOUS
  <2>4. ASSUME NEW r \in Runs
        PROVE  /\ Latest(log, r) => Latest(numberHistory, r)'
               /\ Latest(rows, r) => Latest(numberPatterns, r)'
    BY <2>1, <2>3, LatestUnchanged DEF Latest
  <2>5. WritesLatest'
    BY <2>1, <2>3, <2>4 DEF WritesLatest
  <2>6. QED
    BY <2>2, <2>5
<1>10. QED
  BY <1>1, <1>2, <1>3, <1>5, <1>6, <1>7, <1>8, <1>9 DEF Next, Step

\* When runs follow one another, the points of a stored article describe the version
\* that is stored, however often they are cut short (record_activations,
\* upsert_number_patterns and upsert_news of one run).
THEOREM PointsDescribeTheirArticle ==
  ASSUME \A r, s \in Runs : r = s
  PROVE  Spec => []ActivationsDescribeArticle
<1>1. Init => AloneInv
  BY DEF Init, AloneInv, FreshIsNew, WritesLatest, ActivationsDescribeArticle
<1>2. IInv /\ AloneInv /\ [Next]_vars => AloneInv'
  BY AloneStep
<1>3. AloneInv => ActivationsDescribeArticle
  BY DEF AloneInv
<1>4. QED
  BY <1>1, <1>2, <1>3, InductiveInvariant, PTL DEF Spec

\* A step of runs that follow one another writes no point of an article that is stored.
LEMMA StoredStays ==
  ASSUME TypeOK, FreshIsNew, [Next]_vars, NEW id \in Ids, news[id] # NoItem
  PROVE  /\ news'[id] = news[id] /\ newsNumbers'[id] = newsNumbers[id]
         /\ \A n \in Numbers :
              /\ numberHistory'[<<id, n>>] = numberHistory[<<id, n>>]
              /\ numberPatterns'[<<id, n>>] = numberPatterns[<<id, n>>]
<1>1. ASSUME NEW r \in Runs, RecordActivations(r) \/ UpsertNumberPatterns(r)
      PROVE  /\ UNCHANGED <<news, newsNumbers>>
             /\ \A n \in Numbers :
                  /\ numberHistory'[<<id, n>>] = numberHistory[<<id, n>>]
                  /\ numberPatterns'[<<id, n>>] = numberPatterns[<<id, n>>]
  <2>1. \A x \in fresh[r] : news[IdOf[x]] = NoItem
    BY <1>1 DEF RecordActivations, UpsertNumberPatterns, FreshIsNew
  <2>2. \A n \in Numbers :
          /\ WithActivations(numberHistory, r)[<<id, n>>] = numberHistory[<<id, n>>]
          /\ WithActivations(numberPatterns, r)[<<id, n>>] = numberPatterns[<<id, n>>]
    BY <2>1, BatchIsLatest
  <2>3. QED
    BY <1>1, <2>2 DEF RecordActivations, UpsertNumberPatterns
<1>2. ASSUME NEW r \in Runs, UpsertNews(r)
      PROVE  /\ news'[id] = news[id] /\ newsNumbers'[id] = newsNumbers[id]
             /\ UNCHANGED <<numberHistory, numberPatterns>>
  <2>1. Versions(r, id) = {}
    BY <1>2 DEF UpsertNews, FreshIsNew, Versions
  <2>2. QED
    BY <1>2, <2>1 DEF UpsertNews
<1>3. ASSUME NEW r \in Runs,
             \/ \E p \in Pages : Fetch(r, p)
             \/ Prepare(r) \/ Check(r) \/ Extract(r) \/ Compute(r) \/ Abort(r)
      PROVE  UNCHANGED <<news, newsNumbers, numberHistory, numberPatterns>>
  BY <1>3 DEF Fetch, Prepare, Check, Extract, Compute, Abort, store
<1>4. CASE UNCHANGED vars
  BY <1>4 DEF vars, store
<1>5. QED
  BY <1>1, <1>2, <1>3, <1>4 DEF Next, Step

\* When runs follow one another, an article that is stored is never read again by the
\* model and no point of it is ever written again (steps.py, ingest: what `news` holds
\* is skipped before its extraction, and the three writes hold only what is left).
THEOREM RepeatedIngestWritesNothing ==
  ASSUME \A r, s \in Runs : r = s
  PROVE  Spec => StoredIsLeftAlone
<1>1. Init => AloneInv
  BY DEF Init, AloneInv, FreshIsNew, WritesLatest, ActivationsDescribeArticle
<1>2. IInv /\ AloneInv /\ [Next]_vars => AloneInv'
  BY AloneStep
<1>3. IInv /\ AloneInv /\ [Next]_vars =>
        [/\ \A r \in Runs : \A x \in unread[r] \ unread'[r] : news[IdOf[x]] = NoItem
         /\ \A id \in Ids : news[id] # NoItem =>
              /\ news'[id] = news[id] /\ newsNumbers'[id] = newsNumbers[id]
              /\ \A n \in Numbers :
                   /\ numberHistory'[<<id, n>>] = numberHistory[<<id, n>>]
                   /\ numberPatterns'[<<id, n>>] = numberPatterns[<<id, n>>]]_vars
  BY StoredStays DEF IInv, AloneInv, FreshIsNew
<1>4. QED
  BY <1>1, <1>2, <1>3, InductiveInvariant, PTL DEF Spec, StoredIsLeftAlone

\* When runs follow one another, what is remembered is final: no step rewrites an
\* article a reader has been told of (steps.py, ingest: what `news` holds is skipped,
\* and one batch writes what is left).
THEOREM IngestImplementsMemoryOnce ==
  ASSUME \A r, s \in Runs : r = s
  PROVE  Spec => ImplementsMemoryOnce
<1>1. Init => Memory!Init /\ AloneInv
  BY DEF Init, Memory!Init, Remembered, AloneInv, FreshIsNew, WritesLatest,
     ActivationsDescribeArticle
<1>2. IInv /\ AloneInv /\ [Next]_vars => AloneInv'
  BY AloneStep
<1>3. ASSUME IInv, IInv', AloneInv, [Next]_vars
      PROVE  [Memory!RememberOnce]_Remembered
  <2>1. ASSUME NEW r \in Runs, UpsertNews(r)
        PROVE  Memory!RememberOnce
    <3> DEFINE S == { id \in Ids : Versions(r, id) # {} }
    <3>1. ASSUME NEW id \in S
          PROVE  Remembered[id] = Unknown
      <4>1. PICK x \in fresh[r] : IdOf[x] = id
        BY DEF Versions
      <4>2. news[id] = NoItem
        BY <1>3, <2>1, <4>1 DEF UpsertNews, AloneInv, FreshIsNew
      <4>3. QED
        BY <4>2 DEF Remembered
    <3>2. Memory!Remember(S)
      BY <1>3, <2>1, UpsertRemembers
    <3> HIDE DEF S
    <3>3. S \in SUBSET { id \in Ids : Remembered[id] = Unknown }
      BY <3>1 DEF S
    <3>4. QED
      BY <3>2, <3>3 DEF Memory!RememberOnce
  <2>2. QED
    BY <1>3, <2>1, OthersRememberNothing
<1>4. QED
  BY <1>1, <1>2, <1>3, InductiveInvariant, PTL
     DEF Spec, ImplementsMemoryOnce, Memory!SpecOnce

-----------------------------------------------------------------------------
(* A run ends *)

\* How many steps a run can still take: its phases, and an extraction for each item
\* it has yet to read.
StepsLeft(r) ==
  IF pc[r] = "prepare" THEN Len(page[r]) + 6
  ELSE IF pc[r] = "check" THEN Len(page[r]) + 5
  ELSE IF pc[r] = "extract" THEN Cardinality(unread[r]) + 4
  ELSE IF pc[r] = "activations" THEN 3
  ELSE IF pc[r] = "patterns" THEN 2
  ELSE IF pc[r] = "news" THEN 1
  ELSE 0

\* It is a number, and it is the resting runs that have none left.
Counted ==
  \A r \in Runs : StepsLeft(r) \in Nat /\ (pc[r] \in Phases <=> StepsLeft(r) > 0)

\* A page has no more items than places.
LEMMA ItemsOfAPage ==
  ASSUME NEW p \in Pages \cup {<<>>}, NEW S \in SUBSET OnPage(p)
  PROVE  /\ Len(p) \in Nat
         /\ IsFiniteSet(S)
         /\ Cardinality(S) \in Nat
         /\ Cardinality(S) <= Len(p)
<1>1. p \in Seq(Items)
  BY PagesAreSequences
<1>2. Len(p) \in Nat /\ DOMAIN p = 1..Len(p)
  BY <1>1
<1>3. p \in Surjection(1..Len(p), OnPage(p))
  <2>1. p \in [1..Len(p) -> OnPage(p)]
    BY <1>1, <1>2 DEF OnPage
  <2>2. \A x \in OnPage(p) : \E i \in 1..Len(p) : p[i] = x
    BY <1>2 DEF OnPage
  <2>3. QED
    BY <2>1, <2>2 DEF Surjection
<1>4. IsFiniteSet(1..Len(p)) /\ Cardinality(1..Len(p)) = Len(p)
  <2>1. Cardinality(1..Len(p)) = IF 1 > Len(p) THEN 0 ELSE Len(p) - 1 + 1
    BY <1>2, FS_Interval
  <2>2. QED
    BY <1>2, <2>1, FS_Interval
<1>5. IsFiniteSet(OnPage(p)) /\ Cardinality(OnPage(p)) <= Len(p)
  BY <1>3, <1>4, FS_Surjection
<1>6. IsFiniteSet(S) /\ Cardinality(S) <= Cardinality(OnPage(p))
  BY <1>5, FS_Subset
<1>7. Cardinality(S) \in Nat /\ Cardinality(OnPage(p)) \in Nat
  BY <1>5, <1>6, FS_CardinalityType
<1>8. Cardinality(S) <= Len(p)
  BY <1>2, <1>5, <1>6, <1>7
<1>9. QED
  BY <1>2, <1>6, <1>7, <1>8

\* A run's unread items are on its page.
LEMMA UnreadIsCounted ==
  ASSUME IInv, NEW r \in Runs
  PROVE  /\ Len(page[r]) \in Nat
         /\ IsFiniteSet(unread[r])
         /\ Cardinality(unread[r]) \in Nat
<1>1. page[r] \in Pages \cup {<<>>} /\ unread[r] \in SUBSET OnPage(page[r])
  BY DEF IInv, TypeOK, ReadsItsPage
<1>2. QED
  BY <1>1, ItemsOfAPage

\* A run's place among the phases fixes whether it has any.
LEMMA StepsAreCounted == IInv => Counted
<1> SUFFICES ASSUME IInv, NEW r \in Runs
             PROVE  StepsLeft(r) \in Nat /\ (pc[r] \in Phases <=> StepsLeft(r) > 0)
  BY DEF Counted
<1>1. Len(page[r]) \in Nat /\ Cardinality(unread[r]) \in Nat
  BY UnreadIsCounted
<1>2. pc[r] \in Phases \cup Resting
  BY DEF IInv, TypeOK
<1>3. QED
  BY <1>1, <1>2 DEF StepsLeft, Phases, Resting

\* Every step of a run takes one of the steps it has left.
LEMMA StepsAreTaken ==
  ASSUME IInv, IInv', NEW r \in Runs, Step(r) \/ Abort(r)
  PROVE  StepsLeft(r)' < StepsLeft(r)
<1> USE DEF Advance, After, local
<1>1. /\ pc \in [Runs -> Phases \cup Resting]
      /\ page \in [Runs -> Pages \cup {<<>>}]
      /\ unread \in [Runs -> SUBSET Items]
  BY DEF IInv, TypeOK
<1>2. Len(page[r]) \in Nat /\ IsFiniteSet(unread[r]) /\ Cardinality(unread[r]) \in Nat
  BY UnreadIsCounted
<1>3. CASE Prepare(r)
  <2>1. pc[r] = "prepare" /\ pc'[r] = "check" /\ page'[r] = page[r]
    BY <1>1, <1>3 DEF Prepare
  <2>2. QED
    BY <1>2, <2>1 DEF StepsLeft
<1>4. CASE Check(r)
  <2>1. pc[r] = "check" /\ pc'[r] = "extract"
    BY <1>1, <1>4 DEF Check
  <2>2. unread'[r] \in SUBSET OnPage(page[r])
    BY <1>1, <1>4 DEF Check
  <2>3. Cardinality(unread'[r]) <= Len(page[r]) /\ Cardinality(unread'[r]) \in Nat
    BY <1>1, <2>2, ItemsOfAPage
  <2>4. StepsLeft(r)' = Cardinality(unread'[r]) + 4
    BY <2>1 DEF StepsLeft
  <2>5. StepsLeft(r) = Len(page[r]) + 5
    BY <2>1 DEF StepsLeft
  <2>6. QED
    BY <1>2, <2>3, <2>4, <2>5
<1>5. CASE Extract(r)
  <2>1. PICK x \in unread[r] : unread' = [unread EXCEPT ![r] = @ \ {x}]
    BY <1>5 DEF Extract
  <2>2. pc[r] = "extract" /\ pc'[r] = "extract" /\ unread'[r] = unread[r] \ {x}
    BY <1>1, <1>5, <2>1 DEF Extract
  <2>3. Cardinality(unread'[r]) = Cardinality(unread[r]) - 1
    <3>1. x \in unread[r]
      OBVIOUS
    <3>2. Cardinality(unread[r] \ {x}) = Cardinality(unread[r]) - 1
      BY <1>2, <3>1, FS_RemoveElement
    <3>3. QED
      BY <2>2, <3>2
  <2>4. StepsLeft(r)' = Cardinality(unread'[r]) + 4
    BY <2>2 DEF StepsLeft
  <2>5. StepsLeft(r) = Cardinality(unread[r]) + 4
    BY <2>2 DEF StepsLeft
  <2>6. QED
    BY <1>2, <2>3, <2>4, <2>5
<1>6. CASE Compute(r)
  <2>1. pc[r] = "extract" /\ pc'[r] = "activations"
    BY <1>1, <1>6 DEF Compute
  <2>2. QED
    BY <1>2, <2>1 DEF StepsLeft
<1>7. CASE RecordActivations(r)
  <2>1. pc[r] = "activations" /\ pc'[r] = "patterns"
    BY <1>1, <1>7 DEF RecordActivations
  <2>2. QED
    BY <2>1 DEF StepsLeft
<1>8. CASE UpsertNumberPatterns(r)
  <2>1. pc[r] = "patterns" /\ pc'[r] = "news"
    BY <1>1, <1>8 DEF UpsertNumberPatterns
  <2>2. QED
    BY <2>1 DEF StepsLeft
<1>9. CASE UpsertNews(r)
  <2>1. pc[r] = "news" /\ pc'[r] = "done"
    BY <1>1, <1>9 DEF UpsertNews
  <2>2. QED
    BY <2>1 DEF StepsLeft
<1>10. CASE Abort(r)
  <2>1. pc[r] \in Phases /\ pc'[r] = "failed"
    BY <1>1, <1>10 DEF Abort
  <2>2. StepsLeft(r)' = 0
    BY <2>1 DEF StepsLeft
  <2>3. StepsLeft(r) \in Nat /\ StepsLeft(r) > 0
    BY <2>1, StepsAreCounted DEF Counted
  <2>4. QED
    BY <2>2, <2>3
<1>11. QED
  BY <1>3, <1>4, <1>5, <1>6, <1>7, <1>8, <1>9, <1>10 DEF Step

\* A run ends after at most Len(page) + 6 steps of its own, however many others there are:
\* each step leaves it fewer, and nothing else gives it more (steps.py, ingest: every
\* item is extracted once, and nothing is tried again).
THEOREM RunsRunOut ==
  Spec => /\ []Counted
          /\ [][\A r \in Runs :
                  /\ Step(r) \/ Abort(r) => StepsLeft(r)' < StepsLeft(r)
                  /\ pc[r] \in Phases => StepsLeft(r)' <= StepsLeft(r)]_vars
<1>1. IInv => Counted
  BY StepsAreCounted
<1>2. IInv' => Counted'
  BY <1>1, PTL
<1>3. ASSUME IInv, IInv', [Next]_vars, NEW r \in Runs, pc[r] \in Phases
      PROVE  StepsLeft(r)' <= StepsLeft(r)
  <2>1. StepsLeft(r) \in Nat /\ StepsLeft(r)' \in Nat
    BY <1>1, <1>2, <1>3 DEF Counted
  <2>2. CASE Step(r) \/ Abort(r)
    BY <1>3, <2>1, <2>2, StepsAreTaken
  <2>3. ASSUME pc'[r] = pc[r], page'[r] = page[r], unread'[r] = unread[r]
        PROVE  StepsLeft(r)' <= StepsLeft(r)
    BY <2>1, <2>3 DEF StepsLeft
  <2>4. ASSUME NEW o \in Runs, o # r, Step(o) \/ Abort(o) \/ \E p \in Pages : Fetch(o, p)
        PROVE  pc'[r] = pc[r] /\ page'[r] = page[r] /\ unread'[r] = unread[r]
    BY <1>3, <2>4 DEF IInv, TypeOK, Step, Abort, Fetch, Prepare, Check, Extract, Compute,
       RecordActivations, UpsertNumberPatterns, UpsertNews, Advance, local
  <2>5. ~ \E p \in Pages : Fetch(r, p)
    BY <1>3 DEF Fetch, Phases, Resting
  <2>6. CASE UNCHANGED vars
    BY <2>3, <2>6 DEF vars, local
  <2>7. QED
    BY <1>3, <2>2, <2>3, <2>4, <2>5, <2>6 DEF Next
<1>4. IInv /\ IInv' /\ [Next]_vars =>
        [\A r \in Runs :
           /\ Step(r) \/ Abort(r) => StepsLeft(r)' < StepsLeft(r)
           /\ pc[r] \in Phases => StepsLeft(r)' <= StepsLeft(r)]_vars
  BY <1>3, StepsAreTaken
<1>5. QED
  BY <1>1, <1>4, InductiveInvariant, PTL DEF Spec

=============================================================================
