------------------------------- MODULE Ingest -------------------------------
(***************************************************************************)
(* The ingest step (pipeline/steps.py: ingest) over the three collections  *)
(* it writes: `news`, `numbers` and `number_history`.                      *)
(*                                                                         *)
(* A run fetches a page, drops the articles `news` already holds, reads    *)
(* the numbers of each remaining one with the model and the regex pass,    *)
(* and writes activations, patterns and articles, in that order: the       *)
(* article's own point is the commit marker of everything derived from it. *)
(* Every Qdrant call is awaited on a worker thread, so runs interleave     *)
(* between calls; a run may be killed, cancelled or refused by the store   *)
(* between any two of them, and nothing it held in memory survives.        *)
(***************************************************************************)
EXTENDS Naturals, Sequences

CONSTANTS
  Runs,        \* ingest runs that may be active at the same time
  Ids,         \* news ids: uuid5 of the article's link
  Items,       \* article versions; two feeds may report one link differently
  Numbers,     \* the numbers an article can state
  IdOf,        \* Items -> Ids
  Stated,      \* Items -> SUBSET Numbers: what the regex pass reads
  Answers,     \* the sets of numbers the model may answer for an item
  Pages,       \* the pages a fetch may return
  NoItem,      \* no point is stored
  MaxAborts    \* bound: how many runs may be cut short

Distinct(p) == \A i, j \in DOMAIN p : p[i] = p[j] => i = j

ASSUME IdsAssumption == IdOf \in [Items -> Ids]
ASSUME StatedAssumption == Stated \in [Items -> SUBSET Numbers]
ASSUME AnswersAssumption == Answers \subseteq SUBSET Numbers
ASSUME PagesAssumption == \A p \in Pages : p \in Seq(Items) /\ Distinct(p)
ASSUME NoItemAssumption == NoItem \notin Items
ASSUME MaxAbortsAssumption == MaxAborts \in Nat

VARIABLES
  collections,     \* the collections that exist in Qdrant
  news,            \* id -> the version stored in `news`
  newsNumbers,     \* id -> the numbers of the stored version
  numberHistory,   \* (id, number) -> the version that activation was read in
  numberPatterns,  \* (id, number) -> the version that context was read in
  pc,              \* run -> where it is
  page,            \* run -> the fetched items, in feed order
  fresh,           \* run -> the items `news` did not hold when it looked
  unread,          \* run -> the fresh items still to be extracted
  readings,        \* run -> item -> the numbers read in it
  aborts           \* how many runs were cut short so far

store == <<collections, news, newsNumbers, numberHistory, numberPatterns>>
local == <<page, fresh, unread, readings>>
vars  == <<store, pc, local, aborts>>

Phases  == {"prepare", "check", "extract", "activations", "patterns", "news"}
Resting == {"idle", "done", "failed"}

-----------------------------------------------------------------------------
(* Helpers *)

OnPage(p) == { p[i] : i \in DOMAIN p }

Position(p, x) == CHOOSE i \in DOMAIN p : p[i] = x

\* Among the items S of page p, the one a batched upsert leaves in the point
\* they share: the last.
LastOf(p, S) ==
  CHOOSE x \in S : \A y \in S : Position(p, y) <= Position(p, x)

FirstOf(p, S) ==
  CHOOSE x \in S : \A y \in S : Position(p, x) <= Position(p, y)

\* The phase that follows a phase.  Mutants: the article is committed first; the
\* article is not written at all.
AfterNoArticle(phase) ==
  CASE phase = "prepare"     -> "check"
    [] phase = "check"       -> "extract"
    [] phase = "extract"     -> "activations"
    [] phase = "activations" -> "patterns"
    [] phase = "patterns"    -> "done"
    [] phase = "news"        -> "done"

AfterCommitFirst(phase) ==
  CASE phase = "prepare"     -> "check"
    [] phase = "check"       -> "extract"
    [] phase = "extract"     -> "news"
    [] phase = "news"        -> "activations"
    [] phase = "activations" -> "patterns"
    [] phase = "patterns"    -> "done"

After(phase) ==
  CASE phase = "prepare"     -> "check"
    [] phase = "check"       -> "extract"
    [] phase = "extract"     -> "activations"
    [] phase = "activations" -> "patterns"
    [] phase = "patterns"    -> "news"
    [] phase = "news"        -> "done"

\* The items of run r that carry an activation of number k[2] for article k[1].
Sources(r, k) == { x \in fresh[r] : IdOf[x] = k[1] /\ k[2] \in readings[r][x] }

HasActivations(r) == \E x \in fresh[r] : readings[r][x] # {}

\* The rows after run r upserts one point per (article, number) pair it read.
\* Mutant: the first item of a shared link wins.
WithActivationsFirstWins(rows, r) ==
  [k \in Ids \X Numbers |->
     IF Sources(r, k) = {} THEN rows[k] ELSE FirstOf(page[r], Sources(r, k))]

WithActivations(rows, r) ==
  [k \in Ids \X Numbers |->
     IF Sources(r, k) = {} THEN rows[k] ELSE LastOf(page[r], Sources(r, k))]

Versions(r, id) == { x \in fresh[r] : IdOf[x] = id }

-----------------------------------------------------------------------------
Init ==
  /\ collections = {}
  /\ news = [id \in Ids |-> NoItem]
  /\ newsNumbers = [id \in Ids |-> {}]
  /\ numberHistory = [k \in Ids \X Numbers |-> NoItem]
  /\ numberPatterns = [k \in Ids \X Numbers |-> NoItem]
  /\ pc = [r \in Runs |-> "idle"]
  /\ page = [r \in Runs |-> <<>>]
  /\ fresh = [r \in Runs |-> {}]
  /\ unread = [r \in Runs |-> {}]
  /\ readings = [r \in Runs |-> [x \in Items |-> {}]]
  /\ aborts = 0

\* The phase of run r is over.
Advance(r) == pc' = [pc EXCEPT ![r] = After(pc[r])]

\* The `news` step: a run starts from nothing but what a feed answers.
Fetch(r, p) ==
  /\ pc[r] \in Resting
  /\ pc' = [pc EXCEPT ![r] = "prepare"]
  /\ page' = [page EXCEPT ![r] = p]
  /\ fresh' = [fresh EXCEPT ![r] = {}]
  /\ unread' = [unread EXCEPT ![r] = {}]
  /\ readings' = [readings EXCEPT ![r] = [x \in Items |-> {}]]
  /\ UNCHANGED <<store, aborts>>

\* An empty page touches the store not at all; any other makes sure `news` exists.
\* Mutant: the check is left to find no collection on a first run.
PrepareNothing(r) ==
  /\ pc[r] = "prepare"
  /\ Advance(r)
  /\ UNCHANGED <<store, local, aborts>>

Prepare(r) ==
  /\ pc[r] = "prepare"
  /\ collections' = IF page[r] = <<>> THEN collections ELSE collections \cup {"news"}
  /\ Advance(r)
  /\ UNCHANGED <<news, newsNumbers, numberHistory, numberPatterns, local, aborts>>

\* get_news_items over the page's ids: what is stored is skipped before its
\* extraction.  Mutants: nothing is skipped; the
\* ids are kept where the items are meant.
CheckKeepsIds(r) ==
  /\ pc[r] = "check"
  /\ fresh' = [fresh EXCEPT ![r] = { IdOf[x] : x \in OnPage(page[r]) }]
  /\ unread' = [unread EXCEPT ![r] = {}]
  /\ Advance(r)
  /\ UNCHANGED <<store, page, readings, aborts>>

CheckSkipsNothing(r) ==
  /\ pc[r] = "check"
  /\ fresh' = [fresh EXCEPT ![r] = OnPage(page[r])]
  /\ unread' = [unread EXCEPT ![r] = OnPage(page[r])]
  /\ Advance(r)
  /\ UNCHANGED <<store, page, readings, aborts>>

Check(r) ==
  /\ pc[r] = "check"
  /\ fresh' = [fresh EXCEPT ![r] = { x \in OnPage(page[r]) : news[IdOf[x]] = NoItem }]
  /\ unread' = [unread EXCEPT ![r] = { x \in OnPage(page[r]) : news[IdOf[x]] = NoItem }]
  /\ Advance(r)
  /\ UNCHANGED <<store, page, readings, aborts>>

\* One item is read, in page order: the model's numbers and the regex pass's.
\* A failed model run leaves the regex pass alone, which is the empty answer.
\* Mutants: the model's answer replaces what the text states; the item stays to
\* be read.
ExtractStaysUnread(r) ==
  /\ pc[r] = "extract"
  /\ \E x \in unread[r] :
       /\ \A y \in unread[r] : Position(page[r], x) <= Position(page[r], y)
       /\ \E answer \in Answers \cup {{}} :
            readings' = [readings EXCEPT ![r][x] = answer \cup Stated[x]]
  /\ UNCHANGED <<store, pc, page, fresh, unread, aborts>>

ExtractModelOnly(r) ==
  /\ pc[r] = "extract"
  /\ \E x \in unread[r] :
       /\ \A y \in unread[r] : Position(page[r], x) <= Position(page[r], y)
       /\ unread' = [unread EXCEPT ![r] = @ \ {x}]
       /\ \E answer \in Answers :
            readings' = [readings EXCEPT ![r][x] = answer]
  /\ UNCHANGED <<store, pc, page, fresh, aborts>>

Extract(r) ==
  /\ pc[r] = "extract"
  /\ \E x \in unread[r] :
       /\ \A y \in unread[r] : Position(page[r], x) <= Position(page[r], y)
       /\ unread' = [unread EXCEPT ![r] = @ \ {x}]
       /\ \E answer \in Answers \cup {{}} :
            readings' = [readings EXCEPT ![r][x] = answer \cup Stated[x]]
  /\ UNCHANGED <<store, pc, page, fresh, aborts>>

\* Every fresh item is read and its activations are computed.
Compute(r) ==
  /\ pc[r] = "extract"
  /\ unread[r] = {}
  /\ Advance(r)
  /\ UNCHANGED <<store, local, aborts>>

\* record_activations: the exact log, one batch.
RecordActivations(r) ==
  /\ pc[r] = "activations"
  /\ collections' = IF HasActivations(r) THEN collections \cup {"number_history"} ELSE collections
  /\ numberHistory' = WithActivations(numberHistory, r)
  /\ Advance(r)
  /\ UNCHANGED <<news, newsNumbers, numberPatterns, local, aborts>>

\* upsert_number_patterns: the semantic index over the same pairs.
UpsertNumberPatterns(r) ==
  /\ pc[r] = "patterns"
  /\ collections' = IF HasActivations(r) THEN collections \cup {"numbers"} ELSE collections
  /\ numberPatterns' = WithActivations(numberPatterns, r)
  /\ Advance(r)
  /\ UNCHANGED <<news, newsNumbers, numberHistory, local, aborts>>

\* upsert_news: the commit marker of everything above.
UpsertNews(r) ==
  /\ pc[r] = "news"
  /\ collections' = IF fresh[r] = {} THEN collections ELSE collections \cup {"news"}
  /\ news' = [id \in Ids |->
       IF Versions(r, id) = {} THEN news[id] ELSE LastOf(page[r], Versions(r, id))]
  /\ newsNumbers' = [id \in Ids |->
       IF Versions(r, id) = {} THEN newsNumbers[id]
       ELSE readings[r][LastOf(page[r], Versions(r, id))]]
  /\ Advance(r)
  /\ UNCHANGED <<numberHistory, numberPatterns, local, aborts>>

\* The run ends early: an exception, a cancellation or a kill.  A failed write
\* may have created its collection already (the embedder runs after that).
Abort(r) ==
  /\ pc[r] \in Phases
  /\ aborts < MaxAborts
  /\ aborts' = aborts + 1
  /\ pc' = [pc EXCEPT ![r] = "failed"]
  /\ \/ UNCHANGED collections
     \/ /\ pc[r] = "prepare" /\ page[r] # <<>>
        /\ collections' = collections \cup {"news"}
     \/ /\ pc[r] = "activations" /\ HasActivations(r)
        /\ collections' = collections \cup {"number_history"}
     \/ /\ pc[r] = "patterns" /\ HasActivations(r)
        /\ collections' = collections \cup {"numbers"}
  /\ UNCHANGED <<news, newsNumbers, numberHistory, numberPatterns, local>>

\* Everything a run does by itself once it has its page.
Step(r) ==
  \/ Prepare(r)
  \/ Check(r)
  \/ Extract(r)
  \/ Compute(r)
  \/ RecordActivations(r)
  \/ UpsertNumberPatterns(r)
  \/ UpsertNews(r)

Next ==
  \E r \in Runs :
    \/ \E p \in Pages : Fetch(r, p)
    \/ Step(r)
    \/ Abort(r)

Spec == Init /\ [][Next]_vars

\* Awaited calls return: a run that is not cut short keeps going.
RunFairness == \A r \in Runs : WF_vars(Step(r))

\* The operator keeps running the command and the feeds keep listing each page.
FeedFairness == \A r \in Runs, p \in Pages : SF_vars(Fetch(r, p))

FairFeed == Spec /\ RunFairness /\ FeedFairness

-----------------------------------------------------------------------------
(* Properties *)

TypeOK ==
  /\ collections \subseteq {"news", "numbers", "number_history"}
  /\ news \in [Ids -> Items \cup {NoItem}]
  /\ newsNumbers \in [Ids -> SUBSET Numbers]
  /\ numberHistory \in [Ids \X Numbers -> Items \cup {NoItem}]
  /\ numberPatterns \in [Ids \X Numbers -> Items \cup {NoItem}]
  /\ pc \in [Runs -> Phases \cup Resting]
  /\ page \in [Runs -> Pages \cup {<<>>}]
  /\ fresh \in [Runs -> SUBSET Items]
  /\ unread \in [Runs -> SUBSET Items]
  /\ readings \in [Runs -> [Items -> SUBSET Numbers]]
  /\ aborts \in 0..MaxAborts

\* An article is stored only once its activations and its patterns are
\* (steps.py, ingest): a stored article has both points of every number it is
\* stored with, whatever overlapped it and wherever runs were cut short.
CommitMarker ==
  \A id \in Ids :
    news[id] # NoItem =>
      \A n \in newsNumbers[id] :
        /\ numberHistory[<<id, n>>] # NoItem
        /\ numberPatterns[<<id, n>>] # NoItem

\* When runs follow one another, the points of a stored article describe the
\* version that is stored: same day, same context, same reduced value.
ActivationsDescribeArticle ==
  \A id \in Ids :
    news[id] # NoItem =>
      \A n \in newsNumbers[id] :
        /\ numberHistory[<<id, n>>] = news[id]
        /\ numberPatterns[<<id, n>>] = news[id]

\* The collection is there when it is asked, and only then made (ingest, "a first run
\* has none yet"; "an empty page touches the store not at all"): a run with something
\* on its page never looks it up in a missing `news`, and no step of a run whose page
\* is empty, a failed one included, creates or writes anything.
EmptyPageTouchesNothing ==
  [][\A r \in Runs : pc[r] \in Phases /\ pc'[r] # pc[r] =>
       IF page[r] = <<>> THEN UNCHANGED store
       ELSE pc[r] = "check" => "news" \in collections]_vars

\* A repeated ingest costs no model call and writes nothing: what is read is not
\* stored, and no point of a stored article is written again, in any of the three
\* collections and at any later time.  Holds of runs that follow one another.
StoredIsLeftAlone ==
  [][/\ \A r \in Runs : \A x \in unread[r] \ unread'[r] : news[IdOf[x]] = NoItem
     /\ \A id \in Ids : news[id] # NoItem =>
          /\ news'[id] = news[id] /\ newsNumbers'[id] = newsNumbers[id]
          /\ \A n \in Numbers :
               /\ numberHistory'[<<id, n>>] = numberHistory[<<id, n>>]
               /\ numberPatterns'[<<id, n>>] = numberPatterns[<<id, n>>]]_vars

\* A run that is not cut short ends, with the store written or an error raised.
RunsEnd == \A r \in Runs : pc[r] \in Phases ~> pc[r] \in Resting

\* An interrupted run leaves work the next ingest completes: activations written
\* for an article are followed by the article itself.
InterruptedIsCompleted ==
  \A id \in Ids :
    (\E n \in Numbers : numberHistory[<<id, n>>] # NoItem) ~> news[id] # NoItem

\* What steps.py says of the writes an interrupted run got through: the next
\* ingest repeats them as idempotent overwrites, so that with no run under way a
\* stored article has no activation of a number it is not stored with.
RepeatedWritesOverwrite ==
  (\A r \in Runs : pc[r] \in {"idle", "done"}) =>
    \A id \in Ids, n \in Numbers :
      news[id] # NoItem /\ numberHistory[<<id, n>>] # NoItem => n \in newsNumbers[id]

-----------------------------------------------------------------------------
(* What a reader is told: the stored version with the numbers whose evidence is *)
(* in both number collections.                                                  *)

Unknown == [item |-> NoItem, numbers |-> {}]

Remembered ==
  [id \in Ids |->
     IF news[id] = NoItem THEN Unknown
     ELSE [item |-> news[id],
           numbers |-> { n \in newsNumbers[id] :
                           /\ numberHistory[<<id, n>>] # NoItem
                           /\ numberPatterns[<<id, n>>] # NoItem }]]

Memory == INSTANCE ArticleMemory WITH memory <- Remembered

\* Ingest implements the article memory, whatever the number of runs.
ImplementsMemory == Memory!Spec

\* Runs that follow one another never rewrite what is remembered.
ImplementsMemoryOnce == Memory!SpecOnce

-----------------------------------------------------------------------------
(* What the two collections that `forecast` reads show of the runs that write them. *)

Readers == INSTANCE Evidence WITH
  collections <- collections \cap {"news", "number_history"}

\* To `forecast`, ingest is batches of activations and batches of articles that have
\* theirs: how many runs there are, how they overlap and where they stop is not seen.
ImplementsEvidence == Readers!Spec
=============================================================================
