------------------------------ MODULE Forecast ------------------------------
(***************************************************************************)
(* The forecast step and the analyze step inside it (pipeline/steps.py),   *)
(* with the stores they read (`news`, `number_history`) and write          *)
(* (`patterns`, `forecasts`).                                              *)
(*                                                                         *)
(* A call answers from `forecasts` when the day is already read.           *)
(* Otherwise it reads the window's news, derives and saves the window's    *)
(* patterns one by one, reads the memory of the numbers the news carries,  *)
(* asks the model for the reading and saves it under its day.  Both reads  *)
(* scroll page by page.  Calls overlap (the MCP server serves them         *)
(* concurrently, the CLI is another process), ingest commits articles      *)
(* between any two of their requests, in the steps of Evidence, which      *)
(* Ingest implements, and clients save patterns of their own.  Ingest runs *)
(* overlap, so an article may be replaced by a version of another day and  *)
(* stand beside activations of a version it is not.  The `today` command   *)
(* is an ingest followed by a forecast call.  The news window ends on the  *)
(* day asked for: no caller in src/ passes `today`.                        *)
(***************************************************************************)
EXTENDS Numerology, Scroll

CONSTANTS
  Callers,       \* concurrent forecast calls
  Days,          \* the calendar days in play
  Ids,           \* news ids, in the order the store scrolls them
  Items,         \* article versions, as Evidence has them
  IdOf,          \* Items -> Ids
  NoItem,        \* no point is stored
  Numbers,       \* numbers an article can be stored with
  DateOf,        \* Items -> Days: the day a version says it was published
  ValueOf,       \* Items -> its reduced value, 0 when it has none
  PointOf,       \* (id, number) -> the id of the activation's point
  DayNumber,     \* Days -> reduce_date of the day
  PatternIds,    \* ids of the patterns the model can report
  Links,         \* PatternIds -> SUBSET Ids: the items a pattern connects
  ClientPatterns, \* patterns that clients save with the save_pattern tool
  Texts,         \* the prose the model can write
  WindowDays,    \* length of the news window
  HistoryDays,   \* length of the memory window
  PageSize,      \* how many points one page of a read holds
  NoReading      \* no reading is stored for the day

ATTEMPTS == 2

\* uuid5 leaves finitely many ids; an offset of 0 stands for None.
ASSUME IdsAssumption == Ids \subseteq Nat \ {0} /\ IsFiniteSet(Ids)
ASSUME PointAssumption ==
  /\ PointOf \in [Ids \X Numbers -> Nat \ {0}]
  /\ \A j, k \in Ids \X Numbers : PointOf[j] = PointOf[k] => j = k
ASSUME FiniteAssumption ==
  IsFiniteSet({ PointOf[k] : k \in Ids \X Numbers }) /\ IsFiniteSet(PatternIds)
ASSUME DaysAssumption == Days \subseteq Nat
ASSUME ItemsAssumption == IdOf \in [Items -> Ids] /\ NoItem \notin Items
ASSUME DateAssumption == DateOf \in [Items -> Days]
ASSUME ValueAssumption == ValueOf \in [Items -> ReducedNumbers \cup {0}]
ASSUME DayNumberAssumption == DayNumber \in [Days -> ReducedNumbers]
ASSUME LinksAssumption == Links \in [PatternIds -> SUBSET Ids]
ASSUME ClientAssumption == ClientPatterns \subseteq PatternIds
ASSUME WindowAssumption ==
  WindowDays \in Nat \ {0} /\ HistoryDays \in Nat \ {0} /\ PageSize \in Nat \ {0}

Collections == {"news", "number_history", "patterns", "forecasts"}

Readings == [dominant : ReducedNumbers, master : BOOLEAN,
             patterns : SUBSET PatternIds, text : Texts]

ASSUME NoReadingAssumption == NoReading \notin Readings

VARIABLES
  collections,   \* the collections that exist
  news,          \* id -> the version stored in `news`
  newsNumbers,   \* id -> the numbers it is stored with
  numberHistory, \* (id, number) -> the version that activation was read in
  patterns,      \* pattern id -> whose time its point carries: no save, the
                 \* first save or a later one
  forecasts,     \* day -> the reading stored for it
  pc,            \* caller -> where the call is
  day,           \* caller -> the day asked for
  want,          \* caller -> forecast, forecast with rerun_analysis=False, today or
                 \* analyze
  offset,        \* caller -> the point the next page of its read starts at
  items,         \* caller -> the articles of the window, as far as they are read
  carries,       \* caller -> (id, number) of those articles, as read
  found,         \* caller -> the patterns the analysis returned
  unsaved,       \* caller -> those not saved yet
  memory,        \* caller -> (version, number): the activations shown to the model
  attempts,      \* caller -> failed model runs of the current step
  result,        \* caller -> the reading the call returned
  before,        \* history: caller -> the ids of the window that were stored when
                 \* its read began
  disputed       \* history: ids of articles that were stored on a day and had an
                 \* activation, or another version, on another day

ingest  == <<news, newsNumbers, numberHistory, disputed>>
store   == <<collections, ingest, patterns, forecasts>>
request == <<day, want>>
locals  == <<offset, items, carries, found, unsaved, memory, attempts, result, before>>
vars    == <<store, pc, request, locals>>

Wants == {"forecast", "forecast_only", "today", "analyze"}

Active  == {"ingest", "lookup", "window", "find", "save", "history", "write", "store"}
Resting == {"idle", "returned", "retry_error", "store_error"}

-----------------------------------------------------------------------------
(* Windows and readings *)

\* The published days a window of n days ending on `end` covers.  Mutant: the
\* upper bound lets the following day in.
CoversTomorrow(end, n, d) == end - (n - 1) <= d /\ d <= end + 1

Covers(end, n, d) == end - (n - 1) <= d /\ d < end + 1

\* The days of the memory read.
Remembers(end, n, d) == end - (n - 1) <= d /\ d < end + 1

InWindow(c, x) == Covers(day[c], WindowDays, DateOf[x])

NumbersOf(c) == { k[2] : k \in carries[c] }

\* The items of the window that vote, with their values.
VotingValues(c) == [x \in { y \in items[c] : ValueOf[y] # 0 } |-> ValueOf[x]]

\* The number the reading rests on.  Mutant: no fallback for a day without news.
ReadingNumberNoFallback(c) == DominantNumber(VotingValues(c))

ReadingNumber(c) ==
  IF DominantNumber(VotingValues(c)) # 0
  THEN DominantNumber(VotingValues(c))
  ELSE DayNumber[day[c]]

\* The facts of a reading are given, the prose is the model's.
ReadingOf(c, text) ==
  [dominant |-> ReadingNumber(c),
   master   |-> IsMaster(DominantNumber(VotingValues(c))),
   patterns |-> found[c],
   text     |-> text]

-----------------------------------------------------------------------------
Init ==
  /\ collections = {}
  /\ news = [id \in Ids |-> NoItem]
  /\ newsNumbers = [id \in Ids |-> {}]
  /\ numberHistory = [k \in Ids \X Numbers |-> NoItem]
  /\ patterns = [p \in PatternIds |-> "absent"]
  /\ forecasts = [d \in Days |-> NoReading]
  /\ pc = [c \in Callers |-> "idle"]
  /\ day \in [Callers -> Days]
  /\ want = [c \in Callers |-> "forecast"]
  /\ offset = [c \in Callers |-> 0]
  /\ items = [c \in Callers |-> {}]
  /\ carries = [c \in Callers |-> {}]
  /\ found = [c \in Callers |-> {}]
  /\ unsaved = [c \in Callers |-> {}]
  /\ memory = [c \in Callers |-> {}]
  /\ attempts = [c \in Callers |-> 0]
  /\ result = [c \in Callers |-> NoReading]
  /\ before = [c \in Callers |-> {}]
  /\ disputed = {}

Goto(c, phase) == pc' = [pc EXCEPT ![c] = phase]

\* The call leaves with r: its locals go out of scope.
Leave(c, phase, r) ==
  /\ Goto(c, phase)
  /\ offset' = [offset EXCEPT ![c] = 0]
  /\ before' = [before EXCEPT ![c] = {}]
  /\ items' = [items EXCEPT ![c] = {}]
  /\ carries' = [carries EXCEPT ![c] = {}]
  /\ found' = [found EXCEPT ![c] = {}]
  /\ unsaved' = [unsaved EXCEPT ![c] = {}]
  /\ memory' = [memory EXCEPT ![c] = {}]
  /\ attempts' = [attempts EXCEPT ![c] = 0]
  /\ result' = [result EXCEPT ![c] = r]

\* read_news_range: the ids of the window's articles, and what is left of them.
WindowNews(c) == { id \in Ids : news[id] # NoItem /\ InWindow(c, news[id]) }

NewsLeft(c) == { id \in WindowNews(c) : id >= offset[c] }

\* get_activations: the rows of the memory window, and what is left of them.  A row
\* has the day of the version it was read in.
WindowActivations(c) ==
  { k \in Ids \X Numbers :
      /\ numberHistory[k] # NoItem
      /\ Remembers(day[c], HistoryDays, DateOf[numberHistory[k]]) }

HistoryLeft(c) == { PointOf[k] : k \in WindowActivations(c) } \ 0..(offset[c] - 1)

\* Where the next page starts.  Mutant: the memory read stops after a page.
NewsOffset(c) == Continuation(NewsLeft(c), PageSize)

HistoryOffsetOnePage(c) == 0

HistoryOffset(c) == Continuation(HistoryLeft(c), PageSize)

\* --- Ingest, as its readers see it ---------------------------------------

Ingest == INSTANCE Evidence

\* A stored article is left with an activation of another day, or it or an activation
\* of it changes its day.
Disputes(id) ==
  /\ news'[id] # NoItem
  /\ \/ \E n \in newsNumbers'[id] : DateOf[numberHistory'[<<id, n>>]] # DateOf[news'[id]]
     \/ /\ news[id] # NoItem
        /\ \/ DateOf[news'[id]] # DateOf[news[id]]
           \/ \E n \in Numbers :
                /\ numberHistory[<<id, n>>] # NoItem
                /\ DateOf[numberHistory'[<<id, n>>]] # DateOf[numberHistory[<<id, n>>]]

\* Ingest commits between any two requests of a call, as it is shown to.
IngestStep ==
  /\ Ingest!Next
  /\ disputed' = disputed \cup { id \in Ids : Disputes(id) }
  /\ UNCHANGED <<patterns, forecasts, pc, request, locals>>

\* --- Clients ---------------------------------------------------------------

\* The save_pattern tool: the client's point replaces the one stored.  It may carry
\* the time that was read back from the store, and without one it is stamped anew;
\* a save that fails may have created the collection.
SavePatternTool(p) ==
  /\ \E point \in {patterns[p], IF patterns[p] = "absent" THEN "first" ELSE "later"} :
       patterns' = [patterns EXCEPT ![p] = point]
  /\ collections' = collections \cup {"patterns"}
  /\ UNCHANGED <<ingest, forecasts, pc, request, locals>>

\* --- The forecast call ----------------------------------------------------

\* A forecast is asked for; the today command ingests the window's news first.
Ask(c, d, w) ==
  /\ pc[c] \in Resting
  /\ Goto(c, IF w = "today" THEN "ingest" ELSE "lookup")
  /\ day' = [day EXCEPT ![c] = d]
  /\ want' = [want EXCEPT ![c] = w]
  /\ result' = [result EXCEPT ![c] = NoReading]
  /\ UNCHANGED <<store, offset, items, carries, found, unsaved, memory, attempts, before>>

\* The today command's own ingest returned: what it stored is among what ingest
\* has stored by now.
Ingested(c) ==
  /\ pc[c] = "ingest"
  /\ Goto(c, "lookup")
  /\ UNCHANGED <<store, request, locals>>

\* analyze on its own, over ids a search returned (the find_patterns tool):
\* get_news_items skips the ids it does not know and needs the collection.
AskPatterns(c, ids) ==
  /\ pc[c] \in Resting
  /\ Goto(c, IF ids # {} /\ "news" \notin collections THEN "store_error" ELSE "find")
  /\ want' = [want EXCEPT ![c] = "analyze"]
  /\ items' = [items EXCEPT ![c] = { news[id] : id \in ids } \ {NoItem}]
  /\ result' = [result EXCEPT ![c] = NoReading]
  /\ UNCHANGED <<store, day, offset, carries, found, unsaved, memory, attempts, before>>

\* _cached_forecast: a missing collection means that nothing was read yet.
\* Mutant: the stored reading is not looked for.
LookupMisses(c) ==
  /\ pc[c] = "lookup"
  /\ Goto(c, "window")
  /\ UNCHANGED <<store, request, locals>>

Lookup(c) ==
  /\ pc[c] = "lookup"
  /\ IF "forecasts" \in collections /\ forecasts[day[c]] # NoReading
       THEN Leave(c, "returned", forecasts[day[c]])
       ELSE /\ Goto(c, "window")
            /\ before' = [before EXCEPT ![c] = WindowNews(c)]
            /\ UNCHANGED <<offset, items, carries, found, unsaved, memory, attempts, result>>
  /\ UNCHANGED <<store, request>>

\* _window_items, a page: articles published in the window, with their numbers.
\* Without the collection there is nothing to read.
ReadWindow(c) ==
  /\ pc[c] = "window"
  /\ items' = [items EXCEPT ![c] = @ \cup { news[id] : id \in Page(NewsLeft(c), PageSize) }]
  /\ carries' = [carries EXCEPT ![c] = @ \cup
       { k \in Ids \X Numbers :
           k[1] \in Page(NewsLeft(c), PageSize) /\ k[2] \in newsNumbers[k[1]] }]
  /\ offset' = [offset EXCEPT ![c] = NewsOffset(c)]
  /\ Goto(c, IF NewsOffset(c) # 0 THEN "window"
             ELSE IF want[c] = "forecast_only" THEN "history" ELSE "find")
  /\ UNCHANGED <<store, request, found, unsaved, memory, attempts, result, before>>

\* analyze, `find`: the pattern agent over the window.  Ids it was not shown are
\* dropped from a report before its id is derived, and a report that is left
\* without an item is dropped, so an empty window finds nothing.
FindPatterns(c) ==
  /\ pc[c] = "find"
  /\ \E report \in SUBSET { p \in PatternIds :
                       Links[p] # {} /\ Links[p] \subseteq { IdOf[x] : x \in items[c] } } :
       /\ found' = [found EXCEPT ![c] = report]
       /\ unsaved' = [unsaved EXCEPT ![c] = report]
  /\ attempts' = [attempts EXCEPT ![c] = 0]
  /\ Goto(c, "save")
  /\ UNCHANGED <<store, request, offset, items, carries, memory, result, before>>

\* A model run that failed is repeated until ATTEMPTS are used up.
\* Mutants: the failures start over; there is one attempt too many.
ModelFailsForever(c) ==
  /\ \/ pc[c] = "find" /\ items[c] # {}
     \/ pc[c] = "write"
  /\ attempts' = [attempts EXCEPT ![c] = (@ + 1) % ATTEMPTS]
  /\ UNCHANGED <<store, pc, request, offset, items, carries, found, unsaved, memory, result,
                 before>>

ModelFailsTwiceRetried(c) ==
  /\ \/ pc[c] = "find" /\ items[c] # {}
     \/ pc[c] = "write"
  /\ IF attempts[c] = ATTEMPTS
       THEN Leave(c, "retry_error", NoReading)
       ELSE /\ attempts' = [attempts EXCEPT ![c] = @ + 1]
            /\ UNCHANGED <<pc, offset, items, carries, found, unsaved, memory, result, before>>
  /\ UNCHANGED <<store, request>>

ModelFails(c) ==
  /\ \/ pc[c] = "find" /\ items[c] # {}
     \/ pc[c] = "write"
  /\ IF attempts[c] + 1 = ATTEMPTS
       THEN Leave(c, "retry_error", NoReading)
       ELSE /\ attempts' = [attempts EXCEPT ![c] = @ + 1]
            /\ UNCHANGED <<pc, offset, items, carries, found, unsaved, memory, result, before>>
  /\ UNCHANGED <<store, request>>

\* analyze, `store`: save_pattern stamps the pattern and overwrites its point.
\* Mutant: only the first pattern of the report is saved.
SaveOnePattern(c) ==
  /\ pc[c] = "save"
  /\ \E p \in unsaved[c] :
       /\ patterns' = [patterns EXCEPT ![p] = IF @ = "absent" THEN "first" ELSE "later"]
       /\ unsaved' = [unsaved EXCEPT ![c] = {}]
  /\ collections' = collections \cup {"patterns"}
  /\ UNCHANGED <<ingest, forecasts, pc, request, offset, items, carries, found, memory, attempts,
                 result, before>>

SavePattern(c) ==
  /\ pc[c] = "save"
  /\ \E p \in unsaved[c] :
       /\ patterns' = [patterns EXCEPT ![p] = IF @ = "absent" THEN "first" ELSE "later"]
       /\ unsaved' = [unsaved EXCEPT ![c] = @ \ {p}]
  /\ collections' = collections \cup {"patterns"}
  /\ UNCHANGED <<ingest, forecasts, pc, request, offset, items, carries, found, memory, attempts,
                 result, before>>

AnalysisStored(c) ==
  /\ pc[c] = "save"
  /\ unsaved[c] = {}
  /\ IF want[c] = "analyze"
       THEN Leave(c, "returned", NoReading)
       ELSE Goto(c, "history") /\ UNCHANGED locals
  /\ UNCHANGED <<store, request>>

\* _day_history, when it asks nothing: the window's items carry no number, or the
\* history was never created.
NoHistory(c) ==
  /\ pc[c] = "history"
  /\ NumbersOf(c) = {} \/ "number_history" \notin collections
  /\ Goto(c, "write")
  /\ UNCHANGED <<store, request, locals>>

\* _day_history, a page: the activations, over the memory window, of the numbers
\* the window's items carry.
DayHistory(c) ==
  /\ pc[c] = "history"
  /\ NumbersOf(c) # {} /\ "number_history" \in collections
  /\ memory' = [memory EXCEPT ![c] = @ \cup
       { <<numberHistory[k], k[2]>> : k \in { j \in WindowActivations(c) :
           PointOf[j] \in Page(HistoryLeft(c), PageSize) /\ j[2] \in NumbersOf(c) } }]
  /\ offset' = [offset EXCEPT ![c] = HistoryOffset(c)]
  /\ Goto(c, IF HistoryOffset(c) # 0 THEN "history" ELSE "write")
  /\ UNCHANGED <<store, request, items, carries, found, unsaved, attempts, result, before>>

\* The forecast agent writes the reading.
BuildForecast(c) ==
  /\ pc[c] = "write"
  /\ \E text \in Texts : result' = [result EXCEPT ![c] = ReadingOf(c, text)]
  /\ attempts' = [attempts EXCEPT ![c] = 0]
  /\ Goto(c, "store")
  /\ UNCHANGED <<store, request, offset, items, carries, found, unsaved, memory, before>>

\* save_forecast: one point per day, and the reading is returned.
SaveForecast(c) ==
  /\ pc[c] = "store"
  /\ forecasts' = [forecasts EXCEPT ![day[c]] = result[c]]
  /\ collections' = collections \cup {"forecasts"}
  /\ Leave(c, "returned", result[c])
  /\ UNCHANGED <<ingest, patterns, request>>

\* A store call raises, or the caller goes away.  A failed save may have created
\* its collection (the embedder runs after that).
Interrupt(c) ==
  /\ pc[c] \in Active
  /\ Leave(c, "store_error", NoReading)
  /\ \/ UNCHANGED collections
     \/ /\ pc[c] = "save" /\ unsaved[c] # {}
        /\ collections' = collections \cup {"patterns"}
     \/ /\ pc[c] = "store"
        /\ collections' = collections \cup {"forecasts"}
  /\ UNCHANGED <<ingest, patterns, forecasts, request>>

CallStep(c) ==
  \/ Ingested(c)
  \/ Lookup(c)
  \/ ReadWindow(c)
  \/ FindPatterns(c)
  \/ ModelFails(c)
  \/ SavePattern(c)
  \/ AnalysisStored(c)
  \/ NoHistory(c)
  \/ DayHistory(c)
  \/ BuildForecast(c)
  \/ SaveForecast(c)

Next ==
  \/ IngestStep
  \/ \E p \in ClientPatterns : SavePatternTool(p)
  \/ \E c \in Callers :
       \/ \E d \in Days, w \in Wants \ {"analyze"} : Ask(c, d, w)
       \/ \E ids \in SUBSET Ids : AskPatterns(c, ids)
       \/ CallStep(c)
       \/ Interrupt(c)

Spec == Init /\ [][Next]_vars

\* Awaited calls return, with a value or an error.
FairCalls == Spec /\ \A c \in Callers : WF_vars(CallStep(c))

-----------------------------------------------------------------------------
(* Properties *)

TypeOK ==
  /\ collections \subseteq Collections
  /\ news \in [Ids -> Items \cup {NoItem}]
  /\ newsNumbers \in [Ids -> SUBSET Numbers]
  /\ numberHistory \in [Ids \X Numbers -> Items \cup {NoItem}]
  /\ patterns \in [PatternIds -> {"absent", "first", "later"}]
  /\ forecasts \in [Days -> Readings \cup {NoReading}]
  /\ pc \in [Callers -> Active \cup Resting]
  /\ day \in [Callers -> Days]
  /\ want \in [Callers -> Wants]
  /\ offset \in [Callers -> Nat]
  /\ items \in [Callers -> SUBSET Items]
  /\ carries \in [Callers -> SUBSET (Ids \X Numbers)]
  /\ found \in [Callers -> SUBSET PatternIds]
  /\ unsaved \in [Callers -> SUBSET PatternIds]
  /\ memory \in [Callers -> SUBSET (Items \X Numbers)]
  /\ attempts \in [Callers -> 0..(ATTEMPTS - 1)]
  /\ result \in [Callers -> Readings \cup {NoReading}]
  /\ before \in [Callers -> SUBSET Ids]
  /\ disputed \subseteq Ids

\* The evidence of a reading is complete.  Every article that the window held when the
\* read began is among its items, and the memory shown to the model holds an
\* activation of every number of every one of them, although both are read page by
\* page, at different times, and overlapping ingest runs commit and replace articles
\* and activations in between (forecast, "the window of news"; _day_history, "evidence
\* for this reading").  What is not promised, and not kept, is the evidence of an
\* article whose versions disagree on its day: its activation may lie outside the
\* window.  No article of ingest runs that follow one another is disputed.  The memory
\* window is at least as long as the news window.
EvidenceComplete ==
  \A c \in Callers : pc[c] \in {"write", "store"} =>
    /\ \A id \in before[c] \ disputed : \E x \in items[c] : IdOf[x] = id
    /\ \A k \in carries[c] : k[1] \notin disputed =>
         \E a \in memory[c] : IdOf[a[1]] = k[1] /\ a[2] = k[2]

\* A reading is built from the window of the day it is stored under: no article
\* and no activation of a later day reaches it.
NothingFromTheFuture ==
  \A c \in Callers : want[c] # "analyze" =>
    /\ \A x \in items[c] : DateOf[x] <= day[c]
    /\ \A a \in memory[c] : DateOf[a[1]] <= day[c]

\* A stored reading cites no pattern the store does not hold, although patterns
\* are saved one at a time and a call may end between two of them.
CitedPatternsStored ==
  \A d \in Days :
    forecasts[d] # NoReading =>
      \A p \in forecasts[d].patterns : patterns[p] # "absent"

\* A reading always has a number to rest on (forecast, "a day with no news").
RestsOnANumber ==
  \A d \in Days : forecasts[d] # NoReading => forecasts[d].dominant \in ReducedNumbers

\* How a reader of the readings sees a call: the lookup is the moment the day is
\* found read or unread, the save is the moment its reading is written.
Phase(c) ==
  CASE want[c] = "analyze" -> "away"
    [] want[c] # "analyze" /\ pc[c] \in {"ingest", "lookup"} -> "asked"
    [] want[c] # "analyze" /\ pc[c] \in Active \ {"ingest", "lookup"} -> "composing"
    [] want[c] # "analyze" /\ pc[c] = "returned" -> "served"
    [] OTHER -> "away"

Room ==
  INSTANCE ReadingRoom WITH
    book <- forecasts,
    phase <- [c \in Callers |-> Phase(c)],
    answer <- [c \in Callers |-> IF Phase(c) = "served" THEN result[c] ELSE NoReading]

\* To whoever asks for readings, calls are visits to a reading room: a day that is
\* read is answered from storage whatever was ingested or found since, and its
\* reading is only ever replaced by a call that looked before the day was read
\* (forecast, "A day that is already stored short-circuits everything").
ImplementsReadingRoom == Room!Spec

\* A call ends, with a reading or an error.
CallsEnd == \A c \in Callers : pc[c] \in Active ~> pc[c] \in Resting

\* What the step's docstring says it returns: the reading as stored, the same
\* object a later call returns from the cache.
ReturnedIsCached ==
  \A c \in Callers :
    pc[c] = "returned" /\ want[c] # "analyze" => result[c] = forecasts[day[c]]

\* What pattern_id's docstring says of discovered_at: the store keeps the first.
FirstDiscoveryKept ==
  [][\A p \in PatternIds : patterns[p] = "first" => patterns'[p] = "first"]_patterns
=============================================================================
