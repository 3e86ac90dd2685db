# numenews: a TLA+ verification project

numenews fetches news, reads numbers out of it, keeps what it read in six Qdrant
collections, and asks a language model for patterns, forecasts and digests. It runs as an
MCP server, whose tool calls overlap in one event loop, and as a one-shot command line
program, which may run beside the server against the same Qdrant and the same HTTP cache.
There is no transaction anywhere: every multi-collection write is a sequence of awaited
calls on worker threads, every read-decide-write has an await in the middle, and a process
may die at any of them. The modules here model that. Paths below are relative to
`src/src/numenews/`.

## 1. The system

| Component | State it keeps | Operations | Talks to |
|---|---|---|---|
| ingest (`pipeline/steps.py`) | none of its own; writes `news`, `numbers`, `number_history` | fetch, skip known, extract, compute, three writes | news fetching, extract agent, store |
| analyze, forecast, today (`pipeline/steps.py`, `cli/commands.py`) | writes `patterns`, `forecasts` | today's ingest, cache look-up, window read, patterns, memory read, reading, save; save_pattern of an MCP client | ingest, store, pattern and forecast agents |
| summarize (`pipeline/steps.py`, `pipeline/context.py`) | writes `digests` | ingest, paged read, split at the window, summary, save | ingest, store, summarize agent, clock |
| news fetching (`news/`) | the HTTP cache, a sqlite file | fetch_all over five adapters, retry, merge | origins |
| application context (`mcp/context.py`) | the store, the pipeline, the extract agent, the news client, a lock | four accessors, aclose | tools, commands, worker threads |
| command (`cli/main.py`, `cli/commands.py`) | none | body, cleanup, report | application context |
| collection schemas (`vector/collections.py`) | collections and payload indexes | check, create, index | Qdrant |
| numerology (`numerology/`) | none | reduction, dominant number, resonance, gematria, extraction | |
| reads (`vector/`, `cli/dates.py`) | none | payloads, filters, exact reads, semantic search, the day of an argument | store, embedding |
| embeddings, prompts, models, configuration, logging | none | conversions | |

What is hard about it:

* **Commit order.** An article, its activations and its patterns live in three collections.
  The article's own point is the commit marker of the others, and the only protection
  against a crash is the order of the writes.
* **Stale decisions.** "Already stored" is read before minutes of model calls and used
  after; "not read yet" likewise for a day's forecast; "the collection does not exist"
  likewise for its creation.
* **Reads at different times.** A forecast reads news, then patterns, then history; a range
  is read in pages. Ingest commits between any two of these.
* **Failure.** Sources, the model and the store fail one by one; the model is asked twice,
  an origin three times. Calls are cancelled, threads are not.
* **Boundaries.** Windows include both their days; the dominant number's sentinel is 0; a
  prompt shows a part of what its digest stands for.

What each component has to get right is the list of properties below; `PROJECT.json` lists
each hazard at its line with the properties aimed at it.

## 2. The modules

| Module | Models | Shape |
|---|---|---|
| `ArticleMemory` | what ingest promises a reader | abstract: one variable, articles become known in batches |
| `Ingest` | the ingest step | a machine per run over the three collections |
| `Evidence` | what ingest promises forecast | abstract: batches of activations, then batches of articles that have theirs |
| `Extraction` | the numbers and dates a text states | operators over sequences of characters |
| `Numerology` | the pure arithmetic and gematria | operators and recursive functions |
| `Scroll` | one page of a scrolled read | operators over a set of ids |
| `ReadingRoom` | what forecast promises a reader of the forecasts | abstract: a day is unread or has its reading |
| `Forecast` | forecast and the analyze inside it, today, and the find_patterns and save_pattern tools | a machine per caller beside `Evidence` (by INSTANCE); extends `Numerology`, `Scroll` |
| `Digest` | summarize and the context rule | a machine per caller, a clock, ingest beside it; extends `Scroll` |
| `News` | aggregator, HTTP layer, adapters | a task per fetch and source over a shared cache |
| `AppContext` | the container, the server lifespan, run_command | a machine per call, a lock, worker threads |
| `Schema` | creating and indexing collections | a machine per writer against the server |
| `Reads` | payloads, filters, exact and semantic reads, dates of arguments | operators; extends `Numerology` |
| `IngestProofs`, `ForecastProofs`, `DigestProofs`, `NewsProofs`, `AppContextProofs`, `SchemaProofs`, `ScrollProofs`, `ReadsProofs` | | theorems about the module each extends |
| `MC_*` | | values for the constants of one instance each |

**State and actions.** In every module `pc` is the await a call is suspended at, and an
action is what happens up to the next one. A Qdrant request is one action: it runs on a
worker thread and interleaves with everything else. Local variables of a coroutine are
variables indexed by the call; they are reset where the coroutine leaves. Data is reduced
to what the properties tell apart: articles, texts and numbers are model values; what the
regex pass reads, an article's date and its reduced value are functions given as constants;
what the model answers is a choice.

*Ingest.* `Fetch` is the page a feed answers (a new run), `Prepare` is
create_news_collection, `Check` is get_news_items and the filter, `Extract` reads one
article, `Compute` ends the loop, then `RecordActivations`, `UpsertNumberPatterns`,
`UpsertNews`. `Abort` cuts a run short between any two; a failed write may have created
its collection. A batch with several points of one id keeps the last. `newsNumbers` is the
payload field of the stored article, `numberHistory` and `numberPatterns` remember which
version of the article a point was derived from.

*Forecast.* `Ask` starts a forecast with or without rerun_analysis, or a `today`, which waits
for its ingest (`Ingested`) first; `AskPatterns` starts an analyze on its own. `Lookup`,
`ReadWindow` (once per page, `offset` is where the scroll goes on), `FindPatterns`,
`SavePattern` (once per pattern), `AnalysisStored`, `DayHistory` (once per page) or
`NoHistory` (a window without numbers asks nothing), `BuildForecast` and `SaveForecast`
follow the code; `ModelFails` is one turn of `retrying`; `Interrupt` is an error of the
store or a cancelled call; `SavePatternTool` is the tool by that name, called by a client
with a pattern of its own. Ingest appears as its readers see it: the steps of `Evidence`,
batches of activations and batches of articles that have theirs. Each point holds the version
of the article it was written from, and `DateOf` and `ValueOf` are those of the version:
overlapping ingest runs may replace an article by a version of another day, and leave it beside
an activation whose day is another version's (`steps.py:168-170`), which is the day that
get_activations filters on. `Ingest` is shown to implement `Evidence`, versions included
(`ImplementsEvidence`, checked and proved), so what holds of a forecast beside `Evidence` holds
of one beside any number of ingest runs. The news window ends on the day asked for: forecast has
an argument `today`, which no caller in `src/` passes.
`before` and `disputed` are history variables: the articles of the window that were stored when
the call began to read it, and the articles that were stored on a day and had an activation, or
another version, on another one. The properties need them to say what a paged read may not miss
and what overlapping runs take away.

*Digest.* `Ingested` is the step's own ingest; `ReadPage` is one page of the scroll, ordered
by id; `Split`, `WriteSummary`, `SummaryFails`, `SaveDigest` follow the code. The window ends on
the `today` a caller passes, on any day, or without one on the day of the clock (`WindowEnd`).
`StoreArticle` and `Midnight` happen at any time; the first commits a version of an article over
the one that is stored, as an overlapping run's upsert_news may. `before` is a history variable
as in `Forecast`: what was stored when the read began. So are `ever`, every version that has been
stored, and `horizon`, the latest day that was the current one or ended a window. An article is
`Steady` as long as no second version of it has been stored. Both modules take a page from
`Scroll`.

*News.* `Start` is gather, `Replay` and `Ask` are one attempt from the cache or from the
origin, `Break` a defect in an adapter, `Merge` what follows gather, `Cancel` and `Expire`
the environment. An item is known by its place, the source and the position in its answer:
`Merged` keeps the first place of every identity (`Precedes`) among those of the days asked
for (`InTime`). `Parsed`, `Refuses`, `KeyedByUrl` and `QuotaOn403` hold what the five
adapters differ in.

*AppContext.* `Acquire` takes the lock, `Memoized`, `BuildExtract`, `BuildNews`,
`StartStore`/`StoreBuilt`/`StoreUnreachable`, `StoreKnown` and `Assemble` are the accessors'
branches with the await of each thread in between, `Finish` ends the tool's or the
command's body, `Cancel` and `ThreadEnds` are asyncio's. `CloseStore` and `CloseClient` are
the two halves of aclose, `Report` is the end of run_command.

*Schema.* `Check`, `Create`, `CreateIndex` (once per field) and `Upsert`; `Save` starts a
single collection with a point, `Ensure` all of them without.

*Reads.* A model is a record whose optional fields may be `None`, its payload the record
without them plus what the code adds (master_number, the day as an instant), and the
`*FromPayload` operators are the way back. A filter is a condition on a payload (`Matches`,
`InHistory`), a read an answer computed from the points it is given: rows, or the error
its guards raise (`Answer`). The sorts are the code's stable sorts in the code's order. The
server's ranking is an argument. There is no state here, so there is no machine: the other
modules say when a read happens and which points it meets, this one says what it makes of
them.

Definitions marked *Mutant* in a comment are deliberately wrong variants of the definition
after them; nothing uses them except the mutation list of `PROJECT.json`, which records
that each property notices one.

## 3. The runs

| Run | Question | Instance |
|---|---|---|
| `ingest_one` | Is what is stored final and consistent, and completed after a crash, when runs follow one another? | 1 run at a time, 2 links, one in two versions, 2 numbers, pages empty, mixed, with both versions in both orders, 3 aborts |
| `ingest_two` | Do the commit order and both refinements survive overlap? | 2 runs, 2 pages, 1 abort |
| `ingest_strays` | Are repeated writes overwrites, as the comment says? | violated, see findings |
| `forecast_one` | What does a reading rest on while ingest runs, also when memory is read in pages? | 1 caller with and without today, 2 days, 2 links, one in two versions of different days, 1 number, no patterns, news window 1, memory 2, pages of 1 |
| `forecast_two` | May a stored reading cite a missing pattern, or lose its day, when callers overlap, fail and a client saves patterns? | 2 callers (symmetric), 1 day, 2 patterns, one of them a client's |
| `forecast_same` | Is the returned reading the cached one? | violated, see findings |
| `forecast_discovery` | Does the store keep the first discovered_at? | violated, see findings |
| `digest_calls` | What does a digest stand for? | 1 caller, 3 links in an id order unlike their dates, one in two versions of different day and value, 5 days, `today` not passed, replayed or still to come, pages of 2, window 2, prompt 2 |
| `digest_newest` | Does the prompt show the newest? | violated, see findings |
| `news_fetch` | Is anything lost, hidden, replayed or waited for too long? | fetches one after another over one cache, GDELT beside each of the other four, 5 articles, every failure |
| `appcontext_calls` | One store, one builder, all closed, all through? | 2 calls and 3 store identities, both owners |
| `schema_writers` | Is a collection complete before it is used? Do the reads answer what they say? | 2 writers, 2 collections, one with 2 indexes; the assumptions of `MC_Reads` |

**The bounds.** Two concurrent actors are enough for each of these races: the state actors
share is read once and written once per phase, so a third one can only repeat what the
second does. The proof modules drop that argument. One
link in two versions is the smallest case in which "last of a batch" matters and in which two
overlapping runs can disagree about an article; three aborts
allow one in each write phase of one article's history. Three links with pages of two
give a read a second page, and an article that is committed or replaced before or after the
offset.
`MaxAborts` is the only bound written into an action's guard; store identities in
`AppContext` are finite, and a call that finds none left does not start, which
three identities for two calls keep from hiding a state: `CallsEnd` is about calls that do
wait. Attempts are bounded by the code itself.
`digest_calls` checks `DigestsOnlyGrow` with one caller on purpose: with two, a call that
read earlier may save later, which the code does not claim to prevent. `ingest_one` checks
its properties about runs that follow one another with one run at a time for the same reason.
Pages of one in `forecast_one` make every memory read of two articles a read of two pages,
with an activation recorded before and behind the offset; a memory of two days beside a window
of one makes it read an article the window does not hold. It has no patterns, which
`forecast_two` is about.

**Deadlock.** Checked everywhere but in `appcontext_calls`, where the process really stops:
a command has reported, or the context is closed and every call through.

**Fairness.** Weak fairness of a call's own steps everywhere: an awaited request returns or
raises (Qdrant and httpx have timeouts) and the event loop goes on. Interrupts, crashes,
cache expiry, midnight and other clients are never fair. Two stronger assumptions: in
`AppContext` the lock is strongly fair, because `asyncio.Lock` wakes its waiters in order;
in `ingest_one` each page is fetched again and again (`FeedFairness`), which only
`InterruptedIsCompleted` needs: an article nobody lists any more is not completed by
anybody, and the code does not promise it. `MaxAborts` matters to it as well: a run that is
always cut short completes nothing.

**Reference checks.** The pure functions are compared with a second definition of what
they compute, as assumptions of the MC modules that each of their runs evaluates.
`MC_Forecast`: `ReductionIsDigitalRoot` (the recursive reduction against the closed form
for 1..3000), `ResonancesAreAllPairs` (the pairs against k(k-1)/2 per shared value),
`LettersAreSummed` (gematria against a count of each letter) and `MastersAreCounted`.
`MC_Ingest`: `NumbersAreScanned` (the matches of the pattern against a left-to-right
scanner, all texts up to six characters), `YearsHaveTheirDays` and `BadDatesAreSkipped`
(the calendar, and 29 February without a year).
`MC_Reads`, which `schema_writers` evaluates, compares `Reads` with what its callers rely on:
`PayloadsAreReadBack` (a model survives its payload), `FiltersAskForWholeDays` (both ends of
a range count, to the last second), `WindowsHaveOneOrder` (an answer does not depend on the
order of the points), `FrequencyIsTheHistory` (the counts are those of the history),
`TwoSortsAreOne` (two stable sorts against one order), `ArgumentsComeFirst` (an illegal
argument is reported before a missing collection), `PointsAreFoundByTheirDays` (the id of a
forecast or a digest finds that one and no other), `FusionKeepsTheRanking` (one prefetch fused
alone keeps its order), `IdsKeepTheirOrder` (items come back in the order asked for),
`OffsetsAreDays` (names, dates and offsets are days of the calendar).

## 4. What the checks show

*Ingest.* A stored article has the activation and the pattern of every number it is stored
with (`CommitMarker`), with any overlap and any interruption. To a reader, ingest is an
article memory in which articles appear whole (`ImplementsMemory`), and to a forecast it is
evidence that comes before the articles it belongs to (`ImplementsEvidence`); when runs follow one
another nothing remembered is ever rewritten (`ImplementsMemoryOnce`), the points describe
the version stored (`ActivationsDescribeArticle`), what is stored costs no model call and none
of its points is written again (`StoredIsLeftAlone`), and what a dead run left is completed
(`InterruptedIsCompleted`). An empty page creates and writes nothing, and any other finds the
collection it looks its articles up in (`EmptyPageTouchesNothing`).

*Forecast.* The memory shown to the model is complete for the numbers of the window
although the two are read at different times and the memory page by page
(`EvidenceComplete`): this needs ingest's write order, a memory at least as long as the
window, and pages that go on where the last one ended. It needs one thing more, which the code
does not provide when ingest runs overlap: that the stored version of an article and its
activations agree on its day. An article of which they do not (`disputed`) may be read without
its evidence, and the property leaves it out. Nothing of a later day reaches a
reading, a reading's number is always one of the twelve (a part of `TypeOK`; a day without news
falls back to its own number), and no stored reading cites a pattern that is not stored. To a
reader the forecasts are a reading room (`ImplementsReadingRoom`), also when callers overlap: a day that is read
stays read, is answered from storage whatever was ingested since, and its reading is replaced
only by a call that had looked before the day was read.

*Digest.* A paged read misses nothing that was there when it began and reports no article
twice (`ReadIsComplete`). A digest covers the older part of its range in full, in days and in
numbers (`StandsForTheWholeStretch`), and replacing one loses no number (`DigestsOnlyGrow`). It
is labelled by articles that have been stored (`LabelIsTrue`), and covers no day of the latest
window there has been (`WindowStaysRaw`), which is the current one as long as nobody passes a
`today` that has not come: a caller who does has days of the current window digested, as the code
says it should.
What overlapping ingest runs do to an article they read in two versions is allowed for by name.
Such an article is not `Steady`: a read or a digest may miss the version that was replaced under
it, the label of a digest may name the day and the number of a version the store no longer
holds, and a digest that replaces another may lose a number that only the replaced version gave.

*Runs that follow one another.* Neither exception arises when ingest runs do not overlap: by
`ActivationsDescribeArticle` a stored article and its activations are of one version, and by
`StoredIsLeftAlone` none of them is ever written again, so `disputed` stays empty and every
article is `Steady`. Nothing is lost then, and the labels are true of what the store still
holds. Both facts about ingest are proved. (A run whose caller went away is still under way while
a worker thread is at a request of it.)

*News.* One broken feed costs only its own articles; a defect is raised; a failure is given
up only after the origin itself failed three times, so the cache never replays one; waits
are bounded by 30 seconds per source.

*AppContext.* One store for everybody, built by one call at a time, closed by aclose also
when the pipeline over it was never assembled; nobody waits for ever behind a failed or
cancelled call; a command reports what its body came to.

*Schema.* No point before its indexes, whatever was interrupted; the loser of a creation
race ends with an error and does not hang.

*Reads.* What is written is what is read back, a day asked for is a whole day in every
filter, and no answer depends on the order in which the server stores its points.

**Findings** (runs that are expected to be violated; details in `PROJECT.json`):

1. `ingest_strays`: activations of an interrupted run are not always overwritten by the next
   one, because the model may answer differently. They stay beside the stored article.
2. `forecast_same`: two overlapping calls for an unread day return different readings, one
   of which no later call will return.
3. `forecast_discovery`: a pattern found again gets a new discovered_at.
4. `digest_newest`: a stretch longer than the prompt is shown from its oldest article on.

Disagreements between text and code that were met on the way and have no run:
`models/forecasts.py:15` describes master_active more widely than `pipeline/steps.py:402-403`
computes it (the fallback number of the day does not count); `pipeline/steps.py:372` lists a
CollectionNotFoundError that `_cached_forecast` (:481) folds into None;
`pipeline/pipeline.py:200-201` says `today` defaults to the current day where
`pipeline/steps.py:381` takes the day asked for; `news/items.py:20-22` says that two feeds
reporting one link collapse to one item, which `news/aggregator.py:110` does only for equal
title, source and date (ingest then keeps the last version); `pipeline/pipeline.py:216`
says that None means the range was inside the window, and a single older article gives None
as well (`pipeline/context.py:98`); `numerology/extraction.py:73` says ASCII digits where
the pattern is `\d+`. A 200 whose envelope reports an error is cached for its whole
time to live (`news/http.py:196`), which `GivenUpFirstHand` leaves out on purpose: such an
answer is not retryable. The save_pattern tool accepts a `discovered_at` without a zone;
`read_patterns` then compares it with one that has a zone and raises TypeError, where
`vector/patterns.py:47-48` says that the epoch keeps the ordering total. The module docstring
of `cli/dates.py` says that a history read takes its day from the pipeline's clock, but the
history command passes no `today`, so `get_history` takes the wall clock. A second `today` on
one day ingests what is new and answers the reading saved before
(`cli/commands.py:39-41` says it is built from what is actually in the store). An offset that
leaves the calendar raises OverflowError from `parse_day` where every other bad
argument is a BadParameter (`cli/dates.py:44-46`), and so does the filter of a range
ending on the calendar's last day.

## 5. What is proved

Eight proof modules are checked by TLAPS for every value of the constants that meets the
named assumptions of the modules.

*Ingest.* `CommitMarker` is not inductive: `UpsertNews` establishes it only because the run
wrote the evidence before. The invariant is

    IInv == TypeOK /\ ReadsItsPage /\ ReadBeforeWriting /\ ReadsWhatIsStated
              /\ EvidenceFirst /\ StoredStates /\ CommitMarker

What a run still has to read is on its page (`ReadsItsPage`) and is nothing any more when
it writes (`ReadBeforeWriting`); a reading contains what the text states
(`ReadsWhatIsStated`); a run past a write finds that write in the store (`EvidenceFirst`);
a stored version sits under its own id with what its text states (`StoredStates`). Points
are never deleted, so what one run wrote survives every
step of another: that is the monotonicity that carries the invariant over interleavings,
and the reason the overlap is harmless. The lemmas `LastOfBatch`, `BatchOfActivations` and
`BatchOfArticles` say what a batched upsert with repeated ids leaves. From the invariant follow

* `TypeCorrectness`: `Spec => []TypeOK`,
* `CommitMarkerHolds`: `Spec => []CommitMarker`,
* `IngestImplementsMemory`: `Spec => ImplementsMemory`; `StepRefines` maps `UpsertNews` to
  a batch of articles becoming known (`UpsertRemembers`) and every other step to a stutter
  (`OthersRememberNothing`). `RememberedIsStored` is the step that makes the mapping simple:
  since the evidence of a stored article is complete, the mapping's filter keeps all of its
  numbers,
* `NewsIsPrepared` and `EmptyPageIsHarmless`: a run with something on its page has the
  `news` collection in each of its steps, and a run without finds nothing fresh and so nothing to
  write: `Spec => EmptyPageTouchesNothing`,
* `IngestImplementsEvidence`: `Spec => ImplementsEvidence`. `RecordShows` and `UpsertShows` are
  the two steps a forecast can see; every other is a stutter or `PrepareNews`. That a batch of
  articles carries numbers whose activations are there is `CommitMarker` after the step.

Three results are about runs that follow one another, and have the hypothesis
`\A r, s \in Runs : r = s`: what `ingest_one` assumes by its constants. Their invariant is
`AloneInv`: what a run found fresh is stored by nobody (`FreshIsNew`), the points it wrote hold
the last version its page has of each number (`WritesLatest`), and
`ActivationsDescribeArticle`. With them come `PointsDescribeTheirArticle`,
`RepeatedIngestWritesNothing` and `IngestImplementsMemoryOnce`: what is remembered is final. The
hypothesis is needed: with two runs all three fail, as two runs may read one link in two
versions.

*Schema.* The invariant is `TypeOK`, `Declared` (the collection in a writer's hand exists
once it indexes, and has the fields before the writer's position), `LeftBehind` (collections an
ensure call has passed are complete) and `IndexedBeforePoints`. The server only grows
(`ServerGrows`), so nothing a writer relies on is taken back. From it follow
`TypeCorrectness`, `PointsAreIndexed` and the action property `EnsureCompletes`.

*Paged reads.* `ScrollProofs` holds what `Digest` and `Forecast` need of a page, for every set
of points and page size: `PageLeavesNothing` says that what is left and lies before the next
offset is on the page, and that a page without a next offset takes all; `PageComesFirst` that
what is on the page lies before the next offset, so that an article replaced meanwhile is not met
again. It rests on
`LeastExists`, by well-foundedness of the order. `ScrollAdvances` says that the ids ahead of a
scroll become fewer with every page, whatever is written in between.

*Forecast.* None of the safety properties is inductive alone. The invariant adds
`EvidenceFirst` (what `Evidence` keeps: a stored number has its activation, of the day of the
stored version unless the article is disputed, and what is stored has its collection),
`OnlyForecastsWrite` (an analyze on its own never reaches the
readings) and, per call, `HoldsNothing` (a call that has read nothing holds nothing),
`HasRead` (what lies before the offset of either read and is not disputed has been read),
`ReadsItsWindow` (what it read is of its window and its numbers are still in the history, on a
day of the window unless disputed) and `SavesWhatItFound` (what it
need not save any more is stored). The history and the saved patterns only grow (`StoreGrows`),
so a call that is left alone keeps its part (`SameStaysOK`) and only the acting call has to be
looked at (`ActingStaysOK`). `DominantIsReduced` is the lemma behind `AlwaysANumber`: the
vote over a finite family has a winner, shown by well-foundedness of the distance to a bound.
From the invariant follow `TypeCorrectness`, `CitedAreStored`, `NothingFromLaterDays` and, under
the hypothesis `WindowDays <= HistoryDays`, `EvidenceIsComplete`; the hypothesis is what the
pipeline's defaults (7 and 30 days) meet and nothing in the code enforces. Ingest runs may overlap
in it and replace what the call reads; it promises nothing of the articles in `disputed`, which
the code cannot promise either, and everything of the others.
`ForecastImplementsReadingRoom` maps the look-up to finding a day read or unread, the save
to writing it and every other step to a visitor who comes, goes or stutters; it needs
the invariant to know that a call that saves is one that composes.

*Digest.* The invariant says what the store keeps although articles are replaced (`NewsAreKept`:
an id stays stored, in a version that has been stored) and what a paged read has behind it
(`HasRead`: everything steady that was stored when it began and lies before its offset), that it
holds versions of its range that have been stored (`Holds`), one of an article (`ReadOnce`, as
the scroll does not come back), and that its window ends on a day up to the `horizon` (`IsDue`).
`ReadLeavesNothing` and `PeriodOfStretch` are the lemmas about a page and about the first and
last day of a stretch, over `LeastExists` and `GreatestExists`. They assume that there are
finitely many ids (uuid5) so that a stretch has a last day. From the invariant follow
`PagedReadIsComplete`, `WindowIsNotDigested`, `LabelsAreTrue` and the action property
`StandsForAll`, for any `today` and any replacement. Two theorems say what becomes of the
exceptions when their cause is away: `CurrentWindowIsNotDigested` has the hypothesis that no
call passes a `today` after the first day, and then nothing of the current window is digested;
`LabelsStayTrue` says that as long as every article is steady, a digest's first and last day and
its numbers are those of articles the store still holds. For calls that follow one another
(`\A c, o \in Callers : c = o`), `ReplacedDigestsGrow` proves `DigestsOnlyGrow`: a digest's
numbers are `Witnessed` by articles that were stored before the call under way began to read,
and whatever replaces the digest has the same first and last day, so it was written of all of
them that are steady (`SaveKeepsNumbers`). Ingest runs may overlap in all of them.

*News.* The invariant says that only successes are cached (`CacheHoldsAnswers`), that a task
still on its way made every attempt at the origin and waited at most 15 seconds for each
(`OnItsWay`), that a failure worth retrying was asked for three times (`GivenUp`), and that a
result is the merge of what its tasks ended with (`MergeOK`). `AttemptEnds` is the lemma about
one attempt, `WaitIsClamped` the one about Retry-After, `FirstOfKey` the one about the merge:
among places of one identity exactly the first stays. From it follow `TypeCorrectness`,
`MergeLosesNothing`, `DefectsAreRaised`, `FailuresAreFirstHand` and `WaitsAreBounded`, for any
number of overlapping fetches, sources and articles.

*AppContext.* The invariant ties the lock to the accessor that holds it (`Exclusive`), a
thread to the call that waits for it (`Builds`), the pipeline and whatever is in use to the
memoized store (`Shared`), the open connections to that store (`Connected`) and a report to
the one body of a command (`OneBody`). From it follow `AccessorsAreExclusive`,
`CallsShareOneStore`, `UsedStoreIsOpen`, `ClosedIsClosed` and `ReportsAreTrue`.

*Running out of steps.* Liveness needs fairness, which the prover cannot handle, but the part
of it that depends on data is a safety property and is proved: `StepsLeft` counts the steps an
actor may still take, `Counted` says that it is a natural number and positive exactly while the
actor is under way, every step of the actor lowers it, and no step of anybody else raises it.
`RunsRunOut` (ingest: `Len(page) + 6`), `CallsRunOut` (forecast: the ids, activation points and
patterns plus `2 * ATTEMPTS + 7`; summarize: the ids plus `ATTEMPTS + 4`; application context:
5), `TasksRunOut` (a source: `RETRY_ATTEMPTS`) and `WritersRunOut` (schema: per collection the
indexes and 2, plus 1) state it. The order of the summands is the argument: a page of a scroll
takes an id that was ahead (`ScrollAdvances`), a turn of `retrying` an attempt, a saved pattern
one of those found. For `Forecast` this needs `FiniteAssumption`, finitely many pattern ids and
activation points, which are uuid5. What the runs add is that the next step is possible and,
under fairness, taken.

*Numerology and reads.* No invariant here: `ReadsProofs` is about operators and recursive
functions. The reduction calls itself on smaller numbers only (`DigitSumReduces`); what every
call computes is shown by the least number for which it would fail, as there is one below every
failure (`LeastExists`), since a proof by induction over an operator is out of reach.
`ReductionIsADigitalRoot` says that the reduction of every positive number is one of the twelve
and congruent to it modulo 9; `DatesAreReduced`, `ResonanceIsASharedValue`, `TextsAreReduced`
and `DominantIsTheMode` what the callers make of it: 0 stays free to say "none". A payload is
read back as the model that was written for all five models (`NewsIsReadBack`,
`ActivationIsReadBack`, `PatternIsReadBack`, `ForecastIsReadBack`, `DigestIsReadBack`; `IsModel`
says only which fields there are, and days are integers), a filter asks for whole days although
it compares instants (`FiltersAreInclusiveInDays`, over `DaysAreRestored`), and asks the
payloads what one would ask the articles (`FiltersAskTheArticles`); `OffsetsStayInTheCalendar`
says when a `--date` offset raises. A stable sort is reasoned about through the places it gives
to the elements: for every order they are the numbers 1..n, each once (`PlacesAreTaken`), so the
sort is a permutation (`SortingPermutes`). `NewsComeOldestFirst`, `HistoryComesNewestFirst` and
`PatternsComeStrongestFirst` apply that to the three sorted reads: each answers all it found,
every row once, in the order its docstring names, whatever order the store scrolls; the two
sorts of `read_patterns` are one order by strength, time and id, and what its limit leaves out
never comes before what it keeps. That the points found are a list 1..n is a hypothesis of the
three, because `SelectSeq` is defined by recursion. `NoneAssumption` (an unset field is no
number) is the only assumption used.

Only model-checked: liveness itself (`RunsEnd`, `InterruptedIsCompleted`, `CallsEnd` of three
modules, `FetchEnds`, `WritersEnd`), because fairness and ENABLED are out of the prover's reach;
that the sum of a text's letters is what `GematriaSimple` folds, which points `SelectSeq` selects
for a read and what `Extraction` finds, all of which would need induction over sequences. Every
invariant and every action property of the passing runs, and each of the four refinements, is
also a theorem.

## 6. What is not modelled

Embeddings, the embedded texts, the wording of prompts and the construction of models, the
declaration of command line options, printing, the models' validators, configuration, logging
and timings: no state, or no state a property here could be about. The server's ranking of a
semantic search is an argument of `Reads`, and a filter ends before the calendar's last day.
`extract_symbols` has no caller that
passes a watchlist, and the date patterns appear as their matches.
Credential handling in the cache is modelled as far as it decides what may be stored.
`PROJECT.json` names the reason per component. Qdrant is modelled by how the code uses it:
an upsert is atomic per request and visible when it returns (`wait=True`), a scroll is
ordered by id, a collection is created once.

## 7. The plan

Done, in this order: ingest with its abstract memory and proofs; forecast and analyze with
numerology; digest; news; application context; schemas with proofs; the proofs about forecast,
digest and the application context; the paged reads of both windows, today and the client's
save_pattern in `Forecast`, with the reading room it implements; the proofs about news; the
theorems about runs and calls that follow one another; the reads; the evidence that composes
`Ingest` with `Forecast`; the theorems about the numerology, the reads and their order; the
bounds on the steps of every actor.

What could come next:

1. Two contexts (server and command) over one store as one module, composing `AppContext` with
   `Schema`; today each is checked beside an arbitrary environment.
2. `Digest` beside `Evidence`, as `Forecast` is, in place of its own `StoreArticle`, which
   replaces what is stored as freely.
