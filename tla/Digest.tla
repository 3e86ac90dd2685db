------------------------------- MODULE Digest -------------------------------
(***************************************************************************)
(* The summarize step (pipeline/steps.py) and the context rule it applies  *)
(* (pipeline/context.py): a range is ingested, read back page by page,     *)
(* split at the window, and everything older becomes one digest, stored    *)
(* under the period it covers.                                             *)
(*                                                                         *)
(* Ingest runs commit articles between any two pages of the read and, as   *)
(* they overlap, replace an article by a version of another day and value; *)
(* midnight moves the window, a caller that replays a day names the last   *)
(* day of the window itself, and calls for one range overlap.  The prose   *)
(* of a digest is represented by the articles the model was shown.         *)
(***************************************************************************)
EXTENDS Integers, FiniteSets, FiniteSetsExt, Sequences, SequencesExt, Scroll

CONSTANTS
  Callers,       \* concurrent summarize calls
  Ids,           \* news ids, in the order the store scrolls them
  Items,         \* article versions; two feeds may report one link differently
  IdOf,          \* Items -> Ids
  NoItem,        \* no point is stored
  Days,          \* the calendar days in play
  DateOf,        \* Items -> Days
  ValueOf,       \* Items -> its reduced value, 0 when it has none
  Todays,        \* what callers pass as `today`: days, NoDay among them
  NoDay,         \* no day is passed
  FirstDay,      \* the current day when the system starts
  WindowDays,    \* length of the window
  SummaryLimit,  \* how many articles one prompt shows
  PageSize,      \* how many points one page of the read holds
  NoDigest       \* no digest is stored for the period

ATTEMPTS == 2

\* uuid5 leaves finitely many ids.
ASSUME IdsAssumption == Ids \subseteq Nat /\ IsFiniteSet(Ids)
ASSUME DaysAssumption == Days \subseteq Nat /\ FirstDay \in Days
ASSUME ItemsAssumption == IdOf \in [Items -> Ids] /\ NoItem \notin Items
ASSUME DateAssumption == DateOf \in [Items -> Days]
ASSUME ValueAssumption == ValueOf \in [Items -> Nat]
ASSUME TodayAssumption == NoDay \notin Days /\ Todays \subseteq Days \cup {NoDay}
ASSUME LimitAssumption ==
  WindowDays \in Nat \ {0} /\ SummaryLimit \in Nat \ {0} /\ PageSize \in Nat \ {0}

Periods == { p \in Days \X Days : p[1] <= p[2] }

Digests == [numbers : SUBSET Nat, shown : SUBSET Items]

ASSUME NoDigestAssumption == NoDigest \notin Digests

VARIABLES
  news,       \* id -> the version stored in `news`
  clock,      \* the current UTC day
  digests,    \* period -> the digest stored under it
  pc,         \* caller -> where the call is
  range,      \* caller -> the range asked for
  end,        \* caller -> the day passed as `today`, then the last day of its window
  offset,     \* caller -> the id the next page starts at
  read,       \* caller -> the articles read so far
  attempts,   \* caller -> failed model runs
  before,     \* history: caller -> the articles of its range that were stored when
              \* its read began
  ever,       \* history: the versions that have been stored
  horizon     \* history: the latest day that was the current one or ended a window

history == <<ever, horizon>>
store   == <<news, clock, digests>>
locals  == <<range, end, offset, read, attempts, before>>
vars    == <<store, pc, locals, history>>

Active  == {"ingest", "page", "split", "write", "store"}
Resting == {"idle", "digest", "none", "retry_error", "store_error"}

-----------------------------------------------------------------------------
(* The window and the split *)

InRange(p, x) == p[1] <= DateOf[x] /\ DateOf[x] <= p[2]

WindowStart(last) == last - (WindowDays - 1)

\* The articles before the window.  Mutant: the first day of the window too.
IsOlderToday(last, x) == DateOf[x] <= WindowStart(last)

IsOlder(last, x) == DateOf[x] < WindowStart(last)

Older(c) == { x \in read[c] : IsOlder(end[c], x) }

\* Oldest first; a read is ordered by date and then by id.
Before(x, y) == DateOf[x] < DateOf[y] \/ (DateOf[x] = DateOf[y] /\ IdOf[x] < IdOf[y])

\* What the model is shown: the head of the list.
Shown(c) ==
  { x \in Older(c) : Cardinality({ y \in Older(c) : Before(y, x) }) < SummaryLimit }

\* The period of a set of articles: its first and its last day.
\* Mutants: of the shown articles; the range that was asked for.
PeriodShown(c) == <<Min({ DateOf[x] : x \in Shown(c) }), Max({ DateOf[x] : x \in Shown(c) })>>

PeriodOfRange(c) == range[c]

Period(c) == <<Min({ DateOf[x] : x \in Older(c) }), Max({ DateOf[x] : x \in Older(c) })>>

\* What the period was read under: the values of the whole stretch (without any,
\* digest_of takes the shown ones', which has none either).
\* Mutant: of the shown articles.
NumbersShown(c) == { ValueOf[x] : x \in Shown(c) } \ {0}

NumbersOf(c) == { ValueOf[x] : x \in Older(c) } \ {0}

\* The articles of a range, by their ids.
Within(p) == { id \in Ids : news[id] # NoItem /\ InRange(p, news[id]) }

\* A page of the scroll: the first PageSize matching articles from the offset on.
Matching(c) == { id \in Within(range[c]) : id >= offset[c] }

OnPage(c) == Page(Matching(c), PageSize)

\* Mutant: the read stops after a page.
OffsetAfterOnePage(c) == 0

OffsetAfter(c) == Continuation(Matching(c), PageSize)

\* "Summarise" of one article is the article.
TooFew(c) == Cardinality(Shown(c)) < 2

-----------------------------------------------------------------------------
Init ==
  /\ news = [id \in Ids |-> NoItem]
  /\ clock = FirstDay
  /\ digests = [p \in Periods |-> NoDigest]
  /\ pc = [c \in Callers |-> "idle"]
  /\ range \in [Callers -> Periods]
  /\ end = [c \in Callers |-> FirstDay]
  /\ offset = [c \in Callers |-> 0]
  /\ read = [c \in Callers |-> {}]
  /\ attempts = [c \in Callers |-> 0]
  /\ before = [c \in Callers |-> {}]
  /\ ever = {}
  /\ horizon = FirstDay

Goto(c, phase) == pc' = [pc EXCEPT ![c] = phase]

\* The call leaves: its locals go out of scope.
Leave(c, phase) ==
  /\ Goto(c, phase)
  /\ read' = [read EXCEPT ![c] = {}]
  /\ before' = [before EXCEPT ![c] = {}]
  /\ offset' = [offset EXCEPT ![c] = 0]
  /\ attempts' = [attempts EXCEPT ![c] = 0]
  /\ UNCHANGED <<range, end>>

\* An ingest run, the call's own or another, commits a version of an article over the
\* one that is stored; a batch is several of these with no step in between.
StoreArticle(x) ==
  /\ news' = [news EXCEPT ![IdOf[x]] = x]
  /\ ever' = ever \cup {x}
  /\ UNCHANGED <<clock, digests, pc, locals, horizon>>

Midnight ==
  /\ clock + 1 \in Days
  /\ clock' = clock + 1
  /\ horizon' = IF horizon < clock + 1 THEN clock + 1 ELSE horizon
  /\ UNCHANGED <<news, digests, pc, locals, ever>>

Summarize(c, p, today) ==
  /\ pc[c] \in Resting
  /\ Goto(c, "ingest")
  /\ range' = [range EXCEPT ![c] = p]
  /\ end' = [end EXCEPT ![c] = today]
  /\ UNCHANGED <<store, offset, read, attempts, before, history>>

\* The last day of the window: the day the caller passed, or else the current one.
WindowEnd(c) == IF end[c] = NoDay THEN clock ELSE end[c]

\* The call's own ingest returned, and the read begins.
Ingested(c) ==
  /\ pc[c] = "ingest"
  /\ end' = [end EXCEPT ![c] = WindowEnd(c)]
  /\ before' = [before EXCEPT ![c] = { news[id] : id \in Within(range[c]) }]
  /\ horizon' = IF horizon < WindowEnd(c) THEN WindowEnd(c) ELSE horizon
  /\ Goto(c, "page")
  /\ UNCHANGED <<store, range, offset, read, attempts, ever>>

\* read_news_range: one page.
ReadPage(c) ==
  /\ pc[c] = "page"
  /\ read' = [read EXCEPT ![c] = @ \cup { news[id] : id \in OnPage(c) }]
  /\ offset' = [offset EXCEPT ![c] = OffsetAfter(c)]
  /\ Goto(c, IF OffsetAfter(c) = 0 THEN "split" ELSE "page")
  /\ UNCHANGED <<store, range, end, attempts, before, history>>

\* partition, and build_digest up to its model run.
Split(c) ==
  /\ pc[c] = "split"
  /\ IF TooFew(c)
       THEN Leave(c, "none")
       ELSE Goto(c, "write") /\ UNCHANGED locals
  /\ UNCHANGED <<store, history>>

WriteSummary(c) ==
  /\ pc[c] = "write"
  /\ Goto(c, "store")
  /\ UNCHANGED <<store, locals, history>>

\* The model run failed.  Mutant: the failures start over.
SummaryFailsForever(c) ==
  /\ pc[c] = "write"
  /\ attempts' = [attempts EXCEPT ![c] = (@ + 1) % ATTEMPTS]
  /\ UNCHANGED <<store, pc, range, end, offset, read, before, history>>

\* Mutant: there is one attempt too many.
SummaryFailsTwiceRetried(c) ==
  /\ pc[c] = "write"
  /\ IF attempts[c] = ATTEMPTS
       THEN Leave(c, "retry_error")
       ELSE /\ attempts' = [attempts EXCEPT ![c] = @ + 1]
            /\ UNCHANGED <<pc, range, end, offset, read, before>>
  /\ UNCHANGED <<store, history>>

SummaryFails(c) ==
  /\ pc[c] = "write"
  /\ IF attempts[c] + 1 = ATTEMPTS
       THEN Leave(c, "retry_error")
       ELSE /\ attempts' = [attempts EXCEPT ![c] = @ + 1]
            /\ UNCHANGED <<pc, range, end, offset, read, before>>
  /\ UNCHANGED <<store, history>>

\* save_digest: one point per period.
SaveDigest(c) ==
  /\ pc[c] = "store"
  /\ digests' = [digests EXCEPT ![Period(c)] =
       [numbers |-> NumbersOf(c), shown |-> Shown(c)]]
  /\ Leave(c, "digest")
  /\ UNCHANGED <<news, clock, history>>

\* A store call or the ingest raises, or the caller goes away.
Interrupt(c) ==
  /\ pc[c] \in Active
  /\ Leave(c, "store_error")
  /\ UNCHANGED <<store, history>>

Step(c) ==
  \/ Ingested(c)
  \/ ReadPage(c)
  \/ Split(c)
  \/ WriteSummary(c)
  \/ SummaryFails(c)
  \/ SaveDigest(c)

Next ==
  \/ \E x \in Items : StoreArticle(x)
  \/ Midnight
  \/ \E c \in Callers :
       \/ \E p \in Periods, today \in Todays : Summarize(c, p, today)
       \/ Step(c)
       \/ Interrupt(c)

Spec == Init /\ [][Next]_vars

\* Awaited calls return.
FairCalls == Spec /\ \A c \in Callers : WF_vars(Step(c))

-----------------------------------------------------------------------------
(* Properties *)

TypeOK ==
  /\ news \in [Ids -> Items \cup {NoItem}]
  /\ clock \in Days
  /\ digests \in [Periods -> Digests \cup {NoDigest}]
  /\ pc \in [Callers -> Active \cup Resting]
  /\ range \in [Callers -> Periods]
  /\ end \in [Callers -> Days \cup {NoDay}]
  /\ offset \in [Callers -> Ids \cup {0}]
  /\ read \in [Callers -> SUBSET Items]
  /\ attempts \in [Callers -> 0..(ATTEMPTS - 1)]
  /\ before \in [Callers -> SUBSET Items]
  /\ ever \subseteq Items
  /\ horizon \in Days

\* No second version of the article has been stored.  Every article of ingest runs
\* that follow one another is steady, and a steady article is still stored as it was.
Steady(id) == \A x, y \in ever : IdOf[x] = id /\ IdOf[y] = id => x = y

\* A paged read misses no steady article that was stored when it began, and reports
\* an article once, in a version that has been stored, whatever is committed and
\* replaced between two of its pages (read_news_range, "every stored item published
\* between").
ReadIsComplete ==
  \A c \in Callers : pc[c] \in {"split", "write", "store"} =>
    /\ \A x \in before[c] : Steady(IdOf[x]) => x \in read[c]
    /\ read[c] \subseteq ever
    /\ \A x, y \in read[c] : IdOf[x] = IdOf[y] => x = y

\* A digest stands for the whole stretch: every steady article of the range that was
\* stored when the read began and is older than the window falls in the period
\* the digest is stored under, and its value is among the digest's numbers
\* (summarize, "the limit bounds the prompt, not the period").
StandsForTheWholeStretch ==
  [][\A c \in Callers : pc[c] = "store" /\ pc'[c] = "digest" =>
       \E p \in Periods :
         /\ digests'[p] # NoDigest
         /\ \A x \in before[c] : Steady(IdOf[x]) /\ IsOlder(end[c], x) =>
              /\ InRange(p, x)
              /\ ValueOf[x] \in digests'[p].numbers \cup {0}]_vars

\* What the window holds stays raw: no digest covers a day of the latest window
\* there has been, although midnight may pass while one is written and replayed calls
\* put their window elsewhere.  Where no call passes a `today` after the current day,
\* the latest window is the current one.
WindowStaysRaw ==
  \A p \in Periods : digests[p] # NoDigest => p[2] < WindowStart(horizon)

\* A period is labelled by the articles it stands for: its first and last day
\* are days of articles that have been stored, and every number of its digest is the
\* value of one of the period (models may list a number they did not see).  Of a steady
\* article it is what the store still says.
LabelIsTrue ==
  \A p \in Periods : digests[p] # NoDigest =>
    /\ \A d \in {p[1], p[2]} : \E x \in ever : DateOf[x] = d
    /\ \A n \in digests[p].numbers : \E x \in ever : InRange(p, x) /\ ValueOf[x] = n

\* When calls follow one another, summarising a period again loses nothing: the
\* point that replaces a digest carries every number of the one it replaces, but the
\* numbers of articles that overlapping ingest runs stored in two versions,
\* although the ranges, the window and the shown articles differ.
DigestsOnlyGrow ==
  [][\A p \in Periods : digests[p] # NoDigest =>
       \A n \in digests[p].numbers \ digests'[p].numbers :
         \E x \in ever : InRange(p, x) /\ ValueOf[x] = n /\ ~ Steady(IdOf[x])]_digests

\* A call ends, however many articles are committed while it reads.
CallsEnd == \A c \in Callers : pc[c] \in Active ~> pc[c] \in Resting

\* What the comment in summarize says of the prompt: the model is shown only the
\* newest of the older articles.
NewestAreShown ==
  \A c \in Callers : pc[c] \in {"write", "store"} =>
    \A x \in Shown(c), y \in Older(c) \ Shown(c) : DateOf[y] <= DateOf[x]
=============================================================================
