-------------------------------- MODULE News --------------------------------
(***************************************************************************)
(* Fetching the news (news/aggregator.py over news/http.py): one query is  *)
(* sent to every source at once; each source is asked through a shared     *)
(* cache with up to three attempts; what the sources that answered sent is *)
(* merged, held to the range and stripped of repeats.                      *)
(*                                                                         *)
(* Fetches overlap and share the cache.  The origins, the cache database   *)
(* and the wall clock are the environment: an origin answers anything of   *)
(* Answers, an entry may expire at any time.                               *)
(***************************************************************************)
EXTENDS Integers, FiniteSets, FiniteSetsExt, Functions, Sequences

CONSTANTS
  Fetches,       \* concurrent fetch_all calls, for one topic and range
  Settings,      \* the sources that may be configured, in request order
  KeyOf,         \* article -> (title, source, date)
  Usable,        \* the articles with a link, a title and a readable date
  InRange,       \* the articles whose day is in the range
  Bodies,        \* what an origin may send with a 2xx
  Hints,         \* the Retry-After values an origin may send, in seconds
  Backoffs,      \* the waits the exponential backoff may choose
  Empty,         \* a body without content
  Malformed,     \* a body that is not the documented JSON
  NoHint,        \* no usable Retry-After
  NoEntry        \* nothing in the cache

RETRY_ATTEMPTS == 3
MAX_RETRY_WAIT == 15

Adapters == {"gdelt", "newsapi", "gnews", "mediastack", "currents"}
Articles == DOMAIN KeyOf

\* The documented JSON of every feed, as far as it is read: an envelope status
\* and the articles.
Envelopes == [status : {"ok", "error", "absent"}, articles : Seq(Articles)]

\* GDELT needs no key.
ASSUME SettingsAssumption ==
  \A o \in Settings : o \in Seq(Adapters) /\ IsInjective(o) /\ o # <<>> /\ o[1] = "gdelt"
ASSUME ArticlesAssumption == InRange \subseteq Articles /\ Usable \subseteq Articles
ASSUME BodiesAssumption == Bodies \subseteq Envelopes \cup {Empty, Malformed}
ASSUME HintsAssumption == Hints \subseteq Nat /\ NoHint \notin Hints
ASSUME BackoffAssumption == Backoffs \subseteq 0..MAX_RETRY_WAIT /\ Backoffs # {}

\* "ok" is a 2xx, "rate" 429, "server" a 5xx, "client" any other status;
\* "transport" is no response at all.
Failures == {"rate", "forbidden", "unauthorized", "server", "client", "transport"}

\* An origin's answer, or none at all ("transport").  storable is false under
\* no-store, no-cache or private.
Answers ==
  [status : {"ok"}, body : Bodies, hint : {NoHint}, storable : BOOLEAN]
  \cup [status : {"rate", "forbidden"}, body : {Malformed}, hint : Hints \cup {NoHint},
        storable : {TRUE}]
  \cup [status : Failures, body : {Malformed}, hint : {NoHint}, storable : {TRUE}]

\* How a task may end: with the articles its source sent, by their places in the
\* answer, with a NewsSourceError, or with another exception.
IsItems(o) ==
  /\ o = [kind |-> "items", items |-> o.items]
  /\ DOMAIN o.items \subseteq Nat /\ Range(o.items) \subseteq Usable

IsOutcome(o) ==
  \/ o \in [kind : {"pending", "bug"}]
  \/ o \in [kind : {"failed"}, why : Failures \cup {"parse", "refused"}]
  \/ IsItems(o)

VARIABLES
  order,     \* the configured sources, in request order
  cache,     \* source -> the answer stored for the query
  phase,     \* fetch -> idle, gathering, merged, raised or cancelled
  outcome,   \* fetch -> source -> how its task ended
  attempts,  \* fetch -> source -> attempts made
  asked,     \* fetch -> source -> those that reached the origin
  waited,    \* fetch -> source -> seconds slept between them
  result     \* fetch -> the merged articles, as their places in the answers:
             \* the merged list has them in the order of the places

vars == <<order, cache, phase, outcome, attempts, asked, waited, result>>

Pending == [kind |-> "pending"]

Sources == Range(order)

-----------------------------------------------------------------------------
(* What the adapters differ in *)

\* Mediastack's URL carries the key; GNews answers a spent quota with 403.
KeyedByUrl == {"mediastack"}
QuotaOn403 == {"gnews"}

\* Two feeds report an error in the envelope of a 200.
CurrentsRefuses(body) == body.status # "ok"
NewsAPIRefuses(body) == body.status = "error"

Refuses(s, body) ==
  \/ s = "currents" /\ CurrentsRefuses(body)
  \/ s = "newsapi" /\ NewsAPIRefuses(body)

\* An article without a link, a title or a readable date is left out.
Mapped(articles) == [n \in { m \in DOMAIN articles : articles[m] \in Usable } |-> articles[n]]

\* parse_json: the documented JSON, or nothing at all.
Readable(body) == body # Malformed

\* What an adapter makes of a 2xx.
Parsed(s, body) ==
  IF ~Readable(body) THEN [kind |-> "failed", why |-> "parse"]
  ELSE IF body = Empty THEN [kind |-> "items", items |-> Mapped(<<>>)]
  ELSE IF Refuses(s, body) THEN [kind |-> "failed", why |-> "refused"]
  ELSE [kind |-> "items", items |-> Mapped(body.articles)]

-----------------------------------------------------------------------------
(* Classification and retry *)

\* _raise_for_status consults the source's own statuses before the 401/403
\* branch.  Mutant: after it.
ClassGeneric(s, status) ==
  IF status \in {"forbidden", "unauthorized"} THEN "auth" ELSE status

Class(s, status) ==
  IF status = "forbidden" /\ s \in QuotaOn403 THEN "rate"
  ELSE IF status \in {"forbidden", "unauthorized"} THEN "auth"
  ELSE status

Retryable(class) == class \in {"rate", "server", "transport"}

\* stop_after_attempt.  Mutant: one attempt too many.
ExhaustedLate(made) == made = RETRY_ATTEMPTS + 1

Exhausted(made) == made = RETRY_ATTEMPTS

\* What _wait may sleep: the clamped hint of a rate limit, else the backoff.
\* Mutant: the hint as it came.
WaitsAsAsked(class, hint) == IF class = "rate" /\ hint # NoHint THEN {hint} ELSE Backoffs

Waits(class, hint) ==
  IF class = "rate" /\ hint # NoHint THEN {Min({hint, MAX_RETRY_WAIT})} ELSE Backoffs

\* The cache policy: a request without a credential, a 2xx the origin allows to
\* keep.
MayStore(s, answer) == s \notin KeyedByUrl /\ answer.status = "ok" /\ answer.storable

-----------------------------------------------------------------------------
(* Merging *)

ItemsOf(f, s) == IF outcome[f][s].kind = "items" THEN outcome[f][s].items ELSE <<>>

\* Where an article stands: which source sent it, and where in its answer.
Places(f, i) == {i} \X DOMAIN ItemsOf(f, order[i])

At(f, p) == ItemsOf(f, order[p[1]])[p[2]]

Precedes(p, q) == p[1] < q[1] \/ (p[1] = q[1] /\ p[2] < q[2])

\* Source by source.  Mutant: the first failure ends the list.
AnsweredUntilFailure(f) ==
  UNION { Places(f, i) :
            i \in { k \in DOMAIN order : \A j \in 1..k : outcome[f][order[j]].kind # "failed" } }

Answered(f) == UNION { Places(f, i) : i \in DOMAIN order }

\* The places of the articles in range.
InTime(f) == { p \in Answered(f) : At(f, p) \in InRange }

\* Of these, the first of each key.
Merged(f) ==
  { p \in InTime(f) :
      \A q \in InTime(f) : Precedes(q, p) => KeyOf[At(f, q)] # KeyOf[At(f, p)] }

-----------------------------------------------------------------------------
Init ==
  /\ order \in Settings
  /\ cache = [s \in Sources |-> NoEntry]
  /\ phase = [f \in Fetches |-> "idle"]
  /\ outcome = [f \in Fetches |-> [s \in Sources |-> Pending]]
  /\ attempts = [f \in Fetches |-> [s \in Sources |-> 0]]
  /\ asked = [f \in Fetches |-> [s \in Sources |-> 0]]
  /\ waited = [f \in Fetches |-> [s \in Sources |-> 0]]
  /\ result = [f \in Fetches |-> {}]

\* gather: every source is asked at once.
Start(f) ==
  /\ phase[f] # "gathering"
  /\ phase' = [phase EXCEPT ![f] = "gathering"]
  /\ outcome' = [outcome EXCEPT ![f] = [s \in Sources |-> Pending]]
  /\ attempts' = [attempts EXCEPT ![f] = [s \in Sources |-> 0]]
  /\ asked' = [asked EXCEPT ![f] = [s \in Sources |-> 0]]
  /\ waited' = [waited EXCEPT ![f] = [s \in Sources |-> 0]]
  /\ result' = [result EXCEPT ![f] = {}]
  /\ UNCHANGED <<order, cache>>

Running(f, s) == s \in Sources /\ phase[f] = "gathering" /\ outcome[f][s] = Pending

\* _request_once, its classification, and what the retry makes of it.
Classified(f, s, answer) ==
  LET class == Class(s, answer.status)
      End(o) == outcome' = [outcome EXCEPT ![f][s] = o] /\ UNCHANGED waited
  IN /\ attempts' = [attempts EXCEPT ![f][s] = @ + 1]
     /\ IF class = "ok" THEN End(Parsed(s, answer.body))
        ELSE IF Retryable(class) /\ ~Exhausted(attempts[f][s] + 1)
          THEN /\ \E w \in Waits(class, answer.hint) :
                    waited' = [waited EXCEPT ![f][s] = @ + w]
               /\ UNCHANGED outcome
        ELSE End([kind |-> "failed", why |-> answer.status])

\* The request is answered from the cache.
Replay(f, s) ==
  /\ Running(f, s)
  /\ s \notin KeyedByUrl
  /\ cache[s] # NoEntry
  /\ Classified(f, s, cache[s])
  /\ UNCHANGED <<order, cache, phase, asked, result>>

\* The request reaches the origin, which answers or does not.
Ask(f, s, answer) ==
  /\ Running(f, s)
  /\ cache[s] = NoEntry
  /\ asked' = [asked EXCEPT ![f][s] = @ + 1]
  /\ cache' = IF MayStore(s, answer) THEN [cache EXCEPT ![s] = answer] ELSE cache
  /\ Classified(f, s, answer)
  /\ UNCHANGED <<order, phase, result>>

\* The task raises something that is not a NewsSourceError.
Break(f, s) ==
  /\ Running(f, s)
  /\ outcome' = [outcome EXCEPT ![f][s] = [kind |-> "bug"]]
  /\ UNCHANGED <<order, cache, phase, attempts, asked, waited, result>>

\* Every task is done: a bug is raised, a source failure is left out.
\* Mutants: a failed source holds the fetch; a bug counts as a failure.
MergeAllAnswered(f) ==
  /\ phase[f] = "gathering"
  /\ \A s \in Sources : outcome[f][s].kind \in {"items", "bug"}
  /\ IF \E s \in Sources : outcome[f][s].kind = "bug"
       THEN phase' = [phase EXCEPT ![f] = "raised"] /\ UNCHANGED result
       ELSE /\ phase' = [phase EXCEPT ![f] = "merged"]
            /\ result' = [result EXCEPT ![f] = Merged(f)]
  /\ UNCHANGED <<order, cache, outcome, attempts, asked, waited>>

MergeSwallowsBugs(f) ==
  /\ phase[f] = "gathering"
  /\ \A s \in Sources : outcome[f][s] # Pending
  /\ phase' = [phase EXCEPT ![f] = "merged"]
  /\ result' = [result EXCEPT ![f] = Merged(f)]
  /\ UNCHANGED <<order, cache, outcome, attempts, asked, waited>>

Merge(f) ==
  /\ phase[f] = "gathering"
  /\ \A s \in Sources : outcome[f][s] # Pending
  /\ IF \E s \in Sources : outcome[f][s].kind = "bug"
       THEN phase' = [phase EXCEPT ![f] = "raised"] /\ UNCHANGED result
       ELSE /\ phase' = [phase EXCEPT ![f] = "merged"]
            /\ result' = [result EXCEPT ![f] = Merged(f)]
  /\ UNCHANGED <<order, cache, outcome, attempts, asked, waited>>

\* The caller goes away: gather cancels its tasks.
Cancel(f) ==
  /\ phase[f] = "gathering"
  /\ phase' = [phase EXCEPT ![f] = "cancelled"]
  /\ UNCHANGED <<order, cache, outcome, attempts, asked, waited, result>>

\* An entry reaches its time to live.
Expire(s) ==
  /\ cache[s] # NoEntry
  /\ cache' = [cache EXCEPT ![s] = NoEntry]
  /\ UNCHANGED <<order, phase, outcome, attempts, asked, waited, result>>

Task(f, s) ==
  \/ Replay(f, s)
  \/ \E answer \in Answers : Ask(f, s, answer)
  \/ Break(f, s)

Next ==
  \/ \E f \in Fetches :
       \/ Start(f)
       \/ \E s \in Adapters : Task(f, s)
       \/ Merge(f)
       \/ Cancel(f)
  \/ \E s \in Sources : Expire(s)

Spec == Init /\ [][Next]_vars

\* A request ends, at the latest by its timeout, and the event loop goes on.
FairFetches ==
  /\ Spec
  /\ \A f \in Fetches :
       WF_vars(Merge(f)) /\ \A s \in Adapters : WF_vars(Task(f, s))

-----------------------------------------------------------------------------
(* Properties *)

TypeOK ==
  /\ order \in Settings
  /\ cache \in [Sources -> Answers \cup {NoEntry}]
  /\ phase \in [Fetches -> {"idle", "gathering", "merged", "raised", "cancelled"}]
  /\ DOMAIN outcome = Fetches
  /\ \A f \in Fetches :
       DOMAIN outcome[f] = Sources /\ \A s \in Sources : IsOutcome(outcome[f][s])
  /\ attempts \in [Fetches -> [Sources -> 0..RETRY_ATTEMPTS]]
  /\ asked \in [Fetches -> [Sources -> 0..RETRY_ATTEMPTS]]
  /\ waited \in [Fetches -> [Sources -> Nat]]
  /\ result \in [Fetches -> SUBSET (Nat \X Nat)]

\* One broken feed takes nothing with it: every in-range article a source sent
\* is in the result, once, as that article or an earlier one of its key.
NothingIsLost ==
  \A f \in Fetches : phase[f] = "merged" =>
    \A i \in DOMAIN order : \A n \in DOMAIN ItemsOf(f, order[i]) :
      At(f, <<i, n>>) \in InRange =>
        \E p \in result[f] :
          /\ p = <<i, n>> \/ Precedes(p, <<i, n>>)
          /\ { q \in result[f] : KeyOf[At(f, q)] = KeyOf[At(f, <<i, n>>)] } = {p}

\* A defect is never hidden behind a thinner result.
DefectsAreLoud ==
  \A f \in Fetches : phase[f] = "merged" => \A s \in Sources : outcome[f][s].kind # "bug"

\* A failure worth another attempt is given up only after the origin itself
\* failed as often as the policy allows: a failure an earlier fetch met is not
\* replayed from the cache, and a spent quota is not taken for a refusal.
GivenUpFirstHand ==
  \A f \in Fetches, s \in Sources :
    LET o == outcome[f][s]
    IN o.kind = "failed" /\ (o.why # "forbidden" \/ s \in QuotaOn403)
         /\ o.why \in {"rate", "server", "transport", "forbidden"}
       => asked[f][s] = RETRY_ATTEMPTS

\* A source that asks for an hour does not stall the run: what a task sleeps in
\* total is bounded.
WaitIsBounded ==
  \A f \in Fetches, s \in Sources : waited[f][s] <= (RETRY_ATTEMPTS - 1) * MAX_RETRY_WAIT

\* A fetch ends, although a retry may meet any failure again.
FetchEnds == \A f \in Fetches : phase[f] = "gathering" ~> phase[f] # "gathering"
=============================================================================
