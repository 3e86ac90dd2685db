----------------------------- MODULE AppContext -----------------------------
(***************************************************************************)
(* The container both interfaces share (mcp/context.py): the vector store, *)
(* the pipeline over it, the extract agent and the news client are built   *)
(* on first use, memoized under one asyncio lock, and closed on the way    *)
(* out of the process; and the two that own it: the server's lifespan      *)
(* (mcp/server.py), and a one-shot command (cli/main.py), which runs one   *)
(* body, closes the context whatever became of it and prints one report.   *)
(*                                                                         *)
(* Tool calls overlap and may be cancelled at any await.  A store is built *)
(* in a worker thread, which a cancelled call leaves behind: it goes on,   *)
(* and what it builds is dropped.  aclose takes no lock; its owners run it *)
(* once no call is under way.  Nothing is injected.                        *)
(***************************************************************************)
EXTENDS Integers, FiniteSets

CONSTANTS
  Calls,      \* concurrent tool calls, or the body of a command
  Stores,     \* identities of the stores that can be built
  NoCall,     \* the lock is free
  NoStore     \* nothing is memoized

ASSUME NoCallAssumption == NoCall \notin Calls
ASSUME NoStoreAssumption == NoStore \notin Stores

Wants == {"store", "pipeline", "extract", "news"}

VARIABLES
  interface,  \* who owns the context: the server or a command
  lock,       \* who holds the lock
  store,      \* _store
  pipeline,   \* the store the memoized pipeline was assembled with
  extract,    \* whether the agent is built
  client,     \* the news client: none, open or closed
  open,       \* the stores that hold a connection a reference leads to
  fresh,      \* the identities not used yet
  threads,    \* the stores worker threads are building
  pc,         \* call -> where it is
  want,       \* call -> the collaborator it asked for
  building,   \* call -> the store its thread builds
  uses,       \* call -> the store it works on
  owner,      \* serving, closing_client, closed or close_failed
  report      \* what the command printed: nothing yet, a result, an error
              \* document, or the traceback of a defect

memo  == <<store, pipeline, extract, client>>
calls == <<pc, want, building, uses>>
owns  == <<interface, owner, report>>
vars  == <<lock, memo, open, fresh, threads, calls, owns>>

InLock  == {"holding", "building", "assembling"}
Ended   == {"answered", "failed", "broken", "cancelled"}
Resting == Ended \cup {"idle"}

-----------------------------------------------------------------------------
Init ==
  /\ interface \in {"server", "cli"}
  /\ report = "none"
  /\ lock = NoCall
  /\ store = NoStore
  /\ pipeline = NoStore
  /\ extract = FALSE
  /\ client = "none"
  /\ open = {}
  /\ fresh = Stores
  /\ threads = {}
  /\ pc = [c \in Calls |-> "idle"]
  /\ want = [c \in Calls |-> "extract"]
  /\ building = [c \in Calls |-> NoStore]
  /\ uses = [c \in Calls |-> NoStore]
  /\ owner = "serving"

Goto(c, phase) == pc' = [pc EXCEPT ![c] = phase]

\* `async with self._lock` is left, however the accessor ends.
\* Mutant: a failed accessor keeps the lock.
ReleaseOnSuccess(phase) == lock' = IF phase = "failed" THEN lock ELSE NoCall

Release(phase) == lock' = NoCall

\* A tool call; a command has one body.
Call(c, w) ==
  /\ owner = "serving"
  /\ pc[c] \in Resting
  /\ interface = "cli" => \A d \in Calls : pc[d] = "idle"
  /\ Goto(c, "waiting")
  /\ want' = [want EXCEPT ![c] = w]
  /\ UNCHANGED <<lock, memo, open, fresh, threads, building, uses, owns>>

\* Mutant: the lock is not taken.
AcquireAnyway(c) ==
  /\ pc[c] = "waiting"
  /\ lock' = c
  /\ Goto(c, "holding")
  /\ UNCHANGED <<memo, open, fresh, threads, want, building, uses, owns>>

Acquire(c) ==
  /\ pc[c] = "waiting"
  /\ lock = NoCall
  /\ lock' = c
  /\ Goto(c, "holding")
  /\ UNCHANGED <<memo, open, fresh, threads, want, building, uses, owns>>

\* The accessor returns a store, or a pipeline over one.
Return(c, s) ==
  /\ Goto(c, "using")
  /\ uses' = [uses EXCEPT ![c] = s]
  /\ Release("using")

Fail(c) ==
  /\ Goto(c, "failed")
  /\ Release("failed")

NeedsStore(c) == want[c] = "store" \/ (want[c] = "pipeline" /\ pipeline = NoStore)

\* What is asked for was built before.
Memoized(c) ==
  /\ pc[c] = "holding"
  /\ \/ want[c] = "store" /\ store # NoStore /\ Return(c, store)
     \/ want[c] = "pipeline" /\ pipeline # NoStore /\ Return(c, pipeline)
  /\ UNCHANGED <<memo, open, fresh, threads, want, building, owns>>

\* _extract_locked, which may find no model configured.
BuildExtract(c) ==
  /\ pc[c] = "holding"
  /\ want[c] = "extract"
  /\ \/ extract' = TRUE /\ Return(c, NoStore)
     \/ extract = FALSE /\ Fail(c) /\ UNCHANGED <<extract, uses>>
  /\ UNCHANGED <<store, pipeline, client, open, fresh, threads, want, building, owns>>

\* _news_locked builds the client once.
BuildNews(c) ==
  /\ pc[c] = "holding"
  /\ want[c] = "news"
  /\ client' = IF client = "none" THEN "open" ELSE client
  /\ Return(c, NoStore)
  /\ UNCHANGED <<store, pipeline, extract, open, fresh, threads, want, building, owns>>

\* _store_locked hands VectorStore.from_settings to a worker thread.
StartStore(c) ==
  /\ pc[c] = "holding"
  /\ NeedsStore(c)
  /\ store = NoStore
  /\ \E s \in fresh :
       /\ fresh' = fresh \ {s}
       /\ threads' = threads \cup {s}
       /\ building' = [building EXCEPT ![c] = s]
  /\ Goto(c, "building")
  /\ UNCHANGED <<lock, memo, open, want, uses, owns>>

\* The health check answered: the store is memoized.  Mutant: it is not.
StoreBuiltUnkept(c) ==
  /\ pc[c] = "building"
  /\ threads' = threads \ {building[c]}
  /\ open' = open \cup {building[c]}
  /\ building' = [building EXCEPT ![c] = NoStore]
  /\ IF want[c] = "store"
       THEN Return(c, building[c])
       ELSE Goto(c, "assembling") /\ UNCHANGED <<lock, uses>>
  /\ UNCHANGED <<memo, fresh, want, owns>>

StoreBuilt(c) ==
  /\ pc[c] = "building"
  /\ store' = building[c]
  /\ threads' = threads \ {building[c]}
  /\ open' = open \cup {building[c]}
  /\ building' = [building EXCEPT ![c] = NoStore]
  /\ IF want[c] = "store"
       THEN Return(c, building[c])
       ELSE Goto(c, "assembling") /\ UNCHANGED <<lock, uses>>
  /\ UNCHANGED <<pipeline, extract, client, fresh, want, owns>>

\* It did not: nothing is memoized, the next call tries again.  Mutant: the call
\* keeps the store that was not built.
StoreUnreachableKept(c) ==
  /\ pc[c] = "building"
  /\ threads' = threads \ {building[c]}
  /\ fresh' = fresh \cup {building[c]}
  /\ Fail(c)
  /\ UNCHANGED <<memo, open, want, building, uses, owns>>

StoreUnreachable(c) ==
  /\ pc[c] = "building"
  /\ threads' = threads \ {building[c]}
  /\ fresh' = fresh \cup {building[c]}
  /\ building' = [building EXCEPT ![c] = NoStore]
  /\ Fail(c)
  /\ UNCHANGED <<memo, open, want, uses, owns>>

\* The pipeline is wanted and the store is there already.
StoreKnown(c) ==
  /\ pc[c] = "holding"
  /\ want[c] = "pipeline"
  /\ pipeline = NoStore
  /\ store # NoStore
  /\ Goto(c, "assembling")
  /\ UNCHANGED <<lock, memo, open, fresh, threads, want, building, uses, owns>>

\* The agents are built and the pipeline is assembled over the memoized store.
\* Mutant: a pipeline that cannot be assembled closes the store it was given.
AssembleClosing(c) ==
  /\ pc[c] = "assembling"
  /\ \/ /\ pipeline' = store
        /\ extract' = TRUE
        /\ Return(c, store)
        /\ UNCHANGED open
     \/ /\ extract' = TRUE
        /\ open' = open \ {store}
        /\ Fail(c)
        /\ UNCHANGED <<pipeline, uses>>
  /\ UNCHANGED <<store, client, fresh, threads, want, building, owns>>

Assemble(c) ==
  /\ pc[c] = "assembling"
  /\ \/ /\ pipeline' = store
        /\ extract' = TRUE
        /\ Return(c, store)
     \/ /\ \/ extract' = TRUE
           \/ UNCHANGED extract
        /\ Fail(c)
        /\ UNCHANGED <<pipeline, uses>>
  /\ UNCHANGED <<store, client, open, fresh, threads, want, building, owns>>

\* The body is done with what it was given, or raises: one of DOMAIN_ERRORS, or
\* anything else.
Finish(c) ==
  /\ pc[c] = "using"
  /\ \/ Goto(c, "answered")
     \/ Goto(c, "failed")
     \/ Goto(c, "broken")
  /\ uses' = [uses EXCEPT ![c] = NoStore]
  /\ UNCHANGED <<lock, memo, open, fresh, threads, want, building, owns>>

\* The client withdraws the request: the call is cancelled at its await, and
\* leaves a thread that is building behind.  The agent is built before the
\* pipeline is awaited.
Cancel(c) ==
  /\ pc[c] \in {"waiting", "building", "assembling", "using"}
  /\ Goto(c, "cancelled")
  /\ lock' = IF pc[c] \in InLock THEN NoCall ELSE lock
  /\ building' = [building EXCEPT ![c] = NoStore]
  /\ uses' = [uses EXCEPT ![c] = NoStore]
  /\ extract' = (extract \/ pc[c] = "assembling")
  /\ UNCHANGED <<store, pipeline, client, open, fresh, threads, want, owns>>

\* A thread nobody waits for ends; what it built is garbage.
ThreadEnds(s) ==
  /\ s \in threads
  /\ \A c \in Calls : building[c] # s
  /\ threads' = threads \ {s}
  /\ fresh' = fresh \cup {s}
  /\ UNCHANGED <<lock, memo, open, calls, owns>>

\* aclose: the pipeline closes its store, a store without a pipeline is closed
\* here.  Mutant: only the pipeline's.
ToCloseOfPipeline == IF pipeline # NoStore THEN {pipeline} ELSE {}

ToClose == IF pipeline # NoStore THEN {pipeline} ELSE {store} \ {NoStore}

\* The lifespan closes once every call is through, a command once its body is.
MayClose ==
  /\ \A c \in Calls : pc[c] \in Resting
  /\ \/ interface = "server" /\ owner \in {"serving", "closed"}
     \/ interface = "cli" /\ owner = "serving" /\ \E c \in Calls : pc[c] \in Ended

CloseStore ==
  /\ MayClose
  /\ \/ owner' = "closing_client" /\ open' = open \ ToClose
     \/ ToClose # {} /\ owner' = "close_failed" /\ UNCHANGED open
  /\ UNCHANGED <<lock, memo, fresh, threads, calls, interface, report>>

CloseClient ==
  /\ owner = "closing_client"
  /\ \/ owner' = "closed" /\ client' = IF client = "none" THEN "none" ELSE "closed"
     \/ client # "none" /\ owner' = "close_failed" /\ UNCHANGED client
  /\ UNCHANGED <<lock, store, pipeline, extract, open, fresh, threads, calls, interface, report>>

\* run_command: the failure of the body wins over the one of the cleanup.
\* Mutant: the cleanup's replaces it.
ReportOfCleanup(body) ==
  IF owner = "close_failed" THEN "defect"
  ELSE IF body = "answered" THEN "result"
  ELSE IF body = "failed" THEN "error"
  ELSE "defect"

ReportOf(body) ==
  IF body = "answered" /\ owner = "closed" THEN "result"
  ELSE IF body = "failed" THEN "error"
  ELSE "defect"

Report ==
  /\ interface = "cli"
  /\ owner \in {"closed", "close_failed"}
  /\ report = "none"
  /\ \E c \in Calls : pc[c] \in Ended /\ report' = ReportOf(pc[c])
  /\ UNCHANGED <<lock, memo, open, fresh, threads, calls, interface, owner>>

\* What the event loop and the threads do for a call by themselves.
Step(c) ==
  \/ Memoized(c)
  \/ BuildExtract(c)
  \/ BuildNews(c)
  \/ StartStore(c)
  \/ StoreBuilt(c)
  \/ StoreUnreachable(c)
  \/ StoreKnown(c)
  \/ Assemble(c)
  \/ Finish(c)

Next ==
  \/ \E c \in Calls :
       \/ \E w \in Wants : Call(c, w)
       \/ Acquire(c)
       \/ Step(c)
       \/ Cancel(c)
  \/ \E s \in Stores : ThreadEnds(s)
  \/ CloseStore
  \/ CloseClient
  \/ Report

\* What a command does by itself once its body ended.
CommandStep == interface = "cli" /\ (CloseStore \/ CloseClient \/ Report)

Spec == Init /\ [][Next]_vars

\* Awaited work returns, threads end, and asyncio.Lock wakes its waiters in order.
FairCalls ==
  /\ Spec
  /\ \A c \in Calls : WF_vars(Step(c)) /\ SF_vars(Acquire(c))
  /\ \A s \in Stores : WF_vars(ThreadEnds(s))
  /\ WF_vars(CommandStep)

-----------------------------------------------------------------------------
(* Properties *)

TypeOK ==
  /\ lock \in Calls \cup {NoCall}
  /\ {store, pipeline} \subseteq Stores \cup {NoStore}
  /\ extract \in BOOLEAN
  /\ client \in {"none", "open", "closed"}
  /\ open \subseteq Stores
  /\ fresh \subseteq Stores
  /\ threads \subseteq Stores \ fresh
  /\ pc \in [Calls -> {"waiting", "using"} \cup InLock \cup Resting]
  /\ want \in [Calls -> Wants]
  /\ building \in [Calls -> threads \cup {NoStore}]
  /\ uses \in [Calls -> Stores \cup {NoStore}]
  /\ owner \in {"serving", "closing_client", "closed", "close_failed"}
  /\ interface \in {"server", "cli"}
  /\ report \in {"none", "result", "error", "defect"}

\* Whatever they asked for, and whoever was cancelled or failed before, calls see
\* one and the same store: two stores would hold two views of the collections.
OneStoreForAll ==
  \A c \in Calls : pc[c] = "using" /\ want[c] \in {"store", "pipeline"} =>
    /\ uses[c] = store
    /\ \A d \in Calls : pc[d] = "using" /\ uses[d] # NoStore => uses[d] = uses[c]

\* A call never works on a store whose connection is closed.
StoreInUseIsOpen == \A c \in Calls : uses[c] # NoStore => uses[c] \in open

\* The accessors are exclusive across their awaits: no store is under
\* construction for two calls at a time.
OneBuilder ==
  \A c, d \in Calls : pc[c] \in InLock /\ pc[d] \in InLock => c = d /\ lock = c

\* aclose leaves nothing open, also when the store was built by a pipeline call
\* that then failed.
NothingLeftOpen == owner = "closed" => open = {} /\ client # "open"

\* What a command prints is what its body came to: an expected failure stays that
\* document also when the cleanup fails behind it, and a result is printed only
\* when nothing the command built is left open (run_command, "the body's failure
\* wins").
ReportIsTrue ==
  \A c \in Calls : report # "none" /\ pc[c] # "idle" =>
    /\ report = "error" <=> pc[c] = "failed"
    /\ report = "result" => pc[c] = "answered" /\ open = {} /\ client # "open"

\* A call ends, whatever became of the calls before it in the queue, and a command
\* reports.
CallsEnd ==
  \A c \in Calls : pc[c] = "waiting" ~>
    pc[c] \in Resting /\ (interface = "cli" => report # "none")
=============================================================================
