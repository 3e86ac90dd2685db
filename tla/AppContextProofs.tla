-------------------------- MODULE AppContextProofs --------------------------
(***************************************************************************)
(* Proofs about AppContext, for any number of calls and stores, whoever    *)
(* is cancelled or fails: the accessors are exclusive across their awaits, *)
(* calls share one store, it is open while they use it, and closing leaves *)
(* nothing open; and what a command prints is what its body came to.       *)
(*                                                                         *)
(* The invariant ties the lock to its holder, a thread to the call that    *)
(* waits for it, the pipeline and whatever is in use to the memoized       *)
(* store, the open connections to that store until it is closed, and a     *)
(* report to the one body a command has.                                   *)
(***************************************************************************)
EXTENDS AppContext, TLAPS

USE NoCallAssumption, NoStoreAssumption

-----------------------------------------------------------------------------
(* The inductive invariant *)

\* A call is in an accessor exactly while it holds the lock.
Exclusive == \A c \in Calls : pc[c] \in InLock <=> lock = c

\* Only the call in its accessor builds a store, and only when there is none.
Builds ==
  \A c \in Calls :
    /\ pc[c] = "building" <=> building[c] # NoStore
    /\ pc[c] = "building" => store = NoStore
    /\ pc[c] = "assembling" => store # NoStore

\* The pipeline is over the memoized store, and so is whatever a call works on.
Shared ==
  /\ pipeline \in {NoStore, store}
  /\ \A c \in Calls :
       /\ uses[c] # NoStore => pc[c] = "using" /\ uses[c] = store
       /\ pc[c] = "using" /\ want[c] \in {"store", "pipeline"} => uses[c] = store /\ store # NoStore

\* The memoized store is what is open, until it is closed; nothing runs after that.
Connected ==
  /\ owner = "serving" => open = {store} \ {NoStore}
  /\ owner # "serving" => \A c \in Calls : pc[c] \in Resting
  /\ owner \in {"closing_client", "closed"} => open = {}
  /\ owner = "closed" => client # "open"

\* A command has one body, and reports it once it has closed the context.
OneBody ==
  /\ interface = "cli" =>
       \A c, d \in Calls : pc[c] # "idle" /\ pc[d] # "idle" => c = d
  /\ report # "none" => interface = "cli" /\ owner \in {"closed", "close_failed"}
  /\ report = "result" => owner = "closed"
  /\ ReportIsTrue

IInv == TypeOK /\ Exclusive /\ Builds /\ Shared /\ Connected /\ OneBody

-----------------------------------------------------------------------------
(* What a step keeps *)

\* Every step of a call, a thread or the owner keeps each part of the invariant.
LEMMA StepKeepsIInv ==
  ASSUME IInv, [Next]_vars
  PROVE  IInv'
<1> USE DEF IInv, InLock, Resting, Ended, Wants, memo, calls, owns, Goto, Release, Return, Fail
<1>1. ASSUME NEW c \in Calls, NEW w \in Wants, Call(c, w)
      PROVE  IInv'
  <2>1. TypeOK'
    BY <1>1 DEF Call, TypeOK
  <2>2. Exclusive'
    BY <1>1 DEF Call, Exclusive
  <2>3. Builds'
    BY <1>1 DEF Call, Builds
  <2>4. Shared'
    BY <1>1 DEF Call, Shared
  <2>5. Connected'
    BY <1>1 DEF Call, Connected
  <2>6. OneBody'
    BY <1>1 DEF Call, OneBody, ReportIsTrue
  <2>7. QED
    BY <2>1, <2>2, <2>3, <2>4, <2>5, <2>6
<1>2. ASSUME NEW c \in Calls, Acquire(c)
      PROVE  IInv'
  <2>1. TypeOK'
    BY <1>2 DEF Acquire, TypeOK
  <2>2. Exclusive'
    BY <1>2 DEF Acquire, TypeOK, Exclusive
  <2>3. Builds'
    BY <1>2 DEF Acquire, Builds
  <2>4. Shared'
    BY <1>2 DEF Acquire, Shared
  <2>5. Connected'
    BY <1>2 DEF Acquire, Connected
  <2>6. OneBody'
    BY <1>2 DEF Acquire, OneBody, ReportIsTrue
  <2>7. QED
    BY <2>1, <2>2, <2>3, <2>4, <2>5, <2>6
<1>3. ASSUME NEW c \in Calls, Memoized(c)
      PROVE  IInv'
  <2>1. TypeOK'
    BY <1>3 DEF Memoized, TypeOK
  <2>2. Exclusive'
    BY <1>3 DEF Memoized, TypeOK, Exclusive
  <2>3. Builds'
    BY <1>3 DEF Memoized, TypeOK, Builds
  <2>4. Shared'
    BY <1>3 DEF Memoized, TypeOK, Shared
  <2>5. Connected'
    BY <1>3 DEF Memoized, Connected
  <2>6. OneBody'
    BY <1>3 DEF Memoized, TypeOK, OneBody, ReportIsTrue
  <2>7. QED
    BY <2>1, <2>2, <2>3, <2>4, <2>5, <2>6
<1>4. ASSUME NEW c \in Calls, BuildExtract(c)
      PROVE  IInv'
  <2>1. TypeOK'
    BY <1>4 DEF BuildExtract, TypeOK
  <2>2. Exclusive'
    BY <1>4 DEF BuildExtract, TypeOK, Exclusive
  <2>3. Builds'
    BY <1>4 DEF BuildExtract, TypeOK, Builds
  <2>4. Shared'
    BY <1>4 DEF BuildExtract, TypeOK, Shared
  <2>5. Connected'
    BY <1>4 DEF BuildExtract, Connected
  <2>6. OneBody'
    BY <1>4 DEF BuildExtract, TypeOK, Connected, OneBody, ReportIsTrue
  <2>7. QED
    BY <2>1, <2>2, <2>3, <2>4, <2>5, <2>6
<1>5. ASSUME NEW c \in Calls, BuildNews(c)
      PROVE  IInv'
  <2>1. TypeOK'
    BY <1>5 DEF BuildNews, TypeOK
  <2>2. Exclusive'
    BY <1>5 DEF BuildNews, TypeOK, Exclusive
  <2>3. Builds'
    BY <1>5 DEF BuildNews, Builds
  <2>4. Shared'
    BY <1>5 DEF BuildNews, Shared
  <2>5. Connected'
    BY <1>5 DEF BuildNews, Connected
  <2>6. OneBody'
    BY <1>5 DEF BuildNews, OneBody, ReportIsTrue
  <2>7. QED
    BY <2>1, <2>2, <2>3, <2>4, <2>5, <2>6
<1>6. ASSUME NEW c \in Calls, StartStore(c)
      PROVE  IInv'
  <2>1. TypeOK'
    BY <1>6 DEF StartStore, TypeOK
  <2>2. Exclusive'
    BY <1>6 DEF StartStore, Exclusive
  <2>3. Builds'
    BY <1>6 DEF StartStore, TypeOK, Builds
  <2>4. Shared'
    BY <1>6 DEF StartStore, Shared
  <2>5. Connected'
    BY <1>6 DEF StartStore, Connected
  <2>6. OneBody'
    BY <1>6 DEF StartStore, OneBody, ReportIsTrue
  <2>7. QED
    BY <2>1, <2>2, <2>3, <2>4, <2>5, <2>6
<1>7. ASSUME NEW c \in Calls, StoreBuilt(c)
      PROVE  IInv'
  <2>1. TypeOK'
    BY <1>7 DEF StoreBuilt, TypeOK, Exclusive, Builds
  <2>2. Exclusive'
    BY <1>7 DEF StoreBuilt, TypeOK, Exclusive
  <2>3. Builds'
    BY <1>7 DEF StoreBuilt, TypeOK, Exclusive, Builds
  <2>4. Shared'
    <3>1. pipeline' \in {NoStore, store'}
      BY <1>7 DEF StoreBuilt, Builds, Shared
    <3>2. ASSUME NEW d \in Calls
          PROVE  /\ uses'[d] # NoStore => pc'[d] = "using" /\ uses'[d] = store'
                 /\ pc'[d] = "using" /\ want'[d] \in {"store", "pipeline"} =>
                      uses'[d] = store' /\ store' # NoStore
      <4>1. CASE want[c] = "store"
        BY <1>7, <4>1 DEF StoreBuilt, TypeOK, Builds, Shared
      <4>2. CASE want[c] # "store"
        BY <1>7, <4>2 DEF StoreBuilt, TypeOK, Builds, Shared
      <4>3. QED
        BY <4>1, <4>2
    <3>3. QED
      BY <3>1, <3>2 DEF Shared
  <2>5. Connected'
    BY <1>7 DEF StoreBuilt, Builds, Connected
  <2>6. OneBody'
    BY <1>7 DEF StoreBuilt, TypeOK, OneBody, ReportIsTrue
  <2>7. QED
    BY <2>1, <2>2, <2>3, <2>4, <2>5, <2>6
<1>8. ASSUME NEW c \in Calls, StoreUnreachable(c)
      PROVE  IInv'
  <2>1. TypeOK'
    BY <1>8 DEF StoreUnreachable, TypeOK, Exclusive, Builds
  <2>2. Exclusive'
    BY <1>8 DEF StoreUnreachable, TypeOK, Exclusive
  <2>3. Builds'
    BY <1>8 DEF StoreUnreachable, TypeOK, Builds
  <2>4. Shared'
    BY <1>8 DEF StoreUnreachable, Shared
  <2>5. Connected'
    BY <1>8 DEF StoreUnreachable, Connected
  <2>6. OneBody'
    BY <1>8 DEF StoreUnreachable, Connected, OneBody, ReportIsTrue
  <2>7. QED
    BY <2>1, <2>2, <2>3, <2>4, <2>5, <2>6
<1>9. ASSUME NEW c \in Calls, StoreKnown(c)
      PROVE  IInv'
  <2>1. TypeOK'
    BY <1>9 DEF StoreKnown, TypeOK
  <2>2. Exclusive'
    BY <1>9 DEF StoreKnown, Exclusive
  <2>3. Builds'
    BY <1>9 DEF StoreKnown, Builds
  <2>4. Shared'
    BY <1>9 DEF StoreKnown, Shared
  <2>5. Connected'
    BY <1>9 DEF StoreKnown, Connected
  <2>6. OneBody'
    BY <1>9 DEF StoreKnown, OneBody, ReportIsTrue
  <2>7. QED
    BY <2>1, <2>2, <2>3, <2>4, <2>5, <2>6
<1>10. ASSUME NEW c \in Calls, Assemble(c)
      PROVE  IInv'
  <2>1. TypeOK'
    BY <1>10 DEF Assemble, TypeOK, Builds, Connected
  <2>2. Exclusive'
    BY <1>10 DEF Assemble, TypeOK, Exclusive
  <2>3. Builds'
    BY <1>10 DEF Assemble, TypeOK, Builds
  <2>4. Shared'
    BY <1>10 DEF Assemble, TypeOK, Builds, Shared
  <2>5. Connected'
    BY <1>10 DEF Assemble, Connected
  <2>6. OneBody'
    BY <1>10 DEF Assemble, TypeOK, Connected, OneBody, ReportIsTrue
  <2>7. QED
    BY <2>1, <2>2, <2>3, <2>4, <2>5, <2>6
<1>11. ASSUME NEW c \in Calls, Finish(c)
      PROVE  IInv'
  <2>1. TypeOK'
    BY <1>11 DEF Finish, TypeOK
  <2>2. Exclusive'
    BY <1>11 DEF Finish, TypeOK, Exclusive
  <2>3. Builds'
    BY <1>11 DEF Finish, TypeOK, Builds
  <2>4. Shared'
    BY <1>11 DEF Finish, TypeOK, Shared
  <2>5. Connected'
    BY <1>11 DEF Finish, Connected
  <2>6. OneBody'
    BY <1>11 DEF Finish, TypeOK, Connected, OneBody, ReportIsTrue
  <2>7. QED
    BY <2>1, <2>2, <2>3, <2>4, <2>5, <2>6
<1>12. ASSUME NEW c \in Calls, Cancel(c)
      PROVE  IInv'
  <2>1. TypeOK'
    BY <1>12 DEF Cancel, TypeOK
  <2>2. Exclusive'
    BY <1>12 DEF Cancel, TypeOK, Exclusive
  <2>3. Builds'
    BY <1>12 DEF Cancel, TypeOK, Builds
  <2>4. Shared'
    BY <1>12 DEF Cancel, TypeOK, Shared
  <2>5. Connected'
    BY <1>12 DEF Cancel, Connected
  <2>6. OneBody'
    BY <1>12 DEF Cancel, OneBody, ReportIsTrue
  <2>7. QED
    BY <2>1, <2>2, <2>3, <2>4, <2>5, <2>6
<1>13. ASSUME NEW s \in Stores, ThreadEnds(s)
      PROVE  IInv'
  <2>1. TypeOK'
    BY <1>13 DEF ThreadEnds, TypeOK
  <2>2. Exclusive'
    BY <1>13 DEF ThreadEnds, Exclusive
  <2>3. Builds'
    BY <1>13 DEF ThreadEnds, Builds
  <2>4. Shared'
    BY <1>13 DEF ThreadEnds, Shared
  <2>5. Connected'
    BY <1>13 DEF ThreadEnds, Connected
  <2>6. OneBody'
    BY <1>13 DEF ThreadEnds, OneBody, ReportIsTrue
  <2>7. QED
    BY <2>1, <2>2, <2>3, <2>4, <2>5, <2>6
<1>14. ASSUME CloseStore
      PROVE  IInv'
  <2>1. TypeOK'
    BY <1>14 DEF CloseStore, TypeOK
  <2>2. Exclusive'
    BY <1>14 DEF CloseStore, Exclusive
  <2>3. Builds'
    BY <1>14 DEF CloseStore, Builds
  <2>4. Shared'
    BY <1>14 DEF CloseStore, Shared
  <2>5. Connected'
    BY <1>14 DEF CloseStore, Shared, Connected, ToClose, MayClose
  <2>6. OneBody'
    BY <1>14 DEF CloseStore, OneBody, ReportIsTrue, MayClose
  <2>7. QED
    BY <2>1, <2>2, <2>3, <2>4, <2>5, <2>6
<1>15. ASSUME CloseClient
      PROVE  IInv'
  <2>1. TypeOK'
    BY <1>15 DEF CloseClient, TypeOK
  <2>2. Exclusive'
    BY <1>15 DEF CloseClient, Exclusive
  <2>3. Builds'
    BY <1>15 DEF CloseClient, Builds
  <2>4. Shared'
    BY <1>15 DEF CloseClient, Shared
  <2>5. Connected'
    BY <1>15 DEF CloseClient, Connected
  <2>6. OneBody'
    BY <1>15 DEF CloseClient, OneBody, ReportIsTrue
  <2>7. QED
    BY <2>1, <2>2, <2>3, <2>4, <2>5, <2>6
<1>16. ASSUME Report
      PROVE  IInv'
  <2>1. TypeOK'
    BY <1>16 DEF Report, TypeOK, ReportOf
  <2>2. Exclusive'
    BY <1>16 DEF Report, Exclusive
  <2>3. Builds'
    BY <1>16 DEF Report, Builds
  <2>4. Shared'
    BY <1>16 DEF Report, Shared
  <2>5. Connected'
    BY <1>16 DEF Report, Connected
  <2>6. OneBody'
    BY <1>16 DEF Report, Connected, OneBody, ReportIsTrue, ReportOf
  <2>7. QED
    BY <2>1, <2>2, <2>3, <2>4, <2>5, <2>6
<1>17. ASSUME UNCHANGED vars
      PROVE  IInv'
  <2>1. TypeOK'
    BY <1>17 DEF vars, TypeOK
  <2>2. Exclusive'
    BY <1>17 DEF vars, Exclusive
  <2>3. Builds'
    BY <1>17 DEF vars, Builds
  <2>4. Shared'
    BY <1>17 DEF vars, Shared
  <2>5. Connected'
    BY <1>17 DEF vars, Connected
  <2>6. OneBody'
    BY <1>17 DEF vars, OneBody, ReportIsTrue
  <2>7. QED
    BY <2>1, <2>2, <2>3, <2>4, <2>5, <2>6
<1>18. QED
  BY <1>1, <1>2, <1>3, <1>4, <1>5, <1>6, <1>7, <1>8, <1>9, <1>10, <1>11, <1>12, <1>13,
     <1>14, <1>15, <1>16, <1>17 DEF Next, Step
-----------------------------------------------------------------------------
(* The theorems *)

\* IInv holds of an empty context and every step keeps it: for any number of
\* overlapping calls, cancelled, failed or answered, and any failed cleanup.
THEOREM InductiveInvariant == Spec => []IInv
<1>1. ASSUME Init
      PROVE  IInv
  <2>1. TypeOK /\ Exclusive /\ Builds /\ Shared
    BY <1>1 DEF Init, TypeOK, Exclusive, Builds, Shared, InLock, Resting, Ended, Wants
  <2>2. Connected /\ OneBody
    BY <1>1 DEF Init, Connected, OneBody, ReportIsTrue
  <2>3. QED
    BY <2>1, <2>2 DEF IInv
<1>2. QED
  BY <1>1, StepKeepsIInv, PTL DEF Spec

\* The state of the context keeps its types (AppContext, every operation).
THEOREM TypeCorrectness == Spec => []TypeOK
<1>1. IInv => TypeOK
  BY DEF IInv
<1>2. QED
  BY <1>1, InductiveInvariant, PTL

\* The lock makes the accessors exclusive across their awaits, although a call may
\* be cancelled at any of them (mcp/context.py, the *_locked methods).
THEOREM AccessorsAreExclusive == Spec => []OneBuilder
<1>1. IInv => OneBuilder
  BY DEF IInv, Exclusive, OneBuilder
<1>2. QED
  BY <1>1, InductiveInvariant, PTL

\* All calls work on one and the same store (mcp/context.py, store and pipeline).
THEOREM CallsShareOneStore == Spec => []OneStoreForAll
<1>1. IInv => OneStoreForAll
  BY DEF IInv, Shared, OneStoreForAll
<1>2. QED
  BY <1>1, InductiveInvariant, PTL

\* A store a call works on is not closed under it (aclose and its owners).
THEOREM UsedStoreIsOpen == Spec => []StoreInUseIsOpen
<1>1. ASSUME IInv, NEW c \in Calls, uses[c] # NoStore
      PROVE  uses[c] \in open
  <2>1. pc[c] = "using" /\ uses[c] = store
    BY <1>1 DEF IInv, Shared
  <2>2. owner = "serving"
    BY <1>1, <2>1 DEF IInv, Connected, Resting, Ended
  <2>3. QED
    BY <1>1, <2>1, <2>2 DEF IInv, Connected
<1>2. IInv => StoreInUseIsOpen
  BY <1>1 DEF StoreInUseIsOpen
<1>3. QED
  BY <1>2, InductiveInvariant, PTL

\* A closed context holds no connection, also when the store was built for a
\* pipeline that could not be assembled (aclose).
THEOREM ClosedIsClosed == Spec => []NothingLeftOpen
<1>1. IInv => NothingLeftOpen
  BY DEF IInv, Connected, NothingLeftOpen
<1>2. QED
  BY <1>1, InductiveInvariant, PTL

\* The body's failure wins over the cleanup's, and a printed result means that
\* everything was closed behind it (cli/main.py, run_command).
THEOREM ReportsAreTrue == Spec => []ReportIsTrue
<1>1. IInv => ReportIsTrue
  BY DEF IInv, OneBody
<1>2. QED
  BY <1>1, InductiveInvariant, PTL
-----------------------------------------------------------------------------
(* A call runs out of steps *)

\* How many steps a call has left once it has the lock, and one more to take it: the
\* build of a store, the assembly over it, and the body.
StepsLeft(c) ==
  IF pc[c] = "waiting" THEN 5
  ELSE IF pc[c] = "holding" THEN 4
  ELSE IF pc[c] = "building" THEN 3
  ELSE IF pc[c] = "assembling" THEN 2
  ELSE IF pc[c] = "using" THEN 1
  ELSE 0

\* It is a number, and it is the resting calls that have none left.
Counted ==
  \A c \in Calls : StepsLeft(c) \in Nat /\ (pc[c] \in Resting <=> StepsLeft(c) = 0)

\* A step of a call is nobody else's.
Acts(c) == Acquire(c) \/ Step(c) \/ Cancel(c)

\* It takes the call on, or to its end.
LEMMA StepsAreTaken ==
  ASSUME TypeOK, NEW c \in Calls, Acts(c)
  PROVE  /\ StepsLeft(c)' < StepsLeft(c)
         /\ \A d \in Calls \ {c} : pc'[d] = pc[d]
<1> USE DEF Goto, Return, Fail
<1>1. pc \in [Calls -> {"waiting", "using"} \cup InLock \cup Resting]
  BY DEF TypeOK
<1>2. ASSUME NEW phase, Goto(c, phase)
      PROVE  pc'[c] = phase /\ \A d \in Calls \ {c} : pc'[d] = pc[d]
  BY <1>1, <1>2
<1>3. \/ pc[c] = "waiting" /\ Goto(c, "holding")
      \/ pc[c] = "holding" /\ (\E p \in {"building", "assembling", "using", "failed"} : Goto(c, p))
      \/ pc[c] = "building" /\ (\E p \in {"assembling", "using", "failed"} : Goto(c, p))
      \/ pc[c] = "assembling" /\ (\E p \in {"using", "failed"} : Goto(c, p))
      \/ pc[c] = "using" /\ (\E p \in Ended : Goto(c, p))
      \/ pc[c] \in {"waiting", "building", "assembling", "using"} /\ Goto(c, "cancelled")
  BY DEF Acts, Acquire, Step, Memoized, BuildExtract, BuildNews, StartStore, StoreBuilt,
         StoreUnreachable, StoreKnown, Assemble, Finish, Cancel, Ended
<1> HIDE DEF Goto
<1>4. QED
  BY <1>2, <1>3 DEF StepsLeft, Ended

\* A call ends after at most five steps of its own, whatever it asked for and whoever is
\* cancelled: it waits for a lock once and builds a store once, and no step of another
\* call, a thread or the owner sends it back (mcp/context.py, the *_locked methods).
THEOREM CallsRunOut ==
  Spec => /\ []Counted
          /\ [][\A c \in Calls :
                  /\ Acts(c) => StepsLeft(c)' < StepsLeft(c)
                  /\ pc[c] \notin Resting => StepsLeft(c)' <= StepsLeft(c)]_vars
<1>1. TypeOK => Counted
  BY DEF TypeOK, Counted, StepsLeft, InLock, Resting, Ended
<1>2. ASSUME TypeOK, [Next]_vars, NEW c \in Calls, pc[c] \notin Resting
      PROVE  StepsLeft(c)' <= StepsLeft(c)
  <2>1. StepsLeft(c) \in Nat
    BY <1>1, <1>2 DEF Counted
  <2>2. ASSUME pc'[c] = pc[c]
        PROVE  StepsLeft(c)' <= StepsLeft(c)
    BY <2>1, <2>2 DEF StepsLeft
  <2>3. CASE Acts(c)
    <3>1. StepsLeft(c)' < StepsLeft(c) /\ StepsLeft(c)' \in Nat
      BY <1>2, <2>3, StepsAreTaken DEF StepsLeft
    <3>2. QED
      BY <2>1, <3>1
  <2>4. CASE \E d \in Calls \ {c} : Acts(d)
    BY <1>2, <2>2, <2>4, StepsAreTaken
  <2>5. ASSUME NEW d \in Calls, NEW w \in Wants, Call(d, w)
        PROVE  pc'[c] = pc[c]
    BY <1>2, <2>5 DEF Call, Goto, TypeOK
  <2>6. CASE UNCHANGED pc
    BY <2>2, <2>6
  <2>7. QED
    BY <1>2, <2>2, <2>3, <2>4, <2>5, <2>6
       DEF Next, Acts, ThreadEnds, CloseStore, CloseClient, Report, calls, vars
<1>3. TypeOK /\ [Next]_vars =>
        [\A c \in Calls :
           /\ Acts(c) => StepsLeft(c)' < StepsLeft(c)
           /\ pc[c] \notin Resting => StepsLeft(c)' <= StepsLeft(c)]_vars
  BY <1>2, StepsAreTaken
<1>4. QED
  BY <1>1, <1>3, TypeCorrectness, PTL DEF Spec
=============================================================================
