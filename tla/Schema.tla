------------------------------- MODULE Schema -------------------------------
(***************************************************************************)
(* Creating the collections and their payload indexes (vector/             *)
(* collections.py).  Every save asks first whether its collection exists,  *)
(* creates it if not, declares its payload indexes one by one and only     *)
(* then writes its point; ensure_collections does the same for all of      *)
(* them, without a point.  Each of these is a request of its own to a      *)
(* server that other processes write to.                                   *)
(*                                                                         *)
(* The server refuses to create a collection twice and accepts an index    *)
(* twice.  A writer may be cut short anywhere; nothing deletes a           *)
(* collection.                                                             *)
(***************************************************************************)
EXTENDS Integers, Sequences, Functions

CONSTANTS
  Writers,    \* saves and ensure_collections calls, concurrent
  Creators,   \* COLLECTION_CREATORS: the collections, in creation order
  SchemaOf    \* collection -> its indexed payload fields, in creation order

Collections == Range(Creators)
Fields == UNION { Range(SchemaOf[c]) : c \in Collections }

ASSUME CreatorsAssumption == Creators \in Seq(Collections) /\ Creators # <<>>
ASSUME SchemaAssumption == \A c \in Collections : SchemaOf[c] \in Seq(Fields) /\ SchemaOf[c] # <<>>

VARIABLES
  exists,     \* the collections the server has
  indexes,    \* collection -> the fields it has an index for
  points,     \* the collections a point was written to
  pc,         \* writer -> where it is
  todo,       \* writer -> the collections it still has to prepare
  at,         \* writer -> position in the schema of the first of them
  saves       \* writer -> whether it writes a point at the end

server == <<exists, indexes, points>>
vars   == <<server, pc, todo, at, saves>>

Active  == {"check", "create", "index", "upsert"}
Resting == {"idle", "done", "conflict", "failed"}

-----------------------------------------------------------------------------
Init ==
  /\ exists = {}
  /\ indexes = [c \in Collections |-> {}]
  /\ points = {}
  /\ pc = [w \in Writers |-> "idle"]
  /\ todo = [w \in Writers |-> <<>>]
  /\ at = [w \in Writers |-> 1]
  /\ saves = [w \in Writers |-> FALSE]

Goto(w, phase) == pc' = [pc EXCEPT ![w] = phase]

\* The collection in hand.
Current(w) == Head(todo[w])

Start(w, cs, save) ==
  /\ pc[w] \in Resting
  /\ Goto(w, "check")
  /\ todo' = [todo EXCEPT ![w] = cs]
  /\ at' = [at EXCEPT ![w] = 1]
  /\ saves' = [saves EXCEPT ![w] = save]
  /\ UNCHANGED server

\* save_pattern, save_digest, upsert_news...: one collection, then its point.
Save(w, c) == Start(w, <<c>>, TRUE)

\* ensure_collections: all of them.
Ensure(w) == Start(w, Creators, FALSE)

\* _create_collection asks first; its answer may be stale when it is used.
\* Mutant: a collection that exists is taken to be complete.
CheckTrusts(w) ==
  /\ pc[w] = "check"
  /\ IF Current(w) \notin exists THEN Goto(w, "create")
     ELSE Goto(w, IF saves[w] THEN "upsert" ELSE "done")
  /\ UNCHANGED <<server, todo, at, saves>>

Check(w) ==
  /\ pc[w] = "check"
  /\ Goto(w, IF Current(w) \in exists THEN "index" ELSE "create")
  /\ UNCHANGED <<server, todo, at, saves>>

\* The server refuses a name it has: another writer was faster.
\* Mutant: the creation is tried again until it succeeds.
CreateAgain(w) ==
  /\ pc[w] = "create"
  /\ IF Current(w) \in exists
       THEN UNCHANGED <<exists, pc>>
       ELSE exists' = exists \cup {Current(w)} /\ Goto(w, "index")
  /\ UNCHANGED <<indexes, points, todo, at, saves>>

Create(w) ==
  /\ pc[w] = "create"
  /\ IF Current(w) \in exists
       THEN Goto(w, "conflict") /\ UNCHANGED exists
       ELSE exists' = exists \cup {Current(w)} /\ Goto(w, "index")
  /\ UNCHANGED <<indexes, points, todo, at, saves>>

\* _create_indexes: the next field; after the last the next collection, or the
\* point.  Mutants: one field too few; one too many.
IndexAllButLast(w) ==
  /\ pc[w] = "index"
  /\ indexes' = [indexes EXCEPT ![Current(w)] = @ \cup {SchemaOf[Current(w)][at[w]]}]
  /\ IF at[w] + 1 < Len(SchemaOf[Current(w)])
       THEN at' = [at EXCEPT ![w] = @ + 1] /\ UNCHANGED <<pc, todo>>
       ELSE /\ at' = [at EXCEPT ![w] = 1]
            /\ IF Len(todo[w]) > 1
                 THEN todo' = [todo EXCEPT ![w] = Tail(@)] /\ Goto(w, "check")
                 ELSE Goto(w, IF saves[w] THEN "upsert" ELSE "done") /\ UNCHANGED todo
  /\ UNCHANGED <<exists, points, saves>>

IndexOneTooMany(w) ==
  /\ pc[w] = "index"
  /\ indexes' = [indexes EXCEPT ![Current(w)] = @ \cup {SchemaOf[Current(w)][at[w]]}]
  /\ IF at[w] <= Len(SchemaOf[Current(w)])
       THEN at' = [at EXCEPT ![w] = @ + 1] /\ UNCHANGED <<pc, todo>>
       ELSE /\ at' = [at EXCEPT ![w] = 1]
            /\ IF Len(todo[w]) > 1
                 THEN todo' = [todo EXCEPT ![w] = Tail(@)] /\ Goto(w, "check")
                 ELSE Goto(w, IF saves[w] THEN "upsert" ELSE "done") /\ UNCHANGED todo
  /\ UNCHANGED <<exists, points, saves>>

CreateIndex(w) ==
  /\ pc[w] = "index"
  /\ indexes' = [indexes EXCEPT ![Current(w)] = @ \cup {SchemaOf[Current(w)][at[w]]}]
  /\ IF at[w] < Len(SchemaOf[Current(w)])
       THEN at' = [at EXCEPT ![w] = @ + 1] /\ UNCHANGED <<pc, todo>>
       ELSE /\ at' = [at EXCEPT ![w] = 1]
            /\ IF Len(todo[w]) > 1
                 THEN todo' = [todo EXCEPT ![w] = Tail(@)] /\ Goto(w, "check")
                 ELSE Goto(w, IF saves[w] THEN "upsert" ELSE "done") /\ UNCHANGED todo
  /\ UNCHANGED <<exists, points, saves>>

\* The point is written.
Upsert(w) ==
  /\ pc[w] = "upsert"
  /\ points' = points \cup {Current(w)}
  /\ Goto(w, "done")
  /\ UNCHANGED <<exists, indexes, todo, at, saves>>

\* The writer's process ends, or a request of it fails.
CutShort(w) ==
  /\ pc[w] \in Active
  /\ Goto(w, "failed")
  /\ UNCHANGED <<server, todo, at, saves>>

Step(w) == Check(w) \/ Create(w) \/ CreateIndex(w) \/ Upsert(w)

Next ==
  \E w \in Writers :
    \/ \E c \in Collections : Save(w, c)
    \/ Ensure(w)
    \/ Step(w)
    \/ CutShort(w)

Spec == Init /\ [][Next]_vars

\* The server answers.
FairWriters == Spec /\ \A w \in Writers : WF_vars(Step(w))

-----------------------------------------------------------------------------
(* Properties *)

TypeOK ==
  /\ exists \subseteq Collections
  /\ indexes \in [Collections -> SUBSET Fields]
  /\ points \subseteq Collections
  /\ pc \in [Writers -> Active \cup Resting]
  /\ todo \in [Writers -> Seq(Collections)]
  /\ at \in [Writers -> Nat \ {0}]
  /\ \A w \in Writers : pc[w] \in Active =>
       todo[w] # <<>> /\ at[w] \in 1..Len(SchemaOf[Current(w)])
  /\ saves \in [Writers -> BOOLEAN]

\* "Payload indexes come first, not after the data": a collection that holds a
\* point has all of them, although a creator may have been cut short between
\* creating it and indexing it, and another may still be at it.
IndexedBeforePoints ==
  \A c \in points : c \in exists /\ Range(SchemaOf[c]) \subseteq indexes[c]

\* ensure_collections leaves every collection complete, whatever it found.
EnsuredIsComplete ==
  [][\A w \in Writers :
       pc[w] \in Active /\ pc'[w] = "done" /\ ~saves[w] =>
         \A c \in Collections :
           c \in exists' /\ Range(SchemaOf[c]) \subseteq indexes'[c]]_vars

\* A writer ends; one that lost the race to create does not wait for the winner.
WritersEnd == \A w \in Writers : pc[w] \in Active ~> pc[w] \in Resting
=============================================================================
