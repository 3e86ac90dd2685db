---------------------------- MODULE SchemaProofs ----------------------------
(***************************************************************************)
(* Proofs about Schema, for any number of writers and collections and any  *)
(* schema: IndexedBeforePoints and EnsuredIsComplete.                      *)
(*                                                                         *)
(* Neither is inductive alone.  IInv adds what a writer has done so far: a *)
(* collection in hand exists once indexing began, its indexes up to the    *)
(* writer's position are declared, and what an ensure_collections call has *)
(* left behind is complete.  It is kept because the server only grows.     *)
(***************************************************************************)
EXTENDS Schema, TLAPS

Complete(c) == c \in exists /\ Range(SchemaOf[c]) \subseteq indexes[c]

\* What a writer has declared of the collection in hand: nothing while it checks
\* and creates, then the fields before its position, and at last all of them.
Declared(w) ==
  /\ pc[w] \in {"check", "create"} => at[w] = 1
  /\ pc[w] \in {"index", "upsert"} => Current(w) \in exists
  /\ pc[w] = "index" =>
       \A i \in 1..(at[w] - 1) : SchemaOf[Current(w)][i] \in indexes[Current(w)]
  /\ pc[w] = "upsert" => Complete(Current(w))

\* What an ensure_collections call has left behind it.
LeftBehind(w) ==
  pc[w] \in Active /\ ~saves[w] =>
    /\ pc[w] # "upsert"
    /\ \A c \in Collections : c \in Range(todo[w]) \/ Complete(c)

IInv ==
  /\ TypeOK
  /\ \A w \in Writers : Declared(w)
  /\ \A w \in Writers : LeftBehind(w)
  /\ IndexedBeforePoints

-----------------------------------------------------------------------------
(* Lemmas *)

\* What is in a nonempty list is its head or in its tail.
LEMMA HeadOrTail ==
  ASSUME NEW S, NEW s \in Seq(S), s # <<>>, NEW x \in Range(s), x # Head(s)
  PROVE  Len(s) > 1 /\ x \in Range(Tail(s))
<1>1. PICK i \in 1..Len(s) : s[i] = x
  BY DEF Range
<1>2. i # 1 /\ Len(s) > 1
  BY <1>1
<1>3. Tail(s) \in Seq(S) /\ i - 1 \in 1..Len(Tail(s)) /\ Tail(s)[i - 1] = x
  BY <1>1, <1>2
<1>4. Tail(s)[i - 1] \in Range(Tail(s))
  <2>1. DOMAIN Tail(s) = 1..Len(Tail(s))
    BY <1>3
  <2>2. QED
    BY <1>3, <2>1 DEF Range
<1>5. QED
  BY <1>2, <1>3, <1>4

\* What is left after the head of a longer list.
LEMMA LongTail ==
  ASSUME NEW S, NEW s \in Seq(S), Len(s) > 1
  PROVE  Tail(s) \in Seq(S) /\ Tail(s) # <<>>
<1>1. Len(Tail(s)) = Len(s) - 1 /\ Tail(s) \in Seq(S)
  OBVIOUS
<1>2. Len(Tail(s)) # 0
  BY <1>1
<1>3. ASSUME Tail(s) = <<>>
      PROVE  FALSE
  <2>1. Len(<<>>) = 0
    OBVIOUS
  <2>2. QED
    BY <1>2, <1>3, <2>1
<1>4. QED
  BY <1>1, <1>3

\* The collection in hand is a collection, and its schema a nonempty sequence.
LEMMA CurrentIsACollection ==
  ASSUME TypeOK, NEW w \in Writers, pc[w] \in Active
  PROVE  /\ Current(w) \in Collections
         /\ SchemaOf[Current(w)] \in Seq(Fields)
         /\ Len(SchemaOf[Current(w)]) \in Nat
         /\ at[w] \in 1..Len(SchemaOf[Current(w)])
         /\ todo[w] \in Seq(Collections) /\ todo[w] # <<>>
<1>1. todo[w] \in Seq(Collections) /\ todo[w] # <<>> /\ at[w] \in 1..Len(SchemaOf[Current(w)])
  BY DEF TypeOK
<1>2. Current(w) \in Collections
  BY <1>1 DEF Current
<1>3. QED
  BY <1>1, <1>2, SchemaAssumption

\* Every collection's schema has a first field.
LEMMA SchemaHasAFirst ==
  ASSUME NEW c \in Collections
  PROVE  1 \in 1..Len(SchemaOf[c])
<1>1. SchemaOf[c] \in Seq(Fields) /\ SchemaOf[c] # <<>>
  BY SchemaAssumption
<1>2. QED
  BY <1>1

\* The server only grows.
Grows ==
  /\ exists \subseteq exists'
  /\ \A c \in Collections : indexes[c] \subseteq indexes'[c]

\* No request takes anything from the server.
LEMMA ServerGrows ==
  ASSUME TypeOK, [Next]_vars
  PROVE  Grows
<1> USE DEF Grows, TypeOK
<1>1. ASSUME NEW w \in Writers, NEW c \in Collections, Save(w, c)
      PROVE  Grows
  BY <1>1 DEF Save, Start, server
<1>2. ASSUME NEW w \in Writers, Ensure(w)
      PROVE  Grows
  BY <1>2 DEF Ensure, Start, server
<1>3. ASSUME NEW w \in Writers, Check(w) \/ CutShort(w)
      PROVE  Grows
  BY <1>3 DEF Check, CutShort, server
<1>4. ASSUME NEW w \in Writers, Create(w)
      PROVE  Grows
  BY <1>4 DEF Create
<1>5. ASSUME NEW w \in Writers, CreateIndex(w)
      PROVE  Grows
  BY <1>5 DEF CreateIndex
<1>6. ASSUME NEW w \in Writers, Upsert(w)
      PROVE  Grows
  BY <1>6 DEF Upsert
<1>7. CASE UNCHANGED vars
  BY <1>7 DEF vars, server
<1>8. QED
  BY <1>1, <1>2, <1>3, <1>4, <1>5, <1>6, <1>7 DEF Next, Step

-----------------------------------------------------------------------------
(* The parts of the invariant *)

\* An empty server and writers at rest satisfy it.
LEMMA InitEstablishes == Init => IInv
<1> SUFFICES ASSUME Init PROVE IInv
  OBVIOUS
<1> USE DEF Init
<1>1. TypeOK
  BY DEF TypeOK, Active, Resting
<1>2. \A w \in Writers : Declared(w) /\ LeftBehind(w)
  BY DEF Declared, LeftBehind, Active
<1>3. IndexedBeforePoints
  BY DEF IndexedBeforePoints
<1>4. QED
  BY <1>1, <1>2, <1>3 DEF IInv

\* Types are kept.
LEMMA TypeStep ==
  ASSUME TypeOK, [Next]_vars
  PROVE  TypeOK'
<1> USE DEF TypeOK, Active, Resting
<1>1. ASSUME NEW v \in Writers, NEW cs \in Seq(Collections), cs # <<>>,
             NEW save \in BOOLEAN, Start(v, cs, save)
      PROVE  TypeOK'
  <2>1. 1 \in 1..Len(SchemaOf[Head(cs)])
    BY <1>1, SchemaHasAFirst
  <2>2. QED
    BY <1>1, <2>1 DEF Start, Goto, server, Current
<1>2. ASSUME NEW v \in Writers, NEW c \in Collections, Save(v, c)
      PROVE  TypeOK'
  <2>1. <<c>> \in Seq(Collections) /\ <<c>> # <<>>
    OBVIOUS
  <2>2. QED
    BY <1>1, <1>2, <2>1 DEF Save
<1>3. ASSUME NEW v \in Writers, Ensure(v)
      PROVE  TypeOK'
  BY <1>1, <1>3, CreatorsAssumption DEF Ensure
<1>4. ASSUME NEW v \in Writers, Check(v)
      PROVE  TypeOK'
  BY <1>4 DEF Check, Goto, server, Current
<1>5. ASSUME NEW v \in Writers, Create(v)
      PROVE  TypeOK'
  <2>1. Current(v) \in Collections
    BY <1>5, CurrentIsACollection DEF Create
  <2>2. QED
    BY <1>5, <2>1 DEF Create, Goto, Current
<1>6. ASSUME NEW v \in Writers, Upsert(v)
      PROVE  TypeOK'
  <2>1. Current(v) \in Collections
    BY <1>6, CurrentIsACollection DEF Upsert
  <2>2. QED
    BY <1>6, <2>1 DEF Upsert, Goto, Current
<1>7. ASSUME NEW v \in Writers, CutShort(v)
      PROVE  TypeOK'
  BY <1>7 DEF CutShort, Goto, server, Current
<1>8. ASSUME NEW v \in Writers, CreateIndex(v)
      PROVE  TypeOK'
  <2>1. /\ Current(v) \in Collections /\ todo[v] \in Seq(Collections) /\ todo[v] # <<>>
        /\ at[v] \in 1..Len(SchemaOf[Current(v)])
        /\ SchemaOf[Current(v)] \in Seq(Fields)
    BY <1>8, CurrentIsACollection DEF CreateIndex
  <2>2. indexes' \in [Collections -> SUBSET Fields]
    <3>1. SchemaOf[Current(v)][at[v]] \in Fields
      BY <2>1
    <3>2. QED
      BY <1>8, <2>1, <3>1 DEF CreateIndex
  <2>3. CASE at[v] < Len(SchemaOf[Current(v)])
    <3>1. at' = [at EXCEPT ![v] = at[v] + 1] /\ UNCHANGED <<pc, todo, exists, points, saves>>
      BY <1>8, <2>3 DEF CreateIndex
    <3>2. at[v] + 1 \in 1..Len(SchemaOf[Current(v)])
      BY <2>1, <2>3
    <3>3. QED
      BY <2>2, <3>1, <3>2 DEF Current
  <2>4. CASE ~(at[v] < Len(SchemaOf[Current(v)])) /\ Len(todo[v]) > 1
    <3>1. Tail(todo[v]) \in Seq(Collections) /\ Tail(todo[v]) # <<>>
      BY <2>1, <2>4, LongTail
    <3>2. 1 \in 1..Len(SchemaOf[Head(Tail(todo[v]))])
      BY <3>1, SchemaHasAFirst
    <3>3. /\ at' = [at EXCEPT ![v] = 1] /\ todo' = [todo EXCEPT ![v] = Tail(todo[v])]
          /\ pc' = [pc EXCEPT ![v] = "check"] /\ UNCHANGED <<exists, points, saves>>
      BY <1>8, <2>4 DEF CreateIndex, Goto
    <3>4. QED
      BY <2>2, <3>1, <3>2, <3>3 DEF Current
  <2>5. CASE ~(at[v] < Len(SchemaOf[Current(v)])) /\ ~(Len(todo[v]) > 1)
    <3>1. 1 \in 1..Len(SchemaOf[Current(v)])
      BY <2>1, SchemaHasAFirst
    <3>2. /\ at' = [at EXCEPT ![v] = 1] /\ UNCHANGED <<exists, points, saves, todo>>
          /\ pc' = [pc EXCEPT ![v] = IF saves[v] THEN "upsert" ELSE "done"]
      BY <1>8, <2>5 DEF CreateIndex, Goto
    <3>3. QED
      BY <2>1, <2>2, <3>1, <3>2 DEF Current
  <2>6. QED
    BY <2>3, <2>4, <2>5
<1>9. CASE UNCHANGED vars
  BY <1>9 DEF vars, server, Current
<1>10. QED
  BY <1>2, <1>3, <1>4, <1>5, <1>6, <1>7, <1>8, <1>9 DEF Next, Step

\* What a writer does leaves the others where they are.
LEMMA OthersStay ==
  ASSUME TypeOK, NEW v \in Writers, NEW w \in Writers, v # w,
         \/ \E c \in Collections : Save(v, c)
         \/ Ensure(v) \/ Step(v) \/ CutShort(v)
  PROVE  /\ pc'[w] = pc[w] /\ todo'[w] = todo[w] /\ at'[w] = at[w] /\ saves'[w] = saves[w]
<1> USE DEF TypeOK, Goto, server
<1>1. ASSUME NEW cs, NEW save, Start(v, cs, save)
      PROVE  pc'[w] = pc[w] /\ todo'[w] = todo[w] /\ at'[w] = at[w] /\ saves'[w] = saves[w]
  BY <1>1 DEF Start
<1>2. CASE (\E c \in Collections : Save(v, c)) \/ Ensure(v)
  BY <1>1, <1>2 DEF Save, Ensure
<1>3. CASE Check(v) \/ Create(v) \/ Upsert(v) \/ CutShort(v)
  BY <1>3 DEF Check, Create, Upsert, CutShort
<1>4. CASE CreateIndex(v)
  BY <1>4 DEF CreateIndex
<1>5. QED
  BY <1>2, <1>3, <1>4 DEF Step

\* A writer that does nothing keeps what it declared, since the server only grows.
LEMMA DeclaredStays ==
  ASSUME TypeOK, NEW w \in Writers, Declared(w), Grows,
         pc'[w] = pc[w], todo'[w] = todo[w], at'[w] = at[w]
  PROVE  Declared(w)'
<1>1. CASE pc[w] \in Active
  <2>1. Current(w) \in Collections /\ Current(w)' = Current(w)
    BY <1>1, CurrentIsACollection DEF Current
  <2>2. QED
    BY <2>1 DEF Declared, Grows, Complete
<1>2. CASE pc[w] \notin Active
  BY <1>2 DEF Declared, Active
<1>3. QED
  BY <1>1, <1>2

\* Complete collections stay complete.
LEMMA CompleteStays ==
  ASSUME NEW c \in Collections, Complete(c), Grows
  PROVE  Complete(c)'
BY DEF Complete, Grows

\* What a writer left complete stays so while the writer stays put.
LEMMA LeftBehindStays ==
  ASSUME TypeOK, NEW w \in Writers, LeftBehind(w), Grows,
         pc'[w] = pc[w], todo'[w] = todo[w], saves'[w] = saves[w]
  PROVE  LeftBehind(w)'
BY CompleteStays DEF LeftBehind

\* At the end of its schema the collection in hand is complete.
LEMMA LastIndexCompletes ==
  ASSUME TypeOK, NEW w \in Writers, Declared(w), CreateIndex(w),
         ~(at[w] < Len(SchemaOf[Current(w)]))
  PROVE  Current(w) \in exists' /\ Range(SchemaOf[Current(w)]) \subseteq indexes'[Current(w)]
<1>1. /\ Current(w) \in Collections /\ SchemaOf[Current(w)] \in Seq(Fields)
      /\ Len(SchemaOf[Current(w)]) \in Nat
      /\ at[w] \in 1..Len(SchemaOf[Current(w)])
  BY CurrentIsACollection DEF CreateIndex, Active
<1>2. indexes'[Current(w)] = indexes[Current(w)] \cup {SchemaOf[Current(w)][at[w]]}
  BY <1>1 DEF CreateIndex, TypeOK
<1>3. \A i \in 1..Len(SchemaOf[Current(w)]) : SchemaOf[Current(w)][i] \in indexes'[Current(w)]
  BY <1>1, <1>2 DEF Declared, CreateIndex
<1>4. DOMAIN SchemaOf[Current(w)] = 1..Len(SchemaOf[Current(w)])
  BY <1>1
<1>5. QED
  BY <1>3, <1>4 DEF Range, Declared, CreateIndex

\* What writers declared is kept.
LEMMA DeclaredStep ==
  ASSUME IInv, [Next]_vars, NEW w \in Writers
  PROVE  Declared(w)'
<1> USE DEF IInv
<1>0. Grows /\ TypeOK'
  BY ServerGrows, TypeStep
<1>1. ASSUME NEW v \in Writers, v # w,
             \/ \E c \in Collections : Save(v, c)
             \/ Ensure(v) \/ Step(v) \/ CutShort(v)
      PROVE  Declared(w)'
  BY <1>0, <1>1, OthersStay, DeclaredStays
<1>2. CASE (\E c \in Collections : Save(w, c)) \/ Ensure(w) \/ CutShort(w)
  <2>1. pc'[w] = "failed" \/ (pc'[w] = "check" /\ at'[w] = 1)
    BY <1>2 DEF Save, Ensure, Start, CutShort, Goto, TypeOK
  <2>2. QED
    BY <2>1 DEF Declared
<1>3. CASE Check(w)
  <2>1. Current(w) \in Collections
    BY <1>3, CurrentIsACollection DEF Check, Active
  <2>2. at[w] = 1 /\ at' = at /\ todo' = todo /\ exists' = exists
    BY <1>3 DEF Declared, Check, server
  <2>3. pc'[w] = IF Current(w) \in exists THEN "index" ELSE "create"
    BY <1>3 DEF Check, Goto, TypeOK
  <2>4. QED
    BY <2>2, <2>3 DEF Declared, Current
<1>4. CASE Create(w)
  <2>1. at[w] = 1 /\ at' = at /\ todo' = todo
    BY <1>4 DEF Declared, Create
  <2>2. pc'[w] = "conflict" \/ (pc'[w] = "index" /\ Current(w) \in exists')
    BY <1>4 DEF Create, Goto, TypeOK
  <2>3. QED
    BY <2>1, <2>2 DEF Declared, Current
<1>5. CASE CreateIndex(w)
  <2>1. /\ Current(w) \in Collections /\ Current(w) \in exists /\ exists' = exists
        /\ at[w] \in 1..Len(SchemaOf[Current(w)]) /\ Len(SchemaOf[Current(w)]) \in Nat
    BY <1>5, CurrentIsACollection DEF CreateIndex, Active, Declared
  <2>2. CASE at[w] < Len(SchemaOf[Current(w)])
    <3>1. pc'[w] = "index" /\ todo' = todo /\ at'[w] = at[w] + 1
      BY <1>5, <2>2 DEF CreateIndex, TypeOK
    <3>2. indexes'[Current(w)] = indexes[Current(w)] \cup {SchemaOf[Current(w)][at[w]]}
      BY <1>5, <2>1 DEF CreateIndex, TypeOK
    <3>3. \A i \in 1..(at[w] - 1) : SchemaOf[Current(w)][i] \in indexes[Current(w)]
      BY <1>5 DEF CreateIndex, Declared
    <3>4. \A i \in 1..at[w] : SchemaOf[Current(w)][i] \in indexes'[Current(w)]
      BY <2>1, <3>2, <3>3
    <3>5. QED
      BY <2>1, <3>1, <3>4 DEF Declared, Current
  <2>3. CASE ~(at[w] < Len(SchemaOf[Current(w)])) /\ Len(todo[w]) > 1
    BY <1>5, <2>3 DEF CreateIndex, Declared, Goto, TypeOK
  <2>4. CASE ~(at[w] < Len(SchemaOf[Current(w)])) /\ ~(Len(todo[w]) > 1)
    <3>1. pc'[w] \in {"upsert", "done"} /\ Current(w)' = Current(w)
      BY <1>5, <2>4 DEF CreateIndex, Goto, TypeOK, Current
    <3>2. QED
      BY <1>5, <2>1, <2>4, <3>1, LastIndexCompletes DEF Declared, Complete
  <2>5. QED
    BY <2>2, <2>3, <2>4
<1>6. CASE Upsert(w)
  BY <1>6 DEF Upsert, Goto, TypeOK, Declared
<1>7. CASE UNCHANGED vars
  BY <1>0, <1>7, DeclaredStays DEF vars
<1>8. QED
  BY <1>1, <1>2, <1>3, <1>4, <1>5, <1>6, <1>7 DEF Next, Step

\* What an ensure_collections call has left behind it is kept complete.
LEMMA LeftBehindStep ==
  ASSUME IInv, [Next]_vars, NEW w \in Writers
  PROVE  LeftBehind(w)'
<1> USE DEF IInv
<1>0. Grows /\ TypeOK'
  BY ServerGrows, TypeStep
<1>1. ASSUME NEW v \in Writers, v # w,
             \/ \E c \in Collections : Save(v, c)
             \/ Ensure(v) \/ Step(v) \/ CutShort(v)
      PROVE  LeftBehind(w)'
  BY <1>0, <1>1, OthersStay, LeftBehindStays
<1>2. CASE \E c \in Collections : Save(w, c)
  BY <1>2 DEF Save, Start, LeftBehind, TypeOK
<1>3. CASE Ensure(w)
  <2>1. pc'[w] = "check" /\ todo'[w] = Creators
    BY <1>3 DEF Ensure, Start, Goto, TypeOK
  <2>2. Range(todo'[w]) = Collections
    BY <2>1 DEF Collections
  <2>3. QED
    BY <2>1, <2>2 DEF LeftBehind
<1>4. CASE Check(w) \/ Create(w)
  <2>1. /\ todo'[w] = todo[w] /\ saves'[w] = saves[w] /\ pc'[w] # "upsert"
        /\ pc[w] \in Active
    BY <1>4 DEF Check, Create, Goto, TypeOK, Active
  <2>2. QED
    BY <1>0, <2>1, CompleteStays DEF LeftBehind
<1>5. CASE CreateIndex(w)
  <2> SUFFICES ASSUME pc'[w] \in Active, ~saves'[w]
               PROVE  /\ pc'[w] # "upsert"
                      /\ \A c \in Collections : c \in Range(todo'[w]) \/ Complete(c)'
    BY DEF LeftBehind
  <2>1. saves'[w] = saves[w] /\ pc[w] \in Active /\ todo[w] \in Seq(Collections) /\ todo[w] # <<>>
    BY <1>5 DEF CreateIndex, Active, TypeOK
  <2>2. \A c \in Collections : c \in Range(todo[w]) \/ Complete(c)'
    BY <1>0, <2>1, CompleteStays DEF LeftBehind
  <2>3. CASE at[w] < Len(SchemaOf[Current(w)])
    BY <1>5, <2>2, <2>3 DEF CreateIndex
  <2>4. CASE ~(at[w] < Len(SchemaOf[Current(w)])) /\ Len(todo[w]) > 1
    <3>1. todo'[w] = Tail(todo[w]) /\ pc'[w] = "check"
      BY <1>5, <2>4 DEF CreateIndex, Goto, TypeOK
    <3>2. \A c \in Collections : c = Head(todo[w]) => Complete(c)'
      BY <1>5, <2>4, LastIndexCompletes DEF Complete, Current
    <3>3. \A c \in Range(todo[w]) : c = Head(todo[w]) \/ c \in Range(Tail(todo[w]))
      BY <2>1, HeadOrTail
    <3>4. QED
      BY <2>2, <3>1, <3>2, <3>3
  <2>5. CASE ~(at[w] < Len(SchemaOf[Current(w)])) /\ ~(Len(todo[w]) > 1)
    BY <1>5, <2>1, <2>5 DEF CreateIndex, Goto, TypeOK, Active
  <2>6. QED
    BY <2>3, <2>4, <2>5
<1>6. CASE Upsert(w) \/ CutShort(w)
  BY <1>6 DEF Upsert, CutShort, Goto, TypeOK, LeftBehind, Active
<1>7. CASE UNCHANGED vars
  BY <1>0, <1>7, LeftBehindStays DEF vars
<1>8. QED
  BY <1>1, <1>2, <1>3, <1>4, <1>5, <1>6, <1>7 DEF Next, Step

\* A point is written to a complete collection only.
LEMMA PointsStep ==
  ASSUME IInv, [Next]_vars
  PROVE  IndexedBeforePoints'
<1> USE DEF IInv
<1>0. Grows
  BY ServerGrows
<1>1. \A c \in points : Complete(c)
  BY DEF IndexedBeforePoints, Complete
<1>2. points \subseteq Collections
  BY DEF TypeOK
<1>3. ASSUME points' = points
      PROVE  IndexedBeforePoints'
  BY <1>0, <1>1, <1>2, <1>3, CompleteStays DEF IndexedBeforePoints, Complete
<1>4. ASSUME NEW w \in Writers, Upsert(w)
      PROVE  IndexedBeforePoints'
  <2>1. Complete(Current(w))
    BY <1>4 DEF Upsert, Declared
  <2>2. points' = points \cup {Current(w)} /\ exists' = exists /\ indexes' = indexes
    BY <1>4 DEF Upsert
  <2>3. QED
    BY <1>1, <2>1, <2>2 DEF IndexedBeforePoints, Complete
<1>5. ASSUME NEW w \in Writers, ~Upsert(w),
             \/ \E c \in Collections : Save(w, c)
             \/ Ensure(w) \/ Step(w) \/ CutShort(w)
      PROVE  points' = points
  BY <1>5 DEF Save, Ensure, Start, Step, Check, Create, CreateIndex, CutShort, server
<1>6. CASE UNCHANGED vars
  BY <1>3, <1>6 DEF vars, server
<1>7. QED
  BY <1>3, <1>4, <1>5, <1>6 DEF Next

-----------------------------------------------------------------------------
(* The theorems *)

\* IInv holds of a server without collections and every request keeps it, for any
\* number of writers cut short between any two of them.
THEOREM InductiveInvariant == Spec => []IInv
<1>1. Init => IInv
  BY InitEstablishes
<1>2. IInv /\ [Next]_vars => IInv'
  <2> SUFFICES ASSUME IInv, [Next]_vars
               PROVE  IInv'
    OBVIOUS
  <2>1. TypeOK'
    BY TypeStep DEF IInv
  <2>2. IndexedBeforePoints'
    BY PointsStep
  <2>3. \A w \in Writers : Declared(w)' /\ LeftBehind(w)'
    BY DeclaredStep, LeftBehindStep
  <2>4. QED
    BY <2>1, <2>2, <2>3 DEF IInv
<1>3. QED
  BY <1>1, <1>2, PTL DEF Spec

\* The state of the writers keeps its types: a position within the schema of the
\* collection in hand among them (collections.py, _create_indexes).
THEOREM TypeCorrectness == Spec => []TypeOK
<1>1. IInv => TypeOK
  BY DEF IInv
<1>2. QED
  BY <1>1, InductiveInvariant, PTL

\* No collection ever holds a point before all its payload indexes are declared,
\* whatever other writers do and wherever a creator was cut short.
THEOREM PointsAreIndexed == Spec => []IndexedBeforePoints
<1>1. IInv => IndexedBeforePoints
  BY DEF IInv
<1>2. QED
  BY <1>1, InductiveInvariant, PTL

\* An ensure_collections call that returns leaves every collection complete.
THEOREM EnsureCompletes == Spec => EnsuredIsComplete
<1>1. IInv /\ [Next]_vars =>
        [\A w \in Writers :
           pc[w] \in Active /\ pc'[w] = "done" /\ ~saves[w] =>
             \A c \in Collections :
               c \in exists' /\ Range(SchemaOf[c]) \subseteq indexes'[c]]_vars
  <2> SUFFICES ASSUME IInv, Next, NEW w \in Writers, NEW c \in Collections,
                      pc[w] \in Active, pc'[w] = "done", ~saves[w]
               PROVE  Complete(c)'
    BY DEF Complete
  <2> USE DEF IInv
  <2>1. CreateIndex(w)
    <3>1. ASSUME NEW v \in Writers, v # w,
                 \/ \E d \in Collections : Save(v, d)
                 \/ Ensure(v) \/ Step(v) \/ CutShort(v)
          PROVE  FALSE
      <4>1. pc'[w] = pc[w]
        BY <3>1, OthersStay
      <4>2. QED
        BY <4>1 DEF Active
    <3>2. ~ \/ \E d \in Collections : Save(w, d)
            \/ Ensure(w) \/ Check(w) \/ Create(w) \/ CutShort(w)
      BY DEF Save, Ensure, Start, Check, Create, CutShort, Goto, TypeOK
    <3>3. ~Upsert(w)
      BY DEF Upsert, LeftBehind
    <3>4. QED
      BY <3>1, <3>2, <3>3 DEF Next, Step
  <2>2. ~(at[w] < Len(SchemaOf[Current(w)])) /\ ~(Len(todo[w]) > 1)
    BY <2>1 DEF CreateIndex, Goto, TypeOK
  <2>3. todo[w] \in Seq(Collections) /\ todo[w] # <<>>
    BY DEF TypeOK
  <2>4. \A d \in Range(todo[w]) : d = Head(todo[w])
    BY <2>2, <2>3, HeadOrTail
  <2>5. c = Head(todo[w]) => Complete(c)'
    BY <2>1, <2>2, LastIndexCompletes DEF Complete, Current
  <2>6. Complete(c) => Complete(c)'
    BY ServerGrows, CompleteStays
  <2>7. QED
    BY <2>4, <2>5, <2>6 DEF LeftBehind
<1>2. QED
  BY <1>1, InductiveInvariant, PTL DEF Spec, EnsuredIsComplete

-----------------------------------------------------------------------------
(* A writer runs out of requests *)

\* How many requests a writer can still make when no schema has more than `longest`
\* fields: those for the collections after the one in hand, and those for it.
Later(w, longest) == (Len(todo[w]) - 1) * (longest + 2)

RequestsLeft(w, longest) ==
  IF pc[w] = "check" THEN Later(w, longest) + longest + 3
  ELSE IF pc[w] = "create" THEN Later(w, longest) + longest + 2
  ELSE IF pc[w] = "index" THEN Later(w, longest) + longest + 2 - at[w]
  ELSE IF pc[w] = "upsert" THEN 1
  ELSE 0

\* It is a number, and it is the resting writers that have none left.
Counted(longest) ==
  \A w \in Writers :
    /\ RequestsLeft(w, longest) \in Nat
    /\ pc[w] \in Active <=> RequestsLeft(w, longest) > 0

\* The requests for the collections that wait are a number of them.
LEMMA LaterIsCounted ==
  ASSUME TypeOK, NEW w \in Writers, pc[w] \in Active, NEW longest \in Nat
  PROVE  Len(todo[w]) \in Nat \ {0} /\ Later(w, longest) \in Nat
<1>1. todo[w] \in Seq(Collections) /\ todo[w] # <<>>
  BY CurrentIsACollection
<1>2. Len(todo[w]) \in Nat \ {0}
  BY <1>1
<1>3. \A m, n \in Nat : m * n \in Nat
  OBVIOUS
<1>4. Len(todo[w]) - 1 \in Nat /\ longest + 2 \in Nat
  BY <1>2
<1>5. QED
  BY <1>2, <1>3, <1>4 DEF Later

\* A writer's place fixes whether it has any request left.
LEMMA RequestsAreCounted ==
  ASSUME NEW longest \in Nat, \A c \in Collections : Len(SchemaOf[c]) <= longest
  PROVE  IInv => Counted(longest)
<1> SUFFICES ASSUME IInv, NEW w \in Writers
             PROVE  /\ RequestsLeft(w, longest) \in Nat
                    /\ pc[w] \in Active <=> RequestsLeft(w, longest) > 0
  BY DEF Counted
<1>1. TypeOK /\ pc[w] \in Active \cup Resting
  BY DEF IInv, TypeOK
<1>2. CASE pc[w] \notin Active
  BY <1>1, <1>2 DEF RequestsLeft, Active, Resting
<1>3. CASE pc[w] \in Active
  <2>1. Later(w, longest) \in Nat
    BY <1>1, <1>3, LaterIsCounted
  <2>2. at[w] \in Nat /\ 1 <= at[w] /\ at[w] <= longest
    <3>1. /\ Current(w) \in Collections /\ at[w] \in 1..Len(SchemaOf[Current(w)])
          /\ Len(SchemaOf[Current(w)]) \in Nat
      BY <1>1, <1>3, CurrentIsACollection
    <3>2. Len(SchemaOf[Current(w)]) <= longest
      BY <3>1
    <3>3. QED
      BY <3>1, <3>2
  <2>3. QED
    BY <1>3, <2>1, <2>2 DEF RequestsLeft, Active
<1>4. QED
  BY <1>2, <1>3

\* Every request of a writer is one of those it has left.
LEMMA RequestsAreMade ==
  ASSUME NEW longest \in Nat, \A c \in Collections : Len(SchemaOf[c]) <= longest,
         IInv, NEW w \in Writers, Step(w) \/ CutShort(w)
  PROVE  RequestsLeft(w, longest)' < RequestsLeft(w, longest)
<1> USE DEF Goto, server
<1>1. TypeOK /\ pc[w] \in Active
  BY DEF IInv, Step, Check, Create, CreateIndex, Upsert, CutShort, Active
<1>2. pc \in [Writers -> Active \cup Resting] /\ at \in [Writers -> Nat \ {0}]
  BY <1>1 DEF TypeOK
<1>3. Later(w, longest) \in Nat /\ Len(todo[w]) \in Nat \ {0}
  BY <1>1, LaterIsCounted
<1>4. at[w] \in Nat /\ 1 <= at[w] /\ at[w] <= longest
  <2>1. /\ Current(w) \in Collections /\ at[w] \in 1..Len(SchemaOf[Current(w)])
        /\ Len(SchemaOf[Current(w)]) \in Nat
    BY <1>1, CurrentIsACollection
  <2>2. Len(SchemaOf[Current(w)]) <= longest
    BY <2>1
  <2>3. QED
    BY <2>1, <2>2
<1>5. ASSUME pc'[w] \in Resting
      PROVE  RequestsLeft(w, longest)' < RequestsLeft(w, longest)
  <2>1. RequestsLeft(w, longest)' = 0
    BY <1>5 DEF RequestsLeft, Resting
  <2>2. RequestsLeft(w, longest) \in Nat /\ RequestsLeft(w, longest) > 0
    BY <1>1, RequestsAreCounted DEF Counted
  <2>3. QED
    BY <2>1, <2>2
<1>6. CASE Check(w)
  <2>1. /\ pc[w] = "check" /\ pc'[w] \in {"index", "create"}
        /\ todo'[w] = todo[w] /\ at'[w] = at[w]
    BY <1>2, <1>6 DEF Check
  <2>2. Later(w, longest)' = Later(w, longest)
    BY <2>1 DEF Later
  <2>3. QED
    BY <1>3, <1>4, <2>1, <2>2 DEF RequestsLeft
<1>7. CASE Create(w)
  <2>1. CASE pc'[w] = "conflict"
    BY <1>5, <2>1 DEF Resting
  <2>2. CASE pc'[w] # "conflict"
    <3>1. /\ pc[w] = "create" /\ pc'[w] = "index"
          /\ todo'[w] = todo[w] /\ at'[w] = at[w]
      BY <1>2, <1>7, <2>2 DEF Create
    <3>2. Later(w, longest)' = Later(w, longest)
      BY <3>1 DEF Later
    <3>3. QED
      BY <1>3, <1>4, <3>1, <3>2 DEF RequestsLeft
  <2>3. QED
    BY <2>1, <2>2
<1>8. CASE CreateIndex(w)
  <2>1. pc[w] = "index" /\ RequestsLeft(w, longest) = Later(w, longest) + longest + 2 - at[w]
    BY <1>8 DEF CreateIndex, RequestsLeft
  <2>2. CASE at[w] < Len(SchemaOf[Current(w)])
    <3>1. pc'[w] = "index" /\ todo'[w] = todo[w] /\ at'[w] = at[w] + 1
      BY <1>2, <1>8, <2>1, <2>2 DEF CreateIndex
    <3>2. Later(w, longest)' = Later(w, longest)
      BY <3>1 DEF Later
    <3>3. RequestsLeft(w, longest)' = Later(w, longest) + longest + 2 - (at[w] + 1)
      BY <3>1, <3>2 DEF RequestsLeft
    <3>4. QED
      BY <1>3, <1>4, <2>1, <3>3
  <2>3. CASE ~(at[w] < Len(SchemaOf[Current(w)])) /\ Len(todo[w]) > 1
    <3>1. pc'[w] = "check" /\ todo'[w] = Tail(todo[w])
      BY <1>1, <1>2, <1>8, <2>3 DEF CreateIndex, TypeOK
    <3>2. todo[w] \in Seq(Collections) /\ todo[w] # <<>>
      BY <1>1, CurrentIsACollection
    <3>3. Len(todo'[w]) = Len(todo[w]) - 1
      BY <3>1, <3>2
    <3>4. Later(w, longest)' = Later(w, longest) - (longest + 2)
      <4>1. \A m, n \in Int : (m - 1) * n = m * n - n
        OBVIOUS
      <4>2. Len(todo[w]) - 1 \in Int /\ longest + 2 \in Int
        BY <1>3
      <4>3. QED
        BY <3>3, <4>1, <4>2 DEF Later
    <3>5. RequestsLeft(w, longest)' = Later(w, longest)' + longest + 3
      BY <3>1 DEF RequestsLeft
    <3>6. QED
      BY <1>3, <1>4, <2>1, <3>4, <3>5
  <2>4. CASE ~(at[w] < Len(SchemaOf[Current(w)])) /\ ~(Len(todo[w]) > 1)
    <3>1. pc'[w] \in {"upsert", "done"}
      BY <1>2, <1>8, <2>4 DEF CreateIndex
    <3>2. CASE pc'[w] = "upsert"
      <4>1. RequestsLeft(w, longest)' = 1
        BY <3>2 DEF RequestsLeft
      <4>2. QED
        BY <1>3, <1>4, <2>1, <4>1
    <3>3. QED
      BY <1>5, <3>1, <3>2 DEF Resting
  <2>5. QED
    BY <2>2, <2>3, <2>4
<1>9. CASE Upsert(w) \/ CutShort(w)
  BY <1>2, <1>5, <1>9 DEF Upsert, CutShort, Resting
<1>10. QED
  BY <1>6, <1>7, <1>8, <1>9 DEF Step

\* A writer ends after at most Len(todo) * (longest + 2) + 1 requests, however many others
\* race it: each leaves it fewer, and nothing else gives it more (ensure_collections; no
\* request is tried again).
THEOREM WritersRunOut ==
  ASSUME NEW longest \in Nat, \A c \in Collections : Len(SchemaOf[c]) <= longest
  PROVE  Spec => /\ []Counted(longest)
                 /\ [][\A w \in Writers :
                         /\ Step(w) \/ CutShort(w) =>
                              RequestsLeft(w, longest)' < RequestsLeft(w, longest)
                         /\ pc[w] \in Active =>
                              RequestsLeft(w, longest)' <= RequestsLeft(w, longest)]_vars
<1>1. IInv => Counted(longest)
  BY RequestsAreCounted
<1>2. IInv' => Counted(longest)'
  BY <1>1, PTL
<1>3. ASSUME IInv, IInv', [Next]_vars, NEW w \in Writers, pc[w] \in Active
      PROVE  RequestsLeft(w, longest)' <= RequestsLeft(w, longest)
  <2>1. RequestsLeft(w, longest) \in Nat /\ RequestsLeft(w, longest)' \in Nat
    BY <1>1, <1>2, <1>3 DEF Counted
  <2>2. CASE Step(w) \/ CutShort(w)
    BY <2>1, <2>2, <1>3, RequestsAreMade
  <2>3. ASSUME pc'[w] = pc[w], todo'[w] = todo[w], at'[w] = at[w]
        PROVE  RequestsLeft(w, longest)' <= RequestsLeft(w, longest)
    <3>1. RequestsLeft(w, longest)' = RequestsLeft(w, longest)
      BY <2>3 DEF RequestsLeft, Later
    <3>2. QED
      BY <2>1, <3>1
  <2>4. ASSUME NEW v \in Writers, v # w,
               \/ \E c \in Collections : Save(v, c)
               \/ Ensure(v) \/ Step(v) \/ CutShort(v)
        PROVE  RequestsLeft(w, longest)' <= RequestsLeft(w, longest)
    BY <1>3, <2>3, <2>4, OthersStay DEF IInv
  <2>5. ~ (Ensure(w) \/ \E c \in Collections : Save(w, c))
    BY <1>3 DEF Ensure, Save, Start, Active, Resting
  <2>6. CASE UNCHANGED vars
    BY <2>3, <2>6 DEF vars
  <2>7. QED
    BY <1>3, <2>2, <2>4, <2>5, <2>6 DEF Next
<1>4. IInv /\ IInv' /\ [Next]_vars =>
        [\A w \in Writers :
           /\ Step(w) \/ CutShort(w) => RequestsLeft(w, longest)' < RequestsLeft(w, longest)
           /\ pc[w] \in Active =>
                RequestsLeft(w, longest)' <= RequestsLeft(w, longest)]_vars
  BY <1>3, RequestsAreMade
<1>5. QED
  BY <1>1, <1>4, InductiveInvariant, PTL DEF Spec
=============================================================================
