---------------------------- MODULE ArticleMemory ----------------------------
(***************************************************************************)
(* What the ingest step promises a reader of the store, with the three     *)
(* collections, the runs and their crashes hidden: an article is either    *)
(* unknown or remembered as a whole, with every number its text states and *)
(* the evidence (activation and pattern) of every number it is stored      *)
(* with.  An article is never forgotten.                                   *)
(*                                                                         *)
(* Ingest implements Spec whatever the number of concurrent runs, and      *)
(* SpecOnce when runs follow one another.                                  *)
(***************************************************************************)
CONSTANTS
  Ids,       \* news ids (uuid5 of the article's link)
  Items,     \* versions of articles, as the feeds report them
  Numbers,   \* the numbers an article can state
  IdOf,      \* the id of an item
  Stated,    \* the numbers the regex pass reads in an item's text
  Unknown    \* what is remembered of an article that was never stored

VARIABLE memory

\* Everything a reader may be told about the article `id`.
Recollections(id) ==
  { m \in [item : Items, numbers : SUBSET Numbers] :
      /\ IdOf[m.item] = id
      /\ Stated[m.item] \subseteq m.numbers }

Init == memory = [id \in Ids |-> Unknown]

\* A batch S of articles becomes known at once; the rest is left alone.
Remember(S) ==
  /\ DOMAIN memory' = Ids
  /\ \A id \in S : memory'[id] \in Recollections(id)
  /\ \A id \in Ids \ S : memory'[id] = memory[id]

Next == \E S \in SUBSET Ids : Remember(S)

Spec == Init /\ [][Next]_memory

\* The stronger promise of runs that do not overlap: what is remembered is final.
RememberOnce ==
  \E S \in SUBSET { id \in Ids : memory[id] = Unknown } : Remember(S)

SpecOnce == Init /\ [][RememberOnce]_memory
=============================================================================
