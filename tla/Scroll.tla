------------------------------- MODULE Scroll -------------------------------
(***************************************************************************)
(* Qdrant's scroll, as the range reads of src/ use it (vector/news.py,     *)
(* vector/history.py, vector/patterns.py): the points that match come in   *)
(* the order of their ids, a page at a time, and each answer names the     *)
(* point the next page starts at.  Nothing is held between two pages: each *)
(* is answered from what is stored when it is asked for.                   *)
(***************************************************************************)
EXTENDS Naturals, FiniteSets, FiniteSetsExt

\* The first `size` of the points that are left.
Page(left, size) == { p \in left : Cardinality({ q \in left : q < p }) < size }

\* The point the next page starts at, 0 when there is none.
Continuation(left, size) ==
  IF left = Page(left, size) THEN 0 ELSE Min(left \ Page(left, size))
=============================================================================
