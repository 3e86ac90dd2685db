---------------------------- MODULE ReadingRoom ----------------------------
(***************************************************************************)
(* What the forecast step promises whoever asks for a day's reading, with  *)
(* the stores it reads, the model and the patterns hidden.  The book holds *)
(* at most one reading per day.  A day that is read is answered from the   *)
(* book; only a call that found the day unread composes a reading, and it  *)
(* leaves with the one it has written.  A reading may be replaced, by a    *)
(* call that looked before the day was read; a page is never emptied.      *)
(***************************************************************************)
CONSTANTS Callers, Days, Readings, NoReading

VARIABLES
  book,     \* day -> the reading stored for it
  phase,    \* caller -> away, asked, composing or served
  day,      \* caller -> the day it asked for last
  answer    \* caller -> the reading it was served

vars == <<book, phase, day, answer>>

Init ==
  /\ book = [d \in Days |-> NoReading]
  /\ phase = [c \in Callers |-> "away"]
  /\ day \in [Callers -> Days]
  /\ answer = [c \in Callers |-> NoReading]

Moves(c, p, r) ==
  /\ phase' = [phase EXCEPT ![c] = p]
  /\ answer' = [answer EXCEPT ![c] = r]

Ask(c, d) ==
  /\ phase[c] \in {"away", "served"}
  /\ Moves(c, "asked", NoReading)
  /\ day' = [day EXCEPT ![c] = d]
  /\ UNCHANGED book

\* The day is read: the call is served what the book holds.
Serve(c) ==
  /\ phase[c] = "asked"
  /\ book[day[c]] # NoReading
  /\ Moves(c, "served", book[day[c]])
  /\ UNCHANGED <<book, day>>

\* The day is unread: the call composes its reading.
Compose(c) ==
  /\ phase[c] = "asked"
  /\ book[day[c]] = NoReading
  /\ Moves(c, "composing", NoReading)
  /\ UNCHANGED <<book, day>>

\* The call writes its reading, whatever the day's page holds by now.
Write(c) ==
  /\ phase[c] = "composing"
  /\ book'[day[c]] \in Readings
  /\ book' = [book EXCEPT ![day[c]] = book'[day[c]]]
  /\ Moves(c, "served", book'[day[c]])
  /\ UNCHANGED day

\* A call goes away, with its answer or without one.
GoAway(c) ==
  /\ Moves(c, "away", NoReading)
  /\ UNCHANGED <<book, day>>

Next ==
  \E c \in Callers :
    \/ \E d \in Days : Ask(c, d)
    \/ Serve(c)
    \/ Compose(c)
    \/ Write(c)
    \/ GoAway(c)

Spec == Init /\ [][Next]_vars
=============================================================================
