----------------------------- MODULE Extraction -----------------------------
(***************************************************************************)
(* What the regular expressions read out of a text (numerology/            *)
(* extraction.py): its numbers and its dates.  A text is a sequence of     *)
(* characters, a character is a digit 0..9 or Other.                       *)
(***************************************************************************)
EXTENDS Integers, Sequences, SequencesExt, FiniteSets

Digits == 0..9
Other  == 10

\* The matches of \d+: the longest stretches of digits, as <<first, last>>.
DigitRuns(text) ==
  { r \in (DOMAIN text) \X (DOMAIN text) :
      /\ r[1] <= r[2]
      /\ \A i \in r[1]..r[2] : text[i] \in Digits
      /\ r[1] - 1 \in DOMAIN text => text[r[1] - 1] = Other
      /\ r[2] + 1 \in DOMAIN text => text[r[2] + 1] = Other }

\* int(): leading zeros say nothing.
IntOf(digits) == FoldLeft(LAMBDA n, d : 10 * n + d, 0, digits)

\* The numbers of a text in its order, repeats kept.
ExtractNumbersRegex(text) ==
  LET runs == SetToSortSeq(DigitRuns(text), LAMBDA r, s : r[1] < s[1])
  IN [i \in DOMAIN runs |-> IntOf(SubSeq(text, runs[i][1], runs[i][2]))]

-----------------------------------------------------------------------------
(* A match of one of the three date patterns is [at, year, month, day]; its *)
(* year is NoYear when a month's name stands without one.                   *)

NoYear == -1

IsLeap(year) == year % 4 = 0 /\ (year % 100 # 0 \/ year % 400 = 0)

DaysIn(year, month) ==
  IF month = 2 THEN (IF IsLeap(year) THEN 29 ELSE 28)
  ELSE IF month \in {4, 6, 9, 11} THEN 30
  ELSE 31

\* The numbers that describe a calendar day; date() refuses the others.
BuildDate(year, month, day) ==
  IF year \in 1..9999 /\ month \in 1..12 /\ day \in 1..DaysIn(year, month)
    THEN {[year |-> year, month |-> month, day |-> day]}
    ELSE {}

\* A match without a year takes the current one.
DateOfMatch(m, defaultYear) ==
  BuildDate(IF m.year = NoYear THEN defaultYear ELSE m.year, m.month, m.day)

\* The dates that exist, in the order of the text.
ExtractDatesRegex(matches, defaultYear) ==
  LET valid == { m \in matches : DateOfMatch(m, defaultYear) # {} }
      found == SetToSortSeq(valid, LAMBDA m, n : m.at < n.at)
  IN [i \in DOMAIN found |-> CHOOSE d \in DateOfMatch(found[i], defaultYear) : TRUE]
=============================================================================
