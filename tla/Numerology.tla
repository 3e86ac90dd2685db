----------------------------- MODULE Numerology -----------------------------
(***************************************************************************)
(* The pure arithmetic of the numerology layer: digit reduction with its   *)
(* master numbers, the letters of a text, the dominant value of a set of   *)
(* readings and the resonance of dates.                                    *)
(***************************************************************************)
EXTENDS Integers, Sequences, SequencesExt, FiniteSets

MasterNumbers == {11, 22, 33}

ReducedNumbers == 1..9 \cup MasterNumbers

IsMaster(n) == n \in MasterNumbers

\* check_master_numbers: which ones, and how many occurrences.
CheckMasterNumbers(numbers) ==
  [masters |-> Range(numbers) \cap MasterNumbers,
   count   |-> Cardinality({ i \in DOMAIN numbers : IsMaster(numbers[i]) })]

\* The sum of the decimal digits of n.
digitSum[n \in Nat] == IF n < 10 THEN n ELSE (n % 10) + digitSum[n \div 10]

\* The chain stops at a single digit or at a master number.
Reduced(n) == n <= 9 \/ IsMaster(n)

\* The value the chain of n ends with.
reduceNumber[n \in Nat] == IF Reduced(n) THEN n ELSE reduceNumber[digitSum[n]]

\* A date is reduced through the digits of its ISO form.
ReduceDate(d) == reduceNumber[digitSum[d.year] + digitSum[d.month] + digitSum[d.day]]

-----------------------------------------------------------------------------
(* The letters of a text.  A casefolded character is <<alphabet, position>>; *)
(* whatever is not in an alphabet has position 0.                            *)

Alphabets == [latin |-> 26, cyrillic |-> 33]

Letters == UNION { {a} \X (1..Alphabets[a]) : a \in DOMAIN Alphabets }

NormalizeText(text) == SelectSeq(text, LAMBDA c : c \in Letters)

GematriaSimple(text) == FoldLeft(LAMBDA sum, c : sum + c[2], 0, NormalizeText(text))

\* A text without a letter is read as 0, which no sum reduces to.
ComputeNumerology(text) ==
  IF GematriaSimple(text) = 0 THEN 0 ELSE reduceNumber[GematriaSimple(text)]

-----------------------------------------------------------------------------
(* The dominant value of a family of readings (item -> reduced value). *)

Votes(readings, v) == Cardinality({ i \in DOMAIN readings : readings[i] = v })

Values(readings) == { readings[i] : i \in DOMAIN readings }

\* The most frequent value; equal counts go to the larger value.  0 is the
\* sentinel of an empty family.
DominantNumber(readings) ==
  IF DOMAIN readings = {} THEN 0
  ELSE CHOOSE v \in Values(readings) :
         \A w \in Values(readings) :
           \/ Votes(readings, v) > Votes(readings, w)
           \/ Votes(readings, v) = Votes(readings, w) /\ v >= w

-----------------------------------------------------------------------------
(* Dates that share their reduced value. *)

\* The value two dates share, 0 when they do not resonate.
DateResonance(d, e) == IF ReduceDate(d) = ReduceDate(e) THEN ReduceDate(d) ELSE 0

\* Every resonant pair of a sequence, as positions: each unordered pair once,
\* the earlier position first.
Resonances(dates) ==
  { p \in (1..Len(dates)) \X (1..Len(dates)) :
      p[1] < p[2] /\ DateResonance(dates[p[1]], dates[p[2]]) # 0 }
=============================================================================
