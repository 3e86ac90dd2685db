------------------------------ MODULE MC_Ingest ------------------------------
(* A small instance: one link reported in two versions (a1, a2), another      *)
(* article (b), two numbers.  The texts read "07", "-" and "-11".             *)
EXTENDS Ingest, Extraction, TLC

CONSTANTS a, b, a1, a2, b1

MCIds == {a, b}
MCItems == {a1, a2, b1}
MCNumbers == {7, 11}
MCIdOf == (a1 :> a) @@ (a2 :> a) @@ (b1 :> b)
MCText == (a1 :> <<0, 7>>) @@ (a2 :> <<Other>>) @@ (b1 :> <<Other, 1, 1>>)
MCStated == [x \in MCItems |-> Range(ExtractNumbersRegex(MCText[x]))]
MCAnswers == {{11}}

\* One page with both versions, one in the other order, one empty.
OneRunPages == {<<>>, <<a1, b1>>, <<b1, a2>>, <<a1, a2>>, <<a2, a1>>}

\* Overlapping runs: the versions reach the store through different pages.
TwoRunPages == {<<a1, b1>>, <<a2>>}

\* No link is reported twice: what is left over is left by interrupted runs alone.
StrayPages == {<<a1, b1>>}

\* The numbers of a text against a scanner that reads it once, left to right.
Scanned(text) ==
  FoldLeft(LAMBDA state, c :
             IF c = Other THEN [state EXCEPT !.inside = FALSE]
             ELSE IF state.inside
               THEN [state EXCEPT !.out = [@ EXCEPT ![Len(@)] = 10 * @ + c]]
               ELSE [out |-> Append(state.out, c), inside |-> TRUE],
           [out |-> <<>>, inside |-> FALSE], text).out

ASSUME NumbersAreScanned ==
  \A n \in 0..6 : \A text \in [1..n -> {0, 7, Other}] :
    ExtractNumbersRegex(text) = Scanned(text)

\* The calendar against the length of a year, and no date is lost to a bad one
\* beside it: 29 February without a year is read only in a leap year.
ASSUME YearsHaveTheirDays ==
  \A year \in {0, 1, 4, 100, 400, 1900, 2000, 2026, 2028, 9999} :
    Cardinality({ md \in (0..13) \X (0..32) : BuildDate(year, md[1], md[2]) # {} })
      = IF year = 0 THEN 0 ELSE IF IsLeap(year) THEN 366 ELSE 365

ASSUME BadDatesAreSkipped ==
  \A year \in 2025..2028 :
    LET matches == { [at |-> 9, year |-> NoYear, month |-> 2, day |-> 29],
                     [at |-> 1, year |-> 2026, month |-> 2, day |-> 31],
                     [at |-> 5, year |-> 2026, month |-> 9, day |-> 21] }
    IN Len(ExtractDatesRegex(matches, year)) = IF year = 2028 THEN 2 ELSE 1
=============================================================================
