---------------------------- MODULE MC_Forecast ----------------------------
(* A small instance: article 2 is of day 1, article 1 of day 2, so a read     *)
(* scrolls them in an order that is not the order of their days; another feed *)
(* reports article 1 a day earlier and in other words.  A news window of one  *)
(* day or two, a memory as long or longer, pages of one point.  One pattern   *)
(* connects both articles, another rests on article 1 alone.                  *)
EXTENDS Forecast, TLC

CONSTANTS n1, p1, p2, t1, t2, a1, a2, b1

MCDays == 1..2
OneDay == {2}
MCIds == {1, 2}
OneId == {1}
OneNumber == {n1}
MCItems == {a1, a2, b1}
OneItem == {a1}
Article == (a1 :> 1) @@ (a2 :> 1) @@ (b1 :> 2)
MCIdOf == [x \in MCItems |-> Article[x]]
OneIdOf == [x \in OneItem |-> Article[x]]
Published == (a1 :> 2) @@ (a2 :> 1) @@ (b1 :> 1)
MCDateOf == [x \in MCItems |-> Published[x]]
OneDate == [x \in OneItem |-> Published[x]]
\* The activations are scrolled in an order of their own.
MCPointOf == (<<1, n1>> :> 2) @@ (<<2, n1>> :> 1)
NoPoint == <<>>
\* The headlines are "d", "-k" and "-": 4, the master number 11 and nothing to read.
Headline ==
  (b1 :> <<<<"latin", 4>>>>) @@ (a1 :> <<<<"other", 0>>, <<"latin", 11>>>>)
    @@ (a2 :> <<<<"other", 0>>>>)
MCValueOf == [x \in MCItems |-> ComputeNumerology(Headline[x])]
OneValue == [x \in OneItem |-> ComputeNumerology(Headline[x])]
\* 20 and 21 September 2026, which reduce to 3 and to the master number 22.
September(d) == [year |-> 2026, month |-> 9, day |-> d]
MCDayNumber == [d \in MCDays |-> ReduceDate(September(19 + d))]
OneDayNumber == [d \in OneDay |-> ReduceDate(September(19 + d))]
MCPatterns == {p1, p2}
MCLinks == (p1 :> {1, 2}) @@ (p2 :> {1})
SharedLinks == (p1 :> {1}) @@ (p2 :> {1})
OnePattern == {p1}
OneLink == (p1 :> {1, 2})

\* The reduction against the digital root: outside the master numbers the chain
\* ends where n - 1 modulo 9 says, and it never leaves the residue class of n.
ASSUME ReductionIsDigitalRoot ==
  \A n \in 1..3000 :
    /\ reduceNumber[n] \in ReducedNumbers
    /\ reduceNumber[n] % 9 = n % 9
    /\ IsMaster(reduceNumber[n]) \/ reduceNumber[n] = 1 + ((n - 1) % 9)

\* The resonant pairs against a count: k dates of one value make k(k-1)/2 pairs.
ASSUME ResonancesAreAllPairs ==
  \A ds \in [1..4 -> { September(d) : d \in {2, 3, 11, 12, 21} }] :
    LET share(v) == { i \in 1..4 : ReduceDate(ds[i]) = v }
        count[v \in 0..33] ==
          (Cardinality(share(v)) * (Cardinality(share(v)) - 1)) \div 2
            + (IF v = 0 THEN 0 ELSE count[v - 1])
    IN Cardinality(Resonances(ds)) = count[33]

\* A reading of letters against a count of each: it depends on which letters a text
\* has and on nothing else in it, and 0 means that it has none.
Samples == { <<"latin", 1>>, <<"latin", 26>>, <<"cyrillic", 33>>, <<"other", 0>> }

ASSUME LettersAreSummed ==
  \A n \in 0..4 : \A text \in [1..n -> Samples] :
    LET times(c) == Cardinality({ i \in 1..n : text[i] = c })
        total == times(<<"latin", 1>>) + 26 * times(<<"latin", 26>>)
                   + 33 * times(<<"cyrillic", 33>>)
    IN /\ GematriaSimple(text) = total
       /\ ComputeNumerology(text) = 0 <=> total = 0

\* A report of master numbers against the list of its occurrences.
ASSUME MastersAreCounted ==
  \A n \in 0..4 : \A numbers \in [1..n -> {2, 11, 22}] :
    LET report == CheckMasterNumbers(numbers)
        occurrences == SelectSeq(numbers, LAMBDA v : v # 2)
    IN report.count = Len(occurrences) /\ report.masters = Range(occurrences)

CallerSymmetry == Permutations(Callers)
=============================================================================
