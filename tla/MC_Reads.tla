----------------------------- MODULE MC_Reads ------------------------------
(* What Reads computes, checked over bounded inputs against definitions over  *)
(* the models instead of their payloads.  MC_Schema extends this module, so   *)
(* its run evaluates the assumptions.                                         *)
EXTENDS Reads, TLC

(* Articles of two days and two sources, with a value, a master value or none *)

Articles ==
  { [id |-> i, source |-> s, date |-> d, numbers |-> <<d>>, numerology_value |-> v] :
      i \in 1..3, s \in {"x", "y"}, d \in 1..2, v \in {7, 11, None} }

Activations ==
  { [number |-> n, date |-> d, news_id |-> i, numerology_value |-> v] :
      n \in {7, 11}, d \in 1..3, i \in 1..3, v \in {7, None} }

\* Two strengths, and times with a time zone, without one and not set.
Patterns ==
  { [id |-> i, type |-> t, strength |-> s, discovered_at |-> f] :
      i \in 1..3, t \in {"master", "hidden"}, s \in 1..2,
      f \in {<<TRUE, 1>>, <<TRUE, 2>>, <<FALSE, 1>>, None} }

Filters ==
  [date_from : {0, 1, 2, None}, date_to : {0, 1, 2, None}, source : {"x", None},
   numerology_value : {7, 11, None}, master_number : BOOLEAN \cup {None}]

\* What is written is read back as it was, set fields and fields that are not.
ASSUME PayloadsAreReadBack ==
  /\ \A item \in Articles : NewsFromPayload(NewsPayload(item)) = item
  /\ \A activation \in Activations :
       ActivationFromPayload(ActivationPayload(activation)) = activation
  /\ \A pattern \in Patterns :
       LET forecast == [date |-> 2, dominant_number |-> 7, patterns |-> <<pattern>>]
       IN /\ PatternFromPayload(PatternPayload(pattern)) = pattern
          /\ ForecastFromPayload(ForecastPayload(forecast)) = forecast
  /\ \A from, to \in 0..2 :
       LET digest == [period_start |-> from, period_end |-> to, numbers |-> {7}]
       IN DigestFromPayload(DigestPayload(digest)) = digest

\* A filter over payloads asks for whole days, both inclusive, and an article whose
\* value is not computed answers the master-number question neither way.
ASSUME FiltersAskForWholeDays ==
  \A item \in Articles, f \in Filters :
    Matches(NewsPayload(item), f) <=>
      /\ f.date_from # None => f.date_from <= item.date
      /\ f.date_to # None => item.date <= f.date_to
      /\ f.source # None => item.source = f.source
      /\ f.numerology_value # None => item.numerology_value = f.numerology_value
      /\ f.master_number # None =>
           /\ item.numerology_value # None
           /\ f.master_number = (item.numerology_value \in {11, 22, 33})

\* A window reads back in the same order whatever order the store scrolls it in.
Article(i, d) == [id |-> i, source |-> "x", date |-> d, numbers |-> <<>>,
                  numerology_value |-> None]

ASSUME WindowsHaveOneOrder ==
  \A ids \in Permutations(1..3), days \in [1..3 -> 0..3] :
    LET points == [k \in 1..3 |-> NewsPayload(Article(ids[k], days[ids[k]]))]
        window == ReadNewsRange(points, 1, 2).rows
    IN /\ { window[k].id : k \in DOMAIN window } = { i \in 1..3 : days[i] \in 1..2 }
       /\ Len(window) = Cardinality({ i \in 1..3 : days[i] \in 1..2 })
       /\ \A j, k \in DOMAIN window : j < k =>
            10 * window[j].date + window[j].id < 10 * window[k].date + window[k].id

\* The frequency, written out, is the column of days of the history it folds.
ASSUME FrequencyIsTheHistory ==
  \A days \in [1..3 -> 0..3], numbers \in [1..3 -> {7, 11}], number \in {7, None} :
    LET points == [k \in 1..3 |->
                     ActivationPayload([number |-> numbers[k], date |-> days[k],
                                        news_id |-> k, numerology_value |-> None])]
        rows == GetHistory(points, number, 2, 2).rows
        series == ActivationFrequency(rows)
        written == FlattenSeq([k \in DOMAIN series |->
                                 [n \in 1..series[k].count |-> series[k].date]])
    IN /\ written = [k \in DOMAIN rows |-> rows[k].date]
       /\ { rows[k].news_id : k \in DOMAIN rows }
            = { i \in 1..3 : days[i] \in 1..2 /\ number \in {numbers[i], None} }
       /\ \A j, k \in DOMAIN rows : j < k =>
            rows[j].date > rows[k].date \/ rows[j].news_id > rows[k].news_id

\* The two sorts of a pattern read are one: by strength, time and id.
PatternChoices(i) == { p \in Patterns : p.id = i /\ p.type = "master" }

OneKey(p) == 100 * p.strength + 10 * FoundAt(p)[2] + p.id

ASSUME TwoSortsAreOne ==
  \A p \in PatternChoices(1), q \in PatternChoices(2), r \in PatternChoices(3),
     least \in {None, 2}, limit \in 1..2 :
    LET asked == { x \in {p, q, r} : least # None => x.strength >= least }
        read == ReadPatterns(Mapped(<<q, r, p>>, PatternPayload), "master", least, limit)
    IN IF { FoundAt(x)[1] : x \in asked } = BOOLEAN
         THEN read.kind = "type_error"
         ELSE read.rows = SubSeq(SetToSortSeq(asked, LAMBDA x, y : OneKey(x) > OneKey(y)),
                                 1, Min({limit, Cardinality(asked)}))

\* An argument no caller may pass is refused before the collection is looked for.
ASSUME ArgumentsComeFirst ==
  \A points \in {None, <<>>} :
    /\ \A limit \in 0..1, least \in {None, 0, 10, 11} :
         LET refused == limit = 0 \/ least = 11
             read == ReadPatterns(points, "hidden", least, limit)
         IN read.kind = IF refused THEN "value_error"
                        ELSE IF points = None THEN "collection_not_found" ELSE "rows"
    /\ \A days \in 0..1 :
         LET read == GetHistory(points, 7, days, 2)
         IN read.kind = IF days = 0 THEN "value_error"
                        ELSE IF points = None THEN "collection_not_found" ELSE "rows"
    /\ GetNewsItems(points, <<>>) = Rows(<<>>)

\* A day's reading and a period's digest are found under their own days alone.
ASSUME PointsAreFoundByTheirDays ==
  LET Reading(d) == [date |-> d, dominant_number |-> 7, patterns |-> <<>>]
      Period(p) == [period_start |-> p[1], period_end |-> p[2], numbers |-> {7}]
      forecasts == [d \in 1..2 |-> [id |-> ForecastPointId(d),
                                    payload |-> ForecastPayload(Reading(d))]]
      periods == SetToSeq({ p \in (1..2) \X (1..2) : p[1] <= p[2] })
      summaries == Mapped(periods, LAMBDA p : [id |-> DigestPointId(p[1], p[2]),
                                             payload |-> DigestPayload(Period(p))])
  IN /\ \A d \in 1..3 :
          GetForecast(forecasts, d) = Rows(IF d = 3 THEN <<>> ELSE <<Reading(d)>>)
     /\ \A p \in (1..2) \X (1..2) :
          GetDigest(summaries, p[1], p[2])
            = Rows(IF p[1] <= p[2] THEN <<Period(p)>> ELSE <<>>)
     /\ GetForecast(None, 1) = Raises("collection_not_found")
     /\ GetForecast(<<[id |-> ForecastPointId(1), payload |-> None]>>, 1)
          = Raises("store_error")

\* With one retriever the fused ranks are the retriever's: both searches answer the
\* same, and no more than was asked for.
ASSUME FusionKeepsTheRanking ==
  \A sources \in [1..3 -> {"x", "y"}], limit \in 0..4, f \in {"x", None} :
    LET ranking == [k \in 1..3 |-> NewsPayload([Article(k, 1) EXCEPT !.source = sources[k]])]
        filters == [date_from |-> None, date_to |-> None, source |-> f,
                    numerology_value |-> None, master_number |-> None]
        read == SearchNews(ranking, filters, limit)
    IN /\ HybridSearchNews(ranking, filters, limit) = read
       /\ read.kind = "rows" =>
            Len(read.rows) = Min({limit, Cardinality({ k \in 1..3 : f \in {sources[k], None} })})

\* Ids are answered in the order asked for, an id asked for twice twice.
ASSUME IdsKeepTheirOrder ==
  \A ids \in UNION { [1..n -> 1..3] : n \in 0..3 } :
    LET points == <<NewsPayload(Article(2, 1)), NewsPayload(Article(1, 2))>>
        found == GetNewsItems(points, ids).rows
        known(k) == Cardinality({ j \in 1..k : ids[j] \in 1..2 })
    IN /\ Len(found) = known(Len(ids))
       /\ \A k \in DOMAIN ids : ids[k] \in 1..2 => found[known(k)].id = ids[k]

\* An offset there and back is today, and so are the names.
ASSUME OffsetsAreDays ==
  \A today \in {1, 739515, 3652059}, n \in {0, 1, 3, 3652059} :
    LET there == ParseDay([kind |-> "offset", sign |-> 1, days |-> n], today)
    IN IF there.kind = "day"
         THEN /\ ParseDay([kind |-> "offset", sign |-> -1, days |-> n], there.day).day = today
              /\ n = 1 => there = ParseDay([kind |-> "named", name |-> "tomorrow"], today)
         ELSE there.kind = "overflow_error" /\ today + n \notin Calendar
=============================================================================
