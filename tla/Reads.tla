------------------------------- MODULE Reads -------------------------------
(***************************************************************************)
(* What is written into a point and what an exact or a semantic read makes *)
(* of the points it is given (vector/payloads.py, vector/filters.py, the   *)
(* read functions of vector/), and the day a command line argument names   *)
(* (cli/dates.py).  All of it is a function of its arguments: the modules  *)
(* with a state say when a read happens and which points it meets.         *)
(*                                                                         *)
(* A day is a number and an instant the seconds since day 0.  A model is a *)
(* record whose optional fields may be None; a payload is the same record  *)
(* without those fields.  A day asked for is not the calendar's last one:  *)
(* the filters add a day to it, which date refuses with OverflowError.     *)
(***************************************************************************)
EXTENDS Numerology

CONSTANT None   \* an optional field that is not set

ASSUME NoneAssumption == None \notin Int

\* A read answers with rows or raises.
Rows(rows) == [kind |-> "rows", rows |-> rows]
Raises(error) == [kind |-> error]

\* What every read asks first: arguments a caller may pass, a collection that
\* exists (require_collection; None stands for one that was never created).
Answer(legal, points, rows) ==
  IF ~legal THEN Raises("value_error")
  ELSE IF points = None THEN Raises("collection_not_found")
  ELSE Rows(rows)

-----------------------------------------------------------------------------
(* Payloads *)

Midnight == 24 * 60 * 60

\* iso_day and day_start write the same instant, one as text.
DayStart(day) == Midnight * day

\* _restore_day: the first ten characters of the text.
RestoreDay(instant) == instant \div Midnight

\* model_dump(exclude_none): a field that is not set has no key.
Present(model) == Restrict(model, { k \in DOMAIN model : model[k] # None })

\* A field without a key has its default again; a key without a field is ignored.
FromPayload(fields, payload) ==
  [k \in fields |-> IF k \in DOMAIN payload THEN payload[k] ELSE None]

NewsFields == {"id", "source", "date", "numbers", "numerology_value"}
ActivationFields == {"number", "date", "news_id", "numerology_value"}
PatternFields == {"id", "type", "strength", "discovered_at"}
ForecastFields == {"date", "dominant_number", "patterns"}
DigestFields == {"period_start", "period_end", "numbers"}

\* The answer to the master-number question is a field of its own, so that a
\* filter can ask it.
NewsPayload(item) ==
  LET dated == [Present(item) EXCEPT !["date"] = DayStart(@)]
      derived == { k \in {"master_number"} : item.numerology_value # None }
  IN [k \in DOMAIN dated \cup derived |->
        IF k = "master_number" THEN IsMaster(item.numerology_value) ELSE dated[k]]

NewsFromPayload(payload) == [FromPayload(NewsFields, payload) EXCEPT !["date"] = RestoreDay(@)]

ActivationPayload(activation) == [Present(activation) EXCEPT !["date"] = DayStart(@)]

ActivationFromPayload(payload) ==
  [FromPayload(ActivationFields, payload) EXCEPT !["date"] = RestoreDay(@)]

PatternPayload(pattern) == Present(pattern)

PatternFromPayload(payload) == FromPayload(PatternFields, payload)

\* The patterns of a forecast are nested payloads.
ForecastPayload(forecast) ==
  [forecast EXCEPT !.date = DayStart(@),
                   !.patterns = [i \in DOMAIN @ |-> PatternPayload(@[i])]]

ForecastFromPayload(payload) ==
  [FromPayload(ForecastFields, payload) EXCEPT
     !["date"] = RestoreDay(@),
     !["patterns"] = [i \in DOMAIN @ |-> PatternFromPayload(@[i])]]

DigestPayload(digest) ==
  [digest EXCEPT !.period_start = DayStart(@), !.period_end = DayStart(@)]

DigestFromPayload(payload) ==
  [FromPayload(DigestFields, payload) EXCEPT
     !["period_start"] = RestoreDay(@), !["period_end"] = RestoreDay(@)]

-----------------------------------------------------------------------------
(* Filters *)

\* The published days from..to, either end open, as a range over instants: from
\* the start of the first day to before the start of the day after the last.
InDays(instant, from, to) ==
  /\ from # None => instant >= DayStart(from)
  /\ to # None => instant < DayStart(to + 1)

\* A condition on a field that a payload does not have fails.
Carries(payload, field, value) == field \in DOMAIN payload /\ payload[field] = value

\* build_news_filter: what is not asked for does not constrain.
Matches(payload, filters) ==
  /\ InDays(payload["date"], filters.date_from, filters.date_to)
  /\ \A field \in {"source", "numerology_value", "master_number"} :
       filters[field] # None => Carries(payload, field, filters[field])

\* _window_filter: the last `days` days up to `today`, of one number or of all.
InHistory(payload, days, today, number) ==
  /\ InDays(payload["date"], today - (days - 1), today)
  /\ number # None => Carries(payload, "number", number)

-----------------------------------------------------------------------------
(* Reads: points is what the store scrolls, in the order of the point ids *)

\* list.sort: stable, an element goes before another only when it must.
Sorted(rows, Before(_, _)) ==
  LET place(i) == Cardinality({ j \in DOMAIN rows :
                    \/ Before(rows[j], rows[i])
                    \/ ~Before(rows[i], rows[j]) /\ j <= i })
  IN [k \in DOMAIN rows |-> rows[CHOOSE i \in DOMAIN rows : place(i) = k]]

\* Lexicographic order of pairs, as Python compares tuples.
PairBefore(p, q) == p[1] < q[1] \/ (p[1] = q[1] /\ p[2] < q[2])

First(rows, limit) == SubSeq(rows, 1, IF limit < Len(rows) THEN limit ELSE Len(rows))

Mapped(rows, Of(_)) == [i \in DOMAIN rows |-> Of(rows[i])]

\* read_news_range: oldest first.
ReadNewsRange(points, from, to) ==
  Answer(TRUE, points, Sorted(
    Mapped(SelectSeq(points, LAMBDA p : InDays(p["date"], from, to)), NewsFromPayload),
    LAMBDA x, y : PairBefore(<<x.date, x.id>>, <<y.date, y.id>>)))

\* get_history, and get_activations when no number is asked for: newest first.
GetHistory(points, number, days, today) ==
  Answer(days >= 1, points, Sorted(
    Mapped(SelectSeq(points, LAMBDA p : InHistory(p, days, today, number)),
           ActivationFromPayload),
    LAMBDA x, y : PairBefore(<<y.date, y.news_id>>, <<x.date, x.news_id>>)))

\* activation_frequency: rows, not numbers, are counted; newest day first.
ActivationFrequency(activations) ==
  LET days == { activations[i].date : i \in DOMAIN activations }
      count(d) == Cardinality({ i \in DOMAIN activations : activations[i].date = d })
  IN Mapped(SetToSortSeq(days, >), LAMBDA d : [date |-> d, count |-> count(d)])

\* When a pattern was found: <<has a time zone, instant>>.
Epoch == <<TRUE, 0>>

FoundAt(pattern) == IF pattern.discovered_at = None THEN Epoch ELSE pattern.discovered_at

\* Strengths are counted in tenths.
Strengths == 0..10

\* read_patterns: newest first, then strongest first by a second sort that leaves
\* equals where they are; the sort refuses to compare a time that has a time zone
\* with one that has none.
ReadPatterns(points, type, minStrength, limit) ==
  LET found == Mapped(SelectSeq(points, LAMBDA p :
                        /\ type # None => Carries(p, "type", type)
                        /\ minStrength # None => p["strength"] >= minStrength),
                      PatternFromPayload)
      newest == Sorted(found, LAMBDA x, y :
                  PairBefore(<<FoundAt(y)[2], y.id>>, <<FoundAt(x)[2], x.id>>))
      legal == limit >= 1 /\ minStrength \in Strengths \cup {None}
      comparable == Cardinality({ FoundAt(found[i])[1] : i \in DOMAIN found }) <= 1
  IN IF legal /\ points # None /\ ~comparable THEN Raises("type_error")
     ELSE Answer(legal, points,
                 First(Sorted(newest, LAMBDA x, y : x.strength > y.strength), limit))

-----------------------------------------------------------------------------
(* Semantic search: ranking is the collection as the server ranks it for a   *)
(* query, nearest first                                                      *)

SearchNews(ranking, filters, limit) ==
  Answer(limit >= 1, ranking,
         Mapped(First(SelectSeq(ranking, LAMBDA p : Matches(p, filters)), limit),
                NewsFromPayload))

\* One retriever, prefetched under the filter, and the fusion of its ranks: the
\* best score is 1 / (60 + rank) of the smallest rank.
HybridSearchNews(ranking, filters, limit) ==
  LET prefetched == First(SelectSeq(ranking, LAMBDA p : Matches(p, filters)), limit)
      fused == Sorted([rank \in DOMAIN prefetched |-> <<60 + rank, prefetched[rank]>>],
                      LAMBDA x, y : x[1] < y[1])
  IN Answer(limit >= 1, ranking,
            Mapped(First(fused, limit), LAMBDA x : NewsFromPayload(x[2])))

\* find_similar_patterns: no filter.
FindSimilarPatterns(ranking, limit) ==
  Answer(limit >= 1, ranking, Mapped(First(ranking, limit), PatternFromPayload))

\* get_news_items: in the order asked for, what is unknown left out; no ids, no
\* question.
GetNewsItems(points, ids) ==
  LET stored == { points[i]["id"] : i \in DOMAIN points }
      point(id) == CHOOSE p \in Range(points) : p["id"] = id
  IN IF ids = <<>> THEN Rows(<<>>)
     ELSE Answer(TRUE, points, Mapped(SelectSeq(ids, LAMBDA id : id \in stored),
                                      LAMBDA id : NewsFromPayload(point(id))))

\* get_forecast and get_digest: the payload of the point under an id derived from
\* the days asked for; a point without a payload was written by something else.
GetPoint(points, id, Of(_)) ==
  LET stored == { i \in DOMAIN points : points[i].id = id }
      payload == points[CHOOSE i \in stored : TRUE].payload
  IN IF points = None THEN Raises("collection_not_found")
     ELSE IF stored = {} THEN Rows(<<>>)
     ELSE IF payload = None THEN Raises("store_error")
     ELSE Rows(<<Of(payload)>>)

ForecastPointId(day) == <<"forecast", day>>
DigestPointId(from, to) == <<"digest", from, to>>

GetForecast(points, day) == GetPoint(points, ForecastPointId(day), ForecastFromPayload)

GetDigest(points, from, to) == GetPoint(points, DigestPointId(from, to), DigestFromPayload)

-----------------------------------------------------------------------------
(* parse_day: what a --date names, seen from a day of the calendar           *)

LastDay == 3652059   \* of the year 9999; day 1 is the first of the year 1

Calendar == 1..LastDay

Named == [today |-> 0, tomorrow |-> 1, yesterday |-> -1]

ParseDay(value, today) ==
  LET away == IF value.kind = "named" THEN Named[value.name] ELSE value.sign * value.days
      day == IF value.kind = "iso" THEN value.day ELSE today + away
  IN IF value.kind = "other" THEN Raises("bad_parameter")
     ELSE IF day \in Calendar THEN [kind |-> "day", day |-> day]
     ELSE Raises("overflow_error")
=============================================================================
