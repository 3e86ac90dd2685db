------------------------------ MODULE Evidence ------------------------------
(***************************************************************************)
(* What the ingest step promises the readers of `news` and of              *)
(* `number_history`, with its runs, their crashes and everything else it   *)
(* writes hidden: batches of activations and batches of articles, and an   *)
(* article is stored only with numbers whose activations are there.        *)
(*                                                                         *)
(* It does not promise that the two agree.  A point holds the version of   *)
(* the article it was written from, the last writer wins, and overlapping  *)
(* runs may leave an article beside activations of another version of it.  *)
(*                                                                         *)
(* Ingest implements Spec whatever the number of concurrent runs; Next is  *)
(* the ingest that goes on beside the calls of Forecast.                   *)
(***************************************************************************)
CONSTANTS
  Ids,       \* news ids
  Items,     \* article versions; two feeds may report one link differently
  IdOf,      \* Items -> Ids
  Numbers,   \* the numbers an article can be stored with
  NoItem     \* no point is stored

VARIABLES
  collections,    \* the collections that exist
  news,           \* id -> the version stored in `news`
  newsNumbers,    \* id -> the numbers it is stored with
  numberHistory   \* (id, number) -> the version that activation was read in

vars == <<collections, news, newsNumbers, numberHistory>>

\* A batch of articles and a batch of activations, each point under its own id.
Batches ==
  { batch \in [Ids -> Items \cup {NoItem}] :
      \A id \in Ids : batch[id] # NoItem => IdOf[batch[id]] = id }

Rows ==
  { rows \in [Ids \X Numbers -> Items \cup {NoItem}] :
      \A k \in Ids \X Numbers : rows[k] # NoItem => IdOf[rows[k]] = k[1] }

Init ==
  /\ collections = {}
  /\ news = [id \in Ids |-> NoItem]
  /\ newsNumbers = [id \in Ids |-> {}]
  /\ numberHistory = [k \in Ids \X Numbers |-> NoItem]

\* A run makes sure that there are articles to look among.
PrepareNews ==
  /\ collections' = collections \cup {"news"}
  /\ UNCHANGED <<news, newsNumbers, numberHistory>>

\* A run writes the activations of articles it is about to store, over those that
\* were there.
RecordActivations(rows) ==
  /\ "news" \in collections
  /\ \E k \in Ids \X Numbers : rows[k] # NoItem
  /\ numberHistory' =
       [k \in Ids \X Numbers |-> IF rows[k] = NoItem THEN numberHistory[k] ELSE rows[k]]
  /\ collections' = collections \cup {"number_history"}
  /\ UNCHANGED <<news, newsNumbers>>

\* That write fails, and has created the collection and nothing else.
RecordFails ==
  /\ "news" \in collections
  /\ collections' = collections \cup {"number_history"}
  /\ UNCHANGED <<news, newsNumbers, numberHistory>>

\* A run stores articles, replacing earlier versions of them and of their numbers.
StoreArticles(batch, numbers) ==
  /\ "news" \in collections
  /\ \A id \in Ids :
       IF batch[id] = NoItem THEN numbers[id] = newsNumbers[id]
       ELSE \A n \in numbers[id] : numberHistory[<<id, n>>] # NoItem
  /\ news' = [id \in Ids |-> IF batch[id] = NoItem THEN news[id] ELSE batch[id]]
  /\ newsNumbers' = numbers
  /\ UNCHANGED <<collections, numberHistory>>

Next ==
  \/ PrepareNews
  \/ \E rows \in Rows : RecordActivations(rows)
  \/ RecordFails
  \/ \E batch \in Batches : \E numbers \in [Ids -> SUBSET Numbers] :
       StoreArticles(batch, numbers)

Spec == Init /\ [][Next]_vars
=============================================================================
