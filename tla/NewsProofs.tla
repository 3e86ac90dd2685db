----------------------------- MODULE NewsProofs -----------------------------
(***************************************************************************)
(* Proofs about News, for any number of overlapping fetches, sources,      *)
(* articles and answers: a failure is given up only at first hand, what a  *)
(* task sleeps is bounded, a defect is loud and a merge loses and repeats  *)
(* nothing.                                                                *)
(*                                                                         *)
(* The counts of a task are inductive only with two more facts: the cache  *)
(* holds nothing but successes, so that an attempt answered from it is the *)
(* last one, and an unfinished task has asked the origin at every attempt. *)
(* LeastExists, from the module on scrolls, gives the first place of a key.*)
(***************************************************************************)
EXTENDS News, ScrollProofs

-----------------------------------------------------------------------------
(* The inductive invariant *)

\* Only successes are kept.
CacheHoldsAnswers == \A s \in Sources : cache[s] # NoEntry => cache[s].status = "ok"

\* An unfinished task has attempts left and made each of them at the origin.
OnItsWay(f, s) ==
  outcome[f][s] = Pending =>
    /\ attempts[f][s] < RETRY_ATTEMPTS
    /\ asked[f][s] = attempts[f][s]
    /\ waited[f][s] <= attempts[f][s] * MAX_RETRY_WAIT

\* The failures another attempt may mend, for a source.
WorthRetrying(s, why) ==
  why \in {"rate", "server", "transport"} \/ (why = "forbidden" /\ s \in QuotaOn403)

GivenUp(f, s) ==
  outcome[f][s].kind = "failed" /\ WorthRetrying(s, outcome[f][s].why)
    => asked[f][s] = RETRY_ATTEMPTS

TaskOK(f, s) ==
  /\ OnItsWay(f, s)
  /\ GivenUp(f, s)
  /\ waited[f][s] <= (RETRY_ATTEMPTS - 1) * MAX_RETRY_WAIT

\* A result is the merge of what the tasks ended with, none of them with a defect.
MergeOK(f) ==
  phase[f] = "merged" =>
    /\ result[f] = Merged(f)
    /\ \A s \in Sources : outcome[f][s].kind # "bug"

IInv ==
  /\ TypeOK
  /\ CacheHoldsAnswers
  /\ \A f \in Fetches : \A s \in Sources : TaskOK(f, s)
  /\ \A f \in Fetches : MergeOK(f)

-----------------------------------------------------------------------------
(* One attempt *)

\* A success is read as one, and only the failures worth it are retried.
LEMMA Classes ==
  ASSUME NEW s, NEW status \in Failures \cup {"ok"}
  PROVE  /\ Class(s, status) = "ok" <=> status = "ok"
         /\ Retryable(Class(s, status)) <=> WorthRetrying(s, status)
BY DEF Class, Retryable, WorthRetrying, Failures

\* What a source makes of a success is an outcome, and not one to wait for.
LEMMA ParsedIsOutcome ==
  ASSUME NEW s, NEW body \in Bodies
  PROVE  /\ IsOutcome(Parsed(s, body))
         /\ Parsed(s, body).kind \in {"items", "failed"}
         /\ Parsed(s, body).kind = "failed" => Parsed(s, body).why \in {"parse", "refused"}
<1>1. ASSUME NEW articles \in Seq(Articles)
      PROVE  IsItems([kind |-> "items", items |-> Mapped(articles)])
  <2>1. DOMAIN Mapped(articles) \subseteq Nat
    BY DEF Mapped
  <2>2. \A n \in DOMAIN Mapped(articles) : Mapped(articles)[n] \in Usable
    BY DEF Mapped
  <2>3. QED
    BY <2>1, <2>2 DEF IsItems, Range
<1>2. CASE body = Malformed
  BY <1>2 DEF Parsed, Readable, IsOutcome
<1>3. CASE body # Malformed /\ body = Empty
  <2>1. Parsed(s, body) = [kind |-> "items", items |-> Mapped(<<>>)]
    BY <1>3 DEF Parsed, Readable
  <2>2. <<>> \in Seq(Articles)
    OBVIOUS
  <2>3. IsItems(Parsed(s, body))
    BY <1>1, <2>1, <2>2
  <2>4. Parsed(s, body).kind = "items"
    BY <2>1
  <2>5. QED
    BY <2>3, <2>4 DEF IsOutcome
<1>4. CASE body # Malformed /\ body # Empty
  <2>1. body.articles \in Seq(Articles)
    BY <1>4, BodiesAssumption DEF Envelopes
  <2>2. CASE Refuses(s, body)
    BY <1>4, <2>2 DEF Parsed, Readable, IsOutcome
  <2>3. CASE ~ Refuses(s, body)
    <3>1. Parsed(s, body) = [kind |-> "items", items |-> Mapped(body.articles)]
      BY <1>4, <2>3 DEF Parsed, Readable
    <3>2. QED
      BY <1>1, <2>1, <3>1 DEF IsOutcome
  <2>4. QED
    BY <2>2, <2>3
<1>5. QED
  BY <1>2, <1>3, <1>4

\* A wait is a whole number of seconds no longer than the clamp.
LEMMA WaitIsClamped ==
  ASSUME NEW class, NEW answer \in Answers, NEW w \in Waits(class, answer.hint)
  PROVE  w \in Nat /\ w <= MAX_RETRY_WAIT
<1>1. CASE class = "rate" /\ answer.hint # NoHint
  <2>1. answer.hint \in Nat
    BY <1>1, HintsAssumption DEF Answers
  <2> DEFINE both == {answer.hint, MAX_RETRY_WAIT}
  <2>2. both \in SUBSET Nat /\ both # {} /\ MAX_RETRY_WAIT \in both
    BY <2>1 DEF MAX_RETRY_WAIT
  <2>3. w = Min(both)
    BY <1>1 DEF Waits
  <2> HIDE DEF both
  <2>4. QED
    BY <2>2, <2>3, LeastExists
<1>2. CASE ~ (class = "rate" /\ answer.hint # NoHint)
  <2>1. w \in Backoffs
    BY <1>2 DEF Waits
  <2>2. w \in 0..MAX_RETRY_WAIT
    BY <2>1, BackoffAssumption
  <2>3. QED
    BY <2>2 DEF MAX_RETRY_WAIT
<1>3. QED
  BY <1>1, <1>2

\* An attempt ends the task with an outcome, or the task waits and has another one.
LEMMA AttemptEnds ==
  ASSUME NEW f \in Fetches, NEW s \in Sources, NEW answer \in Answers,
         TypeOK, outcome[f][s] = Pending, Classified(f, s, answer)
  PROVE  \/ /\ waited' = waited
            /\ \E o : /\ outcome' = [outcome EXCEPT ![f][s] = o]
                      /\ IsOutcome(o) /\ o.kind \in {"items", "failed"}
                      /\ o.kind = "failed" /\ WorthRetrying(s, o.why)
                           => attempts[f][s] + 1 = RETRY_ATTEMPTS /\ answer.status # "ok"
         \/ /\ outcome' = outcome
            /\ attempts[f][s] + 1 # RETRY_ATTEMPTS
            /\ answer.status # "ok"
            /\ \E w \in Nat : /\ w <= MAX_RETRY_WAIT
                              /\ waited' = [waited EXCEPT ![f][s] = @ + w]
<1> DEFINE class == Class(s, answer.status)
<1>1. answer.status \in Failures \cup {"ok"}
  BY DEF Answers, Failures
<1>2. /\ class = "ok" <=> answer.status = "ok"
      /\ Retryable(class) <=> WorthRetrying(s, answer.status)
  BY <1>1, Classes
<1>3. CASE class = "ok"
  <2>1. answer.body \in Bodies
    BY <1>2, <1>3 DEF Answers, Failures
  <2>2. outcome' = [outcome EXCEPT ![f][s] = Parsed(s, answer.body)] /\ waited' = waited
    BY <1>3 DEF Classified
  <2>3. ~ WorthRetrying(s, "parse") /\ ~ WorthRetrying(s, "refused")
    BY DEF WorthRetrying
  <2>4. PICK o : o = Parsed(s, answer.body)
    OBVIOUS
  <2>5. /\ IsOutcome(o) /\ o.kind \in {"items", "failed"}
        /\ o.kind = "failed" => o.why \in {"parse", "refused"}
    BY <2>1, <2>4, ParsedIsOutcome
  <2>6. o.kind = "failed" => ~ WorthRetrying(s, o.why)
    BY <2>3, <2>5
  <2>7. QED
    BY <2>2, <2>4, <2>5, <2>6
<1>4. CASE class # "ok" /\ Retryable(class) /\ ~ Exhausted(attempts[f][s] + 1)
  <2>1. PICK w \in Waits(class, answer.hint) : waited' = [waited EXCEPT ![f][s] = @ + w]
    BY <1>4 DEF Classified
  <2>2. w \in Nat /\ w <= MAX_RETRY_WAIT
    BY <2>1, WaitIsClamped
  <2>3. outcome' = outcome
    BY <1>4 DEF Classified
  <2>4. QED
    BY <1>2, <1>4, <2>1, <2>2, <2>3 DEF Exhausted
<1>5. CASE class # "ok" /\ ~ (Retryable(class) /\ ~ Exhausted(attempts[f][s] + 1))
  <2> DEFINE o == [kind |-> "failed", why |-> answer.status]
  <2>1. outcome' = [outcome EXCEPT ![f][s] = o] /\ waited' = waited
    BY <1>5 DEF Classified
  <2>2. IsOutcome(o) /\ o.kind = "failed" /\ o.why = answer.status
    BY <1>1, <1>2, <1>5 DEF IsOutcome
  <2>3. WorthRetrying(s, o.why) =>
          attempts[f][s] + 1 = RETRY_ATTEMPTS /\ answer.status # "ok"
    BY <1>2, <1>5, <2>2 DEF Exhausted
  <2> HIDE DEF o
  <2>4. QED
    BY <2>1, <2>2, <2>3
<1>6. QED
  BY <1>3, <1>4, <1>5

-----------------------------------------------------------------------------
(* The tasks *)

\* The state of a fetch keeps its types.
LEMMA TypeStep ==
  ASSUME IInv, [Next]_vars
  PROVE  TypeOK'
<1> USE DEF TypeOK, RETRY_ATTEMPTS
<1>0. TypeOK /\ CacheHoldsAnswers /\ (\A f \in Fetches : \A s \in Sources : TaskOK(f, s))
  BY DEF IInv
<1>1. ASSUME NEW f \in Fetches, Start(f)
      PROVE  TypeOK'
  <2>1. IsOutcome(Pending)
    BY DEF IsOutcome, Pending
  <2>2. QED
    BY <1>0, <1>1, <2>1 DEF Start, Sources
<1>2. ASSUME NEW f \in Fetches, NEW s \in Sources, NEW answer \in Answers,
             outcome[f][s] = Pending, Classified(f, s, answer), UNCHANGED order,
             asked' = asked \/ asked' = [asked EXCEPT ![f][s] = @ + 1]
      PROVE  /\ DOMAIN outcome' = Fetches
             /\ \A g \in Fetches :
                  DOMAIN outcome'[g] = Sources /\ \A t \in Sources : IsOutcome(outcome'[g][t])
             /\ attempts' \in [Fetches -> [Sources -> 0..RETRY_ATTEMPTS]]
             /\ asked' \in [Fetches -> [Sources -> 0..RETRY_ATTEMPTS]]
             /\ waited' \in [Fetches -> [Sources -> Nat]]
  <2>1. attempts[f][s] + 1 \in 0..RETRY_ATTEMPTS /\ asked[f][s] + 1 \in 0..RETRY_ATTEMPTS
    <3>1. attempts[f][s] \in 0..RETRY_ATTEMPTS
      BY <1>0
    <3>2. attempts[f][s] < RETRY_ATTEMPTS /\ asked[f][s] = attempts[f][s]
      BY <1>0, <1>2 DEF TaskOK, OnItsWay
    <3>3. QED
      BY <3>1, <3>2
  <2>2. attempts' = [attempts EXCEPT ![f][s] = @ + 1]
    BY <1>2 DEF Classified
  <2>3. /\ attempts' \in [Fetches -> [Sources -> 0..RETRY_ATTEMPTS]]
        /\ asked' \in [Fetches -> [Sources -> 0..RETRY_ATTEMPTS]]
    <3>1. /\ attempts \in [Fetches -> [Sources -> 0..RETRY_ATTEMPTS]]
          /\ asked \in [Fetches -> [Sources -> 0..RETRY_ATTEMPTS]]
      BY <1>0
    <3> HIDE DEF TypeOK, RETRY_ATTEMPTS
    <3>2. attempts' \in [Fetches -> [Sources -> 0..RETRY_ATTEMPTS]]
      BY <2>1, <2>2, <3>1
    <3>3. asked' \in [Fetches -> [Sources -> 0..RETRY_ATTEMPTS]]
      BY <1>2, <2>1, <3>1
    <3>4. QED
      BY <3>2, <3>3
  <2>4. CASE /\ waited' = waited
             /\ \E o : outcome' = [outcome EXCEPT ![f][s] = o] /\ IsOutcome(o)
    BY <1>0, <2>3, <2>4
  <2>5. CASE /\ outcome' = outcome
             /\ \E w \in Nat : waited' = [waited EXCEPT ![f][s] = @ + w]
    BY <1>0, <2>3, <2>5
  <2>6. QED
    <3> HIDE DEF TypeOK
    <3>1. \/ /\ waited' = waited
             /\ \E o : outcome' = [outcome EXCEPT ![f][s] = o] /\ IsOutcome(o)
          \/ /\ outcome' = outcome
             /\ \E w \in Nat : waited' = [waited EXCEPT ![f][s] = @ + w]
      BY <1>0, <1>2, AttemptEnds
    <3>2. QED
      BY <2>4, <2>5, <3>1
<1>3. ASSUME NEW f \in Fetches, NEW s \in Adapters, Replay(f, s)
      PROVE  TypeOK'
  <2>1. s \in Sources /\ outcome[f][s] = Pending /\ cache[s] \in Answers
    BY <1>0, <1>3 DEF Replay, Running
  <2>2. /\ Classified(f, s, cache[s])
        /\ UNCHANGED <<order, cache, phase, asked, result>>
    BY <1>3 DEF Replay
  <2>3. PICK answer \in Answers : answer = cache[s]
    BY <2>1
  <2>4. Classified(f, s, answer)
    BY <2>2, <2>3 DEF Classified
  <2>5. QED
    BY <1>0, <1>2, <2>1, <2>2, <2>4 DEF Sources
<1>4. ASSUME NEW f \in Fetches, NEW s \in Adapters, NEW answer \in Answers, Ask(f, s, answer)
      PROVE  TypeOK'
  <2>1. s \in Sources /\ outcome[f][s] = Pending
    BY <1>4 DEF Ask, Running
  <2>2. /\ Classified(f, s, answer)
        /\ asked' = [asked EXCEPT ![f][s] = @ + 1]
        /\ UNCHANGED <<order, phase, result>>
    BY <1>4 DEF Ask
  <2>3. cache' \in [Sources -> Answers \cup {NoEntry}]
    BY <1>0, <1>4 DEF Ask
  <2>4. QED
    BY <1>0, <1>2, <2>1, <2>2, <2>3 DEF Sources
<1>5. ASSUME NEW f \in Fetches, NEW s \in Adapters, Break(f, s)
      PROVE  TypeOK'
  <2>1. IsOutcome([kind |-> "bug"])
    BY DEF IsOutcome
  <2>2. QED
    BY <1>0, <1>5, <2>1 DEF Break, Running, Sources
<1>6. ASSUME NEW f \in Fetches, Merge(f)
      PROVE  TypeOK'
  <2>1. Merged(f) \subseteq Nat \X Nat
    <3>1. order \in Seq(Adapters)
      BY <1>0, SettingsAssumption
    <3>2. \A i \in DOMAIN order : order[i] \in Sources
      BY DEF Sources, Range
    <3>3. \A i \in DOMAIN order : DOMAIN ItemsOf(f, order[i]) \subseteq Nat
      <4>1. ASSUME NEW s \in Sources
            PROVE  DOMAIN ItemsOf(f, s) \subseteq Nat
        <5>1. IsOutcome(outcome[f][s])
          BY <1>0
        <5>2. CASE outcome[f][s].kind = "items"
          BY <5>1, <5>2 DEF ItemsOf, IsOutcome, IsItems
        <5>3. CASE outcome[f][s].kind # "items"
          BY <5>3 DEF ItemsOf
        <5>4. QED
          BY <5>2, <5>3
      <4>2. QED
        BY <3>2, <4>1
    <3>4. \A i \in DOMAIN order : Places(f, i) \subseteq Nat \X Nat
      BY <3>1, <3>3 DEF Places
    <3>5. QED
      BY <3>4 DEF Merged, InTime, Answered
  <2>2. result' \in [Fetches -> SUBSET (Nat \X Nat)]
    <3>1. result' = result \/ result' = [result EXCEPT ![f] = Merged(f)]
      BY <1>6 DEF Merge
    <3>2. QED
      BY <1>0, <2>1, <3>1
  <2>3. phase' \in [Fetches -> {"idle", "gathering", "merged", "raised", "cancelled"}]
    BY <1>0, <1>6 DEF Merge
  <2>4. UNCHANGED <<order, cache, outcome, attempts, asked, waited>>
    BY <1>6 DEF Merge
  <2>5. QED
    BY <1>0, <2>2, <2>3, <2>4 DEF Sources
<1>7. ASSUME NEW f \in Fetches, Cancel(f)
      PROVE  TypeOK'
  BY <1>0, <1>7 DEF Cancel, Sources
<1>8. ASSUME NEW s \in Sources, Expire(s)
      PROVE  TypeOK'
  BY <1>0, <1>8 DEF Expire, Sources
<1>9. CASE UNCHANGED vars
  BY <1>0, <1>9 DEF vars, Sources
<1>10. QED
  BY <1>1, <1>3, <1>4, <1>5, <1>6, <1>7, <1>8, <1>9 DEF Next, Task

\* Nothing but a success is ever stored.
LEMMA CacheStep ==
  ASSUME IInv, [Next]_vars
  PROVE  CacheHoldsAnswers'
<1>0. TypeOK /\ CacheHoldsAnswers
  BY DEF IInv
<1>1. ASSUME NEW f \in Fetches, NEW s \in Adapters, NEW answer \in Answers, Ask(f, s, answer)
      PROVE  CacheHoldsAnswers'
  BY <1>0, <1>1 DEF TypeOK, CacheHoldsAnswers, Ask, MayStore, Sources
<1>2. ASSUME NEW s \in Sources, Expire(s)
      PROVE  CacheHoldsAnswers'
  BY <1>0, <1>2 DEF TypeOK, CacheHoldsAnswers, Expire, Sources
<1>3. ASSUME UNCHANGED <<order, cache>>
      PROVE  CacheHoldsAnswers'
  BY <1>0, <1>3 DEF CacheHoldsAnswers, Sources
<1>4. QED
  BY <1>1, <1>2, <1>3
     DEF Next, Task, Start, Replay, Break, Merge, Cancel, vars


\* A task keeps its counts: it is given up on, and waits, no more than it may.
LEMMA TaskStep ==
  ASSUME IInv, [Next]_vars
  PROVE  \A f \in Fetches : \A s \in Sources' : TaskOK(f, s)'
<1> USE DEF RETRY_ATTEMPTS, MAX_RETRY_WAIT
<1>0. TypeOK /\ CacheHoldsAnswers /\ (\A f \in Fetches : \A s \in Sources : TaskOK(f, s))
  BY DEF IInv
<1>1. ASSUME NEW f \in Fetches, Start(f), NEW g \in Fetches, NEW t \in Sources
      PROVE  TaskOK(g, t)'
  <2>1. CASE g = f
    <3>1. /\ outcome'[g][t] = Pending /\ attempts'[g][t] = 0
          /\ asked'[g][t] = 0 /\ waited'[g][t] = 0
      BY <1>0, <1>1, <2>1 DEF Start, TypeOK
    <3>2. QED
      BY <3>1 DEF TaskOK, OnItsWay, GivenUp, Pending
  <2>2. CASE g # f
    <3>1. /\ outcome'[g] = outcome[g] /\ attempts'[g] = attempts[g]
          /\ asked'[g] = asked[g] /\ waited'[g] = waited[g]
      BY <1>0, <1>1, <2>2 DEF Start, TypeOK
    <3>2. QED
      BY <1>0, <3>1 DEF TaskOK, OnItsWay, GivenUp
  <2>3. QED
    BY <2>1, <2>2
<1>2. ASSUME NEW f \in Fetches, NEW s \in Sources, NEW answer \in Answers,
             outcome[f][s] = Pending, Classified(f, s, answer),
             \/ asked' = asked /\ answer.status = "ok"
             \/ asked' = [asked EXCEPT ![f][s] = @ + 1],
             NEW g \in Fetches, NEW t \in Sources
      PROVE  TaskOK(g, t)'
  <2>1. attempts' = [attempts EXCEPT ![f][s] = @ + 1]
    BY <1>2 DEF Classified
  <2>2. CASE g = f /\ t = s
    <3>1. /\ attempts[f][s] \in Nat /\ asked[f][s] \in Nat /\ waited[f][s] \in Nat
          /\ attempts'[f][s] = attempts[f][s] + 1
      <4>1. /\ attempts \in [Fetches -> [Sources -> 0..3]]
            /\ asked \in [Fetches -> [Sources -> 0..3]]
            /\ waited \in [Fetches -> [Sources -> Nat]]
        BY <1>0 DEF TypeOK
      <4>2. QED
        BY <2>1, <4>1
    <3>2. /\ attempts[f][s] < 3 /\ asked[f][s] = attempts[f][s]
          /\ waited[f][s] <= attempts[f][s] * 15
          /\ waited[f][s] <= 30
      BY <1>0, <1>2 DEF TaskOK, OnItsWay
    <3>3. CASE /\ waited' = waited
               /\ \E o : /\ outcome' = [outcome EXCEPT ![f][s] = o]
                         /\ IsOutcome(o) /\ o.kind \in {"items", "failed"}
                         /\ o.kind = "failed" /\ WorthRetrying(s, o.why)
                              => attempts[f][s] + 1 = RETRY_ATTEMPTS /\ answer.status # "ok"
      <4>1. PICK o : /\ outcome' = [outcome EXCEPT ![f][s] = o]
                     /\ IsOutcome(o) /\ o.kind \in {"items", "failed"}
                     /\ o.kind = "failed" /\ WorthRetrying(s, o.why)
                          => attempts[f][s] + 1 = RETRY_ATTEMPTS /\ answer.status # "ok"
        BY <3>3
      <4>2. outcome'[f][s] = o /\ o # Pending
        BY <1>0, <4>1 DEF TypeOK, Pending
      <4>3. answer.status # "ok" => asked'[f][s] = asked[f][s] + 1
        BY <1>0, <1>2 DEF TypeOK
      <4>4. OnItsWay(g, t)' /\ GivenUp(g, t)'
        BY <2>2, <3>2, <4>1, <4>2, <4>3 DEF OnItsWay, GivenUp
      <4>5. QED
        BY <2>2, <3>2, <3>3, <4>4 DEF TaskOK
    <3>4. CASE /\ outcome' = outcome
               /\ attempts[f][s] + 1 # RETRY_ATTEMPTS
               /\ answer.status # "ok"
               /\ \E w \in Nat : /\ w <= MAX_RETRY_WAIT
                                 /\ waited' = [waited EXCEPT ![f][s] = @ + w]
      <4>1. PICK w \in Nat : w <= 15 /\ waited' = [waited EXCEPT ![f][s] = @ + w]
        BY <3>4
      <4>2. waited'[f][s] = waited[f][s] + w
        BY <1>0, <4>1 DEF TypeOK
      <4>3. asked'[f][s] = asked[f][s] + 1
        BY <1>0, <1>2, <3>4 DEF TypeOK
      <4>4. OnItsWay(f, s)'
        BY <3>1, <3>2, <3>4, <4>1, <4>2, <4>3 DEF OnItsWay
      <4>5. GivenUp(f, s)'
        BY <1>2, <3>4 DEF GivenUp, Pending
      <4>6. waited'[f][s] <= 30
        BY <3>1, <3>2, <3>4, <4>1, <4>2
      <4>7. QED
        BY <2>2, <4>4, <4>5, <4>6 DEF TaskOK
    <3>5. QED
      BY <1>0, <1>2, <3>3, <3>4, AttemptEnds
  <2>3. CASE ~ (g = f /\ t = s)
    <3>1. attempts'[g][t] = attempts[g][t] /\ asked'[g][t] = asked[g][t]
      <4>1. /\ attempts \in [Fetches -> [Sources -> 0..3]]
            /\ asked \in [Fetches -> [Sources -> 0..3]]
        BY <1>0 DEF TypeOK
      <4>2. asked' = asked \/ asked' = [asked EXCEPT ![f][s] = @ + 1]
        BY <1>2
      <4>3. QED
        BY <2>1, <2>3, <4>1, <4>2
    <3>2. outcome'[g][t] = outcome[g][t] /\ waited'[g][t] = waited[g][t]
      <4>1. waited' = waited \/ \E w : waited' = [waited EXCEPT ![f][s] = w]
        BY <1>2 DEF Classified
      <4>2. outcome' = outcome \/ \E o : outcome' = [outcome EXCEPT ![f][s] = o]
        BY <1>2 DEF Classified
      <4>3. QED
        BY <1>0, <2>3, <4>1, <4>2 DEF TypeOK
    <3>3. QED
      BY <1>0, <3>1, <3>2 DEF TaskOK, OnItsWay, GivenUp
  <2>4. QED
    BY <2>2, <2>3
<1>3. ASSUME NEW f \in Fetches, NEW s \in Adapters, Replay(f, s)
      PROVE  \A g \in Fetches : \A t \in Sources : TaskOK(g, t)'
  <2>1. /\ s \in Sources /\ outcome[f][s] = Pending
        /\ cache[s] \in Answers /\ cache[s].status = "ok"
    BY <1>0, <1>3 DEF Replay, Running, TypeOK, CacheHoldsAnswers
  <2>2. PICK answer \in Answers : answer = cache[s]
    BY <2>1
  <2>3. Classified(f, s, answer) /\ asked' = asked
    BY <1>3, <2>2 DEF Replay, Classified
  <2>4. QED
    BY <1>2, <2>1, <2>2, <2>3
<1>4. ASSUME NEW f \in Fetches, NEW s \in Adapters, NEW answer \in Answers, Ask(f, s, answer)
      PROVE  \A g \in Fetches : \A t \in Sources : TaskOK(g, t)'
  <2>1. /\ s \in Sources /\ outcome[f][s] = Pending /\ Classified(f, s, answer)
        /\ asked' = [asked EXCEPT ![f][s] = @ + 1]
    BY <1>4 DEF Ask, Running
  <2>2. QED
    BY <1>2, <2>1
<1>5. ASSUME NEW f \in Fetches, NEW s \in Adapters, Break(f, s),
             NEW g \in Fetches, NEW t \in Sources
      PROVE  TaskOK(g, t)'
  <2>1. /\ outcome' = [outcome EXCEPT ![f][s] = [kind |-> "bug"]]
        /\ UNCHANGED <<attempts, asked, waited>>
    BY <1>5 DEF Break
  <2>2. outcome'[g][t] = outcome[g][t] \/ outcome'[g][t] = [kind |-> "bug"]
    BY <1>0, <2>1 DEF TypeOK
  <2>3. QED
    BY <1>0, <2>1, <2>2 DEF TaskOK, OnItsWay, GivenUp, Pending
<1>6. ASSUME UNCHANGED <<outcome, attempts, asked, waited>>
      PROVE  \A g \in Fetches : \A t \in Sources : TaskOK(g, t)'
  BY <1>0, <1>6 DEF TaskOK, OnItsWay, GivenUp
<1>7. Sources' = Sources
  BY DEF Sources, Next, Task, Start, Replay, Ask, Break, Merge, Cancel, Expire, vars
<1>8. QED
  BY <1>1, <1>3, <1>4, <1>5, <1>6, <1>7 DEF Next, Task, Merge, Cancel, Expire, vars


-----------------------------------------------------------------------------
(* The merge *)

\* A merged fetch keeps its result: no task of it is left to change an answer.
LEMMA MergeStep ==
  ASSUME IInv, [Next]_vars, NEW g \in Fetches
  PROVE  MergeOK(g)'
<1>0. TypeOK /\ MergeOK(g)
  BY DEF IInv
<1>1. ASSUME order' = order, outcome'[g] = outcome[g]
      PROVE  Merged(g)' = Merged(g) /\ Sources' = Sources
  <2>1. \A i : Places(g, i)' = Places(g, i)
    BY <1>1 DEF Places, ItemsOf
  <2>2. Answered(g)' = Answered(g)
    BY <1>1, <2>1 DEF Answered
  <2>3. \A p : At(g, p)' = At(g, p)
    BY <1>1 DEF At, ItemsOf
  <2>4. InTime(g)' = InTime(g)
    BY <2>2, <2>3 DEF InTime
  <2>5. QED
    BY <1>1, <2>3, <2>4 DEF Merged, Sources
<1>2. ASSUME order' = order, outcome'[g] = outcome[g],
             phase'[g] = "merged" => phase[g] = "merged" /\ result'[g] = result[g]
      PROVE  MergeOK(g)'
  BY <1>0, <1>1, <1>2 DEF MergeOK
<1>3. ASSUME NEW f \in Fetches, Start(f)
      PROVE  MergeOK(g)'
  <2>1. CASE g = f
    <3>1. phase'[g] = "gathering"
      BY <1>0, <1>3, <2>1 DEF Start, TypeOK
    <3>2. QED
      BY <3>1 DEF MergeOK
  <2>2. CASE g # f
    <3>1. order' = order /\ outcome'[g] = outcome[g] /\ phase'[g] = phase[g]
      BY <1>0, <1>3, <2>2 DEF Start, TypeOK
    <3>2. result'[g] = result[g]
      BY <1>0, <1>3, <2>2 DEF Start, TypeOK
    <3>3. QED
      BY <1>2, <3>1, <3>2
  <2>3. QED
    BY <2>1, <2>2
<1>4. ASSUME NEW f \in Fetches, NEW s \in Adapters, Task(f, s)
      PROVE  MergeOK(g)'
  <2>1. phase[f] = "gathering" /\ order' = order /\ phase' = phase /\ result' = result
    BY <1>4 DEF Task, Replay, Ask, Break, Running
  <2>2. CASE g = f
    BY <2>1, <2>2 DEF MergeOK
  <2>3. CASE g # f
    <3>1. outcome' = outcome \/ \E o : outcome' = [outcome EXCEPT ![f][s] = o]
      BY <1>4 DEF Task, Replay, Ask, Break, Classified
    <3>2. outcome'[g] = outcome[g]
      BY <1>0, <2>3, <3>1 DEF TypeOK
    <3>3. QED
      BY <1>2, <2>1, <3>2
  <2>4. QED
    BY <2>2, <2>3
<1>5. ASSUME NEW f \in Fetches, Merge(f)
      PROVE  MergeOK(g)'
  <2>1. order' = order /\ outcome' = outcome
    BY <1>5 DEF Merge
  <2>2. CASE g = f /\ (\E s \in Sources : outcome[f][s].kind = "bug")
    <3>1. phase'[g] = "raised"
      BY <1>0, <1>5, <2>2 DEF Merge, TypeOK
    <3>2. QED
      BY <3>1 DEF MergeOK
  <2>3. CASE g = f /\ ~ (\E s \in Sources : outcome[f][s].kind = "bug")
    <3>1. result' = [result EXCEPT ![f] = Merged(f)]
      BY <1>5, <2>3 DEF Merge
    <3>2. result'[g] = Merged(g)
      BY <1>0, <2>3, <3>1 DEF TypeOK
    <3>3. QED
      BY <1>1, <2>1, <2>3, <3>2 DEF MergeOK
  <2>4. CASE g # f
    <3>1. phase'[g] = phase[g] /\ result'[g] = result[g]
      BY <1>0, <1>5, <2>4 DEF Merge, TypeOK
    <3>2. QED
      BY <1>2, <2>1, <3>1
  <2>5. QED
    BY <2>2, <2>3, <2>4
<1>6. ASSUME NEW f \in Fetches, Cancel(f)
      PROVE  MergeOK(g)'
  <2>1. order' = order /\ outcome' = outcome /\ result' = result
    BY <1>6 DEF Cancel
  <2>2. phase'[g] = "merged" => phase[g] = "merged"
    BY <1>0, <1>6 DEF Cancel, TypeOK
  <2>3. QED
    BY <1>2, <2>1, <2>2
<1>7. ASSUME UNCHANGED <<order, phase, outcome, result>>
      PROVE  MergeOK(g)'
  BY <1>2, <1>7
<1>8. QED
  BY <1>3, <1>4, <1>5, <1>6, <1>7 DEF Next, Expire, vars

\* Of the articles in range with a key, the first one is merged, and no other.
LEMMA FirstOfKey ==
  ASSUME NEW f, NEW place \in InTime(f), InTime(f) \subseteq Nat \X Nat
  PROVE  \E p \in Merged(f) :
           /\ p = place \/ Precedes(p, place)
           /\ { q \in Merged(f) : KeyOf[At(f, q)] = KeyOf[At(f, place)] } = {p}
<1> DEFINE key == KeyOf[At(f, place)]
           same == { q \in InTime(f) : KeyOf[At(f, q)] = key }
           firsts == { q[1] : q \in same }
           i == Min(firsts)
           seconds == { n \in Nat : <<i, n>> \in same }
           n == Min(seconds)
<1>1. same \subseteq Nat \X Nat /\ place \in same
  OBVIOUS
<1>2. i \in firsts /\ \A j \in firsts : i <= j
  <2>1. firsts \in SUBSET Nat /\ firsts # {}
    BY <1>1
  <2> HIDE DEF firsts
  <2>2. QED
    BY <2>1, LeastExists
<1>3. i \in Nat
  BY <1>1, <1>2
<1>4. n \in seconds /\ \A m \in seconds : n <= m
  <2>1. seconds # {}
    <3>1. PICK q \in same : i = q[1]
      BY <1>2
    <3>2. q = <<i, q[2]>> /\ q[2] \in Nat
      BY <1>1, <3>1
    <3>3. QED
      BY <3>1, <3>2
  <2> HIDE DEF i, same
  <2>2. seconds \in SUBSET Nat
    OBVIOUS
  <2> HIDE DEF seconds
  <2>3. QED
    BY <2>1, <2>2, LeastExists
<1> DEFINE p == <<i, n>>
<1>5. p \in same
  BY <1>4
<1>6. n \in Nat
  BY <1>4
<1>7. ASSUME NEW q \in same, q # p
      PROVE  Precedes(p, q)
  <2>1. q \in Nat \X Nat /\ q = <<q[1], q[2]>>
    BY <1>1
  <2>2. i <= q[1]
    BY <1>2
  <2>3. CASE q[1] = i
    <3>1. q[2] \in seconds
      BY <2>1, <2>3
    <3>2. n <= q[2] /\ n # q[2]
      BY <1>4, <1>7, <2>1, <2>3, <3>1
    <3> HIDE DEF i, n
    <3>3. QED
      BY <1>3, <1>6, <2>1, <2>3, <3>2 DEF Precedes
  <2>4. CASE q[1] # i
    <3> HIDE DEF i, n
    <3>1. QED
      BY <1>3, <2>1, <2>2, <2>4 DEF Precedes
  <2>5. QED
    BY <2>3, <2>4
<1> HIDE DEF p, same
<1>8. \A q \in same : ~ (Precedes(p, q) /\ Precedes(q, p)) /\ ~ Precedes(p, p)
  BY <1>1, <1>5 DEF Precedes
<1>9. p \in Merged(f)
  <2>1. p \in InTime(f) /\ KeyOf[At(f, p)] = key
    BY <1>5 DEF same
  <2>2. ASSUME NEW q \in InTime(f), Precedes(q, p)
        PROVE  KeyOf[At(f, q)] # KeyOf[At(f, p)]
    <3>1. SUFFICES ASSUME q \in same
                   PROVE  FALSE
      BY <2>1 DEF same
    <3>2. QED
      BY <1>7, <1>8, <2>2, <3>1
  <2>3. QED
    BY <2>1, <2>2 DEF Merged
<1>10. ASSUME NEW q \in Merged(f), KeyOf[At(f, q)] = key
       PROVE  q = p
  <2>1. q \in same
    BY <1>10 DEF Merged, same
  <2>2. ~ Precedes(p, q)
    <3>1. p \in InTime(f) /\ KeyOf[At(f, p)] = key
      BY <1>5 DEF same
    <3>2. QED
      BY <1>10, <3>1 DEF Merged
  <2>3. QED
    BY <1>7, <2>1, <2>2
<1>11. KeyOf[At(f, p)] = key
  BY <1>5 DEF same
<1>12. p = place \/ Precedes(p, place)
  BY <1>1, <1>7
<1>13. { q \in Merged(f) : KeyOf[At(f, q)] = key } = {p}
  BY <1>9, <1>10, <1>11
<1>14. QED
  BY <1>9, <1>12, <1>13

-----------------------------------------------------------------------------
(* The theorems *)

\* IInv is an invariant of fetching, for overlapping fetches over one cache whose
\* entries come and go.
THEOREM InductiveInvariant == Spec => []IInv
<1>1. ASSUME Init
      PROVE  IInv
  <2>1. IsOutcome(Pending)
    BY DEF IsOutcome, Pending
  <2>2. TypeOK
    BY <1>1, <2>1 DEF Init, TypeOK, RETRY_ATTEMPTS
  <2>3. CacheHoldsAnswers
    BY <1>1 DEF Init, CacheHoldsAnswers
  <2>4. ASSUME NEW f \in Fetches, NEW s \in Sources
        PROVE  TaskOK(f, s)
    BY <1>1 DEF Init, TaskOK, OnItsWay, GivenUp, Pending, RETRY_ATTEMPTS, MAX_RETRY_WAIT
  <2>5. ASSUME NEW f \in Fetches
        PROVE  MergeOK(f)
    BY <1>1 DEF Init, MergeOK
  <2>6. QED
    BY <2>2, <2>3, <2>4, <2>5 DEF IInv
<1>2. IInv /\ [Next]_vars => IInv'
  BY TypeStep, CacheStep, TaskStep, MergeStep DEF IInv
<1>3. QED
  BY <1>1, <1>2, PTL DEF Spec

\* The state of fetching keeps its types, the counts of a task among them.
THEOREM TypeCorrectness == Spec => []TypeOK
<1>1. IInv => TypeOK
  BY DEF IInv
<1>2. QED
  BY <1>1, InductiveInvariant, PTL

\* One broken feed takes nothing with it: what the others sent in range is merged,
\* once (aggregator.py, fetch_all).
THEOREM MergeLosesNothing == Spec => []NothingIsLost
<1>1. ASSUME IInv
      PROVE  NothingIsLost
  <2> SUFFICES ASSUME NEW f \in Fetches, phase[f] = "merged", NEW i \in DOMAIN order,
                      NEW n \in DOMAIN ItemsOf(f, order[i]), At(f, <<i, n>>) \in InRange
               PROVE  \E p \in result[f] :
                        /\ p = <<i, n>> \/ Precedes(p, <<i, n>>)
                        /\ { q \in result[f] : KeyOf[At(f, q)] = KeyOf[At(f, <<i, n>>)] } = {p}
    BY DEF NothingIsLost
  <2>1. result[f] = Merged(f)
    BY <1>1 DEF IInv, MergeOK
  <2>2. <<i, n>> \in InTime(f)
    BY DEF InTime, Answered, Places
  <2>3. InTime(f) \subseteq Nat \X Nat
    <3>1. TypeOK /\ order \in Seq(Adapters)
      BY <1>1, SettingsAssumption DEF IInv, TypeOK
    <3>2. ASSUME NEW k \in DOMAIN order
          PROVE  DOMAIN ItemsOf(f, order[k]) \subseteq Nat
      <4>1. order[k] \in Sources
        BY DEF Sources, Range
      <4>2. IsOutcome(outcome[f][order[k]])
        BY <3>1, <4>1 DEF TypeOK
      <4>3. CASE outcome[f][order[k]].kind = "items"
        BY <4>2, <4>3 DEF ItemsOf, IsOutcome, IsItems
      <4>4. CASE outcome[f][order[k]].kind # "items"
        BY <4>4 DEF ItemsOf
      <4>5. QED
        BY <4>3, <4>4
    <3>3. QED
      BY <3>1, <3>2 DEF InTime, Answered, Places
  <2>4. QED
    BY <2>1, <2>2, <2>3, FirstOfKey
<1>2. QED
  BY <1>1, InductiveInvariant, PTL

\* A defect in an adapter is never hidden behind a thinner result (fetch_all).
THEOREM DefectsAreRaised == Spec => []DefectsAreLoud
<1>1. IInv => DefectsAreLoud
  BY DEF IInv, MergeOK, DefectsAreLoud
<1>2. QED
  BY <1>1, InductiveInvariant, PTL

\* A failure worth another attempt is given up only after the origin itself failed
\* as often as the policy allows (http.py, get_response and the cache policy).
THEOREM FailuresAreFirstHand == Spec => []GivenUpFirstHand
<1>1. ASSUME IInv
      PROVE  GivenUpFirstHand
  <2>1. ASSUME NEW f \in Fetches, NEW s \in Sources
        PROVE  GivenUp(f, s)
    BY <1>1 DEF IInv, TaskOK
  <2>2. QED
    BY <2>1 DEF GivenUpFirstHand, GivenUp, WorthRetrying
<1>2. QED
  BY <1>1, InductiveInvariant, PTL

\* What a task sleeps in total is bounded, whatever hints it is sent (_wait).
THEOREM WaitsAreBounded == Spec => []WaitIsBounded
<1>1. IInv => WaitIsBounded
  BY DEF IInv, TaskOK, WaitIsBounded
<1>2. QED
  BY <1>1, InductiveInvariant, PTL

-----------------------------------------------------------------------------
(* A task runs out of attempts *)

\* How many attempts a task may still make.
AttemptsLeft(f, s) ==
  IF outcome[f][s] = Pending THEN RETRY_ATTEMPTS - attempts[f][s] ELSE 0

\* It is a number, and it is the tasks that ended that have none left.
Counted ==
  \A f \in Fetches : \A s \in Sources :
    AttemptsLeft(f, s) \in Nat /\ (outcome[f][s] = Pending <=> AttemptsLeft(f, s) > 0)

\* Every step of a task takes an attempt, or ends it.
LEMMA AttemptsAreTaken ==
  ASSUME IInv, NEW f \in Fetches, NEW s \in Adapters, Task(f, s)
  PROVE  /\ s \in Sources
         /\ AttemptsLeft(f, s)' < AttemptsLeft(f, s)
         /\ \A g \in Fetches : \A t \in Sources :
              ~ (g = f /\ t = s) => AttemptsLeft(g, t)' = AttemptsLeft(g, t)
<1>1. s \in Sources /\ outcome[f][s] = Pending
  BY DEF Task, Replay, Ask, Break, Running
<1>2. /\ attempts \in [Fetches -> [Sources -> 0..RETRY_ATTEMPTS]]
      /\ DOMAIN outcome = Fetches
      /\ \A g \in Fetches : DOMAIN outcome[g] = Sources
  BY DEF IInv, TypeOK
<1>3. attempts[f][s] \in Nat /\ attempts[f][s] < RETRY_ATTEMPTS
  BY <1>1, <1>2 DEF IInv, TaskOK, OnItsWay, RETRY_ATTEMPTS
<1>4. \/ /\ attempts' = [attempts EXCEPT ![f][s] = @ + 1]
         /\ outcome' = outcome \/ \E o : outcome' = [outcome EXCEPT ![f][s] = o]
      \/ /\ attempts' = attempts
         /\ outcome' = [outcome EXCEPT ![f][s] = [kind |-> "bug"]]
  BY DEF Task, Replay, Ask, Break, Classified
<1>5. /\ attempts'[f][s] = attempts[f][s] + 1 \/ outcome'[f][s] = [kind |-> "bug"]
      /\ \A g \in Fetches : \A t \in Sources :
           ~ (g = f /\ t = s) =>
             attempts'[g][t] = attempts[g][t] /\ outcome'[g][t] = outcome[g][t]
  BY <1>1, <1>2, <1>4
<1>6. AttemptsLeft(f, s) = RETRY_ATTEMPTS - attempts[f][s]
  BY <1>1 DEF AttemptsLeft
<1>7. RETRY_ATTEMPTS' = RETRY_ATTEMPTS /\ RETRY_ATTEMPTS = 3
  BY DEF RETRY_ATTEMPTS
<1>8. AttemptsLeft(f, s)' < AttemptsLeft(f, s)
  <2>1. CASE outcome'[f][s] = Pending
    <3>1. attempts'[f][s] = attempts[f][s] + 1
      BY <1>5, <2>1 DEF Pending
    <3>2. AttemptsLeft(f, s)' = RETRY_ATTEMPTS - attempts'[f][s]
      BY <1>7, <2>1 DEF AttemptsLeft, Pending
    <3>3. QED
      BY <1>3, <1>6, <1>7, <3>1, <3>2
  <2>2. CASE outcome'[f][s] # Pending
    <3>1. AttemptsLeft(f, s)' = 0
      BY <2>2 DEF AttemptsLeft, Pending
    <3>2. QED
      BY <1>3, <1>6, <1>7, <3>1
  <2>3. QED
    BY <2>1, <2>2
<1>9. \A g \in Fetches : \A t \in Sources :
        ~ (g = f /\ t = s) => AttemptsLeft(g, t)' = AttemptsLeft(g, t)
  BY <1>5, <1>7 DEF AttemptsLeft, Pending
<1>10. QED
  BY <1>1, <1>8, <1>9

\* A task ends after at most RETRY_ATTEMPTS steps of its own, whichever failures it meets
\* and however the cache answers: each takes an attempt that nothing but a new fetch gives
\* back (http.py, stop_after_attempt).
THEOREM TasksRunOut ==
  Spec => /\ []Counted
          /\ [][\A f \in Fetches : \A s \in Sources :
                  /\ Task(f, s) => AttemptsLeft(f, s)' < AttemptsLeft(f, s)
                  /\ ~ Start(f) => AttemptsLeft(f, s)' <= AttemptsLeft(f, s)]_vars
<1>1. ASSUME IInv
      PROVE  Counted
  <2> SUFFICES ASSUME NEW f \in Fetches, NEW s \in Sources
               PROVE  /\ AttemptsLeft(f, s) \in Nat
                      /\ outcome[f][s] = Pending <=> AttemptsLeft(f, s) > 0
    BY DEF Counted
  <2>1. attempts[f][s] \in 0..RETRY_ATTEMPTS
    BY <1>1 DEF IInv, TypeOK
  <2>2. outcome[f][s] = Pending => attempts[f][s] < RETRY_ATTEMPTS
    BY <1>1 DEF IInv, TaskOK, OnItsWay
  <2>3. QED
    BY <2>1, <2>2 DEF AttemptsLeft, RETRY_ATTEMPTS
<1>2. ASSUME IInv, [Next]_vars, NEW f \in Fetches, NEW s \in Sources, ~ Start(f)
      PROVE  AttemptsLeft(f, s)' <= AttemptsLeft(f, s)
  <2>1. AttemptsLeft(f, s) \in Nat
    BY <1>1, <1>2 DEF Counted
  <2>2. ASSUME NEW g \in Fetches, NEW t \in Adapters, Task(g, t)
        PROVE  AttemptsLeft(f, s)' <= AttemptsLeft(f, s)
    <3>1. CASE g = f /\ t = s
      <4>1. AttemptsLeft(f, s)' < AttemptsLeft(f, s)
        BY <1>2, <2>2, <3>1, AttemptsAreTaken
      <4>2. AttemptsLeft(f, s)' \in Int
        <5>1. attempts'[f][s] \in Int
          <6>1. TypeOK'
            BY <1>2, TypeStep
          <6>2. Sources' = Sources
            BY <2>2 DEF Task, Replay, Ask, Break, Sources
          <6>3. attempts' \in [Fetches -> [Sources -> 0..3]]
            BY <6>1, <6>2 DEF TypeOK, RETRY_ATTEMPTS
          <6>4. QED
            BY <6>3
        <5>2. QED
          BY <5>1 DEF AttemptsLeft, RETRY_ATTEMPTS
      <4>3. QED
        BY <2>1, <4>1, <4>2
    <3>2. CASE ~ (g = f /\ t = s)
      <4>1. AttemptsLeft(f, s)' = AttemptsLeft(f, s)
        BY <1>2, <2>2, <3>2, AttemptsAreTaken
      <4>2. QED
        BY <2>1, <4>1
    <3>3. QED
      BY <3>1, <3>2
  <2>3. ASSUME attempts'[f] = attempts[f], outcome'[f] = outcome[f]
        PROVE  AttemptsLeft(f, s)' <= AttemptsLeft(f, s)
    BY <2>1, <2>3 DEF AttemptsLeft, Pending, RETRY_ATTEMPTS
  <2>4. ASSUME NEW g \in Fetches, Start(g)
        PROVE  attempts'[f] = attempts[f] /\ outcome'[f] = outcome[f]
    BY <1>2, <2>4 DEF IInv, TypeOK, Start
  <2>5. CASE UNCHANGED <<attempts, outcome>>
    BY <2>3, <2>5
  <2>6. QED
    BY <1>2, <2>2, <2>3, <2>4, <2>5 DEF Next, Merge, Cancel, Expire, vars
<1>3. IInv /\ [Next]_vars =>
        [\A f \in Fetches : \A s \in Sources :
           /\ Task(f, s) => AttemptsLeft(f, s)' < AttemptsLeft(f, s)
           /\ ~ Start(f) => AttemptsLeft(f, s)' <= AttemptsLeft(f, s)]_vars
  <2>1. ASSUME NEW f \in Fetches, NEW s \in Sources, IInv, Task(f, s)
        PROVE  AttemptsLeft(f, s)' < AttemptsLeft(f, s)
    <3>1. s \in Adapters
      BY <2>1, SettingsAssumption DEF Sources, Range, IInv, TypeOK
    <3>2. QED
      BY <2>1, <3>1, AttemptsAreTaken
  <2>2. QED
    BY <1>2, <2>1
<1>4. QED
  BY <1>1, <1>3, InductiveInvariant, PTL DEF Spec
=============================================================================
