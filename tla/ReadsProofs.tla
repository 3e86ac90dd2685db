----------------------------- MODULE ReadsProofs -----------------------------
(***************************************************************************)
(* Proofs about the operators without a state: the digit reduction of      *)
(* Numerology, and the conversions, filters, dates and sorts of Reads.     *)
(* Recursion is reasoned about through the least number of a set,          *)
(* LeastExists, and a sort through the place it gives each element.        *)
(***************************************************************************)
EXTENDS Reads, ScrollProofs

-----------------------------------------------------------------------------
(* Recursion over the numbers *)

\* What a function f, asked for n, computes with one recursive call: n itself where
\* the recursion stops, else add[n] more than the value of the smaller number next[n].
OneCall(f, n, stop, next, add) == IF n \in stop THEN n ELSE add[n] + f[next[n]]

\* Such a recursion has a function that satisfies it, at every number.
LEMMA RecursionHasAValue ==
  ASSUME NEW stop \in SUBSET Nat, NEW next \in [Nat -> Nat], NEW add \in [Nat -> Nat],
         \A n \in Nat \ stop : next[n] < n
  PROVE  \E f \in [Nat -> Nat] : \A n \in Nat : f[n] = OneCall(f, n, stop, next, add)
<1> DEFINE Upto(g, n) ==
             g \in [0..n -> Nat] /\ \A m \in 0..n : g[m] = OneCall(g, m, stop, next, add)
<1>1. \A n \in Nat : \E g : Upto(g, n)
  <2> DEFINE Bad == { n \in Nat : ~ \E g : Upto(g, n) }
  <2> SUFFICES ASSUME Bad # {}
               PROVE  FALSE
    OBVIOUS
  <2>1. PICK k \in Bad : \A n \in Bad : k <= n
    <3>1. Bad \in SUBSET Nat
      OBVIOUS
    <3> HIDE DEF Bad
    <3>2. QED
      BY <3>1, LeastExists
  <2>2. k \in Nat /\ ~ \E g : Upto(g, k)
    OBVIOUS
  <2>3. PICK g : \A m \in 0..(k - 1) : /\ g[m] \in Nat
                                       /\ g[m] = OneCall(g, m, stop, next, add)
    <3>1. CASE k = 0
      BY <3>1
    <3>2. CASE k # 0
      <4>1. k - 1 \in Nat /\ ~(k <= k - 1)
        BY <2>2, <3>2
      <4> HIDE DEF Bad
      <4>2. k - 1 \notin Bad
        BY <2>1, <4>1
      <4> USE DEF Bad
      <4>3. QED
        BY <4>1, <4>2
    <3>3. QED
      BY <3>1, <3>2
  <2> HIDE DEF Bad
  <2> DEFINE h == [m \in 0..k |-> IF m < k THEN g[m] ELSE OneCall(g, k, stop, next, add)]
  <2>4. \A m \in 0..k : m \notin stop => next[m] \in 0..(k - 1) /\ next[m] < k
    <3> SUFFICES ASSUME NEW m \in 0..k, m \notin stop
                 PROVE  next[m] \in 0..(k - 1) /\ next[m] < k
      OBVIOUS
    <3>1. m \in Nat /\ m <= k
      BY <2>2
    <3> DEFINE a == next[m]
    <3>2. a \in Nat /\ a < m
      BY <3>1
    <3>3. k \in Nat
      BY <2>2
    <3> HIDE DEF a
    <3>4. a \in 0..(k - 1) /\ a < k
      BY <3>1, <3>2, <3>3
    <3>5. QED
      BY <3>4 DEF a
  <2>5. OneCall(g, k, stop, next, add) \in Nat
    <3>1. ASSUME k \notin stop
          PROVE  add[k] + g[next[k]] \in Nat
      <4>1. next[k] \in 0..(k - 1)
        BY <2>2, <2>4, <3>1
      <4>2. g[next[k]] \in Nat
        BY <2>3, <4>1
      <4>3. add[k] \in Nat
        BY <2>2
      <4> HIDE DEF h
      <4>4. QED
        BY <4>2, <4>3
    <3>2. QED
      BY <2>2, <3>1 DEF OneCall
  <2>6. h \in [0..k -> Nat]
    <3>1. \A m \in 0..k : m < k => m \in 0..(k - 1)
      BY <2>2
    <3>2. QED
      BY <2>3, <2>5, <3>1
  <2>7. ASSUME NEW m \in 0..k
        PROVE  h[m] = OneCall(h, m, stop, next, add)
    <3>1. OneCall(h, m, stop, next, add) = OneCall(g, m, stop, next, add)
      <4>1. m \notin stop => next[m] \in 0..k /\ next[m] < k
        BY <2>2, <2>4
      <4>2. m \notin stop => h[next[m]] = g[next[m]]
        BY <4>1
      <4> HIDE DEF h
      <4>3. QED
        BY <4>2, Zenon DEF OneCall
    <3>2. h[m] = OneCall(g, m, stop, next, add)
      <4>1. CASE m < k
        <5>1. m \in 0..(k - 1) /\ h[m] = g[m]
          BY <2>2, <4>1
        <5>2. QED
          BY <2>3, <5>1
      <4>2. CASE ~(m < k)
        <5>1. m = k
          BY <2>2, <4>2
        <5>2. QED
          BY <4>2, <5>1
      <4>3. QED
        BY <4>1, <4>2
    <3>3. QED
      BY <3>1, <3>2
  <2>8. Upto(h, k)
    BY <2>6, <2>7
  <2>9. QED
    BY <2>2, <2>8
<1>2. ASSUME NEW n \in Nat, NEW k \in Nat, NEW g, NEW h, Upto(g, n), Upto(h, k),
             NEW l \in Nat, l <= n, l <= k
      PROVE  g[l] = h[l]
  <2> DEFINE Bad == { m \in Nat : m <= n /\ m <= k /\ g[m] # h[m] }
  <2> SUFFICES ASSUME Bad # {}
               PROVE  FALSE
    BY <1>2
  <2>1. PICK j \in Bad : \A m \in Bad : j <= m
    <3>1. Bad \in SUBSET Nat
      OBVIOUS
    <3> HIDE DEF Bad
    <3>2. QED
      BY <3>1, LeastExists
  <2>2. j \in Nat /\ j \in 0..n /\ j \in 0..k /\ g[j] # h[j]
    OBVIOUS
  <2>3. g[j] = OneCall(g, j, stop, next, add) /\ h[j] = OneCall(h, j, stop, next, add)
    BY <1>2, <2>2
  <2>4. j \notin stop => next[j] \in Nat /\ next[j] < j
    BY <2>2
  <2>5. j \notin stop => g[next[j]] = h[next[j]]
    BY <2>1, <2>2, <2>4
  <2>6. QED
    BY <2>2, <2>3, <2>5 DEF OneCall
<1> DEFINE G(n) == CHOOSE g : Upto(g, n)
           f == [n \in Nat |-> G(n)[n]]
<1>3. \A n \in Nat : Upto(G(n), n)
  BY <1>1
<1>4. \A n \in Nat : G(n)[n] \in Nat /\ G(n)[n] = OneCall(G(n), n, stop, next, add)
  <2> SUFFICES ASSUME NEW n \in Nat
               PROVE  G(n)[n] \in Nat /\ G(n)[n] = OneCall(G(n), n, stop, next, add)
    OBVIOUS
  <2> HIDE DEF G
  <2>1. n \in 0..n
    OBVIOUS
  <2>2. QED
    BY <1>3, <2>1
<1> HIDE DEF G, Upto
<1>5. \A n, m \in Nat : m <= n => G(n)[m] = G(m)[m]
  <2> SUFFICES ASSUME NEW n \in Nat, NEW m \in Nat, m <= n
               PROVE  G(n)[m] = G(m)[m]
    OBVIOUS
  <2>1. Upto(G(n), n) /\ Upto(G(m), m)
    BY <1>3
  <2>2. QED
    BY <1>2, <2>1
<1>6. ASSUME NEW n \in Nat
      PROVE  f[n] = OneCall(f, n, stop, next, add)
  <2>1. f[n] = OneCall(G(n), n, stop, next, add)
    BY <1>4
  <2>2. ASSUME n \notin stop
        PROVE  f[next[n]] = G(n)[next[n]]
    <3>1. next[n] \in Nat /\ next[n] <= n
      BY <2>2
    <3>2. QED
      BY <1>5, <3>1
  <2>3. QED
    BY <2>1, <2>2 DEF OneCall
<1>7. f \in [Nat -> Nat]
  BY <1>4
<1>8. QED
  BY <1>6, <1>7

\* A function that satisfies such a recursion has numbers for values.
LEMMA RecursionIsTyped ==
  ASSUME NEW stop \in SUBSET Nat, NEW next \in [Nat -> Nat], NEW add \in [Nat -> Nat],
         \A n \in Nat \ stop : next[n] < n,
         NEW f, f = [n \in Nat |-> f[n]],
         \A n \in Nat : f[n] = OneCall(f, n, stop, next, add)
  PROVE  f \in [Nat -> Nat]
<1> DEFINE Bad == { n \in Nat : f[n] \notin Nat }
<1>1. ASSUME Bad # {}
      PROVE  FALSE
  <2>1. PICK j \in Bad : \A m \in Bad : j <= m
    <3>1. Bad \in SUBSET Nat
      OBVIOUS
    <3> HIDE DEF Bad
    <3>2. QED
      BY <1>1, <3>1, LeastExists
  <2>2. j \notin stop => next[j] \in Nat /\ ~(j <= next[j])
    OBVIOUS
  <2>3. j \notin stop => f[next[j]] \in Nat
    BY <2>1, <2>2
  <2>4. f[j] = OneCall(f, j, stop, next, add)
    OBVIOUS
  <2>5. QED
    BY <2>3, <2>4 DEF OneCall
<1>2. \A n \in Nat : f[n] \in Nat
  BY <1>1
<1>3. QED
  BY <1>2

-----------------------------------------------------------------------------
(* The sum of the digits *)

\* A number is what it has before its last digit, ten times, and its last digit.
LEMMA LastDigit ==
  ASSUME NEW n \in Nat
  PROVE  /\ n \div 10 \in Nat /\ n % 10 \in 0..9
         /\ n = 10 * (n \div 10) + (n % 10)
         /\ n >= 10 => n \div 10 < n
<1>1. n \div 10 \in Nat /\ n % 10 \in 0..9
  OBVIOUS
<1>2. n = 10 * (n \div 10) + (n % 10)
  OBVIOUS
<1>3. n >= 10 => n \div 10 < n
  <2> DEFINE d == n \div 10
             r == n % 10
  <2>1. d \in Nat /\ r \in 0..9 /\ n = 10 * d + r
    BY <1>1, <1>2
  <2> HIDE DEF d, r
  <2>2. n >= 10 => d < n
    BY <2>1
  <2>3. QED
    BY <2>2 DEF d
<1>4. QED
  BY <1>1, <1>2, <1>3

\* digitSum is well defined: for every number it satisfies its equation.
LEMMA DigitSumDefined ==
  /\ digitSum \in [Nat -> Nat]
  /\ \A n \in Nat :
       digitSum[n] = IF n < 10 THEN n ELSE (n % 10) + digitSum[n \div 10]
<1> DEFINE stop == 0..9
           next == [n \in Nat |-> n \div 10]
           add == [n \in Nat |-> n % 10]
           Digits(g, n) == IF n < 10 THEN n ELSE (n % 10) + g[n \div 10]
<1>1. /\ stop \in SUBSET Nat /\ next \in [Nat -> Nat] /\ add \in [Nat -> Nat]
      /\ \A n \in Nat \ stop : next[n] < n
  BY LastDigit
<1>2. \A g : \A n \in Nat : OneCall(g, n, stop, next, add) = Digits(g, n)
  BY DEF OneCall
<1> HIDE DEF stop, next, add
<1>3. PICK f \in [Nat -> Nat] : \A n \in Nat : f[n] = OneCall(f, n, stop, next, add)
  BY <1>1, RecursionHasAValue
<1>4. f = [n \in Nat |-> Digits(f, n)]
  <2>1. \A n \in Nat : f[n] = Digits(f, n)
    BY <1>2, <1>3
  <2> HIDE DEF Digits
  <2>2. QED
    BY <2>1
<1>5. digitSum = [n \in Nat |-> Digits(digitSum, n)]
  BY <1>4, Zenon DEF digitSum
<1>6. /\ digitSum = [n \in Nat |-> digitSum[n]]
      /\ \A n \in Nat : digitSum[n] = OneCall(digitSum, n, stop, next, add)
  BY <1>2, <1>5
<1>7. digitSum \in [Nat -> Nat]
  BY <1>1, <1>6, RecursionIsTyped
<1>8. QED
  BY <1>5, <1>7

\* What the digits are for: their sum is smaller than a number of several digits,
\* never 0 for a positive one, and differs from the number by a multiple of 9.
LEMMA DigitSumReduces ==
  ASSUME NEW n \in Nat
  PROVE  /\ digitSum[n] \in Nat
         /\ n < 10 => digitSum[n] = n
         /\ n >= 10 => digitSum[n] < n
         /\ n # 0 => digitSum[n] # 0
         /\ \E k \in Nat : n = digitSum[n] + 9 * k
<1> DEFINE Good(m) == /\ digitSum[m] <= m
                      /\ m >= 10 => digitSum[m] < m
                      /\ m # 0 => digitSum[m] # 0
                      /\ \E k \in Nat : m = digitSum[m] + 9 * k
           Bad == { m \in Nat : ~Good(m) }
<1>1. ASSUME Bad # {}
      PROVE  FALSE
  <2>1. PICK j \in Bad : \A m \in Bad : j <= m
    <3>1. Bad \in SUBSET Nat
      OBVIOUS
    <3> HIDE DEF Bad
    <3>2. QED
      BY <1>1, <3>1, LeastExists
  <2>2. j \in Nat /\ ~Good(j)
    OBVIOUS
  <2> HIDE DEF Good
  <2>3. CASE j < 10
    <3>1. digitSum[j] = j /\ j = digitSum[j] + 9 * 0
      BY <2>2, <2>3, DigitSumDefined
    <3>2. Good(j)
      BY <2>2, <2>3, <3>1 DEF Good
    <3>3. QED
      BY <2>2, <3>2
  <2>4. CASE ~(j < 10)
    <3> DEFINE d == j \div 10
               r == j % 10
               s == digitSum[d]
               t == digitSum[j]
    <3>1. d \in Nat /\ d < j /\ r \in 0..9 /\ j = 10 * d + r
      BY <2>2, <2>4, LastDigit
    <3>2. t = r + s /\ s \in Nat
      BY <2>2, <2>4, <3>1, DigitSumDefined
    <3> HIDE DEF d, r
    <3>3. Good(d)
      BY <2>1, <2>2, <3>1
    <3>4. PICK k \in Nat : d = s + 9 * k
      BY <3>3 DEF Good
    <3>5. s <= d /\ (d # 0 => s # 0)
      BY <3>3 DEF Good
    <3> HIDE DEF s, t
    <3>6. t \in Nat /\ t < j /\ t # 0
      BY <2>2, <2>4, <3>1, <3>2, <3>5
    <3>7. j = t + 9 * (k + d)
      BY <2>2, <3>1, <3>2, <3>4
    <3>8. k + d \in Nat
      BY <3>1, <3>4
    <3>9. Good(j)
      BY <2>2, <3>6, <3>7, <3>8 DEF Good, t
    <3>10. QED
      BY <2>2, <3>9
  <2>5. QED
    BY <2>3, <2>4
<1>2. Good(n)
  BY <1>1
<1>3. QED
  BY <1>2, DigitSumDefined

-----------------------------------------------------------------------------
(* The reduction of a number, a date, a text *)

\* reduceNumber is well defined: the sum of the digits of what is not reduced is
\* smaller, so every chain ends.
LEMMA ReduceNumberDefined ==
  /\ reduceNumber \in [Nat -> Nat]
  /\ \A n \in Nat :
       reduceNumber[n] = IF Reduced(n) THEN n ELSE reduceNumber[digitSum[n]]
<1> DEFINE stop == { n \in Nat : Reduced(n) }
           next == digitSum
           add == [n \in Nat |-> 0]
           Chain(g, n) == IF Reduced(n) THEN n ELSE g[digitSum[n]]
<1>1. /\ stop \in SUBSET Nat /\ next \in [Nat -> Nat] /\ add \in [Nat -> Nat]
      /\ \A n \in Nat \ stop : next[n] < n
  BY DigitSumDefined, DigitSumReduces DEF Reduced
<1>2. ASSUME NEW g \in [Nat -> Nat], NEW n \in Nat
      PROVE  OneCall(g, n, stop, next, add) = Chain(g, n)
  BY DigitSumDefined DEF OneCall
<1> HIDE DEF stop, next, add
<1>3. PICK f \in [Nat -> Nat] : \A n \in Nat : f[n] = OneCall(f, n, stop, next, add)
  BY <1>1, RecursionHasAValue
<1>4. f = [n \in Nat |-> Chain(f, n)]
  <2>1. \A n \in Nat : f[n] = Chain(f, n)
    BY <1>2, <1>3
  <2> HIDE DEF Chain
  <2>2. QED
    BY <2>1
<1>5. reduceNumber = [n \in Nat |-> Chain(reduceNumber, n)]
  BY <1>4, Zenon DEF reduceNumber
<1>6. /\ reduceNumber = [n \in Nat |-> reduceNumber[n]]
      /\ \A n \in Nat : reduceNumber[n] = Chain(reduceNumber, n)
  BY <1>5
<1>7. \A n \in Nat : reduceNumber[n] \in Nat
  <2> DEFINE Bad == { n \in Nat : reduceNumber[n] \notin Nat }
  <2>1. ASSUME Bad # {}
        PROVE  FALSE
    <3>1. PICK j \in Bad : \A m \in Bad : j <= m
      <4>1. Bad \in SUBSET Nat
        OBVIOUS
      <4> HIDE DEF Bad
      <4>2. QED
        BY <2>1, <4>1, LeastExists
    <3>2. j \in Nat /\ reduceNumber[j] \notin Nat
      OBVIOUS
    <3>3. ~Reduced(j)
      BY <1>6, <3>2
    <3>4. digitSum[j] \in Nat /\ ~(j <= digitSum[j])
      BY <3>2, <3>3, DigitSumReduces DEF Reduced
    <3>5. reduceNumber[digitSum[j]] \in Nat
      BY <3>1, <3>4
    <3>6. QED
      BY <1>6, <3>2, <3>3, <3>5
  <2>2. QED
    BY <2>1
<1>8. QED
  BY <1>6, <1>7

\* Every positive number is reduced to one of 1..9, 11, 22 and 33, from which it
\* differs by a multiple of 9; what is reduced already is left as it is, so a
\* second reduction changes nothing.
THEOREM ReductionIsADigitalRoot ==
  ASSUME NEW n \in Nat \ {0}
  PROVE  /\ reduceNumber[n] \in ReducedNumbers
         /\ \E k \in Nat : n = reduceNumber[n] + 9 * k
         /\ n \in ReducedNumbers => reduceNumber[n] = n
         /\ reduceNumber[reduceNumber[n]] = reduceNumber[n]
<1> DEFINE Good(m) == /\ reduceNumber[m] \in ReducedNumbers
                      /\ \E k \in Nat : m = reduceNumber[m] + 9 * k
           Bad == { m \in Nat \ {0} : ~Good(m) }
<1>1. ReducedNumbers \subseteq Nat /\ \A m \in ReducedNumbers : Reduced(m)
  BY DEF ReducedNumbers, Reduced, IsMaster, MasterNumbers
<1>2. \A m \in Nat \ {0} : Reduced(m) => m \in ReducedNumbers
  BY DEF ReducedNumbers, Reduced, IsMaster, MasterNumbers
<1>3. \A m \in Nat : Reduced(m) => reduceNumber[m] = m
  BY ReduceNumberDefined
<1>4. ASSUME Bad # {}
      PROVE  FALSE
  <2>1. PICK j \in Bad : \A m \in Bad : j <= m
    <3>1. Bad \in SUBSET Nat
      OBVIOUS
    <3> HIDE DEF Bad
    <3>2. QED
      BY <1>4, <3>1, LeastExists
  <2>2. j \in Nat /\ j # 0 /\ ~Good(j)
    OBVIOUS
  <2> HIDE DEF Good
  <2>3. CASE Reduced(j)
    <3>1. reduceNumber[j] = j /\ j = reduceNumber[j] + 9 * 0
      BY <1>3, <2>2, <2>3
    <3>2. Good(j)
      BY <1>2, <2>2, <2>3, <3>1 DEF Good
    <3>3. QED
      BY <2>2, <3>2
  <2>4. CASE ~Reduced(j)
    <3> DEFINE s == digitSum[j]
               v == reduceNumber[s]
    <3>1. j >= 10
      BY <2>2, <2>4 DEF Reduced
    <3>2. s \in Nat /\ s < j /\ s # 0 /\ \E k \in Nat : j = s + 9 * k
      BY <2>2, <3>1, DigitSumReduces
    <3>3. v \in Nat /\ reduceNumber[j] = v
      BY <2>2, <2>4, <3>2, ReduceNumberDefined
    <3> HIDE DEF s
    <3>4. Good(s)
      BY <2>1, <2>2, <3>2
    <3>5. PICK k \in Nat : j = s + 9 * k
      BY <3>2
    <3>6. PICK l \in Nat : s = v + 9 * l
      BY <3>4 DEF Good
    <3>7. v \in ReducedNumbers
      BY <3>4 DEF Good
    <3> HIDE DEF v
    <3>8. j = v + 9 * (k + l) /\ k + l \in Nat
      BY <2>2, <3>3, <3>5, <3>6
    <3>9. Good(j)
      BY <3>3, <3>7, <3>8 DEF Good
    <3>10. QED
      BY <2>2, <3>9
  <2>5. QED
    BY <2>3, <2>4
<1>5. Good(n)
  BY <1>4
<1>6. QED
  BY <1>1, <1>3, <1>5

\* A day of the calendar.
IsDate(d) == d.year \in Nat \ {0} /\ d.month \in Nat \ {0} /\ d.day \in Nat \ {0}

\* Every date is reduced to one of the same twelve values, which is what the day's
\* number of a forecast is drawn from, and it is the digital root of the sum of the
\* year, the month and the day: summing the digits of the three together loses nothing.
THEOREM DatesAreReduced ==
  ASSUME NEW d, IsDate(d)
  PROVE  /\ ReduceDate(d) \in ReducedNumbers
         /\ \E k \in Nat : d.year + d.month + d.day = ReduceDate(d) + 9 * k
<1> DEFINE y == d.year
           m == d.month
           a == d.day
           s == digitSum[y] + digitSum[m] + digitSum[a]
<1>1. y \in Nat \ {0} /\ m \in Nat \ {0} /\ a \in Nat \ {0}
  BY DEF IsDate
<1> HIDE DEF y, m, a
<1>2. /\ digitSum[y] \in Nat /\ digitSum[m] \in Nat /\ digitSum[a] \in Nat
      /\ digitSum[y] # 0
  BY <1>1, DigitSumReduces
<1>3. PICK ky \in Nat : y = digitSum[y] + 9 * ky
  BY <1>1, DigitSumReduces
<1>4. PICK km \in Nat : m = digitSum[m] + 9 * km
  BY <1>1, DigitSumReduces
<1>5. PICK ka \in Nat : a = digitSum[a] + 9 * ka
  BY <1>1, DigitSumReduces
<1>6. s \in Nat \ {0} /\ y + m + a = s + 9 * (ky + km + ka)
  BY <1>1, <1>2, <1>3, <1>4, <1>5
<1> HIDE DEF s
<1>7. reduceNumber[s] \in ReducedNumbers
  BY <1>6, ReductionIsADigitalRoot
<1>8. PICK k \in Nat : s = reduceNumber[s] + 9 * k
  BY <1>6, ReductionIsADigitalRoot
<1>9. reduceNumber[s] \in Nat
  BY <1>7 DEF ReducedNumbers, MasterNumbers
<1>10. /\ y + m + a = reduceNumber[s] + 9 * (k + ky + km + ka)
       /\ k + ky + km + ka \in Nat
  BY <1>6, <1>8, <1>9
<1>11. reduceNumber[s] = ReduceDate(d)
  BY DEF ReduceDate, s, y, m, a
<1>12. QED
  BY <1>7, <1>10, <1>11 DEF y, m, a

\* 0 is free to stand for no resonance: two dates share a value or the answer is 0,
\* never both, whichever is named first.
THEOREM ResonanceIsASharedValue ==
  ASSUME NEW d, NEW e, IsDate(d), IsDate(e)
  PROVE  /\ DateResonance(d, e) # 0 <=> ReduceDate(d) = ReduceDate(e)
         /\ DateResonance(d, e) = DateResonance(e, d)
<1>1. 0 \notin ReducedNumbers
  BY DEF ReducedNumbers, MasterNumbers
<1>2. QED
  BY <1>1, DatesAreReduced DEF DateResonance

\* The value of a text is one of the twelve or 0, and 0 says exactly that the letters
\* sum to nothing: no sum is reduced to the sentinel.
THEOREM TextsAreReduced ==
  ASSUME NEW text, GematriaSimple(text) \in Nat
  PROVE  /\ ComputeNumerology(text) \in ReducedNumbers \cup {0}
         /\ ComputeNumerology(text) = 0 <=> GematriaSimple(text) = 0
<1>1. 0 \notin ReducedNumbers
  BY DEF ReducedNumbers, MasterNumbers
<1>2. GematriaSimple(text) # 0 => reduceNumber[GematriaSimple(text)] \in ReducedNumbers
  BY ReductionIsADigitalRoot
<1>3. QED
  BY <1>1, <1>2 DEF ComputeNumerology

-----------------------------------------------------------------------------
(* The dominant value *)

\* A nonempty set of numbers that has a bound has a greatest element.
LEMMA GreatestExists ==
  ASSUME NEW S \in SUBSET Nat, S # {}, NEW bound \in Nat, \A x \in S : x <= bound
  PROVE  \E x \in S : \A y \in S : y <= x
<1> DEFINE T == { bound - x : x \in S }
<1>1. T \in SUBSET Nat /\ T # {}
  <2>1. \A x \in S : bound - x \in Nat
    OBVIOUS
  <2>2. QED
    BY <2>1
<1>2. Min(T) \in T /\ \A t \in T : Min(T) <= t
  <2> HIDE DEF T
  <2>1. QED
    BY <1>1, LeastExists
<1>3. PICK x \in S : Min(T) = bound - x
  BY <1>2
<1>4. ASSUME NEW y \in S
      PROVE  y <= x
  <2>1. bound - x <= bound - y
    BY <1>2, <1>3
  <2>2. QED
    BY <2>1
<1>5. QED
  BY <1>4

\* In every finite family of readings the dominant value is a value of the family,
\* no other is more frequent and none as frequent is larger: the choice is one value,
\* whatever order the readings come in.  An empty family alone is 0.
THEOREM DominantIsTheMode ==
  ASSUME NEW readings, IsFiniteSet(DOMAIN readings),
         \A i \in DOMAIN readings : readings[i] \in ReducedNumbers
  PROVE  /\ DominantNumber(readings) = 0 <=> DOMAIN readings = {}
         /\ DOMAIN readings # {} =>
              LET v == DominantNumber(readings)
              IN /\ v \in Values(readings)
                 /\ \A w \in Values(readings) :
                      /\ Votes(readings, w) <= Votes(readings, v)
                      /\ Votes(readings, w) = Votes(readings, v) => w <= v
<1> DEFINE V == Values(readings)
           count(v) == Votes(readings, v)
           bound == Cardinality(DOMAIN readings)
<1>1. V \subseteq 1..33 /\ (DOMAIN readings # {} => V # {})
  BY DEF Values, ReducedNumbers, MasterNumbers
<1>2. bound \in Nat /\ \A v : count(v) \in Nat /\ count(v) <= bound
  <2>1. bound \in Nat
    BY FS_CardinalityType
  <2>2. ASSUME NEW v
        PROVE  count(v) \in Nat /\ count(v) <= bound
    <3>1. { i \in DOMAIN readings : readings[i] = v } \subseteq DOMAIN readings
      OBVIOUS
    <3>2. QED
      BY <3>1, FS_Subset, FS_CardinalityType DEF Votes
  <2>3. QED
    BY <2>1, <2>2
<1> HIDE DEF V, count, bound
<1>3. ASSUME DOMAIN readings # {}
      PROVE  \E v \in V : \A w \in V : \/ count(v) > count(w)
                                       \/ count(v) = count(w) /\ v >= w
  <2> DEFINE counts == { count(v) : v \in V }
  <2>1. counts \in SUBSET Nat /\ counts # {} /\ \A n \in counts : n <= bound
    BY <1>1, <1>2, <1>3
  <2>2. PICK most \in counts : \A n \in counts : n <= most
    <3> HIDE DEF counts
    <3>1. QED
      BY <1>2, <2>1, GreatestExists
  <2> DEFINE top == { v \in V : count(v) = most }
  <2>3. top \in SUBSET Nat /\ top # {} /\ \A v \in top : v <= 33
    BY <1>1, <2>2
  <2>4. PICK v \in top : \A w \in top : w <= v
    <3> HIDE DEF top
    <3>1. QED
      BY <2>3, GreatestExists
  <2>5. ASSUME NEW w \in V
        PROVE  \/ count(v) > count(w)
               \/ count(v) = count(w) /\ v >= w
    <3>1. count(w) <= most /\ count(v) = most /\ count(w) \in Nat
      BY <1>2, <2>2, <2>4
    <3>2. count(w) = most => w <= v
      BY <2>4
    <3>3. v \in Nat /\ w \in Nat /\ most \in Nat
      BY <1>1, <2>1, <2>2, <2>4
    <3>4. QED
      BY <3>1, <3>2, <3>3
  <2>6. QED
    BY <2>4, <2>5
<1>4. CASE DOMAIN readings = {}
  BY <1>4 DEF DominantNumber
<1>5. CASE DOMAIN readings # {}
  <2> DEFINE v == DominantNumber(readings)
  <2>1. v \in V /\ \A w \in V : count(v) > count(w) \/ (count(v) = count(w) /\ v >= w)
    BY <1>3, <1>5 DEF DominantNumber, V, count
  <2> HIDE DEF v
  <2>2. v # 0 /\ \A w \in V : count(w) <= count(v) /\ (count(w) = count(v) => w <= v)
    BY <1>1, <1>2, <2>1
  <2>3. QED
    BY <1>5, <2>1, <2>2 DEF v, V, count
<1>6. QED
  BY <1>4, <1>5

-----------------------------------------------------------------------------
(* Days and instants *)

\* A day restored from the instant written for it is the day, and every instant lies
\* in exactly one day.
LEMMA DaysAreRestored ==
  /\ \A day \in Int : DayStart(day) \in Int /\ RestoreDay(DayStart(day)) = day
  /\ \A instant \in Int :
       /\ RestoreDay(instant) \in Int
       /\ DayStart(RestoreDay(instant)) <= instant
       /\ instant < DayStart(RestoreDay(instant) + 1)
<1>1. Midnight = 86400
  BY DEF Midnight
<1>2. ASSUME NEW day \in Int
      PROVE  DayStart(day) \in Int /\ RestoreDay(DayStart(day)) = day
  BY <1>1 DEF DayStart, RestoreDay
<1>3. ASSUME NEW instant \in Int
      PROVE  /\ RestoreDay(instant) \in Int
             /\ DayStart(RestoreDay(instant)) <= instant
             /\ instant < DayStart(RestoreDay(instant) + 1)
  BY <1>1 DEF DayStart, RestoreDay
<1>4. QED
  BY <1>2, <1>3

\* A filter over instants, half open at its end, asks for whole days, inclusive at
\* both: an instant passes exactly when its day lies in the range, whatever the time
\* of day, either end left open or not.
THEOREM FiltersAreInclusiveInDays ==
  ASSUME NEW instant \in Int, NEW from \in Int \cup {None}, NEW to \in Int \cup {None}
  PROVE  InDays(instant, from, to) <=>
           /\ from # None => from <= RestoreDay(instant)
           /\ to # None => RestoreDay(instant) <= to
<1> DEFINE day == RestoreDay(instant)
<1>1. Midnight = 86400
  BY DEF Midnight
<1>2. day \in Int /\ 86400 * day <= instant /\ instant < 86400 * (day + 1)
  BY <1>1, DaysAreRestored DEF DayStart
<1> HIDE DEF day
<1>3. \A d \in Int : instant >= 86400 * d <=> d <= day
  BY <1>2
<1>4. \A d \in Int : instant < 86400 * (d + 1) <=> day <= d
  BY <1>2
<1>5. QED
  BY <1>1, <1>3, <1>4, NoneAssumption DEF InDays, DayStart, day

-----------------------------------------------------------------------------
(* Payloads *)

\* A model: a record with a value, which may be None, for every field.
IsModel(m, fields) == m = [k \in fields |-> m[k]]

\* The payload of an article, field by field.
LEMMA NewsPayloadFields ==
  ASSUME NEW item, IsModel(item, NewsFields), item.date \in Int
  PROVE  LET p == NewsPayload(item)
         IN /\ DOMAIN p = { k \in NewsFields : item[k] # None }
                          \cup { k \in {"master_number"} : item.numerology_value # None }
            /\ \A k \in NewsFields \cap DOMAIN p :
                 p[k] = IF k = "date" THEN DayStart(item[k]) ELSE item[k]
            /\ "date" \in DOMAIN p /\ p["date"] = DayStart(item.date)
            /\ "master_number" \in DOMAIN p =>
                 p["master_number"] = IsMaster(item.numerology_value)
<1> DEFINE p == NewsPayload(item)
           q == [Present(item) EXCEPT !["date"] = DayStart(@)]
           derived == { k \in {"master_number"} : item.numerology_value # None }
           set == { k \in NewsFields : item[k] # None }
<1>1. "date" \in set /\ item.date = item["date"] /\ "master_number" \notin NewsFields
  BY NoneAssumption DEF IsModel, NewsFields
<1>2. q = [k \in set |-> IF k = "date" THEN DayStart(item[k]) ELSE item[k]]
  BY <1>1 DEF Present, Restrict, IsModel
<1>3. p = [k \in DOMAIN q \cup derived |->
             IF k = "master_number" THEN IsMaster(item.numerology_value) ELSE q[k]]
  BY DEF NewsPayload
<1> HIDE DEF p, q
<1>4. DOMAIN p = set \cup derived
  BY <1>2, <1>3
<1>5. \A k \in NewsFields \cap DOMAIN p :
        p[k] = IF k = "date" THEN DayStart(item[k]) ELSE item[k]
  <2> SUFFICES ASSUME NEW k \in NewsFields, k \in DOMAIN p
               PROVE  p[k] = IF k = "date" THEN DayStart(item[k]) ELSE item[k]
    OBVIOUS
  <2>1. k # "master_number" /\ k \in set
    BY <1>1, <1>4
  <2>2. p[k] = q[k]
    BY <1>3, <1>4, <2>1
  <2>3. QED
    BY <1>2, <2>1, <2>2
<1>6. "master_number" \in DOMAIN p => p["master_number"] = IsMaster(item.numerology_value)
  BY <1>3, <1>4
<1>7. QED
  BY <1>1, <1>4, <1>5, <1>6 DEF p, NewsFields

\* What is written as a payload is read back as it was: a field that is not set loses
\* its key and gets its default again, a day becomes an instant and a day again.
THEOREM NewsIsReadBack ==
  ASSUME NEW item, IsModel(item, NewsFields), item.date \in Int
  PROVE  NewsFromPayload(NewsPayload(item)) = item
<1> DEFINE p == NewsPayload(item)
           set == { k \in NewsFields : item[k] # None }
           r == FromPayload(NewsFields, p)
<1>1. /\ DOMAIN p \cap NewsFields = set
      /\ \A k \in set : p[k] = IF k = "date" THEN DayStart(item[k]) ELSE item[k]
  BY NewsPayloadFields DEF NewsFields
<1>2. RestoreDay(DayStart(item["date"])) = item["date"]
  BY DaysAreRestored
<1>3. "date" \in set
  BY NoneAssumption DEF NewsFields
<1> HIDE DEF p
<1>4. r = [k \in NewsFields |-> IF k = "date" THEN DayStart(item[k]) ELSE item[k]]
  BY <1>1, <1>3 DEF FromPayload
<1>5. [r EXCEPT !["date"] = RestoreDay(@)] = item
  BY <1>2, <1>3, <1>4 DEF IsModel
<1>6. QED
  BY <1>5 DEF NewsFromPayload, p

\* An activation read back from its point is the one that was recorded
\* (payloads.py, activation_payload and activation_from_payload).
THEOREM ActivationIsReadBack ==
  ASSUME NEW activation, IsModel(activation, ActivationFields), activation.date \in Int
  PROVE  ActivationFromPayload(ActivationPayload(activation)) = activation
<1> DEFINE p == ActivationPayload(activation)
           set == { k \in ActivationFields : activation[k] # None }
           r == FromPayload(ActivationFields, p)
<1>1. "date" \in set /\ activation.date = activation["date"]
  BY NoneAssumption DEF ActivationFields
<1>2. p = [k \in set |-> IF k = "date" THEN DayStart(activation[k]) ELSE activation[k]]
  BY <1>1 DEF ActivationPayload, Present, Restrict, IsModel
<1>3. RestoreDay(DayStart(activation["date"])) = activation["date"]
  BY DaysAreRestored
<1> HIDE DEF p
<1>4. r = [k \in ActivationFields |->
             IF k = "date" THEN DayStart(activation[k]) ELSE activation[k]]
  BY <1>1, <1>2 DEF FromPayload
<1>5. [r EXCEPT !["date"] = RestoreDay(@)] = activation
  BY <1>1, <1>3, <1>4 DEF IsModel
<1>6. QED
  BY <1>5 DEF ActivationFromPayload, p

\* A pattern, with or without the time it was found at, is read back as it was.
THEOREM PatternIsReadBack ==
  ASSUME NEW pattern, IsModel(pattern, PatternFields)
  PROVE  PatternFromPayload(PatternPayload(pattern)) = pattern
<1> DEFINE p == PatternPayload(pattern)
<1>1. p = [k \in { k \in PatternFields : pattern[k] # None } |-> pattern[k]]
  BY DEF PatternPayload, Present, Restrict, IsModel
<1> HIDE DEF p
<1>2. FromPayload(PatternFields, p) = pattern
  BY <1>1 DEF FromPayload, IsModel
<1>3. QED
  BY <1>2 DEF PatternFromPayload, p

\* The reading of a day is read back as it was, its nested patterns too.
THEOREM ForecastIsReadBack ==
  ASSUME NEW forecast, IsModel(forecast, ForecastFields), forecast.date \in Int,
         NEW n \in Nat, forecast.patterns = [i \in 1..n |-> forecast.patterns[i]],
         \A i \in 1..n : IsModel(forecast.patterns[i], PatternFields)
  PROVE  ForecastFromPayload(ForecastPayload(forecast)) = forecast
<1> DEFINE p == ForecastPayload(forecast)
           r == FromPayload(ForecastFields, p)
           found == [i \in 1..n |-> PatternPayload(forecast.patterns[i])]
           restored == [i \in 1..n |-> PatternFromPayload(found[i])]
<1>1. /\ "date" \in ForecastFields /\ "patterns" \in ForecastFields
      /\ "date" # "patterns" /\ DOMAIN forecast.patterns = 1..n
  BY DEF ForecastFields
<1>2. p = [k \in ForecastFields |-> IF k = "date" THEN DayStart(forecast.date)
                                    ELSE IF k = "patterns" THEN found ELSE forecast[k]]
  BY <1>1 DEF ForecastPayload, IsModel
<1>3. restored = forecast.patterns
  <2>1. \A i \in 1..n : restored[i] = forecast.patterns[i]
    BY PatternIsReadBack
  <2>2. QED
    BY <2>1
<1> HIDE DEF p, found
<1>4. r = p
  BY <1>2 DEF FromPayload
<1>5. DOMAIN r["patterns"] = 1..n /\ r["patterns"] = found
  BY <1>1, <1>2, <1>4 DEF found
<1>6. RestoreDay(DayStart(forecast.date)) = forecast.date
  BY DaysAreRestored
<1> HIDE DEF r
<1>7. [r EXCEPT !["date"] = RestoreDay(@),
                !["patterns"] = [i \in DOMAIN @ |-> PatternFromPayload(@[i])]] = forecast
  BY <1>1, <1>2, <1>3, <1>4, <1>5, <1>6 DEF IsModel
<1>8. QED
  BY <1>7 DEF ForecastFromPayload, p, r

\* So is the digest of a period.
THEOREM DigestIsReadBack ==
  ASSUME NEW digest, IsModel(digest, DigestFields),
         digest.period_start \in Int, digest.period_end \in Int
  PROVE  DigestFromPayload(DigestPayload(digest)) = digest
<1> DEFINE p == DigestPayload(digest)
           r == FromPayload(DigestFields, p)
           Ends == {"period_start", "period_end"}
<1>1. Ends \subseteq DigestFields
  BY DEF DigestFields
<1>2. p = [k \in DigestFields |-> IF k \in Ends THEN DayStart(digest[k]) ELSE digest[k]]
  BY <1>1 DEF DigestPayload, IsModel
<1>3. \A k \in Ends : RestoreDay(DayStart(digest[k])) = digest[k]
  BY DaysAreRestored
<1> HIDE DEF p
<1>4. r = p
  BY <1>2 DEF FromPayload
<1>5. [r EXCEPT !["period_start"] = RestoreDay(@), !["period_end"] = RestoreDay(@)] = digest
  BY <1>1, <1>2, <1>3, <1>4 DEF IsModel
<1>6. QED
  BY <1>5 DEF DigestFromPayload, p

\* A filter over stored articles, whatever it asks for, answers as the same question
\* asked of the articles themselves: whole days, both inclusive; an article whose
\* value is not computed answers the master-number question neither way.
THEOREM FiltersAskTheArticles ==
  ASSUME NEW item, IsModel(item, NewsFields), item.date \in Int,
         NEW f, f.date_from \in Int \cup {None}, f.date_to \in Int \cup {None},
         f = [k \in {"date_from", "date_to", "source", "numerology_value",
                     "master_number"} |-> f[k]]
  PROVE  Matches(NewsPayload(item), f) <=>
           /\ f.date_from # None => f.date_from <= item.date
           /\ f.date_to # None => item.date <= f.date_to
           /\ f.source # None => item.source = f.source
           /\ f.numerology_value # None => item.numerology_value = f.numerology_value
           /\ f.master_number # None =>
                /\ item.numerology_value # None
                /\ f.master_number = (item.numerology_value \in MasterNumbers)
<1> DEFINE p == NewsPayload(item)
<1>1. InDays(p["date"], f.date_from, f.date_to) <=>
        /\ f.date_from # None => f.date_from <= item.date
        /\ f.date_to # None => item.date <= f.date_to
  <2>1. p["date"] = DayStart(item.date)
    BY NewsPayloadFields
  <2>2. DayStart(item.date) \in Int /\ RestoreDay(DayStart(item.date)) = item.date
    BY DaysAreRestored
  <2>3. QED
    BY <2>1, <2>2, FiltersAreInclusiveInDays
<1>2. f.source # None => (Carries(p, "source", f.source) <=> item.source = f.source)
  BY NewsPayloadFields DEF Carries, NewsFields
<1>3. f.numerology_value # None =>
        (Carries(p, "numerology_value", f.numerology_value)
           <=> item.numerology_value = f.numerology_value)
  BY NewsPayloadFields DEF Carries, NewsFields
<1>4. Carries(p, "master_number", f.master_number) <=>
        /\ item.numerology_value # None
        /\ f.master_number = (item.numerology_value \in MasterNumbers)
  <2>1. "master_number" \in DOMAIN p <=> item.numerology_value # None
    BY NewsPayloadFields DEF NewsFields
  <2>2. "master_number" \in DOMAIN p =>
          p["master_number"] = (item.numerology_value \in MasterNumbers)
    BY NewsPayloadFields DEF IsMaster
  <2>3. QED
    BY <2>1, <2>2, Zenon DEF Carries
<1> HIDE DEF p
<1>5. Matches(p, f) <=>
        /\ InDays(p["date"], f.date_from, f.date_to)
        /\ f.source # None => Carries(p, "source", f.source)
        /\ f.numerology_value # None => Carries(p, "numerology_value", f.numerology_value)
        /\ f.master_number # None => Carries(p, "master_number", f.master_number)
  BY DEF Matches
<1>6. QED
  BY <1>1, <1>2, <1>3, <1>4, <1>5 DEF p

-----------------------------------------------------------------------------
(* The day of an argument *)

Offset(sign, days) == [kind |-> "offset", sign |-> sign, days |-> days]

Day(d) == [kind |-> "day", day |-> d]

\* What an argument names, form by form.
LEMMA ParseDayForms ==
  ASSUME NEW today \in Calendar
  PROVE  /\ \A n \in Nat :
              /\ ParseDay(Offset(1, n), today) =
                   IF today + n \in Calendar THEN Day(today + n) ELSE Raises("overflow_error")
              /\ ParseDay(Offset(-1, n), today) =
                   IF today - n \in Calendar THEN Day(today - n) ELSE Raises("overflow_error")
         /\ \A name \in DOMAIN Named :
              LET day == today + Named[name]
              IN ParseDay([kind |-> "named", name |-> name], today) =
                   IF day \in Calendar THEN Day(day) ELSE Raises("overflow_error")
<1>1. today \in Int
  BY DEF Calendar
<1>2. \A n \in Nat : today + 1 * n = today + n /\ today + (-1) * n = today - n
  BY <1>1
<1>3. \A s, n : ParseDay(Offset(s, n), today) =
                  IF today + s * n \in Calendar THEN Day(today + s * n)
                  ELSE Raises("overflow_error")
  BY DEF ParseDay, Offset, Day
<1>4. \A name : ParseDay([kind |-> "named", name |-> name], today) =
                  IF today + Named[name] \in Calendar THEN Day(today + Named[name])
                  ELSE Raises("overflow_error")
  BY DEF ParseDay, Day
<1>5. QED
  BY <1>2, <1>3, <1>4

\* An offset names the day so many days away when the calendar has it, and the way
\* back from there is today; otherwise the addition raises, at either end, and names
\* no day.
THEOREM OffsetsStayInTheCalendar ==
  ASSUME NEW today \in Calendar, NEW n \in Nat
  PROVE  /\ IF today + n \in Calendar
              THEN /\ ParseDay(Offset(1, n), today) = Day(today + n)
                   /\ ParseDay(Offset(-1, n), today + n) = Day(today)
              ELSE ParseDay(Offset(1, n), today) = Raises("overflow_error")
         /\ IF today - n \in Calendar
              THEN /\ ParseDay(Offset(-1, n), today) = Day(today - n)
                   /\ ParseDay(Offset(1, n), today - n) = Day(today)
              ELSE ParseDay(Offset(-1, n), today) = Raises("overflow_error")
<1>1. today \in Int
  BY DEF Calendar
<1>2. (today + n) - n = today /\ (today - n) + n = today
  BY <1>1
<1>3. QED
  BY <1>2, ParseDayForms

\* The names are offsets: no day, one day ahead, one day back.
THEOREM NamesAreOffsets ==
  ASSUME NEW today \in Calendar
  PROVE  LET Name(name) == ParseDay([kind |-> "named", name |-> name], today)
         IN /\ Name("today") = Day(today)
            /\ Name("tomorrow") = ParseDay(Offset(1, 1), today)
            /\ Name("yesterday") = ParseDay(Offset(-1, 1), today)
<1>1. today \in Int
  BY DEF Calendar
<1>2. /\ today + 0 = today /\ today + 1 = today + 1 /\ today + -1 = today - 1
      /\ {"today", "tomorrow", "yesterday"} = DOMAIN Named
      /\ Named["today"] = 0 /\ Named["tomorrow"] = 1 /\ Named["yesterday"] = -1
  BY <1>1 DEF Named
<1>3. QED
  BY <1>2, ParseDayForms

-----------------------------------------------------------------------------
(* Sorting *)

\* An order of the places of a list, as a comparison of its elements makes it: elements
\* may be equal in it, and equality is passed on.
IsOrder(B, n) ==
  /\ B \in SUBSET ((1..n) \X (1..n))
  /\ \A i \in 1..n : <<i, i>> \notin B
  /\ \A i, j, k \in 1..n :
       /\ <<i, j>> \in B /\ <<j, k>> \in B => <<i, k>> \in B
       /\ <<i, j>> \notin B /\ <<j, k>> \notin B => <<i, k>> \notin B

\* The places that come no later than i in a stable sort, and where it puts i.
NoLater(B, n, i) == { j \in 1..n : <<j, i>> \in B \/ (<<i, j>> \notin B /\ j <= i) }

Place(B, n, i) == Cardinality(NoLater(B, n, i))

\* Of two places, the one that goes first is counted in the other's and not the
\* other way round.
LEMMA PlacesFollow ==
  ASSUME NEW n \in Nat, NEW B, IsOrder(B, n), NEW i \in 1..n, NEW j \in 1..n, i # j,
         <<i, j>> \in B \/ (<<j, i>> \notin B /\ i < j)
  PROVE  Place(B, n, i) < Place(B, n, j)
<1>1. NoLater(B, n, i) \subseteq NoLater(B, n, j)
  BY DEF NoLater, IsOrder
<1>2. j \in NoLater(B, n, j) /\ j \notin NoLater(B, n, i)
  BY DEF NoLater, IsOrder
<1>3. IsFiniteSet(NoLater(B, n, j))
  <2>1. IsFiniteSet(1..n) /\ NoLater(B, n, j) \in SUBSET (1..n)
    BY FS_Interval DEF NoLater
  <2>2. QED
    BY <2>1, FS_Subset
<1>4. NoLater(B, n, i) # NoLater(B, n, j)
  BY <1>2
<1>5. /\ IsFiniteSet(NoLater(B, n, i))
      /\ Cardinality(NoLater(B, n, i)) <= Cardinality(NoLater(B, n, j))
      /\ Cardinality(NoLater(B, n, i)) # Cardinality(NoLater(B, n, j))
  <2> DEFINE S == NoLater(B, n, i)
             T == NoLater(B, n, j)
  <2>1. S \in SUBSET T /\ IsFiniteSet(T) /\ S # T
    BY <1>1, <1>3, <1>4
  <2> HIDE DEF S, T
  <2>2. QED
    BY <2>1, FS_Subset DEF S, T
<1>6. Cardinality(NoLater(B, n, i)) \in Nat /\ Cardinality(NoLater(B, n, j)) \in Nat
  BY <1>3, <1>5, FS_CardinalityType
<1>7. QED
  BY <1>5, <1>6 DEF Place

\* A place is one of the places.
LEMMA PlacesAreInTheList ==
  ASSUME NEW n \in Nat, NEW B, IsOrder(B, n), NEW i \in 1..n
  PROVE  Place(B, n, i) \in 1..n
<1> DEFINE before == NoLater(B, n, i)
<1>1. IsFiniteSet(1..n) /\ Cardinality(1..n) = n
  BY FS_Interval
<1>2. before \in SUBSET (1..n) /\ i \in before
  BY DEF NoLater, IsOrder
<1>3. IsFiniteSet(before) /\ Cardinality(before) <= n
  BY <1>1, <1>2, FS_Subset
<1>4. Cardinality(before) \in Nat /\ Cardinality(before) # 0
  <2> HIDE DEF before
  <2>1. before # {}
    BY <1>2
  <2>2. QED
    BY <1>3, <2>1, FS_CardinalityType, FS_EmptySet
<1>5. QED
  BY <1>3, <1>4 DEF Place

\* No two places are sorted to the same one.
LEMMA PlacesDiffer ==
  ASSUME NEW n \in Nat, NEW B, IsOrder(B, n), NEW i \in 1..n, NEW j \in 1..n, i # j
  PROVE  Place(B, n, i) # Place(B, n, j)
<1>1. Place(B, n, i) \in Nat /\ Place(B, n, j) \in Nat
  <2>1. Place(B, n, i) \in 1..n /\ Place(B, n, j) \in 1..n
    BY PlacesAreInTheList
  <2>2. QED
    BY <2>1
<1>2. CASE <<i, j>> \in B \/ (<<j, i>> \notin B /\ i < j)
  <2>1. Place(B, n, i) < Place(B, n, j)
    BY <1>2, PlacesFollow
  <2>2. QED
    BY <1>1, <2>1
<1>3. CASE <<j, i>> \in B \/ (<<i, j>> \notin B /\ j < i)
  <2>1. Place(B, n, j) < Place(B, n, i)
    BY <1>3, PlacesFollow
  <2>2. QED
    BY <1>1, <2>1
<1>4. QED
  BY <1>2, <1>3

\* Every place is one that an element is sorted to.
LEMMA PlacesAreTaken ==
  ASSUME NEW n \in Nat, NEW B, IsOrder(B, n), NEW k \in 1..n
  PROVE  \E i \in 1..n : Place(B, n, i) = k
<1> DEFINE N == 1..n
           place == [i \in N |-> Place(B, n, i)]
<1>1. place \in [N -> N]
  BY PlacesAreInTheList
<1>2. \A i, j \in N : i # j => place[i] # place[j]
  BY PlacesDiffer
<1>3. IsFiniteSet(N) /\ Cardinality(N) = n
  BY FS_Interval
<1>4. \E i \in N : place[i] = k
  <2>1. k \in N
    OBVIOUS
  <2> HIDE DEF place, N
  <2>2. place \in Injection(N, N)
    BY <1>1, <1>2 DEF Injection, IsInjective
  <2>3. place \in Surjection(N, N)
    BY <1>3, <2>2, FS_Injection
  <2>4. QED
    BY <2>1, <2>3 DEF Surjection
<1>5. QED
  BY <1>4

\* What a stable sort makes of n elements, taking the k-th from the place the order
\* gives to k, is a permutation of them; nothing later in it comes before an earlier
\* one in the order, and equals stay as they were.
LEMMA SortingPermutes ==
  ASSUME NEW n \in Nat, NEW B, IsOrder(B, n), NEW from \in [1..n -> 1..n],
         \A k \in 1..n : Place(B, n, from[k]) = k
  PROVE  /\ from \in Bijection(1..n, 1..n)
         /\ \A k, l \in 1..n : k < l =>
              /\ <<from[l], from[k]>> \notin B
              /\ <<from[k], from[l]>> \in B \/ from[k] < from[l]
<1> DEFINE N == 1..n
<1>1. \A i \in N : Place(B, n, i) \in N /\ from[Place(B, n, i)] = i
  <2> SUFFICES ASSUME NEW i \in N
               PROVE  Place(B, n, i) \in N /\ from[Place(B, n, i)] = i
    OBVIOUS
  <2>1. Place(B, n, i) \in N
    BY PlacesAreInTheList
  <2>2. PICK k \in N : k = Place(B, n, i)
    BY <2>1
  <2>3. from[k] \in N /\ Place(B, n, from[k]) = Place(B, n, i)
    BY <2>2
  <2>4. QED
    BY <2>2, <2>3, PlacesDiffer
<1>2. from \in Bijection(N, N)
  <2>1. \A i \in N : \E k \in N : from[k] = i
    BY <1>1
  <2>2. \A k, l \in N : from[k] = from[l] => k = l
    OBVIOUS
  <2> HIDE DEF N
  <2>3. QED
    BY <2>1, <2>2 DEF N, Bijection, Injection, IsInjective, Surjection
<1>3. ASSUME NEW k \in N, NEW l \in N, k < l
      PROVE  <<from[l], from[k]>> \notin B /\ (<<from[k], from[l]>> \in B \/ from[k] < from[l])
  <2>1. from[k] \in N /\ from[l] \in N
    OBVIOUS
  <2>2. Place(B, n, from[k]) = k /\ Place(B, n, from[l]) = l
    OBVIOUS
  <2>3. from[k] # from[l]
    BY <1>3, <2>2
  <2>4. ~ (<<from[l], from[k]>> \in B \/ (<<from[k], from[l]>> \notin B /\ from[l] < from[k]))
    <3> SUFFICES ASSUME \/ <<from[l], from[k]>> \in B
                        \/ <<from[k], from[l]>> \notin B /\ from[l] < from[k]
                 PROVE  FALSE
      OBVIOUS
    <3>1. Place(B, n, from[l]) < Place(B, n, from[k])
      BY <2>1, <2>3, PlacesFollow
    <3>2. QED
      BY <1>3, <2>2, <3>1
  <2>5. QED
    BY <2>1, <2>3, <2>4
<1>4. QED
  BY <1>2, <1>3

\* Pairs of integers are ordered by their first, then by their second component.
LEMMA PairsAreOrdered ==
  ASSUME NEW n \in Nat, NEW f \in [1..n -> Int], NEW g \in [1..n -> Int]
  PROVE  IsOrder({ p \in (1..n) \X (1..n) :
                     PairBefore(<<f[p[1]], g[p[1]]>>, <<f[p[2]], g[p[2]]>>) }, n)
<1> DEFINE B == { p \in (1..n) \X (1..n) :
                    PairBefore(<<f[p[1]], g[p[1]]>>, <<f[p[2]], g[p[2]]>>) }
<1>1. B \in SUBSET ((1..n) \X (1..n))
  OBVIOUS
<1>2. \A i, j \in 1..n : <<i, j>> \in B <=> f[i] < f[j] \/ (f[i] = f[j] /\ g[i] < g[j])
  BY DEF PairBefore
<1> HIDE DEF B
<1>3. \A i \in 1..n : f[i] \in Int /\ g[i] \in Int
  OBVIOUS
<1>4. \A i \in 1..n : <<i, i>> \notin B
  BY <1>2, <1>3
<1>5. ASSUME NEW i \in 1..n, NEW j \in 1..n, NEW k \in 1..n
      PROVE  /\ <<i, j>> \in B /\ <<j, k>> \in B => <<i, k>> \in B
             /\ <<i, j>> \notin B /\ <<j, k>> \notin B => <<i, k>> \notin B
  <2>1. /\ f[i] \in Int /\ f[j] \in Int /\ f[k] \in Int
        /\ g[i] \in Int /\ g[j] \in Int /\ g[k] \in Int
    BY <1>3
  <2>2. /\ <<i, j>> \in B <=> f[i] < f[j] \/ (f[i] = f[j] /\ g[i] < g[j])
        /\ <<j, k>> \in B <=> f[j] < f[k] \/ (f[j] = f[k] /\ g[j] < g[k])
        /\ <<i, k>> \in B <=> f[i] < f[k] \/ (f[i] = f[k] /\ g[i] < g[k])
    BY <1>2
  <2>3. QED
    BY <2>1, <2>2
<1>6. IsOrder(B, n)
  BY <1>1, <1>4, <1>5 DEF IsOrder
<1>7. QED
  BY <1>6 DEF B

\* The articles a window read finds, in the order the store scrolls them.
NewsFound(points, from, to) ==
  Mapped(SelectSeq(points, LAMBDA p : InDays(p["date"], from, to)), NewsFromPayload)

\* A window read answers every article it finds, once, oldest day first and by their ids
\* within a day: the answer does not depend on the order of the store (read_news_range).
THEOREM NewsComeOldestFirst ==
  ASSUME NEW points, points # None, NEW from, NEW to, NEW n \in Nat,
         DOMAIN NewsFound(points, from, to) = 1..n,
         \A i \in 1..n : /\ NewsFound(points, from, to)[i].date \in Int
                         /\ NewsFound(points, from, to)[i].id \in Int
  PROVE  LET rows == ReadNewsRange(points, from, to).rows
         IN  /\ \E order \in Bijection(1..n, 1..n) :
                  rows = [k \in 1..n |-> NewsFound(points, from, to)[order[k]]]
             /\ \A k, l \in 1..n : k < l =>
                  ~ PairBefore(<<rows[l].date, rows[l].id>>, <<rows[k].date, rows[k].id>>)
<1> DEFINE found == NewsFound(points, from, to)
           Before(x, y) == PairBefore(<<x.date, x.id>>, <<y.date, y.id>>)
           f == [i \in 1..n |-> found[i].date]
           g == [i \in 1..n |-> found[i].id]
           B == { p \in (1..n) \X (1..n) :
                    PairBefore(<<f[p[1]], g[p[1]]>>, <<f[p[2]], g[p[2]]>>) }
           rows == ReadNewsRange(points, from, to).rows
           Count(i) == Cardinality({ j \in 1..n :
                         \/ Before(found[j], found[i])
                         \/ ~Before(found[i], found[j]) /\ j <= i })
           Pick(k) == CHOOSE i \in 1..n : Count(i) = k
           order == [k \in 1..n |-> Pick(k)]
<1>1. IsOrder(B, n)
  <2>1. f \in [1..n -> Int] /\ g \in [1..n -> Int]
    OBVIOUS
  <2> HIDE DEF f, g
  <2>2. QED
    BY <2>1, PairsAreOrdered
<1>2. rows = [k \in 1..n |-> found[order[k]]]
  <2>1. rows = [k \in DOMAIN found |->
                  found[CHOOSE i \in DOMAIN found :
                          Cardinality({ j \in DOMAIN found :
                            \/ Before(found[j], found[i])
                            \/ ~Before(found[i], found[j]) /\ j <= i }) = k]]
    BY DEF ReadNewsRange, NewsFound, Answer, Rows, Sorted
  <2>2. DOMAIN found = 1..n
    OBVIOUS
  <2> HIDE DEF found, Before, rows
  <2>3. QED
    BY <2>1, <2>2
<1>3. \A i, j \in 1..n : <<i, j>> \in B <=> Before(found[i], found[j])
  <2> HIDE DEF found
  <2>1. QED
    OBVIOUS
<1>4. \A i \in 1..n : Count(i) = Place(B, n, i)
  <2> HIDE DEF B, found, Before
  <2>1. QED
    BY <1>3 DEF Place, NoLater
<1>5. ASSUME NEW k \in 1..n
      PROVE  Pick(k) \in 1..n /\ Place(B, n, Pick(k)) = k
  <2> HIDE DEF B, Count
  <2>1. PICK i \in 1..n : Place(B, n, i) = k
    BY <1>1, PlacesAreTaken
  <2>2. Count(i) = k
    BY <1>4, <2>1
  <2>3. Pick(k) \in 1..n /\ Count(Pick(k)) = k
    BY <2>2
  <2>4. QED
    BY <1>4, <2>3
<1>6. order \in [1..n -> 1..n] /\ \A k \in 1..n : Place(B, n, order[k]) = k
  <2> HIDE DEF B, Pick
  <2>1. QED
    BY <1>5
<1> HIDE DEF B, found, Before, rows, order
<1>7. /\ order \in Bijection(1..n, 1..n)
      /\ \A k, l \in 1..n : k < l => <<order[l], order[k]>> \notin B
  BY <1>1, <1>6, SortingPermutes
<1>8. \A k, l \in 1..n : k < l => ~ Before(rows[l], rows[k])
  BY <1>2, <1>3, <1>6, <1>7
<1>9. QED
  BY <1>2, <1>7, <1>8 DEF found, Before, rows

\* The activations a history read finds, in the order the store scrolls them.
HistoryFound(points, number, days, today) ==
  Mapped(SelectSeq(points, LAMBDA p : InHistory(p, days, today, number)), ActivationFromPayload)

\* A history read answers every activation it finds, once, newest day first, by their
\* articles within a day and as the store has them within an article (get_history).
THEOREM HistoryComesNewestFirst ==
  ASSUME NEW points, points # None, NEW number, NEW days \in Nat \ {0}, NEW today,
         NEW n \in Nat, DOMAIN HistoryFound(points, number, days, today) = 1..n,
         \A i \in 1..n : /\ HistoryFound(points, number, days, today)[i].date \in Int
                         /\ HistoryFound(points, number, days, today)[i].news_id \in Int
  PROVE  LET found == HistoryFound(points, number, days, today)
             After(x, y) == PairBefore(<<y.date, y.news_id>>, <<x.date, x.news_id>>)
         IN  \E order \in Bijection(1..n, 1..n) :
               /\ GetHistory(points, number, days, today).rows =
                    [k \in 1..n |-> found[order[k]]]
               /\ \A k, l \in 1..n : k < l =>
                    /\ ~ After(found[order[l]], found[order[k]])
                    /\ After(found[order[k]], found[order[l]]) \/ order[k] < order[l]
<1> DEFINE found == HistoryFound(points, number, days, today)
           After(x, y) == PairBefore(<<y.date, y.news_id>>, <<x.date, x.news_id>>)
           f == [i \in 1..n |-> - found[i].date]
           g == [i \in 1..n |-> - found[i].news_id]
           B == { p \in (1..n) \X (1..n) :
                    PairBefore(<<f[p[1]], g[p[1]]>>, <<f[p[2]], g[p[2]]>>) }
           rows == GetHistory(points, number, days, today).rows
           Count(i) == Cardinality({ j \in 1..n :
                         \/ After(found[j], found[i])
                         \/ ~After(found[i], found[j]) /\ j <= i })
           Pick(k) == CHOOSE i \in 1..n : Count(i) = k
           order == [k \in 1..n |-> Pick(k)]
<1>1. IsOrder(B, n)
  <2>1. f \in [1..n -> Int] /\ g \in [1..n -> Int]
    OBVIOUS
  <2> HIDE DEF f, g
  <2>2. QED
    BY <2>1, PairsAreOrdered
<1>2. rows = [k \in 1..n |-> found[order[k]]]
  <2>1. rows = [k \in DOMAIN found |->
                  found[CHOOSE i \in DOMAIN found :
                          Cardinality({ j \in DOMAIN found :
                            \/ After(found[j], found[i])
                            \/ ~After(found[i], found[j]) /\ j <= i }) = k]]
    BY DEF GetHistory, HistoryFound, Answer, Rows, Sorted
  <2>2. DOMAIN found = 1..n
    OBVIOUS
  <2> HIDE DEF found, After, rows
  <2>3. QED
    BY <2>1, <2>2
<1>3. \A i, j \in 1..n : <<i, j>> \in B <=> After(found[i], found[j])
  <2>1. \A i \in 1..n : found[i].date \in Int /\ found[i].news_id \in Int
    OBVIOUS
  <2> HIDE DEF found
  <2>2. \A i \in 1..n : /\ f[i] = - found[i].date /\ f[i] \in Int
                         /\ g[i] = - found[i].news_id /\ g[i] \in Int
    BY <2>1
  <2>3. \A i, j \in 1..n : <<i, j>> \in B <=> f[i] < f[j] \/ (f[i] = f[j] /\ g[i] < g[j])
    BY DEF PairBefore
  <2> HIDE DEF f, g, B
  <2>4. ASSUME NEW i \in 1..n, NEW j \in 1..n
        PROVE  <<i, j>> \in B <=> After(found[i], found[j])
    <3> DEFINE a == found[i].date
               b == found[j].date
               c == found[i].news_id
               d == found[j].news_id
    <3>1. a \in Int /\ b \in Int /\ c \in Int /\ d \in Int
      BY <2>1
    <3>2. f[i] = -a /\ f[j] = -b /\ g[i] = -c /\ g[j] = -d
      BY <2>2
    <3>3. After(found[i], found[j]) <=> b < a \/ (b = a /\ d < c)
      BY DEF PairBefore
    <3>4. <<i, j>> \in B <=> f[i] < f[j] \/ (f[i] = f[j] /\ g[i] < g[j])
      BY <2>3
    <3> HIDE DEF a, b, c, d, After
    <3>5. QED
      BY <3>1, <3>2, <3>3, <3>4
  <2>5. QED
    BY <2>4
<1>4. \A i \in 1..n : Count(i) = Place(B, n, i)
  <2> HIDE DEF B, found, After
  <2>1. QED
    BY <1>3 DEF Place, NoLater
<1>5. ASSUME NEW k \in 1..n
      PROVE  Pick(k) \in 1..n /\ Place(B, n, Pick(k)) = k
  <2> HIDE DEF B, Count
  <2>1. PICK i \in 1..n : Place(B, n, i) = k
    BY <1>1, PlacesAreTaken
  <2>2. Count(i) = k
    BY <1>4, <2>1
  <2>3. Pick(k) \in 1..n /\ Count(Pick(k)) = k
    BY <2>2
  <2>4. QED
    BY <1>4, <2>3
<1>6. order \in [1..n -> 1..n] /\ \A k \in 1..n : Place(B, n, order[k]) = k
  <2> HIDE DEF B, Pick
  <2>1. QED
    BY <1>5
<1> HIDE DEF B, found, After, rows, order
<1>7. /\ order \in Bijection(1..n, 1..n)
      /\ \A k, l \in 1..n : k < l =>
           /\ <<order[l], order[k]>> \notin B
           /\ <<order[k], order[l]>> \in B \/ order[k] < order[l]
  BY <1>1, <1>6, SortingPermutes
<1>8. \A k, l \in 1..n : k < l =>
        /\ ~ After(found[order[l]], found[order[k]])
        /\ After(found[order[k]], found[order[l]]) \/ order[k] < order[l]
  BY <1>3, <1>6, <1>7
<1>9. QED
  BY <1>2, <1>7, <1>8 DEF found, After, rows

\* The patterns a read of one type and a least strength finds, in the order the store
\* scrolls them; which of two was found later, the id deciding between equal times.
PatternsFound(points, type, minStrength) ==
  Mapped(SelectSeq(points, LAMBDA p :
           /\ type # None => Carries(p, "type", type)
           /\ minStrength # None => p["strength"] >= minStrength),
         PatternFromPayload)

Newer(x, y) == PairBefore(<<FoundAt(y)[2], y.id>>, <<FoundAt(x)[2], x.id>>)

\* The two sorts of read_patterns.
NewestFirst(found) == Sorted(found, Newer)

StrongestFirst(found) == Sorted(found, LAMBDA x, y : x.strength > y.strength)

\* The first sort is a permutation in which no pattern follows an older one.
LEMMA TheNewestGoFirst ==
  ASSUME NEW n \in Nat, NEW found, DOMAIN found = 1..n,
         \A i \in 1..n : FoundAt(found[i])[2] \in Int /\ found[i].id \in Int
  PROVE  \E order \in Bijection(1..n, 1..n) :
           /\ NewestFirst(found) = [k \in 1..n |-> found[order[k]]]
           /\ \A k, l \in 1..n : k < l => ~ Newer(found[order[l]], found[order[k]])
<1> DEFINE t == [i \in 1..n |-> FoundAt(found[i])[2]]
           f == [i \in 1..n |-> - t[i]]
           g == [i \in 1..n |-> - found[i].id]
           B == { p \in (1..n) \X (1..n) :
                    PairBefore(<<f[p[1]], g[p[1]]>>, <<f[p[2]], g[p[2]]>>) }
           Count(i) == Cardinality({ j \in 1..n :
                         \/ Newer(found[j], found[i])
                         \/ ~Newer(found[i], found[j]) /\ j <= i })
           Pick(k) == CHOOSE i \in 1..n : Count(i) = k
           order == [k \in 1..n |-> Pick(k)]
<1>0. t \in [1..n -> Int]
  OBVIOUS
<1>1. IsOrder(B, n)
  <2> HIDE DEF t
  <2>1. f \in [1..n -> Int] /\ g \in [1..n -> Int]
    BY <1>0
  <2> HIDE DEF f, g
  <2>2. QED
    BY <2>1, PairsAreOrdered
<1>2. NewestFirst(found) = [k \in 1..n |-> found[order[k]]]
  BY DEF NewestFirst, Sorted
<1>3. \A i, j \in 1..n : <<i, j>> \in B <=> Newer(found[i], found[j])
  <2>1. \A i \in 1..n : t[i] = FoundAt(found[i])[2]
    OBVIOUS
  <2> HIDE DEF t
  <2>2. \A i \in 1..n : /\ f[i] = - t[i] /\ f[i] \in Int /\ t[i] \in Int
                         /\ g[i] = - found[i].id /\ g[i] \in Int
    BY <1>0
  <2>3. \A i, j \in 1..n : <<i, j>> \in B <=> f[i] < f[j] \/ (f[i] = f[j] /\ g[i] < g[j])
    BY DEF PairBefore
  <2> HIDE DEF f, g, B
  <2>4. ASSUME NEW i \in 1..n, NEW j \in 1..n
        PROVE  <<i, j>> \in B <=> Newer(found[i], found[j])
    <3> DEFINE a == t[i]
               b == t[j]
               c == found[i].id
               d == found[j].id
    <3>1. a \in Int /\ b \in Int /\ c \in Int /\ d \in Int
      BY <1>0
    <3>2. f[i] = -a /\ f[j] = -b /\ g[i] = -c /\ g[j] = -d
      BY <2>2
    <3>3. Newer(found[i], found[j]) <=> b < a \/ (b = a /\ d < c)
      BY <2>1 DEF PairBefore, Newer
    <3>4. <<i, j>> \in B <=> f[i] < f[j] \/ (f[i] = f[j] /\ g[i] < g[j])
      BY <2>3
    <3> HIDE DEF a, b, c, d
    <3>5. QED
      BY <3>1, <3>2, <3>3, <3>4
  <2>5. QED
    BY <2>4
<1>4. \A i \in 1..n : Count(i) = Place(B, n, i)
  <2> HIDE DEF B
  <2>1. QED
    BY <1>3 DEF Place, NoLater
<1>5. ASSUME NEW k \in 1..n
      PROVE  Pick(k) \in 1..n /\ Place(B, n, Pick(k)) = k
  <2> HIDE DEF B, Count
  <2>1. PICK i \in 1..n : Place(B, n, i) = k
    BY <1>1, PlacesAreTaken
  <2>2. Count(i) = k
    BY <1>4, <2>1
  <2>3. Pick(k) \in 1..n /\ Count(Pick(k)) = k
    BY <2>2
  <2>4. QED
    BY <1>4, <2>3
<1>6. order \in [1..n -> 1..n] /\ \A k \in 1..n : Place(B, n, order[k]) = k
  <2> HIDE DEF B, Pick
  <2>1. QED
    BY <1>5
<1> HIDE DEF B, order
<1>7. /\ order \in Bijection(1..n, 1..n)
      /\ \A k, l \in 1..n : k < l => <<order[l], order[k]>> \notin B
  BY <1>1, <1>6, SortingPermutes
<1>8. \A k, l \in 1..n : k < l => ~ Newer(found[order[l]], found[order[k]])
  BY <1>3, <1>6, <1>7
<1>9. QED
  BY <1>2, <1>7, <1>8

\* The second sort is a permutation in which no pattern follows a weaker one and equally
\* strong ones stay in the order they were in.
LEMMA TheStrongestGoFirst ==
  ASSUME NEW n \in Nat, NEW found, DOMAIN found = 1..n,
         \A i \in 1..n : found[i].strength \in Int
  PROVE  \E order \in Bijection(1..n, 1..n) :
           /\ StrongestFirst(found) = [k \in 1..n |-> found[order[k]]]
           /\ \A k, l \in 1..n : k < l =>
                \/ found[order[k]].strength > found[order[l]].strength
                \/ found[order[k]].strength = found[order[l]].strength /\ order[k] < order[l]
<1> DEFINE f == [i \in 1..n |-> - found[i].strength]
           g == [i \in 1..n |-> 0]
           B == { p \in (1..n) \X (1..n) :
                    PairBefore(<<f[p[1]], g[p[1]]>>, <<f[p[2]], g[p[2]]>>) }
           Count(i) == Cardinality({ j \in 1..n :
                         \/ found[j].strength > found[i].strength
                         \/ ~(found[i].strength > found[j].strength) /\ j <= i })
           Pick(k) == CHOOSE i \in 1..n : Count(i) = k
           order == [k \in 1..n |-> Pick(k)]
<1>1. IsOrder(B, n)
  <2>1. f \in [1..n -> Int] /\ g \in [1..n -> Int]
    OBVIOUS
  <2> HIDE DEF f, g
  <2>2. QED
    BY <2>1, PairsAreOrdered
<1>2. StrongestFirst(found) = [k \in 1..n |-> found[order[k]]]
  BY DEF StrongestFirst, Sorted
<1>3. \A i, j \in 1..n : <<i, j>> \in B <=> found[i].strength > found[j].strength
  <2>1. \A i \in 1..n : f[i] = - found[i].strength /\ f[i] \in Int /\ g[i] = 0
    OBVIOUS
  <2>2. \A i, j \in 1..n : <<i, j>> \in B <=> f[i] < f[j] \/ (f[i] = f[j] /\ g[i] < g[j])
    BY DEF PairBefore
  <2> HIDE DEF f, g, B
  <2>3. ASSUME NEW i \in 1..n, NEW j \in 1..n
        PROVE  <<i, j>> \in B <=> found[i].strength > found[j].strength
    <3> DEFINE a == found[i].strength
               b == found[j].strength
    <3>1. a \in Int /\ b \in Int /\ f[i] = -a /\ f[j] = -b /\ g[i] = 0 /\ g[j] = 0
      BY <2>1
    <3>2. <<i, j>> \in B <=> f[i] < f[j] \/ (f[i] = f[j] /\ g[i] < g[j])
      BY <2>2
    <3> HIDE DEF a, b
    <3>3. <<i, j>> \in B <=> a > b
      BY <3>1, <3>2
    <3>4. QED
      BY <3>3 DEF a, b
  <2>4. QED
    BY <2>3
<1>4. \A i \in 1..n : Count(i) = Place(B, n, i)
  <2> HIDE DEF B
  <2>1. QED
    BY <1>3 DEF Place, NoLater
<1>5. ASSUME NEW k \in 1..n
      PROVE  Pick(k) \in 1..n /\ Place(B, n, Pick(k)) = k
  <2> HIDE DEF B, Count
  <2>1. PICK i \in 1..n : Place(B, n, i) = k
    BY <1>1, PlacesAreTaken
  <2>2. Count(i) = k
    BY <1>4, <2>1
  <2>3. Pick(k) \in 1..n /\ Count(Pick(k)) = k
    BY <2>2
  <2>4. QED
    BY <1>4, <2>3
<1>6. order \in [1..n -> 1..n] /\ \A k \in 1..n : Place(B, n, order[k]) = k
  <2> HIDE DEF B, Pick
  <2>1. QED
    BY <1>5
<1> HIDE DEF B, order
<1>7. /\ order \in Bijection(1..n, 1..n)
      /\ \A k, l \in 1..n : k < l =>
           /\ <<order[l], order[k]>> \notin B
           /\ <<order[k], order[l]>> \in B \/ order[k] < order[l]
  BY <1>1, <1>6, SortingPermutes
<1>8. ASSUME NEW k \in 1..n, NEW l \in 1..n, k < l
      PROVE  \/ found[order[k]].strength > found[order[l]].strength
             \/ found[order[k]].strength = found[order[l]].strength /\ order[k] < order[l]
  <2>1. order[k] \in 1..n /\ order[l] \in 1..n
    BY <1>6
  <2> DEFINE a == found[order[k]].strength
             b == found[order[l]].strength
  <2>2. a \in Int /\ b \in Int
    BY <2>1
  <2>3. ~ (b > a) /\ (a > b \/ order[k] < order[l])
    BY <1>3, <1>7, <1>8, <2>1
  <2> HIDE DEF a, b
  <2>4. a > b \/ (a = b /\ order[k] < order[l])
    BY <2>2, <2>3
  <2>5. QED
    BY <2>4 DEF a, b
<1>9. QED
  BY <1>2, <1>7, <1>8

\* The prefix of a list that a limit leaves.
LEMMA TheFirstOnes ==
  ASSUME NEW n \in Nat, NEW list, DOMAIN list = 1..n, list = [k \in 1..n |-> list[k]],
         NEW limit \in Nat
  PROVE  First(list, limit) = [k \in { k \in 1..n : k <= limit } |-> list[k]]
<1> DEFINE S == { list[k] : k \in 1..n }
<1>1. list \in Seq(S) /\ Len(list) = n
  <2>1. list \in [1..n -> S]
    OBVIOUS
  <2> HIDE DEF S
  <2>2. QED
    BY <2>1
<1> DEFINE m == IF limit < n THEN limit ELSE n
<1>2. m \in Nat /\ m <= n /\ { k \in 1..n : k <= limit } = 1..m
  OBVIOUS
<1>3. SubSeq(list, 1, m) = [k \in 1..m |-> list[k]]
  <2> HIDE DEF m, S
  <2>1. QED
    BY <1>1, <1>2
<1>4. QED
  BY <1>1, <1>2, <1>3 DEF First

\* A read of patterns that answers gives the first `limit` of one order of all it finds:
\* strongest first, latest found first among the equally strong, and by their ids at one
\* time, whatever the order of the store.  What the limit leaves out is never stronger,
\* or as strong and newer, than what it keeps (read_patterns).
THEOREM PatternsComeStrongestFirst ==
  ASSUME NEW points, NEW type, NEW minStrength, NEW limit \in Nat, NEW n \in Nat,
         ReadPatterns(points, type, minStrength, limit).kind = "rows",
         DOMAIN PatternsFound(points, type, minStrength) = 1..n,
         \A i \in 1..n : LET p == PatternsFound(points, type, minStrength)[i]
                         IN p.strength \in Int /\ p.id \in Int /\ FoundAt(p)[2] \in Int
  PROVE  LET found == PatternsFound(points, type, minStrength)
         IN  \E order \in Bijection(1..n, 1..n) :
               /\ ReadPatterns(points, type, minStrength, limit).rows =
                    [k \in { k \in 1..n : k <= limit } |-> found[order[k]]]
               /\ \A k, l \in 1..n : k < l =>
                    \/ found[order[k]].strength > found[order[l]].strength
                    \/ /\ found[order[k]].strength = found[order[l]].strength
                       /\ ~ Newer(found[order[l]], found[order[k]])
<1> DEFINE found == PatternsFound(points, type, minStrength)
           newest == NewestFirst(found)
           answer == ReadPatterns(points, type, minStrength, limit)
<1>1. answer.rows = First(StrongestFirst(newest), limit)
  BY DEF ReadPatterns, PatternsFound, Answer, Rows, Raises, Sorted, NewestFirst,
         StrongestFirst, Newer
<1>2. /\ DOMAIN found = 1..n
      /\ \A i \in 1..n : /\ found[i].strength \in Int /\ found[i].id \in Int
                         /\ FoundAt(found[i])[2] \in Int
  OBVIOUS
<1> HIDE DEF found
<1>3. PICK first \in Bijection(1..n, 1..n) :
        /\ newest = [k \in 1..n |-> found[first[k]]]
        /\ \A k, l \in 1..n : k < l => ~ Newer(found[first[l]], found[first[k]])
  BY <1>2, TheNewestGoFirst
<1>4. first \in [1..n -> 1..n]
  BY DEF Bijection, Injection
<1> HIDE DEF newest
<1>5. DOMAIN newest = 1..n /\ \A k \in 1..n : newest[k] = found[first[k]]
  BY <1>3
<1>6. \A k \in 1..n : newest[k].strength \in Int
  BY <1>2, <1>4, <1>5
<1>7. PICK second \in Bijection(1..n, 1..n) :
        /\ StrongestFirst(newest) = [k \in 1..n |-> newest[second[k]]]
        /\ \A k, l \in 1..n : k < l =>
             \/ newest[second[k]].strength > newest[second[l]].strength
             \/ /\ newest[second[k]].strength = newest[second[l]].strength
                /\ second[k] < second[l]
  BY <1>5, <1>6, TheStrongestGoFirst
<1>8. second \in [1..n -> 1..n]
  BY DEF Bijection, Injection
<1> DEFINE order == [k \in 1..n |-> first[second[k]]]
<1>9. order \in Bijection(1..n, 1..n)
  <2> DEFINE N == 1..n
  <2>1. first \in Bijection(N, N) /\ second \in Bijection(N, N)
    OBVIOUS
  <2>2. order = [k \in N |-> first[second[k]]]
    OBVIOUS
  <2> HIDE DEF N, order
  <2>3. /\ first \in [N -> N] /\ second \in [N -> N]
        /\ \A a, b \in N : /\ first[a] = first[b] => a = b
                           /\ second[a] = second[b] => a = b
        /\ \A t \in N : /\ \E a \in N : first[a] = t
                        /\ \E a \in N : second[a] = t
    BY <2>1 DEF Bijection, Injection, Surjection, IsInjective
  <2>4. order \in [N -> N] /\ \A k \in N : order[k] = first[second[k]]
    BY <2>2, <2>3
  <2>5. \A a, b \in N : order[a] = order[b] => a = b
    BY <2>3, <2>4
  <2>6. ASSUME NEW t \in N
        PROVE  \E a \in N : order[a] = t
    <3>1. PICK b \in N : first[b] = t
      BY <2>3
    <3>2. PICK a \in N : second[a] = b
      BY <2>3
    <3>3. QED
      BY <2>4, <3>1, <3>2
  <2>7. order \in Bijection(N, N)
    BY <2>4, <2>5, <2>6 DEF Bijection, Injection, Surjection, IsInjective
  <2>8. QED
    BY <2>7 DEF N
<1>10. answer.rows = [k \in { k \in 1..n : k <= limit } |-> found[order[k]]]
  <2> DEFINE list == StrongestFirst(newest)
  <2>1. /\ DOMAIN list = 1..n /\ list = [k \in 1..n |-> list[k]]
        /\ \A k \in 1..n : list[k] = found[order[k]]
    <3> HIDE DEF list
    <3>1. list = [k \in 1..n |-> newest[second[k]]]
      BY <1>7 DEF list
    <3>2. QED
      BY <3>1, <1>5, <1>8
  <2> HIDE DEF list, order
  <2>2. First(list, limit) = [k \in { k \in 1..n : k <= limit } |-> list[k]]
    BY <2>1, TheFirstOnes
  <2>3. QED
    BY <1>1, <2>1, <2>2 DEF list
<1>11. ASSUME NEW k \in 1..n, NEW l \in 1..n, k < l
       PROVE  \/ found[order[k]].strength > found[order[l]].strength
              \/ /\ found[order[k]].strength = found[order[l]].strength
                 /\ ~ Newer(found[order[l]], found[order[k]])
  <2>1. second[k] \in 1..n /\ second[l] \in 1..n
    BY <1>8
  <2>2. /\ newest[second[k]] = found[order[k]] /\ newest[second[l]] = found[order[l]]
        /\ order[k] = first[second[k]] /\ order[l] = first[second[l]]
    BY <1>5, <2>1
  <2> HIDE DEF order
  <2>3. QED
    BY <1>3, <1>7, <1>11, <2>1, <2>2
<1>12. QED
  BY <1>9, <1>10, <1>11 DEF found
=============================================================================
