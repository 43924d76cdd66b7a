----------------------------- MODULE HistoryProofs -----------------------------
(***************************************************************************)
(* What is accounted, recorded, sent, stored and remembered of a history.  *)
(*                                                                         *)
(* UsageAudit, for any prices, usages and width of the integers: no cost   *)
(* is below the bill although the products and sums saturate, the totals   *)
(* of a session are those of its calls, and the trail agrees with them or  *)
(* the host was told.                                                      *)
(*                                                                         *)
(* ContextWindow, for any histories, sizes and budgets: what is sent of a  *)
(* context keeps calls and their results together, the system messages and *)
(* the newest block, and leaves out the oldest and no more than it must.   *)
(*                                                                         *)
(* SessionSnapshot, for any contents of messages: what was saved is loaded *)
(* again, whole; and UserMemory, for any users and turns: the facts are    *)
(* those last given, and the index is asked for once.                      *)
(***************************************************************************)
EXTENDS SequencesExt, History, DataInduction, FiniteSetTheorems, SequenceTheorems, TLAPS

Counts == [input : Nat, output : Nat, cached : Nat, written : Nat]
Usages == [input : Nat, output : Nat, cached : Nat, written : Nat, cost : Nat, estimated : BOOLEAN]
Totals == [input : Int, output : Int, cached : Int, written : Int, cost : Int, estimated : BOOLEAN]
CallRecords == [usage : Usages, report : Reports, volume : Volumes]
ToolRecords == [status : {"ok", "error", "denied", "awaiting_confirmation"}, args : ToolArguments]
Payloads == {Audit!Truncate(t) : t \in ToolArguments} \cup {<<>>}
Events ==
  [kind : {"model_call", "tool_call"}, usage : Usages, payload : Payloads,
   status : {"ok", "error", "denied", "awaiting_confirmation"}]

LEMMA Constants ==
  ASSUME Audit!UsageAssumption
  PROVE  /\ MaxInt \in Nat \ {0} /\ Million \in Nat \ {0}
         /\ Pricing.bytes \in Nat \ {0} /\ Pricing.tokens \in Nat \ {0}
         /\ Pricing.input \in Int /\ Pricing.output \in Int /\ Pricing.cached \in Int /\ Pricing.write \in Int
  BY DEF Audit!UsageAssumption
----------------------------------------------------------------------------
(* Arithmetic that saturates.                                              *)

LEMMA BoundedIs ==
  ASSUME Audit!UsageAssumption, NEW a \in Nat, NEW b \in Nat
  PROVE  /\ Audit!Bounded(a) \in Nat /\ Audit!Bounded(a) <= MaxInt /\ Audit!Bounded(a) <= a
         /\ Audit!Bounded(Audit!Bounded(a) + Audit!Bounded(b)) = Audit!Bounded(a + b)
         /\ a <= b => Audit!Bounded(a) <= Audit!Bounded(b)
  BY Constants DEF Audit!Bounded

LEMMA BoundedNat == ASSUME Audit!UsageAssumption, NEW a \in Nat PROVE Audit!Bounded(a) \in Nat
  BY Constants DEF Audit!Bounded

LEMMA PlusIsBounded ==
  ASSUME Audit!UsageAssumption, NEW a \in Nat, NEW b \in Nat
  PROVE  Audit!Plus(a, b) = Audit!Bounded(a + b)
  BY Constants DEF Audit!Plus, Audit!Bounded

LEMMA ProductFits ==
  ASSUME NEW a \in Nat, NEW b \in Nat \ {0}, NEW m \in Nat
  PROVE  a <= m \div b <=> a * b <= m
<1> DEFINE q == m \div b
<1>1. q \in Nat /\ b * q <= m /\ m < b * q + b
  BY Quotient
<1> HIDE DEF q
<1>2. CASE a <= q
  <2>1. b * a <= b * q
    BY <1>1, <1>2, ProductGrows
  <2>2. b * a \in Nat /\ a * b = b * a /\ b * q \in Nat
    BY <1>1
  <2> QED BY <1>1, <1>2, <2>1, <2>2 DEF q
<1>3. CASE q + 1 <= a
  <2>1. b * (q + 1) <= b * a
    BY <1>1, <1>3, ProductGrows
  <2>2. b * (q + 1) = b * q + b /\ b * a \in Nat /\ a * b = b * a /\ b * q \in Nat
    BY <1>1
  <2> QED BY <1>1, <1>3, <2>1, <2>2 DEF q
<1> QED BY <1>1, <1>2, <1>3

LEMMA TimesIsBounded ==
  ASSUME Audit!UsageAssumption, NEW a \in Nat, NEW b \in Nat
  PROVE  Audit!Times(a, b) = Audit!Bounded(a * b)
<1>1. MaxInt \in Nat /\ a * b \in Nat
  BY Constants
<1>2. CASE a = 0 \/ b = 0
  <2>1. a * b = 0
    BY <1>2
  <2> QED BY <1>1, <1>2, <2>1 DEF Audit!Times, Audit!Bounded
<1>3. CASE a # 0 /\ b # 0
  <2>1. a <= MaxInt \div b <=> a * b <= MaxInt
    BY <1>1, <1>3, ProductFits
  <2>2. MaxInt \div b \in Nat
    BY <1>1, <1>3, Quotient
  <2> QED BY <1>1, <1>3, <2>1, <2>2 DEF Audit!Times, Audit!Bounded
<1> QED BY <1>2, <1>3

LEMMA DivGrows ==
  ASSUME NEW a \in Int, NEW b \in Int, a <= b, NEW m \in Nat \ {0}
  PROVE  a \div m <= b \div m
<1> DEFINE x == a \div m
           y == b \div m
<1>1. x \in Int /\ y \in Int /\ m * x <= a /\ b < m * y + m
  OBVIOUS
<1> HIDE DEF x, y
<1>2. SUFFICES ASSUME y + 1 <= x PROVE FALSE
  BY <1>1 DEF x, y
<1>3. m * (y + 1) <= m * x
  BY <1>1, <1>2, ProductGrows
<1>4. m * (y + 1) = m * y + m /\ m * x \in Int /\ m * y \in Int
  BY <1>1
<1> QED BY <1>1, <1>3, <1>4
----------------------------------------------------------------------------
(* The cost of a call.                                                     *)

(* What is charged when nothing saturates.                                 *)
Uncached(u) == Audit!NonNegative(u.input - u.cached)
Charged(u) ==
  Uncached(u) * Audit!NonNegative(Pricing.input)
    + (u.cached * Audit!PriceOr(Pricing.cached, Pricing.input)
        + (u.written * Audit!PriceOr(Pricing.write, Pricing.input) + u.output * Audit!NonNegative(Pricing.output)))

LEMMA Prices ==
  ASSUME Audit!UsageAssumption
  PROVE  /\ Audit!NonNegative(Pricing.input) \in Nat /\ Audit!NonNegative(Pricing.output) \in Nat
         /\ Audit!PriceOr(Pricing.cached, Pricing.input) \in Nat /\ Audit!PriceOr(Pricing.write, Pricing.input) \in Nat
         /\ Pricing.input <= Audit!NonNegative(Pricing.input) /\ Pricing.output <= Audit!NonNegative(Pricing.output)
  BY Constants DEF Audit!NonNegative, Audit!PriceOr

LEMMA ProductIsNat == ASSUME NEW a \in Nat, NEW b \in Nat PROVE a * b \in Nat
  OBVIOUS

(* The sums and products that saturate lose nothing but what passes the    *)
(* largest integer.                                                        *)
LEMMA CostIs ==
  ASSUME Audit!UsageAssumption, NEW u, u.input \in Nat, u.output \in Nat, u.cached \in Nat, u.written \in Nat
  PROVE  Charged(u) \in Nat /\ Audit!CostMicros(u) = Audit!Bounded(Charged(u)) \div Million
<1> DEFINE a == Uncached(u)  p == Audit!NonNegative(Pricing.input)
           b == u.cached     q == Audit!PriceOr(Pricing.cached, Pricing.input)
           c == u.written    r == Audit!PriceOr(Pricing.write, Pricing.input)
           d == u.output     t == Audit!NonNegative(Pricing.output)
<1>1. /\ a \in Nat /\ b \in Nat /\ c \in Nat /\ d \in Nat
      /\ p \in Nat /\ q \in Nat /\ r \in Nat /\ t \in Nat
  BY Prices DEF Uncached, Audit!NonNegative
<1>2. Charged(u) = a * p + (b * q + (c * r + d * t))
  BY DEF Charged
<1>3. Audit!CostMicros(u) = Audit!Plus(Audit!Times(a, p), Audit!Plus(Audit!Times(b, q), Audit!Plus(Audit!Times(c, r), Audit!Times(d, t)))) \div Million
  <2>1. Audit!NonNegative(u.input) = u.input /\ Audit!NonNegative(u.cached) = b /\ Audit!NonNegative(u.written) = c
        /\ Audit!NonNegative(u.output) = d
    BY DEF Audit!NonNegative
  <2> QED BY <2>1 DEF Audit!CostMicros, Uncached
<1> HIDE DEF a, b, c, d, p, q, r, t
<1> DEFINE w == a * p  x == b * q  y == c * r  z == d * t
<1>4. w \in Nat /\ x \in Nat /\ y \in Nat /\ z \in Nat
  BY <1>1, ProductIsNat
<1>5. Audit!Times(a, p) = Audit!Bounded(w) /\ Audit!Times(b, q) = Audit!Bounded(x) /\ Audit!Times(c, r) = Audit!Bounded(y) /\ Audit!Times(d, t) = Audit!Bounded(z)
  BY <1>1, TimesIsBounded
<1> HIDE DEF w, x, y, z
<1>6. Audit!Bounded(w) \in Nat /\ Audit!Bounded(x) \in Nat /\ Audit!Bounded(y) \in Nat /\ Audit!Bounded(z) \in Nat
  BY <1>4, BoundedIs
<1>7. Audit!Plus(Audit!Bounded(y), Audit!Bounded(z)) = Audit!Bounded(y + z)
  BY <1>4, <1>6, PlusIsBounded, BoundedIs
<1>8. y + z \in Nat /\ Audit!Bounded(y + z) \in Nat
  <2>1. y + z \in Nat
    BY <1>4
  <2> QED BY <2>1, BoundedNat
<1>9. Audit!Plus(Audit!Bounded(x), Audit!Bounded(y + z)) = Audit!Bounded(x + (y + z))
  BY <1>4, <1>6, <1>8, PlusIsBounded, BoundedIs
<1>10. x + (y + z) \in Nat /\ Audit!Bounded(x + (y + z)) \in Nat
  <2>1. x + (y + z) \in Nat
    BY <1>4
  <2> QED BY <2>1, BoundedNat
<1>11. Audit!Plus(Audit!Bounded(w), Audit!Bounded(x + (y + z))) = Audit!Bounded(w + (x + (y + z)))
  BY <1>4, <1>6, <1>10, PlusIsBounded, BoundedIs
<1>12. Charged(u) = w + (x + (y + z)) /\ Charged(u) \in Nat
  BY <1>2, <1>4 DEF w, x, y, z
<1> QED BY <1>3, <1>5, <1>7, <1>9, <1>11, <1>12

(* What is charged is never below the bill.                                *)
LEMMA BillIsCharged ==
  ASSUME Audit!UsageAssumption, NEW u, u.input \in Nat, u.output \in Nat, u.cached \in Nat, u.written \in Nat
  PROVE  Audit!Bill(u) \in Int /\ Audit!Bill(u) <= Charged(u)
<1> DEFINE plain == Audit!NonNegative(u.input - u.cached - u.written)
           a == Uncached(u)
           p == Audit!NonNegative(Pricing.input)
           t == Audit!NonNegative(Pricing.output)
           q == u.cached * Audit!PriceOr(Pricing.cached, Pricing.input)
           r == u.written * Audit!PriceOr(Pricing.write, Pricing.input)
<1>1. plain \in Nat /\ a \in Nat /\ plain <= a
  BY DEF Uncached, Audit!NonNegative
<1>2. /\ p \in Nat /\ t \in Nat /\ Pricing.input \in Int /\ Pricing.output \in Int
      /\ Pricing.input <= p /\ Pricing.output <= t
  BY Prices, Constants
<1>3. q \in Nat /\ r \in Nat
  BY Prices, ProductIsNat
<1>4. Audit!Bill(u) = plain * Pricing.input + q + r + u.output * Pricing.output
  BY DEF Audit!Bill
<1>5. Charged(u) = a * p + (q + (r + u.output * t))
  BY DEF Charged
<1> HIDE DEF plain, a, p, t, q, r
<1>6. plain * Pricing.input <= plain * p /\ u.output * Pricing.output <= u.output * t
  BY <1>1, <1>2, ProductGrows
<1>7. p * plain <= p * a
  BY <1>1, <1>2, ProductGrows
<1>8. p * plain = plain * p /\ p * a = a * p
  BY <1>1, <1>2
<1> DEFINE i == plain * Pricing.input  j == plain * p  k == a * p
           l == u.output * Pricing.output  m == u.output * t
<1>9. i \in Int /\ j \in Int /\ k \in Int /\ l \in Int /\ m \in Int
  BY <1>1, <1>2
<1>10. i <= j /\ l <= m /\ j <= k
  BY <1>6, <1>7, <1>8
<1>11. Audit!Bill(u) = i + q + r + l /\ Charged(u) = k + (q + (r + m))
  BY <1>4, <1>5
<1> HIDE DEF i, j, k, l, m
<1> QED BY <1>3, <1>9, <1>10, <1>11

(* The tokens of an estimate hold the bytes they stand for.                *)
LEMMA EstimateHolds ==
  ASSUME Audit!UsageAssumption, NEW n \in Nat
  PROVE  /\ Audit!EstimateTokens(n) \in Nat
         /\ Audit!Bounded(n * Pricing.tokens) <= Audit!EstimateTokens(n) * Pricing.bytes
<1> DEFINE x == n * Pricing.tokens
           b == Pricing.bytes
           e == (x + b - 1) \div b
<1>1. x \in Nat /\ b \in Nat \ {0} /\ MaxInt \in Nat \ {0}
  <2>1. Pricing.tokens \in Nat
    BY Constants
  <2> QED BY <2>1, Constants, ProductIsNat
<1>2. Audit!EstimateTokens(n) = IF n <= 0 THEN 0 ELSE IF e > MaxInt THEN MaxInt ELSE e
  BY DEF Audit!EstimateTokens
<1>3. n <= 0 => x = 0
  BY Constants
<1> HIDE DEF x, b
<1>4. x + b - 1 \in Nat
  BY <1>1
<1>5. e \in Nat /\ x + b - 1 < b * e + b
  BY <1>1, <1>4, Quotient
<1> HIDE DEF e
<1>6. b * e \in Nat /\ e * b = b * e /\ MaxInt * b = b * MaxInt /\ b * 1 = b
  BY <1>1, <1>5, ProductIsNat
<1>7. x <= e * b
  BY <1>1, <1>4, <1>5, <1>6
<1>8. MaxInt <= MaxInt * b
  <2>1. MaxInt * 1 <= MaxInt * b
    BY <1>1, ProductGrows
  <2> QED BY <1>1, <2>1
<1>9. Audit!Bounded(x) <= x /\ Audit!Bounded(x) <= MaxInt /\ Audit!Bounded(x) \in Nat
  BY <1>1, BoundedIs
<1>10. Audit!EstimateTokens(n) \in Nat
  BY <1>1, <1>2, <1>5
<1>11. Audit!Bounded(x) <= Audit!EstimateTokens(n) * b
  <2>1. CASE n <= 0
    <3>1. Audit!Bounded(x) = 0
      BY <1>1, <1>3, <1>9, <2>1
    <3>2. Audit!EstimateTokens(n) * b = 0
      BY <1>1, <1>2, <2>1
    <3> QED BY <3>1, <3>2
  <2>2. CASE n > 0 /\ e > MaxInt
    <3>1. Audit!EstimateTokens(n) = MaxInt
      BY <1>2, <2>2
    <3>2. MaxInt * b \in Nat
      BY <1>1, ProductIsNat
    <3> QED BY <1>1, <1>8, <1>9, <3>1, <3>2
  <2>3. CASE n > 0 /\ ~(e > MaxInt)
    <3>1. Audit!EstimateTokens(n) = e
      BY <1>2, <2>3
    <3> QED BY <1>1, <1>6, <1>7, <1>9, <3>1
  <2> QED BY <2>1, <2>2, <2>3
<1> QED BY <1>10, <1>11 DEF x, b
----------------------------------------------------------------------------
(* The account of a session.                                               *)

(* A call whose cost and estimate are not below what is billed.            *)
Honest(c) ==
  /\ Audit!Bounded(Audit!Bill([c.usage EXCEPT !.input = Audit!NonNegative(@)])) \div Million <= c.usage.cost
  /\ c.usage.cost <= MaxInt \div Million
  /\ c.usage.estimated =>
       /\ Audit!Bounded(c.volume[1] * Pricing.tokens) <= c.usage.input * Pricing.bytes
       /\ Audit!Bounded(c.volume[2] * Pricing.tokens) <= c.usage.output * Pricing.bytes

LEMMA ReportedIsHonest ==
  ASSUME Audit!UsageAssumption, NEW u, u.input \in Nat, u.output \in Nat, u.cached \in Nat, u.written \in Nat
  PROVE  /\ Audit!UsageReported(u) \in Usages
         /\ LET v == Audit!UsageReported(u)
            IN  /\ Audit!Bounded(Audit!Bill([v EXCEPT !.input = Audit!NonNegative(@)])) \div Million <= v.cost
                /\ v.cost <= MaxInt \div Million
                /\ ~v.estimated
<1> DEFINE v == Audit!UsageReported(u)
           w == [v EXCEPT !.input = Audit!NonNegative(@)]
<1>1. Charged(u) \in Nat /\ Audit!CostMicros(u) = Audit!Bounded(Charged(u)) \div Million
  BY CostIs
<1>2. MaxInt \in Nat /\ Million \in Nat \ {0}
  BY Constants
<1>3. Audit!Bounded(Charged(u)) \in Nat /\ Audit!Bounded(Charged(u)) <= MaxInt
  BY <1>1, BoundedIs
<1>4. Audit!CostMicros(u) \in Nat
  BY <1>1, <1>2, <1>3, Quotient
<1>5. v \in Usages /\ v.cost = Audit!CostMicros(u) /\ ~v.estimated
  BY <1>4 DEF Audit!UsageReported, Usages
<1>6. Audit!Bill(w) = Audit!Bill(u)
  <2>1. w.input = u.input /\ w.output = u.output /\ w.cached = u.cached /\ w.written = u.written
    BY DEF Audit!UsageReported, Audit!NonNegative
  <2> HIDE DEF w
  <2> QED BY <2>1 DEF Audit!Bill
<1>7. Audit!Bill(u) \in Int /\ Audit!Bill(u) <= Charged(u)
  BY BillIsCharged
<1>8. Audit!Bounded(Audit!Bill(u)) \in Int /\ Audit!Bounded(Audit!Bill(u)) <= Audit!Bounded(Charged(u))
  BY <1>1, <1>2, <1>7 DEF Audit!Bounded
<1>9. Audit!Bounded(Audit!Bill(u)) \div Million <= Audit!Bounded(Charged(u)) \div Million
  BY <1>2, <1>3, <1>8, DivGrows
<1>10. Audit!Bounded(Charged(u)) \div Million <= MaxInt \div Million
  BY <1>2, <1>3, DivGrows
<1> QED BY <1>1, <1>5, <1>6, <1>9, <1>10

LEMMA UsageIsHonest ==
  ASSUME Audit!UsageAssumption, NEW u \in Reports, NEW volume \in Volumes
  PROVE  LET usage == Audit!UsageFor(u, volume[1], volume[2])
         IN  usage \in Usages /\ Honest([usage |-> usage, report |-> u, volume |-> volume])
<1>0. /\ u.input \in Nat /\ u.output \in Nat /\ u.cached \in Nat /\ u.written \in Nat
      /\ volume[1] \in Nat /\ volume[2] \in Nat
  BY Constants DEF Audit!UsageAssumption
<1>1. CASE u.input > 0 \/ u.output > 0
  <2>1. Audit!UsageFor(u, volume[1], volume[2]) = Audit!UsageReported(u)
    BY <1>1 DEF Audit!UsageFor
  <2> QED BY <1>0, <2>1, ReportedIsHonest DEF Honest
<1>2. CASE ~(u.input > 0 \/ u.output > 0)
  <2> DEFINE e == [input |-> Audit!EstimateTokens(volume[1]), output |-> Audit!EstimateTokens(volume[2]), cached |-> 0, written |-> 0]
             v == Audit!UsageReported(e)
             usage == [v EXCEPT !.estimated = TRUE]
  <2>1. Audit!UsageFor(u, volume[1], volume[2]) = usage
    BY <1>2 DEF Audit!UsageFor, Audit!UsageEstimated
  <2>2. /\ Audit!EstimateTokens(volume[1]) \in Nat /\ Audit!EstimateTokens(volume[2]) \in Nat
        /\ Audit!Bounded(volume[1] * Pricing.tokens) <= Audit!EstimateTokens(volume[1]) * Pricing.bytes
        /\ Audit!Bounded(volume[2] * Pricing.tokens) <= Audit!EstimateTokens(volume[2]) * Pricing.bytes
    BY <1>0, EstimateHolds
  <2>3. e.input \in Nat /\ e.output \in Nat /\ e.cached \in Nat /\ e.written \in Nat
    BY <2>2
  <2>4. v.input = Audit!EstimateTokens(volume[1]) /\ v.output = Audit!EstimateTokens(volume[2])
    BY DEF Audit!UsageReported
  <2> HIDE DEF e
  <2>5. /\ v \in Usages /\ v.cost <= MaxInt \div Million
        /\ Audit!Bounded(Audit!Bill([v EXCEPT !.input = Audit!NonNegative(@)])) \div Million <= v.cost
    BY <2>3, ReportedIsHonest
  <2> HIDE DEF v
  <2>6. /\ usage \in Usages /\ usage.input = v.input /\ usage.output = v.output /\ usage.cost = v.cost
        /\ usage.cached = v.cached /\ usage.written = v.written
    BY <2>5 DEF Usages
  <2>7. Audit!Bill([usage EXCEPT !.input = Audit!NonNegative(@)]) = Audit!Bill([v EXCEPT !.input = Audit!NonNegative(@)])
    BY <2>5, <2>6 DEF Audit!Bill, Usages
  <2> HIDE DEF usage
  <2> QED BY <2>1, <2>2, <2>4, <2>5, <2>6, <2>7 DEF Honest
<1> QED BY <1>1, <1>2
----------------------------------------------------------------------------
(* Sums over the calls and over the trail.                                 *)

LEMMA SumOfEmpty == ASSUME NEW f PROVE Audit!SumIn(<<>>, f) = 0
<1>1. Audit!SumIn(<<>>, f) = SumOf(Audit!Amounts(<<>>, f), DOMAIN <<>>)
  BY DEF Audit!SumIn, SumOf, Audit!MapThenSumSet, Audit!MapThenFoldSet, MapThenSumSet, MapThenFoldSet
<1>2. DOMAIN <<>> = {}
  OBVIOUS
<1>3. IsFiniteSet({})
  BY FS_EmptySet
<1>4. SumOf(Audit!Amounts(<<>>, f), {}) = 0
  BY <1>3, SumUnfolds
<1> QED BY <1>1, <1>2, <1>4

LEMMA SumOfAppended ==
  ASSUME NEW S, NEW f, NEW list \in Seq(S), NEW e,
         \A i \in DOMAIN list : list[i].usage[f] \in Nat, e.usage[f] \in Nat
  PROVE  /\ Audit!SumIn(list, f) \in Nat
         /\ Audit!SumIn(Append(list, e), f) = Audit!SumIn(list, f) + e.usage[f]
<1> DEFINE n == Len(list)
           longer == Append(list, e)
           g == Audit!Amounts(list, f)
           h == Audit!Amounts(longer, f)
           m == n + 1
<1>1. n \in Nat /\ m \in Nat /\ DOMAIN list = 1 .. n /\ DOMAIN longer = 1 .. m
  OBVIOUS
<1>2. /\ \A i \in 1 .. n : g[i] \in Nat /\ h[i] = g[i]
      /\ h[m] = e.usage[f]
  BY <1>1 DEF Audit!Amounts
<1>3. Audit!SumIn(list, f) = SumOf(g, 1 .. n) /\ Audit!SumIn(longer, f) = SumOf(h, 1 .. m)
  <2>1. Audit!SumIn(list, f) = SumOf(g, DOMAIN list) /\ Audit!SumIn(longer, f) = SumOf(h, DOMAIN longer)
    BY DEF Audit!SumIn, SumOf, Audit!MapThenSumSet, Audit!MapThenFoldSet, MapThenSumSet, MapThenFoldSet
  <2> QED BY <1>1, <2>1
<1> HIDE DEF g, h, longer
<1>4. IsFiniteSet(1 .. n) /\ IsFiniteSet(1 .. m)
  BY <1>1, FS_Interval
<1>5. \A i \in 1 .. m : h[i] \in Nat
  BY <1>1, <1>2
<1>6. m \in 1 .. m /\ (1 .. m) \ {m} = 1 .. n
  BY <1>1
<1> HIDE DEF m, n
<1>7. SumOf(h, 1 .. m) = h[m] + SumOf(h, (1 .. m) \ {m})
  BY <1>4, <1>5, <1>6, SumTakes
<1>8. SumOf(h, 1 .. n) = SumOf(g, 1 .. n)
  BY <1>2, <1>4, SumSame
<1>9. SumOf(g, 1 .. n) \in Nat
  BY <1>2, <1>4, SumNatural
<1>10. SumOf(h, 1 .. m) = e.usage[f] + SumOf(g, 1 .. n)
  BY <1>2, <1>6, <1>7, <1>8
<1> DEFINE p == SumOf(g, 1 .. n)
<1>11. p \in Nat /\ Audit!SumIn(list, f) = p /\ Audit!SumIn(longer, f) = e.usage[f] + p
  BY <1>3, <1>9, <1>10
<1> HIDE DEF p
<1>12. e.usage[f] + p = p + e.usage[f]
  BY <1>11
<1> QED BY <1>11, <1>12 DEF longer
----------------------------------------------------------------------------
(* What holds at every instant.                                            *)

AuditTypes ==
  /\ account \in Totals /\ calls \in Seq(CallRecords) /\ tools \in Seq(ToolRecords)
  /\ trail \in Seq(Events) /\ errors \in Nat /\ edited \in BOOLEAN
  /\ asked \in Nat /\ failed \in BOOLEAN

(* The events of the calls of tools add nothing, so that a trail that      *)
(* nothing was lost from adds up to the calls of the model.                *)
AuditInv ==
  /\ AuditTypes
  /\ \A i \in DOMAIN calls : Honest(calls[i])
  /\ Audit!TotalsAreSums
  /\ Len(trail) + errors = Len(calls) + Len(tools)
  /\ asked = Len(calls) + Audit!Failures
  /\ errors = 0 /\ ~edited => \A f \in Audit!Fields : Audit!SumIn(trail, f) = Audit!Total(f)

LEMMA WrapIs ==
  ASSUME Audit!UsageAssumption, NEW n \in Int
  PROVE  Audit!Wrap(n) \in Int /\ (n \in Nat /\ n <= MaxInt => Audit!Wrap(n) = n)
<1> DEFINE a == n + MaxInt + 1
           b == 2 * (MaxInt + 1)
<1>1. MaxInt \in Nat /\ a \in Int /\ b \in Nat \ {0} /\ a = n + MaxInt + 1
  BY Constants
<1>2. ASSUME n \in Nat, n <= MaxInt
      PROVE  a \in Nat /\ a < b
  BY <1>1, <1>2
<1>3. Audit!Wrap(n) = (a % b) - (MaxInt + 1)
  BY DEF Audit!Wrap
<1> HIDE DEF a, b
<1>4. a % b \in Int
  BY <1>1
<1>5. ASSUME n \in Nat, n <= MaxInt
      PROVE  a % b = a
  BY <1>1, <1>2, <1>5, SmallStays
<1> QED BY <1>1, <1>3, <1>4, <1>5

LEMMA UsageFields ==
  ASSUME NEW u \in Usages, NEW f \in Audit!Fields
  PROVE  u[f] \in Nat
  BY DEF Usages, Audit!Fields

LEMMA AddIs ==
  ASSUME Audit!UsageAssumption, NEW u \in Totals, NEW v \in Usages
  PROVE  /\ Audit!Add(u, v) \in Totals
         /\ \A f \in Audit!Fields : u[f] \in Int /\ Audit!Add(u, v)[f] = Audit!Wrap(u[f] + v[f])
         /\ Audit!Add(u, v).estimated <=> u.estimated \/ v.estimated
<1>1. /\ u.input \in Int /\ u.output \in Int /\ u.cached \in Int /\ u.written \in Int /\ u.cost \in Int
      /\ v.input \in Nat /\ v.output \in Nat /\ v.cached \in Nat /\ v.written \in Nat /\ v.cost \in Nat
      /\ u.estimated \in BOOLEAN /\ v.estimated \in BOOLEAN
  BY DEF Totals, Usages
<1>2. /\ Audit!Wrap(u.input + v.input) \in Int /\ Audit!Wrap(u.output + v.output) \in Int
      /\ Audit!Wrap(u.cached + v.cached) \in Int /\ Audit!Wrap(u.written + v.written) \in Int
      /\ Audit!Wrap(u.cost + v.cost) \in Int
  BY <1>1, WrapIs
<1> QED BY <1>1, <1>2 DEF Audit!Add, Totals, Audit!Fields

LEMMA AuditStarts ==
  ASSUME Audit!UsageAssumption, Audit!Init
  PROVE  AuditInv
<1>1. Len(calls) = 0 /\ Len(trail) = 0 /\ Len(tools) = 0 /\ AuditTypes
  <2>1. calls = <<>> /\ trail = <<>> /\ tools = <<>> /\ errors = 0 /\ edited = FALSE /\ asked = 0 /\ failed = FALSE
    BY DEF Audit!Init
  <2>2. account \in Totals
    BY DEF Audit!Init, Audit!Zero, Totals
  <2>3. calls \in Seq(CallRecords) /\ tools \in Seq(ToolRecords) /\ trail \in Seq(Events)
    BY <2>1
  <2>4. AuditTypes
    BY <2>1, <2>2, <2>3 DEF AuditTypes
  <2>5. Len(calls) = 0 /\ Len(trail) = 0 /\ Len(tools) = 0
    BY <2>1
  <2> QED BY <2>4, <2>5
<1>2. \A f \in Audit!Fields : Audit!SumIn(trail, f) = 0 /\ Audit!Total(f) = 0 /\ account[f] = 0
  BY SumOfEmpty DEF Audit!Init, Audit!Total, Audit!Fields, Audit!Zero
<1>3. ~account.estimated /\ errors = 0 /\ DOMAIN calls = {}
  BY DEF Audit!Init, Audit!Zero
<1>4. asked = 0 /\ Audit!Failures = 0
  BY DEF Audit!Init, Audit!Failures
<1> QED BY <1>1, <1>2, <1>3, <1>4 DEF AuditInv, Audit!TotalsAreSums

LEMMA RecordedIs ==
  ASSUME NEW u \in Usages
  PROVE  Audit!Recorded(u) = u
<1>1. DOMAIN u = {"input", "output", "cached", "written", "cost", "estimated"}
  BY DEF Usages
<1>2. \A f \in DOMAIN u : f # "estimated" => Audit!NonNegative(u[f]) = u[f]
  BY <1>1 DEF Usages, Audit!NonNegative
<1>3. Audit!Recorded(u) = [f \in DOMAIN u |-> u[f]]
  BY <1>2 DEF Audit!Recorded
<1>4. u = [f \in DOMAIN u |-> u[f]]
  BY DEF Usages
<1> QED BY <1>3, <1>4

LEMMA ModelCallKeeps ==
  ASSUME Audit!UsageAssumption, AuditInv, Audit!ModelCall
  PROVE  AuditInv'
<1>1. PICK u \in Reports, volume \in Volumes, fails \in BOOLEAN :
        LET usage == Audit!UsageFor(u, volume[1], volume[2])
        IN  /\ account' = Audit!Add(account, usage)
            /\ calls' = Append(calls, [usage |-> usage, report |-> u, volume |-> volume])
            /\ Audit!Emit(Audit!ModelEvent(usage), fails)
  BY DEF Audit!ModelCall
<1> DEFINE usage == Audit!UsageFor(u, volume[1], volume[2])
           c == [usage |-> usage, report |-> u, volume |-> volume]
           e == Audit!ModelEvent(usage)
<1>2. usage \in Usages /\ Honest(c)
  BY UsageIsHonest
<1>3. account' = Audit!Add(account, usage) /\ calls' = Append(calls, c) /\ Audit!Emit(e, fails)
      /\ UNCHANGED <<tools, edited, failed>> /\ asked' = asked + 1
  BY <1>1 DEF Audit!ModelCall
<1> HIDE DEF usage
<1>4. c \in CallRecords /\ c.usage = usage
  BY <1>2 DEF CallRecords
<1>5. e \in Events /\ e.usage = usage
  <2>1. Audit!Recorded(usage) = usage
    BY <1>2, RecordedIs
  <2> QED BY <1>2, <2>1 DEF Audit!ModelEvent, Events, Payloads
<1> HIDE DEF c, e
<1>6. AuditTypes /\ Audit!TotalsAreSums /\ Len(trail) + errors = Len(calls) + Len(tools)
  BY DEF AuditInv
<1>7. /\ calls' \in Seq(CallRecords) /\ Len(calls') = Len(calls) + 1
      /\ \A i \in DOMAIN calls' : Honest(calls[i])'
  <2>1. /\ calls \in Seq(CallRecords) /\ \A i \in DOMAIN calls : Honest(calls[i])
    BY DEF AuditInv, AuditTypes
  <2>2. \A i \in DOMAIN calls' : calls'[i] = c \/ (i \in DOMAIN calls /\ calls'[i] = calls[i])
    BY <1>3, <2>1
  <2>3. \A i \in DOMAIN calls' : Honest(calls'[i])
    BY <1>2, <2>1, <2>2 DEF c
  <2> QED BY <1>3, <1>4, <2>1, <2>3 DEF Honest
<1>8. \A f \in Audit!Fields : usage[f] \in Nat /\ Audit!Total(f) \in Nat /\ Audit!Total(f)' = Audit!Total(f) + usage[f]
  <2> SUFFICES ASSUME NEW f \in Audit!Fields
               PROVE  usage[f] \in Nat /\ Audit!Total(f) \in Nat /\ Audit!Total(f)' = Audit!Total(f) + usage[f]
    OBVIOUS
  <2>1. usage[f] \in Nat
    BY <1>2, UsageFields
  <2>2. calls \in Seq(CallRecords) /\ \A i \in DOMAIN calls : calls[i].usage[f] \in Nat
    <3>1. calls \in Seq(CallRecords)
      BY <1>6 DEF AuditTypes
    <3>2. \A i \in DOMAIN calls : calls[i].usage \in Usages
      <4>1. \A i \in DOMAIN calls : calls[i] \in CallRecords
        BY <3>1
      <4> QED BY <4>1 DEF CallRecords
    <3> QED BY <3>1, <3>2, UsageFields
  <2>3. Audit!SumIn(calls, f) \in Nat /\ Audit!SumIn(Append(calls, c), f) = Audit!SumIn(calls, f) + usage[f]
    BY <1>4, <2>1, <2>2, SumOfAppended
  <2>4. Audit!Total(f)' = Audit!SumIn(calls', f)
    BY DEF Audit!Total, Audit!SumIn, Audit!Amounts, Audit!MapThenSumSet, Audit!MapThenFoldSet
  <2> QED BY <1>3, <2>1, <2>3, <2>4 DEF Audit!Total
<1>9. account' \in Totals /\ Audit!TotalsAreSums'
  <2>1. /\ account \in Totals /\ account' \in Totals
        /\ \A f \in Audit!Fields : account[f] \in Int /\ account'[f] = Audit!Wrap(account[f] + usage[f])
        /\ account'.estimated <=> account.estimated \/ usage.estimated
    BY <1>2, <1>3, <1>6, AddIs DEF AuditTypes
  <2>2. ASSUME NEW f \in Audit!Fields, Audit!Total(f)' <= MaxInt
        PROVE  account'[f] = Audit!Total(f)'
    <3>1. Audit!Total(f) <= MaxInt /\ MaxInt \in Nat /\ Audit!Total(f)' \in Nat
      BY <1>8, <2>2, Constants
    <3>2. account[f] = Audit!Total(f)
      BY <1>6, <3>1 DEF Audit!TotalsAreSums
    <3>3. account'[f] = Audit!Wrap(Audit!Total(f)') /\ Audit!Total(f)' \in Int
      BY <1>8, <2>1, <3>1, <3>2
    <3> QED BY <2>2, <3>1, <3>3, WrapIs
  <2>3. account'.estimated <=> \E i \in DOMAIN calls' : calls'[i].usage.estimated
    <3>1. calls \in Seq(CallRecords)
      BY <1>6 DEF AuditTypes
    <3>2. /\ \A i \in DOMAIN calls : i \in DOMAIN calls' /\ calls'[i] = calls[i]
          /\ Len(calls) + 1 \in DOMAIN calls' /\ calls'[Len(calls) + 1] = c
          /\ \A i \in DOMAIN calls' : i \in DOMAIN calls \/ i = Len(calls) + 1
      BY <1>3, <3>1
    <3>3. account.estimated <=> \E i \in DOMAIN calls : calls[i].usage.estimated
      BY <1>6 DEF Audit!TotalsAreSums
    <3> QED BY <1>4, <2>1, <3>2, <3>3
  <2> QED BY <2>1, <2>2, <2>3 DEF Audit!TotalsAreSums
<1>10. /\ trail' \in Seq(Events) /\ errors' \in Nat
       /\ Len(trail') + errors' = Len(trail) + errors + 1
       /\ errors' = 0 => errors = 0 /\ trail' = Append(trail, e)
  <2>1. trail \in Seq(Events) /\ errors \in Nat /\ Len(trail) \in Nat
    BY <1>6 DEF AuditTypes
  <2>2. CASE fails
    BY <1>3, <2>1, <2>2 DEF Audit!Emit
  <2>3. CASE ~fails
    <3>1. trail' = Append(trail, e) /\ errors' = errors
      BY <1>3, <2>3 DEF Audit!Emit
    <3> QED BY <1>5, <2>1, <3>1
  <2> QED BY <2>2, <2>3
<1>11. AuditTypes'
  <2>1. asked' \in Nat /\ failed' \in BOOLEAN
    BY <1>3, <1>6 DEF AuditTypes
  <2> QED BY <1>3, <1>6, <1>7, <1>9, <1>10, <2>1 DEF AuditTypes
<1>12. Len(trail') + errors' = Len(calls') + Len(tools')
  <2>1. Len(trail) \in Nat /\ errors \in Nat /\ Len(calls) \in Nat /\ Len(tools) \in Nat
    BY <1>6 DEF AuditTypes
  <2>2. tools' = tools
    BY <1>3
  <2> QED BY <1>6, <1>7, <1>10, <2>1, <2>2
<1>13. ASSUME errors' = 0, ~edited', NEW f \in Audit!Fields
       PROVE  Audit!SumIn(trail, f)' = Audit!Total(f)'
  <2>1. errors = 0 /\ trail' = Append(trail, e) /\ ~edited
    BY <1>3, <1>10, <1>13
  <2>2. Audit!SumIn(trail, f) = Audit!Total(f)
    BY <2>1 DEF AuditInv
  <2>3. trail \in Seq(Events) /\ \A i \in DOMAIN trail : trail[i].usage[f] \in Nat
    <3>1. trail \in Seq(Events)
      BY <1>6 DEF AuditTypes
    <3>2. \A i \in DOMAIN trail : trail[i].usage \in Usages
      <4>1. \A i \in DOMAIN trail : trail[i] \in Events
        BY <3>1
      <4> QED BY <4>1 DEF Events
    <3> QED BY <3>1, <3>2, UsageFields
  <2>4. Audit!SumIn(Append(trail, e), f) = Audit!SumIn(trail, f) + usage[f]
    BY <1>5, <1>8, <2>3, SumOfAppended
  <2>5. Audit!SumIn(trail, f)' = Audit!SumIn(trail', f)
    BY DEF Audit!SumIn, Audit!Amounts, Audit!MapThenSumSet, Audit!MapThenFoldSet
  <2> QED BY <1>8, <2>1, <2>2, <2>4, <2>5
<1>14. (asked = Len(calls) + Audit!Failures)'
  <2>1. asked' = asked + 1 /\ Audit!Failures' = Audit!Failures
    BY <1>3 DEF Audit!Failures
  <2>2. asked = Len(calls) + Audit!Failures /\ Len(calls) \in Nat /\ Audit!Failures \in Nat
    BY <1>6 DEF AuditInv, AuditTypes, Audit!Failures
  <2> QED BY <1>7, <2>1, <2>2
<1> QED BY <1>7, <1>9, <1>11, <1>12, <1>13, <1>14 DEF AuditInv

(* Neither the account nor what is true of it looks at the trail.          *)
LEMMA AccountSame ==
  ASSUME account' = account, calls' = calls
  PROVE  /\ (\A i \in DOMAIN calls : Honest(calls[i]))' <=> \A i \in DOMAIN calls : Honest(calls[i])
         /\ Audit!TotalsAreSums' <=> Audit!TotalsAreSums
         /\ \A f : Audit!Total(f)' = Audit!Total(f)
<1>1. \A f : Audit!Total(f)' = Audit!Total(f)
  BY DEF Audit!Total, Audit!SumIn, Audit!Amounts, Audit!MapThenSumSet, Audit!MapThenFoldSet
<1>2. Audit!TotalsAreSums' <=> Audit!TotalsAreSums
  BY <1>1 DEF Audit!TotalsAreSums
<1> QED BY <1>1, <1>2 DEF Honest

LEMMA ToolCallKeeps ==
  ASSUME Audit!UsageAssumption, AuditInv, Audit!ToolCall
  PROVE  AuditInv'
<1>1. PICK args \in ToolArguments, said \in {"ok", "error", "denied", "awaiting_confirmation"}, fails \in BOOLEAN :
        /\ Audit!Emit(Audit!ToolEvent(said, args), fails)
        /\ tools' = Append(tools, [status |-> said, args |-> args])
  BY DEF Audit!ToolCall
<1>2. account' = account /\ calls' = calls /\ edited' = edited /\ asked' = asked /\ failed' = failed
  BY DEF Audit!ToolCall
<1> DEFINE e == Audit!ToolEvent(said, args)
           c == [status |-> said, args |-> args]
<1>3. e \in Events /\ e.usage = Audit!Zero /\ \A f \in Audit!Fields : Audit!Zero[f] = 0
  BY DEF Audit!ToolEvent, Events, Payloads, Audit!Zero, Usages, Audit!Fields
<1>4. c \in ToolRecords
  BY DEF ToolRecords
<1>5. Audit!Emit(e, fails) /\ tools' = Append(tools, c)
  BY <1>1
<1> HIDE DEF e, c
<1>6. /\ AuditTypes /\ Len(trail) + errors = Len(calls) + Len(tools)
      /\ trail \in Seq(Events) /\ errors \in Nat /\ tools \in Seq(ToolRecords) /\ calls \in Seq(CallRecords)
      /\ Len(trail) \in Nat /\ Len(tools) \in Nat /\ Len(calls) \in Nat
  BY DEF AuditInv, AuditTypes
<1>7. /\ trail' \in Seq(Events) /\ errors' \in Nat
      /\ Len(trail') + errors' = Len(trail) + errors + 1
      /\ errors' = 0 => errors = 0 /\ trail' = Append(trail, e)
  <2>1. CASE fails
    BY <1>5, <1>6, <2>1 DEF Audit!Emit
  <2>2. CASE ~fails
    <3>1. trail' = Append(trail, e) /\ errors' = errors
      BY <1>5, <2>2 DEF Audit!Emit
    <3> QED BY <1>3, <1>6, <3>1
  <2> QED BY <2>1, <2>2
<1>8. tools' \in Seq(ToolRecords) /\ Len(tools') = Len(tools) + 1
  BY <1>4, <1>5, <1>6
<1>9. AuditTypes'
  BY <1>2, <1>6, <1>7, <1>8 DEF AuditTypes
<1>10. Len(trail') + errors' = Len(calls') + Len(tools')
  <2>1. Len(calls') = Len(calls)
    BY <1>2
  <2> QED BY <1>6, <1>7, <1>8, <2>1
<1>11. ASSUME errors' = 0, ~edited', NEW f \in Audit!Fields
       PROVE  Audit!SumIn(trail, f)' = Audit!Total(f)'
  <2>1. errors = 0 /\ trail' = Append(trail, e) /\ ~edited
    BY <1>2, <1>7, <1>11
  <2>2. Audit!SumIn(trail, f) = Audit!Total(f)
    BY <2>1 DEF AuditInv
  <2>3. \A i \in DOMAIN trail : trail[i].usage[f] \in Nat
    <3>1. \A i \in DOMAIN trail : trail[i] \in Events
      BY <1>6
    <3>2. \A i \in DOMAIN trail : trail[i].usage \in Usages
      BY <3>1 DEF Events
    <3> QED BY <3>2, UsageFields
  <2>4. Audit!SumIn(trail, f) \in Nat /\ Audit!SumIn(Append(trail, e), f) = Audit!SumIn(trail, f) + 0
    <3>1. e.usage[f] = 0
      BY <1>3
    <3> QED BY <1>6, <2>3, <3>1, SumOfAppended
  <2>5. Audit!SumIn(trail, f)' = Audit!SumIn(trail', f)
    BY DEF Audit!SumIn, Audit!Amounts, Audit!MapThenSumSet, Audit!MapThenFoldSet
  <2>6. Audit!Total(f)' = Audit!Total(f)
    BY <1>2, AccountSame
  <2> QED BY <2>1, <2>2, <2>4, <2>5, <2>6
<1>12. Audit!TotalsAreSums' /\ (\A i \in DOMAIN calls : Honest(calls[i]))'
  BY <1>2, AccountSame DEF AuditInv
<1>13. (asked = Len(calls) + Audit!Failures)'
  BY <1>2 DEF AuditInv, Audit!Failures
<1> QED BY <1>9, <1>10, <1>11, <1>12, <1>13 DEF AuditInv

LEMMA HostEditsKeeps ==
  ASSUME Audit!UsageAssumption, AuditInv, Audit!HostEdits
  PROVE  AuditInv'
<1>1. PICK i \in DOMAIN trail, f \in Audit!Pointers :
        trail' = IF f \in Audit!Cloned THEN trail ELSE [trail EXCEPT ![i].usage[f] = @ + 1]
  BY DEF Audit!HostEdits
<1>2. /\ account' = account /\ calls' = calls /\ errors' = errors /\ tools' = tools /\ edited' = TRUE
      /\ asked' = asked /\ failed' = failed
  BY DEF Audit!HostEdits
<1>3. trail \in Seq(Events) /\ trail[i] \in Events
  BY DEF AuditInv, AuditTypes
<1>4. trail' \in Seq(Events) /\ Len(trail') = Len(trail)
  <2>1. CASE f \in Audit!Cloned
    BY <1>1, <1>3, <2>1
  <2>2. CASE f \notin Audit!Cloned
    <3>1. f \in {"cached", "written"} /\ trail[i].usage \in Usages
      BY <1>1, <1>3, <2>2 DEF Audit!Pointers, Events
    <3> DEFINE e == [trail[i] EXCEPT !.usage[f] = @ + 1]
    <3>2. [trail[i].usage EXCEPT ![f] = @ + 1] \in Usages
      BY <3>1 DEF Usages
    <3>3. e = [trail[i] EXCEPT !.usage = [trail[i].usage EXCEPT ![f] = @ + 1]]
      OBVIOUS
    <3>4. e \in Events
      BY <1>3, <3>2, <3>3 DEF Events
    <3>5. trail' = [trail EXCEPT ![i] = e]
      BY <1>1, <2>2
    <3> HIDE DEF e
    <3> QED BY <1>3, <3>4, <3>5
  <2> QED BY <2>1, <2>2
<1>5. AuditTypes'
  BY <1>2, <1>4 DEF AuditInv, AuditTypes
<1>6. Audit!TotalsAreSums' /\ (\A k \in DOMAIN calls : Honest(calls[k]))'
  BY <1>2, AccountSame DEF AuditInv
<1>7. (asked = Len(calls) + Audit!Failures)'
  BY <1>2 DEF AuditInv, Audit!Failures
<1> QED BY <1>2, <1>4, <1>5, <1>6, <1>7 DEF AuditInv

(* A call that fails is asked and told, and nothing else changes.          *)
LEMMA ModelCallFailsKeeps ==
  ASSUME AuditInv, Audit!ModelCallFails
  PROVE  AuditInv'
<1>1. /\ account' = account /\ calls' = calls /\ errors' = errors /\ tools' = tools
      /\ edited' = edited /\ trail' = trail /\ asked' = asked + 1 /\ failed' = TRUE /\ ~failed
  BY DEF Audit!ModelCallFails
<1>2. Audit!TotalsAreSums' /\ (\A i \in DOMAIN calls : Honest(calls[i]))' /\ \A f : Audit!Total(f)' = Audit!Total(f)
  BY <1>1, AccountSame DEF AuditInv
<1>3. \A f : Audit!SumIn(trail, f)' = Audit!SumIn(trail, f)
  BY <1>1 DEF Audit!SumIn, Audit!Amounts, Audit!MapThenSumSet, Audit!MapThenFoldSet
<1>4. asked \in Nat /\ asked = Len(calls) /\ Audit!Failures' = 1
  BY <1>1 DEF AuditInv, AuditTypes, Audit!Failures
<1>5. AuditTypes' /\ (asked = Len(calls) + Audit!Failures)'
  BY <1>1, <1>4 DEF AuditInv, AuditTypes
<1> QED BY <1>1, <1>2, <1>3, <1>5 DEF AuditInv

LEMMA AuditStep ==
  ASSUME Audit!UsageAssumption, AuditInv, [Audit!Next]_(Audit!vars)
  PROVE  AuditInv'
<1>1. CASE Audit!ModelCall
  BY <1>1, ModelCallKeeps
<1>2. CASE Audit!ToolCall
  BY <1>2, ToolCallKeeps
<1>3. CASE Audit!HostEdits
  BY <1>3, HostEditsKeeps
<1>4. CASE UNCHANGED Audit!vars
  <2>1. /\ account' = account /\ calls' = calls /\ errors' = errors /\ tools' = tools
        /\ edited' = edited /\ trail' = trail /\ asked' = asked /\ failed' = failed
    BY <1>4 DEF Audit!vars
  <2>2. Audit!TotalsAreSums' /\ (\A i \in DOMAIN calls : Honest(calls[i]))' /\ \A f : Audit!Total(f)' = Audit!Total(f)
    BY <2>1, AccountSame DEF AuditInv
  <2>3. \A f : Audit!SumIn(trail, f)' = Audit!SumIn(trail, f)
    BY <2>1 DEF Audit!SumIn, Audit!Amounts, Audit!MapThenSumSet, Audit!MapThenFoldSet
  <2>4. AuditTypes'
    BY <2>1 DEF AuditInv, AuditTypes
  <2>5. (asked = Len(calls) + Audit!Failures)'
    BY <2>1 DEF AuditInv, Audit!Failures
  <2> QED BY <2>1, <2>2, <2>3, <2>4, <2>5 DEF AuditInv
<1>5. CASE Audit!ModelCallFails
  BY <1>5, ModelCallFailsKeeps
<1> QED BY <1>1, <1>2, <1>3, <1>4, <1>5 DEF Audit!Next

LEMMA AuditInvariant == Audit!UsageAssumption => (Audit!Spec => []AuditInv)
<1> SUFFICES ASSUME Audit!UsageAssumption PROVE Audit!Spec => []AuditInv
  OBVIOUS
<1>1. Audit!Init => AuditInv
  BY AuditStarts
<1>2. AuditInv /\ [Audit!Next]_(Audit!vars) => AuditInv'
  BY AuditStep
<1> QED BY <1>1, <1>2, PTL DEF Audit!Spec

(* For any prices, reports and volumes and any width of the integers: the  *)
(* cost of a call is never below its bill, nor an estimate below the       *)
(* volume, and the totals of the session are the sums of its calls as long *)
(* as those fit (costMicrosWithCache, estimateTokens, runTurn; FR-025,     *)
(* FR-PC-004).                                                             *)
THEOREM AccountExact == Audit!UsageAssumption => (Audit!Spec => [](Audit!NeverUnderestimates /\ Audit!TotalsAreSums))
<1> SUFFICES ASSUME Audit!UsageAssumption PROVE Audit!Spec => [](Audit!NeverUnderestimates /\ Audit!TotalsAreSums)
  OBVIOUS
<1>1. Audit!Spec => []AuditInv
  BY AuditInvariant
<1>2. AuditInv => Audit!NeverUnderestimates /\ Audit!TotalsAreSums
  BY DEF AuditInv, Audit!NeverUnderestimates, Honest
<1> QED BY <1>1, <1>2, PTL

(* Whatever fails in the sink or at the provider, every call of the model, *)
(* answered or not, and of a tool is in the trail, or the host was told    *)
(* that its event is missing or that the call failed, and a trail that     *)
(* misses no event adds up to the session (recordModelCall,                *)
(* recordToolCall, the failure of chat in runTurn; FR-023, but for the     *)
(* event of a failed call).                                                *)
THEOREM TrailAgrees == Audit!UsageAssumption => (Audit!Spec => []Audit!TrailIsComplete)
<1> SUFFICES ASSUME Audit!UsageAssumption PROVE Audit!Spec => []Audit!TrailIsComplete
  OBVIOUS
<1>1. Audit!Spec => []AuditInv
  BY AuditInvariant
<1>2. AuditInv => Audit!TrailIsComplete
  <2> SUFFICES ASSUME AuditInv PROVE Audit!TrailIsComplete
    OBVIOUS
  <2>1. /\ Len(trail) \in Nat /\ errors \in Nat /\ Len(calls) \in Nat /\ Len(tools) \in Nat
        /\ Audit!Failures \in Nat
    BY DEF AuditInv, AuditTypes, Audit!Failures
  <2>2. Len(trail) + errors = Len(calls) + Len(tools) /\ asked = Len(calls) + Audit!Failures
    BY DEF AuditInv
  <2>3. Len(trail) + errors + Audit!Failures = asked + Len(tools)
    BY <2>1, <2>2
  <2> QED BY <2>3 DEF AuditInv, Audit!TrailIsComplete, Audit!TotalsAreSums
<1> QED BY <1>1, <1>2, PTL
----------------------------------------------------------------------------
(* What is recorded of the arguments of a call.                            *)

LEMMA BytesAreSummed ==
  ASSUME NEW t \in Seq(Nat), NEW k \in 0 .. Len(t)
  PROVE  /\ SubSeq(t, 1, k) \in Seq(Nat) /\ Len(SubSeq(t, 1, k)) = k
         /\ Audit!Bytes(SubSeq(t, 1, k)) = SumOf(t, 1 .. k)
<1>1. SubSeq(t, 1, k) \in Seq(Nat) /\ Len(SubSeq(t, 1, k)) = k /\ \A i \in 1 .. k : SubSeq(t, 1, k)[i] = t[i]
  OBVIOUS
<1> DEFINE s == SubSeq(t, 1, k)
<1>2. DOMAIN s = 1 .. k
  BY <1>1
<1> HIDE DEF s
<1>3. Audit!Bytes(s) = SumOf(s, DOMAIN s)
  BY DEF Audit!Bytes, Audit!MapThenSumSet, Audit!MapThenFoldSet, SumOf, MapThenSumSet, MapThenFoldSet
<1>4. SumOf(s, 1 .. k) = SumOf(t, 1 .. k)
  <2>1. IsFiniteSet(1 .. k) /\ \A i \in 1 .. k : s[i] = t[i]
    BY <1>1, FS_Interval DEF s
  <2> QED BY <2>1, SumSame
<1> QED BY <1>1, <1>2, <1>3, <1>4 DEF s

(* One character more.                                                     *)
LEMMA BytesAppended ==
  ASSUME NEW t \in Seq(Nat), NEW c \in Nat
  PROVE  Audit!Bytes(Append(t, c)) = Audit!Bytes(t) + c /\ Audit!Bytes(t) \in Nat
<1> DEFINE s == Append(t, c)
           n == Len(t)
<1>1. s \in Seq(Nat) /\ Len(s) = n + 1 /\ s[n + 1] = c /\ n \in Nat /\ SubSeq(s, 1, n) = t /\ SubSeq(s, 1, n + 1) = s
  OBVIOUS
<1> HIDE DEF s
<1>2. n \in 0 .. Len(s) /\ n + 1 \in 0 .. Len(s)
  BY <1>1
<1>3. Audit!Bytes(t) = SumOf(s, 1 .. n) /\ Audit!Bytes(s) = SumOf(s, 1 .. n + 1)
  BY <1>1, <1>2, BytesAreSummed
<1>4. \A i \in 1 .. n + 1 : s[i] \in Nat
  BY <1>1
<1>5. IsFiniteSet(1 .. n) /\ IsFiniteSet(1 .. n + 1)
  BY <1>1, FS_Interval
<1>6. SumOf(s, 1 .. n) \in Nat
  BY <1>1, <1>4, <1>5, SumNatural
<1>7. SumOf(s, 1 .. n + 1) = s[n + 1] + SumOf(s, (1 .. n + 1) \ {n + 1})
  BY <1>1, <1>4, <1>5, SumTakes
<1>8. (1 .. n + 1) \ {n + 1} = 1 .. n
  BY <1>1
<1> DEFINE p == SumOf(s, 1 .. n)
<1>9. p \in Nat /\ Audit!Bytes(t) = p /\ Audit!Bytes(s) = c + p
  BY <1>1, <1>3, <1>6, <1>7, <1>8
<1> HIDE DEF p
<1>10. c + p = p + c
  BY <1>9
<1> QED BY <1>9, <1>10 DEF s

(* What the trail holds of a text is the text when it fits, and otherwise  *)
(* as many of its characters as leave room for the marker.                 *)
LEMMA TruncatedIs ==
  ASSUME NEW t \in Seq(Nat), MaxFieldBytes \in Nat, MaxFieldBytes >= Audit!Marker
  PROVE  /\ Audit!Bytes(Audit!Truncate(t)) <= MaxFieldBytes
         /\ \/ Audit!Truncate(t) = t
            \/ \E k \in 0 .. Len(t) : Audit!Truncate(t) = SubSeq(t, 1, k) \o <<Audit!Marker>>
<1> DEFINE limit == Audit!NonNegative(MaxFieldBytes - Audit!Marker)
           Kept(k) == /\ Audit!Bytes(SubSeq(t, 1, k)) <= limit
                      /\ k < Len(t) => Audit!Bytes(SubSeq(t, 1, k + 1)) > limit
           kept == CHOOSE k \in 0 .. Len(t) : Kept(k)
<1>1. limit \in Nat /\ limit + 3 = MaxFieldBytes
  BY DEF Audit!NonNegative, Audit!Marker
<1>2. \A k \in 0 .. Len(t) : SubSeq(t, 1, k) \in Seq(Nat) /\ Audit!Bytes(SubSeq(t, 1, k)) \in Nat
  BY BytesAreSummed, BytesAppended
<1> HIDE DEF limit
<1>3. \E k \in 0 .. Len(t) : Kept(k)
  <2> SUFFICES ASSUME \A k \in 0 .. Len(t) : ~Kept(k) PROVE FALSE
    OBVIOUS
  <2> DEFINE T == {n \in Nat : n <= Len(t) => Audit!Bytes(SubSeq(t, 1, n)) <= limit}
  <2>1. 0 \in T
    <3>1. Audit!Bytes(SubSeq(t, 1, 0)) = SumOf(t, 1 .. 0)
      BY BytesAreSummed
    <3>2. 1 .. 0 = {} /\ IsFiniteSet({})
      BY FS_EmptySet
    <3>3. SumOf(t, {}) = 0
      BY <3>2, SumOfNothing
    <3> QED BY <1>1, <3>1, <3>2, <3>3
  <2>2. ASSUME NEW n \in T PROVE n + 1 \in T
    BY <1>1, <1>2, <2>2
  <2>3. T = Nat
    BY <2>1, <2>2, SetInduction
  <2>4. Kept(Len(t))
    BY <2>3
  <2> QED BY <2>4
<1>4. kept \in 0 .. Len(t) /\ Kept(kept)
  BY <1>3
<1> HIDE DEF kept
<1>5. CASE Audit!Bytes(t) <= MaxFieldBytes
  <2>1. Audit!Truncate(t) = t
    BY <1>5, Zenon DEF Audit!Truncate
  <2>2. Audit!Bytes(Audit!Truncate(t)) = Audit!Bytes(t)
    BY <2>1, Zenon
  <2>3. Audit!Bytes(Audit!Truncate(t)) <= MaxFieldBytes
    BY <1>5, <2>2
  <2>4. \/ Audit!Truncate(t) = t
        \/ \E k \in 0 .. Len(t) : Audit!Truncate(t) = SubSeq(t, 1, k) \o <<Audit!Marker>>
    BY <2>1
  <2> QED BY <2>3, <2>4
<1>6. CASE ~(Audit!Bytes(t) <= MaxFieldBytes)
  <2>1. Audit!Truncate(t) = SubSeq(t, 1, kept) \o <<Audit!Marker>>
    BY <1>6 DEF Audit!Truncate, kept, limit
  <2>2. SubSeq(t, 1, kept) \o <<Audit!Marker>> = Append(SubSeq(t, 1, kept), Audit!Marker)
    BY <1>2, <1>4 DEF Audit!Marker
  <2>3. Audit!Bytes(SubSeq(t, 1, kept)) <= limit
    BY <1>4
  <2>4. Audit!Bytes(Append(SubSeq(t, 1, kept), 3)) = Audit!Bytes(SubSeq(t, 1, kept)) + 3
    BY <1>2, <1>4, BytesAppended
  <2>5. Audit!Bytes(Audit!Truncate(t)) = Audit!Bytes(SubSeq(t, 1, kept)) + 3
    <3>1. Audit!Truncate(t) = Append(SubSeq(t, 1, kept), 3)
      BY <2>1, <2>2 DEF Audit!Marker
    <3> QED BY <2>4, <3>1, Zenon
  <2>6. Audit!Bytes(Audit!Truncate(t)) <= MaxFieldBytes
    BY <1>1, <1>2, <1>4, <2>3, <2>5
  <2>7. \E k \in 0 .. Len(t) : Audit!Truncate(t) = SubSeq(t, 1, k) \o <<Audit!Marker>>
    BY <1>4, <2>1, Zenon
  <2> QED BY <2>6, <2>7
<1> QED BY <1>5, <1>6

(* Every event of a call is that of a call that was made.                  *)
FromCalls ==
  \A i \in DOMAIN trail : trail[i].kind = "tool_call" =>
    \E k \in DOMAIN tools :
      /\ tools[k].status = trail[i].status
      /\ trail[i].payload = IF trail[i].status = "denied" THEN <<>> ELSE Audit!Truncate(tools[k].args)

LEMMA FromCallsStep ==
  ASSUME Audit!UsageAssumption, AuditTypes, FromCalls, [Audit!Next]_(Audit!vars)
  PROVE  FromCalls'
<1>1. trail \in Seq(Events) /\ tools \in Seq(ToolRecords)
  BY DEF AuditTypes
<1>2. CASE UNCHANGED Audit!vars
  BY <1>2 DEF Audit!vars, FromCalls
<1>3. ASSUME UNCHANGED tools,
             \/ UNCHANGED trail
             \/ \E e : e.kind # "tool_call" /\ trail' = Append(trail, e)
      PROVE  FromCalls'
  <2>1. CASE UNCHANGED trail
    BY <1>3, <2>1 DEF FromCalls
  <2>2. CASE \E e : e.kind # "tool_call" /\ trail' = Append(trail, e)
    <3>1. PICK e : e.kind # "tool_call" /\ trail' = Append(trail, e)
      BY <2>2
    <3>2. \A i \in DOMAIN trail' : trail'[i].kind = "tool_call" => i \in DOMAIN trail /\ trail'[i] = trail[i]
      BY <1>1, <3>1
    <3> QED BY <1>3, <3>2 DEF FromCalls
  <2> QED BY <1>3, <2>1, <2>2
<1>4. CASE Audit!ModelCall
  <2>1. PICK u : \E fails \in BOOLEAN : Audit!Emit(Audit!ModelEvent(u), fails)
    BY <1>4 DEF Audit!ModelCall
  <2>2. Audit!ModelEvent(u).kind # "tool_call"
    BY DEF Audit!ModelEvent
  <2>3. UNCHANGED trail \/ trail' = Append(trail, Audit!ModelEvent(u))
    BY <2>1 DEF Audit!Emit
  <2>4. UNCHANGED tools
    BY <1>4 DEF Audit!ModelCall
  <2> QED BY <1>3, <2>2, <2>3, <2>4
<1>5. CASE Audit!ToolCall
  <2>1. PICK args \in ToolArguments, said \in {"ok", "error", "denied", "awaiting_confirmation"}, fails \in BOOLEAN :
          /\ Audit!Emit(Audit!ToolEvent(said, args), fails)
          /\ tools' = Append(tools, [status |-> said, args |-> args])
    BY <1>5 DEF Audit!ToolCall
  <2>2. UNCHANGED trail \/ trail' = Append(trail, Audit!ToolEvent(said, args))
    BY <2>1 DEF Audit!Emit
  <2>3. /\ Audit!ToolEvent(said, args).status = said
        /\ Audit!ToolEvent(said, args).payload = IF said = "denied" THEN <<>> ELSE Audit!Truncate(args)
    BY DEF Audit!ToolEvent
  <2> DEFINE c == [status |-> said, args |-> args]
             e == Audit!ToolEvent(said, args)
             n == Len(tools) + 1
  <2>4. c.status = said /\ c.args = args /\ tools' = Append(tools, c)
    BY <2>1
  <2> HIDE DEF c, e
  <2>5. n \in DOMAIN tools' /\ tools'[n] = c /\ \A k \in DOMAIN tools : k \in DOMAIN tools' /\ tools'[k] = tools[k]
    BY <1>1, <2>4
  <2>6. ASSUME NEW i \in DOMAIN trail', trail'[i].kind = "tool_call"
        PROVE  \E k \in DOMAIN tools' :
                 /\ tools'[k].status = trail'[i].status
                 /\ trail'[i].payload = IF trail'[i].status = "denied" THEN <<>> ELSE Audit!Truncate(tools'[k].args)
    <3>1. CASE i \in DOMAIN trail /\ trail'[i] = trail[i]
      <4>1. PICK k \in DOMAIN tools :
              /\ tools[k].status = trail[i].status
              /\ trail[i].payload = IF trail[i].status = "denied" THEN <<>> ELSE Audit!Truncate(tools[k].args)
        BY <2>6, <3>1 DEF FromCalls
      <4> QED BY <2>5, <3>1, <4>1
    <3>2. CASE trail'[i] = e
      BY <2>3, <2>4, <2>5, <3>2 DEF e
    <3>3. UNCHANGED trail \/ trail' = Append(trail, e)
      BY <2>2 DEF e
    <3>4. trail'[i] = e \/ (i \in DOMAIN trail /\ trail'[i] = trail[i])
      BY <1>1, <2>6, <3>3
    <3> QED BY <3>1, <3>2, <3>4
  <2>7. \A i : Audit!Truncate(tools'[i].args) = Audit!Truncate(tools[i].args)'
    OBVIOUS
  <2> QED BY <2>6 DEF FromCalls
<1>6. CASE Audit!HostEdits
  <2>1. UNCHANGED tools
    BY <1>6 DEF Audit!HostEdits
  <2>2. PICK i \in DOMAIN trail, f \in Audit!Pointers :
          /\ trail[i].kind = "model_call"
          /\ trail' = IF f \in Audit!Cloned THEN trail ELSE [trail EXCEPT ![i].usage[f] = @ + 1]
    BY <1>6 DEF Audit!HostEdits
  <2>3. \A j \in DOMAIN trail' : trail'[j].kind = "tool_call" => j \in DOMAIN trail /\ trail'[j] = trail[j]
    <3>1. CASE f \in Audit!Cloned
      BY <2>2, <3>1
    <3>2. CASE f \notin Audit!Cloned
      <4>1. trail' = [trail EXCEPT ![i].usage[f] = @ + 1]
        BY <2>2, <3>2
      <4>2. trail'[i].kind = "model_call"
        BY <1>1, <2>2, <4>1 DEF Events
      <4> QED BY <1>1, <4>1, <4>2
    <3> QED BY <3>1, <3>2
  <2> QED BY <2>1, <2>3 DEF FromCalls
<1>7. CASE Audit!ModelCallFails
  BY <1>3, <1>7 DEF Audit!ModelCallFails
<1> QED BY <1>2, <1>4, <1>5, <1>6, <1>7 DEF Audit!Next

LEMMA PrefixesKept ==
  ASSUME Audit!UsageAssumption, Audit!PayloadAssumption, AuditTypes, FromCalls
  PROVE  Audit!PayloadsArePrefixes
<1>1. /\ ToolArguments \subseteq Seq(Nat) /\ MaxFieldBytes \in Nat /\ MaxFieldBytes >= Audit!Marker
      /\ tools \in Seq(ToolRecords)
  BY DEF Audit!PayloadAssumption, Audit!UsageAssumption, AuditTypes
<1> DEFINE Texts(i) == {tools[k].args : k \in {k \in DOMAIN tools : tools[k].status = trail[i].status}}
<1>2. ASSUME NEW i \in DOMAIN trail, trail[i].kind = "tool_call"
      PROVE  /\ Audit!Bytes(trail[i].payload) <= MaxFieldBytes
             /\ \/ trail[i].payload \in Texts(i)
                \/ trail[i].payload = <<>>
                \/ \E t \in Texts(i) : Audit!IsPrefix(SubSeq(trail[i].payload, 1, Len(trail[i].payload) - 1), t)
             /\ trail[i].status = "denied" => trail[i].payload = <<>>
  <2>1. PICK k \in DOMAIN tools :
          /\ tools[k].status = trail[i].status
          /\ trail[i].payload = IF trail[i].status = "denied" THEN <<>> ELSE Audit!Truncate(tools[k].args)
    BY <1>2 DEF FromCalls
  <2>2. CASE trail[i].status = "denied"
    <3>1. trail[i].payload = <<>>
      BY <2>1, <2>2
    <3>2. Audit!Bytes(<<>>) = 0
      <4>1. Audit!Bytes(<<>>) = SumOf(<<>>, DOMAIN <<>>)
        BY DEF Audit!Bytes, Audit!MapThenSumSet, Audit!MapThenFoldSet, SumOf, MapThenSumSet, MapThenFoldSet
      <4>2. DOMAIN <<>> = {}
        OBVIOUS
      <4>3. SumOf(<<>>, {}) = 0
        BY SumOfNothing, FS_EmptySet
      <4> QED BY <4>1, <4>2, <4>3
    <3> QED BY <1>1, <3>1, <3>2
  <2>3. CASE trail[i].status # "denied"
    <3> DEFINE args == tools[k].args
               p == trail[i].payload
    <3>1. args \in Seq(Nat) /\ args \in Texts(i)
      <4>1. tools[k] \in ToolRecords
        BY <1>1
      <4> QED BY <1>1, <2>1, <4>1 DEF ToolRecords
    <3>2. p = Audit!Truncate(args)
      BY <2>1, <2>3
    <3> HIDE DEF args
    <3>3. /\ Audit!Bytes(p) <= MaxFieldBytes
          /\ p = args \/ \E j \in 0 .. Len(args) : p = SubSeq(args, 1, j) \o <<Audit!Marker>>
      BY <1>1, <3>1, <3>2, TruncatedIs
    <3>4. ASSUME NEW j \in 0 .. Len(args), p = SubSeq(args, 1, j) \o <<Audit!Marker>>
          PROVE  Audit!IsPrefix(SubSeq(p, 1, Len(p) - 1), args)
      <4>1. SubSeq(args, 1, j) \in Seq(Nat) /\ Len(SubSeq(args, 1, j)) = j
        BY <3>1
      <4>2. Len(p) = j + 1 /\ SubSeq(p, 1, j) = SubSeq(args, 1, j)
        BY <3>4, <4>1 DEF Audit!Marker
      <4>3. SubSeq(SubSeq(args, 1, j), 1, j) = SubSeq(args, 1, j)
        BY <3>1
      <4>4. Len(p) - 1 = j
        BY <4>2
      <4>5. SubSeq(p, 1, Len(p) - 1) = SubSeq(args, 1, j)
        BY <4>2, <4>4
      <4>6. Len(SubSeq(args, 1, j)) = j /\ j <= Len(args)
        BY <3>1, <4>1
      <4> QED BY <4>3, <4>5, <4>6 DEF Audit!IsPrefix
    <3>5. p = args \/ \E t \in Texts(i) : Audit!IsPrefix(SubSeq(p, 1, Len(p) - 1), t)
      BY <3>1, <3>3, <3>4
    <3> QED BY <2>3, <3>1, <3>3, <3>5
  <2> QED BY <2>2, <2>3
<1> QED BY <1>2 DEF Audit!PayloadsArePrefixes

(* Whatever the arguments, their characters and the limit: what the trail  *)
(* holds of a call fits the limit, is the arguments of a call that ended   *)
(* that way or as many of their whole characters as leave room for the     *)
(* marker, and is nothing for a call that was denied (truncateField,       *)
(* recordToolCall; FR-023).                                                *)
THEOREM PayloadsWhole ==
  Audit!UsageAssumption /\ Audit!PayloadAssumption => (Audit!Spec => []Audit!PayloadsArePrefixes)
<1> SUFFICES ASSUME Audit!UsageAssumption, Audit!PayloadAssumption
             PROVE  Audit!Spec => []Audit!PayloadsArePrefixes
  OBVIOUS
<1>1. Audit!Spec => []AuditInv
  BY AuditInvariant
<1>2. AuditInv => AuditTypes
  BY DEF AuditInv
<1>3. Audit!Init => FromCalls
  BY DEF Audit!Init, FromCalls
<1>4. AuditTypes /\ FromCalls /\ [Audit!Next]_(Audit!vars) => FromCalls'
  BY FromCallsStep
<1>5. AuditTypes /\ FromCalls => Audit!PayloadsArePrefixes
  BY PrefixesKept
<1> QED BY <1>1, <1>2, <1>3, <1>4, <1>5, PTL DEF Audit!Spec
----------------------------------------------------------------------------
(* ContextWindow.                                                          *)

ContextAssumption == Window!WindowAssumption /\ Window!HistoryAssumption

----------------------------------------------------------------------------
(* Some of the messages, in their order.                                   *)

LEMMA SameCardinality == \A S : Window!Cardinality(S) = Cardinality(S)
  BY DEF Window!Cardinality, Cardinality

(* The k-th member of a set of places is the one of rank k.                *)
LEMMA InOrderIs ==
  ASSUME NEW n \in Nat, NEW s \in SUBSET (1 .. n), NEW at, at = Window!InOrder(s)
  PROVE  /\ at \in Seq(s) /\ Len(at) = Cardinality(s) /\ Len(at) <= n
         /\ \A j, k \in 1 .. Len(at) : j < k => at[j] < at[k]
         /\ \A i \in s : \E k \in 1 .. Len(at) : at[k] = i
<1> DEFINE m == Cardinality(s)
<1>1. IsFiniteSet(s) /\ s \in SUBSET Nat /\ s \in SUBSET Int /\ m <= n
  <2>1. IsFiniteSet(1 .. n) /\ Cardinality(1 .. n) = n
    BY FS_Interval, n \in Int, 1 \in Int, n - 1 + 1 = n, (1 > n) => n = 0
  <2>2. IsFiniteSet(s) /\ m <= n
    BY <2>1, FS_Subset
  <2> QED BY <2>2
<1>2. /\ m \in Nat
      /\ \A i \in s : RankIn(s, i) \in 1 .. m
      /\ \A i, j \in s : i < j => RankIn(s, i) < RankIn(s, j)
      /\ \A k \in 1 .. m : \E i \in s : RankIn(s, i) = k
  BY <1>1, RanksAreAll
<1>3. at = [k \in 1 .. m |-> CHOOSE i \in s : Window!Cardinality({j \in s : j <= i}) = k]
  BY SameCardinality DEF Window!InOrder
<1>4. ASSUME NEW k \in 1 .. m PROVE at[k] \in s /\ RankIn(s, at[k]) = k
  <2>1. at[k] = CHOOSE i \in s : Window!Cardinality({j \in s : j <= i}) = k
    BY <1>3
  <2>2. PICK i \in s : RankIn(s, i) = k
    BY <1>2
  <2>3. Window!Cardinality({j \in s : j <= i}) = k
    BY <2>2, SameCardinality DEF RankIn
  <2>4. at[k] \in s /\ Window!Cardinality({j \in s : j <= at[k]}) = k
    BY <2>1, <2>3
  <2> QED BY <2>4, SameCardinality DEF RankIn
<1>5. at \in Seq(s) /\ Len(at) = m
  <2>1. at = [k \in 1 .. m |-> at[k]] /\ m \in Nat
    BY <1>2, <1>3
  <2> HIDE DEF m
  <2> QED BY <1>4, <2>1
<1> HIDE DEF m
<1>6. ASSUME NEW j \in 1 .. m, NEW k \in 1 .. m, j < k PROVE at[j] < at[k]
  <2>1. at[j] \in s /\ at[k] \in s /\ RankIn(s, at[j]) = j /\ RankIn(s, at[k]) = k
    BY <1>4
  <2>2. at[k] < at[j] => k < j
    BY <1>2, <2>1
  <2>3. at[j] \in Int /\ at[k] \in Int
    BY <1>1, <2>1
  <2>4. m \in Nat
    BY <1>2
  <2>5. j \in Int /\ k \in Int /\ j # k /\ ~(k < j)
    BY <1>6, <2>4
  <2>6. at[j] # at[k]
    BY <2>1, <2>5
  <2> QED BY <2>2, <2>3, <2>5, <2>6
<1>7. ASSUME NEW i \in s PROVE \E k \in 1 .. m : at[k] = i
  <2>1. PICK k \in 1 .. m : k = RankIn(s, i)
    BY <1>2
  <2>2. at[k] \in s /\ RankIn(s, at[k]) = RankIn(s, i)
    BY <1>4, <2>1
  <2>3. at[k] < i => k < k
    BY <1>2, <2>1, <2>2
  <2>4. i < at[k] => k < k
    BY <1>2, <2>1, <2>2
  <2>5. at[k] \in Int /\ i \in Int
    BY <1>1, <2>2
  <2>6. m \in Nat
    BY <1>2
  <2>7. ~(k < k)
    BY <2>6
  <2> QED BY <2>3, <2>4, <2>5, <2>7
<1> QED BY <1>1, <1>5, <1>6, <1>7 DEF m

----------------------------------------------------------------------------
(* Histories and their blocks.                                             *)

SystemFirst(h) == \A i, j \in 1 .. Len(h) : i < j /\ h[j].role = "system" => h[i].role = "system"

(* A history in which every result has its call before it, with nothing    *)
(* but results between them, while calls may still wait for theirs.        *)
Shaped(h) ==
  /\ h \in Seq(Window!Message) /\ h # <<>>
  /\ \A i \in 1 .. Len(h) : /\ ~Window!HasCall(h[i]) \/ ~Window!HasResult(h[i])
                            /\ h[i].role = "system" => ~Window!HasCall(h[i]) /\ ~Window!HasResult(h[i])
  /\ SystemFirst(h)
  /\ \A i \in 1 .. Len(h) : Window!HasResult(h[i]) =>
       \E k \in 1 .. (i - 1) : Window!Follows(h, k, i) /\ h[i].answers \in h[k].uses

AnsweredIn(h, k, u) == \E i \in (k + 1) .. Len(h) : Window!Follows(h, k, i) /\ h[i].answers = u

(* Every call but those that wait has its result.                          *)
AnsweredBut(h, w) ==
  \A k \in 1 .. Len(h) : \A u \in h[k].uses :
    AnsweredIn(h, k, u) \/ (u \in w /\ Window!Follows(h, k, Len(h)))

LEMMA HistoryIsShaped ==
  ASSUME ContextAssumption, NEW h \in Histories
  PROVE  Shaped(h) /\ AnsweredBut(h, {})
<1>1. h \in Seq(Window!Message) /\ DOMAIN h = 1 .. Len(h)
  BY DEF ContextAssumption, Window!HistoryAssumption
<1>2. Shaped(h)
  BY <1>1 DEF ContextAssumption, Window!HistoryAssumption, Shaped, SystemFirst
<1>3. AnsweredBut(h, {})
  BY <1>1 DEF ContextAssumption, Window!HistoryAssumption, AnsweredBut, AnsweredIn
<1> QED BY <1>2, <1>3

LEMMA ShapeFacts ==
  ASSUME Shaped(messages)
  PROVE  /\ Len(messages) \in Nat /\ Len(messages) >= 1 /\ DOMAIN messages = 1 .. Len(messages)
         /\ \A i \in 1 .. Len(messages) : messages[i] \in Window!Message
  BY DEF Shaped

(* The block of a message starts with the call it is a result of, or with  *)
(* itself.                                                                 *)
LEMMA BlockIs ==
  ASSUME Shaped(messages), NEW i \in 1 .. Len(messages), NEW b, b = Window!BlockOf(i)
  PROVE  /\ b \in 1 .. i
         /\ b = i \/ (Window!HasCall(messages[b]) /\ Window!Follows(messages, b, i))
         /\ \A k \in 1 .. i : Window!HasCall(messages[k]) /\ Window!Follows(messages, k, i) => b = k
<1> DEFINE start(k) == Window!HasCall(messages[k]) /\ \A j \in (k + 1) .. i : Window!HasResult(messages[j])
           starts == {k \in 1 .. i : start(k)}
<1>1. i \in Nat /\ i >= 1 /\ \A k \in 1 .. i : k \in 1 .. Len(messages)
  BY ShapeFacts
<1>2. b = IF starts = {} THEN i ELSE CHOOSE k \in starts : \A j \in starts : j <= k
  BY DEF Window!BlockOf
<1>3. ASSUME NEW k \in starts, NEW l \in starts PROVE k = l
  <2>1. \A x, y \in starts : ~(x < y)
    <3> SUFFICES ASSUME NEW x \in starts, NEW y \in starts, x < y PROVE FALSE
      OBVIOUS
    <3>1. y \in (x + 1) .. i
      BY <1>1
    <3>2. Window!HasCall(messages[y]) /\ Window!HasResult(messages[y])
      BY <3>1
    <3> QED BY <1>1, <3>2 DEF Shaped
  <2>2. k \in Int /\ l \in Int
    BY <1>1
  <2> QED BY <2>1, <2>2
<1>4. \A k \in 1 .. i : start(k) <=> Window!HasCall(messages[k]) /\ Window!Follows(messages, k, i)
  BY DEF Window!Follows
<1>5. \A k \in 1 .. i : start(k) <=> k \in starts
  OBVIOUS
<1>6. starts \in SUBSET (1 .. i)
  OBVIOUS
<1> HIDE DEF start, starts
<1>7. CASE starts = {}
  BY <1>1, <1>2, <1>4, <1>5, <1>7
<1>8. ASSUME NEW k \in starts PROVE b = k
  <2>1. \A j \in starts : j <= k
    BY <1>1, <1>3, <1>6
  <2>2. b = CHOOSE x \in starts : \A j \in starts : j <= x
    BY <1>2
  <2>3. b \in starts
    BY <2>1, <2>2
  <2> QED BY <1>3, <2>3
<1>9. CASE starts # {}
  BY <1>1, <1>4, <1>5, <1>6, <1>8, <1>9
<1> QED BY <1>7, <1>9

(* A block starts with itself, and those of later messages are later.      *)
LEMMA BlockFixed ==
  ASSUME Shaped(messages), NEW i \in 1 .. Len(messages), NEW b, b = Window!BlockOf(i)
  PROVE  b \in 1 .. Len(messages) /\ Window!BlockOf(b) = b
<1>1. b \in 1 .. i /\ (b = i \/ Window!HasCall(messages[b]))
  BY BlockIs
<1>2. b \in 1 .. Len(messages)
  BY <1>1, ShapeFacts
<1>3. CASE Window!HasCall(messages[b])
  <2>1. Window!Follows(messages, b, b) /\ b \in 1 .. b
    BY <1>2 DEF Window!Follows
  <2> QED BY <1>2, <1>3, <2>1, BlockIs
<1> QED BY <1>1, <1>2, <1>3

LEMMA BlocksRise ==
  ASSUME Shaped(messages), NEW i \in 1 .. Len(messages), NEW j \in 1 .. Len(messages), i <= j
  PROVE  Window!BlockOf(i) <= Window!BlockOf(j)
<1>1. PICK b, c : b = Window!BlockOf(i) /\ c = Window!BlockOf(j)
  OBVIOUS
<1>2. b \in 1 .. i /\ c \in 1 .. j /\ (c = j \/ (Window!HasCall(messages[c]) /\ Window!Follows(messages, c, j)))
  BY <1>1, BlockIs
<1>3. i \in Nat /\ j \in Nat /\ b \in Nat /\ c \in Nat
  BY <1>2, ShapeFacts
<1>4. CASE c > i
  BY <1>1, <1>2, <1>3, <1>4
<1>5. CASE c <= i /\ c # j
  <2>1. Window!Follows(messages, c, i) /\ c \in 1 .. i /\ Window!HasCall(messages[c])
    BY <1>2, <1>3, <1>5 DEF Window!Follows
  <2>2. b = c
    BY <1>1, <2>1, BlockIs
  <2> QED BY <1>1, <1>3, <2>2
<1>6. CASE c <= i /\ c = j
  BY <1>1, <1>2, <1>3, <1>6
<1> QED BY <1>3, <1>4, <1>5, <1>6

(* A result is in the block of its call, and a call in its own.            *)
LEMMA ResultBlock ==
  ASSUME Shaped(messages), NEW i \in 1 .. Len(messages), Window!HasResult(messages[i])
  PROVE  \E k \in 1 .. Len(messages) :
           messages[i].answers \in messages[k].uses /\ Window!BlockOf(i) = k /\ Window!BlockOf(k) = k
<1>1. PICK k \in 1 .. (i - 1) : Window!Follows(messages, k, i) /\ messages[i].answers \in messages[k].uses
  BY DEF Shaped
<1>2. k \in 1 .. i /\ k \in 1 .. Len(messages)
  BY ShapeFacts
<1>3. Window!HasCall(messages[k])
  BY <1>1 DEF Window!HasCall
<1>4. Window!BlockOf(i) = k
  BY <1>1, <1>2, <1>3, BlockIs
<1>5. Window!BlockOf(k) = k
  BY <1>4, BlockFixed
<1> QED BY <1>1, <1>2, <1>4, <1>5

LEMMA CallBlock ==
  ASSUME Shaped(messages), AnsweredBut(messages, {}), NEW k \in 1 .. Len(messages), NEW u \in messages[k].uses
  PROVE  \E i \in 1 .. Len(messages) :
           messages[i].answers = u /\ Window!BlockOf(i) = k /\ Window!BlockOf(k) = k
<1>1. PICK i \in (k + 1) .. Len(messages) : Window!Follows(messages, k, i) /\ messages[i].answers = u
  BY DEF AnsweredBut, AnsweredIn
<1>2. i \in 1 .. Len(messages) /\ k \in 1 .. i
  BY ShapeFacts
<1>3. Window!HasCall(messages[k])
  BY DEF Window!HasCall
<1>4. Window!BlockOf(i) = k
  BY <1>1, <1>2, <1>3, BlockIs
<1>5. Window!BlockOf(k) = k
  BY <1>2, <1>4, BlockFixed
<1> QED BY <1>1, <1>2, <1>4, <1>5

----------------------------------------------------------------------------
(* What is left out.                                                       *)

LEMMA SeqOfMore ==
  ASSUME NEW D, NEW S \in SUBSET D, NEW r \in Seq(S)
  PROVE  r \in Seq(D) /\ Len(r) \in Nat /\ \A k \in 1 .. Len(r) : r[k] \in S /\ r[k] \in D
<1>1. Len(r) \in Nat /\ r = [k \in 1 .. Len(r) |-> r[k]] /\ \A k \in 1 .. Len(r) : r[k] \in S
  OBVIOUS
<1>2. \A k \in 1 .. Len(r) : r[k] \in D
  BY <1>1
<1> QED BY <1>1, <1>2

(* The blocks that may go, the oldest first.                               *)
LEMMA RemovableIs ==
  ASSUME Shaped(messages), NEW r, r = Window!Removable
  PROVE  /\ r \in Seq(1 .. Len(messages)) /\ Len(r) \in Nat
         /\ \A j, k \in 1 .. Len(r) : j < k => r[j] < r[k]
         /\ \A k \in 1 .. Len(r) : /\ Window!BlockOf(r[k]) = r[k] /\ r[k] # Window!LastBlock
                                   /\ messages[r[k]].role # "system"
         /\ \A b \in 1 .. Len(messages) :
              Window!BlockOf(b) = b /\ b # Window!LastBlock /\ messages[b].role # "system"
                => \E k \in 1 .. Len(r) : r[k] = b
<1> DEFINE n == Len(messages)
           s == {b \in Window!Blocks \ {Window!LastBlock} : messages[b].role # "system"}
<1>1. n \in Nat /\ DOMAIN messages = 1 .. n
  BY ShapeFacts
<1>2. \A b \in Window!Blocks : b \in 1 .. n /\ Window!BlockOf(b) = b
  <2> SUFFICES ASSUME NEW b \in Window!Blocks PROVE b \in 1 .. n /\ Window!BlockOf(b) = b
    OBVIOUS
  <2>1. PICK i \in 1 .. n : b = Window!BlockOf(i)
    BY <1>1 DEF Window!Blocks
  <2> QED BY <2>1, BlockFixed
<1>3. \A b \in 1 .. n : Window!BlockOf(b) = b => b \in Window!Blocks
  BY <1>1 DEF Window!Blocks
<1>4. s \in SUBSET (1 .. n) /\ r = Window!InOrder(s)
  BY <1>2 DEF Window!Removable
<1>5. \A b \in s : Window!BlockOf(b) = b /\ b # Window!LastBlock /\ messages[b].role # "system"
  BY <1>2
<1>6. \A b \in 1 .. n : Window!BlockOf(b) = b /\ b # Window!LastBlock /\ messages[b].role # "system" => b \in s
  BY <1>3
<1> HIDE DEF s
<1>7. /\ r \in Seq(s)
      /\ \A j, k \in 1 .. Len(r) : j < k => r[j] < r[k]
      /\ \A i \in s : \E k \in 1 .. Len(r) : r[k] = i
  BY <1>1, <1>4, InOrderIs
<1>8. r \in Seq(1 .. n) /\ Len(r) \in Nat /\ \A k \in 1 .. Len(r) : r[k] \in s
  <2> HIDE DEF n
  <2> QED BY <1>4, <1>7, SeqOfMore
<1> QED BY <1>5, <1>6, <1>7, <1>8

(* As few blocks as make the request fit, or all.                          *)
LEMMA RemovedIs ==
  ASSUME Shaped(messages), NEW k, k = Window!Removed
  PROVE  /\ k \in 0 .. Len(Window!Removable)
         /\ \A j \in 0 .. k - 1 : ~Window!Fits(j)
<1> DEFINE m == Len(Window!Removable)
           good == {j \in 0 .. m : Window!Fits(j) \/ j = m}
<1>1. m \in Nat
  BY RemovableIs
<1>2. good \in SUBSET Nat /\ good # {}
  <2>1. m \in good
    BY <1>1
  <2> QED BY <1>1, <2>1
<1>3. PICK x \in good : \A y \in good : x <= y
  <2> HIDE DEF good
  <2> QED BY <1>2, LeastExists
<1>4. x \in 0 .. m /\ (Window!Fits(x) \/ x = m)
  OBVIOUS
<1>5. \A j \in 0 .. x - 1 : ~Window!Fits(j)
  <2> SUFFICES ASSUME NEW j \in 0 .. x - 1, Window!Fits(j) PROVE FALSE
    OBVIOUS
  <2>1. j \in 0 .. m /\ ~(x <= j)
    BY <1>1, <1>4
  <2> QED BY <1>3, <2>1
<1>6. k = CHOOSE j \in 0 .. m : (Window!Fits(j) \/ j = m) /\ \A i \in 0 .. j - 1 : ~Window!Fits(i)
  BY DEF Window!Removed
<1> QED BY <1>4, <1>5, <1>6

(* Some of the messages in the order of the context.                       *)
Selects(q, s, at) ==
  /\ at \in Seq(s) /\ Len(at) = Cardinality(s) /\ Len(at) <= Len(messages)
  /\ \A j, k \in 1 .. Len(at) : j < k => at[j] < at[k]
  /\ \A i \in s : \E k \in 1 .. Len(at) : at[k] = i
  /\ q \in Seq(Window!Message) /\ Len(q) = Len(at)
  /\ \A k \in 1 .. Len(at) : q[k] = messages[at[k]]

LEMMA PickIs ==
  ASSUME Shaped(messages), NEW s \in SUBSET (1 .. Len(messages))
  PROVE  Selects(Window!Pick(s), s, Window!InOrder(s))
<1>1. PICK at, q : at = Window!InOrder(s) /\ q = Window!Pick(s)
  OBVIOUS
<1>2. /\ at \in Seq(s) /\ Len(at) = Cardinality(s) /\ Len(at) <= Len(messages)
      /\ \A j, k \in 1 .. Len(at) : j < k => at[j] < at[k]
      /\ \A i \in s : \E k \in 1 .. Len(at) : at[k] = i
  BY <1>1, ShapeFacts, InOrderIs
<1>3. q = [k \in 1 .. Len(at) |-> messages[at[k]]]
  BY <1>1, <1>2 DEF Window!Pick
<1>4. ASSUME NEW k \in 1 .. Len(at)
      PROVE  q[k] = messages[at[k]] /\ q[k] \in Window!Message
  <2>1. at[k] \in 1 .. Len(messages)
    <3> HIDE DEF Window!Message
    <3> QED BY <1>2, SeqOfMore
  <2> QED BY <1>3, <2>1, ShapeFacts
<1>5. q \in Seq(Window!Message) /\ Len(q) = Len(at)
  BY <1>2, <1>3, <1>4
<1> QED BY <1>1, <1>2, <1>4, <1>5 DEF Selects

----------------------------------------------------------------------------
(* What is sent.                                                           *)

(* A request that holds the messages of s, and besides nothing but a       *)
(* message of the system, which comes before all others.                   *)
Carries(q, s) ==
  /\ q \in Seq(Window!Message)
  /\ \A k \in 1 .. Len(q) : (\E i \in s : q[k] = messages[i]) \/ (q[k].uses = {} /\ q[k].answers = None)
  /\ \A i \in s : \E k \in 1 .. Len(q) : q[k] = messages[i]
  /\ \A k \in 2 .. Len(q) : q[k].role = "system" => q[k - 1].role = "system"

WholeBlocks(s) ==
  \A i, j \in 1 .. Len(messages) : Window!BlockOf(i) = Window!BlockOf(j) /\ i \in s => j \in s

LEMMA AllCarried ==
  ASSUME Shaped(messages)
  PROVE  Carries(messages, 1 .. Len(messages)) /\ WholeBlocks(1 .. Len(messages))
<1>1. messages \in Seq(Window!Message)
  BY DEF Shaped
<1>2. ASSUME NEW k \in 2 .. Len(messages), messages[k].role = "system"
      PROVE  messages[k - 1].role = "system"
  <2>1. k \in 1 .. Len(messages) /\ k - 1 \in 1 .. Len(messages) /\ k - 1 < k
    BY ShapeFacts
  <2> QED BY <1>2, <2>1 DEF Shaped, SystemFirst
<1> QED BY <1>1, <1>2 DEF Carries, WholeBlocks

LEMMA SelectCarries ==
  ASSUME Shaped(messages), NEW s \in SUBSET (1 .. Len(messages)), NEW q, NEW at, Selects(q, s, at)
  PROVE  Carries(q, s) /\ SystemFirst(q)
<1>1. /\ Len(q) = Len(at) /\ Len(at) \in Nat /\ q \in Seq(Window!Message)
      /\ \A k \in 1 .. Len(q) : at[k] \in s /\ at[k] \in 1 .. Len(messages) /\ q[k] = messages[at[k]]
  <2>1. at \in Seq(s)
    BY DEF Selects
  <2>2. Len(at) \in Nat /\ \A k \in 1 .. Len(at) : at[k] \in s /\ at[k] \in 1 .. Len(messages)
    BY <2>1, SeqOfMore
  <2> QED BY <2>2 DEF Selects
<1>2. ASSUME NEW i \in s PROVE \E k \in 1 .. Len(q) : q[k] = messages[i]
  <2>1. PICK k \in 1 .. Len(at) : at[k] = i
    BY DEF Selects
  <2> QED BY <1>1, <2>1
<1>3. SystemFirst(q)
  <2> SUFFICES ASSUME NEW i \in 1 .. Len(q), NEW j \in 1 .. Len(q), i < j, q[j].role = "system"
               PROVE  q[i].role = "system"
    BY DEF SystemFirst
  <2>1. at[i] < at[j]
    BY <1>1 DEF Selects
  <2> QED BY <1>1, <2>1 DEF Shaped, SystemFirst
<1>4. ASSUME NEW k \in 2 .. Len(q), q[k].role = "system" PROVE q[k - 1].role = "system"
  <2>1. k \in 1 .. Len(q) /\ k - 1 \in 1 .. Len(q) /\ k - 1 < k
    BY <1>1
  <2> QED BY <1>3, <1>4, <2>1 DEF SystemFirst
<1> QED BY <1>1, <1>2, <1>3, <1>4 DEF Carries

LEMMA SystemPrefixIs ==
  ASSUME NEW q \in Seq(Window!Message), SystemFirst(q), NEW at, at = Window!SystemPrefix(q)
  PROVE  /\ at \in 0 .. Len(q)
         /\ \A j \in 1 .. Len(q) : q[j].role = "system" <=> j <= at
<1> DEFINE n == Len(q)
           ends == {k \in 0 .. n : k < n => q[k + 1].role # "system"}
<1>1. n \in Nat
  OBVIOUS
<1>2. ends \in SUBSET Nat /\ n \in ends
  BY <1>1
<1>3. PICK x \in ends : \A y \in ends : x <= y
  <2> HIDE DEF ends
  <2> QED BY <1>2, LeastExists
<1>4. x \in 0 .. n /\ (x < n => q[x + 1].role # "system")
  OBVIOUS
<1>5. ASSUME NEW j \in 1 .. x PROVE q[j].role = "system"
  <2>1. j - 1 \in 0 .. n /\ j - 1 < n /\ ~(x <= j - 1) /\ (j - 1) + 1 = j
    BY <1>1, <1>4
  <2>2. j - 1 \notin ends
    BY <1>3, <2>1
  <2> QED BY <2>1, <2>2
<1>6. at = CHOOSE k \in 0 .. n :
             (\A j \in 1 .. k : q[j].role = "system") /\ (k < n => q[k + 1].role # "system")
  BY DEF Window!SystemPrefix
<1>7. at \in 0 .. n /\ (\A j \in 1 .. at : q[j].role = "system") /\ (at < n => q[at + 1].role # "system")
  BY <1>4, <1>5, <1>6
<1>8. ASSUME NEW j \in 1 .. n, at < j PROVE q[j].role # "system"
  <2>1. at + 1 \in 1 .. n /\ (at + 1 = j \/ at + 1 < j)
    BY <1>1, <1>7, <1>8
  <2>2. q[at + 1].role # "system"
    BY <1>1, <1>7, <2>1
  <2> QED BY <2>1, <2>2 DEF SystemFirst
<1> QED BY <1>1, <1>7, <1>8

LEMMA JoinIs ==
  ASSUME NEW M, NEW a \in Seq(M), NEW b \in Seq(M), NEW p, p = a \o b
  PROVE  /\ p \in Seq(M) /\ Len(p) = Len(a) + Len(b) /\ Len(a) \in Nat /\ Len(b) \in Nat
         /\ \A k \in 1 .. Len(a) : p[k] = a[k]
         /\ \A k \in 1 .. Len(b) : p[Len(a) + k] = b[k]
  OBVIOUS

LEMMA HalvesAre ==
  ASSUME NEW M, NEW q \in Seq(M), NEW at \in 0 .. Len(q)
  PROVE  /\ SubSeq(q, 1, at) \in Seq(M) /\ Len(SubSeq(q, 1, at)) = at
         /\ \A k \in 1 .. at : SubSeq(q, 1, at)[k] = q[k]
         /\ SubSeq(q, at + 1, Len(q)) \in Seq(M) /\ Len(SubSeq(q, at + 1, Len(q))) = Len(q) - at
         /\ \A k \in 1 .. Len(q) - at : SubSeq(q, at + 1, Len(q))[k] = q[at + k]
  OBVIOUS

(* A message put in after the first ones.                                  *)
Injected(p, q, at, m) ==
  /\ p = SubSeq(q, 1, at) \o <<m>> \o SubSeq(q, at + 1, Len(q)) /\ Len(p) = Len(q) + 1
  /\ (\A k \in 1 .. at : p[k] = q[k]) /\ p[at + 1] = m
  /\ \A k \in at + 1 .. Len(q) : p[k + 1] = q[k]

LEMMA InjectIs ==
  ASSUME NEW M, NEW q \in Seq(M), NEW at \in 0 .. Len(q), NEW m \in M
  PROVE  \E p : p \in Seq(M) /\ Injected(p, q, at, m)
<1>1. PICK a, b, c, p : /\ a = SubSeq(q, 1, at) /\ b = SubSeq(q, at + 1, Len(q))
                        /\ c = a \o <<m>> /\ p = c \o b
  OBVIOUS
<1>2. Len(q) \in Nat /\ at \in Nat /\ at <= Len(q)
  OBVIOUS
<1>3. /\ a \in Seq(M) /\ Len(a) = at /\ \A k \in 1 .. at : a[k] = q[k]
      /\ b \in Seq(M) /\ Len(b) = Len(q) - at /\ \A k \in 1 .. Len(q) - at : b[k] = q[at + k]
  BY <1>1, HalvesAre
<1>4. <<m>> \in Seq(M) /\ Len(<<m>>) = 1 /\ <<m>>[1] = m
  OBVIOUS
<1>5. /\ c \in Seq(M) /\ Len(c) = at + 1
      /\ (\A k \in 1 .. at : c[k] = a[k]) /\ \A k \in 1 .. 1 : c[at + k] = <<m>>[k]
  <2>1. a \in Seq(M) /\ <<m>> \in Seq(M) /\ c = a \o <<m>>
    BY <1>1, <1>3, <1>4
  <2>2. /\ c \in Seq(M) /\ Len(c) = Len(a) + Len(<<m>>)
        /\ (\A k \in 1 .. Len(a) : c[k] = a[k]) /\ \A k \in 1 .. Len(<<m>>) : c[Len(a) + k] = <<m>>[k]
    BY <2>1, JoinIs
  <2> QED BY <1>3, <1>4, <2>2
<1>6. /\ p \in Seq(M) /\ Len(p) = Len(c) + Len(b)
      /\ (\A k \in 1 .. Len(c) : p[k] = c[k]) /\ \A k \in 1 .. Len(b) : p[Len(c) + k] = b[k]
  <2>1. c \in Seq(M) /\ b \in Seq(M) /\ p = c \o b
    BY <1>1, <1>3, <1>5
  <2> QED BY <2>1, JoinIs
<1>7. ASSUME NEW k \in 1 .. at PROVE p[k] = q[k]
  BY <1>2, <1>3, <1>5, <1>6
<1>8. p[at + 1] = m
  BY <1>2, <1>4, <1>5, <1>6
<1>9. ASSUME NEW k \in at + 1 .. Len(q) PROVE p[k + 1] = q[k]
  <2>0. at \in Nat /\ Len(q) \in Nat /\ Len(b) = Len(q) - at /\ Len(c) = at + 1
    BY <1>2, <1>3, <1>5
  <2>1. k - at \in 1 .. Len(b) /\ Len(c) + (k - at) = k + 1 /\ at + (k - at) = k
    BY <2>0
  <2>2. p[Len(c) + (k - at)] = b[k - at]
    BY <1>6, <2>1
  <2>3. b[k - at] = q[at + (k - at)]
    BY <1>3, <2>1
  <2> QED BY <2>1, <2>2, <2>3
<1>10. Len(p) = Len(q) + 1
  BY <1>2, <1>3, <1>5, <1>6
<1>11. p = SubSeq(q, 1, at) \o <<m>> \o SubSeq(q, at + 1, Len(q))
  BY <1>1
<1>12. Injected(p, q, at, m)
  BY <1>7, <1>8, <1>9, <1>10, <1>11 DEF Injected
<1> QED BY <1>6, <1>12

LEMMA SystemMessageIs ==
  ASSUME NEW size \in Nat
  PROVE  /\ Window!SystemMessage(size) \in Window!Message
         /\ Window!SystemMessage(size).role = "system"
         /\ Window!SystemMessage(size).uses = {} /\ Window!SystemMessage(size).answers = None
  BY DEF Window!SystemMessage, Window!Message

(* A summary leaves what a request holds in it.                            *)
LEMMA InjectCarries ==
  ASSUME NEW q, NEW s, Carries(q, s), SystemFirst(q), NEW size \in Nat
  PROVE  Carries(Window!InjectSummary(q, size), s) /\ Len(Window!InjectSummary(q, size)) = Len(q) + 1
<1>1. PICK at, m, M : at = Window!SystemPrefix(q) /\ m = Window!SystemMessage(size) /\ M = Window!Message
  OBVIOUS
<1>2. q \in Seq(M) /\ Len(q) \in Nat
  BY <1>1 DEF Carries
<1>3. at \in 0 .. Len(q) /\ at \in Nat /\ \A j \in 1 .. Len(q) : q[j].role = "system" <=> j <= at
  BY <1>1, <1>2, SystemPrefixIs
<1>4. m \in M /\ m.role = "system" /\ m.uses = {} /\ m.answers = None
  BY <1>1, SystemMessageIs
<1>5. PICK p \in Seq(M) :
        /\ p = SubSeq(q, 1, at) \o <<m>> \o SubSeq(q, at + 1, Len(q)) /\ Len(p) = Len(q) + 1
        /\ (\A k \in 1 .. at : p[k] = q[k]) /\ p[at + 1] = m
        /\ \A k \in at + 1 .. Len(q) : p[k + 1] = q[k]
  <2>1. q \in Seq(M) /\ at \in 0 .. Len(q) /\ m \in M
    BY <1>2, <1>3, <1>4
  <2>2. \E p : p \in Seq(M) /\ Injected(p, q, at, m)
    BY <2>1, InjectIs
  <2> QED BY <2>2 DEF Injected
<1>6. p = Window!InjectSummary(q, size)
  BY <1>1, <1>5 DEF Window!InjectSummary
<1>7. ASSUME NEW k \in 1 .. Len(p)
      PROVE  \/ k = at + 1
             \/ k \in 1 .. at /\ k \in 1 .. Len(q) /\ p[k] = q[k]
             \/ k - 1 \in at + 1 .. Len(q) /\ k - 1 \in 1 .. Len(q) /\ p[k] = q[k - 1]
  <2>1. CASE k <= at
    BY <1>2, <1>3, <1>5, <2>1
  <2>2. CASE k > at + 1
    <3>0. k \in 1 .. Len(q) + 1 /\ Len(q) \in Nat /\ at \in Nat
      BY <1>2, <1>3, <1>5
    <3>1. k - 1 \in at + 1 .. Len(q) /\ k - 1 \in 1 .. Len(q) /\ (k - 1) + 1 = k
      BY <2>2, <3>0
    <3>2. p[(k - 1) + 1] = q[k - 1]
      BY <1>5, <3>1
    <3> QED BY <3>1, <3>2
  <2>3. at \in Nat /\ k \in Nat
    BY <1>2, <1>5
  <2>4. k <= at \/ k = at + 1 \/ k > at + 1
    BY <2>3
  <2> QED BY <2>1, <2>2, <2>4
<1>8. ASSUME NEW k \in 1 .. Len(p)
      PROVE  (\E i \in s : p[k] = messages[i]) \/ (p[k].uses = {} /\ p[k].answers = None)
  <2>1. CASE k = at + 1
    BY <1>4, <1>5, <2>1
  <2>2. CASE k \in 1 .. Len(q) /\ p[k] = q[k]
    BY <2>2 DEF Carries
  <2>3. CASE k - 1 \in 1 .. Len(q) /\ p[k] = q[k - 1]
    BY <2>3 DEF Carries
  <2> QED BY <1>7, <2>1, <2>2, <2>3
<1>9. ASSUME NEW i \in s PROVE \E k \in 1 .. Len(p) : p[k] = messages[i]
  <2>1. PICK l \in 1 .. Len(q) : q[l] = messages[i]
    BY DEF Carries
  <2>2. CASE l <= at
    <3>1. l \in 1 .. at
      BY <1>2, <1>3, <2>2
    <3>2. l \in 1 .. Len(p)
      BY <1>2, <1>5
    <3> QED BY <1>5, <2>1, <3>1, <3>2
  <2>3. CASE ~(l <= at)
    <3>0. Len(p) = Len(q) + 1 /\ Len(q) \in Nat /\ at \in Nat
      BY <1>2, <1>3, <1>5
    <3>1. l + 1 \in 1 .. Len(p) /\ l \in at + 1 .. Len(q)
      BY <2>3, <3>0
    <3> QED BY <1>5, <2>1, <3>1
  <2> QED BY <2>2, <2>3
<1>10. ASSUME NEW k \in 2 .. Len(p), p[k].role = "system" PROVE p[k - 1].role = "system"
  <2>1. k \in 1 .. Len(p) /\ k \in Nat
    BY <1>2, <1>5
  <2>2. k <= at + 1
    <3> SUFFICES ASSUME k > at + 1 PROVE FALSE
      BY <1>3, <2>1
    <3>1. k - 1 \in 1 .. Len(q) /\ p[k] = q[k - 1] /\ ~(k - 1 <= at)
      BY <1>3, <1>7, <2>1
    <3> QED BY <1>3, <1>10, <3>1
  <2>3. k - 1 \in 1 .. at /\ k - 1 \in 1 .. Len(q)
    BY <1>2, <1>3, <2>1, <2>2
  <2>4. p[k - 1] = q[k - 1]
    BY <1>5, <2>3
  <2>5. k - 1 <= at
    BY <1>3, <2>3
  <2> QED BY <1>3, <2>3, <2>4, <2>5
<1>11. p \in Seq(Window!Message)
  BY <1>1
<1>12. Carries(p, s)
  BY <1>8, <1>9, <1>10, <1>11 DEF Carries
<1> QED BY <1>5, <1>6, <1>12

(* What holds blocks whole holds calls and results together.               *)
LEMMA CarriesPairs ==
  ASSUME ContextAssumption, Shaped(messages), AnsweredBut(messages, {}),
         NEW s \in SUBSET (1 .. Len(messages)), WholeBlocks(s), NEW q, Carries(q, s)
  PROVE  Window!Used(q) = Window!Answered(q)
<1>1. q \in Seq(Window!Message) /\ DOMAIN q = 1 .. Len(q)
  BY DEF Carries
<1>2. ASSUME NEW x \in Window!Used(q) PROVE x \in Window!Answered(q)
  <2>1. PICK k \in 1 .. Len(q) : x \in q[k].uses
    BY <1>1, <1>2 DEF Window!Used
  <2>2. PICK j \in s : q[k] = messages[j]
    BY <2>1 DEF Carries
  <2>3. PICK i \in 1 .. Len(messages) :
          messages[i].answers = x /\ Window!BlockOf(i) = j /\ Window!BlockOf(j) = j
    BY <2>1, <2>2, CallBlock
  <2>4. i \in s
    BY <2>3 DEF WholeBlocks
  <2>5. PICK l \in 1 .. Len(q) : q[l] = messages[i]
    BY <2>4 DEF Carries
  <2>6. messages[j] \in Window!Message
    BY ShapeFacts
  <2>7. x # None
    BY <2>1, <2>2, <2>6 DEF Window!Message, ContextAssumption, Window!WindowAssumption
  <2> QED BY <1>1, <2>3, <2>5, <2>7 DEF Window!Answered
<1>3. ASSUME NEW x \in Window!Answered(q) PROVE x \in Window!Used(q)
  <2>1. PICK k \in 1 .. Len(q) : q[k].answers = x /\ x # None
    BY <1>1, <1>3 DEF Window!Answered
  <2>2. PICK i \in s : q[k] = messages[i]
    BY <2>1 DEF Carries
  <2>3. Window!HasResult(messages[i])
    BY <2>1, <2>2 DEF Window!HasResult
  <2>4. PICK j \in 1 .. Len(messages) :
          messages[i].answers \in messages[j].uses /\ Window!BlockOf(i) = j /\ Window!BlockOf(j) = j
    BY <2>3, ResultBlock
  <2>5. j \in s
    BY <2>4 DEF WholeBlocks
  <2>6. PICK l \in 1 .. Len(q) : q[l] = messages[j]
    BY <2>5 DEF Carries
  <2> QED BY <1>1, <2>1, <2>2, <2>4, <2>6 DEF Window!Used
<1> QED BY <1>2, <1>3

(* A message of the system is a block of its own.                          *)
LEMMA SystemAlone ==
  ASSUME Shaped(messages), NEW i \in 1 .. Len(messages), messages[i].role = "system"
  PROVE  Window!BlockOf(i) = i
<1>1. PICK b : b = Window!BlockOf(i)
  OBVIOUS
<1>2. b \in 1 .. i /\ (b = i \/ Window!Follows(messages, b, i))
  BY <1>1, BlockIs
<1>3. ~Window!HasResult(messages[i])
  BY DEF Shaped
<1>4. b # i => i \in (b + 1) .. i
  BY <1>2, ShapeFacts
<1> QED BY <1>1, <1>2, <1>3, <1>4 DEF Window!Follows

(* Whole blocks stay, among them the system messages and the newest one.   *)
LEMMA WithoutIs ==
  ASSUME Shaped(messages), NEW r, r = Window!Removable, NEW k \in 0 .. Len(r), NEW s, s = Window!Without(k)
  PROVE  /\ s \in SUBSET (1 .. Len(messages)) /\ WholeBlocks(s)
         /\ \A i \in 1 .. Len(messages) : i \in s <=> \A j \in 1 .. k : r[j] # Window!BlockOf(i)
         /\ \A i \in 1 .. Len(messages) :
              messages[i].role = "system" \/ Window!BlockOf(i) = Window!LastBlock => i \in s
<1>1. /\ Len(r) \in Nat
      /\ \A l \in 1 .. Len(r) : r[l] # Window!LastBlock /\ messages[r[l]].role # "system"
  BY RemovableIs
<1>2. s = {i \in 1 .. Len(messages) : Window!BlockOf(i) \notin {r[j] : j \in 1 .. k}}
  BY ShapeFacts DEF Window!Without
<1>3. \A i \in 1 .. Len(messages) : i \in s <=> \A j \in 1 .. k : r[j] # Window!BlockOf(i)
  BY <1>2
<1>4. \A j \in 1 .. k : j \in 1 .. Len(r)
  BY <1>1
<1>5. ASSUME NEW i \in 1 .. Len(messages), messages[i].role = "system" PROVE i \in s
  BY <1>1, <1>3, <1>4, <1>5, SystemAlone
<1>6. ASSUME NEW i \in 1 .. Len(messages), Window!BlockOf(i) = Window!LastBlock PROVE i \in s
  BY <1>1, <1>3, <1>4, <1>6
<1>7. WholeBlocks(s)
  BY <1>3 DEF WholeBlocks
<1>8. s \in SUBSET (1 .. Len(messages))
  BY <1>2
<1> QED BY <1>3, <1>5, <1>6, <1>7, <1>8

(* What goes is older than all that stays but the system's, and without    *)
(* its newest block the request would not fit.                             *)
LEMMA GoneIs ==
  ASSUME Shaped(messages), NEW k, k = Window!Removed, k # 0,
         NEW s, s = Window!Without(k), NEW gone, gone = (1 .. Len(messages)) \ s
  PROVE  /\ gone # {} /\ Cardinality(s) < Len(messages)
         /\ \A i \in gone : \A j \in (1 .. Len(messages)) \ gone : messages[j].role = "system" \/ i < j
         /\ \E new \in gone : /\ \A j \in gone : j <= new
                              /\ {i \in 1 .. Len(messages) : i \notin gone \/ Window!BlockOf(i) = Window!BlockOf(new)}
                                   = Window!Without(k - 1)
         /\ ~Window!Fits(k - 1)
<1>1. PICK r, n : r = Window!Removable /\ n = Len(messages)
  OBVIOUS
<1>2. /\ r \in Seq(1 .. n) /\ Len(r) \in Nat /\ n \in Nat
      /\ \A j, l \in 1 .. Len(r) : j < l => r[j] < r[l]
      /\ \A l \in 1 .. Len(r) : Window!BlockOf(r[l]) = r[l]
  BY <1>1, RemovableIs, ShapeFacts
<1>3. k \in 1 .. Len(r) /\ k \in 0 .. Len(r) /\ k - 1 \in 0 .. Len(r) /\ k - 1 \in 0 .. k - 1 /\ k \in Nat
  BY <1>1, <1>2, RemovedIs
<1>4. ~Window!Fits(k - 1)
  BY <1>3, RemovedIs
<1>5. \A l \in 1 .. Len(r) : r[l] \in 1 .. n /\ r[l] \in Nat
  BY <1>2
<1>6. \A i \in 1 .. n : i \in s <=> \A j \in 1 .. k : r[j] # Window!BlockOf(i)
  BY <1>1, <1>3, WithoutIs
<1>7. \A i \in 1 .. n : i \in gone <=> \E j \in 1 .. k : r[j] = Window!BlockOf(i)
  BY <1>1, <1>6
<1>8. gone \in SUBSET (1 .. n) /\ s \in SUBSET (1 .. n) /\ \A i \in 1 .. n : Window!BlockOf(i) \in 1 .. n
  BY <1>1, <1>3, WithoutIs, BlockFixed
<1>9. r[k] \in gone /\ r[k] \in 1 .. n
  BY <1>2, <1>3, <1>5, <1>7
<1>10. ASSUME NEW i \in gone, NEW j \in (1 .. n) \ gone, messages[j].role # "system"
       PROVE  i < j
  <2>1. PICK a \in 1 .. k : r[a] = Window!BlockOf(i)
    BY <1>7, <1>8
  <2>2. PICK b, c : b = Window!BlockOf(i) /\ c = Window!BlockOf(j)
    OBVIOUS
  <2>3. b < c
    <3>1. CASE c = Window!LastBlock
      <4>1. n \in 1 .. n /\ i <= n /\ i \in 1 .. n
        <5>1. i \in 1 .. n
          BY <1>8
        <5> QED BY <1>2, <5>1
      <4>2. Window!BlockOf(i) <= Window!BlockOf(n)
        BY <1>1, <4>1, BlocksRise
      <4>3. c = Window!BlockOf(n)
        BY <1>1, <3>1 DEF Window!LastBlock
      <4>4. b # c
        BY <1>7, <2>1, <2>2
      <4> QED BY <1>2, <1>8, <2>2, <4>1, <4>2, <4>3, <4>4
    <3>2. CASE c # Window!LastBlock
      <4>1. c \in 1 .. n /\ Window!BlockOf(c) = c /\ messages[c].role # "system"
        <5>1. c \in 1 .. n /\ Window!BlockOf(c) = c /\ (c = j \/ Window!HasCall(messages[c]))
          BY <1>1, <2>2, BlockFixed, BlockIs
        <5> QED BY <1>1, <1>10, <5>1 DEF Shaped
      <4>2. PICK l \in 1 .. Len(r) : r[l] = c
        BY <1>1, <3>2, <4>1, RemovableIs
      <4>3. ~(l \in 1 .. k)
        BY <1>7, <2>2, <4>2
      <4>4. a < l /\ a \in 1 .. Len(r)
        BY <1>2, <1>3, <4>3
      <4> QED BY <1>2, <2>1, <2>2, <4>2, <4>4
    <3> QED BY <3>1, <3>2
  <2>4. j <= i => c <= b
    BY <1>1, <1>8, <2>2, BlocksRise
  <2>5. i \in Nat /\ j \in Nat /\ b \in Nat /\ c \in Nat
    <3>1. i \in 1 .. n /\ j \in 1 .. n
      BY <1>8
    <3>2. b \in 1 .. n /\ c \in 1 .. n
      BY <1>8, <2>2, <3>1
    <3> QED BY <1>2, <3>1, <3>2
  <2> QED BY <2>3, <2>4, <2>5
<1>11. PICK new \in gone : \A j \in gone : j <= new
  <2> DEFINE back == {x \in 0 .. n : n - x \in gone}
  <2>1. back \in SUBSET Nat /\ n - r[k] \in back
    BY <1>2, <1>9
  <2>2. PICK x \in back : \A y \in back : x <= y
    <3> HIDE DEF back
    <3> QED BY <2>1, LeastExists
  <2>3. x \in 0 .. n /\ n - x \in gone
    BY <2>2
  <2>4. ASSUME NEW j \in gone PROVE j <= n - x
    <3>0. j \in 1 .. n
      BY <1>8
    <3>1. j \in 1 .. n /\ n - j \in 0 .. n /\ n - (n - j) = j
      BY <1>2, <3>0
    <3>2. x <= n - j
      BY <2>2, <3>1
    <3> QED BY <1>2, <2>3, <3>1, <3>2
  <2> QED BY <2>3, <2>4
<1>12. Window!BlockOf(new) = r[k]
  <2>1. PICK a \in 1 .. k : r[a] = Window!BlockOf(new)
    BY <1>7, <1>8, <1>11
  <2>2. Window!BlockOf(r[k]) <= Window!BlockOf(new)
    BY <1>1, <1>8, <1>9, <1>11, BlocksRise
  <2>3. r[k] <= r[a] /\ a \in 1 .. Len(r) /\ (a < k => r[a] < r[k])
    BY <1>2, <1>3, <2>1, <2>2
  <2>4. r[a] \in Nat /\ r[k] \in Nat /\ a \in Nat /\ (a < k \/ a = k)
    BY <1>3, <1>5, <2>3
  <2> QED BY <2>1, <2>3, <2>4
<1>13. {i \in 1 .. n : i \notin gone \/ Window!BlockOf(i) = Window!BlockOf(new)} = Window!Without(k - 1)
  <2>1. /\ Window!Without(k - 1) \in SUBSET (1 .. n)
        /\ \A i \in 1 .. n : i \in Window!Without(k - 1) <=> \A j \in 1 .. k - 1 : r[j] # Window!BlockOf(i)
    <3>1. k - 1 \in 0 .. Len(r) /\ r = Window!Removable
      BY <1>1, <1>3
    <3>2. PICK w : w = Window!Without(k - 1)
      OBVIOUS
    <3>3. /\ w \in SUBSET (1 .. Len(messages))
          /\ \A i \in 1 .. Len(messages) : i \in w <=> \A j \in 1 .. k - 1 : r[j] # Window!BlockOf(i)
      BY <3>1, <3>2, WithoutIs
    <3> QED BY <1>1, <3>2, <3>3
  <2>2. \A j \in 1 .. k - 1 : j \in 1 .. k /\ r[j] # r[k]
    <3> SUFFICES ASSUME NEW j \in 1 .. k - 1 PROVE j \in 1 .. k /\ r[j] # r[k]
      OBVIOUS
    <3>1. j \in 1 .. k /\ j \in 1 .. Len(r) /\ j < k
      BY <1>2, <1>3
    <3>2. r[j] < r[k] /\ r[j] \in Nat /\ r[k] \in Nat
      BY <1>2, <1>3, <1>5, <3>1
    <3> QED BY <3>1, <3>2
  <2>3. \A j \in 1 .. k : j = k \/ j \in 1 .. k - 1
    BY <1>3
  <2>4. ASSUME NEW i \in 1 .. n
        PROVE  i \notin gone \/ Window!BlockOf(i) = r[k] <=> i \in Window!Without(k - 1)
    BY <1>7, <2>1, <2>2, <2>3
  <2> QED BY <1>12, <2>1, <2>4
<1>14. Cardinality(s) < n
  <2>1. IsFiniteSet(1 .. n) /\ Cardinality(1 .. n) = n
    BY <1>2, FS_Interval, n - 1 + 1 = n, (1 > n) => n = 0
  <2>2. s # 1 .. n
    BY <1>1, <1>9
  <2>3. IsFiniteSet(s) /\ Cardinality(s) <= n /\ Cardinality(s) # n
    BY <1>8, <2>1, <2>2, FS_Subset
  <2>4. Cardinality(s) \in Nat
    BY <2>3, FS_CardinalityType
  <2> QED BY <1>2, <2>3, <2>4
<1> QED BY <1>1, <1>4, <1>9, <1>10, <1>11, <1>13, <1>14

(* What removed nothing is the whole context; else the request is what is  *)
(* kept, with or without a summary in it.                                  *)
Kept == Window!Pick(Window!Without(Window!Removed))

Windowed ==
  \/ compaction = None /\ request = messages
  \/ /\ Window!Removed # 0
     /\ compaction.removed = DOMAIN messages \ Window!Without(Window!Removed)
     /\ request = Kept \/ \E size \in Nat : request = Window!InjectSummary(Kept, size)

LEMMA KeptIs ==
  ASSUME Shaped(messages), NEW s, s = Window!Without(Window!Removed)
  PROVE  /\ s \in SUBSET (1 .. Len(messages)) /\ WholeBlocks(s)
         /\ \A i \in 1 .. Len(messages) :
              messages[i].role = "system" \/ Window!BlockOf(i) = Window!LastBlock => i \in s
         /\ Carries(Kept, s) /\ SystemFirst(Kept) /\ Len(Kept) \in Nat /\ Len(Kept) <= Len(messages)
         /\ Window!Removed # 0 => Len(Kept) < Len(messages)
<1>1. PICK k : k = Window!Removed
  OBVIOUS
<1>2. k \in 0 .. Len(Window!Removable)
  BY <1>1, RemovedIs
<1>3. s \in SUBSET (1 .. Len(messages)) /\ WholeBlocks(s)
  BY <1>1, <1>2, WithoutIs
<1>4. \A i \in 1 .. Len(messages) :
        messages[i].role = "system" \/ Window!BlockOf(i) = Window!LastBlock => i \in s
  BY <1>1, <1>2, WithoutIs
<1>5. PICK at : Selects(Kept, s, at)
  BY <1>3, PickIs DEF Kept
<1>6. Carries(Kept, s) /\ SystemFirst(Kept)
  BY <1>3, <1>5, SelectCarries
<1>7. Len(Kept) = Cardinality(s) /\ Len(Kept) <= Len(messages) /\ Len(Kept) \in Nat
  BY <1>5 DEF Selects
<1>8. k # 0 => Cardinality(s) < Len(messages)
  BY <1>1, GoneIs
<1> QED BY <1>1, <1>3, <1>4, <1>6, <1>7, <1>8

(* Such a request keeps what it must and leaves out no more than it must.  *)
LEMMA WindowedKeeps ==
  ASSUME ContextAssumption, Shaped(messages), AnsweredBut(messages, {}), Windowed
  PROVE  /\ Window!PairsTogether /\ Window!SystemAndNewestKept /\ Window!OldestAndNoMore
<1>1. PICK s : s \in SUBSET (1 .. Len(messages)) /\ WholeBlocks(s) /\ Carries(request, s)
               /\ \A i \in 1 .. Len(messages) :
                    messages[i].role = "system" \/ Window!BlockOf(i) = Window!LastBlock => i \in s
  <2>1. CASE compaction = None /\ request = messages
    BY <2>1, AllCarried
  <2>2. CASE request = Kept
    BY <2>2, KeptIs
  <2>3. ASSUME NEW size \in Nat, request = Window!InjectSummary(Kept, size)
        PROVE  Carries(request, Window!Without(Window!Removed))
    BY <2>3, KeptIs, InjectCarries
  <2> QED BY <2>1, <2>2, <2>3, KeptIs DEF Windowed
<1>2. Window!PairsTogether
  BY <1>1, CarriesPairs DEF Window!PairsTogether
<1>3. Window!SystemAndNewestKept
  <2>1. DOMAIN messages = 1 .. Len(messages) /\ DOMAIN request = 1 .. Len(request)
    BY <1>1, ShapeFacts DEF Carries
  <2>2. ASSUME NEW i \in s PROVE messages[i] \in Window!ToSet(request)
    BY <1>1, <2>1 DEF Carries, Window!ToSet
  <2> QED BY <1>1, <2>1, <2>2 DEF Window!SystemAndNewestKept, Carries
<1>4. Window!OldestAndNoMore
  <2> SUFFICES ASSUME compaction # None PROVE Window!OldestAndNoMore
    BY DEF Window!OldestAndNoMore
  <2>1. PICK k, gone : /\ k = Window!Removed /\ k # 0 /\ gone = compaction.removed
                       /\ gone = (1 .. Len(messages)) \ Window!Without(k)
    BY ShapeFacts DEF Windowed
  <2>2. \A i \in gone : \A j \in (1 .. Len(messages)) \ gone : messages[j].role = "system" \/ i < j
    BY <2>1, GoneIs
  <2>3. PICK new \in gone :
          /\ \A j \in gone : j <= new
          /\ {i \in 1 .. Len(messages) : i \notin gone \/ Window!BlockOf(i) = Window!BlockOf(new)}
               = Window!Without(k - 1)
    BY <2>1, GoneIs
  <2>4. ~Window!Fits(k - 1)
    BY <2>1, GoneIs
  <2>5. new = CHOOSE i \in gone : \A j \in gone : j <= i
    <3>1. PICK x : x = CHOOSE i \in gone : \A j \in gone : j <= i
      OBVIOUS
    <3>2. x \in gone /\ \A j \in gone : j <= x
      BY <2>3, <3>1
    <3>3. x \in 1 .. Len(messages) /\ new \in 1 .. Len(messages) /\ x <= new /\ new <= x
      BY <2>1, <2>3, <3>2
    <3> QED BY <3>1, <3>3, ShapeFacts
  <2>6. ~(Window!Tokens(Window!Pick(Window!Without(k - 1))) <= Window!Budget)
    BY <2>4 DEF Window!Fits
  <2>7. DOMAIN messages = 1 .. Len(messages)
    BY ShapeFacts
  <2>8. PICK back : back = {i \in 1 .. Len(messages) : i \notin gone \/ Window!BlockOf(i) = Window!BlockOf(new)}
    OBVIOUS
  <2>9. ~(Window!Tokens(Window!Pick(back)) <= Window!Budget)
    BY <2>3, <2>6, <2>8
  <2>10. Window!OldestAndNoMore <=>
           (pc = "answer" /\ compaction # None =>
              /\ \A i \in gone : \A j \in DOMAIN messages \ gone : messages[j].role = "system" \/ i < j
              /\ ~(Window!Tokens(Window!Pick({i \in DOMAIN messages :
                     i \notin gone \/ Window!BlockOf(i) = Window!BlockOf(CHOOSE i_1 \in gone : \A j \in gone : j <= i_1)})) <= Window!Budget))
    BY <2>1 DEF Window!OldestAndNoMore
  <2> QED BY <2>2, <2>5, <2>7, <2>8, <2>9, <2>10
<1> QED BY <1>2, <1>3, <1>4

----------------------------------------------------------------------------
(* The turn.                                                               *)

Waits == {waiting[i] : i \in 1 .. Len(waiting)}

(* The calls that wait are those of the last answer, which nothing but     *)
(* results of it follows.                                                  *)
Waiting ==
  /\ waiting \in Seq(Window!Ids) /\ (pc = "tools" <=> waiting # <<>>)
  /\ waiting # <<>> =>
       \E k \in 1 .. Len(messages) : Window!Follows(messages, k, Len(messages)) /\ Waits \subseteq messages[k].uses

AskedAtMostOnce == covered = <<>> \/ (Len(covered) = 1 /\ summarizeAllowed = FALSE)

WithinContext ==
  /\ pc \in {"call", "answer", "tools", "done"} /\ summarizeAllowed \in BOOLEAN
  /\ Len(request) \in Nat /\ Len(request) <= Len(messages)
  /\ compaction = None \/ compaction.removed \subseteq 1 .. Len(messages)

WindowInv ==
  /\ Shaped(messages) /\ AnsweredBut(messages, Waits) /\ Waiting
  /\ pc = "answer" => Windowed
  /\ AskedAtMostOnce /\ WithinContext

LEMMA NothingWaits == ASSUME waiting = <<>> PROVE Waits = {}
  BY DEF Waits

LEMMA WindowInvKeeps ==
  ASSUME ContextAssumption, WindowInv
  PROVE  /\ Window!PairsTogether /\ Window!SystemAndNewestKept /\ Window!OldestAndNoMore
         /\ Window!SummaryOnce /\ Window!TypeOK
<1>1. ASSUME pc = "answer"
      PROVE  Window!PairsTogether /\ Window!SystemAndNewestKept /\ Window!OldestAndNoMore
  <2>1. waiting = <<>> /\ AnsweredBut(messages, {}) /\ Shaped(messages) /\ Windowed
    BY <1>1, NothingWaits DEF WindowInv, Waiting
  <2> QED BY <2>1, WindowedKeeps
<1>2. ASSUME pc # "answer"
      PROVE  Window!PairsTogether /\ Window!SystemAndNewestKept /\ Window!OldestAndNoMore
  BY <1>2 DEF Window!PairsTogether, Window!SystemAndNewestKept, Window!OldestAndNoMore
<1>3. Window!SummaryOnce
  BY DEF WindowInv, AskedAtMostOnce, Window!SummaryOnce
<1>4. Window!TypeOK
  BY ShapeFacts DEF WindowInv, WithinContext, Window!TypeOK
<1> QED BY <1>1, <1>2, <1>3, <1>4

LEMMA WindowStarts ==
  ASSUME ContextAssumption, Window!Init
  PROVE  WindowInv
<1>1. messages \in Histories /\ waiting = <<>> /\ pc = "call" /\ summarizeAllowed \in BOOLEAN
      /\ request = <<>> /\ compaction = None /\ covered = <<>>
  BY DEF Window!Init
<1>2. Shaped(messages) /\ AnsweredBut(messages, {}) /\ Waits = {}
  BY <1>1, HistoryIsShaped, NothingWaits
<1>3. Waiting
  BY <1>1 DEF Waiting
<1>4. WithinContext
  BY <1>1, <1>2, ShapeFacts DEF WithinContext
<1> QED BY <1>1, <1>2, <1>3, <1>4 DEF WindowInv, AskedAtMostOnce

(* What depends on the context alone stays with it.                        *)
LEMMA SameContext ==
  ASSUME messages' = messages
  PROVE  /\ Window!Removed' = Window!Removed /\ Kept' = Kept
         /\ Window!Without(Window!Removed)' = Window!Without(Window!Removed)
<1>1. \A i : Window!BlockOf(i)' = Window!BlockOf(i)
  BY DEF Window!BlockOf
<1>2. Window!Blocks' = Window!Blocks /\ Window!LastBlock' = Window!LastBlock
  BY <1>1 DEF Window!Blocks, Window!LastBlock
<1>3. Window!Removable' = Window!Removable
  BY <1>2 DEF Window!Removable
<1>4. \A k : Window!Without(k)' = Window!Without(k)
  BY <1>1, <1>3 DEF Window!Without
<1>5. \A s : Window!Pick(s)' = Window!Pick(s)
  BY DEF Window!Pick
<1>6. \A k : Window!Fits(k)' = Window!Fits(k)
  BY <1>4, <1>5 DEF Window!Fits
<1>7. Window!Removed' = Window!Removed
  BY <1>3, <1>6 DEF Window!Removed
<1>8. Window!Without(Window!Removed)' = Window!Without(Window!Removed)
  BY <1>4, <1>7
<1>9. Kept' = Kept
  BY <1>5, <1>8 DEF Kept
<1> QED BY <1>7, <1>8, <1>9

LEMMA CallKeepsWindow ==
  ASSUME ContextAssumption, WindowInv, Window!ModelCall
  PROVE  WindowInv'
<1>1. /\ messages' = messages /\ waiting' = waiting /\ pc' = "answer" /\ pc = "call"
      /\ Window!ApplyWindow
  BY DEF Window!ModelCall
<1>2. Shaped(messages) /\ waiting = <<>> /\ AskedAtMostOnce /\ summarizeAllowed \in BOOLEAN
  BY <1>1 DEF WindowInv, Waiting, WithinContext
<1>3. Len(messages) \in Nat /\ DOMAIN messages = 1 .. Len(messages)
  BY <1>2, ShapeFacts
<1>4. PICK s : s = Window!Without(Window!Removed)
  OBVIOUS
<1>5. s \in SUBSET (1 .. Len(messages)) /\ Carries(Kept, s) /\ SystemFirst(Kept)
      /\ Len(Kept) \in Nat /\ Len(Kept) <= Len(messages)
      /\ (Window!Removed # 0 => Len(Kept) < Len(messages))
  BY <1>2, <1>4, KeptIs
<1>6. CASE request' = messages /\ compaction' = None /\ summarizeAllowed' = summarizeAllowed /\ covered' = covered
  <2>1. Windowed' /\ AskedAtMostOnce'
    BY <1>1, <1>2, <1>6 DEF Windowed, AskedAtMostOnce
  <2>2. WithinContext'
    BY <1>1, <1>2, <1>3, <1>6 DEF WithinContext
  <2>3. Waiting' /\ AnsweredBut(messages, Waits)' /\ Shaped(messages)'
    BY <1>1 DEF WindowInv, Waiting, Waits
  <2> QED BY <2>1, <2>2, <2>3 DEF WindowInv
<1>7. ASSUME Window!Removed # 0, NEW size \in Nat, NEW gone, gone = DOMAIN messages \ s,
             \/ /\ size > 0 /\ summarizeAllowed = TRUE /\ request' = Window!InjectSummary(Kept, size)
                /\ compaction' = [removed |-> gone, summarized |-> TRUE]
                /\ covered' = Append(covered, gone) /\ summarizeAllowed' = FALSE
             \/ /\ request' = Kept /\ compaction' = [removed |-> gone, summarized |-> FALSE]
                /\ summarizeAllowed' = summarizeAllowed /\ covered' = covered
      PROVE  WindowInv'
  <2>1. compaction'.removed = DOMAIN messages \ s
    BY <1>7
  <2>2. Len(request') \in Nat /\ Len(request') <= Len(messages)
    <3>1. Len(Window!InjectSummary(Kept, size)) = Len(Kept) + 1
      BY <1>5, InjectCarries
    <3> QED BY <1>3, <1>5, <1>7, <3>1
  <2>3. request' = Kept \/ \E z \in Nat : request' = Window!InjectSummary(Kept, z)
    BY <1>7
  <2>4. Windowed'
    <3>1. Window!Removed' # 0 /\ Kept' = Kept /\ Window!Without(Window!Removed)' = s
      BY <1>1, <1>4, <1>7, SameContext
    <3>2. request' = Kept' \/ \E z \in Nat : request' = Window!InjectSummary(Kept', z)
      BY <2>3, <3>1
    <3> QED BY <1>1, <2>1, <3>1, <3>2 DEF Windowed
  <2>5. AskedAtMostOnce'
    <3>1. summarizeAllowed = TRUE => covered = <<>>
      BY <1>2 DEF AskedAtMostOnce
    <3>2. Len(Append(<<>>, gone)) = 1
      OBVIOUS
    <3>3. \/ Len(covered') = 1 /\ summarizeAllowed' = FALSE
          \/ covered' = covered /\ summarizeAllowed' = summarizeAllowed
      BY <1>7, <3>1, <3>2
    <3> QED BY <1>2, <3>3 DEF AskedAtMostOnce
  <2>6. WithinContext'
    BY <1>1, <1>2, <1>3, <1>7, <2>1, <2>2 DEF WithinContext
  <2>7. Waiting' /\ AnsweredBut(messages, Waits)' /\ Shaped(messages)'
    BY <1>1 DEF WindowInv, Waiting, Waits
  <2> QED BY <2>4, <2>5, <2>6, <2>7 DEF WindowInv
<1>8. CASE Window!Budget <= 0 \/ 10 * Window!Tokens(messages) <= Window!Budget * Window!CompactionRatio \/ Window!Removed = 0
  BY <1>1, <1>6, <1>8 DEF Window!ApplyWindow, Window!Sends
<1>9. CASE ~(Window!Budget <= 0 \/ 10 * Window!Tokens(messages) <= Window!Budget * Window!CompactionRatio \/ Window!Removed = 0)
  <2>1. PICK gone : gone = DOMAIN messages \ s
    OBVIOUS
  <2>2. \E size \in IF summarizeAllowed THEN SummarySizes ELSE {0} :
          IF size > 0
          THEN /\ Window!Sends(Window!InjectSummary(Kept, size), [removed |-> gone, summarized |-> TRUE])
               /\ Window!SummaryTaken(gone)
          ELSE /\ Window!Sends(Kept, [removed |-> gone, summarized |-> FALSE])
               /\ summarizeAllowed' = summarizeAllowed /\ covered' = covered
    BY <1>1, <1>4, <1>9, <2>1 DEF Window!ApplyWindow, Kept
  <2>3. PICK size \in IF summarizeAllowed THEN SummarySizes ELSE {0} :
          IF size > 0
          THEN /\ request' = Window!InjectSummary(Kept, size)
               /\ compaction' = [removed |-> gone, summarized |-> TRUE]
               /\ covered' = Append(covered, gone) /\ summarizeAllowed' = FALSE
          ELSE /\ request' = Kept /\ compaction' = [removed |-> gone, summarized |-> FALSE]
               /\ summarizeAllowed' = summarizeAllowed /\ covered' = covered
    BY <2>2 DEF Window!Sends, Window!SummaryTaken
  <2>4. size \in Nat /\ (size > 0 => summarizeAllowed = TRUE)
    BY <1>2 DEF ContextAssumption, Window!WindowAssumption
  <2> QED BY <1>7, <1>9, <2>1, <2>3, <2>4
<1> QED BY <1>8, <1>9

Grown(h, m, n) ==
  /\ Len(h) = n + 1 /\ h[n + 1] = m
  /\ \A i \in 1 .. n : h[i] = messages[i]
  /\ \A k, i \in 1 .. n : Window!Follows(messages, k, i) => Window!Follows(h, k, i)
  /\ \A k \in 1 .. n : Window!Follows(messages, k, n) /\ Window!HasResult(m) => Window!Follows(h, k, n + 1)

(* The context grows by a message that is no result, or the result of a    *)
(* call that waits.                                                        *)
LEMMA GrownIs ==
  ASSUME Shaped(messages), NEW m \in Window!Message, NEW h, h = Append(messages, m),
         m.role # "system", ~Window!HasCall(m) \/ ~Window!HasResult(m),
         Window!HasResult(m) => \E k \in 1 .. Len(messages) :
           Window!Follows(messages, k, Len(messages)) /\ m.answers \in messages[k].uses
  PROVE  Shaped(h) /\ Grown(h, m, Len(messages))
<1>1. PICK n, M : n = Len(messages) /\ M = Window!Message
  OBVIOUS
<1>2. n \in Nat /\ n >= 1 /\ messages \in Seq(M)
  BY <1>1, ShapeFacts DEF Shaped
<1>3. h \in Seq(M) /\ Len(h) = n + 1 /\ h[n + 1] = m /\ \A i \in 1 .. n : h[i] = messages[i]
  BY <1>1, <1>2
<1>4. ASSUME NEW k \in 1 .. n, NEW i \in 1 .. n, Window!Follows(messages, k, i)
      PROVE  Window!Follows(h, k, i)
  <2>1. \A j \in k + 1 .. i : j \in 1 .. n
    BY <1>2
  <2> QED BY <1>3, <1>4, <2>1 DEF Window!Follows
<1>5. ASSUME NEW k \in 1 .. n, Window!Follows(messages, k, n), Window!HasResult(m)
      PROVE  Window!Follows(h, k, n + 1)
  <2>1. \A j \in k + 1 .. n + 1 : j = n + 1 \/ (j \in 1 .. n /\ j \in k + 1 .. n)
    BY <1>2
  <2> QED BY <1>3, <1>5, <2>1 DEF Window!Follows
<1>6. \A i \in 1 .. n + 1 : i = n + 1 \/ i \in 1 .. n
  BY <1>2
<1>7. Shaped(h)
  <2>1. ASSUME NEW i \in 1 .. n + 1
        PROVE  /\ ~Window!HasCall(h[i]) \/ ~Window!HasResult(h[i])
               /\ h[i].role = "system" => ~Window!HasCall(h[i]) /\ ~Window!HasResult(h[i])
    BY <1>1, <1>3, <1>6 DEF Shaped
  <2>2. SystemFirst(h)
    <3> SUFFICES ASSUME NEW i \in 1 .. n + 1, NEW j \in 1 .. n + 1, i < j, h[j].role = "system"
                 PROVE  h[i].role = "system"
      BY <1>3 DEF SystemFirst
    <3>1. j \in 1 .. n
      BY <1>3, <1>6
    <3>2. i \in 1 .. n
      BY <1>2, <3>1
    <3> QED BY <1>1, <1>3, <3>1, <3>2 DEF Shaped, SystemFirst
  <2>3. ASSUME NEW i \in 1 .. n + 1, Window!HasResult(h[i])
        PROVE  \E k \in 1 .. i - 1 : Window!Follows(h, k, i) /\ h[i].answers \in h[k].uses
    <3>1. CASE i = n + 1
      <4>1. PICK k \in 1 .. n : Window!Follows(messages, k, n) /\ m.answers \in messages[k].uses
        BY <1>1, <1>3, <2>3, <3>1
      <4>2. Window!Follows(h, k, n + 1) /\ h[i].answers \in h[k].uses /\ k \in 1 .. i - 1
        BY <1>2, <1>3, <1>5, <2>3, <3>1, <4>1
      <4> QED BY <3>1, <4>2
    <3>2. CASE i \in 1 .. n
      <4>1. PICK k \in 1 .. i - 1 : Window!Follows(messages, k, i) /\ messages[i].answers \in messages[k].uses
        BY <1>1, <1>3, <2>3, <3>2 DEF Shaped
      <4>2. k \in 1 .. n
        BY <1>2, <3>2
      <4> QED BY <1>3, <1>4, <3>2, <4>1, <4>2
    <3> QED BY <1>6, <3>1, <3>2
  <2>4. h # <<>> /\ h \in Seq(Window!Message) /\ Len(h) = n + 1
    BY <1>1, <1>2, <1>3
  <2> QED BY <2>1, <2>2, <2>3, <2>4 DEF Shaped
<1>8. Grown(h, m, n)
  BY <1>3, <1>4, <1>5 DEF Grown
<1> QED BY <1>1, <1>7, <1>8

(* What was answered stays so.                                             *)
LEMMA AnsweredStays ==
  ASSUME NEW n \in Nat, NEW h, Len(h) = n + 1, Len(messages) = n,
         \A i \in 1 .. n : h[i] = messages[i],
         \A k, i \in 1 .. n : Window!Follows(messages, k, i) => Window!Follows(h, k, i),
         NEW k \in 1 .. n, NEW u, AnsweredIn(messages, k, u)
  PROVE  AnsweredIn(h, k, u)
<1>1. PICK i \in k + 1 .. n : Window!Follows(messages, k, i) /\ messages[i].answers = u
  BY DEF AnsweredIn
<1>2. i \in 1 .. n /\ i \in k + 1 .. n + 1
  OBVIOUS
<1> QED BY <1>1, <1>2 DEF AnsweredIn

LEMMA AnswerKeepsWindow ==
  ASSUME ContextAssumption, WindowInv, Window!ModelAnswers
  PROVE  WindowInv'
<1>1. PICK c \in 0 .. MaxBatch, size \in Sizes :
      /\ Window!Grows([role |-> "assistant", uses |-> Window!ToSet(Window!CallsOf(c)), answers |-> None,
                       size |-> size, media |-> 0])
      /\ waiting' = Window!CallsOf(c) /\ pc' = IF c = 0 THEN "done" ELSE "tools"
  BY DEF Window!ModelAnswers
<1>2. PICK n, m :
      /\ n = Len(messages)
      /\ m = [role |-> "assistant", uses |-> Window!ToSet(Window!CallsOf(c)), answers |-> None,
              size |-> size, media |-> 0]
  OBVIOUS
<1>3. /\ n = Len(messages) /\ pc = "answer" /\ messages' = Append(messages, m)
      /\ m = [role |-> "assistant", uses |-> Window!ToSet(Window!CallsOf(c)), answers |-> None,
              size |-> size, media |-> 0]
      /\ waiting' = Window!CallsOf(c) /\ pc' = IF c = 0 THEN "done" ELSE "tools"
      /\ summarizeAllowed' = summarizeAllowed /\ request' = request /\ compaction' = compaction
      /\ covered' = covered
  <2>1. pc = "answer"
    BY DEF Window!ModelAnswers
  <2>2. Window!Grows(m)
    BY <1>1, <1>2
  <2> QED BY <1>1, <1>2, <2>1, <2>2 DEF Window!Grows
<1>4. n \in Nat /\ c \in Nat /\ size \in Nat /\ Shaped(messages) /\ AnsweredBut(messages, {})
  <2>1. waiting = <<>>
    BY <1>3 DEF WindowInv, Waiting
  <2>2. Shaped(messages) /\ AnsweredBut(messages, {})
    BY <2>1, NothingWaits DEF WindowInv
  <2>3. MaxBatch \in Nat /\ Sizes \subseteq Nat
    BY DEF ContextAssumption, Window!WindowAssumption
  <2> QED BY <1>3, <2>2, <2>3, ShapeFacts
<1>5. /\ waiting' = [k \in 1 .. c |-> <<n + 1, k>>] /\ waiting' \in Seq(Window!Ids) /\ Len(waiting') = c
      /\ Window!ToSet(Window!CallsOf(c)) = Waits' /\ Waits' \in SUBSET Window!Ids
  <2>1. waiting' = [k \in 1 .. c |-> <<n + 1, k>>]
    BY <1>3 DEF Window!CallsOf
  <2>2. \A k \in 1 .. c : <<n + 1, k>> \in Window!Ids
    BY <1>4 DEF Window!Ids
  <2>3. waiting' \in Seq(Window!Ids) /\ Len(waiting') = c /\ DOMAIN waiting' = 1 .. c
    <3> HIDE DEF Window!Ids
    <3> QED BY <1>4, <2>1, <2>2
  <2>4. Window!ToSet(Window!CallsOf(c)) = Waits'
    BY <1>3, <2>3 DEF Waits, Window!ToSet
  <2>5. Waits' \in SUBSET Window!Ids
    <3> SUFFICES ASSUME NEW k \in 1 .. c PROVE waiting'[k] \in Window!Ids
      BY <2>3 DEF Waits
    <3> QED BY <2>1, <2>2
  <2> QED BY <2>1, <2>3, <2>4, <2>5
<1>6. m \in Window!Message /\ m.role = "assistant" /\ m.uses = Waits' /\ ~Window!HasResult(m)
  BY <1>3, <1>4, <1>5 DEF Window!Message, Window!HasResult
<1>7. PICK h : h = messages' /\ h = Append(messages, m)
  BY <1>3
<1>8. /\ Shaped(h) /\ Len(h) = n + 1 /\ h[n + 1] = m
      /\ \A i \in 1 .. n : h[i] = messages[i]
      /\ \A k, i \in 1 .. n : Window!Follows(messages, k, i) => Window!Follows(h, k, i)
  <2>1. m.role # "system" /\ m \in Window!Message /\ ~Window!HasResult(m)
    BY <1>6
  <2>2. Shaped(messages) /\ h = Append(messages, m)
    BY <1>4, <1>7
  <2>3. Shaped(h) /\ Grown(h, m, Len(messages))
    BY <2>1, <2>2, GrownIs
  <2> QED BY <1>3, <2>3 DEF Grown
<1>9. AnsweredBut(h, Waits')
  <2> SUFFICES ASSUME NEW k \in 1 .. n + 1, NEW u \in h[k].uses
               PROVE  AnsweredIn(h, k, u) \/ (u \in Waits' /\ Window!Follows(h, k, n + 1))
    BY <1>8 DEF AnsweredBut
  <2>1. CASE k \in 1 .. n
    <3>1. AnsweredIn(messages, k, u)
      BY <1>3, <1>4, <1>8, <2>1 DEF AnsweredBut
    <3> QED BY <1>3, <1>4, <1>8, <2>1, <3>1, AnsweredStays
  <2>2. CASE k = n + 1
    BY <1>4, <1>6, <1>8, <2>2 DEF Window!Follows
  <2> QED BY <1>4, <2>1, <2>2
<1>10. Waiting'
  <2>1. waiting' # <<>> <=> c # 0
    <3>1. PICK w, M : w = waiting' /\ M = Window!Ids
      OBVIOUS
    <3>2. w \in Seq(M) /\ Len(w) = c
      BY <1>5, <3>1
    <3>3. w = <<>> <=> c = 0
      BY <3>2
    <3> QED BY <3>1, <3>3
  <2>2. n + 1 \in 1 .. Len(h) /\ Window!Follows(h, n + 1, Len(h)) /\ Waits' \subseteq h[n + 1].uses
    BY <1>4, <1>6, <1>8 DEF Window!Follows
  <2>3. \E k \in 1 .. Len(h) : Window!Follows(h, k, Len(h)) /\ Waits' \subseteq h[k].uses
    BY <2>2
  <2>4. pc' = "tools" <=> waiting' # <<>>
    BY <1>3, <2>1
  <2> QED BY <1>5, <1>7, <2>3, <2>4 DEF Waiting
<1>11. WithinContext' /\ AskedAtMostOnce'
  <2>1. WithinContext /\ AskedAtMostOnce
    BY DEF WindowInv
  <2>2. Len(request') <= Len(messages') /\ 1 .. n \in SUBSET (1 .. n + 1)
    BY <1>3, <1>4, <1>7, <1>8, <2>1 DEF WithinContext
  <2> QED BY <1>3, <1>7, <1>8, <2>1, <2>2 DEF WithinContext, AskedAtMostOnce
<1>12. pc' # "answer"
  BY <1>3
<1> QED BY <1>7, <1>8, <1>9, <1>10, <1>11, <1>12 DEF WindowInv

LEMMA ToolKeepsWindow ==
  ASSUME ContextAssumption, WindowInv, Window!ToolAnswers
  PROVE  WindowInv'
<1>1. PICK size \in Sizes :
      Window!Grows([role |-> "tool", uses |-> {}, answers |-> Head(waiting), size |-> size, media |-> 0])
  BY DEF Window!ToolAnswers
<1>2. PICK n, m :
      /\ n = Len(messages)
      /\ m = [role |-> "tool", uses |-> {}, answers |-> Head(waiting), size |-> size, media |-> 0]
  OBVIOUS
<1>3. /\ n = Len(messages) /\ pc = "tools" /\ messages' = Append(messages, m)
      /\ m = [role |-> "tool", uses |-> {}, answers |-> Head(waiting), size |-> size, media |-> 0]
      /\ waiting' = Tail(waiting) /\ pc' = IF Len(waiting) = 1 THEN "call" ELSE "tools"
      /\ summarizeAllowed' = summarizeAllowed /\ request' = request /\ compaction' = compaction
      /\ covered' = covered
  <2>1. /\ pc = "tools" /\ waiting' = Tail(waiting)
        /\ pc' = IF Len(waiting) = 1 THEN "call" ELSE "tools"
    BY DEF Window!ToolAnswers
  <2>2. Window!Grows(m)
    BY <1>1, <1>2
  <2> QED BY <1>1, <1>2, <2>1, <2>2 DEF Window!Grows
<1>4. n \in Nat /\ size \in Nat /\ Shaped(messages) /\ AnsweredBut(messages, Waits)
  BY <1>3, ShapeFacts DEF WindowInv, ContextAssumption, Window!WindowAssumption
<1>5. /\ waiting # <<>> /\ waiting \in Seq(Window!Ids) /\ Len(waiting) \in Nat /\ Head(waiting) \in Window!Ids
      /\ waiting' \in Seq(Window!Ids) /\ (waiting' = <<>> <=> Len(waiting) = 1)
      /\ Waits = {Head(waiting)} \cup Waits'
  <2>1. waiting # <<>> /\ waiting \in Seq(Window!Ids)
    BY <1>3 DEF WindowInv, Waiting
  <2> HIDE DEF Window!Ids
  <2>2. PICK w, w2 : w = waiting /\ w2 = waiting' /\ w2 = Tail(w)
    BY <1>3
  <2>3. Len(w) \in Nat /\ Len(w) >= 1 /\ w[1] = Head(w) /\ Head(w) \in Window!Ids
    BY <2>1, <2>2
  <2>4. /\ w2 \in Seq(Window!Ids) /\ Len(w2) = Len(w) - 1 /\ (w2 = <<>> <=> Len(w) = 1)
        /\ \A k \in 1 .. Len(w) - 1 : w2[k] = w[k + 1]
    <3>1. PICK M : M = Window!Ids
      OBVIOUS
    <3>2. w \in Seq(M) /\ Len(w) >= 1 /\ Len(w) \in Nat
      BY <2>1, <2>2, <2>3, <3>1
    <3>3. w2 \in Seq(M) /\ Len(w2) = Len(w) - 1 /\ \A k \in 1 .. Len(w) - 1 : w2[k] = w[k + 1]
      BY <2>2, <3>2
    <3>4. w2 = <<>> <=> Len(w2) = 0
      BY <3>3
    <3> QED BY <3>1, <3>2, <3>3, <3>4
  <2>5. {w[i] : i \in 1 .. Len(w)} = {Head(w)} \cup {w2[i] : i \in 1 .. Len(w2)}
    <3>1. ASSUME NEW i \in 1 .. Len(w) PROVE w[i] = Head(w) \/ \E k \in 1 .. Len(w2) : w[i] = w2[k]
      <4>1. CASE i = 1
        BY <2>3, <4>1
      <4>2. CASE i # 1
        <5>1. i - 1 \in 1 .. Len(w) - 1 /\ (i - 1) + 1 = i
          BY <2>3, <4>2
        <5> QED BY <2>4, <5>1
      <4> QED BY <4>1, <4>2
    <3>2. ASSUME NEW k \in 1 .. Len(w2) PROVE \E i \in 1 .. Len(w) : w2[k] = w[i]
      <4>1. k \in 1 .. Len(w) - 1 /\ k + 1 \in 1 .. Len(w)
        BY <2>3, <2>4
      <4> QED BY <2>4, <4>1
    <3>3. 1 \in 1 .. Len(w)
      BY <2>3
    <3> QED BY <2>3, <3>1, <3>2, <3>3
  <2>6. Waits = {w[i] : i \in 1 .. Len(w)} /\ Waits' = {w2[i] : i \in 1 .. Len(w2)}
    BY <2>2 DEF Waits
  <2> QED BY <2>1, <2>2, <2>3, <2>4, <2>5, <2>6
<1>6. PICK k0 \in 1 .. n : Window!Follows(messages, k0, n) /\ Waits \subseteq messages[k0].uses
  BY <1>3, <1>5 DEF WindowInv, Waiting
<1>7. /\ m \in Window!Message /\ m.role = "tool" /\ m.uses = {} /\ m.answers = Head(waiting)
      /\ ~Window!HasCall(m) /\ Window!HasResult(m)
  BY <1>3, <1>4, <1>5
     DEF Window!Message, Window!HasCall, Window!HasResult, ContextAssumption, Window!WindowAssumption
<1>8. PICK h : h = messages' /\ h = Append(messages, m)
  BY <1>3
<1>9. /\ Shaped(h) /\ Len(h) = n + 1 /\ h[n + 1] = m
      /\ \A i \in 1 .. n : h[i] = messages[i]
      /\ \A k, i \in 1 .. n : Window!Follows(messages, k, i) => Window!Follows(h, k, i)
      /\ \A k \in 1 .. n : Window!Follows(messages, k, n) => Window!Follows(h, k, n + 1)
  <2>1. m.role # "system" /\ m.answers \in messages[k0].uses
    BY <1>5, <1>6, <1>7
  <2>2. Shaped(messages) /\ h = Append(messages, m) /\ m \in Window!Message /\ ~Window!HasCall(m)
    BY <1>4, <1>7, <1>8
  <2>3. /\ ~Window!HasCall(m) \/ ~Window!HasResult(m)
        /\ Window!HasResult(m) => \E k \in 1 .. Len(messages) :
             Window!Follows(messages, k, Len(messages)) /\ m.answers \in messages[k].uses
    BY <1>3, <1>6, <2>1, <2>2
  <2>4. Shaped(h) /\ Grown(h, m, Len(messages))
    BY <2>1, <2>2, <2>3, GrownIs
  <2> QED BY <1>3, <1>7, <2>4 DEF Grown
<1>10. AnsweredBut(h, Waits')
  <2> SUFFICES ASSUME NEW k \in 1 .. n + 1, NEW u \in h[k].uses
               PROVE  AnsweredIn(h, k, u) \/ (u \in Waits' /\ Window!Follows(h, k, n + 1))
    BY <1>9 DEF AnsweredBut
  <2>1. k \in 1 .. n
    BY <1>4, <1>7, <1>9
  <2>2. CASE AnsweredIn(messages, k, u)
    BY <1>3, <1>4, <1>9, <2>1, <2>2, AnsweredStays
  <2>3. CASE u \in Waits /\ Window!Follows(messages, k, n)
    <3>1. Window!Follows(h, k, n + 1)
      BY <1>9, <2>1, <2>3
    <3>2. CASE u = Head(waiting)
      <4>1. n + 1 \in k + 1 .. Len(h) /\ h[n + 1].answers = u
        BY <1>4, <1>7, <1>9, <2>1, <3>2
      <4> QED BY <3>1, <4>1 DEF AnsweredIn
    <3>3. CASE u \in Waits'
      BY <3>1, <3>3
    <3> QED BY <1>5, <2>3, <3>2, <3>3
  <2>4. u \in messages[k].uses
    BY <1>9, <2>1
  <2> QED BY <1>3, <1>4, <2>1, <2>2, <2>3, <2>4 DEF AnsweredBut
<1>11. Waiting'
  <2>1. k0 \in 1 .. Len(h) /\ Window!Follows(h, k0, Len(h)) /\ Waits' \subseteq h[k0].uses
    BY <1>4, <1>5, <1>6, <1>9
  <2>2. \E k \in 1 .. Len(h) : Window!Follows(h, k, Len(h)) /\ Waits' \subseteq h[k].uses
    BY <2>1
  <2>3. pc' = "tools" <=> waiting' # <<>>
    BY <1>3, <1>5
  <2> QED BY <1>5, <1>8, <2>2, <2>3 DEF Waiting
<1>12. WithinContext' /\ AskedAtMostOnce'
  <2>1. WithinContext /\ AskedAtMostOnce
    BY DEF WindowInv
  <2>2. Len(request') <= Len(messages') /\ 1 .. n \in SUBSET (1 .. n + 1)
    BY <1>3, <1>4, <1>8, <1>9, <2>1 DEF WithinContext
  <2> QED BY <1>3, <1>8, <1>9, <2>1, <2>2 DEF WithinContext, AskedAtMostOnce
<1>13. pc' # "answer"
  BY <1>3
<1> QED BY <1>8, <1>9, <1>10, <1>11, <1>12, <1>13 DEF WindowInv

LEMMA RestKeepsWindow ==
  ASSUME WindowInv, UNCHANGED Window!vars
  PROVE  WindowInv'
<1>1. /\ messages' = messages /\ waiting' = waiting /\ pc' = pc /\ summarizeAllowed' = summarizeAllowed
      /\ request' = request /\ compaction' = compaction /\ covered' = covered
  BY DEF Window!vars
<1>2. Waits' = Waits /\ Waiting' /\ WithinContext' /\ AskedAtMostOnce'
  BY <1>1 DEF WindowInv, Waits, Waiting, WithinContext, AskedAtMostOnce
<1>3. Windowed => Windowed'
  BY <1>1, SameContext DEF Windowed
<1> QED BY <1>1, <1>2, <1>3 DEF WindowInv

KeepsWhole ==
  /\ Window!PairsTogether /\ Window!SystemAndNewestKept /\ Window!OldestAndNoMore
  /\ Window!SummaryOnce /\ Window!TypeOK

(* However long a turn and whatever its budget, sizes and summaries: what  *)
(* the window sends keeps calls and results together, the system messages  *)
(* and the newest block, and leaves out the oldest and no more than it     *)
(* must, and the Summarizer is asked once (applyWindow, contextBlocks,     *)
(* removeOldestBlocks, injectSummary; FR-CTX-005, 006, 008, 010).          *)
THEOREM WindowKeepsWhole == ContextAssumption => (Window!Spec => []KeepsWhole)
<1> SUFFICES ASSUME ContextAssumption PROVE Window!Spec => []KeepsWhole
  OBVIOUS
<1>1. Window!Init => WindowInv
  BY WindowStarts
<1>2. WindowInv /\ [Window!Next]_(Window!vars) => WindowInv'
  BY CallKeepsWindow, AnswerKeepsWindow, ToolKeepsWindow, RestKeepsWindow DEF Window!Next
<1>3. WindowInv => KeepsWhole
  BY WindowInvKeeps DEF KeepsWhole
<1> QED BY <1>1, <1>2, <1>3, PTL DEF Window!Spec
----------------------------------------------------------------------------
(* The memory of users.                                                    *)

UserSet == ToSet(Users)

LEMMA SameSets == \A s : Facts!ToSet(s) = ToSet(s) /\ Index!ToSet(s) = ToSet(s)
  BY DEF Facts!ToSet, Index!ToSet, ToSet

----------------------------------------------------------------------------
(* The facts of one user.                                                  *)

Fact == [id : FactIds, text : Nat \ {0}, created : Nat, updated : Nat]

(* A list holds what was given: the text of each fact, each fact once, and *)
(* every fact that was given and not forgotten.                            *)
Recalls(known, given) ==
  /\ known \in Seq(Fact)
  /\ given \in [FactIds -> Nat]
  /\ \A i \in DOMAIN known : given[known[i].id] = known[i].text
  /\ \A i, j \in DOMAIN known : known[i].id = known[j].id => i = j
  /\ \A id \in FactIds : given[id] > 0 => \E i \in DOMAIN known : known[i].id = id

KeptIds(given) == {id \in FactIds : given[id] > 0}

(* The places of a list are as many as the facts that are kept.            *)
LEMMA AsManyAsKept ==
  ASSUME NEW known, NEW given, Recalls(known, given)
  PROVE  Len(known) = Cardinality(KeptIds(given))
<1> DEFINE place == [i \in 1 .. Len(known) |-> known[i].id]
<1>1. /\ known \in Seq(Fact) /\ Len(known) \in Nat /\ DOMAIN known = 1 .. Len(known)
      /\ \A i \in 1 .. Len(known) : known[i] \in Fact
  BY DEF Recalls
<1>2. ASSUME NEW i \in 1 .. Len(known)
      PROVE  known[i].id \in KeptIds(given)
  <2>1. known[i].id \in FactIds /\ known[i].text \in Nat \ {0}
    BY <1>1 DEF Fact
  <2>2. given[known[i].id] = known[i].text
    BY <1>1 DEF Recalls
  <2> QED BY <2>1, <2>2 DEF KeptIds
<1>3. place \in [1 .. Len(known) -> KeptIds(given)]
  BY <1>2
<1>4. \A i, j \in 1 .. Len(known) : place[i] = place[j] => i = j
  BY <1>1 DEF Recalls
<1>5. \A id \in KeptIds(given) : \E i \in 1 .. Len(known) : place[i] = id
  BY <1>1 DEF Recalls, KeptIds
<1>6. ExistsBijection(1 .. Len(known), KeptIds(given))
  <2> HIDE DEF place
  <2>1. place \in Injection(1 .. Len(known), KeptIds(given))
    BY <1>3, <1>4 DEF Injection, IsInjective
  <2>2. place \in Surjection(1 .. Len(known), KeptIds(given))
    BY <1>3, <1>5 DEF Surjection
  <2> QED BY <2>1, <2>2 DEF ExistsBijection, Bijection
<1> QED BY <1>1, <1>6, FS_CountingElements

LEMMA RecalledExactly ==
  ASSUME NEW known, NEW given, Recalls(known, given)
  PROVE  {<<f.id, f.text>> : f \in Facts!ToSet(known)} = {<<id, given[id]>> : id \in KeptIds(given)}
<1>1. /\ known \in Seq(Fact) /\ DOMAIN known = 1 .. Len(known)
      /\ \A i \in DOMAIN known : known[i] \in Fact
  BY DEF Recalls
<1>2. ASSUME NEW f \in Facts!ToSet(known)
      PROVE  f.id \in KeptIds(given) /\ given[f.id] = f.text
  <2>1. PICK i \in DOMAIN known : f = known[i]
    BY DEF Facts!ToSet
  <2>2. given[f.id] = f.text /\ f.id \in FactIds /\ f.text \in Nat \ {0}
    BY <1>1, <2>1 DEF Recalls, Fact
  <2> QED BY <2>2 DEF KeptIds
<1>3. ASSUME NEW id \in KeptIds(given)
      PROVE  \E f \in Facts!ToSet(known) : f.id = id /\ f.text = given[id]
  <2>1. PICK i \in DOMAIN known : known[i].id = id
    BY DEF KeptIds, Recalls
  <2>2. known[i] \in Facts!ToSet(known) /\ given[known[i].id] = known[i].text
    BY DEF Facts!ToSet, Recalls
  <2> QED BY <2>1, <2>2
<1> QED BY <1>2, <1>3

(* What is given is recalled, and the rest as before.                      *)
LEMMA PutRecalls ==
  ASSUME NEW known, NEW given, Recalls(known, given), NEW id \in FactIds,
         NEW now \in Nat, puts \in Nat
  PROVE  Recalls(Facts!PutIn(known, id, now), [given EXCEPT ![id] = puts + 1])
<1> DEFINE fresh == [id |-> id, text |-> puts + 1, created |-> now, updated |-> now]
           same == {i \in DOMAIN known : known[i].id = id}
           after == [given EXCEPT ![id] = puts + 1]
<1>1. /\ known \in Seq(Fact) /\ Len(known) \in Nat /\ DOMAIN known = 1 .. Len(known)
      /\ \A i \in 1 .. Len(known) : known[i] \in Fact
  BY DEF Recalls
<1>2. /\ \A i \in 1 .. Len(known) : given[known[i].id] = known[i].text
      /\ \A i, j \in 1 .. Len(known) : known[i].id = known[j].id => i = j
      /\ \A o \in FactIds : given[o] > 0 => \E i \in 1 .. Len(known) : known[i].id = o
      /\ given \in [FactIds -> Nat]
  BY <1>1 DEF Recalls
<1>3. after \in [FactIds -> Nat] /\ after[id] = puts + 1 /\ \A o \in FactIds \ {id} : after[o] = given[o]
  BY <1>2
<1>4. fresh \in Fact /\ fresh.id = id /\ fresh.text = puts + 1
  BY DEF Fact
<1>5. CASE same = {}
  <2>1. Facts!PutIn(known, id, now) = Append(known, fresh)
    BY <1>5 DEF Facts!PutIn
  <2> DEFINE longer == Append(known, fresh)
  <2> HIDE DEF fresh, after
  <2>2. /\ longer \in Seq(Fact) /\ DOMAIN longer = 1 .. Len(known) + 1
        /\ \A i \in 1 .. Len(known) : longer[i] = known[i]
        /\ longer[Len(known) + 1] = fresh
    BY <1>1, <1>4
  <2> HIDE DEF longer
  <2>3. \A i \in 1 .. Len(known) : known[i].id # id /\ known[i].id \in FactIds
    BY <1>1, <1>5 DEF Fact
  <2>dom. Len(known) + 1 \notin 1 .. Len(known) /\ DOMAIN longer = 1 .. Len(known) \cup {Len(known) + 1}
    BY <1>1, <2>2
  <2>4. ASSUME NEW i \in DOMAIN longer
        PROVE  after[longer[i].id] = longer[i].text
    <3>1. CASE i \in 1 .. Len(known)
      <4>1. longer[i] = known[i] /\ known[i].id \in FactIds \ {id}
        BY <2>2, <2>3, <3>1
      <4>2. after[known[i].id] = given[known[i].id]
        BY <1>3, <4>1
      <4> QED BY <1>2, <3>1, <4>1, <4>2
    <3>2. CASE i = Len(known) + 1
      BY <1>3, <1>4, <2>2, <3>2
    <3> QED BY <2>dom, <3>1, <3>2
  <2>5. ASSUME NEW i \in DOMAIN longer, NEW j \in DOMAIN longer, longer[i].id = longer[j].id
        PROVE  i = j
    <3>1. longer[Len(known) + 1].id = id /\ \A k \in 1 .. Len(known) : longer[k].id = known[k].id /\ known[k].id # id
      BY <1>4, <2>2, <2>3
    <3>2. CASE i \in 1 .. Len(known) /\ j \in 1 .. Len(known)
      BY <1>2, <2>5, <3>1, <3>2
    <3>3. CASE i = Len(known) + 1 \/ j = Len(known) + 1
      BY <2>dom, <2>5, <3>1, <3>3
    <3> QED BY <2>dom, <3>2, <3>3
  <2>6. ASSUME NEW o \in FactIds, after[o] > 0
        PROVE  \E i \in DOMAIN longer : longer[i].id = o
    <3>1. CASE o = id
      <4>1. Len(known) + 1 \in DOMAIN longer /\ longer[Len(known) + 1].id = o
        BY <1>1, <1>4, <2>2, <3>1
      <4> QED BY <4>1
    <3>2. CASE o # id
      <4>1. PICK i \in 1 .. Len(known) : known[i].id = o
        BY <1>2, <1>3, <2>6, <3>2
      <4>2. i \in DOMAIN longer /\ longer[i].id = o
        BY <1>1, <2>2, <4>1
      <4> QED BY <4>2
    <3> QED BY <3>1, <3>2
  <2>7. Recalls(longer, after)
    BY <1>3, <2>2, <2>4, <2>5, <2>6 DEF Recalls
  <2> QED BY <2>1, <2>7 DEF longer, after
<1>6. CASE same # {}
  <2> DEFINE changed == [i \in DOMAIN known |->
               IF i \in same THEN [fresh EXCEPT !.created = known[i].created] ELSE known[i]]
  <2>1. Facts!PutIn(known, id, now) = changed
    BY <1>6 DEF Facts!PutIn
  <2>2. ASSUME NEW i \in 1 .. Len(known)
        PROVE  /\ changed[i] \in Fact /\ changed[i].id = known[i].id
               /\ changed[i].text = IF known[i].id = id THEN puts + 1 ELSE known[i].text
    <3>1. known[i].created \in Nat /\ known[i] \in Fact
      BY <1>1 DEF Fact
    <3>2. CASE known[i].id = id
      <4>1. changed[i] = [fresh EXCEPT !.created = known[i].created]
        BY <1>1, <3>2
      <4> QED BY <3>1, <3>2, <4>1 DEF Fact
    <3>3. CASE known[i].id # id
      <4>1. changed[i] = known[i]
        BY <1>1, <3>3
      <4> QED BY <3>1, <3>3, <4>1
    <3> QED BY <3>2, <3>3
  <2>3. changed \in Seq(Fact) /\ DOMAIN changed = 1 .. Len(known)
    <3>1. changed = [i \in 1 .. Len(known) |-> changed[i]]
      BY <1>1
    <3> HIDE DEF changed
    <3> QED BY <1>1, <2>2, <3>1
  <2> HIDE DEF changed, after
  <2>4. \A i \in DOMAIN changed : after[changed[i].id] = changed[i].text
    <3> SUFFICES ASSUME NEW i \in 1 .. Len(known) PROVE after[changed[i].id] = changed[i].text
      BY <2>3
    <3>1. known[i].id \in FactIds
      BY <1>1 DEF Fact
    <3> QED BY <1>2, <1>3, <2>2, <3>1
  <2>5. ASSUME NEW i \in DOMAIN changed, NEW j \in DOMAIN changed, changed[i].id = changed[j].id
        PROVE  i = j
    <3>1. known[i].id = known[j].id
      BY <2>2, <2>3, <2>5
    <3> QED BY <1>2, <2>3, <3>1
  <2>6. ASSUME NEW o \in FactIds, after[o] > 0
        PROVE  \E i \in DOMAIN changed : changed[i].id = o
    <3>1. PICK i \in 1 .. Len(known) : known[i].id = o
      <4>1. CASE o = id
        BY <1>1, <1>6, <4>1
      <4>2. CASE o # id
        <5>1. given[o] > 0
          BY <1>3, <2>6, <4>2
        <5> QED BY <1>2, <5>1
      <4> QED BY <4>1, <4>2
    <3>2. i \in DOMAIN changed /\ changed[i].id = o
      BY <2>2, <2>3, <3>1
    <3> QED BY <3>2
  <2>7. Recalls(changed, after)
    BY <1>3, <2>3, <2>4, <2>5, <2>6 DEF Recalls
  <2> QED BY <2>1, <2>7 DEF after
<1> QED BY <1>5, <1>6

(* What is taken out is forgotten, and the rest is kept.                   *)
LEMMA DeleteRecalls ==
  ASSUME NEW known, NEW given, Recalls(known, given), NEW at \in DOMAIN known
  PROVE  Recalls(RemoveAt(known, at), [given EXCEPT ![known[at].id] = 0])
<1> DEFINE less == RemoveAt(known, at)
           after == [given EXCEPT ![known[at].id] = 0]
           old(i) == IF i < at THEN i ELSE i + 1
<1>1. /\ known \in Seq(Fact) /\ Len(known) \in Nat /\ DOMAIN known = 1 .. Len(known)
      /\ \A i \in 1 .. Len(known) : known[i] \in Fact /\ known[i].id \in FactIds
      /\ at \in 1 .. Len(known)
  <2>1. known \in Seq(Fact)
    BY DEF Recalls
  <2>2. Len(known) \in Nat /\ DOMAIN known = 1 .. Len(known) /\ \A i \in 1 .. Len(known) : known[i] \in Fact
    BY <2>1
  <2>3. \A f \in Fact : f.id \in FactIds
    BY DEF Fact
  <2> QED BY <2>1, <2>2, <2>3
<1>2. /\ \A i \in 1 .. Len(known) : given[known[i].id] = known[i].text
      /\ \A i, j \in 1 .. Len(known) : known[i].id = known[j].id => i = j
      /\ \A o \in FactIds : given[o] > 0 => \E i \in 1 .. Len(known) : known[i].id = o
      /\ given \in [FactIds -> Nat]
  BY <1>1 DEF Recalls
<1>3. /\ after \in [FactIds -> Nat] /\ after[known[at].id] = 0
      /\ \A o \in FactIds \ {known[at].id} : after[o] = given[o]
  BY <1>1, <1>2
<1>4. /\ less \in Seq(Fact) /\ DOMAIN less = 1 .. Len(known) - 1
      /\ \A i \in 1 .. Len(known) - 1 : less[i] = known[old(i)]
  <2> DEFINE front == SubSeq(known, 1, at - 1)
             back == SubSeq(known, at + 1, Len(known))
  <2>1. /\ front \in Seq(Fact) /\ Len(front) = at - 1
        /\ \A i \in 1 .. at - 1 : front[i] = known[i]
    BY <1>1
  <2>2. /\ back \in Seq(Fact) /\ Len(back) = Len(known) - at
        /\ \A i \in 1 .. Len(known) - at : back[i] = known[at + i]
    <3>1. \A i \in at + 1 .. Len(known) : known[i] \in Fact
      BY <1>1
    <3>2. /\ back \in Seq(Fact)
          /\ Len(back) = IF at + 1 <= Len(known) THEN Len(known) - (at + 1) + 1 ELSE 0
          /\ \A i \in 1 .. Len(known) - (at + 1) + 1 : back[i] = known[(at + 1) + i - 1]
      BY <1>1, <3>1, SubSeqProperties
    <3>3. /\ Len(known) - (at + 1) + 1 = Len(known) - at
          /\ at + 1 <= Len(known) \/ Len(known) - at = 0
          /\ \A i \in 1 .. Len(known) - at : (at + 1) + i - 1 = at + i
      BY <1>1
    <3> QED BY <3>2, <3>3
  <2>3. less = front \o back
    BY DEF RemoveAt
  <2> HIDE DEF less, front, back
  <2>4. less \in Seq(Fact) /\ Len(less) = Len(known) - 1 /\ DOMAIN less = 1 .. Len(known) - 1
    <3>1. less \in Seq(Fact) /\ Len(less) = Len(front) + Len(back)
      BY <2>1, <2>2, <2>3, ConcatProperties
    <3>2. Len(front) + Len(back) = Len(known) - 1
      BY <1>1, <2>1, <2>2
    <3> QED BY <3>1, <3>2
  <2>5. ASSUME NEW i \in 1 .. Len(known) - 1
        PROVE  less[i] = known[old(i)]
    <3>1. less[i] = IF i <= Len(front) THEN front[i] ELSE back[i - Len(front)]
      BY <1>1, <2>1, <2>2, <2>3
    <3>2. CASE i < at
      <4>1. i \in 1 .. at - 1 /\ i <= Len(front)
        BY <1>1, <2>1, <3>2
      <4> QED BY <2>1, <3>1, <3>2, <4>1
    <3>3. CASE ~(i < at)
      <4>1. i - Len(front) \in 1 .. Len(known) - at /\ at + (i - Len(front)) = i + 1
        BY <1>1, <2>1, <3>3
      <4>2. less[i] = back[i - Len(front)]
        BY <1>1, <2>1, <3>1, <3>3
      <4> QED BY <2>2, <3>3, <4>1, <4>2
    <3> QED BY <3>2, <3>3
  <2> QED BY <2>4, <2>5
<1>5. /\ \A i \in 1 .. Len(known) - 1 : old(i) \in 1 .. Len(known) /\ old(i) # at
      /\ \A i, j \in 1 .. Len(known) - 1 : old(i) = old(j) => i = j
      /\ \A k \in 1 .. Len(known) : k # at => \E i \in 1 .. Len(known) - 1 : old(i) = k
  <2>1. /\ \A i \in 1 .. Len(known) - 1 : old(i) \in 1 .. Len(known) /\ old(i) # at
        /\ \A i, j \in 1 .. Len(known) - 1 : old(i) = old(j) => i = j
    BY <1>1
  <2>2. ASSUME NEW k \in 1 .. Len(known), k # at
        PROVE  \E i \in 1 .. Len(known) - 1 : old(i) = k
    <3>1. CASE k < at
      BY <1>1, <3>1
    <3>2. CASE k > at
      <4>1. k - 1 \in 1 .. Len(known) - 1 /\ old(k - 1) = k
        BY <1>1, <3>2
      <4> QED BY <4>1
    <3> QED BY <1>1, <2>2, <3>1, <3>2
  <2> QED BY <2>1, <2>2
<1> HIDE DEF less, after, old
<1>6. \A i \in DOMAIN less : after[less[i].id] = less[i].text
  <2> SUFFICES ASSUME NEW i \in 1 .. Len(known) - 1 PROVE after[less[i].id] = less[i].text
    BY <1>4
  <2>1. less[i] = known[old(i)] /\ old(i) \in 1 .. Len(known) /\ old(i) # at
    BY <1>4, <1>5
  <2>2. known[old(i)].id \in FactIds \ {known[at].id}
    BY <1>1, <1>2, <2>1
  <2> QED BY <1>2, <1>3, <2>1, <2>2
<1>7. \A i, j \in DOMAIN less : less[i].id = less[j].id => i = j
  <2> SUFFICES ASSUME NEW i \in 1 .. Len(known) - 1, NEW j \in 1 .. Len(known) - 1, less[i].id = less[j].id
               PROVE  i = j
    BY <1>4
  <2>1. known[old(i)].id = known[old(j)].id /\ old(i) \in 1 .. Len(known) /\ old(j) \in 1 .. Len(known)
    BY <1>4, <1>5
  <2>2. old(i) = old(j)
    BY <1>2, <2>1
  <2> QED BY <1>5, <2>2
<1>8. ASSUME NEW o \in FactIds, after[o] > 0
      PROVE  \E i \in DOMAIN less : less[i].id = o
  <2>1. o # known[at].id /\ given[o] > 0
    BY <1>1, <1>3, <1>8
  <2>2. PICK k \in 1 .. Len(known) : known[k].id = o
    BY <1>2, <2>1
  <2>3. PICK i \in 1 .. Len(known) - 1 : old(i) = k
    BY <1>5, <2>1, <2>2
  <2> QED BY <1>4, <2>2, <2>3
<1>9. Recalls(less, after)
  BY <1>3, <1>4, <1>6, <1>7, <1>8 DEF Recalls
<1> QED BY <1>9 DEF less, after
----------------------------------------------------------------------------
(* The facts of all users.                                                 *)

MemoryInv ==
  /\ clock \in Nat /\ puts \in Nat
  /\ facts \in [UserSet -> Seq(Fact)]
  /\ remembered \in [UserSet -> [FactIds -> Nat]]
  /\ \A u \in UserSet : Recalls(facts[u], remembered[u])

LEMMA MemoryInit == Facts!Init => MemoryInv
<1> SUFFICES ASSUME Facts!Init PROVE MemoryInv
  OBVIOUS
<1>1. /\ clock = 1 /\ puts = 0
      /\ facts = [u \in UserSet |-> <<>>]
      /\ remembered = [u \in UserSet |-> [id \in FactIds |-> 0]]
  BY SameSets DEF Facts!Init, UserSet
<1>2. facts \in [UserSet -> Seq(Fact)] /\ remembered \in [UserSet -> [FactIds -> Nat]]
  BY <1>1
<1>3. Recalls(<<>>, [id \in FactIds |-> 0])
  BY DEF Recalls
<1> QED BY <1>1, <1>2, <1>3 DEF MemoryInv

(* The facts change for one user at a time.                                *)
LEMMA PutKeeps ==
  ASSUME MemoryInv, NEW u \in UserSet, NEW id \in FactIds, Facts!Put(u, id)
  PROVE  MemoryInv'
<1>1. /\ clock' \in Nat /\ puts \in Nat /\ puts' \in Nat
  BY DEF Facts!Put, MemoryInv
<1> DEFINE known == Facts!PutIn(facts[u], id, clock')
           given == [remembered[u] EXCEPT ![id] = puts + 1]
<1>2. Recalls(known, given)
  <2>1. Recalls(facts[u], remembered[u])
    BY DEF MemoryInv
  <2> QED BY <1>1, <2>1, PutRecalls
<1>3. facts' = [facts EXCEPT ![u] = known] /\ remembered' = [remembered EXCEPT ![u] = given]
  BY DEF Facts!Put
<1> HIDE DEF known, given
<1>4. known \in Seq(Fact) /\ given \in [FactIds -> Nat]
  BY <1>2 DEF Recalls
<1> QED BY <1>1, <1>2, <1>3, <1>4 DEF MemoryInv

LEMMA DeleteKeeps ==
  ASSUME MemoryInv, NEW u \in UserSet, NEW id \in FactIds, Facts!Delete(u, id)
  PROVE  MemoryInv'
<1>1. PICK i \in DOMAIN facts[u] : facts[u][i].id = id /\ facts' = [facts EXCEPT ![u] = RemoveAt(@, i)]
  BY DEF Facts!Delete, Facts!RemoveAt, RemoveAt
<1> DEFINE known == RemoveAt(facts[u], i)
           given == [remembered[u] EXCEPT ![id] = 0]
<1>2. Recalls(known, given)
  <2>1. Recalls(facts[u], remembered[u])
    BY DEF MemoryInv
  <2> QED BY <1>1, <2>1, DeleteRecalls
<1>3. facts' = [facts EXCEPT ![u] = known] /\ remembered' = [remembered EXCEPT ![u] = given]
  BY <1>1 DEF Facts!Delete
<1> HIDE DEF known, given
<1>4. known \in Seq(Fact) /\ given \in [FactIds -> Nat]
  BY <1>2 DEF Recalls
<1>5. clock' = clock /\ puts' = puts
  BY DEF Facts!Delete, Facts!RemoveAt, RemoveAt
<1> QED BY <1>2, <1>3, <1>4, <1>5 DEF MemoryInv

LEMMA MemoryStep == MemoryInv /\ [Facts!Next]_(Facts!vars) => MemoryInv'
<1> SUFFICES ASSUME MemoryInv, [Facts!Next]_(Facts!vars) PROVE MemoryInv'
  OBVIOUS
<1>1. CASE UNCHANGED Facts!memory
  BY <1>1 DEF Facts!memory, MemoryInv
<1>2. ASSUME NEW u \in UserSet, NEW id \in FactIds, Facts!Put(u, id) \/ Facts!Delete(u, id)
      PROVE  MemoryInv'
  BY <1>2, PutKeeps, DeleteKeeps
<1>3. UNCHANGED Facts!memory \/ \E u \in UserSet, id \in FactIds : Facts!Put(u, id) \/ Facts!Delete(u, id)
  BY SameSets DEF Facts!Next, Facts!Host, Facts!Harness, Facts!Embedder, UserSet, Facts!vars, Facts!Start, Facts!Cancel, Facts!ListFacts, Facts!Retrieve, Facts!EnsureIndex,
         Facts!EmbeddingCancelled, Facts!DocumentsEmbedded, Facts!QueryEmbedded, Facts!memory
<1> QED BY <1>1, <1>2, <1>3

LEMMA MemoryFacts == MemoryInv => Facts!FactsAreTheLatest
<1> SUFFICES ASSUME MemoryInv, NEW u \in Facts!ToSet(Users)
             PROVE  /\ {<<f.id, f.text>> : f \in Facts!ToSet(facts[u])}
                         = {<<id, remembered[u][id]>> : id \in KeptIds(remembered[u])}
                    /\ Len(facts[u]) = Cardinality(KeptIds(remembered[u]))
  BY DEF Facts!FactsAreTheLatest, KeptIds, Facts!Cardinality, Cardinality
<1>1. Recalls(facts[u], remembered[u])
  BY SameSets DEF MemoryInv, UserSet
<1> QED BY <1>1, RecalledExactly, AsManyAsKept

(* However many users there are and whatever a host gives, gives again and *)
(* forgets, in whatever order: a user's facts are those last given and not *)
(* forgotten, each once, with its latest text (adapters/memory/inmem Put,  *)
(* Delete; FR-027, RN-1).                                                  *)
THEOREM LatestFacts == Facts!Spec => []Facts!FactsAreTheLatest
<1>1. Facts!Init => MemoryInv
  BY MemoryInit
<1>2. MemoryInv /\ [Facts!Next]_(Facts!vars) => MemoryInv'
  BY MemoryStep
<1>3. MemoryInv => Facts!FactsAreTheLatest
  BY MemoryFacts
<1> QED BY <1>1, <1>2, <1>3, PTL DEF Facts!Spec
----------------------------------------------------------------------------
(* The index of the documents.                                             *)

(* The mutex is held exactly while its holder asks the embedder, and only  *)
(* when there is no index; an index that is there covers all documents.    *)
IndexInv ==
  /\ DOMAIN turn = Asking
  /\ \A t \in Asking : "pc" \in DOMAIN turn[t]
  /\ ready => \A u \in UserSet : Len(vectors[u]) = Len(Docs[u])
  /\ \A t \in Asking : Index!At(t, "index") <=> holder = t
  /\ holder # NoTurn => ~ready
  /\ \A t \in Asking : Index!At(t, "query") => ready

(* A step of one turn moves that turn alone.                               *)
Moved(t, place) ==
  /\ DOMAIN turn' = Asking
  /\ \A o \in Asking : "pc" \in DOMAIN turn'[o]
  /\ turn'[t].pc = place
  /\ \A o \in Asking \ {t} : turn'[o].pc = turn[o].pc

LEMMA GoesTo ==
  ASSUME IndexInv, NEW t \in Asking, NEW place, Index!GoTo(t, place)
  PROVE  Moved(t, place)
  BY DEF Index!GoTo, IndexInv, Moved

LEMMA IndexedCovers ==
  ASSUME Index!DocsAssumption, NEW data, NEW u \in UserSet
  PROVE  Len(Index!Indexed(data)[u]) = Len(Docs[u])
<1>1. PICK i \in DOMAIN Users : u = Users[i]
  BY SameSets DEF UserSet, ToSet
<1>2. Docs[u] \in Seq(DOMAIN Similarity)
  BY <1>1 DEF Index!DocsAssumption
<1>3. Len(Docs[u]) \in Nat /\ DOMAIN Docs[u] = 1 .. Len(Docs[u])
  BY <1>2
<1>4. Index!Indexed(data)[u] = [k \in 1 .. Len(Docs[u]) |-> Index!VectorOf(data, Index!Offset(u) + k)]
  BY <1>3, SameSets DEF Index!Indexed, UserSet
<1> QED BY <1>3, <1>4

LEMMA IndexInit == Index!DocsAssumption /\ Index!TurnAssumption /\ Index!Init => IndexInv
<1> SUFFICES ASSUME Index!DocsAssumption, Index!TurnAssumption, Index!Init PROVE IndexInv
  OBVIOUS
<1>1. \A t \in Asking : turn[t].pc = "idle" /\ "pc" \in DOMAIN turn[t]
  BY DEF Index!Init
<1>2. DOMAIN turn = Asking /\ holder = NoTurn
  BY DEF Index!Init
<1>3. PICK data \in Index!Answers :
        ready = Index!Decodes(data) /\ vectors = IF Index!Decodes(data) THEN Index!Indexed(data) ELSE Index!Unindexed
  BY DEF Index!Init
<1>4. ready => \A u \in UserSet : Len(vectors[u]) = Len(Docs[u])
  BY <1>3, IndexedCovers
<1> QED BY <1>1, <1>2, <1>4 DEF IndexInv, Index!At, Index!TurnAssumption

(* A turn that moves between other places takes nothing from the index.    *)
LEMMA MovesAside ==
  ASSUME Index!TurnAssumption, IndexInv, NEW t \in Asking, NEW place, Moved(t, place), UNCHANGED Index!index,
         ~Index!At(t, "index"), place # "index", place = "query" => ready
  PROVE  IndexInv'
  BY DEF IndexInv, Moved, Index!At, Index!index

LEMMA HostKeeps ==
  ASSUME Index!TurnAssumption, IndexInv, Index!Host
  PROVE  IndexInv'
<1>1. CASE \E u \in ToSet(Users), id \in FactIds : Index!Put(u, id) \/ Index!Delete(u, id)
  BY <1>1 DEF Index!Put, Index!Delete, Index!index, IndexInv, Index!At
<1>2. ASSUME NEW t \in Asking, Index!Cancel(t)
      PROVE  IndexInv'
  <2>1. turn' = [turn EXCEPT ![t].cancelled = TRUE] /\ UNCHANGED Index!index
    BY <1>2 DEF Index!Cancel
  <2>2. /\ DOMAIN turn' = Asking
        /\ \A o \in Asking : "pc" \in DOMAIN turn'[o] /\ turn'[o].pc = turn[o].pc
    BY <2>1 DEF IndexInv
  <2> QED BY <2>1, <2>2 DEF IndexInv, Index!At, Index!index
<1>3. ASSUME NEW t \in Asking, NEW asks \in BOOLEAN, Index!Start(t, asks)
      PROVE  IndexInv'
  <2>1. Index!At(t, "idle") /\ UNCHANGED Index!index
        /\ turn' = [turn EXCEPT ![t].pc = "list", ![t].asks = asks]
    BY <1>3 DEF Index!Start
  <2>2. Moved(t, "list")
    BY <2>1 DEF IndexInv, Moved
  <2>3. ~Index!At(t, "index")
    BY <2>1 DEF Index!At
  <2> QED BY <2>1, <2>2, <2>3, MovesAside
<1> QED BY <1>1, <1>2, <1>3, SameSets DEF Index!Host

LEMMA HarnessKeeps ==
  ASSUME Index!TurnAssumption, IndexInv, NEW t \in Asking, Index!Harness(t)
  PROVE  IndexInv'
<1>1. CASE Index!ListFacts(t)
  <2>1. PICK known \in {<<>>, Index!List(UserOf[t])} :
          turn' = [turn EXCEPT ![t].pc = "retrieve", ![t].known = known]
    BY <1>1 DEF Index!ListFacts
  <2>2. Moved(t, "retrieve")
    BY <2>1 DEF IndexInv, Moved
  <2>3. UNCHANGED Index!index /\ ~Index!At(t, "index")
    BY <1>1 DEF Index!ListFacts, Index!At
  <2> QED BY <2>2, <2>3, MovesAside
<1>2. CASE Index!Retrieve(t)
  <2>1. PICK place \in {"lock", "done"} : Index!GoTo(t, place)
    BY <1>2 DEF Index!Retrieve
  <2>2. UNCHANGED Index!index /\ ~Index!At(t, "index")
    BY <1>2 DEF Index!Retrieve, Index!At
  <2> QED BY <2>1, <2>2, GoesTo, MovesAside
<1>3. CASE Index!EnsureIndex(t) /\ ready
  <2>1. Index!GoTo(t, "query") /\ UNCHANGED Index!index /\ ~Index!At(t, "index")
    BY <1>3 DEF Index!EnsureIndex, Index!At, Index!index
  <2> QED BY <1>3, <2>1, GoesTo, MovesAside
<1>4. CASE Index!EnsureIndex(t) /\ ~ready
  <2>1. Index!GoTo(t, "index") /\ holder = NoTurn /\ holder' = t /\ UNCHANGED <<vectors, ready>>
    BY <1>4 DEF Index!EnsureIndex
  <2>2. Moved(t, "index")
    BY <2>1, GoesTo
  <2>3. \A o \in Asking : ~Index!At(o, "index")
    BY <2>1 DEF IndexInv, Index!TurnAssumption
  <2> QED BY <1>4, <2>1, <2>2, <2>3 DEF IndexInv, Moved, Index!At, Index!TurnAssumption
<1>5. CASE Index!EmbeddingCancelled(t)
  <2>1. Moved(t, "done") /\ UNCHANGED <<vectors, ready>>
    BY <1>5, GoesTo DEF Index!EmbeddingCancelled
  <2>2. holder' = IF holder = t THEN NoTurn ELSE holder
    BY <1>5 DEF Index!EmbeddingCancelled, Index!Release
  <2>3. \A o \in Asking : Index!At(o, "index")' <=> holder' = o
    BY <2>1, <2>2 DEF IndexInv, Moved, Index!At, Index!TurnAssumption
  <2> QED BY <2>1, <2>2, <2>3 DEF IndexInv, Moved, Index!At
<1> QED BY <1>1, <1>2, <1>3, <1>4, <1>5 DEF Index!Harness

LEMMA EmbedderKeeps ==
  ASSUME Index!DocsAssumption, Index!TurnAssumption, IndexInv, NEW t \in Asking, Index!Embedder(t)
  PROVE  IndexInv'
<1>1. CASE Index!DocumentsEmbedded(t)
  <2>1. PICK data \in Index!Answers : Index!Fill(t, data) /\ Index!GoTo(t, IF Index!Decodes(data) THEN "query" ELSE "done")
    BY <1>1 DEF Index!DocumentsEmbedded
  <2>2. Index!At(t, "index") /\ holder = t /\ ~ready
    BY <1>1 DEF Index!DocumentsEmbedded, IndexInv, Index!TurnAssumption
  <2>3. holder' = NoTurn
    BY <1>1, <2>2 DEF Index!DocumentsEmbedded, Index!Release
  <2>4. PICK place \in {"query", "done"} : Moved(t, place) /\ (place = "query" => Index!Decodes(data))
    BY <2>1, GoesTo
  <2>5. (ready' <=> Index!Decodes(data)) /\ (Index!Decodes(data) => vectors' = Index!Indexed(data))
    BY <2>1, <2>2 DEF Index!Fill
  <2>6. ready' => \A u \in UserSet : Len(vectors'[u]) = Len(Docs[u])
    BY <2>5, IndexedCovers
  <2>7. \A o \in Asking \ {t} : ~Index!At(o, "query") /\ ~Index!At(o, "index")
    BY <2>2 DEF IndexInv
  <2>8. \A o \in Asking : ~Index!At(o, "index")'
    BY <2>4, <2>7 DEF Moved, Index!At
  <2>9. \A o \in Asking : Index!At(o, "query")' => ready'
    BY <2>4, <2>5, <2>7 DEF Moved, Index!At
  <2>10. DOMAIN turn' = Asking /\ \A o \in Asking : "pc" \in DOMAIN turn'[o]
    BY <2>4 DEF Moved
  <2> QED BY <2>3, <2>6, <2>8, <2>9, <2>10 DEF IndexInv, Index!TurnAssumption
<1>2. CASE Index!QueryEmbedded(t)
  <2>1. PICK items \in {<<>>, Index!Ranked(UserOf[t])} : turn' = [turn EXCEPT ![t].pc = "done", ![t].items = items]
    BY <1>2 DEF Index!QueryEmbedded
  <2>2. Moved(t, "done")
    BY <2>1 DEF IndexInv, Moved
  <2>3. UNCHANGED Index!index /\ ~Index!At(t, "index")
    BY <1>2 DEF Index!QueryEmbedded, Index!At
  <2> QED BY <2>2, <2>3, MovesAside
<1> QED BY <1>1, <1>2 DEF Index!Embedder

LEMMA IndexStep == Index!DocsAssumption /\ Index!TurnAssumption /\ IndexInv /\ [Index!Next]_(Index!vars) => IndexInv'
<1> SUFFICES ASSUME Index!DocsAssumption, Index!TurnAssumption, IndexInv, [Index!Next]_(Index!vars) PROVE IndexInv'
  OBVIOUS
<1>1. CASE UNCHANGED Index!vars
  BY <1>1 DEF Index!vars, Index!index, IndexInv, Index!At
<1> QED BY <1>1, HostKeeps, HarnessKeeps, EmbedderKeeps DEF Index!Next

LEMMA IndexAsked == Index!TurnAssumption /\ IndexInv => Index!IndexedOnce
  BY SameSets DEF IndexInv, Index!IndexedOnce, Index!TurnAssumption, UserSet

(* However many turns need the index at once, and whatever the embedder    *)
(* answers or whose context is cancelled while it is asked: no query is    *)
(* ranked before every document has its vector, one turn at a time asks    *)
(* for the index, and nobody once it is there (adapters/memory/inmem       *)
(* ensureIndex, Retrieve; FR-028).                                         *)
THEOREM AskedOnce == Index!DocsAssumption /\ Index!TurnAssumption => (Index!Spec => []Index!IndexedOnce)
<1> SUFFICES ASSUME Index!DocsAssumption /\ Index!TurnAssumption PROVE Index!Spec => []Index!IndexedOnce
  OBVIOUS
<1>1. Index!Init => IndexInv
  BY IndexInit
<1>2. IndexInv /\ [Index!Next]_(Index!vars) => IndexInv'
  BY IndexStep
<1>3. IndexInv => Index!IndexedOnce
  BY IndexAsked
<1> QED BY <1>1, <1>2, <1>3, PTL DEF Index!Spec
----------------------------------------------------------------------------
(* SessionSnapshot.                                                        *)
----------------------------------------------------------------------------
(* What is written of a session is accepted, and restored as it was.       *)

LEMMA RoundContent ==
  ASSUME NEW c \in Snapshot!Contents
  PROVE  /\ Snapshot!AcceptsContent(Snapshot!SnapshotContent(c))
         /\ Snapshot!RestoreContent(Snapshot!SnapshotContent(c)) = c
<1> DEFINE d == Snapshot!SnapshotContent(c)
<1>1. /\ c = [kind |-> c.kind, text |-> c.text, json |-> c.json]
      /\ c.kind \in {"text", "json"}
      /\ c.json = None \/ c.json.of # "integer"
  BY DEF Snapshot!Contents, Snapshot!RawTexts
<1>2. /\ "kind" \in DOMAIN d /\ d.kind = c.kind
      /\ Snapshot!Value(d, "text", <<>>) = c.text
      /\ Snapshot!Value(d, "json", None) = c.json
  BY DEF Snapshot!SnapshotContent, Snapshot!Document, Snapshot!Value
<1> HIDE DEF d
<1>3. Snapshot!AcceptsContent(d)
  BY <1>1, <1>2 DEF Snapshot!AcceptsContent
<1>4. Snapshot!RestoreContent(d) = c
  BY <1>1, <1>2 DEF Snapshot!RestoreContent, Snapshot!Reread
<1> QED BY <1>3, <1>4 DEF d

LEMMA RoundToolCall ==
  ASSUME NEW c \in Snapshot!ToolCalls
  PROVE  /\ Snapshot!AcceptsToolCall(Snapshot!SnapshotToolCall(c))
         /\ Snapshot!RestoreToolCall(Snapshot!SnapshotToolCall(c)) = c
<1> DEFINE d == Snapshot!SnapshotToolCall(c)
<1>1. /\ c = [id |-> c.id, name |-> c.name, namespace |-> c.namespace, args |-> c.args]
      /\ c.id # "" /\ c.name # ""
      /\ c.args = None \/ c.args.of # "integer"
  BY DEF Snapshot!ToolCalls, Snapshot!RawTexts, Snapshot!Names
<1>2. d = c
  BY <1>1 DEF Snapshot!SnapshotToolCall
<1>3. {"args", "id", "name", "namespace"} \subseteq DOMAIN c
  BY DEF Snapshot!ToolCalls
<1> HIDE DEF d
<1>4. Snapshot!AcceptsToolCall(d)
  BY <1>1, <1>2, <1>3 DEF Snapshot!AcceptsToolCall
<1>5. Snapshot!RestoreToolCall(d) = c
  BY <1>1, <1>2 DEF Snapshot!RestoreToolCall, Snapshot!Reread
<1> QED BY <1>4, <1>5 DEF d

LEMMA RoundMedia ==
  ASSUME NEW m \in Snapshot!Media, \A a, b \in DOMAIN Base64 : Base64[a] = Base64[b] => a = b
  PROVE  /\ Snapshot!AcceptsMedia(Snapshot!SnapshotMedia(m))
         /\ Snapshot!RestoreMedia(Snapshot!SnapshotMedia(m)) = m
<1> DEFINE d == Snapshot!SnapshotMedia(m)
<1>1. /\ m = [mime |-> m.mime, size |-> m.size, name |-> m.name, reference |-> m.reference, bytes |-> m.bytes]
      /\ m.mime # "" /\ m.size >= 0 /\ (m.bytes # "" => m.bytes \in DOMAIN Base64)
  <2>1. m = [mime |-> m.mime, size |-> m.size, name |-> m.name, reference |-> m.reference, bytes |-> m.bytes]
    BY DEF Snapshot!Media
  <2>2. m.mime \in Snapshot!Names /\ m.size \in Nat
    BY DEF Snapshot!Media
  <2>3. m.bytes \in DOMAIN Base64 \cup {""}
    BY DEF Snapshot!Media
  <2>4. m.mime # ""
    BY <2>2 DEF Snapshot!Names
  <2>5. m.size >= 0
    BY <2>2
  <2>6. m.bytes # "" => m.bytes \in DOMAIN Base64
    BY <2>3
  <2> QED BY <2>1, <2>4, <2>5, <2>6
<1>2. /\ {"mime", "size_bytes"} \subseteq DOMAIN d /\ d.mime = m.mime /\ d.size_bytes = m.size
      /\ Snapshot!Value(d, "name", "") = m.name
      /\ Snapshot!Value(d, "reference", "") = m.reference
      /\ "bytes" \in DOMAIN d <=> m.bytes # ""
      /\ m.bytes # "" => d.bytes = Base64[m.bytes]
  BY DEF Snapshot!SnapshotMedia, Snapshot!Document, Snapshot!Value
<1>3. ASSUME m.bytes # "" PROVE Snapshot!Decoded(Base64[m.bytes]) = m.bytes
  BY <1>1, <1>3 DEF Snapshot!Decoded
<1> HIDE DEF d
<1>4. Snapshot!AcceptsMedia(d)
  BY <1>1, <1>2 DEF Snapshot!AcceptsMedia
<1>5. Snapshot!RestoreMedia(d) = m
  BY <1>1, <1>2, <1>3 DEF Snapshot!RestoreMedia
<1> QED BY <1>4, <1>5 DEF d

(* A list is what is made of each of its elements.                         *)
LEMMA RoundToolResult ==
  ASSUME NEW r \in Snapshot!ToolResults
  PROVE  /\ Snapshot!AcceptsToolResult(Snapshot!SnapshotToolResult(r))
         /\ Snapshot!RestoreToolResult(Snapshot!SnapshotToolResult(r)) = r
<1> DEFINE d == Snapshot!SnapshotToolResult(r)
           list == [i \in DOMAIN r.content |-> Snapshot!SnapshotContent(r.content[i])]
<1>1. /\ r = [call_id |-> r.call_id, content |-> r.content, is_error |-> r.is_error, denied |-> r.denied,
              truncated |-> r.truncated]
      /\ r.call_id # "" /\ r.content \in Seq(Snapshot!Contents)
      /\ r.is_error \in BOOLEAN /\ r.denied \in BOOLEAN /\ r.truncated \in BOOLEAN
  BY DEF Snapshot!ToolResults, Snapshot!Names
<1>2. /\ {"call_id", "content"} \subseteq DOMAIN d /\ d.call_id = r.call_id /\ d.content = list
      /\ Snapshot!Value(d, "is_error", FALSE) = r.is_error
      /\ Snapshot!Value(d, "denied", FALSE) = r.denied
      /\ Snapshot!Value(d, "truncated", FALSE) = r.truncated
  BY <1>1 DEF Snapshot!SnapshotToolResult, Snapshot!Document, Snapshot!Value, Snapshot!EachOf
<1> DEFINE content == r.content
<1>3. content \in Seq(Snapshot!Contents) /\ list = [i \in DOMAIN content |-> Snapshot!SnapshotContent(content[i])]
  BY <1>1
<1> HIDE DEF d, list, content
<1>4. /\ DOMAIN list = DOMAIN content
      /\ \A i \in DOMAIN content : Snapshot!AcceptsContent(list[i]) /\ Snapshot!RestoreContent(list[i]) = content[i]
  <2>1. \A i \in DOMAIN content : content[i] \in Snapshot!Contents /\ list[i] = Snapshot!SnapshotContent(content[i])
    BY <1>3
  <2> QED BY <1>3, <2>1, RoundContent
<1>5. Snapshot!AcceptsToolResult(d)
  BY <1>1, <1>2, <1>4 DEF Snapshot!AcceptsToolResult, Snapshot!All
<1>6. [i \in DOMAIN list |-> Snapshot!RestoreContent(list[i])] = content
  BY <1>3, <1>4
<1>7. Snapshot!RestoreToolResult(d) = r
  BY <1>1, <1>2, <1>6 DEF Snapshot!RestoreToolResult, Snapshot!EachOf, content
<1> QED BY <1>5, <1>7 DEF d

LEMMA RoundPart ==
  ASSUME NEW p \in Snapshot!Parts, \A a, b \in DOMAIN Base64 : Base64[a] = Base64[b] => a = b
  PROVE  /\ Snapshot!AcceptsPart(Snapshot!SnapshotPart(p))
         /\ Snapshot!RestorePart(Snapshot!SnapshotPart(p)) = p
<1> DEFINE d == Snapshot!SnapshotPart(p)
<1>1. /\ p = [kind |-> p.kind, text |-> p.text, call |-> p.call, result |-> p.result, media |-> p.media]
      /\ p.kind \in {"text", "tool_call", "tool_result", "image", "document"}
      /\ p.call = None \/ p.call \in Snapshot!ToolCalls
      /\ p.result = None \/ p.result \in Snapshot!ToolResults
      /\ p.media = None \/ p.media \in Snapshot!Media
  BY DEF Snapshot!Parts
<1>2. /\ "kind" \in DOMAIN d /\ d.kind = p.kind
      /\ Snapshot!Value(d, "text", "") = p.text
      /\ "call" \in DOMAIN d <=> p.call # None
      /\ "result" \in DOMAIN d <=> p.result # None
      /\ "media" \in DOMAIN d <=> p.media # None
      /\ p.call # None => d.call = Snapshot!SnapshotToolCall(p.call)
      /\ p.result # None => d.result = Snapshot!SnapshotToolResult(p.result)
      /\ p.media # None => d.media = Snapshot!SnapshotMedia(p.media)
  BY DEF Snapshot!SnapshotPart, Snapshot!Document, Snapshot!Value, Snapshot!Pointer
<1> HIDE DEF d
<1>3. Snapshot!AcceptsPart(d)
  BY <1>1, <1>2, RoundToolCall, RoundToolResult, RoundMedia DEF Snapshot!AcceptsPart, Snapshot!Holds
<1>4. Snapshot!RestorePart(d) = p
  BY <1>1, <1>2, RoundToolCall, RoundToolResult, RoundMedia DEF Snapshot!RestorePart, Snapshot!Restored
<1> QED BY <1>3, <1>4 DEF d

Injective == \A a, b \in DOMAIN Base64 : Base64[a] = Base64[b] => a = b

Messages ==
  [id : Snapshot!Names, role : {"system", "user", "assistant", "tool"}, parts : Seq(Snapshot!Parts) \ {<<>>}]
PendingCalls ==
  [call_id : Snapshot!Names, tool : Snapshot!Names, args : {"a"}, idempotent : BOOLEAN]
Checkpoints ==
  [turn : {"t"}, status : {"running", "awaiting_confirmation", "completed"}, step : Nat,
   call : PendingCalls \cup {None}]
Confirmations == [call_id : Snapshot!Names, tool : Snapshot!Names, args : {"a"}, reason : {""}]
SavedSessions ==
  [id : {"s"}, user : {"u"}, agent : {""}, model : {"m"}, state : Snapshot!SessionStates,
   messages : Seq(Messages), pending : Confirmations \cup {None}, usage : Snapshot!Usages,
   checkpoint : Checkpoints \cup {None}, parent : {Parent}]

LEMMA RoundMessage ==
  ASSUME NEW m \in Messages, Injective
  PROVE  /\ Snapshot!AcceptsMessage(Snapshot!SnapshotMessage(m))
         /\ Snapshot!RestoreMessage(Snapshot!SnapshotMessage(m)) = m
<1> DEFINE d == Snapshot!SnapshotMessage(m)
           parts == m.parts
           list == [i \in DOMAIN parts |-> Snapshot!SnapshotPart(parts[i])]
<1>1. m = [id |-> m.id, role |-> m.role, parts |-> parts]
  BY DEF Messages
<1>2. m.id # "" /\ m.role \in {"system", "user", "assistant", "tool"}
  BY DEF Messages, Snapshot!Names
<1>3. d = [id |-> m.id, role |-> m.role, parts |-> list]
  BY DEF Snapshot!SnapshotMessage, Snapshot!EachOf
<1>4. /\ parts \in Seq(Snapshot!Parts) /\ parts # <<>>
      /\ list = [i \in DOMAIN parts |-> Snapshot!SnapshotPart(parts[i])]
  BY DEF Messages
<1> HIDE DEF d, list, parts
<1>5. /\ DOMAIN list = DOMAIN parts /\ Len(list) >= 1
      /\ \A i \in DOMAIN parts : Snapshot!AcceptsPart(list[i]) /\ Snapshot!RestorePart(list[i]) = parts[i]
  <2>1. \A i \in DOMAIN parts : parts[i] \in Snapshot!Parts /\ list[i] = Snapshot!SnapshotPart(parts[i])
    BY <1>4
  <2>2. \A i \in DOMAIN parts : Snapshot!AcceptsPart(list[i]) /\ Snapshot!RestorePart(list[i]) = parts[i]
    BY <2>1, RoundPart DEF Injective
  <2>3. DOMAIN list = 1 .. Len(parts) /\ Len(parts) \in Nat \ {0}
    BY <1>4
  <2>4. Len(list) = Len(parts)
    BY <1>4, <2>3
  <2> QED BY <1>4, <2>2, <2>3, <2>4
<1>6. Snapshot!AcceptsMessage(d)
  BY <1>2, <1>3, <1>5 DEF Snapshot!AcceptsMessage, Snapshot!All
<1>7. [i \in DOMAIN list |-> Snapshot!RestorePart(list[i])] = parts
  BY <1>4, <1>5
<1>8. Snapshot!RestoreMessage(d) = m
  BY <1>1, <1>3, <1>7 DEF Snapshot!RestoreMessage, Snapshot!EachOf
<1> QED BY <1>6, <1>8 DEF d

LEMMA RoundPendingCall ==
  ASSUME NEW c \in PendingCalls
  PROVE  /\ Snapshot!AcceptsPendingCall(Snapshot!SnapshotPendingCall(c))
         /\ Snapshot!RestorePendingCall(Snapshot!SnapshotPendingCall(c)) = c
<1> DEFINE d == Snapshot!SnapshotPendingCall(c)
<1>1. /\ c = [call_id |-> c.call_id, tool |-> c.tool, args |-> c.args, idempotent |-> c.idempotent]
      /\ c.call_id # "" /\ c.tool # "" /\ c.idempotent \in BOOLEAN
  BY DEF PendingCalls, Snapshot!Names
<1>2. /\ {"call_id", "tool"} \subseteq DOMAIN d /\ d.call_id = c.call_id /\ d.tool = c.tool
      /\ Snapshot!Value(d, "args_redacted", "") = c.args
      /\ Snapshot!Value(d, "idempotent", FALSE) = c.idempotent
  BY <1>1 DEF Snapshot!SnapshotPendingCall, Snapshot!Document, Snapshot!Value
<1> HIDE DEF d
<1>3. Snapshot!AcceptsPendingCall(d)
  BY <1>1, <1>2 DEF Snapshot!AcceptsPendingCall
<1>4. Snapshot!RestorePendingCall(d) = c
  BY <1>1, <1>2 DEF Snapshot!RestorePendingCall
<1> QED BY <1>3, <1>4 DEF d

LEMMA RoundCheckpoint ==
  ASSUME NEW c \in Checkpoints
  PROVE  /\ Snapshot!AcceptsCheckpoint(Snapshot!SnapshotCheckpoint(c))
         /\ Snapshot!RestoreCheckpoint(Snapshot!SnapshotCheckpoint(c)) = c
<1> DEFINE d == Snapshot!SnapshotCheckpoint(c)
<1>1. /\ c = [turn |-> c.turn, status |-> c.status, step |-> c.step, call |-> c.call]
      /\ c.turn # "" /\ c.status \in {"running", "awaiting_confirmation", "completed"} /\ c.step >= 0
      /\ c.call = None \/ c.call \in PendingCalls
  <2>1. c = [turn |-> c.turn, status |-> c.status, step |-> c.step, call |-> c.call]
    BY DEF Checkpoints
  <2>2. c.turn # "" /\ c.status \in {"running", "awaiting_confirmation", "completed"}
    BY DEF Checkpoints
  <2>3. c.step >= 0
    BY DEF Checkpoints
  <2>4. c.call = None \/ c.call \in PendingCalls
    BY DEF Checkpoints
  <2> QED BY <2>1, <2>2, <2>3, <2>4
<1>2. /\ {"status", "step", "turn_id"} \subseteq DOMAIN d
      /\ d.turn_id = c.turn /\ d.status = c.status /\ d.step = c.step
      /\ "pending_call" \in DOMAIN d <=> c.call # None
      /\ c.call # None => d.pending_call = Snapshot!SnapshotPendingCall(c.call)
  BY DEF Snapshot!SnapshotCheckpoint, Snapshot!Document, Snapshot!Pointer
<1> HIDE DEF d
<1>3. Snapshot!AcceptsCheckpoint(d)
  BY <1>1, <1>2, RoundPendingCall DEF Snapshot!AcceptsCheckpoint, Snapshot!Holds
<1>4. Snapshot!RestoreCheckpoint(d) = c
  BY <1>1, <1>2, RoundPendingCall DEF Snapshot!RestoreCheckpoint, Snapshot!Restored
<1> QED BY <1>3, <1>4 DEF d

LEMMA RoundPending ==
  ASSUME NEW p \in Confirmations
  PROVE  /\ Snapshot!AcceptsPending(Snapshot!SnapshotPending(p))
         /\ Snapshot!RestorePending(Snapshot!SnapshotPending(p)) = p
BY DEF Confirmations, Snapshot!Names, Snapshot!AcceptsPending, Snapshot!SnapshotPending, Snapshot!RestorePending

(* A document of a usage, with its optional fields or without.             *)
RequiredUsage == {"estimated", "input_tokens", "output_tokens"}
OptionalUsage == {"cost_micros", "currency", "cached_input_tokens", "cache_write_tokens"}

UsageDocument(d, u) ==
  /\ RequiredUsage \subseteq DOMAIN d
  /\ d.input_tokens = u.input /\ d.output_tokens = u.output /\ d.estimated = u.estimated
  /\ "cost_micros" \in DOMAIN d => d["cost_micros"] = u.cost
  /\ "cached_input_tokens" \in DOMAIN d => d["cached_input_tokens"] = u.cached
  /\ "cache_write_tokens" \in DOMAIN d => d["cache_write_tokens"] = u.written
  /\ "currency" \in DOMAIN d => u.currency # "" /\ d["currency"] = u.currency

LEMMA UsageComesBack ==
  ASSUME NEW u \in Snapshot!Usages, NEW d, UsageDocument(d, u)
  PROVE  /\ Snapshot!AcceptsUsage(d)
         /\ Snapshot!RestoreUsage(d) =
              [input |-> u.input, output |-> u.output, estimated |-> u.estimated,
               cost |-> IF "cost_micros" \in DOMAIN d THEN u.cost ELSE 0,
               currency |-> IF "currency" \in DOMAIN d THEN u.currency ELSE "",
               cached |-> IF "cached_input_tokens" \in DOMAIN d THEN u.cached ELSE 0,
               written |-> IF "cache_write_tokens" \in DOMAIN d THEN u.written ELSE 0]
<1>1. u.input \in Nat /\ u.output \in Nat /\ u.cost \in Nat /\ u.cached \in Nat /\ u.written \in Nat
  BY DEF Snapshot!Usages
<1>2. u.currency = "" \/ Len(u.currency) = 3
  BY DEF Snapshot!Usages
<1>3. Snapshot!AcceptsUsage(d)
  <2>1. u.input >= 0 /\ u.output >= 0 /\ u.cost >= 0 /\ u.cached >= 0 /\ u.written >= 0
    BY <1>1
  <2>2. /\ "cost_micros" \in DOMAIN d => d["cost_micros"] >= 0
        /\ "cached_input_tokens" \in DOMAIN d => d["cached_input_tokens"] >= 0
        /\ "cache_write_tokens" \in DOMAIN d => d["cache_write_tokens"] >= 0
    BY <2>1 DEF UsageDocument
  <2>3. \A name \in {"cache_write_tokens", "cached_input_tokens", "cost_micros"} :
          name \in DOMAIN d => d[name] >= 0
    BY <2>2
  <2>4. "currency" \in DOMAIN d => Len(d["currency"]) = 3
    BY <1>2 DEF UsageDocument
  <2>5. d.input_tokens >= 0 /\ d.output_tokens >= 0
    BY <2>1 DEF UsageDocument
  <2>6. RequiredUsage \subseteq DOMAIN d
    BY DEF UsageDocument
  <2> QED BY <2>3, <2>4, <2>5, <2>6 DEF Snapshot!AcceptsUsage, Snapshot!Holds, Snapshot!AtLeast0, RequiredUsage
<1>4. /\ Snapshot!Value(d, "cost_micros", 0) = IF "cost_micros" \in DOMAIN d THEN u.cost ELSE 0
      /\ Snapshot!Value(d, "currency", "") = IF "currency" \in DOMAIN d THEN u.currency ELSE ""
      /\ Snapshot!Value(d, "cached_input_tokens", 0) = IF "cached_input_tokens" \in DOMAIN d THEN u.cached ELSE 0
      /\ Snapshot!Value(d, "cache_write_tokens", 0) = IF "cache_write_tokens" \in DOMAIN d THEN u.written ELSE 0
  BY DEF Snapshot!Value, UsageDocument
<1>5. d.input_tokens = u.input /\ d.output_tokens = u.output /\ d.estimated = u.estimated
  BY DEF UsageDocument
<1> QED BY <1>3, <1>4, <1>5 DEF Snapshot!RestoreUsage

(* What was cached and written is part of the input, which fits.           *)
LEMMA UsageSavedAs ==
  ASSUME NEW u \in Snapshot!Usages, MaxCounter \in Nat, u.input <= MaxCounter
  PROVE  LET d == Snapshot!SnapshotUsage(u)
         IN  /\ UsageDocument(d, u) /\ DOMAIN d \subseteq RequiredUsage \cup OptionalUsage
             /\ "cost_micros" \in DOMAIN d <=> u.cost # 0
             /\ "cached_input_tokens" \in DOMAIN d <=> u.cached # 0
             /\ "cache_write_tokens" \in DOMAIN d <=> u.written # 0
             /\ "currency" \in DOMAIN d <=> u.currency # ""
<1> DEFINE d == Snapshot!SnapshotUsage(u)
<1>1. /\ u.input \in Nat /\ u.cached \in Nat /\ u.written \in Nat
      /\ u.cached <= u.input /\ u.written <= u.input
  BY DEF Snapshot!Usages
<1>2. Snapshot!Shorter(u.cached, MaxCounter) = u.cached /\ Snapshot!Shorter(u.written, MaxCounter) = u.written
  BY <1>1 DEF Snapshot!Shorter
<1>3. /\ DOMAIN d \subseteq RequiredUsage \cup OptionalUsage /\ RequiredUsage \subseteq DOMAIN d
      /\ d.input_tokens = u.input /\ d.output_tokens = u.output /\ d.estimated = u.estimated
      /\ "cost_micros" \in DOMAIN d <=> u.cost # 0
      /\ "cached_input_tokens" \in DOMAIN d <=> ~(u.cached <= 0)
      /\ "cache_write_tokens" \in DOMAIN d <=> ~(u.written <= 0)
      /\ "currency" \in DOMAIN d <=> u.currency # ""
      /\ u.cost # 0 => d["cost_micros"] = u.cost
      /\ ~(u.cached <= 0) => d["cached_input_tokens"] = u.cached
      /\ ~(u.written <= 0) => d["cache_write_tokens"] = u.written
      /\ u.currency # "" => d["currency"] = u.currency
  BY <1>2 DEF Snapshot!SnapshotUsage, Snapshot!Document, RequiredUsage, OptionalUsage
<1> HIDE DEF d
<1>4. (u.cached <= 0 <=> u.cached = 0) /\ (u.written <= 0 <=> u.written = 0)
  BY <1>1
<1>5. UsageDocument(d, u)
  BY <1>3 DEF UsageDocument
<1> QED BY <1>3, <1>4, <1>5 DEF d

LEMMA RoundUsage ==
  ASSUME NEW u \in Snapshot!Usages, MaxCounter \in Nat, u.input <= MaxCounter
  PROVE  /\ Snapshot!AcceptsUsage(Snapshot!SnapshotUsage(u))
         /\ Snapshot!RestoreUsage(Snapshot!SnapshotUsage(u)) = u
<1> DEFINE d == Snapshot!SnapshotUsage(u)
<1>1. /\ UsageDocument(d, u)
      /\ "cost_micros" \in DOMAIN d <=> u.cost # 0
      /\ "cached_input_tokens" \in DOMAIN d <=> u.cached # 0
      /\ "cache_write_tokens" \in DOMAIN d <=> u.written # 0
      /\ "currency" \in DOMAIN d <=> u.currency # ""
  BY UsageSavedAs
<1> HIDE DEF d
<1>2. /\ u.cost = IF "cost_micros" \in DOMAIN d THEN u.cost ELSE 0
      /\ u.currency = IF "currency" \in DOMAIN d THEN u.currency ELSE ""
      /\ u.cached = IF "cached_input_tokens" \in DOMAIN d THEN u.cached ELSE 0
      /\ u.written = IF "cache_write_tokens" \in DOMAIN d THEN u.written ELSE 0
  BY <1>1
<1>3. u = [input |-> u.input, output |-> u.output, estimated |-> u.estimated, cost |-> u.cost,
           currency |-> u.currency, cached |-> u.cached, written |-> u.written]
  BY DEF Snapshot!Usages
<1>4. /\ Snapshot!AcceptsUsage(d)
      /\ Snapshot!RestoreUsage(d) =
           [input |-> u.input, output |-> u.output, estimated |-> u.estimated,
            cost |-> IF "cost_micros" \in DOMAIN d THEN u.cost ELSE 0,
            currency |-> IF "currency" \in DOMAIN d THEN u.currency ELSE "",
            cached |-> IF "cached_input_tokens" \in DOMAIN d THEN u.cached ELSE 0,
            written |-> IF "cache_write_tokens" \in DOMAIN d THEN u.written ELSE 0]
  BY <1>1, UsageComesBack
<1> QED BY <1>2, <1>3, <1>4, Zenon DEF d

Required == {"agent_id", "id", "messages", "model", "state", "usage", "user_id"}

(* A document of a session, with its optional fields or without.           *)
DocumentOf(d, s) ==
  /\ Required \subseteq DOMAIN d
  /\ d.id = s.id /\ d.user_id = s.user /\ d.agent_id = s.agent /\ d.model = s.model /\ d.state = s.state
  /\ d.messages = [i \in DOMAIN s.messages |-> Snapshot!SnapshotMessage(s.messages[i])]
  /\ "pending" \in DOMAIN d => s.pending # None /\ d.pending = Snapshot!SnapshotPending(s.pending)
  /\ "checkpoint" \in DOMAIN d => s.checkpoint # None /\ d.checkpoint = Snapshot!SnapshotCheckpoint(s.checkpoint)
  /\ "parent_session_id" \in DOMAIN d => d.parent_session_id = s.parent

LEMMA MessagesComeBack ==
  ASSUME NEW messages_ \in Seq(Messages), Injective,
         NEW list, list = [i \in DOMAIN messages_ |-> Snapshot!SnapshotMessage(messages_[i])]
  PROVE  /\ \A i \in DOMAIN list : Snapshot!AcceptsMessage(list[i])
         /\ [i \in DOMAIN list |-> Snapshot!RestoreMessage(list[i])] = messages_
<1>1. \A i \in DOMAIN messages_ : messages_[i] \in Messages /\ list[i] = Snapshot!SnapshotMessage(messages_[i])
  OBVIOUS
<1>2. \A i \in DOMAIN messages_ : Snapshot!AcceptsMessage(list[i]) /\ Snapshot!RestoreMessage(list[i]) = messages_[i]
  BY <1>1, RoundMessage
<1>3. DOMAIN list = DOMAIN messages_
  OBVIOUS
<1> QED BY <1>2, <1>3

LEMMA RoundSession ==
  ASSUME NEW s \in SavedSessions, Injective, NEW d, DocumentOf(d, s), Snapshot!AcceptsUsage(d.usage)
  PROVE  /\ Snapshot!AcceptsSession(d)
         /\ Snapshot!RestoreSession(d) =
              [id |-> s.id, user |-> s.user, agent |-> s.agent, model |-> s.model, state |-> s.state,
               messages |-> s.messages, pending |-> IF "pending" \in DOMAIN d THEN s.pending ELSE None,
               usage |-> Snapshot!RestoreUsage(d.usage),
               checkpoint |-> IF "checkpoint" \in DOMAIN d THEN s.checkpoint ELSE None,
               parent |-> IF "parent_session_id" \in DOMAIN d THEN s.parent ELSE ""]
<1>1. /\ s.id # "" /\ s.user # "" /\ s.state \in Snapshot!SessionStates
      /\ s.messages \in Seq(Messages)
      /\ s.pending = None \/ s.pending \in Confirmations
      /\ s.checkpoint = None \/ s.checkpoint \in Checkpoints
  <2>1. s.id # "" /\ s.user # ""
    BY DEF SavedSessions
  <2>2. s.state \in Snapshot!SessionStates /\ s.messages \in Seq(Messages)
    BY DEF SavedSessions
  <2>3. s.pending = None \/ s.pending \in Confirmations
    BY DEF SavedSessions
  <2>4. s.checkpoint = None \/ s.checkpoint \in Checkpoints
    BY DEF SavedSessions
  <2> QED BY <2>1, <2>2, <2>3, <2>4
<1>2. /\ \A i \in DOMAIN d.messages : Snapshot!AcceptsMessage(d.messages[i])
      /\ [i \in DOMAIN d.messages |-> Snapshot!RestoreMessage(d.messages[i])] = s.messages
  BY <1>1, MessagesComeBack DEF DocumentOf
<1>3. Snapshot!Holds(d, Snapshot!AcceptsPending, "pending")
  <2> SUFFICES ASSUME "pending" \in DOMAIN d PROVE Snapshot!AcceptsPending(d["pending"])
    BY DEF Snapshot!Holds
  <2> QED BY <1>1, RoundPending DEF DocumentOf
<1>4. Snapshot!Holds(d, Snapshot!AcceptsCheckpoint, "checkpoint")
  <2> SUFFICES ASSUME "checkpoint" \in DOMAIN d PROVE Snapshot!AcceptsCheckpoint(d["checkpoint"])
    BY DEF Snapshot!Holds
  <2> QED BY <1>1, RoundCheckpoint DEF DocumentOf
<1>5. Snapshot!All(Snapshot!AcceptsMessage, d.messages)
  BY <1>2 DEF Snapshot!All
<1>6. Snapshot!AcceptsSession(d)
  BY <1>1, <1>3, <1>4, <1>5 DEF Snapshot!AcceptsSession, DocumentOf, Required
<1>7. Snapshot!Restored(d, Snapshot!RestorePending, "pending") = IF "pending" \in DOMAIN d THEN s.pending ELSE None
  BY <1>1, RoundPending DEF Snapshot!Restored, DocumentOf
<1>8. Snapshot!Restored(d, Snapshot!RestoreCheckpoint, "checkpoint")
        = IF "checkpoint" \in DOMAIN d THEN s.checkpoint ELSE None
  BY <1>1, RoundCheckpoint DEF Snapshot!Restored, DocumentOf
<1>9. Snapshot!Value(d, "parent_session_id", "") = IF "parent_session_id" \in DOMAIN d THEN s.parent ELSE ""
  BY DEF Snapshot!Value, DocumentOf
<1>10. Snapshot!EachOf(Snapshot!RestoreMessage, d.messages) = s.messages
  BY <1>2 DEF Snapshot!EachOf
<1>11. Snapshot!RestoreSession(d) =
         [id |-> s.id, user |-> s.user, agent |-> s.agent, model |-> s.model, state |-> s.state,
          messages |-> s.messages, pending |-> IF "pending" \in DOMAIN d THEN s.pending ELSE None,
          usage |-> Snapshot!RestoreUsage(d.usage),
          checkpoint |-> IF "checkpoint" \in DOMAIN d THEN s.checkpoint ELSE None,
          parent |-> IF "parent_session_id" \in DOMAIN d THEN s.parent ELSE ""]
  BY <1>7, <1>8, <1>9, <1>10 DEF Snapshot!RestoreSession, DocumentOf
<1> QED BY <1>6, <1>11, Zenon

LEMMA SavedAs ==
  ASSUME NEW s \in SavedSessions
  PROVE  LET d == Snapshot!SnapshotSession(s)
         IN  /\ DocumentOf(d, s) /\ d.usage = Snapshot!SnapshotUsage(s.usage)
             /\ DOMAIN d \subseteq Required \cup {"pending", "checkpoint", "parent_session_id"}
             /\ "pending" \in DOMAIN d <=> s.pending # None
             /\ "checkpoint" \in DOMAIN d <=> s.checkpoint # None
             /\ "parent_session_id" \in DOMAIN d <=> s.parent # ""
BY DEF SavedSessions, DocumentOf, Required, Snapshot!SnapshotSession, Snapshot!Document, Snapshot!Pointer,
       Snapshot!EachOf

(* What is within the cap.                                                 *)

LEMMA SizesAreNumbers ==
  ASSUME NEW c \in Snapshot!Contents
  PROVE  Snapshot!SizeOf(c) \in Nat
<1>1. c.text \in Seq(Nat)
  BY DEF Snapshot!Contents
<1>2. c.json = None \/ c.json \in Snapshot!RawTexts
  BY DEF Snapshot!Contents
<1>3. Snapshot!RawLen(c.json) \in Nat
  BY <1>2 DEF Snapshot!RawLen, Snapshot!RawTexts
<1>4. Len(c.text) \in Nat
  BY <1>1
<1> QED BY <1>3, <1>4 DEF Snapshot!SizeOf

LEMMA UpToAdds ==
  ASSUME NEW list \in Seq(Snapshot!Contents), NEW k \in 0 .. Len(list)
  PROVE  /\ Snapshot!UpTo(list, k) \in Nat
         /\ Snapshot!UpTo(list, 0) = 0
         /\ k < Len(list) => Snapshot!UpTo(list, k + 1) = Snapshot!UpTo(list, k) + Snapshot!SizeOf(list[k + 1])
<1> DEFINE g == Snapshot!SizesOf(list)
<1>1. \A i \in 1 .. Len(list) : g[i] = Snapshot!SizeOf(list[i]) /\ g[i] \in Nat
  BY SizesAreNumbers DEF Snapshot!SizesOf
<1>2. \A n : Snapshot!UpTo(list, n) = SumOf(g, 1 .. n)
  BY DEF Snapshot!UpTo, Snapshot!MapThenSumSet, Snapshot!MapThenFoldSet, SumOf, MapThenSumSet, MapThenFoldSet
<1> HIDE DEF g
<1>3. k \in Nat /\ Len(list) \in Nat /\ \A n \in Nat : IsFiniteSet(1 .. n)
  BY FS_Interval
<1>4. SumOf(g, 1 .. k) \in Nat
  BY <1>1, <1>3, SumNatural
<1>5. SumOf(g, {}) = 0
  BY SumOfNothing, FS_EmptySet
<1>6. 1 .. 0 = {}
  OBVIOUS
<1>7. ASSUME k < Len(list)
      PROVE  Snapshot!UpTo(list, k + 1) = Snapshot!UpTo(list, k) + Snapshot!SizeOf(list[k + 1])
  <2>1. k + 1 \in 1 .. k + 1 /\ IsFiniteSet(1 .. k + 1) /\ \A i \in 1 .. k + 1 : g[i] \in Nat
    BY <1>1, <1>3, <1>7
  <2>2. SumOf(g, 1 .. k + 1) = g[k + 1] + SumOf(g, (1 .. k + 1) \ {k + 1})
    BY <2>1, SumTakes
  <2>3. (1 .. k + 1) \ {k + 1} = 1 .. k
    BY <1>3
  <2>4. SumOf(g, 1 .. k + 1) = g[k + 1] + SumOf(g, 1 .. k)
    BY <2>2, <2>3
  <2>5. g[k + 1] = Snapshot!SizeOf(list[k + 1]) /\ g[k + 1] \in Nat
    BY <1>1, <1>3, <1>7
  <2> DEFINE a == SumOf(g, 1 .. k)
             b == g[k + 1]
  <2>6. a \in Nat /\ b \in Nat
    BY <1>4, <2>5
  <2> HIDE DEF a, b
  <2>7. b + a = a + b
    BY <2>6
  <2> QED BY <1>2, <2>4, <2>5, <2>7 DEF a, b
<1> QED BY <1>2, <1>4, <1>5, <1>6, <1>7

LEMMA UpToSame ==
  ASSUME NEW list \in Seq(Snapshot!Contents), NEW other \in Seq(Snapshot!Contents),
         NEW k \in 0 .. Len(list), k <= Len(other), \A i \in 1 .. k : list[i] = other[i]
  PROVE  Snapshot!UpTo(list, k) = Snapshot!UpTo(other, k)
<1> DEFINE g == Snapshot!SizesOf(list)
           h == Snapshot!SizesOf(other)
<1>1. \A i \in 1 .. k : g[i] = h[i]
  BY DEF Snapshot!SizesOf
<1>2. Snapshot!UpTo(list, k) = SumOf(g, 1 .. k) /\ Snapshot!UpTo(other, k) = SumOf(h, 1 .. k)
  BY DEF Snapshot!UpTo, Snapshot!MapThenSumSet, Snapshot!MapThenFoldSet, SumOf, MapThenSumSet, MapThenFoldSet
<1> HIDE DEF g, h
<1>3. IsFiniteSet(1 .. k)
  <2>1. k \in Int /\ 1 \in Int
    OBVIOUS
  <2> QED BY <2>1, FS_Interval
<1>4. SumOf(g, 1 .. k) = SumOf(h, 1 .. k)
  BY <1>1, <1>3, SumSame
<1> QED BY <1>2, <1>4

LEMMA CutFits ==
  ASSUME NEW c \in Snapshot!Contents, NEW n \in Nat, n > 0
  PROVE  Snapshot!Cut(c, n) \in Snapshot!Contents /\ Snapshot!SizeOf(Snapshot!Cut(c, n)) <= n
<1>1. c.kind \in {"text", "json"} /\ c.text \in Seq(Nat)
  BY DEF Snapshot!Contents
<1>2. c.json = None \/ c.json \in Snapshot!RawTexts
  BY DEF Snapshot!Contents
<1> DEFINE d == Snapshot!Cut(c, n)
<1>3. CASE c.kind = "json"
  <2> DEFINE j == IF Snapshot!RawLen(c.json) = 0 THEN None ELSE [c.json EXCEPT !.len = Snapshot!Shorter(n, @)]
  <2>1. d = [kind |-> "json", text |-> <<>>, json |-> j]
    BY <1>3 DEF Snapshot!Cut
  <2>2. (j = None \/ j \in Snapshot!RawTexts) /\ Snapshot!RawLen(j) \in Nat /\ Snapshot!RawLen(j) <= n
    <3>1. CASE j = None
      BY <3>1 DEF Snapshot!RawLen
    <3>2. CASE j # None
      <4>1. c.json \in Snapshot!RawTexts
        BY <1>2, <3>2 DEF Snapshot!RawLen
      <4>2. j = [c.json EXCEPT !.len = Snapshot!Shorter(n, c.json.len)]
        BY <3>2
      <4>3. c.json.len \in Nat
        BY <4>1 DEF Snapshot!RawTexts
      <4>4. Snapshot!Shorter(n, c.json.len) \in Nat /\ Snapshot!Shorter(n, c.json.len) <= n
        BY <4>3 DEF Snapshot!Shorter
      <4>5. j \in Snapshot!RawTexts /\ j.len = Snapshot!Shorter(n, c.json.len)
        BY <4>1, <4>2, <4>4 DEF Snapshot!RawTexts
      <4> QED BY <3>2, <4>4, <4>5 DEF Snapshot!RawLen
    <3> QED BY <3>1, <3>2
  <2> HIDE DEF j, d
  <2>3. d.kind = "json" /\ d.text = <<>> /\ d.json = j
    BY <2>1
  <2>4. d \in Snapshot!Contents
    BY <2>1, <2>2 DEF Snapshot!Contents
  <2>5. Snapshot!SizeOf(d) = 0 + Snapshot!RawLen(j)
    BY <2>3 DEF Snapshot!SizeOf
  <2> QED BY <2>2, <2>4, <2>5 DEF d
<1>4. CASE c.kind = "text"
  <2> DEFINE m == Snapshot!Shorter(n, Len(c.text))
             t == SubSeq(c.text, 1, m)
  <2>1. d = [kind |-> c.kind, text |-> t, json |-> None]
    BY <1>4 DEF Snapshot!Cut
  <2>2. m \in 0 .. Len(c.text) /\ m <= n
    BY <1>1 DEF Snapshot!Shorter
  <2> HIDE DEF m
  <2>3. t \in Seq(Nat) /\ Len(t) = m
    BY <1>1, <2>2
  <2> HIDE DEF t, d
  <2>4. d \in Snapshot!Contents
    BY <1>1, <2>1, <2>3 DEF Snapshot!Contents
  <2>5. d.text = t /\ d.json = None
    BY <2>1
  <2>6. Snapshot!SizeOf(d) = m + 0
    BY <2>3, <2>5 DEF Snapshot!SizeOf, Snapshot!RawLen
  <2> QED BY <2>2, <2>4, <2>6 DEF d
<1> QED BY <1>1, <1>3, <1>4

(* A result after the cap: what it was, or marked as cut and within.       *)
LEMMA Truncated ==
  ASSUME NEW r \in Snapshot!ToolResults, MaxBytes \in Nat
  PROVE  LET t == Snapshot!TruncateToolResult(r)
             fits == Snapshot!UpTo(t.content, Len(t.content)) <= MaxBytes
         IN  /\ t \in Snapshot!ToolResults
             /\ ~r.truncated /\ MaxBytes > 0 => fits /\ (t.truncated \/ t.content = r.content)
<1> DEFINE list == r.content
           Fits(k) == /\ Snapshot!UpTo(list, k) <= MaxBytes
                      /\ k < Len(list) => Snapshot!UpTo(list, k + 1) > MaxBytes
           whole == CHOOSE k \in 0 .. Len(list) : Fits(k)
           remaining == MaxBytes - Snapshot!UpTo(list, whole)
           more == IF remaining > 0 THEN <<Snapshot!Cut(list[whole + 1], remaining)>> ELSE <<>>
           cut == SubSeq(list, 1, whole) \o more
           t == Snapshot!TruncateToolResult(r)
<1>1. list \in Seq(Snapshot!Contents)
  BY DEF Snapshot!ToolResults
<1>2. t = IF MaxBytes = 0 \/ r.truncated \/ whole = Len(list) THEN r
          ELSE [r EXCEPT !.content = cut, !.truncated = TRUE]
  BY DEF Snapshot!TruncateToolResult
<1> HIDE DEF t, list
<1>3. Len(list) \in Nat /\ \A k \in 0 .. Len(list) : Snapshot!UpTo(list, k) \in Nat
  BY <1>1, UpToAdds
<1>4. \E k \in 0 .. Len(list) : Fits(k)
  <2> SUFFICES ASSUME \A k \in 0 .. Len(list) : ~Fits(k) PROVE FALSE
    OBVIOUS
  <2> DEFINE T == {n \in Nat : n <= Len(list) => Snapshot!UpTo(list, n) <= MaxBytes}
  <2>1. 0 \in T
    <3>1. Snapshot!UpTo(list, 0) = 0
      BY <1>1, <1>3, UpToAdds
    <3> QED BY <3>1
  <2>2. ASSUME NEW n \in T PROVE n + 1 \in T
    BY <1>3, <2>2
  <2>3. T = Nat
    BY <2>1, <2>2, SetInduction
  <2>4. Fits(Len(list))
    BY <1>3, <2>3
  <2> QED BY <1>3, <2>4
<1>5. whole \in 0 .. Len(list) /\ Fits(whole)
  BY <1>4
<1> HIDE DEF whole
<1>6. CASE MaxBytes = 0 \/ r.truncated \/ whole = Len(list)
  <2>1. t = r
    BY <1>2, <1>6
  <2>2. whole = Len(list) => Snapshot!UpTo(list, Len(list)) <= MaxBytes
    BY <1>5
  <2> QED BY <1>6, <2>1, <2>2 DEF list, t
<1>7. CASE ~(MaxBytes = 0 \/ r.truncated \/ whole = Len(list))
  <2>1. t = [r EXCEPT !.content = cut, !.truncated = TRUE]
    BY <1>2, <1>7
  <2>2. whole + 1 \in 1 .. Len(list) /\ list[whole + 1] \in Snapshot!Contents
    BY <1>1, <1>3, <1>5, <1>7
  <2>3. remaining \in Nat
    BY <1>3, <1>5
  <2> DEFINE kept == SubSeq(list, 1, whole)
  <2>4. kept \in Seq(Snapshot!Contents) /\ Len(kept) = whole /\ \A i \in 1 .. whole : kept[i] = list[i]
    BY <1>1, <1>5
  <2>5. Snapshot!UpTo(kept, whole) = Snapshot!UpTo(list, whole)
    <3> HIDE DEF kept
    <3>1. whole \in 0 .. Len(kept) /\ whole <= Len(list)
      BY <1>3, <1>5, <2>4
    <3> QED BY <1>1, <2>4, <3>1, UpToSame
  <2> HIDE DEF kept
  <2>6. cut \in Seq(Snapshot!Contents) /\ Snapshot!UpTo(cut, Len(cut)) <= MaxBytes
    <3>1. CASE remaining > 0
      <4> DEFINE c == Snapshot!Cut(list[whole + 1], remaining)
      <4>1. c \in Snapshot!Contents /\ Snapshot!SizeOf(c) <= remaining
        BY <2>2, <2>3, <3>1, CutFits
      <4>2. cut = kept \o <<c>>
        BY <3>1 DEF kept
      <4> HIDE DEF c, remaining, cut
      <4>3. cut \in Seq(Snapshot!Contents) /\ Len(cut) = whole + 1 /\ cut[whole + 1] = c
            /\ \A i \in 1 .. whole : kept[i] = cut[i]
        BY <1>5, <2>4, <4>1, <4>2
      <4>4. Snapshot!UpTo(cut, whole) = Snapshot!UpTo(kept, whole)
        <5>1. whole \in 0 .. Len(cut) /\ whole <= Len(kept) /\ \A i \in 1 .. whole : cut[i] = kept[i]
          BY <1>5, <2>4, <4>3
        <5> QED BY <2>4, <4>3, <5>1, UpToSame
      <4>5. Snapshot!UpTo(cut, whole + 1) = Snapshot!UpTo(cut, whole) + Snapshot!SizeOf(c)
        <5>1. whole \in 0 .. Len(cut) /\ whole < Len(cut)
          BY <1>5, <4>3
        <5> QED BY <4>3, <5>1, UpToAdds
      <4>6. Snapshot!SizeOf(c) \in Nat
        BY <4>1, SizesAreNumbers
      <4>7. Snapshot!UpTo(list, whole) \in Nat /\ remaining = MaxBytes - Snapshot!UpTo(list, whole)
        BY <1>3, <1>5 DEF remaining
      <4>8. Snapshot!UpTo(cut, whole + 1) <= MaxBytes
        BY <2>3, <2>5, <4>1, <4>4, <4>5, <4>6, <4>7
      <4> QED BY <4>3, <4>8
    <3>2. CASE ~(remaining > 0)
      <4>1. cut = kept
        BY <2>4, <3>2 DEF kept
      <4> HIDE DEF cut
      <4> QED BY <1>5, <2>4, <2>5, <4>1
    <3> QED BY <3>1, <3>2
  <2> HIDE DEF cut
  <2>7. t \in Snapshot!ToolResults
    BY <2>1, <2>6 DEF Snapshot!ToolResults
  <2>8. t.content = cut /\ t.truncated
    BY <2>1 DEF Snapshot!ToolResults
  <2> QED BY <2>6, <2>7, <2>8 DEF t
<1> QED BY <1>6, <1>7

(* What holds of a session that runs, is stored, or comes back.            *)

SnapshotConstants == Snapshot!SnapshotAssumption /\ Snapshot!ContentsAssumption

Within(r) ==
  MaxBytes > 0 =>
    /\ Snapshot!UpTo(r.content, Len(r.content)) <= MaxBytes
    /\ \/ r.truncated
       \/ \E q \in Results : Snapshot!UpTo(q.content, Len(q.content)) <= MaxBytes /\ r.content = q.content

GoodSession(s) ==
  /\ s \in SavedSessions
  /\ s.checkpoint \in Checkpoints \/ (s.checkpoint = None /\ s.messages = <<>> /\ s.state = "active")
  /\ Len(s.messages) <= MaxSaved
  /\ \A i \in DOMAIN s.messages : s.messages[i].id = MessageIds[i]
  /\ \A i \in DOMAIN s.messages : s.messages[i].role = "tool" => Within(s.messages[i].parts[1].result)

(* The document is that of the saved session, whole or without a field.    *)
Whole == Snapshot!SnapshotSession(saved)

Stored ==
  /\ GoodSession(saved) /\ saved.usage.input <= MaxCounter
  /\ \/ lost = <<>> /\ document = Whole
     \/ \E f \in DOMAIN Whole : lost = <<"session", f>> /\ document = Snapshot!Without(Whole, f)
     \/ \E f \in DOMAIN Whole.usage :
          lost = <<"usage", f>> /\ document = [Whole EXCEPT !.usage = Snapshot!Without(Whole.usage, f)]

SnapInv ==
  /\ status \in {"new", "saved", "save failed", "damaged", "loaded", "load failed", "crashed"}
  /\ session = None \/ GoodSession(session)
  /\ document = None \/ Stored
  /\ status \in {"loaded", "load failed"} =>
       /\ Stored
       /\ loaded = IF Snapshot!AcceptsSession(document) THEN Snapshot!RestoreSession(document) ELSE None
       /\ status = IF Snapshot!AcceptsSession(document) THEN "loaded" ELSE "load failed"

LEMMA WholeComesBack ==
  ASSUME SnapshotConstants, NEW s, GoodSession(s), s.usage.input <= MaxCounter
  PROVE  /\ Snapshot!AcceptsSession(Snapshot!SnapshotSession(s))
         /\ Snapshot!RestoreSession(Snapshot!SnapshotSession(s)) = s
<1> DEFINE d == Snapshot!SnapshotSession(s)
<1>1. s \in SavedSessions /\ s.usage \in Snapshot!Usages
  BY DEF GoodSession, SavedSessions
<1>2. Injective /\ MaxCounter \in Nat
  BY DEF SnapshotConstants, Snapshot!ContentsAssumption, Snapshot!SnapshotAssumption, Injective
<1>3. /\ DocumentOf(d, s) /\ d.usage = Snapshot!SnapshotUsage(s.usage)
      /\ "pending" \in DOMAIN d <=> s.pending # None
      /\ "checkpoint" \in DOMAIN d <=> s.checkpoint # None
      /\ "parent_session_id" \in DOMAIN d <=> s.parent # ""
  BY <1>1, SavedAs
<1>4. Snapshot!AcceptsUsage(d.usage) /\ Snapshot!RestoreUsage(d.usage) = s.usage
  BY <1>1, <1>2, <1>3, RoundUsage
<1> HIDE DEF d
<1>5. /\ Snapshot!AcceptsSession(d)
      /\ Snapshot!RestoreSession(d) =
           [id |-> s.id, user |-> s.user, agent |-> s.agent, model |-> s.model, state |-> s.state,
            messages |-> s.messages, pending |-> IF "pending" \in DOMAIN d THEN s.pending ELSE None,
            usage |-> Snapshot!RestoreUsage(d.usage),
            checkpoint |-> IF "checkpoint" \in DOMAIN d THEN s.checkpoint ELSE None,
            parent |-> IF "parent_session_id" \in DOMAIN d THEN s.parent ELSE ""]
  BY <1>1, <1>2, <1>3, <1>4, RoundSession
<1>6. /\ s.pending = IF "pending" \in DOMAIN d THEN s.pending ELSE None
      /\ s.checkpoint = IF "checkpoint" \in DOMAIN d THEN s.checkpoint ELSE None
      /\ s.parent = IF "parent_session_id" \in DOMAIN d THEN s.parent ELSE ""
  BY <1>3
<1>7. s = [id |-> s.id, user |-> s.user, agent |-> s.agent, model |-> s.model, state |-> s.state,
           messages |-> s.messages, pending |-> s.pending, usage |-> s.usage, checkpoint |-> s.checkpoint,
           parent |-> s.parent]
  BY <1>1 DEF SavedSessions
<1> QED BY <1>4, <1>5, <1>6, <1>7, Zenon DEF d

(* A save of a good session, or one that fails.                            *)
LEMMA BecomesKeeps ==
  ASSUME SnapshotConstants, SnapInv, NEW s, GoodSession(s), Snapshot!Becomes(s)
  PROVE  SnapInv'
<1>1. CASE Snapshot!Encodes(s)
  <2>1. session' = s /\ document' = Snapshot!SnapshotSession(s) /\ saved' = s /\ lost' = <<>> /\ status' = "saved"
    BY <1>1 DEF Snapshot!Becomes
  <2>2. s.usage.input <= MaxCounter
    <3>1. s.usage.input \in -(MaxCounter + 1) .. MaxCounter
      BY <1>1 DEF Snapshot!Encodes
    <3>2. MaxCounter \in Nat
      BY DEF SnapshotConstants, Snapshot!SnapshotAssumption
    <3> QED BY <3>1, <3>2
  <2>3. GoodSession(session') /\ GoodSession(saved') /\ saved'.usage.input <= MaxCounter /\ document' = Whole'
    BY <2>1, <2>2 DEF Whole
  <2> QED BY <2>1, <2>3 DEF SnapInv, Stored
<1>2. CASE ~Snapshot!Encodes(s)
  <2>1. session' = None /\ status' = "save failed" /\ UNCHANGED <<document, saved, lost>>
    BY <1>2 DEF Snapshot!Becomes
  <2>2. Whole' = Whole
    BY <2>1 DEF Whole
  <2> QED BY <2>1, <2>2 DEF SnapInv, Stored
<1> QED BY <1>1, <1>2

LEMMA GoodGrows ==
  ASSUME SnapshotConstants, NEW s, GoodSession(s), NEW t \in SavedSessions, NEW m \in Messages,
         t.messages = Append(s.messages, m), m.id = MessageIds[Len(s.messages) + 1], Len(s.messages) < MaxSaved,
         m.role = "tool" => Within(m.parts[1].result), t.checkpoint \in Checkpoints
  PROVE  GoodSession(t)
<1> DEFINE old == s.messages
           new == t.messages
           n == Len(old)
<1>1. old \in Seq(Messages)
  BY DEF GoodSession, SavedSessions
<1>2. /\ \A i \in DOMAIN old : old[i].id = MessageIds[i]
      /\ \A i \in DOMAIN old : old[i].role = "tool" => Within(old[i].parts[1].result)
  BY DEF GoodSession
<1>3. new = Append(old, m) /\ m.id = MessageIds[n + 1] /\ n < MaxSaved
  OBVIOUS
<1>4. MaxSaved \in Nat
  BY DEF SnapshotConstants, Snapshot!SnapshotAssumption
<1> HIDE DEF old, new
<1>5. Len(new) = n + 1 /\ n \in Nat /\ new[n + 1] = m /\ \A i \in DOMAIN new : i = n + 1 \/ (i \in DOMAIN old /\ new[i] = old[i])
  BY <1>1, <1>3
<1> HIDE DEF n
<1>6. Len(new) <= MaxSaved
  BY <1>3, <1>4, <1>5
<1>7. ASSUME NEW i \in DOMAIN new
      PROVE  new[i].id = MessageIds[i] /\ (new[i].role = "tool" => Within(new[i].parts[1].result))
  <2>1. CASE i = n + 1
    BY <1>3, <1>5, <2>1
  <2>2. CASE i \in DOMAIN old /\ new[i] = old[i]
    BY <1>2, <2>2
  <2> QED BY <1>5, <2>1, <2>2
<1> QED BY <1>6, <1>7 DEF GoodSession, new

LEMMA GoodStays ==
  ASSUME NEW s, GoodSession(s), NEW t \in SavedSessions, t.messages = s.messages, t.checkpoint \in Checkpoints
  PROVE  GoodSession(t)
BY DEF GoodSession

LEMMA SessionsRun ==
  ASSUME SnapInv, session # None
  PROVE  /\ GoodSession(session) /\ session \in SavedSessions /\ session.messages \in Seq(Messages)
         /\ session.checkpoint # None => session.checkpoint \in Checkpoints
         /\ session.messages # <<>> \/ session.state # "active" => session.checkpoint \in Checkpoints
<1>1. GoodSession(session)
  BY DEF SnapInv
<1>2. session \in SavedSessions
  BY <1>1 DEF GoodSession
<1>3. session.messages \in Seq(Messages)
  BY <1>2 DEF SavedSessions
<1> QED BY <1>1, <1>2, <1>3 DEF GoodSession

LEMMA WaitingAreCalls ==
  ASSUME SnapInv, session # None, NEW c \in Snapshot!Waiting
  PROVE  c \in Snapshot!ToolCalls
<1>1. session.messages \in Seq(Messages)
  BY SessionsRun
<1>2. PICK i \in DOMAIN session.messages : c \in Snapshot!CallsIn(session.messages[i])
  BY DEF Snapshot!Waiting
<1> DEFINE m == session.messages[i]
<1>3. m \in Messages
  BY <1>1, <1>2
<1> HIDE DEF m
<1>4. PICK j \in DOMAIN m.parts : c = m.parts[j].call /\ c # None
  BY <1>2 DEF Snapshot!CallsIn, m
<1> DEFINE parts == m.parts
<1>5. parts \in Seq(Snapshot!Parts)
  BY <1>3 DEF Messages
<1> HIDE DEF parts
<1>6. parts[j] \in Snapshot!Parts
  BY <1>4, <1>5 DEF parts
<1>7. parts[j].call \in Snapshot!ToolCalls \cup {None}
  BY <1>6 DEF Snapshot!Parts
<1> QED BY <1>4, <1>7 DEF parts

LEMMA NewMessage ==
  ASSUME SnapshotConstants, SnapInv, Snapshot!Running, NEW role \in {"system", "user", "assistant", "tool"},
         NEW parts \in Seq(Snapshot!Parts) \ {<<>>}
  PROVE  LET m == Snapshot!Message(role, parts)
         IN  m \in Messages /\ m.id = MessageIds[Len(session.messages) + 1] /\ m.role = role /\ m.parts = parts
<1>1. session # None /\ Len(session.messages) < MaxSaved
  BY DEF Snapshot!Running
<1>2. Len(session.messages) \in Nat
  BY <1>1, SessionsRun
<1>3. MaxSaved \in Nat /\ \A k \in 1 .. MaxSaved : MessageIds[k] \in Snapshot!Names
  BY DEF SnapshotConstants, Snapshot!SnapshotAssumption, Snapshot!ContentsAssumption
<1>4. MessageIds[Len(session.messages) + 1] \in Snapshot!Names
  BY <1>1, <1>2, <1>3
<1>5. Snapshot!Message(role, parts) = [id |-> MessageIds[Len(session.messages) + 1], role |-> role, parts |-> parts]
  BY DEF Snapshot!Message
<1> QED BY <1>4, <1>5 DEF Messages

LEMMA NewCheckpoint ==
  ASSUME NEW status_ \in {"running", "awaiting_confirmation", "completed"}, NEW step \in Nat
  PROVE  Snapshot!Checkpoint(status_, step, None) \in Checkpoints
<1>1. Snapshot!Checkpoint(status_, step, None) = [turn |-> "t", status |-> status_, step |-> step, call |-> None]
  BY DEF Snapshot!Checkpoint
<1> QED BY <1>1 DEF Checkpoints

LEMMA UserSaysKeeps ==
  ASSUME SnapshotConstants, SnapInv, Snapshot!UserSays
  PROVE  SnapInv'
<1>1. Snapshot!Running /\ session # None /\ Len(session.messages) < MaxSaved
  BY DEF Snapshot!UserSays, Snapshot!Running
<1> DEFINE c == Snapshot!Checkpoint("running", 0, None)
<1>2. PICK parts \in Inputs :
        Snapshot!Becomes([session EXCEPT !.messages = Append(@, Snapshot!Message("user", parts)), !.checkpoint = c])
  BY DEF Snapshot!UserSays
<1> DEFINE m == Snapshot!Message("user", parts)
           t == [session EXCEPT !.messages = Append(@, m), !.checkpoint = c]
<1>3. parts \in Seq(Snapshot!Parts) \ {<<>>}
  BY DEF SnapshotConstants, Snapshot!ContentsAssumption
<1>4. m \in Messages /\ m.id = MessageIds[Len(session.messages) + 1] /\ m.role = "user"
  BY <1>1, <1>3, NewMessage
<1>5. c \in Checkpoints
  BY NewCheckpoint
<1> HIDE DEF m, c
<1>6. GoodSession(session) /\ session \in SavedSessions /\ session.messages \in Seq(Messages)
  BY <1>1, SessionsRun
<1>7. Append(session.messages, m) \in Seq(Messages)
  BY <1>4, <1>6
<1>8. t \in SavedSessions /\ t.messages = Append(session.messages, m) /\ t.checkpoint = c
  BY <1>5, <1>6, <1>7 DEF SavedSessions
<1>9. GoodSession(t)
  BY <1>1, <1>4, <1>5, <1>6, <1>8, GoodGrows
<1> QED BY <1>2, <1>9, BecomesKeeps DEF m

(* What an answer adds is no more cached or written than it is input.      *)
LEMMA AddsKeeps ==
  ASSUME NEW u \in Snapshot!Usages, NEW v \in Snapshot!Usages
  PROVE  Snapshot!Adds(u, v) \in Snapshot!Usages
<1> DEFINE w == Snapshot!Adds(u, v)
           R == [input : Nat, output : Nat, estimated : BOOLEAN, cost : Nat, currency : Snapshot!Strings, cached : Nat,
                 written : Nat]
<1>1. u \in R /\ v \in R
  BY DEF Snapshot!Usages
<1>2. /\ u.cached <= u.input /\ u.written <= u.input /\ v.cached <= v.input /\ v.written <= v.input
  BY DEF Snapshot!Usages
<1>3. (u.currency = "" \/ Len(u.currency) = 3) /\ (v.currency = "" \/ Len(v.currency) = 3)
  BY DEF Snapshot!Usages
<1> DEFINE i == u.input + v.input
           o == u.output + v.output
           m == u.cost + v.cost
           c == u.cached + v.cached
           n == u.written + v.written
           k == IF v.currency = "" THEN u.currency ELSE v.currency
           e == u.estimated \/ v.estimated
<1>4. i \in Nat /\ o \in Nat /\ m \in Nat /\ c \in Nat /\ n \in Nat /\ c <= i /\ n <= i
  <2>1. u.input \in Nat /\ u.output \in Nat /\ u.cost \in Nat /\ u.cached \in Nat /\ u.written \in Nat
    BY <1>1
  <2>2. v.input \in Nat /\ v.output \in Nat /\ v.cost \in Nat /\ v.cached \in Nat /\ v.written \in Nat
    BY <1>1
  <2> QED BY <1>2, <2>1, <2>2
<1>5. k \in Snapshot!Strings /\ (k = "" \/ Len(k) = 3)
  <2>1. u.currency \in Snapshot!Strings /\ v.currency \in Snapshot!Strings
    BY <1>1
  <2> QED BY <1>3, <2>1
<1>6. e \in BOOLEAN
  OBVIOUS
<1>7. w = [u EXCEPT !.input = i, !.output = o, !.cost = m, !.cached = c, !.written = n, !.currency = k,
                    !.estimated = e]
  BY DEF Snapshot!Adds
<1> HIDE DEF i, o, m, c, n, k, e, w
<1>8. w \in R
  BY <1>1, <1>4, <1>5, <1>6, <1>7
<1>9. w.input = i /\ w.cached = c /\ w.written = n /\ w.currency = k
  BY <1>1, <1>7
<1>10. w \in Snapshot!Usages
  BY <1>4, <1>5, <1>8, <1>9 DEF Snapshot!Usages
<1> QED BY <1>10 DEF w

LEMMA ModelAnswersKeeps ==
  ASSUME SnapshotConstants, SnapInv, Snapshot!ModelAnswers
  PROVE  SnapInv'
<1>1. Snapshot!Running /\ session # None /\ Len(session.messages) < MaxSaved
  BY DEF Snapshot!ModelAnswers, Snapshot!Running
<1>2. Snapshot!LastRole \in {"user", "tool"}
  BY DEF Snapshot!ModelAnswers
<1>3. session.messages # <<>>
  BY <1>2 DEF Snapshot!LastRole
<1> DEFINE Said(a) == IF \A j \in DOMAIN a.parts : a.parts[j].call = None THEN "completed" ELSE "running"
           C(a) == Snapshot!Checkpoint(Said(a), session.checkpoint.step + 1, None)
<1>4. PICK a \in Replies :
        Snapshot!Becomes([session EXCEPT !.messages = Append(@, Snapshot!Message("assistant", a.parts)),
                                         !.usage = Snapshot!Adds(@, a.usage),
                                         !.checkpoint = Snapshot!Checkpoint(Said(a), @.step + 1, None)])
  BY DEF Snapshot!ModelAnswers
<1> DEFINE m == Snapshot!Message("assistant", a.parts)
           u == Snapshot!Adds(session.usage, a.usage)
           c == C(a)
           t == [session EXCEPT !.messages = Append(@, m), !.usage = u, !.checkpoint = c]
<1>5. a.parts \in Seq(Snapshot!Parts) \ {<<>>} /\ a.usage \in Snapshot!Usages
  BY DEF SnapshotConstants, Snapshot!ContentsAssumption
<1>6. m \in Messages /\ m.id = MessageIds[Len(session.messages) + 1] /\ m.role = "assistant"
  BY <1>1, <1>5, NewMessage
<1>7. /\ GoodSession(session) /\ session \in SavedSessions /\ session.messages \in Seq(Messages)
      /\ session.checkpoint \in Checkpoints
  BY <1>1, <1>3, SessionsRun
<1>8. c \in Checkpoints
  <2>1. session.checkpoint.step \in Nat
    BY <1>7 DEF Checkpoints
  <2> QED BY <2>1, NewCheckpoint
<1>9. u \in Snapshot!Usages
  <2>1. session.usage \in Snapshot!Usages
    BY <1>7 DEF SavedSessions
  <2> QED BY <1>5, <2>1, AddsKeeps
<1>10. Snapshot!Becomes(t)
  BY <1>4
<1> HIDE DEF m, c, u
<1>11. Append(session.messages, m) \in Seq(Messages)
  BY <1>6, <1>7
<1>12. t \in SavedSessions /\ t.messages = Append(session.messages, m) /\ t.checkpoint = c
  BY <1>7, <1>8, <1>9, <1>11 DEF SavedSessions
<1> HIDE DEF t
<1>13. GoodSession(t)
  BY <1>1, <1>6, <1>7, <1>8, <1>12, GoodGrows
<1> QED BY <1>10, <1>13, BecomesKeeps

LEMMA ToolStartsKeeps ==
  ASSUME SnapshotConstants, SnapInv, Snapshot!ToolStarts
  PROVE  SnapInv'
<1>1. session # None /\ session.checkpoint # None
  BY DEF Snapshot!ToolStarts, Snapshot!Running
<1>2. PICK c \in Snapshot!Waiting, idempotent \in BOOLEAN :
        Snapshot!Becomes([session EXCEPT !.checkpoint.call =
                            [call_id |-> c.id, tool |-> c.name, args |-> "a", idempotent |-> idempotent]])
  BY DEF Snapshot!ToolStarts
<1> DEFINE p == [call_id |-> c.id, tool |-> c.name, args |-> "a", idempotent |-> idempotent]
           t == [session EXCEPT !.checkpoint.call = p]
<1>3. p \in PendingCalls
  <2>1. c \in Snapshot!ToolCalls
    BY <1>1, <1>2, WaitingAreCalls
  <2>2. c.id \in Snapshot!Names /\ c.name \in Snapshot!Names
    BY <2>1 DEF Snapshot!ToolCalls
  <2> QED BY <2>2 DEF PendingCalls
<1>4. GoodSession(session) /\ session \in SavedSessions /\ session.checkpoint \in Checkpoints
  BY <1>1, SessionsRun
<1> HIDE DEF p
<1>5. [session.checkpoint EXCEPT !.call = p] \in Checkpoints
  BY <1>3, <1>4 DEF Checkpoints
<1>6. /\ t \in SavedSessions /\ t.messages = session.messages
      /\ t.checkpoint = [session.checkpoint EXCEPT !.call = p]
  BY <1>4, <1>5 DEF SavedSessions
<1>7. Snapshot!Becomes(t)
  BY <1>2 DEF p
<1> HIDE DEF t
<1>8. GoodSession(t)
  BY <1>4, <1>5, <1>6, GoodStays
<1> QED BY <1>7, <1>8, BecomesKeeps

LEMMA ToolAnswersKeeps ==
  ASSUME SnapshotConstants, SnapInv, Snapshot!ToolAnswers
  PROVE  SnapInv'
<1>1. /\ Snapshot!Running /\ session # None /\ Len(session.messages) < MaxSaved
      /\ session.checkpoint # None /\ session.checkpoint.call # None
  BY DEF Snapshot!ToolAnswers, Snapshot!Running
<1> DEFINE Named(r) == [r EXCEPT !.call_id = session.checkpoint.call.call_id]
           AsPart(r) == [kind |-> "tool_result", text |-> "", call |-> None,
                       result |-> Snapshot!TruncateToolResult(Named(r)), media |-> None]
<1>2. PICK r \in Results :
        Snapshot!Becomes([session EXCEPT !.messages = Append(@, Snapshot!Message("tool", <<AsPart(r)>>)),
                                         !.checkpoint.call = None])
  BY DEF Snapshot!ToolAnswers
<1> DEFINE named == Named(r)
           result == Snapshot!TruncateToolResult(named)
           part_ == [kind |-> "tool_result", text |-> "", call |-> None, result |-> result, media |-> None]
           m == Snapshot!Message("tool", <<part_>>)
           c == [session.checkpoint EXCEPT !.call = None]
           t == [session EXCEPT !.messages = Append(@, m), !.checkpoint = c]
<1>3. /\ GoodSession(session) /\ session \in SavedSessions /\ session.messages \in Seq(Messages)
      /\ session.checkpoint \in Checkpoints
  BY <1>1, SessionsRun
<1>4. r \in Snapshot!ToolResults /\ ~r.truncated
  BY DEF SnapshotConstants, Snapshot!ContentsAssumption
<1>5. /\ named \in Snapshot!ToolResults /\ ~named.truncated /\ named.content = r.content
  <2>1. session.checkpoint.call \in PendingCalls
    BY <1>1, <1>3 DEF Checkpoints
  <2>2. session.checkpoint.call.call_id \in Snapshot!Names
    BY <2>1 DEF PendingCalls
  <2> QED BY <1>4, <2>2 DEF Snapshot!ToolResults
<1> HIDE DEF named
<1>6. MaxBytes \in Nat
  BY DEF SnapshotConstants, Snapshot!SnapshotAssumption
<1>7. /\ result \in Snapshot!ToolResults
      /\ MaxBytes > 0 => /\ Snapshot!UpTo(result.content, Len(result.content)) <= MaxBytes
                         /\ result.truncated \/ result.content = named.content
  BY <1>5, <1>6, Truncated
<1>8. Within(result)
  BY <1>5, <1>7 DEF Within
<1> HIDE DEF result
<1>9. part_ \in Snapshot!Parts /\ part_.result = result
  BY <1>7 DEF Snapshot!Parts, Snapshot!Strings
<1> HIDE DEF part_
<1>10. <<part_>> \in Seq(Snapshot!Parts) \ {<<>>} /\ <<part_>>[1] = part_
  BY <1>9
<1>11. /\ m \in Messages /\ m.id = MessageIds[Len(session.messages) + 1] /\ m.role = "tool"
       /\ m.parts[1].result = result
  BY <1>1, <1>9, <1>10, NewMessage
<1>12. c \in Checkpoints
  BY <1>3 DEF Checkpoints
<1>13. Snapshot!Becomes(t)
  BY <1>2 DEF part_, result, named
<1> HIDE DEF m, c
<1>14. Append(session.messages, m) \in Seq(Messages)
  BY <1>3, <1>11
<1>15. t \in SavedSessions /\ t.messages = Append(session.messages, m) /\ t.checkpoint = c
  BY <1>3, <1>12, <1>14 DEF SavedSessions
<1> HIDE DEF t
<1>16. GoodSession(t)
  BY <1>1, <1>3, <1>8, <1>11, <1>12, <1>15, GoodGrows
<1> QED BY <1>13, <1>16, BecomesKeeps

LEMMA PausesKeeps ==
  ASSUME SnapshotConstants, SnapInv, Snapshot!Pauses
  PROVE  SnapInv'
<1>1. session # None /\ session.checkpoint # None
  BY DEF Snapshot!Pauses, Snapshot!Running
<1>2. PICK w \in Snapshot!Waiting :
        Snapshot!Becomes([session EXCEPT !.state = "awaiting_confirmation",
                                         !.pending = [call_id |-> w.id, tool |-> w.name, args |-> "a", reason |-> ""],
                                         !.checkpoint.status = "awaiting_confirmation"])
  BY DEF Snapshot!Pauses
<1> DEFINE p == [call_id |-> w.id, tool |-> w.name, args |-> "a", reason |-> ""]
           c == [session.checkpoint EXCEPT !.status = "awaiting_confirmation"]
           t == [session EXCEPT !.state = "awaiting_confirmation", !.pending = p, !.checkpoint = c]
<1>3. p \in Confirmations
  <2>1. w \in Snapshot!ToolCalls
    BY <1>1, <1>2, WaitingAreCalls
  <2>2. w.id \in Snapshot!Names /\ w.name \in Snapshot!Names
    BY <2>1 DEF Snapshot!ToolCalls
  <2> QED BY <2>2 DEF Confirmations
<1>4. GoodSession(session) /\ session \in SavedSessions /\ session.checkpoint \in Checkpoints
  BY <1>1, SessionsRun
<1>5. c \in Checkpoints
  BY <1>4 DEF Checkpoints
<1>6. Snapshot!Becomes(t)
  BY <1>2
<1> HIDE DEF p, c
<1>7. t \in SavedSessions /\ t.messages = session.messages /\ t.checkpoint = c
  BY <1>3, <1>4, <1>5 DEF SavedSessions, Snapshot!SessionStates
<1> HIDE DEF t
<1>8. GoodSession(t)
  BY <1>4, <1>5, <1>7, GoodStays
<1> QED BY <1>6, <1>8, BecomesKeeps

LEMMA ResolvedKeeps ==
  ASSUME SnapshotConstants, SnapInv, Snapshot!Resolved
  PROVE  SnapInv'
<1>1. session # None /\ session.state = "awaiting_confirmation"
  BY DEF Snapshot!Resolved
<1> DEFINE c == [session.checkpoint EXCEPT !.status = "running"]
           t == [session EXCEPT !.state = "active", !.pending = None, !.checkpoint = c]
<1>2. Snapshot!Becomes(t)
  BY DEF Snapshot!Resolved
<1>3. GoodSession(session) /\ session \in SavedSessions /\ session.checkpoint \in Checkpoints
  BY <1>1, SessionsRun
<1>4. c \in Checkpoints
  BY <1>3 DEF Checkpoints
<1> HIDE DEF c
<1>5. t \in SavedSessions /\ t.messages = session.messages /\ t.checkpoint = c
  BY <1>3, <1>4 DEF SavedSessions, Snapshot!SessionStates
<1> HIDE DEF t
<1>6. GoodSession(t)
  BY <1>3, <1>4, <1>5, GoodStays
<1> QED BY <1>2, <1>6, BecomesKeeps

LEMMA CrashKeeps ==
  ASSUME SnapInv, Snapshot!Crash
  PROVE  SnapInv'
<1>1. session' = None /\ status' = "crashed" /\ UNCHANGED <<document, saved, lost>>
  BY DEF Snapshot!Crash
<1>2. Whole' = Whole
  BY <1>1 DEF Whole
<1> QED BY <1>1, <1>2 DEF SnapInv, Stored

LEMMA DamagedKeeps ==
  ASSUME SnapInv, Snapshot!Damaged
  PROVE  SnapInv'
<1>1. session = None /\ document # None /\ lost = <<>> /\ status' = "damaged" /\ UNCHANGED <<session, saved>>
  BY DEF Snapshot!Damaged
<1>2. Stored /\ document = Whole
  BY <1>1 DEF SnapInv, Stored
<1>3. Whole' = Whole
  BY <1>1 DEF Whole
<1>4. \/ \E f \in DOMAIN Whole : lost' = <<"session", f>> /\ document' = Snapshot!Without(Whole, f)
      \/ \E f \in DOMAIN Whole.usage :
           lost' = <<"usage", f>> /\ document' = [Whole EXCEPT !.usage = Snapshot!Without(Whole.usage, f)]
  BY <1>2 DEF Snapshot!Damaged
<1>5. GoodSession(saved)' /\ saved'.usage.input <= MaxCounter
  BY <1>1, <1>2 DEF Stored
<1>6. Stored'
  BY <1>3, <1>4, <1>5 DEF Stored
<1> QED BY <1>1, <1>6 DEF SnapInv

LEMMA LoadKeeps ==
  ASSUME SnapshotConstants, SnapInv, Snapshot!Load
  PROVE  SnapInv'
<1>1. /\ document # None /\ status' \in {"loaded", "load failed"} /\ UNCHANGED <<document, saved, lost>>
      /\ loaded' = IF Snapshot!AcceptsSession(document) THEN Snapshot!RestoreSession(document) ELSE None
      /\ session' = IF lost = <<>> THEN loaded' ELSE None
      /\ status' = IF Snapshot!AcceptsSession(document) THEN "loaded" ELSE "load failed"
  BY DEF Snapshot!Load
<1>2. Stored
  BY <1>1 DEF SnapInv
<1>3. Whole' = Whole /\ Stored'
  BY <1>1, <1>2 DEF Whole, Stored
<1>4. session' = None \/ GoodSession(session')
  <2>1. CASE lost = <<>>
    <3>1. GoodSession(saved) /\ document = Whole /\ saved.usage.input <= MaxCounter
      BY <1>2, <2>1 DEF Stored
    <3>2. loaded' = saved
      BY <1>1, <3>1, WholeComesBack DEF Whole
    <3> QED BY <1>1, <2>1, <3>1, <3>2
  <2>2. CASE lost # <<>>
    BY <1>1, <2>2
  <2> QED BY <2>1, <2>2
<1> QED BY <1>1, <1>3, <1>4 DEF SnapInv

LEMMA SnapStep ==
  ASSUME SnapshotConstants, SnapInv, [Snapshot!Next]_(Snapshot!vars)
  PROVE  SnapInv'
<1>1. CASE UNCHANGED Snapshot!vars
  <2>1. UNCHANGED <<session, document, saved, lost, loaded, status>>
    BY <1>1 DEF Snapshot!vars
  <2>2. Whole' = Whole
    BY <2>1 DEF Whole
  <2> QED BY <2>1, <2>2 DEF SnapInv, Stored
<1>2. CASE Snapshot!UserSays
  BY <1>2, UserSaysKeeps
<1>3. CASE Snapshot!ModelAnswers
  BY <1>3, ModelAnswersKeeps
<1>4. CASE Snapshot!ToolStarts
  BY <1>4, ToolStartsKeeps
<1>5. CASE Snapshot!ToolAnswers
  BY <1>5, ToolAnswersKeeps
<1>6. CASE Snapshot!Pauses
  BY <1>6, PausesKeeps
<1>7. CASE Snapshot!Resolved
  BY <1>7, ResolvedKeeps
<1>8. CASE Snapshot!Crash
  BY <1>8, CrashKeeps
<1>9. CASE Snapshot!Damaged
  BY <1>9, DamagedKeeps
<1>10. CASE Snapshot!Load
  BY <1>10, LoadKeeps
<1> QED BY <1>1, <1>2, <1>3, <1>4, <1>5, <1>6, <1>7, <1>8, <1>9, <1>10 DEF Snapshot!Next

LEMMA SnapStarts ==
  ASSUME SnapshotConstants, Snapshot!Init
  PROVE  SnapInv
<1>1. session = Snapshot!Fresh /\ document = None /\ status = "new"
  BY DEF Snapshot!Init
<1> DEFINE u == Snapshot!Usage0
<1>2. u \in Snapshot!Usages
  <2>1. u = [input |-> 0, output |-> 0, estimated |-> FALSE, cost |-> 0, currency |-> "", cached |-> 0, written |-> 0]
    BY DEF Snapshot!Usage0
  <2>2. u \in [input : Nat, output : Nat, estimated : BOOLEAN, cost : Nat, currency : Snapshot!Strings, cached : Nat,
               written : Nat]
    BY <2>1 DEF Snapshot!Strings
  <2> HIDE DEF u
  <2>3. u.cached = 0 /\ u.input = 0 /\ u.written = 0
    BY <2>1
  <2>4. u.currency = ""
    BY <2>1
  <2>5. u.cached <= u.input /\ u.written <= u.input
    BY <2>3
  <2> QED BY <2>2, <2>4, <2>5 DEF Snapshot!Usages
<1>3. session = [id |-> "s", user |-> "u", agent |-> "", model |-> "m", state |-> "active", messages |-> <<>>,
                 pending |-> None, usage |-> u, checkpoint |-> None, parent |-> Parent]
  BY <1>1 DEF Snapshot!Fresh
<1> HIDE DEF u
<1>4. session \in SavedSessions
  <2>1. <<>> \in Seq(Messages) /\ "active" \in Snapshot!SessionStates
    BY DEF Snapshot!SessionStates
  <2> QED BY <1>2, <1>3, <2>1 DEF SavedSessions
<1>5. session.checkpoint = None /\ session.messages = <<>> /\ session.state = "active"
  BY <1>3
<1>6. MaxSaved \in Nat
  BY DEF SnapshotConstants, Snapshot!SnapshotAssumption
<1>7. GoodSession(session)
  BY <1>4, <1>5, <1>6 DEF GoodSession
<1> QED BY <1>1, <1>7 DEF SnapInv

(* What is left of a usage, and of a session, without one of its fields.   *)

UsageWithout(f, u) ==
  CASE f = "cost_micros" -> [u EXCEPT !.cost = 0]
    [] f = "currency" -> [u EXCEPT !.currency = ""]
    [] f = "cached_input_tokens" -> [u EXCEPT !.cached = 0]
    [] f = "cache_write_tokens" -> [u EXCEPT !.written = 0]

LEMMA UsageAltered ==
  ASSUME NEW u \in Snapshot!Usages, NEW x
  PROVE  /\ [u EXCEPT !.cost = x] = [input |-> u.input, output |-> u.output, estimated |-> u.estimated, cost |-> x,
                                      currency |-> u.currency, cached |-> u.cached, written |-> u.written]
         /\ [u EXCEPT !.currency = x] = [input |-> u.input, output |-> u.output, estimated |-> u.estimated,
                                          cost |-> u.cost, currency |-> x, cached |-> u.cached, written |-> u.written]
         /\ [u EXCEPT !.cached = x] = [input |-> u.input, output |-> u.output, estimated |-> u.estimated,
                                        cost |-> u.cost, currency |-> u.currency, cached |-> x, written |-> u.written]
         /\ [u EXCEPT !.written = x] = [input |-> u.input, output |-> u.output, estimated |-> u.estimated,
                                         cost |-> u.cost, currency |-> u.currency, cached |-> u.cached, written |-> x]
<1>1. u \in [input : {u.input}, output : {u.output}, estimated : {u.estimated}, cost : {u.cost},
             currency : {u.currency}, cached : {u.cached}, written : {u.written}]
  BY DEF Snapshot!Usages
<1> DEFINE a == [u EXCEPT !.cost = x]
           b == [u EXCEPT !.currency = x]
           c == [u EXCEPT !.cached = x]
           d == [u EXCEPT !.written = x]
<1>2. a \in [input : {u.input}, output : {u.output}, estimated : {u.estimated}, cost : {x},
             currency : {u.currency}, cached : {u.cached}, written : {u.written}]
  BY <1>1
<1>3. b \in [input : {u.input}, output : {u.output}, estimated : {u.estimated}, cost : {u.cost},
             currency : {x}, cached : {u.cached}, written : {u.written}]
  BY <1>1
<1>4. c \in [input : {u.input}, output : {u.output}, estimated : {u.estimated}, cost : {u.cost},
             currency : {u.currency}, cached : {x}, written : {u.written}]
  BY <1>1
<1>5. d \in [input : {u.input}, output : {u.output}, estimated : {u.estimated}, cost : {u.cost},
             currency : {u.currency}, cached : {u.cached}, written : {x}]
  BY <1>1
<1> HIDE DEF a, b, c, d
<1>6. a = [input |-> u.input, output |-> u.output, estimated |-> u.estimated, cost |-> x,
           currency |-> u.currency, cached |-> u.cached, written |-> u.written]
  BY <1>2
<1>7. b = [input |-> u.input, output |-> u.output, estimated |-> u.estimated, cost |-> u.cost,
           currency |-> x, cached |-> u.cached, written |-> u.written]
  BY <1>3
<1>8. c = [input |-> u.input, output |-> u.output, estimated |-> u.estimated, cost |-> u.cost,
           currency |-> u.currency, cached |-> x, written |-> u.written]
  BY <1>4
<1>9. d = [input |-> u.input, output |-> u.output, estimated |-> u.estimated, cost |-> u.cost,
           currency |-> u.currency, cached |-> u.cached, written |-> x]
  BY <1>5
<1> QED BY <1>6, <1>7, <1>8, <1>9 DEF a, b, c, d

LEMMA SessionAltered ==
  ASSUME NEW s \in SavedSessions, NEW x
  PROVE  /\ [s EXCEPT !.pending = x] =
              [id |-> s.id, user |-> s.user, agent |-> s.agent, model |-> s.model, state |-> s.state,
               messages |-> s.messages, pending |-> x, usage |-> s.usage, checkpoint |-> s.checkpoint,
               parent |-> s.parent]
         /\ [s EXCEPT !.usage = x] =
              [id |-> s.id, user |-> s.user, agent |-> s.agent, model |-> s.model, state |-> s.state,
               messages |-> s.messages, pending |-> s.pending, usage |-> x, checkpoint |-> s.checkpoint,
               parent |-> s.parent]
         /\ [s EXCEPT !.checkpoint = x] =
              [id |-> s.id, user |-> s.user, agent |-> s.agent, model |-> s.model, state |-> s.state,
               messages |-> s.messages, pending |-> s.pending, usage |-> s.usage, checkpoint |-> x,
               parent |-> s.parent]
         /\ [s EXCEPT !.parent = x] =
              [id |-> s.id, user |-> s.user, agent |-> s.agent, model |-> s.model, state |-> s.state,
               messages |-> s.messages, pending |-> s.pending, usage |-> s.usage, checkpoint |-> s.checkpoint,
               parent |-> x]
<1>1. s \in [id : {s.id}, user : {s.user}, agent : {s.agent}, model : {s.model}, state : {s.state},
             messages : {s.messages}, pending : {s.pending}, usage : {s.usage}, checkpoint : {s.checkpoint},
             parent : {s.parent}]
  BY DEF SavedSessions
<1> DEFINE a == [s EXCEPT !.pending = x]
           b == [s EXCEPT !.usage = x]
           c == [s EXCEPT !.checkpoint = x]
           d == [s EXCEPT !.parent = x]
<1>2. a \in [id : {s.id}, user : {s.user}, agent : {s.agent}, model : {s.model}, state : {s.state},
             messages : {s.messages}, pending : {x}, usage : {s.usage}, checkpoint : {s.checkpoint},
             parent : {s.parent}]
  BY <1>1
<1>3. b \in [id : {s.id}, user : {s.user}, agent : {s.agent}, model : {s.model}, state : {s.state},
             messages : {s.messages}, pending : {s.pending}, usage : {x}, checkpoint : {s.checkpoint},
             parent : {s.parent}]
  BY <1>1
<1>4. c \in [id : {s.id}, user : {s.user}, agent : {s.agent}, model : {s.model}, state : {s.state},
             messages : {s.messages}, pending : {s.pending}, usage : {s.usage}, checkpoint : {x},
             parent : {s.parent}]
  BY <1>1
<1>5. d \in [id : {s.id}, user : {s.user}, agent : {s.agent}, model : {s.model}, state : {s.state},
             messages : {s.messages}, pending : {s.pending}, usage : {s.usage}, checkpoint : {s.checkpoint},
             parent : {x}]
  BY <1>1
<1> HIDE DEF a, b, c, d
<1>6. a = [id |-> s.id, user |-> s.user, agent |-> s.agent, model |-> s.model, state |-> s.state,
           messages |-> s.messages, pending |-> x, usage |-> s.usage, checkpoint |-> s.checkpoint,
           parent |-> s.parent]
  BY <1>2
<1>7. b = [id |-> s.id, user |-> s.user, agent |-> s.agent, model |-> s.model, state |-> s.state,
           messages |-> s.messages, pending |-> s.pending, usage |-> x, checkpoint |-> s.checkpoint,
           parent |-> s.parent]
  BY <1>3
<1>8. c = [id |-> s.id, user |-> s.user, agent |-> s.agent, model |-> s.model, state |-> s.state,
           messages |-> s.messages, pending |-> s.pending, usage |-> s.usage, checkpoint |-> x,
           parent |-> s.parent]
  BY <1>4
<1>9. d = [id |-> s.id, user |-> s.user, agent |-> s.agent, model |-> s.model, state |-> s.state,
           messages |-> s.messages, pending |-> s.pending, usage |-> s.usage, checkpoint |-> s.checkpoint,
           parent |-> x]
  BY <1>5
<1> QED BY <1>6, <1>7, <1>8, <1>9 DEF a, b, c, d

LEMMA UsageDamaged ==
  ASSUME NEW u \in Snapshot!Usages, MaxCounter \in Nat, u.input <= MaxCounter,
         NEW f \in DOMAIN Snapshot!SnapshotUsage(u)
  PROVE  LET d == Snapshot!Without(Snapshot!SnapshotUsage(u), f)
         IN  /\ f \in RequiredUsage \/ f \in OptionalUsage
             /\ f \in RequiredUsage => ~Snapshot!AcceptsUsage(d)
             /\ f \in OptionalUsage => Snapshot!AcceptsUsage(d) /\ Snapshot!RestoreUsage(d) = UsageWithout(f, u)
<1> DEFINE o == Snapshot!SnapshotUsage(u)
           d == Snapshot!Without(o, f)
<1>1. /\ UsageDocument(o, u) /\ DOMAIN o \subseteq RequiredUsage \cup OptionalUsage
      /\ "cost_micros" \in DOMAIN o <=> u.cost # 0
      /\ "cached_input_tokens" \in DOMAIN o <=> u.cached # 0
      /\ "cache_write_tokens" \in DOMAIN o <=> u.written # 0
      /\ "currency" \in DOMAIN o <=> u.currency # ""
  BY UsageSavedAs
<1> HIDE DEF o
<1>2. DOMAIN d = DOMAIN o \ {f} /\ \A g \in DOMAIN d : d[g] = o[g]
  BY DEF Snapshot!Without
<1> HIDE DEF d
<1>3. f \in RequiredUsage \/ f \in OptionalUsage
  BY <1>1 DEF o
<1>4. ASSUME f \in RequiredUsage PROVE ~Snapshot!AcceptsUsage(d)
  <2>1. ~(RequiredUsage \subseteq DOMAIN d)
    BY <1>2, <1>4
  <2> QED BY <2>1 DEF Snapshot!AcceptsUsage, RequiredUsage
<1>5. ASSUME f \in OptionalUsage PROVE Snapshot!AcceptsUsage(d) /\ Snapshot!RestoreUsage(d) = UsageWithout(f, u)
  <2>1. f \in {"cost_micros", "currency", "cached_input_tokens", "cache_write_tokens"} /\ f \notin RequiredUsage
    BY <1>5 DEF OptionalUsage, RequiredUsage
  <2>2. RequiredUsage \subseteq DOMAIN d
    BY <1>1, <1>2, <2>1 DEF UsageDocument
  <2>3. UsageDocument(d, u)
    BY <1>1, <1>2, <2>2 DEF UsageDocument, RequiredUsage
  <2>4. /\ Snapshot!AcceptsUsage(d)
        /\ Snapshot!RestoreUsage(d) =
             [input |-> u.input, output |-> u.output, estimated |-> u.estimated,
              cost |-> IF "cost_micros" \in DOMAIN d THEN u.cost ELSE 0,
              currency |-> IF "currency" \in DOMAIN d THEN u.currency ELSE "",
              cached |-> IF "cached_input_tokens" \in DOMAIN d THEN u.cached ELSE 0,
              written |-> IF "cache_write_tokens" \in DOMAIN d THEN u.written ELSE 0]
    BY <2>3, UsageComesBack
  <2>5. /\ (IF "cost_micros" \in DOMAIN d THEN u.cost ELSE 0) = IF f = "cost_micros" THEN 0 ELSE u.cost
        /\ (IF "currency" \in DOMAIN d THEN u.currency ELSE "") = IF f = "currency" THEN "" ELSE u.currency
        /\ (IF "cached_input_tokens" \in DOMAIN d THEN u.cached ELSE 0)
             = IF f = "cached_input_tokens" THEN 0 ELSE u.cached
        /\ (IF "cache_write_tokens" \in DOMAIN d THEN u.written ELSE 0)
             = IF f = "cache_write_tokens" THEN 0 ELSE u.written
    BY <1>1, <1>2
  <2>6. Snapshot!RestoreUsage(d) =
          [input |-> u.input, output |-> u.output, estimated |-> u.estimated,
           cost |-> IF f = "cost_micros" THEN 0 ELSE u.cost,
           currency |-> IF f = "currency" THEN "" ELSE u.currency,
           cached |-> IF f = "cached_input_tokens" THEN 0 ELSE u.cached,
           written |-> IF f = "cache_write_tokens" THEN 0 ELSE u.written]
    BY <2>4, <2>5, Zenon
  <2>7. CASE f = "cost_micros"
    BY <2>4, <2>6, <2>7, UsageAltered DEF UsageWithout
  <2>8. CASE f = "currency"
    BY <2>4, <2>6, <2>8, UsageAltered DEF UsageWithout
  <2>9. CASE f = "cached_input_tokens"
    BY <2>4, <2>6, <2>9, UsageAltered DEF UsageWithout
  <2>10. CASE f = "cache_write_tokens"
    BY <2>4, <2>6, <2>10, UsageAltered DEF UsageWithout
  <2> QED BY <2>1, <2>7, <2>8, <2>9, <2>10
<1> QED BY <1>3, <1>4, <1>5 DEF d, o

(* What a restart finds.                                                   *)

LEMMA WholeIsFound ==
  ASSUME SnapshotConstants, SnapInv
  PROVE  Snapshot!RestartFindsAll /\ Snapshot!SavedLoads
<1> SUFFICES ASSUME status \in {"loaded", "load failed"}, lost = <<>>
             PROVE  status = "loaded" /\ loaded = saved
  BY DEF Snapshot!RestartFindsAll, Snapshot!SavedLoads
<1>1. Stored
  BY DEF SnapInv
<1>2. GoodSession(saved) /\ document = Whole /\ saved.usage.input <= MaxCounter
  BY <1>1 DEF Stored
<1>3. Snapshot!AcceptsSession(document) /\ Snapshot!RestoreSession(document) = saved
  BY <1>2, WholeComesBack DEF Whole
<1> QED BY <1>3 DEF SnapInv

LEMMA ResultsAreWithin ==
  ASSUME SnapInv
  PROVE  Snapshot!ResultsWithinCap
<1> SUFFICES ASSUME session # None, MaxBytes > 0,
                    NEW i \in DOMAIN session.messages, session.messages[i].role = "tool"
             PROVE  LET r == session.messages[i].parts[1].result
                        sent == {q \in Results : Snapshot!UpTo(q.content, Len(q.content)) <= MaxBytes}
                    IN  /\ Snapshot!UpTo(r.content, Len(r.content)) <= MaxBytes
                        /\ r.truncated \/ \E q \in sent : r.content = q.content
  BY DEF Snapshot!ResultsWithinCap
<1>1. Within(session.messages[i].parts[1].result)
  BY DEF SnapInv, GoodSession
<1> QED BY <1>1 DEF Within

LEMMA SnapTypes ==
  ASSUME SnapInv
  PROVE  Snapshot!TypeOK
<1>1. ASSUME session # None PROVE session.state \in Snapshot!SessionStates
  <2>1. session \in SavedSessions
    BY <1>1 DEF SnapInv, GoodSession
  <2> QED BY <2>1 DEF SavedSessions
<1>2. ASSUME session # None PROVE \A i \in DOMAIN session.messages : session.messages[i].id = MessageIds[i]
  BY <1>2 DEF SnapInv, GoodSession
<1>3. status \in {"new", "saved", "save failed", "damaged", "loaded", "load failed", "crashed"}
  BY DEF SnapInv
<1> QED BY <1>1, <1>2, <1>3 DEF Snapshot!TypeOK

(* A document that lacks a field is refused, or the field is optional and  *)
(* what comes back is the session with that field empty.                   *)
OptionalSession == {"pending", "checkpoint", "parent_session_id"}

SessionWithout(f, s) ==
  CASE f = "checkpoint" -> [s EXCEPT !.checkpoint = None]
    [] f = "pending" -> [s EXCEPT !.pending = None]
    [] f = "parent_session_id" -> [s EXCEPT !.parent = ""]

LEMMA FieldLost ==
  ASSUME SnapshotConstants, NEW s, GoodSession(s), s.usage.input <= MaxCounter,
         NEW f \in DOMAIN Snapshot!SnapshotSession(s)
  PROVE  LET d == Snapshot!Without(Snapshot!SnapshotSession(s), f)
         IN  \/ f \in Required /\ ~Snapshot!AcceptsSession(d)
             \/ /\ f \in OptionalSession /\ Snapshot!AcceptsSession(d)
                /\ Snapshot!RestoreSession(d) = SessionWithout(f, s)
<1> DEFINE o == Snapshot!SnapshotSession(s)
           d == Snapshot!Without(o, f)
<1>1. s \in SavedSessions /\ s.usage \in Snapshot!Usages
  BY DEF GoodSession, SavedSessions
<1>2. Injective /\ MaxCounter \in Nat
  BY DEF SnapshotConstants, Snapshot!ContentsAssumption, Snapshot!SnapshotAssumption, Injective
<1>3. /\ DocumentOf(o, s) /\ o.usage = Snapshot!SnapshotUsage(s.usage)
      /\ DOMAIN o \subseteq Required \cup OptionalSession
      /\ "pending" \in DOMAIN o <=> s.pending # None
      /\ "checkpoint" \in DOMAIN o <=> s.checkpoint # None
      /\ "parent_session_id" \in DOMAIN o <=> s.parent # ""
  BY <1>1, SavedAs DEF OptionalSession
<1>4. Snapshot!AcceptsUsage(o.usage) /\ Snapshot!RestoreUsage(o.usage) = s.usage
  BY <1>1, <1>2, <1>3, RoundUsage
<1>5. f \in Required \/ f \in OptionalSession
  BY <1>3 DEF o
<1> HIDE DEF o
<1>6. DOMAIN d = DOMAIN o \ {f} /\ \A g \in DOMAIN d : d[g] = o[g]
  BY DEF Snapshot!Without
<1> HIDE DEF d
<1>7. CASE f \in Required
  <2>1. ~(Required \subseteq DOMAIN d)
    BY <1>6, <1>7
  <2>2. ~Snapshot!AcceptsSession(d)
    BY <2>1 DEF Snapshot!AcceptsSession, Required
  <2> QED BY <1>7, <2>2 DEF d, o
<1>8. CASE f \in OptionalSession
  <2>1. f \in {"pending", "checkpoint", "parent_session_id"} /\ f \notin Required
    BY <1>8 DEF OptionalSession, Required
  <2>2. Required \subseteq DOMAIN d
    BY <1>3, <1>6, <2>1 DEF DocumentOf
  <2>3. DocumentOf(d, s) /\ d.usage = o.usage
    BY <1>3, <1>6, <2>2 DEF DocumentOf, Required
  <2>4. /\ Snapshot!AcceptsSession(d)
        /\ Snapshot!RestoreSession(d) =
             [id |-> s.id, user |-> s.user, agent |-> s.agent, model |-> s.model, state |-> s.state,
              messages |-> s.messages, pending |-> IF "pending" \in DOMAIN d THEN s.pending ELSE None,
              usage |-> s.usage,
              checkpoint |-> IF "checkpoint" \in DOMAIN d THEN s.checkpoint ELSE None,
              parent |-> IF "parent_session_id" \in DOMAIN d THEN s.parent ELSE ""]
    BY <1>1, <1>2, <1>4, <2>3, RoundSession
  <2>5. /\ (IF "pending" \in DOMAIN d THEN s.pending ELSE None) = IF f = "pending" THEN None ELSE s.pending
        /\ (IF "checkpoint" \in DOMAIN d THEN s.checkpoint ELSE None)
             = IF f = "checkpoint" THEN None ELSE s.checkpoint
        /\ (IF "parent_session_id" \in DOMAIN d THEN s.parent ELSE "")
             = IF f = "parent_session_id" THEN "" ELSE s.parent
    BY <1>3, <1>6
  <2>6. Snapshot!RestoreSession(d) =
          [id |-> s.id, user |-> s.user, agent |-> s.agent, model |-> s.model, state |-> s.state,
           messages |-> s.messages, pending |-> IF f = "pending" THEN None ELSE s.pending,
           usage |-> s.usage,
           checkpoint |-> IF f = "checkpoint" THEN None ELSE s.checkpoint,
           parent |-> IF f = "parent_session_id" THEN "" ELSE s.parent]
    BY <2>4, <2>5, Zenon
  <2>7. Snapshot!RestoreSession(d) = SessionWithout(f, s)
    <3>1. CASE f = "pending"
      BY <1>1, <2>6, <3>1, SessionAltered DEF SessionWithout
    <3>2. CASE f = "checkpoint"
      BY <1>1, <2>6, <3>2, SessionAltered DEF SessionWithout
    <3>3. CASE f = "parent_session_id"
      BY <1>1, <2>6, <3>3, SessionAltered DEF SessionWithout
    <3> QED BY <2>1, <3>1, <3>2, <3>3
  <2> QED BY <1>8, <2>4, <2>7 DEF d, o
<1> QED BY <1>5, <1>7, <1>8

LEMMA UsageLost ==
  ASSUME SnapshotConstants, NEW s, GoodSession(s), s.usage.input <= MaxCounter,
         NEW f \in DOMAIN Snapshot!SnapshotSession(s).usage
  PROVE  LET o == Snapshot!SnapshotSession(s)
             d == [o EXCEPT !.usage = Snapshot!Without(o.usage, f)]
         IN  \/ f \in RequiredUsage /\ ~Snapshot!AcceptsSession(d)
             \/ /\ f \in OptionalUsage /\ Snapshot!AcceptsSession(d)
                /\ Snapshot!RestoreSession(d) = [s EXCEPT !.usage = UsageWithout(f, s.usage)]
<1> DEFINE o == Snapshot!SnapshotSession(s)
           u == Snapshot!Without(o.usage, f)
           d == [o EXCEPT !.usage = u]
<1>1. s \in SavedSessions /\ s.usage \in Snapshot!Usages
  BY DEF GoodSession, SavedSessions
<1>2. Injective /\ MaxCounter \in Nat
  BY DEF SnapshotConstants, Snapshot!ContentsAssumption, Snapshot!SnapshotAssumption, Injective
<1>3. /\ DocumentOf(o, s) /\ o.usage = Snapshot!SnapshotUsage(s.usage)
      /\ "pending" \in DOMAIN o <=> s.pending # None
      /\ "checkpoint" \in DOMAIN o <=> s.checkpoint # None
      /\ "parent_session_id" \in DOMAIN o <=> s.parent # ""
  BY <1>1, SavedAs
<1>4. f \in DOMAIN Snapshot!SnapshotUsage(s.usage)
  BY <1>3
<1>5. /\ f \in RequiredUsage \/ f \in OptionalUsage
      /\ f \in RequiredUsage => ~Snapshot!AcceptsUsage(u)
      /\ f \in OptionalUsage => Snapshot!AcceptsUsage(u) /\ Snapshot!RestoreUsage(u) = UsageWithout(f, s.usage)
  BY <1>1, <1>2, <1>3, <1>4, UsageDamaged
<1> HIDE DEF o, u
<1>6. DOMAIN d = DOMAIN o /\ d.usage = u /\ \A g \in DOMAIN o : g # "usage" => d[g] = o[g]
  BY <1>3 DEF DocumentOf, Required
<1> HIDE DEF d
<1>7. CASE f \in RequiredUsage
  <2>1. ~Snapshot!AcceptsSession(d)
    BY <1>5, <1>6, <1>7 DEF Snapshot!AcceptsSession
  <2> QED BY <1>7, <2>1 DEF d, u, o
<1>8. CASE f \in OptionalUsage
  <2>1. DocumentOf(d, s)
    BY <1>3, <1>6 DEF DocumentOf, Required
  <2>2. Snapshot!AcceptsUsage(d.usage) /\ Snapshot!RestoreUsage(d.usage) = UsageWithout(f, s.usage)
    BY <1>5, <1>6, <1>8
  <2>3. /\ Snapshot!AcceptsSession(d)
        /\ Snapshot!RestoreSession(d) =
             [id |-> s.id, user |-> s.user, agent |-> s.agent, model |-> s.model, state |-> s.state,
              messages |-> s.messages, pending |-> IF "pending" \in DOMAIN d THEN s.pending ELSE None,
              usage |-> Snapshot!RestoreUsage(d.usage),
              checkpoint |-> IF "checkpoint" \in DOMAIN d THEN s.checkpoint ELSE None,
              parent |-> IF "parent_session_id" \in DOMAIN d THEN s.parent ELSE ""]
    BY <1>1, <1>2, <2>1, <2>2, RoundSession
  <2>4. /\ s.pending = IF "pending" \in DOMAIN d THEN s.pending ELSE None
        /\ s.checkpoint = IF "checkpoint" \in DOMAIN d THEN s.checkpoint ELSE None
        /\ s.parent = IF "parent_session_id" \in DOMAIN d THEN s.parent ELSE ""
    BY <1>3, <1>6
  <2>5. Snapshot!RestoreSession(d) =
          [id |-> s.id, user |-> s.user, agent |-> s.agent, model |-> s.model, state |-> s.state,
           messages |-> s.messages, pending |-> s.pending, usage |-> UsageWithout(f, s.usage),
           checkpoint |-> s.checkpoint, parent |-> s.parent]
    BY <2>2, <2>3, <2>4, Zenon
  <2>6. Snapshot!RestoreSession(d) = [s EXCEPT !.usage = UsageWithout(f, s.usage)]
    BY <1>1, <2>5, SessionAltered
  <2> QED BY <1>8, <2>3, <2>6 DEF d, u, o
<1> QED BY <1>5, <1>7, <1>8

LEMMA PartialIsFound ==
  ASSUME SnapshotConstants, SnapInv
  PROVE  Snapshot!PartialDocuments
<1> DEFINE Expected ==
             CASE lost = <<"session", "checkpoint">> -> [saved EXCEPT !.checkpoint = None]
               [] lost = <<"session", "pending">> -> [saved EXCEPT !.pending = None]
               [] lost = <<"session", "parent_session_id">> -> [saved EXCEPT !.parent = ""]
               [] lost = <<"usage", "cost_micros">> -> [saved EXCEPT !.usage.cost = 0]
               [] lost = <<"usage", "currency">> -> [saved EXCEPT !.usage.currency = ""]
               [] lost = <<"usage", "cached_input_tokens">> -> [saved EXCEPT !.usage.cached = 0]
               [] lost = <<"usage", "cache_write_tokens">> -> [saved EXCEPT !.usage.written = 0]
               [] OTHER -> None
<1> SUFFICES ASSUME status \in {"loaded", "load failed"}, lost # <<>>
             PROVE  loaded = Expected
  BY DEF Snapshot!PartialDocuments
<1>1. /\ Stored /\ GoodSession(saved) /\ saved.usage.input <= MaxCounter
      /\ loaded = IF Snapshot!AcceptsSession(document) THEN Snapshot!RestoreSession(document) ELSE None
  BY DEF SnapInv, Stored
<1>2. CASE \E f \in DOMAIN Whole : lost = <<"session", f>> /\ document = Snapshot!Without(Whole, f)
  <2>1. PICK f \in DOMAIN Whole : lost = <<"session", f>> /\ document = Snapshot!Without(Whole, f)
    BY <1>2
  <2>2. \/ f \in Required /\ ~Snapshot!AcceptsSession(document)
        \/ /\ f \in OptionalSession /\ Snapshot!AcceptsSession(document)
           /\ Snapshot!RestoreSession(document) = SessionWithout(f, saved)
    BY <1>1, <2>1, FieldLost DEF Whole
  <2>3. CASE f \in Required /\ ~Snapshot!AcceptsSession(document)
    <3>1. loaded = None
      BY <1>1, <2>3
    <3>2. f \notin OptionalSession
      BY <2>3 DEF Required, OptionalSession
    <3>3. Expected = None
      BY <2>1, <3>2 DEF OptionalSession
    <3> QED BY <3>1, <3>3
  <2>4. CASE /\ f \in OptionalSession /\ Snapshot!AcceptsSession(document)
             /\ Snapshot!RestoreSession(document) = SessionWithout(f, saved)
    <3>1. loaded = SessionWithout(f, saved)
      BY <1>1, <2>4
    <3>2. CASE f = "checkpoint"
      BY <2>1, <3>1, <3>2 DEF SessionWithout
    <3>3. CASE f = "pending"
      BY <2>1, <3>1, <3>3 DEF SessionWithout
    <3>4. CASE f = "parent_session_id"
      BY <2>1, <3>1, <3>4 DEF SessionWithout
    <3> QED BY <2>4, <3>2, <3>3, <3>4 DEF OptionalSession
  <2> QED BY <2>2, <2>3, <2>4
<1>3. CASE \E f \in DOMAIN Whole.usage :
             lost = <<"usage", f>> /\ document = [Whole EXCEPT !.usage = Snapshot!Without(Whole.usage, f)]
  <2>1. PICK f \in DOMAIN Whole.usage :
          lost = <<"usage", f>> /\ document = [Whole EXCEPT !.usage = Snapshot!Without(Whole.usage, f)]
    BY <1>3
  <2>2. \/ f \in RequiredUsage /\ ~Snapshot!AcceptsSession(document)
        \/ /\ f \in OptionalUsage /\ Snapshot!AcceptsSession(document)
           /\ Snapshot!RestoreSession(document) = [saved EXCEPT !.usage = UsageWithout(f, saved.usage)]
    BY <1>1, <2>1, UsageLost DEF Whole
  <2>3. CASE f \in RequiredUsage /\ ~Snapshot!AcceptsSession(document)
    <3>1. loaded = None
      BY <1>1, <2>3
    <3>2. f \notin OptionalUsage
      BY <2>3 DEF RequiredUsage, OptionalUsage
    <3>3. Expected = None
      BY <2>1, <3>2 DEF OptionalUsage
    <3> QED BY <3>1, <3>3
  <2>4. CASE /\ f \in OptionalUsage /\ Snapshot!AcceptsSession(document)
             /\ Snapshot!RestoreSession(document) = [saved EXCEPT !.usage = UsageWithout(f, saved.usage)]
    <3>1. loaded = [saved EXCEPT !.usage = UsageWithout(f, saved.usage)]
      BY <1>1, <2>4
    <3>2. CASE f = "cost_micros"
      BY <2>1, <3>1, <3>2 DEF UsageWithout
    <3>3. CASE f = "currency"
      BY <2>1, <3>1, <3>3 DEF UsageWithout
    <3>4. CASE f = "cached_input_tokens"
      BY <2>1, <3>1, <3>4 DEF UsageWithout
    <3>5. CASE f = "cache_write_tokens"
      BY <2>1, <3>1, <3>5 DEF UsageWithout
    <3> QED BY <2>4, <3>2, <3>3, <3>4, <3>5 DEF OptionalUsage
  <2> QED BY <2>2, <2>3, <2>4
<1> QED BY <1>1, <1>2, <1>3 DEF Stored

(* A restart finds the session as the last save left it, or, of a document *)
(* that lacks a field, what is left or nothing; and no result in it is     *)
(* beyond the cap (SnapshotSession, RestoreSession, truncateToolResult;    *)
(* FR-020, FR-DU-001, FR-CAP-001).                                         *)
SnapshotKept ==
  /\ Snapshot!TypeOK
  /\ Snapshot!RestartFindsAll
  /\ Snapshot!PartialDocuments
  /\ Snapshot!ResultsWithinCap
  /\ Snapshot!SavedLoads

(* For every list of inputs, answers and results, every cap and every      *)
(* number of crashes, damages and loads.                                   *)
THEOREM SnapshotComesBack == SnapshotConstants => (Snapshot!Spec => []SnapshotKept)
<1> SUFFICES ASSUME SnapshotConstants PROVE Snapshot!Spec => []SnapshotKept
  OBVIOUS
<1>1. Snapshot!Init => SnapInv
  BY SnapStarts
<1>2. SnapInv /\ [Snapshot!Next]_(Snapshot!vars) => SnapInv'
  BY SnapStep
<1>3. SnapInv => SnapshotKept
  BY SnapTypes, WholeIsFound, PartialIsFound, ResultsAreWithin DEF SnapshotKept
<1> QED BY <1>1, <1>2, <1>3, PTL DEF Snapshot!Spec
----------------------------------------------------------------------------
(* What a run checks of all parts: the part that moves is chosen once. *)

(* Whatever is reported, estimated, priced and however the integers        *)
(* saturate: no cost is below the bill, no estimate below the volume, and  *)
(* the totals of a session are the sums of its calls as long as they fit   *)
(* (costMicrosWithCache, estimateTokens, runTurn; FR-025, FR-PC-004).      *)
THEOREM HistoryAddsUp == Audit!UsageAssumption => (Spec => []AccountAddsUp)
<1> SUFFICES ASSUME Audit!UsageAssumption PROVE Spec => []AccountAddsUp
  OBVIOUS
<1>1. Init /\ part = "audit" => Audit!Init
  BY DEF Init
<1>2. [Next]_vars /\ part = "audit" => [Audit!Next]_(Audit!vars)
  BY DEF Next, vars, auditVars, Audit!vars
<1>3. [Next]_vars => (part = "audit" <=> (part = "audit")')
  BY DEF Next, vars
<1>4. Audit!Spec => [](Audit!NeverUnderestimates /\ Audit!TotalsAreSums)
  BY AccountExact
<1>5. Audit!NeverUnderestimates /\ Audit!TotalsAreSums => AccountAddsUp
  BY DEF AccountAddsUp
<1>6. ~(part = "audit") => AccountAddsUp
  BY DEF AccountAddsUp
<1> QED BY <1>1, <1>2, <1>3, <1>4, <1>5, <1>6, PTL DEF Spec, Audit!Spec

(* Whatever fails in the sink or at the provider and whatever the          *)
(* arguments: the trail holds every call, answered or not, or the host was *)
(* told that its event is missing or that it failed; it adds up to the     *)
(* account when no event is missing, and holds of the arguments whole      *)
(* characters that fit (recordModelCall, recordToolCall, truncate, the     *)
(* failure of chat in runTurn; FR-023 but for the event of a failed call). *)
THEOREM HistoryTrailWhole ==
  Audit!UsageAssumption /\ Audit!PayloadAssumption => (Spec => []TrailIsComplete)
<1> SUFFICES ASSUME Audit!UsageAssumption, Audit!PayloadAssumption PROVE Spec => []TrailIsComplete
  OBVIOUS
<1>1. Init /\ part = "audit" => Audit!Init
  BY DEF Init
<1>2. [Next]_vars /\ part = "audit" => [Audit!Next]_(Audit!vars)
  BY DEF Next, vars, auditVars, Audit!vars
<1>3. [Next]_vars => (part = "audit" <=> (part = "audit")')
  BY DEF Next, vars
<1>4. Audit!Spec => [](Audit!TrailIsComplete /\ Audit!PayloadsArePrefixes)
  BY TrailAgrees, PayloadsWhole, PTL
<1>5. Audit!TrailIsComplete /\ Audit!PayloadsArePrefixes => TrailIsComplete
  BY DEF TrailIsComplete
<1>6. ~(part = "audit") => TrailIsComplete
  BY DEF TrailIsComplete
<1> QED BY <1>1, <1>2, <1>3, <1>4, <1>5, <1>6, PTL DEF Spec, Audit!Spec

(* The same of the composite.                                              *)
THEOREM HistoryComesBack == SnapshotConstants => (Spec => []RestartFindsAll)
<1> SUFFICES ASSUME SnapshotConstants PROVE Spec => []RestartFindsAll
  OBVIOUS
<1>1. Init /\ part = "snapshot" => Snapshot!Init
  BY DEF Init
<1>2. [Next]_vars /\ part = "snapshot" => [Snapshot!Next]_(Snapshot!vars)
  BY DEF Next, vars, snapshotVars, Snapshot!vars
<1>3. [Next]_vars => (part = "snapshot" <=> (part = "snapshot")')
  BY DEF Next, vars
<1>4. Snapshot!Spec => []SnapshotKept
  BY SnapshotComesBack
<1>5. SnapshotKept => RestartFindsAll
  BY DEF SnapshotKept, RestartFindsAll
<1>6. ~(part = "snapshot") => RestartFindsAll
  BY DEF RestartFindsAll
<1> QED BY <1>1, <1>2, <1>3, <1>4, <1>5, <1>6, PTL DEF Spec, Snapshot!Spec

(* However long a turn and whatever its budget, sizes and summaries: what  *)
(* is sent keeps calls and results together, the system messages and the   *)
(* newest block, leaves out the oldest and no more than it must, and a     *)
(* turn is summarized at most once (applyWindow; FR-CTX-005, 006, 008,     *)
(* 010).                                                                   *)
THEOREM HistoryKeptWhole == ContextAssumption => (Spec => []CompactionKeepsWhole)
<1> SUFFICES ASSUME ContextAssumption PROVE Spec => []CompactionKeepsWhole
  OBVIOUS
<1>1. Init /\ part = "window" => Window!Init
  BY DEF Init
<1>2. [Next]_vars /\ part = "window" => [Window!Next]_(Window!vars)
  BY DEF Next, vars, windowVars, Window!vars
<1>3. [Next]_vars => (part = "window" <=> (part = "window")')
  BY DEF Next, vars
<1>4. Window!Spec => []KeepsWhole
  BY WindowKeepsWhole
<1>5. KeepsWhole => CompactionKeepsWhole
  BY DEF KeepsWhole, CompactionKeepsWhole
<1>6. ~(part = "window") => CompactionKeepsWhole
  BY DEF CompactionKeepsWhole
<1> QED BY <1>1, <1>2, <1>3, <1>4, <1>5, <1>6, PTL DEF Spec, Window!Spec
=============================================================================
