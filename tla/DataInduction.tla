---------------------------- MODULE DataInduction ----------------------------
(***************************************************************************)
(* Induction without operators as parameters.  A property is the set of    *)
(* what has it: a set of naturals that is closed under the successor is    *)
(* Nat, a set of subsets that holds a set when it holds the smaller ones   *)
(* holds all.  From these, the values of sums over sets, of repeated       *)
(* steps and of functions that are defined along a chain.                  *)
(***************************************************************************)
EXTENDS Integers, FiniteSetsExt, FiniteSetTheorems, TLAPS

(* A set of naturals that holds 0 and with every number the next is Nat. *)
LEMMA SetInduction ==
  ASSUME NEW T \in SUBSET Nat, 0 \in T, \A n \in T : n + 1 \in T
  PROVE  T = Nat
<1> SUFFICES ASSUME NEW n \in Nat, n \notin T PROVE FALSE
  OBVIOUS
<1> DEFINE S == (0 .. n) \ T
           pred == [x \in S |-> x - 1]
<1>1. IsFiniteSet(S)
  <2>1. IsFiniteSet(0 .. n)
    BY FS_Interval
  <2> QED BY <2>1, FS_Subset
<1>2. \A x \in S : x \in Nat /\ x # 0 /\ x - 1 \in S
  OBVIOUS
<1>3. pred \in Injection(S, S)
  <2>1. pred \in [S -> S]
    BY <1>2
  <2>2. \A x, y \in S : pred[x] = pred[y] => x = y
    BY <1>2
  <2> HIDE DEF pred, S
  <2> QED BY <2>1, <2>2 DEF Injection, IsInjective
<1>4. pred \in Surjection(S, S)
  <2> HIDE DEF pred, S
  <2> QED BY <1>1, <1>3, FS_Injection
<1>5. n \in S
  OBVIOUS
<1>6. PICK x \in S : pred[x] = n
  <2> HIDE DEF pred, S
  <2> QED BY <1>4, <1>5 DEF Surjection
<1>7. x = n + 1 /\ x \in 0 .. n
  BY <1>6
<1> QED BY <1>7

(* A set of naturals that is not empty has a least member.                 *)
LEMMA LeastExists ==
  ASSUME NEW S \in SUBSET Nat, S # {}
  PROVE  \E x \in S : \A y \in S : x <= y
<1> SUFFICES ASSUME \A x \in S : \E y \in S : y < x PROVE FALSE
  OBVIOUS
<1> DEFINE T == {n \in Nat : \A x \in S : n <= x}
<1>1. 0 \in T
  OBVIOUS
<1>2. ASSUME NEW n \in T
      PROVE  n + 1 \in T
  <2> SUFFICES ASSUME NEW x \in S PROVE n + 1 <= x
    OBVIOUS
  <2>1. PICK y \in S : y < x
    OBVIOUS
  <2> QED BY <2>1
<1>3. T = Nat
  <2>1. T \in SUBSET Nat
    OBVIOUS
  <2> HIDE DEF T
  <2> QED BY <1>1, <1>2, <2>1, SetInduction
<1>4. PICK x \in S : TRUE
  OBVIOUS
<1>5. x + 1 \in T
  BY <1>3
<1> QED BY <1>5

(* The sum of g over a set. *)
SumOf(g, S) == MapThenSumSet(LAMBDA t : g[t], S)

AnyOf(s) == CHOOSE x \in s : TRUE
Summed(g, S, f) == f = [s \in SUBSET S |-> IF s = {} THEN 0 ELSE g[AnyOf(s)] + f[s \ {AnyOf(s)}]]

(* MapThenSumSet is the value of a recursive function on sets.             *)
LEMMA SumIs == ASSUME NEW g, NEW S PROVE SumOf(g, S) = (CHOOSE f : Summed(g, S, f))[S]
  BY DEF SumOf, MapThenSumSet, MapThenFoldSet, Summed, AnyOf

(* Induction over the subsets of a finite set.                             *)
LEMMA SubsetInduction ==
  ASSUME NEW S, IsFiniteSet(S), NEW T,
         \A s \in SUBSET S : (\A r \in SUBSET s : r # s => r \in T) => s \in T
  PROVE  \A s \in SUBSET S : s \in T
<1> DEFINE N == {n \in Nat : \A s \in SUBSET S : Cardinality(s) <= n => s \in T}
<1>1. \A s \in SUBSET S : IsFiniteSet(s) /\ Cardinality(s) \in Nat
  BY FS_Subset, FS_CardinalityType
<1>2. 0 \in N
  <2> SUFFICES ASSUME NEW s \in SUBSET S, Cardinality(s) <= 0 PROVE s \in T
    OBVIOUS
  <2>1. s = {}
    BY <1>1, FS_EmptySet
  <2>2. \A r \in SUBSET s : r = s
    BY <2>1
  <2> QED BY <2>2
<1>3. ASSUME NEW n \in N
      PROVE  n + 1 \in N
  <2> SUFFICES ASSUME NEW s \in SUBSET S, Cardinality(s) <= n + 1 PROVE s \in T
    OBVIOUS
  <2>1. ASSUME NEW r \in SUBSET s, r # s
        PROVE  r \in T
    <3>1. Cardinality(r) <= Cardinality(s) /\ Cardinality(r) # Cardinality(s)
      BY <1>1, <2>1, FS_Subset
    <3>2. Cardinality(r) <= n
      BY <1>1, <3>1
    <3> QED BY <3>2
  <2> QED BY <2>1
<1>4. N = Nat
  <2>1. N \in SUBSET Nat
    OBVIOUS
  <2> HIDE DEF N
  <2> QED BY <1>2, <1>3, <2>1, SetInduction
<1>5. ASSUME NEW s \in SUBSET S
      PROVE  s \in T
  <2>1. Cardinality(s) \in N
    BY <1>1, <1>4
  <2> QED BY <1>1, <2>1
<1> QED BY <1>5

Part(g, f, s) == IF s = {} THEN 0 ELSE g[AnyOf(s)] + f[s \ {AnyOf(s)}]

(* What CHOOSE takes from a set is in it.                                  *)
LEMMA AnyIn == \A s : s # {} => AnyOf(s) \in s
  BY DEF AnyOf

(* The recursion of the sum has a solution.                                *)
LEMMA SumExists ==
  ASSUME NEW g, NEW S, IsFiniteSet(S)
  PROVE  \E f : Summed(g, S, f)
<1> DEFINE Good(f, n) == \A s \in SUBSET S : Cardinality(s) <= n => f[s] = Part(g, f, s)
           N == {n \in Nat : \E f : Good(f, n)}
<1>1. \A s \in SUBSET S : IsFiniteSet(s) /\ Cardinality(s) \in Nat
  BY FS_Subset, FS_CardinalityType
<1>2. 0 \in N
  <2>1. Good([s \in SUBSET S |-> 0], 0)
    BY <1>1, FS_EmptySet DEF Part
  <2> QED BY <2>1
<1>3. ASSUME NEW n \in N
      PROVE  n + 1 \in N
  <2>1. PICK f : Good(f, n)
    OBVIOUS
  <2> DEFINE h == [s \in SUBSET S |-> Part(g, f, s)]
  <2>2. ASSUME NEW s \in SUBSET S, Cardinality(s) <= n + 1
        PROVE  h[s] = Part(g, h, s)
    <3>1. CASE s = {}
      BY <3>1 DEF Part
    <3>2. CASE s # {}
      <4> DEFINE r == s \ {AnyOf(s)}
      <4>1. r \in SUBSET S /\ Cardinality(r) = Cardinality(s) - 1
        BY <1>1, <3>2, AnyIn, FS_RemoveElement
      <4>2. Cardinality(r) <= n
        BY <1>1, <2>2, <4>1
      <4>3. h[r] = f[r]
        BY <2>1, <4>1, <4>2
      <4>4. h[s] = g[AnyOf(s)] + f[r] /\ Part(g, h, s) = g[AnyOf(s)] + h[r]
        BY <3>2 DEF Part
      <4> QED BY <4>3, <4>4
    <3> QED BY <3>1, <3>2
  <2>3. Good(h, n + 1)
    BY <2>2
  <2> HIDE DEF h
  <2> QED BY <2>3
<1>4. N = Nat
  <2>1. N \in SUBSET Nat
    OBVIOUS
  <2> HIDE DEF N
  <2> QED BY <1>2, <1>3, <2>1, SetInduction
<1>5. PICK f : Good(f, Cardinality(S))
  BY <1>1, <1>4
<1>6. \A s \in SUBSET S : f[s] = Part(g, f, s)
  BY <1>1, <1>5, FS_Subset
<1>7. Summed(g, S, [s \in SUBSET S |-> f[s]])
  <2> DEFINE h == [s \in SUBSET S |-> f[s]]
  <2>1. ASSUME NEW s \in SUBSET S
        PROVE  h[s] = Part(g, h, s)
    <3>1. s \ {AnyOf(s)} \in SUBSET S
      OBVIOUS
    <3> QED BY <1>6, <3>1 DEF Part
  <2>2. h = [s \in SUBSET S |-> h[s]]
    OBVIOUS
  <2> HIDE DEF h
  <2>3. h = [s \in SUBSET S |-> Part(g, h, s)]
    BY <2>1, <2>2
  <2> QED BY <2>3 DEF Summed, Part, h
<1> QED BY <1>7

(* A sum is one member, whichever it is, and the sum of the rest.          *)
LEMMA SumUnfolds ==
  ASSUME NEW g, NEW S, IsFiniteSet(S)
  PROVE  SumOf(g, S) = IF S = {} THEN 0 ELSE g[AnyOf(S)] + SumOf(g, S \ {AnyOf(S)})
<1> DEFINE R == S \ {AnyOf(S)}
           f == CHOOSE k : Summed(g, S, k)
           h == CHOOSE k : Summed(g, R, k)
<1>1. IsFiniteSet(R)
  BY FS_Subset
<1>2. Summed(g, S, f) /\ Summed(g, R, h)
  BY <1>1, SumExists
<1>3. SumOf(g, S) = f[S] /\ SumOf(g, R) = h[R]
  BY SumIs
<1> HIDE DEF f, h
<1>4. /\ \A s \in SUBSET S : f[s] = Part(g, f, s)
      /\ \A s \in SUBSET R : h[s] = Part(g, h, s)
  BY <1>2 DEF Summed, Part
<1> DEFINE T == {s \in SUBSET R : f[s] = h[s]}
<1>5. ASSUME NEW s \in SUBSET R, \A r \in SUBSET s : r # s => r \in T
      PROVE  s \in T
  <2>1. CASE s = {}
    BY <1>4, <2>1 DEF Part
  <2>2. CASE s # {}
    <3>1. s \ {AnyOf(s)} \in T
      BY <1>5, <2>2, AnyIn
    <3>2. f[s \ {AnyOf(s)}] = h[s \ {AnyOf(s)}]
      BY <3>1
    <3>3. s \in SUBSET S /\ f[s] = Part(g, f, s) /\ h[s] = Part(g, h, s)
      BY <1>4
    <3> HIDE DEF T
    <3>4. Part(g, f, s) = Part(g, h, s)
      BY <2>2, <3>2 DEF Part
    <3> QED BY <3>3, <3>4 DEF T
  <2> QED BY <2>1, <2>2
<1>6. R \in T
  <2> HIDE DEF R, T
  <2>1. \A s \in SUBSET R : s \in T
    BY <1>1, <1>5, SubsetInduction
  <2> QED BY <2>1
<1>7. f[R] = h[R]
  BY <1>6
<1> QED BY <1>3, <1>4, <1>7 DEF Part

(* A sum of naturals is a natural.                                         *)
LEMMA SumNatural ==
  ASSUME NEW S, IsFiniteSet(S), NEW g, \A x \in S : g[x] \in Nat
  PROVE  SumOf(g, S) \in Nat
<1> DEFINE T == {s \in SUBSET S : SumOf(g, s) \in Nat}
<1>1. ASSUME NEW s \in SUBSET S, \A r \in SUBSET s : r # s => r \in T
      PROVE  s \in T
  <2>0. IsFiniteSet(s)
    BY FS_Subset
  <2>1. CASE s = {}
    <3>1. SumOf(g, s) = 0
      BY <2>0, <2>1, SumUnfolds
    <3> QED BY <3>1
  <2>2. CASE s # {}
    <3>1. s \ {AnyOf(s)} \in T /\ g[AnyOf(s)] \in Nat
      BY <1>1, <2>2, AnyIn
    <3> QED BY <2>0, <2>2, <3>1, SumUnfolds
  <2> QED BY <2>1, <2>2
<1>2. S \in T
  <2> HIDE DEF T
  <2>1. \A s \in SUBSET S : s \in T
    BY <1>1, SubsetInduction
  <2> QED BY <2>1
<1> QED BY <1>2

(* Any member can be taken out of a sum first.                             *)
LEMMA SumTakes ==
  ASSUME NEW S, IsFiniteSet(S), NEW g, \A x \in S : g[x] \in Nat, NEW x \in S
  PROVE  SumOf(g, S) = g[x] + SumOf(g, S \ {x})
<1> DEFINE T == {s \in SUBSET S : \A y \in s : SumOf(g, s) = g[y] + SumOf(g, s \ {y})}
<1>0. \A s \in SUBSET S : IsFiniteSet(s) /\ SumOf(g, s) \in Nat
  BY FS_Subset, SumNatural
<1>1. ASSUME NEW s \in SUBSET S, \A r \in SUBSET s : r # s => r \in T
      PROVE  s \in T
  <2> SUFFICES ASSUME NEW y \in s PROVE SumOf(g, s) = g[y] + SumOf(g, s \ {y})
    OBVIOUS
  <2> DEFINE a == AnyOf(s)
  <2>1. a \in s /\ SumOf(g, s) = g[a] + SumOf(g, s \ {a})
    BY <1>0, AnyIn, SumUnfolds
  <2> HIDE DEF a
  <2>2. CASE y = a
    BY <2>1, <2>2
  <2>3. CASE y # a
    <3>1. s \ {a} \in T /\ s \ {y} \in T
      BY <1>1, <2>1
    <3>2. y \in s \ {a} /\ a \in s \ {y}
      BY <2>1, <2>3
    <3>3. SumOf(g, s \ {a}) = g[y] + SumOf(g, (s \ {a}) \ {y})
      BY <3>1, <3>2
    <3>4. SumOf(g, s \ {y}) = g[a] + SumOf(g, (s \ {y}) \ {a})
      BY <3>1, <3>2
    <3>5. (s \ {a}) \ {y} = (s \ {y}) \ {a}
      OBVIOUS
    <3> DEFINE rest == SumOf(g, (s \ {y}) \ {a})
    <3>6. g[a] \in Nat /\ g[y] \in Nat /\ rest \in Nat
      BY <1>0, <2>1
    <3>7. SumOf(g, s) = g[a] + (g[y] + rest) /\ SumOf(g, s \ {y}) = g[a] + rest
      BY <2>1, <3>3, <3>4, <3>5
    <3> HIDE DEF rest
    <3> QED BY <3>6, <3>7
  <2> QED BY <2>2, <2>3
<1>2. S \in T
  <2> HIDE DEF T
  <2>1. \A s \in SUBSET S : s \in T
    BY <1>1, SubsetInduction
  <2> QED BY <2>1
<1> QED BY <1>2

(* What is summed decides the sum.                                         *)
LEMMA SumSame ==
  ASSUME NEW S, IsFiniteSet(S), NEW g, NEW h, \A x \in S : g[x] = h[x]
  PROVE  SumOf(g, S) = SumOf(h, S)
<1> DEFINE T == {s \in SUBSET S : SumOf(g, s) = SumOf(h, s)}
<1>1. ASSUME NEW s \in SUBSET S, \A r \in SUBSET s : r # s => r \in T
      PROVE  s \in T
  <2>0. IsFiniteSet(s)
    BY FS_Subset
  <2>1. CASE s = {}
    BY <2>0, <2>1, SumUnfolds
  <2>2. CASE s # {}
    <3>1. s \ {AnyOf(s)} \in T /\ g[AnyOf(s)] = h[AnyOf(s)]
      BY <1>1, <2>2, AnyIn
    <3> QED BY <2>0, <2>2, <3>1, SumUnfolds
  <2> QED BY <2>1, <2>2
<1>2. S \in T
  <2> HIDE DEF T
  <2>1. \A s \in SUBSET S : s \in T
    BY <1>1, SubsetInduction
  <2> QED BY <2>1
<1> QED BY <1>2

(* A sum of zeros.                                                         *)
LEMMA SumOfNothing ==
  ASSUME NEW S, IsFiniteSet(S), NEW g, \A x \in S : g[x] = 0
  PROVE  SumOf(g, S) = 0
<1> DEFINE T == {s \in SUBSET S : SumOf(g, s) = 0}
<1>1. ASSUME NEW s \in SUBSET S, \A r \in SUBSET s : r # s => r \in T
      PROVE  s \in T
  <2>0. IsFiniteSet(s)
    BY FS_Subset
  <2>1. CASE s = {}
    BY <2>0, <2>1, SumUnfolds
  <2>2. CASE s # {}
    <3>1. s \ {AnyOf(s)} \in T /\ g[AnyOf(s)] = 0
      BY <1>1, <2>2, AnyIn
    <3> QED BY <2>0, <2>2, <3>1, SumUnfolds
  <2> QED BY <2>1, <2>2
<1>2. S \in T
  <2> HIDE DEF T
  <2>1. \A s \in SUBSET S : s \in T
    BY <1>1, SubsetInduction
  <2> QED BY <2>1
<1> QED BY <1>2

(* One more at x is one more of the sum of a set that holds x. *)
LEMMA SumOneMore ==
  ASSUME NEW S, IsFiniteSet(S), NEW g, NEW h, \A y \in S : g[y] \in Nat,
         NEW x, x \in S => h[x] = g[x] + 1, \A y \in S \ {x} : h[y] = g[y]
  PROVE  SumOf(h, S) = SumOf(g, S) + (IF x \in S THEN 1 ELSE 0)
<1>0. SumOf(g, S) \in Nat
  BY SumNatural
<1>1. CASE x \in S
  <2>1. \A y \in S : h[y] \in Nat
    BY <1>1
  <2>2. IsFiniteSet(S \ {x})
    BY FS_Subset
  <2>3. SumOf(h, S \ {x}) = SumOf(g, S \ {x}) /\ SumOf(g, S \ {x}) \in Nat
    BY <2>2, SumSame, SumNatural
  <2>4. SumOf(h, S) = h[x] + SumOf(h, S \ {x}) /\ SumOf(g, S) = g[x] + SumOf(g, S \ {x})
    BY <1>1, <2>1, SumTakes
  <2> QED BY <1>1, <2>3, <2>4
<1>2. CASE x \notin S
  BY <1>0, <1>2, SumSame
<1> QED BY <1>1, <1>2

(* A sum over more is not less.                                            *)
LEMMA SumOfMore ==
  ASSUME NEW S, IsFiniteSet(S), NEW g, \A x \in S : g[x] \in Nat, NEW R \in SUBSET S
  PROVE  SumOf(g, R) <= SumOf(g, S)
<1> DEFINE T == {s \in SUBSET S : \A r \in SUBSET s : SumOf(g, r) <= SumOf(g, s)}
<1>0. \A s \in SUBSET S : IsFiniteSet(s) /\ SumOf(g, s) \in Nat
  BY FS_Subset, SumNatural
<1>1. ASSUME NEW s \in SUBSET S, \A r \in SUBSET s : r # s => r \in T
      PROVE  s \in T
  <2> SUFFICES ASSUME NEW r \in SUBSET s, r # s PROVE SumOf(g, r) <= SumOf(g, s)
    BY <1>0
  <2>1. PICK x \in s : x \notin r
    OBVIOUS
  <2>2. SumOf(g, s) = g[x] + SumOf(g, s \ {x})
    BY <1>0, SumTakes
  <2>3. s \ {x} \in T /\ r \in SUBSET (s \ {x})
    BY <1>1, <2>1
  <2>4. SumOf(g, r) <= SumOf(g, s \ {x})
    BY <2>3
  <2>5. g[x] \in Nat /\ SumOf(g, s \ {x}) \in Nat /\ SumOf(g, r) \in Nat
    BY <1>0
  <2> HIDE DEF T
  <2> QED BY <2>2, <2>4, <2>5
<1>2. S \in T
  <2> HIDE DEF T
  <2>1. \A s \in SUBSET S : s \in T
    BY <1>1, SubsetInduction
  <2> QED BY <2>1
<1> QED BY <1>2
----------------------------------------------------------------------------
(* Products and quotients.                                                 *)

(* A product grows with its factor.                                        *)
LEMMA ProductGrows ==
  ASSUME NEW a \in Nat, NEW x \in Int, NEW y \in Int, x <= y
  PROVE  a * x <= a * y
  OBVIOUS

(* What is below a modulus is its own remainder.                           *)
LEMMA SmallStays == ASSUME NEW a \in Nat, NEW b \in Nat, a < b PROVE a % b = a
  OBVIOUS

(* What a quotient is, and what is left.                                   *)
LEMMA Quotient ==
  ASSUME NEW p \in Nat \ {0}, NEW k \in Nat
  PROVE  k \div p \in Nat /\ p * (k \div p) <= k /\ k < p * (k \div p) + p
  OBVIOUS

(* Whole periods that fit into a time are no more than its quotient.       *)
LEMMA FitsQuotient ==
  ASSUME NEW p \in Nat \ {0}, NEW k \in Nat, NEW n \in Int, NEW m \in Nat, p * n <= m * p + k
  PROVE  n <= m + k \div p
<1> DEFINE q == k \div p
<1>1. q \in Nat /\ k < p * q + p
  BY Quotient
<1> HIDE DEF q
<1>2. SUFFICES ASSUME m + q + 1 <= n PROVE FALSE
  BY <1>1 DEF q
<1>3. p * (m + q + 1) <= p * n
  BY <1>1, <1>2, ProductGrows
<1>4. p * (m + q + 1) = m * p + p * q + p
  BY <1>1
<1>5. p * n \in Int /\ m * p \in Int /\ p * q \in Int
  BY <1>1
<1> QED BY <1>1, <1>3, <1>4, <1>5
----------------------------------------------------------------------------
(* What a step taken again and again from a first value gives.             *)

Iterates(f, n, S, first, step) ==
  /\ f \in [0 .. n -> S]
  /\ f[0] = first
  /\ \A i \in 1 .. n : f[i] = step[f[i - 1]]

(* A step can be repeated any number of times.                             *)
LEMMA IterationExists ==
  ASSUME NEW S, NEW first \in S, NEW step \in [S -> S], NEW n \in Nat
  PROVE  \E f : Iterates(f, n, S, first, step)
<1> DEFINE T == {m \in Nat : \E f : Iterates(f, m, S, first, step)}
<1>1. 0 \in T
  <2>1. Iterates([i \in 0 .. 0 |-> first], 0, S, first, step)
    BY DEF Iterates
  <2> QED BY <2>1
<1>2. ASSUME NEW m \in T
      PROVE  m + 1 \in T
  <2>1. PICK f : Iterates(f, m, S, first, step)
    OBVIOUS
  <2>2. m \in Nat /\ f \in [0 .. m -> S] /\ f[0] = first /\ \A i \in 1 .. m : f[i] = step[f[i - 1]]
    BY <2>1 DEF Iterates
  <2> DEFINE g == [i \in 0 .. m + 1 |-> IF i = m + 1 THEN step[f[m]] ELSE f[i]]
  <2>3. f[m] \in S /\ step[f[m]] \in S
    BY <2>2
  <2>4. g \in [0 .. m + 1 -> S] /\ g[0] = first
    BY <2>2, <2>3
  <2>5. ASSUME NEW i \in 1 .. m + 1
        PROVE  g[i] = step[g[i - 1]]
    <3>1. CASE i = m + 1
      BY <2>2, <3>1
    <3>2. CASE i # m + 1
      BY <2>2, <3>2
    <3> QED BY <3>1, <3>2
  <2> HIDE DEF g
  <2>6. Iterates(g, m + 1, S, first, step)
    BY <2>4, <2>5 DEF Iterates
  <2> QED BY <2>2, <2>6
<1>3. T = Nat
  <2>1. T \in SUBSET Nat
    OBVIOUS
  <2> HIDE DEF T
  <2> QED BY <1>1, <1>2, <2>1, SetInduction
<1> QED BY <1>3

(* Repeating a step from one value gives the same values.                  *)
LEMMA IterationUnique ==
  ASSUME NEW S, NEW first, NEW step, NEW m \in Nat, NEW n \in Nat, NEW f, NEW h,
         Iterates(f, m, S, first, step), Iterates(h, n, S, first, step)
  PROVE  \A i \in Nat : i <= m /\ i <= n => f[i] = h[i]
<1> DEFINE T == {i \in Nat : i <= m /\ i <= n => f[i] = h[i]}
<1>1. 0 \in T
  BY DEF Iterates
<1>2. ASSUME NEW i \in T
      PROVE  i + 1 \in T
  <2> SUFFICES ASSUME i + 1 <= m, i + 1 <= n PROVE f[i + 1] = h[i + 1]
    OBVIOUS
  <2>1. i \in Nat /\ f[i] = h[i] /\ i + 1 \in 1 .. m /\ i + 1 \in 1 .. n /\ (i + 1) - 1 = i
    OBVIOUS
  <2>2. f[i + 1] = step[f[i]] /\ h[i + 1] = step[h[i]]
    BY <2>1 DEF Iterates
  <2> QED BY <2>1, <2>2
<1>3. T = Nat
  <2>1. T \in SUBSET Nat
    OBVIOUS
  <2> HIDE DEF T
  <2> QED BY <1>1, <1>2, <2>1, SetInduction
<1> QED BY <1>3

(* A set that holds a place whenever it holds all places before it.        *)
LEMMA PlaceInduction ==
  ASSUME NEW n \in Nat, NEW T,
         \A k \in 1 .. n : (\A j \in 1 .. n : j < k => j \in T) => k \in T
  PROVE  \A k \in 1 .. n : k \in T
<1> DEFINE S == {k \in 1 .. n : k \notin T}
<1> SUFFICES ASSUME S # {} PROVE FALSE
  OBVIOUS
<1>1. S \in SUBSET Nat
  OBVIOUS
<1> HIDE DEF S
<1>2. PICK x \in S : \A y \in S : x <= y
  BY <1>1, LeastExists
<1>3. x \in 1 .. n /\ x \notin T
  BY <1>2 DEF S
<1>4. \A j \in 1 .. n : j < x => j \in T
  <2> SUFFICES ASSUME NEW j \in 1 .. n, j < x, j \notin T PROVE FALSE
    OBVIOUS
  <2>1. j \in S
    BY DEF S
  <2> QED BY <1>2, <1>3, <2>1
<1> QED BY <1>3, <1>4

(* A value for each place, from that of an earlier place where one is      *)
(* named, and from nothing elsewhere.                                      *)
Chained(f, n, S, before, first, step) ==
  /\ f \in [1 .. n -> S]
  /\ \A k \in 1 .. n : f[k] = IF before[k] = 0 THEN first[k] ELSE step[k][f[before[k]]]

LEMMA ChainExists ==
  ASSUME NEW n \in Nat, NEW S, NEW before \in [1 .. n -> Nat], \A k \in 1 .. n : before[k] < k,
         NEW first \in [1 .. n -> S], NEW step \in [1 .. n -> [S -> S]]
  PROVE  \E f : Chained(f, n, S, before, first, step)
<1> DEFINE T == {m \in Nat : m <= n => \E f : Chained(f, m, S, before, first, step)}
<1>1. 0 \in T
  <2>1. Chained([k \in 1 .. 0 |-> first[k]], 0, S, before, first, step)
    BY DEF Chained
  <2> QED BY <2>1
<1>2. ASSUME NEW m \in T
      PROVE  m + 1 \in T
  <2> SUFFICES ASSUME m + 1 <= n PROVE \E f : Chained(f, m + 1, S, before, first, step)
    OBVIOUS
  <2>1. PICK f : Chained(f, m, S, before, first, step)
    OBVIOUS
  <2>2. /\ m \in Nat /\ f \in [1 .. m -> S] /\ m + 1 \in 1 .. n
        /\ \A k \in 1 .. m : f[k] = IF before[k] = 0 THEN first[k] ELSE step[k][f[before[k]]]
    BY <2>1 DEF Chained
  <2> DEFINE value == IF before[m + 1] = 0 THEN first[m + 1] ELSE step[m + 1][f[before[m + 1]]]
             g == [k \in 1 .. m + 1 |-> IF k = m + 1 THEN value ELSE f[k]]
  <2>3. value \in S
    <3>1. before[m + 1] # 0 => before[m + 1] \in 1 .. m
      BY <2>2
    <3>2. before[m + 1] # 0 => f[before[m + 1]] \in S
      BY <2>2, <3>1
    <3>3. first[m + 1] \in S /\ step[m + 1] \in [S -> S]
      BY <2>2
    <3> QED BY <3>2, <3>3
  <2> HIDE DEF value
  <2>4. /\ g \in [1 .. m + 1 -> S] /\ g[m + 1] = value /\ \A k \in 1 .. m : g[k] = f[k]
    BY <2>2, <2>3
  <2> HIDE DEF g
  <2>5. ASSUME NEW k \in 1 .. m + 1
        PROVE  g[k] = IF before[k] = 0 THEN first[k] ELSE step[k][g[before[k]]]
    <3>1. before[k] # 0 => before[k] \in 1 .. m
      BY <2>2
    <3>2. before[k] # 0 => g[before[k]] = f[before[k]]
      BY <2>4, <3>1
    <3>3. CASE k = m + 1
      BY <2>4, <3>2, <3>3 DEF value
    <3>4. CASE k # m + 1
      <4>1. k \in 1 .. m
        BY <2>2, <3>4
      <4> QED BY <2>2, <2>4, <3>2, <4>1
    <3> QED BY <3>3, <3>4
  <2>6. Chained(g, m + 1, S, before, first, step)
    BY <2>4, <2>5 DEF Chained
  <2> QED BY <2>6
<1>3. T = Nat
  <2>1. T \in SUBSET Nat
    OBVIOUS
  <2> HIDE DEF T
  <2> QED BY <1>1, <1>2, <2>1, SetInduction
<1>4. n \in T /\ n <= n
  <2> HIDE DEF T
  <2> QED BY <1>3
<1> QED BY <1>4

(* Which of the members of S the number i is, in their order.              *)
RankIn(S, i) == Cardinality({j \in S : j <= i})

(* The members of a finite set of naturals have the ranks from 1 on.       *)
LEMMA RanksAreAll ==
  ASSUME NEW S \in SUBSET Nat, IsFiniteSet(S)
  PROVE  /\ Cardinality(S) \in Nat
         /\ \A i \in S : RankIn(S, i) \in 1 .. Cardinality(S)
         /\ \A i, j \in S : i < j => RankIn(S, i) < RankIn(S, j)
         /\ \A k \in 1 .. Cardinality(S) : \E i \in S : RankIn(S, i) = k
<1> DEFINE n == Cardinality(S)
           upto(i) == {j \in S : j <= i}
<1>1. n \in Nat
  BY FS_CardinalityType
<1>2. ASSUME NEW i \in S
      PROVE  RankIn(S, i) \in 1 .. n
  <2>1. upto(i) \in SUBSET S /\ i \in upto(i)
    OBVIOUS
  <2>2. IsFiniteSet(upto(i)) /\ Cardinality(upto(i)) <= n
    BY <2>1, FS_Subset
  <2>3. Cardinality(upto(i)) \in Nat /\ Cardinality(upto(i)) # 0
    BY <2>1, <2>2, FS_CardinalityType, FS_EmptySet
  <2> QED BY <1>1, <2>2, <2>3 DEF RankIn
<1>3. ASSUME NEW i \in S, NEW j \in S, i < j
      PROVE  RankIn(S, i) < RankIn(S, j)
  <2>1. upto(i) \in SUBSET upto(j) /\ j \in upto(j) /\ j \notin upto(i) /\ upto(j) \in SUBSET S
    <3>1. i \in Nat /\ j \in Nat /\ S \in SUBSET Nat
      OBVIOUS
    <3>2. \A x \in Nat : x <= i => x <= j
      BY <1>3, <3>1
    <3>3. ~(j <= i) /\ j <= j
      BY <1>3, <3>1
    <3> QED BY <3>1, <3>2, <3>3
  <2>2. IsFiniteSet(upto(j)) /\ IsFiniteSet(upto(i))
    BY <2>1, FS_Subset
  <2>3. Cardinality(upto(i)) < Cardinality(upto(j))
    <3>1. upto(i) # upto(j)
      BY <2>1
    <3> HIDE DEF upto
    <3>2. /\ Cardinality(upto(i)) <= Cardinality(upto(j))
          /\ Cardinality(upto(i)) = Cardinality(upto(j)) => upto(i) = upto(j)
      BY <2>1, <2>2, FS_Subset
    <3>3. Cardinality(upto(i)) \in Nat /\ Cardinality(upto(j)) \in Nat
      BY <2>2, FS_CardinalityType
    <3> QED BY <3>1, <3>2, <3>3
  <2> QED BY <2>3 DEF RankIn
<1> DEFINE rank == [i \in S |-> RankIn(S, i)]
<1>4. rank \in Surjection(S, 1 .. n)
  <2>1. rank \in [S -> 1 .. n] /\ \A i \in S : rank[i] = RankIn(S, i)
    BY <1>2
  <2>2. \A i, j \in S : rank[i] = rank[j] => i = j
    <3> SUFFICES ASSUME NEW i \in S, NEW j \in S, rank[i] = rank[j] PROVE i = j
      OBVIOUS
    <3>1. ~(i < j) /\ ~(j < i)
      BY <1>2, <1>3, <2>1
    <3> QED BY <3>1
  <2> HIDE DEF rank
  <2>3. rank \in Injection(S, 1 .. n)
    BY <2>1, <2>2 DEF Injection, IsInjective
  <2>4. IsFiniteSet(1 .. n) /\ Cardinality(1 .. n) = n
    BY <1>1, FS_Interval
  <2> QED BY <2>3, <2>4, FS_Injection
<1>5. ASSUME NEW k \in 1 .. n
      PROVE  \E i \in S : RankIn(S, i) = k
  <2>1. PICK i \in S : rank[i] = k
    <3> HIDE DEF rank
    <3> QED BY <1>4 DEF Surjection
  <2> QED BY <2>1
<1> QED BY <1>1, <1>2, <1>3, <1>5
=============================================================================
