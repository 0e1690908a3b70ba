--------------------------- MODULE ArithmeticProofs ---------------------------
(***************************************************************************)
(* Proofs about the operators that the models compute with, for all values *)
(* of their arguments.  First the rounding of prices: what a match of two  *)
(* limit orders exchanges.  Then sums over finite sets, as the models      *)
(* write them (SumFunction of module Functions): the totals that the chain *)
(* keeps are only ever changed by differences, so what is needed is how a  *)
(* sum moves when one summand changes, is added or is removed.             *)
(***************************************************************************)
EXTENDS Prices, Sequences, FiniteSets, Functions, WellFoundedInduction, TLAPS

(* A step that names no prover is tried with the SMT solver, with Zenon,   *)
(* and with the SMT solver once more.                                      *)
USE SMTT(20), Zenon, SMTT(30)

(* match_limit_normal_limit, for all amounts and prices: neither order     *)
(* pays more than it has for sale; the bigger order gets no less than the  *)
(* price for what it pays; and what is left of the smaller order is worth  *)
(* nothing at the price, so that it is culled, as the comments there say.  *)
THEOREM MatchIsFair ==
    ASSUME NEW t \in Nat \ {0}, NEW m \in Nat \ {0}, NEW p \in Price
    PROVE  LET a == MatchAmounts(t, m, p)
           IN  /\ a.maker_receives \in 0..t
               /\ a.taker_receives \in 0..m
               /\ a.cull_taker =>
                     /\ a.taker_receives * p.quote <= a.maker_receives * p.base
                     /\ Times(t - a.maker_receives, Inverted(p)) = 0
               /\ ~a.cull_taker =>
                     /\ a.maker_receives * p.base <= a.taker_receives * p.quote
                     /\ Times(m - a.taker_receives, p) = 0
(* Integer division in terms of multiplication.                            *)
<1>QuotientFact.
      ASSUME NEW a \in Nat, NEW b \in Nat \ {0}
      PROVE  /\ a \div b \in Nat
             /\ (a \div b) * b <= a
             /\ a < (a \div b) * b + b
  BY <1>QuotientFact
(* RoundUp(a, b) is the least q with a <= q * b.                           *)
<1>RoundUpFact.
      ASSUME NEW a \in Nat, NEW b \in Nat \ {0}
      PROVE  /\ RoundUp(a, b) \in Nat
             /\ a <= RoundUp(a, b) * b
             /\ RoundUp(a, b) * b < a + b
  <2> USE <1>RoundUpFact
  <2>1. a + b - 1 \in Nat
    OBVIOUS
  <2> QED
    BY <2>1, <1>QuotientFact DEF RoundUp
(* Comparing is comparing after a multiplication.                          *)
<1>ProductMonotone.
      ASSUME NEW a \in Int, NEW c \in Int, NEW b \in Nat \ {0}
      PROVE  /\ a <= c <=> a * b <= c * b
             /\ a < c <=> a * b < c * b
  BY <1>ProductMonotone
(* A product of two natural numbers is one.                                *)
<1>ProductFact.
      ASSUME NEW a \in Nat, NEW b \in Nat
      PROVE  a * b \in Nat
  BY <1>ProductFact
(* The smaller order sells s at a price of q for b: it receives r, rounded *)
(* down, and pays c for it, rounded up (match_limit_normal_limit after     *)
(* hard fork core-342).  It can pay c, the other order gets no less than   *)
(* the price for r, and nothing can be bought for the rest.                *)
<1>SmallerOrder.
      ASSUME NEW s \in Nat, NEW b \in Nat \ {0}, NEW q \in Nat \ {0}
      PROVE  LET r == (s * b) \div q
                 c == RoundUp(r * q, b)
             IN  /\ r \in Nat /\ c \in Nat
                 /\ r * q <= s * b
                 /\ c <= s
                 /\ r * q <= c * b
                 /\ ((s - c) * b) \div q = 0
  <2> USE <1>SmallerOrder
  <2> DEFINE r == (s * b) \div q
             c == RoundUp(r * q, b)
  <2>1. s * b \in Nat
    BY <1>ProductFact
  <2>2. r \in Nat /\ r * q <= s * b /\ s * b < r * q + q
    BY <2>1, <1>QuotientFact
  <2> HIDE DEF r
  <2>3. r * q \in Nat
    BY <2>2, <1>ProductFact
  <2>4. c \in Nat /\ r * q <= c * b /\ c * b < r * q + b
    BY <2>3, <1>RoundUpFact, Zenon
  <2> HIDE DEF c
  <2>5. c <= s
    <3>1. (s + 1) * b = s * b + b
      OBVIOUS
    <3>2. c * b \in Nat
      BY <2>4, <1>ProductFact
    <3>3. c * b < (s + 1) * b
      BY <2>1, <2>2, <2>3, <2>4, <3>1, <3>2
    <3>4. c < s + 1
      BY <2>4, <3>3, <1>ProductMonotone
    <3> QED
      BY <2>4, <3>4
  <2>6. ((s - c) * b) \div q = 0
    <3> DEFINE x == (s - c) * b
               d == x \div q
    <3>1. s - c \in Nat
      BY <2>4, <2>5
    <3>2. x \in Nat
      BY <3>1, <1>ProductFact
    <3>3. x = s * b - c * b
      BY <2>4
    <3>4. c * b \in Nat
      BY <2>4, <1>ProductFact
    <3>5. x < q
      BY <2>1, <2>2, <2>3, <2>4, <3>3, <3>4
    <3> HIDE DEF x
    <3>6. d \in Nat /\ d * q <= x
      BY <3>2, <1>QuotientFact
    <3> HIDE DEF d
    <3>7. d * q \in Nat
      BY <3>6, <1>ProductFact
    <3>8. d * q < 1 * q
      BY <3>2, <3>5, <3>6, <3>7
    <3>9. d < 1
      BY <3>6, <3>8, <1>ProductMonotone
    <3>10. d = 0
      BY <3>6, <3>9
    <3> QED
      BY <3>10 DEF d, x
  <2> QED
    BY <2>2, <2>4, <2>5, <2>6 DEF r, c
<1> DEFINE b == p.base
           q == p.quote
           a == MatchAmounts(t, m, p)
<1>1. b \in Nat \ {0} /\ q \in Nat \ {0}
  BY DEF Price
<1>2. Inverted(p).base = q /\ Inverted(p).quote = b
  BY DEF Inverted
<1>3. CASE t <= Times(m, p)
  <2> DEFINE r == (t * b) \div q
             c == RoundUp(r * q, b)
             w == (m * q) \div b
  <2>1. /\ r \in Nat /\ c \in Nat /\ r * q <= t * b
        /\ c <= t /\ r * q <= c * b /\ ((t - c) * b) \div q = 0
    BY <1>1, <1>SmallerOrder, Zenon
  <2>2. a = [taker_receives |-> r, cull_taker |-> TRUE, maker_receives |-> c]
    BY <1>2, <1>3 DEF MatchAmounts, Times, multiply_and_round_up
  <2>3. m * q \in Nat
    BY <1>1, <1>ProductFact
  <2>4. w \in Nat /\ w * b <= m * q
    BY <1>1, <2>3, <1>QuotientFact, Zenon
  <2>5. t <= w
    BY <1>3 DEF Times
  <2> HIDE DEF w, r, c, b, q
  <2>6. t * b <= w * b
    BY <1>1, <2>4, <2>5, <1>ProductMonotone
  <2>7. r * q \in Nat /\ t * b \in Nat /\ w * b \in Nat
    BY <1>1, <2>1, <2>4, <1>ProductFact
  <2>8. r * q <= m * q
    BY <2>1, <2>3, <2>4, <2>6, <2>7
  <2>9. r <= m
    BY <1>1, <2>1, <2>8, <1>ProductMonotone
  <2>10. Times(t - c, Inverted(p)) = 0
    BY <1>2, <2>1 DEF Times
  <2> QED
    BY <2>1, <2>2, <2>9, <2>10 DEF b, q
<1>4. CASE ~(t <= Times(m, p))
  <2> DEFINE r == (m * q) \div b
             c == RoundUp(r * b, q)
  <2>1. /\ r \in Nat /\ c \in Nat
        /\ c <= m /\ r * b <= c * q /\ ((m - c) * q) \div b = 0
    BY <1>1, <1>SmallerOrder, Zenon
  <2>2. a = [maker_receives |-> r, cull_taker |-> FALSE, taker_receives |-> c]
    BY <1>2, <1>4 DEF MatchAmounts, Times, multiply_and_round_up
  <2>3. ~(t <= r)
    BY <1>4 DEF Times
  <2> HIDE DEF r, c
  <2>4. r <= t
    BY <2>1, <2>3
  <2>5. Times(m - c, p) = 0
    BY <2>1 DEF Times
  <2> QED
    BY <2>1, <2>2, <2>4, <2>5
<1> QED
  BY <1>3, <1>4

--------------------------------------------------------------------------------
(* The first n values of f cover the set s.                                *)
Covered(f, n, s) == \A x \in s : \E i \in 1..n : f[i] = x

(* A set is finite iff a finite sequence covers it.                        *)
LEMMA FiniteIsCovered ==
    ASSUME NEW S, IsFiniteSet(S)
    PROVE  \E n \in Nat : \E f : Covered(f, n, S)
<1>1. PICK q \in Seq(S) : \A x \in S : \E i \in 1..Len(q) : q[i] = x
  BY DEF IsFiniteSet
<1>2. Len(q) \in Nat
  BY <1>1
<1> QED BY <1>1, <1>2, Zenon DEF Covered

(* Which sets are finite.                                                  *)
LEMMA FiniteSetFacts ==
    /\ IsFiniteSet({})
    /\ \A S, T : IsFiniteSet(S) /\ T \subseteq S => IsFiniteSet(T)
    /\ \A n \in Nat : IsFiniteSet(1..n)
    /\ \A S, x : IsFiniteSet(S) => IsFiniteSet(S \cup {x})
<1>CoveredIsFinite.
      ASSUME NEW S, NEW n \in Nat, NEW f, Covered(f, n, S)
      PROVE  IsFiniteSet(S)
  <2> USE <1>CoveredIsFinite
  <2>1. CASE S = {}
    <3> DEFINE q == [i \in 1..0 |-> f[i]]
    <3>1. \A i \in 1..0 : f[i] \in S
      OBVIOUS
    <3>2. q \in [1..0 -> S]
      BY <3>1, Zenon
    <3> HIDE DEF q
    <3>3. q \in Seq(S)
      BY <3>2
    <3>4. \A x \in S : \E i \in 1..Len(q) : q[i] = x
      BY <2>1, Zenon
    <3> QED BY <3>3, <3>4, Zenon DEF IsFiniteSet
  <2>2. CASE S # {}
    <3>1. PICK d \in S : TRUE
      BY <2>2
    <3> DEFINE q == [i \in 1..n |-> IF f[i] \in S THEN f[i] ELSE d]
    <3>2. q \in [1..n -> S]
      BY <3>1, Zenon
    <3>3. \A x \in S : \E i \in 1..n : q[i] = x
      BY Zenon DEF Covered
    <3> HIDE DEF q
    <3>4. q \in Seq(S) /\ Len(q) = n
      BY <3>2
    <3> QED BY <3>3, <3>4 DEF IsFiniteSet
  <2> QED BY <2>1, <2>2, Zenon
<1>EmptyIsFinite. IsFiniteSet({})
  <2>1. 0 \in Nat /\ Covered(<<>>, 0, {})
    BY DEF Covered
  <2> QED BY <2>1, <1>CoveredIsFinite, Zenon
<1>SubsetIsFinite.
      ASSUME NEW S, IsFiniteSet(S), NEW T, T \subseteq S
      PROVE  IsFiniteSet(T)
  <2> USE <1>SubsetIsFinite
  <2>0. PICK n \in Nat : \E f : Covered(f, n, S)
    BY FiniteIsCovered, Zenon
  <2>1. PICK f : Covered(f, n, S)
    BY <2>0, Zenon
  <2>2. Covered(f, n, T)
    BY <2>1, Zenon DEF Covered
  <2> QED BY <2>2, <1>CoveredIsFinite, Zenon
<1>IntervalIsFinite.
      ASSUME NEW n \in Nat
      PROVE  IsFiniteSet(1..n)
  <2> USE <1>IntervalIsFinite
  <2>1. Covered([i \in 1..n |-> i], n, 1..n)
    BY Zenon DEF Covered
  <2> QED BY <2>1, <1>CoveredIsFinite, Zenon
<1>AddedIsFinite.
      ASSUME NEW S, IsFiniteSet(S), NEW x
      PROVE  IsFiniteSet(S \cup {x})
  <2> USE <1>AddedIsFinite
  <2>0. PICK n \in Nat : \E f : Covered(f, n, S)
    BY FiniteIsCovered, Zenon
  <2>1. PICK f : Covered(f, n, S)
    BY <2>0, Zenon
  <2> DEFINE g == [i \in 1..(n + 1) |-> IF i = n + 1 THEN x ELSE f[i]]
  <2>2. n + 1 \in 1..(n + 1) /\ \A i \in 1..n : i \in 1..(n + 1) /\ i # n + 1
    OBVIOUS
  <2>3. g[n + 1] = x /\ \A i \in 1..n : g[i] = f[i]
    BY <2>2, Zenon
  <2> HIDE DEF g
  <2>4. Covered(g, n + 1, S \cup {x})
    BY <2>1, <2>2, <2>3, Zenon DEF Covered
  <2>5. n + 1 \in Nat
    OBVIOUS
  <2> QED BY <2>4, <2>5, <1>CoveredIsFinite, Zenon
<1>1. \A S, T : IsFiniteSet(S) /\ T \subseteq S => IsFiniteSet(T)
  BY <1>SubsetIsFinite, Zenon
<1>2. \A S, x : IsFiniteSet(S) => IsFiniteSet(S \cup {x})
  BY <1>AddedIsFinite, Zenon
<1>3. \A n \in Nat : IsFiniteSet(1..n)
  BY <1>IntervalIsFinite, Zenon
<1> QED BY <1>1, <1>2, <1>3, <1>EmptyIsFinite, Zenon

(* Induction over finite sets, by the smallest counterexample: the one     *)
(* that the shortest sequence covers.                                      *)
LEMMA MinimalSubset ==
    ASSUME NEW S, IsFiniteSet(S), NEW T, T \subseteq SUBSET S, T # {}
    PROVE  \E s \in T : \A r \in T : r \subseteq s => r = s
<1>LeastNatural.
      ASSUME NEW N, N \subseteq Nat, N # {}
      PROVE  \E n \in N : \A m \in N : ~ (m < n)
  <2> USE <1>LeastNatural
  <2> DEFINE R == OpToRel(<, Nat)
  <2>1. IsWellFoundedOn(R, Nat)
    BY NatLessThanWellFounded, Zenon
  <2>2. \A m, n \in Nat : m < n => <<m, n>> \in R
    <3> SUFFICES ASSUME NEW m \in Nat, NEW n \in Nat, m < n PROVE <<m, n>> \in R
      BY Zenon
    <3>1. <<m, n>> \in Nat \X Nat /\ <<m, n>>[1] < <<m, n>>[2]
      OBVIOUS
    <3> QED BY <3>1, Zenon DEF OpToRel
  <2> HIDE DEF R
  <2>3. ASSUME NEW Q, NEW D, IsWellFoundedOn(Q, D), N \subseteq D
        PROVE  \E n \in N : \A m \in N : ~ (<<m, n>> \in Q)
    BY <2>3, WFMin, Zenon
  <2>4. PICK n \in N : \A m \in N : ~ (<<m, n>> \in R)
    BY <2>1, <2>3, Zenon
  <2> QED BY <2>2, <2>4, Zenon
<1> DEFINE N == {n \in Nat : \E s \in T : \E f : Covered(f, n, s)}
<1>1. N \subseteq Nat /\ N # {}
  <2>0. PICK n \in Nat : \E f : Covered(f, n, S)
    BY FiniteIsCovered, Zenon
  <2>1. PICK f : Covered(f, n, S)
    BY <2>0, Zenon
  <2>2. PICK s \in T : Covered(f, n, s)
    BY <2>1, Zenon DEF Covered
  <2> QED BY <2>2, Zenon
<1>2. PICK n \in N : \A m \in N : ~ (m < n)
  <2> HIDE DEF N
  <2> QED BY <1>1, <1>LeastNatural, Zenon
<1>3. PICK s \in T : \E f : Covered(f, n, s)
  BY <1>2, Zenon
<1>4. PICK f : Covered(f, n, s)
  BY <1>3, Zenon
<1>5. ASSUME NEW r \in T, r \subseteq s, r # s PROVE FALSE
  <2>1. PICK x \in s : x \notin r
    BY <1>5, Zenon
  <2>2. PICK k \in 1..n : f[k] = x
    BY <1>4, <2>1, Zenon DEF Covered
  <2> DEFINE g == [i \in 1..(n - 1) |-> IF i = k THEN f[n] ELSE f[i]]
  <2>3. n \in Nat /\ n - 1 \in Nat /\ n - 1 < n
    BY <1>1, <2>2
  <2>4. Covered(g, n - 1, r)
    <3> SUFFICES ASSUME NEW y \in r PROVE \E i \in 1..(n - 1) : g[i] = y
      BY Zenon DEF Covered
    <3>1. PICK i \in 1..n : f[i] = y
      BY <1>4, <1>5, Zenon DEF Covered
    <3>2. i # k
      BY <2>1, <2>2, <3>1, Zenon
    <3>3. CASE i = n
      <4>1. k \in 1..(n - 1)
        BY <2>2, <2>3, <3>2, <3>3
      <4>2. g[k] = y
        BY <4>1, <3>1, <3>3, Zenon
      <4> QED BY <4>1, <4>2, Zenon
    <3>4. CASE i # n
      <4>1. i \in 1..(n - 1)
        BY <2>3, <3>1, <3>4
      <4>2. g[i] = y
        BY <4>1, <3>1, <3>2, Zenon
      <4> QED BY <4>1, <4>2, Zenon
    <3> QED BY <3>3, <3>4, Zenon
  <2>5. n - 1 \in N
    <3> HIDE DEF g
    <3> QED BY <2>3, <2>4, Zenon
  <2> HIDE DEF N, g
  <2> QED BY <1>2, <2>3, <2>5, Zenon
<1> QED BY <1>5, Zenon
--------------------------------------------------------------------------------
(* A sum takes out an element that it picks, until none is left.           *)
Pick(s) == CHOOSE x \in s : TRUE

(* The sums of f over all subsets of S, defined by one another.            *)
Unfolds(it, f, S) ==
    it = [s \in SUBSET S |-> IF s = {} THEN 0 ELSE f[Pick(s)] + it[s \ {Pick(s)}]]

(* Such a function.                                                        *)
Iter(f, S) == CHOOSE it : Unfolds(it, f, S)

(* What is needed of sums over finite sets.                                *)
LEMMA SumFacts ==
    /\ \A f : SumFunctionOnSet(f, {}) = 0
    /\ \A f, S : IsFiniteSet(S) /\ (\A x \in S : f[x] \in Int)
                 => /\ SumFunctionOnSet(f, S) \in Int
                    /\ \A x \in S : SumFunctionOnSet(f, S) = f[x] + SumFunctionOnSet(f, S \ {x})
    /\ \A f, S : IsFiniteSet(S) /\ (\A x \in S : f[x] \in Nat) => SumFunctionOnSet(f, S) \in Nat
    /\ \A f, g, S : IsFiniteSet(S) /\ (\A x \in S : f[x] = g[x])
                    => SumFunctionOnSet(f, S) = SumFunctionOnSet(g, S)
    /\ \A f, g, h, S :
          IsFiniteSet(S) /\ (\A x \in S : f[x] \in Int /\ g[x] \in Int /\ h[x] = f[x] - g[x])
             => SumFunctionOnSet(h, S) = SumFunctionOnSet(f, S) - SumFunctionOnSet(g, S)
<1>SumIsIter.
      ASSUME NEW f, NEW S
      PROVE  SumFunctionOnSet(f, S) = Iter(f, S)[S]
  BY <1>SumIsIter, Zenon DEF SumFunctionOnSet, FoldFunctionOnSet, MapThenFoldSet, Iter, Unfolds, Pick
<1>PickIn.
      ASSUME NEW s, s # {}
      PROVE  Pick(s) \in s
  BY <1>PickIn, Zenon DEF Pick
<1>UnfoldEmpty.
      ASSUME NEW f, NEW S, NEW it, Unfolds(it, f, S)
      PROVE  it[{}] = 0
  <2> USE <1>UnfoldEmpty
  <2> DEFINE g == [s \in SUBSET S |-> IF s = {} THEN 0 ELSE f[Pick(s)] + it[s \ {Pick(s)}]]
  <2>1. it[{}] = g[{}]
    BY Zenon DEF Unfolds
  <2> QED BY <2>1, Zenon
<1>UnfoldMore.
      ASSUME NEW f, NEW S, NEW it, Unfolds(it, f, S)
      PROVE  \A s \in SUBSET S : s # {} => it[s] = f[Pick(s)] + it[s \ {Pick(s)}]
  <2> USE <1>UnfoldMore
  <2> DEFINE g == [t \in SUBSET S |-> IF t = {} THEN 0 ELSE f[Pick(t)] + it[t \ {Pick(t)}]]
  <2> SUFFICES ASSUME NEW s \in SUBSET S, s # {}
               PROVE  it[s] = f[Pick(s)] + it[s \ {Pick(s)}]
    BY Zenon
  <2>1. it[s] = g[s]
    BY Zenon DEF Unfolds
  <2> QED BY <2>1, Zenon
(* Two such functions agree where both are defined.                        *)
<1>UnfoldsAgree.
      ASSUME NEW f, NEW A, NEW B, NEW a, NEW b, Unfolds(a, f, A), Unfolds(b, f, B),
             NEW q, IsFiniteSet(q), q \subseteq A, q \subseteq B
      PROVE  a[q] = b[q]
  <2> USE <1>UnfoldsAgree
  <2> DEFINE T == {s \in SUBSET q : a[s] # b[s]}
  <2> SUFFICES ASSUME T # {} PROVE FALSE
    BY Zenon
  <2>0. T \subseteq SUBSET q
    BY Zenon
  <2>1. PICK s \in T : \A r \in T : r \subseteq s => r = s
    <3> HIDE DEF T
    <3> QED BY <2>0, MinimalSubset
  <2>2. s \in SUBSET A /\ s \in SUBSET B /\ a[s] # b[s]
    BY Zenon
  <2>3. s # {}
    BY <2>2, <1>UnfoldEmpty, Zenon
  <2>4. Pick(s) \in s
    BY <2>3, <1>PickIn, Zenon
  <2>5. a[s \ {Pick(s)}] = b[s \ {Pick(s)}]
    BY <2>1, <2>4
  <2>6. a[s] = f[Pick(s)] + a[s \ {Pick(s)}]
    <3>1. \A r \in SUBSET A : r # {} => a[r] = f[Pick(r)] + a[r \ {Pick(r)}]
      BY <1>UnfoldMore
    <3> QED BY <2>2, <2>3, <3>1, Zenon
  <2>7. b[s] = f[Pick(s)] + b[s \ {Pick(s)}]
    <3>1. \A r \in SUBSET B : r # {} => b[r] = f[Pick(r)] + b[r \ {Pick(r)}]
      BY <1>UnfoldMore
    <3> QED BY <2>2, <2>3, <3>1, Zenon
  <2> QED BY <2>2, <2>5, <2>6, <2>7, Zenon
<1>IterUnfolds.
      ASSUME NEW f, NEW s, NEW it, Unfolds(it, f, s)
      PROVE  Unfolds(Iter(f, s), f, s)
  BY <1>IterUnfolds, Zenon DEF Iter
<1>UnfoldsExists.
      ASSUME NEW f, NEW S, IsFiniteSet(S)
      PROVE  Unfolds(Iter(f, S), f, S)
  <2> USE <1>UnfoldsExists
  <2> DEFINE T == {s \in SUBSET S : ~ Unfolds(Iter(f, s), f, s)}
  <2> SUFFICES ASSUME T # {} PROVE FALSE
    BY Zenon
  <2>0. T \subseteq SUBSET S
    BY Zenon
  <2>1. PICK s \in T : \A r \in T : r \subseteq s => r = s
    <3> HIDE DEF T
    <3> QED BY <2>0, MinimalSubset
  <2>2. \A r \in SUBSET s : r # s => Unfolds(Iter(f, r), f, r)
    BY <2>1, Zenon
  <2>3. \A r \in SUBSET s : IsFiniteSet(r)
    BY FiniteSetFacts, Zenon
  <2> DEFINE p == Pick(s)
             rest == s \ {p}
             full == IF s = {} THEN 0 ELSE f[p] + Iter(f, rest)[rest]
             it == [r \in SUBSET s |-> IF r = s THEN full ELSE Iter(f, r)[r]]
  <2>4. it[s] = full /\ \A r \in SUBSET s : r # s => it[r] = Iter(f, r)[r]
    BY Zenon
  <2>5. DOMAIN it = SUBSET s /\ it = [r \in SUBSET s |-> it[r]]
    BY Zenon
  <2> HIDE DEF it
  <2>6. CASE s = {}
    <3>1. it[s] = 0
      BY <2>4, <2>6, Zenon
    <3>2. \A r \in SUBSET s :
             it[r] = IF r = {} THEN 0 ELSE f[Pick(r)] + it[r \ {Pick(r)}]
      BY <2>6, <3>1, Zenon
    <3>3. it = [r \in SUBSET s |-> IF r = {} THEN 0 ELSE f[Pick(r)] + it[r \ {Pick(r)}]]
      BY <2>5, <3>2, Zenon
    <3>4. Unfolds(it, f, s)
      BY <3>3, Zenon DEF Unfolds
    <3> QED BY <3>4, <2>1, <1>IterUnfolds
  <2>7. CASE s # {}
    <3>1. ASSUME NEW r \in SUBSET s, r # {}
          PROVE  it[r] = f[Pick(r)] + it[r \ {Pick(r)}]
      <4> DEFINE q == r \ {Pick(r)}
      <4>1. Pick(r) \in r
        BY <3>1, <1>PickIn, Zenon
      <4>2. q \in SUBSET s /\ q # s /\ q \subseteq r
        BY <4>1, Zenon
      <4>3. it[q] = Iter(f, q)[q]
        <5> HIDE DEF q
        <5> QED BY <2>4, <4>2, Zenon
      <4>4. CASE r = s
        BY <2>4, <2>7, <4>3, <4>4, Zenon
      <4>5. CASE r # s
        <5>1. it[r] = Iter(f, r)[r] /\ Unfolds(Iter(f, r), f, r)
          BY <2>2, <2>4, <4>5, Zenon
        <5>2. Iter(f, r)[r] = f[Pick(r)] + Iter(f, r)[q]
          <6>1. r \subseteq r
            BY Zenon
          <6> QED BY <3>1, <5>1, <6>1, <1>UnfoldMore
        <5>3. Iter(f, r)[q] = Iter(f, q)[q]
          <6> HIDE DEF q
          <6>1. q \subseteq q /\ IsFiniteSet(q) /\ Unfolds(Iter(f, q), f, q)
            BY <2>2, <2>3, <4>2, Zenon
          <6> QED BY <4>2, <5>1, <6>1, <1>UnfoldsAgree
        <5> QED BY <4>3, <5>1, <5>2, <5>3, Zenon
      <4> QED BY <4>4, <4>5, Zenon
    <3>2. it[{}] = 0
      <4>1. Unfolds(Iter(f, {}), f, {}) /\ it[{}] = Iter(f, {})[{}]
        BY <2>2, <2>4, <2>7, Zenon
      <4> QED BY <4>1, <1>UnfoldEmpty, Zenon
    <3>3. \A r \in SUBSET s :
             it[r] = IF r = {} THEN 0 ELSE f[Pick(r)] + it[r \ {Pick(r)}]
      BY <3>1, <3>2, Zenon
    <3>4. it = [r \in SUBSET s |-> IF r = {} THEN 0 ELSE f[Pick(r)] + it[r \ {Pick(r)}]]
      BY <2>5, <3>3, Zenon
    <3>5. Unfolds(it, f, s)
      BY <3>4, Zenon DEF Unfolds
    <3> QED BY <3>5, <2>1, <1>IterUnfolds
  <2> QED BY <2>6, <2>7, Zenon
(* The sum over the empty set, and over a set with one more element.       *)
<1>SumEmpty.
      ASSUME NEW f
      PROVE  SumFunctionOnSet(f, {}) = 0
  <2> USE <1>SumEmpty
  <2>1. IsFiniteSet({})
    BY FiniteSetFacts
  <2>2. Unfolds(Iter(f, {}), f, {})
    BY <2>1, <1>UnfoldsExists, Zenon
  <2>3. Iter(f, {})[{}] = 0
    BY <2>2, <1>UnfoldEmpty, Zenon
  <2> QED BY <2>3, <1>SumIsIter, Zenon
<1>SumPicked.
      ASSUME NEW f, NEW S, IsFiniteSet(S), S # {}
      PROVE  SumFunctionOnSet(f, S) = f[Pick(S)] + SumFunctionOnSet(f, S \ {Pick(S)})
  <2> USE <1>SumPicked
  <2> DEFINE R == S \ {Pick(S)}
  <2>1. IsFiniteSet(R) /\ R \subseteq S /\ R \subseteq R /\ S \subseteq S
    BY FiniteSetFacts, Zenon
  <2>2. Unfolds(Iter(f, S), f, S)
    BY <1>UnfoldsExists, Zenon
  <2>3. Iter(f, S)[S] = f[Pick(S)] + Iter(f, S)[R]
    BY <2>1, <2>2, <1>UnfoldMore
  <2> HIDE DEF R
  <2>4. Unfolds(Iter(f, R), f, R)
    BY <2>1, <1>UnfoldsExists, Zenon
  <2>5. Iter(f, S)[R] = Iter(f, R)[R]
    BY <2>1, <2>2, <2>4, <1>UnfoldsAgree
  <2> QED BY <2>3, <2>5, <1>SumIsIter, Zenon DEF R
(***************************************************************************)
(* What the proofs use: a sum of integers is an integer, does not depend   *)
(* on the order, and follows the function and the set it is taken over.    *)
(***************************************************************************)
<1>SumType.
      ASSUME NEW f, NEW S, IsFiniteSet(S), \A x \in S : f[x] \in Int
      PROVE  SumFunctionOnSet(f, S) \in Int
  <2> USE <1>SumType
  <2> DEFINE T == {s \in SUBSET S : ~ (SumFunctionOnSet(f, s) \in Int)}
  <2> SUFFICES ASSUME T # {} PROVE FALSE
    BY Zenon
  <2>0. T \subseteq SUBSET S
    BY Zenon
  <2>1. PICK s \in T : \A r \in T : r \subseteq s => r = s
    <3> HIDE DEF T
    <3> QED BY <2>0, MinimalSubset
  <2>2. IsFiniteSet(s) /\ s \in SUBSET S
    BY FiniteSetFacts, Zenon
  <2>3. s # {}
    <3> SUFFICES ASSUME s = {} PROVE FALSE
      BY Zenon
    <3>1. SumFunctionOnSet(f, s) = 0
      BY <1>SumEmpty, Zenon
    <3>2. 0 \in Int
      OBVIOUS
    <3> QED BY <3>1, <3>2, Zenon
  <2>4. Pick(s) \in s
    BY <2>3, <1>PickIn, Zenon
  <2>5. SumFunctionOnSet(f, s \ {Pick(s)}) \in Int
    <3>1. s \ {Pick(s)} \in SUBSET S /\ s \ {Pick(s)} \subseteq s /\ s \ {Pick(s)} # s
      BY <2>2, <2>4, Zenon
    <3>2. s \ {Pick(s)} \notin T
      <4> HIDE DEF T
      <4> QED BY <2>1, <3>1, Zenon
    <3> QED BY <3>1, <3>2, Zenon
  <2>6. SumFunctionOnSet(f, s) = f[Pick(s)] + SumFunctionOnSet(f, s \ {Pick(s)})
    BY <2>2, <2>3, <1>SumPicked, Zenon
  <2>7. f[Pick(s)] \in Int
    BY <2>2, <2>4, Zenon
  <2>8. SumFunctionOnSet(f, s) \in Int
    BY <2>5, <2>6, <2>7
  <2> QED BY <2>8, Zenon
<1>SumSame.
      ASSUME NEW f, NEW g, NEW S, IsFiniteSet(S), \A x \in S : f[x] = g[x]
      PROVE  SumFunctionOnSet(f, S) = SumFunctionOnSet(g, S)
  <2> USE <1>SumSame
  <2> DEFINE T == {s \in SUBSET S : SumFunctionOnSet(f, s) # SumFunctionOnSet(g, s)}
  <2> SUFFICES ASSUME T # {} PROVE FALSE
    BY Zenon
  <2>0. T \subseteq SUBSET S
    BY Zenon
  <2>1. PICK s \in T : \A r \in T : r \subseteq s => r = s
    <3> HIDE DEF T
    <3> QED BY <2>0, MinimalSubset
  <2>2. IsFiniteSet(s) /\ s \in SUBSET S
    BY FiniteSetFacts, Zenon
  <2>3. s # {}
    <3> SUFFICES ASSUME s = {} PROVE FALSE
      BY Zenon
    <3>1. SumFunctionOnSet(f, s) = 0 /\ SumFunctionOnSet(g, s) = 0
      BY <1>SumEmpty, Zenon
    <3> QED BY <3>1, Zenon
  <2>4. Pick(s) \in s
    BY <2>3, <1>PickIn, Zenon
  <2>5. SumFunctionOnSet(f, s \ {Pick(s)}) = SumFunctionOnSet(g, s \ {Pick(s)})
    <3>1. s \ {Pick(s)} \in SUBSET S /\ s \ {Pick(s)} \subseteq s /\ s \ {Pick(s)} # s
      BY <2>2, <2>4, Zenon
    <3>2. s \ {Pick(s)} \notin T
      <4> HIDE DEF T
      <4> QED BY <2>1, <3>1, Zenon
    <3> QED BY <3>1, <3>2, Zenon
  <2>6. SumFunctionOnSet(f, s) = f[Pick(s)] + SumFunctionOnSet(f, s \ {Pick(s)})
    BY <2>2, <2>3, <1>SumPicked, Zenon
  <2>7. SumFunctionOnSet(g, s) = g[Pick(s)] + SumFunctionOnSet(g, s \ {Pick(s)})
    BY <2>2, <2>3, <1>SumPicked, Zenon
  <2>8. f[Pick(s)] = g[Pick(s)]
    BY <2>2, <2>4, Zenon
  <2> QED BY <2>5, <2>6, <2>7, <2>8, Zenon
<1>SumRemove.
      ASSUME NEW f, NEW S, IsFiniteSet(S), \A y \in S : f[y] \in Int
      PROVE  \A x \in S : SumFunctionOnSet(f, S) = f[x] + SumFunctionOnSet(f, S \ {x})
  <2> USE <1>SumRemove
  <2> DEFINE Good(s, x) == SumFunctionOnSet(f, s) = f[x] + SumFunctionOnSet(f, s \ {x})
             T == {s \in SUBSET S : \E x \in s : ~ Good(s, x)}
  <2> SUFFICES ASSUME T # {} PROVE FALSE
    BY Zenon
  <2>0. T \subseteq SUBSET S
    BY Zenon
  <2>1. PICK s \in T : \A r \in T : r \subseteq s => r = s
    <3> HIDE DEF T
    <3> QED BY <2>0, MinimalSubset
  <2>2. PICK x \in s : ~ Good(s, x)
    BY Zenon
  <2>3. s \in SUBSET S /\ IsFiniteSet(s) /\ s # {}
    BY <2>2, FiniteSetFacts, Zenon
  <2>4. \A r \in SUBSET s : r # s => \A y \in r : Good(r, y)
    <3> HIDE DEF Good
    <3> QED BY <2>1, <2>3, Zenon
  <2> DEFINE p == Pick(s)
  <2>5. p \in s /\ Good(s, p)
    BY <2>3, <1>PickIn, <1>SumPicked, Zenon
  <2> HIDE DEF p, T
  <2>6. p # x
    BY <2>2, <2>5, Zenon
  <2>7. Good(s \ {p}, x) /\ Good(s \ {x}, p)
    <3> HIDE DEF Good
    <3>1. s \ {p} \in SUBSET s /\ s \ {p} # s /\ x \in s \ {p}
      BY <2>2, <2>5, <2>6, Zenon
    <3>2. s \ {x} \in SUBSET s /\ s \ {x} # s /\ p \in s \ {x}
      BY <2>2, <2>5, <2>6, Zenon
    <3> QED BY <2>4, <3>1, <3>2, Zenon
  <2>8. (s \ {p}) \ {x} = (s \ {x}) \ {p}
    BY Zenon
  <2> DEFINE both == SumFunctionOnSet(f, (s \ {x}) \ {p})
  <2>9. both \in Int /\ f[p] \in Int /\ f[x] \in Int
    <3>1. IsFiniteSet((s \ {x}) \ {p}) /\ \A y \in (s \ {x}) \ {p} : f[y] \in Int
      BY <2>3, FiniteSetFacts, Zenon
    <3> QED BY <2>2, <2>3, <2>5, <3>1, <1>SumType, Zenon
  <2>10. SumFunctionOnSet(f, s \ {p}) = f[x] + both
    BY <2>7, <2>8, Zenon
  <2>11. SumFunctionOnSet(f, s \ {x}) = f[p] + both
    BY <2>7, Zenon
  <2>12. SumFunctionOnSet(f, s) = f[p] + (f[x] + both)
    BY <2>5, <2>10, Zenon
  <2> HIDE DEF both
  <2>13. f[p] + (f[x] + both) = f[x] + (f[p] + both)
    BY <2>9
  <2> QED BY <2>2, <2>11, <2>12, <2>13, Zenon
(* A sum of naturals is a natural, and zero only if all of them are.       *)
<1>SumNat.
      ASSUME NEW f, NEW S, IsFiniteSet(S), \A x \in S : f[x] \in Nat
      PROVE  SumFunctionOnSet(f, S) \in Nat
  <2> USE <1>SumNat
  <2> DEFINE T == {s \in SUBSET S : ~ (SumFunctionOnSet(f, s) \in Nat)}
  <2> SUFFICES ASSUME T # {} PROVE FALSE
    BY Zenon
  <2>0. T \subseteq SUBSET S
    BY Zenon
  <2>1. PICK s \in T : \A r \in T : r \subseteq s => r = s
    <3> HIDE DEF T
    <3> QED BY <2>0, MinimalSubset
  <2>2. IsFiniteSet(s) /\ s \in SUBSET S
    BY FiniteSetFacts, Zenon
  <2>3. s # {}
    <3> SUFFICES ASSUME s = {} PROVE FALSE
      BY Zenon
    <3>1. SumFunctionOnSet(f, s) = 0
      BY <1>SumEmpty, Zenon
    <3>2. 0 \in Nat
      OBVIOUS
    <3> QED BY <3>1, <3>2, Zenon
  <2>4. Pick(s) \in s
    BY <2>3, <1>PickIn, Zenon
  <2>5. SumFunctionOnSet(f, s \ {Pick(s)}) \in Nat
    <3>1. s \ {Pick(s)} \in SUBSET S /\ s \ {Pick(s)} \subseteq s /\ s \ {Pick(s)} # s
      BY <2>2, <2>4, Zenon
    <3>2. s \ {Pick(s)} \notin T
      <4> HIDE DEF T
      <4> QED BY <2>1, <3>1, Zenon
    <3> QED BY <3>1, <3>2, Zenon
  <2>6. SumFunctionOnSet(f, s) = f[Pick(s)] + SumFunctionOnSet(f, s \ {Pick(s)})
    BY <2>2, <2>3, <1>SumPicked, Zenon
  <2>7. f[Pick(s)] \in Nat
    BY <2>2, <2>4, Zenon
  <2>8. SumFunctionOnSet(f, s) \in Nat
    BY <2>5, <2>6, <2>7
  <2> QED BY <2>8, Zenon
(* Sums subtract element by element.                                       *)
<1>SumMinus.
      ASSUME NEW f, NEW g, NEW h, NEW S, IsFiniteSet(S),
             \A x \in S : f[x] \in Int /\ g[x] \in Int /\ h[x] = f[x] - g[x]
      PROVE  SumFunctionOnSet(h, S) = SumFunctionOnSet(f, S) - SumFunctionOnSet(g, S)
  <2> USE <1>SumMinus
  <2> DEFINE Good(s) ==
                SumFunctionOnSet(h, s) = SumFunctionOnSet(f, s) - SumFunctionOnSet(g, s)
             T == {s \in SUBSET S : ~ Good(s)}
  <2> SUFFICES ASSUME T # {} PROVE FALSE
    BY Zenon
  <2>0. T \subseteq SUBSET S
    BY Zenon
  <2>1. PICK s \in T : \A r \in T : r \subseteq s => r = s
    <3> HIDE DEF T
    <3> QED BY <2>0, MinimalSubset
  <2>2. IsFiniteSet(s) /\ s \in SUBSET S
    BY FiniteSetFacts, Zenon
  <2>3. s # {}
    <3> SUFFICES ASSUME s = {} PROVE FALSE
      BY Zenon
    <3>1. SumFunctionOnSet(f, s) = 0 /\ SumFunctionOnSet(g, s) = 0 /\ SumFunctionOnSet(h, s) = 0
      BY <1>SumEmpty, Zenon
    <3>2. Good(s)
      BY <3>1
    <3> QED BY <3>2, Zenon
  <2> DEFINE p == Pick(s)
             r == s \ {p}
  <2>4. p \in s
    BY <2>3, <1>PickIn, Zenon
  <2>5. r \in SUBSET S /\ r \subseteq s /\ r # s /\ IsFiniteSet(r)
    BY <2>2, <2>4, FiniteSetFacts, Zenon
  <2>6. Good(r)
    <3> HIDE DEF Good, p, r
    <3> QED BY <2>1, <2>5, Zenon
  <2>7. /\ SumFunctionOnSet(f, s) = f[p] + SumFunctionOnSet(f, r)
        /\ SumFunctionOnSet(g, s) = g[p] + SumFunctionOnSet(g, r)
        /\ SumFunctionOnSet(h, s) = h[p] + SumFunctionOnSet(h, r)
    BY <2>2, <2>3, <1>SumPicked, Zenon
  <2> HIDE DEF p, r, T
  <2>8. f[p] \in Int /\ g[p] \in Int /\ h[p] = f[p] - g[p]
    BY <2>2, <2>4, Zenon
  <2>9. SumFunctionOnSet(f, r) \in Int /\ SumFunctionOnSet(g, r) \in Int
    BY <2>5, <1>SumType, Zenon
  <2>10. Good(s)
    BY <2>6, <2>7, <2>8, <2>9
  <2> QED BY <2>10, Zenon DEF T
<1>1. \A f : SumFunctionOnSet(f, {}) = 0
  BY <1>SumEmpty, Zenon
<1>2. ASSUME NEW f, NEW S, IsFiniteSet(S), \A x \in S : f[x] \in Int
      PROVE  /\ SumFunctionOnSet(f, S) \in Int
             /\ \A x \in S : SumFunctionOnSet(f, S) = f[x] + SumFunctionOnSet(f, S \ {x})
  BY <1>2, <1>SumType, <1>SumRemove
<1>3. \A f, S : IsFiniteSet(S) /\ (\A x \in S : f[x] \in Nat) => SumFunctionOnSet(f, S) \in Nat
  BY <1>SumNat, Zenon
<1>4. ASSUME NEW f, NEW g, NEW S, IsFiniteSet(S), \A x \in S : f[x] = g[x]
      PROVE  SumFunctionOnSet(f, S) = SumFunctionOnSet(g, S)
  BY <1>4, <1>SumSame
<1>5. ASSUME NEW f, NEW g, NEW h, NEW S, IsFiniteSet(S),
             \A x \in S : f[x] \in Int /\ g[x] \in Int /\ h[x] = f[x] - g[x]
      PROVE  SumFunctionOnSet(h, S) = SumFunctionOnSet(f, S) - SumFunctionOnSet(g, S)
  BY <1>5, <1>SumMinus
<1> QED BY <1>1, <1>2, <1>3, <1>4, <1>5

--------------------------------------------------------------------------------
(* The same for the sum of all values of a function, as the models use it. *)
IsWeight(f) == IsFiniteSet(DOMAIN f) /\ \A x \in DOMAIN f : f[x] \in Int

(* The total of integers is an integer.                                    *)
LEMMA TotalType ==
    ASSUME NEW f, IsWeight(f)
    PROVE  SumFunction(f) \in Int
BY SumFacts DEF IsWeight, SumFunction

(* The total of naturals is a natural.                                     *)
LEMMA TotalNat ==
    ASSUME NEW f, IsFiniteSet(DOMAIN f), \A x \in DOMAIN f : f[x] \in Nat
    PROVE  SumFunction(f) \in Nat
BY SumFacts DEF SumFunction

(* The total of nothing is 0.                                              *)
LEMMA TotalNone ==
    ASSUME NEW f, DOMAIN f = {}
    PROVE  SumFunction(f) = 0
BY SumFacts DEF SumFunction

(* Equal values have equal totals.                                         *)
LEMMA TotalSame ==
    ASSUME NEW f, NEW g, IsWeight(f), DOMAIN g = DOMAIN f, \A x \in DOMAIN f : g[x] = f[x]
    PROVE  SumFunction(g) = SumFunction(f)
<1> DEFINE S == DOMAIN f
<1>1. IsFiniteSet(S) /\ \A y \in S : f[y] = g[y]
  BY Zenon DEF IsWeight
<1>2. SumFunction(f) = SumFunctionOnSet(f, S) /\ SumFunction(g) = SumFunctionOnSet(g, S)
  BY Zenon DEF SumFunction
<1> HIDE DEF S
<1>3. SumFunctionOnSet(f, S) = SumFunctionOnSet(g, S)
  BY <1>1, SumFacts
<1> QED BY <1>2, <1>3, Zenon

(* The total moves by v when one value changes by v, when an element with  *)
(* the value v is new, and when one with the value -v is gone.             *)
LEMMA TotalChanged ==
    ASSUME NEW f, NEW g, IsWeight(f), NEW x \in DOMAIN f, NEW v \in Int, g[x] = f[x] + v,
           DOMAIN g = DOMAIN f, \A y \in DOMAIN f : y # x => g[y] = f[y]
    PROVE  SumFunction(g) = SumFunction(f) + v
<1> DEFINE S == DOMAIN f
           R == S \ {x}
<1>1. IsFiniteSet(S) /\ x \in S /\ \A y \in S : f[y] \in Int
  BY Zenon DEF IsWeight
<1>2. \A y \in S : g[y] \in Int
  BY <1>1
<1>3. SumFunction(f) = SumFunctionOnSet(f, S) /\ SumFunction(g) = SumFunctionOnSet(g, S)
  BY Zenon DEF SumFunction
<1>4. IsFiniteSet(R) /\ \A y \in R : f[y] = g[y] /\ f[y] \in Int
  BY <1>1, FiniteSetFacts
<1> HIDE DEF S
<1>5. /\ SumFunctionOnSet(f, S) = f[x] + SumFunctionOnSet(f, R)
      /\ SumFunctionOnSet(g, S) = g[x] + SumFunctionOnSet(g, R)
  BY <1>1, <1>2, SumFacts
<1> HIDE DEF R
<1>6. SumFunctionOnSet(f, R) = SumFunctionOnSet(g, R) /\ SumFunctionOnSet(f, R) \in Int
  BY <1>4, SumFacts
<1>7. f[x] \in Int
  BY <1>1, Zenon
<1> QED BY <1>3, <1>5, <1>6, <1>7

(* An element with the value v is new.                                     *)
LEMMA TotalAdded ==
    ASSUME NEW f, NEW g, IsWeight(f), NEW x, x \notin DOMAIN f, NEW v \in Int, g[x] = v,
           DOMAIN g = DOMAIN f \cup {x}, \A y \in DOMAIN f : g[y] = f[y]
    PROVE  SumFunction(g) = SumFunction(f) + v
<1> DEFINE S == DOMAIN f
           R == S \cup {x}
<1>1. IsFiniteSet(S) /\ x \notin S /\ \A y \in S : f[y] \in Int /\ f[y] = g[y]
  BY Zenon DEF IsWeight
<1>2. SumFunction(f) = SumFunctionOnSet(f, S) /\ SumFunction(g) = SumFunctionOnSet(g, R)
  BY Zenon DEF SumFunction
<1> HIDE DEF S
<1>3. IsFiniteSet(R) /\ x \in R /\ R \ {x} = S /\ \A y \in R : g[y] \in Int
  <2>0. \A T, y : IsFiniteSet(T) => IsFiniteSet(T \cup {y})
    BY FiniteSetFacts, Zenon
  <2>1. IsFiniteSet(R)
    BY <1>1, <2>0, Zenon
  <2> QED BY <1>1, <2>1
<1> HIDE DEF R
<1>4. SumFunctionOnSet(g, R) = g[x] + SumFunctionOnSet(g, S)
  BY <1>3, SumFacts
<1>5. SumFunctionOnSet(f, S) = SumFunctionOnSet(g, S) /\ SumFunctionOnSet(f, S) \in Int
  BY <1>1, SumFacts
<1> QED BY <1>2, <1>4, <1>5

(* An element with the value -v is gone.                                   *)
LEMMA TotalRemoved ==
    ASSUME NEW f, NEW g, IsWeight(f), NEW x \in DOMAIN f, NEW v \in Int, f[x] = -v,
           DOMAIN g = DOMAIN f \ {x}, \A y \in DOMAIN g : g[y] = f[y]
    PROVE  SumFunction(g) = SumFunction(f) + v
<1> DEFINE S == DOMAIN f
           R == S \ {x}
<1>1. IsFiniteSet(S) /\ x \in S /\ \A y \in S : f[y] \in Int
  BY Zenon DEF IsWeight
<1>2. SumFunction(f) = SumFunctionOnSet(f, S) /\ SumFunction(g) = SumFunctionOnSet(g, R)
  BY Zenon DEF SumFunction
<1>3. IsFiniteSet(R) /\ \A y \in R : f[y] = g[y] /\ f[y] \in Int
  BY <1>1, FiniteSetFacts
<1> HIDE DEF S
<1>4. SumFunctionOnSet(f, S) = f[x] + SumFunctionOnSet(f, R)
  BY <1>1, SumFacts
<1> HIDE DEF R
<1>5. SumFunctionOnSet(f, R) = SumFunctionOnSet(g, R) /\ SumFunctionOnSet(f, R) \in Int
  BY <1>3, SumFacts
<1> QED BY <1>2, <1>4, <1>5

(* Totals subtract value by value.                                         *)
LEMMA TotalMinus ==
    ASSUME NEW f, NEW g, NEW h, IsWeight(f), IsWeight(g),
           DOMAIN g = DOMAIN f, DOMAIN h = DOMAIN f,
           \A x \in DOMAIN f : h[x] = f[x] - g[x]
    PROVE  SumFunction(h) = SumFunction(f) - SumFunction(g)
<1> DEFINE S == DOMAIN f
<1>1. IsFiniteSet(S) /\ \A y \in S : f[y] \in Int /\ g[y] \in Int /\ h[y] = f[y] - g[y]
  BY Zenon DEF IsWeight
<1>2. /\ SumFunction(f) = SumFunctionOnSet(f, S) /\ SumFunction(g) = SumFunctionOnSet(g, S)
      /\ SumFunction(h) = SumFunctionOnSet(h, S)
  BY Zenon DEF SumFunction
<1> HIDE DEF S
<1>3. SumFunctionOnSet(h, S) = SumFunctionOnSet(f, S) - SumFunctionOnSet(g, S)
  BY <1>1, SumFacts
<1> QED BY <1>2, <1>3, Zenon

(* A total of zeros is zero.                                               *)
LEMMA TotalZero ==
    ASSUME NEW f, IsFiniteSet(DOMAIN f), \A x \in DOMAIN f : f[x] = 0
    PROVE  SumFunction(f) = 0
<1>1. IsWeight(f) /\ \A x \in DOMAIN f : f[x] = f[x] - f[x]
  BY DEF IsWeight
<1>2. SumFunction(f) = SumFunction(f) - SumFunction(f) /\ SumFunction(f) \in Int
  BY <1>1, TotalMinus, TotalType
<1> QED BY <1>2

(* A total of naturals covers each of them.                                *)
LEMMA TotalCovers ==
    ASSUME NEW f, IsFiniteSet(DOMAIN f), \A y \in DOMAIN f : f[y] \in Nat, NEW x \in DOMAIN f
    PROVE  f[x] <= SumFunction(f)
<1> DEFINE S == DOMAIN f
           rest == SumFunctionOnSet(f, S \ {x})
<1>1. \A y \in S : f[y] \in Int
  OBVIOUS
<1>2. SumFunction(f) = f[x] + rest
  <2>1. \A y \in S : SumFunctionOnSet(f, S) = f[y] + SumFunctionOnSet(f, S \ {y})
    BY <1>1, SumFacts
  <2> QED BY <2>1, Zenon DEF SumFunction
<1>3. rest \in Nat
  <2>1. IsFiniteSet(S \ {x}) /\ \A y \in S \ {x} : f[y] \in Nat
    BY FiniteSetFacts
  <2> QED BY <2>1, SumFacts
<1>4. f[x] \in Nat
  BY Zenon
<1> HIDE DEF rest
<1> QED BY <1>2, <1>3, <1>4
================================================================================
