------------------------------ MODULE ChainProofs ------------------------------
(***************************************************************************)
(* Theorems about ChainDatabase: for any tree of blocks, any witnesses,    *)
(* transactions and sizes, and any deaths, damages and wipes, the undo log *)
(* and the state on disk follow the chain, the old branch of a failed fork *)
(* switch applies again, and the pending session matches _pending_tx; and, *)
(* without damage to the block files, the chain is always on disk and a    *)
(* death loses no irreversible block.                                      *)
(*                                                                         *)
(* The argument: a state that was reached by applying blocks is determined *)
(* by its chain alone (SameState), and so is whether the next block of a   *)
(* chain throws (NextApplies).  So the invariant only has to say that db,  *)
(* the states in the undo log and the state on disk are such states        *)
(* (Sound), and that their chains are the prefixes of one chain (Holds).   *)
(* The lemmas come in this order: last_irreversible_block_num; chains;     *)
(* Sound states; the moves of the undo log; the fork and block databases;  *)
(* the branches of a fork switch; the invariant, one lemma per step; its   *)
(* theorems; the invariant of the block files (DiskInv), one lemma per     *)
(* kind of step; its theorems.                                             *)
(***************************************************************************)
EXTENDS ChainProperties, FiniteSetTheorems, WellFoundedInduction, TLAPS

(* A step that names no prover is tried with the SMT solver, with Zenon,   *)
(* and with the SMT solver once more.                                      *)
USE SMTT(20), Zenon, SMTT(30)

(* A set of natural numbers that is not empty has a least element.         *)
LEMMA LeastNatural ==
    ASSUME NEW N, N \subseteq Nat, N # {}
    PROVE  \E n \in N : \A m \in N : n <= m
<1> DEFINE R == OpToRel(<, Nat)
<1>1. IsWellFoundedOn(R, Nat)
  BY NatLessThanWellFounded, Zenon
<1>2. \A m, n \in Nat : m < n => <<m, n>> \in R
  <2> SUFFICES ASSUME NEW m \in Nat, NEW n \in Nat, m < n PROVE <<m, n>> \in R
    BY Zenon
  <2>1. <<m, n>> \in Nat \X Nat /\ <<m, n>>[1] < <<m, n>>[2]
    OBVIOUS
  <2> QED BY <2>1, Zenon DEF OpToRel
<1> HIDE DEF R
<1>3. PICK n \in N : \A m \in N : ~ (<<m, n>> \in R)
  BY <1>1, WFMin, Zenon
<1>4. ASSUME NEW m \in N PROVE n <= m
  <2>1. m \in Nat /\ n \in Nat /\ ~ (m < n)
    BY <1>2, <1>3, Zenon
  <2> QED BY <2>1
<1> QED BY <1>4, Zenon

(* One that is bounded has a greatest element, too.                        *)
LEMMA GreatestNatural ==
    ASSUME NEW k \in Nat, NEW N, N \subseteq 0..k, N # {}
    PROVE  \E n \in N : \A m \in N : m <= n
<1> DEFINE M == {m \in Nat : k - m \in N}
<1>1. PICK i \in N : TRUE
  BY Zenon
<1>2. \A j \in N : j \in 0..k
  BY Zenon
<1>3. k - i \in Nat /\ k - (k - i) = i
  BY <1>2
<1>4. k - i \in M
  BY <1>1, <1>3, Zenon
<1>5. M \subseteq Nat /\ M # {}
  BY <1>4, Zenon
<1>6. PICK m \in M : \A j \in M : m <= j
  BY <1>5, LeastNatural, Zenon
<1>7. ASSUME NEW j \in N PROVE j <= k - m
  <2>1. k - j \in Nat /\ k - (k - j) = j
    BY <1>2
  <2>2. k - j \in M
    BY <2>1, Zenon
  <2>3. m <= k - j /\ m \in Nat
    BY <2>2, <1>6, Zenon
  <2> QED BY <2>3, <1>2
<1> QED BY <1>6, <1>7, Zenon

(* last_confirmed_block_num is the last block a witness signed.            *)
LEMMA ConfirmedFact ==
    ASSUME NEW c \in Seq(Block), NEW w
    PROVE  /\ last_confirmed_block_num(c, w) \in 0..Len(c)
           /\ last_confirmed_block_num(c, w) # 0
                => witness[c[last_confirmed_block_num(c, w)]] = w
<1> DEFINE signed == {n \in 1..Len(c) : witness[c[n]] = w}
<1>1. CASE signed = {}
  BY <1>1 DEF last_confirmed_block_num
<1>2. CASE signed # {}
  <2>1. Len(c) \in Nat /\ signed \subseteq 0..Len(c)
    OBVIOUS
  <2>2. \E n \in signed : \A m \in signed : m <= n
    BY <2>1, <1>2, GreatestNatural, Zenon
  <2>3. last_confirmed_block_num(c, w) = CHOOSE n \in signed : \A m \in signed : m <= n
    BY <1>2, Zenon DEF last_confirmed_block_num
  <2>4. last_confirmed_block_num(c, w) \in signed
    BY <2>2, <2>3, Zenon
  <2> QED BY <2>4
<1> QED BY <1>1, <1>2, Zenon

(* The witnesses, of the domain of f, whose number is at most n.           *)
UpTo(f, n) == {w \in DOMAIN f : f[w] <= n}

(* The numbers among which nth_element puts the smallest at an offset.     *)
Beyond(f, offset) ==
    {n \in {f[w] : w \in DOMAIN f} : Cardinality(UpTo(f, n)) > offset}

(* When more than `offset' witnesses have at most k, so has the n-th.      *)
LEMMA NthExists ==
    ASSUME NEW W, IsFiniteSet(W), NEW len \in Nat, NEW f \in [W -> 0..len],
           NEW offset \in Nat, NEW k \in 0..len,
           NEW V \in SUBSET W, V # {}, Cardinality(V) > offset, \A w \in V : f[w] <= k
    PROVE  \E n \in Beyond(f, offset) : n <= k
<1> DEFINE S == {f[w] : w \in V}
<1>1. S \subseteq 0..len /\ S # {}
  BY Zenon
<1>2. PICK n \in S : \A m \in S : m <= n
  BY <1>1, GreatestNatural, Zenon
<1>3. V \subseteq UpTo(f, n) /\ UpTo(f, n) \subseteq W
  BY <1>2, Zenon DEF UpTo
<1>4. IsFiniteSet(UpTo(f, n))
  BY <1>3, FS_Subset, Zenon
<1>5. IsFiniteSet(V) /\ Cardinality(V) <= Cardinality(UpTo(f, n))
  BY <1>3, <1>4, FS_Subset, Zenon
<1>6. Cardinality(V) \in Nat /\ Cardinality(UpTo(f, n)) \in Nat
  BY <1>4, <1>5, FS_CardinalityType, Zenon
<1>7. Cardinality(UpTo(f, n)) > offset
  BY <1>5, <1>6
<1>8. n \in {f[w] : w \in DOMAIN f} /\ n <= k
  BY <1>2, Zenon
<1> QED BY <1>7, <1>8, Zenon DEF Beyond

(* The block update_last_irreversible_block finds is one of the chain; with *)
(* two witnesses or more it is below the head, whose signer alone has      *)
(* confirmed it.                                                           *)
LEMMA IrreversibleFact ==
    ASSUME NEW c \in Seq(Block)
    PROVE  /\ NewIrreversible(c) \in 0..Len(c)
           /\ Cardinality(Witness) > 1 /\ c # <<>> => NewIrreversible(c) < Len(c)
<1> DEFINE f == [w \in Witness |-> last_confirmed_block_num(c, w)]
           N == Cardinality(Witness)
           offset == ((10000 - 7000) * N) \div 10000
<1>0. Len(c) \in Nat /\ DOMAIN f = Witness
      /\ \A w \in Witness : f[w] = last_confirmed_block_num(c, w)
  OBVIOUS
<1>1. f \in [Witness -> 0..Len(c)]
  BY ConfirmedFact, Zenon
<1>2. IsFiniteSet(Witness) /\ Witness # {}
  BY ChainAssumption, Zenon
<1>3. N \in Nat \ {0}
  BY <1>2, FS_CardinalityType, FS_EmptySet, Zenon
<1>4. offset \in Nat /\ offset < N /\ (N > 1 => offset < N - 1)
  BY <1>3
<1>5. ASSUME NEW n \in {f[w] : w \in Witness}, Cardinality(UpTo(f, n)) > offset,
             \A w \in Witness : Cardinality(UpTo(f, f[w])) > offset => n <= f[w]
      PROVE  /\ NewIrreversible(c) \in {f[w] : w \in Witness}
             /\ Cardinality(UpTo(f, NewIrreversible(c))) > offset
             /\ \A w \in Witness : Cardinality(UpTo(f, f[w])) > offset
                                      => NewIrreversible(c) <= f[w]
  <2> DEFINE confirmed(w) == last_confirmed_block_num(c, w)
             T == {confirmed(w) : w \in Witness}
             Enough(m) == Cardinality({w \in Witness : confirmed(w) <= m}) > offset
             Nth(m) == Enough(m) /\ \A w \in Witness : Enough(confirmed(w)) => m <= confirmed(w)
  <2>1. \A w \in Witness : f[w] = confirmed(w)
    BY <1>0, Zenon
  <2>2. T = {f[w] : w \in Witness}
    BY <2>1, Zenon
  <2>3. ASSUME NEW m PROVE UpTo(f, m) = {w \in Witness : confirmed(w) <= m}
    BY <2>1, <1>0, Zenon DEF UpTo
  <2>4. NewIrreversible(c) = CHOOSE m \in T : Nth(m)
    BY DEF NewIrreversible
  <2> HIDE DEF f, offset
  <2>5. \A m : Enough(m) <=> Cardinality(UpTo(f, m)) > offset
    BY <2>3, Zenon
  <2> HIDE DEF T, Enough, confirmed
  <2>6. \A m : Nth(m) <=> /\ Cardinality(UpTo(f, m)) > offset
                          /\ \A w \in Witness : Cardinality(UpTo(f, f[w])) > offset => m <= f[w]
    BY <2>1, <2>5, Zenon
  <2>7. n \in T /\ Nth(n)
    BY <2>2, <2>6, <1>5, Zenon
  <2> HIDE DEF Nth
  <2>8. NewIrreversible(c) \in T /\ Nth(NewIrreversible(c))
    BY <2>4, <2>7, Zenon
  <2> QED BY <2>2, <2>6, <2>8, Zenon
<1> HIDE DEF f, offset
<1>6. ASSUME Beyond(f, offset) # {}
      PROVE  /\ NewIrreversible(c) \in Beyond(f, offset)
             /\ \A n \in Beyond(f, offset) : NewIrreversible(c) <= n
  <2>1. Beyond(f, offset) \subseteq Nat
    BY <1>1 DEF Beyond
  <2>2. PICK n \in Beyond(f, offset) : \A m \in Beyond(f, offset) : n <= m
    BY <1>6, <2>1, LeastNatural, Zenon
  <2>3. /\ n \in {f[w] : w \in Witness} /\ Cardinality(UpTo(f, n)) > offset
        /\ \A w \in Witness : Cardinality(UpTo(f, f[w])) > offset => n <= f[w]
    BY <2>2, <1>0, Zenon DEF Beyond
  <2>4. /\ NewIrreversible(c) \in {f[w] : w \in Witness}
        /\ Cardinality(UpTo(f, NewIrreversible(c))) > offset
        /\ \A w \in Witness : Cardinality(UpTo(f, f[w])) > offset => NewIrreversible(c) <= f[w]
    BY <2>3, <1>5, Zenon
  <2> QED BY <2>4, <1>0, Zenon DEF Beyond
<1>7. NewIrreversible(c) \in 0..Len(c)
  <2>1. \A w \in Witness : f[w] <= Len(c)
    BY <1>1, <1>0
  <2>2. Len(c) \in 0..Len(c) /\ N > offset
    BY <1>0, <1>3, <1>4
  <2>3. Beyond(f, offset) # {}
    BY <2>1, <2>2, <1>0, <1>1, <1>2, <1>4, NthExists, Zenon
  <2>4. NewIrreversible(c) \in Beyond(f, offset)
    BY <2>3, <1>6, Zenon
  <2> QED BY <2>4, <1>1, Zenon DEF Beyond
<1>8. ASSUME N > 1, c # <<>>
      PROVE  NewIrreversible(c) < Len(c)
  <2> DEFINE h == witness[c[Len(c)]]
             V == Witness \ {h}
  <2>1. h \in Witness /\ Len(c) > 0
    BY <1>8, ChainAssumption
  <2>2. \A w \in V : f[w] <= Len(c) - 1
    <3> SUFFICES ASSUME NEW w \in V PROVE f[w] <= Len(c) - 1
      BY Zenon
    <3>1. f[w] \in 0..Len(c) /\ (f[w] # 0 => witness[c[f[w]]] = w)
      BY <1>0, ConfirmedFact, Zenon
    <3>2. f[w] # Len(c)
      BY <3>1, <2>1
    <3> QED BY <3>1, <3>2, <1>0
  <2> HIDE DEF h
  <2>3. Cardinality(V) = N - 1
    BY <2>1, <1>2, FS_RemoveElement, Zenon
  <2>4. Cardinality(V) > offset
    BY <2>3, <1>3, <1>4, <1>8, Zenon
  <2>5. N - 1 # 0
    BY <1>3, <1>8
  <2>6. V # {}
    BY <2>3, <2>5, FS_EmptySet, Zenon
  <2>7. Len(c) - 1 \in 0..Len(c)
    BY <2>1, <1>0
  <2>8. V \in SUBSET Witness
    BY Zenon
  <2> HIDE DEF V
  <2>9. PICK n \in Beyond(f, offset) : n <= Len(c) - 1
    <3>1. Len(c) \in Nat /\ offset \in Nat
      BY <1>0, <1>4, Zenon
    <3>2. ASSUME NEW k \in 0..Len(c), \A w \in V : f[w] <= k
          PROVE  \E n \in Beyond(f, offset) : n <= k
      BY <3>1, <3>2, <2>4, <2>6, <2>8, <1>1, <1>2, NthExists, Zenon
    <3> QED BY <3>2, <2>2, <2>7, Zenon
  <2>10. NewIrreversible(c) <= n /\ n \in 0..Len(c)
    BY <2>9, <1>6, <1>1, Zenon DEF Beyond
  <2> QED BY <2>9, <2>10, <1>7, <1>0
<1> QED BY <1>7, <1>8, Zenon

-----------------------------------------------------------------------------
(* What the first n elements of a sequence are.                            *)
LEMMA PrefixFact ==
    ASSUME NEW S, NEW c \in Seq(S), NEW n \in 0..Len(c)
    PROVE  /\ SubSeq(c, 1, n) \in Seq(S) /\ Len(SubSeq(c, 1, n)) = n
           /\ \A i \in 1..n : SubSeq(c, 1, n)[i] = c[i]
OBVIOUS

(* Two sequences of one length with the same elements are the same.        *)
LEMMA SequencesEqual ==
    ASSUME NEW S, NEW c \in Seq(S), NEW d \in Seq(S), Len(c) = Len(d),
           \A i \in 1..Len(c) : c[i] = d[i]
    PROVE  c = d
OBVIOUS

(* The first elements of the first elements, of all, and one more.         *)
LEMMA PrefixOfPrefix ==
    ASSUME NEW S, NEW c \in Seq(S), NEW n \in 0..Len(c), NEW m \in 0..n
    PROVE  SubSeq(SubSeq(c, 1, n), 1, m) = SubSeq(c, 1, m)
<1>1. m \in 0..Len(c)
  OBVIOUS
<1>2. SubSeq(c, 1, n) \in Seq(S) /\ Len(SubSeq(c, 1, n)) = n
      /\ \A i \in 1..n : SubSeq(c, 1, n)[i] = c[i]
  BY PrefixFact, Zenon
<1>3. SubSeq(c, 1, m) \in Seq(S) /\ Len(SubSeq(c, 1, m)) = m
      /\ \A i \in 1..m : SubSeq(c, 1, m)[i] = c[i]
  BY <1>1, PrefixFact, Zenon
<1> QED BY <1>2, <1>3

(* A sequence is its own longest prefix.                                   *)
LEMMA WholePrefix ==
    ASSUME NEW S, NEW c \in Seq(S)
    PROVE  SubSeq(c, 1, Len(c)) = c
OBVIOUS

(* Prefixes and Append.                                                    *)
LEMMA PrefixAppend ==
    ASSUME NEW S, NEW c \in Seq(S)
    PROVE  /\ \A n \in 0..Len(c) : \A b \in S : SubSeq(Append(c, b), 1, n) = SubSeq(c, 1, n)
           /\ \A n \in 0..Len(c) :
                 n # Len(c) => Append(SubSeq(c, 1, n), c[n + 1]) = SubSeq(c, 1, n + 1)
<1>1. ASSUME NEW n \in 0..Len(c), NEW b \in S
      PROVE  SubSeq(Append(c, b), 1, n) = SubSeq(c, 1, n)
  OBVIOUS
<1>2. ASSUME NEW n \in 0..Len(c), n # Len(c)
      PROVE  Append(SubSeq(c, 1, n), c[n + 1]) = SubSeq(c, 1, n + 1)
  BY <1>2
<1> QED BY <1>1, <1>2, Zenon

(* A chain: block 1 builds on nothing, and each block on the one before it. *)
IsChain(c) ==
    /\ c \in Seq(Block)
    /\ \A n \in 1..Len(c) :
          num[c[n]] = n /\ previous[c[n]] = IF n = 1 THEN Null ELSE c[n - 1]

(* c is the chain that ends in block b.                                    *)
EndsIn(c, b) == IsChain(c) /\ Len(c) = num[b] /\ Len(c) > 0 /\ Last(c) = b

(* A chain is determined by its last block.                                *)
LEMMA ChainsEqual ==
    ASSUME NEW b, NEW c, NEW d, EndsIn(c, b), EndsIn(d, b)
    PROVE  c = d
<1>0. /\ c \in Seq(Block) /\ d \in Seq(Block) /\ Len(c) = Len(d)
      /\ c[Len(c)] = d[Len(c)] /\ Len(c) \in Nat
  BY DEF EndsIn, IsChain, Last
<1>1. \A i \in 1..Len(c) : c[i] = d[i]
  <2> DEFINE N == {i \in 1..Len(c) : c[i] # d[i]}
  <2> SUFFICES ASSUME N # {} PROVE FALSE
    OBVIOUS
  <2>1. N \subseteq 0..Len(c)
    BY <1>0
  <2>2. PICK n \in N : \A m \in N : m <= n
    BY <2>1, <1>0, GreatestNatural, Zenon
  <2>3. n \in 1..Len(c) /\ n # Len(c) /\ c[n] # d[n]
    BY <2>2, <1>0, Zenon
  <2>4. n + 1 \in 1..Len(c) /\ n + 1 # 1 /\ (n + 1) - 1 = n /\ ~ (n + 1 <= n)
    BY <2>3, <1>0
  <2>5. c[n + 1] = d[n + 1]
    BY <2>2, <2>4, Zenon
  <2>6. previous[c[n + 1]] = c[n] /\ previous[d[n + 1]] = d[n]
    BY <2>4, <1>0 DEF EndsIn, IsChain
  <2> QED BY <2>3, <2>5, <2>6, Zenon
<1> QED BY <1>0, <1>1

(* A block on top of a chain.                                              *)
LEMMA ChainExtended ==
    ASSUME NEW c, IsChain(c), NEW b \in Block,
           previous[b] = IF c = <<>> THEN Null ELSE Last(c)
    PROVE  IsChain(Append(c, b)) /\ EndsIn(Append(c, b), b) /\ num[b] = Len(c) + 1
<1>0. c \in Seq(Block) /\ Len(c) \in Nat /\ (c = <<>> <=> Len(c) = 0)
  BY DEF IsChain
<1>1. num[b] = Len(c) + 1
  BY <1>0, BlockAssumption DEF IsChain, Last
<1>2. IsChain(Append(c, b))
  <2>1. Append(c, b) \in Seq(Block) /\ Len(Append(c, b)) = Len(c) + 1
        /\ Append(c, b)[Len(c) + 1] = b /\ \A n \in 1..Len(c) : Append(c, b)[n] = c[n]
    BY <1>0
  <2> SUFFICES ASSUME NEW n \in 1..(Len(c) + 1)
               PROVE  /\ num[Append(c, b)[n]] = n
                      /\ previous[Append(c, b)[n]] = IF n = 1 THEN Null ELSE Append(c, b)[n - 1]
    BY <2>1, Zenon DEF IsChain
  <2>2. CASE n = Len(c) + 1
    BY <2>1, <2>2, <1>0, <1>1 DEF Last
  <2>3. CASE n # Len(c) + 1
    <3>1. n \in 1..Len(c) /\ (n # 1 => n - 1 \in 1..Len(c))
      BY <2>3, <1>0
    <3> QED BY <3>1, <2>1, Zenon DEF IsChain
  <2> QED BY <2>2, <2>3, Zenon
<1> QED BY <1>0, <1>1, <1>2 DEF EndsIn, Last

(* Every block is the end of a chain.                                      *)
LEMMA ChainTo == \A b \in Block : \E c : EndsIn(c, b)
<1> DEFINE Bad(b) == ~ \E c : EndsIn(c, b)
           N == {n \in Nat : \E b \in Block : num[b] = n /\ Bad(b)}
<1> SUFFICES ASSUME NEW x \in Block, Bad(x) PROVE FALSE
  BY Zenon
<1>1. num[x] \in Nat
  BY BlockAssumption, Zenon
<1>2. N \subseteq Nat /\ N # {}
  BY <1>1, Zenon
<1>3. PICK n \in N : \A m \in N : n <= m
  BY <1>2, LeastNatural, Zenon
<1>4. PICK b \in Block : num[b] = n /\ Bad(b)
  BY <1>3, Zenon
<1>5. ASSUME NEW c, IsChain(c), previous[b] = IF c = <<>> THEN Null ELSE Last(c)
      PROVE  FALSE
  BY <1>4, <1>5, ChainExtended, Zenon
<1>6. CASE previous[b] = Null
  <2>1. IsChain(<<>>)
    BY DEF IsChain
  <2> QED BY <2>1, <1>5, <1>6, Zenon
<1>7. CASE previous[b] # Null
  <2>1. previous[b] \in Block /\ num[previous[b]] \in Nat /\ ~ (num[b] <= num[previous[b]])
    BY <1>7, BlockAssumption
  <2>2. PICK c : EndsIn(c, previous[b])
    BY <2>1, <1>3, <1>4, Zenon
  <2>3. IsChain(c) /\ c # <<>> /\ Last(c) = previous[b]
    BY <2>2 DEF EndsIn, IsChain
  <2> QED BY <2>3, <1>5, Zenon
<1> QED BY <1>6, <1>7, Zenon

(* The branch that ends in a block is the chain that ends in it.           *)
LEMMA BranchFact == \A b \in Block : EndsIn(Branch[b], b)
<1> DEFINE Body(g) == [b \in Block |-> IF previous[b] = Null THEN <<b>>
                                       ELSE Append(g[previous[b]], b)]
           Path == [b \in Block |-> CHOOSE c : EndsIn(c, b)]
<1>1. \A b \in Block : EndsIn(Path[b], b)
  BY ChainTo, Zenon
<1>2. ASSUME NEW b \in Block, NEW g, previous[b] # Null => EndsIn(g[previous[b]], previous[b])
      PROVE  EndsIn(IF previous[b] = Null THEN <<b>> ELSE Append(g[previous[b]], b), b)
  <2>1. CASE previous[b] = Null
    <3>1. IsChain(<<>>) /\ Append(<<>>, b) = <<b>>
      BY DEF IsChain
    <3> QED BY <3>1, <2>1, ChainExtended, Zenon
  <2>2. CASE previous[b] # Null
    <3>1. IsChain(g[previous[b]]) /\ g[previous[b]] # <<>> /\ Last(g[previous[b]]) = previous[b]
      BY <1>2, <2>2 DEF EndsIn, IsChain
    <3> QED BY <3>1, <2>2, ChainExtended, Zenon
  <2> QED BY <2>1, <2>2, Zenon
<1>3. Path = Body(Path)
  <2>1. ASSUME NEW b \in Block
        PROVE  Path[b] = IF previous[b] = Null THEN <<b>> ELSE Append(Path[previous[b]], b)
    <3>1. previous[b] # Null => previous[b] \in Block
      BY BlockAssumption, Zenon
    <3> HIDE DEF Path
    <3>2. EndsIn(IF previous[b] = Null THEN <<b>> ELSE Append(Path[previous[b]], b), b)
      BY <3>1, <1>1, <1>2, Zenon
    <3> QED BY <3>2, <1>1, ChainsEqual, Zenon
  <2>2. Path = [b \in Block |-> Path[b]]
    OBVIOUS
  <2> HIDE DEF Path
  <2> QED BY <2>1, <2>2, Zenon
<1>4. Branch = Body(Branch)
  <2> HIDE DEF Path
  <2> QED BY <1>3, Zenon DEF Branch
<1>5. \A b \in Block : Branch[b] = IF previous[b] = Null THEN <<b>>
                                   ELSE Append(Branch[previous[b]], b)
  BY <1>4, Zenon
<1> DEFINE N == {n \in Nat : \E b \in Block : num[b] = n /\ ~ EndsIn(Branch[b], b)}
<1> SUFFICES ASSUME NEW x \in Block, ~ EndsIn(Branch[x], x) PROVE FALSE
  BY Zenon
<1>6. num[x] \in Nat
  BY BlockAssumption, Zenon
<1>7. N \subseteq Nat /\ N # {}
  BY <1>6, Zenon
<1>8. PICK n \in N : \A m \in N : n <= m
  BY <1>7, LeastNatural, Zenon
<1>9. PICK b \in Block : num[b] = n /\ ~ EndsIn(Branch[b], b)
  BY <1>8, Zenon
<1>10. previous[b] # Null => /\ previous[b] \in Block /\ num[previous[b]] \in Nat
                             /\ ~ (num[b] <= num[previous[b]])
  BY BlockAssumption
<1>11. previous[b] # Null => EndsIn(Branch[previous[b]], previous[b])
  BY <1>8, <1>9, <1>10, Zenon
<1> QED BY <1>2, <1>5, <1>9, <1>11, Zenon

-----------------------------------------------------------------------------
(* The last irreversible block, as _apply_block computes it after each     *)
(* block of a chain; it never goes back, so the greatest of these counts.  *)
Marks(c) == {0} \cup {NewIrreversible(SubSeq(c, 1, n)) : n \in 1..Len(c)}
IsMark(m, c) == m \in Marks(c) /\ \A k \in Marks(c) : k <= m

StateAfter(c, m) == [chain |-> c, irreversible |-> m, applied |-> <<>>]

(* A chain each block of which applied to the state of those before it.    *)
ValidChain(c) ==
    /\ IsChain(c)
    /\ \A n \in 1..Len(c) : \A m \in Nat :
          IsMark(m, SubSeq(c, 1, n - 1))
              => ~ ApplyThrows(StateAfter(SubSeq(c, 1, n - 1), m), c[n])

(* A state of the object database that its chain, and nothing else, gave.  *)
Sound(d) ==
    /\ d = StateAfter(d.chain, d.irreversible)
    /\ ValidChain(d.chain)
    /\ IsMark(d.irreversible, d.chain)

(* The fields of such a state.                                             *)
LEMMA SoundType ==
    ASSUME NEW d, Sound(d)
    PROVE  /\ d.chain \in Seq(Block) /\ Len(d.chain) \in Nat
           /\ d.irreversible \in 0..Len(d.chain)
           /\ d.applied = <<>>
           /\ d \in object_database
           /\ HistorySize(d) \in Nat /\ HistorySize(d) > 1
           /\ Cardinality(Witness) > 1 /\ d.chain # <<>> => d.irreversible < Len(d.chain)
<1>1. d.chain \in Seq(Block) /\ Len(d.chain) \in Nat
  BY DEF Sound, ValidChain, IsChain
<1>2. d.applied = <<>> /\ d = [chain |-> d.chain, irreversible |-> d.irreversible, applied |-> <<>>]
  BY DEF Sound, StateAfter
<1>3. /\ d.irreversible \in 0..Len(d.chain)
      /\ Cardinality(Witness) > 1 /\ d.chain # <<>> => d.irreversible < Len(d.chain)
  <2> DEFINE c == d.chain
  <2>1. \/ d.irreversible = 0
        \/ \E n \in 1..Len(c) : d.irreversible = NewIrreversible(SubSeq(c, 1, n))
    BY Zenon DEF Sound, IsMark, Marks
  <2>2. CASE d.irreversible = 0
    BY <2>2, <1>1
  <2>3. CASE \E n \in 1..Len(c) : d.irreversible = NewIrreversible(SubSeq(c, 1, n))
    <3>1. PICK n \in 1..Len(c) : d.irreversible = NewIrreversible(SubSeq(c, 1, n))
      BY <2>3, Zenon
    <3>2. n \in 0..Len(c) /\ n \in Nat /\ n > 0 /\ n <= Len(c)
      BY <1>1
    <3>3. SubSeq(c, 1, n) \in Seq(Block) /\ Len(SubSeq(c, 1, n)) = n
      BY <1>1, <3>2, PrefixFact, Zenon
    <3>4. SubSeq(c, 1, n) # <<>>
      BY <3>2, <3>3
    <3>5. /\ d.irreversible \in 0..n
          /\ Cardinality(Witness) > 1 => d.irreversible < n
      BY <3>1, <3>3, <3>4, IrreversibleFact, Zenon
    <3> QED BY <3>2, <3>5, <1>1
  <2> QED BY <2>1, <2>2, <2>3, Zenon
<1>4. d \in object_database
  <2>1. d.irreversible \in Nat /\ <<>> \in Seq(Tx)
    BY <1>1, <1>3
  <2> QED BY <1>1, <1>2, <2>1, Zenon DEF object_database
<1>5. HistorySize(d) \in Nat /\ HistorySize(d) > 1
  BY <1>1, <1>3 DEF HistorySize, head_block_num
<1> QED BY <1>1, <1>2, <1>3, <1>4, <1>5, Zenon

(* The genesis state is one.                                               *)
LEMMA GenesisSound == Sound(GenesisState) /\ GenesisState.chain = <<>>
<1>1. GenesisState = StateAfter(<<>>, 0) /\ GenesisState.chain = <<>>
      /\ GenesisState.irreversible = 0
  BY Zenon DEF GenesisState, StateAfter
<1>2. ValidChain(<<>>)
  BY DEF ValidChain, IsChain
<1>3. IsMark(0, <<>>)
  BY DEF IsMark, Marks
<1> QED BY <1>1, <1>2, <1>3, Zenon DEF Sound

(* A prefix of a valid chain is a valid chain.                             *)
LEMMA PrefixValid ==
    ASSUME NEW c, ValidChain(c), NEW n \in 0..Len(c)
    PROVE  ValidChain(SubSeq(c, 1, n))
<1> DEFINE p == SubSeq(c, 1, n)
<1>0. c \in Seq(Block) /\ Len(c) \in Nat /\ IsChain(c)
  BY DEF ValidChain, IsChain
<1>1. p \in Seq(Block) /\ Len(p) = n /\ \A i \in 1..n : p[i] = c[i]
  BY <1>0, PrefixFact, Zenon
<1>2. \A i \in 1..n : i \in 1..Len(c) /\ i - 1 \in 0..n /\ (i # 1 => i - 1 \in 1..n)
  BY <1>0
<1>3. \A i \in 1..n : SubSeq(p, 1, i - 1) = SubSeq(c, 1, i - 1)
  BY <1>0, <1>2, PrefixOfPrefix, Zenon
<1> HIDE DEF p
<1>4. IsChain(p)
  BY <1>0, <1>1, <1>2, Zenon DEF IsChain
<1>5. \A i \in 1..Len(p) : \A m \in Nat :
          IsMark(m, SubSeq(p, 1, i - 1)) => ~ ApplyThrows(StateAfter(SubSeq(p, 1, i - 1), m), p[i])
  BY <1>1, <1>2, <1>3, Zenon DEF ValidChain
<1>6. ValidChain(p)
  BY <1>4, <1>5, Zenon DEF ValidChain
<1> QED BY <1>6, Zenon DEF p

(* There is one state after a chain.                                       *)
LEMMA SameState ==
    ASSUME NEW d, NEW e, Sound(d), Sound(e), d.chain = e.chain
    PROVE  d = e
<1>1. d.irreversible <= e.irreversible /\ e.irreversible <= d.irreversible
  BY Zenon DEF Sound, IsMark
<1>2. d.irreversible \in Int /\ e.irreversible \in Int
  BY SoundType
<1>3. d.irreversible = e.irreversible
  BY <1>1, <1>2
<1> QED BY <1>3, Zenon DEF Sound

(* The next block of a valid chain applies to the state after a prefix.    *)
LEMMA NextApplies ==
    ASSUME NEW c, ValidChain(c), NEW d, Sound(d), NEW n \in 0..Len(c), n # Len(c),
           d.chain = SubSeq(c, 1, n)
    PROVE  ~ ApplyThrows(d, c[n + 1])
<1>0. c \in Seq(Block) /\ Len(c) \in Nat
  BY DEF ValidChain, IsChain
<1>1. n + 1 \in 1..Len(c) /\ (n + 1) - 1 = n
  BY <1>0
<1>2. d.irreversible \in Nat
  BY SoundType
<1>3. IsMark(d.irreversible, SubSeq(c, 1, n)) /\ d = StateAfter(SubSeq(c, 1, n), d.irreversible)
  BY Zenon DEF Sound
<1> QED BY <1>1, <1>2, <1>3, Zenon DEF ValidChain

(* _apply_block takes the state after a chain to the state after a longer one. *)
LEMMA ApplySound ==
    ASSUME NEW d, Sound(d), NEW b \in Block, ~ ApplyThrows(d, b)
    PROVE  /\ Sound(apply_block(d, b))
           /\ apply_block(d, b).chain = Append(d.chain, b)
           /\ num[b] = Len(d.chain) + 1
<1> DEFINE c == d.chain
           e == Append(c, b)
           m == NewIrreversible(e)
           a == apply_block(d, b)
<1>0. c \in Seq(Block) /\ Len(c) \in Nat /\ d.irreversible \in 0..Len(c)
  BY SoundType, Zenon
<1>1. e \in Seq(Block) /\ Len(e) = Len(c) + 1 /\ e[Len(c) + 1] = b
      /\ \A n \in 1..Len(c) : e[n] = c[n]
  BY <1>0
<1>2. a.chain = e /\ a.irreversible = (IF m > d.irreversible THEN m ELSE d.irreversible)
      /\ a = StateAfter(e, a.irreversible)
  BY Zenon DEF apply_block, StateAfter
<1>3. m \in Nat
  <2>1. m \in 0..Len(e)
    BY <1>1, IrreversibleFact, Zenon
  <2> HIDE DEF m, e
  <2> QED BY <2>1, <1>0, <1>1
<1>4. \A n \in 1..Len(c) : SubSeq(e, 1, n) = SubSeq(c, 1, n)
  BY <1>0
<1>5. SubSeq(e, 1, Len(c) + 1) = e
  BY <1>1
<1>6. SubSeq(e, 1, Len(c)) = c
  BY <1>0
<1> HIDE DEF e
<1>7. Marks(e) = Marks(c) \cup {m}
  <2>1. 1..Len(e) = 1..Len(c) \cup {Len(c) + 1}
    BY <1>0, <1>1
  <2> HIDE DEF c
  <2> QED BY <2>1, <1>4, <1>5, Zenon DEF Marks
<1>8. Marks(c) \subseteq Int
  <2>1. \A k \in Marks(c) : k <= d.irreversible
    BY Zenon DEF Sound, IsMark
  <2>2. ASSUME NEW n \in 1..Len(c) PROVE NewIrreversible(SubSeq(c, 1, n)) \in Int
    <3>1. SubSeq(c, 1, n) \in Seq(Block)
      BY <1>0
    <3>2. NewIrreversible(SubSeq(c, 1, n)) \in 0..Len(SubSeq(c, 1, n))
      BY <3>1, IrreversibleFact, Zenon
    <3> QED BY <3>2
  <2> QED BY <2>2 DEF Marks
<1>9. IsMark(a.irreversible, e)
  <2>1. d.irreversible \in Marks(c) /\ \A k \in Marks(c) : k <= d.irreversible
    BY Zenon DEF Sound, IsMark
  <2>2. a.irreversible \in Marks(c) \cup {m}
    BY <2>1, <1>2, Zenon
  <2>3. ASSUME NEW k \in Marks(c) PROVE k <= a.irreversible
    <3>1. k <= d.irreversible /\ k \in Int
      BY <2>1, <1>8, Zenon
    <3> HIDE DEF a, m
    <3> QED BY <3>1, <1>0, <1>2, <1>3
  <2>4. m <= a.irreversible
    <3> HIDE DEF a, m
    <3> QED BY <1>0, <1>2, <1>3
  <2> QED BY <2>2, <2>3, <2>4, <1>7, Zenon DEF IsMark
<1>10. IsChain(c) /\ previous[b] = IF c = <<>> THEN Null ELSE Last(c)
  BY Zenon DEF Sound, ValidChain, ApplyThrows, Rejects, head_block_id
<1>11. IsChain(e) /\ num[b] = Len(c) + 1
  BY <1>10, ChainExtended, Zenon DEF e
<1>12. ValidChain(e)
  <2> SUFFICES ASSUME NEW n \in 1..(Len(c) + 1), NEW k \in Nat, IsMark(k, SubSeq(e, 1, n - 1))
               PROVE  ~ ApplyThrows(StateAfter(SubSeq(e, 1, n - 1), k), e[n])
    BY <1>1, <1>11, Zenon DEF ValidChain
  <2>1. CASE n = Len(c) + 1
    <3>1. SubSeq(e, 1, n - 1) = c /\ e[n] = b
      BY <2>1, <1>0, <1>1, <1>6
    <3>2. k = d.irreversible
      <4>1. k <= d.irreversible /\ d.irreversible <= k
        BY <3>1, Zenon DEF Sound, IsMark
      <4> QED BY <4>1, <1>0
    <3> QED BY <3>1, <3>2, Zenon DEF Sound
  <2>2. CASE n # Len(c) + 1
    <3>1. n \in 1..Len(c)
      BY <2>2, <1>0
    <3>2. SubSeq(e, 1, n - 1) = SubSeq(c, 1, n - 1)
      BY <3>1, <1>0 DEF e
    <3> QED BY <3>1, <3>2, <1>1, Zenon DEF Sound, ValidChain
  <2> QED BY <2>1, <2>2, Zenon
<1> QED BY <1>2, <1>9, <1>11, <1>12, Zenon DEF Sound, e

-----------------------------------------------------------------------------
(* The undo log below a state d: the states after the last blocks of its   *)
(* chain, without a gap, none of them below the state saved on disk, which *)
(* is a state of the same chain.                                           *)
Holds(d, log, saved) ==
    /\ Sound(d) /\ Sound(saved)
    /\ log \in Seq(object_database)
    /\ Len(saved.chain) + Len(log) <= Len(d.chain)
    /\ saved.chain = SubSeq(d.chain, 1, Len(saved.chain))
    /\ \A k \in 1..Len(log) :
          Sound(log[k]) /\ log[k].chain = SubSeq(d.chain, 1, Len(d.chain) - Len(log) + k - 1)

(* All but the last of a sequence.                                         *)
LEMMA FrontFact ==
    ASSUME NEW S, NEW log \in Seq(S), log # <<>>
    PROVE  /\ Len(log) \in Nat \ {0}
           /\ Front(log) \in Seq(S) /\ Len(Front(log)) = Len(log) - 1
           /\ \A k \in 1..(Len(log) - 1) : Front(log)[k] = log[k]
<1>1. Len(log) \in Nat \ {0} /\ Len(log) - 1 \in 0..Len(log)
  OBVIOUS
<1> QED BY <1>1, PrefixFact, Zenon DEF Front

(* What trimming a log leaves.                                             *)
LEMMA TrimFact ==
    ASSUME NEW S, NEW log \in Seq(S), NEW n \in Nat
    PROVE  /\ Trim(log, n) \in Seq(S)
           /\ Len(Trim(log, n)) \in 0..Len(log)
           /\ Len(Trim(log, n)) <= n
           /\ \A k \in 1..Len(Trim(log, n)) :
                 /\ Trim(log, n)[k] = log[Len(log) - Len(Trim(log, n)) + k]
                 /\ Len(log) - Len(Trim(log, n)) + k \in 1..Len(log)
           /\ Len(log) <= n => Trim(log, n) = log
<1>1. CASE Len(log) > n
  <2>1. Trim(log, n) = SubSeq(log, Len(log) - n + 1, Len(log))
    BY <1>1, Zenon DEF Trim
  <2>2. /\ SubSeq(log, Len(log) - n + 1, Len(log)) \in Seq(S)
        /\ Len(SubSeq(log, Len(log) - n + 1, Len(log))) = n
        /\ \A k \in 1..n : SubSeq(log, Len(log) - n + 1, Len(log))[k] = log[Len(log) - n + k]
    BY <1>1
  <2>3. ~ (Len(log) <= n) /\ n \in 0..Len(log) /\ n <= n
        /\ \A k \in 1..n : Len(log) - n + k \in 1..Len(log)
    BY <1>1
  <2> QED BY <2>1, <2>2, <2>3, Zenon
<1>2. CASE ~ (Len(log) > n)
  <2>1. Trim(log, n) = log
    BY <1>2, Zenon DEF Trim
  <2> QED BY <2>1, <1>2
<1> QED BY <1>1, <1>2, Zenon

(* Opening a session trims the log and keeps its newest states.            *)
LEMMA HoldsTrim ==
    ASSUME NEW d, NEW log, NEW saved, Holds(d, log, saved), NEW n \in Nat
    PROVE  Holds(d, Trim(log, n), saved)
<1> DEFINE t == Trim(log, n)
<1>0. log \in Seq(object_database) /\ Len(log) \in Nat
      /\ Len(d.chain) \in Nat /\ Len(saved.chain) \in Nat
  BY SoundType DEF Holds
<1>1. /\ t \in Seq(object_database) /\ Len(t) \in 0..Len(log)
      /\ \A k \in 1..Len(t) : /\ t[k] = log[Len(log) - Len(t) + k]
                              /\ Len(log) - Len(t) + k \in 1..Len(log)
  BY <1>0, TrimFact, Zenon
<1> HIDE DEF t
<1>2. Len(saved.chain) + Len(t) <= Len(d.chain) /\ Len(t) \in Nat
  BY <1>0, <1>1 DEF Holds
<1>3. ASSUME NEW k \in 1..Len(t)
      PROVE  Sound(t[k]) /\ t[k].chain = SubSeq(d.chain, 1, Len(d.chain) - Len(t) + k - 1)
  <2> DEFINE j == Len(log) - Len(t) + k
  <2>1. j \in 1..Len(log) /\ t[k] = log[j]
    BY <1>1, Zenon
  <2>2. Sound(log[j]) /\ log[j].chain = SubSeq(d.chain, 1, Len(d.chain) - Len(log) + j - 1)
    BY <2>1, Zenon DEF Holds
  <2>3. Len(d.chain) - Len(log) + j - 1 = Len(d.chain) - Len(t) + k - 1
    <3> DEFINE x == Len(d.chain)
               y == Len(log)
               z == Len(t)
    <3>1. x \in Int /\ y \in Int /\ z \in Int /\ k \in Int
      BY <1>0, <1>2
    <3> HIDE DEF x, y, z
    <3>2. x - y + (y - z + k) - 1 = x - z + k - 1
      BY <3>1
    <3> QED BY <3>2, Zenon DEF x, y, z
  <2> QED BY <2>1, <2>2, <2>3, Zenon
<1>4. Holds(d, t, saved)
  BY <1>1, <1>2, <1>3, Zenon DEF Holds
<1> QED BY <1>4, Zenon DEF t

(* Applying a block inside a session adds a state to the log.              *)
LEMMA HoldsPush ==
    ASSUME NEW d, NEW log, NEW saved, Holds(d, log, saved),
           NEW b \in Block, ~ ApplyThrows(d, b)
    PROVE  Holds(apply_block(d, b), Append(log, d), saved)
<1> DEFINE a == apply_block(d, b)
           t == Append(log, d)
<1>0. /\ d.chain \in Seq(Block) /\ Len(d.chain) \in Nat /\ Len(saved.chain) \in Nat
      /\ d \in object_database /\ Sound(d) /\ Sound(saved)
      /\ log \in Seq(object_database) /\ Len(log) \in Nat
      /\ Len(saved.chain) + Len(log) <= Len(d.chain)
  BY SoundType DEF Holds
<1>1. Sound(a) /\ a.chain = Append(d.chain, b)
  BY <1>0, ApplySound, Zenon
<1> HIDE DEF a
<1>2. /\ t \in Seq(object_database) /\ Len(t) = Len(log) + 1 /\ t[Len(log) + 1] = d
      /\ \A k \in 1..Len(log) : t[k] = log[k]
  BY <1>0
<1>3. Len(a.chain) = Len(d.chain) + 1
      /\ \A n \in 0..Len(d.chain) : SubSeq(a.chain, 1, n) = SubSeq(d.chain, 1, n)
  BY <1>0, <1>1
<1>4. SubSeq(a.chain, 1, Len(d.chain)) = d.chain
  BY <1>0, <1>1
<1> HIDE DEF t
<1>5. Len(saved.chain) + Len(t) <= Len(a.chain) /\ Len(saved.chain) \in 0..Len(d.chain)
  <2>1. Len(t) = Len(log) + 1 /\ Len(a.chain) = Len(d.chain) + 1
    BY <1>2, <1>3, Zenon
  <2>2. Len(saved.chain) \in Nat /\ Len(log) \in Nat /\ Len(d.chain) \in Nat
        /\ Len(saved.chain) + Len(log) <= Len(d.chain)
    BY <1>0, Zenon
  <2>3. \A x, y, z \in Nat : x + y <= z => x + (y + 1) <= z + 1 /\ x \in 0..z
    OBVIOUS
  <2> QED BY <2>1, <2>2, <2>3, Zenon
<1>6. saved.chain = SubSeq(a.chain, 1, Len(saved.chain))
  BY <1>3, <1>5, Zenon DEF Holds
<1>7. ASSUME NEW k \in 1..Len(t)
      PROVE  Sound(t[k]) /\ t[k].chain = SubSeq(a.chain, 1, Len(a.chain) - Len(t) + k - 1)
  <2>1. CASE k = Len(t)
    <3>1. Len(a.chain) - Len(t) + k - 1 = Len(d.chain) /\ k = Len(log) + 1
      BY <2>1, <1>0, <1>2, <1>3
    <3> QED BY <3>1, <1>0, <1>2, <1>4, Zenon
  <2>2. CASE k # Len(t)
    <3> DEFINE n == Len(d.chain) - Len(log) + k - 1
    <3>1. k \in 1..Len(log) /\ Len(a.chain) - Len(t) + k - 1 = n /\ n \in 0..Len(d.chain)
      BY <2>2, <1>0, <1>2, <1>3
    <3>2. Sound(log[k]) /\ log[k].chain = SubSeq(d.chain, 1, n)
      BY <3>1, Zenon DEF Holds
    <3> HIDE DEF n
    <3> QED BY <3>1, <3>2, <1>2, <1>3, Zenon
  <2> QED BY <2>1, <2>2, Zenon
<1>8. Holds(a, t, saved)
  BY <1>0, <1>1, <1>2, <1>5, <1>6, <1>7, Zenon DEF Holds
<1> QED BY <1>8, Zenon DEF a, t

(* pop_undo returns to the state before the last block.                    *)
LEMMA HoldsPop ==
    ASSUME NEW d, NEW log, NEW saved, Holds(d, log, saved), log # <<>>
    PROVE  /\ Holds(Last(log), Front(log), saved)
           /\ Len(d.chain) > 0
           /\ Last(log).chain = SubSeq(d.chain, 1, Len(d.chain) - 1)
<1> DEFINE e == Last(log)
           t == Front(log)
<1>0. /\ d.chain \in Seq(Block) /\ Len(d.chain) \in Nat /\ Len(saved.chain) \in Nat
      /\ Sound(saved)
      /\ log \in Seq(object_database) /\ Len(log) \in Nat \ {0}
      /\ Len(saved.chain) + Len(log) <= Len(d.chain)
  BY SoundType DEF Holds
<1>1. /\ t \in Seq(object_database) /\ Len(t) = Len(log) - 1
      /\ \A k \in 1..Len(t) : t[k] = log[k]
  BY <1>0, FrontFact, Zenon
<1> DEFINE n == Len(d.chain) - 1
<1>2. n \in 0..Len(d.chain) /\ Len(d.chain) - Len(log) + Len(log) - 1 = n
      /\ Len(log) \in 1..Len(log)
  BY <1>0
<1>3. Sound(e) /\ e.chain = SubSeq(d.chain, 1, n)
  BY <1>2, Zenon DEF Holds, Last
<1> HIDE DEF t, e, n
<1>4. Len(e.chain) = n /\ \A m \in 0..n : SubSeq(e.chain, 1, m) = SubSeq(d.chain, 1, m)
  <2>1. Len(e.chain) = n
    <3>1. d.chain \in Seq(Block) /\ n \in 0..Len(d.chain)
      BY <1>0, <1>2, Zenon
    <3>2. Len(SubSeq(d.chain, 1, n)) = n
      BY <3>1, PrefixFact, Zenon
    <3> QED BY <3>2, <1>3, Zenon
  <2>2. ASSUME NEW m \in 0..n PROVE SubSeq(e.chain, 1, m) = SubSeq(d.chain, 1, m)
    BY <1>0, <1>2, <1>3, PrefixOfPrefix, Zenon
  <2> QED BY <2>1, <2>2, Zenon
<1>5. Len(saved.chain) + Len(t) <= Len(e.chain) /\ Len(saved.chain) \in 0..n
  BY <1>0, <1>1, <1>4 DEF n
<1>6. saved.chain = SubSeq(e.chain, 1, Len(saved.chain))
  BY <1>4, <1>5, Zenon DEF Holds
<1>7. ASSUME NEW k \in 1..Len(t)
      PROVE  Sound(t[k]) /\ t[k].chain = SubSeq(e.chain, 1, Len(e.chain) - Len(t) + k - 1)
  <2> DEFINE m == Len(d.chain) - Len(log) + k - 1
  <2>1. k \in 1..Len(log) /\ Len(e.chain) - Len(t) + k - 1 = m /\ m \in 0..n
    <3>1. Len(t) = Len(log) - 1 /\ Len(e.chain) = n
      BY <1>1, <1>4, Zenon
    <3> QED BY <3>1, <1>0 DEF n
  <2>2. Sound(log[k]) /\ log[k].chain = SubSeq(d.chain, 1, m)
    BY <2>1, Zenon DEF Holds
  <2> HIDE DEF m
  <2> QED BY <2>1, <2>2, <1>1, <1>4, Zenon
<1>8. Holds(e, t, saved)
  BY <1>0, <1>1, <1>3, <1>5, <1>6, <1>7, Zenon DEF Holds
<1>9. Len(d.chain) > 0
  BY <1>0
<1> QED BY <1>3, <1>8, <1>9, Zenon DEF e, t, n

(* An empty log, below the saved state itself or a later one.              *)
LEMMA HoldsNone ==
    /\ \A d : Sound(d) => Holds(d, <<>>, d)
    /\ \A d, saved : \A b \in Block : Holds(d, <<>>, saved) /\ ~ ApplyThrows(d, b)
                         => Holds(apply_block(d, b), <<>>, saved)
<1>1. ASSUME NEW d, Sound(d) PROVE Holds(d, <<>>, d)
  <2>1. d.chain \in Seq(Block) /\ Len(d.chain) \in Nat
    BY <1>1, SoundType, Zenon
  <2>2. SubSeq(d.chain, 1, Len(d.chain)) = d.chain
    BY <2>1
  <2> QED BY <1>1, <2>1, <2>2 DEF Holds
<1>2. ASSUME NEW d, NEW saved, NEW b \in Block, Holds(d, <<>>, saved), ~ ApplyThrows(d, b)
      PROVE  Holds(apply_block(d, b), <<>>, saved)
  <2> DEFINE t == Append(<<>>, d)
  <2>0. 0 \in Nat
    OBVIOUS
  <2>1. Holds(apply_block(d, b), t, saved)
    BY <1>2, HoldsPush, Zenon
  <2>2. Trim(t, 0) = <<>>
    <3>1. t \in Seq({d})
      OBVIOUS
    <3>2. Trim(t, 0) \in Seq({d}) /\ Len(Trim(t, 0)) <= 0
      BY <3>1, <2>0, TrimFact, Zenon
    <3> QED BY <3>2
  <2> QED BY <2>0, <2>1, <2>2, HoldsTrim, Zenon
<1> QED BY <1>1, <1>2, Zenon

(* The sessions of pending transactions: with room for one, the newest     *)
(* state of a log stays the newest, and the others are trimmed below it.   *)
LEMMA TrimBelow ==
    ASSUME NEW S, NEW log \in Seq(S), log # <<>>, NEW n \in Nat \ {0}
    PROVE  /\ Trim(log, n) # <<>> /\ Last(Trim(log, n)) = Last(log)
           /\ Front(Trim(log, n)) = Trim(Front(log), n - 1)
<1> DEFINE f == Front(log)
           t == Trim(log, n)
           u == Trim(f, n - 1)
<1>0. /\ Len(log) \in Nat \ {0} /\ f \in Seq(S) /\ Len(f) = Len(log) - 1
      /\ \A k \in 1..(Len(log) - 1) : f[k] = log[k]
  BY FrontFact, Zenon
<1>1. CASE Len(log) > n
  <2> HIDE DEF f
  <2>1. /\ t \in Seq(S) /\ Len(t) = n
        /\ \A k \in 1..n : t[k] = log[Len(log) - n + k]
    BY <1>0, <1>1 DEF Trim
  <2>2. /\ u \in Seq(S) /\ Len(u) = n - 1
        /\ \A k \in 1..(n - 1) : u[k] = f[Len(log) - n + k]
    <3>1. Len(f) > n - 1 /\ n - 1 \in Nat
      BY <1>0, <1>1
    <3>2. u = SubSeq(f, Len(f) - (n - 1) + 1, Len(f))
      BY <3>1, Zenon DEF Trim
    <3> HIDE DEF u
    <3> QED BY <1>0, <3>1, <3>2
  <2> HIDE DEF t, u
  <2>3. t # <<>> /\ Last(t) = Last(log)
    BY <1>0, <2>1 DEF Last
  <2>4. /\ Front(t) \in Seq(S) /\ Len(Front(t)) = n - 1
        /\ \A k \in 1..(n - 1) : Front(t)[k] = t[k]
    BY <2>1, <2>3, FrontFact, Zenon
  <2>5. \A k \in 1..(n - 1) : Front(t)[k] = u[k]
    <3> SUFFICES ASSUME NEW k \in 1..(n - 1) PROVE Front(t)[k] = u[k]
      BY Zenon
    <3>1. Len(log) \in Nat
      BY <1>0, Zenon
    <3>2. k \in 1..n /\ Len(log) - n + k \in 1..(Len(log) - 1)
      BY <3>1, <1>1
    <3>3. t[k] = log[Len(log) - n + k] /\ u[k] = f[Len(log) - n + k] /\ Front(t)[k] = t[k]
      BY <3>2, <2>1, <2>2, <2>4, Zenon
    <3> QED BY <3>2, <3>3, <1>0, Zenon
  <2>6. Front(t) = u
    BY <2>2, <2>4, <2>5, SequencesEqual, Zenon
  <2> QED BY <2>3, <2>6, Zenon DEF t, u, f
<1>2. CASE ~ (Len(log) > n)
  <2>1. Trim(log, n) = log
    BY <1>2, Zenon DEF Trim
  <2>2. Trim(Front(log), n - 1) = Front(log)
    BY <1>0, <1>2 DEF Trim
  <2> QED BY <2>1, <2>2, Zenon
<1> QED BY <1>1, <1>2, Zenon

(* The log below a new session, and its newest state.                      *)
LEMMA AppendFact ==
    ASSUME NEW S, NEW log \in Seq(S), NEW d \in S
    PROVE  /\ Append(log, d) \in Seq(S) /\ Append(log, d) # <<>>
           /\ Last(Append(log, d)) = d /\ Front(Append(log, d)) = log
BY DEF Last, Front

-----------------------------------------------------------------------------
(* The operations of the fork database return fork databases.              *)
LEMMA EraseType ==
    ASSUME NEW f \in fork_database, NEW gone
    PROVE  Erase(f, gone) \in fork_database
BY Zenon DEF Erase, fork_database

(* Every operation of the fork database leaves a fork database.            *)
LEMMA ForkTypes ==
    ASSUME NEW f \in fork_database
    PROVE  /\ \A b \in Block : /\ fork_push_block(f, b) \in fork_database
                               /\ start_block(f, b) \in fork_database
                               /\ set_head(f, b) \in fork_database
                               /\ update_witnesses(f, b) \in fork_database
                               /\ fork_remove(f, b) \in fork_database
           /\ \A size \in Nat : fork_set_max_size(f, size) \in fork_database
           /\ f.head # Null => fork_pop_block(f) \in fork_database
<1>0. f.head \in Block \cup {Null} /\ f.index \subseteq Block
  BY Zenon DEF fork_database
<1>1. ASSUME NEW b \in Block PROVE start_block(f, b) \in fork_database
  BY Zenon DEF start_block, fork_database
<1>2. ASSUME NEW b \in Block PROVE set_head(f, b) \in fork_database
  BY Zenon DEF set_head, fork_database
<1>3. ASSUME NEW b \in Block PROVE update_witnesses(f, b) \in fork_database
  BY Zenon DEF update_witnesses, fork_database
<1>4. ASSUME f.head # Null PROVE fork_pop_block(f) \in fork_database
  <2>1. previous[f.head] \in Block \cup {Null}
    BY <1>0, <1>4, BlockAssumption, Zenon
  <2> QED BY <2>1, Zenon DEF fork_pop_block, fork_database
<1>5. ASSUME NEW size \in Nat PROVE fork_set_max_size(f, size) \in fork_database
  <2>1. [f EXCEPT !.max_size = size] \in fork_database
    BY Zenon DEF fork_database
  <2> QED BY <2>1, EraseType, Zenon DEF fork_set_max_size, Prune
<1>6. ASSUME NEW b \in Block PROVE fork_remove(f, b) \in fork_database
  <2>1. Erase(f, {b}) \in fork_database
    BY EraseType, Zenon
  <2>2. ASSUME NEW e \in fork_database, NEW h \in Block \cup {Null}
        PROVE  [e EXCEPT !.head = h] \in fork_database
    BY Zenon DEF fork_database
  <2>3. previous[b] \in Block \cup {Null} /\ Null \in Block \cup {Null}
    BY BlockAssumption, Zenon
  <2> QED BY <2>1, <2>2, <2>3, Zenon DEF fork_remove
<1>7. ASSUME NEW b \in Block PROVE fork_push_block(f, b) \in fork_database
  <2> DEFINE g == IF b \in f.index THEN f
                  ELSE [f EXCEPT !.index  = @ \cup {b},
                                 !.linked = IF f.head = Null \/ previous[b] = Null
                                            THEN @ ELSE @ \cup {b}]
  <2>1. g \in fork_database
    BY Zenon DEF fork_database
  <2> HIDE DEF g
  <2>2. [g EXCEPT !.head = b] \in fork_database
    BY <2>1, Zenon DEF fork_database
  <2>3. fork_push_block(f, b) \in
            {g, [g EXCEPT !.head = b],
             Prune([g EXCEPT !.head = b], AtLeastZero(num[b] - f.max_size))}
    BY Zenon DEF fork_push_block, g
  <2>4. Prune([g EXCEPT !.head = b], AtLeastZero(num[b] - f.max_size)) \in fork_database
    BY <2>2, EraseType, Zenon DEF Prune
  <2> QED BY <2>1, <2>2, <2>3, <2>4, Zenon
<1> QED BY <1>1, <1>2, <1>3, <1>4, <1>5, <1>6, <1>7, Zenon

(* The block files: what is stored under a number has that number, and     *)
(* there is a last number with a block.                                    *)
BlocksOK(d) ==
    /\ d \in block_database
    /\ \A n \in Height : d.entry[n] # Null => num[d.entry[n]] = n
    /\ \E k \in Nat : \A n \in Height : d.entry[n] # Null => n <= k
    /\ d.unsynced.was # Null => num[d.unsynced.was] = d.unsynced.at

(* store, the removal of blocks, a crash and damage keep the files so, and *)
(* fetch_by_number returns a block of the number asked for.                *)
LEMMA BlocksTypes ==
    ASSUME NEW d, BlocksOK(d)
    PROVE  /\ \A b \in Block : BlocksOK(store(d, b))
           /\ \A n : BlocksOK(remove_after(d, n))
           /\ BlocksOK(synced(d)) /\ BlocksOK(EmptyBlockDatabase)
           /\ \A files \in AfterCrash(d) : BlocksOK(files)
           /\ \A n : /\ fetch_by_number(d, n) \in Block \cup {Null}
                     /\ fetch_by_number(d, n) # Null => num[fetch_by_number(d, n)] = n
           /\ \A n \in Height : BlocksOK([d EXCEPT !.entry[n] = Null])
<1> DEFINE E == d.entry
           U == d.unsynced
           MaybeBlock == Block \cup {Null}
           Numbered(e) == /\ \A n \in Height : e[n] # Null => num[e[n]] = n
                          /\ \E k \in Nat : \A n \in Height : e[n] # Null => n <= k
<1>1. E \in [Height -> MaybeBlock] /\ Numbered(E)
  BY Zenon DEF BlocksOK, block_database
<1>2. /\ d = [entry |-> E, unsynced |-> U]
      /\ U \in [at : Height \cup {0}, was : MaybeBlock]
      /\ U.was # Null => num[U.was] = U.at
  BY Zenon DEF BlocksOK, block_database
<1>3. ASSUME NEW n \in Height, NEW b \in MaybeBlock, b # Null => num[b] = n
      PROVE  [E EXCEPT ![n] = b] \in [Height -> MaybeBlock] /\ Numbered([E EXCEPT ![n] = b])
  <2> HIDE DEF E, MaybeBlock
  <2> DEFINE e == [E EXCEPT ![n] = b]
  <2>1. e \in [Height -> MaybeBlock] /\ e[n] = b /\ \A m \in Height : m # n => e[m] = E[m]
    BY <1>1, <1>3, Zenon
  <2> HIDE DEF e
  <2>2. \A m \in Height : e[m] # Null => num[e[m]] = m
    BY <2>1, <1>1, <1>3, Zenon
  <2>3. PICK k \in Nat : \A m \in Height : E[m] # Null => m <= k
    BY <1>1, Zenon
  <2>4. n \in Nat /\ \A m \in Height : m \in Nat
    BY BlockAssumption DEF Height
  <2>5. k + n \in Nat /\ n <= k + n /\ \A m \in Nat : m <= k => m <= k + n
    BY <2>4
  <2>6. \A m \in Height : e[m] # Null => m <= k + n
    BY <2>1, <2>3, <2>4, <2>5, Zenon
  <2> QED BY <2>1, <2>2, <2>5, <2>6, Zenon DEF e
<1>4. ASSUME NEW e \in [Height -> MaybeBlock], Numbered(e),
             NEW u \in [at : Height \cup {0}, was : MaybeBlock], u.was # Null => num[u.was] = u.at
      PROVE  BlocksOK([entry |-> e, unsynced |-> u])
  BY <1>4, Zenon DEF BlocksOK, block_database
<1>5. /\ NothingUnsynced \in [at : Height \cup {0}, was : MaybeBlock]
      /\ NothingUnsynced.was = Null
  BY Zenon DEF NothingUnsynced
<1>6. ASSUME NEW b \in Block PROVE BlocksOK(store(d, b))
  <2>1. num[b] \in Height /\ b # Null /\ b \in MaybeBlock
    BY BlockAssumption, Zenon DEF Height
  <2> DEFINE u == [at |-> num[b], was |-> E[num[b]]]
  <2>2. E[num[b]] \in MaybeBlock /\ (E[num[b]] # Null => num[E[num[b]]] = num[b])
    BY <2>1, <1>1, Zenon
  <2>3. u \in [at : Height \cup {0}, was : MaybeBlock] /\ u.was = E[num[b]] /\ u.at = num[b]
    <3> HIDE DEF E, MaybeBlock
    <3> QED BY <2>1, <2>2, Zenon
  <2>4. store(d, b) = [entry |-> [E EXCEPT ![num[b]] = b], unsynced |-> u]
    BY Zenon DEF store
  <2> HIDE DEF E, u, MaybeBlock
  <2>5. /\ [E EXCEPT ![num[b]] = b] \in [Height -> MaybeBlock]
        /\ Numbered([E EXCEPT ![num[b]] = b])
    BY <2>1, <1>3, Zenon
  <2> HIDE DEF Numbered
  <2> QED BY <2>2, <2>3, <2>4, <2>5, <1>4, Zenon
<1>7. ASSUME NEW n PROVE BlocksOK(remove_after(d, n))
  <2> DEFINE e == [m \in Height |-> IF m > n THEN Null ELSE E[m]]
  <2>1. e \in [Height -> MaybeBlock] /\ Numbered(e)
    BY <1>1, Zenon
  <2>2. remove_after(d, n) = [entry |-> e, unsynced |-> NothingUnsynced]
    BY Zenon DEF remove_after
  <2> HIDE DEF e, Numbered, MaybeBlock
  <2> QED BY <2>1, <2>2, <1>4, <1>5, Zenon
<1>8. BlocksOK(synced(d)) /\ BlocksOK(EmptyBlockDatabase)
  <2>1. synced(d) = [entry |-> E, unsynced |-> NothingUnsynced]
    BY <1>2 DEF synced
  <2>2. BlocksOK(synced(d))
    <3> HIDE DEF E, Numbered, MaybeBlock
    <3> QED BY <2>1, <1>1, <1>4, <1>5, Zenon
  <2> DEFINE e == [n \in Height |-> Null]
  <2>3. e \in [Height -> MaybeBlock] /\ Numbered(e)
    BY Zenon
  <2>4. EmptyBlockDatabase = [entry |-> e, unsynced |-> NothingUnsynced]
    BY Zenon DEF EmptyBlockDatabase
  <2> HIDE DEF e, Numbered, MaybeBlock
  <2> QED BY <2>2, <2>3, <2>4, <1>4, <1>5, Zenon
<1>9. ASSUME NEW files \in AfterCrash(d) PROVE BlocksOK(files)
  <2>1. CASE U = NothingUnsynced
    BY <2>1, Zenon DEF AfterCrash
  <2>2. CASE U # NothingUnsynced
    <3>1. PICK b \in {E[U.at], U.was, Null} : files = synced([d EXCEPT !.entry[U.at] = b])
      BY <2>2, Zenon DEF AfterCrash
    <3> DEFINE e == [E EXCEPT ![U.at] = b]
    <3>2. files = [entry |-> e, unsynced |-> NothingUnsynced]
      <4>1. [d EXCEPT !.entry[U.at] = b] = [entry |-> e, unsynced |-> U]
        <5> HIDE DEF E, U
        <5> QED BY <1>2
      <4> HIDE DEF e, U
      <4>2. synced([entry |-> e, unsynced |-> U]) = [entry |-> e, unsynced |-> NothingUnsynced]
        BY DEF synced
      <4> QED BY <3>1, <4>1, <4>2, Zenon
    <3>3. e \in [Height -> MaybeBlock] /\ Numbered(e)
      <4>1. CASE U.at \in Height
        <5>1. b \in MaybeBlock /\ (b # Null => num[b] = U.at)
          BY <4>1, <1>1, <1>2, <3>1, Zenon
        <5> QED BY <4>1, <5>1, <1>3, Zenon
      <4>2. CASE U.at \notin Height
        <5>1. e = E
          <6> HIDE DEF E, U
          <6> QED BY <4>2, <1>1, Zenon
        <5> QED BY <5>1, <1>1, Zenon
      <4> QED BY <4>1, <4>2, Zenon
    <3> HIDE DEF e, Numbered, MaybeBlock
    <3> QED BY <3>2, <3>3, <1>4, <1>5, Zenon
  <2> QED BY <2>1, <2>2, Zenon
<1>10. ASSUME NEW n
       PROVE  /\ fetch_by_number(d, n) \in MaybeBlock
              /\ fetch_by_number(d, n) # Null => num[fetch_by_number(d, n)] = n
  BY <1>1, Zenon DEF fetch_by_number
<1>11. ASSUME NEW n \in Height PROVE BlocksOK([d EXCEPT !.entry[n] = Null])
  <2>1. /\ [E EXCEPT ![n] = Null] \in [Height -> MaybeBlock]
        /\ Numbered([E EXCEPT ![n] = Null])
    BY <1>3, Zenon
  <2>2. [d EXCEPT !.entry[n] = Null] = [entry |-> [E EXCEPT ![n] = Null], unsynced |-> U]
    <3> HIDE DEF E, U
    <3> QED BY <1>2
  <2>3. U \in [at : Height \cup {0}, was : MaybeBlock] /\ (U.was # Null => num[U.was] = U.at)
    BY <1>2, Zenon
  <2> HIDE DEF E, U, Numbered, MaybeBlock
  <2>4. BlocksOK([entry |-> [E EXCEPT ![n] = Null], unsynced |-> U])
    BY <2>1, <2>3, <1>4, Zenon
  <2> QED BY <2>2, <2>4, Zenon
<1> QED BY <1>6, <1>7, <1>8, <1>9, <1>10, <1>11, Zenon

(* The last number with a block.                                           *)
LEMMA LastType ==
    ASSUME NEW d, BlocksOK(d)
    PROVE  last(d) \in Nat
<1> DEFINE S == {n \in Height : d.entry[n] # Null}
           Greatest(n) == \A m \in S : m <= n
<1>1. PICK k \in Nat : \A n \in Height : d.entry[n] # Null => n <= k
  BY Zenon DEF BlocksOK
<1>2. \A n \in Height : n \in Nat
  BY BlockAssumption, Zenon DEF Height
<1>3. S \subseteq 0..k
  BY <1>1, <1>2
<1>4. S # {} => \E n \in S : Greatest(n)
  BY <1>3, GreatestNatural, Zenon
<1>5. last(d) = IF S = {} THEN 0 ELSE CHOOSE n \in S : Greatest(n)
  BY Zenon DEF last
<1> HIDE DEF Greatest, S
<1>6. S # {} => last(d) \in S
  BY <1>4, <1>5, Zenon
<1>7. S = {} => last(d) = 0
  BY <1>5, Zenon
<1> QED BY <1>2, <1>6, <1>7 DEF S

-----------------------------------------------------------------------------
(* The end of a chain from number m on.                                    *)
LEMMA EndOfChain ==
    ASSUME NEW c \in Seq(Block), NEW m \in 1..Len(c)
    PROVE  LET s == SubSeq(c, m, Len(c))
           IN  /\ s \in Seq(Block) /\ s # <<>> /\ Len(s) = Len(c) - m + 1
               /\ s[1] = c[m] /\ Last(s) = Last(c)
               /\ \A i \in 1..Len(s) : s[i] = c[m + i - 1]
<1> DEFINE s == SubSeq(c, m, Len(c))
<1>1. s \in Seq(Block) /\ Len(s) = Len(c) - m + 1 /\ \A i \in 1..Len(s) : s[i] = c[m + i - 1]
  OBVIOUS
<1>2. Len(c) \in Nat /\ Len(s) \in 1..Len(c) /\ m + 1 - 1 = m /\ m + (Len(c) - m + 1) - 1 = Len(c)
  BY <1>1
<1> HIDE DEF s
<1>3. 1 \in 1..Len(s) /\ Len(s) \in 1..Len(s) /\ s # <<>>
  BY <1>1, <1>2
<1>4. s[1] = c[m] /\ Last(s) = Last(c)
  BY <1>1, <1>2, <1>3, Zenon DEF Last
<1> QED BY <1>1, <1>3, <1>4, Zenon DEF s

(* fetch_branch_from finds where two branches part.                        *)
LEMMA MeetFact ==
    ASSUME NEW first \in Block, NEW second \in Block
    PROVE  Meet(first, second) \in 1..num[first] /\ Meet(first, second) <= num[second]
<1> DEFINE Same(k) == /\ k <= num[second]
                      /\ previous[Branch[first][k]] = previous[Branch[second][k]]
           N == {n \in 1..num[first] : Same(n)}
<1>0. num[first] \in Nat
  BY BlockAssumption, Zenon
<1>1. /\ 1 \in 1..num[first] /\ 1 \in 1..num[second] /\ 1 <= num[second]
      /\ Len(Branch[first]) = num[first] /\ Len(Branch[second]) = num[second]
  BY BranchFact, BlockAssumption DEF EndsIn
<1>2. previous[Branch[first][1]] = Null /\ previous[Branch[second][1]] = Null
  BY <1>1, BranchFact, Zenon DEF EndsIn, IsChain
<1>3. N # {} /\ N \subseteq 0..num[first]
  <2>1. 1 \in N
    BY <1>1, <1>2, Zenon
  <2> QED BY <2>1, <1>0
<1>4. PICK n \in N : \A m \in N : m <= n
  BY <1>0, <1>3, GreatestNatural, Zenon
<1>5. n \in 1..num[first] /\ Same(n) /\ \A k \in 1..num[first] : Same(k) => k <= n
  BY <1>4, Zenon
<1>6. Meet(first, second) = CHOOSE m \in 1..num[first] :
          Same(m) /\ \A k \in 1..num[first] : Same(k) => k <= m
  BY Zenon DEF Meet
<1> HIDE DEF Same
<1>7. Meet(first, second) \in 1..num[first] /\ Same(Meet(first, second))
  BY <1>5, <1>6, Zenon
<1> QED BY <1>7, Zenon DEF Same

(* During a fork switch: `old' is the end of a valid chain, `new' starts   *)
(* at the same number, and c agrees with the old chain below that number.  *)
OnFork(c, old, new) ==
    LET whole == Branch[Last(old)]
        point == num[old[1]]
    IN  /\ old \in Seq(Block) /\ old # <<>> /\ new \in Seq(Block) /\ new # <<>>
        /\ num[new[1]] = point
        /\ ValidChain(whole)
        /\ point \in 1..Len(whole)
        /\ old = SubSeq(whole, point, Len(whole))
        /\ point - 1 <= Len(c)
        /\ SubSeq(c, 1, point - 1) = SubSeq(whole, 1, point - 1)

(* What BeginSwitch sets up is one.                                        *)
LEMMA SwitchBegins ==
    ASSUME NEW d, Sound(d), NEW tip \in Block, head_block_id(d) \in Block
    PROVE  LET meet == Meet(tip, head_block_id(d))
           IN  OnFork(d.chain, fetch_branch_from(head_block_id(d), meet),
                               fetch_branch_from(tip, meet))
<1> DEFINE head == head_block_id(d)
           c == d.chain
           m == Meet(tip, head)
           old == fetch_branch_from(head, m)
           new == fetch_branch_from(tip, m)
<1>1. c \in Seq(Block) /\ c # <<>> /\ head = Last(c) /\ Len(c) \in Nat /\ Len(c) > 0
  BY SoundType, BlockAssumption DEF head_block_id
<1>2. EndsIn(c, head)
  <2>1. Len(c) \in 1..Len(c) /\ IsChain(c) /\ ValidChain(c)
    BY <1>1 DEF Sound, ValidChain
  <2>2. num[c[Len(c)]] = Len(c)
    BY <2>1, Zenon DEF IsChain
  <2> QED BY <2>1, <2>2, <1>1, Zenon DEF EndsIn, Last
<1>3. Branch[head] = c /\ num[head] = Len(c)
  BY <1>2, BranchFact, ChainsEqual, Zenon DEF EndsIn
<1>4. m \in 1..num[tip] /\ m <= num[head]
  BY MeetFact, Zenon
<1>5. num[tip] \in Nat /\ Branch[tip] \in Seq(Block) /\ Len(Branch[tip]) = num[tip] /\ IsChain(Branch[tip])
  BY BranchFact, BlockAssumption, Zenon DEF EndsIn, IsChain
<1> HIDE DEF m, head
<1>6. m \in 1..Len(c) /\ m \in 1..Len(Branch[tip]) /\ m - 1 <= Len(c)
  BY <1>1, <1>3, <1>4, <1>5
<1>7. old = SubSeq(c, m, Len(c)) /\ new = SubSeq(Branch[tip], m, Len(Branch[tip]))
  BY <1>3, <1>5, Zenon DEF fetch_branch_from
<1> HIDE DEF old, new
<1>8. /\ old \in Seq(Block) /\ old # <<>> /\ old[1] = c[m] /\ Last(old) = head
      /\ new \in Seq(Block) /\ new # <<>> /\ new[1] = Branch[tip][m]
  BY <1>1, <1>5, <1>6, <1>7, EndOfChain, Zenon
<1>9. num[c[m]] = m /\ num[Branch[tip][m]] = m
  BY <1>2, <1>5, <1>6, Zenon DEF EndsIn, IsChain
<1>10. ValidChain(c)
  BY Zenon DEF Sound
<1>11. OnFork(c, old, new)
  BY <1>3, <1>6, <1>7, <1>8, <1>9, <1>10, Zenon DEF OnFork
<1> QED BY <1>11, Zenon DEF old, new, m, head

(* The fork point is reached when only the common blocks are left.         *)
LEMMA ForkPoint ==
    ASSUME Sound(db), OnFork(db.chain, old_branch, new_branch)
    PROVE  LET whole == Branch[Last(old_branch)]
               point == num[old_branch[1]]
           IN  /\ AtForkPoint <=> Len(db.chain) = point - 1
               /\ AtForkPoint => db.chain = SubSeq(whole, 1, point - 1)
               /\ \A n \in Nat : /\ point - 1 <= n /\ n < Len(whole)
                                 => old_branch[n + 2 - point] = whole[n + 1]
               /\ Last(old_branch) = Last(whole)
               /\ Len(old_branch) = Len(whole) - point + 1
<1> DEFINE w == Branch[Last(old_branch)]
           p == num[old_branch[1]]
           c == db.chain
<1>1. /\ c \in Seq(Block) /\ Len(c) \in Nat /\ IsChain(c)
  BY SoundType, Zenon DEF Sound, ValidChain
<1>2. /\ w \in Seq(Block) /\ Len(w) \in Nat /\ IsChain(w) /\ p \in 1..Len(w)
      /\ old_branch = SubSeq(w, p, Len(w)) /\ p - 1 <= Len(c)
      /\ SubSeq(c, 1, p - 1) = SubSeq(w, 1, p - 1)
  <2>1. /\ w \in Seq(Block) /\ IsChain(w) /\ p \in 1..Len(w)
        /\ old_branch = SubSeq(w, p, Len(w)) /\ p - 1 <= Len(c)
        /\ SubSeq(c, 1, p - 1) = SubSeq(w, 1, p - 1)
    BY Zenon DEF OnFork, ValidChain, IsChain
  <2>2. Len(w) \in Nat
    BY <2>1
  <2> QED BY <2>1, <2>2, Zenon
<1> HIDE DEF w, p
<1>3. /\ old_branch[1] = w[p] /\ Last(old_branch) = Last(w)
      /\ Len(old_branch) = Len(w) - p + 1
      /\ \A i \in 1..Len(old_branch) : old_branch[i] = w[p + i - 1]
  BY <1>2, EndOfChain, Zenon
<1>4. previous[old_branch[1]] = IF p = 1 THEN Null ELSE w[p - 1]
  BY <1>2, <1>3, Zenon DEF IsChain
<1>5. ASSUME Len(c) = p - 1
      PROVE  c = SubSeq(w, 1, p - 1) /\ AtForkPoint
  <2>1. c = SubSeq(w, 1, p - 1)
    BY <1>1, <1>2, <1>5, WholePrefix, Zenon
  <2>2. CASE p = 1
    <3>1. c = <<>>
      BY <2>2, <1>1, <1>5
    <3> QED BY <2>1, <2>2, <3>1, <1>4, Zenon DEF AtForkPoint, head_block_id
  <2>3. CASE p # 1
    <3>1. p - 1 \in 0..Len(w) /\ p - 1 \in 1..(p - 1) /\ Len(c) > 0
      BY <2>3, <1>2, <1>5
    <3>2. SubSeq(w, 1, p - 1)[p - 1] = w[p - 1]
      BY <3>1, <1>2, PrefixFact, Zenon
    <3>3. c # <<>> /\ Last(c) = w[p - 1]
      BY <3>1, <3>2, <2>1, <1>5 DEF Last
    <3> QED BY <2>1, <2>3, <3>3, <1>4, Zenon DEF AtForkPoint, head_block_id
  <2> QED BY <2>2, <2>3, Zenon
<1>6. ASSUME AtForkPoint
      PROVE  Len(c) = p - 1
  <2>0. c # <<>> => Len(c) \in 1..Len(c) /\ c[Len(c)] \in Block
    BY <1>1
  <2>1. c # <<>> => Last(c) \in Block /\ num[Last(c)] = Len(c)
    BY <2>0, <1>1, Zenon DEF IsChain, Last
  <2>2. CASE p = 1
    <3>1. c = <<>>
      BY <2>1, <2>2, <1>4, <1>6, BlockAssumption, Zenon DEF AtForkPoint, head_block_id
    <3> QED BY <3>1, <2>2
  <2>3. CASE p # 1
    <3>1. p - 1 \in 1..Len(w) /\ w[p - 1] \in Block
      BY <2>3, <1>2
    <3>2. num[w[p - 1]] = p - 1
      BY <3>1, <1>2, Zenon DEF IsChain
    <3>3. c # <<>> /\ Last(c) = w[p - 1]
      BY <2>3, <3>1, <1>4, <1>6, BlockAssumption, Zenon DEF AtForkPoint, head_block_id
    <3> QED BY <2>1, <3>2, <3>3, Zenon
  <2> QED BY <2>2, <2>3, Zenon
<1>7. ASSUME NEW n \in Nat, p - 1 <= n, n < Len(w)
      PROVE  old_branch[n + 2 - p] = w[n + 1]
  <2>1. n + 2 - p \in 1..Len(old_branch) /\ p + (n + 2 - p) - 1 = n + 1
    BY <1>2, <1>3, <1>7
  <2> QED BY <2>1, <1>3, Zenon
<1> QED BY <1>3, <1>5, <1>6, <1>7, Zenon DEF w, p

-----------------------------------------------------------------------------
(* The inductive invariant.                                                *)
InSwitch == pc \in {"popping", "pushing", "unwinding", "restoring"}

TypeInv ==
    /\ InSwitch \/ pc \in {"idle", "finish", "rewinding", "flushing", "down", "reindex",
                           "stopping"}
    /\ caller \in {"idle", "reindex"} /\ pending_session \in BOOLEAN
    /\ undo_max \in Nat \ {0} /\ fork \in fork_database /\ BlocksOK(blocks)
    /\ queue \in Seq(Block) /\ next_block_num \in Nat /\ last_block_num \in Nat

(* The undo log follows the chain, from the state on disk or from above it; *)
(* a process that did not open has an empty one.                           *)
UndoInv ==
    /\ Sound(Loaded)
    /\ \/ Holds(ResetDb, ResetUndo, Loaded)
       \/ pc \in {"down", "stopping"} /\ undo = <<>> /\ ~ pending_session

(* The pending session is on top of the state of the head.                 *)
PendingInv ==
    /\ pending_session =>
          /\ undo # <<>> /\ undo \in Seq(object_database)
          /\ db = [chain |-> Last(undo).chain, irreversible |-> Last(undo).irreversible,
                   applied |-> db.applied]
    /\ InSwitch \/ pc \in {"finish", "down"} => ~ pending_session /\ pending_tx = <<>>
    /\ pc \in {"rewinding", "flushing"} => ~ pending_session
    /\ pc \in {"idle", "reindex"} /\ ~ wrong_key => db.applied = pending_tx

(* reindex reads and applies the blocks in order of their numbers, and     *)
(* once it has pushed a block it has passed the undo point.                *)
QueueOK ==
    /\ \A k \in 1..Len(queue) : num[queue[k]] < next_block_num
    /\ \A j, k \in 1..Len(queue) : j < k => num[queue[j]] < num[queue[k]]

PastUndoPoint ==
    /\ undo_point < next_block_num
    /\ \A k \in 1..Len(queue) : undo_point < num[queue[k]]

ReindexInv ==
    /\ caller = "reindex" => InSwitch \/ pc = "finish"
    /\ pc = "down" => undo = <<>> /\ queue = <<>> /\ caller = "idle"
    /\ pc = "reindex" \/ caller = "reindex" =>
          /\ QueueOK
          /\ undo # <<>> \/ pending_session \/ caller = "reindex" => PastUndoPoint

(* A fork switch: where the chain is between the two branches.             *)
SwitchInv ==
    /\ InSwitch => OnFork(db.chain, old_branch, new_branch)
    /\ pc = "pushing" => head_block_num(db) + 2 - num[old_branch[1]] <= Len(new_branch)
    /\ pc = "restoring" =>
          /\ head_block_num(db) < Len(Branch[Last(old_branch)])
          /\ db.chain = SubSeq(Branch[Last(old_branch)], 1, head_block_num(db))

ChainInv == TypeInv /\ UndoInv /\ PendingInv /\ ReindexInv /\ SwitchInv

(* The initial state has it.                                               *)
LEMMA InitInv == Init => ChainInv
<1> SUFFICES ASSUME Init PROVE ChainInv
  OBVIOUS
<1>1. TypeInv
  <2>1. EmptyForkDatabase(MaxForkSize) \in fork_database
    BY ChainAssumption, Zenon DEF EmptyForkDatabase, fork_database
  <2>2. BlocksOK(EmptyBlockDatabase)
    BY Zenon DEF BlocksOK, EmptyBlockDatabase, block_database, NothingUnsynced
  <2>3. MinUndoHistory \in Nat \ {0} /\ <<>> \in Seq(Block) /\ 0 \in Nat
    BY ChainAssumption
  <2> QED BY <2>1, <2>2, <2>3, Zenon DEF Init, TypeInv
<1>2. UndoInv
  <2>1. ResetDb = GenesisState /\ ResetUndo = <<>> /\ Loaded = GenesisState
    BY Zenon DEF Init, ResetDb, ResetUndo, Loaded
  <2> QED BY <2>1, GenesisSound, HoldsNone, Zenon DEF UndoInv
<1>3. PendingInv
  BY Zenon DEF Init, PendingInv, InSwitch, GenesisState
<1>4. ReindexInv /\ SwitchInv
  BY Zenon DEF Init, ReindexInv, SwitchInv, InSwitch
<1> QED BY <1>1, <1>2, <1>3, <1>4, Zenon DEF ChainInv

(* The sizes that _apply_block sets.                                       *)
LEMMA SizesAfter ==
    ASSUME NEW d, Sound(d), NEW b, undo_max \in Nat \ {0}, NEW f \in fork_database
    PROVE  undo_max_after(d, b) \in Nat \ {0} /\ fork_after(d, b, f) \in fork_database
<1>1. HistorySize(d) \in Nat \ {0}
  BY SoundType
<1> QED BY <1>1, ForkTypes, Zenon DEF undo_max_after, fork_after

(* _push_block: the log follows the chain, and when it begins a fork       *)
(* switch the branches fit.                                                *)
LEMMA PushStep ==
    ASSUME TypeInv, NEW b \in Block, NEW d, NEW u, NEW saved, Holds(d, u, saved),
           _push_block(b, d, u)
    PROVE  /\ Holds(db', undo', saved)
           /\ undo_max' \in Nat \ {0} /\ fork' \in fork_database /\ BlocksOK(blocks')
           /\ \/ pc' = "finish"
              \/ pc' = "popping" /\ OnFork(db'.chain, old_branch', new_branch')
<1> DEFINE f == fork_push_block(fork, b)
<1>0. Sound(d) /\ undo_max \in Nat \ {0} /\ undo_max \in Nat /\ fork \in fork_database /\ BlocksOK(blocks)
  BY Zenon DEF Holds, TypeInv
<1>1. f \in fork_database /\ f.index \subseteq Block
  <2>1. f \in fork_database
    BY <1>0, ForkTypes, Zenon
  <2> HIDE DEF f
  <2> QED BY <2>1, Zenon DEF fork_database
<1> HIDE DEF f
<1>2. CASE RefuseBlock(b, d, u)
  BY <1>0, <1>2, Zenon DEF RefuseBlock, Leave
<1>3. CASE KeepFork(b, d, u)
  BY <1>0, <1>1, <1>3, Zenon DEF KeepFork, Leave, f
<1>4. CASE BeginSwitch(b, d, u)
  <2>1. /\ db' = d /\ undo' = u /\ fork' = f /\ undo_max' = undo_max /\ blocks' = blocks
    BY <1>4, Zenon DEF BeginSwitch, f
  <2>2. \/ pc' = "finish"
        \/ /\ ~ CannotFetchBranches(f, f.head, head_block_id(d))
           /\ pc' = "popping"
           /\ new_branch' = fetch_branch_from(f.head, Meet(f.head, head_block_id(d)))
           /\ old_branch' = fetch_branch_from(head_block_id(d), Meet(f.head, head_block_id(d)))
    BY <1>4, Zenon DEF BeginSwitch, Leave, f
  <2>3. ~ CannotFetchBranches(f, f.head, head_block_id(d)) =>
            f.head \in Block /\ head_block_id(d) \in Block
    BY <1>1, Zenon DEF CannotFetchBranches
  <2> QED BY <2>1, <2>2, <2>3, <1>0, <1>1, SwitchBegins, Zenon
<1>5. CASE ExtendChain(b, d, u)
  <2> DEFINE sized == fork_after(d, b, f)
             log == Trim(u, undo_max)
  <2>1. undo_max_after(d, b) \in Nat \ {0} /\ sized \in fork_database
    BY <1>0, <1>1, SizesAfter, Zenon
  <2>2. Holds(d, log, saved)
    BY <1>0, HoldsTrim, Zenon
  <2>3. pc' = "finish" /\ undo_max' = undo_max_after(d, b)
    BY <1>5, Zenon DEF ExtendChain, Leave
  <2>4. CASE ~ ApplyThrows(d, b)
    <3>1. /\ db' = apply_block(d, b) /\ undo' = Append(log, d) /\ blocks' = store(blocks, b)
          /\ fork' = IF Recent THEN update_witnesses(sized, f.head) ELSE sized
      BY <2>4, <1>5, Zenon DEF ExtendChain, f
    <3>2. Holds(db', undo', saved)
      BY <2>2, <2>4, <3>1, HoldsPush, Zenon
    <3>3. update_witnesses(sized, f.head) \in fork_database
      <4> HIDE DEF sized
      <4> QED BY <2>1, Zenon DEF update_witnesses, fork_database
    <3> QED BY <2>1, <2>3, <3>1, <3>2, <3>3, <1>0, BlocksTypes, Zenon
  <2>5. CASE ApplyThrows(d, b)
    <3>1. /\ db' = d /\ undo' = log /\ blocks' = blocks
          /\ fork' = fork_remove(sized, b)
      BY <2>5, <1>5, Zenon DEF ExtendChain, f
    <3> QED BY <2>1, <2>2, <2>3, <3>1, <1>0, ForkTypes, Zenon
  <2> QED BY <2>4, <2>5, Zenon
<1> QED BY <1>2, <1>3, <1>4, <1>5, Zenon DEF _push_block

-----------------------------------------------------------------------------
(* The steps that push a block.                                            *)

(* What a step that leaves _push_block's work behind has to show.          *)
LEMMA AfterPush ==
    ASSUME Sound(Loaded'), Holds(db', undo', Loaded'), undo_max' \in Nat \ {0},
           fork' \in fork_database, BlocksOK(blocks'),
           \/ pc' = "finish"
           \/ pc' = "popping" /\ OnFork(db'.chain, old_branch', new_branch'),
           pending_session' = FALSE, pending_tx' = <<>>, caller' \in {"idle", "reindex"},
           queue' \in Seq(Block), next_block_num' \in Nat, last_block_num' \in Nat,
           caller' = "reindex" => QueueOK' /\ PastUndoPoint'
    PROVE  ChainInv'
<1>0. pc' \in {"finish", "popping"}
  OBVIOUS
<1>1. TypeInv'
  BY Zenon DEF TypeInv, InSwitch
<1>2. UndoInv'
  BY Zenon DEF UndoInv, ResetDb, ResetUndo
<1>3. PendingInv'
  BY <1>0, Zenon DEF PendingInv, InSwitch
<1>4. ReindexInv'
  <2>1. InSwitch' \/ pc' = "finish"
    BY <1>0, Zenon DEF InSwitch
  <2>2. pc' # "down" /\ pc' # "reindex"
    BY <1>0, Zenon
  <2> QED BY <2>1, <2>2, Zenon DEF ReindexInv
<1>5. SwitchInv'
  <2>1. pc' # "pushing" /\ pc' # "restoring"
    BY <1>0, Zenon
  <2>2. InSwitch' => pc' = "popping"
    BY <1>0, Zenon DEF InSwitch
  <2> QED BY <2>1, <2>2, Zenon DEF SwitchInv
<1> QED BY <1>1, <1>2, <1>3, <1>4, <1>5, Zenon DEF ChainInv

(* While the node is up, the log without the pending session follows the   *)
(* chain.                                                                  *)
LEMMA Running ==
    ASSUME ChainInv, pc \notin {"down", "stopping"}
    PROVE  Sound(Loaded) /\ Holds(ResetDb, ResetUndo, Loaded)
BY Zenon DEF ChainInv, UndoInv

(* push_block, of a block that arrived.                                    *)
LEMMA PushBlockStep ==
    ASSUME ChainInv, NEW b \in Block, push_block(b)
    PROVE  ChainInv'
<1>1. TypeInv /\ pc = "idle" /\ _push_block(b, ResetDb, ResetUndo) /\ TakePending
      /\ UNCHANGED <<queue, next_block_num, last_block_num, object_files>>
  BY Zenon DEF push_block, ChainInv
<1>2. Sound(Loaded) /\ Holds(ResetDb, ResetUndo, Loaded)
  <2>1. pc \notin {"down", "stopping"}
    BY <1>1, Zenon
  <2> QED BY <2>1, Running, Zenon
<1>3. Loaded' = Loaded
  BY <1>1, Zenon DEF Loaded
<1>4. pending_session' = FALSE /\ pending_tx' = <<>> /\ caller' = "idle"
  BY <1>1, Zenon DEF TakePending
<1>5. /\ queue' \in Seq(Block) /\ next_block_num' \in Nat /\ last_block_num' \in Nat
      /\ caller' \in {"idle", "reindex"} /\ caller' # "reindex"
  BY <1>1, <1>4, Zenon DEF TypeInv
<1>6. Sound(Loaded') /\ Holds(ResetDb, ResetUndo, Loaded')
  BY <1>2, <1>3, Zenon
<1> QED BY <1>1, <1>4, <1>5, <1>6, PushStep, AfterPush, Zenon

(* What assembling a block leaves of the undo log still follows the chain. *)
LEMMA AssemblyHolds ==
    ASSUME NEW d, NEW u, NEW saved, Holds(d, u, saved), undo_max \in Nat \ {0}
    PROVE  Holds(d, AssemblyUndo(d, u), saved)
<1> DEFINE log == Trim(u, undo_max)
           opened == Append(log, d)
<1>1. Holds(d, log, saved)
  BY HoldsTrim, Zenon
<1>2. log \in Seq(object_database) /\ d \in object_database
  BY <1>1, SoundType, Zenon DEF Holds
<1>3. opened \in Seq(object_database) /\ opened # <<>> /\ Front(opened) = log
  BY <1>2, AppendFact, Zenon
<1>4. Front(Trim(opened, undo_max)) = Trim(log, undo_max - 1)
  <2> HIDE DEF opened, log
  <2> QED BY <1>3, TrimBelow, Zenon
<1>5. undo_max - 1 \in Nat
  OBVIOUS
<1>6. Holds(d, Trim(log, undo_max - 1), saved)
  BY <1>1, <1>5, HoldsTrim, Zenon
<1>7. AssemblyUndo(d, u) = Front(Trim(opened, undo_max)) \/ AssemblyUndo(d, u) = Front(opened)
  BY Zenon DEF AssemblyUndo
<1> QED BY <1>1, <1>3, <1>4, <1>6, <1>7, Zenon

(* generate_block, with the right key.                                     *)
LEMMA GenerateStep ==
    ASSUME ChainInv, NEW b \in Block, generate_block(b)
    PROVE  ChainInv'
<1>1. /\ TypeInv /\ pc = "idle" /\ _push_block(b, ResetDb, AssemblyUndo(ResetDb, ResetUndo))
      /\ pending_session' = FALSE /\ pending_tx' = <<>> /\ caller' = "idle"
      /\ UNCHANGED <<queue, next_block_num, last_block_num, object_files>>
  <2>1. generate_block(b) => /\ pc = "idle" /\ _push_block(b, ResetDb, AssemblyUndo(ResetDb, ResetUndo))
      /\ pending_session' = FALSE /\ pending_tx' = <<>> /\ caller' = pc
      /\ UNCHANGED <<queue, next_block_num, last_block_num, object_files>>
    BY Zenon DEF generate_block
  <2> QED BY <2>1, Zenon DEF ChainInv
<1>2. Sound(Loaded) /\ Holds(ResetDb, ResetUndo, Loaded)
  <2>1. pc \notin {"down", "stopping"}
    BY <1>1, Zenon
  <2> QED BY <2>1, Running, Zenon
<1>3. Loaded' = Loaded
  BY <1>1, Zenon DEF Loaded
<1>5. /\ queue' \in Seq(Block) /\ next_block_num' \in Nat /\ last_block_num' \in Nat
      /\ caller' \in {"idle", "reindex"} /\ caller' # "reindex" /\ undo_max \in Nat \ {0}
  BY <1>1, Zenon DEF TypeInv
<1>6. Sound(Loaded') /\ Holds(ResetDb, AssemblyUndo(ResetDb, ResetUndo), Loaded')
  BY <1>2, <1>3, <1>5, AssemblyHolds, Zenon
<1> QED BY <1>1, <1>5, <1>6, PushStep, AfterPush, Zenon

(* Taking the front of reindex's queue.                                    *)
LEMMA TailQueue ==
    ASSUME TypeInv, queue # <<>>, QueueOK, queue' = Tail(queue),
           UNCHANGED <<next_block_num, last_block_num>>
    PROVE  /\ queue' \in Seq(Block) /\ Head(queue) \in Block /\ QueueOK'
           /\ undo_point <= num[Head(queue)] \/ PastUndoPoint => PastUndoPoint'
<1> DEFINE n == Len(queue)
<1>1. /\ queue \in Seq(Block) /\ n \in Nat \ {0} /\ queue' \in Seq(Block) /\ Len(queue') = n - 1
      /\ Head(queue) = queue[1] /\ \A k \in 1..(n - 1) : queue'[k] = queue[k + 1]
  BY DEF TypeInv
<1>2. undo_point \in Nat /\ undo_point' = undo_point /\ next_block_num' = next_block_num
      /\ next_block_num \in Nat
  BY ChainAssumption DEF TypeInv, undo_point
<1>3. ASSUME NEW k \in 1..n PROVE queue[k] \in Block /\ num[queue[k]] \in Nat
  BY <1>1, BlockAssumption
<1> HIDE DEF n
<1>4. \A k \in 1..n : num[queue[k]] < next_block_num
  BY Zenon DEF QueueOK, n
<1>5. \A j, k \in 1..n : j < k => num[queue[j]] < num[queue[k]]
  BY Zenon DEF QueueOK, n
<1>6. \A k \in 1..(n - 1) : k + 1 \in 1..n /\ 1 \in 1..n /\ 1 < k + 1 /\ \A j \in 1..(n - 1) : j < k => j + 1 < k + 1
  BY <1>1
<1>7. 1 \in 1..n
  BY <1>1
<1>8. QueueOK'
  <2>1. \A k \in 1..(n - 1) : num[queue'[k]] < next_block_num
    BY <1>1, <1>4, <1>6, Zenon
  <2>2. \A j, k \in 1..(n - 1) : j < k => num[queue'[j]] < num[queue'[k]]
    BY <1>1, <1>5, <1>6, Zenon
  <2> QED BY <1>1, <1>2, <2>1, <2>2, Zenon DEF QueueOK
<1>9. ASSUME undo_point <= num[Head(queue)] \/ PastUndoPoint PROVE PastUndoPoint'
  <2>1. undo_point <= num[queue[1]] /\ num[queue[1]] < next_block_num
    <3>1. PastUndoPoint => undo_point < num[queue[1]]
      BY <1>7, Zenon DEF PastUndoPoint, n
    <3>2. num[queue[1]] < next_block_num /\ num[queue[1]] \in Nat
      BY <1>4, <1>7, <1>3, Zenon
    <3> QED BY <1>9, <1>1, <1>2, <3>1, <3>2
  <2>2. undo_point < next_block_num
    <3>1. num[queue[1]] \in Nat
      BY <1>3, <1>7, Zenon
    <3> QED BY <3>1, <2>1, <1>2
  <2>3. ASSUME NEW k \in 1..(n - 1) PROVE undo_point < num[queue'[k]]
    <3>1. num[queue[1]] < num[queue[k + 1]] /\ num[queue[1]] \in Nat /\ num[queue[k + 1]] \in Nat
      BY <1>3, <1>5, <1>6, Zenon
    <3>2. undo_point < num[queue[k + 1]]
      BY <3>1, <2>1, <1>2
    <3> QED BY <3>2, <1>1, Zenon
  <2> QED BY <1>1, <1>2, <2>2, <2>3, Zenon DEF PastUndoPoint
<1> QED BY <1>1, <1>3, <1>7, <1>8, <1>9, Zenon

(* Up to the undo point reindex has pushed nothing.                        *)
LEMMA BeforeUndoPoint ==
    ASSUME ChainInv, pc = "reindex", queue # <<>>,
           num[Head(queue)] < undo_point \/ num[Head(queue)] = undo_point
    PROVE  ~ PastUndoPoint /\ undo = <<>> /\ ~ pending_session
<1>1. TypeInv /\ (undo # <<>> \/ pending_session => PastUndoPoint)
  BY Zenon DEF ChainInv, ReindexInv
<1>2. 1 \in 1..Len(queue) /\ Head(queue) = queue[1] /\ num[queue[1]] \in Nat
  BY <1>1, BlockAssumption DEF TypeInv
<1>3. undo_point \in Nat
  BY <1>1, ChainAssumption DEF TypeInv, undo_point
<1>4. ~ (undo_point < num[queue[1]])
  BY <1>2, <1>3
<1> QED BY <1>1, <1>2, <1>4, Zenon DEF PastUndoPoint

(* reindex from the undo point on: at the undo point nothing has been      *)
(* pushed yet, so what is written to disk is a state without a session.    *)
LEMMA ReplayBlockStep ==
    ASSUME ChainInv, ReplayBlock
    PROVE  ChainInv'
<1> DEFINE b == Head(queue)
<1>1. /\ TypeInv /\ pc = "reindex" /\ queue # <<>> /\ undo_point <= num[b]
      /\ queue' = Tail(queue) /\ _push_block(b, ResetDb, ResetUndo)
      /\ object_files' = IF FlushesFirst THEN <<db>> ELSE object_files
      /\ pending_session' = FALSE /\ pending_tx' = <<>> /\ caller' = "reindex"
      /\ UNCHANGED <<next_block_num, last_block_num>>
  <2>1. /\ pc = "reindex" /\ queue # <<>> /\ num[b] >= undo_point
        /\ queue' = Tail(queue) /\ _push_block(b, ResetDb, ResetUndo)
        /\ object_files' = IF FlushesFirst THEN <<db>> ELSE object_files
        /\ TakePending /\ UNCHANGED <<next_block_num, last_block_num>>
    BY Zenon DEF ReplayBlock
  <2>2. pending_session' = FALSE /\ pending_tx' = <<>> /\ caller' = "reindex"
    BY <2>1, Zenon DEF TakePending
  <2>3. TypeInv
    BY Zenon DEF ChainInv
  <2>4. undo_point <= num[b]
    BY <2>1, Zenon
  <2> QED BY <2>1, <2>2, <2>3, <2>4, Zenon
<1> HIDE DEF b
<1>2. Sound(Loaded) /\ Holds(ResetDb, ResetUndo, Loaded)
  <2>1. pc \notin {"down", "stopping"}
    BY <1>1, Zenon
  <2> QED BY <2>1, Running, Zenon
<1>3. QueueOK /\ (undo # <<>> \/ pending_session => PastUndoPoint)
  BY <1>1, Zenon DEF ChainInv, ReindexInv
<1>4. queue' \in Seq(Block) /\ b \in Block /\ QueueOK' /\ PastUndoPoint'
  BY <1>1, <1>3, TailQueue, Zenon DEF b
<1>5. Sound(Loaded') /\ Holds(ResetDb, ResetUndo, Loaded')
  <2>1. CASE ~ FlushesFirst
    <3>1. Loaded' = Loaded
      BY <1>1, <2>1, Zenon DEF Loaded
    <3> QED BY <3>1, <1>2, Zenon
  <2>2. CASE FlushesFirst
    <3>1. Loaded' = db
      BY <1>1, <2>2, Zenon DEF Loaded, NoFiles
    <3>3. undo = <<>> /\ ~ pending_session
      BY <1>1, <2>2, BeforeUndoPoint, Zenon DEF FlushesFirst
    <3>4. ResetDb = db /\ ResetUndo = <<>>
      BY <3>3, Zenon DEF ResetDb, ResetUndo
    <3>5. Sound(db)
      BY <3>4, <1>2, Zenon DEF Holds
    <3> QED BY <3>1, <3>4, <3>5, HoldsNone, Zenon
  <2> QED BY <2>1, <2>2, Zenon
<1>6. next_block_num' \in Nat /\ last_block_num' \in Nat /\ caller' \in {"idle", "reindex"}
  BY <1>1, Zenon DEF TypeInv
<1> QED BY <1>1, <1>4, <1>5, <1>6, PushStep, AfterPush, Zenon

-----------------------------------------------------------------------------
(* The steps of a fork switch.                                             *)

(* Popping a block above the fork point, and pushing one.                  *)
LEMMA ForkMoves ==
    ASSUME NEW c \in Seq(Block), NEW old, NEW new, OnFork(c, old, new)
    PROVE  /\ Len(c) # num[old[1]] - 1 => OnFork(SubSeq(c, 1, Len(c) - 1), old, new)
           /\ \A b \in Block : OnFork(Append(c, b), old, new)
<1> DEFINE whole == Branch[Last(old)]
           point == num[old[1]]
<1>1. /\ old \in Seq(Block) /\ old # <<>> /\ new \in Seq(Block) /\ new # <<>>
      /\ num[new[1]] = point /\ ValidChain(whole) /\ point \in 1..Len(whole)
      /\ old = SubSeq(whole, point, Len(whole))
  BY Zenon DEF OnFork
<1>2. point - 1 <= Len(c) /\ SubSeq(c, 1, point - 1) = SubSeq(whole, 1, point - 1)
  BY Zenon DEF OnFork
<1>3. Len(whole) \in Nat /\ Len(c) \in Nat
  BY <1>1 DEF ValidChain, IsChain
<1>4. OnFork(c, old, new) => \A e : /\ point - 1 <= Len(e)
                                    /\ SubSeq(e, 1, point - 1) = SubSeq(whole, 1, point - 1)
                                    => OnFork(e, old, new)
  BY Zenon DEF OnFork
<1> HIDE DEF whole, point
<1>5. point \in Nat \ {0} /\ point - 1 \in 0..Len(c)
  <2> DEFINE m == Len(whole)
             n == Len(c)
  <2>1. m \in Nat /\ n \in Nat /\ point \in 1..m /\ point - 1 <= n
    BY <1>1, <1>2, <1>3, Zenon
  <2> HIDE DEF m, n
  <2>2. point \in Nat \ {0} /\ point - 1 \in 0..n
    BY <2>1
  <2> QED BY <2>2, Zenon DEF n
<1>6. ASSUME Len(c) # point - 1 PROVE OnFork(SubSeq(c, 1, Len(c) - 1), old, new)
  <2> DEFINE n == Len(c)
             e == SubSeq(c, 1, n - 1)
  <2>1. n \in Nat /\ n # point - 1 /\ point - 1 \in 0..n
    BY <1>3, <1>5, <1>6, Zenon
  <2> HIDE DEF n
  <2>2. n - 1 \in 0..n /\ point - 1 \in 0..(n - 1) /\ point - 1 <= n - 1
    BY <2>1, <1>5
  <2>3. Len(e) = n - 1 /\ SubSeq(e, 1, point - 1) = SubSeq(c, 1, point - 1)
    BY <2>2, PrefixFact, PrefixOfPrefix, Zenon DEF n
  <2>4. point - 1 <= Len(e)
    BY <2>2, <2>3, Zenon
  <2> HIDE DEF e
  <2>5. OnFork(e, old, new)
    BY <1>2, <1>4, <2>3, <2>4, Zenon
  <2> QED BY <2>5, Zenon DEF e, n
<1>7. ASSUME NEW b \in Block PROVE OnFork(Append(c, b), old, new)
  <2>1. SubSeq(Append(c, b), 1, point - 1) = SubSeq(c, 1, point - 1)
    BY <1>5, PrefixAppend, Zenon
  <2>2. Len(Append(c, b)) = Len(c) + 1
    OBVIOUS
  <2>3. point - 1 <= Len(Append(c, b))
    BY <2>2, <1>2, <1>3, <1>5
  <2> QED BY <1>2, <1>4, <2>1, <2>3, Zenon
<1> QED BY <1>6, <1>7, Zenon DEF point

(* What a step of a fork switch has to show.                               *)
LEMMA SwitchFrame ==
    ASSUME ChainInv, InSwitch, UNCHANGED unchangedBySwitch, UNCHANGED switching,
           InSwitch' \/ pc' = "finish",
           Holds(db', undo', Loaded), undo_max' \in Nat \ {0}, fork' \in fork_database,
           BlocksOK(blocks'), pc' # "finish" => SwitchInv'
    PROVE  ChainInv'
<1>1. /\ UNCHANGED <<pending_tx, pending_session, caller, queue, next_block_num, last_block_num>>
      /\ UNCHANGED object_files
  BY Zenon DEF unchangedBySwitch
<1>2. ~ pending_session /\ pending_tx = <<>>
  BY Zenon DEF ChainInv, PendingInv
<1>3. TypeInv'
  <2>1. TypeInv
    BY Zenon DEF ChainInv
  <2>2. pc' = "finish" => pc' \in {"idle", "finish", "rewinding", "flushing", "down", "reindex",
                                   "stopping"}
    BY Zenon
  <2> QED BY <1>1, <2>1, <2>2, Zenon DEF TypeInv
<1>4. UndoInv'
  <2>1. Loaded' = Loaded /\ ResetDb' = db' /\ ResetUndo' = undo'
    BY <1>1, <1>2, Zenon DEF Loaded, ResetDb, ResetUndo
  <2>2. Sound(Loaded)
    BY Zenon DEF ChainInv, UndoInv
  <2> QED BY <2>1, <2>2, Zenon DEF UndoInv
<1>5. pc' \notin {"idle", "rewinding", "flushing", "down", "reindex"}
  BY Zenon DEF InSwitch
<1>6. PendingInv'
  BY <1>1, <1>2, <1>5, Zenon DEF PendingInv
<1>7. ReindexInv'
  <2>1. caller = "reindex" => QueueOK /\ PastUndoPoint
    BY Zenon DEF ChainInv, ReindexInv
  <2>2. undo_point' = undo_point /\ queue' = queue /\ next_block_num' = next_block_num
        /\ caller' = caller
    BY <1>1, Zenon DEF undo_point
  <2>3. QueueOK' = QueueOK /\ PastUndoPoint' = PastUndoPoint
    BY <2>2, Zenon DEF QueueOK, PastUndoPoint
  <2>4. pc' # "down" /\ pc' # "reindex"
    BY <1>5, Zenon
  <2> QED BY <2>1, <2>2, <2>3, <2>4, Zenon DEF ReindexInv
<1>8. SwitchInv'
  <2>1. pc' = "finish" => pc' # "pushing" /\ pc' # "restoring" /\ ~ InSwitch'
    BY Zenon DEF InSwitch
  <2> QED BY <2>1, Zenon DEF SwitchInv
<1> QED BY <1>3, <1>4, <1>6, <1>7, <1>8, Zenon DEF ChainInv

(* What holds while the node switches.                                     *)
LEMMA Switching ==
    ASSUME ChainInv, InSwitch
    PROVE  /\ Holds(db, undo, Loaded) /\ Sound(db) /\ ~ pending_session
           /\ undo_max \in Nat \ {0} /\ fork \in fork_database /\ BlocksOK(blocks)
           /\ OnFork(db.chain, old_branch, new_branch)
<1>1. ~ pending_session
  BY Zenon DEF ChainInv, PendingInv
<1>2. pc \notin {"down", "stopping"}
  BY Zenon DEF InSwitch
<1>3. Holds(db, undo, Loaded)
  BY <1>1, <1>2, Running, Zenon DEF ResetDb, ResetUndo
<1>4. Sound(db)
  BY <1>3, Zenon DEF Holds
<1> QED BY <1>1, <1>3, <1>4, Zenon DEF ChainInv, TypeInv, SwitchInv

(* Popping the old branch, or the applied part of a new one.               *)
LEMMA PopBranchStep ==
    ASSUME ChainInv, PopBranch
    PROVE  ChainInv'
<1>1. /\ pc \in {"popping", "unwinding"} /\ ~ AtForkPoint /\ pop_block
      /\ UNCHANGED <<undo_max, blocks>> /\ UNCHANGED switching /\ UNCHANGED unchangedBySwitch
      /\ pc' = IF PopThrows THEN "finish" ELSE pc
  BY Zenon DEF PopBranch, Leave, switching
<1>2. InSwitch
  BY <1>1, Zenon DEF InSwitch
<1>3. /\ Holds(db, undo, Loaded) /\ Sound(db) /\ undo_max \in Nat \ {0}
      /\ fork \in fork_database /\ BlocksOK(blocks)
      /\ OnFork(db.chain, old_branch, new_branch)
  BY <1>2, Switching, Zenon
<1>4. fork' \in fork_database
  <2>1. fork.head # Null => ForkPopped \in fork_database
    BY <1>3, ForkTypes, Zenon DEF ForkPopped
  <2>2. ~ ForkPopThrows(db, fork) => fork.head # Null
    BY Zenon DEF ForkPopThrows
  <2>3. fork' = fork \/ (fork' = ForkPopped /\ ~ ForkPopThrows(db, fork))
    BY <1>1, Zenon DEF pop_block, PopThrows
  <2> QED BY <2>1, <2>2, <2>3, <1>3, Zenon
<1>5. undo_max' \in Nat \ {0} /\ BlocksOK(blocks')
  BY <1>1, <1>3, Zenon
<1>6. CASE PopThrows
  <2>1. db' = db /\ undo' = undo /\ pc' = "finish"
    BY <1>1, <1>6, Zenon DEF pop_block
  <2>2. Holds(db', undo', Loaded)
    BY <2>1, <1>3, Zenon
  <2> QED BY <1>1, <1>2, <1>4, <1>5, <2>1, <2>2, SwitchFrame, Zenon
<1>7. CASE ~ PopThrows
  <2>1. db' = Last(undo) /\ undo' = Front(undo) /\ undo # <<>> /\ pc' = pc
    BY <1>1, <1>7, Zenon DEF pop_block, PopThrows
  <2>2. Holds(db', undo', Loaded) /\ db'.chain = SubSeq(db.chain, 1, Len(db.chain) - 1)
    BY <2>1, <1>3, HoldsPop, Zenon
  <2>3. Len(db.chain) # num[old_branch[1]] - 1
    BY <1>1, <1>3, ForkPoint, Zenon
  <2>4. db.chain \in Seq(Block)
    BY <1>3, SoundType, Zenon
  <2>5. OnFork(db'.chain, old_branch, new_branch)
    BY <1>3, <2>2, <2>3, <2>4, ForkMoves, Zenon
  <2>6. SwitchInv'
    <3>1. pc' # "pushing" /\ pc' # "restoring"
      BY <1>1, <2>1, Zenon
    <3>2. old_branch' = old_branch /\ new_branch' = new_branch
      BY <1>1, Zenon DEF switching
    <3> QED BY <3>1, <3>2, <2>5, Zenon DEF SwitchInv
  <2>7. InSwitch'
    BY <1>2, <2>1, Zenon DEF InSwitch
  <2> QED BY <1>1, <1>2, <1>4, <1>5, <2>2, <2>6, <2>7, SwitchFrame, Zenon
<1> QED BY <1>6, <1>7, Zenon

(* The fork point is reached.                                              *)
LEMMA PoppedStep ==
    ASSUME ChainInv, Popped
    PROVE  ChainInv'
<1>1. /\ pc \in {"popping", "unwinding"} /\ AtForkPoint
      /\ UNCHANGED <<db, undo, undo_max, fork, blocks>> /\ UNCHANGED switching
      /\ UNCHANGED unchangedBySwitch
      /\ pc' = IF pc = "popping" THEN "pushing" ELSE "restoring"
  BY Zenon DEF Popped, switching
<1>2. InSwitch /\ InSwitch' /\ pc' # "finish"
  BY <1>1, Zenon DEF InSwitch
<1>3. /\ Holds(db, undo, Loaded) /\ Sound(db) /\ undo_max \in Nat \ {0}
      /\ fork \in fork_database /\ BlocksOK(blocks)
      /\ OnFork(db.chain, old_branch, new_branch)
  BY <1>2, Switching, Zenon
<1>4. /\ Holds(db', undo', Loaded) /\ undo_max' \in Nat \ {0}
      /\ fork' \in fork_database /\ BlocksOK(blocks')
  BY <1>1, <1>3, Zenon
<1>5. /\ OnFork(db'.chain, old_branch', new_branch') /\ db' = db
      /\ old_branch' = old_branch /\ new_branch' = new_branch
  BY <1>1, <1>3, Zenon DEF switching
<1> DEFINE whole == Branch[Last(old_branch)]
           point == num[old_branch[1]]
<1>6. Len(db.chain) = point - 1 /\ db.chain = SubSeq(whole, 1, point - 1)
  BY <1>1, <1>3, ForkPoint, Zenon
<1>7. /\ point \in 1..Len(whole) /\ Len(whole) \in Nat /\ new_branch \in Seq(Block)
      /\ new_branch # <<>>
  BY <1>3 DEF OnFork, ValidChain, IsChain
<1> HIDE DEF whole, point
<1>8. point \in Nat /\ point - 1 < Len(whole) /\ (point - 1) + 2 - point = 1
  BY <1>7
<1>9. 1 <= Len(new_branch)
  BY <1>7
<1>10. head_block_num(db) + 2 - point <= Len(new_branch)
  BY <1>6, <1>8, <1>9, Zenon DEF head_block_num
<1>11. head_block_num(db) < Len(whole) /\ db.chain = SubSeq(whole, 1, head_block_num(db))
  BY <1>6, <1>8, Zenon DEF head_block_num
<1>12. SwitchInv'
  BY <1>5, <1>10, <1>11, Zenon DEF SwitchInv, whole, point
<1> QED BY <1>1, <1>2, <1>4, <1>12, SwitchFrame, Zenon

(* The next block of either branch.                                        *)
LEMMA NextBlock ==
    ASSUME ChainInv, InSwitch
    PROVE  LET whole == Branch[Last(old_branch)]
               point == num[old_branch[1]]
               n == Len(db.chain)
           IN  /\ pc = "pushing" =>
                     /\ n + 2 - point \in 1..Len(new_branch) /\ NextOf(new_branch) \in Block
                     /\ ~ IsLast(new_branch) => (n + 1) + 2 - point <= Len(new_branch)
               /\ pc = "restoring" =>
                     /\ n \in 0..Len(whole) /\ n # Len(whole) /\ NextOf(old_branch) = whole[n + 1]
                     /\ NextOf(old_branch) \in Block
                     /\ db.chain = SubSeq(whole, 1, n)
                     /\ SubSeq(whole, 1, n + 1) = Append(SubSeq(whole, 1, n), whole[n + 1])
                     /\ ~ IsLast(old_branch) => n + 1 < Len(whole)
<1> DEFINE whole == Branch[Last(old_branch)]
           point == num[old_branch[1]]
           n == Len(db.chain)
           i == n + 2 - point
<1>1. Sound(db) /\ OnFork(db.chain, old_branch, new_branch)
  BY Switching, Zenon
<1>2. /\ n \in Nat /\ Len(whole) \in Nat /\ point \in 1..Len(whole) /\ point - 1 <= n
      /\ new_branch \in Seq(Block) /\ whole \in Seq(Block) /\ num[new_branch[1]] = point
  BY <1>1, SoundType DEF OnFork, ValidChain, IsChain
<1>3. ASSUME pc = "pushing"
      PROVE  /\ i \in 1..Len(new_branch) /\ NextOf(new_branch) \in Block
             /\ ~ IsLast(new_branch) => (n + 1) + 2 - point <= Len(new_branch)
  <2> DEFINE m == Len(new_branch)
  <2>1. i <= m
    BY <1>3, Zenon DEF ChainInv, SwitchInv, head_block_num
  <2>2. m \in Nat /\ point \in Nat
    BY <1>2
  <2>3. NextOf(new_branch) = new_branch[i]
    BY <1>2, Zenon DEF NextOf, head_block_num
  <2>4. IsLast(new_branch) <=> new_branch[i] = new_branch[m]
    BY <2>3, Zenon DEF IsLast, Last
  <2>5. n \in Nat /\ point - 1 <= n
    BY <1>2, Zenon
  <2> HIDE DEF n, m, point
  <2>6. i \in 1..m /\ (i # m => (n + 1) + 2 - point <= m)
    BY <2>1, <2>2, <2>5
  <2>7. i \in 1..Len(new_branch)
    BY <2>6, Zenon DEF m
  <2> HIDE DEF i
  <2>8. new_branch[i] \in Block
    BY <2>7, <1>2
  <2> QED BY <2>3, <2>4, <2>6, <2>7, <2>8, Zenon DEF m
<1>4. ASSUME pc = "restoring"
      PROVE  /\ n \in 0..Len(whole) /\ n # Len(whole) /\ NextOf(old_branch) = whole[n + 1]
             /\ NextOf(old_branch) \in Block
             /\ db.chain = SubSeq(whole, 1, n)
             /\ SubSeq(whole, 1, n + 1) = Append(SubSeq(whole, 1, n), whole[n + 1])
             /\ ~ IsLast(old_branch) => n + 1 < Len(whole)
  <2>1. n < Len(whole) /\ db.chain = SubSeq(whole, 1, n)
    BY <1>4, Zenon DEF ChainInv, SwitchInv, head_block_num
  <2>2. NextOf(old_branch) = old_branch[n + 2 - point]
    BY Zenon DEF NextOf, head_block_num
  <2>3. old_branch[n + 2 - point] = whole[n + 1] /\ Last(old_branch) = Last(whole)
    BY <1>1, <1>2, <2>1, ForkPoint, Zenon
  <2>4. n \in 0..Len(whole) /\ n # Len(whole) /\ n + 1 \in 1..Len(whole)
        /\ (n + 1 # Len(whole) => n + 1 < Len(whole))
    <3> DEFINE m == Len(whole)
    <3>1. n \in Nat /\ m \in Nat /\ n < m
      BY <1>2, <2>1, Zenon
    <3> HIDE DEF n, m
    <3>2. n \in 0..m /\ n # m /\ n + 1 \in 1..m /\ (n + 1 # m => n + 1 < m)
      BY <3>1
    <3> QED BY <3>2, Zenon DEF m
  <2> HIDE DEF whole, n
  <2>5. whole[n + 1] \in Block
    BY <2>4, <1>2
  <2>6. SubSeq(whole, 1, n + 1) = Append(SubSeq(whole, 1, n), whole[n + 1])
    BY <2>4, <1>2, PrefixAppend, Zenon
  <2>7. IsLast(old_branch) <=> whole[n + 1] = whole[Len(whole)]
    BY <2>2, <2>3, Zenon DEF IsLast, Last
  <2>8. ~ IsLast(old_branch) => n + 1 < Len(whole)
    BY <2>7, <2>4, Zenon
  <2> QED BY <2>1, <2>2, <2>3, <2>4, <2>5, <2>6, <2>8, Zenon
<1> QED BY <1>3, <1>4, Zenon

(* The sessions that a switch opens leave the log following the chain.     *)
LEMMA SwitchApplies ==
    ASSUME ChainInv, InSwitch, NEW b \in Block
    PROVE  /\ Holds(db, Trim(undo, undo_max), Loaded)
           /\ ~ ApplyThrows(db, b) =>
                 /\ Holds(apply_block(db, b), Append(Trim(undo, undo_max), db), Loaded)
                 /\ apply_block(db, b).chain = Append(db.chain, b)
                 /\ OnFork(apply_block(db, b).chain, old_branch, new_branch)
           /\ undo_max_after(db, b) \in Nat \ {0} /\ fork_after(db, b, fork) \in fork_database
           /\ BlocksOK(store(blocks, b)) /\ Len(Append(db.chain, b)) = Len(db.chain) + 1
           /\ Len(db.chain) \in Nat
<1>1. /\ Holds(db, undo, Loaded) /\ Sound(db) /\ undo_max \in Nat \ {0}
      /\ fork \in fork_database /\ BlocksOK(blocks)
      /\ OnFork(db.chain, old_branch, new_branch)
  BY Switching, Zenon
<1>2. undo_max \in Nat /\ db.chain \in Seq(Block)
  BY <1>1, SoundType, Zenon
<1>3. Holds(db, Trim(undo, undo_max), Loaded)
  BY <1>1, <1>2, HoldsTrim, Zenon
<1>4. ASSUME ~ ApplyThrows(db, b)
      PROVE  /\ Holds(apply_block(db, b), Append(Trim(undo, undo_max), db), Loaded)
             /\ apply_block(db, b).chain = Append(db.chain, b)
             /\ OnFork(apply_block(db, b).chain, old_branch, new_branch)
  <2>1. apply_block(db, b).chain = Append(db.chain, b)
    BY <1>1, <1>4, ApplySound, Zenon
  <2>2. Holds(apply_block(db, b), Append(Trim(undo, undo_max), db), Loaded)
    BY <1>3, <1>4, HoldsPush, Zenon
  <2> QED BY <1>1, <1>2, <2>1, <2>2, ForkMoves, Zenon
<1>5. Len(Append(db.chain, b)) = Len(db.chain) + 1 /\ Len(db.chain) \in Nat
  BY <1>2
<1> QED BY <1>1, <1>3, <1>4, <1>5, SizesAfter, BlocksTypes, Zenon

(* A block of the new branch is applied.                                   *)
LEMMA PushNewStep ==
    ASSUME ChainInv, PushNewBranch
    PROVE  ChainInv'
<1> DEFINE b == NextOf(new_branch)
           sized == fork_after(db, b, fork)
<1>1. /\ pc = "pushing" /\ ~ ApplyThrows(db, b) /\ db' = apply_block(db, b)
      /\ undo' = Append(Trim(undo, undo_max), db) /\ undo_max' = undo_max_after(db, b)
      /\ fork' = update_witnesses(sized, b) /\ blocks' = store(blocks, b)
      /\ UNCHANGED switching /\ UNCHANGED unchangedBySwitch
      /\ pc' = IF IsLast(new_branch) THEN "finish" ELSE pc
  BY Zenon DEF PushNewBranch, Leave, switching
<1>2. InSwitch /\ pc # "finish"
  BY <1>1, Zenon DEF InSwitch
<1> DEFINE n == Len(db.chain)
           point == num[old_branch[1]]
<1>3. b \in Block /\ (~ IsLast(new_branch) => (n + 1) + 2 - point <= Len(new_branch))
  BY <1>1, <1>2, NextBlock, Zenon
<1> HIDE DEF b, point, n
<1>4. /\ Holds(db', undo', Loaded) /\ undo_max' \in Nat \ {0} /\ BlocksOK(blocks')
      /\ OnFork(db'.chain, old_branch, new_branch) /\ Len(db'.chain) = n + 1
      /\ sized \in fork_database
  BY <1>1, <1>2, <1>3, SwitchApplies, Zenon DEF n
<1>5. fork' \in fork_database
  BY <1>1, <1>3, <1>4, ForkTypes, Zenon
<1>6. InSwitch' \/ pc' = "finish"
  BY <1>1, <1>2, Zenon DEF InSwitch
<1>7. pc' # "finish" => SwitchInv'
  <2> SUFFICES ASSUME pc' # "finish" PROVE SwitchInv'
    BY Zenon
  <2>1. pc' = "pushing" /\ ~ IsLast(new_branch) /\ pc' # "restoring"
    BY <1>1, Zenon
  <2>2. old_branch' = old_branch /\ new_branch' = new_branch
    BY <1>1, Zenon DEF switching
  <2> QED BY <2>1, <2>2, <1>3, <1>4, Zenon DEF SwitchInv, head_block_num, point
<1> QED BY <1>1, <1>2, <1>4, <1>5, <1>6, <1>7, SwitchFrame, Zenon

(* A block of the new branch throws.                                       *)
LEMMA NewFailsStep ==
    ASSUME ChainInv, NewBranchFails
    PROVE  ChainInv'
<1> DEFINE b == NextOf(new_branch)
           sized == fork_after(db, b, fork)
           rest == RestOf(new_branch)
<1>1. /\ pc = "pushing" /\ db' = db
      /\ undo' = Trim(undo, undo_max) /\ undo_max' = undo_max_after(db, b)
      /\ fork' = set_head(RemoveAll(sized, rest), Last(old_branch)) /\ blocks' = blocks
      /\ UNCHANGED switching /\ UNCHANGED unchangedBySwitch
      /\ pc' = "unwinding"
  BY Zenon DEF NewBranchFails, switching
<1>2. InSwitch /\ InSwitch' /\ pc' # "finish" /\ pc' # "pushing" /\ pc' # "restoring"
  BY <1>1, Zenon DEF InSwitch
<1>3. b \in Block
  BY <1>1, <1>2, NextBlock, Zenon
<1>4. BlocksOK(blocks) /\ OnFork(db.chain, old_branch, new_branch)
  BY <1>2, Switching, Zenon
<1> HIDE DEF b, rest
<1>5. /\ Holds(db', undo', Loaded) /\ undo_max' \in Nat \ {0} /\ BlocksOK(blocks')
      /\ sized \in fork_database
  BY <1>1, <1>2, <1>3, <1>4, SwitchApplies, Zenon
<1>6. Last(old_branch) \in Block
  BY <1>4 DEF OnFork, Last
<1>7. RemoveAll(sized, rest) \in fork_database
  BY <1>5, EraseType, Zenon DEF RemoveAll
<1>8. fork' \in fork_database
  BY <1>1, <1>6, <1>7, ForkTypes, Zenon
<1>9. SwitchInv'
  <2>1. old_branch' = old_branch /\ new_branch' = new_branch
    BY <1>1, Zenon DEF switching
  <2> QED BY <2>1, <1>1, <1>2, <1>4, Zenon DEF SwitchInv
<1> QED BY <1>1, <1>2, <1>5, <1>8, <1>9, SwitchFrame, Zenon

(* After a failed switch the next block of the old branch applies: it is   *)
(* applied on the state it was applied on before.                          *)
LEMMA RestoreApplies ==
    ASSUME ChainInv, pc = "restoring"
    PROVE  ~ ApplyThrows(db, NextOf(old_branch))
<1> DEFINE whole == Branch[Last(old_branch)]
           n == Len(db.chain)
<1>1. InSwitch
  BY Zenon DEF InSwitch
<1>2. /\ n \in 0..Len(whole) /\ n # Len(whole) /\ NextOf(old_branch) = whole[n + 1]
      /\ db.chain = SubSeq(whole, 1, n)
  BY <1>1, NextBlock, Zenon
<1>3. Sound(db) /\ ValidChain(whole)
  BY <1>1, Switching, Zenon DEF OnFork
<1> HIDE DEF whole, n
<1> QED BY <1>2, <1>3, NextApplies, Zenon

(* A block of the old branch is applied again.                             *)
LEMMA RestoreStep ==
    ASSUME ChainInv, RestoreOldBranch
    PROVE  ChainInv'
<1> DEFINE b == NextOf(old_branch)
           whole == Branch[Last(old_branch)]
           n == Len(db.chain)
<1>0. pc = "restoring" /\ ~ ApplyThrows(db, b)
  BY RestoreApplies, Zenon DEF RestoreOldBranch
<1>1. /\ db' = apply_block(db, b)
      /\ undo' = Append(Trim(undo, undo_max), db) /\ undo_max' = undo_max_after(db, b)
      /\ fork' = fork_after(db, b, fork) /\ blocks' = store(blocks, b)
      /\ UNCHANGED switching /\ UNCHANGED unchangedBySwitch
      /\ pc' = IF IsLast(old_branch) THEN "finish" ELSE pc
  BY <1>0, Zenon DEF RestoreOldBranch, Leave, switching
<1>2. InSwitch /\ pc # "finish"
  BY <1>0, Zenon DEF InSwitch
<1>3. /\ b \in Block /\ b = whole[n + 1] /\ db.chain = SubSeq(whole, 1, n)
      /\ SubSeq(whole, 1, n + 1) = Append(SubSeq(whole, 1, n), whole[n + 1])
      /\ ~ IsLast(old_branch) => n + 1 < Len(whole)
  BY <1>0, <1>2, NextBlock, Zenon
<1> HIDE DEF b, whole, n
<1>4. /\ Holds(db', undo', Loaded) /\ undo_max' \in Nat \ {0} /\ BlocksOK(blocks')
      /\ OnFork(db'.chain, old_branch, new_branch) /\ Len(db'.chain) = n + 1
      /\ db'.chain = Append(db.chain, b) /\ fork' \in fork_database
  BY <1>0, <1>1, <1>2, <1>3, SwitchApplies, Zenon DEF n
<1>6. InSwitch' \/ pc' = "finish"
  BY <1>1, <1>2, Zenon DEF InSwitch
<1>7. pc' # "finish" => SwitchInv'
  <2> SUFFICES ASSUME pc' # "finish" PROVE SwitchInv'
    BY Zenon
  <2>1. pc' = "restoring" /\ ~ IsLast(old_branch) /\ pc' # "pushing"
    BY <1>0, <1>1, Zenon
  <2>2. old_branch' = old_branch /\ new_branch' = new_branch
    BY <1>1, Zenon DEF switching
  <2>3. db'.chain = SubSeq(whole, 1, n + 1) /\ n + 1 < Len(whole)
    BY <1>3, <1>4, <2>1, Zenon
  <2> QED BY <2>1, <2>2, <2>3, <1>4, Zenon DEF SwitchInv, head_block_num, whole
<1> QED BY <1>1, <1>2, <1>4, <1>6, <1>7, SwitchFrame, Zenon

-----------------------------------------------------------------------------
(* The steps with pending transactions.                                    *)

(* The pending session, on top of the state of the head.                   *)
OnHead == /\ undo # <<>> /\ undo \in Seq(object_database)
          /\ db = [chain |-> Last(undo).chain, irreversible |-> Last(undo).irreversible,
                   applied |-> db.applied]

(* _push_transaction: whatever opening sessions trims from the undo log,   *)
(* the log below the pending session still follows the chain.              *)
LEMMA QueueStep ==
    ASSUME NEW txs, Queue(txs), UNCHANGED object_files, undo_max \in Nat \ {0},
           Holds(ResetDb, ResetUndo, Loaded), pending_session => OnHead
    PROVE  /\ Loaded' = Loaded /\ pending_session' = TRUE /\ OnHead'
           /\ Holds(ResetDb', ResetUndo', Loaded') /\ ResetDb' = ResetDb
           /\ db.applied = pending_tx => db'.applied = pending_tx'
<1> DEFINE accepted == AppliedInTurn(txs, Known(db), Len(txs))
           log == IF pending_session THEN undo ELSE Append(Trim(undo, undo_max), db)
<1>1. /\ undo' = Trim(log, undo_max) /\ db' = [db EXCEPT !.applied = @ \o accepted]
      /\ pending_tx' = pending_tx \o accepted /\ pending_session' = TRUE
  BY Zenon DEF Queue, UndoWithPending
<1>2. Loaded' = Loaded
  BY Zenon DEF Loaded
<1>3. /\ log \in Seq(object_database) /\ log # <<>> /\ Last(log) = ResetDb
      /\ Holds(ResetDb, Front(log), Loaded)
  <2>1. CASE pending_session
    BY <2>1, Zenon DEF ResetDb, ResetUndo, OnHead
  <2>2. CASE ~ pending_session
    <3>1. ResetDb = db /\ ResetUndo = undo /\ log = Append(Trim(undo, undo_max), db)
      BY <2>2, Zenon DEF ResetDb, ResetUndo
    <3> HIDE DEF log
    <3>2. Holds(db, Trim(undo, undo_max), Loaded)
      BY <3>1, HoldsTrim, Zenon
    <3>3. Trim(undo, undo_max) \in Seq(object_database) /\ db \in object_database
      BY <3>2, SoundType, Zenon DEF Holds
    <3>4. /\ log \in Seq(object_database) /\ log # <<>> /\ Last(log) = db
          /\ Front(log) = Trim(undo, undo_max)
      BY <3>1, <3>3, AppendFact, Zenon
    <3> QED BY <3>1, <3>2, <3>4, Zenon
  <2> QED BY <2>1, <2>2, Zenon
<1>4. /\ db = [chain |-> ResetDb.chain, irreversible |-> ResetDb.irreversible,
               applied |-> db.applied]
  <2>1. CASE pending_session
    BY <2>1, Zenon DEF ResetDb, OnHead
  <2>2. CASE ~ pending_session
    <3>1. ResetDb = db /\ Sound(db)
      BY <2>2, Zenon DEF ResetDb, Holds
    <3>2. db \in object_database
      BY <3>1, SoundType, Zenon
    <3> QED BY <3>1, <3>2, Zenon DEF object_database
  <2> QED BY <2>1, <2>2, Zenon
<1> HIDE DEF log, accepted
<1>5. undo' # <<>> /\ Last(undo') = ResetDb /\ undo' \in Seq(object_database)
  <2>1. undo_max \in Nat
    OBVIOUS
  <2> QED BY <1>1, <1>3, <2>1, TrimBelow, TrimFact, Zenon
<1>6. Front(undo') = Trim(Front(log), undo_max - 1) /\ undo_max - 1 \in Nat
  <2>1. undo_max - 1 \in Nat
    OBVIOUS
  <2> QED BY <1>1, <1>3, <2>1, TrimBelow, Zenon
<1>7. ResetDb' = ResetDb /\ ResetUndo' = Front(undo')
  BY <1>1, <1>5, Zenon DEF ResetDb, ResetUndo
<1>8. Holds(ResetDb', ResetUndo', Loaded')
  BY <1>2, <1>3, <1>6, <1>7, HoldsTrim, Zenon
<1>9. /\ db'.applied = db.applied \o accepted
      /\ db' = [chain |-> ResetDb.chain, irreversible |-> ResetDb.irreversible,
                applied |-> db'.applied]
  <2> DEFINE more == db.applied \o accepted
             c == ResetDb.chain
             m == ResetDb.irreversible
             a == db.applied
  <2>1. db' = [db EXCEPT !.applied = more] /\ db = [chain |-> c, irreversible |-> m, applied |-> a]
    BY <1>1, <1>4, Zenon
  <2> HIDE DEF more, c, m, a
  <2>2. db' = [chain |-> c, irreversible |-> m, applied |-> more] /\ db'.applied = more
    BY <2>1, Zenon
  <2> QED BY <2>2, Zenon DEF more, c, m
<1>10. OnHead'
  BY <1>5, <1>9, Zenon DEF OnHead
<1> QED BY <1>1, <1>2, <1>7, <1>8, <1>9, <1>10, Zenon

(* What a step that ends outside a push has to show.                       *)
LEMMA QuietFrame ==
    ASSUME TypeInv', UndoInv', PendingInv',
           pc' \in {"idle", "reindex", "stopping", "rewinding", "flushing"}, caller' = "idle",
           pc' = "reindex" => QueueOK' /\ (undo' # <<>> \/ pending_session' => PastUndoPoint')
    PROVE  ChainInv'
<1>1. ~ InSwitch' /\ pc' # "down" /\ pc' # "pushing" /\ pc' # "restoring" /\ caller' # "reindex"
  BY Zenon DEF InSwitch
<1> QED BY <1>1, Zenon DEF ChainInv, ReindexInv, SwitchInv

(* push_transaction.                                                       *)
LEMMA PushTransactionStep ==
    ASSUME ChainInv, NEW t, push_transaction(t)
    PROVE  ChainInv'
<1>1. /\ pc = "idle" /\ Queue(<<t>>)
      /\ UNCHANGED <<undo_max, fork, blocks, pc, caller, queue, next_block_num, last_block_num>>
      /\ UNCHANGED object_files /\ UNCHANGED wrong_key
  BY Zenon DEF push_transaction, unchangedByTx
<1>2. pc \notin {"down", "stopping"} /\ pc' = "idle" /\ ~ InSwitch' /\ ~ InSwitch
      /\ pc' # "finish" /\ pc' # "down" /\ pc' \notin {"rewinding", "flushing"}
  BY <1>1, Zenon DEF InSwitch
<1>3. Holds(ResetDb, ResetUndo, Loaded) /\ Sound(Loaded)
  BY <1>2, Running, Zenon
<1>4. undo_max \in Nat \ {0} /\ (pending_session => OnHead)
      /\ (~ wrong_key => db.applied = pending_tx)
  BY <1>1, Zenon DEF ChainInv, TypeInv, PendingInv, OnHead
<1>5. /\ Loaded' = Loaded /\ pending_session' = TRUE /\ OnHead'
      /\ Holds(ResetDb', ResetUndo', Loaded')
      /\ db.applied = pending_tx => db'.applied = pending_tx'
  BY <1>1, <1>3, <1>4, QueueStep, Zenon
<1>6. TypeInv'
  <2>1. pending_session' \in BOOLEAN
    BY <1>5, Zenon
  <2>2. TypeInv
    BY Zenon DEF ChainInv
  <2> QED BY <1>1, <1>2, <2>1, <2>2, Zenon DEF TypeInv
<1>7. UndoInv'
  BY <1>3, <1>5, Zenon DEF UndoInv
<1>8. PendingInv'
  BY <1>1, <1>2, <1>4, <1>5, Zenon DEF PendingInv, OnHead
<1>9. caller' = "idle"
  <2>1. caller \in {"idle", "reindex"} /\ caller # "reindex"
    BY <1>1, <1>2, Zenon DEF ChainInv, TypeInv, ReindexInv
  <2> QED BY <1>1, <2>1, Zenon
<1>10. pc' # "reindex"
  BY <1>2, Zenon
<1> QED BY <1>2, <1>6, <1>7, <1>8, <1>9, <1>10, QuietFrame, Zenon

(* The restorer's destructor.                                              *)
LEMMA FinishStep ==
    ASSUME ChainInv, FinishPush
    PROVE  ChainInv'
<1>1. /\ pc = "finish" /\ wrong_key' = FALSE /\ caller' = "idle"
      /\ \/ UNCHANGED <<db, undo, pending_tx, pending_session>>
         \/ Queue(ToRestore)
      /\ pc' = IF caller = "reindex" /\ threw THEN "stopping" ELSE caller
      /\ UNCHANGED <<undo_max, fork, blocks, queue, next_block_num, last_block_num>>
      /\ UNCHANGED object_files
  BY Zenon DEF FinishPush
<1>2. TypeInv /\ caller \in {"idle", "reindex"}
  BY Zenon DEF ChainInv, TypeInv
<1>3. pc \notin {"down", "stopping"} /\ pc' \in {"idle", "reindex", "stopping"}
      /\ ~ InSwitch' /\ pc' # "finish" /\ pc' # "down" /\ pc' \notin {"rewinding", "flushing"}
      /\ (pc' = "reindex" => caller = "reindex")
  BY <1>1, <1>2, Zenon DEF InSwitch
<1>4. Holds(ResetDb, ResetUndo, Loaded) /\ Sound(Loaded)
  BY <1>3, Running, Zenon
<1>5. ~ pending_session /\ pending_tx = <<>>
  BY <1>1, Zenon DEF ChainInv, PendingInv
<1>6. db.applied = pending_tx
  <2>1. Sound(db)
    BY <1>4, <1>5, Zenon DEF Holds, ResetDb
  <2>2. db.applied = <<>>
    BY <2>1, SoundType, Zenon
  <2> QED BY <2>2, <1>5, Zenon
<1>7. /\ Loaded' = Loaded /\ pending_session' \in BOOLEAN /\ (pending_session' => OnHead')
      /\ Holds(ResetDb', ResetUndo', Loaded') /\ db'.applied = pending_tx'
  <2>1. CASE UNCHANGED <<db, undo, pending_tx, pending_session>>
    <3>1. Loaded' = Loaded /\ ResetDb' = ResetDb /\ ResetUndo' = ResetUndo
      BY <1>1, <2>1, Zenon DEF Loaded, ResetDb, ResetUndo
    <3> QED BY <2>1, <3>1, <1>2, <1>4, <1>5, <1>6, Zenon DEF TypeInv
  <2>2. CASE Queue(ToRestore)
    <3>1. undo_max \in Nat \ {0} /\ (pending_session => OnHead)
      BY <1>2, <1>5, Zenon DEF TypeInv
    <3>2. /\ Loaded' = Loaded /\ pending_session' = TRUE /\ OnHead'
          /\ Holds(ResetDb', ResetUndo', Loaded') /\ db'.applied = pending_tx'
      BY <2>2, <3>1, <1>1, <1>4, <1>6, QueueStep, Zenon
    <3> QED BY <3>2, Zenon
  <2> QED BY <1>1, <2>1, <2>2, Zenon
<1>8. TypeInv'
  <2>1. caller' \in {"idle", "reindex"} /\ pc' \in {"idle", "finish", "rewinding", "flushing",
             "down", "reindex", "stopping"}
    BY <1>1, <1>3, Zenon
  <2> QED BY <1>1, <1>2, <1>7, <2>1, Zenon DEF TypeInv
<1>9. UndoInv'
  BY <1>4, <1>7, Zenon DEF UndoInv
<1>10. PendingInv'
  BY <1>3, <1>7, Zenon DEF PendingInv, OnHead
<1>11. pc' = "reindex" => QueueOK' /\ PastUndoPoint'
  <2>1. pc' = "reindex" => QueueOK /\ PastUndoPoint
    BY <1>3, Zenon DEF ChainInv, ReindexInv
  <2>2. QueueOK' = QueueOK /\ PastUndoPoint' = PastUndoPoint
    BY <1>1, Zenon DEF QueueOK, PastUndoPoint, undo_point
  <2> QED BY <2>1, <2>2, Zenon
<1>12. pc' \in {"idle", "reindex", "stopping", "rewinding", "flushing"}
  BY <1>3, Zenon
<1> QED BY <1>1, <1>8, <1>9, <1>10, <1>11, <1>12, QuietFrame, Zenon

(* generate_block with a wrong key, and close: the pending session is      *)
(* thrown away.                                                            *)
LEMMA ResetStep ==
    ASSUME ChainInv, generate_block_wrong_key \/ close
    PROVE  ChainInv'
<1>1. /\ pc = "idle" /\ db' = ResetDb /\ undo' = ResetUndo /\ pending_session' = FALSE
      /\ pc' \in {"idle", "rewinding"} /\ (pc' = "idle" => wrong_key')
      /\ UNCHANGED <<undo_max, fork, blocks, caller, queue, next_block_num, last_block_num>>
      /\ UNCHANGED object_files
  <2>1. CASE generate_block_wrong_key
    BY <2>1, Zenon DEF generate_block_wrong_key
  <2>2. CASE close
    BY <2>2, Zenon DEF close
  <2> QED BY <2>1, <2>2, Zenon
<1>2. pc \notin {"down", "stopping"} /\ ~ InSwitch /\ pc # "finish" /\ ~ InSwitch'
      /\ pc' # "finish" /\ pc' # "down" /\ pc' # "reindex"
      /\ pc' \in {"idle", "reindex", "stopping", "rewinding", "flushing"}
  BY <1>1, Zenon DEF InSwitch
<1>3. Holds(ResetDb, ResetUndo, Loaded) /\ Sound(Loaded)
  BY <1>2, Running, Zenon
<1>4. TypeInv'
  <2>1. TypeInv
    BY Zenon DEF ChainInv
  <2>2. pending_session' \in BOOLEAN /\ pc' \in {"idle", "finish", "rewinding", "flushing",
             "down", "reindex", "stopping"}
    BY <1>1, Zenon
  <2> QED BY <1>1, <2>1, <2>2, Zenon DEF TypeInv
<1>5. Loaded' = Loaded /\ ResetDb' = ResetDb /\ ResetUndo' = ResetUndo
  BY <1>1, Zenon DEF Loaded, ResetDb, ResetUndo
<1>6. UndoInv'
  BY <1>3, <1>5, Zenon DEF UndoInv
<1>7. PendingInv'
  BY <1>1, <1>2, Zenon DEF PendingInv
<1>8. caller' = "idle"
  <2>1. caller \in {"idle", "reindex"} /\ caller # "reindex"
    BY <1>1, <1>2, Zenon DEF ChainInv, TypeInv, ReindexInv
  <2> QED BY <1>1, <2>1, Zenon
<1> QED BY <1>2, <1>4, <1>6, <1>7, <1>8, QuietFrame, Zenon

-----------------------------------------------------------------------------
(* The steps of stopping and of starting.                                  *)

(* close pops a block.                                                     *)
LEMMA RewindStep ==
    ASSUME ChainInv, Rewind
    PROVE  ChainInv'
<1>1. /\ pc = "rewinding"
      /\ \/ /\ ~ PopThrows /\ db' = Last(undo) /\ undo' = Front(undo)
            /\ fork' = fork_remove(ForkPopped, head_block_id(db)) /\ pc' = pc
         \/ pc' = "flushing" /\ UNCHANGED <<db, undo, fork>>
      /\ UNCHANGED <<undo_max, blocks, pending_session, caller, queue, next_block_num, last_block_num>>
      /\ UNCHANGED object_files
  BY Zenon DEF Rewind
<1>2. /\ pc \notin {"down", "stopping"} /\ pc' \in {"rewinding", "flushing"} /\ ~ InSwitch'
      /\ pc' # "finish" /\ pc' # "down" /\ pc' \notin {"idle", "reindex"} /\ ~ InSwitch
      /\ pc # "finish"
  BY <1>1, Zenon DEF InSwitch
<1>3. ~ pending_session /\ TypeInv
  BY <1>1, Zenon DEF ChainInv, PendingInv
<1>4. Holds(db, undo, Loaded) /\ Sound(Loaded)
  BY <1>2, <1>3, Running, Zenon DEF ResetDb, ResetUndo
<1>5. Holds(db', undo', Loaded) /\ fork' \in fork_database
  <2>1. CASE UNCHANGED <<db, undo, fork>>
    BY <2>1, <1>3, <1>4, Zenon DEF TypeInv
  <2>2. CASE /\ ~ PopThrows /\ db' = Last(undo) /\ undo' = Front(undo)
             /\ fork' = fork_remove(ForkPopped, head_block_id(db))
    <3>1. undo # <<>> /\ ~ ForkPopThrows(db, fork)
      BY <2>2, Zenon DEF PopThrows
    <3>2. Holds(db', undo', Loaded) /\ Len(db.chain) > 0
      BY <2>2, <3>1, <1>4, HoldsPop, Zenon
    <3>3. head_block_id(db) \in Block
      <4>1. db.chain \in Seq(Block)
        BY <1>4, SoundType, Zenon DEF Holds
      <4> QED BY <4>1, <3>2 DEF head_block_id, Last
    <3>4. fork \in fork_database
      BY <1>3, Zenon DEF TypeInv
    <3>5. fork.head # Null
      BY <3>1, Zenon DEF ForkPopThrows
    <3>6. ForkPopped \in fork_database
      BY <3>4, <3>5, ForkTypes, Zenon DEF ForkPopped
    <3> QED BY <2>2, <3>2, <3>3, <3>6, ForkTypes, Zenon
  <2> QED BY <1>1, <2>1, <2>2, Zenon
<1>6. TypeInv'
  <2>1. pc' \in {"idle", "finish", "rewinding", "flushing", "down", "reindex", "stopping"}
    BY <1>2, Zenon
  <2> QED BY <1>1, <1>3, <1>5, <2>1, Zenon DEF TypeInv
<1>7. UndoInv'
  <2>1. Loaded' = Loaded /\ ResetDb' = db' /\ ResetUndo' = undo'
    BY <1>1, <1>3, Zenon DEF Loaded, ResetDb, ResetUndo
  <2> QED BY <2>1, <1>4, <1>5, Zenon DEF UndoInv
<1>8. PendingInv'
  BY <1>1, <1>2, <1>3, Zenon DEF PendingInv
<1>9. caller' = "idle" /\ pc' # "reindex" /\ pc' \in {"idle", "reindex", "stopping", "rewinding", "flushing"}
  <2>1. caller # "reindex"
    BY <1>2, Zenon DEF ChainInv, ReindexInv
  <2>2. caller \in {"idle", "reindex"}
    BY <1>3, Zenon DEF TypeInv
  <2> QED BY <1>1, <1>2, <2>1, <2>2, Zenon
<1> QED BY <1>6, <1>7, <1>8, <1>9, QuietFrame, Zenon

(* The process ends; what it leaves on disk is a state of a valid chain.   *)
LEMMA ForgetStep ==
    ASSUME Forget, BlocksOK(blocks'), Sound(Loaded')
    PROVE  ChainInv'
<1>1. /\ undo' = <<>> /\ undo_max' = MinUndoHistory
      /\ fork' = EmptyForkDatabase(MaxForkSize) /\ pending_tx' = <<>> /\ pending_session' = FALSE
      /\ caller' = "idle" /\ queue' = <<>> /\ next_block_num' = 0 /\ last_block_num' = 0
      /\ pc' = "down"
  BY Zenon DEF Forget
<1>2. TypeInv'
  <2>1. EmptyForkDatabase(MaxForkSize) \in fork_database
    BY ChainAssumption, Zenon DEF EmptyForkDatabase, fork_database
  <2>2. MinUndoHistory \in Nat \ {0} /\ <<>> \in Seq(Block) /\ 0 \in Nat
    BY ChainAssumption
  <2> QED BY <1>1, <2>1, <2>2, Zenon DEF TypeInv
<1>3. UndoInv'
  BY <1>1, Zenon DEF UndoInv
<1>4. ~ InSwitch' /\ pc' \notin {"idle", "reindex", "rewinding", "flushing", "pushing", "restoring"}
      /\ caller' # "reindex"
  BY <1>1, Zenon DEF InSwitch
<1>5. PendingInv' /\ ReindexInv' /\ SwitchInv'
  BY <1>1, <1>4, Zenon DEF PendingInv, ReindexInv, SwitchInv
<1> QED BY <1>2, <1>3, <1>5, Zenon DEF ChainInv

(* Ending, in order, after a failed start, or by a crash.                  *)
LEMMA EndStep ==
    ASSUME ChainInv, Flush \/ StartupFails \/ Crash
    PROVE  ChainInv'
<1>1. BlocksOK(blocks) /\ Sound(Loaded)
  BY Zenon DEF ChainInv, TypeInv, UndoInv
<1>2. CASE Flush
  <2>1. pc = "flushing" /\ object_files' = <<db>> /\ blocks' = synced(blocks) /\ Forget
    BY <1>2, Zenon DEF Flush
  <2>2. pc \notin {"down", "stopping"}
    BY <2>1, Zenon
  <2>3. Sound(db)
    BY <2>1, <2>2, Running, Zenon DEF ChainInv, PendingInv, ResetDb, Holds
  <2>4. Loaded' = db
    BY <2>1, Zenon DEF Loaded, NoFiles
  <2> QED BY <1>1, <2>1, <2>3, <2>4, BlocksTypes, ForgetStep, Zenon
<1>3. CASE StartupFails
  <2>1. blocks' = synced(blocks) /\ Forget /\ Loaded' = Loaded
    BY <1>3, Zenon DEF StartupFails, Loaded
  <2> QED BY <1>1, <2>1, BlocksTypes, ForgetStep, Zenon
<1>4. CASE Crash
  <2>1. blocks' \in AfterCrash(blocks) /\ Forget /\ (object_files' = object_files \/ object_files' = NoFiles)
    BY <1>4, Zenon DEF Crash
  <2>2. Loaded' = Loaded \/ Loaded' = GenesisState
    BY <2>1, Zenon DEF Loaded
  <2> QED BY <1>1, <2>1, <2>2, GenesisSound, BlocksTypes, ForgetStep, Zenon
<1> QED BY <1>2, <1>3, <1>4, Zenon

(* Damage and wipes, while no process runs.                                *)
LEMMA OfflineStep ==
    ASSUME ChainInv, \/ \E n \in Height : DamageBlock(n)
                     \/ \E include_blocks \in BOOLEAN : wipe(include_blocks)
    PROVE  ChainInv'
<1>1. /\ pc = "down" /\ UNCHANGED unchangedOffline
      /\ \/ \E n \in Height : blocks' = [blocks EXCEPT !.entry[n] = Null]
         \/ blocks' = EmptyBlockDatabase \/ blocks' = blocks
      /\ object_files' = object_files \/ object_files' = NoFiles
  BY Zenon DEF DamageBlock, wipe
<1>2. UNCHANGED <<undo, undo_max, fork, pending_tx, pending_session, pc, caller, queue,
                  next_block_num, last_block_num>>
  BY <1>1, Zenon DEF unchangedOffline
<1>3. TypeInv /\ BlocksOK(blocks) /\ Sound(Loaded)
  BY Zenon DEF ChainInv, TypeInv, UndoInv
<1>4. BlocksOK(blocks')
  BY <1>1, <1>3, BlocksTypes, Zenon
<1>5. TypeInv'
  BY <1>2, <1>3, <1>4, Zenon DEF TypeInv, InSwitch
<1>6. undo = <<>> /\ queue = <<>> /\ caller = "idle" /\ ~ pending_session /\ pending_tx = <<>>
  BY <1>1, Zenon DEF ChainInv, ReindexInv, PendingInv
<1>7. UndoInv'
  <2>1. Loaded' = Loaded \/ Loaded' = GenesisState
    BY <1>1, Zenon DEF Loaded
  <2> QED BY <1>1, <1>2, <1>3, <1>6, <2>1, GenesisSound, Zenon DEF UndoInv
<1>8. ~ InSwitch' /\ pc' \notin {"idle", "reindex", "rewinding", "flushing", "pushing", "restoring"}
      /\ caller' # "reindex"
  BY <1>1, <1>2, <1>6, Zenon DEF InSwitch
<1>9. PendingInv' /\ ReindexInv' /\ SwitchInv'
  BY <1>2, <1>6, <1>8, Zenon DEF PendingInv, ReindexInv, SwitchInv
<1> QED BY <1>5, <1>7, <1>9, Zenon DEF ChainInv

(* open: the object database is loaded, with an empty undo log.            *)
LEMMA OpenStep ==
    ASSUME ChainInv, OpenNothingNewer \/ OpenAndReindex \/ OpenRefused
    PROVE  ChainInv'
<1> DEFINE n == head_block_num(Loaded)
<1>1. /\ pc = "down" /\ UNCHANGED unchangedByOpen
      /\ \/ db' = Loaded /\ pc' = "idle" /\ UNCHANGED <<fork, next_block_num, last_block_num>>
         \/ /\ db' = Loaded /\ pc' \in {"stopping", "reindex"}
            /\ next_block_num' = n + 1 /\ last_block_num' = last(blocks)
            /\ last(blocks) > n
            /\ \/ UNCHANGED fork
               \/ /\ fork' = start_block(fork, fetch_by_number(blocks, n))
                  /\ fetch_by_number(blocks, n) # Null
         \/ pc' = "stopping" /\ UNCHANGED <<fork, next_block_num, last_block_num>>
  <2>1. CASE OpenNothingNewer
    BY <2>1, Zenon DEF OpenNothingNewer
  <2>2. CASE OpenAndReindex
    BY <2>2, Zenon DEF OpenAndReindex
  <2>3. CASE OpenRefused
    BY <2>3, Zenon DEF OpenRefused
  <2> QED BY <2>1, <2>2, <2>3, Zenon
<1> HIDE DEF n
<1>2. UNCHANGED <<undo, undo_max, pending_tx, pending_session, caller, queue, blocks>>
      /\ UNCHANGED object_files
  BY <1>1, Zenon DEF unchangedByOpen
<1>3. TypeInv /\ BlocksOK(blocks) /\ Sound(Loaded) /\ fork \in fork_database
  BY Zenon DEF ChainInv, TypeInv, UndoInv
<1>4. undo = <<>> /\ queue = <<>> /\ caller = "idle" /\ ~ pending_session /\ pending_tx = <<>>
  BY <1>1, Zenon DEF ChainInv, ReindexInv, PendingInv
<1>5. n \in Nat /\ n + 1 \in Nat
  BY <1>3, SoundType DEF head_block_num, n
<1>6. fork' \in fork_database
  <2>1. fetch_by_number(blocks, n) # Null => fetch_by_number(blocks, n) \in Block
    BY <1>3, BlocksTypes, Zenon
  <2> QED BY <1>1, <1>3, <2>1, ForkTypes, Zenon
<1>7. next_block_num' \in Nat /\ last_block_num' \in Nat
  <2>1. last(blocks) \in Nat
    BY <1>3, LastType, Zenon
  <2> QED BY <1>1, <1>3, <1>5, <2>1, Zenon DEF TypeInv
<1>8. pc' \in {"idle", "stopping", "reindex"}
  BY <1>1, Zenon
<1>9. /\ pc' \in {"idle", "reindex", "stopping", "rewinding", "flushing"}
      /\ pc' \in {"idle", "finish", "rewinding", "flushing", "down", "reindex", "stopping"}
      /\ ~ InSwitch' /\ pc' # "finish" /\ pc' # "down"
  BY <1>8, Zenon DEF InSwitch
<1>10. TypeInv'
  BY <1>2, <1>3, <1>6, <1>7, <1>9, Zenon DEF TypeInv
<1>11. Loaded' = Loaded /\ ResetDb' = db' /\ ResetUndo' = <<>>
  BY <1>2, <1>4, Zenon DEF Loaded, ResetDb, ResetUndo
<1>12. UndoInv'
  BY <1>1, <1>2, <1>3, <1>4, <1>11, HoldsNone, Zenon DEF UndoInv
<1>13. PendingInv'
  <2>1. pc' \in {"idle", "reindex"} => db' = Loaded
    BY <1>1, <1>8, Zenon
  <2>2. Loaded.applied = <<>>
    BY <1>3, SoundType, Zenon
  <2> QED BY <1>2, <1>4, <1>9, <2>1, <2>2, Zenon DEF PendingInv
<1>14. QueueOK'
  <2>1. queue' = <<>>
    BY <1>2, <1>4, Zenon
  <2> QED BY <2>1 DEF QueueOK
<1> QED BY <1>2, <1>4, <1>9, <1>10, <1>12, <1>13, <1>14, QuietFrame, Zenon

(* reindex reads a block, or meets a gap.                                  *)
LEMMA ReadStep ==
    ASSUME ChainInv, ReadBlock \/ ReadGap
    PROVE  ChainInv' /\ (PastUndoPoint => PastUndoPoint')
<1> DEFINE b == fetch_by_number(blocks, next_block_num)
<1>1. /\ pc = "reindex" /\ UNCHANGED unchangedByReading /\ next_block_num <= last_block_num
      /\ \/ /\ b # Null /\ queue' = Append(queue, b) /\ next_block_num' = next_block_num + 1
            /\ blocks' = blocks
         \/ /\ blocks' = remove_after(blocks, i_block)
            /\ next_block_num' = last_block_num + 1 /\ queue' = queue
  BY Zenon DEF ReadBlock, ReadGap, CanRead
<1>2. /\ UNCHANGED <<db, undo, undo_max, fork, pending_tx, pending_session, pc, caller,
                     last_block_num, wrong_key>>
      /\ UNCHANGED object_files
  BY <1>1, Zenon DEF unchangedByReading
<1>3. TypeInv /\ BlocksOK(blocks) /\ UndoInv /\ PendingInv
      /\ next_block_num \in Nat /\ last_block_num \in Nat /\ queue \in Seq(Block)
  BY Zenon DEF ChainInv, TypeInv
<1>4. QueueOK /\ (undo # <<>> \/ pending_session => PastUndoPoint) /\ caller # "reindex"
  <2>1. ~ InSwitch /\ pc # "finish"
    BY <1>1, Zenon DEF InSwitch
  <2> QED BY <1>1, <2>1, Zenon DEF ChainInv, ReindexInv
<1>5. b # Null => b \in Block /\ num[b] = next_block_num
  BY <1>3, BlocksTypes, Zenon
<1> HIDE DEF b
<1>6. queue' \in Seq(Block) /\ next_block_num' \in Nat /\ next_block_num < next_block_num'
  BY <1>1, <1>3, <1>5
<1>7. BlocksOK(blocks')
  BY <1>1, <1>3, BlocksTypes, Zenon
<1>8. TypeInv'
  BY <1>2, <1>3, <1>6, <1>7, Zenon DEF TypeInv, InSwitch
<1>9. Loaded' = Loaded /\ ResetDb' = ResetDb /\ ResetUndo' = ResetUndo
  BY <1>2, Zenon DEF Loaded, ResetDb, ResetUndo
<1>10. UndoInv'
  BY <1>2, <1>3, <1>9, Zenon DEF UndoInv
<1>11. PendingInv'
  BY <1>2, <1>3, Zenon DEF PendingInv, InSwitch
<1> DEFINE m == Len(queue)
<1>12. m \in Nat /\ \A k \in 1..m : queue[k] \in Block /\ num[queue[k]] \in Nat
  BY <1>3, BlockAssumption
<1>13. \/ Len(queue') = m /\ \A k \in 1..m : queue'[k] = queue[k]
       \/ /\ Len(queue') = m + 1 /\ \A k \in 1..m : queue'[k] = queue[k]
          /\ queue'[m + 1] = b /\ num[b] = next_block_num /\ next_block_num' = next_block_num + 1
  BY <1>1, <1>3, <1>5
<1>14. undo_point' = undo_point /\ undo_point \in Nat
  BY <1>2, <1>3, ChainAssumption DEF undo_point
<1>15. /\ \A k \in 1..m : num[queue[k]] < next_block_num
       /\ \A j, k \in 1..m : j < k => num[queue[j]] < num[queue[k]]
  BY <1>4, Zenon DEF QueueOK
<1> HIDE DEF m
<1>16. ASSUME NEW k \in 1..Len(queue')
       PROVE  \/ k \in 1..m /\ queue'[k] = queue[k]
              \/ k = m + 1 /\ num[queue'[k]] = next_block_num
  BY <1>12, <1>13
<1>17. QueueOK'
  <2>1. ASSUME NEW k \in 1..Len(queue') PROVE num[queue'[k]] < next_block_num'
    <3>1. CASE k \in 1..m /\ queue'[k] = queue[k]
      <4>1. num[queue[k]] < next_block_num /\ num[queue[k]] \in Nat
        BY <3>1, <1>12, <1>15, Zenon
      <4> QED BY <3>1, <4>1, <1>3, <1>6
    <3> QED BY <3>1, <1>16, <1>6, Zenon
  <2>2. ASSUME NEW j \in 1..Len(queue'), NEW k \in 1..Len(queue'), j < k
        PROVE  num[queue'[j]] < num[queue'[k]]
    <3>1. j \in 1..m /\ queue'[j] = queue[j]
      <4>1. Len(queue') \in Nat /\ (Len(queue') = m \/ Len(queue') = m + 1)
        BY <1>12, <1>13
      <4>2. j # m + 1
        BY <4>1, <2>2, <1>12
      <4> QED BY <1>16, <4>2, Zenon
    <3> QED BY <3>1, <1>15, <1>16, <2>2, Zenon
  <2> QED BY <2>1, <2>2, Zenon DEF QueueOK
<1>18. PastUndoPoint => PastUndoPoint'
  <2> SUFFICES ASSUME PastUndoPoint PROVE PastUndoPoint'
    BY Zenon
  <2>1. undo_point < next_block_num /\ \A k \in 1..m : undo_point < num[queue[k]]
    BY Zenon DEF PastUndoPoint, m
  <2>2. undo_point < next_block_num'
    BY <2>1, <1>3, <1>6, <1>14
  <2>3. ASSUME NEW k \in 1..Len(queue') PROVE undo_point < num[queue'[k]]
    BY <2>1, <1>16, Zenon
  <2> QED BY <2>2, <2>3, <1>14, Zenon DEF PastUndoPoint
<1>19. pc' \in {"idle", "reindex", "stopping", "rewinding", "flushing"} /\ caller' = "idle"
  <2>1. caller \in {"idle", "reindex"}
    BY <1>3, Zenon DEF TypeInv
  <2> QED BY <1>1, <1>2, <1>4, <2>1, Zenon
<1> QED BY <1>2, <1>4, <1>8, <1>10, <1>11, <1>17, <1>18, <1>19, QuietFrame, Zenon

(* reindex below the undo point: nothing has been pushed, and the state    *)
(* moves on with an empty undo log.                                        *)
LEMMA ReplayOnlyStep ==
    ASSUME ChainInv, ReplayWithoutUndo
    PROVE  ChainInv'
<1> DEFINE b == Head(queue)
<1>1. /\ pc = "reindex" /\ queue # <<>> /\ num[b] < undo_point /\ queue' = Tail(queue)
      /\ undo_max' = undo_max_after(db, b) /\ fork' = fork_after(db, b, fork)
      /\ \/ pc' = "stopping" /\ db' = db
         \/ ~ ApplyThrows(db, b) /\ db' = apply_block(db, b) /\ pc' = pc
      /\ UNCHANGED <<undo, blocks, pending_tx, pending_session, caller, next_block_num,
                     last_block_num, wrong_key>>
      /\ UNCHANGED object_files
  BY Zenon DEF ReplayWithoutUndo
<1>2. TypeInv /\ PendingInv
  BY Zenon DEF ChainInv
<1>3. pc \notin {"down", "stopping"} /\ ~ InSwitch /\ pc # "finish"
  BY <1>1, Zenon DEF InSwitch
<1>4. QueueOK /\ (undo # <<>> \/ pending_session => PastUndoPoint) /\ caller # "reindex"
  BY <1>1, <1>3, Zenon DEF ChainInv, ReindexInv
<1>6. undo = <<>> /\ ~ pending_session
  BY <1>1, BeforeUndoPoint, Zenon
<1>7. Holds(db, <<>>, Loaded) /\ Sound(db) /\ Sound(Loaded)
  <2>1. Holds(ResetDb, ResetUndo, Loaded) /\ ResetDb = db /\ ResetUndo = <<>>
    BY <1>3, <1>6, Running, Zenon DEF ResetDb, ResetUndo
  <2> QED BY <2>1, Zenon DEF Holds
<1>8. queue' \in Seq(Block) /\ b \in Block /\ QueueOK'
  BY <1>1, <1>2, <1>4, TailQueue, Zenon
<1> HIDE DEF b
<1>9. Holds(db', <<>>, Loaded)
  BY <1>1, <1>7, <1>8, HoldsNone, Zenon
<1>10. undo_max' \in Nat \ {0} /\ fork' \in fork_database
  BY <1>1, <1>2, <1>7, SizesAfter, Zenon DEF TypeInv
<1>11. /\ pc' \in {"idle", "reindex", "stopping", "rewinding", "flushing"}
       /\ pc' \in {"idle", "finish", "rewinding", "flushing", "down", "reindex", "stopping"}
       /\ ~ InSwitch' /\ pc' # "finish" /\ pc' # "down" /\ pc' \notin {"rewinding", "flushing"}
       /\ pc' # "idle"
  BY <1>1, Zenon DEF InSwitch
<1>12. TypeInv'
  BY <1>1, <1>2, <1>8, <1>10, <1>11, Zenon DEF TypeInv
<1>13. UndoInv'
  <2>1. Loaded' = Loaded /\ ResetDb' = db' /\ ResetUndo' = <<>>
    BY <1>1, <1>6, Zenon DEF Loaded, ResetDb, ResetUndo
  <2> QED BY <2>1, <1>7, <1>9, Zenon DEF UndoInv
<1>14. PendingInv'
  <2>1. db'.applied = <<>> /\ db.applied = <<>>
    <3>1. Sound(db')
      BY <1>9, Zenon DEF Holds
    <3> QED BY <3>1, <1>7, SoundType, Zenon
  <2>2. ~ wrong_key => pending_tx = <<>>
    BY <1>1, <1>2, <2>1, Zenon DEF PendingInv
  <2> QED BY <1>1, <1>6, <1>11, <2>1, <2>2, Zenon DEF PendingInv
<1>15. caller' = "idle"
  <2>1. caller \in {"idle", "reindex"}
    BY <1>2, Zenon DEF TypeInv
  <2> QED BY <1>1, <1>4, <2>1, Zenon
<1> QED BY <1>1, <1>6, <1>8, <1>11, <1>12, <1>13, <1>14, <1>15, QuietFrame, Zenon

(* reindex is done.                                                        *)
LEMMA ReindexDoneStep ==
    ASSUME ChainInv, ReindexDone
    PROVE  ChainInv'
<1>1. /\ pc = "reindex" /\ pc' = "idle"
      /\ UNCHANGED <<db, undo, undo_max, fork, blocks, pending_tx, pending_session, caller, queue,
                     next_block_num, last_block_num, wrong_key>>
      /\ UNCHANGED object_files
  BY Zenon DEF ReindexDone
<1>2. ~ InSwitch /\ pc # "finish" /\ ~ InSwitch' /\ pc' # "finish" /\ pc' # "down"
      /\ pc' # "reindex" /\ pc \notin {"down", "stopping"}
      /\ pc' \notin {"rewinding", "flushing"}
      /\ pc' \in {"idle", "finish", "rewinding", "flushing", "down", "reindex", "stopping"}
      /\ pc' \in {"idle", "reindex", "stopping", "rewinding", "flushing"}
      /\ pc \in {"idle", "reindex"}
  BY <1>1, Zenon DEF InSwitch
<1>3. TypeInv'
  BY <1>1, <1>2, Zenon DEF ChainInv, TypeInv
<1>4. UndoInv'
  <2>1. Loaded' = Loaded /\ ResetDb' = ResetDb /\ ResetUndo' = ResetUndo
    BY <1>1, Zenon DEF Loaded, ResetDb, ResetUndo
  <2> QED BY <1>2, <2>1, Running, Zenon DEF UndoInv
<1>5. PendingInv'
  BY <1>1, <1>2, Zenon DEF ChainInv, PendingInv
<1>6. caller' = "idle"
  <2>1. caller \in {"idle", "reindex"} /\ caller # "reindex"
    BY <1>2, Zenon DEF ChainInv, TypeInv, ReindexInv
  <2> QED BY <1>1, <2>1, Zenon
<1> QED BY <1>2, <1>3, <1>4, <1>5, <1>6, QuietFrame, Zenon

-----------------------------------------------------------------------------
(* Every step keeps the invariant.                                         *)
LEMMA InvStep ==
    ASSUME ChainInv, [Next]_vars
    PROVE  ChainInv'
<1>1. CASE Arrival
  BY <1>1, PushBlockStep, PushTransactionStep, GenerateStep, ResetStep, Zenon DEF Arrival
<1>2. CASE Switch
  BY <1>2, PopBranchStep, PoppedStep, PushNewStep, NewFailsStep, RestoreStep, FinishStep, Zenon
  DEF Switch
<1>3. CASE Stop
  BY <1>3, ResetStep, RewindStep, EndStep, Zenon DEF Stop
<1>4. CASE Start
  BY <1>4, OpenStep, ReadStep, ReplayOnlyStep, ReplayBlockStep, ReindexDoneStep, EndStep, Zenon
  DEF Start
<1>5. CASE Environment
  BY <1>5, EndStep, OfflineStep, Zenon DEF Environment
<1>6. CASE UNCHANGED vars
  <2>1. /\ UNCHANGED <<db, undo, undo_max, fork, blocks, pending_tx, pending_session, pc, caller>>
        /\ UNCHANGED <<old_branch, new_branch, queue, next_block_num, last_block_num, wrong_key>>
        /\ UNCHANGED object_files
    BY <1>6, Zenon DEF vars
  <2>2. TypeInv' = TypeInv /\ InSwitch' = InSwitch
    BY <2>1, Zenon DEF TypeInv, InSwitch
  <2>3. Loaded' = Loaded /\ ResetDb' = ResetDb /\ ResetUndo' = ResetUndo
    BY <2>1, Zenon DEF Loaded, ResetDb, ResetUndo
  <2>4. UndoInv' = UndoInv
    BY <2>1, <2>3, Zenon DEF UndoInv
  <2>5. PendingInv' = PendingInv
    BY <2>1, <2>2, Zenon DEF PendingInv
  <2>6. QueueOK' = QueueOK /\ PastUndoPoint' = PastUndoPoint
    BY <2>1, Zenon DEF QueueOK, PastUndoPoint, undo_point
  <2>7. ReindexInv' = ReindexInv
    BY <2>1, <2>2, <2>6, Zenon DEF ReindexInv
  <2>8. SwitchInv' = SwitchInv
    BY <2>1, <2>2, Zenon DEF SwitchInv
  <2> QED BY <2>2, <2>4, <2>5, <2>7, <2>8, Zenon DEF ChainInv
<1> QED BY <1>1, <1>2, <1>3, <1>4, <1>5, <1>6, Zenon DEF Next

(* The inductive invariant of the chain database.                          *)
LEMMA Invariance == Spec => []ChainInv
BY InitInv, InvStep, PTL DEF Spec

(* After a failed fork switch (db_block.cpp, "restore all blocks from the  *)
(* good fork") no block of the old branch throws: the exception that the   *)
(* handler does not catch there never happens, however the branches, their *)
(* transactions and the sizes of the undo log were chosen.                 *)
THEOREM OldBranchAppliesAgainHolds == Spec => []OldBranchAppliesAgain
<1>1. ChainInv => OldBranchAppliesAgain
  BY RestoreApplies, Zenon DEF OldBranchAppliesAgain
<1> QED BY <1>1, Invariance, PTL

(* _pending_tx and the pending session agree between handlers, as the      *)
(* comment in db_block.cpp promises, after every push, pop, fork switch,   *)
(* generated block and restart.                                            *)
THEOREM PendingSessionMatchesHolds == Spec => []PendingSessionMatches
<1>1. ASSUME ChainInv, pc = "idle", ~ wrong_key
      PROVE  /\ db.applied = pending_tx
             /\ pending_tx # <<>> => pending_session
             /\ ResetDb = [db EXCEPT !.applied = <<>>]
  <2>1. pc \notin {"down", "stopping"}
    BY <1>1, Zenon
  <2>2. Sound(ResetDb)
    BY <1>1, <2>1, Running, Zenon DEF Holds
  <2>3. db.applied = pending_tx /\ (pending_session => OnHead)
    BY <1>1, Zenon DEF ChainInv, PendingInv, OnHead
  <2>4. ResetDb.applied = <<>> /\ ResetDb \in object_database
    BY <2>2, SoundType, Zenon
  <2>5. pending_tx # <<>> => pending_session
    BY <2>3, <2>4, Zenon DEF ResetDb
  <2>6. db = [chain |-> ResetDb.chain, irreversible |-> ResetDb.irreversible,
              applied |-> db.applied]
    <3>1. CASE pending_session
      BY <3>1, <2>3, Zenon DEF ResetDb, OnHead
    <3>2. CASE ~ pending_session
      <4>1. db = ResetDb
        BY <3>2, Zenon DEF ResetDb
      <4> QED BY <4>1, <2>4, Zenon DEF object_database
    <3> QED BY <3>1, <3>2, Zenon
  <2>7. ResetDb = [db EXCEPT !.applied = <<>>]
    <3> DEFINE c == ResetDb.chain
               m == ResetDb.irreversible
               a == db.applied
    <3>1. db = [chain |-> c, irreversible |-> m, applied |-> a]
      BY <2>6, Zenon
    <3>2. ResetDb = [chain |-> c, irreversible |-> m, applied |-> <<>>]
      BY <2>4, Zenon DEF object_database
    <3> HIDE DEF c, m, a
    <3> QED BY <3>1, <3>2
  <2> QED BY <2>3, <2>5, <2>7, Zenon
<1>2. ChainInv => PendingSessionMatches
  BY <1>1, Zenon DEF PendingSessionMatches
<1> QED BY <1>2, Invariance, PTL

(* The object database on disk is a state of the current chain whenever    *)
(* the node is up and past reindex: no fork switch pops below it.          *)
THEOREM SavedStateStaysOnChainHolds == Spec => []SavedStateStaysOnChain
<1>1. ASSUME ChainInv, pc \in {"idle", "popping", "pushing", "unwinding", "restoring", "finish"}
      PROVE  /\ Len(Loaded.chain) <= Len(ResetDb.chain)
             /\ Loaded.chain = SubSeq(ResetDb.chain, 1, Len(Loaded.chain))
  <2>1. pc \notin {"down", "stopping"}
    BY <1>1, Zenon
  <2>2. Holds(ResetDb, ResetUndo, Loaded)
    BY <1>1, <2>1, Running, Zenon
  <2>3. Len(Loaded.chain) \in Nat /\ Len(ResetDb.chain) \in Nat /\ Len(ResetUndo) \in Nat
    BY <2>2, SoundType DEF Holds
  <2>4. Len(Loaded.chain) + Len(ResetUndo) <= Len(ResetDb.chain)
    BY <2>2, Zenon DEF Holds
  <2>5. Len(Loaded.chain) <= Len(ResetDb.chain)
    BY <2>3, <2>4
  <2> QED BY <2>2, <2>5, Zenon DEF Holds
<1>2. ChainInv => SavedStateStaysOnChain
  BY <1>1, Zenon DEF SavedStateStaysOnChain
<1> QED BY <1>2, Invariance, PTL

(* Popping a block always returns to the state after its predecessor: the  *)
(* undo log has no gap, in every state, whatever the pending and temporary *)
(* sessions trimmed from it.                                               *)
THEOREM UndoHasNoGapHolds == Spec => []UndoHasNoGap
<1>1. ASSUME Holds(ResetDb, ResetUndo, Loaded), NEW k \in 1..Len(ResetUndo)
      PROVE  LET height == Len(ResetDb.chain) - Len(ResetUndo) + k - 1
             IN  /\ height >= 0
                 /\ ResetUndo[k].chain = SubSeq(ResetDb.chain, 1, height)
                 /\ ResetUndo[k].applied = <<>>
  <2> DEFINE n == Len(ResetDb.chain)
             m == Len(ResetUndo)
             s == Len(Loaded.chain)
  <2>1. n \in Nat /\ m \in Nat /\ s \in Nat
    BY <1>1, SoundType DEF Holds
  <2>2. s + m <= n /\ k \in 1..m
    BY <1>1, Zenon DEF Holds
  <2>3. Sound(ResetUndo[k]) /\ ResetUndo[k].chain = SubSeq(ResetDb.chain, 1, n - m + k - 1)
    BY <1>1, Zenon DEF Holds
  <2>4. ResetUndo[k].applied = <<>>
    BY <2>3, SoundType, Zenon
  <2> HIDE DEF n, m, s
  <2>5. n - m + k - 1 >= 0
    BY <2>1, <2>2
  <2> QED BY <2>3, <2>4, <2>5, Zenon DEF n, m
<1>2. ASSUME undo = <<>>, ~ pending_session PROVE UndoHasNoGap
  <2>1. ResetUndo = <<>>
    BY <1>2, Zenon DEF ResetUndo
  <2> QED BY <2>1 DEF UndoHasNoGap
<1>3. ChainInv => UndoHasNoGap
  BY <1>1, <1>2, Zenon DEF ChainInv, UndoInv, UndoHasNoGap
<1> QED BY <1>3, Invariance, PTL

-----------------------------------------------------------------------------
(* The block files hold the chain and the chain of the saved state, and    *)
(* the store that a crash may lose is not below either.                    *)
OnDisk(f, c) == \A n \in 1..Len(c) : f.entry[n] = c[n]

OnFiles(f, saved, d) ==
    /\ OnDisk(f, saved.chain) /\ OnDisk(f, d.chain)
    /\ \/ f.unsynced = NothingUnsynced
       \/ Len(saved.chain) < f.unsynced.at /\ Len(d.chain) <= f.unsynced.at

(* Below the undo point reindex applies blocks without storing them: they  *)
(* are on disk, and nothing was stored since the process started.          *)
QueueOnDisk ==
    /\ blocks.unsynced = NothingUnsynced
    /\ \A k \in 1..Len(queue) : blocks.entry[num[queue[k]]] = queue[k]

DiskInv ==
    /\ Sound(ResetDb)
    /\ OnFiles(blocks, Loaded, ResetDb)
    /\ pc = "down" => db = GenesisState /\ blocks.unsynced = NothingUnsynced
    /\ pc = "reindex" => PastUndoPoint \/ QueueOnDisk

(* The numbers of the blocks of a chain.                                   *)
LEMMA ChainNumbers ==
    ASSUME NEW d, Sound(d)
    PROVE  /\ \A n \in 1..Len(d.chain) : n \in Height
           /\ d.chain \in Seq(Block) /\ Len(d.chain) \in Nat
<1>1. d.chain \in Seq(Block) /\ Len(d.chain) \in Nat
  BY SoundType, Zenon
<1>2. \A n \in 1..Len(d.chain) : num[d.chain[n]] = n
  BY Zenon DEF Sound, ValidChain, IsChain
<1>3. \A n \in 1..Len(d.chain) : d.chain[n] \in Block
  BY <1>1
<1> QED BY <1>1, <1>2, <1>3, Zenon DEF Height

(* A block is applied and stored.                                          *)
LEMMA FilesPush ==
    ASSUME NEW f, BlocksOK(f), NEW d, NEW saved, Sound(d), Sound(saved),
           Len(saved.chain) <= Len(d.chain), OnDisk(f, saved.chain), OnDisk(f, d.chain),
           NEW b \in Block, ~ ApplyThrows(d, b)
    PROVE  OnFiles(store(f, b), saved, apply_block(d, b))
<1> DEFINE c == d.chain
           s == saved.chain
           g == store(f, b)
<1>1. num[b] = Len(c) + 1 /\ apply_block(d, b).chain = Append(c, b)
  BY ApplySound, Zenon
<1>2. /\ c \in Seq(Block) /\ Len(c) \in Nat /\ \A n \in 1..Len(c) : n \in Height
      /\ s \in Seq(Block) /\ Len(s) \in Nat /\ \A n \in 1..Len(s) : n \in Height
  BY ChainNumbers, Zenon
<1>3. f.entry \in [Height -> Block \cup {Null}] /\ num[b] \in Height
  BY Zenon DEF BlocksOK, block_database, Height
<1>4. g.entry = [f.entry EXCEPT ![num[b]] = b] /\ g.unsynced.at = num[b]
  BY Zenon DEF store
<1> HIDE DEF g
<1>5. g.entry[num[b]] = b /\ \A n \in Height : n # num[b] => g.entry[n] = f.entry[n]
  BY <1>3, <1>4, Zenon
<1>6. OnDisk(g, s)
  <2>1. ASSUME NEW n \in 1..Len(s) PROVE n # num[b] /\ n \in Height
    <3>1. n \in Height
      BY <1>2, Zenon
    <3>2. n # num[b]
      BY <1>1, <1>2
    <3> QED BY <3>1, <3>2, Zenon
  <2> QED BY <2>1, <1>5, Zenon DEF OnDisk
<1>7. OnDisk(g, Append(c, b))
  <2>1. ASSUME NEW n \in 1..Len(Append(c, b)) PROVE g.entry[n] = Append(c, b)[n]
    <3>1. CASE n \in 1..Len(c)
      <4>1. n # num[b] /\ Append(c, b)[n] = c[n]
        BY <3>1, <1>1, <1>2
      <4>2. n \in Height
        BY <3>1, <1>2, Zenon
      <4> QED BY <3>1, <4>1, <4>2, <1>5, Zenon DEF OnDisk
    <3>2. CASE n \notin 1..Len(c)
      <4>1. n = num[b] /\ Append(c, b)[n] = b
        BY <3>2, <1>1, <1>2
      <4> QED BY <4>1, <1>5, Zenon
    <3> QED BY <3>1, <3>2, Zenon
  <2> QED BY <2>1, Zenon DEF OnDisk
<1>8. Len(s) < num[b] /\ Len(Append(c, b)) <= num[b]
  BY <1>1, <1>2
<1> QED BY <1>1, <1>4, <1>6, <1>7, <1>8, Zenon DEF OnFiles, g

(* Blocks are popped: they stay on disk.                                   *)
LEMMA FilesPop ==
    ASSUME NEW f, NEW d, NEW saved, OnFiles(f, saved, d), Sound(d),
           NEW e, NEW k \in 0..Len(d.chain), e.chain = SubSeq(d.chain, 1, k),
           f.unsynced.at \in Nat
    PROVE  OnFiles(f, saved, e)
<1> DEFINE c == d.chain
           p == e.chain
<1>1. c \in Seq(Block) /\ Len(c) \in Nat
  BY ChainNumbers, Zenon
<1>2. Len(p) = k /\ \A n \in 1..k : p[n] = c[n]
  <2>1. k \in 0..Len(c) /\ p = SubSeq(c, 1, k)
    OBVIOUS
  <2> HIDE DEF c, p
  <2> QED BY <1>1, <2>1
<1>3. \A n \in 1..k : n \in 1..Len(c)
  BY <1>1
<1>4. OnDisk(f, p)
  BY <1>2, <1>3, Zenon DEF OnDisk, OnFiles
<1>5. Len(c) <= f.unsynced.at => Len(p) <= f.unsynced.at
  <2> DEFINE at == f.unsynced.at
             n == Len(c)
  <2>1. at \in Nat /\ n \in Nat /\ k \in 0..n
    BY <1>1, Zenon
  <2> HIDE DEF at, n
  <2>2. n <= at => k <= at
    BY <2>1
  <2> QED BY <2>2, <1>2, Zenon DEF at, n
<1> QED BY <1>4, <1>5, Zenon DEF OnFiles

(* Files a crash leaves: the saved chain is there, and with more than one  *)
(* witness every block that cannot be undone.                              *)
Survives(g, saved, d) ==
    /\ OnDisk(g, saved.chain) /\ g.unsynced = NothingUnsynced
    /\ Cardinality(Witness) > 1 => \A n \in 1..d.irreversible : g.entry[n] = d.chain[n]

(* What a process that ends leaves: the files of the last flush or crash   *)
(* still hold the saved chain, and after a clean end the chain itself.     *)
LEMMA FilesEnd ==
    ASSUME NEW f, BlocksOK(f), NEW d, NEW saved, Sound(d), Sound(saved), OnFiles(f, saved, d)
    PROVE  /\ \A g \in AfterCrash(f) : Survives(g, saved, d)
           /\ OnDisk(synced(f), saved.chain) /\ OnDisk(synced(f), d.chain)
           /\ synced(f).unsynced = NothingUnsynced
<1> DEFINE s == saved.chain
           c == d.chain
           at == f.unsynced.at
<1>1. /\ c \in Seq(Block) /\ Len(c) \in Nat /\ \A n \in 1..Len(c) : n \in Height
      /\ s \in Seq(Block) /\ Len(s) \in Nat /\ \A n \in 1..Len(s) : n \in Height
  BY ChainNumbers, Zenon
<1>2. d.irreversible \in 0..Len(c)
      /\ (Cardinality(Witness) > 1 /\ c # <<>> => d.irreversible < Len(c))
  BY SoundType, Zenon
<1>3. /\ f.entry \in [Height -> Block \cup {Null}] /\ at \in Height \cup {0}
      /\ f = [entry |-> f.entry, unsynced |-> f.unsynced]
  BY Zenon DEF BlocksOK, block_database
<1>4. at \in Nat
  BY <1>3, BlockAssumption DEF Height
<1>5. synced(f).entry = f.entry /\ synced(f).unsynced = NothingUnsynced
  BY <1>3, Zenon DEF synced
<1>6. ASSUME NEW n \in 1..d.irreversible, Cardinality(Witness) > 1
      PROVE  n \in 1..Len(c) /\ n < Len(c)
  <2> DEFINE i == d.irreversible
             m == Len(c)
  <2>1. m # 0 => c # <<>>
    BY <1>1
  <2>2. i \in 0..m /\ m \in Nat /\ n \in 1..i /\ (m # 0 => i < m)
    BY <1>1, <1>2, <1>6, <2>1, Zenon
  <2> HIDE DEF i, m
  <2>3. n \in 1..m /\ n < m
    BY <2>2
  <2> QED BY <2>3, Zenon DEF m
<1>7. ASSUME NEW g \in AfterCrash(f)
      PROVE  /\ OnDisk(g, s) /\ g.unsynced = NothingUnsynced
             /\ Cardinality(Witness) > 1 => \A n \in 1..d.irreversible : g.entry[n] = c[n]
  <2>1. CASE f.unsynced = NothingUnsynced
    <3>1. g = f
      BY <2>1, Zenon DEF AfterCrash
    <3> QED BY <2>1, <3>1, <1>6, Zenon DEF OnFiles, OnDisk
  <2>2. CASE f.unsynced # NothingUnsynced
    <3>1. PICK b \in {f.entry[at], f.unsynced.was, Null} : g = synced([f EXCEPT !.entry[at] = b])
      BY <2>2, Zenon DEF AfterCrash
    <3>2. g.unsynced = NothingUnsynced /\ g.entry = [f.entry EXCEPT ![at] = b]
      <4> DEFINE E == f.entry
                 U == f.unsynced
                 e == [E EXCEPT ![at] = b]
      <4>1. [f EXCEPT !.entry[at] = b] = [entry |-> e, unsynced |-> U]
        <5>1. f = [entry |-> E, unsynced |-> U]
          BY <1>3, Zenon
        <5> HIDE DEF E, U, at
        <5> QED BY <5>1
      <4> HIDE DEF e, U
      <4>2. synced([entry |-> e, unsynced |-> U]) = [entry |-> e, unsynced |-> NothingUnsynced]
        BY DEF synced
      <4>3. g = [entry |-> e, unsynced |-> NothingUnsynced]
        BY <3>1, <4>1, <4>2, Zenon
      <4>4. g.unsynced = NothingUnsynced /\ g.entry = e
        BY <4>3, Zenon
      <4> QED BY <4>4, Zenon DEF e
    <3>3. \A n \in Height : n # at => g.entry[n] = f.entry[n]
      <4> DEFINE E == f.entry
      <4>1. E \in [Height -> Block \cup {Null}] /\ g.entry = [E EXCEPT ![at] = b]
        BY <1>3, <3>2, Zenon
      <4> HIDE DEF E, at
      <4>2. \A n \in Height : n # at => g.entry[n] = E[n]
        BY <4>1, Zenon
      <4> QED BY <4>2, Zenon DEF E
    <3>4. Len(s) < at /\ Len(c) <= at
      BY <2>2, Zenon DEF OnFiles
    <3> HIDE DEF at
    <3>5. ASSUME NEW n \in 1..Len(s) PROVE g.entry[n] = s[n]
      <4>1. n # at
        BY <3>4, <1>1, <1>4
      <4>2. n \in Height /\ f.entry[n] = s[n]
        BY <1>1, Zenon DEF OnFiles, OnDisk
      <4> QED BY <4>1, <4>2, <3>3, Zenon
    <3>6. ASSUME Cardinality(Witness) > 1, NEW n \in 1..d.irreversible PROVE g.entry[n] = c[n]
      <4>0. n \in 1..Len(c) /\ n < Len(c)
        BY <3>6, <1>6, Zenon
      <4>1. n # at
        BY <4>0, <3>4, <1>1, <1>4
      <4>2. n \in Height /\ f.entry[n] = c[n]
        BY <4>0, <1>1, Zenon DEF OnFiles, OnDisk
      <4> QED BY <4>1, <4>2, <3>3, Zenon
    <3> QED BY <3>2, <3>5, <3>6, Zenon DEF OnDisk
  <2> QED BY <2>1, <2>2, Zenon
<1>8. \A g \in AfterCrash(f) : Survives(g, saved, d)
  BY <1>7, Zenon DEF Survives
<1> QED BY <1>5, <1>8, Zenon DEF OnDisk, OnFiles

(* What DiskInv says together with ChainInv.                               *)
LEMMA DiskFacts ==
    ASSUME ChainInv, DiskInv
    PROVE  /\ BlocksOK(blocks) /\ blocks.unsynced.at \in Nat
           /\ Sound(Loaded) /\ Sound(ResetDb) /\ OnFiles(blocks, Loaded, ResetDb)
           /\ pc \notin {"down", "stopping"} => Len(Loaded.chain) <= Len(ResetDb.chain)
<1>1. BlocksOK(blocks) /\ Sound(Loaded) /\ Sound(ResetDb) /\ OnFiles(blocks, Loaded, ResetDb)
  BY Zenon DEF ChainInv, TypeInv, UndoInv, DiskInv
<1>2. blocks.unsynced.at \in Nat
  BY <1>1, BlockAssumption DEF BlocksOK, block_database, Height
<1>3. ASSUME pc \notin {"down", "stopping"} PROVE Len(Loaded.chain) <= Len(ResetDb.chain)
  <2>1. Holds(ResetDb, ResetUndo, Loaded)
    BY <1>3, Running, Zenon
  <2>2. Len(Loaded.chain) + Len(ResetUndo) <= Len(ResetDb.chain)
    BY <2>1, Zenon DEF Holds
  <2>3. Len(Loaded.chain) \in Nat /\ Len(ResetDb.chain) \in Nat /\ Len(ResetUndo) \in Nat
    BY <2>1, SoundType DEF Holds
  <2> QED BY <2>2, <2>3
<1> QED BY <1>1, <1>2, <1>3, Zenon

(* What a step of a node that is up and past reindex has to show.          *)
LEMMA DiskFrame ==
    ASSUME ChainInv', pc' \notin {"down", "stopping", "reindex"},
           OnFiles(blocks', Loaded', ResetDb')
    PROVE  DiskInv'
<1>1. pc' # "down" /\ pc' # "stopping" /\ pc' # "reindex"
  OBVIOUS
<1>2. Holds(ResetDb', ResetUndo', Loaded')
  BY <1>1, Zenon DEF ChainInv, UndoInv
<1>3. Sound(ResetDb')
  BY <1>2, Zenon DEF Holds
<1> QED BY <1>1, <1>3, Zenon DEF DiskInv

(* A step that touches neither the chain nor the disk.                     *)
LEMMA DiskStays ==
    ASSUME DiskInv, ResetDb' = ResetDb, UNCHANGED object_files, UNCHANGED blocks,
           pc' # "down", pc' = "reindex" => PastUndoPoint'
    PROVE  DiskInv'
<1>1. Loaded' = Loaded
  BY Zenon DEF Loaded
<1> QED BY <1>1, Zenon DEF DiskInv

(* _push_block stores the block it applies.                                *)
LEMMA PushDisk ==
    ASSUME BlocksOK(blocks), NEW b \in Block, NEW d, NEW u, NEW saved, Sound(d), Sound(saved),
           Len(saved.chain) <= Len(d.chain), OnFiles(blocks, saved, d), _push_block(b, d, u)
    PROVE  OnFiles(blocks', saved, db') /\ pc' \in {"finish", "popping"}
<1>1. \/ db' = d /\ blocks' = blocks
      \/ ~ ApplyThrows(d, b) /\ db' = apply_block(d, b) /\ blocks' = store(blocks, b)
  <2>1. CASE RefuseBlock(b, d, u)
    BY <2>1, Zenon DEF RefuseBlock
  <2>2. CASE KeepFork(b, d, u)
    BY <2>2, Zenon DEF KeepFork
  <2>3. CASE BeginSwitch(b, d, u)
    BY <2>3, Zenon DEF BeginSwitch
  <2>4. CASE ExtendChain(b, d, u)
    BY <2>4, Zenon DEF ExtendChain
  <2> QED BY <2>1, <2>2, <2>3, <2>4, Zenon DEF _push_block
<1>2. pc' = "finish" \/ pc' = "popping"
  <2>1. RefuseBlock(b, d, u) \/ KeepFork(b, d, u) \/ ExtendChain(b, d, u) => pc' = "finish"
    BY Zenon DEF RefuseBlock, KeepFork, ExtendChain, Leave
  <2>2. BeginSwitch(b, d, u) => pc' = "finish" \/ pc' = "popping"
    BY Zenon DEF BeginSwitch, Leave
  <2> QED BY <2>1, <2>2, Zenon DEF _push_block
<1>3. OnDisk(blocks, saved.chain) /\ OnDisk(blocks, d.chain)
  BY Zenon DEF OnFiles
<1>4. OnFiles(blocks', saved, db')
  BY <1>1, <1>3, FilesPush, Zenon
<1> QED BY <1>2, <1>4, Zenon

(* push_block and generate_block.                                          *)
LEMMA ArrivalDisk ==
    ASSUME ChainInv, DiskInv, ChainInv', NEW b \in Block, push_block(b) \/ generate_block(b)
    PROVE  DiskInv'
<1>1. PICK u : /\ pc = "idle" /\ _push_block(b, ResetDb, u)
               /\ pending_session' = FALSE /\ UNCHANGED object_files
  <2>1. push_block(b) => /\ pc = "idle" /\ _push_block(b, ResetDb, ResetUndo)
                         /\ pending_session' = FALSE /\ UNCHANGED object_files
    BY Zenon DEF push_block, TakePending
  <2>2. generate_block(b) => /\ pc = "idle" /\ pending_session' = FALSE
                             /\ _push_block(b, ResetDb, AssemblyUndo(ResetDb, ResetUndo))
                             /\ UNCHANGED object_files
    BY Zenon DEF generate_block
  <2> QED BY <2>1, <2>2, Zenon
<1>2. pc \notin {"down", "stopping"}
  BY <1>1, Zenon
<1>3. OnFiles(blocks', Loaded, db') /\ pc' \in {"finish", "popping"}
  BY <1>1, <1>2, DiskFacts, PushDisk, Zenon
<1>4. ResetDb' = db' /\ Loaded' = Loaded
  BY <1>1, Zenon DEF ResetDb, Loaded
<1>5. pc' \notin {"down", "stopping", "reindex"}
  BY <1>3, Zenon
<1> QED BY <1>3, <1>4, <1>5, DiskFrame, Zenon

(* reindex from the undo point on.  The state it writes to disk there was  *)
(* reached without storing a block.                                        *)
LEMMA ReplayDisk ==
    ASSUME ChainInv, DiskInv, ChainInv', ReplayBlock
    PROVE  DiskInv'
<1> DEFINE b == Head(queue)
<1>1. /\ pc = "reindex" /\ queue # <<>> /\ _push_block(b, ResetDb, ResetUndo)
      /\ object_files' = IF FlushesFirst THEN <<db>> ELSE object_files
      /\ pending_session' = FALSE
  BY Zenon DEF ReplayBlock, TakePending
<1>2. pc \notin {"down", "stopping"} /\ b \in Block
  <2>1. queue \in Seq(Block)
    BY Zenon DEF ChainInv, TypeInv
  <2> QED BY <1>1, <2>1
<1>3. /\ BlocksOK(blocks) /\ Sound(Loaded) /\ Sound(ResetDb) /\ OnFiles(blocks, Loaded, ResetDb)
      /\ Len(Loaded.chain) <= Len(ResetDb.chain)
  BY <1>2, DiskFacts, Zenon
<1>4. /\ Sound(Loaded') /\ OnFiles(blocks, Loaded', ResetDb)
      /\ Len(Loaded'.chain) <= Len(ResetDb.chain)
  <2>1. CASE ~ FlushesFirst
    <3>1. Loaded' = Loaded
      BY <1>1, <2>1, Zenon DEF Loaded
    <3> QED BY <3>1, <1>3, Zenon
  <2>2. CASE FlushesFirst
    <3>1. Loaded' = db
      BY <1>1, <2>2, Zenon DEF Loaded, NoFiles
    <3>2. ~ PastUndoPoint /\ ~ pending_session
      BY <1>1, <2>2, BeforeUndoPoint, Zenon DEF FlushesFirst
    <3>3. Loaded' = ResetDb
      BY <3>1, <3>2, Zenon DEF ResetDb
    <3>4. blocks.unsynced = NothingUnsynced
      BY <1>1, <3>2, Zenon DEF DiskInv, QueueOnDisk
    <3>5. Len(ResetDb.chain) <= Len(ResetDb.chain)
      <4>1. Len(ResetDb.chain) \in Nat
        BY <1>3, SoundType, Zenon
      <4> QED BY <4>1
    <3> QED BY <1>3, <3>3, <3>4, <3>5, Zenon DEF OnFiles
  <2> QED BY <2>1, <2>2, Zenon
<1> HIDE DEF b
<1>5. OnFiles(blocks', Loaded', db') /\ pc' \in {"finish", "popping"}
  BY <1>1, <1>2, <1>3, <1>4, PushDisk, Zenon
<1>6. ResetDb' = db'
  BY <1>1, Zenon DEF ResetDb
<1>7. pc' \notin {"down", "stopping", "reindex"}
  BY <1>5, Zenon
<1> QED BY <1>5, <1>6, <1>7, DiskFrame, Zenon

(* A block is popped, by a fork switch or by close.                        *)
LEMMA PopDisk ==
    ASSUME ChainInv, DiskInv, ChainInv', pc \notin {"down", "stopping"}, ~ pending_session,
           UNCHANGED <<object_files, blocks, pending_session>>,
           db' = db \/ (undo # <<>> /\ db' = Last(undo)),
           pc' \notin {"down", "stopping", "reindex"}
    PROVE  DiskInv'
<1>1. ResetDb = db /\ ResetUndo = undo /\ ResetDb' = db' /\ Loaded' = Loaded
  BY Zenon DEF ResetDb, ResetUndo, Loaded
<1>2. Holds(db, undo, Loaded) /\ OnFiles(blocks, Loaded, db) /\ Sound(db)
      /\ blocks.unsynced.at \in Nat
  BY <1>1, Running, DiskFacts, Zenon
<1>3. CASE undo # <<>> /\ db' = Last(undo)
  <2>1. db'.chain = SubSeq(db.chain, 1, Len(db.chain) - 1) /\ Len(db.chain) > 0
    BY <1>2, <1>3, HoldsPop, Zenon
  <2>2. Len(db.chain) - 1 \in 0..Len(db.chain)
    <3>1. Len(db.chain) \in Nat
      BY <1>2, SoundType, Zenon
    <3> QED BY <2>1, <3>1
  <2>3. OnFiles(blocks, Loaded, db')
    BY <1>2, <2>1, <2>2, FilesPop, Zenon
  <2> QED BY <1>1, <2>3, DiskFrame, Zenon
<1> QED BY <1>1, <1>2, <1>3, DiskFrame, Zenon

(* The steps of a fork switch.                                             *)
LEMMA SwitchDisk ==
    ASSUME ChainInv, DiskInv, ChainInv',
           PopBranch \/ Popped \/ PushNewBranch \/ NewBranchFails \/ RestoreOldBranch
    PROVE  DiskInv'
<1>1. /\ InSwitch /\ UNCHANGED unchangedBySwitch /\ (InSwitch' \/ pc' = "finish")
      /\ \/ blocks' = blocks /\ (db' = db \/ (undo # <<>> /\ db' = Last(undo)))
         \/ \E b \in Block : /\ ~ ApplyThrows(db, b) /\ db' = apply_block(db, b)
                             /\ blocks' = store(blocks, b)
  <2>1. CASE PopBranch
    <3>1. /\ pc \in {"popping", "unwinding"} /\ pop_block /\ blocks' = blocks
          /\ UNCHANGED unchangedBySwitch /\ (pc' = "finish" \/ pc' = pc)
      BY <2>1, Zenon DEF PopBranch, Leave
    <3>2. db' = db \/ (undo # <<>> /\ db' = Last(undo))
      BY <3>1, Zenon DEF pop_block, PopThrows
    <3>3. InSwitch /\ (InSwitch' \/ pc' = "finish")
      BY <3>1, Zenon DEF InSwitch
    <3> QED BY <3>1, <3>2, <3>3, Zenon
  <2>2. CASE Popped
    <3>1. /\ pc \in {"popping", "unwinding"} /\ blocks' = blocks /\ db' = db
          /\ UNCHANGED unchangedBySwitch /\ (pc' = "pushing" \/ pc' = "restoring")
      BY <2>2, Zenon DEF Popped
    <3>2. InSwitch /\ InSwitch'
      BY <3>1, Zenon DEF InSwitch
    <3> QED BY <3>1, <3>2, Zenon
  <2>3. CASE PushNewBranch
    <3> DEFINE b == NextOf(new_branch)
    <3>1. /\ pc = "pushing" /\ ~ ApplyThrows(db, b) /\ db' = apply_block(db, b)
          /\ blocks' = store(blocks, b) /\ UNCHANGED unchangedBySwitch
          /\ (pc' = "finish" \/ pc' = pc)
      BY <2>3, Zenon DEF PushNewBranch, Leave
    <3>2. InSwitch /\ (InSwitch' \/ pc' = "finish")
      BY <3>1, Zenon DEF InSwitch
    <3>3. b \in Block
      BY <3>1, <3>2, NextBlock, Zenon
    <3> HIDE DEF b
    <3> QED BY <3>1, <3>2, <3>3, Zenon
  <2>4. CASE NewBranchFails
    <3>1. /\ pc = "pushing" /\ blocks' = blocks /\ db' = db
          /\ UNCHANGED unchangedBySwitch /\ pc' = "unwinding"
      BY <2>4, Zenon DEF NewBranchFails
    <3>2. InSwitch /\ InSwitch'
      BY <3>1, Zenon DEF InSwitch
    <3> QED BY <3>1, <3>2, Zenon
  <2>5. CASE RestoreOldBranch
    <3> DEFINE b == NextOf(old_branch)
    <3>0. pc = "restoring" /\ ~ ApplyThrows(db, b)
      BY <2>5, RestoreApplies, Zenon DEF RestoreOldBranch
    <3>1. /\ db' = apply_block(db, b) /\ blocks' = store(blocks, b)
          /\ UNCHANGED unchangedBySwitch /\ (pc' = "finish" \/ pc' = pc)
      BY <2>5, <3>0, Zenon DEF RestoreOldBranch, Leave
    <3>2. InSwitch /\ (InSwitch' \/ pc' = "finish")
      BY <3>0, <3>1, Zenon DEF InSwitch
    <3>3. b \in Block
      BY <3>0, <3>2, NextBlock, Zenon
    <3> HIDE DEF b
    <3> QED BY <3>0, <3>1, <3>2, <3>3, Zenon
  <2> QED BY <2>1, <2>2, <2>3, <2>4, <2>5, Zenon
<1>2. UNCHANGED <<object_files, pending_session>> /\ ~ pending_session
  BY <1>1, Zenon DEF unchangedBySwitch, ChainInv, PendingInv
<1>3. pc \notin {"down", "stopping"} /\ pc' \notin {"down", "stopping", "reindex"}
  BY <1>1, Zenon DEF InSwitch
<1>4. CASE blocks' = blocks /\ (db' = db \/ (undo # <<>> /\ db' = Last(undo)))
  BY <1>2, <1>3, <1>4, PopDisk, Zenon
<1>5. CASE \E b \in Block : /\ ~ ApplyThrows(db, b) /\ db' = apply_block(db, b)
                            /\ blocks' = store(blocks, b)
  <2>1. PICK b \in Block : /\ ~ ApplyThrows(db, b) /\ db' = apply_block(db, b)
                           /\ blocks' = store(blocks, b)
    BY <1>5, Zenon
  <2>2. ResetDb = db /\ ResetDb' = db' /\ Loaded' = Loaded
    BY <1>2, Zenon DEF ResetDb, Loaded
  <2>3. /\ BlocksOK(blocks) /\ Sound(Loaded) /\ Sound(db) /\ OnDisk(blocks, Loaded.chain)
        /\ OnDisk(blocks, db.chain) /\ Len(Loaded.chain) <= Len(db.chain)
    BY <1>3, <2>2, DiskFacts, Zenon DEF OnFiles
  <2>4. OnFiles(blocks', Loaded, db')
    BY <2>1, <2>3, FilesPush, Zenon
  <2> QED BY <1>3, <2>2, <2>4, DiskFrame, Zenon
<1> QED BY <1>1, <1>4, <1>5, Zenon

(* Pending transactions, the end of push_block, a wrong key, and the       *)
(* beginning of close change neither the chain nor the disk.               *)
LEMMA QuietDisk ==
    ASSUME ChainInv, DiskInv, ChainInv',
           \/ \E t \in Tx : push_transaction(t)
           \/ FinishPush \/ generate_block_wrong_key \/ close \/ ReindexDone
    PROVE  DiskInv'
<1>1. CASE \E t \in Tx : push_transaction(t)
  <2>1. PICK t \in Tx : push_transaction(t)
    BY <1>1, Zenon
  <2>2. pc = "idle" /\ Queue(<<t>>) /\ UNCHANGED <<object_files, blocks, pc>>
    BY <2>1, Zenon DEF push_transaction, unchangedByTx
  <2>3. pc \notin {"down", "stopping"} /\ pc' # "down" /\ pc' # "reindex"
    BY <2>2, Zenon
  <2>4. undo_max \in Nat \ {0} /\ (pending_session => OnHead) /\ Holds(ResetDb, ResetUndo, Loaded)
    BY <2>3, Running, Zenon DEF ChainInv, TypeInv, PendingInv, OnHead
  <2>5. ResetDb' = ResetDb
    BY <2>2, <2>4, QueueStep, Zenon
  <2> QED BY <2>2, <2>3, <2>5, DiskStays, Zenon
<1>2. CASE FinishPush
  <2>1. /\ pc = "finish" /\ UNCHANGED <<object_files, blocks, queue, next_block_num, last_block_num>>
        /\ (UNCHANGED <<db, undo, pending_session>> \/ Queue(ToRestore))
        /\ (pc' = "stopping" \/ pc' = caller)
    BY <1>2, Zenon DEF FinishPush
  <2>2. pc \notin {"down", "stopping"} /\ ~ pending_session /\ caller \in {"idle", "reindex"}
        /\ undo_max \in Nat \ {0}
    BY <2>1, Zenon DEF ChainInv, PendingInv, TypeInv
  <2>3. pc' # "down" /\ (pc' = "reindex" => caller = "reindex")
    BY <2>1, <2>2, Zenon
  <2>4. Holds(ResetDb, ResetUndo, Loaded)
    BY <2>2, Running, Zenon
  <2>5. ResetDb' = ResetDb
    <3>1. ASSUME UNCHANGED <<db, undo, pending_session>> PROVE ResetDb' = ResetDb
      BY <3>1, Zenon DEF ResetDb
    <3> QED BY <2>1, <2>2, <2>4, <3>1, QueueStep, Zenon
  <2>6. caller = "reindex" => PastUndoPoint
    BY Zenon DEF ChainInv, ReindexInv
  <2>7. PastUndoPoint' = PastUndoPoint
    BY <2>1, Zenon DEF PastUndoPoint, undo_point
  <2> QED BY <2>1, <2>3, <2>5, <2>6, <2>7, DiskStays, Zenon
<1>3. CASE generate_block_wrong_key \/ close
  <2>1. /\ db' = ResetDb /\ pending_session' = FALSE /\ UNCHANGED <<object_files, blocks>>
        /\ pc' \in {"idle", "rewinding"}
    <3>1. CASE generate_block_wrong_key
      BY <3>1, Zenon DEF generate_block_wrong_key
    <3>2. CASE close
      BY <3>2, Zenon DEF close
    <3> QED BY <1>3, <3>1, <3>2, Zenon
  <2>2. ResetDb' = ResetDb
    BY <2>1, Zenon DEF ResetDb
  <2>3. pc' # "down" /\ pc' # "reindex"
    BY <2>1, Zenon
  <2> QED BY <2>1, <2>2, <2>3, DiskStays, Zenon
<1>4. CASE ReindexDone
  <2>1. pc' = "idle" /\ UNCHANGED <<db, undo, pending_session, object_files, blocks>>
    BY <1>4, Zenon DEF ReindexDone
  <2>2. ResetDb' = ResetDb
    BY <2>1, Zenon DEF ResetDb
  <2>3. pc' # "down" /\ pc' # "reindex"
    BY <2>1, Zenon
  <2> QED BY <2>1, <2>2, <2>3, DiskStays, Zenon
<1> QED BY <1>1, <1>2, <1>3, <1>4, Zenon

(* close pops a block, or is done with it.                                 *)
LEMMA RewindDisk ==
    ASSUME ChainInv, DiskInv, ChainInv', Rewind
    PROVE  DiskInv'
<1>1. /\ pc = "rewinding" /\ UNCHANGED <<object_files, blocks, pending_session>>
      /\ \/ ~ PopThrows /\ db' = Last(undo) /\ pc' = pc
         \/ pc' = "flushing" /\ db' = db
  BY Zenon DEF Rewind
<1>2. ~ pending_session /\ pc \notin {"down", "stopping"}
      /\ pc' \notin {"down", "stopping", "reindex"}
  BY <1>1, Zenon DEF ChainInv, PendingInv
<1>3. db' = db \/ (undo # <<>> /\ db' = Last(undo))
  BY <1>1, Zenon DEF PopThrows
<1> QED BY <1>1, <1>2, <1>3, PopDisk, Zenon

(* The process ends: the next one finds the chain of the saved state.      *)
LEMMA EndDisk ==
    ASSUME ChainInv, DiskInv, Flush \/ StartupFails \/ Crash
    PROVE  DiskInv'
<1>1. BlocksOK(blocks) /\ Sound(Loaded) /\ Sound(ResetDb) /\ OnFiles(blocks, Loaded, ResetDb)
  BY DiskFacts, Zenon
<1>2. Forget
  BY Zenon DEF Flush, StartupFails, Crash
<1>3. db' = GenesisState /\ pending_session' = FALSE /\ pc' = "down"
  BY <1>2, Zenon DEF Forget
<1>4. ResetDb' = GenesisState /\ pc' # "reindex"
  <2>1. ResetDb' = db'
    BY <1>3, Zenon DEF ResetDb
  <2> QED BY <1>3, <2>1, Zenon
<1>5. OnDisk(blocks', Loaded'.chain) /\ blocks'.unsynced = NothingUnsynced
  <2>1. CASE Flush
    <3>1. pc = "flushing" /\ object_files' = <<db>> /\ blocks' = synced(blocks)
      BY <2>1, Zenon DEF Flush
    <3>2. Loaded' = db /\ ~ pending_session
      BY <3>1, Zenon DEF Loaded, NoFiles, ChainInv, PendingInv
    <3>3. Loaded' = ResetDb
      BY <3>2, Zenon DEF ResetDb
    <3> QED BY <1>1, <3>1, <3>3, FilesEnd, Zenon DEF Survives
  <2>2. CASE StartupFails
    <3>1. blocks' = synced(blocks) /\ Loaded' = Loaded
      BY <2>2, Zenon DEF StartupFails, Loaded
    <3> QED BY <1>1, <3>1, FilesEnd, Zenon DEF Survives
  <2>3. CASE Crash
    <3>1. blocks' \in AfterCrash(blocks) /\ (object_files' = object_files \/ object_files' = NoFiles)
      BY <2>3, Zenon DEF Crash
    <3>2. Loaded' = Loaded \/ Loaded' = GenesisState
      BY <3>1, Zenon DEF Loaded
    <3>3. OnDisk(blocks', GenesisState.chain)
      BY GenesisSound DEF OnDisk
    <3> QED BY <1>1, <3>1, <3>2, <3>3, FilesEnd, Zenon DEF Survives
  <2> QED BY <2>1, <2>2, <2>3, Zenon
<1>6. OnDisk(blocks', GenesisState.chain)
  BY GenesisSound DEF OnDisk
<1> QED BY <1>3, <1>4, <1>5, <1>6, GenesisSound, Zenon DEF DiskInv, OnFiles

(* The operator wipes the object database, or everything.                  *)
LEMMA WipeDisk ==
    ASSUME ChainInv, DiskInv, NEW include_blocks, wipe(include_blocks)
    PROVE  DiskInv'
<1>1. /\ pc = "down" /\ pc' = pc /\ db' = db /\ UNCHANGED <<pending_session, undo>>
      /\ object_files' = NoFiles /\ (blocks' = EmptyBlockDatabase \/ blocks' = blocks)
  BY Zenon DEF wipe, unchangedOffline
<1>2. db = GenesisState /\ blocks.unsynced = NothingUnsynced /\ ~ pending_session
  BY <1>1, Zenon DEF DiskInv, ChainInv, PendingInv
<1>3. ResetDb' = GenesisState /\ Loaded' = GenesisState
  BY <1>1, <1>2, Zenon DEF ResetDb, Loaded
<1>4. EmptyBlockDatabase.unsynced = NothingUnsynced
  BY Zenon DEF EmptyBlockDatabase
<1>5. OnDisk(blocks', GenesisState.chain)
  BY GenesisSound DEF OnDisk
<1>6. pc' # "reindex"
  BY <1>1, Zenon
<1>7. blocks'.unsynced = NothingUnsynced
  BY <1>1, <1>2, <1>4, Zenon
<1> QED BY <1>1, <1>2, <1>3, <1>5, <1>6, <1>7, GenesisSound, Zenon DEF DiskInv, OnFiles

(* open loads the saved state, whose chain is on disk.                     *)
LEMMA OpenDisk ==
    ASSUME ChainInv, DiskInv, OpenNothingNewer \/ OpenAndReindex \/ OpenRefused
    PROVE  DiskInv'
<1>1. /\ pc = "down" /\ (db' = Loaded \/ db' = db) /\ pc' \in {"idle", "stopping", "reindex"}
      /\ UNCHANGED <<blocks, object_files, pending_session, undo, queue>>
  <2>1. CASE OpenNothingNewer
    BY <2>1, Zenon DEF OpenNothingNewer, unchangedByOpen
  <2>2. CASE OpenAndReindex
    BY <2>2, Zenon DEF OpenAndReindex, unchangedByOpen
  <2>3. CASE OpenRefused
    BY <2>3, Zenon DEF OpenRefused, unchangedByOpen
  <2> QED BY <2>1, <2>2, <2>3, Zenon
<1>2. /\ db = GenesisState /\ blocks.unsynced = NothingUnsynced /\ ~ pending_session /\ queue = <<>>
  BY <1>1, Zenon DEF DiskInv, ChainInv, PendingInv, ReindexInv
<1>3. Sound(Loaded) /\ OnDisk(blocks, Loaded.chain)
  BY DiskFacts, Zenon DEF OnFiles
<1>4. ResetDb' = db' /\ Loaded' = Loaded
  BY <1>1, <1>2, Zenon DEF ResetDb, Loaded
<1>5. OnDisk(blocks, GenesisState.chain)
  BY GenesisSound DEF OnDisk
<1>6. QueueOnDisk'
  <2>1. queue' = <<>> /\ blocks'.unsynced = NothingUnsynced
    BY <1>1, <1>2, Zenon
  <2> QED BY <2>1 DEF QueueOnDisk
<1>7. pc' # "down"
  BY <1>1, Zenon
<1> QED BY <1>1, <1>2, <1>3, <1>4, <1>5, <1>6, <1>7, GenesisSound, Zenon DEF DiskInv, OnFiles

(* reindex reads a block.                                                  *)
LEMMA ReadDisk ==
    ASSUME ChainInv, DiskInv, ReadBlock
    PROVE  DiskInv'
<1> DEFINE b == fetch_by_number(blocks, next_block_num)
<1>1. /\ pc = "reindex" /\ b # Null /\ queue' = Append(queue, b) /\ blocks' = blocks
      /\ UNCHANGED <<db, undo, pending_session, pc, object_files>>
  BY Zenon DEF ReadBlock, unchangedByReading
<1>2. ResetDb' = ResetDb /\ Loaded' = Loaded
  BY <1>1, Zenon DEF ResetDb, Loaded
<1>3. PastUndoPoint => PastUndoPoint'
  BY ReadStep, Zenon
<1>4. blocks.entry[num[b]] = b /\ b \in Block /\ queue \in Seq(Block)
  <2>1. num[b] = next_block_num /\ b \in Block
    BY <1>1, DiskFacts, BlocksTypes, Zenon
  <2>2. b = blocks.entry[next_block_num]
    BY <1>1, Zenon DEF fetch_by_number
  <2> QED BY <2>1, <2>2, Zenon DEF ChainInv, TypeInv
<1> HIDE DEF b
<1>5. QueueOnDisk => QueueOnDisk'
  <2> SUFFICES ASSUME QueueOnDisk PROVE QueueOnDisk'
    BY Zenon
  <2> DEFINE q == queue
             t == Append(q, b)
  <2>1. q \in Seq(Block) /\ b \in Block /\ queue' = t
    BY <1>1, <1>4, Zenon
  <2> HIDE DEF q
  <2>2. Len(q) \in Nat /\ Len(t) = Len(q) + 1 /\ t[Len(q) + 1] = b
    BY <2>1
  <2>3. ASSUME NEW k \in 1..Len(t) PROVE t[k] = b \/ (k \in 1..Len(q) /\ t[k] = q[k])
    <3>1. CASE k = Len(q) + 1
      BY <3>1, <2>2, Zenon
    <3>2. CASE k # Len(q) + 1
      BY <3>2, <2>1, <2>2
    <3> QED BY <3>1, <3>2, Zenon
  <2> HIDE DEF t
  <2> QED BY <1>1, <1>4, <2>1, <2>3, Zenon DEF QueueOnDisk, q
<1>6. pc' = "reindex" /\ pc' # "down"
  BY <1>1, Zenon
<1> QED BY <1>1, <1>2, <1>3, <1>5, <1>6, Zenon DEF DiskInv

(* reindex below the undo point applies a block that is on disk.           *)
LEMMA ReplayOnlyDisk ==
    ASSUME ChainInv, DiskInv, ReplayWithoutUndo
    PROVE  DiskInv'
<1> DEFINE b == Head(queue)
<1>1. /\ pc = "reindex" /\ queue # <<>> /\ num[b] < undo_point /\ queue' = Tail(queue)
      /\ \/ pc' = "stopping" /\ db' = db
         \/ ~ ApplyThrows(db, b) /\ db' = apply_block(db, b) /\ pc' = pc
      /\ UNCHANGED <<undo, blocks, pending_session, object_files>>
  BY Zenon DEF ReplayWithoutUndo
<1>2. ~ PastUndoPoint /\ ~ pending_session
  BY <1>1, BeforeUndoPoint, Zenon
<1>3. QueueOnDisk /\ ResetDb = db /\ ResetDb' = db' /\ Loaded' = Loaded
  BY <1>1, <1>2, Zenon DEF DiskInv, ResetDb, Loaded
<1>4. Sound(db) /\ OnDisk(blocks, Loaded.chain) /\ OnDisk(blocks, db.chain)
  BY <1>3, DiskFacts, Zenon DEF OnFiles
<1>5. /\ queue \in Seq(Block) /\ b \in Block /\ b = queue[1] /\ 1 \in 1..Len(queue)
      /\ \A k \in 1..Len(queue') : k + 1 \in 1..Len(queue) /\ queue'[k] = queue[k + 1]
  <2>1. queue \in Seq(Block)
    BY Zenon DEF ChainInv, TypeInv
  <2> QED BY <1>1, <2>1
<1>6. blocks.entry[num[b]] = b
  BY <1>3, <1>5, Zenon DEF QueueOnDisk
<1> HIDE DEF b
<1>7. QueueOnDisk'
  BY <1>1, <1>3, <1>5, Zenon DEF QueueOnDisk
<1>8. Sound(db') /\ OnDisk(blocks, db'.chain)
  <2>1. CASE db' = db
    BY <2>1, <1>4, Zenon
  <2>2. CASE ~ ApplyThrows(db, b) /\ db' = apply_block(db, b)
    <3>1. Sound(db') /\ db'.chain = Append(db.chain, b) /\ num[b] = Len(db.chain) + 1
      BY <2>2, <1>4, <1>5, ApplySound, Zenon
    <3>2. db.chain \in Seq(Block)
      BY <1>4, SoundType, Zenon
    <3>3. ASSUME NEW n \in 1..Len(db'.chain)
          PROVE  \/ n \in 1..Len(db.chain) /\ db'.chain[n] = db.chain[n]
                 \/ n = num[b] /\ db'.chain[n] = b
      <4> DEFINE c == db.chain
      <4>1. c \in Seq(Block) /\ db'.chain = Append(c, b) /\ num[b] = Len(c) + 1
        BY <3>1, <3>2, Zenon
      <4> HIDE DEF c
      <4>2. \/ n \in 1..Len(c) /\ Append(c, b)[n] = c[n]
            \/ n = num[b] /\ Append(c, b)[n] = b
        BY <4>1, <1>5
      <4> QED BY <4>1, <4>2, Zenon DEF c
    <3> QED BY <1>4, <1>6, <3>1, <3>3, Zenon DEF OnDisk
  <2> QED BY <1>1, <2>1, <2>2, Zenon
<1>9. pc' # "down" /\ blocks.unsynced = NothingUnsynced
  BY <1>1, <1>3, Zenon DEF QueueOnDisk
<1> QED BY <1>1, <1>3, <1>4, <1>7, <1>8, <1>9, Zenon DEF DiskInv, OnFiles

(* No block file is damaged, and reindex meets no gap.                     *)
Intact == ~ ReadGap /\ ~ \E n \in Height : DamageBlock(n)

(* Every such step keeps the chain on disk.                                *)
LEMMA DiskStep ==
    ASSUME ChainInv, DiskInv, ChainInv', [Next]_vars, [Intact]_vars
    PROVE  DiskInv'
<1>1. CASE Arrival
  BY <1>1, ArrivalDisk, QuietDisk, Zenon DEF Arrival
<1>2. CASE Switch
  BY <1>2, SwitchDisk, QuietDisk, Zenon DEF Switch
<1>3. CASE Stop
  BY <1>3, QuietDisk, RewindDisk, EndDisk, Zenon DEF Stop
<1>4. CASE UNCHANGED vars
  <2>1. /\ UNCHANGED <<db, undo, blocks, pending_session, pc>>
        /\ UNCHANGED <<queue, next_block_num, last_block_num>>
        /\ UNCHANGED object_files
    BY <1>4, Zenon DEF vars
  <2>2. Loaded' = Loaded /\ ResetDb' = ResetDb
    BY <2>1, Zenon DEF Loaded, ResetDb
  <2>3. PastUndoPoint' = PastUndoPoint /\ QueueOnDisk' = QueueOnDisk
    BY <2>1, Zenon DEF PastUndoPoint, undo_point, QueueOnDisk
  <2> QED BY <2>1, <2>2, <2>3, Zenon DEF DiskInv
<1>5. CASE Start /\ Intact
  BY <1>5, OpenDisk, ReadDisk, ReplayOnlyDisk, ReplayDisk, QuietDisk, EndDisk, Zenon
  DEF Start, Intact
<1>6. CASE Environment /\ Intact
  BY <1>6, EndDisk, WipeDisk, Zenon DEF Environment, Intact
<1> QED BY <1>1, <1>2, <1>3, <1>4, <1>5, <1>6, Zenon DEF Next

(* The initial state: nothing is on disk, and nothing has to be.           *)
LEMMA DiskInit == Init => DiskInv
<1> SUFFICES ASSUME Init PROVE DiskInv
  OBVIOUS
<1>1. /\ ResetDb = GenesisState /\ Loaded = GenesisState /\ pc = "idle"
      /\ blocks = EmptyBlockDatabase
  BY Zenon DEF Init, ResetDb, Loaded
<1>2. OnDisk(blocks, GenesisState.chain) /\ blocks.unsynced = NothingUnsynced
  BY <1>1, GenesisSound DEF OnDisk, EmptyBlockDatabase
<1>3. pc # "down" /\ pc # "reindex"
  BY <1>1, Zenon
<1> QED BY <1>1, <1>2, <1>3, GenesisSound, Zenon DEF DiskInv, OnFiles

(* The inductive invariant of the block files.                             *)
LEMMA DiskInvariance == Spec /\ [][Intact]_vars => [](ChainInv /\ DiskInv)
BY InitInv, DiskInit, InvStep, DiskStep, PTL DEF Spec

(* The pending session changes neither the head nor what is irreversible.  *)
LEMMA SameHead ==
    ASSUME ChainInv
    PROVE  db.irreversible = ResetDb.irreversible /\ db.chain = ResetDb.chain
<1>1. CASE pending_session
  <2> DEFINE c == Last(undo).chain
             m == Last(undo).irreversible
             a == db.applied
  <2>1. db = [chain |-> c, irreversible |-> m, applied |-> a] /\ ResetDb = Last(undo)
    BY <1>1, Zenon DEF ChainInv, PendingInv, ResetDb
  <2> HIDE DEF c, m, a
  <2>2. db.irreversible = m /\ db.chain = c
    BY <2>1, Zenon
  <2> QED BY <2>1, <2>2, Zenon DEF c, m
<1>2. CASE ~ pending_session
  BY <1>2, Zenon DEF ResetDb
<1> QED BY <1>1, <1>2, Zenon

(* Every block of the chain is on disk, in every state, also between two   *)
(* steps of a fork switch or of reindex, as long as the block files are    *)
(* not damaged and reindex meets no gap in them: no block is applied whose *)
(* store a later store or removal of the other branch undoes.              *)
THEOREM ChainIsOnDiskHolds == Spec /\ [][Intact]_vars => []ChainIsOnDisk
<1>1. ASSUME ChainInv, DiskInv PROVE ChainIsOnDisk
  <2>1. OnDisk(blocks, ResetDb.chain) /\ db.chain = ResetDb.chain
    BY <1>1, SameHead, Zenon DEF DiskInv, OnFiles
  <2> QED BY <2>1, Zenon DEF OnDisk, ChainIsOnDisk, head_block_num
<1>2. ChainInv /\ DiskInv => ChainIsOnDisk
  BY <1>1, Zenon
<1> QED BY <1>2, DiskInvariance, PTL

(* A crash loses no irreversible block.  As long as the block files are    *)
(* not damaged and reindex meets no gap in them, and there are at least    *)
(* two witnesses (a single one makes its own last block irreversible       *)
(* before it is written), a process that dies at any moment, also in the   *)
(* middle of a fork switch or of reindex, leaves every irreversible block  *)
(* on disk.                                                                *)
THEOREM IrreversibleIsDurableHolds ==
    ASSUME Cardinality(Witness) > 1
    PROVE  Spec /\ [][Intact]_vars => []IrreversibleIsDurable
<1>1. ASSUME ChainInv, DiskInv PROVE IrreversibleIsDurable
  <2>1. BlocksOK(blocks) /\ Sound(Loaded) /\ Sound(ResetDb) /\ OnFiles(blocks, Loaded, ResetDb)
    BY <1>1, DiskFacts, Zenon
  <2>2. ASSUME NEW g \in AfterCrash(blocks)
        PROVE  \A n \in 1..ResetDb.irreversible : g.entry[n] = ResetDb.chain[n]
    <3> DEFINE s == Loaded
               d == ResetDb
    <3>1. Sound(s) /\ Sound(d) /\ OnFiles(blocks, s, d)
      BY <2>1, Zenon
    <3> HIDE DEF s, d
    <3>2. Survives(g, s, d)
      BY <2>1, <2>2, <3>1, FilesEnd, Zenon
    <3>3. \A n \in 1..d.irreversible : g.entry[n] = d.chain[n]
      BY <3>2, Zenon DEF Survives
    <3> QED BY <3>3, Zenon DEF d
  <2>3. db.irreversible = ResetDb.irreversible /\ db.chain = ResetDb.chain
    BY <1>1, SameHead, Zenon
  <2> QED BY <2>2, <2>3, Zenon DEF IrreversibleIsDurable
<1>2. ChainInv /\ DiskInv => IrreversibleIsDurable
  BY <1>1, Zenon
<1> QED BY <1>2, DiskInvariance, PTL
================================================================================
