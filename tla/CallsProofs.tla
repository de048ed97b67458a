------------------------------ MODULE CallsProofs ------------------------------
\* The functions without a state of their own, for calls of any size: what the
\* settings select, what an answer of the API becomes on the screen, the message
\* that announces a scorecard and its preview, a quote and where it is read, the
\* merge of a transcript with its speakers, and the screens that share a list.
EXTENDS Providers, Client, Messages, Evidence, Boards,
        FiniteSetTheorems, SequenceTheorems, WellFoundedInduction, TLAPS

-------------------------------------------------------------------------------
(* Sequences as functions on 1 .. n.                                       *)

LEMMA SameEnds ==
  ASSUME NEW m \in Nat, NEW n \in Nat, 1 .. m = 1 .. n
  PROVE  m = n
<1>1. m \in 1 .. m \/ m = 0
  OBVIOUS
<1>2. n \in 1 .. n \/ n = 0
  OBVIOUS
<1> QED BY <1>1, <1>2

LEMMA FunctionIsSeq ==
  ASSUME NEW S, NEW n \in Nat, NEW f \in [1 .. n -> S]
  PROVE  f \in Seq(S) /\ Len(f) = n
<1>1. f \in Seq(S)
  BY SeqDef
<1>2. Len(f) \in Nat /\ 1 .. Len(f) = 1 .. n
  BY <1>1, LenProperties
<1> QED BY <1>1, <1>2, SameEnds

\* A sequence of n is a function on 1 .. n.
Listed(s, n) == s = [i \in 1 .. n |-> s[i]]

LEMMA NotEmpty ==
  ASSUME NEW n \in Nat, NEW f, Listed(f, n)
  PROVE  f = <<>> <=> n = 0
<1>1. PICK S : S = {f[i] : i \in 1 .. n}
  OBVIOUS
<1>2. f \in [1 .. n -> S]
  BY <1>1 DEF Listed
<1>3. f \in Seq(S) /\ Len(f) = n
  BY <1>2, FunctionIsSeq
<1>4. Len(<<>>) = 0 /\ <<>> \in Seq(S)
  BY EmptySeq
<1>5. n = 0 => f = <<>>
  BY <1>3, <1>4, SeqEqual
<1> QED BY <1>3, <1>4, <1>5

LEMMA SequenceOf ==
  ASSUME NEW n \in Nat, NEW f, Listed(f, n), NEW S, {f[i] : i \in 1 .. n} \subseteq S
  PROVE  f \in Seq(S) /\ Len(f) = n /\ DOMAIN f = 1 .. n
<1>1. f \in [1 .. n -> S]
  BY DEF Listed
<1> QED BY <1>1, FunctionIsSeq

\* a up to m, then b up to n, then c up to e.
InThree(all, a, m, b, n, c, e) ==
    /\ Listed(all, e)
    /\ \A i \in 1 .. e : all[i] = IF i <= m THEN a[i] ELSE IF i <= n THEN b[i - m] ELSE c[i - n]

\* What is at each place of three sequences put together.
LEMMA ThreeTogether ==
  ASSUME NEW m \in Nat, NEW n \in Nat, NEW p \in Nat, NEW a, NEW b, NEW c,
         Listed(a, m), Listed(b, n), Listed(c, p),
         NEW abc, abc = a \o b \o c, NEW f \in Nat, f = m + n, NEW e \in Nat, e = m + n + p
  PROVE  InThree(abc, a, m, b, f, c, e)
<1>1. PICK S : S = {a[i] : i \in 1 .. m} \cup {b[i] : i \in 1 .. n} \cup {c[i] : i \in 1 .. p}
  OBVIOUS
<1>2. a \in Seq(S) /\ Len(a) = m /\ b \in Seq(S) /\ Len(b) = n /\ c \in Seq(S) /\ Len(c) = p
  <2>1. {a[i] : i \in 1 .. m} \subseteq S /\ {b[i] : i \in 1 .. n} \subseteq S /\ {c[i] : i \in 1 .. p} \subseteq S
    BY <1>1
  <2>2. a \in Seq(S) /\ Len(a) = m
    BY <2>1, SequenceOf
  <2>3. b \in Seq(S) /\ Len(b) = n
    BY <2>1, SequenceOf
  <2>4. c \in Seq(S) /\ Len(c) = p
    BY <2>1, SequenceOf
  <2> QED BY <2>2, <2>3, <2>4
<1>3. PICK ab : ab = a \o b
  OBVIOUS
<1>4. ab \in Seq(S) /\ Len(ab) = m + n /\ \A i \in 1 .. m + n : ab[i] = IF i <= m THEN a[i] ELSE b[i - m]
  BY <1>2, <1>3, ConcatProperties
<1>5. abc = ab \o c
  BY <1>3
<1>6. /\ abc \in Seq(S) /\ Len(abc) = e
      /\ \A i \in 1 .. e : abc[i] = IF i <= f THEN ab[i] ELSE c[i - f]
  <2>1. Len(ab) = f /\ Len(c) = p /\ f + p = e
    BY <1>2, <1>4
  <2>2. /\ abc \in Seq(S) /\ Len(abc) = Len(ab) + Len(c)
        /\ \A i \in 1 .. Len(ab) + Len(c) : abc[i] = IF i <= Len(ab) THEN ab[i] ELSE c[i - Len(ab)]
    <3>1. PICK x \in Seq(S), y \in Seq(S) : x = ab /\ y = c
      BY <1>2, <1>4
    <3>2. /\ x \o y \in Seq(S) /\ Len(x \o y) = Len(x) + Len(y)
          /\ \A i \in 1 .. Len(x) + Len(y) : (x \o y)[i] = IF i <= Len(x) THEN x[i] ELSE y[i - Len(x)]
      BY ConcatProperties
    <3> QED BY <1>5, <3>1, <3>2
  <2> QED BY <2>1, <2>2
<1>7. Listed(abc, e)
  BY <1>6, LenProperties DEF Listed
<1>8. ASSUME NEW i \in 1 .. e
      PROVE  abc[i] = IF i <= m THEN a[i] ELSE IF i <= f THEN b[i - m] ELSE c[i - f]
  <2>1. CASE i <= f
    <3>1. i \in 1 .. m + n
      BY <2>1
    <3> QED BY <1>4, <1>6, <2>1, <3>1
  <2>2. CASE ~(i <= f)
    <3>1. ~(i <= m)
      BY <2>2
    <3>2. abc[i] = c[i - f]
      BY <1>6, <2>2
    <3> QED BY <2>2, <3>1, <3>2
  <2> QED BY <2>1, <2>2
<1> QED BY <1>7, <1>8 DEF InThree

-------------------------------------------------------------------------------
(* The positions of a finite set of numbers, in order.                     *)

Rank(S, k) == Cardinality({j \in S : j <= k})

LEMMA RankIs ==
  ASSUME NEW S \in SUBSET Int, IsFiniteSet(S), NEW k \in S
  PROVE  Rank(S, k) \in 1 .. Cardinality(S)
<1>1. PICK T : T = {j \in S : j <= k}
  OBVIOUS
<1>2. T \in SUBSET S /\ k \in T /\ T # {}
  BY <1>1
<1>3. IsFiniteSet(T) /\ Cardinality(T) <= Cardinality(S)
  BY <1>2, FS_Subset
<1>4. Cardinality(T) \in Nat /\ Cardinality(S) \in Nat /\ Cardinality(T) # 0
  BY <1>2, <1>3, FS_CardinalityType, FS_EmptySet
<1> QED BY <1>1, <1>3, <1>4 DEF Rank

LEMMA RanksGrow ==
  ASSUME NEW S \in SUBSET Int, IsFiniteSet(S), NEW k \in S, NEW l \in S, k < l
  PROVE  Rank(S, k) < Rank(S, l)
<1>1. PICK T : T = {j \in S : j <= k}
  OBVIOUS
<1>2. PICK U : U = {j \in S : j <= l}
  OBVIOUS
<1>3. T \in SUBSET U /\ U \in SUBSET S /\ l \in U /\ l \notin T
  <2>1. k \in Int /\ l \in Int
    OBVIOUS
  <2>2. \A j \in T : j \in Int /\ j \in S /\ j <= k
    BY <1>1
  <2>3. \A j \in T : j \in U
    BY <1>2, <2>1, <2>2
  <2>4. l \in U /\ l \notin T
    BY <1>1, <1>2, <2>1
  <2> QED BY <1>2, <2>3, <2>4
<1>4. IsFiniteSet(U)
  BY <1>3, FS_Subset
<1>5. Cardinality(T) <= Cardinality(U) /\ (Cardinality(U) = Cardinality(T) => U = T) /\ IsFiniteSet(T)
  BY <1>3, <1>4, FS_Subset
<1>6. Cardinality(T) \in Nat /\ Cardinality(U) \in Nat
  BY <1>4, <1>5, FS_CardinalityType
<1> QED BY <1>1, <1>2, <1>3, <1>5, <1>6 DEF Rank

LEMMA EveryRankIsHeld ==
  ASSUME NEW S \in SUBSET Int, IsFiniteSet(S), NEW i \in 1 .. Cardinality(S)
  PROVE  \E k \in S : Rank(S, k) = i
<1>1. PICK n \in Nat : n = Cardinality(S)
  BY FS_CardinalityType
<1>2. PICK rank : rank = [k \in S |-> Rank(S, k)]
  OBVIOUS
<1>3. rank \in [S -> 1 .. n]
  BY <1>1, <1>2, RankIs
<1>4. \A k, l \in S : rank[k] = rank[l] => k = l
  <2>1. SUFFICES ASSUME NEW k \in S, NEW l \in S, k # l PROVE rank[k] # rank[l]
    OBVIOUS
  <2>2. k \in Int /\ l \in Int /\ (k < l \/ l < k)
    BY <2>1
  <2>3. Rank(S, k) \in Int /\ Rank(S, l) \in Int
    BY <1>1, RankIs
  <2>4. Rank(S, k) < Rank(S, l) \/ Rank(S, l) < Rank(S, k)
    BY <2>2, RanksGrow
  <2> QED BY <1>2, <2>3, <2>4
<1>5. rank \in Injection(S, 1 .. n)
  BY <1>3, <1>4 DEF Injection, IsInjective
<1>6. IsFiniteSet(1 .. n) /\ Cardinality(1 .. n) = n
  <2>1. 1 \in Int /\ n \in Int
    OBVIOUS
  <2> QED BY <2>1, FS_Interval
<1>7. rank \in Surjection(S, 1 .. n)
  BY <1>1, <1>5, <1>6, FS_Injection
<1>8. \E k \in S : rank[k] = i
  BY <1>1, <1>7 DEF Surjection
<1> QED BY <1>2, <1>8

\* Ascending lists each member of the set once, smaller ones first.
LEMMA AscendingIs ==
  ASSUME NEW S \in SUBSET Int, IsFiniteSet(S), NEW order, order = Ascending(S)
  PROVE  /\ Cardinality(S) \in Nat
         /\ order \in [1 .. Cardinality(S) -> S]
         /\ \A i \in 1 .. Cardinality(S) : Rank(S, order[i]) = i
         /\ \A i, j \in 1 .. Cardinality(S) : i < j => order[i] < order[j]
         /\ \A k \in S : Rank(S, k) \in 1 .. Cardinality(S) /\ order[Rank(S, k)] = k
<1>1. Cardinality(S) \in Nat
  BY FS_CardinalityType
<1>2. order = [i \in 1 .. Cardinality(S) |-> CHOOSE k \in S : Rank(S, k) = i]
  BY DEF Ascending, Rank
<1>3. \A i \in 1 .. Cardinality(S) : order[i] \in S /\ Rank(S, order[i]) = i
  BY <1>2, EveryRankIsHeld
<1>4. \A k, l \in S : Rank(S, k) = Rank(S, l) => k = l
  <2>1. SUFFICES ASSUME NEW k \in S, NEW l \in S, k # l PROVE Rank(S, k) # Rank(S, l)
    OBVIOUS
  <2>2. k \in Int /\ l \in Int /\ (k < l \/ l < k)
    BY <2>1
  <2>3. Rank(S, k) \in Int /\ Rank(S, l) \in Int
    BY <1>1, RankIs
  <2>4. Rank(S, k) < Rank(S, l) \/ Rank(S, l) < Rank(S, k)
    BY <2>2, RanksGrow
  <2> QED BY <2>3, <2>4
<1>5. ASSUME NEW i \in 1 .. Cardinality(S), NEW j \in 1 .. Cardinality(S), i < j
      PROVE  order[i] < order[j]
  <2>1. PICK k \in S, l \in S : k = order[i] /\ l = order[j]
    BY <1>3
  <2>2. Rank(S, k) = i /\ Rank(S, l) = j /\ k # l
    BY <1>1, <1>3, <1>5, <2>1
  <2>3. CASE l < k
    BY <1>1, <1>5, <2>2, <2>3, RanksGrow
  <2> QED BY <2>1, <2>2, <2>3
<1>6. ASSUME NEW k \in S
      PROVE  Rank(S, k) \in 1 .. Cardinality(S) /\ order[Rank(S, k)] = k
  BY <1>3, <1>4, RankIs
<1>7. order \in [1 .. Cardinality(S) -> S]
  BY <1>2, <1>3
<1> QED BY <1>1, <1>3, <1>5, <1>6, <1>7

LEMMA Positions ==
  ASSUME NEW n \in Nat, NEW S \in SUBSET (1 .. n)
  PROVE  S \in SUBSET Int /\ IsFiniteSet(S) /\ Cardinality(S) \in Nat
<1>1. 1 \in Int /\ n \in Int
  OBVIOUS
<1>2. IsFiniteSet(1 .. n)
  BY <1>1, FS_Interval
<1>3. IsFiniteSet(S)
  BY <1>2, FS_Subset
<1>4. Cardinality(S) \in Nat
  BY <1>3, FS_CardinalityType
<1> QED BY <1>3, <1>4

LEMMA OnlyIs ==
  ASSUME NEW S \in SUBSET Int, IsFiniteSet(S), NEW s, NEW order, order = Ascending(S)
  PROVE  Only(s, S) = [i \in 1 .. Cardinality(S) |-> s[order[i]]] /\ DOMAIN order = 1 .. Cardinality(S)
<1>1. DOMAIN order = 1 .. Cardinality(S)
  BY DEF Ascending
<1> QED BY <1>1 DEF Only

\* The first of what is kept is what is at the smallest position.
LEMMA FirstKept ==
  ASSUME NEW S \in SUBSET Int, IsFiniteSet(S), S # {}, NEW s
  PROVE  /\ Min(S) \in S /\ \A k \in S : Min(S) <= k
         /\ Only(s, S) # <<>> /\ Only(s, S)[1] = s[Min(S)]
<1>1. PICK order : order = Ascending(S)
  OBVIOUS
<1>2. PICK n \in Nat : n = Cardinality(S) /\ n # 0
  BY FS_CardinalityType, FS_EmptySet
<1>3. 1 \in 1 .. n /\ order[1] \in S
  BY <1>1, <1>2, AscendingIs
<1>4. ASSUME NEW k \in S PROVE order[1] <= k
  <2>0. k \in Int /\ order[1] \in Int
    BY <1>3
  <2>1. PICK i \in 1 .. n : order[i] = k
    BY <1>1, <1>2, AscendingIs
  <2>2. CASE i = 1
    BY <2>0, <2>1, <2>2
  <2>3. CASE 1 < i
    <3>1. order[1] < order[i]
      BY <1>1, <1>2, <1>3, <2>3, AscendingIs
    <3> QED BY <2>0, <2>1, <3>1
  <2> QED BY <2>2, <2>3
<1>5. PICK least \in S : least = order[1] /\ \A k \in S : least <= k
  BY <1>3, <1>4
<1>6. \A x \in S : (\A k \in S : x <= k) => x = least
  BY <1>5
<1>7. Min(S) = least
  BY <1>5, <1>6 DEF Min
<1>8. PICK kept : kept = Only(s, S)
  OBVIOUS
<1>9. kept = [i \in 1 .. n |-> s[order[i]]]
  BY <1>1, <1>2, <1>8, OnlyIs
<1>10. Listed(kept, n) /\ kept[1] = s[order[1]]
  BY <1>3, <1>9 DEF Listed
<1>11. kept # <<>>
  BY <1>2, <1>10, NotEmpty
<1> QED BY <1>5, <1>7, <1>8, <1>10, <1>11

\* What is kept was at one of the positions kept.
LEMMA EachKept ==
  ASSUME NEW S \in SUBSET Int, IsFiniteSet(S), NEW s, NEW kept, kept = Only(s, S), NEW k \in DOMAIN kept
  PROVE  \E i \in S : kept[k] = s[i]
<1>1. PICK order : order = Ascending(S)
  OBVIOUS
<1>3. PICK c : c = Cardinality(S)
  OBVIOUS
<1>4. kept = [i \in 1 .. c |-> s[order[i]]]
  BY <1>1, <1>3, OnlyIs
<1>5. order \in [1 .. c -> S]
  BY <1>1, <1>3, AscendingIs
<1>6. k \in 1 .. c /\ kept[k] = s[order[k]]
  BY <1>4
<1> QED BY <1>5, <1>6

LEMMA NothingKept ==
  ASSUME NEW s
  PROVE  Only(s, {}) = <<>>
<1>1. {} \in SUBSET Int /\ IsFiniteSet({}) /\ Cardinality({}) = 0 /\ 0 \in Nat
  BY FS_EmptySet
<1>2. PICK kept : kept = Only(s, {})
  OBVIOUS
<1>3. PICK order : order = Ascending({})
  OBVIOUS
<1>4. kept = [i \in 1 .. 0 |-> s[order[i]]]
  BY <1>1, <1>2, <1>3, OnlyIs
<1>5. Listed(kept, 0)
  BY <1>4 DEF Listed
<1> QED BY <1>1, <1>2, <1>5, NotEmpty

\* What lists a set in order, smaller ones first, is Ascending.
LEMMA OnlyOneOrder ==
  ASSUME NEW S \in SUBSET Int, IsFiniteSet(S), NEW n \in Nat, NEW f \in [1 .. n -> S],
         \A k \in S : \E i \in 1 .. n : f[i] = k,
         \A i, j \in 1 .. n : i < j => f[i] < f[j]
  PROVE  n = Cardinality(S) /\ f = Ascending(S)
<1>0. \A i \in 1 .. n : f[i] \in S /\ f[i] \in Int
  OBVIOUS
<1>1. \A i, j \in 1 .. n : f[i] = f[j] => i = j
  <2>1. SUFFICES ASSUME NEW i \in 1 .. n, NEW j \in 1 .. n, i # j PROVE f[i] # f[j]
    OBVIOUS
  <2>2. i < j \/ j < i
    BY <2>1
  <2>3. f[i] \in Int /\ f[j] \in Int
    OBVIOUS
  <2> QED BY <2>2, <2>3
<1>2. n = Cardinality(S)
  <2>1. f \in Bijection(1 .. n, S)
    BY <1>1 DEF Bijection, Injection, Surjection, IsInjective
  <2>2. ExistsBijection(1 .. n, S)
    BY <2>1 DEF ExistsBijection
  <2> QED BY <2>2, FS_CountingElements
<1>3. ASSUME NEW i \in 1 .. n PROVE Rank(S, f[i]) = i
  <2>1. PICK T : T = {j \in S : j <= f[i]}
    OBVIOUS
  <2>2. PICK g : g = [l \in 1 .. i |-> f[l]]
    OBVIOUS
  <2>3. \A l \in 1 .. i : l \in 1 .. n /\ f[l] \in T
    <3>1. SUFFICES ASSUME NEW l \in 1 .. i PROVE l \in 1 .. n /\ f[l] \in T
      OBVIOUS
    <3>2. l \in 1 .. n /\ (l < i \/ l = i)
      OBVIOUS
    <3>3. PICK x \in Int, y \in Int : x = f[l] /\ y = f[i]
      BY <1>0, <3>2
    <3>4. x < y \/ x = y
      BY <3>2, <3>3
    <3>5. x <= y
      BY <3>4
    <3> QED BY <1>0, <2>1, <3>2, <3>3, <3>5
  <2>4. \A k \in T : \E l \in 1 .. i : f[l] = k
    <3>1. SUFFICES ASSUME NEW k \in T PROVE \E l \in 1 .. i : f[l] = k
      OBVIOUS
    <3>2. PICK l \in 1 .. n : f[l] = k /\ k <= f[i] /\ k \in Int
      BY <2>1
    <3>3. PICK y \in Int : y = f[i] /\ k <= y
      BY <1>0, <3>2
    <3>4. i < l => y < k
      BY <3>2, <3>3
    <3>5. ~(y < k)
      BY <3>2, <3>3
    <3>6. ~(i < l)
      BY <3>4, <3>5
    <3>7. l \in 1 .. i
      BY <3>6
    <3> QED BY <3>2, <3>7
  <2>5. g \in Bijection(1 .. i, T)
    BY <1>1, <2>2, <2>3, <2>4 DEF Bijection, Injection, Surjection, IsInjective
  <2>6. i \in Nat /\ ExistsBijection(1 .. i, T)
    BY <2>5 DEF ExistsBijection
  <2>7. Cardinality(T) = i
    BY <2>6, FS_CountingElements
  <2> QED BY <2>1, <2>7 DEF Rank
<1>4. PICK order : order = Ascending(S)
  OBVIOUS
<1>5. order \in [1 .. n -> S] /\ \A k \in S : order[Rank(S, k)] = k
  BY <1>2, <1>4, AscendingIs
<1>6. \A i \in 1 .. n : order[i] = f[i]
  BY <1>3, <1>5
<1> QED BY <1>2, <1>4, <1>5, <1>6

\* As many are between two members as their ranks differ by.
LEMMA RanksBetween ==
  ASSUME NEW S \in SUBSET Int, IsFiniteSet(S), NEW k \in S, NEW l \in S, k <= l,
         NEW B, B = {j \in S : k < j /\ j <= l}
  PROVE  IsFiniteSet(B) /\ Cardinality(B) \in Nat /\ Rank(S, l) = Rank(S, k) + Cardinality(B)
<1>1. PICK K : K = {j \in S : j <= k}
  OBVIOUS
<1>2. PICK L : L = {j \in S : j <= l}
  OBVIOUS
<1>3. B \in SUBSET S /\ K \in SUBSET S
  BY <1>1
<1>4. IsFiniteSet(B) /\ IsFiniteSet(K)
  BY <1>3, FS_Subset
<1>5. Cardinality(B) \in Nat /\ Cardinality(K) \in Nat
  BY <1>4, FS_CardinalityType
<1>6. \A j \in S : j \in Int
  OBVIOUS
<1>7. \A j \in S : j \in L <=> j \in K \/ j \in B
  <2>1. \A j \in S : j <= l <=> (j <= k \/ (k < j /\ j <= l))
    BY <1>6
  <2> QED BY <1>1, <1>2, <2>1
<1>8. K \cup B = L
  BY <1>1, <1>2, <1>3, <1>7
<1>9. K \cap B = {}
  <2>1. k \in Int
    OBVIOUS
  <2>2. \A j \in K : j \in Int /\ j <= k
    BY <1>1, <1>6
  <2>3. \A j \in B : j \in Int /\ k < j
    BY <1>6
  <2>4. \A j \in K : j \notin B
    BY <2>1, <2>2, <2>3
  <2> QED BY <2>4
<1>10. Cardinality(K \cup B) = Cardinality(K) + Cardinality(B) - Cardinality(K \cap B)
  BY <1>4, FS_Union
<1>11. Cardinality(L) = Cardinality(K) + Cardinality(B)
  BY <1>5, <1>8, <1>9, <1>10, FS_EmptySet
<1> QED BY <1>1, <1>2, <1>4, <1>5, <1>11 DEF Rank

\* Two sets alike between two places, one moved, have the same steps of rank there.
Moved(S, T, k, l, d) == \A p \in Int : k <= p /\ p <= l => (p \in S <=> p + d \in T)

LEMMA RanksMoved ==
  ASSUME NEW S \in SUBSET Int, IsFiniteSet(S), NEW T \in SUBSET Int, IsFiniteSet(T), NEW d \in Int,
         NEW k \in S, NEW l \in S, k <= l, Moved(S, T, k, l, d),
         NEW kd, kd = k + d, NEW ld, ld = l + d
  PROVE  kd \in T /\ ld \in T /\ Rank(T, ld) - Rank(T, kd) = Rank(S, l) - Rank(S, k)
<1>1. k \in Int /\ l \in Int /\ kd \in Int /\ ld \in Int /\ kd <= ld
  OBVIOUS
<1>2. kd \in T /\ ld \in T
  BY <1>1 DEF Moved
<1>3. PICK B : B = {j \in S : k < j /\ j <= l}
  OBVIOUS
<1>4. PICK C : C = {j \in T : kd < j /\ j <= ld}
  OBVIOUS
<1>5. PICK g : g = [j \in B |-> j + d]
  OBVIOUS
<1>6. \A j \in B : j \in Int /\ j \in S /\ k < j /\ j <= l
  BY <1>3
<1>7. \A j \in C : j \in Int /\ j \in T /\ kd < j /\ j <= ld
  BY <1>4
<1>8. \A j \in B : g[j] \in C /\ g[j] = j + d
  <2>1. SUFFICES ASSUME NEW j \in B PROVE g[j] \in C /\ g[j] = j + d
    OBVIOUS
  <2>2. g[j] = j + d
    BY <1>5
  <2>3. j + d \in T
    BY <1>1, <1>6 DEF Moved
  <2>4. kd < j + d /\ j + d <= ld
    BY <1>1, <1>6
  <2> QED BY <1>4, <2>2, <2>3, <2>4
<1>9. \A j \in C : \E i \in B : g[i] = j
  <2>1. SUFFICES ASSUME NEW j \in C PROVE \E i \in B : g[i] = j
    OBVIOUS
  <2>2. PICK i \in Int : i = j - d
    BY <1>7
  <2>3. k < i /\ i <= l /\ i + d = j
    BY <1>1, <1>7, <2>2
  <2>4. i \in S
    BY <1>1, <1>7, <2>3 DEF Moved
  <2>5. i \in B
    BY <1>3, <2>3, <2>4
  <2> QED BY <1>8, <2>3, <2>5
<1>10. \A i, j \in B : g[i] = g[j] => i = j
  BY <1>6, <1>8
<1>11. g \in Bijection(B, C)
  BY <1>5, <1>8, <1>9, <1>10 DEF Bijection, Injection, Surjection, IsInjective
<1>12. /\ IsFiniteSet(B) /\ Cardinality(B) \in Nat /\ Rank(S, l) = Rank(S, k) + Cardinality(B)
  BY <1>3, RanksBetween
<1>13. Rank(T, ld) = Rank(T, kd) + Cardinality(C)
  BY <1>1, <1>2, <1>4, RanksBetween
<1>14. Cardinality(C) = Cardinality(B)
  <2>1. ExistsBijection(B, C)
    BY <1>11 DEF ExistsBijection
  <2> QED BY <1>12, <2>1, FS_Bijection
<1>15. Rank(S, k) \in Int /\ Rank(T, kd) \in Int
  <2>1. Cardinality(S) \in Nat /\ Cardinality(T) \in Nat
    BY FS_CardinalityType
  <2> QED BY <1>2, <2>1, RankIs
<1> QED BY <1>2, <1>12, <1>13, <1>14, <1>15

LEMMA LargestIs ==
  ASSUME NEW S \in SUBSET Int, IsFiniteSet(S), S # {}
  PROVE  Max(S) \in S /\ \A k \in S : k <= Max(S)
<1>1. PICK order : order = Ascending(S)
  OBVIOUS
<1>2. PICK n \in Nat : n = Cardinality(S) /\ n # 0
  BY FS_CardinalityType, FS_EmptySet
<1>3. n \in 1 .. n /\ order[n] \in S
  BY <1>1, <1>2, AscendingIs
<1>4. ASSUME NEW k \in S PROVE k <= order[n]
  <2>1. k \in Int /\ order[n] \in Int
    BY <1>3
  <2>2. PICK i \in 1 .. n : order[i] = k
    BY <1>1, <1>2, AscendingIs
  <2>3. CASE i = n
    BY <2>1, <2>2, <2>3
  <2>4. CASE i < n
    <3>1. order[i] < order[n]
      BY <1>1, <1>2, <1>3, <2>4, AscendingIs
    <3> QED BY <2>1, <2>2, <3>1
  <2> QED BY <2>3, <2>4
<1>5. PICK largest \in S : largest = order[n] /\ \A k \in S : k <= largest
  BY <1>3, <1>4
<1>6. \A x \in S : (\A k \in S : x >= k) => x = largest
  BY <1>5
<1>7. Max(S) = largest
  BY <1>5, <1>6 DEF Max
<1> QED BY <1>5, <1>7

-------------------------------------------------------------------------------
(* What the settings select, whatever name the provider is given.          *)

NamedSettings(names) ==
    [transcription_provider : names, openai_api_key : BOOLEAN, deepgram_api_key : BOOLEAN,
     hf_token : BOOLEAN, openrouter_api_key : BOOLEAN, whisperx : BOOLEAN, pyannote : BOOLEAN,
     slack_webhook_url : BOOLEAN, notification_webhook_url : BOOLEAN]

LEMMA ReturnsWhat ==
  ASSUME NEW segments
  PROVE  Returns(segments).raised = "nothing" /\ Returns(segments).segments = segments
BY DEF Returns

\* A driver that returns without a speaker leaves the diarizer to be asked.
LEMMA OneSegmentFormatted ==
  ASSUME NEW s, NEW raw, raw = Formatted(<<s>>)
  PROVE  raw # <<>> /\ \E i \in DOMAIN raw : "speaker" \notin DOMAIN raw[i]
<1>1. DOMAIN raw = {1} /\ raw[1] = [text |-> Strip(<<s>>[1].text), start |-> <<s>>[1].start, end |-> <<s>>[1].end]
  BY DEF Formatted
<1> QED BY <1>1

LEMMA SegmentsWithSpeakers ==
  ASSUME NEW raw, raw # <<>>, \A i \in DOMAIN raw : "speaker" \in DOMAIN raw[i], NEW diarizer
  PROVE  DiarizeAudio(raw, diarizer).raised = "nothing"
BY DEF DiarizeAudio, Returns

\* Which segments name no speakers: those of the drivers but Deepgram's.
SpeakersUnknown(raw) == raw # <<>> /\ \E i \in DOMAIN raw : "speaker" \notin DOMAIN raw[i]
SpeakersKnown(raw) == raw # <<>> /\ \A i \in DOMAIN raw : "speaker" \in DOMAIN raw[i]

LEMMA DiarizerAsked ==
  ASSUME NEW raw, raw = <<>> \/ SpeakersUnknown(raw), NEW installed \in BOOLEAN, NEW token \in BOOLEAN,
         NEW diarizer, diarizer = Diarizer(installed, token, TRUE, <<>>)
  PROVE  /\ installed /\ token => DiarizeAudio(raw, diarizer).raised = "nothing"
         /\ ~(installed /\ token) => DiarizeAudio(raw, diarizer).raised = "TranscriptionDependencyError"
<1>1. diarizer = IF installed /\ token THEN Returns(<<>>) ELSE Raises("TranscriptionDependencyError")
  BY DEF Diarizer
<1>2. diarizer.raised = IF installed /\ token THEN "nothing" ELSE "TranscriptionDependencyError"
  <2>1. /\ Returns(<<>>).raised = "nothing"
        /\ Raises("TranscriptionDependencyError").raised = "TranscriptionDependencyError"
    BY DEF Returns, Raises
  <2>2. CASE installed /\ token
    BY <1>1, <2>1, <2>2
  <2>3. CASE ~(installed /\ token)
    BY <1>1, <2>1, <2>3
  <2> QED BY <2>2, <2>3
<1>3. CASE raw = <<>>
  BY <1>2, <1>3 DEF DiarizeAudio
<1>4. CASE SpeakersUnknown(raw)
  <2>1. DiarizeAudio(raw, diarizer) = IF diarizer.raised # "nothing" THEN diarizer
                                      ELSE Returns(Merge(raw, diarizer.segments))
    BY <1>4 DEF DiarizeAudio, SpeakersUnknown
  <2>2. CASE diarizer.raised # "nothing"
    BY <1>2, <2>1, <2>2
  <2>3. CASE diarizer.raised = "nothing"
    <3>1. DiarizeAudio(raw, diarizer).raised = "nothing"
      BY <2>1, <2>3, ReturnsWhat
    <3> QED BY <1>2, <2>3, <3>1
  <2> QED BY <2>2, <2>3
<1> QED BY <1>3, <1>4

\* Nothing but the utterances of Deepgram, and what was stored of them, has speakers.
LEMMA StoredSegments ==
  SpeakersUnknown(<<Sentence>>) /\ SpeakersKnown(<<Utterance>>)
<1>1. DOMAIN <<Sentence>> = {1} /\ <<Sentence>>[1] = Sentence /\ <<Sentence>> # <<>>
  OBVIOUS
<1>2. DOMAIN <<Utterance>> = {1} /\ <<Utterance>>[1] = Utterance /\ <<Utterance>> # <<>>
  OBVIOUS
<1>3. "speaker" \notin DOMAIN Sentence /\ "speaker" \in DOMAIN Utterance
  BY DEF Sentence, Utterance
<1> QED BY <1>1, <1>2, <1>3 DEF SpeakersUnknown, SpeakersKnown

LEMMA FormattedSegments ==
  SpeakersUnknown(Formatted(<<Sentence>>)) /\ Formatted(<<>>) = <<>>
<1>1. SpeakersUnknown(Formatted(<<Sentence>>))
  BY OneSegmentFormatted DEF SpeakersUnknown
<1>2. Formatted(<<>>) = <<>>
  BY DEF Formatted
<1> QED BY <1>1, <1>2

\* What Deepgram answers, of speech and of silence.
LEMMA DeepgramSegments ==
  /\ DeepgramTranscribe(TRUE, 200, <<>>, "") = Returns(<<>>)
  /\ \E said : SpeakersKnown(said) /\ DeepgramTranscribe(TRUE, 200, <<Utterance>>, "a") = Returns(said)
<1>1. DeepgramTranscribe(TRUE, 200, <<>>, "") = Returns(<<>>)
  BY DEF DeepgramTranscribe
<1>2. PICK utterance : utterance = Utterance
  OBVIOUS
<1>3. PICK said : said = [i \in {1} |-> [text |-> Strip(utterance.text), start |-> utterance.start,
                                         end |-> utterance.end,
                                         speaker |-> IF utterance.speaker = "" THEN "UNKNOWN"
                                                     ELSE utterance.speaker]]
  OBVIOUS
<1>4. DeepgramTranscribe(TRUE, 200, <<utterance>>, "a") = Returns(said)
  <2>1. DOMAIN <<utterance>> = {1} /\ <<utterance>>[1] = utterance /\ <<utterance>> # <<>>
    OBVIOUS
  <2> QED BY <1>3, <2>1 DEF DeepgramTranscribe
<1>5. SpeakersKnown(said)
  <2>1. DOMAIN said = {1} /\ "speaker" \in DOMAIN said[1]
    BY <1>3
  <2>2. said # <<>>
    <3>1. 1 \in Nat /\ 1 .. 1 = {1}
      OBVIOUS
    <3>2. said = [i \in {1} |-> said[i]]
      BY <1>3
    <3>3. Listed(said, 1)
      BY <3>1, <3>2 DEF Listed
    <3> QED BY <3>1, <3>3, NotEmpty
  <2> QED BY <2>1, <2>2 DEF SpeakersKnown
<1> QED BY <1>1, <1>2, <1>4, <1>5

\* Which transcriptions a started worker passes on: of Deepgram's speech and of a stored
\* transcription with speakers there is nothing left to find out.
LEMMA StartedTranscribes ==
  ASSUME NEW names, NEW c \in NamedSettings(names), NEW job \in Jobs, ValidateRuntimeDependencies(c)
  PROVE  \E raw : /\ JobTranscribes(c, job) = Returns(raw)
                  /\ IF job = "labelled" \/ (job = "speech" /\ GetTranscriber(c) = "deepgram")
                     THEN SpeakersKnown(raw) ELSE raw = <<>> \/ SpeakersUnknown(raw)
<1>1. CASE job = "plain"
  <2>1. JobTranscribes(c, job) = Returns(<<Sentence>>)
    BY <1>1 DEF JobTranscribes
  <2> QED BY <1>1, <2>1, StoredSegments
<1>2. CASE job = "labelled"
  <2>1. JobTranscribes(c, job) = Returns(<<Utterance>>)
    BY <1>2 DEF JobTranscribes
  <2> QED BY <1>2, <2>1, StoredSegments
<1>3. CASE job \in {"speech", "silence"} /\ GetTranscriber(c) = "deepgram"
  <2>1. c.deepgram_api_key = TRUE
    BY <1>3 DEF ValidateRuntimeDependencies, GetTranscriber, NamedSettings
  <2>2. CASE job = "silence"
    <3>1. JobTranscribes(c, job) = DeepgramTranscribe(TRUE, 200, <<>>, "")
      BY <1>3, <2>1, <2>2 DEF JobTranscribes
    <3> QED BY <2>2, <3>1, DeepgramSegments
  <2>3. CASE job = "speech"
    <3>1. JobTranscribes(c, job) = DeepgramTranscribe(TRUE, 200, <<Utterance>>, "a")
      BY <1>3, <2>1, <2>3 DEF JobTranscribes
    <3> QED BY <1>3, <2>3, <3>1, DeepgramSegments
  <2> QED BY <1>3, <2>2, <2>3
<1>4. CASE job \in {"speech", "silence"} /\ GetTranscriber(c) # "deepgram"
  <2>1. PICK segments : segments = IF job = "silence" THEN <<>> ELSE <<Sentence>>
    OBVIOUS
  <2>2. JobTranscribes(c, job) = Returns(Formatted(segments))
    <3>1. CASE GetTranscriber(c) = "openai"
      <4>1. c.openai_api_key
        BY <3>1 DEF ValidateRuntimeDependencies, GetTranscriber
      <4>2. JobTranscribes(c, job) = OpenAITranscribe(c.openai_api_key, segments)
        BY <1>4, <2>1, <3>1 DEF JobTranscribes
      <4> QED BY <4>1, <4>2 DEF OpenAITranscribe
    <3>2. CASE GetTranscriber(c) # "openai"
      <4>1. c.whisperx
        BY <1>4, <3>2 DEF ValidateRuntimeDependencies, GetTranscriber
      <4>2. JobTranscribes(c, job) = LocalTranscribe(c.whisperx, segments, Raises("RuntimeError"))
        BY <1>4, <2>1, <3>2 DEF JobTranscribes
      <4>3. Raises("RuntimeError").raised # "nothing"
        BY DEF Raises
      <4> QED BY <4>1, <4>2, <4>3 DEF LocalTranscribe
    <3> QED BY <3>1, <3>2
  <2>3. Formatted(segments) = <<>> \/ SpeakersUnknown(Formatted(segments))
    BY <2>1, FormattedSegments
  <2> QED BY <1>4, <2>2, <2>3
<1> QED BY <1>1, <1>2, <1>3, <1>4 DEF Jobs

LEMMA StartedRuns ==
  ASSUME NEW names, NEW c \in NamedSettings(names), NEW job \in Jobs, ValidateRuntimeDependencies(c)
  PROVE  /\ JobTranscribes(c, job).raised = "nothing" /\ c.openrouter_api_key
         /\ JobDiarizes(c, job).raised =
                IF StartedWithoutDiarizer(c, job) THEN "TranscriptionDependencyError" ELSE "nothing"
<1>1. c.openrouter_api_key
  BY DEF ValidateRuntimeDependencies
<1>2. PICK raw : /\ JobTranscribes(c, job) = Returns(raw)
                 /\ IF job = "labelled" \/ (job = "speech" /\ GetTranscriber(c) = "deepgram")
                    THEN SpeakersKnown(raw) ELSE raw = <<>> \/ SpeakersUnknown(raw)
  BY StartedTranscribes
<1>3. JobTranscribes(c, job).raised = "nothing" /\ JobTranscribes(c, job).segments = raw
  BY <1>2, ReturnsWhat
<1>4. PICK diarizer : diarizer = Diarizer(c.pyannote, c.hf_token, TRUE, <<>>)
  OBVIOUS
<1>5. JobDiarizes(c, job) = DiarizeAudio(raw, diarizer)
  BY <1>3, <1>4 DEF JobDiarizes
<1>6. CASE job = "labelled" \/ (job = "speech" /\ GetTranscriber(c) = "deepgram")
  <2>1. DiarizeAudio(raw, diarizer).raised = "nothing"
    BY <1>2, <1>6, SegmentsWithSpeakers DEF SpeakersKnown
  <2>2. ~StartedWithoutDiarizer(c, job)
    BY <1>6 DEF StartedWithoutDiarizer
  <2> QED BY <1>1, <1>3, <1>5, <2>1, <2>2
<1>7. CASE ~(job = "labelled" \/ (job = "speech" /\ GetTranscriber(c) = "deepgram"))
  <2>1. c.pyannote \in BOOLEAN /\ c.hf_token \in BOOLEAN
    BY DEF NamedSettings
  <2>2. /\ c.pyannote /\ c.hf_token => DiarizeAudio(raw, diarizer).raised = "nothing"
        /\ ~(c.pyannote /\ c.hf_token) => DiarizeAudio(raw, diarizer).raised = "TranscriptionDependencyError"
    <3>1. raw = <<>> \/ SpeakersUnknown(raw)
      BY <1>2, <1>7
    <3> QED BY <1>4, <2>1, <3>1, DiarizerAsked
  <2>3. CASE GetTranscriber(c) = "deepgram"
    <3>1. StartedWithoutDiarizer(c, job) <=> ~(c.pyannote /\ c.hf_token)
      BY <1>7, <2>3 DEF StartedWithoutDiarizer, Jobs
    <3> QED BY <1>1, <1>3, <1>5, <2>2, <3>1
  <2>4. CASE GetTranscriber(c) # "deepgram"
    <3>1. ~StartedWithoutDiarizer(c, job) /\ c.pyannote /\ c.hf_token
      BY <2>4 DEF StartedWithoutDiarizer, ValidateRuntimeDependencies, GetTranscriber
    <3> QED BY <1>1, <1>3, <1>5, <2>2, <3>1
  <2> QED BY <2>3, <2>4
<1> QED BY <1>6, <1>7

LEMMA ShownRuns ==
  ASSUME NEW names, NEW c \in NamedSettings(names)
  PROVE  /\ ValidateRuntimeDependencies(c) /\ c.transcription_provider \in {"deepgram", "openai", "local"} =>
                LET shown == ListIntegrations(c)
                IN  /\ shown.transcription.configured /\ shown.scoring
                    /\ shown.transcription.provider = GetTranscriber(c)
         /\ LET shown == ListIntegrations(c)
            IN  Channels(c) = {ch \in {"slack", "webhook"} : shown[ch]}
<1>1. ValidateRuntimeDependencies(c) /\ c.transcription_provider \in {"deepgram", "openai", "local"} =>
                LET shown == ListIntegrations(c)
                IN  /\ shown.transcription.configured /\ shown.scoring
                    /\ shown.transcription.provider = GetTranscriber(c)
  BY DEF ListIntegrations, TranscriptionIntegration, ValidateRuntimeDependencies, GetTranscriber, Lower
<1>2. ListIntegrations(c)["slack"] = c.slack_webhook_url /\ ListIntegrations(c)["webhook"] = c.notification_webhook_url
  BY DEF ListIntegrations
<1>3. Channels(c) = {ch \in {"slack", "webhook"} : ListIntegrations(c)[ch]}
  BY <1>2 DEF Channels
<1> QED BY <1>1, <1>3

\* Whatever the settings and whatever a job hears or finds stored, a worker that starts
\* finds no package and no key missing but the diarizer's that Deepgram is started
\* without, and the integrations screen shows as configured what it uses
\* (SettingsReadAlike): src/run_worker.py, app/services.py and app/main.py read the
\* settings separately.
THEOREM SettingsAlwaysReadAlike ==
  ASSUME NEW names, input \in [kind : {"settings"}, c : NamedSettings(names), job : Jobs]
  PROVE  SettingsReadAlike
<1>1. PICK c \in NamedSettings(names) : c = input.c /\ input.job \in Jobs
  OBVIOUS
<1>2. StartedWorkerCanRun
  BY <1>1, StartedRuns DEF StartedWorkerCanRun
<1>3. ShownAsItRuns
  BY <1>1, ShownRuns DEF ShownAsItRuns
<1> QED BY <1>2, <1>3 DEF SettingsReadAlike

-------------------------------------------------------------------------------
(* The answers of the API, of these endpoints and of any other.            *)

RequestsTo(endpoints) ==
    [kind : {"request"}, endpoint : endpoints, up : BOOLEAN, allowed : BOOLEAN,
     crashes : BOOLEAN, authorized : BOOLEAN, wellFormed : BOOLEAN, exists : BOOLEAN, legal : BOOLEAN,
     healthy : BOOLEAN]

LEMMA RespondsWith ==
  ASSUME NEW endpoints, NEW c \in RequestsTo(endpoints)
  PROVE  /\ Responds(c) \in {200, 202, 400, 401, 404, 422, 500, 503}
         /\ Responds(c) = 503 => c.endpoint = "health"
         /\ c.endpoint = "health" => Responds(c) \in {200, 503}
         /\ Responds(c) = 404 => c.endpoint = "integrations" \/ c.endpoint \in Addressed
         /\ Responds(c) \in {202, 400, 500} => c.endpoint \notin Fetches
         /\ c.endpoint = "integrations" => c.endpoint \notin Addressed /\ c.endpoint \in Fetches
         /\ c.endpoint = "health" => c.endpoint \in Fetches
         /\ c.endpoint = "webhook" => c.endpoint \notin Addressed
<1>1. OfInterview(c) \in {200, 400, 404, 422} /\ (c.endpoint = "interview" => OfInterview(c) # 400)
  BY DEF OfInterview
<1>2. OfRecording(c) \in {202, 400, 500}
  BY DEF OfRecording
<1>3. "interview" \in Fetches /\ Addressed \ {"interview"} = {"action", "reprocess"} /\ {"integrations", "health"} \subseteq Fetches
  BY DEF Addressed, Fetches
<1>4. {"action", "reprocess", "webhook"} \cap Fetches = {} /\ {"integrations", "health", "webhook"} \cap Addressed = {}
      /\ "health" \notin Guarded
  BY DEF Addressed, Fetches, Guarded
<1>5. CASE c.endpoint \in Addressed
  BY <1>1, <1>3, <1>4, <1>5 DEF Responds
<1>6. CASE c.endpoint = "webhook"
  BY <1>2, <1>4, <1>6 DEF Responds
<1>7. CASE c.endpoint \notin Addressed \cup {"webhook"}
  BY <1>3, <1>4, <1>7 DEF Responds
<1> QED BY <1>5, <1>6, <1>7

\* What is thrown at an answer that is not one.
LEMMA RefusalIs ==
  ASSUME NEW status \in {400, 401, 404, 422, 500}
  PROVE  /\ ThrowForStatus(status).status = status
         /\ status = 401 => ThrowForStatus(status).name = "AuthError"
         /\ status = 404 => ThrowForStatus(status).name = "NotFoundError"
         /\ status \in {400, 422, 500} => ThrowForStatus(status).name = "BadRequestError"
         /\ status = 422 => ThrowForStatus(status).message = "status"
         /\ status # 422 => ThrowForStatus(status).message = "detail"
BY DEF ThrowForStatus, Detail

LEMMA AnswerIsThrown ==
  ASSUME NEW endpoints, NEW c \in RequestsTo(endpoints), Received(c) = Responds(c)
  PROVE  /\ Responds(c) \in {200, 202, 503} => Thrown(c) = Nothing
         /\ Responds(c) = 404 /\ c.endpoint \notin Addressed => Thrown(c) = Nothing
         /\ Responds(c) \in {400, 401, 422, 500} => Thrown(c) = ThrowForStatus(Responds(c))
         /\ Responds(c) = 404 /\ c.endpoint \in Addressed => Thrown(c) = ThrowForStatus(404)
<1> USE RespondsWith
<1>1. Nothing.name = "none" /\ 200 .. 299 = {n \in Nat : 200 <= n /\ n <= 299}
  BY DEF Nothing
<1>2. CASE Responds(c) \in {200, 202, 503}
  <2>1. Request(c).thrown = Nothing
    BY <1>2 DEF Request
  <2> QED BY <1>1, <1>2, <2>1 DEF Thrown
<1>3. CASE Responds(c) \in {400, 401, 404, 422, 500}
  <2>1. c.endpoint # "health" /\ Request(c).thrown = ThrowForStatus(Responds(c))
    BY <1>3 DEF Request
  <2>2. PICK error : error = ThrowForStatus(Responds(c))
    OBVIOUS
  <2>3. error.name = "NotFoundError" <=> Responds(c) = 404
    BY <1>3, <2>2, RefusalIs
  <2>4. CASE Responds(c) = 404 /\ c.endpoint = "integrations"
    BY <2>1, <2>2, <2>3, <2>4 DEF Thrown
  <2>5. CASE ~(Responds(c) = 404 /\ c.endpoint = "integrations")
    <3>1. Thrown(c) = error
      BY <2>1, <2>2, <2>3, <2>5 DEF Thrown
    <3>2. Responds(c) = 404 => c.endpoint \in Addressed
      BY <2>5
    <3> QED BY <1>3, <2>2, <3>1, <3>2
  <2> QED BY <2>4, <2>5
<1> QED BY <1>2, <1>3

\* What a screen says of a status, whoever asked and from wherever.
LEMMA StatusIsShown ==
  ASSUME NEW endpoints, NEW c \in RequestsTo(endpoints), Received(c) = Responds(c)
  PROVE  ErrorState(c).kind =
            CASE Responds(c) = 401 -> "auth"
              [] Responds(c) = 404 -> IF c.endpoint \in Addressed THEN "not_found" ELSE "none"
              [] Responds(c) = 400 -> "invalid_state"
              [] Responds(c) \in {422, 500} -> "unknown"
              [] Responds(c) = 503 -> "unhealthy"
              [] OTHER -> "none"
<1> USE RespondsWith, AnswerIsThrown
<1>1. PICK status : status = Responds(c)
  OBVIOUS
<1>2. CASE status \in {200, 202, 503} \/ (status = 404 /\ c.endpoint \notin Addressed)
  BY <1>1, <1>2 DEF ErrorState
<1>3. CASE status \in {400, 401, 422, 500} \/ (status = 404 /\ c.endpoint \in Addressed)
  <2>1. PICK error : error = ThrowForStatus(status)
    OBVIOUS
  <2>2. /\ error.status = status
        /\ status = 401 => error.name = "AuthError"
        /\ status = 404 => error.name = "NotFoundError"
        /\ status \in {400, 422, 500} => error.name = "BadRequestError"
    BY <1>3, <2>1, RefusalIs
  <2>3. error # Nothing
    BY <1>3, <2>2 DEF Nothing
  <2>4. Thrown(c) = error
    BY <1>1, <1>3, <2>1
  <2>5. ErrorState(c).kind = Diagnose(error, c.allowed)
    BY <2>3, <2>4 DEF ErrorState
  <2> QED BY <1>1, <1>3, <2>2, <2>5 DEF Diagnose
<1> QED BY <1>1, <1>2, <1>3

\* What a person is told who asked the server to do something.
LEMMA StatusIsTold ==
  ASSUME NEW endpoints, NEW c \in RequestsTo(endpoints), Received(c) = Responds(c), c.endpoint \notin Fetches
  PROVE  Told(c) =
            CASE Responds(c) = 422 -> "status"
              [] Responds(c) = 401 -> IF c.endpoint = "webhook" THEN "hmac" ELSE "detail"
              [] Responds(c) \in {400, 404, 500} -> "detail"
              [] OTHER -> "none"
<1> USE RespondsWith, AnswerIsThrown
<1>1. PICK status : status = Responds(c)
  OBVIOUS
<1>2. CASE status \in {200, 202}
  BY <1>1, <1>2 DEF Told, Nothing
<1>3. CASE status \in {400, 401, 404, 422, 500}
  <2>1. Thrown(c) = ThrowForStatus(status)
    BY <1>1, <1>3
  <2> QED BY <1>1, <1>3, <2>1, RefusalIs DEF Told
<1> QED BY <1>1, <1>2, <1>3

\* No answer is a server that does not run or an origin that may not read it.
LEMMA SilenceIsShown ==
  ASSUME NEW endpoints, NEW c \in RequestsTo(endpoints), Received(c) = 0
  PROVE  ErrorState(c).kind = (IF c.allowed THEN "offline" ELSE "cors") /\ Told(c) = "unreachable"
<1>1. PICK error : error = [name |-> "ApiUnavailableError", status |-> 0, message |-> "unreachable"]
  OBVIOUS
<1>2. Request(c).thrown = error /\ error.name = "ApiUnavailableError" /\ error # Nothing
  BY <1>1 DEF Request, Nothing
<1>3. Thrown(c) = error
  BY <1>2 DEF Thrown
<1> QED BY <1>1, <1>2, <1>3 DEF ErrorState, Diagnose, Told

LEMMA DiagnosesTheCause ==
  ASSUME NEW endpoints, input \in RequestsTo(endpoints)
  PROVE  DiagnosisMatchesTheCause
<1>1. PICK c \in RequestsTo(endpoints) : c = input
  OBVIOUS
<1>2. Request(c).sample = Received(c)
  BY DEF Request
<1>3. CASE c.up /\ c.allowed /\ ~c.crashes
  <2>1. Received(c) = Responds(c)
    BY <1>3 DEF Received
  <2>2. CASE c.endpoint \in Fetches
    BY <1>1, <1>2, <1>3, <2>1, <2>2, StatusIsShown, RespondsWith DEF DiagnosisMatchesTheCause, ErrorKindReference
  <2>3. CASE c.endpoint \notin Fetches
    BY <1>1, <1>2, <1>3, <2>1, <2>3, StatusIsTold, RespondsWith DEF DiagnosisMatchesTheCause
  <2> QED BY <2>2, <2>3
<1>4. CASE ~(c.up /\ c.allowed /\ ~c.crashes)
  <2>1. Received(c) = 0
    BY <1>4 DEF Received
  <2>2. c.allowed \in BOOLEAN /\ c.up \in BOOLEAN /\ c.crashes \in BOOLEAN
    BY DEF RequestsTo
  <2> QED BY <1>1, <1>2, <1>4, <2>1, <2>2, SilenceIsShown DEF DiagnosisMatchesTheCause, ErrorKindReference
<1> QED BY <1>3, <1>4
-------------------------------------------------------------------------------
(* The rows of the API.                                                    *)

Unencoded(v) == IF v.is = "json" THEN v.of ELSE v

LEMMA Kinds ==
  /\ Null.is = "null" /\ SpokenSegments.is = "list" /\ PlainText.is = "text"
  /\ \A named : Card(named).is = "object" /\ Card(named).named = named
  /\ \A v : Encoded(v).is = "json" /\ Encoded(v).of = v
BY DEF Null, SpokenSegments, PlainText, Card, Encoded

LEMMA ScorecardRead ==
  ASSUME NEW plain \in {Null, Card(TRUE), Card(FALSE)},
         NEW v, v = plain \/ (plain # Null /\ v = Encoded(plain))
  PROVE  /\ Unencoded(v) = plain
         /\ NormalizeScorecard(v) = NormalizeScorecard(plain)
         /\ NormalizeScorecard(v) \in {Null, Card(TRUE)}
<1>1. plain.is \in {"null", "object"} /\ (plain.is = "object" <=> plain # Null)
  BY Kinds
<1>2. NormalizeScorecard(plain) = IF plain.is = "object" /\ plain = Card(TRUE) THEN plain ELSE Null
  BY <1>1 DEF NormalizeScorecard, IsText
<1>3. CASE v = plain
  BY <1>1, <1>2, <1>3 DEF Unencoded
<1>4. CASE plain # Null /\ v = Encoded(plain)
  <2>1. v.is = "json" /\ v.of = plain
    BY <1>4, Kinds
  <2>2. NormalizeScorecard(v) = IF plain.is = "object" /\ plain = Card(TRUE) THEN plain ELSE Null
    BY <2>1 DEF NormalizeScorecard, IsText, TryParseJson
  <2> QED BY <1>2, <2>1, <2>2 DEF Unencoded
<1> QED BY <1>3, <1>4

LEMMA TranscriptionRead ==
  ASSUME NEW plain \in {Null, SpokenSegments, PlainText},
         NEW v, v = plain \/ (plain = SpokenSegments /\ v = Encoded(plain))
  PROVE  Unencoded(v) = plain /\ NormalizeTranscription(v) = plain /\ NormalizeTranscription(plain) = plain
<1>1. /\ plain.is \in {"null", "list", "text"} /\ (plain.is = "list" <=> plain = SpokenSegments)
      /\ (plain.is = "null" <=> plain = Null)
  BY Kinds
<1>2. TryParseJson(plain).is = "undefined"
  BY <1>1 DEF TryParseJson
<1>3. NormalizeTranscription(plain) = plain
  BY <1>1, <1>2 DEF NormalizeTranscription, IsText
<1>4. CASE v = plain
  BY <1>1, <1>3, <1>4 DEF Unencoded
<1>5. CASE plain = SpokenSegments /\ v = Encoded(plain)
  <2>1. v.is = "json" /\ v.of = plain /\ plain.is = "list"
    BY <1>5, Kinds
  <2> QED BY <1>3, <2>1 DEF NormalizeTranscription, IsText, TryParseJson, Unencoded
<1> QED BY <1>4, <1>5

LEMMA SegmentsRead ==
  ASSUME NEW plain \in {Null, SpokenSegments},
         NEW v, v = plain \/ (plain = SpokenSegments /\ v = Encoded(plain))
  PROVE  Unencoded(v) = plain /\ NormalizeSegments(v) = plain /\ NormalizeSegments(plain) = plain
<1>1. plain.is \in {"null", "list"} /\ (plain.is = "list" <=> plain = SpokenSegments)
  BY Kinds
<1>2. NormalizeSegments(plain) = plain
  BY <1>1 DEF NormalizeSegments, IsText
<1>3. CASE v = plain
  BY <1>1, <1>2, <1>3 DEF Unencoded
<1>4. CASE plain = SpokenSegments /\ v = Encoded(plain)
  <2>1. v.is = "json" /\ v.of = plain /\ plain.is = "list"
    BY <1>4, Kinds
  <2> QED BY <1>2, <2>1 DEF NormalizeSegments, IsText, TryParseJson, Unencoded
<1> QED BY <1>3, <1>4

LEMMA RowsRead ==
  ASSUME input \in Rows
  PROVE  EncodingDoesNotMatter
<1>1. PICK row : row = input
  OBVIOUS
<1>2. PICK scorecard \in {Null, Card(TRUE), Card(FALSE)} :
        row.scorecard = scorecard \/ (scorecard # Null /\ row.scorecard = Encoded(scorecard))
  BY <1>1 DEF Rows
<1>3. PICK transcription \in {Null, SpokenSegments, PlainText} :
        row.transcription = transcription
          \/ (transcription = SpokenSegments /\ row.transcription = Encoded(transcription))
  BY <1>1 DEF Rows
<1>4. PICK diarization \in {Null, SpokenSegments} :
        row.diarization = diarization \/ (diarization = SpokenSegments /\ row.diarization = Encoded(diarization))
  BY <1>1 DEF Rows
<1>5. PICK bare : bare = [row EXCEPT !.scorecard = Unencoded(@), !.transcription = Unencoded(@),
                                     !.diarization = Unencoded(@)]
  OBVIOUS
<1>6. Unencoded(row.scorecard) = scorecard /\ Unencoded(row.transcription) = transcription
      /\ Unencoded(row.diarization) = diarization
  BY <1>2, <1>3, <1>4, ScorecardRead, TranscriptionRead, SegmentsRead
<1>7. bare.scorecard = scorecard /\ bare.transcription = transcription /\ bare.diarization = diarization
  <2>1. DOMAIN row = {"kind", "scorecard", "transcription", "diarization"}
    BY <1>1 DEF Rows
  <2> QED BY <1>5, <1>6, <2>1
<1>8. /\ NormalizeScorecard(row.scorecard) = NormalizeScorecard(scorecard)
      /\ NormalizeScorecard(row.scorecard) \in {Null, Card(TRUE)}
  BY <1>2, ScorecardRead
<1>9. /\ NormalizeTranscription(row.transcription) = transcription
      /\ NormalizeTranscription(transcription) = transcription
  BY <1>3, TranscriptionRead
<1>10. NormalizeSegments(row.diarization) = diarization /\ NormalizeSegments(diarization) = diarization
  BY <1>4, SegmentsRead
<1>11. NormalizeInterview(row) = NormalizeInterview(bare)
  BY <1>7, <1>8, <1>9, <1>10 DEF NormalizeInterview
<1>12. /\ NormalizeInterview(row).scorecard \in {Null, Card(TRUE)}
       /\ NormalizeInterview(row).diarization \in {Null, SpokenSegments}
       /\ NormalizeInterview(row).transcription = Unencoded(row.transcription)
  BY <1>6, <1>8, <1>9, <1>10 DEF NormalizeInterview
<1> QED BY <1>1, <1>5, <1>11, <1>12 DEF EncodingDoesNotMatter, Unencoded

\* Every failure of a call, of any endpoint, is explained by what caused it, and a
\* row is the same row however often its columns were encoded
\* (AnswersAreUnderstood): the diagnosis of errorTaxonomy.ts is put together from
\* the status client.ts kept and the page's own origin.
THEOREM AnswersAreAlwaysUnderstood ==
  ASSUME NEW endpoints, input \in RequestsTo(endpoints) \cup Rows
  PROVE  AnswersAreUnderstood
<1>1. CASE input \in RequestsTo(endpoints)
  <2>1. input.kind = "request"
    BY <1>1 DEF RequestsTo
  <2> QED BY <1>1, <2>1, DiagnosesTheCause DEF AnswersAreUnderstood, EncodingDoesNotMatter
<1>2. CASE input \in Rows
  <2>1. input.kind = "row"
    BY <1>2 DEF Rows
  <2> QED BY <1>2, <2>1, RowsRead DEF AnswersAreUnderstood, DiagnosisMatchesTheCause
<1> QED BY <1>1, <1>2

-------------------------------------------------------------------------------
(* The message that announces a scorecard, of any length, and its preview. *)


LEMMA HeaderIs ==
  ASSUME NEW id
  PROVE  /\ Listed(Header(id), 3)
         /\ \A i \in 1 .. 3 : Header(id)[i].type # "actions"
         /\ Header(id)[2].id = id
<1>1. PICK a, b, c : a = [type |-> "header"] /\ b = [type |-> "section", id |-> id] /\ c = [type |-> "divider"]
  OBVIOUS
<1>2. Header(id) = <<a, b, c>>
  BY <1>1 DEF Header
<1>3. <<a, b, c>> \in Seq({a, b, c}) /\ Len(<<a, b, c>>) = 3
  OBVIOUS
<1>4. <<a, b, c>>[1] = a /\ <<a, b, c>>[2] = b /\ <<a, b, c>>[3] = c
  OBVIOUS
<1>5. a.type # "actions" /\ b.type # "actions" /\ c.type # "actions" /\ b.id = id
  BY <1>1
<1>6. PICK h : h = Header(id)
  OBVIOUS
<1>7. h \in Seq({a, b, c}) /\ Len(h) = 3
  BY <1>2, <1>3, <1>6
<1>8. h \in [1 .. 3 -> {a, b, c}]
  BY <1>7, LenProperties
<1>9. \A i \in 1 .. 3 : h[i].type # "actions"
  BY <1>2, <1>4, <1>5, <1>6
<1> QED BY <1>2, <1>4, <1>5, <1>6, <1>8, <1>9 DEF Listed

LEMMA EvaluationBlocksAre ==
  ASSUME NEW scorecard, NEW n \in Nat, Len(scorecard) = n
  PROVE  /\ 2 * n \in Nat
         /\ Listed(EvaluationBlocks(scorecard), 2 * n)
         /\ \A i \in 1 .. 2 * n : EvaluationBlocks(scorecard)[i].type # "actions"
<1>1. PICK blocks : blocks = EvaluationBlocks(scorecard)
  OBVIOUS
<1>2. Listed(blocks, 2 * n)
  BY <1>1 DEF EvaluationBlocks, Listed
<1>3. ASSUME NEW i \in 1 .. 2 * n PROVE blocks[i].type # "actions"
  BY <1>1, <1>3 DEF EvaluationBlocks, EvaluationSection
<1>4. 2 * n \in Nat
  OBVIOUS
<1> QED BY <1>1, <1>2, <1>3, <1>4

\* The message: the header, the competencies and what comes last.
Message(id, scorecard, last) == Header(id) \o EvaluationBlocks(scorecard) \o last

\* What is at each place of a message, whose header and competencies end at m.
MessageWith(all, id, scorecard, last, m, e) ==
    /\ Listed(all, e)
    /\ \A i \in 1 .. e : i <= m => all[i].type # "actions"
    /\ \A i \in 1 .. e : all[i] =
            IF i <= 3 THEN Header(id)[i] ELSE IF i <= m THEN EvaluationBlocks(scorecard)[i - 3] ELSE last[i - m]

LEMMA MessageIs ==
  ASSUME NEW id, NEW scorecard, NEW n \in Nat, Len(scorecard) = n,
         NEW p \in Nat, NEW last, Listed(last, p),
         NEW m \in Nat, m = 3 + 2 * n, NEW e \in Nat, e = m + p,
         NEW all, all = Message(id, scorecard, last)
  PROVE  MessageWith(all, id, scorecard, last, m, e)
<1>1. PICK h : h = Header(id)
  OBVIOUS
<1>2. PICK blocks : blocks = EvaluationBlocks(scorecard)
  OBVIOUS
<1>3. PICK w \in Nat : w = 2 * n /\ m = 3 + w /\ 3 + w + p = e /\ 3 \in Nat
  OBVIOUS
<1>4. Listed(h, 3) /\ \A i \in 1 .. 3 : h[i].type # "actions"
  BY <1>1, HeaderIs
<1>5. Listed(blocks, w) /\ \A i \in 1 .. w : blocks[i].type # "actions"
  BY <1>2, <1>3, EvaluationBlocksAre
<1>6. all = h \o blocks \o last
  BY <1>1, <1>2 DEF Message
<1>7. /\ Listed(all, e)
      /\ \A i \in 1 .. e : all[i] = IF i <= 3 THEN h[i] ELSE IF i <= m THEN blocks[i - 3] ELSE last[i - m]
  <2>1. PICK t \in Nat : t = 3 /\ m = t + w /\ e = t + w + p
    BY <1>3
  <2>2. Listed(h, t) /\ Listed(blocks, w)
    BY <1>4, <1>5, <2>1
  <2>3. InThree(all, h, t, blocks, m, last, e)
    BY <1>6, <2>1, <2>2, ThreeTogether
  <2> QED BY <2>1, <2>3 DEF InThree
<1>10. ASSUME NEW i \in 1 .. e, i <= m PROVE all[i].type # "actions"
  <2>1. CASE i <= 3
    <3>1. i \in 1 .. 3
      BY <2>1
    <3>2. all[i] = h[i]
      BY <1>7, <2>1
    <3> QED BY <1>4, <3>1, <3>2
  <2>2. CASE ~(i <= 3)
    <3>1. i - 3 \in 1 .. w
      BY <1>3, <1>10, <2>2
    <3> QED BY <1>5, <1>7, <1>10, <2>2, <3>1
  <2> QED BY <2>1, <2>2
<1> QED BY <1>1, <1>2, <1>7, <1>10 DEF MessageWith

LEMMA OneBlock ==
  ASSUME NEW block
  PROVE  1 \in Nat /\ Listed(<<block>>, 1) /\ <<block>>[1] = block
<1>1. PICK one : one = <<block>>
  OBVIOUS
<1>2. one \in Seq({block}) /\ Len(one) = 1 /\ one[1] = block
  BY <1>1
<1>3. one \in [1 .. 1 -> {block}]
  BY <1>2, LenProperties
<1> QED BY <1>1, <1>2, <1>3 DEF Listed

LEMMA NoBlock == 0 \in Nat /\ Listed(<<>>, 0)
<1>1. <<>> \in Seq({}) /\ Len(<<>>) = 0
  BY EmptySeq
<1>2. <<>> \in [1 .. 0 -> {}]
  BY <1>1, LenProperties
<1> QED BY <1>2 DEF Listed

\* Without buttons a message has nothing to hide.
LEMMA NothingToRedact ==
  ASSUME NEW e \in Nat, NEW blocks, Listed(blocks, e), \A i \in 1 .. e : blocks[i].type # "actions"
  PROVE  Redacted(blocks) = blocks
<1>1. DOMAIN blocks = 1 .. e
  BY DEF Listed
<1> QED BY <1>1 DEF Redacted, Listed

ButtonsBlock(urls) ==
    [type |-> "actions", elements |-> [k \in DOMAIN Verdicts |-> [value |-> Verdicts[k], url |-> urls[k]]]]

LEMMA VerdictsAre == DOMAIN Verdicts = {1, 2} /\ Verdicts[1] = "approve" /\ Verdicts[2] = "reject"
<1>1. PICK v : v = Verdicts
  OBVIOUS
<1>2. v \in Seq({"approve", "reject"}) /\ Len(v) = 2 /\ v[1] = "approve" /\ v[2] = "reject"
  BY <1>1 DEF Verdicts
<1>3. DOMAIN v = 1 .. 2
  BY <1>2, LenProperties
<1> QED BY <1>1, <1>2, <1>3

\* The links of the message as it is sent, where the base needs no cleaning, are
\* those of the screen, the token apart.
LEMMA LinksRedacted ==
  ASSUME NEW host, NEW base, base = [host |-> host, slashes |-> 0], NEW id, NEW token, NEW k \in {1, 2}
  PROVE  WithoutToken(BuildDecisionUrl(base, id, Verdicts[k], token)) = DecisionUrl(base, id, Verdicts[k])
<1>1. PICK url : url = BuildDecisionUrl(base, id, Verdicts[k], token)
  OBVIOUS
<1>2. url = [host |-> base.host, slashes |-> 1, id |-> id, action |-> Verdicts[k], token |-> token]
  BY <1>1 DEF BuildDecisionUrl
<1>3. [url EXCEPT !.token = TOKEN_PLACEHOLDER]
        = [host |-> base.host, slashes |-> 1, id |-> id, action |-> Verdicts[k], token |-> TOKEN_PLACEHOLDER]
  BY <1>2
<1> QED BY <1>1, <1>3 DEF WithoutToken, DecisionUrl

LEMMA ButtonsRedacted ==
  ASSUME NEW sent, NEW shown, \A k \in {1, 2} : WithoutToken(sent[k]) = shown[k]
  PROVE  [type |-> "actions", elements |-> WithoutTokens(ButtonsBlock(sent).elements)] = ButtonsBlock(shown)
<1>1. PICK elements : elements = [k \in {1, 2} |-> [value |-> Verdicts[k], url |-> sent[k]]]
  OBVIOUS
<1>2. ButtonsBlock(sent).elements = elements
  BY <1>1, VerdictsAre DEF ButtonsBlock
<1>3. \A b \in {1, 2} : elements[b].value = Verdicts[b] /\ elements[b].url = sent[b]
  BY <1>1
<1>4. WithoutTokens(elements) = [b \in {1, 2} |-> [value |-> Verdicts[b], url |-> shown[b]]]
  BY <1>1, <1>3 DEF WithoutTokens
<1> QED BY <1>2, <1>4, VerdictsAre DEF ButtonsBlock

LEMMA WithButtons ==
  ASSUME NEW id, NEW scorecard, NEW n \in Nat, Len(scorecard) = n, NEW urls,
         NEW m \in Nat, m = 3 + 2 * n, NEW all, all = Message(id, scorecard, Buttons(urls))
  PROVE  /\ MessageWith(all, id, scorecard, Buttons(urls), m, m + 1)
         /\ all[m + 1] = ButtonsBlock(urls) /\ all[2].id = id /\ all # <<>>
<1>1. PICK last : last = Buttons(urls)
  OBVIOUS
<1>2. last = <<ButtonsBlock(urls)>>
  BY <1>1 DEF Buttons, ButtonsBlock
<1>3. Listed(last, 1) /\ last[1] = ButtonsBlock(urls) /\ 1 \in Nat
  BY <1>2, OneBlock
<1>4. PICK e \in Nat : e = m + 1
  OBVIOUS
<1>5. MessageWith(all, id, scorecard, last, m, e)
  BY <1>1, <1>3, <1>4, MessageIs
<1>6. e \in 1 .. e /\ ~(e <= 3) /\ ~(e <= m) /\ e - m = 1 /\ 2 \in 1 .. e
  BY <1>4
<1>7. all[e] = last[e - m] /\ all[2] = Header(id)[2]
  BY <1>5, <1>6 DEF MessageWith
<1>8. all # <<>>
  BY <1>4, <1>5, NotEmpty DEF MessageWith
<1> QED BY <1>1, <1>3, <1>4, <1>5, <1>6, <1>7, <1>8, HeaderIs

LEMMA WithoutButtons ==
  ASSUME NEW id, NEW scorecard, NEW n \in Nat, Len(scorecard) = n,
         NEW m \in Nat, m = 3 + 2 * n, NEW all, all = Message(id, scorecard, <<>>)
  PROVE  /\ Listed(all, m) /\ (\A i \in 1 .. m : all[i].type # "actions") /\ all[2].id = id /\ all # <<>>
<1>1. Listed(<<>>, 0) /\ 0 \in Nat /\ m = m + 0
  BY NoBlock
<1>2. PICK last : last = <<>> /\ Listed(last, 0)
  BY <1>1
<1>3. MessageWith(all, id, scorecard, last, m, m)
  BY <1>1, <1>2, MessageIs
<1>4. 2 \in 1 .. m
  OBVIOUS
<1>5. all[2] = Header(id)[2] /\ Listed(all, m) /\ \A i \in 1 .. m : all[i].type # "actions"
  BY <1>3, <1>4 DEF MessageWith
<1>6. all # <<>>
  <2>1. m # 0
    OBVIOUS
  <2> QED BY <1>5, <2>1, NotEmpty
<1> QED BY <1>5, <1>6, HeaderIs

LEMMA SentIsAMessage ==
  ASSUME NEW base, NEW id, NEW scorecard, NEW token
  PROVE  SlackBlocks(base, id, scorecard, token)
            = Message(id, scorecard, IF token = NoToken THEN <<>>
                                     ELSE Buttons([k \in DOMAIN Verdicts |-> BuildDecisionUrl(base, id, Verdicts[k], token)]))
BY DEF SlackBlocks, Message

LEMMA ShownIsAMessage ==
  ASSUME NEW base, NEW id, NEW scorecard, NEW has \in BOOLEAN
  PROVE  BuildSlackPayload(base, id, scorecard, has)
            = Message(id, scorecard, IF has THEN Buttons([k \in DOMAIN Verdicts |-> DecisionUrl(base, id, Verdicts[k])])
                                     ELSE <<>>)
<1>1. \A verified : Marker(verified) = StatusMarker(verified)
  BY DEF Marker, StatusMarker
<1> QED BY <1>1 DEF BuildSlackPayload, Message, EvaluationBlocks

\* The rows of a list of n, and which of them have a scorecard.
RowsApart(rows, n) == DOMAIN rows = 1 .. n /\ \A i, j \in 1 .. n : rows[i].id = rows[j].id => i = j
Offered(rows, n) == {k \in 1 .. n : rows[k].scorecard # NoScorecardYet}

\* The interview a preview is of, when ids differ.
LEMMA PreviewIs ==
  ASSUME NEW n \in Nat, NEW rows, RowsApart(rows, n),
         NEW base, NEW selected, NEW i \in 1 .. n, rows[i].id = PreviewId(rows, selected)
  PROVE  Preview(base, rows, selected)
            = IF rows[i].scorecard = NoScorecardYet THEN <<>>
              ELSE BuildSlackPayload(base, rows[i].id, rows[i].scorecard, rows[i].status = AGUARDANDO)
<1>1. {k \in DOMAIN rows : rows[k].id = PreviewId(rows, selected)} = {i}
  BY DEF RowsApart
<1>2. Min({i}) = i
  BY DEF Min
<1> QED BY <1>1, <1>2 DEF Preview

LEMMA PreviewOfNobody ==
  ASSUME NEW n \in Nat, NEW rows, RowsApart(rows, n), NEW base, NEW selected,
         \A i \in 1 .. n : rows[i].id # PreviewId(rows, selected)
  PROVE  Preview(base, rows, selected) = <<>>
<1>1. {k \in DOMAIN rows : rows[k].id = PreviewId(rows, selected)} = {}
  BY DEF RowsApart
<1> QED BY <1>1 DEF Preview

\* Before anyone chooses, the first interview with a scorecard is the one.
LEMMA FirstOffered ==
  ASSUME NEW n \in Nat, NEW rows, RowsApart(rows, n), NEW with, with = Offered(rows, n)
  PROVE  /\ with = {} => Previewable(rows) = <<>> /\ PreviewId(rows, "") = ""
         /\ with # {} => \E first \in with : /\ Previewable(rows) # <<>> /\ Previewable(rows)[1] = rows[first]
                                            /\ PreviewId(rows, "") = rows[first].id
<1>1. Previewable(rows) = Only(rows, with)
  BY DEF Previewable, RowsApart, Offered
<1>2. CASE with = {}
  BY <1>1, <1>2, NothingKept DEF PreviewId
<1>3. CASE with # {}
  <2>1. with \in SUBSET (1 .. n)
    BY DEF Offered
  <2>2. with \in SUBSET Int /\ IsFiniteSet(with)
    BY <2>1, Positions
  <2>3. PICK first \in with : Only(rows, with) # <<>> /\ Only(rows, with)[1] = rows[first]
    BY <1>3, <2>2, FirstKept
  <2>4. PreviewId(rows, "") = rows[first].id
    BY <1>1, <2>3 DEF PreviewId
  <2> QED BY <1>1, <1>3, <2>3, <2>4
<1> QED BY <1>2, <1>3

LEMMA PreviewOfOne ==
  ASSUME NEW row, row.scorecard # NoScorecardYet, NEW base
  PROVE  Preview(base, <<row>>, "") = BuildSlackPayload(base, row.id, row.scorecard, row.status = AGUARDANDO)
<1>1. PICK rows : rows = <<row>>
  OBVIOUS
<1>2. rows \in Seq({row}) /\ Len(rows) = 1 /\ rows[1] = row
  BY <1>1
<1>3. PICK n \in Nat : n = 1 /\ 1 .. n = {1}
  OBVIOUS
<1>4. DOMAIN rows = 1 .. n
  BY <1>2, <1>3, LenProperties
<1>5. RowsApart(rows, n) /\ 1 \in 1 .. n
  BY <1>3, <1>4 DEF RowsApart
<1>6. Offered(rows, n) = {1}
  BY <1>2, <1>3 DEF Offered
<1>7. PreviewId(rows, "") = rows[1].id
  BY <1>5, <1>6, FirstOffered
<1>9. rows[1].scorecard # NoScorecardYet
  BY <1>2
<1>10. Preview(base, rows, "") = BuildSlackPayload(base, rows[1].id, rows[1].scorecard, rows[1].status = AGUARDANDO)
  BY <1>5, <1>7, <1>9, PreviewIs
<1> QED BY <1>1, <1>2, <1>10

\* A row that waits has a token, one that is settled has none.
AnnouncedRows(ids, tokens, evaluations) ==
    {[id |-> id, status |-> s, token |-> IF s = AGUARDANDO THEN t ELSE NoToken, scorecard |-> c] :
        id \in ids, s \in {AGUARDANDO} \cup TERMINAL_STATUSES, t \in tokens, c \in Seq(evaluations)}
AnyMessage(hosts, ids, tokens, evaluations) ==
    [kind : {"message"}, base : [host : hosts, slashes : Nat], row : AnnouncedRows(ids, tokens, evaluations)]

\* What stands for no scorecard is no scorecard's evaluation, and what stands for no
\* token or for a hidden one is no token.
Meaningful(tokens, evaluations) ==
    /\ NoToken \notin tokens /\ TOKEN_PLACEHOLDER \notin tokens
    /\ [score |-> 0, verified |-> "none"] \notin evaluations

LEMMA AnnouncedIs ==
  ASSUME NEW ids, NEW tokens, NEW evaluations, Meaningful(tokens, evaluations),
         NEW row \in AnnouncedRows(ids, tokens, evaluations)
  PROVE  /\ row.scorecard \in Seq(evaluations) /\ row.scorecard # NoScorecardYet /\ Len(row.scorecard) \in Nat
         /\ row.status = AGUARDANDO => row.token \in tokens
         /\ row.status # AGUARDANDO => row.token = NoToken
         /\ row.token = NoToken <=> row.status # AGUARDANDO
         /\ row.token # TOKEN_PLACEHOLDER
<1>1. row.scorecard \in Seq(evaluations)
  BY DEF AnnouncedRows
<1>2. row.scorecard # NoScorecardYet
  <2>1. PICK none : none = [score |-> 0, verified |-> "none"]
    OBVIOUS
  <2>2. NoScorecardYet = <<none>> /\ none \notin evaluations
    BY <2>1 DEF NoScorecardYet, Meaningful
  <2>3. ASSUME row.scorecard = <<none>> PROVE FALSE
    <3>1. Len(row.scorecard) = 1 /\ row.scorecard[1] = none
      BY <2>3
    <3>2. 1 \in 1 .. Len(row.scorecard)
      BY <3>1
    <3>3. row.scorecard[1] \in evaluations
      BY <1>1, <3>2, ElementOfSeq
    <3> QED BY <2>2, <3>1, <3>3
  <2> QED BY <2>2, <2>3
<1>3. Len(row.scorecard) \in Nat
  BY <1>1, LenProperties
<1>4. row.status = AGUARDANDO => row.token \in tokens
  BY DEF AnnouncedRows
<1>5. row.status # AGUARDANDO => row.token = NoToken
  BY DEF AnnouncedRows
<1>6. NoToken # TOKEN_PLACEHOLDER
  BY DEF NoToken, TOKEN_PLACEHOLDER
<1> QED BY <1>1, <1>2, <1>3, <1>4, <1>5, <1>6 DEF Meaningful

Links(base, id, token) == [k \in DOMAIN Verdicts |-> BuildDecisionUrl(base, id, Verdicts[k], token)]
ShownLinks(base, id) == [k \in DOMAIN Verdicts |-> DecisionUrl(base, id, Verdicts[k])]

LEMMA LinksAlike ==
  ASSUME NEW host, NEW base, base = [host |-> host, slashes |-> 0], NEW id, NEW token
  PROVE  \A k \in {1, 2} : WithoutToken(Links(base, id, token)[k]) = ShownLinks(base, id)[k]
BY VerdictsAre, LinksRedacted DEF Links, ShownLinks

\* The two messages, block by block.
LEMMA MessagesAlike ==
  ASSUME NEW host, NEW base, base = [host |-> host, slashes |-> 0], NEW id, NEW token,
         NEW scorecard, Len(scorecard) \in Nat
  PROVE  Redacted(SlackBlocks(base, id, scorecard, token))
            = BuildSlackPayload(base, id, scorecard, token # NoToken)
<1>1. PICK n \in Nat : n = Len(scorecard)
  OBVIOUS
<1>2. PICK m \in Nat : m = 3 + 2 * n
  OBVIOUS
<1>3. CASE token = NoToken
  <2>1. PICK all : all = Message(id, scorecard, <<>>)
    OBVIOUS
  <2>2. SlackBlocks(base, id, scorecard, token) = all
    BY <1>3, <2>1, SentIsAMessage
  <2>3. BuildSlackPayload(base, id, scorecard, token # NoToken) = all
    BY <1>3, <2>1, ShownIsAMessage
  <2>4. Redacted(all) = all
    BY <1>1, <1>2, <2>1, WithoutButtons, NothingToRedact
  <2> QED BY <2>2, <2>3, <2>4
<1>4. CASE token # NoToken
  <2>1. PICK sent : sent = Message(id, scorecard, Buttons(Links(base, id, token)))
    OBVIOUS
  <2>2. PICK shown : shown = Message(id, scorecard, Buttons(ShownLinks(base, id)))
    OBVIOUS
  <2>3. SlackBlocks(base, id, scorecard, token) = sent
    BY <1>4, <2>1, SentIsAMessage DEF Links
  <2>4. BuildSlackPayload(base, id, scorecard, token # NoToken) = shown
    BY <1>4, <2>2, ShownIsAMessage DEF ShownLinks
  <2>5. /\ MessageWith(sent, id, scorecard, Buttons(Links(base, id, token)), m, m + 1)
        /\ sent[m + 1] = ButtonsBlock(Links(base, id, token))
    BY <1>1, <1>2, <2>1, WithButtons
  <2>6. /\ MessageWith(shown, id, scorecard, Buttons(ShownLinks(base, id)), m, m + 1)
        /\ shown[m + 1] = ButtonsBlock(ShownLinks(base, id))
    BY <1>1, <1>2, <2>2, WithButtons
  <2>7. PICK e \in Nat : e = m + 1
    OBVIOUS
  <2>8. /\ Listed(sent, e) /\ Listed(shown, e) /\ DOMAIN sent = 1 .. e
        /\ \A i \in 1 .. m : sent[i] = shown[i] /\ sent[i].type # "actions"
    <3>1. Listed(sent, e) /\ Listed(shown, e)
      BY <2>5, <2>6, <2>7 DEF MessageWith
    <3>2. DOMAIN sent = 1 .. e
      BY <3>1 DEF Listed
    <3>3. ASSUME NEW i \in 1 .. m PROVE sent[i] = shown[i] /\ sent[i].type # "actions"
      <4>1. i \in 1 .. e /\ i <= m
        BY <2>7
      <4>2. PICK b, h : b = EvaluationBlocks(scorecard)[i - 3] /\ h = Header(id)[i]
        OBVIOUS
      <4>3. sent[i] = (IF i <= 3 THEN h ELSE b) /\ sent[i].type # "actions"
        BY <2>5, <2>7, <4>1, <4>2 DEF MessageWith
      <4>4. shown[i] = IF i <= 3 THEN h ELSE b
        BY <2>6, <2>7, <4>1, <4>2 DEF MessageWith
      <4> QED BY <4>3, <4>4
    <3> QED BY <3>1, <3>2, <3>3
  <2>9. sent[e].type = "actions" /\ sent[e].elements = ButtonsBlock(Links(base, id, token)).elements
    BY <2>5, <2>7 DEF ButtonsBlock
  <2>10. [type |-> "actions", elements |-> WithoutTokens(sent[e].elements)] = shown[e]
    BY <2>6, <2>7, <2>9, LinksAlike, ButtonsRedacted
  <2>11. \A i \in 1 .. e : i \in 1 .. m \/ i = e
    BY <2>7
  <2>12. PICK redacted : redacted = Redacted(sent)
    OBVIOUS
  <2>13. Listed(redacted, e) /\ \A i \in 1 .. e : redacted[i] = shown[i]
    BY <2>8, <2>9, <2>10, <2>11, <2>12 DEF Redacted, Listed
  <2>14. redacted = shown
    BY <2>8, <2>13 DEF Listed
  <2> QED BY <2>3, <2>4, <2>12, <2>14
<1> QED BY <1>3, <1>4

LEMMA BodiesAlike ==
  ASSUME NEW host, NEW base, base = [host |-> host, slashes |-> 0], NEW id, NEW token, NEW scorecard
  PROVE  BuildWebhookPayload(base, id, scorecard, token # NoToken)
            = [WebhookBody(base, id, scorecard, token) EXCEPT !.urls = [k \in DOMAIN @ |-> WithoutToken(@[k])]]
<1>1. PICK urls : urls = IF token = NoToken THEN <<>> ELSE Links(base, id, token)
  OBVIOUS
<1>2. PICK shown : shown = IF token = NoToken THEN <<>> ELSE ShownLinks(base, id)
  OBVIOUS
<1>3. WebhookBody(base, id, scorecard, token) = [id |-> id, scorecard |-> scorecard, urls |-> urls]
  BY <1>1 DEF WebhookBody, Links
<1>4. BuildWebhookPayload(base, id, scorecard, token # NoToken) = [id |-> id, scorecard |-> scorecard, urls |-> shown]
  BY <1>2 DEF BuildWebhookPayload, ShownLinks
<1>5. [k \in DOMAIN urls |-> WithoutToken(urls[k])] = shown
  <2>1. CASE token = NoToken
    <3>1. PICK put : put = [k \in DOMAIN <<>> |-> WithoutToken(<<>>[k])]
      OBVIOUS
    <3>2. DOMAIN <<>> = 1 .. 0
      BY NoBlock DEF Listed
    <3>3. put = <<>>
      <4>1. 0 \in Nat /\ Listed(put, 0)
        BY <3>1, <3>2, NoBlock DEF Listed
      <4> QED BY <4>1, NotEmpty
    <3> QED BY <1>1, <1>2, <2>1, <3>1, <3>3
  <2>2. CASE token # NoToken
    <3>1. urls = Links(base, id, token) /\ shown = ShownLinks(base, id)
      BY <1>1, <1>2, <2>2
    <3>2. DOMAIN urls = {1, 2} /\ DOMAIN shown = {1, 2} /\ shown = [k \in DOMAIN shown |-> shown[k]]
      BY <3>1, VerdictsAre DEF Links, ShownLinks
    <3>3. \A k \in {1, 2} : WithoutToken(urls[k]) = shown[k]
      BY <3>1, LinksAlike
    <3> QED BY <3>2, <3>3
  <2> QED BY <2>1, <2>2
<1>6. PICK body : body = [id |-> id, scorecard |-> scorecard, urls |-> urls]
  OBVIOUS
<1>7. [body EXCEPT !.urls = [k \in DOMAIN @ |-> WithoutToken(@[k])]] = [id |-> id, scorecard |-> scorecard, urls |-> shown]
  BY <1>5, <1>6
<1> QED BY <1>3, <1>4, <1>6, <1>7

LEMMA PreviewWhatIsSent ==
  ASSUME NEW hosts, NEW ids, NEW tokens, NEW evaluations, Meaningful(tokens, evaluations),
         input \in AnyMessage(hosts, ids, tokens, evaluations)
  PROVE  PreviewIsWhatIsSent
<1>1. SUFFICES ASSUME input.base.slashes = 0
               PROVE  LET row == input.row
                          sent == SlackBlocks(input.base, row.id, row.scorecard, row.token)
                          posted == WebhookBody(input.base, row.id, row.scorecard, row.token)
                      IN  /\ Preview(input.base, <<row>>, "") = Redacted(sent)
                          /\ BuildWebhookPayload(input.base, row.id, row.scorecard, row.status = AGUARDANDO)
                               = [posted EXCEPT !.urls = [k \in DOMAIN @ |-> WithoutToken(@[k])]]
  BY DEF PreviewIsWhatIsSent
<1>a. PICK base : base = input.base
  OBVIOUS
<1>2. PICK host \in hosts : base = input.base /\ base = [host |-> host, slashes |-> 0]
  BY <1>1, <1>a DEF AnyMessage
<1>3. PICK row \in AnnouncedRows(ids, tokens, evaluations) : row = input.row
  BY DEF AnyMessage
<1>4. /\ row.scorecard # NoScorecardYet /\ Len(row.scorecard) \in Nat
      /\ (row.token # NoToken) = (row.status = AGUARDANDO)
  BY AnnouncedIs
<1>5. Preview(base, <<row>>, "") = BuildSlackPayload(base, row.id, row.scorecard, row.status = AGUARDANDO)
  BY <1>4, PreviewOfOne
<1>6. Redacted(SlackBlocks(base, row.id, row.scorecard, row.token))
        = BuildSlackPayload(base, row.id, row.scorecard, row.token # NoToken)
  BY <1>2, <1>4, MessagesAlike
<1>7. BuildWebhookPayload(base, row.id, row.scorecard, row.token # NoToken)
        = [WebhookBody(base, row.id, row.scorecard, row.token) EXCEPT !.urls = [k \in DOMAIN @ |-> WithoutToken(@[k])]]
  BY <1>2, BodiesAlike
<1> QED BY <1>2, <1>3, <1>4, <1>5, <1>6, <1>7

\* The buttons of a message are those of its last block, if it has any.
ButtonsOf(blocks) ==
    UNION {{blocks[k].elements[b] : b \in DOMAIN blocks[k].elements} :
            k \in {k \in DOMAIN blocks : blocks[k].type = "actions"}}

LEMMA ButtonsOfAMessage ==
  ASSUME NEW id, NEW scorecard, Len(scorecard) \in Nat, NEW urls
  PROVE  /\ ButtonsOf(Message(id, scorecard, <<>>)) = {}
         /\ ButtonsOf(Message(id, scorecard, Buttons(urls))) = {[value |-> Verdicts[k], url |-> urls[k]] : k \in {1, 2}}
<1>1. PICK n \in Nat : n = Len(scorecard)
  OBVIOUS
<1>2. PICK m \in Nat : m = 3 + 2 * n
  OBVIOUS
<1>3. ButtonsOf(Message(id, scorecard, <<>>)) = {}
  <2>1. PICK all : all = Message(id, scorecard, <<>>)
    OBVIOUS
  <2>2. Listed(all, m) /\ \A i \in 1 .. m : all[i].type # "actions"
    BY <1>1, <1>2, <2>1, WithoutButtons
  <2>3. {k \in DOMAIN all : all[k].type = "actions"} = {}
    BY <2>2 DEF Listed
  <2> QED BY <2>1, <2>3 DEF ButtonsOf
<1>4. ButtonsOf(Message(id, scorecard, Buttons(urls))) = {[value |-> Verdicts[k], url |-> urls[k]] : k \in {1, 2}}
  <2>1. PICK all : all = Message(id, scorecard, Buttons(urls))
    OBVIOUS
  <2>2. PICK e \in Nat : e = m + 1
    OBVIOUS
  <2>3. MessageWith(all, id, scorecard, Buttons(urls), m, e) /\ all[e] = ButtonsBlock(urls)
    BY <1>1, <1>2, <2>1, <2>2, WithButtons
  <2>4. PICK elements : elements = [k \in {1, 2} |-> [value |-> Verdicts[k], url |-> urls[k]]]
    OBVIOUS
  <2>5. all[e].type = "actions" /\ all[e].elements = elements
    BY <2>3, <2>4, VerdictsAre DEF ButtonsBlock
  <2>6. DOMAIN all = 1 .. e /\ (\A i \in 1 .. e : i = e \/ i <= m) /\ e \in 1 .. e
    BY <2>2, <2>3 DEF MessageWith, Listed
  <2>7. \A i \in 1 .. e : i <= m => all[i].type # "actions"
    BY <2>3 DEF MessageWith
  <2>8. {k \in DOMAIN all : all[k].type = "actions"} = {e}
    BY <2>5, <2>6, <2>7
  <2>9. ButtonsOf(all) = {elements[b] : b \in DOMAIN elements}
    BY <2>5, <2>8 DEF ButtonsOf
  <2>10. {elements[b] : b \in DOMAIN elements} = {[value |-> Verdicts[k], url |-> urls[k]] : k \in {1, 2}}
    BY <2>4
  <2> QED BY <2>1, <2>9, <2>10
<1> QED BY <1>3, <1>4

LEMMA ButtonsDecide ==
  ASSUME NEW hosts, NEW ids, NEW tokens, NEW evaluations, Meaningful(tokens, evaluations),
         input \in AnyMessage(hosts, ids, tokens, evaluations)
  PROVE  ButtonsDecideWhatTheySay
<1> DEFINE Decided(row, blocks) == {[v |-> b.value, to |-> DecisionEndpoint(row, b.url)] : b \in ButtonsOf(blocks)}
<1>1. SUFFICES ASSUME input.base.slashes = 0
               PROVE  LET row == input.row
                          sent == SlackBlocks(input.base, row.id, row.scorecard, row.token)
                      IN  /\ Decided(row, sent)
                               = IF row.status = AGUARDANDO
                                 THEN {[v |-> "approve", to |-> APROVADA], [v |-> "reject", to |-> REJEITADA]} ELSE {}
                          /\ \A b \in ButtonsOf(Preview(input.base, <<row>>, "")) :
                                DecisionEndpoint(row, b.url) = "unauthorized"
  BY DEF ButtonsDecideWhatTheySay, ButtonsOf
<1>a. PICK base : base = input.base
  OBVIOUS
<1>2. PICK host \in hosts : base = input.base /\ base = [host |-> host, slashes |-> 0]
  BY <1>1, <1>a DEF AnyMessage
<1>3. PICK row \in AnnouncedRows(ids, tokens, evaluations) : row = input.row
  BY DEF AnyMessage
<1>4. /\ row.scorecard # NoScorecardYet /\ Len(row.scorecard) \in Nat
      /\ (row.token # NoToken) = (row.status = AGUARDANDO) /\ row.token # TOKEN_PLACEHOLDER
  BY AnnouncedIs
<1>5. PICK sent, shown : /\ sent = SlackBlocks(base, row.id, row.scorecard, row.token)
                         /\ shown = Preview(base, <<row>>, "")
  OBVIOUS
<1>6. shown = BuildSlackPayload(base, row.id, row.scorecard, row.status = AGUARDANDO)
  BY <1>4, <1>5, PreviewOfOne
<1>7. CASE row.status # AGUARDANDO
  <2>1. sent = Message(row.id, row.scorecard, <<>>)
    BY <1>4, <1>5, <1>7, SentIsAMessage
  <2>2. shown = Message(row.id, row.scorecard, <<>>)
    BY <1>6, <1>7, ShownIsAMessage
  <2>3. ButtonsOf(sent) = {} /\ ButtonsOf(shown) = {}
    BY <1>4, <2>1, <2>2, ButtonsOfAMessage
  <2> QED BY <1>2, <1>3, <1>5, <1>7, <2>3
<1>8. CASE row.status = AGUARDANDO
  <2>1. sent = Message(row.id, row.scorecard, Buttons(Links(base, row.id, row.token)))
    BY <1>4, <1>5, <1>8, SentIsAMessage DEF Links
  <2>2. shown = Message(row.id, row.scorecard, Buttons(ShownLinks(base, row.id)))
    BY <1>6, <1>8, ShownIsAMessage DEF ShownLinks
  <2>3. PICK links : links = Links(base, row.id, row.token)
    OBVIOUS
  <2>4. PICK showns : showns = ShownLinks(base, row.id)
    OBVIOUS
  <2>5. /\ ButtonsOf(sent) = {[value |-> Verdicts[k], url |-> links[k]] : k \in {1, 2}}
        /\ ButtonsOf(shown) = {[value |-> Verdicts[k], url |-> showns[k]] : k \in {1, 2}}
    <3>1. PICK id, scorecard : id = row.id /\ scorecard = row.scorecard
      OBVIOUS
    <3>2. Len(scorecard) \in Nat
      BY <1>4, <3>1
    <3>3. sent = Message(id, scorecard, Buttons(links)) /\ shown = Message(id, scorecard, Buttons(showns))
      BY <2>1, <2>2, <2>3, <2>4, <3>1
    <3>4. ButtonsOf(sent) = {[value |-> Verdicts[k], url |-> links[k]] : k \in {1, 2}}
      BY <3>2, <3>3, ButtonsOfAMessage
    <3>5. ButtonsOf(shown) = {[value |-> Verdicts[k], url |-> showns[k]] : k \in {1, 2}}
      BY <3>2, <3>3, ButtonsOfAMessage
    <3> QED BY <3>4, <3>5
  <2>6. \A k \in {1, 2} : /\ links[k].slashes = 1 /\ links[k].id = row.id /\ links[k].token = row.token
                          /\ links[k].action = Verdicts[k]
    BY <1>2, <2>3, VerdictsAre DEF Links, BuildDecisionUrl
  <2>7. \A k \in {1, 2} : showns[k].slashes = 1 /\ showns[k].id = row.id /\ showns[k].token = TOKEN_PLACEHOLDER
    BY <2>4, VerdictsAre DEF ShownLinks, DecisionUrl
  <2>8. DecisionEndpoint(row, links[1]) = APROVADA /\ DecisionEndpoint(row, links[2]) = REJEITADA
    BY <1>4, <1>8, <2>6, VerdictsAre DEF DecisionEndpoint
  <2>9. \A k \in {1, 2} : DecisionEndpoint(row, showns[k]) = "unauthorized"
    BY <1>4, <1>8, <2>7 DEF DecisionEndpoint
  <2>10. \A b \in ButtonsOf(shown) : DecisionEndpoint(row, b.url) = "unauthorized"
    BY <2>5, <2>9
  <2>11. PICK yes, no : yes = [value |-> "approve", url |-> links[1]] /\ no = [value |-> "reject", url |-> links[2]]
    OBVIOUS
  <2>12. ButtonsOf(sent) = {yes, no}
    BY <2>5, <2>11, VerdictsAre
  <2>13. Decided(row, sent) = {[v |-> "approve", to |-> APROVADA], [v |-> "reject", to |-> REJEITADA]}
    BY <2>8, <2>11, <2>12
  <2> QED BY <1>2, <1>3, <1>5, <1>8, <2>10, <2>13
<1> QED BY <1>7, <1>8

\* The interviews on the screen, of which any number may have no scorecard yet.
PreviewRow(ids, evaluations) ==
    [id : ids, status : InterviewStatuses, token : {NoToken, "t"}, scorecard : Seq(evaluations) \cup {NoScorecardYet}]
AnyPreview(ids, evaluations) ==
    [kind : {"preview"},
     rows : {rows \in Seq(PreviewRow(ids, evaluations)) :
                \A i, j \in DOMAIN rows : rows[i].id = rows[j].id => i = j},
     selected : ids \cup {""}]

\* A message that is shown is of the interview it is made of.
LEMMA ShownIsOf ==
  ASSUME NEW base, NEW id, NEW scorecard, Len(scorecard) \in Nat, NEW has \in BOOLEAN,
         NEW shown, shown = BuildSlackPayload(base, id, scorecard, has)
  PROVE  shown # <<>> /\ shown[2].id = id
<1>1. PICK k \in Nat : k = Len(scorecard)
  OBVIOUS
<1>2. PICK m \in Nat : m = 3 + 2 * k
  OBVIOUS
<1>3. CASE has
  <2>1. shown = Message(id, scorecard, Buttons(ShownLinks(base, id)))
    BY <1>3, ShownIsAMessage DEF ShownLinks
  <2>2. PICK links : links = ShownLinks(base, id)
    OBVIOUS
  <2> QED BY <1>1, <1>2, <2>1, <2>2, WithButtons
<1>4. CASE ~has
  <2>1. shown = Message(id, scorecard, <<>>)
    BY <1>4, ShownIsAMessage
  <2> QED BY <1>1, <1>2, <2>1, WithoutButtons
<1> QED BY <1>3, <1>4

\* The preview of the interview whose id was found, when it has a scorecard.
LEMMA PreviewOfThat ==
  ASSUME NEW n \in Nat, NEW rows, RowsApart(rows, n), NEW base, NEW selected, NEW i \in DOMAIN rows,
         rows[i].id = PreviewId(rows, selected), rows[i].scorecard # NoScorecardYet,
         Len(rows[i].scorecard) \in Nat
  PROVE  Preview(base, rows, selected) # <<>> /\ Preview(base, rows, selected)[2].id = rows[i].id
<1>1. PICK id, scorecard : id = rows[i].id /\ scorecard = rows[i].scorecard
  OBVIOUS
<1>2. PICK has \in BOOLEAN : has = (rows[i].status = AGUARDANDO)
  OBVIOUS
<1>3. PICK shown : shown = Preview(base, rows, selected)
  OBVIOUS
<1>a. i \in 1 .. n
  BY DEF RowsApart
<1>4. shown = BuildSlackPayload(base, id, scorecard, has)
  BY <1>1, <1>2, <1>3, <1>a, PreviewIs
<1>5. Len(scorecard) \in Nat
  BY <1>1
<1> QED BY <1>1, <1>3, <1>4, <1>5, ShownIsOf

\* What is on the screen: ids differ, none is empty, and a scorecard is a sequence.
OnScreen(rows, n) ==
    /\ RowsApart(rows, n)
    /\ \A i \in 1 .. n :
        /\ rows[i].id # ""
        /\ rows[i].scorecard # NoScorecardYet => Len(rows[i].scorecard) \in Nat

Scored(rows, i, id) == i \in DOMAIN rows /\ rows[i].scorecard # NoScorecardYet /\ rows[i].id = id
ShownIs(shown, id) == shown # <<>> /\ shown[2].id = id

LEMMA PreviewShown ==
  ASSUME NEW n \in Nat, NEW rows, OnScreen(rows, n), NEW base, NEW selected,
         NEW i, NEW id, Scored(rows, i, id), id = PreviewId(rows, selected),
         NEW shown, shown = Preview(base, rows, selected)
  PROVE  ShownIs(shown, id)
<1>1. RowsApart(rows, n) /\ Len(rows[i].scorecard) \in Nat
  BY DEF OnScreen, RowsApart, Scored
<1>2. i \in DOMAIN rows /\ rows[i].scorecard # NoScorecardYet /\ rows[i].id = id
  BY DEF Scored
<1>3. Preview(base, rows, selected) # <<>> /\ Preview(base, rows, selected)[2].id = rows[i].id
  BY <1>1, <1>2, PreviewOfThat
<1> QED BY <1>2, <1>3 DEF ShownIs

FirstShown(shown, offered) ==
    /\ shown = <<>> <=> offered = <<>>
    /\ offered # <<>> => shown[2].id = offered[1].id

LEMMA FirstIsShown ==
  ASSUME NEW n \in Nat, NEW rows, OnScreen(rows, n), NEW base,
         NEW offered, offered = Previewable(rows), NEW shown, shown = Preview(base, rows, "")
  PROVE  FirstShown(shown, offered)
<1>1. PICK with : with = Offered(rows, n)
  OBVIOUS
<1>2. RowsApart(rows, n) /\ DOMAIN rows = 1 .. n
  BY DEF OnScreen, RowsApart
<1>3. CASE with = {}
  <2>1. offered = <<>> /\ PreviewId(rows, "") = ""
    BY <1>1, <1>2, <1>3, FirstOffered
  <2>2. \A i \in 1 .. n : rows[i].id # PreviewId(rows, "")
    BY <2>1 DEF OnScreen
  <2>3. shown = <<>>
    BY <1>2, <2>2, PreviewOfNobody
  <2> QED BY <2>1, <2>3 DEF FirstShown
<1>4. CASE with # {}
  <2>1. PICK first \in with : /\ offered # <<>> /\ offered[1] = rows[first]
                              /\ PreviewId(rows, "") = rows[first].id
    BY <1>1, <1>2, <1>4, FirstOffered
  <2>2. PICK id : id = rows[first].id
    OBVIOUS
  <2>3. Scored(rows, first, id)
    BY <1>1, <1>2, <2>2 DEF Offered, Scored
  <2>4. ShownIs(shown, id)
    BY <2>1, <2>2, <2>3, PreviewShown
  <2> QED BY <2>1, <2>2, <2>4 DEF ShownIs, FirstShown
<1> QED BY <1>3, <1>4

LEMMA ChosenIsShown ==
  ASSUME NEW n \in Nat, NEW rows, OnScreen(rows, n), NEW base,
         NEW offered, offered = Previewable(rows), NEW k \in DOMAIN offered,
         NEW selected, selected = offered[k].id, NEW shown, shown = Preview(base, rows, selected)
  PROVE  ShownIs(shown, selected)
<1>1. PICK with : with = Offered(rows, n)
  OBVIOUS
<1>2. DOMAIN rows = 1 .. n
  BY DEF OnScreen, RowsApart
<1>3. with \in SUBSET Int /\ IsFiniteSet(with)
  <2>1. with \in SUBSET (1 .. n)
    BY <1>1 DEF Offered
  <2> QED BY <2>1, Positions
<1>4. offered = Only(rows, with)
  <2>1. with = {i \in DOMAIN rows : rows[i].scorecard # NoScorecardYet}
    BY <1>1, <1>2 DEF Offered
  <2> QED BY <2>1 DEF Previewable
<1>5. PICK i \in with : offered[k] = rows[i]
  BY <1>3, <1>4, EachKept
<1>6. i \in DOMAIN rows /\ rows[i].scorecard # NoScorecardYet /\ rows[i].id # ""
  BY <1>1, <1>2 DEF Offered, OnScreen
<1>7. Scored(rows, i, selected) /\ selected = PreviewId(rows, selected)
  BY <1>5, <1>6 DEF PreviewId, Scored
<1> QED BY <1>7, PreviewShown

LEMMA OneChosen ==
  ASSUME NEW ids, "" \notin ids, NEW evaluations, input \in AnyPreview(ids, evaluations)
  PROVE  PreviewIsTheOneChosen
<1>1. PICK rows \in Seq(PreviewRow(ids, evaluations)) :
        /\ rows = input.rows
        /\ \A i, j \in DOMAIN rows : rows[i].id = rows[j].id => i = j
  BY DEF AnyPreview
<1>2. PICK n \in Nat : n = Len(rows) /\ DOMAIN rows = 1 .. n
  BY LenProperties
<1>3. ASSUME NEW i \in 1 .. n
      PROVE  /\ rows[i].id # ""
             /\ rows[i].scorecard # NoScorecardYet => Len(rows[i].scorecard) \in Nat
  <2>1. PICK row : row = rows[i] /\ row \in PreviewRow(ids, evaluations)
    BY <1>2, ElementOfSeq
  <2>2. row.id \in ids /\ row.scorecard \in Seq(evaluations) \cup {NoScorecardYet}
    BY <2>1 DEF PreviewRow
  <2>3. row.scorecard # NoScorecardYet => Len(row.scorecard) \in Nat
    BY <2>2, LenProperties
  <2> QED BY <2>1, <2>2, <2>3
<1>4. PICK list, selected : list = rows /\ selected = input.selected
  OBVIOUS
<1>5. OnScreen(list, n)
  BY <1>1, <1>2, <1>3, <1>4 DEF RowsApart, OnScreen
<1>6. PICK base, offered, shown : /\ base = [host |-> "h", slashes |-> 0]
                                  /\ offered = Previewable(list) /\ shown = Preview(base, list, selected)
  OBVIOUS
<1>7. ASSUME selected = ""
      PROVE  (shown = <<>> <=> offered = <<>>) /\ (offered # <<>> => shown[2].id = offered[1].id)
  <2>1. shown = Preview(base, list, "")
    BY <1>6, <1>7
  <2>2. FirstShown(shown, offered)
    BY <1>5, <1>6, <2>1, FirstIsShown
  <2> QED BY <2>2 DEF FirstShown
<1>8. ASSUME NEW k \in DOMAIN offered, selected = offered[k].id
      PROVE  shown # <<>> /\ shown[2].id = selected
  <2>1. ShownIs(shown, selected)
    BY <1>5, <1>6, <1>8, ChosenIsShown
  <2> QED BY <2>1 DEF ShownIs
<1>9. PICK offeredIds : offeredIds = {offered[k].id : k \in DOMAIN offered}
  OBVIOUS
<1>10. selected \in offeredIds => shown # <<>> /\ shown[2].id = selected
  BY <1>8, <1>9
<1>11. PreviewIsTheOneChosen <=>
         (input.kind = "preview" =>
            /\ selected = "" => (shown = <<>> <=> offered = <<>>)
            /\ selected = "" /\ offered # <<>> => shown[2].id = offered[1].id
            /\ selected \in offeredIds => shown # <<>> /\ shown[2].id = selected)
  BY <1>1, <1>4, <1>6, <1>9 DEF PreviewIsTheOneChosen
<1> QED BY <1>7, <1>10, <1>11

\* For a scorecard of any length, and any number of interviews on the screen: the
\* preview is the message as it is sent, the token apart; while an interview waits
\* its buttons decide what they say, and no button shown works; and what is
\* previewed is the one chosen, or the newest with a scorecard (PreviewIsTrue):
\* blockKit.ts is written a second time after notifications.py.
THEOREM PreviewIsAlwaysTrue ==
  ASSUME NEW hosts, NEW ids, "" \notin ids, NEW tokens, NEW evaluations, Meaningful(tokens, evaluations),
         input \in AnyMessage(hosts, ids, tokens, evaluations) \cup AnyPreview(ids, evaluations)
  PROVE  PreviewIsTrue
<1>1. CASE input \in AnyMessage(hosts, ids, tokens, evaluations)
  <2>1. input.kind = "message"
    BY <1>1 DEF AnyMessage
  <2>2. PreviewIsTheOneChosen
    BY <2>1 DEF PreviewIsTheOneChosen
  <2> QED BY <1>1, <2>2, PreviewWhatIsSent, ButtonsDecide DEF PreviewIsTrue
<1>2. CASE input \in AnyPreview(ids, evaluations)
  <2>1. input.kind = "preview"
    BY <1>2 DEF AnyPreview
  <2>2. PreviewIsWhatIsSent /\ ButtonsDecideWhatTheySay
    BY <2>1 DEF PreviewIsWhatIsSent, ButtonsDecideWhatTheySay
  <2> QED BY <1>2, <2>2, OneChosen DEF PreviewIsTrue
<1> QED BY <1>1, <1>2

-------------------------------------------------------------------------------
(* A quote and where it is read.                                           *)

\* A character that is neither a mark nor blank once it is cleaned.
Shows(c) == ~IsMark(c) /\ Emitted(c) # " "

Written(text, n) == Listed(text, n) /\ n = Len(text) /\ DOMAIN text = 1 .. n

\* The last character before i that is no mark shows, and so does one after i.
ShowsBefore(text, n, i) ==
    \E j \in 1 .. n : j < i /\ Shows(text[j]) /\ \A l \in 1 .. n : j < l /\ l < i => IsMark(text[l])
ShowsAfter(text, n, i) == \E j \in 1 .. n : i < j /\ Shows(text[j])

LEMMA SurvivesWhen ==
  ASSUME NEW n \in Nat, NEW text, Written(text, n), NEW i \in 1 .. n
  PROVE  Survives(text, i) <=>
            ~IsMark(text[i]) /\ (Shows(text[i]) \/ (ShowsBefore(text, n, i) /\ ShowsAfter(text, n, i)))
<1>1. PICK before : before = {j \in 1 .. i - 1 : ~IsMark(text[j])}
  OBVIOUS
<1>2. \A j \in before : j \in 1 .. n /\ j < i /\ ~IsMark(text[j])
  BY <1>1
<1>3. \A j \in 1 .. n : j < i /\ ~IsMark(text[j]) => j \in before
  BY <1>1
<1>4. IsFiniteSet(before) /\ before \in SUBSET Int
  <2>1. before \in SUBSET (1 .. n)
    BY <1>2
  <2> QED BY <2>1, Positions
<1>5. before # {} /\ Emitted(text[Max(before)]) # " " <=> ShowsBefore(text, n, i)
  <2>1. ASSUME before # {}, Emitted(text[Max(before)]) # " " PROVE ShowsBefore(text, n, i)
    <3>1. PICK j : j = Max(before)
      OBVIOUS
    <3>2. j \in before /\ \A k \in before : k <= j
      BY <1>4, <2>1, <3>1, LargestIs
    <3>3. Shows(text[j])
      BY <1>2, <2>1, <3>1, <3>2 DEF Shows
    <3>4. \A l \in 1 .. n : j < l /\ l < i => IsMark(text[l])
      <4>1. SUFFICES ASSUME NEW l \in 1 .. n, j < l, l < i, ~IsMark(text[l]) PROVE FALSE
        OBVIOUS
      <4>2. l <= j /\ j \in Int
        BY <1>2, <1>3, <3>2, <4>1
      <4> QED BY <4>1, <4>2
    <3> QED BY <1>2, <3>2, <3>3, <3>4 DEF ShowsBefore
  <2>2. ASSUME ShowsBefore(text, n, i) PROVE before # {} /\ Emitted(text[Max(before)]) # " "
    <3>1. PICK j \in 1 .. n : j < i /\ Shows(text[j]) /\ \A l \in 1 .. n : j < l /\ l < i => IsMark(text[l])
      BY <2>2 DEF ShowsBefore
    <3>2. j \in before
      BY <1>3, <3>1 DEF Shows
    <3>3. PICK m : m = Max(before)
      OBVIOUS
    <3>4. m \in before /\ j <= m
      BY <1>4, <3>2, <3>3, LargestIs
    <3>5. m \in 1 .. n /\ m < i /\ ~IsMark(text[m])
      BY <1>2, <3>4
    <3>6. m = j
      BY <3>1, <3>4, <3>5
    <3> QED BY <3>1, <3>2, <3>3, <3>6 DEF Shows
  <2> QED BY <2>1, <2>2
<1>6. (\E j \in i + 1 .. Len(text) : ~IsMark(text[j]) /\ Emitted(text[j]) # " ") <=> ShowsAfter(text, n, i)
  <2>1. Len(text) = n
    BY DEF Written
  <2>2. \A j \in 1 .. n : i < j => j \in i + 1 .. n
    OBVIOUS
  <2>3. \A j \in i + 1 .. n : j \in 1 .. n /\ i < j
    OBVIOUS
  <2> QED BY <2>1, <2>2, <2>3 DEF ShowsAfter, Shows
<1>7. Survives(text, i) <=>
        /\ ~IsMark(text[i])
        /\ Emitted(text[i]) = " " => /\ before # {} /\ Emitted(text[Max(before)]) # " "
                                    /\ \E j \in i + 1 .. Len(text) : ~IsMark(text[j]) /\ Emitted(text[j]) # " "
  BY <1>1 DEF Survives
<1> QED BY <1>5, <1>6, <1>7 DEF Shows

\* Two texts alike between two places that show, one moved, survive alike there.
Alike(a, b, s, e, d) == \A p \in Int : s <= p /\ p <= e => b[p + d] = a[p]

\* A piece of one text, from a character that shows to another, is in the other, d further on.
Piece(a, m, b, n, s, e, d) ==
    /\ s \in 1 .. m /\ e \in 1 .. m /\ s <= e /\ s + d \in 1 .. n /\ e + d \in 1 .. n
    /\ Alike(a, b, s, e, d) /\ Shows(a[s]) /\ Shows(a[e])

LEMMA SurvivesAlike ==
  ASSUME NEW m \in Nat, NEW a, Written(a, m), NEW n \in Nat, NEW b, Written(b, n), NEW d \in Int,
         NEW s, NEW e, Piece(a, m, b, n, s, e, d),
         NEW p \in Int, s <= p, p <= e
  PROVE  Survives(a, p) <=> Survives(b, p + d)
<1>0. s \in 1 .. m /\ e \in 1 .. m /\ s <= e /\ s + d \in 1 .. n /\ e + d \in 1 .. n
  BY DEF Piece
<1>00. Alike(a, b, s, e, d) /\ Shows(a[s]) /\ Shows(a[e])
  BY DEF Piece
<1> USE <1>0, <1>00
<1>1. PICK q \in 1 .. n : q = p + d
  OBVIOUS
<1>2. PICK sd \in 1 .. n, ed \in 1 .. n : sd = s + d /\ ed = e + d /\ sd <= q /\ q <= ed
  BY <1>1
<1>3. p \in 1 .. m
  OBVIOUS
<1>4. b[q] = a[p] /\ b[sd] = a[s] /\ b[ed] = a[e]
  BY <1>1, <1>2 DEF Alike
<1>5. CASE Shows(a[p])
  <2>1. ~IsMark(a[p]) /\ ~IsMark(b[q]) /\ Shows(b[q])
    BY <1>4, <1>5 DEF Shows
  <2> QED BY <1>1, <1>3, <1>5, <2>1, SurvivesWhen
<1>6. CASE ~Shows(a[p])
  <2>1. s < p /\ p < e /\ sd < q /\ q < ed
    BY <1>1, <1>2, <1>6
  <2>2. ShowsAfter(a, m, p) /\ ShowsAfter(b, n, q)
    BY <1>4, <2>1 DEF ShowsAfter
  <2>3. ASSUME ShowsBefore(a, m, p) PROVE ShowsBefore(b, n, q)
    <3>1. PICK j \in 1 .. m : j < p /\ Shows(a[j]) /\ \A l \in 1 .. m : j < l /\ l < p => IsMark(a[l])
      BY <2>3 DEF ShowsBefore
    <3>2. s <= j
      <4>1. ~IsMark(a[s])
        BY DEF Shows
      <4>2. ~(j < s)
        BY <2>1, <3>1, <4>1
      <4> QED BY <4>2
    <3>3. PICK k \in 1 .. n : k = j + d /\ k < q
      BY <1>1, <1>2, <3>1, <3>2
    <3>4. Shows(b[k])
      BY <3>1, <3>2, <3>3 DEF Alike
    <3>5. ASSUME NEW l \in 1 .. n, k < l, l < q PROVE IsMark(b[l])
      <4>1. PICK o \in Int : o = l - d
        OBVIOUS
      <4>2. j < o /\ o < p /\ o \in 1 .. m /\ l = o + d /\ s <= o /\ o <= e
        BY <1>1, <3>2, <3>3, <3>5, <4>1
      <4>3. IsMark(a[o])
        BY <3>1, <4>2
      <4>4. b[l] = a[o]
        BY <4>2 DEF Alike
      <4> QED BY <4>3, <4>4
    <3> QED BY <3>3, <3>4, <3>5 DEF ShowsBefore
  <2>4. ASSUME ShowsBefore(b, n, q) PROVE ShowsBefore(a, m, p)
    <3>1. PICK k \in 1 .. n : k < q /\ Shows(b[k]) /\ \A l \in 1 .. n : k < l /\ l < q => IsMark(b[l])
      BY <2>4 DEF ShowsBefore
    <3>2. sd <= k
      <4>1. ~IsMark(b[sd])
        BY <1>4 DEF Shows
      <4>2. ~(k < sd)
        BY <2>1, <3>1, <4>1
      <4> QED BY <4>2
    <3>3. PICK j \in 1 .. m : k = j + d /\ j < p /\ s <= j
      <4>1. PICK j \in Int : j = k - d
        OBVIOUS
      <4> QED BY <1>1, <1>2, <3>1, <3>2, <4>1
    <3>4. Shows(a[j])
      BY <3>1, <3>3 DEF Alike
    <3>5. ASSUME NEW l \in 1 .. m, j < l, l < p PROVE IsMark(a[l])
      <4>1. PICK o \in Int : o = l + d
        OBVIOUS
      <4>2. k < o /\ o < q /\ o \in 1 .. n
        BY <1>1, <1>2, <3>2, <3>3, <3>5, <4>1
      <4>3. IsMark(b[o])
        BY <3>1, <4>2
      <4>4. b[o] = a[l]
        BY <3>3, <3>5, <4>1 DEF Alike
      <4> QED BY <4>3, <4>4
    <3> QED BY <3>3, <3>4, <3>5 DEF ShowsBefore
  <2>5. Survives(a, p) <=> ~IsMark(a[p]) /\ ShowsBefore(a, m, p)
    BY <1>3, <1>6, <2>2, SurvivesWhen
  <2>6. Survives(b, q) <=> ~IsMark(b[q]) /\ ShowsBefore(b, n, q)
    BY <1>4, <1>6, <2>2, SurvivesWhen
  <2> QED BY <1>1, <1>4, <2>3, <2>4, <2>5, <2>6
<1> QED BY <1>5, <1>6

LEMMA FunctionWritten ==
  ASSUME NEW n \in Nat, NEW f, Listed(f, n)
  PROVE  Written(f, n)
<1>1. PICK S : S = {f[i] : i \in 1 .. n}
  OBVIOUS
<1> QED BY <1>1, SequenceOf DEF Written

Places(text, n) == {i \in 1 .. n : Survives(text, i)}

\* A clean text of c characters, each from one of the places S.
CleanedBy(norm, text, S, c) ==
    /\ S \in SUBSET Int /\ IsFiniteSet(S) /\ c \in Nat
    /\ norm.map \in [1 .. c -> S]
    /\ \A i \in 1 .. c : Rank(S, norm.map[i]) = i
    /\ \A i, j \in 1 .. c : i < j => norm.map[i] < norm.map[j]
    /\ \A k \in S : Rank(S, k) \in 1 .. c /\ norm.map[Rank(S, k)] = k
    /\ Written(norm.text, c)
    /\ \A i \in 1 .. c : norm.text[i] = Emitted(text[norm.map[i]])

LEMMA NormalizedIs ==
  ASSUME NEW n \in Nat, NEW text, Written(text, n), NEW norm, norm = NormalizeWithMap(text)
  PROVE  \E c \in Nat : CleanedBy(norm, text, Places(text, n), c)
<1>1. PICK S : S = Places(text, n)
  OBVIOUS
<1>2. S \in SUBSET (1 .. n)
  BY <1>1 DEF Places
<1>3. S \in SUBSET Int /\ IsFiniteSet(S)
  BY <1>2, Positions
<1>4. PICK map : map = Ascending(S)
  OBVIOUS
<1>5. PICK c \in Nat : c = Cardinality(S)
  BY <1>3, AscendingIs
<1>6. /\ map \in [1 .. c -> S]
      /\ \A i \in 1 .. c : Rank(S, map[i]) = i
      /\ \A i, j \in 1 .. c : i < j => map[i] < map[j]
      /\ \A k \in S : Rank(S, k) \in 1 .. c /\ map[Rank(S, k)] = k
  BY <1>3, <1>4, <1>5, AscendingIs
<1>7. norm.map = map /\ norm.text = [k \in 1 .. c |-> Emitted(text[map[k]])]
  <2>1. S = {i \in DOMAIN text : Survives(text, i)}
    BY <1>1 DEF Places, Written
  <2>2. DOMAIN map = 1 .. c
    BY <1>6
  <2> QED BY <1>4, <2>1, <2>2 DEF NormalizeWithMap
<1>8. PICK clean : clean = norm.text
  OBVIOUS
<1>9. Listed(clean, c) /\ \A i \in 1 .. c : clean[i] = Emitted(text[map[i]])
  BY <1>7, <1>8 DEF Listed
<1>10. Written(clean, c)
  BY <1>9, FunctionWritten
<1>11. CleanedBy(norm, text, S, c)
  BY <1>3, <1>6, <1>7, <1>8, <1>9, <1>10 DEF CleanedBy
<1> QED BY <1>1, <1>11

\* A clean text begins and ends with a character that shows.
LEMMA EndsShow ==
  ASSUME NEW n \in Nat, NEW text, Written(text, n), NEW norm, NEW c \in Nat,
         CleanedBy(norm, text, Places(text, n), c)
  PROVE  /\ \A i \in 1 .. c : norm.map[i] \in 1 .. n /\ (Shows(text[norm.map[i]]) <=> norm.text[i] # " ")
         /\ c # 0 => norm.text[1] # " " /\ norm.text[c] # " "
<1>1. PICK S : S = Places(text, n)
  OBVIOUS
<1>2. PICK map : map = norm.map
  OBVIOUS
<1>3. /\ S \in SUBSET Int /\ map \in [1 .. c -> S]
      /\ \A i, j \in 1 .. c : i < j => map[i] < map[j]
      /\ \A k \in S : Rank(S, k) \in 1 .. c /\ map[Rank(S, k)] = k
      /\ \A i \in 1 .. c : norm.text[i] = Emitted(text[map[i]])
  BY <1>1, <1>2 DEF CleanedBy
<1>4. \A k \in S : k \in 1 .. n /\ Survives(text, k)
  BY <1>1 DEF Places
<1>5. \A i \in 1 .. c : map[i] \in 1 .. n /\ Survives(text, map[i]) /\ map[i] \in S
  BY <1>3, <1>4
<1>6. \A k \in 1 .. n : Shows(text[k]) => k \in S
  <2>1. SUFFICES ASSUME NEW k \in 1 .. n, Shows(text[k]) PROVE k \in S
    OBVIOUS
  <2>2. Survives(text, k)
    BY <2>1, SurvivesWhen DEF Shows
  <2> QED BY <1>1, <2>2 DEF Places
<1>7. ASSUME NEW i \in 1 .. c PROVE map[i] \in 1 .. n /\ (Shows(text[map[i]]) <=> norm.text[i] # " ")
  <2>1. PICK k \in 1 .. n : k = map[i] /\ Survives(text, k)
    BY <1>5
  <2>2. ~IsMark(text[k])
    BY <2>1, SurvivesWhen
  <2> QED BY <1>3, <2>1, <2>2 DEF Shows
<1>8. ASSUME c # 0, ~Shows(text[map[1]]) PROVE FALSE
  <2>1. 1 \in 1 .. c
    BY <1>8
  <2>2. PICK k \in 1 .. n : k = map[1] /\ Survives(text, k)
    BY <1>5, <2>1
  <2>3. ShowsBefore(text, n, k)
    BY <1>8, <2>2, SurvivesWhen
  <2>4. PICK j \in 1 .. n : j < k /\ Shows(text[j])
    BY <2>3 DEF ShowsBefore
  <2>5. PICK r \in 1 .. c : map[r] = j
    BY <1>3, <1>6, <2>4
  <2>6. r = 1 \/ 1 < r
    OBVIOUS
  <2>7. r # 1
    BY <2>2, <2>4, <2>5
  <2>8. k < j
    BY <1>3, <2>1, <2>2, <2>5, <2>6, <2>7
  <2> QED BY <2>4, <2>8
<1>9. ASSUME c # 0, ~Shows(text[map[c]]) PROVE FALSE
  <2>1. c \in 1 .. c
    BY <1>9
  <2>2. PICK k \in 1 .. n : k = map[c] /\ Survives(text, k)
    BY <1>5, <2>1
  <2>3. ShowsAfter(text, n, k)
    BY <1>9, <2>2, SurvivesWhen
  <2>4. PICK j \in 1 .. n : k < j /\ Shows(text[j])
    BY <2>3 DEF ShowsAfter
  <2>5. PICK r \in 1 .. c : map[r] = j
    BY <1>3, <1>6, <2>4
  <2>6. r = c \/ r < c
    OBVIOUS
  <2>7. r # c
    BY <2>2, <2>4, <2>5
  <2>8. j < k
    BY <1>3, <2>1, <2>2, <2>5, <2>6, <2>7
  <2> QED BY <2>4, <2>8
<1>10. ASSUME c # 0 PROVE norm.text[1] # " " /\ norm.text[c] # " "
  <2>1. 1 \in 1 .. c /\ c \in 1 .. c
    BY <1>10
  <2> QED BY <1>7, <1>8, <1>9, <1>10, <2>1
<1> QED BY <1>2, <1>7, <1>10

\* From x to y of one clean text is at z of the other, d apart in the texts.
SamePiece(na, nb, x, y, z, d) ==
    \A i \in Nat : i <= y - x => nb.map[z + i] = na.map[x + i] + d /\ nb.text[z + i] = na.text[x + i]

LEMMA PieceSurvives ==
  ASSUME NEW m \in Nat, NEW a, Written(a, m), NEW n \in Nat, NEW b, Written(b, n), NEW d \in Int,
         NEW s, NEW e, Piece(a, m, b, n, s, e, d)
  PROVE  Moved(Places(a, m), Places(b, n), s, e, d)
<1>1. s \in 1 .. m /\ e \in 1 .. m /\ s <= e /\ s + d \in 1 .. n /\ e + d \in 1 .. n
  BY DEF Piece
<1>2. Alike(a, b, s, e, d) /\ Shows(a[s]) /\ Shows(a[e])
  BY DEF Piece
<1>3. SUFFICES ASSUME NEW p \in Int, s <= p, p <= e
               PROVE  p \in Places(a, m) <=> p + d \in Places(b, n)
  BY DEF Moved
<1>4. p \in 1 .. m /\ p + d \in 1 .. n
  BY <1>1, <1>3
<1>5. Survives(a, p) <=> Survives(b, p + d)
  BY <1>3, SurvivesAlike
<1> QED BY <1>4, <1>5 DEF Places

RanksApart(S, T, k, l, d) ==
    k + d \in T /\ l + d \in T /\ Rank(T, l + d) - Rank(T, k + d) = Rank(S, l) - Rank(S, k)

LEMMA RanksMovedApart ==
  ASSUME NEW S, S \in SUBSET Int /\ IsFiniteSet(S), NEW T, T \in SUBSET Int /\ IsFiniteSet(T), NEW d \in Int,
         NEW k \in S, NEW l \in S, k <= l, Moved(S, T, k, l, d)
  PROVE  RanksApart(S, T, k, l, d)
<1>1. PICK kd : kd = k + d
  OBVIOUS
<1>2. PICK ld : ld = l + d
  OBVIOUS
<1>3. kd \in T /\ ld \in T /\ Rank(T, ld) - Rank(T, kd) = Rank(S, l) - Rank(S, k)
  BY <1>1, <1>2, RanksMoved
<1> QED BY <1>1, <1>2, <1>3 DEF RanksApart

LEMMA PieceHeld ==
  ASSUME NEW m \in Nat, NEW a, Written(a, m), NEW na, NEW ca \in Nat, CleanedBy(na, a, Places(a, m), ca),
         NEW n \in Nat, NEW b, Written(b, n), NEW nb, NEW cb \in Nat, CleanedBy(nb, b, Places(b, n), cb),
         NEW x \in 1 .. ca, NEW y \in 1 .. ca, x <= y,
         NEW s, s = na.map[x], NEW e, e = na.map[y],
         NEW d \in Int, Piece(a, m, b, n, s, e, d)
  PROVE  \E z \in 1 .. cb : z + (y - x) <= cb /\ SamePiece(na, nb, x, y, z, d)
<1>0. s \in 1 .. m /\ e \in 1 .. m /\ s <= e /\ s + d \in 1 .. n /\ e + d \in 1 .. n /\ Alike(a, b, s, e, d)
  BY DEF Piece
<1>1. PICK S : S = Places(a, m)
  OBVIOUS
<1>2. PICK T : T = Places(b, n)
  OBVIOUS
<1>3. PICK f : f = na.map
  OBVIOUS
<1>4. PICK g : g = nb.map
  OBVIOUS
<1>5. /\ S \in SUBSET Int /\ IsFiniteSet(S) /\ f \in [1 .. ca -> S]
      /\ \A i \in 1 .. ca : Rank(S, f[i]) = i
      /\ \A i, j \in 1 .. ca : i < j => f[i] < f[j]
      /\ \A i \in 1 .. ca : na.text[i] = Emitted(a[f[i]])
  BY <1>1, <1>3 DEF CleanedBy
<1>6. /\ T \in SUBSET Int /\ IsFiniteSet(T) /\ g \in [1 .. cb -> T]
      /\ \A k \in T : Rank(T, k) \in 1 .. cb /\ g[Rank(T, k)] = k
      /\ \A i \in 1 .. cb : nb.text[i] = Emitted(b[g[i]])
  BY <1>2, <1>4 DEF CleanedBy
<1>7. s = f[x] /\ e = f[y] /\ s \in S /\ e \in S
  BY <1>3, <1>5
<1>8. s <= e /\ s \in Int /\ e \in Int
  BY <1>0
<1>9. Moved(S, T, s, e, d)
  BY <1>1, <1>2, PieceSurvives
<1>10. PICK sd \in 1 .. n : sd = s + d
  BY <1>0
<1>11. sd \in T
  BY <1>7, <1>8, <1>9, <1>10 DEF Moved
<1>12. PICK z \in 1 .. cb : z = Rank(T, sd)
  BY <1>6, <1>11
<1>13. ASSUME NEW i \in Nat, i <= y - x
       PROVE  z + i \in 1 .. cb /\ g[z + i] = f[x + i] + d /\ nb.text[z + i] = na.text[x + i]
  <2>1. PICK j \in 1 .. ca : j = x + i /\ j <= y /\ x <= j
    BY <1>13
  <2>2. PICK l \in S : l = f[j]
    BY <1>5
  <2>3. l \in Int /\ s \in Int /\ e \in Int
    BY <1>5, <1>8
  <2>4. s <= l /\ l <= e
    <3>1. x = j \/ x < j
      BY <2>1
    <3>2. j = y \/ j < y
      BY <2>1
    <3>3. x < j => s < l
      BY <1>5, <1>7, <2>1, <2>2
    <3>4. j < y => l < e
      BY <1>5, <1>7, <2>1, <2>2
    <3>5. x = j => s = l
      BY <1>7, <2>1, <2>2
    <3>6. j = y => l = e
      BY <1>7, <2>1, <2>2
    <3> QED BY <2>3, <3>1, <3>2, <3>3, <3>4, <3>5, <3>6
  <2>5. Moved(S, T, s, l, d)
    BY <1>9, <2>3, <2>4 DEF Moved
  <2>5a. RanksApart(S, T, s, l, d)
    BY <1>5, <1>6, <1>7, <2>2, <2>4, <2>5, RanksMovedApart
  <2>6. PICK ld \in Int : ld = l + d
    BY <2>3
  <2>7. ld \in T /\ Rank(T, ld) - Rank(T, sd) = Rank(S, l) - Rank(S, s)
    BY <1>10, <2>5a, <2>6 DEF RanksApart
  <2>8. Rank(S, l) = j /\ Rank(S, s) = x
    BY <1>5, <1>7, <2>2
  <2>9. Rank(T, ld) \in 1 .. cb /\ g[Rank(T, ld)] = ld
    BY <1>6, <2>7
  <2>10. Rank(T, ld) = z + i
    BY <1>12, <2>1, <2>7, <2>8, <2>9
  <2>11. nb.text[z + i] = Emitted(b[ld]) /\ na.text[x + i] = Emitted(a[l])
    BY <1>5, <1>6, <2>1, <2>2, <2>9, <2>10
  <2>12. b[ld] = a[l]
    BY <1>0, <2>3, <2>4, <2>6 DEF Alike
  <2> QED BY <2>1, <2>2, <2>6, <2>9, <2>10, <2>11, <2>12
<1>14. y - x \in Nat /\ z + (y - x) <= cb
  <2>1. y - x \in Nat
    OBVIOUS
  <2>2. PICK i \in Nat : i = y - x
    BY <2>1
  <2>3. z + i \in 1 .. cb
    BY <1>13, <2>2
  <2> QED BY <2>1, <2>2, <2>3
<1>15. SamePiece(na, nb, x, y, z, d)
  BY <1>3, <1>4, <1>13 DEF SamePiece
<1> QED BY <1>14, <1>15

\* Where a needle of q characters is held, at k.
HeldAt(needle, q, text, k) == \A i \in 1 .. q : text[k + i - 1] = needle[i]

LEMMA IndexOfIs ==
  ASSUME NEW q \in Nat, NEW needle, Written(needle, q), NEW n \in Nat, NEW text, Written(text, n),
         NEW at, at = IndexOf(needle, text)
  PROVE  /\ at # 0 => at \in 1 .. n - q + 1 /\ HeldAt(needle, q, text, at)
         /\ \A k \in 1 .. n - q + 1 : HeldAt(needle, q, text, k) => at # 0
<1>1. PICK found : found = {k \in 1 .. n - q + 1 : SubSeq(text, k, k + q - 1) = needle}
  OBVIOUS
<1>2. at = IF found = {} THEN 0 ELSE Min(found)
  <2>1. found = {k \in 1 .. Len(text) - Len(needle) + 1 : SubSeq(text, k, k + Len(needle) - 1) = needle}
    BY <1>1 DEF Written
  <2> QED BY <2>1 DEF IndexOf
<1>3. ASSUME NEW k \in 1 .. n - q + 1 PROVE SubSeq(text, k, k + q - 1) = needle <=> HeldAt(needle, q, text, k)
  <2>1. PICK A : A = {text[i] : i \in 1 .. n} \cup {needle[i] : i \in 1 .. q}
    OBVIOUS
  <2>2. PICK l \in Int : l = k + q - 1
    OBVIOUS
  <2>3. \A i \in k .. l : text[i] \in A
    <3>1. \A i \in k .. l : i \in 1 .. n
      BY <2>2
    <3> QED BY <2>1, <3>1
  <2>4. PICK piece : piece = SubSeq(text, k, l)
    OBVIOUS
  <2>5. k \in Int /\ l \in Int
    OBVIOUS
  <2>6. piece \in Seq(A) /\ Len(piece) = (IF k <= l THEN l - k + 1 ELSE 0) /\ \A i \in 1 .. l - k + 1 : piece[i] = text[k + i - 1]
    BY <2>3, <2>4, <2>5, SubSeqProperties
  <2>7. l - k + 1 = q /\ (IF k <= l THEN l - k + 1 ELSE 0) = q
    BY <2>2
  <2>8. Len(piece) = q /\ \A i \in 1 .. q : piece[i] = text[k + i - 1]
    BY <2>6, <2>7
  <2>9. needle \in Seq(A) /\ Len(needle) = q
    <3>1. Listed(needle, q) /\ {needle[i] : i \in 1 .. q} \subseteq A
      BY <2>1 DEF Written
    <3> QED BY <3>1, SequenceOf
  <2>10. piece = needle <=> \A i \in 1 .. q : piece[i] = needle[i]
    BY <2>6, <2>8, <2>9, SeqEqual
  <2> QED BY <2>2, <2>4, <2>8, <2>10 DEF HeldAt
<1>4. found \in SUBSET Int /\ IsFiniteSet(found)
  <2>1. found \in SUBSET (1 .. n - q + 1)
    BY <1>1
  <2>2. IsFiniteSet(1 .. n - q + 1)
    <3>1. 1 \in Int /\ n - q + 1 \in Int
      OBVIOUS
    <3> QED BY <3>1, FS_Interval
  <2>3. found \in SUBSET Int
    BY <2>1
  <2> QED BY <2>1, <2>2, <2>3, FS_Subset
<1>5. ASSUME at # 0 PROVE at \in 1 .. n - q + 1 /\ HeldAt(needle, q, text, at)
  <2>1. found # {} /\ at = Min(found)
    BY <1>2, <1>5
  <2>2. Min(found) \in found
    BY <1>4, <2>1, FirstKept
  <2>3. at \in found
    BY <2>1, <2>2
  <2>4. at \in 1 .. n - q + 1 /\ SubSeq(text, at, at + q - 1) = needle
    BY <1>1, <2>3
  <2> QED BY <1>3, <2>4
<1>6. ASSUME NEW k \in 1 .. n - q + 1, HeldAt(needle, q, text, k) PROVE at # 0
  <2>1. k \in found
    BY <1>1, <1>3, <1>6
  <2>2. at = Min(found) /\ found # {}
    BY <1>2, <2>1
  <2>3. Min(found) \in found
    BY <1>4, <2>2, FirstKept
  <2>4. at \in 1 .. n - q + 1
    BY <1>1, <2>2, <2>3
  <2> QED BY <2>4
<1> QED BY <1>5, <1>6

LEMMA CharactersAlike ==
  ASSUME NEW c
  PROVE  /\ IsMark(Lowered(c)) <=> IsMark(c)
         /\ Emitted(c) = IF IsPunctuation(Lowered(c)) THEN " " ELSE Lowered(c)
         /\ Shows(c) <=> IsWord(c)
         /\ Shows(c) => c # " " /\ c # "."
<1>1. IsMark(Lowered(c)) <=> IsMark(c)
  BY DEF Lowered, IsMark
<1>2. IsPunctuation(c) <=> IsPunctuation(Lowered(c))
  BY DEF Lowered, IsPunctuation
<1>3. Emitted(c) = " " <=> IsPunctuation(c) \/ c = " "
  BY DEF Lowered, Emitted, IsPunctuation
<1>4. Emitted(c) = IF IsPunctuation(Lowered(c)) THEN " " ELSE Lowered(c)
  BY <1>2 DEF Emitted
<1>5. IsPunctuation(".")
  BY DEF IsPunctuation
<1>6. Shows(c) <=> IsWord(c)
  BY <1>3 DEF Shows, IsWord
<1>7. IsWord(c) => c # " " /\ c # "."
  BY <1>5 DEF IsWord
<1> QED BY <1>1, <1>4, <1>6, <1>7

\* The u characters of a text that are no marks, in order, cleaned.
Unmarked(text, n, order, spaced, u) ==
    LET U == {i \in 1 .. n : ~IsMark(text[i])}
    IN  /\ u = Cardinality(U) /\ order = Ascending(U)
        /\ \A i \in 1 .. u : spaced[i] = Emitted(text[order[i]])

\* Those of them that are kept.
Stays(spaced, u, k) ==
    spaced[k] # " " \/ (/\ k > 1 /\ spaced[k - 1] # " "
                        /\ \E j \in 1 .. u : j > k /\ spaced[j] # " ")

LEMMA KeptOfTheUnmarked ==
  ASSUME NEW n \in Nat, NEW text, Written(text, n), NEW order, NEW spaced, NEW u \in Nat,
         Unmarked(text, n, order, spaced, u), NEW k \in 1 .. u
  PROVE  Survives(text, order[k]) <=> Stays(spaced, u, k)
<1>0. PICK U : U = {i \in 1 .. n : ~IsMark(text[i])}
  OBVIOUS
<1>00. u = Cardinality(U) /\ order = Ascending(U)
  BY <1>0 DEF Unmarked
<1>000. \A i \in 1 .. u : spaced[i] = Emitted(text[order[i]])
  BY DEF Unmarked
<1>1. U \in SUBSET Int /\ IsFiniteSet(U)
  <2>1. U \in SUBSET (1 .. n)
    BY <1>0
  <2> QED BY <2>1, Positions
<1>2. /\ order \in [1 .. u -> U]
      /\ \A i, j \in 1 .. u : i < j => order[i] < order[j]
      /\ \A p \in U : Rank(U, p) \in 1 .. u /\ order[Rank(U, p)] = p
  BY <1>00, <1>1, AscendingIs
<1>3. \A i \in 1 .. u : order[i] \in 1 .. n /\ ~IsMark(text[order[i]])
  BY <1>0, <1>2
<1>4. \A i \in 1 .. u : Shows(text[order[i]]) <=> spaced[i] # " "
  BY <1>3, <1>000 DEF Shows
<1>5. \A p \in 1 .. n : ~IsMark(text[p]) => \E i \in 1 .. u : order[i] = p
  BY <1>0, <1>2
<1>6. \A p \in 1 .. n : Shows(text[p]) => ~IsMark(text[p])
  BY DEF Shows
<1>7. PICK i \in 1 .. n : i = order[k] /\ ~IsMark(text[i])
  BY <1>3
<1>8. ASSUME NEW r \in 1 .. u, NEW p, p = order[r]
      PROVE  p < i <=> r < k
  <2>1. r < k \/ r = k \/ k < r
    OBVIOUS
  <2>2. p \in Int /\ i \in Int
    BY <1>3, <1>8
  <2> QED BY <1>2, <1>7, <1>8, <2>1, <2>2
<1>9. ShowsBefore(text, n, i) <=> k > 1 /\ spaced[k - 1] # " "
  <2>1. ASSUME k > 1, spaced[k - 1] # " " PROVE ShowsBefore(text, n, i)
    <3>0. PICK h \in Int : h = k - 1
      OBVIOUS
    <3>00. k > 1
      BY <2>1
    <3>1. h \in 1 .. u /\ h = k - 1 /\ h < k
      BY <3>0, <3>00
    <3>2. PICK j \in 1 .. n : j = order[h]
      BY <1>3, <3>1
    <3>3. j < i /\ Shows(text[j])
      BY <1>4, <1>8, <2>1, <3>1, <3>2
    <3>4. ASSUME NEW l \in 1 .. n, j < l, l < i, ~IsMark(text[l]) PROVE FALSE
      <4>1. PICK r \in 1 .. u : order[r] = l
        BY <1>5, <3>4
      <4>2. r < k
        BY <1>8, <3>4, <4>1
      <4>3. r = h \/ r < h
        BY <3>1, <4>2
      <4>4. r < h => l < j
        BY <1>2, <3>1, <3>2, <4>1
      <4> QED BY <3>2, <3>4, <4>1, <4>3, <4>4
    <3> QED BY <3>3, <3>4 DEF ShowsBefore
  <2>2. ASSUME ShowsBefore(text, n, i) PROVE k > 1 /\ spaced[k - 1] # " "
    <3>1. PICK j \in 1 .. n : j < i /\ Shows(text[j]) /\ \A l \in 1 .. n : j < l /\ l < i => IsMark(text[l])
      BY <2>2 DEF ShowsBefore
    <3>2. PICK r \in 1 .. u : order[r] = j
      BY <1>5, <1>6, <3>1
    <3>3. r < k
      BY <1>8, <3>1, <3>2
    <3>3a. PICK h \in Int : h = k - 1
      OBVIOUS
    <3>4. h \in 1 .. u /\ h = k - 1 /\ h < k
      BY <3>3, <3>3a
    <3>5. PICK l \in 1 .. n : l = order[h] /\ ~IsMark(text[l])
      BY <1>3, <3>4
    <3>6. l < i
      BY <1>8, <3>4, <3>5
    <3>7. ~(r < h)
      <4>1. r < h => j < l
        BY <1>2, <3>2, <3>4, <3>5
      <4> QED BY <3>1, <3>5, <3>6, <4>1
    <3>8. r = h
      BY <3>3, <3>4, <3>7
    <3>9. spaced[h] # " "
      BY <1>4, <3>1, <3>2, <3>8
    <3>10. k > 1 /\ k - 1 = h
      BY <3>3, <3>4
    <3> QED BY <3>9, <3>10
  <2> QED BY <2>1, <2>2
<1>10. ShowsAfter(text, n, i) <=> \E j \in 1 .. u : j > k /\ spaced[j] # " "
  <2>1. ASSUME NEW r \in 1 .. u, NEW p, p = order[r] PROVE i < p <=> k < r
    <3>1. p < i <=> r < k
      BY <1>8, <2>1
    <3>2. p = i <=> r = k
      <4>1. r < k \/ r = k \/ k < r
        OBVIOUS
      <4> QED BY <1>2, <1>3, <1>7, <2>1, <4>1
    <3>3. p \in Int /\ i \in Int
      BY <1>3, <2>1
    <3> QED BY <3>1, <3>2, <3>3
  <2>2. ASSUME NEW j \in 1 .. u, j > k, spaced[j] # " " PROVE ShowsAfter(text, n, i)
    <3>1. PICK p \in 1 .. n : p = order[j]
      BY <1>3
    <3>2. i < p /\ Shows(text[p])
      BY <1>4, <2>1, <2>2, <3>1
    <3> QED BY <3>2 DEF ShowsAfter
  <2>3. ASSUME ShowsAfter(text, n, i) PROVE \E j \in 1 .. u : j > k /\ spaced[j] # " "
    <3>1. PICK p \in 1 .. n : i < p /\ Shows(text[p])
      BY <2>3 DEF ShowsAfter
    <3>2. PICK r \in 1 .. u : order[r] = p
      BY <1>5, <1>6, <3>1
    <3>3. k < r
      BY <2>1, <3>1, <3>2
    <3> QED BY <1>4, <3>1, <3>2, <3>3
  <2> QED BY <2>2, <2>3
<1>11. Survives(text, i) <=>
        ~IsMark(text[i]) /\ (Shows(text[i]) \/ (ShowsBefore(text, n, i) /\ ShowsAfter(text, n, i)))
  BY SurvivesWhen
<1> QED BY <1>4, <1>7, <1>9, <1>10, <1>11 DEF Stays

\* The two cleanings of a text are the same.
LEMMA CleanedAlike ==
  ASSUME NEW n \in Nat, NEW text, Written(text, n)
  PROVE  CleanText(text) = NormalizeWithMap(text).text
<1>1. PICK U : U = {i \in 1 .. n : ~IsMark(text[i])}
  OBVIOUS
<1>2. U \in SUBSET Int /\ IsFiniteSet(U) /\ Cardinality(U) \in Nat
  <2>1. U \in SUBSET (1 .. n)
    BY <1>1
  <2> QED BY <2>1, Positions
<1>3. PICK order : order = Ascending(U)
  OBVIOUS
<1>4. PICK u \in Nat : u = Cardinality(U)
  BY <1>2
<1>5. /\ order \in [1 .. u -> U]
      /\ \A i, j \in 1 .. u : i < j => order[i] < order[j]
      /\ \A p \in U : Rank(U, p) \in 1 .. u /\ order[Rank(U, p)] = p
  BY <1>2, <1>3, <1>4, AscendingIs
<1>6. PICK lowered : lowered = LowerCase(text)
  OBVIOUS
<1>7. PICK bare : bare = WithoutMarks(lowered)
  OBVIOUS
<1>8. PICK spaced : spaced = WithoutPunctuation(bare)
  OBVIOUS
<1>9. PICK K : K = {i \in DOMAIN spaced : spaced[i] # " " \/ (/\ i > 1 /\ spaced[i - 1] # " "
                                                             /\ \E j \in DOMAIN spaced : j > i /\ spaced[j] # " ")}
  OBVIOUS
<1>10. CleanText(text) = Only(spaced, K)
  <2>1. WithSingleBlanks(spaced) = Only(spaced, K)
    BY <1>9 DEF WithSingleBlanks
  <2> QED BY <1>6, <1>7, <1>8, <2>1 DEF CleanText
<1>10a. DOMAIN lowered = 1 .. n /\ \A i \in 1 .. n : lowered[i] = Lowered(text[i])
  BY <1>6 DEF Written, LowerCase
<1>10b. U = {i \in DOMAIN lowered : ~IsMark(lowered[i])}
  BY <1>1, <1>10a, CharactersAlike
<1>10c. DOMAIN bare = 1 .. u /\ \A i \in 1 .. u : bare[i] = lowered[order[i]]
  <2>1. bare = [i \in 1 .. u |-> lowered[order[i]]]
    <3>1. bare = Only(lowered, U)
      BY <1>7, <1>10b DEF WithoutMarks
    <3> QED BY <1>2, <1>3, <1>4, <3>1, OnlyIs
  <2> QED BY <2>1
<1>10d. DOMAIN spaced = 1 .. u /\ \A i \in 1 .. u : spaced[i] = IF IsPunctuation(bare[i]) THEN " " ELSE bare[i]
  BY <1>8, <1>10c DEF WithoutPunctuation
<1>11. Unmarked(text, n, order, spaced, u)
  <2>1. ASSUME NEW i \in 1 .. u PROVE spaced[i] = Emitted(text[order[i]])
    <3>1. PICK p \in 1 .. n : p = order[i]
      BY <1>1, <1>5
    <3>2. bare[i] = Lowered(text[p])
      BY <1>10a, <1>10c, <3>1
    <3> QED BY <1>10d, <3>1, <3>2, CharactersAlike
  <2> QED BY <1>1, <1>3, <1>4, <2>1 DEF Unmarked
<1>12. \A k \in 1 .. u : k \in K <=> Survives(text, order[k])
  <2>1. SUFFICES ASSUME NEW k \in 1 .. u PROVE k \in K <=> Survives(text, order[k])
    OBVIOUS
  <2>2. k \in K <=> Stays(spaced, u, k)
    BY <1>9, <1>10d DEF Stays
  <2>3. Survives(text, order[k]) <=> Stays(spaced, u, k)
    BY <1>11, KeptOfTheUnmarked
  <2> QED BY <2>2, <2>3
<1>13. K \in SUBSET (1 .. u)
  BY <1>9, <1>10d
<1>14. K \in SUBSET Int /\ IsFiniteSet(K) /\ Cardinality(K) \in Nat
  BY <1>13, Positions
<1>15. PICK at : at = Ascending(K)
  OBVIOUS
<1>16. PICK c \in Nat : c = Cardinality(K)
  BY <1>14
<1>17. /\ at \in [1 .. c -> K]
       /\ \A i, j \in 1 .. c : i < j => at[i] < at[j]
       /\ \A p \in K : Rank(K, p) \in 1 .. c /\ at[Rank(K, p)] = p
  BY <1>14, <1>15, <1>16, AscendingIs
<1>18. PICK S : S = Places(text, n)
  OBVIOUS
<1>19. S \in SUBSET Int /\ IsFiniteSet(S)
  <2>1. S \in SUBSET (1 .. n)
    BY <1>18 DEF Places
  <2> QED BY <2>1, Positions
<1>20. PICK f : f = [i \in 1 .. c |-> order[at[i]]]
  OBVIOUS
<1>21. f \in [1 .. c -> S]
  <2>1. ASSUME NEW i \in 1 .. c PROVE order[at[i]] \in S
    <3>1. PICK k \in K : k = at[i]
      BY <1>17
    <3>2. k \in 1 .. u
      BY <1>13
    <3>3. order[k] \in 1 .. n /\ Survives(text, order[k])
      BY <1>1, <1>5, <1>12, <3>2
    <3> QED BY <1>18, <3>1, <3>3 DEF Places
  <2> QED BY <1>20, <2>1
<1>22. \A k \in S : \E i \in 1 .. c : f[i] = k
  <2>1. SUFFICES ASSUME NEW p \in S PROVE \E i \in 1 .. c : f[i] = p
    OBVIOUS
  <2>2. p \in 1 .. n /\ Survives(text, p)
    BY <1>18 DEF Places
  <2>3. ~IsMark(text[p])
    BY <2>2 DEF Survives
  <2>4. PICK r \in 1 .. u : order[r] = p
    BY <1>1, <1>5, <2>2, <2>3
  <2>5. r \in K
    BY <1>12, <2>2, <2>4
  <2>6. PICK i \in 1 .. c : at[i] = r
    BY <1>17, <2>5
  <2> QED BY <1>20, <2>4, <2>6
<1>23. \A i, j \in 1 .. c : i < j => f[i] < f[j]
  <2>1. SUFFICES ASSUME NEW i \in 1 .. c, NEW j \in 1 .. c, i < j PROVE f[i] < f[j]
    OBVIOUS
  <2>2. PICK k \in 1 .. u : k = at[i]
    BY <1>13, <1>17
  <2>3. PICK l \in 1 .. u : l = at[j]
    BY <1>13, <1>17
  <2>4. k < l
    BY <1>17, <2>1, <2>2, <2>3
  <2>5. order[k] < order[l]
    BY <1>5, <2>4
  <2> QED BY <1>20, <2>2, <2>3, <2>5
<1>24. c = Cardinality(S) /\ f = Ascending(S)
  BY <1>19, <1>21, <1>22, <1>23, OnlyOneOrder
<1>25. NormalizeWithMap(text).text = [i \in 1 .. c |-> Emitted(text[f[i]])]
  <2>1. S = {i \in DOMAIN text : Survives(text, i)}
    BY <1>18 DEF Places, Written
  <2>2. DOMAIN f = 1 .. c
    BY <1>20
  <2> QED BY <1>24, <2>1, <2>2 DEF NormalizeWithMap
<1>26. CleanText(text) = [i \in 1 .. c |-> spaced[at[i]]]
  BY <1>10, <1>14, <1>15, <1>16, OnlyIs
<1>27. ASSUME NEW i \in 1 .. c PROVE spaced[at[i]] = Emitted(text[f[i]])
  <2>1. PICK k \in 1 .. u : k = at[i]
    BY <1>13, <1>17
  <2> QED BY <1>11, <1>20, <2>1 DEF Unmarked
<1> QED BY <1>25, <1>26, <1>27

\* A text of n characters and its clean text of c.
Cleaned(text, n, norm, c) ==
    /\ n \in Nat /\ c \in Nat /\ Written(text, n)
    /\ norm = NormalizeWithMap(text) /\ CleanedBy(norm, text, Places(text, n), c)

LEMMA EachIsCleaned ==
  ASSUME NEW n \in Nat, NEW text, Written(text, n)
  PROVE  \E norm : \E c \in Nat : Cleaned(text, n, norm, c)
<1>1. PICK norm : norm = NormalizeWithMap(text)
  OBVIOUS
<1>2. PICK c \in Nat : CleanedBy(norm, text, Places(text, n), c)
  BY <1>1, NormalizedIs
<1>3. Cleaned(text, n, norm, c)
  BY <1>1, <1>2 DEF Cleaned
<1> QED BY <1>3

LEMMA CleanedReads ==
  ASSUME NEW n, NEW text, NEW norm, NEW c, Cleaned(text, n, norm, c)
  PROVE  /\ n \in Nat /\ c \in Nat /\ Written(text, n) /\ Written(norm.text, c)
         /\ CleanText(text) = norm.text /\ (norm.text = <<>> <=> c = 0)
<1>1. n \in Nat /\ c \in Nat /\ Written(text, n) /\ norm = NormalizeWithMap(text)
  BY DEF Cleaned
<1>2. PICK clean : clean = norm.text
  OBVIOUS
<1>3. Written(clean, c)
  BY <1>2 DEF Cleaned, CleanedBy
<1>4. Listed(clean, c)
  BY <1>3 DEF Written
<1>5. clean = <<>> <=> c = 0
  BY <1>1, <1>4, NotEmpty
<1>6. CleanText(text) = clean
  BY <1>1, <1>2, CleanedAlike
<1> QED BY <1>1, <1>2, <1>3, <1>5, <1>6

\* The clean text of the quote is in that of the text, from at on.
QuotedAt(nq, cq, nt, ct, at) ==
    cq # 0 /\ at \in 1 .. ct - cq + 1 /\ HeldAt(nq.text, cq, nt.text, at)

LEMMA LocatedIs ==
  ASSUME NEW q, NEW quote, NEW nq, NEW cq, Cleaned(quote, q, nq, cq),
         NEW n, NEW text, NEW nt, NEW ct, Cleaned(text, n, nt, ct),
         NEW found, found = LocateQuote(quote, text)
  PROVE  /\ found # Nowhere =>
                \E at \in Int : QuotedAt(nq, cq, nt, ct, at) /\ found = [start |-> nt.map[at], end |-> nt.map[at + cq - 1]]
         /\ (\E at \in Int : QuotedAt(nq, cq, nt, ct, at)) => found # Nowhere
         /\ found # Nowhere <=> cq # 0 /\ IndexOf(nq.text, nt.text) # 0
<1>1. q \in Nat /\ cq \in Nat /\ n \in Nat /\ ct \in Nat /\ Written(text, n) /\ Written(nq.text, cq) /\ Written(nt.text, ct)
  BY CleanedReads
<1>2. nq.text = <<>> <=> cq = 0
  BY CleanedReads
<1>3. PICK needle : needle = nq.text
  OBVIOUS
<1>4. PICK clean : clean = nt.text
  OBVIOUS
<1>5. PICK at : at = IndexOf(needle, clean)
  OBVIOUS
<1>6. Written(needle, cq) /\ Written(clean, ct)
  BY <1>1, <1>3, <1>4
<1>7. /\ at # 0 => at \in 1 .. ct - cq + 1 /\ HeldAt(needle, cq, clean, at)
      /\ \A k \in 1 .. ct - cq + 1 : HeldAt(needle, cq, clean, k) => at # 0
  BY <1>1, <1>5, <1>6, IndexOfIs
<1>8. found = IF cq = 0 \/ at = 0 THEN Nowhere ELSE [start |-> nt.map[at], end |-> nt.map[at + cq - 1]]
  <2>1. nq = NormalizeWithMap(quote) /\ nt = NormalizeWithMap(text)
    BY DEF Cleaned
  <2>2. Len(needle) = cq
    BY <1>6 DEF Written
  <2> QED BY <1>2, <1>3, <1>4, <1>5, <2>1, <2>2 DEF LocateQuote
<1>9. ASSUME cq # 0, at # 0 PROVE found # Nowhere
  <2>1. at \in 1 .. ct
    BY <1>1, <1>7, <1>9
  <2>2. nt.map[at] \in 1 .. n
    <3>1. CleanedBy(nt, text, Places(text, n), ct)
      BY DEF Cleaned
    <3> QED BY <1>1, <2>1, <3>1, EndsShow
  <2>3. found.start = nt.map[at]
    BY <1>8, <1>9
  <2> QED BY <1>1, <2>2, <2>3 DEF Nowhere
<1>10. found # Nowhere <=> cq # 0 /\ at # 0
  BY <1>8, <1>9
<1>11. ASSUME NEW k \in Int, QuotedAt(nq, cq, nt, ct, k) PROVE found # Nowhere
  <2>1. cq # 0 /\ k \in 1 .. ct - cq + 1 /\ HeldAt(needle, cq, clean, k)
    BY <1>3, <1>4, <1>11 DEF QuotedAt
  <2> QED BY <1>7, <1>10, <2>1
<1>12. ASSUME found # Nowhere
       PROVE  \E k \in Int : QuotedAt(nq, cq, nt, ct, k) /\ found = [start |-> nt.map[k], end |-> nt.map[k + cq - 1]]
  <2>1. cq # 0 /\ at \in Int /\ at \in 1 .. ct - cq + 1 /\ HeldAt(needle, cq, clean, at)
    BY <1>1, <1>7, <1>10, <1>12
  <2>2. QuotedAt(nq, cq, nt, ct, at)
    BY <1>3, <1>4, <2>1 DEF QuotedAt
  <2>3. found = [start |-> nt.map[at], end |-> nt.map[at + cq - 1]]
    BY <1>8, <1>10, <1>12
  <2> QED BY <2>1, <2>2, <2>3
<1>13. found # Nowhere <=> cq # 0 /\ IndexOf(nq.text, nt.text) # 0
  BY <1>3, <1>4, <1>5, <1>10
<1> QED BY <1>11, <1>12, <1>13

\* A quote begins and ends in the text on characters that show.
LEMMA QuotedShows ==
  ASSUME NEW q, NEW quote, NEW nq, NEW cq, Cleaned(quote, q, nq, cq),
         NEW n, NEW text, NEW nt, NEW ct, Cleaned(text, n, nt, ct),
         NEW at, QuotedAt(nq, cq, nt, ct, at), NEW y, y = at + (cq - 1)
  PROVE  /\ at \in 1 .. ct /\ y \in 1 .. ct /\ at <= y
         /\ nt.map[at] \in 1 .. n /\ nt.map[y] \in 1 .. n /\ nt.map[at] <= nt.map[y]
         /\ Shows(text[nt.map[at]]) /\ Shows(text[nt.map[y]])
<1>1. q \in Nat /\ cq \in Nat /\ n \in Nat /\ ct \in Nat /\ Written(quote, q) /\ Written(text, n)
  BY CleanedReads
<1>2. cq # 0 /\ at \in 1 .. ct - cq + 1
  BY DEF QuotedAt
<1>3. at \in 1 .. ct /\ y \in 1 .. ct /\ at <= y /\ 1 \in 1 .. cq /\ cq \in 1 .. cq
  BY <1>1, <1>2
<1>4. nt.text[at] = nq.text[1] /\ nt.text[y] = nq.text[cq]
  <2>1. \A i \in 1 .. cq : nt.text[at + i - 1] = nq.text[i]
    BY DEF QuotedAt, HeldAt
  <2>2. at + 1 - 1 = at /\ at + cq - 1 = y
    BY <1>1, <1>2
  <2>3. nt.text[at + 1 - 1] = nq.text[1] /\ nt.text[at + cq - 1] = nq.text[cq]
    BY <1>3, <2>1
  <2> QED BY <2>2, <2>3
<1>5. CleanedBy(nq, quote, Places(quote, q), cq) /\ CleanedBy(nt, text, Places(text, n), ct)
  BY DEF Cleaned
<1>6. nq.text[1] # " " /\ nq.text[cq] # " "
  BY <1>1, <1>2, <1>5, EndsShow
<1>7. \A i \in 1 .. ct : nt.map[i] \in 1 .. n /\ (Shows(text[nt.map[i]]) <=> nt.text[i] # " ")
  BY <1>1, <1>5, EndsShow
<1>8. \A i, j \in 1 .. ct : i < j => nt.map[i] < nt.map[j]
  BY <1>5 DEF CleanedBy
<1>9. nt.map[at] <= nt.map[y]
  <2>1. at = y \/ at < y
    BY <1>3
  <2>2. PICK s \in 1 .. n : s = nt.map[at]
    BY <1>3, <1>7
  <2>3. PICK e \in 1 .. n : e = nt.map[y]
    BY <1>3, <1>7
  <2>4. at < y => s < e
    BY <1>3, <1>8, <2>2, <2>3
  <2>5. at = y => s = e
    BY <2>2, <2>3
  <2>6. s <= e
    BY <2>1, <2>4, <2>5
  <2> QED BY <2>2, <2>3, <2>6
<1> QED BY <1>3, <1>4, <1>6, <1>7, <1>9

\* A text is in another, all of it, d further on.
Within(a, m, b, n, d) ==
    d \in Int /\ \A p \in 1 .. m : p + d \in 1 .. n /\ b[p + d] = a[p]

\* A quote found in a text is found in each text that one is in.
LEMMA FoundAround ==
  ASSUME NEW q, NEW quote, NEW nq, NEW cq, Cleaned(quote, q, nq, cq),
         NEW m, NEW a, NEW na, NEW ca, Cleaned(a, m, na, ca),
         NEW n, NEW b, NEW nb, NEW cb, Cleaned(b, n, nb, cb),
         NEW d, Within(a, m, b, n, d),
         NEW at, QuotedAt(nq, cq, na, ca, at)
  PROVE  \E z \in Int : QuotedAt(nq, cq, nb, cb, z)
<1>1. cq \in Nat /\ m \in Nat /\ ca \in Nat /\ n \in Nat /\ cb \in Nat /\ Written(a, m) /\ Written(b, n) /\ d \in Int
  BY CleanedReads DEF Within
<1>2. PICK y : y = at + (cq - 1)
  OBVIOUS
<1>3. PICK s : s = na.map[at]
  OBVIOUS
<1>4. PICK e : e = na.map[y]
  OBVIOUS
<1>5. /\ at \in 1 .. ca /\ y \in 1 .. ca /\ at <= y
      /\ s \in 1 .. m /\ e \in 1 .. m /\ s <= e /\ Shows(a[s]) /\ Shows(a[e])
  BY <1>2, <1>3, <1>4, QuotedShows
<1>6. Piece(a, m, b, n, s, e, d)
  <2>1. ASSUME NEW p \in Int, s <= p, p <= e PROVE b[p + d] = a[p]
    <3>1. p \in 1 .. m
      BY <1>1, <1>5, <2>1
    <3> QED BY <3>1 DEF Within
  <2>2. s + d \in 1 .. n /\ e + d \in 1 .. n
    BY <1>5 DEF Within
  <2> QED BY <1>5, <2>1, <2>2 DEF Piece, Alike
<1>7. CleanedBy(na, a, Places(a, m), ca) /\ CleanedBy(nb, b, Places(b, n), cb)
  BY DEF Cleaned
<1>8. PICK z \in 1 .. cb : z + (y - at) <= cb /\ SamePiece(na, nb, at, y, z, d)
  BY <1>1, <1>3, <1>4, <1>5, <1>6, <1>7, PieceHeld
<1>9. y - at = cq - 1 /\ cq # 0
  BY <1>1, <1>2, <1>5 DEF QuotedAt
<1>10. z \in 1 .. cb - cq + 1
  BY <1>1, <1>8, <1>9
<1>11. ASSUME NEW i \in 1 .. cq PROVE nb.text[z + i - 1] = nq.text[i]
  <2>1. na.text[at + i - 1] = nq.text[i]
    BY DEF QuotedAt, HeldAt
  <2>2. PICK j \in Nat : j = i - 1 /\ j <= y - at
    <3>1. PICK j \in Int : j = i - 1
      OBVIOUS
    <3> QED BY <1>1, <1>9, <3>1
  <2>3. nb.text[z + j] = na.text[at + j]
    BY <1>8, <2>2 DEF SamePiece
  <2>4. z + j = z + i - 1 /\ at + j = at + i - 1
    BY <1>5, <1>8, <2>2
  <2> QED BY <2>1, <2>3, <2>4
<1> QED BY <1>9, <1>10, <1>11 DEF QuotedAt, HeldAt

\* m characters of a text from s on.
Cut(sub, text, s, m) == m \in Nat /\ Written(sub, m) /\ \A i \in 1 .. m : sub[i] = text[s + i - 1]

LEMMA SubSeqIsCut ==
  ASSUME NEW n \in Nat, NEW text, Written(text, n), NEW s \in Int, NEW e \in Int, 1 <= s, s <= e, e <= n
  PROVE  Cut(SubSeq(text, s, e), text, s, e - s + 1)
<1>0. PICK sub : sub = SubSeq(text, s, e)
  OBVIOUS
<1>00. PICK m \in Nat : m = e - s + 1
  OBVIOUS
<1>1. PICK A : A = {text[i] : i \in 1 .. n}
  OBVIOUS
<1>3. \A i \in s .. e : text[i] \in A
  BY <1>1
<1>4. sub \in Seq(A) /\ Len(sub) = (IF s <= e THEN e - s + 1 ELSE 0) /\ \A i \in 1 .. e - s + 1 : sub[i] = text[s + i - 1]
  BY <1>0, <1>3, SubSeqProperties
<1>5. Len(sub) = m /\ DOMAIN sub = 1 .. m /\ sub = [i \in 1 .. m |-> sub[i]]
  <2>1. Len(sub) = m
    BY <1>00, <1>4
  <2>2. sub \in [1 .. Len(sub) -> A]
    BY <1>4, LenProperties
  <2> QED BY <2>1, <2>2
<1> QED BY <1>0, <1>00, <1>4, <1>5 DEF Written, Listed, Cut

\* From where the quote begins to where it ends the text reads as the quote.
LEMMA ReadsAsTheQuote ==
  ASSUME NEW q, NEW quote, NEW nq, NEW cq, Cleaned(quote, q, nq, cq),
         NEW n, NEW text, NEW nt, NEW ct, Cleaned(text, n, nt, ct),
         NEW at, QuotedAt(nq, cq, nt, ct, at), NEW s, s = nt.map[at], NEW e, e = nt.map[at + cq - 1]
  PROVE  CleanText(SubSeq(text, s, e)) = CleanText(quote)
<1>1. cq \in Nat /\ n \in Nat /\ ct \in Nat /\ Written(text, n) /\ Written(nq.text, cq) /\ CleanText(quote) = nq.text
  BY CleanedReads
<1>2. PICK y : y = at + (cq - 1)
  OBVIOUS
<1>3. e = nt.map[y]
  <2>1. at \in Int
    BY DEF QuotedAt
  <2> QED BY <1>1, <1>2, <2>1
<1>4. /\ at \in 1 .. ct /\ y \in 1 .. ct /\ at <= y
      /\ s \in 1 .. n /\ e \in 1 .. n /\ s <= e /\ Shows(text[s]) /\ Shows(text[e])
  BY <1>2, <1>3, QuotedShows
<1>5. PICK sub : sub = SubSeq(text, s, e)
  OBVIOUS
<1>6. PICK m \in Nat : m = e - s + 1
  BY <1>4
<1>7. Written(sub, m) /\ \A i \in 1 .. m : sub[i] = text[s + i - 1]
  <2>1. Cut(SubSeq(text, s, e), text, s, e - s + 1)
    BY <1>1, <1>4, SubSeqIsCut
  <2> QED BY <1>5, <1>6, <2>1 DEF Cut
<1>8. PICK nb : \E c \in Nat : Cleaned(sub, m, nb, c)
  BY <1>7, EachIsCleaned
<1>9. PICK cb \in Nat : Cleaned(sub, m, nb, cb)
  BY <1>8
<1>10. PICK d \in Int : d = 1 - s
  BY <1>4
<1>11. s + d = 1 /\ e + d = m /\ 1 \in 1 .. m /\ m \in 1 .. m
  BY <1>4, <1>6, <1>10
<1>12. Piece(text, n, sub, m, s, e, d)
  <2>1. ASSUME NEW p \in Int, s <= p, p <= e PROVE sub[p + d] = text[p]
    <3>1. PICK i \in 1 .. m : i = p + d
      BY <1>4, <1>6, <1>10, <2>1
    <3>2. s + i - 1 = p
      BY <1>4, <1>10, <2>1, <3>1
    <3> QED BY <1>7, <3>1, <3>2
  <2> QED BY <1>4, <1>11, <2>1 DEF Piece, Alike
<1>13. CleanedBy(nt, text, Places(text, n), ct) /\ CleanedBy(nb, sub, Places(sub, m), cb)
  BY <1>9 DEF Cleaned
<1>14. PICK z \in 1 .. cb : z + (y - at) <= cb /\ SamePiece(nt, nb, at, y, z, d)
  BY <1>1, <1>3, <1>4, <1>7, <1>10, <1>12, <1>13, PieceHeld
<1>15. \A i \in 1 .. cb : nb.map[i] \in 1 .. m
  BY <1>7, <1>13, EndsShow
<1>16. \A i, j \in 1 .. cb : i < j => nb.map[i] < nb.map[j]
  BY <1>13 DEF CleanedBy
<1>17. PICK l \in Nat : l = y - at
  BY <1>4
<1>18. PICK zl \in 1 .. cb : zl = z + l
  BY <1>14, <1>17
<1>19. nb.map[z] = 1 /\ nb.map[zl] = m
  <2>1. nb.map[z + 0] = nt.map[at + 0] + d /\ nb.map[z + l] = nt.map[at + l] + d
    BY <1>14, <1>17 DEF SamePiece
  <2>2. z + 0 = z /\ at + 0 = at /\ at + l = y
    BY <1>4, <1>17
  <2> QED BY <1>3, <1>11, <1>18, <2>1, <2>2
<1>20. z = 1
  <2>1. SUFFICES ASSUME 1 < z PROVE FALSE
    OBVIOUS
  <2>2. 1 \in 1 .. cb
    BY <2>1
  <2>3. PICK k \in 1 .. m : k = nb.map[1]
    BY <1>15, <2>2
  <2>4. k < 1
    BY <1>16, <1>19, <2>1, <2>2, <2>3
  <2> QED BY <2>4
<1>21. zl = cb
  <2>1. SUFFICES ASSUME zl < cb PROVE FALSE
    OBVIOUS
  <2>2. cb \in 1 .. cb
    BY <2>1
  <2>3. PICK k \in 1 .. m : k = nb.map[cb]
    BY <1>15, <2>2
  <2>4. m < k
    BY <1>16, <1>19, <2>1, <2>2, <2>3
  <2> QED BY <2>4
<1>22. cb = cq
  BY <1>1, <1>2, <1>4, <1>17, <1>18, <1>20, <1>21
<1>23. ASSUME NEW i \in 1 .. cq PROVE nb.text[i] = nq.text[i]
  <2>1. nt.text[at + i - 1] = nq.text[i]
    BY DEF QuotedAt, HeldAt
  <2>2. PICK j \in Int : j = i - 1
    OBVIOUS
  <2>3. j \in Nat /\ j <= y - at
    BY <1>1, <1>2, <1>4, <2>2
  <2>4. nb.text[z + j] = nt.text[at + j]
    BY <1>14, <2>3 DEF SamePiece
  <2>5. z + j = i /\ at + j = at + i - 1
    BY <1>4, <1>20, <2>2
  <2> QED BY <2>1, <2>4, <2>5
<1>24. Written(nb.text, cb) /\ CleanText(sub) = nb.text
  BY <1>9, CleanedReads
<1>25. nb.text = [i \in 1 .. cq |-> nb.text[i]] /\ nq.text = [i \in 1 .. cq |-> nq.text[i]]
  BY <1>1, <1>22, <1>24 DEF Written, Listed
<1>26. nb.text = nq.text
  BY <1>23, <1>25
<1> QED BY <1>1, <1>5, <1>24, <1>26

\* What is reached step by step from 0 is all there is.
LEMMA StepByStep ==
  ASSUME NEW N \in Nat, NEW I, 0 \in I, \A n \in 1 .. N : n - 1 \in I => n \in I
  PROVE  \A n \in 0 .. N : n \in I
<1>1. PICK out : out = {n \in 0 .. N : n \notin I}
  OBVIOUS
<1>2. SUFFICES ASSUME out # {} PROVE FALSE
  BY <1>1
<1>3. out \in SUBSET Int /\ IsFiniteSet(out)
  <2>1. 0 \in Int /\ N \in Int /\ out \in SUBSET (0 .. N)
    BY <1>1
  <2>2. IsFiniteSet(0 .. N)
    BY <2>1, FS_Interval
  <2>3. out \in SUBSET Int
    BY <1>1
  <2>4. IsFiniteSet(out)
    BY <2>1, <2>2, FS_Subset
  <2> QED BY <2>3, <2>4
<1>4. PICK n : n = Min(out)
  OBVIOUS
<1>5. n \in out /\ \A k \in out : n <= k
  BY <1>2, <1>3, <1>4, FirstKept
<1>6. n \in 1 .. N /\ n \notin I
  BY <1>1, <1>5
<1>7. PICK k \in Int : k = n - 1
  BY <1>6
<1>8. k \in 0 .. N /\ k < n
  BY <1>6, <1>7
<1>9. k \in I
  <2>1. ~(n <= k) /\ (k \in out => n <= k)
    BY <1>5, <1>6, <1>8
  <2> QED BY <1>1, <1>8, <2>1
<1> QED BY <1>6, <1>7, <1>9

\* f starts at the base and takes the steps, up to k.
Recurs(f, k, V, base, step) ==
    f \in [0 .. k -> V] /\ f[0] = base /\ \A n \in 1 .. k : f[n] = step[n][f[n - 1]]

LEMMA RecursionExists ==
  ASSUME NEW V, NEW N \in Nat, NEW base \in V, NEW step \in [1 .. N -> [V -> V]]
  PROVE  \E f : Recurs(f, N, V, base, step)
<1>1. PICK I : I = {k \in 0 .. N : \E f : Recurs(f, k, V, base, step)}
  OBVIOUS
<1>2. 0 \in I
  <2>1. PICK f : f = [n \in 0 .. 0 |-> base]
    OBVIOUS
  <2>2. Recurs(f, 0, V, base, step)
    BY <2>1 DEF Recurs
  <2> QED BY <1>1, <2>2
<1>3. ASSUME NEW n \in 1 .. N, n - 1 \in I PROVE n \in I
  <2>1. PICK k \in 0 .. N : k = n - 1 /\ k \in I
    BY <1>3
  <2>2. PICK f : Recurs(f, k, V, base, step)
    BY <1>1, <2>1
  <2>3. f \in [0 .. k -> V] /\ f[0] = base /\ \A i \in 1 .. k : f[i] = step[i][f[i - 1]]
    BY <2>2 DEF Recurs
  <2>4. PICK v \in V : v = f[k]
    BY <2>1, <2>3
  <2>5. PICK w \in V : w = step[n][v]
    OBVIOUS
  <2>6. PICK g : g = [i \in 0 .. n |-> IF i = n THEN w ELSE f[i]]
    OBVIOUS
  <2>7. \A i \in 0 .. n : i = n \/ i \in 0 .. k
    BY <2>1
  <2>8. g \in [0 .. n -> V]
    BY <2>3, <2>6, <2>7
  <2>9. g[0] = base
    BY <2>1, <2>3, <2>6
  <2>10. ASSUME NEW i \in 1 .. n PROVE g[i] = step[i][g[i - 1]]
    <3>1. PICK j \in 0 .. k : j = i - 1 /\ j # n
      BY <2>1
    <3>2. g[j] = f[j]
      BY <2>1, <2>6, <3>1
    <3>3. CASE i = n
      BY <2>1, <2>4, <2>5, <2>6, <3>1, <3>2, <3>3
    <3>4. CASE i # n
      <4>1. i \in 1 .. k
        BY <2>1, <3>4
      <4>2. f[i] = step[i][f[j]] /\ g[i] = f[i]
        BY <2>3, <2>6, <3>1, <3>4, <4>1
      <4> QED BY <3>1, <3>2, <4>2
    <3> QED BY <3>3, <3>4
  <2>11. Recurs(g, n, V, base, step)
    BY <2>8, <2>9, <2>10 DEF Recurs
  <2> QED BY <1>1, <2>11
<1>4. N \in I
  <2>1. \A n \in 0 .. N : n \in I
    BY <1>2, <1>3, StepByStep
  <2> QED BY <2>1
<1> QED BY <1>1, <1>4

\* Each of the texts is a text.
Texted(texts, N) ==
    /\ N \in Nat /\ Written(texts, N)
    /\ \A k \in 1 .. N : Len(texts[k]) \in Nat /\ Written(texts[k], Len(texts[k]))

\* The first n of the texts joined, for each n.
Separator(n) == IF n = 1 THEN <<>> ELSE <<" ">>
Joins(joined, texts, N) ==
    joined = [n \in 0 .. N |-> IF n = 0 THEN <<>> ELSE joined[n - 1] \o Separator(n) \o texts[n]]

LEMMA JoinedIs ==
  ASSUME NEW texts, NEW N, Texted(texts, N)
  PROVE  \E joined : Joins(joined, texts, N) /\ Joined(texts) = joined[N]
<1>1. N \in Nat /\ Len(texts) = N
  BY DEF Texted, Written
<1>2. PICK S : S = {" "} \cup UNION {{texts[k][i] : i \in 1 .. Len(texts[k])} : k \in 1 .. N}
  OBVIOUS
<1>2a. PICK V : V = Seq(S)
  OBVIOUS
<1>3. \A k \in 1 .. N : texts[k] \in V
  <2>1. SUFFICES ASSUME NEW k \in 1 .. N PROVE texts[k] \in V
    OBVIOUS
  <2>3. PICK t : t = texts[k]
    OBVIOUS
  <2>4. PICK n \in Nat : n = Len(t) /\ Listed(t, n)
    BY <2>3 DEF Texted, Written
  <2>5. ASSUME NEW i \in 1 .. n PROVE t[i] \in S
    <3>1. t[i] \in {texts[k][j] : j \in 1 .. Len(texts[k])}
      BY <2>3, <2>4
    <3> QED BY <1>2, <3>1
  <2>6. t \in Seq(S)
    BY <2>4, <2>5, SequenceOf
  <2> QED BY <1>2a, <2>3, <2>6
<1>4. <<>> \in V /\ \A n \in 1 .. N : Separator(n) \in V
  <2>1. " " \in S
    BY <1>2
  <2>2. <<>> \in Seq(S) /\ <<" ">> \in Seq(S)
    <3>1. PICK blank : blank = " "
      OBVIOUS
    <3>2. PICK s : s = <<blank>>
      OBVIOUS
    <3>3. Listed(s, 1) /\ s[1] = blank
      BY <3>2, OneBlock
    <3>4. {s[i] : i \in 1 .. 1} \subseteq S
      <4>1. ASSUME NEW i \in 1 .. 1 PROVE s[i] \in S
        <5>1. i = 1
          OBVIOUS
        <5> QED BY <2>1, <3>1, <3>3, <5>1
      <4> QED BY <4>1
    <3>5. s \in Seq(S)
      BY <3>3, <3>4, SequenceOf
    <3> QED BY <3>1, <3>2, <3>5, EmptySeq
  <2>3. \A n \in 1 .. N : Separator(n) = <<>> \/ Separator(n) = <<" ">>
    BY DEF Separator
  <2> QED BY <1>2a, <2>2, <2>3
<1>5. \A s, t \in V : s \o t \in V
  BY <1>2a, ConcatProperties
<1>6. PICK step : step = [n \in 1 .. N |-> [v \in V |-> v \o Separator(n) \o texts[n]]]
  OBVIOUS
<1>7. step \in [1 .. N -> [V -> V]]
  <2>1. ASSUME NEW n \in 1 .. N, NEW v \in V PROVE v \o Separator(n) \o texts[n] \in V
    BY <1>3, <1>4, <1>5
  <2> QED BY <1>6, <2>1
<1>8. PICK f : Recurs(f, N, V, <<>>, step)
  BY <1>1, <1>4, <1>7, RecursionExists
<1>9. f \in [0 .. N -> V] /\ f[0] = <<>> /\ \A n \in 1 .. N : f[n] = step[n][f[n - 1]]
  BY <1>8 DEF Recurs
<1>10. Joins(f, texts, N)
  <2>1. ASSUME NEW n \in 0 .. N
        PROVE  f[n] = IF n = 0 THEN <<>> ELSE f[n - 1] \o Separator(n) \o texts[n]
    <3>1. CASE n = 0
      BY <1>9, <3>1
    <3>2. CASE n # 0
      <4>0. PICK k \in Int : k = n - 1
        OBVIOUS
      <4>1. k \in 0 .. N /\ k = n - 1 /\ n \in 1 .. N
        BY <1>1, <3>2, <4>0
      <4>2. PICK v \in V : v = f[k]
        BY <1>9, <4>1
      <4>3. f[n] = step[n][v]
        BY <1>9, <4>1, <4>2
      <4>4. f[n] = v \o Separator(n) \o texts[n]
        BY <1>6, <4>1, <4>3
      <4> QED BY <3>2, <4>1, <4>2, <4>4
    <3> QED BY <3>1, <3>2
  <2> QED BY <1>9, <2>1 DEF Joins
<1> DEFINE joined == CHOOSE joined : joined = [n \in 0 .. Len(texts) |->
            IF n = 0 THEN <<>> ELSE joined[n - 1] \o Separator(n) \o texts[n]]
<1>11. Joined(texts) = joined[Len(texts)]
  BY DEF Joined, Separator
<1>12. Joins(joined, texts, N)
  <2>1. joined = CHOOSE g : Joins(g, texts, N)
    BY <1>1 DEF Joins
  <2> HIDE DEF joined
  <2> QED BY <1>10, <2>1
<1> HIDE DEF joined
<1> QED BY <1>1, <1>11, <1>12

LEMMA OneIsJoined ==
  ASSUME NEW t, NEW n \in Nat, Written(t, n)
  PROVE  Joined(<<t>>) = t
<1>1. PICK texts : texts = <<t>>
  OBVIOUS
<1>2. texts[1] = t /\ texts = [i \in 1 .. 1 |-> t] /\ DOMAIN texts = 1 .. 1
  BY <1>1
<1>3. Written(texts, 1)
  BY <1>2, FunctionWritten DEF Listed
<1>4. Texted(texts, 1)
  BY <1>2, <1>3 DEF Texted, Written
<1>5. PICK joined : Joins(joined, texts, 1) /\ Joined(texts) = joined[1]
  BY <1>4, JoinedIs
<1>6. joined[0] = <<>> /\ joined[1] = joined[0] \o <<>> \o texts[1]
  <2>1. 0 \in 0 .. 1 /\ 1 \in 0 .. 1 /\ 1 - 1 = 0
    OBVIOUS
  <2> QED BY <1>5, <2>1 DEF Joins, Separator
<1>7. <<>> \o <<>> \o t = t
  <2>1. PICK S : S = {t[i] : i \in 1 .. n}
    OBVIOUS
  <2>2. t \in Seq(S)
    BY <2>1, SequenceOf DEF Written
  <2>3. <<>> \o <<>> = <<>> /\ <<>> \o t = t
    BY <2>2
  <2> QED BY <2>3
<1> QED BY <1>1, <1>2, <1>5, <1>6, <1>7

\* The first n of the texts are in this one.
HoldsFirst(part, texts, n) ==
    \E m \in Nat : Written(part, m) /\ \A k \in 1 .. n : \E d : Within(texts[k], Len(texts[k]), part, m, d)

LEMMA OneMoreHeld ==
  ASSUME NEW texts, NEW n \in Nat, NEW part, HoldsFirst(part, texts, n), NEW sep, NEW l \in Nat, Listed(sep, l),
         NEW h, h = n + 1, NEW t, t = texts[h], NEW p \in Nat, Written(t, p)
  PROVE  HoldsFirst(part \o sep \o t, texts, h)
<1>1. PICK m \in Nat : Written(part, m) /\ \A k \in 1 .. n : \E d : Within(texts[k], Len(texts[k]), part, m, d)
  BY DEF HoldsFirst
<1>2. PICK all : all = part \o sep \o t
  OBVIOUS
<1>3. PICK f \in Nat : f = m + l
  OBVIOUS
<1>4. PICK e \in Nat : e = m + l + p
  <2>1. m + l + p \in Nat
    BY <1>3
  <2> QED BY <2>1
<1>5. InThree(all, part, m, sep, f, t, e)
  <2>1. Listed(part, m) /\ Listed(t, p)
    BY <1>1 DEF Written
  <2> QED BY <1>2, <1>3, <1>4, <2>1, ThreeTogether
<1>6. Listed(all, e) /\ \A i \in 1 .. e : all[i] = IF i <= m THEN part[i] ELSE IF i <= f THEN sep[i - m] ELSE t[i - f]
  BY <1>5 DEF InThree
<1>7. Written(all, e)
  BY <1>6, FunctionWritten
<1>8. ASSUME NEW k \in 1 .. h PROVE \E d : Within(texts[k], Len(texts[k]), all, e, d)
  <2>1. CASE k = h
    <3>1. ASSUME NEW i \in 1 .. p PROVE i + f \in 1 .. e /\ all[i + f] = t[i]
      <4>0. PICK j \in Int : j = i + f
        OBVIOUS
      <4>1. j \in 1 .. e /\ j = i + f
        <5>1. e = f + p /\ 1 <= i /\ i <= p
          BY <1>3, <1>4
        <5> QED BY <4>0, <5>1
      <4>2. ~(j <= m) /\ ~(j <= f) /\ j - f = i
        BY <1>3, <4>1
      <4>3. all[j] = t[j - f]
        <5>1. all[j] = IF j <= m THEN part[j] ELSE IF j <= f THEN sep[j - m] ELSE t[j - f]
          BY <1>6, <4>1
        <5> QED BY <4>2, <5>1
      <4> QED BY <4>1, <4>2, <4>3
    <3>2. Within(t, p, all, e, f)
      BY <3>1 DEF Within
    <3>3. p = Len(t)
      BY DEF Written
    <3> QED BY <2>1, <3>2, <3>3
  <2>2. CASE k # h
    <3>1. k \in 1 .. n
      BY <2>2
    <3>2. PICK d : Within(texts[k], Len(texts[k]), part, m, d)
      BY <1>1, <3>1
    <3>3. ASSUME NEW i \in 1 .. Len(texts[k]) PROVE i + d \in 1 .. e /\ all[i + d] = texts[k][i]
      <4>1. i + d \in 1 .. m /\ part[i + d] = texts[k][i]
        BY <3>2 DEF Within
      <4>2. PICK j \in 1 .. m : j = i + d
        BY <4>1
      <4>3. j \in 1 .. e /\ j <= m
        <5>1. m <= e
          BY <1>3, <1>4
        <5> QED BY <4>2, <5>1
      <4>4. all[j] = part[j]
        BY <1>6, <4>3
      <4> QED BY <4>1, <4>2, <4>3, <4>4
    <3>4. Within(texts[k], Len(texts[k]), all, e, d)
      BY <3>2, <3>3 DEF Within
    <3> QED BY <3>4
  <2> QED BY <2>1, <2>2
<1> QED BY <1>2, <1>7, <1>8 DEF HoldsFirst

LEMMA JoinedHolds ==
  ASSUME NEW texts, NEW N, Texted(texts, N)
  PROVE  HoldsFirst(Joined(texts), texts, N)
<1>1. N \in Nat /\ \A k \in 1 .. N : Len(texts[k]) \in Nat /\ Written(texts[k], Len(texts[k]))
  BY DEF Texted
<1>2. PICK joined : Joins(joined, texts, N) /\ Joined(texts) = joined[N]
  BY JoinedIs
<1>3. \A n \in 0 .. N : joined[n] = IF n = 0 THEN <<>> ELSE joined[n - 1] \o Separator(n) \o texts[n]
  BY <1>2 DEF Joins
<1>4. PICK I : I = {n \in 0 .. N : HoldsFirst(joined[n], texts, n)}
  OBVIOUS
<1>5. 0 \in I
  <2>1. joined[0] = <<>>
    BY <1>1, <1>3
  <2>2. Written(<<>>, 0)
    BY NoBlock, FunctionWritten
  <2>3. HoldsFirst(joined[0], texts, 0)
    BY <2>1, <2>2 DEF HoldsFirst
  <2> QED BY <1>1, <1>4, <2>3
<1>6. ASSUME NEW n \in 1 .. N, n - 1 \in I PROVE n \in I
  <2>1. PICK o \in Nat : o = n - 1
    BY <1>6
  <2>2. HoldsFirst(joined[o], texts, o)
    BY <1>4, <1>6, <2>1
  <2>3. PICK sep : sep = Separator(n)
    OBVIOUS
  <2>4. \E l \in Nat : Listed(sep, l)
    <3>1. PICK blank : blank = " "
      OBVIOUS
    <3>2. sep = <<>> \/ sep = <<blank>>
      BY <2>3, <3>1 DEF Separator
    <3> QED BY <3>2, NoBlock, OneBlock
  <2>5. PICK l \in Nat : Listed(sep, l)
    BY <2>4
  <2>6. PICK t : t = texts[n]
    OBVIOUS
  <2>7. PICK p \in Nat : p = Len(t) /\ Written(t, p)
    BY <1>1, <2>6
  <2>8. PICK part : part = joined[o]
    OBVIOUS
  <2>9. HoldsFirst(part \o sep \o t, texts, n)
    BY <2>1, <2>2, <2>5, <2>6, <2>7, <2>8, OneMoreHeld
  <2>10. joined[n] = part \o sep \o t
    <3>1. n \in 0 .. N /\ n # 0
      OBVIOUS
    <3>2. joined[n] = joined[n - 1] \o Separator(n) \o texts[n]
      BY <1>3, <3>1
    <3> QED BY <2>1, <2>3, <2>6, <2>8, <3>2
  <2>11. HoldsFirst(joined[n], texts, n)
    BY <2>9, <2>10
  <2>12. n \in 0 .. N
    OBVIOUS
  <2> QED BY <1>4, <2>11, <2>12
<1>7. N \in I
  <2>1. \A n \in 0 .. N : n \in I
    BY <1>1, <1>5, <1>6, StepByStep
  <2> QED BY <1>1, <2>1
<1> QED BY <1>2, <1>4, <1>7

\* The worker's exact rule and the screen's search answer the same.
LEMMA ValidatedIs ==
  ASSUME NEW q \in Nat, NEW quote, Written(quote, q), NEW n \in Nat, NEW whole, Written(whole, n),
         NEW texts, Joined(texts) = whole
  PROVE  /\ ValidateEvidence(quote, texts, FALSE) <=> LocateQuote(quote, whole) # Nowhere
         /\ LocateQuote(quote, whole) # Nowhere =>
                whole # <<>> /\ IndexOf(CleanText(quote), CleanText(whole)) # 0
<1>1. PICK nq : \E c \in Nat : Cleaned(quote, q, nq, c)
  BY EachIsCleaned
<1>2. PICK cq \in Nat : Cleaned(quote, q, nq, cq)
  BY <1>1
<1>3. PICK nt : \E c \in Nat : Cleaned(whole, n, nt, c)
  BY EachIsCleaned
<1>4. PICK ct \in Nat : Cleaned(whole, n, nt, ct)
  BY <1>3
<1>5. PICK found : found = LocateQuote(quote, whole)
  OBVIOUS
<1>6. /\ found # Nowhere => \E at \in Int : QuotedAt(nq, cq, nt, ct, at)
      /\ found # Nowhere <=> cq # 0 /\ IndexOf(nq.text, nt.text) # 0
  BY <1>2, <1>4, <1>5, LocatedIs
<1>7. /\ CleanText(quote) = nq.text /\ (nq.text = <<>> <=> cq = 0)
      /\ CleanText(whole) = nt.text /\ (nt.text = <<>> <=> ct = 0)
  BY <1>2, <1>4, CleanedReads
<1>8. ASSUME found # Nowhere PROVE ct # 0 /\ n # 0
  <2>1. PICK at \in Int : QuotedAt(nq, cq, nt, ct, at)
    BY <1>6, <1>8
  <2>2. at \in 1 .. ct
    BY <2>1 DEF QuotedAt
  <2>3. CleanedBy(nt, whole, Places(whole, n), ct)
    BY <1>4 DEF Cleaned
  <2>4. nt.map[at] \in 1 .. n
    BY <2>2, <2>3, EndsShow
  <2> QED BY <2>2, <2>4
<1>9. whole = <<>> <=> n = 0
  BY NotEmpty DEF Written
<1>10. ValidateEvidence(quote, texts, FALSE) <=>
          nq.text # <<>> /\ nt.text # <<>> /\ IndexOf(nq.text, nt.text) # 0
  BY <1>7 DEF ValidateEvidence
<1>11. ValidateEvidence(quote, texts, FALSE) <=> found # Nowhere
  BY <1>6, <1>7, <1>8, <1>10
<1>12. found # Nowhere => whole # <<>> /\ IndexOf(CleanText(quote), CleanText(whole)) # 0
  BY <1>6, <1>7, <1>8, <1>9
<1> QED BY <1>5, <1>11, <1>12

\* A quote in one of the texts is in all of them joined.
LEMMA FoundInJoined ==
  ASSUME NEW q \in Nat, NEW quote, Written(quote, q), NEW texts, NEW N, Texted(texts, N),
         NEW k \in 1 .. N, NEW t, t = texts[k], LocateQuote(quote, t) # Nowhere
  PROVE  /\ ValidateEvidence(quote, texts, FALSE) /\ Joined(texts) # <<>>
         /\ LocateQuote(quote, Joined(texts)) # Nowhere
<1>1. N \in Nat /\ \A i \in 1 .. N : Len(texts[i]) \in Nat /\ Written(texts[i], Len(texts[i]))
  BY DEF Texted
<1>2. PICK m \in Nat : m = Len(t) /\ Written(t, m)
  BY <1>1
<1>3. PICK whole : whole = Joined(texts)
  OBVIOUS
<1>4. HoldsFirst(whole, texts, N)
  BY <1>3, JoinedHolds
<1>5. PICK n \in Nat : Written(whole, n) /\ \A i \in 1 .. N : \E d : Within(texts[i], Len(texts[i]), whole, n, d)
  BY <1>4 DEF HoldsFirst
<1>6. PICK d : Within(t, m, whole, n, d)
  BY <1>2, <1>5
<1>7. PICK nq : \E c \in Nat : Cleaned(quote, q, nq, c)
  BY EachIsCleaned
<1>8. PICK cq \in Nat : Cleaned(quote, q, nq, cq)
  BY <1>7
<1>9. PICK na : \E c \in Nat : Cleaned(t, m, na, c)
  BY <1>2, EachIsCleaned
<1>10. PICK ca \in Nat : Cleaned(t, m, na, ca)
  BY <1>9
<1>11. PICK nb : \E c \in Nat : Cleaned(whole, n, nb, c)
  BY <1>5, EachIsCleaned
<1>12. PICK cb \in Nat : Cleaned(whole, n, nb, cb)
  BY <1>11
<1>13. PICK at \in Int : QuotedAt(nq, cq, na, ca, at)
  BY <1>8, <1>10, LocatedIs
<1>14. \E z \in Int : QuotedAt(nq, cq, nb, cb, z)
  BY <1>6, <1>8, <1>10, <1>12, <1>13, FoundAround
<1>15. LocateQuote(quote, whole) # Nowhere
  BY <1>8, <1>12, <1>14, LocatedIs
<1> QED BY <1>3, <1>5, <1>15, ValidatedIs

\* What is left of texts is texts, each one of them.
LEMMA TurnsAre ==
  ASSUME NEW texts, NEW N, Texted(texts, N), NEW turns, turns = BuildTurns(texts)
  PROVE  \E M \in Nat : Texted(turns, M) /\ \A i \in 1 .. M : \E k \in 1 .. N : turns[i] = texts[k]
<1>1. N \in Nat /\ DOMAIN texts = 1 .. N /\ \A i \in 1 .. N : Len(texts[i]) \in Nat /\ Written(texts[i], Len(texts[i]))
  BY DEF Texted, Written
<1>2. PICK S : S = {k \in DOMAIN texts : \E i \in DOMAIN texts[k] : texts[k][i] # " "}
  OBVIOUS
<1>3. S \in SUBSET (1 .. N)
  BY <1>1, <1>2
<1>4. S \in SUBSET Int /\ IsFiniteSet(S) /\ Cardinality(S) \in Nat
  BY <1>1, <1>3, Positions
<1>5. PICK M \in Nat : M = Cardinality(S)
  BY <1>4
<1>6. PICK order : order = Ascending(S)
  OBVIOUS
<1>7. turns = [i \in 1 .. M |-> texts[order[i]]]
  <2>1. turns = Only(texts, S)
    BY <1>2 DEF BuildTurns
  <2> QED BY <1>4, <1>5, <1>6, <2>1, OnlyIs
<1>8. order \in [1 .. M -> S]
  BY <1>4, <1>5, <1>6, AscendingIs
<1>9. \A i \in 1 .. M : \E k \in 1 .. N : turns[i] = texts[k]
  BY <1>3, <1>7, <1>8
<1>10. Written(turns, M)
  <2>1. Listed(turns, M)
    BY <1>7 DEF Listed
  <2> QED BY <2>1, FunctionWritten
<1>11. \A i \in 1 .. M : Len(turns[i]) \in Nat /\ Written(turns[i], Len(turns[i]))
  BY <1>1, <1>9
<1> QED BY <1>9, <1>10, <1>11 DEF Texted

LEMMA SequenceIsWritten ==
  ASSUME NEW A, NEW t \in Seq(A)
  PROVE  Len(t) \in Nat /\ Written(t, Len(t))
<1>1. Len(t) \in Nat /\ t \in [1 .. Len(t) -> A]
  BY LenProperties
<1> QED BY <1>1 DEF Written, Listed

\* Any transcript and quote, and any texts and quote.
AnyQuote == [kind : {"quote"}, transcript : Seq(Chars), quote : Seq(Chars)]
AnyTurns == [kind : {"turns"}, texts : Seq(Seq(Chars)), quote : Seq(Chars)]

\* The screen finds a quote exactly when the worker's exact rule does, and what it
\* marks reads, cleaned, as the quote does, whatever was said and quoted
\* (lib/evidence.ts:76-93, src/app/text_utils.py:5-25).
LEMMA MarkedIsAlwaysTheQuote ==
  ASSUME input \in AnyQuote
  PROVE  MarkedIsTheQuote
<1>1. PICK quote : quote = input.quote
  OBVIOUS
<1>2. PICK text : text = input.transcript
  OBVIOUS
<1>3. quote \in Seq(Chars) /\ text \in Seq(Chars)
  BY <1>1, <1>2 DEF AnyQuote
<1>4. PICK q \in Nat : Written(quote, q)
  BY <1>3, SequenceIsWritten
<1>5. PICK n \in Nat : Written(text, n)
  BY <1>3, SequenceIsWritten
<1>6. PICK at : at = LocateQuote(quote, text)
  OBVIOUS
<1>7. at # Nowhere <=> ValidateEvidence(quote, <<text>>, FALSE)
  <2>1. PICK texts : texts = <<text>>
    OBVIOUS
  <2>2. Joined(texts) = text
    BY <1>5, <2>1, OneIsJoined
  <2>3. ValidateEvidence(quote, texts, FALSE) <=> LocateQuote(quote, text) # Nowhere
    BY <1>4, <1>5, <2>2, ValidatedIs
  <2> QED BY <1>6, <2>1, <2>3
<1>8. ASSUME at # Nowhere PROVE CleanText(SubSeq(text, at.start, at.end)) = CleanText(quote)
  <2>1. PICK nq : \E c \in Nat : Cleaned(quote, q, nq, c)
    BY <1>4, EachIsCleaned
  <2>2. PICK cq \in Nat : Cleaned(quote, q, nq, cq)
    BY <2>1
  <2>3. PICK nt : \E c \in Nat : Cleaned(text, n, nt, c)
    BY <1>5, EachIsCleaned
  <2>4. PICK ct \in Nat : Cleaned(text, n, nt, ct)
    BY <2>3
  <2>5. PICK k \in Int : QuotedAt(nq, cq, nt, ct, k) /\ at = [start |-> nt.map[k], end |-> nt.map[k + cq - 1]]
    BY <1>6, <1>8, <2>2, <2>4, LocatedIs
  <2>6. PICK s : s = nt.map[k]
    OBVIOUS
  <2>7. PICK e : e = nt.map[k + cq - 1]
    OBVIOUS
  <2>8. CleanText(SubSeq(text, s, e)) = CleanText(quote)
    BY <2>2, <2>4, <2>5, <2>6, <2>7, ReadsAsTheQuote
  <2>9. at.start = s /\ at.end = e
    BY <2>5, <2>6, <2>7
  <2> QED BY <2>8, <2>9
<1> QED BY <1>1, <1>2, <1>6, <1>7, <1>8 DEF MarkedIsTheQuote

\* A quote the worker flags is in no turn of the reader, whatever was said, and a
\* turn that is highlighted holds the quote (Transcript.tsx:41-46, EvidenceBadge.tsx:27-35).
LEMMA FlaggedIsNeverRead ==
  ASSUME input \in AnyTurns
  PROVE  FlaggedIsNowhereToBeRead
<1>1. PICK quote : quote = input.quote
  OBVIOUS
<1>2. PICK texts : texts = input.texts
  OBVIOUS
<1>3. quote \in Seq(Chars) /\ texts \in Seq(Seq(Chars))
  BY <1>1, <1>2 DEF AnyTurns
<1>4. PICK q \in Nat : Written(quote, q)
  BY <1>3, SequenceIsWritten
<1>5. PICK N : Texted(texts, N)
  <2>1. Len(texts) \in Nat /\ Written(texts, Len(texts))
    BY <1>3, SequenceIsWritten
  <2>2. ASSUME NEW k \in 1 .. Len(texts) PROVE Len(texts[k]) \in Nat /\ Written(texts[k], Len(texts[k]))
    <3>1. texts[k] \in Seq(Chars)
      BY <1>3
    <3> QED BY <3>1, SequenceIsWritten
  <2> QED BY <2>1, <2>2 DEF Texted
<1>6. PICK turns : turns = BuildTurns(texts)
  OBVIOUS
<1>7. PICK M \in Nat : Texted(turns, M) /\ \A i \in 1 .. M : \E k \in 1 .. N : turns[i] = texts[k]
  BY <1>5, <1>6, TurnsAre
<1>8. PICK shown : shown = HighlightIndex(quote, turns)
  OBVIOUS
<1>9. ASSUME shown # 0
      PROVE  /\ ValidateEvidence(quote, texts, FALSE)
             /\ TranscriptText(texts) # <<>> /\ LocateQuote(quote, TranscriptText(texts)) # Nowhere
             /\ IndexOf(CleanText(quote), CleanText(turns[shown])) # 0
  <2>1. PICK holding : holding = {i \in DOMAIN turns : LocateQuote(quote, turns[i]) # Nowhere}
    OBVIOUS
  <2>2. holding \in SUBSET Int /\ IsFiniteSet(holding)
    <3>1. DOMAIN turns = 1 .. M
      BY <1>7 DEF Texted, Written
    <3>2. holding \in SUBSET (1 .. M)
      BY <2>1, <3>1
    <3> QED BY <3>2, Positions
  <2>3. holding # {} /\ shown = Min(holding)
    BY <1>8, <1>9, <2>1 DEF HighlightIndex
  <2>4. shown \in holding
    BY <2>2, <2>3, FirstKept
  <2>5. shown \in 1 .. M /\ LocateQuote(quote, turns[shown]) # Nowhere
    BY <1>7, <2>1, <2>4 DEF Texted, Written
  <2>6. PICK t : t = turns[shown]
    OBVIOUS
  <2>7. PICK k \in 1 .. N : t = texts[k]
    BY <1>7, <2>5, <2>6
  <2>8. ValidateEvidence(quote, texts, FALSE)
    BY <1>4, <1>5, <2>5, <2>6, <2>7, FoundInJoined
  <2>9. Joined(turns) # <<>> /\ LocateQuote(quote, Joined(turns)) # Nowhere
    BY <1>4, <1>7, <2>5, <2>6, FoundInJoined
  <2>10. IndexOf(CleanText(quote), CleanText(t)) # 0
    <3>1. PICK m \in Nat : Written(t, m)
      BY <1>7, <2>5, <2>6 DEF Texted
    <3>2. Joined(<<t>>) = t
      BY <3>1, OneIsJoined
    <3> QED BY <1>4, <2>5, <2>6, <3>1, <3>2, ValidatedIs
  <2>11. TranscriptText(texts) = Joined(turns)
    BY <1>6 DEF TranscriptText
  <2> QED BY <2>6, <2>8, <2>9, <2>10, <2>11
<1>10. PICK valid \in BOOLEAN : valid = ValidateEvidence(quote, texts, FALSE)
  BY DEF ValidateEvidence
<1>11. PICK badge : badge = EvidenceBadge(IF valid THEN "yes" ELSE "no", quote, TranscriptText(texts))
  OBVIOUS
<1>12. badge.alarm <=> ~valid
  BY <1>10, <1>11 DEF EvidenceBadge
<1>13. valid => (badge.link <=> TranscriptText(texts) # <<>> /\ LocateQuote(quote, TranscriptText(texts)) # Nowhere)
  BY <1>10, <1>11 DEF EvidenceBadge
<1> QED BY <1>1, <1>2, <1>6, <1>8, <1>9, <1>10, <1>11, <1>12, <1>13 DEF FlaggedIsNowhereToBeRead

\* A row of the comparison of b with something that ends in c, after another row.
FilledFrom(row, c, b, n, previous) ==
    \A j \in 0 .. n : row[j] = IF j = 0 THEN 0
                              ELSE IF c = b[j] THEN previous[j - 1] + 1
                              ELSE IF previous[j] > row[j - 1] THEN previous[j] ELSE row[j - 1]

LEMMA RowIs ==
  ASSUME NEW n \in Nat, NEW b, Len(b) = n, NEW c, NEW previous \in [0 .. n -> Nat], NEW row, row = LcsRow(c, b, previous)
  PROVE  row \in [0 .. n -> Nat] /\ FilledFrom(row, c, b, n, previous)
<1> DEFINE Next(j, v) == IF c = b[j] THEN previous[j - 1] + 1 ELSE IF previous[j] > v THEN previous[j] ELSE v
           Unfolds(r) == r = [j \in 0 .. n |-> IF j = 0 THEN 0 ELSE Next(j, r[j - 1])]
<1>1. PICK step : step = [j \in 1 .. n |-> [v \in Nat |-> Next(j, v)]]
  OBVIOUS
<1>2. step \in [1 .. n -> [Nat -> Nat]]
  <2>1. ASSUME NEW j \in 1 .. n, NEW v \in Nat PROVE Next(j, v) \in Nat
    <3>1. previous[j - 1] \in Nat /\ previous[j] \in Nat
      OBVIOUS
    <3> QED BY <3>1
  <2> HIDE DEF Next
  <2> QED BY <1>1, <2>1
<1> HIDE DEF Next
<1>3. PICK f : Recurs(f, n, Nat, 0, step)
  BY <1>2, RecursionExists
<1>4. f \in [0 .. n -> Nat] /\ f[0] = 0 /\ \A j \in 1 .. n : f[j] = step[j][f[j - 1]]
  BY <1>3 DEF Recurs
<1>5. ASSUME NEW j \in 0 .. n PROVE f[j] = IF j = 0 THEN 0 ELSE Next(j, f[j - 1])
  <2>1. CASE j = 0
    BY <1>4, <2>1
  <2>2. CASE j # 0
    <3>0. PICK k \in Int : k = j - 1
      OBVIOUS
    <3>1. j \in 1 .. n /\ k \in 0 .. n
      BY <2>2, <3>0
    <3>2. PICK v \in Nat : v = f[k]
      BY <1>4, <3>1
    <3>3. f[j] = step[j][v]
      BY <1>4, <3>0, <3>1, <3>2
    <3>4. f[j] = Next(j, v)
      BY <1>1, <3>1, <3>3
    <3> QED BY <2>2, <3>0, <3>2, <3>4
  <2> QED BY <2>1, <2>2
<1>6. Unfolds(f)
  BY <1>4, <1>5
<1>7. row = CHOOSE r : Unfolds(r)
  BY DEF LcsRow, Next
<1>8. Unfolds(row)
  <2> HIDE DEF Unfolds
  <2> QED BY <1>6, <1>7
<1>9. DOMAIN row = 0 .. n /\ \A j \in 0 .. n : row[j] = IF j = 0 THEN 0 ELSE Next(j, row[j - 1])
  BY <1>8
<1>10. PICK I : I = {j \in 0 .. n : row[j] \in Nat}
  OBVIOUS
<1>11. \A j \in 0 .. n : j \in I
  <2>1. 0 \in I
    <3>1. row[0] = 0
      BY <1>9
    <3> QED BY <1>10, <3>1
  <2>2. ASSUME NEW j \in 1 .. n, j - 1 \in I PROVE j \in I
    <3>1. PICK v \in Nat : v = row[j - 1]
      BY <1>10, <2>2
    <3>2. row[j] = Next(j, v)
      BY <1>9, <3>1
    <3>3. Next(j, v) \in Nat
      BY <1>1, <1>2
    <3> QED BY <1>10, <3>2, <3>3
  <2> QED BY <2>1, <2>2, StepByStep
<1>12. row \in [0 .. n -> Nat]
  BY <1>8, <1>10, <1>11
<1> QED BY <1>9, <1>12 DEF Next, FilledFrom

\* What two texts have in common is a number, and of two characters it is nothing
\* unless they are the same.
AloneAlike(a, m, b, n) == m = 1 /\ n = 1 /\ LcsLength(a, b) > 0 => a[1] = b[1]

LEMMA LcsIs ==
  ASSUME NEW m \in Nat, NEW a, Len(a) = m, NEW n \in Nat, NEW b, Len(b) = n
  PROVE  LcsLength(a, b) \in Nat /\ AloneAlike(a, m, b, n)
<1>1. PICK V : V = [0 .. n -> Nat]
  OBVIOUS
<1>2. PICK zeros \in V : zeros = [j \in 0 .. n |-> 0]
  BY <1>1
<1> DEFINE Unfolds(r) == r = [i \in 0 .. m |-> IF i = 0 THEN zeros ELSE LcsRow(a[i], b, r[i - 1])]
<1>3. \A c : \A v \in V : LcsRow(c, b, v) \in V
  BY <1>1, RowIs
<1>4. PICK step : step = [i \in 1 .. m |-> [v \in V |-> LcsRow(a[i], b, v)]]
  OBVIOUS
<1>5. step \in [1 .. m -> [V -> V]]
  BY <1>3, <1>4
<1>6. PICK f : Recurs(f, m, V, zeros, step)
  BY <1>5, RecursionExists
<1>7. f \in [0 .. m -> V] /\ f[0] = zeros /\ \A i \in 1 .. m : f[i] = step[i][f[i - 1]]
  BY <1>6 DEF Recurs
<1>8. ASSUME NEW i \in 0 .. m PROVE f[i] = IF i = 0 THEN zeros ELSE LcsRow(a[i], b, f[i - 1])
  <2>1. CASE i = 0
    BY <1>7, <2>1
  <2>2. CASE i # 0
    <3>0. PICK k \in Int : k = i - 1
      OBVIOUS
    <3>1. i \in 1 .. m /\ k \in 0 .. m
      BY <2>2, <3>0
    <3>2. PICK v \in V : v = f[k]
      BY <1>7, <3>1
    <3>3. f[i] = step[i][v]
      BY <1>7, <3>0, <3>1, <3>2
    <3>4. f[i] = LcsRow(a[i], b, v)
      BY <1>4, <3>1, <3>3
    <3> QED BY <2>2, <3>0, <3>2, <3>4
  <2> QED BY <2>1, <2>2
<1>9. Unfolds(f)
  BY <1>7, <1>8
<1>10. PICK rows : rows = CHOOSE r : Unfolds(r)
  OBVIOUS
<1>11. LcsLength(a, b) = rows[m][n]
  BY <1>2, <1>10 DEF LcsLength
<1>12. Unfolds(rows)
  <2> HIDE DEF Unfolds
  <2> QED BY <1>9, <1>10
<1>13. \A i \in 0 .. m : rows[i] = IF i = 0 THEN zeros ELSE LcsRow(a[i], b, rows[i - 1])
  BY <1>12
<1>14. PICK I : I = {i \in 0 .. m : rows[i] \in V}
  OBVIOUS
<1>15. \A i \in 0 .. m : i \in I
  <2>1. 0 \in I
    <3>1. rows[0] = zeros
      BY <1>13
    <3> QED BY <1>14, <3>1
  <2>2. ASSUME NEW i \in 1 .. m, i - 1 \in I PROVE i \in I
    <3>1. PICK v \in V : v = rows[i - 1]
      BY <1>14, <2>2
    <3>2. rows[i] = LcsRow(a[i], b, v)
      BY <1>13, <3>1
    <3>3. LcsRow(a[i], b, v) \in V
      BY <1>3
    <3> QED BY <1>14, <3>2, <3>3
  <2> QED BY <2>1, <2>2, StepByStep
<1>16. rows[m] \in V
  BY <1>14, <1>15
<1>17. LcsLength(a, b) \in Nat
  BY <1>1, <1>11, <1>16
<1>18. ASSUME m = 1, n = 1, LcsLength(a, b) > 0 PROVE a[1] = b[1]
  <2>1. rows[0] = zeros /\ rows[1] = LcsRow(a[1], b, rows[0])
    <3>1. 0 \in 0 .. m /\ 1 \in 0 .. m /\ 1 - 1 = 0
      BY <1>18
    <3> QED BY <1>13, <3>1
  <2>1a. PICK c : c = a[1]
    OBVIOUS
  <2>2. PICK row : row = LcsRow(c, b, zeros)
    OBVIOUS
  <2>3. zeros \in [0 .. n -> Nat]
    BY <1>1
  <2>4. FilledFrom(row, c, b, n, zeros)
    BY <2>2, <2>3, RowIs
  <2>5. c # b[1] => row[1] = 0
    <3>1. 1 \in 1 .. n /\ zeros[1] = 0 /\ 1 - 1 = 0
      BY <1>2, <1>18
    <3>2. row[1] = IF c = b[1] THEN zeros[1 - 1] + 1 ELSE IF zeros[1] > row[1 - 1] THEN zeros[1] ELSE row[1 - 1]
      BY <2>4, <3>1 DEF FilledFrom
    <3>3. 0 \in 0 .. n /\ 1 - 1 = 0
      OBVIOUS
    <3>4. row[0] = 0
      BY <2>4, <3>3 DEF FilledFrom
    <3> QED BY <3>1, <3>2, <3>3, <3>4
  <2>6. LcsLength(a, b) = row[1]
    BY <1>11, <1>18, <2>1, <2>1a, <2>2
  <2> QED BY <1>18, <2>1a, <2>5, <2>6
<1> QED BY <1>17, <1>18 DEF AloneAlike

\* Of two characters next to each other in a clean text one at least is no blank.
LEMMA NoTwoBlanks ==
  ASSUME NEW n, NEW text, NEW norm, NEW c, Cleaned(text, n, norm, c), NEW i \in Int, 1 <= i, i < c
  PROVE  norm.text[i] # " " \/ norm.text[i + 1] # " "
<1>1. n \in Nat /\ c \in Nat /\ Written(text, n)
  BY CleanedReads
<1>2. CleanedBy(norm, text, Places(text, n), c)
  BY DEF Cleaned
<1>3. \A k \in 1 .. c : norm.map[k] \in 1 .. n /\ (Shows(text[norm.map[k]]) <=> norm.text[k] # " ")
  BY <1>1, <1>2, EndsShow
<1>4. PICK S : S = Places(text, n)
  OBVIOUS
<1>5. PICK map : map = norm.map
  OBVIOUS
<1>6. /\ map \in [1 .. c -> S]
      /\ \A k, l \in 1 .. c : k < l => map[k] < map[l]
      /\ \A k \in S : Rank(S, k) \in 1 .. c /\ map[Rank(S, k)] = k
  BY <1>2, <1>4, <1>5 DEF CleanedBy
<1>7. \A k \in S : k \in 1 .. n /\ Survives(text, k) /\ ~IsMark(text[k])
  BY <1>4 DEF Places, Survives
<1>8. PICK o \in 1 .. c : o = i + 1
  BY <1>1
<1>9. SUFFICES ASSUME norm.text[o] = " " PROVE norm.text[i] # " "
  BY <1>8
<1>10. i \in 1 .. c
  BY <1>1
<1>11. PICK k \in 1 .. n : k = map[o] /\ Survives(text, k) /\ ~Shows(text[k])
  BY <1>3, <1>5, <1>6, <1>7, <1>9
<1>12. PICK h \in 1 .. n : h = map[i] /\ ~IsMark(text[h])
  BY <1>6, <1>7, <1>10
<1>13. h < k
  BY <1>6, <1>8, <1>10, <1>11, <1>12
<1>14. ShowsBefore(text, n, k)
  BY <1>1, <1>11, SurvivesWhen
<1>15. PICK j \in 1 .. n : j < k /\ Shows(text[j]) /\ \A l \in 1 .. n : j < l /\ l < k => IsMark(text[l])
  BY <1>14 DEF ShowsBefore
<1>16. ~(j < h)
  BY <1>12, <1>13, <1>15
<1>17. PICK r \in 1 .. c : map[r] = j
  <2>1. Survives(text, j)
    BY <1>1, <1>15, SurvivesWhen DEF Shows
  <2>2. j \in S
    BY <1>4, <2>1 DEF Places
  <2> QED BY <1>6, <2>2
<1>18. r = i
  <2>1. r < i \/ r = i \/ r = o \/ o < r
    BY <1>8, <1>10
  <2>2. ~(r < i)
    BY <1>6, <1>10, <1>12, <1>16, <1>17
  <2>3. r # o
    BY <1>11, <1>15, <1>17
  <2>4. ~(o < r)
    <3>1. o < r => k < j
      BY <1>6, <1>11, <1>17
    <3> QED BY <1>15, <3>1
  <2> QED BY <2>1, <2>2, <2>3, <2>4
<1> QED BY <1>3, <1>5, <1>10, <1>15, <1>17, <1>18

\* A span of a text, and one that was widened to whole words.
Span(span, n) == span.start \in 1 .. n /\ span.end \in 1 .. n /\ span.start <= span.end
CutAt(text, n, k) == k > 0 /\ k < n /\ IsWord(text[k]) /\ IsWord(text[k + 1])
Whole(span, text, n) == ~CutAt(text, n, span.start - 1) /\ ~CutAt(text, n, span.end)

LEMMA WidenedIs ==
  ASSUME NEW n \in Nat, NEW text, Written(text, n), NEW span, Span(span, n),
         NEW wide, wide = Widened(text, span)
  PROVE  /\ Span(wide, n) /\ Whole(wide, text, n) /\ wide.start <= span.start /\ span.end <= wide.end
         /\ wide.end = span.end \/ IsWord(text[wide.end])
<1>1. PICK s \in 1 .. n : s = span.start
  BY DEF Span
<1>2. PICK e \in 1 .. n : e = span.end /\ s <= e
  BY <1>1 DEF Span
<1>3. PICK B : B = {i \in 1 .. s : \A k \in i .. s - 1 : IsWord(text[k])}
  OBVIOUS
<1>4. PICK A : A = {i \in e .. n : \A k \in e + 1 .. i : IsWord(text[k])}
  OBVIOUS
<1>5. s \in B
  BY <1>3
<1>6. e \in A
  BY <1>4
<1>7. B \in SUBSET Int /\ IsFiniteSet(B) /\ A \in SUBSET Int /\ IsFiniteSet(A)
  <2>1. B \in SUBSET (1 .. n) /\ A \in SUBSET (1 .. n)
    BY <1>3, <1>4
  <2> QED BY <2>1, Positions
<1>8. PICK l : l = Min(B)
  OBVIOUS
<1>9. PICK r : r = Max(A)
  OBVIOUS
<1>10. l \in B /\ \A k \in B : l <= k
  BY <1>5, <1>7, <1>8, FirstKept
<1>11. r \in A /\ \A k \in A : k <= r
  BY <1>6, <1>7, <1>9, LargestIs
<1>12. wide.start = l /\ wide.end = r
  <2>1. wide = [start |-> l, end |-> r]
    BY <1>1, <1>2, <1>3, <1>4, <1>8, <1>9 DEF Widened, Written
  <2> QED BY <2>1
<1>13. l \in 1 .. n /\ l <= s /\ \A k \in l .. s - 1 : IsWord(text[k])
  BY <1>3, <1>10
<1>14. r \in 1 .. n /\ e <= r /\ \A k \in e + 1 .. r : IsWord(text[k])
  BY <1>4, <1>11
<1>15. ~CutAt(text, n, l - 1)
  <2>1. SUFFICES ASSUME CutAt(text, n, l - 1) PROVE FALSE
    OBVIOUS
  <2>2. PICK k \in Int : k = l - 1
    BY <1>13
  <2>3. k > 0 /\ IsWord(text[k])
    BY <2>1, <2>2 DEF CutAt
  <2>4. ASSUME NEW i \in k .. s - 1 PROVE IsWord(text[i])
    <3>1. i = k \/ i \in l .. s - 1
      BY <1>13, <2>2
    <3> QED BY <1>13, <2>3, <3>1
  <2>5. k \in B
    BY <1>3, <1>13, <2>2, <2>3, <2>4
  <2> QED BY <1>10, <1>13, <2>2, <2>5
<1>16. ~CutAt(text, n, r)
  <2>1. SUFFICES ASSUME CutAt(text, n, r) PROVE FALSE
    OBVIOUS
  <2>2. PICK k \in Int : k = r + 1
    BY <1>14
  <2>3. k <= n /\ IsWord(text[k])
    BY <1>14, <2>1, <2>2 DEF CutAt
  <2>4. ASSUME NEW i \in e + 1 .. k PROVE IsWord(text[i])
    <3>1. i = k \/ i \in e + 1 .. r
      BY <1>14, <2>2
    <3> QED BY <1>14, <2>3, <3>1
  <2>5. k \in A
    BY <1>4, <1>14, <2>2, <2>3, <2>4
  <2> QED BY <1>11, <1>14, <2>2, <2>5
<1>17. r = e \/ IsWord(text[r])
  BY <1>14
<1> QED BY <1>1, <1>2, <1>12, <1>13, <1>14, <1>15, <1>16, <1>17 DEF Span, Whole

\* A sentence ends at k: a stop and a blank.
Stop(text, k) == text[k] \in {".", "!"} /\ text[k + 1] = " "

\* The span without a piece after its last stop and without one up to a stop.
TrimmedTo(text, s, e, start, end) ==
    /\ end = e \/ (end \in s .. e - 1 /\ text[end] = "." /\ text[end + 1] = " ")
    /\ start = s \/ \E k \in s .. e - 1 : Stop(text, k) /\ k < end /\ start = k + 2

LEMMA TrimmedIs ==
  ASSUME NEW n \in Nat, NEW text, NEW span, Span(span, n), NEW near, near = Trimmed(text, span)
  PROVE  TrimmedTo(text, span.start, span.end, near.start, near.end)
<1>1. PICK s \in 1 .. n : s = span.start
  BY DEF Span
<1>2. PICK e \in 1 .. n : e = span.end
  BY DEF Span
<1>3. PICK after : after = {k \in s .. e - 1 : text[k] \in {"."} /\ text[k + 1] = " "}
  OBVIOUS
<1>4. PICK end : end = IF after # {} /\ e - Max(after) - 1 <= DANGLING THEN Max(after) ELSE e
  OBVIOUS
<1>5. PICK before : before = {k \in {k \in s .. e - 1 : text[k] \in {".", "!"} /\ text[k + 1] = " "} : k < end}
  OBVIOUS
<1>6. PICK start : start = IF before # {} /\ Min(before) - s + 1 <= DANGLING THEN Min(before) + 2 ELSE s
  OBVIOUS
<1>7. near = [start |-> start, end |-> end]
  BY <1>1, <1>2, <1>3, <1>4, <1>5, <1>6 DEF Trimmed
<1>8. near.start = start /\ near.end = end
  BY <1>7
<1>9. after \in SUBSET Int /\ IsFiniteSet(after) /\ before \in SUBSET Int /\ IsFiniteSet(before)
  <2>1. after \in SUBSET (1 .. n) /\ before \in SUBSET (1 .. n)
    <3>1. \A k \in s .. e - 1 : k \in 1 .. n
      OBVIOUS
    <3>2. \A k \in after : k \in s .. e - 1
      BY <1>3
    <3>3. \A k \in before : k \in s .. e - 1
      BY <1>5
    <3> QED BY <3>1, <3>2, <3>3
  <2> QED BY <2>1, Positions
<1>10. end = e \/ (end \in s .. e - 1 /\ text[end] = "." /\ text[end + 1] = " ")
  <2>1. SUFFICES ASSUME end # e PROVE end \in s .. e - 1 /\ text[end] = "." /\ text[end + 1] = " "
    OBVIOUS
  <2>2. after # {} /\ end = Max(after)
    BY <1>4, <2>1
  <2>3. end \in after
    BY <1>9, <2>2, LargestIs
  <2>4. end \in s .. e - 1 /\ text[end] \in {"."} /\ text[end + 1] = " "
    BY <1>3, <2>3
  <2> QED BY <2>4
<1>11. start = s \/ \E k \in s .. e - 1 : Stop(text, k) /\ k < end /\ start = k + 2
  <2>1. SUFFICES ASSUME start # s PROVE \E k \in s .. e - 1 : Stop(text, k) /\ k < end /\ start = k + 2
    OBVIOUS
  <2>2. before # {} /\ start = Min(before) + 2
    BY <1>6, <2>1
  <2>3. PICK k : k = Min(before)
    OBVIOUS
  <2>4. k \in before
    BY <1>9, <2>2, <2>3, FirstKept
  <2>5. k \in s .. e - 1 /\ Stop(text, k) /\ k < end
    BY <1>5, <2>4 DEF Stop
  <2> QED BY <2>2, <2>3, <2>5
<1> QED BY <1>1, <1>2, <1>8, <1>10, <1>11 DEF TrimmedTo

LEMMA NoWords ==
  /\ ~IsWord(" ") /\ ~IsWord(".") /\ ~IsWord("!") /\ " " # "."
  /\ ~IsMark(" ") /\ ~IsMark(".") /\ ~IsMark("!")
BY DEF IsWord, IsMark, IsPunctuation

\* After the end of a sentence that is not the end of the span there is a word.
LEMMA WordAfterStop ==
  ASSUME NEW n \in Nat, NEW text, Written(text, n), NEW e \in 1 .. n, Survives(text, e),
         NEW w \in 1 .. n, e <= w, w = e \/ IsWord(text[w]), NEW k \in 1 .. n, k < w, Stop(text, k)
  PROVE  \E j \in 1 .. n : k + 1 < j /\ j <= w /\ IsWord(text[j])
<1>0. PICK b \in Int : b = k + 1
  OBVIOUS
<1>1. b \in 1 .. n /\ b = k + 1 /\ b <= w
  BY <1>0
<1>1a. text[b] = " "
  BY <1>0 DEF Stop
<1>2. ~IsWord(text[k]) /\ ~IsMark(text[k]) /\ ~IsWord(text[b]) /\ ~IsMark(text[b])
  BY <1>1a, NoWords DEF Stop
<1>3. CASE IsWord(text[w])
  <2>1. b # w
    BY <1>2, <1>3
  <2>2. k + 1 < w
    BY <1>1, <2>1
  <2> QED BY <1>3, <2>2
<1>4. CASE ~IsWord(text[w])
  <2>1. w = e /\ ~Shows(text[e])
    BY <1>4, CharactersAlike
  <2>2. ShowsBefore(text, n, e)
    BY <2>1, SurvivesWhen
  <2>3. PICK j \in 1 .. n : j < e /\ Shows(text[j]) /\ \A l \in 1 .. n : j < l /\ l < e => IsMark(text[l])
    BY <2>2 DEF ShowsBefore
  <2>4. IsWord(text[j])
    BY <2>3, CharactersAlike
  <2>5. j # k /\ j # b
    BY <1>2, <2>4
  <2>6. ~(j < k)
    BY <1>2, <2>1, <2>3
  <2>7. ~(j < b)
    <3>1. j < b => j < k \/ j = k
      BY <1>1
    <3> QED BY <2>5, <2>6, <3>1
  <2>8. k + 1 < j
    BY <1>1, <2>5, <2>7
  <2>9. j <= w
    BY <2>1, <2>3
  <2> QED BY <2>4, <2>8, <2>9
<1> QED BY <1>3, <1>4

\* A passage a person can read.
Readable(near, text, n) ==
    /\ Span(near, n) /\ Whole(near, text, n)
    /\ ~(near.end < n /\ text[near.end] = "." /\ text[near.end + 1] = " ") =>
            \E k \in 1 .. n : near.start <= k /\ k <= near.end /\ IsWord(text[k])

LEMMA PassageIs ==
  ASSUME NEW n \in Nat, NEW text, Written(text, n), NEW span, Span(span, n), Survives(text, span.end),
         NEW x \in 1 .. n, span.start <= x, x <= span.end, IsWord(text[x]),
         NEW near, near = Trimmed(text, Widened(text, span))
  PROVE  Readable(near, text, n)
<1>1. PICK wide : wide = Widened(text, span)
  OBVIOUS
<1>2. /\ Span(wide, n) /\ Whole(wide, text, n) /\ wide.start <= span.start /\ span.end <= wide.end
      /\ wide.end = span.end \/ IsWord(text[wide.end])
  BY <1>1, WidenedIs
<1>3. PICK s \in 1 .. n : s = wide.start
  BY <1>2 DEF Span
<1>4. PICK w \in 1 .. n : w = wide.end /\ s <= w
  BY <1>2, <1>3 DEF Span
<1>5. PICK e \in 1 .. n : e = span.end /\ e <= w /\ Survives(text, e) /\ (w = e \/ IsWord(text[w])) /\ x <= e
  BY <1>2, <1>4 DEF Span
<1>6. s <= x
  <2>1. PICK i \in 1 .. n : i = span.start
    BY DEF Span
  <2> QED BY <1>2, <1>3, <2>1
<1>7. PICK start : start = near.start
  OBVIOUS
<1>8. PICK d : d = near.end
  OBVIOUS
<1>9. TrimmedTo(text, s, w, start, d)
  BY <1>1, <1>2, <1>3, <1>4, <1>7, <1>8, TrimmedIs
<1>9a. PICK c \in 1 .. n : c = d /\ s <= c /\ (c = w \/ (c < w /\ text[c] = "." /\ text[c + 1] = " "))
  <2>1. CASE d = w
    BY <1>4, <2>1
  <2>2. CASE d # w
    <3>1. PICK k \in s .. w - 1 : k = d /\ text[k] = "." /\ text[k + 1] = " "
      BY <1>9, <2>2 DEF TrimmedTo
    <3>2. k \in 1 .. n /\ s <= k /\ k < w
      OBVIOUS
    <3> QED BY <3>1, <3>2
  <2> QED BY <2>1, <2>2
<1>9b. start = s \/ \E k \in s .. w - 1 : Stop(text, k) /\ k < c /\ start = k + 2
  BY <1>9, <1>9a DEF TrimmedTo
<1>10. ~CutAt(text, n, c)
  <2>1. CASE c = w
    BY <1>2, <1>4, <2>1 DEF Whole
  <2>2. CASE c # w
    BY <1>9a, <2>2, NoWords DEF CutAt
  <2> QED BY <2>1, <2>2
<1>10a. c # w => c < n /\ text[c] = "." /\ text[c + 1] = " "
  <2>1. c < w => c < n
    OBVIOUS
  <2> QED BY <1>9a, <2>1
<1>11. CASE start = s
  <2>1. start \in 1 .. n /\ start <= c /\ ~CutAt(text, n, start - 1)
    BY <1>2, <1>3, <1>9a, <1>11 DEF Whole
  <2>2. c = w => \E k \in 1 .. n : start <= k /\ k <= c /\ IsWord(text[k])
    BY <1>5, <1>6, <1>11
  <2>3. near.start = start /\ near.end = c
    BY <1>7, <1>8, <1>9a
  <2>4. Span(near, n) /\ Whole(near, text, n)
    BY <1>10, <2>1, <2>3 DEF Span, Whole
  <2> QED BY <1>10a, <2>2, <2>3, <2>4 DEF Readable
<1>12. CASE start # s
  <2>1. PICK k \in s .. w - 1 : Stop(text, k) /\ k < c /\ start = k + 2
    BY <1>9b, <1>12
  <2>2. k \in 1 .. n /\ k < w
    OBVIOUS
  <2>3. PICK j \in 1 .. n : k + 1 < j /\ j <= w /\ IsWord(text[j])
    BY <1>5, <2>1, <2>2, WordAfterStop
  <2>4. c # w => k + 1 # c
    <3>1. text[k + 1] = " "
      BY <2>1 DEF Stop
    <3> QED BY <1>9a, <3>1, NoWords
  <2>5. start <= c /\ start \in 1 .. n
    <3>1. c = w \/ c # w
      OBVIOUS
    <3>2. k + 2 <= w
      BY <2>2, <2>3
    <3>3. k + 2 <= c
      <4>1. k < c /\ (c = w \/ c < w) /\ (c = w \/ k + 1 # c)
        BY <1>9a, <2>1, <2>4
      <4> QED BY <2>2, <3>2, <4>1
    <3>4. start \in Int /\ 1 <= start
      BY <2>1, <2>2
    <3> QED BY <2>1, <2>2, <3>3, <3>4
  <2>6. ~CutAt(text, n, start - 1)
    <3>1. start - 1 = k + 1
      BY <2>1, <2>2
    <3>2. ~IsWord(text[k + 1])
      BY <2>1, NoWords DEF Stop
    <3> QED BY <3>1, <3>2 DEF CutAt
  <2>7. c = w => start <= j /\ j <= c /\ IsWord(text[j])
    BY <2>1, <2>2, <2>3
  <2>8. near.start = start /\ near.end = c
    BY <1>7, <1>8, <1>9a
  <2>9. Span(near, n) /\ Whole(near, text, n)
    BY <1>10, <2>5, <2>6, <2>8 DEF Span, Whole
  <2> QED BY <1>10a, <2>7, <2>8, <2>9 DEF Readable
<1> QED BY <1>11, <1>12

\* The first of the greatest.
LEMMA FirstGreatest ==
  ASSUME NEW l \in Nat, NEW D \in SUBSET (0 .. l), D # {}, NEW common, \A o \in D : common[o] \in Nat,
         NEW most, most = {o \in D : \A p \in D : common[o] >= common[p]}
  PROVE  Min(most) \in D /\ (\A p \in D : common[Min(most)] >= common[p]) /\ \A o \in most : Min(most) <= o
<1>1. IsFiniteSet(D) /\ D \in SUBSET Int /\ IsFiniteSet(most) /\ most \in SUBSET Int
  <2>1. 0 \in Int /\ l \in Int /\ IsFiniteSet(0 .. l)
    BY FS_Interval
  <2>2. most \in SUBSET (0 .. l)
    OBVIOUS
  <2>3. IsFiniteSet(D) /\ IsFiniteSet(most)
    BY <2>1, <2>2, FS_Subset
  <2>4. D \in SUBSET Int /\ most \in SUBSET Int
    BY <2>2
  <2> QED BY <2>3, <2>4
<1>2. PICK values : values = {common[o] : o \in D}
  OBVIOUS
<1>3. values \in SUBSET Int /\ IsFiniteSet(values) /\ values # {}
  <2>1. PICK f : f = [o \in D |-> common[o]]
    OBVIOUS
  <2>2. f \in Surjection(D, values)
    BY <1>2, <2>1 DEF Surjection
  <2>3. IsFiniteSet(values)
    BY <1>1, <2>2, FS_Surjection
  <2>4. values \in SUBSET Int
    BY <1>2
  <2>5. values # {}
    BY <1>2
  <2> QED BY <2>3, <2>4, <2>5
<1>4. PICK v : v = Max(values)
  OBVIOUS
<1>5. v \in values /\ \A w \in values : w <= v
  BY <1>3, <1>4, LargestIs
<1>6. PICK o \in D : common[o] = v
  BY <1>2, <1>5
<1>7. o \in most
  <2>1. ASSUME NEW p \in D PROVE common[o] >= common[p]
    <3>1. PICK w \in values : w = common[p]
      BY <1>2
    <3>2. w \in Int /\ v \in Int /\ w <= v
      BY <1>3, <1>5
    <3> QED BY <1>6, <3>1, <3>2
  <2> QED BY <2>1
<1>8. Min(most) \in most /\ \A k \in most : Min(most) <= k
  BY <1>1, <1>7, FirstKept
<1> QED BY <1>8

\* The windows of the transcript that are compared, the first of them at 0.
LEMMA WindowsAre ==
  ASSUME NEW last \in Nat
  PROVE  (\A o \in WindowStarts(last) : o \in 0 .. last) /\ 0 \in WindowStarts(last)
<1>0. PICK stride : stride = Max({1, (last + MAX_WINDOWS) \div MAX_WINDOWS})
  OBVIOUS
<1>1. PICK x \in Int : x = (last + MAX_WINDOWS) \div MAX_WINDOWS
  BY EvidenceAssumption
<1>2. PICK S : S = {1, x}
  OBVIOUS
<1>3. S \in SUBSET Int /\ IsFiniteSet(S) /\ S # {} /\ 1 \in S
  <2>1. IsFiniteSet({1, x})
    <3>1. IsFiniteSet({} \cup {1})
      BY FS_EmptySet, FS_AddElement
    <3>2. IsFiniteSet(({} \cup {1}) \cup {x})
      BY <3>1, FS_AddElement
    <3>3. ({} \cup {1}) \cup {x} = {1, x}
      OBVIOUS
    <3> QED BY <3>2, <3>3
  <2> QED BY <1>2, <2>1
<1>4. stride \in Int /\ 1 <= stride
  <2>1. stride = Max(S)
    BY <1>0, <1>1, <1>2
  <2>2. Max(S) \in S /\ \A k \in S : k <= Max(S)
    BY <1>3, LargestIs
  <2> QED BY <1>3, <2>1, <2>2
<1>5. 0 % stride = 0
  BY <1>4
<1>6. WindowStarts(last) = {o \in 0 .. last : o % stride = 0}
  BY <1>0 DEF WindowStarts
<1> QED BY <1>5, <1>6

LEMMA LcsOfTwo ==
  ASSUME NEW a, Len(a) = 1, NEW b, Len(b) = 1, LcsLength(a, b) > 0
  PROVE  a[1] = b[1]
<1>1. PICK m \in Nat : m = 1
  OBVIOUS
<1>2. PICK n \in Nat : n = 1
  OBVIOUS
<1>3. Len(a) = m /\ Len(b) = n
  BY <1>1, <1>2
<1>4. AloneAlike(a, m, b, n)
  BY <1>3, LcsIs
<1> QED BY <1>1, <1>2, <1>4 DEF AloneAlike

LEMMA SmallerOfTwo ==
  ASSUME NEW a \in Nat, NEW b \in Nat
  PROVE  Min({a, b}) \in Nat /\ Min({a, b}) <= a /\ Min({a, b}) <= b /\ (Min({a, b}) = a \/ Min({a, b}) = b)
<1>1. PICK S : S = {a, b}
  OBVIOUS
<1>2. S \in SUBSET Int /\ IsFiniteSet(S) /\ S # {} /\ a \in S /\ b \in S
  <2>1. IsFiniteSet({} \cup {a})
    BY FS_EmptySet, FS_AddElement
  <2>2. IsFiniteSet(({} \cup {a}) \cup {b})
    BY <2>1, FS_AddElement
  <2>3. ({} \cup {a}) \cup {b} = {a, b}
    OBVIOUS
  <2> QED BY <1>1, <2>2, <2>3
<1>3. Min(S) \in S /\ \A k \in S : Min(S) <= k
  BY <1>2, FirstKept
<1>4. Min(S) \in Nat
  BY <1>1, <1>3
<1> QED BY <1>1, <1>2, <1>3, <1>4

\* The window that is chosen has a character in it that shows.
Chosen(nt, ct, best, size) ==
    /\ best \in Nat /\ size \in Nat /\ 1 <= size /\ best + size <= ct
    /\ \E x \in Int : best < x /\ x <= best + size /\ nt.text[x] # " "

LEMMA ClosestIs ==
  ASSUME NEW q, NEW quote, NEW nq, NEW cq, Cleaned(quote, q, nq, cq),
         NEW n, NEW text, NEW nt, NEW ct, Cleaned(text, n, nt, ct),
         NEW near, near = ClosestPassage(quote, text), near # Nowhere
  PROVE  \E best, size : /\ Chosen(nt, ct, best, size)
                         /\ near = Trimmed(text, Widened(text, [start |-> nt.map[best + 1], end |-> nt.map[best + size]]))
<1>1. cq \in Nat /\ ct \in Nat /\ n \in Nat /\ q \in Nat /\ Written(quote, q) /\ Written(text, n)
  BY CleanedReads
<1>2. PICK needle : needle = nq.text
  OBVIOUS
<1>3. PICK clean : clean = nt.text
  OBVIOUS
<1>4. /\ Written(needle, cq) /\ (needle = <<>> <=> cq = 0)
      /\ Written(clean, ct) /\ (clean = <<>> <=> ct = 0)
  BY <1>2, <1>3, CleanedReads
<1>5. Len(needle) = cq /\ Len(clean) = ct
  BY <1>4 DEF Written
<1>6. nq = NormalizeWithMap(quote) /\ nt = NormalizeWithMap(text)
  BY DEF Cleaned
<1>7. PICK size : size = Min({cq, ct})
  OBVIOUS
<1>8. PICK last : last = ct - size
  OBVIOUS
<1>10. PICK D : D = WindowStarts(last)
  OBVIOUS
<1>11. PICK common : common = [o \in D |-> LcsLength(needle, SubSeq(clean, o + 1, o + size))]
  OBVIOUS
<1>12. PICK most : most = {o \in D : \A p \in D : common[o] >= common[p]}
  OBVIOUS
<1>13. PICK best : best = Min(most)
  OBVIOUS
<1>14. near = IF needle = <<>> \/ clean = <<>> THEN Nowhere
              ELSE Trimmed(text, Widened(text, [start |-> nt.map[best + 1], end |-> nt.map[best + size]]))
  <2>1. DOMAIN common = D
    BY <1>11
  <2>2. most = {o \in DOMAIN common : \A p \in DOMAIN common : common[o] >= common[p]}
    BY <1>12, <2>1
  <2>3. common = [o \in WindowStarts(last) |-> LcsLength(needle, SubSeq(clean, o + 1, o + size))]
    BY <1>10, <1>11
  <2> QED BY <1>2, <1>3, <1>5, <1>6, <1>7, <1>8, <1>13, <2>2, <2>3 DEF ClosestPassage
<1>15. cq # 0 /\ ct # 0
  BY <1>4, <1>14
<1>16. near = Trimmed(text, Widened(text, [start |-> nt.map[best + 1], end |-> nt.map[best + size]]))
  BY <1>4, <1>14, <1>15
<1>17. size \in Nat /\ size <= cq /\ size <= ct /\ (size = cq \/ size = ct)
  BY <1>1, <1>7, SmallerOfTwo
<1>18. size # 0 /\ last \in Nat /\ last + size = ct
  BY <1>1, <1>8, <1>15, <1>17
<1>19. D \in SUBSET (0 .. last) /\ 0 \in D
  <2>1. last \in Nat
    BY <1>18
  <2>2. (\A o \in D : o \in 0 .. last) /\ 0 \in D
    BY <1>10, <2>1, WindowsAre
  <2> QED BY <2>2
<1>20. ASSUME NEW o \in D
       PROVE  /\ common[o] \in Nat
              /\ cq = 1 /\ common[o] > 0 => clean[o + 1] = needle[1]
  <2>1. o \in Nat /\ o <= last
    BY <1>19, <1>18
  <2>2. PICK a \in Int : a = o + 1
    BY <2>1
  <2>3. PICK z \in Int : z = o + size
    BY <1>17, <2>1
  <2>4. 1 <= a /\ a <= z /\ z <= ct /\ z - a + 1 = size
    BY <1>17, <1>18, <2>1, <2>2, <2>3
  <2>5. PICK window : window = SubSeq(clean, a, z)
    OBVIOUS
  <2>6. Cut(window, clean, a, size)
    <3>1. Cut(SubSeq(clean, a, z), clean, a, z - a + 1)
      BY <1>1, <1>4, <2>4, SubSeqIsCut
    <3> QED BY <2>4, <2>5, <3>1
  <2>7. Len(window) = size /\ \A i \in 1 .. size : window[i] = clean[a + i - 1]
    BY <2>6 DEF Cut, Written
  <2>8. common[o] = LcsLength(needle, window)
    BY <1>11, <2>2, <2>3, <2>5
  <2>9. LcsLength(needle, window) \in Nat
    BY <1>1, <1>5, <1>17, <2>7, LcsIs
  <2>10. ASSUME cq = 1, common[o] > 0 PROVE clean[o + 1] = needle[1]
    <3>1. size = 1
      BY <1>17, <1>18, <2>10
    <3>2. LcsLength(needle, window) > 0
      BY <2>8, <2>10
    <3>3. needle[1] = window[1]
      <4>1. Len(needle) = 1 /\ Len(window) = 1
        BY <1>5, <2>7, <2>10, <3>1
      <4> QED BY <3>2, <4>1, LcsOfTwo
    <3>4. 1 \in 1 .. size /\ a + 1 - 1 = a
      BY <3>1
    <3>5. window[1] = clean[a]
      BY <2>7, <3>4
    <3> QED BY <2>2, <3>3, <3>5
  <2> QED BY <2>8, <2>9, <2>10
<1>21. best \in D /\ (\A p \in D : common[best] >= common[p]) /\ \A o \in most : best <= o
  <2>1. D # {}
    BY <1>19
  <2> QED BY <1>12, <1>13, <1>18, <1>19, <1>20, <2>1, FirstGreatest
<1>22. best \in Nat /\ best + size <= ct
  BY <1>17, <1>18, <1>19, <1>21
<1>23. CleanedBy(nq, quote, Places(quote, q), cq) /\ CleanedBy(nt, text, Places(text, n), ct)
  BY DEF Cleaned
<1>24. needle[1] # " " /\ clean[1] # " "
  <2>1. nq.text[1] # " "
    BY <1>1, <1>15, <1>23, EndsShow
  <2>2. nt.text[1] # " "
    BY <1>1, <1>15, <1>23, EndsShow
  <2> QED BY <1>2, <1>3, <2>1, <2>2
<1>25. \E x \in Int : best < x /\ x <= best + size /\ clean[x] # " "
  <2>0. PICK x \in Int : x = best + 1
    BY <1>22
  <2>0a. best < x /\ x <= best + size /\ x <= ct
    BY <1>17, <1>18, <1>22, <2>0
  <2>1. CASE size >= 2
    <3>1. 1 <= x /\ x < ct
      BY <1>1, <1>17, <1>22, <2>0, <2>1
    <3>2. nt.text[x] # " " \/ nt.text[x + 1] # " "
      BY <3>1, NoTwoBlanks
    <3>3. PICK y \in Int : y = x + 1
      OBVIOUS
    <3>4. best < y /\ y <= best + size
      BY <1>17, <1>22, <2>0, <2>1, <3>3
    <3>5. clean[x] # " " \/ clean[y] # " "
      BY <1>3, <3>2, <3>3
    <3> QED BY <2>0a, <3>4, <3>5
  <2>2. CASE size = 1 /\ ct = 1
    <3>1. x = 1
      BY <1>22, <2>0, <2>0a, <2>2
    <3> QED BY <1>24, <2>0a, <3>1
  <2>3. CASE size = 1 /\ cq = 1
    <3>1. SUFFICES ASSUME clean[x] = " " PROVE FALSE
      BY <2>0a
    <3>2. ~(common[best] > 0)
      <4>1. common[best] > 0 => clean[best + 1] = needle[1]
        BY <1>20, <1>21, <2>3
      <4> QED BY <1>24, <2>0, <3>1, <4>1
    <3>2a. common[best] \in Nat
      BY <1>20, <1>21
    <3>3. common[best] = 0
      BY <3>2, <3>2a
    <3>4. \A p \in D : common[p] = 0
      <4>1. SUFFICES ASSUME NEW p \in D PROVE common[p] = 0
        OBVIOUS
      <4>2. common[p] \in Nat
        BY <1>20
      <4>3. common[best] >= common[p]
        BY <1>21
      <4> QED BY <3>3, <4>2, <4>3
    <3>5. 0 \in most
      BY <1>12, <1>19, <3>4
    <3>6. best = 0
      <4>1. best <= 0
        BY <1>21, <3>5
      <4> QED BY <1>22, <4>1
    <3>7. x = 1
      BY <2>0, <3>6
    <3> QED BY <1>24, <3>1, <3>7
  <2>4. size >= 2 \/ (size = 1 /\ ct = 1) \/ (size = 1 /\ cq = 1)
    BY <1>17, <1>18
  <2> QED BY <2>1, <2>2, <2>3, <2>4
<1>26. Chosen(nt, ct, best, size)
  <2>1. 1 <= size
    BY <1>17, <1>18
  <2>2. \E x \in Int : best < x /\ x <= best + size /\ nt.text[x] # " "
    BY <1>3, <1>25
  <2> QED BY <1>17, <1>22, <2>1, <2>2 DEF Chosen
<1> QED BY <1>16, <1>26

\* The passage that is offered can be read, whatever was said and quoted
\* (lib/evidence.ts:128-172).
LEMMA PassageIsAlwaysReadable ==
  ASSUME input \in AnyQuote
  PROVE  PassageIsReadable
<1>1. PICK quote : quote = input.quote
  OBVIOUS
<1>2. PICK text : text = input.transcript
  OBVIOUS
<1>3. quote \in Seq(Chars) /\ text \in Seq(Chars)
  BY <1>1, <1>2 DEF AnyQuote
<1>4. PICK q \in Nat : Written(quote, q)
  BY <1>3, SequenceIsWritten
<1>5. PICK n \in Nat : Written(text, n)
  BY <1>3, SequenceIsWritten
<1>6. PICK near : near = ClosestPassage(quote, text)
  OBVIOUS
<1>7. ASSUME near # Nowhere PROVE Readable(near, text, n)
  <2>1. PICK nq : \E c \in Nat : Cleaned(quote, q, nq, c)
    BY <1>4, EachIsCleaned
  <2>2. PICK cq \in Nat : Cleaned(quote, q, nq, cq)
    BY <2>1
  <2>3. PICK nt : \E c \in Nat : Cleaned(text, n, nt, c)
    BY <1>5, EachIsCleaned
  <2>4. PICK ct \in Nat : Cleaned(text, n, nt, ct)
    BY <2>3
  <2>5. PICK best, size : /\ Chosen(nt, ct, best, size)
                          /\ near = Trimmed(text, Widened(text, [start |-> nt.map[best + 1], end |-> nt.map[best + size]]))
    BY <1>6, <1>7, <2>2, <2>4, ClosestIs
  <2>6. best \in Nat /\ size \in Nat /\ 1 <= size /\ best + size <= ct
    BY <2>5 DEF Chosen
  <2>7. PICK x \in Int : best < x /\ x <= best + size /\ nt.text[x] # " "
    BY <2>5 DEF Chosen
  <2>8. PICK b \in 1 .. ct : b = best + 1
    BY <2>6
  <2>9. PICK z \in 1 .. ct : z = best + size
    BY <2>6
  <2>10. x \in 1 .. ct /\ b <= x /\ x <= z
    <3>1. best < x /\ x <= best + size
      BY <2>7
    <3>2. x \in 1 .. ct
      BY <2>6, <3>1
    <3> QED BY <2>6, <2>8, <2>9, <3>1, <3>2
  <2>11. CleanedBy(nt, text, Places(text, n), ct)
    BY <2>4 DEF Cleaned
  <2>12. \A i \in 1 .. ct : nt.map[i] \in 1 .. n /\ (Shows(text[nt.map[i]]) <=> nt.text[i] # " ")
    BY <1>5, <2>11, EndsShow
  <2>13. \A i, j \in 1 .. ct : i < j => nt.map[i] < nt.map[j]
    BY <2>11 DEF CleanedBy
  <2>14. PICK s \in 1 .. n : s = nt.map[b]
    BY <2>12
  <2>15. PICK e \in 1 .. n : e = nt.map[z]
    BY <2>12
  <2>16. PICK w \in 1 .. n : w = nt.map[x] /\ Shows(text[w])
    BY <2>7, <2>10, <2>12
  <2>17. s <= w
    <3>1. b < x => s < w
      BY <2>10, <2>13, <2>14, <2>16
    <3>2. b = x => s = w
      BY <2>14, <2>16
    <3> QED BY <2>10, <3>1, <3>2
  <2>18. w <= e
    <3>1. x < z => w < e
      BY <2>10, <2>13, <2>15, <2>16
    <3>2. x = z => w = e
      BY <2>15, <2>16
    <3> QED BY <2>10, <3>1, <3>2
  <2>19. Survives(text, e)
    <3>1. PICK S : S = Places(text, n)
      OBVIOUS
    <3>2. nt.map \in [1 .. ct -> S]
      BY <2>11, <3>1 DEF CleanedBy
    <3>3. e \in S
      BY <2>15, <3>2
    <3> QED BY <3>1, <3>3 DEF Places
  <2>20. IsWord(text[w])
    BY <2>16, CharactersAlike
  <2>21. PICK span : span = [start |-> s, end |-> e]
    OBVIOUS
  <2>22. span.start = s /\ span.end = e
    BY <2>21
  <2>23. Span(span, n)
    BY <2>17, <2>18, <2>22 DEF Span
  <2>24. near = Trimmed(text, Widened(text, span))
    BY <2>5, <2>8, <2>9, <2>14, <2>15, <2>21
  <2> QED BY <1>5, <2>17, <2>18, <2>19, <2>20, <2>22, <2>23, <2>24, PassageIs
<1>8. ASSUME near # Nowhere
      PROVE  LET cut(k) == k > 0 /\ k < Len(text) /\ IsWord(text[k]) /\ IsWord(text[k + 1])
                 cutOff == near.end < Len(text) /\ text[near.end] = "." /\ text[near.end + 1] = " "
             IN  /\ 1 <= near.start /\ near.start <= near.end /\ near.end <= Len(text)
                 /\ ~cut(near.start - 1) /\ ~cut(near.end)
                 /\ ~cutOff => \E k \in near.start .. near.end : IsWord(text[k])
  <2>1. Len(text) = n
    BY <1>5 DEF Written
  <2>2. Span(near, n) /\ Whole(near, text, n)
    BY <1>7, <1>8 DEF Readable
  <2>3. PICK s \in 1 .. n : s = near.start
    BY <2>2 DEF Span
  <2>4. PICK e \in 1 .. n : e = near.end
    BY <2>2 DEF Span
  <2>5. s <= e
    BY <2>2, <2>3, <2>4 DEF Span
  <2>6. ~(e < n /\ text[e] = "." /\ text[e + 1] = " ") => \E k \in s .. e : IsWord(text[k])
    <3>1. ~(e < n /\ text[e] = "." /\ text[e + 1] = " ") => \E k \in 1 .. n : s <= k /\ k <= e /\ IsWord(text[k])
      BY <1>7, <1>8, <2>3, <2>4 DEF Readable
    <3>2. \A k \in 1 .. n : s <= k /\ k <= e => k \in s .. e
      OBVIOUS
    <3> QED BY <3>1, <3>2
  <2>7. ~CutAt(text, n, s - 1) /\ ~CutAt(text, n, e)
    BY <2>2, <2>3, <2>4 DEF Whole
  <2>8. 1 <= s /\ e <= n /\ s - 1 \in Int
    OBVIOUS
  <2> DEFINE cut(k) == k > 0 /\ k < Len(text) /\ IsWord(text[k]) /\ IsWord(text[k + 1])
             cutOff == near.end < Len(text) /\ text[near.end] = "." /\ text[near.end + 1] = " "
  <2>9. 1 <= near.start /\ near.start <= near.end /\ near.end <= Len(text)
    BY <2>1, <2>3, <2>4, <2>5, <2>8
  <2>10. ~cut(near.start - 1) /\ ~cut(near.end)
    BY <2>1, <2>3, <2>4, <2>7 DEF CutAt
  <2>11. ~cutOff => \E k \in near.start .. near.end : IsWord(text[k])
    BY <2>1, <2>3, <2>4, <2>6
  <2> HIDE DEF cut, cutOff
  <2>12. /\ 1 <= near.start /\ near.start <= near.end /\ near.end <= Len(text)
         /\ ~cut(near.start - 1) /\ ~cut(near.end)
         /\ ~cutOff => \E k \in near.start .. near.end : IsWord(text[k])
    BY <2>9, <2>10, <2>11
  <2> QED BY <2>12 DEF cut, cutOff
<1> QED BY <1>1, <1>2, <1>6, <1>8 DEF PassageIsReadable

\* QuotesAreRead of every transcript, every texts and every quote: what the worker
\* verifies, what the badge says of it and what the reader marks are about the same
\* words (lib/evidence.ts, src/app/text_utils.py, features/interviews/Transcript.tsx).
THEOREM QuotesAreAlwaysRead ==
  ASSUME input \in AnyQuote \cup AnyTurns
  PROVE  QuotesAreRead
<1>1. CASE input \in AnyQuote
  <2>1. input.kind = "quote"
    BY <1>1 DEF AnyQuote
  <2>2. FlaggedIsNowhereToBeRead
    BY <2>1 DEF FlaggedIsNowhereToBeRead
  <2> QED BY <1>1, <2>2, MarkedIsAlwaysTheQuote, PassageIsAlwaysReadable DEF QuotesAreRead
<1>2. CASE input \in AnyTurns
  <2>1. input.kind = "turns"
    BY <1>2 DEF AnyTurns
  <2>2. MarkedIsTheQuote /\ PassageIsReadable
    BY <2>1 DEF MarkedIsTheQuote, PassageIsReadable
  <2> QED BY <1>2, <2>2, FlaggedIsNeverRead DEF QuotesAreRead
<1> QED BY <1>1, <1>2

-------------------------------------------------------------------------------
(* The merge of a transcription and of the turns of its speakers (Speech). *)

\* What was moved, and where it was moved from.
Reorders(at, n) ==
    /\ at \in [1 .. n -> 1 .. n]
    /\ \A i, j \in 1 .. n : at[i] = at[j] => i = j
    /\ \A k \in 1 .. n : \E i \in 1 .. n : at[i] = k

\* Each comes after those that start earlier, and in its turn after those that
\* start with it.
Before(start, n, i) == {j \in 1 .. n : start[j] < start[i] \/ (start[j] = start[i] /\ j <= i)}

LEMMA BeforeGrows ==
  ASSUME NEW n \in Nat, NEW start \in [1 .. n -> Int], NEW i \in 1 .. n, NEW j \in Before(start, n, i), i # j
  PROVE  Cardinality(Before(start, n, j)) < Cardinality(Before(start, n, i))
<1>1. PICK S : S = Before(start, n, i)
  OBVIOUS
<1>2. PICK T : T = Before(start, n, j)
  OBVIOUS
<1>3. S \in SUBSET (1 .. n) /\ T \in SUBSET (1 .. n) /\ j \in 1 .. n
  BY <1>1, <1>2 DEF Before
<1>4. T \in SUBSET S /\ i \in S /\ i \notin T
  <2>1. start[i] \in Int /\ start[j] \in Int
    BY <1>3
  <2>2. start[j] < start[i] \/ (start[j] = start[i] /\ j < i)
    BY <1>3 DEF Before
  <2>3. ASSUME NEW k \in T PROVE k \in S
    <3>1. k \in 1 .. n /\ start[k] \in Int /\ (start[k] < start[j] \/ (start[k] = start[j] /\ k <= j))
      BY <1>2, <2>3 DEF Before
    <3>2. start[k] < start[i] \/ (start[k] = start[i] /\ k <= i)
      BY <1>3, <2>1, <2>2, <3>1
    <3> QED BY <1>1, <3>1, <3>2 DEF Before
  <2>4. i \in S
    BY <1>1 DEF Before
  <2>5. i \notin T
    BY <1>2, <1>3, <2>1, <2>2 DEF Before
  <2> QED BY <2>3, <2>4, <2>5
<1>5. IsFiniteSet(S) /\ Cardinality(S) \in Nat /\ Cardinality(T) \in Nat
  BY <1>3, Positions
<1>6. Cardinality(T) <= Cardinality(S) /\ Cardinality(T) # Cardinality(S)
  BY <1>4, <1>5, FS_Subset
<1> QED BY <1>1, <1>2, <1>5, <1>6

LEMMA PlacesAreTaken ==
  ASSUME NEW n \in Nat, NEW start \in [1 .. n -> Int],
         NEW place, place = [i \in 1 .. n |-> Cardinality(Before(start, n, i))]
  PROVE  Reorders(place, n)
<1>1. 1 \in Int /\ n \in Int /\ IsFiniteSet(1 .. n) /\ Cardinality(1 .. n) = n
  <2>1. 1 \in Int /\ n \in Int
    OBVIOUS
  <2>2. IsFiniteSet(1 .. n) /\ Cardinality(1 .. n) = IF 1 > n THEN 0 ELSE n - 1 + 1
    BY <2>1, FS_Interval
  <2> QED BY <2>1, <2>2
<1>2. ASSUME NEW i \in 1 .. n PROVE Cardinality(Before(start, n, i)) \in 1 .. n
  <2>1. PICK S : S = Before(start, n, i)
    OBVIOUS
  <2>2. S \in SUBSET (1 .. n) /\ i \in S
    BY <2>1 DEF Before
  <2>3. IsFiniteSet(S) /\ Cardinality(S) \in Nat
    BY <2>2, Positions
  <2>4. Cardinality(S) # 0
    BY <2>2, <2>3, FS_EmptySet
  <2>5. Cardinality(S) <= n
    <3>1. PICK D : D = 1 .. n /\ IsFiniteSet(D) /\ Cardinality(D) = n
      BY <1>1
    <3>2. S \in SUBSET D
      BY <2>2, <3>1
    <3>3. Cardinality(S) <= Cardinality(D)
      BY <3>1, <3>2, FS_Subset
    <3> QED BY <3>1, <3>3
  <2> QED BY <2>1, <2>3, <2>4, <2>5
<1>3. place \in [1 .. n -> 1 .. n]
  BY <1>2
<1>4. ASSUME NEW i \in 1 .. n, NEW j \in 1 .. n, i # j PROVE place[i] # place[j]
  <2>1. start[i] \in Int /\ start[j] \in Int /\ i \in Int /\ j \in Int
    OBVIOUS
  <2>2. j \in Before(start, n, i) \/ i \in Before(start, n, j)
    BY <1>4, <2>1 DEF Before
  <2>3. place[j] < place[i] \/ place[i] < place[j]
    BY <1>4, <2>2, BeforeGrows
  <2>4. place[i] \in Int /\ place[j] \in Int
    BY <1>3
  <2> QED BY <2>3, <2>4
<1>5. place \in Injection(1 .. n, 1 .. n)
  BY <1>3, <1>4 DEF Injection, IsInjective
<1>6. place \in Surjection(1 .. n, 1 .. n)
  BY <1>1, <1>5, FS_Injection
<1>7. \A k \in 1 .. n : \E i \in 1 .. n : place[i] = k
  BY <1>6 DEF Surjection
<1>8. \A i, j \in 1 .. n : place[i] = place[j] => i = j
  BY <1>4
<1> QED BY <1>3, <1>7, <1>8 DEF Reorders

\* What a stable sort does: smaller keys come first, and of two members with the same
\* key the one that came first.
Sorts(at, sorted, s, key, n) ==
    /\ Reorders(at, n) /\ sorted = [k \in 1 .. n |-> s[at[k]]]
    /\ \A i, j \in 1 .. n : i < j => key[at[i]] <= key[at[j]]
    /\ \A i, j \in 1 .. n : i < j /\ key[at[i]] = key[at[j]] => at[i] < at[j]
    /\ \A k \in 1 .. n : Cardinality(Before(key, n, at[k])) = k

LEMMA SortedIs ==
  ASSUME NEW n \in Nat, NEW key \in [1 .. n -> Int], NEW s, DOMAIN s = 1 .. n
  PROVE  \E at : Sorts(at, SortedBy(s, key), s, key, n)
<1>1. PICK place : place = [i \in 1 .. n |-> Cardinality(Before(key, n, i))]
  OBVIOUS
<1>1a. Reorders(place, n)
  BY <1>1, PlacesAreTaken
<1>2. /\ place \in [1 .. n -> 1 .. n]
      /\ \A i, j \in 1 .. n : place[i] = place[j] => i = j
      /\ \A k \in 1 .. n : \E i \in 1 .. n : place[i] = k
  BY <1>1a DEF Reorders
<1>3. PICK at : at = [k \in 1 .. n |-> CHOOSE i \in 1 .. n : place[i] = k]
  OBVIOUS
<1>4. ASSUME NEW k \in 1 .. n PROVE at[k] \in 1 .. n /\ place[at[k]] = k
  BY <1>2, <1>3
<1>5. Reorders(at, n)
  <2>1. at \in [1 .. n -> 1 .. n]
    BY <1>3, <1>4
  <2>2. \A k \in 1 .. n : at[place[k]] = k /\ place[k] \in 1 .. n
    BY <1>2, <1>4
  <2> QED BY <1>4, <2>1, <2>2 DEF Reorders
<1>6. SortedBy(s, key) = [k \in 1 .. n |-> s[at[k]]]
  <2> DEFINE Held(i, k) == Cardinality({j \in DOMAIN s : Precedes(key, j, i)}) = k
             chosen == [k \in 1 .. n |-> CHOOSE i \in DOMAIN s : Held(i, k)]
  <2>1. ASSUME NEW i \in 1 .. n, NEW k PROVE Held(i, k) <=> place[i] = k
    <3>1. {j \in DOMAIN s : Precedes(key, j, i)} = Before(key, n, i)
      BY DEF Precedes, Before
    <3> QED BY <1>1, <3>1
  <2>2. SortedBy(s, key) = [k \in 1 .. n |-> s[chosen[k]]]
    BY DEF SortedBy
  <2> HIDE DEF Held
  <2>3. ASSUME NEW k \in 1 .. n PROVE chosen[k] = at[k]
    <3>1. at[k] \in 1 .. n /\ Held(at[k], k)
      BY <1>4, <2>1
    <3>2. chosen[k] \in 1 .. n /\ Held(chosen[k], k)
      BY <3>1
    <3> QED BY <1>2, <1>4, <2>1, <3>1, <3>2
  <2> HIDE DEF chosen
  <2> QED BY <2>2, <2>3
<1>7. ASSUME NEW i \in 1 .. n, NEW j \in 1 .. n, i < j
      PROVE  /\ key[at[i]] <= key[at[j]]
             /\ key[at[i]] = key[at[j]] => at[i] < at[j]
  <2>1. PICK a \in 1 .. n : a = at[i]
    BY <1>4
  <2>2. PICK b \in 1 .. n : b = at[j]
    BY <1>4
  <2>3. place[a] = i /\ place[b] = j /\ a # b
    BY <1>4, <1>7, <2>1, <2>2
  <2>4. key[a] \in Int /\ key[b] \in Int /\ a \in Int /\ b \in Int
    OBVIOUS
  <2>5. b \notin Before(key, n, a)
    <3>1. ASSUME b \in Before(key, n, a) PROVE FALSE
      <4>1. place[b] < place[a]
        BY <1>1, <2>3, <3>1, BeforeGrows
      <4> QED BY <1>7, <2>3, <4>1
    <3> QED BY <3>1
  <2>6. ~(key[b] < key[a]) /\ ~(key[b] = key[a] /\ b <= a)
    BY <2>5 DEF Before
  <2> QED BY <2>1, <2>2, <2>4, <2>6
<1>8. \A k \in 1 .. n : Cardinality(Before(key, n, at[k])) = k
  BY <1>1, <1>4
<1> QED BY <1>5, <1>6, <1>7, <1>8 DEF Sorts

\* What is in its order already stays.
LEMMA SortedStay ==
  ASSUME NEW n \in Nat, NEW key \in [1 .. n -> Int], NEW s, DOMAIN s = 1 .. n,
         \A i, j \in 1 .. n : i <= j => key[i] <= key[j]
  PROVE  SortedBy(s, key) = [k \in 1 .. n |-> s[k]]
<1>1. PICK at : Sorts(at, SortedBy(s, key), s, key, n)
  BY SortedIs
<1>2. ASSUME NEW i \in 1 .. n PROVE Cardinality(Before(key, n, i)) = i
  <2>1. Before(key, n, i) = 1 .. i
    <3>1. ASSUME NEW j \in 1 .. n PROVE j \in Before(key, n, i) <=> j <= i
      <4>1. key[i] \in Int /\ key[j] \in Int /\ i \in Int /\ j \in Int
        OBVIOUS
      <4>2. (j <= i => key[j] <= key[i]) /\ (i <= j => key[i] <= key[j])
        OBVIOUS
      <4> QED BY <4>1, <4>2 DEF Before
    <3>2. \A j \in Before(key, n, i) : j \in 1 .. n
      BY DEF Before
    <3>3. ASSUME NEW j PROVE j \in Before(key, n, i) <=> j \in 1 .. i
      BY <3>1, <3>2
    <3> QED BY <3>3
  <2>2. 1 \in Int /\ i \in Int /\ i >= 1
    OBVIOUS
  <2>3. Cardinality(1 .. i) = IF 1 > i THEN 0 ELSE i - 1 + 1
    BY <2>2, FS_Interval
  <2> QED BY <2>1, <2>2, <2>3
<1>3. ASSUME NEW k \in 1 .. n PROVE at[k] = k
  BY <1>1, <1>2 DEF Reorders, Sorts
<1> QED BY <1>1, <1>3 DEF Sorts

\* Moving changes no number.
LEMMA CountMoved ==
  ASSUME NEW n \in Nat, NEW at, Reorders(at, n), NEW A \in SUBSET (1 .. n),
         NEW B, B = {k \in 1 .. n : at[k] \in A}
  PROVE  Cardinality(B) = Cardinality(A)
<1>1. PICK g : g = [k \in B |-> at[k]]
  OBVIOUS
<1>2. g \in [B -> A]
  BY <1>1
<1>3. \A i, j \in B : g[i] = g[j] => i = j
  BY <1>1 DEF Reorders
<1>4. \A a \in A : \E k \in B : g[k] = a
  BY <1>1 DEF Reorders
<1>5. g \in Bijection(B, A)
  BY <1>2, <1>3, <1>4 DEF Bijection, Injection, Surjection, IsInjective
<1>6. ExistsBijection(B, A)
  BY <1>5 DEF ExistsBijection
<1>7. IsFiniteSet(B)
  <2>1. B \in SUBSET (1 .. n)
    OBVIOUS
  <2> QED BY <2>1, Positions
<1> QED BY <1>6, <1>7, FS_Bijection

\* The instants of one interval that are in another.
Shared(a, b) == {t \in a.start .. a.end - 1 : b.start <= t /\ t < b.end}
Timed(a) == a.start \in Int /\ a.end \in Int

\* The overlap of two intervals is the number of instants they share.
LEMMA OverlapIsCounted ==
  ASSUME NEW a, NEW b, Timed(a), Timed(b)
  PROVE  /\ IsFiniteSet(Shared(a, b)) /\ Cardinality(Shared(a, b)) = Overlap(a, b) /\ Overlap(a, b) \in Nat
         /\ Overlap(a, b) > 0 => Shared(a, b) # {}
         /\ Shared(a, b) # {} => Overlap(a, b) > 0
<1>1. PICK s \in Int : s = a.start
  BY DEF Timed
<1>2. PICK e \in Int : e = a.end
  BY DEF Timed
<1>3. PICK u \in Int : u = b.start
  BY DEF Timed
<1>4. PICK v \in Int : v = b.end
  BY DEF Timed
<1>5. PICK lo \in Int : lo = Greatest(s, u)
  BY DEF Greatest
<1>6. PICK hi \in Int : hi = Least(e, v) - 1
  BY DEF Least
<1>7. Shared(a, b) = lo .. hi
  <2>1. ASSUME NEW t PROVE t \in Shared(a, b) <=> t \in lo .. hi
    BY <1>1, <1>2, <1>3, <1>4, <1>5, <1>6 DEF Shared, Greatest, Least
  <2> QED BY <2>1
<1>8. IsFiniteSet(lo .. hi) /\ Cardinality(lo .. hi) = IF lo > hi THEN 0 ELSE hi - lo + 1
  BY FS_Interval
<1>9. Overlap(a, b) = IF lo > hi THEN 0 ELSE hi - lo + 1
  <2>1. Overlap(a, b) = Greatest(0, Least(e, v) - Greatest(s, u))
    BY <1>1, <1>2, <1>3, <1>4 DEF Overlap
  <2>2. Least(e, v) - Greatest(s, u) = hi - lo + 1
    BY <1>5, <1>6 DEF Greatest, Least
  <2> QED BY <2>1, <2>2 DEF Greatest
<1>10. Overlap(a, b) \in Nat
  BY <1>9
<1>11. IsFiniteSet(Shared(a, b)) /\ Cardinality(Shared(a, b)) = Overlap(a, b)
  BY <1>7, <1>8, <1>9
<1>12. Cardinality(Shared(a, b)) = 0 <=> Shared(a, b) = {}
  BY <1>11, FS_EmptySet
<1> QED BY <1>10, <1>11, <1>12

\* What a speaker adds to his overlap with each turn.
Turned(turns, N) == N \in Nat /\ Len(turns) = N /\ DOMAIN turns = 1 .. N /\ \A i \in 1 .. N : Timed(turns[i])
Adds(segment, turn, speaker) == IF turn.speaker = speaker THEN Overlap(segment, turn) ELSE 0
Sums(upTo, segment, turns, speaker, N) ==
    upTo = [n \in 0 .. N |-> IF n = 0 THEN 0 ELSE upTo[n - 1] + Adds(segment, turns[n], speaker)]

LEMMA SpeakerOverlapIs ==
  ASSUME NEW segment, Timed(segment), NEW turns, NEW N, Turned(turns, N), NEW speaker
  PROVE  \E upTo : Sums(upTo, segment, turns, speaker, N) /\ SpeakerOverlap(segment, turns, speaker) = upTo[N]
<1>1. N \in Nat /\ Len(turns) = N
  BY DEF Turned
<1>2. ASSUME NEW n \in 1 .. N PROVE Adds(segment, turns[n], speaker) \in Nat
  <2>1. Timed(turns[n])
    BY DEF Turned
  <2> QED BY <2>1, OverlapIsCounted DEF Adds
<1>3. PICK step : step = [n \in 1 .. N |-> [v \in Nat |-> v + Adds(segment, turns[n], speaker)]]
  OBVIOUS
<1>4. step \in [1 .. N -> [Nat -> Nat]]
  <2>1. ASSUME NEW n \in 1 .. N, NEW v \in Nat PROVE v + Adds(segment, turns[n], speaker) \in Nat
    BY <1>2
  <2> QED BY <1>3, <2>1
<1>5. PICK V : V = Nat /\ 0 \in V /\ step \in [1 .. N -> [V -> V]]
  BY <1>4
<1>6. PICK f : Recurs(f, N, V, 0, step)
  BY <1>1, <1>5, RecursionExists
<1>7. f \in [0 .. N -> V] /\ f[0] = 0 /\ \A n \in 1 .. N : f[n] = step[n][f[n - 1]]
  BY <1>6 DEF Recurs
<1>8. Sums(f, segment, turns, speaker, N)
  <2>1. ASSUME NEW n \in 0 .. N
        PROVE  f[n] = IF n = 0 THEN 0 ELSE f[n - 1] + Adds(segment, turns[n], speaker)
    <3>1. CASE n = 0
      BY <1>7, <3>1
    <3>2. CASE n # 0
      <4>0. PICK k \in Int : k = n - 1
        OBVIOUS
      <4>1. k \in 0 .. N /\ n \in 1 .. N
        BY <1>1, <3>2, <4>0
      <4>2. PICK v \in V : v = f[k]
        BY <1>7, <4>1
      <4>3. f[n] = step[n][v]
        BY <1>7, <4>0, <4>1, <4>2
      <4>4. f[n] = v + Adds(segment, turns[n], speaker)
        BY <1>3, <1>5, <4>1, <4>3
      <4> QED BY <3>2, <4>0, <4>2, <4>4
    <3> QED BY <3>1, <3>2
  <2> QED BY <1>7, <2>1 DEF Sums
<1> DEFINE upTo == CHOOSE upTo : upTo = [n \in 0 .. Len(turns) |->
            IF n = 0 THEN 0
            ELSE upTo[n - 1] + (IF turns[n].speaker = speaker THEN Overlap(segment, turns[n]) ELSE 0)]
<1>9. SpeakerOverlap(segment, turns, speaker) = upTo[Len(turns)]
  BY DEF SpeakerOverlap
<1>10. Sums(upTo, segment, turns, speaker, N)
  <2>1. upTo = CHOOSE g : Sums(g, segment, turns, speaker, N)
    BY <1>1 DEF Sums, Adds
  <2> HIDE DEF upTo
  <2> QED BY <1>8, <2>1
<1> HIDE DEF upTo
<1> QED BY <1>1, <1>9, <1>10

\* The instants a speaker is heard in, in the first n of the turns.
HeardIn(segment, turns, speaker, n) ==
    {at \in (segment.start .. segment.end - 1) \X (1 .. n) :
        /\ turns[at[2]].speaker = speaker
        /\ turns[at[2]].start <= at[1] /\ at[1] < turns[at[2]].end}

LEMMA HeardGrows ==
  ASSUME NEW segment, Timed(segment), NEW turns, NEW N, Turned(turns, N), NEW speaker,
         NEW n \in 1 .. N, NEW k, k = n - 1, IsFiniteSet(HeardIn(segment, turns, speaker, k))
  PROVE  /\ IsFiniteSet(HeardIn(segment, turns, speaker, n))
         /\ Cardinality(HeardIn(segment, turns, speaker, n))
                = Cardinality(HeardIn(segment, turns, speaker, k)) + Adds(segment, turns[n], speaker)
<1>1. PICK S : S = HeardIn(segment, turns, speaker, k)
  OBVIOUS
<1>2. PICK T : T = HeardIn(segment, turns, speaker, n)
  OBVIOUS
<1>3. PICK turn : turn = turns[n] /\ Timed(turn)
  BY DEF Turned
<1>4. PICK P : P = IF turn.speaker = speaker THEN Shared(segment, turn) ELSE {}
  OBVIOUS
<1>5. IsFiniteSet(P) /\ Cardinality(P) = Adds(segment, turn, speaker) /\ Cardinality(P) \in Nat
  BY <1>3, <1>4, OverlapIsCounted, FS_EmptySet DEF Adds
<1>6. PICK Q : Q = {<<t, n>> : t \in P}
  OBVIOUS
<1>7. IsFiniteSet(Q) /\ Cardinality(Q) = Cardinality(P)
  <2>1. PICK g : g = [t \in P |-> <<t, n>>]
    OBVIOUS
  <2>2. g \in [P -> Q] /\ (\A t, u \in P : g[t] = g[u] => t = u) /\ \A q \in Q : \E t \in P : g[t] = q
    BY <1>6, <2>1
  <2>3. g \in Bijection(P, Q)
    BY <2>2 DEF Bijection, Injection, Surjection, IsInjective
  <2>4. ExistsBijection(P, Q)
    BY <2>3 DEF ExistsBijection
  <2> QED BY <1>5, <2>4, FS_Bijection
<1>8. n \in Int /\ k \in Int /\ \A j : j \in 1 .. n <=> j \in 1 .. k \/ j = n
  BY DEF Turned
<1>9. T = S \cup Q
  <2>1. PICK I : I = segment.start .. segment.end - 1
    OBVIOUS
  <2>2. Q = {at \in I \X {n} : turns[at[2]].speaker = speaker
                        /\ turns[at[2]].start <= at[1] /\ at[1] < turns[at[2]].end}
    BY <1>3, <1>4, <1>6, <2>1 DEF Shared
  <2>3. \A at : at \in I \X (1 .. n) <=> at \in I \X (1 .. k) \/ at \in I \X {n}
    BY <1>8
  <2> QED BY <1>1, <1>2, <2>1, <2>2, <2>3 DEF HeardIn
<1>10. S \cap Q = {}
  <2>1. ASSUME NEW at \in S PROVE at \notin Q
    <3>1. at[2] \in 1 .. k
      BY <1>1 DEF HeardIn
    <3>2. at[2] # n
      BY <1>8, <3>1
    <3> QED BY <1>6, <3>2
  <2> QED BY <2>1
<1>11. IsFiniteSet(T) /\ Cardinality(T) = Cardinality(S) + Cardinality(Q) - Cardinality(S \cap Q)
  BY <1>1, <1>7, <1>9, FS_Union
<1>12. Cardinality(S \cap Q) = 0 /\ Cardinality(S) \in Nat
  BY <1>1, <1>10, FS_EmptySet, FS_CardinalityType
<1> QED BY <1>1, <1>2, <1>3, <1>5, <1>7, <1>11, <1>12

\* Adding up overlaps counts the instants a speaker is heard in.
LEMMA HeardIs ==
  ASSUME NEW segment, Timed(segment), NEW turns, NEW N, Turned(turns, N), NEW speaker
  PROVE  /\ IsFiniteSet(HeardIn(segment, turns, speaker, N))
         /\ Heard(segment, turns, speaker) = Cardinality(HeardIn(segment, turns, speaker, N))
         /\ SpeakerOverlap(segment, turns, speaker) = Heard(segment, turns, speaker)
         /\ Heard(segment, turns, speaker) \in Nat
<1>1. PICK upTo : Sums(upTo, segment, turns, speaker, N) /\ SpeakerOverlap(segment, turns, speaker) = upTo[N]
  BY SpeakerOverlapIs
<1>2. PICK H : H = [n \in 0 .. N |-> HeardIn(segment, turns, speaker, n)]
  OBVIOUS
<1>3. PICK I : I = {n \in 0 .. N : IsFiniteSet(H[n]) /\ Cardinality(H[n]) = upTo[n]}
  OBVIOUS
<1>4. N \in Nat /\ DOMAIN turns = 1 .. N
  BY DEF Turned
<1>5. 0 \in I
  <2>1. H[0] = {}
    <3>1. 0 \in 0 .. N /\ 1 .. 0 = {}
      BY <1>4
    <3> QED BY <1>2, <3>1 DEF HeardIn
  <2>2. upTo[0] = 0
    <3>1. 0 \in 0 .. N
      BY <1>4
    <3> QED BY <1>1, <3>1 DEF Sums
  <2>3. 0 \in 0 .. N
    BY <1>4
  <2> QED BY <1>3, <2>1, <2>2, <2>3, FS_EmptySet
<1>6. ASSUME NEW n \in 1 .. N, n - 1 \in I PROVE n \in I
  <2>1. PICK k \in 0 .. N : k = n - 1 /\ k \in I
    BY <1>3, <1>6
  <2>2. IsFiniteSet(H[k]) /\ Cardinality(H[k]) = upTo[k] /\ H[k] = HeardIn(segment, turns, speaker, k)
    BY <1>2, <1>3, <2>1
  <2>3. n \in 0 .. N /\ n # 0 /\ H[n] = HeardIn(segment, turns, speaker, n)
    BY <1>2, <1>4
  <2>4. IsFiniteSet(H[n]) /\ Cardinality(H[n]) = upTo[k] + Adds(segment, turns[n], speaker)
    BY <2>1, <2>2, <2>3, HeardGrows
  <2>5. upTo[n] = upTo[k] + Adds(segment, turns[n], speaker)
    BY <1>1, <2>1, <2>3 DEF Sums
  <2> QED BY <1>3, <2>3, <2>4, <2>5
<1>7. \A n \in 0 .. N : n \in I
  BY <1>4, <1>5, <1>6, StepByStep
<1>8. N \in 0 .. N
  BY <1>4
<1>9. IsFiniteSet(H[N]) /\ Cardinality(H[N]) = upTo[N] /\ H[N] = HeardIn(segment, turns, speaker, N)
  BY <1>2, <1>3, <1>7, <1>8
<1>10. Heard(segment, turns, speaker) = Cardinality(HeardIn(segment, turns, speaker, N))
  BY <1>4 DEF Heard, HeardIn
<1> QED BY <1>1, <1>9, <1>10, FS_CardinalityType

\* Who is heard at all overlaps the segment with one of his turns.
LEMMA HeardOverlaps ==
  ASSUME NEW segment, Timed(segment), NEW turns, NEW N, Turned(turns, N), NEW speaker
  PROVE  Heard(segment, turns, speaker) > 0
            <=> \E j \in 1 .. N : turns[j].speaker = speaker /\ Overlap(segment, turns[j]) > 0
<1>1. PICK S : S = HeardIn(segment, turns, speaker, N)
  OBVIOUS
<1>2. IsFiniteSet(S) /\ Heard(segment, turns, speaker) = Cardinality(S) /\ Cardinality(S) \in Nat
  BY <1>1, HeardIs
<1>3. Heard(segment, turns, speaker) > 0 <=> S # {}
  BY <1>2, FS_EmptySet
<1>4. ASSUME NEW j \in 1 .. N
      PROVE  Overlap(segment, turns[j]) > 0 <=> Shared(segment, turns[j]) # {}
  <2>1. Timed(turns[j])
    BY DEF Turned
  <2> QED BY <2>1, OverlapIsCounted
<1>5. ASSUME S # {} PROVE \E j \in 1 .. N : turns[j].speaker = speaker /\ Overlap(segment, turns[j]) > 0
  <2>1. PICK at : at \in S
    BY <1>5
  <2>2. /\ at[2] \in 1 .. N /\ turns[at[2]].speaker = speaker
        /\ at[1] \in segment.start .. segment.end - 1 /\ turns[at[2]].start <= at[1] /\ at[1] < turns[at[2]].end
    BY <1>1, <2>1 DEF HeardIn
  <2>3. at[1] \in Shared(segment, turns[at[2]])
    BY <2>2 DEF Shared
  <2> QED BY <1>4, <2>2, <2>3
<1>6. ASSUME NEW j \in 1 .. N, turns[j].speaker = speaker, Overlap(segment, turns[j]) > 0 PROVE S # {}
  <2>1. PICK t : t \in Shared(segment, turns[j])
    BY <1>4, <1>6
  <2>2. t \in segment.start .. segment.end - 1 /\ turns[j].start <= t /\ t < turns[j].end
    BY <2>1 DEF Shared
  <2>3. PICK at : at = <<t, j>>
    OBVIOUS
  <2>4. at \in (segment.start .. segment.end - 1) \X (1 .. N) /\ at[1] = t /\ at[2] = j
    BY <2>2, <2>3
  <2>5. at \in S
    BY <1>1, <1>6, <2>2, <2>4 DEF HeardIn
  <2> QED BY <2>5
<1> QED BY <1>3, <1>5, <1>6

\* A segment is given to the one heard in it longest, and to nobody when nobody is heard.
GivenTo(best, segment, turns, N) ==
    \/ best = "UNKNOWN" /\ \A s : Heard(segment, turns, s) = 0
    \/ /\ \E i \in 1 .. N : best = turns[i].speaker
       /\ Heard(segment, turns, best) > 0
       /\ \A s : Heard(segment, turns, s) <= Heard(segment, turns, best)

LEMMA BestIs ==
  ASSUME NEW segment, Timed(segment), NEW turns, NEW N, Turned(turns, N)
  PROVE  GivenTo(BestSpeaker(segment, turns), segment, turns, N)
<1>1. PICK over : over = {i \in 1 .. N : Overlap(segment, turns[i]) > 0}
  OBVIOUS
<1>2. PICK heard : heard = [i \in 1 .. N |-> Heard(segment, turns, turns[i].speaker)]
  OBVIOUS
<1>3. PICK most : most = {i \in over : \A j \in over : heard[i] >= heard[j]}
  OBVIOUS
<1>4. N \in Nat /\ DOMAIN turns = 1 .. N
  BY DEF Turned
<1>5. BestSpeaker(segment, turns) = IF over = {} THEN "UNKNOWN" ELSE turns[Min(most)].speaker
  <2>1. \A i \in 1 .. N : SpeakerOverlap(segment, turns, turns[i].speaker) = heard[i]
    BY <1>2, HeardIs
  <2>2. over = {i \in DOMAIN turns : Overlap(segment, turns[i]) > 0}
    BY <1>1, <1>4
  <2>3. most = {i \in over : \A j \in over : SpeakerOverlap(segment, turns, turns[i].speaker)
                                                >= SpeakerOverlap(segment, turns, turns[j].speaker)}
    BY <1>1, <1>3, <2>1
  <2> QED BY <2>2, <2>3 DEF BestSpeaker
<1>6. \A s : Heard(segment, turns, s) \in Nat
  BY HeardIs
<1>7. \A s : Heard(segment, turns, s) > 0 => \E j \in over : turns[j].speaker = s
  BY <1>1, HeardOverlaps
<1>8. CASE over = {}
  <2>1. \A s : Heard(segment, turns, s) = 0
    BY <1>6, <1>7, <1>8
  <2> QED BY <1>5, <1>8, <2>1 DEF GivenTo
<1>9. CASE over # {}
  <2>1. over \in SUBSET (0 .. N) /\ \A i \in over : i \in 1 .. N
    BY <1>1, <1>4
  <2>2. \A i \in over : heard[i] \in Nat
    BY <1>2, <1>6, <2>1
  <2>3. Min(most) \in over /\ \A j \in over : heard[Min(most)] >= heard[j]
    BY <1>3, <1>4, <1>9, <2>1, <2>2, FirstGreatest
  <2>4. PICK i \in over : i = Min(most) /\ \A j \in over : heard[i] >= heard[j]
    BY <2>3
  <2>5. PICK best : best = turns[i].speaker
    OBVIOUS
  <2>6. BestSpeaker(segment, turns) = best
    BY <1>5, <1>9, <2>4, <2>5
  <2>7. i \in 1 .. N /\ Overlap(segment, turns[i]) > 0
    BY <1>1
  <2>8. Heard(segment, turns, best) > 0
    BY <2>5, <2>7, HeardOverlaps
  <2>9. ASSUME NEW s PROVE Heard(segment, turns, s) <= Heard(segment, turns, best)
    <3>1. CASE Heard(segment, turns, s) > 0
      <4>1. PICK j \in over : turns[j].speaker = s
        BY <1>7, <3>1
      <4>2. heard[i] >= heard[j]
        BY <2>4
      <4>3. heard[i] = Heard(segment, turns, best) /\ heard[j] = Heard(segment, turns, s)
        BY <1>2, <2>1, <2>5, <4>1
      <4> QED BY <1>6, <4>2, <4>3
    <3>2. CASE ~(Heard(segment, turns, s) > 0)
      BY <1>6, <2>8, <3>2
    <3> QED BY <3>1, <3>2
  <2> QED BY <2>5, <2>6, <2>7, <2>8, <2>9 DEF GivenTo
<1> QED BY <1>8, <1>9

\* A segment with its speaker, and segments of any texts and times.
Given(segment, turns) ==
    [speaker |-> BestSpeaker(segment, turns), text |-> segment.text, start |-> segment.start, end |-> segment.end]
Segmented(segments, n) ==
    n \in Nat /\ Written(segments, n) /\ \A i \in 1 .. n : Timed(segments[i])

\* The merge gives each segment its speaker and moves it to its place in time.
MergedBy(at, merged, segments, turns, n) ==
    /\ Reorders(at, n) /\ merged = [k \in 1 .. n |-> Given(segments[at[k]], turns)]
    /\ \A i, j \in 1 .. n : i < j => merged[i].start <= merged[j].start

LEMMA MergeIs ==
  ASSUME NEW segments, NEW n, Segmented(segments, n), NEW turns
  PROVE  /\ \E at : MergedBy(at, Merge(segments, turns), segments, turns, n)
         /\ (\A i, j \in 1 .. n : i <= j => segments[i].start <= segments[j].start)
                => Merge(segments, turns) = [k \in 1 .. n |-> Given(segments[k], turns)]
<1>1. n \in Nat /\ DOMAIN segments = 1 .. n /\ \A i \in 1 .. n : Timed(segments[i])
  BY DEF Segmented, Written
<1>2. PICK start : start = [i \in 1 .. n |-> segments[i].start]
  OBVIOUS
<1>3. start \in [1 .. n -> Int]
  BY <1>1, <1>2 DEF Timed
<1>4. PICK given : given = [i \in 1 .. n |-> Given(segments[i], turns)]
  OBVIOUS
<1>5. DOMAIN given = 1 .. n /\ \A i \in 1 .. n : given[i] = Given(segments[i], turns) /\ given[i].start = start[i]
  BY <1>2, <1>4 DEF Given
<1>6. PICK merged : merged = Merge(segments, turns)
  OBVIOUS
<1>7. merged = SortedBy(given, start)
  <2>1. merged = ByStart(given)
    BY <1>1, <1>4, <1>6 DEF Merge, Given
  <2>2. start = [i \in DOMAIN given |-> given[i].start]
    BY <1>2, <1>5
  <2> QED BY <2>1, <2>2 DEF ByStart
<1>8. PICK at : Sorts(at, merged, given, start, n)
  BY <1>1, <1>3, <1>5, <1>7, SortedIs
<1>9. \A k \in 1 .. n : at[k] \in 1 .. n
  BY <1>8 DEF Sorts, Reorders
<1>10. MergedBy(at, merged, segments, turns, n)
  <2>1. merged = [k \in 1 .. n |-> given[at[k]]]
    BY <1>8 DEF Sorts
  <2>2. merged = [k \in 1 .. n |-> Given(segments[at[k]], turns)]
    BY <1>5, <1>9, <2>1
  <2>3. \A k \in 1 .. n : merged[k].start = start[at[k]]
    BY <1>5, <1>9, <2>1
  <2> QED BY <1>8, <2>2, <2>3 DEF MergedBy, Sorts
<1>11. ASSUME \A i, j \in 1 .. n : i <= j => segments[i].start <= segments[j].start
       PROVE  merged = [k \in 1 .. n |-> Given(segments[k], turns)]
  <2>1. \A i, j \in 1 .. n : i <= j => start[i] <= start[j]
    BY <1>2, <1>11
  <2>2. merged = [k \in 1 .. n |-> given[k]]
    BY <1>1, <1>3, <1>5, <1>7, <2>1, SortedStay
  <2> QED BY <1>4, <2>2
<1> QED BY <1>6, <1>10, <1>11

\* Any transcription and any turns of the diarizer.
Segments(texts) == Seq([text : texts, start : Int, end : Int])
AnyMerge(texts) ==
    [kind : {"merge"}, segments : Segments(texts), turns : Seq([speaker : Speakers, start : Int, end : Int])]

LEMMA SegmentsAre ==
  ASSUME NEW texts, NEW segments \in Segments(texts)
  PROVE  /\ Segmented(segments, Len(segments))
         /\ \A i \in 1 .. Len(segments) : segments[i] \in [text : texts, start : Int, end : Int]
<1>1. Len(segments) \in Nat /\ Written(segments, Len(segments))
  BY SequenceIsWritten DEF Segments
<1>2. \A i \in 1 .. Len(segments) : segments[i] \in [text : texts, start : Int, end : Int]
  <2>1. PICK R : R = [text : texts, start : Int, end : Int]
    OBVIOUS
  <2>2. segments \in Seq(R)
    BY <2>1 DEF Segments
  <2> QED BY <2>1, <2>2, ElementOfSeq
<1> QED BY <1>1, <1>2 DEF Segmented, Timed

\* Whatever was said and whoever spoke when, a sentence is given to who is heard in
\* it longest (src/app/audio_processor.py:353-370).
LEMMA SpeakerIsAlwaysTheOneHeardMost ==
  ASSUME NEW texts, input \in AnyMerge(texts)
  PROVE  SpeakerIsTheOneHeardMost
<1>1. PICK segments \in Segments(texts) : segments = input.segments
  BY DEF AnyMerge
<1>2. PICK turns \in Seq([speaker : Speakers, start : Int, end : Int]) : turns = input.turns
  BY DEF AnyMerge
<1>3. PICK n : n = Len(segments) /\ Segmented(segments, n)
  BY <1>1, SegmentsAre
<1>4. PICK N : Turned(turns, N) /\ \A i \in 1 .. N : turns[i].speaker \in Speakers
  <2>1. Len(turns) \in Nat /\ Written(turns, Len(turns))
    BY <1>2, SequenceIsWritten
  <2>2. \A i \in 1 .. Len(turns) : turns[i] \in [speaker : Speakers, start : Int, end : Int]
    <3>1. PICK R : R = [speaker : Speakers, start : Int, end : Int]
      OBVIOUS
    <3>2. turns \in Seq(R)
      BY <1>2, <3>1
    <3> QED BY <3>1, <3>2, ElementOfSeq
  <2> QED BY <2>1, <2>2 DEF Turned, Timed, Written
<1>5. PICK merged : merged = Merge(segments, turns)
  OBVIOUS
<1>6. PICK at : MergedBy(at, merged, segments, turns, n)
  BY <1>3, <1>5, MergeIs
<1>7. ASSUME NEW m \in ToSet(merged)
      PROVE  LET heard == [s \in Speakers |-> Heard(m, turns, s)]
             IN  IF m.speaker = "UNKNOWN" THEN \A s \in Speakers : heard[s] = 0
                 ELSE heard[m.speaker] > 0 /\ \A s \in Speakers : heard[s] <= heard[m.speaker]
  <2>1. PICK k \in 1 .. n : m = Given(segments[at[k]], turns)
    BY <1>6, <1>7 DEF MergedBy, ToSet
  <2>2. PICK segment : segment = segments[at[k]] /\ Timed(segment)
    BY <1>3, <1>6 DEF MergedBy, Reorders, Segmented
  <2>3. m.speaker = BestSpeaker(segment, turns) /\ m.start = segment.start /\ m.end = segment.end
    BY <2>1, <2>2 DEF Given
  <2>4. \A s : Heard(m, turns, s) = Heard(segment, turns, s)
    BY <2>3 DEF Heard
  <2>5. GivenTo(m.speaker, segment, turns, N)
    BY <1>4, <2>2, <2>3, BestIs
  <2>6. "UNKNOWN" \notin Speakers
    BY SpeechAssumption
  <2>7. CASE m.speaker = "UNKNOWN"
    <3>1. \A s : Heard(segment, turns, s) = 0
      BY <1>4, <2>5, <2>6, <2>7 DEF GivenTo
    <3> QED BY <2>4, <2>7, <3>1
  <2>8. CASE m.speaker # "UNKNOWN"
    <3>1. /\ m.speaker \in Speakers /\ Heard(segment, turns, m.speaker) > 0
          /\ \A s : Heard(segment, turns, s) <= Heard(segment, turns, m.speaker)
      BY <1>4, <2>5, <2>8 DEF GivenTo
    <3> QED BY <2>4, <2>8, <3>1
  <2> QED BY <2>7, <2>8
<1> QED BY <1>1, <1>2, <1>5, <1>7 DEF SpeakerIsTheOneHeardMost

\* The merge loses, adds and repeats nothing, and puts it in time.
LEMMA MergeKeepsAll ==
  ASSUME NEW texts, input \in AnyMerge(texts)
  PROVE  SpeechSurvives
<1>1. PICK segments \in Segments(texts) : segments = input.segments
  BY DEF AnyMerge
<1>2. PICK turns : turns = input.turns
  OBVIOUS
<1>3. PICK n \in Nat : n = Len(segments) /\ DOMAIN segments = 1 .. n /\ Segmented(segments, n)
  BY <1>1, SegmentsAre DEF Segmented, Written
<1>4. PICK m : m = Merge(segments, turns)
  OBVIOUS
<1>5. PICK at : MergedBy(at, m, segments, turns, n)
  BY <1>3, <1>4, MergeIs
<1>6. DOMAIN m = 1 .. n /\ Len(m) = n
  <2>1. Listed(m, n)
    BY <1>5 DEF MergedBy, Listed
  <2> QED BY <1>3, <2>1, FunctionWritten DEF Written
<1>7. ASSUME NEW s \in ToSet(segments)
      PROVE  Cardinality({i \in DOMAIN m : <<m[i].text, m[i].start, m[i].end>> = <<s.text, s.start, s.end>>})
                = Cardinality({i \in DOMAIN segments : segments[i] = s})
  <2>1. PICK A : A = {i \in 1 .. n : segments[i] = s}
    OBVIOUS
  <2>2. PICK B : B = {k \in 1 .. n : at[k] \in A}
    OBVIOUS
  <2>3. s \in [text : texts, start : Int, end : Int]
    BY <1>1, <1>3, SegmentsAre DEF ToSet
  <2>4. ASSUME NEW k \in 1 .. n
        PROVE  <<m[k].text, m[k].start, m[k].end>> = <<s.text, s.start, s.end>> <=> at[k] \in A
    <3>1. PICK segment : segment = segments[at[k]] /\ at[k] \in 1 .. n
      BY <1>5 DEF MergedBy, Reorders
    <3>2. segment \in [text : texts, start : Int, end : Int]
      BY <1>1, <1>3, <3>1, SegmentsAre
    <3>3. m[k].text = segment.text /\ m[k].start = segment.start /\ m[k].end = segment.end
      BY <1>5, <3>1 DEF MergedBy, Given
    <3>4. at[k] \in A <=> segment = s
      BY <2>1, <3>1
    <3>5. segment = s <=> segment.text = s.text /\ segment.start = s.start /\ segment.end = s.end
      BY <2>3, <3>2
    <3> QED BY <3>3, <3>4, <3>5
  <2>5. B = {i \in DOMAIN m : <<m[i].text, m[i].start, m[i].end>> = <<s.text, s.start, s.end>>}
    BY <1>6, <2>2, <2>4
  <2>6. Cardinality(B) = Cardinality(A)
    BY <1>5, <2>1, <2>2, CountMoved DEF MergedBy
  <2> QED BY <1>3, <2>1, <2>5, <2>6
<1>8. \A i, j \in DOMAIN m : i < j => m[i].start <= m[j].start
  BY <1>5, <1>6 DEF MergedBy
<1>9. input.kind = "merge"
  BY DEF AnyMerge
<1> QED BY <1>1, <1>2, <1>3, <1>4, <1>6, <1>7, <1>8, <1>9 DEF SpeechSurvives

\* What a provider answers: segments in time, or Deepgram's utterances in any order.
InTime(segments) == \A i, j \in DOMAIN segments : i <= j => segments[i].start <= segments[j].start
PlainAnswers(texts) ==
    {c \in [kind : {"transcribe"}, provider : {"local", "openai"}, usable : BOOLEAN, segments : Segments(texts),
            aligned : BOOLEAN, status : Int, transcript : texts] : InTime(c.segments)}
DeepgramAnswers(texts) ==
    [kind : {"transcribe"}, provider : {"deepgram"}, usable : BOOLEAN,
     segments : Seq([text : texts, start : Int, end : Int, speaker : STRING]),
     aligned : BOOLEAN, status : Int, transcript : texts]

\* What is scored has each text in its place, and a speaker for each.
ScoredAs(scored, segments, n) ==
    /\ n \in Nat /\ DOMAIN segments = 1 .. n /\ DOMAIN scored = 1 .. n
    /\ \A i \in 1 .. n : scored[i].text = Strip(segments[i].text) /\ scored[i].speaker # ""

KeptFor(scored, segments) ==
    /\ ConsolidateTranscript(scored) = [i \in DOMAIN segments |-> Strip(segments[i].text)]
    /\ Len(ConsolidateDialogue(scored)) = Cardinality({i \in DOMAIN segments : Strip(segments[i].text) # ""})

LEMMA ScoredIsKept ==
  ASSUME NEW scored, NEW segments, NEW n, ScoredAs(scored, segments, n)
  PROVE  KeptFor(scored, segments)
<1>1. ConsolidateTranscript(scored) = [i \in DOMAIN segments |-> Strip(segments[i].text)]
  BY DEF ScoredAs, ConsolidateTranscript
<1>2. PICK S : S = {i \in 1 .. n : Strip(segments[i].text) # ""}
  OBVIOUS
<1>3. S = {i \in DOMAIN scored : scored[i].text # "" /\ scored[i].speaker # ""}
  BY <1>2 DEF ScoredAs
<1>4. PICK c \in Nat : c = Cardinality(S) /\ S \in SUBSET Int /\ IsFiniteSet(S)
  <2>1. n \in Nat /\ S \in SUBSET (1 .. n)
    BY <1>2 DEF ScoredAs
  <2> QED BY <2>1, Positions
<1>5. PICK spoken : spoken = Only(scored, S)
  OBVIOUS
<1>6. DOMAIN spoken = 1 .. c
  BY <1>4, <1>5, OnlyIs
<1>7. PICK dialogue : dialogue = ConsolidateDialogue(scored)
  OBVIOUS
<1>8. dialogue = [i \in 1 .. c |-> <<spoken[i].speaker, spoken[i].text>>]
  BY <1>3, <1>5, <1>6, <1>7 DEF ConsolidateDialogue
<1>9. Listed(dialogue, c)
  BY <1>8 DEF Listed
<1>10. Len(dialogue) = c
  BY <1>4, <1>9, FunctionWritten DEF Written
<1>11. S = {i \in DOMAIN segments : Strip(segments[i].text) # ""}
  BY <1>2 DEF ScoredAs
<1> QED BY <1>1, <1>4, <1>7, <1>10, <1>11 DEF KeptFor

\* With no turns the speaker of every segment is unknown.
LEMMA NobodyKnown ==
  ASSUME NEW segment
  PROVE  Given(segment, <<>>) = [speaker |-> "UNKNOWN", text |-> segment.text,
                                 start |-> segment.start, end |-> segment.end]
<1>1. DOMAIN <<>> = {}
  OBVIOUS
<1>2. BestSpeaker(segment, <<>>) = "UNKNOWN"
  BY <1>1 DEF BestSpeaker
<1> QED BY <1>2 DEF Given

\* The segments of a provider that names no speakers are scored in their order.
Unlabelled(raw, segments, n) ==
    /\ n \in Nat /\ DOMAIN segments = 1 .. n
    /\ \E ends : raw = [i \in 1 .. n |-> [text |-> Strip(segments[i].text), start |-> segments[i].start, end |-> ends[i]]]
                    /\ \A i \in 1 .. n : segments[i].start \in Int /\ ends[i] \in Int

LEMMA UnlabelledAreScored ==
  ASSUME NEW raw, NEW segments, NEW n, Unlabelled(raw, segments, n), InTime(segments)
  PROVE  ScoredAs(DiarizeAudio(raw, Returns(<<>>)).segments, segments, n)
<1>1. n \in Nat /\ DOMAIN segments = 1 .. n
  BY DEF Unlabelled
<1>2. PICK ends : /\ raw = [i \in 1 .. n |-> [text |-> Strip(segments[i].text), start |-> segments[i].start, end |-> ends[i]]]
                  /\ \A i \in 1 .. n : segments[i].start \in Int /\ ends[i] \in Int
  BY DEF Unlabelled
<1>3. Listed(raw, n)
  BY <1>2 DEF Listed
<1>4. DOMAIN raw = 1 .. n /\ (raw = <<>> <=> n = 0)
  <2>1. raw = <<>> <=> n = 0
    BY <1>1, <1>3, NotEmpty
  <2>2. DOMAIN raw = 1 .. n
    BY <1>2
  <2> QED BY <2>1, <2>2
<1>5. \A i \in 1 .. n : "speaker" \notin DOMAIN raw[i]
  BY <1>2
<1>6. \A i \in 1 .. n : /\ raw[i].text = Strip(segments[i].text) /\ raw[i].start = segments[i].start
                        /\ Timed(raw[i])
  BY <1>2 DEF Timed
<1>7. CASE n = 0
  <2>1. raw = <<>> /\ 1 .. n = {}
    BY <1>4, <1>7
  <2>2. DiarizeAudio(raw, Returns(<<>>)) = Returns(<<>>)
    BY <2>1 DEF DiarizeAudio
  <2>3. DiarizeAudio(raw, Returns(<<>>)).segments = <<>> /\ DOMAIN <<>> = {}
    BY <2>2 DEF Returns
  <2> QED BY <1>1, <2>1, <2>3 DEF ScoredAs
<1>8. CASE n # 0
  <2>1. raw # <<>> /\ 1 \in DOMAIN raw
    BY <1>1, <1>4, <1>8
  <2>2. /\ ~\A i \in DOMAIN raw : "speaker" \in DOMAIN raw[i]
        /\ \E i \in DOMAIN raw : "speaker" \notin DOMAIN raw[i]
    BY <1>4, <1>5, <2>1
  <2>3. DiarizeAudio(raw, Returns(<<>>)) = Returns(Merge(raw, <<>>))
    <3>1. PICK diarizer : diarizer = Returns(<<>>)
      OBVIOUS
    <3>2. diarizer.raised = "nothing" /\ diarizer.segments = <<>>
      BY <3>1 DEF Returns
    <3>3. DiarizeAudio(raw, diarizer) = Returns(Merge(raw, diarizer.segments))
      BY <2>1, <2>2, <3>2 DEF DiarizeAudio
    <3> QED BY <3>1, <3>2, <3>3
  <2>4. Segmented(raw, n)
    BY <1>1, <1>3, <1>6, FunctionWritten DEF Segmented
  <2>5. \A i, j \in 1 .. n : i <= j => raw[i].start <= raw[j].start
    BY <1>1, <1>6 DEF InTime
  <2>6. Merge(raw, <<>>) = [k \in 1 .. n |-> Given(raw[k], <<>>)]
    BY <2>4, <2>5, MergeIs
  <2>7. PICK scored : scored = Merge(raw, <<>>)
    OBVIOUS
  <2>8. DOMAIN scored = 1 .. n /\ \A k \in 1 .. n : scored[k].text = raw[k].text /\ scored[k].speaker = "UNKNOWN"
    <3>1. ASSUME NEW k \in 1 .. n PROVE scored[k].text = raw[k].text /\ scored[k].speaker = "UNKNOWN"
      <4>1. PICK segment : segment = raw[k]
        OBVIOUS
      <4>2. scored[k] = Given(segment, <<>>)
        BY <2>6, <2>7, <4>1
      <4> QED BY <4>1, <4>2, NobodyKnown
    <3>2. DOMAIN scored = 1 .. n
      BY <2>6, <2>7
    <3> QED BY <3>1, <3>2
  <2>9. ScoredAs(scored, segments, n)
    BY <1>1, <1>6, <2>8 DEF ScoredAs
  <2> QED BY <2>3, <2>7, <2>9 DEF Returns
<1> QED BY <1>7, <1>8

\* The utterances of a provider that names the speakers are passed on.
Labelled(raw, segments, n) ==
    /\ n \in Nat /\ DOMAIN segments = 1 .. n
    /\ \E speakers, starts, ends :
            /\ raw = [i \in 1 .. n |-> [text |-> Strip(segments[i].text), start |-> starts[i], end |-> ends[i],
                                        speaker |-> speakers[i]]]
            /\ \A i \in 1 .. n : speakers[i] # ""

LEMMA LabelledAreScored ==
  ASSUME NEW raw, NEW segments, NEW n, Labelled(raw, segments, n)
  PROVE  ScoredAs(DiarizeAudio(raw, Returns(<<>>)).segments, segments, n)
<1>1. n \in Nat /\ DOMAIN segments = 1 .. n
  BY DEF Labelled
<1>2. PICK speakers, starts, ends :
            /\ raw = [i \in 1 .. n |-> [text |-> Strip(segments[i].text), start |-> starts[i], end |-> ends[i],
                                        speaker |-> speakers[i]]]
            /\ \A i \in 1 .. n : speakers[i] # ""
  BY DEF Labelled
<1>3. Listed(raw, n)
  BY <1>2 DEF Listed
<1>4. DOMAIN raw = 1 .. n /\ (raw = <<>> <=> n = 0)
  <2>1. raw = <<>> <=> n = 0
    BY <1>1, <1>3, NotEmpty
  <2>2. DOMAIN raw = 1 .. n
    BY <1>2
  <2> QED BY <2>1, <2>2
<1>5. \A i \in 1 .. n : "speaker" \in DOMAIN raw[i]
  BY <1>2
<1>6. \A i \in 1 .. n : raw[i].text = Strip(segments[i].text) /\ raw[i].speaker # ""
  BY <1>2
<1>7. CASE n = 0
  <2>1. raw = <<>> /\ 1 .. n = {}
    BY <1>4, <1>7
  <2>2. DiarizeAudio(raw, Returns(<<>>)) = Returns(<<>>)
    BY <2>1 DEF DiarizeAudio
  <2>3. DiarizeAudio(raw, Returns(<<>>)).segments = <<>> /\ DOMAIN <<>> = {}
    BY <2>2 DEF Returns
  <2> QED BY <1>1, <2>1, <2>3 DEF ScoredAs
<1>8. CASE n # 0
  <2>1. raw # <<>> /\ \A i \in DOMAIN raw : "speaker" \in DOMAIN raw[i]
    BY <1>4, <1>5, <1>8
  <2>2. PICK scored : scored = [i \in DOMAIN raw |-> [speaker |-> raw[i].speaker, text |-> raw[i].text,
                                                      start |-> raw[i].start, end |-> raw[i].end]]
    OBVIOUS
  <2>3. DiarizeAudio(raw, Returns(<<>>)) = Returns(scored)
    BY <2>1, <2>2 DEF DiarizeAudio
  <2>4. DiarizeAudio(raw, Returns(<<>>)).segments = scored
    BY <2>3 DEF Returns
  <2>5. ScoredAs(scored, segments, n)
    BY <1>1, <1>4, <1>6, <2>2 DEF ScoredAs
  <2> QED BY <2>4, <2>5
<1> QED BY <1>7, <1>8

\* What WhisperX or the SDK heard is scored in its order, aligned or not.
LEMMA PlainAnswersAreScored ==
  ASSUME NEW texts, NEW c \in PlainAnswers(texts), TranscribeAudio(c).raised = "nothing"
  PROVE  \E n : ScoredAs(DiarizeAudio(TranscribeAudio(c).segments, Returns(<<>>)).segments, c.segments, n)
<1>1. PICK segments \in Segments(texts) : segments = c.segments /\ InTime(segments)
  BY DEF PlainAnswers
<1>2. PICK n \in Nat : n = Len(segments) /\ DOMAIN segments = 1 .. n
  BY <1>1, SegmentsAre DEF Segmented, Written
<1>3. \A i \in 1 .. n : segments[i].start \in Int /\ segments[i].end \in Int
  BY <1>1, <1>2, SegmentsAre DEF Segmented, Timed
<1>4. PICK raw : raw = TranscribeAudio(c).segments
  OBVIOUS
<1>5. Formatted(segments) = [i \in 1 .. n |-> [text |-> Strip(segments[i].text), start |-> segments[i].start,
                                               end |-> segments[i].end]]
  BY <1>2 DEF Formatted
<1>6. Unlabelled(Formatted(segments), segments, n)
  <2>1. PICK ends : ends = [i \in 1 .. n |-> segments[i].end]
    OBVIOUS
  <2>2. Formatted(segments) = [i \in 1 .. n |-> [text |-> Strip(segments[i].text), start |-> segments[i].start,
                                                 end |-> ends[i]]]
    BY <1>5, <2>1
  <2>3. \A i \in 1 .. n : segments[i].start \in Int /\ ends[i] \in Int
    BY <1>3, <2>1
  <2> QED BY <1>2, <2>2, <2>3 DEF Unlabelled
<1>7. PICK aligned : aligned = [i \in DOMAIN segments |-> [segments[i] EXCEPT !.end = @ + 1]]
  OBVIOUS
<1>8. Unlabelled(Formatted(aligned), segments, n)
  <2>1. PICK ends : ends = [i \in 1 .. n |-> segments[i].end + 1]
    OBVIOUS
  <2>2. ASSUME NEW i \in 1 .. n
        PROVE  aligned[i].text = segments[i].text /\ aligned[i].start = segments[i].start /\ aligned[i].end = ends[i]
    <3>1. PICK segment \in [text : texts, start : Int, end : Int] : segment = segments[i]
      BY <1>1, <1>2, SegmentsAre
    <3>2. aligned[i] = [segment EXCEPT !.end = @ + 1]
      BY <1>2, <1>7, <3>1
    <3> QED BY <2>1, <3>1, <3>2
  <2>3. DOMAIN aligned = 1 .. n
    BY <1>2, <1>7
  <2>4. Formatted(aligned) = [i \in 1 .. n |-> [text |-> Strip(segments[i].text), start |-> segments[i].start,
                                                end |-> ends[i]]]
    BY <2>2, <2>3 DEF Formatted
  <2>5. \A i \in 1 .. n : segments[i].start \in Int /\ ends[i] \in Int
    BY <1>3, <2>1
  <2> QED BY <1>2, <2>4, <2>5 DEF Unlabelled
<1>9. raw = Formatted(segments) \/ raw = Formatted(aligned)
  <2>1. CASE c.provider = "openai"
    <3>1. TranscribeAudio(c) = OpenAITranscribe(c.usable, segments)
      BY <1>1, <2>1 DEF TranscribeAudio
    <3>2. c.usable
      BY <3>1 DEF OpenAITranscribe, Raises
    <3> QED BY <1>4, <3>1, <3>2 DEF OpenAITranscribe, Returns
  <2>2. CASE c.provider = "local"
    <3>1. PICK alignment : alignment = IF c.aligned THEN Returns(aligned) ELSE Raises("RuntimeError")
      OBVIOUS
    <3>2. TranscribeAudio(c) = LocalTranscribe(c.usable, segments, alignment)
      BY <1>1, <1>7, <2>2, <3>1 DEF TranscribeAudio
    <3>3. c.usable
      BY <3>2 DEF LocalTranscribe, Raises
    <3>4. raw = Formatted(IF alignment.raised = "nothing" THEN alignment.segments ELSE segments)
      BY <1>4, <3>2, <3>3 DEF LocalTranscribe, Returns
    <3>5. alignment.raised = "nothing" => alignment.segments = aligned
      BY <3>1 DEF Returns, Raises
    <3> QED BY <3>4, <3>5
  <2> QED BY <2>1, <2>2 DEF PlainAnswers
<1>10. Unlabelled(raw, segments, n)
  BY <1>6, <1>8, <1>9
<1> QED BY <1>1, <1>4, <1>10, UnlabelledAreScored

\* The utterances as Deepgram's driver passes them on.
Uttered(utterances) ==
    [i \in DOMAIN utterances |->
        [text |-> Strip(utterances[i].text), start |-> utterances[i].start, end |-> utterances[i].end,
         speaker |-> IF utterances[i].speaker = "" THEN "UNKNOWN" ELSE utterances[i].speaker]]

LEMMA DeepgramReturns ==
  ASSUME NEW key \in BOOLEAN, NEW status, NEW utterances, NEW transcript,
         NEW answer, answer = DeepgramTranscribe(key, status, utterances, transcript), answer.raised = "nothing"
  PROVE  answer.segments = Uttered(utterances)
<1>1. \A error : error # "nothing" => answer # Raises(error)
  BY DEF Raises
<1>2. key
  <2>1. ~key => answer = Raises("TranscriptionDependencyError")
    BY Zenon DEF DeepgramTranscribe
  <2> QED BY <1>1, <2>1
<1>3. status = 200
  <2>1. key /\ status # 200 => answer = Raises("HTTPStatusError")
    BY Zenon DEF DeepgramTranscribe
  <2> QED BY <1>1, <1>2, <2>1
<1>4. ~(utterances = <<>> /\ transcript # "")
  <2>1. key /\ status = 200 /\ utterances = <<>> /\ transcript # "" => answer = Raises("ValueError")
    BY Zenon DEF DeepgramTranscribe
  <2> QED BY <1>1, <1>2, <1>3, <2>1
<1>5. answer = Returns(Uttered(utterances))
  <2>1. ~~key /\ ~(key /\ status # 200) /\ ~(key /\ status = 200 /\ utterances = <<>> /\ transcript # "")
    BY <1>2, <1>3, <1>4
  <2> QED BY <2>1, Zenon DEF DeepgramTranscribe, Uttered
<1>6. PICK uttered : uttered = Uttered(utterances)
  OBVIOUS
<1>7. answer = Returns(uttered)
  BY <1>5, <1>6
<1>8. answer.segments = uttered
  BY <1>7 DEF Returns
<1> QED BY <1>6, <1>8

\* What Deepgram heard is scored in its order, with its speakers.
LEMMA DeepgramAnswersAreScored ==
  ASSUME NEW texts, NEW c \in DeepgramAnswers(texts), TranscribeAudio(c).raised = "nothing"
  PROVE  \E n : ScoredAs(DiarizeAudio(TranscribeAudio(c).segments, Returns(<<>>)).segments, c.segments, n)
<1>0. PICK R : R = [text : texts, start : Int, end : Int, speaker : STRING]
  OBVIOUS
<1>1. PICK segments \in Seq(R) : segments = c.segments
  BY <1>0 DEF DeepgramAnswers
<1>2. PICK n \in Nat : n = Len(segments) /\ DOMAIN segments = 1 .. n
  BY SequenceIsWritten DEF Written
<1>3. PICK raw : raw = TranscribeAudio(c).segments
  OBVIOUS
<1>4. PICK speakers : speakers = [i \in 1 .. n |-> IF segments[i].speaker = "" THEN "UNKNOWN" ELSE segments[i].speaker]
  OBVIOUS
<1>5. raw = Uttered(segments)
  <2>1. PICK answer : answer = TranscribeAudio(c)
    OBVIOUS
  <2>2. answer = DeepgramTranscribe(c.usable, c.status, segments, c.transcript)
    BY <1>1, <2>1 DEF TranscribeAudio, DeepgramAnswers
  <2>3. c.usable \in BOOLEAN
    BY DEF DeepgramAnswers
  <2> QED BY <1>3, <2>1, <2>2, <2>3, DeepgramReturns
<1>6. PICK starts : starts = [i \in 1 .. n |-> segments[i].start]
  OBVIOUS
<1>7. PICK ends : ends = [i \in 1 .. n |-> segments[i].end]
  OBVIOUS
<1>8. raw = [i \in 1 .. n |-> [text |-> Strip(segments[i].text), start |-> starts[i], end |-> ends[i],
                               speaker |-> speakers[i]]]
  BY <1>2, <1>4, <1>5, <1>6, <1>7 DEF Uttered
<1>9. \A i \in 1 .. n : speakers[i] # ""
  BY <1>4
<1>10. Labelled(raw, segments, n)
  BY <1>2, <1>8, <1>9 DEF Labelled
<1> QED BY <1>1, <1>3, <1>10, LabelledAreScored

\* Nothing said is lost, added or repeated on the way to what is scored, and each
\* sentence is given to whom it was heard from: for transcriptions and turns of any
\* length, and any answer of a provider (src/app/services.py:166-213,
\* src/app/audio_processor.py:337-381).
THEOREM MergeIsAlwaysFaithful ==
  ASSUME NEW texts, input \in AnyMerge(texts) \cup PlainAnswers(texts) \cup DeepgramAnswers(texts)
  PROVE  MergeIsFaithful
<1>1. CASE input \in AnyMerge(texts)
  BY <1>1, SpeakerIsAlwaysTheOneHeardMost, MergeKeepsAll DEF MergeIsFaithful
<1>2. CASE input \in PlainAnswers(texts) \cup DeepgramAnswers(texts)
  <2>1. input.kind = "transcribe"
    BY <1>2 DEF PlainAnswers, DeepgramAnswers
  <2>2. SpeakerIsTheOneHeardMost
    BY <2>1 DEF SpeakerIsTheOneHeardMost
  <2>3. ASSUME TranscribeAudio(input).raised = "nothing"
        PROVE  LET raw == TranscribeAudio(input).segments
                   scored == DiarizeAudio(raw, Returns(<<>>)).segments
               IN  /\ ConsolidateTranscript(scored) = [i \in DOMAIN input.segments |-> Strip(input.segments[i].text)]
                   /\ Len(ConsolidateDialogue(scored))
                        = Cardinality({i \in DOMAIN input.segments : Strip(input.segments[i].text) # ""})
    <3>1. PICK scored : scored = DiarizeAudio(TranscribeAudio(input).segments, Returns(<<>>)).segments
      OBVIOUS
    <3>2. PICK segments : segments = input.segments
      OBVIOUS
    <3>3. PICK n : ScoredAs(scored, segments, n)
      <4>1. CASE input \in PlainAnswers(texts)
        BY <2>3, <3>1, <3>2, <4>1, PlainAnswersAreScored
      <4>2. CASE input \in DeepgramAnswers(texts)
        BY <2>3, <3>1, <3>2, <4>2, DeepgramAnswersAreScored
      <4> QED BY <1>2, <4>1, <4>2
    <3>4. KeptFor(scored, segments)
      BY <3>3, ScoredIsKept
    <3> QED BY <3>1, <3>2, <3>4 DEF KeptFor
  <2>4. SpeechSurvives
    BY <2>1, <2>3 DEF SpeechSurvives
  <2> QED BY <2>2, <2>4 DEF MergeIsFaithful
<1> QED BY <1>1, <1>2

-------------------------------------------------------------------------------
(* The screens that share a list (Boards).                                 *)

\* What a filter keeps, in the order it was in.
Keeps(order, kept, s, S, c) ==
    /\ c \in Nat /\ c = Cardinality(S) /\ Written(kept, c)
    /\ order \in [1 .. c -> S] /\ kept = [i \in 1 .. c |-> s[order[i]]]
    /\ \A i, j \in 1 .. c : i < j => order[i] < order[j]
    /\ \A k \in S : \E i \in 1 .. c : order[i] = k

LEMMA KeptIs ==
  ASSUME NEW n \in Nat, NEW S \in SUBSET (1 .. n), NEW s
  PROVE  \E order, c : Keeps(order, Only(s, S), s, S, c)
<1>1. S \in SUBSET Int /\ IsFiniteSet(S) /\ Cardinality(S) \in Nat
  BY Positions
<1>2. PICK order : order = Ascending(S)
  OBVIOUS
<1>3. PICK c \in Nat : c = Cardinality(S)
  BY <1>1
<1>4. PICK kept : kept = Only(s, S)
  OBVIOUS
<1>5. kept = [i \in 1 .. c |-> s[order[i]]]
  BY <1>1, <1>2, <1>3, <1>4, OnlyIs
<1>6. /\ order \in [1 .. c -> S]
      /\ \A i, j \in 1 .. c : i < j => order[i] < order[j]
      /\ \A k \in S : Rank(S, k) \in 1 .. c /\ order[Rank(S, k)] = k
  BY <1>1, <1>2, <1>3, AscendingIs
<1>7. Written(kept, c)
  <2>1. Listed(kept, c)
    BY <1>5 DEF Listed
  <2> QED BY <2>1, FunctionWritten
<1>8. Keeps(order, kept, s, S, c)
  BY <1>3, <1>5, <1>6, <1>7 DEF Keeps
<1> QED BY <1>4, <1>8

\* A filter, then a stable sort by a rank: each of what is kept once, smaller ranks
\* first, and equal ranks in the order they were in.
Arranges(at, result, s, S, c, rank) ==
    /\ c \in Nat /\ c = Cardinality(S) /\ Written(result, c)
    /\ at \in [1 .. c -> S] /\ result = [i \in 1 .. c |-> s[at[i]]]
    /\ \A i, j \in 1 .. c : at[i] = at[j] => i = j
    /\ \A k \in S : \E i \in 1 .. c : at[i] = k
    /\ \A i, j \in 1 .. c : i < j => rank[at[i]] <= rank[at[j]]
    /\ \A i, j \in 1 .. c : i < j /\ rank[at[i]] = rank[at[j]] => at[i] < at[j]

\* The keys the filtered are sorted by are their ranks.
Ranks(n, s, S, rank, kept, key) ==
    /\ n \in Nat /\ S \in SUBSET (1 .. n) /\ rank \in [1 .. n -> Int]
    /\ kept = Only(s, S) /\ key \in [DOMAIN kept -> Int]
    /\ \A i \in DOMAIN kept, k \in S : kept[i] = s[k] => key[i] = rank[k]

LEMMA ArrangedIs ==
  ASSUME NEW n, NEW s, NEW S, NEW rank, NEW kept, NEW key, Ranks(n, s, S, rank, kept, key)
  PROVE  \E at, c : Arranges(at, SortedBy(kept, key), s, S, c, rank)
<1>0. /\ n \in Nat /\ S \in SUBSET (1 .. n) /\ rank \in [1 .. n -> Int]
      /\ kept = Only(s, S) /\ key \in [DOMAIN kept -> Int]
      /\ \A i \in DOMAIN kept, k \in S : kept[i] = s[k] => key[i] = rank[k]
  BY DEF Ranks
<1>1. PICK order, c : Keeps(order, kept, s, S, c)
  BY <1>0, KeptIs
<1>2. /\ c \in Nat /\ order \in [1 .. c -> S] /\ kept = [i \in 1 .. c |-> s[order[i]]]
      /\ DOMAIN kept = 1 .. c
  BY <1>1 DEF Keeps, Written
<1>3. \A i \in 1 .. c : order[i] \in S /\ order[i] \in 1 .. n /\ key[i] = rank[order[i]]
  BY <1>0, <1>2
<1>4. PICK ranks : ranks = [i \in 1 .. c |-> rank[order[i]]]
  OBVIOUS
<1>5. ranks \in [1 .. c -> Int]
  BY <1>0, <1>3, <1>4
<1>6. PICK by : Sorts(by, SortedBy(kept, ranks), kept, ranks, c)
  BY <1>2, <1>5, SortedIs
<1>7. PICK result : result = SortedBy(kept, key)
  OBVIOUS
<1>8. result = SortedBy(kept, ranks)
  <2>1. key \in [1 .. c -> Int] /\ \A i \in 1 .. c : key[i] = ranks[i]
    BY <1>0, <1>2, <1>3, <1>4
  <2>2. key = [i \in 1 .. c |-> key[i]] /\ ranks = [i \in 1 .. c |-> ranks[i]]
    BY <1>5, <2>1
  <2>3. key = ranks
    BY <2>1, <2>2
  <2> QED BY <1>7, <2>3
<1>9. PICK at : at = [i \in 1 .. c |-> order[by[i]]]
  OBVIOUS
<1>10. /\ by \in [1 .. c -> 1 .. c]
       /\ \A i, j \in 1 .. c : by[i] = by[j] => i = j
       /\ \A k \in 1 .. c : \E i \in 1 .. c : by[i] = k
       /\ result = [k \in 1 .. c |-> kept[by[k]]]
       /\ \A i, j \in 1 .. c : i < j => ranks[by[i]] <= ranks[by[j]]
       /\ \A i, j \in 1 .. c : i < j /\ ranks[by[i]] = ranks[by[j]] => by[i] < by[j]
  BY <1>6, <1>8 DEF Sorts, Reorders
<1>11. at \in [1 .. c -> S] /\ result = [i \in 1 .. c |-> s[at[i]]]
  <2>1. \A i \in 1 .. c : by[i] \in 1 .. c /\ at[i] = order[by[i]] /\ at[i] \in S
    BY <1>3, <1>9, <1>10
  <2>2. \A i \in 1 .. c : kept[by[i]] = s[at[i]]
    BY <1>2, <2>1
  <2>3. result = [i \in 1 .. c |-> s[at[i]]]
    BY <1>10, <2>2
  <2>4. at \in [1 .. c -> S]
    BY <1>9, <2>1
  <2> QED BY <2>3, <2>4
<1>12. Written(result, c)
  <2>1. Listed(result, c)
    BY <1>11 DEF Listed
  <2> QED BY <1>2, <2>1, FunctionWritten
<1>13. \A i, j \in 1 .. c : i < j => order[i] < order[j]
  BY <1>1 DEF Keeps
<1>14. \A i, j \in 1 .. c : at[i] = at[j] => i = j
  <2>1. SUFFICES ASSUME NEW i \in 1 .. c, NEW j \in 1 .. c, at[i] = at[j] PROVE i = j
    OBVIOUS
  <2>2. PICK a \in 1 .. c, b \in 1 .. c : a = by[i] /\ b = by[j]
    BY <1>10
  <2>3. order[a] = order[b] /\ order[a] \in Int
    BY <1>3, <1>9, <2>1, <2>2
  <2>4. a = b
    BY <1>13, <2>3
  <2> QED BY <1>10, <2>2, <2>4
<1>15. \A k \in S : \E i \in 1 .. c : at[i] = k
  <2>1. SUFFICES ASSUME NEW k \in S PROVE \E i \in 1 .. c : at[i] = k
    OBVIOUS
  <2>2. PICK a \in 1 .. c : order[a] = k
    BY <1>1 DEF Keeps
  <2> QED BY <1>9, <1>10, <2>2
<1>16. ASSUME NEW i \in 1 .. c, NEW j \in 1 .. c, i < j
       PROVE  rank[at[i]] <= rank[at[j]] /\ (rank[at[i]] = rank[at[j]] => at[i] < at[j])
  <2>1. PICK a \in 1 .. c, b \in 1 .. c : a = by[i] /\ b = by[j]
    BY <1>10
  <2>2. ranks[a] <= ranks[b] /\ (ranks[a] = ranks[b] => a < b)
    BY <1>10, <1>16, <2>1
  <2>3. rank[at[i]] = ranks[a] /\ rank[at[j]] = ranks[b] /\ at[i] = order[a] /\ at[j] = order[b]
    BY <1>4, <1>9, <2>1
  <2> QED BY <1>13, <2>2, <2>3
<1>17. c = Cardinality(S)
  BY <1>1 DEF Keeps
<1>18. Arranges(at, result, s, S, c, rank)
  BY <1>2, <1>11, <1>12, <1>14, <1>15, <1>16, <1>17 DEF Arranges
<1> QED BY <1>7, <1>18

\* What is where, by a one-to-one listing of the positions of a set, counts the same.
Meets(at, c, S) ==
    /\ c \in Nat /\ at \in [1 .. c -> S] /\ \A i, j \in 1 .. c : at[i] = at[j] => i = j
    /\ \A k \in S : \E i \in 1 .. c : at[i] = k

LEMMA CountMet ==
  ASSUME NEW at, NEW c, NEW S, Meets(at, c, S), NEW A \in SUBSET S, NEW B, B = {i \in 1 .. c : at[i] \in A}
  PROVE  Cardinality(B) = Cardinality(A)
<1>0. /\ c \in Nat /\ at \in [1 .. c -> S] /\ \A i, j \in 1 .. c : at[i] = at[j] => i = j
      /\ \A k \in S : \E i \in 1 .. c : at[i] = k
  BY DEF Meets
<1>1. PICK g : g = [i \in B |-> at[i]]
  OBVIOUS
<1>2. g \in [B -> A] /\ (\A i, j \in B : g[i] = g[j] => i = j) /\ \A a \in A : \E i \in B : g[i] = a
  BY <1>0, <1>1
<1>3. g \in Bijection(B, A)
  BY <1>2 DEF Bijection, Injection, Surjection, IsInjective
<1>4. ExistsBijection(B, A)
  BY <1>3 DEF ExistsBijection
<1>5. IsFiniteSet(B)
  <2>1. B \in SUBSET (1 .. c)
    OBVIOUS
  <2> QED BY <1>0, <2>1, Positions
<1> QED BY <1>4, <1>5, FS_Bijection

\* Positions that have nothing in common are counted apart.
LEMMA CountedApart ==
  ASSUME NEW A, NEW B, IsFiniteSet(A), IsFiniteSet(B), A \cap B = {}
  PROVE  IsFiniteSet(A \cup B) /\ Cardinality(A \cup B) = Cardinality(A) + Cardinality(B)
<1>1. Cardinality(A) \in Nat /\ Cardinality(B) \in Nat
  BY FS_CardinalityType
<1>2. IsFiniteSet(A \cup B) /\ Cardinality(A \cup B) = Cardinality(A) + Cardinality(B) - Cardinality(A \cap B)
  BY FS_Union
<1>3. Cardinality(A \cap B) = 0
  BY FS_EmptySet
<1> QED BY <1>1, <1>2, <1>3

LEMMA CountAll ==
  ASSUME NEW n \in Nat
  PROVE  Cardinality(1 .. n) = n
<1>1. 1 \in Int /\ n \in Int
  OBVIOUS
<1>2. Cardinality(1 .. n) = IF 1 > n THEN 0 ELSE n - 1 + 1
  BY <1>1, FS_Interval
<1> QED BY <1>2

LEMMA CountFewer ==
  ASSUME NEW n \in Nat, NEW A \in SUBSET (1 .. n), NEW B \in SUBSET A
  PROVE  Cardinality(B) <= Cardinality(A) /\ Cardinality(B) \in Nat /\ Cardinality(A) \in Nat
<1>1. IsFiniteSet(A) /\ Cardinality(A) \in Nat
  BY Positions
<1>2. Cardinality(B) \in Nat
  BY Positions
<1> QED BY <1>1, <1>2, FS_Subset

\* Numbers added up from 0, one after another.
Numbered(s, N) == N \in Nat /\ Len(s) = N /\ s \in [1 .. N -> Int]
Totals(upTo, s, N) ==
    /\ upTo \in [0 .. N -> Int] /\ upTo[0] = 0 /\ upTo[N] = SumOf(s)
    /\ \A n \in 1 .. N : upTo[n] = upTo[n - 1] + s[n]

LEMMA NumbersAre ==
  ASSUME NEW n \in Nat, NEW f \in [1 .. n -> Int]
  PROVE  Numbered(f, n)
BY FunctionIsSeq DEF Numbered

LEMMA SumIs ==
  ASSUME NEW s, NEW N, Numbered(s, N)
  PROVE  (\E upTo : Totals(upTo, s, N)) /\ SumOf(s) \in Int
<1>1. N \in Nat /\ Len(s) = N /\ s \in [1 .. N -> Int]
  BY DEF Numbered
<1>2. PICK step : step = [n \in 1 .. N |-> [v \in Int |-> v + s[n]]]
  OBVIOUS
<1>3. step \in [1 .. N -> [Int -> Int]]
  BY <1>1, <1>2
<1>4. PICK V : V = Int /\ 0 \in V /\ step \in [1 .. N -> [V -> V]]
  BY <1>3
<1>5. PICK f : Recurs(f, N, V, 0, step)
  BY <1>1, <1>4, RecursionExists
<1>6. f \in [0 .. N -> V] /\ f[0] = 0 /\ \A n \in 1 .. N : f[n] = step[n][f[n - 1]]
  BY <1>5 DEF Recurs
<1> DEFINE Adds0(g) == g = [n \in 0 .. N |-> IF n = 0 THEN 0 ELSE g[n - 1] + s[n]]
<1>7. Adds0(f)
  <2>1. ASSUME NEW n \in 0 .. N PROVE f[n] = IF n = 0 THEN 0 ELSE f[n - 1] + s[n]
    <3>1. CASE n = 0
      BY <1>6, <3>1
    <3>2. CASE n # 0
      <4>0. PICK k \in Int : k = n - 1
        OBVIOUS
      <4>1. k \in 0 .. N /\ n \in 1 .. N
        BY <1>1, <3>2, <4>0
      <4>2. PICK v \in V : v = f[k]
        BY <1>6, <4>1
      <4>3. f[n] = step[n][v]
        BY <1>6, <4>0, <4>1, <4>2
      <4>4. f[n] = v + s[n]
        BY <1>2, <1>4, <4>1, <4>3
      <4> QED BY <3>2, <4>0, <4>2, <4>4
    <3> QED BY <3>1, <3>2
  <2> QED BY <1>6, <2>1
<1> DEFINE upTo == CHOOSE upTo : upTo = [n \in 0 .. Len(s) |-> IF n = 0 THEN 0 ELSE upTo[n - 1] + s[n]]
<1>8. SumOf(s) = upTo[Len(s)]
  BY DEF SumOf
<1>9. Adds0(upTo)
  <2>1. upTo = CHOOSE g : Adds0(g)
    BY <1>1
  <2> HIDE DEF upTo, Adds0
  <2> QED BY <1>7, <2>1
<1> HIDE DEF upTo
<1>10. PICK g : g = upTo
  OBVIOUS
<1>11. g = [n \in 0 .. N |-> IF n = 0 THEN 0 ELSE g[n - 1] + s[n]]
  BY <1>9, <1>10
<1>12. g[0] = 0 /\ \A n \in 1 .. N : g[n] = g[n - 1] + s[n]
  <2>1. 0 \in 0 .. N /\ \A n \in 1 .. N : n \in 0 .. N /\ n # 0
    BY <1>1
  <2> QED BY <1>11, <2>1
<1>13. \A n \in 0 .. N : g[n] \in Int
  <2>1. PICK I : I = {n \in 0 .. N : g[n] \in Int}
    OBVIOUS
  <2>2. 0 \in I
    BY <1>1, <1>12, <2>1
  <2>3. ASSUME NEW n \in 1 .. N, n - 1 \in I PROVE n \in I
    <3>1. n \in 0 .. N /\ g[n - 1] \in Int /\ s[n] \in Int
      BY <1>1, <2>1, <2>3
    <3>2. g[n] = g[n - 1] + s[n]
      BY <1>12
    <3> QED BY <2>1, <3>1, <3>2
  <2>4. \A n \in 0 .. N : n \in I
    BY <1>1, <2>2, <2>3, StepByStep
  <2> QED BY <2>1, <2>4
<1>14. N \in 0 .. N
  BY <1>1
<1>15. g \in [0 .. N -> Int]
  BY <1>11, <1>13
<1>16. Totals(g, s, N)
  BY <1>1, <1>8, <1>10, <1>12, <1>15 DEF Totals
<1> QED BY <1>13, <1>14, <1>16 DEF Totals

\* The sum of what is added member by member is the two sums added.
LEMMA SumAdds ==
  ASSUME NEW N, NEW a, NEW b, NEW c, Numbered(a, N), Numbered(b, N), Numbered(c, N),
         \A i \in 1 .. N : c[i] = a[i] + b[i]
  PROVE  SumOf(c) = SumOf(a) + SumOf(b)
<1>1. N \in Nat
  BY DEF Numbered
<1>2. PICK f : Totals(f, a, N)
  BY SumIs
<1>3. PICK g : Totals(g, b, N)
  BY SumIs
<1>4. PICK h : Totals(h, c, N)
  BY SumIs
<1>5. PICK I : I = {n \in 0 .. N : h[n] = f[n] + g[n]}
  OBVIOUS
<1>6. 0 \in I
  BY <1>1, <1>2, <1>3, <1>4, <1>5 DEF Totals
<1>7. ASSUME NEW n \in 1 .. N, n - 1 \in I PROVE n \in I
  <2>1. PICK k \in 0 .. N : k = n - 1 /\ k \in I
    BY <1>5, <1>7
  <2>2. f[k] \in Int /\ g[k] \in Int /\ a[n] \in Int /\ b[n] \in Int /\ h[k] = f[k] + g[k]
    BY <1>2, <1>3, <1>5, <2>1 DEF Totals, Numbered
  <2>3. f[n] = f[k] + a[n] /\ g[n] = g[k] + b[n] /\ h[n] = h[k] + c[n]
    BY <1>2, <1>3, <1>4, <2>1 DEF Totals
  <2>4. h[n] = f[n] + g[n]
    BY <2>2, <2>3
  <2>5. n \in 0 .. N
    BY <1>1
  <2> QED BY <1>5, <2>4, <2>5
<1>8. \A n \in 0 .. N : n \in I
  BY <1>1, <1>6, <1>7, StepByStep
<1>9. N \in 0 .. N
  BY <1>1
<1> QED BY <1>2, <1>3, <1>4, <1>5, <1>8, <1>9 DEF Totals

\* A sum of members between those of another and d times those is so itself.
LEMMA SumWithin ==
  ASSUME NEW N, NEW a, NEW b, Numbered(a, N), Numbered(b, N), NEW d \in Nat,
         \A i \in 1 .. N : b[i] <= a[i] /\ a[i] <= d * b[i]
  PROVE  SumOf(b) <= SumOf(a) /\ SumOf(a) <= d * SumOf(b)
<1>1. N \in Nat
  BY DEF Numbered
<1>2. PICK f : Totals(f, a, N)
  BY SumIs
<1>3. PICK g : Totals(g, b, N)
  BY SumIs
<1>5. PICK I : I = {n \in 0 .. N : g[n] <= f[n] /\ f[n] <= d * g[n]}
  OBVIOUS
<1>6. 0 \in I
  <2>1. 0 \in 0 .. N /\ f[0] = 0 /\ g[0] = 0 /\ d * 0 = 0
    BY <1>1, <1>2, <1>3 DEF Totals
  <2> QED BY <1>5, <2>1
<1>7. ASSUME NEW n \in 1 .. N, n - 1 \in I PROVE n \in I
  <2>1. PICK k \in 0 .. N : k = n - 1 /\ k \in I
    BY <1>5, <1>7
  <2>2. f[k] \in Int /\ g[k] \in Int /\ a[n] \in Int /\ b[n] \in Int /\ g[k] <= f[k] /\ f[k] <= d * g[k]
    BY <1>2, <1>3, <1>5, <2>1 DEF Totals, Numbered
  <2>3. f[n] = f[k] + a[n] /\ g[n] = g[k] + b[n]
    BY <1>2, <1>3, <2>1 DEF Totals
  <2>4. b[n] <= a[n] /\ a[n] <= d * b[n]
    OBVIOUS
  <2>5. d * (g[k] + b[n]) = d * g[k] + d * b[n] /\ d * g[k] \in Int /\ d * b[n] \in Int
    BY <2>2
  <2>6. g[n] <= f[n] /\ f[n] <= d * g[n]
    BY <2>2, <2>3, <2>4, <2>5
  <2>7. n \in 0 .. N
    BY <1>1
  <2> QED BY <1>5, <2>6, <2>7
<1>8. \A n \in 0 .. N : n \in I
  BY <1>1, <1>6, <1>7, StepByStep
<1>9. N \in 0 .. N
  BY <1>1
<1> QED BY <1>2, <1>3, <1>5, <1>8, <1>9 DEF Totals

\* As many ones as there are members.
LEMMA SumOfOnes ==
  ASSUME NEW N, NEW a, Numbered(a, N), \A i \in 1 .. N : a[i] = 1
  PROVE  SumOf(a) = N
<1>1. N \in Nat
  BY DEF Numbered
<1>2. PICK f : Totals(f, a, N)
  BY SumIs
<1>3. PICK I : I = {n \in 0 .. N : f[n] = n}
  OBVIOUS
<1>4. 0 \in I
  BY <1>1, <1>2, <1>3 DEF Totals
<1>5. ASSUME NEW n \in 1 .. N, n - 1 \in I PROVE n \in I
  <2>1. PICK k \in 0 .. N : k = n - 1 /\ k \in I
    BY <1>3, <1>5
  <2>2. f[n] = f[k] + a[n] /\ a[n] = 1
    BY <1>2, <2>1 DEF Totals
  <2>3. f[k] = k /\ n \in 0 .. N
    BY <1>1, <1>3, <2>1
  <2> QED BY <1>3, <2>1, <2>2, <2>3
<1>6. \A n \in 0 .. N : n \in I
  BY <1>1, <1>4, <1>5, StepByStep
<1>7. N \in 0 .. N
  BY <1>1
<1> QED BY <1>2, <1>3, <1>6, <1>7 DEF Totals

\* A sum of naturals is one, and 0 only when each of them is.
LEMMA SumOfNaturals ==
  ASSUME NEW N, NEW a, Numbered(a, N), \A i \in 1 .. N : a[i] >= 0
  PROVE  SumOf(a) \in Nat /\ (SumOf(a) = 0 => \A i \in 1 .. N : a[i] = 0)
<1>1. N \in Nat /\ \A i \in 1 .. N : a[i] \in Int
  BY DEF Numbered
<1>2. PICK f : Totals(f, a, N)
  BY SumIs
<1>3. PICK I : I = {n \in 0 .. N : f[n] >= 0 /\ (f[n] = 0 => \A i \in 1 .. n : a[i] = 0)}
  OBVIOUS
<1>4. 0 \in I
  <2>1. 0 \in 0 .. N /\ f[0] = 0 /\ 1 .. 0 = {}
    BY <1>1, <1>2 DEF Totals
  <2> QED BY <1>3, <2>1
<1>5. ASSUME NEW n \in 1 .. N, n - 1 \in I PROVE n \in I
  <2>1. PICK k \in 0 .. N : k = n - 1 /\ k \in I
    BY <1>3, <1>5
  <2>2. f[n] = f[k] + a[n] /\ n \in 0 .. N /\ f[k] \in Int /\ a[n] \in Int /\ a[n] >= 0
    BY <1>1, <1>2, <2>1 DEF Totals
  <2>3. f[k] >= 0 /\ (f[k] = 0 => \A i \in 1 .. k : a[i] = 0)
    BY <1>3, <2>1
  <2>4. \A i \in 1 .. n : i = n \/ i \in 1 .. k
    BY <2>1
  <2>5. f[n] >= 0
    BY <2>2, <2>3
  <2>6. f[n] = 0 => f[k] = 0 /\ a[n] = 0
    BY <2>2, <2>3
  <2> QED BY <1>3, <2>2, <2>3, <2>4, <2>5, <2>6
<1>6. \A n \in 0 .. N : n \in I
  BY <1>1, <1>4, <1>5, StepByStep
<1>7. N \in 0 .. N /\ f[N] \in Int /\ SumOf(a) = f[N]
  BY <1>1, <1>2 DEF Totals
<1> QED BY <1>3, <1>6, <1>7

\* What a division by a positive number returns.
LEMMA QuotientIs ==
  ASSUME NEW a \in Nat, NEW b \in Nat, b > 0
  PROVE  /\ a \div b \in Nat /\ (a \div b) * b <= a /\ a < (a \div b) * b + b
BY SMT

LEMMA QuotientsTogether ==
  ASSUME NEW a \in Nat, NEW b \in Nat, NEW c \in Nat, c > 0
  PROVE  (a \div c) + (b \div c) <= (a + b) \div c
<1>1. PICK p \in Nat : p = a \div c /\ p * c <= a
  BY QuotientIs
<1>2. PICK q \in Nat : q = b \div c /\ q * c <= b
  BY QuotientIs
<1>3. a + b \in Nat
  OBVIOUS
<1>4. PICK r \in Nat : r = (a + b) \div c /\ a + b < r * c + c
  BY <1>3, QuotientIs
<1>5. (p + q) * c = p * c + q * c /\ (r + 1) * c = r * c + c /\ p * c \in Int /\ q * c \in Int /\ r * c \in Int
  OBVIOUS
<1>6. (p + q) * c < (r + 1) * c
  BY <1>1, <1>2, <1>4, <1>5
<1>7. p + q < r + 1
  <2>1. SUFFICES ASSUME p + q >= r + 1 PROVE FALSE
    OBVIOUS
  <2>2. PICK d \in Nat : d = p + q - (r + 1)
    BY <2>1
  <2>3. (p + q) * c = (r + 1) * c + d * c /\ d * c >= 0
    BY <2>2
  <2>4. (p + q) * c \in Int /\ (r + 1) * c \in Int /\ d * c \in Int
    OBVIOUS
  <2> QED BY <1>6, <2>3, <2>4
<1> QED BY <1>1, <1>2, <1>4, <1>7

\* Interviews of any ids and statuses, with any scorecard or none; and any list of them,
\* each of which is in it once.
AnyScorecard == Seq([score : {ABSENT_SCORE} \cup 1 .. 5, verified : {"yes", "no", "unknown"}]) \cup {NoScorecard}
AnyInterview(ids, statuses) ==
    [id : ids, status : statuses, created : Int, updated : Int, scorecard : AnyScorecard]
AnyList(ids, statuses) ==
    {s \in Seq(AnyInterview(ids, statuses)) : \A j, k \in DOMAIN s : s[j].id = s[k].id => j = k}

\* What a screen knows of an interview.
Summary(row) ==
    /\ row.created \in Int /\ row.updated \in Int
    /\ row.needsAction = NeedsAction(row.status)
    /\ row.competencies \in Nat /\ row.verified \in Nat /\ row.unverified \in Nat /\ row.unchecked \in Nat
    /\ row.verified + row.unverified + row.unchecked = row.competencies
    /\ row.alert \in BOOLEAN /\ (row.alert <=> row.unverified > 0)
    /\ \E c \in Nat : Written(row.scores, c) /\ \A j \in 1 .. c : row.scores[j] \in 1 .. 5
Rowed(rows, n) == n \in Nat /\ Written(rows, n) /\ \A k \in 1 .. n : Summary(rows[k])

LEMMA ScorecardIs ==
  ASSUME NEW card \in AnyScorecard
  PROVE  LET evaluations == IF card = NoScorecard THEN <<>> ELSE card
         IN  /\ Len(evaluations) \in Nat /\ Written(evaluations, Len(evaluations))
             /\ \A k \in 1 .. Len(evaluations) :
                    /\ evaluations[k].score \in {ABSENT_SCORE} \cup 1 .. 5
                    /\ evaluations[k].verified \in {"yes", "no", "unknown"}
<1>1. PICK R : R = [score : {ABSENT_SCORE} \cup 1 .. 5, verified : {"yes", "no", "unknown"}]
  OBVIOUS
<1>2. PICK evaluations : evaluations = IF card = NoScorecard THEN <<>> ELSE card
  OBVIOUS
<1>3. evaluations \in Seq(R)
  BY <1>1, <1>2, EmptySeq DEF AnyScorecard
<1>4. Len(evaluations) \in Nat /\ Written(evaluations, Len(evaluations))
  BY <1>3, SequenceIsWritten
<1>5. \A k \in 1 .. Len(evaluations) : evaluations[k] \in R
  BY <1>3, ElementOfSeq
<1>6. \A e \in R : e.score \in {ABSENT_SCORE} \cup 1 .. 5 /\ e.verified \in {"yes", "no", "unknown"}
  BY <1>1
<1> QED BY <1>2, <1>4, <1>5, <1>6

LEMMA SummaryIs ==
  ASSUME NEW ids, NEW statuses, NEW interview \in AnyInterview(ids, statuses)
  PROVE  /\ Summary(Summarize(interview))
         /\ Summarize(interview).id = interview.id /\ Summarize(interview).status = interview.status
<1>1. PICK evaluations : evaluations = IF interview.scorecard = NoScorecard THEN <<>> ELSE interview.scorecard
  OBVIOUS
<1>2. interview.scorecard \in AnyScorecard /\ interview.created \in Int /\ interview.updated \in Int
  BY DEF AnyInterview
<1>3. PICK n \in Nat : /\ n = Len(evaluations) /\ Written(evaluations, n)
                       /\ \A k \in 1 .. n : /\ evaluations[k].score \in {ABSENT_SCORE} \cup 1 .. 5
                                            /\ evaluations[k].verified \in {"yes", "no", "unknown"}
  BY <1>1, <1>2, ScorecardIs
<1>4. DOMAIN evaluations = 1 .. n
  BY <1>3 DEF Written
<1>5. PICK Y : Y = {k \in 1 .. n : evaluations[k].verified = "yes"}
  OBVIOUS
<1>6. PICK N : N = {k \in 1 .. n : evaluations[k].verified = "no"}
  OBVIOUS
<1>7. PICK U : U = {k \in 1 .. n : evaluations[k].verified = "unknown"}
  OBVIOUS
<1>8. PICK all : all = [k \in 1 .. n |-> evaluations[k].score]
  OBVIOUS
<1>9. PICK S : S = {k \in 1 .. n : evaluations[k].score # ABSENT_SCORE}
  OBVIOUS
<1>10. PICK scores : scores = Only(all, S)
  OBVIOUS
<1>11. PICK row : row = Summarize(interview)
  OBVIOUS
<1>12. row = [id |-> interview.id, status |-> interview.status,
              created |-> interview.created, updated |-> interview.updated,
              needsAction |-> NeedsAction(interview.status),
              named |-> interview.scorecard # NoScorecard, competencies |-> n, scores |-> scores,
              verified |-> Cardinality(Y), unverified |-> Cardinality(N), unchecked |-> Cardinality(U),
              alert |-> Cardinality(N) > 0]
  BY <1>1, <1>3, <1>4, <1>5, <1>6, <1>7, <1>8, <1>9, <1>10, <1>11, ZenonT(30) DEF Summarize
<1>13. /\ Cardinality(Y) \in Nat /\ Cardinality(N) \in Nat /\ Cardinality(U) \in Nat
       /\ IsFiniteSet(Y) /\ IsFiniteSet(N) /\ IsFiniteSet(U)
  BY <1>5, <1>6, <1>7, Positions
<1>14. Cardinality(Y) + Cardinality(N) + Cardinality(U) = n
  <2>1. Y \cap N = {} /\ (Y \cup N) \cap U = {} /\ (Y \cup N) \cup U = 1 .. n
    BY <1>3, <1>5, <1>6, <1>7
  <2>2. IsFiniteSet(Y \cup N) /\ Cardinality(Y \cup N) = Cardinality(Y) + Cardinality(N)
    BY <1>13, <2>1, CountedApart
  <2>3. PICK known : known = Y \cup N
    OBVIOUS
  <2>4. Cardinality(known \cup U) = Cardinality(known) + Cardinality(U)
    BY <1>13, <2>1, <2>2, <2>3, CountedApart
  <2> QED BY <2>1, <2>2, <2>3, <2>4, CountAll
<1>15. \E c \in Nat : Written(scores, c) /\ \A j \in 1 .. c : scores[j] \in 1 .. 5
  <2>1. S \in SUBSET (1 .. n)
    BY <1>9
  <2>2. PICK order, c : Keeps(order, scores, all, S, c)
    BY <1>10, <2>1, KeptIs
  <2>3. c \in Nat /\ Written(scores, c) /\ \A j \in 1 .. c : order[j] \in S /\ scores[j] = all[order[j]]
    BY <2>2 DEF Keeps
  <2>4. \A k \in S : all[k] \in 1 .. 5
    BY <1>3, <1>8, <1>9
  <2> QED BY <2>3, <2>4
<1>16. /\ row.id = interview.id /\ row.status = interview.status
       /\ row.created = interview.created /\ row.updated = interview.updated
       /\ row.needsAction = NeedsAction(row.status) /\ row.competencies = n /\ row.scores = scores
       /\ row.verified = Cardinality(Y) /\ row.unverified = Cardinality(N) /\ row.unchecked = Cardinality(U)
       /\ row.alert \in BOOLEAN /\ (row.alert <=> Cardinality(N) > 0)
  <2>1. /\ row.id = interview.id /\ row.status = interview.status
        /\ row.created = interview.created /\ row.updated = interview.updated
        /\ row.needsAction = NeedsAction(interview.status) /\ row.competencies = n /\ row.scores = scores
    BY <1>12, Zenon
  <2>2. row.verified = Cardinality(Y) /\ row.unverified = Cardinality(N) /\ row.unchecked = Cardinality(U)
    BY <1>12, Zenon
  <2>3. row.alert = (Cardinality(N) > 0)
    BY <1>12, Zenon
  <2>4. (Cardinality(N) > 0) \in BOOLEAN
    BY <1>13
  <2>5. row.alert \in BOOLEAN /\ (row.alert <=> Cardinality(N) > 0)
    BY <2>3, <2>4, Zenon
  <2> QED BY <2>1, <2>2, <2>5, Zenon
<1>17. Summary(row)
  BY <1>2, <1>13, <1>14, <1>15, <1>16 DEF Summary
<1> QED BY <1>11, <1>16, <1>17

LEMMA RowsAre ==
  ASSUME NEW ids, NEW statuses, NEW interviews \in AnyList(ids, statuses), NEW rows, rows = Summaries(interviews)
  PROVE  /\ Rowed(rows, Len(interviews)) /\ RowsApart(rows, Len(interviews))
         /\ \A k \in 1 .. Len(interviews) : rows[k].status \in statuses
<1>1. PICK R : R = AnyInterview(ids, statuses)
  OBVIOUS
<1>2. interviews \in Seq(R)
  BY <1>1 DEF AnyList
<1>3. PICK n \in Nat : n = Len(interviews) /\ Written(interviews, n)
  BY <1>2, SequenceIsWritten
<1>4. DOMAIN interviews = 1 .. n
  BY <1>3 DEF Written
<1>5. rows = [k \in 1 .. n |-> Summarize(interviews[k])]
  BY <1>4 DEF Summaries
<1>6. Written(rows, n)
  <2>1. Listed(rows, n)
    BY <1>5 DEF Listed
  <2> QED BY <2>1, FunctionWritten
<1>7. ASSUME NEW k \in 1 .. n
      PROVE  Summary(rows[k]) /\ rows[k].id = interviews[k].id /\ rows[k].status \in statuses
  <2>1. PICK interview \in AnyInterview(ids, statuses) : interview = interviews[k]
    BY <1>1, <1>2, <1>3, ElementOfSeq
  <2>2. rows[k] = Summarize(interview)
    BY <1>5, <2>1
  <2>3. interview.status \in statuses
    BY DEF AnyInterview
  <2> QED BY <2>1, <2>2, <2>3, SummaryIs
<1>8. \A j, k \in 1 .. n : interviews[j].id = interviews[k].id => j = k
  BY <1>4 DEF AnyList
<1>9. Rowed(rows, n)
  BY <1>6, <1>7 DEF Rowed
<1>10. RowsApart(rows, n)
  <2>1. DOMAIN rows = 1 .. n
    BY <1>5
  <2> QED BY <1>7, <1>8, <2>1 DEF RowsApart
<1> QED BY <1>3, <1>7, <1>9, <1>10

\* What is listed of rows, by category.
LEMMA CategoriesAre ==
  ASSUME NEW status
  PROVE  /\ CategoryOrder(status) \in Int /\ CategoryOrder(status) >= 0
         /\ CategoryOrder(status) = 0 <=> NeedsAction(status)
<1>1. StatusMeta(status) \in {"action_required", "processing", "done"}
  BY DEF StatusMeta
<1>2. CASE StatusMeta(status) = "action_required"
  BY <1>2 DEF CategoryOrder, NeedsAction
<1>3. CASE StatusMeta(status) = "processing"
  BY <1>3 DEF CategoryOrder, NeedsAction
<1>4. CASE StatusMeta(status) = "done"
  BY <1>4 DEF CategoryOrder, NeedsAction
<1> QED BY <1>1, <1>2, <1>3, <1>4

Matched(rows, n, filter, query) == {k \in 1 .. n : MatchesFilter(rows[k], filter) /\ MatchesQuery(rows[k], query)}

LEMMA VisibleIs ==
  ASSUME NEW rows, NEW n, Rowed(rows, n), NEW filter, NEW query,
         NEW rank, rank = [k \in 1 .. n |-> CategoryOrder(rows[k].status)]
  PROVE  \E at, c : Arranges(at, VisibleRows(rows, filter, query), rows, Matched(rows, n, filter, query), c, rank)
<1>1. n \in Nat /\ DOMAIN rows = 1 .. n
  BY DEF Rowed, Written
<1>2. PICK S : S = Matched(rows, n, filter, query) /\ S \in SUBSET (1 .. n)
  BY DEF Matched
<1>3. PICK kept : kept = Only(rows, S)
  OBVIOUS
<1>4. PICK key : key = [k \in DOMAIN kept |-> CategoryOrder(kept[k].status)]
  OBVIOUS
<1>5. rank \in [1 .. n -> Int] /\ key \in [DOMAIN kept -> Int]
  BY <1>4, CategoriesAre
<1>6. \A i \in DOMAIN kept, k \in S : kept[i] = rows[k] => key[i] = rank[k]
  BY <1>2, <1>4
<1>7. VisibleRows(rows, filter, query) = SortedBy(kept, key)
  <2>1. S = {k \in DOMAIN rows : MatchesFilter(rows[k], filter) /\ MatchesQuery(rows[k], query)}
    BY <1>1, <1>2 DEF Matched
  <2> QED BY <1>3, <1>4, <2>1 DEF VisibleRows, ByPriority
<1>8. Ranks(n, rows, S, rank, kept, key)
  BY <1>1, <1>2, <1>3, <1>5, <1>6 DEF Ranks
<1>9. \E at, c : Arranges(at, SortedBy(kept, key), rows, S, c, rank)
  BY <1>8, ArrangedIs
<1> QED BY <1>2, <1>7, <1>9

LEMMA FiltersAre ==
  ASSUME NEW row, row.needsAction \in BOOLEAN, NEW filter \in Filters
  PROVE  /\ filter = "all" => MatchesFilter(row, filter)
         /\ filter = "action_required" => (MatchesFilter(row, filter) <=> row.needsAction)
         /\ filter \notin {"all", "action_required"} => (MatchesFilter(row, filter) <=> row.status = filter)
<1>1. CASE filter = "all"
  BY <1>1 DEF MatchesFilter
<1>2. CASE filter = "action_required"
  BY <1>2 DEF MatchesFilter
<1>3. CASE filter \notin {"all", "action_required"}
  BY <1>3 DEF MatchesFilter
<1> QED BY <1>1, <1>2, <1>3

\* The tile of a filter counts what the filter keeps.
LEMMA TileCounts ==
  ASSUME NEW rows, NEW n, Rowed(rows, n), NEW filter \in Filters
  PROVE  Tile(rows, filter) = Cardinality(Matched(rows, n, filter, ""))
<1>1. n \in Nat /\ DOMAIN rows = 1 .. n /\ Len(rows) = n
  BY DEF Rowed, Written
<1>2. \A k \in 1 .. n : rows[k].needsAction \in BOOLEAN
  BY DEF Rowed, Summary, NeedsAction
<1>3. \A k \in 1 .. n : MatchesQuery(rows[k], "")
  BY DEF MatchesQuery
<1>4. Matched(rows, n, filter, "") = {k \in 1 .. n : MatchesFilter(rows[k], filter)}
  BY <1>3 DEF Matched
<1>5. CASE filter = "all"
  <2>0. \A k \in 1 .. n : MatchesFilter(rows[k], filter)
    BY <1>2, <1>5, FiltersAre
  <2>1. Matched(rows, n, filter, "") = 1 .. n
    BY <1>4, <2>0
  <2>2. Tile(rows, filter) = n
    BY <1>1, <1>5 DEF Tile
  <2> QED BY <1>1, <2>1, <2>2, CountAll
<1>6. CASE filter = "action_required"
  <2>0. \A k \in 1 .. n : MatchesFilter(rows[k], filter) <=> rows[k].needsAction
    BY <1>2, <1>6, FiltersAre
  <2>1. Matched(rows, n, filter, "") = {k \in DOMAIN rows : rows[k].needsAction}
    BY <1>1, <1>4, <2>0
  <2>2. Tile(rows, filter) = Cardinality({k \in DOMAIN rows : rows[k].needsAction})
    BY <1>6 DEF Tile
  <2> QED BY <2>1, <2>2
<1>7. CASE filter \notin {"all", "action_required"}
  <2>0. \A k \in 1 .. n : MatchesFilter(rows[k], filter) <=> rows[k].status = filter
    BY <1>2, <1>7, FiltersAre
  <2>1. Matched(rows, n, filter, "") = {k \in DOMAIN rows : rows[k].status = filter}
    BY <1>1, <1>4, <2>0
  <2>2. Tile(rows, filter) = Cardinality({k \in DOMAIN rows : rows[k].status = filter})
    BY <1>7 DEF Tile
  <2> QED BY <2>1, <2>2
<1> QED BY <1>5, <1>6, <1>7

\* Any list on the board, looked for by any search.
AnyBoard(ids, statuses) ==
    [kind : {"board"}, simulated : ids, query : ids, interviews : AnyList(ids, statuses)]

LEMMA TilesAlwaysCount ==
  ASSUME NEW ids, NEW statuses, input \in AnyBoard(ids, statuses)
  PROVE  TilesCountWhatTheyList
<1>1. PICK interviews \in AnyList(ids, statuses) : interviews = input.interviews
  BY DEF AnyBoard
<1>2. PICK rows : rows = Summaries(interviews)
  OBVIOUS
<1>3. PICK n : Rowed(rows, n)
  BY <1>1, <1>2, RowsAre
<1>4. PICK rank : rank = [k \in 1 .. n |-> CategoryOrder(rows[k].status)]
  OBVIOUS
<1>5. ASSUME NEW filter \in Filters
      PROVE  LET listed == VisibleRows(rows, filter, "")
                 found == VisibleRows(rows, filter, input.query)
             IN  /\ Tile(rows, filter) = Len(listed)
                 /\ ToSet(found) \subseteq ToSet(listed)
                 /\ \A j, k \in DOMAIN listed : j < k /\ listed[k].needsAction => listed[j].needsAction
  <2>1. PICK listed : listed = VisibleRows(rows, filter, "")
    OBVIOUS
  <2>2. PICK found : found = VisibleRows(rows, filter, input.query)
    OBVIOUS
  <2>3. PICK S : S = Matched(rows, n, filter, "") /\ S \in SUBSET (1 .. n)
    BY DEF Matched
  <2>4. PICK T : T = Matched(rows, n, filter, input.query)
    OBVIOUS
  <2>5. T \in SUBSET S
    BY <2>3, <2>4 DEF Matched, MatchesQuery
  <2>6. PICK at, c : Arranges(at, listed, rows, S, c, rank)
    BY <1>3, <1>4, <2>1, <2>3, VisibleIs
  <2>7. PICK by, d : Arranges(by, found, rows, T, d, rank)
    BY <1>3, <1>4, <2>2, <2>4, VisibleIs
  <2>8. Len(listed) = c /\ c = Cardinality(S) /\ DOMAIN listed = 1 .. c
    BY <2>6 DEF Arranges, Written
  <2>9. Tile(rows, filter) = Len(listed)
    BY <1>3, <2>3, <2>8, TileCounts
  <2>10. ToSet(found) \subseteq ToSet(listed)
    <3>1. SUFFICES ASSUME NEW row \in ToSet(found) PROVE row \in ToSet(listed)
      OBVIOUS
    <3>2. PICK i \in 1 .. d : row = rows[by[i]] /\ by[i] \in T
      BY <2>7 DEF Arranges, Written, ToSet
    <3>3. PICK j \in 1 .. c : at[j] = by[i]
      BY <2>5, <2>6, <3>2 DEF Arranges
    <3>4. listed[j] = row
      BY <2>6, <3>2, <3>3 DEF Arranges
    <3> QED BY <2>8, <3>4 DEF ToSet
  <2>11. ASSUME NEW j \in 1 .. c, NEW k \in 1 .. c, j < k, listed[k].needsAction
         PROVE  listed[j].needsAction
    <3>1. PICK a \in 1 .. n : a = at[j] /\ listed[j] = rows[a]
      BY <2>3, <2>6 DEF Arranges
    <3>2. PICK b \in 1 .. n : b = at[k] /\ listed[k] = rows[b]
      BY <2>3, <2>6 DEF Arranges
    <3>3. rank[a] <= rank[b]
      BY <2>6, <2>11, <3>1, <3>2 DEF Arranges
    <3>4. rows[a].needsAction = NeedsAction(rows[a].status) /\ rows[b].needsAction = NeedsAction(rows[b].status)
      BY <1>3 DEF Rowed, Summary
    <3>5. /\ rank[a] \in Int /\ rank[a] >= 0 /\ (rank[a] = 0 <=> NeedsAction(rows[a].status))
          /\ rank[b] = 0 <=> NeedsAction(rows[b].status)
      BY <1>4, CategoriesAre
    <3>6. rank[b] = 0
      BY <2>11, <3>2, <3>4, <3>5
    <3>7. rank[a] = 0
      BY <3>3, <3>5, <3>6
    <3> QED BY <3>1, <3>4, <3>5, <3>7
  <2> QED BY <2>1, <2>2, <2>8, <2>9, <2>10, <2>11
<1> QED BY <1>1, <1>2, <1>5 DEF TilesCountWhatTheyList

\* The rows of some statuses.
Having(rows, n, statuses) == {k \in 1 .. n : rows[k].status \in statuses}

LEMMA WithStatusIs ==
  ASSUME NEW rows, NEW n, Rowed(rows, n), NEW statuses
  PROVE  /\ Having(rows, n, statuses) \in SUBSET (1 .. n)
         /\ WithStatus(rows, statuses) = Only(rows, Having(rows, n, statuses))
         /\ \E order, c : Keeps(order, WithStatus(rows, statuses), rows, Having(rows, n, statuses), c)
<1>1. n \in Nat /\ DOMAIN rows = 1 .. n
  BY DEF Rowed, Written
<1>2. PICK S : S = Having(rows, n, statuses) /\ S \in SUBSET (1 .. n)
  BY DEF Having
<1>3. WithStatus(rows, statuses) = Only(rows, S)
  BY <1>1, <1>2 DEF WithStatus, Having
<1>4. \E order, c : Keeps(order, Only(rows, S), rows, S, c)
  BY <1>1, <1>2, KeptIs
<1> QED BY <1>2, <1>3, <1>4

\* A row is with its status.
LEMMA WithStatusHas ==
  ASSUME NEW rows, NEW n, Rowed(rows, n), NEW statuses, NEW k \in 1 .. n
  PROVE  rows[k] \in ToSet(WithStatus(rows, statuses)) <=> rows[k].status \in statuses
<1>1. PICK S : S = Having(rows, n, statuses)
  OBVIOUS
<1>2. PICK kept : kept = WithStatus(rows, statuses)
  OBVIOUS
<1>3. PICK order, c : Keeps(order, kept, rows, S, c)
  BY <1>1, <1>2, WithStatusIs
<1>4. /\ DOMAIN kept = 1 .. c /\ order \in [1 .. c -> S] /\ kept = [i \in 1 .. c |-> rows[order[i]]]
      /\ \A j \in S : \E i \in 1 .. c : order[i] = j
  BY <1>3 DEF Keeps, Written
<1>5. ASSUME rows[k] \in ToSet(kept) PROVE rows[k].status \in statuses
  <2>1. PICK i \in 1 .. c : kept[i] = rows[k]
    BY <1>4, <1>5 DEF ToSet
  <2>2. order[i] \in S /\ rows[order[i]] = rows[k]
    BY <1>4, <2>1
  <2>3. rows[order[i]].status \in statuses
    BY <1>1, <2>2 DEF Having
  <2> QED BY <2>2, <2>3
<1>6. ASSUME rows[k].status \in statuses PROVE rows[k] \in ToSet(kept)
  <2>1. k \in S
    BY <1>1, <1>6 DEF Having
  <2>2. PICK i \in 1 .. c : order[i] = k
    BY <1>4, <2>1
  <2>3. kept[i] = rows[k]
    BY <1>4, <2>2
  <2> QED BY <1>4, <2>3 DEF ToSet
<1> QED BY <1>2, <1>5, <1>6

LEMMA StagesAre ==
  /\ DOMAIN Stages = 1 .. 6
  /\ Stages[1] = {RECEBIDA} /\ Stages[2] = {TRANSCREVENDO} /\ Stages[3] = {DIARIZANDO}
  /\ Stages[4] = {PONTUANDO} /\ Stages[5] = {AGUARDANDO} /\ Stages[6] = {APROVADA, REJEITADA}
<1>1. PICK r : r = {RECEBIDA}
  OBVIOUS
<1>2. PICK t : t = {TRANSCREVENDO}
  OBVIOUS
<1>3. PICK d : d = {DIARIZANDO}
  OBVIOUS
<1>4. PICK p : p = {PONTUANDO}
  OBVIOUS
<1>5. PICK a : a = {AGUARDANDO}
  OBVIOUS
<1>6. PICK f : f = {APROVADA, REJEITADA}
  OBVIOUS
<1>7. Stages = <<r, t, d, p, a, f>>
  BY <1>1, <1>2, <1>3, <1>4, <1>5, <1>6 DEF Stages
<1> QED BY <1>1, <1>2, <1>3, <1>4, <1>5, <1>6, <1>7

\* A status is in the column of its stage, and in no other.
LEMMA OneColumn ==
  ASSUME NEW status
  PROVE  Cardinality({c \in DOMAIN Stages : status \in Stages[c]}) + (IF status = FALHOU THEN 1 ELSE 0)
            = (IF status \in InterviewStatuses THEN 1 ELSE 0)
<1>1. PICK C : C = {c \in DOMAIN Stages : status \in Stages[c]}
  OBVIOUS
<1>2. \A c : c \in C <=> \/ c = 1 /\ status = RECEBIDA
                         \/ c = 2 /\ status = TRANSCREVENDO
                         \/ c = 3 /\ status = DIARIZANDO
                         \/ c = 4 /\ status = PONTUANDO
                         \/ c = 5 /\ status = AGUARDANDO
                         \/ c = 6 /\ status \in {APROVADA, REJEITADA}
  <2>1. \A c : c \in 1 .. 6 <=> c = 1 \/ c = 2 \/ c = 3 \/ c = 4 \/ c = 5 \/ c = 6
    OBVIOUS
  <2> QED BY <1>1, <2>1, StagesAre
<1>3. ASSUME NEW c, C = {c} PROVE Cardinality(C) = 1
  BY <1>3, FS_Singleton
<1>4. C = {} => Cardinality(C) = 0
  BY FS_EmptySet
<1>5. CASE status \in InterviewStatuses \ {FALHOU}
  <2>1. \E c : C = {c}
    <3>1. CASE status = RECEBIDA
      <4>1. C = {1}
        BY <1>2, <3>1 DEF RECEBIDA, TRANSCREVENDO, DIARIZANDO, PONTUANDO, AGUARDANDO, APROVADA, REJEITADA
      <4> QED BY <4>1
    <3>2. CASE status = TRANSCREVENDO
      <4>1. C = {2}
        BY <1>2, <3>2 DEF RECEBIDA, TRANSCREVENDO, DIARIZANDO, PONTUANDO, AGUARDANDO, APROVADA, REJEITADA
      <4> QED BY <4>1
    <3>3. CASE status = DIARIZANDO
      <4>1. C = {3}
        BY <1>2, <3>3 DEF RECEBIDA, TRANSCREVENDO, DIARIZANDO, PONTUANDO, AGUARDANDO, APROVADA, REJEITADA
      <4> QED BY <4>1
    <3>4. CASE status = PONTUANDO
      <4>1. C = {4}
        BY <1>2, <3>4 DEF RECEBIDA, TRANSCREVENDO, DIARIZANDO, PONTUANDO, AGUARDANDO, APROVADA, REJEITADA
      <4> QED BY <4>1
    <3>5. CASE status = AGUARDANDO
      <4>1. C = {5}
        BY <1>2, <3>5 DEF RECEBIDA, TRANSCREVENDO, DIARIZANDO, PONTUANDO, AGUARDANDO, APROVADA, REJEITADA
      <4> QED BY <4>1
    <3>6. CASE status \in {APROVADA, REJEITADA}
      <4>1. C = {6}
        BY <1>2, <3>6 DEF RECEBIDA, TRANSCREVENDO, DIARIZANDO, PONTUANDO, AGUARDANDO, APROVADA, REJEITADA
      <4> QED BY <4>1
    <3> QED BY <1>5, <3>1, <3>2, <3>3, <3>4, <3>5, <3>6 DEF InterviewStatuses
  <2>2. Cardinality(C) = 1
    BY <1>3, <2>1
  <2>3. status # FALHOU /\ status \in InterviewStatuses
    BY <1>5
  <2> QED BY <1>1, <2>2, <2>3
<1>6. CASE status = FALHOU
  <2>1. C = {}
    BY <1>2, <1>6 DEF RECEBIDA, TRANSCREVENDO, DIARIZANDO, PONTUANDO, AGUARDANDO, APROVADA, REJEITADA, FALHOU
  <2>2. status \in InterviewStatuses
    BY <1>6 DEF InterviewStatuses
  <2> QED BY <1>1, <1>4, <1>6, <2>1, <2>2
<1>7. CASE status \notin InterviewStatuses
  <2>1. C = {} /\ status # FALHOU
    BY <1>2, <1>7 DEF InterviewStatuses
  <2> QED BY <1>1, <1>4, <1>7, <2>1
<1> QED BY <1>5, <1>6, <1>7

\* Two sequences, one after the other, of which the first v are shown.
FirstOf(s, v) == SubSeq(s, 1, IF Len(s) < v THEN Len(s) ELSE v)

LEMMA FirstOfIs ==
  ASSUME NEW s, NEW c, Written(s, c), c \in Nat, NEW v \in Nat, v # 0
  PROVE  /\ Len(FirstOf(s, v)) \in Nat
         /\ \A i \in DOMAIN FirstOf(s, v) : i \in 1 .. c /\ FirstOf(s, v)[i] = s[i]
         /\ c # 0 => 1 \in DOMAIN FirstOf(s, v)
<1>1. PICK e \in Nat : e = (IF c < v THEN c ELSE v) /\ e <= c /\ (c # 0 => 1 <= e)
  OBVIOUS
<1>2. PICK f : f = FirstOf(s, v)
  OBVIOUS
<1>3. Len(s) = c
  BY DEF Written
<1>4. f = SubSeq(s, 1, e)
  BY <1>1, <1>2, <1>3 DEF FirstOf
<1>5. PICK A : A = {s[i] : i \in 1 .. c}
  OBVIOUS
<1>6. \A i \in 1 .. e : s[i] \in A
  BY <1>1, <1>5
<1>7. /\ f \in Seq(A)
      /\ Len(f) = (IF 1 <= e THEN e - 1 + 1 ELSE 0)
      /\ \A i \in 1 .. e - 1 + 1 : f[i] = s[1 + i - 1]
  BY <1>1, <1>4, <1>6, SubSeqProperties
<1>8. Len(f) = e /\ DOMAIN f = 1 .. e
  <2>1. Len(f) = e
    BY <1>1, <1>7
  <2> QED BY <1>7, <2>1, LenProperties
<1>9. \A i \in 1 .. e : f[i] = s[i] /\ i \in 1 .. c
  <2>1. \A i \in 1 .. e : 1 + i - 1 = i /\ i \in 1 .. e - 1 + 1 /\ i \in 1 .. c
    BY <1>1
  <2> QED BY <1>7, <2>1
<1> QED BY <1>1, <1>2, <1>8, <1>9

\* Two sequences, one after the other.
InTwo(s, t, a, m, b) == Written(s, t) /\ \A i \in 1 .. t : s[i] = IF i <= m THEN a[i] ELSE b[i - m]

LEMMA OneAfterTheOther ==
  ASSUME NEW a, NEW m, m \in Nat, Written(a, m), NEW b, NEW n, n \in Nat, Written(b, n),
         NEW s, s = a \o b, NEW t, t = m + n
  PROVE  InTwo(s, t, a, m, b)
<1>1. PICK A : A = {a[i] : i \in 1 .. m} \cup {b[i] : i \in 1 .. n}
  OBVIOUS
<1>2. a \in Seq(A) /\ Len(a) = m
  <2>1. Listed(a, m) /\ {a[i] : i \in 1 .. m} \subseteq A
    BY <1>1 DEF Written
  <2> QED BY <2>1, SequenceOf
<1>3. b \in Seq(A) /\ Len(b) = n
  <2>1. Listed(b, n) /\ {b[i] : i \in 1 .. n} \subseteq A
    BY <1>1 DEF Written
  <2> QED BY <2>1, SequenceOf
<1>4. s \in Seq(A) /\ Len(s) = t /\ \A i \in 1 .. t : s[i] = IF i <= m THEN a[i] ELSE b[i - m]
  BY <1>2, <1>3, ConcatProperties
<1>5. Written(s, t)
  BY <1>4, SequenceIsWritten
<1> QED BY <1>4, <1>5 DEF InTwo

\* A column shows rows of its stage, among them the simulated one.
LEMMA ColumnIs ==
  ASSUME NEW rows, NEW n, Rowed(rows, n), RowsApart(rows, n), NEW stage, NEW simulated,
         NEW column, column = Column(rows, stage, simulated)
  PROVE  /\ column.hidden + Len(column.shown) = column.count
         /\ \A i \in DOMAIN column.shown : \E k \in 1 .. n : column.shown[i] = rows[k]
         /\ \A k \in 1 .. n : rows[k].id = simulated /\ rows[k].status \in stage => rows[k] \in ToSet(column.shown)
<1>1. PICK cards : cards = WithStatus(rows, stage)
  OBVIOUS
<1>2. PICK S : S = Having(rows, n, stage) /\ S \in SUBSET (1 .. n)
  BY WithStatusIs
<1>3. PICK order, c : Keeps(order, cards, rows, S, c)
  BY <1>1, <1>2, WithStatusIs
<1>4. /\ c \in Nat /\ Len(cards) = c /\ DOMAIN cards = 1 .. c /\ order \in [1 .. c -> S]
      /\ \A i \in 1 .. c : cards[i] = rows[order[i]] /\ order[i] \in 1 .. n
      /\ \A j \in S : \E i \in 1 .. c : order[i] = j
  BY <1>2, <1>3 DEF Keeps, Written
<1>5. PICK P : P = {k \in 1 .. c : cards[k].id = simulated} /\ P \in SUBSET (1 .. c)
  OBVIOUS
<1>6. PICK Q : Q = {k \in 1 .. c : cards[k].id # simulated} /\ Q \in SUBSET (1 .. c)
  OBVIOUS
<1>7. PICK pinned : pinned = Only(cards, P)
  OBVIOUS
<1>8. PICK others : others = Only(cards, Q)
  OBVIOUS
<1>9. PICK first, p : Keeps(first, pinned, cards, P, p)
  BY <1>4, <1>5, <1>7, KeptIs
<1>10. PICK rest, q : Keeps(rest, others, cards, Q, q)
  BY <1>4, <1>6, <1>8, KeptIs
<1>11. /\ p \in Nat /\ Written(pinned, p) /\ \A i \in 1 .. p : first[i] \in P /\ pinned[i] = cards[first[i]]
       /\ \A j \in P : \E i \in 1 .. p : first[i] = j
  BY <1>9 DEF Keeps
<1>12. q \in Nat /\ Written(others, q) /\ \A i \in 1 .. q : rest[i] \in Q /\ others[i] = cards[rest[i]]
  BY <1>10 DEF Keeps
<1>13. PICK ordered : ordered = pinned \o others
  OBVIOUS
<1>14. PICK total \in Nat : total = p + q
  BY <1>11, <1>12
<1>15a. InTwo(ordered, total, pinned, p, others)
  BY <1>11, <1>12, <1>13, <1>14, OneAfterTheOther
<1>15. /\ Written(ordered, total)
       /\ \A i \in 1 .. total : ordered[i] = IF i <= p THEN pinned[i] ELSE others[i - p]
  BY <1>15a DEF InTwo
<1>16. PICK shown : shown = FirstOf(ordered, VISIBLE)
  OBVIOUS
<1>17. /\ Len(shown) \in Nat
       /\ \A i \in DOMAIN shown : i \in 1 .. total /\ shown[i] = ordered[i]
       /\ total # 0 => 1 \in DOMAIN shown
  BY <1>14, <1>15, <1>16, BoardsAssumption, FirstOfIs
<1>18. column = [count |-> c, shown |-> shown, hidden |-> c - Len(shown)]
  BY <1>1, <1>4, <1>5, <1>6, <1>7, <1>8, <1>13, <1>16 DEF Column, FirstOf
<1>19. column.count = c /\ column.shown = shown /\ column.hidden = c - Len(shown)
  BY <1>18
<1>20. column.hidden + Len(column.shown) = column.count
  BY <1>4, <1>17, <1>19
<1>21. ASSUME NEW i \in 1 .. total PROVE \E k \in 1 .. n : ordered[i] = rows[k]
  <2>1. \E j \in 1 .. c : ordered[i] = cards[j]
    <3>1. CASE i <= p
      <4>1. i \in 1 .. p
        BY <1>11, <3>1
      <4>2. ordered[i] = pinned[i]
        BY <1>15, <3>1
      <4> QED BY <1>5, <1>11, <4>1, <4>2
    <3>2. CASE ~(i <= p)
      <4>1. PICK j \in 1 .. q : j = i - p
        BY <1>11, <1>12, <1>14, <3>2
      <4>2. ordered[i] = others[j]
        BY <1>15, <3>2, <4>1
      <4> QED BY <1>6, <1>12, <4>2
    <3> QED BY <3>1, <3>2
  <2>2. PICK j \in 1 .. c : ordered[i] = cards[j]
    BY <2>1
  <2>3. cards[j] = rows[order[j]] /\ order[j] \in 1 .. n
    BY <1>4
  <2> QED BY <2>2, <2>3
<1>22. \A i \in DOMAIN shown : \E k \in 1 .. n : shown[i] = rows[k]
  BY <1>17, <1>21
<1>23. ASSUME NEW k \in 1 .. n, rows[k].id = simulated, rows[k].status \in stage
       PROVE  rows[k] \in ToSet(shown)
  <2>1. k \in S
    BY <1>2, <1>23 DEF Having
  <2>2. PICK i \in 1 .. c : order[i] = k
    BY <1>4, <2>1
  <2>3. cards[i] = rows[k] /\ i \in P
    BY <1>4, <1>5, <1>23, <2>2
  <2>4. PICK j \in 1 .. p : first[j] = i
    BY <1>11, <2>3
  <2>5. 1 \in 1 .. p /\ 1 <= p /\ total # 0 /\ 1 \in 1 .. total
    BY <1>11, <1>12, <1>14, <2>4
  <2>6. shown[1] = pinned[1] /\ 1 \in DOMAIN shown
    BY <1>15, <1>17, <2>5
  <2>7. PICK l \in P : pinned[1] = cards[l]
    BY <1>11, <2>5
  <2>8. cards[l].id = simulated /\ cards[l] = rows[order[l]] /\ order[l] \in 1 .. n
    BY <1>4, <1>5
  <2>9. order[l] = k
    BY <1>23, <2>8 DEF RowsApart
  <2> QED BY <2>6, <2>7, <2>8, <2>9 DEF ToSet
<1> QED BY <1>19, <1>20, <1>22, <1>23

LEMMA NobodyIsEverLost ==
  ASSUME NEW ids, NEW statuses, input \in AnyBoard(ids, statuses)
  PROVE  NobodyIsLostOnTheBoard
<1>1. PICK interviews \in AnyList(ids, statuses) : interviews = input.interviews
  BY DEF AnyBoard
<1>2. PICK rows : rows = Summaries(interviews)
  OBVIOUS
<1>3. PICK n : Rowed(rows, n) /\ RowsApart(rows, n)
  BY <1>1, <1>2, RowsAre
<1>4. DOMAIN rows = 1 .. n
  BY <1>3 DEF RowsApart
<1>5. ASSUME NEW k \in 1 .. n
      PROVE  Cardinality({c \in DOMAIN Stages : rows[k].status \in Stages[c]})
                + (IF rows[k] \in ToSet(Failed(rows)) THEN 1 ELSE 0)
                    = (IF rows[k].status \in InterviewStatuses THEN 1 ELSE 0)
  <2>1. PICK failures : failures = {FALHOU}
    OBVIOUS
  <2>2. rows[k] \in ToSet(WithStatus(rows, failures)) <=> rows[k].status \in failures
    BY <1>3, WithStatusHas
  <2>3. rows[k] \in ToSet(Failed(rows)) <=> rows[k].status = FALHOU
    BY <2>1, <2>2 DEF Failed
  <2>4. PICK status : status = rows[k].status
    OBVIOUS
  <2>5. Cardinality({c \in DOMAIN Stages : status \in Stages[c]}) + (IF status = FALHOU THEN 1 ELSE 0)
            = (IF status \in InterviewStatuses THEN 1 ELSE 0)
    BY OneColumn
  <2> QED BY <2>3, <2>4, <2>5
<1>6. PICK columns : columns = [c \in DOMAIN Stages |-> Column(rows, Stages[c], input.simulated)]
  OBVIOUS
<1>7. ASSUME NEW c \in DOMAIN Stages
      PROVE  /\ columns[c].hidden + Len(columns[c].shown) = columns[c].count
             /\ \A k \in 1 .. n : rows[k].id = input.simulated /\ rows[k].status \in Stages[c]
                        => rows[k] \in ToSet(columns[c].shown)
  <2>1. PICK column : column = Column(rows, Stages[c], input.simulated)
    OBVIOUS
  <2>2. columns[c] = column
    BY <1>6, <2>1
  <2> QED BY <1>3, <2>1, <2>2, ColumnIs
<1>8. ASSUME NEW k \in 1 .. n, rows[k].id = input.simulated, rows[k].status \in UNION ToSet(Stages)
      PROVE  \E c \in DOMAIN Stages : rows[k] \in ToSet(columns[c].shown)
  <2>1. PICK c \in DOMAIN Stages : rows[k].status \in Stages[c]
    BY <1>8 DEF ToSet
  <2> QED BY <1>7, <1>8, <2>1
<1>9. \A c \in DOMAIN Stages : columns[c] = Column(rows, Stages[c], input.simulated)
  BY <1>6
<1> QED BY <1>1, <1>2, <1>4, <1>5, <1>7, <1>8, <1>9 DEF NobodyIsLostOnTheBoard

\* The queue of those who wait.
Waiting(rows, n) == Having(rows, n, {AGUARDANDO})

LEMMA QueueIs ==
  ASSUME NEW rows, NEW n, Rowed(rows, n), NEW rank, rank = [k \in 1 .. n |-> rows[k].updated]
  PROVE  \E at, c : Arranges(at, Queue(rows), rows, Waiting(rows, n), c, rank)
<1>1. n \in Nat /\ \A k \in 1 .. n : rows[k].updated \in Int
  BY DEF Rowed, Summary
<1>2. PICK statuses : statuses = {AGUARDANDO}
  OBVIOUS
<1>3. PICK S : S = Having(rows, n, statuses) /\ S \in SUBSET (1 .. n)
  BY DEF Having
<1>4. PICK kept : kept = WithStatus(rows, statuses) /\ kept = Only(rows, S)
  BY <1>3, WithStatusIs
<1>5. PICK order, c : Keeps(order, kept, rows, S, c)
  BY <1>1, <1>3, <1>4, KeptIs
<1>6. DOMAIN kept = 1 .. c /\ \A i \in 1 .. c : order[i] \in 1 .. n /\ kept[i] = rows[order[i]]
  BY <1>3, <1>5 DEF Keeps, Written
<1>7. PICK key : key = [k \in DOMAIN kept |-> kept[k].updated]
  OBVIOUS
<1>8. key \in [DOMAIN kept -> Int]
  BY <1>1, <1>6, <1>7
<1>9. rank \in [1 .. n -> Int]
  BY <1>1
<1>10. \A i \in DOMAIN kept, k \in S : kept[i] = rows[k] => key[i] = rank[k]
  BY <1>3, <1>7
<1>11. Ranks(n, rows, S, rank, kept, key)
  BY <1>1, <1>3, <1>4, <1>8, <1>9, <1>10 DEF Ranks
<1>12. \E at, d : Arranges(at, SortedBy(kept, key), rows, S, d, rank)
  BY <1>11, ArrangedIs
<1>13. Queue(rows) = SortedBy(kept, key)
  BY <1>2, <1>4, <1>7 DEF Queue, LongestFirst
<1> QED BY <1>2, <1>3, <1>12, <1>13 DEF Waiting

\* The dashboard's queue is the queue with the flagged first.
Prefers(by, awaiting, queue, c) ==
    /\ Reorders(by, c) /\ Written(awaiting, c) /\ \A i \in 1 .. c : awaiting[i] = queue[by[i]]
    /\ \A i, j \in 1 .. c : i < j => /\ awaiting[j].alert => awaiting[i].alert
                                     /\ awaiting[i].alert = awaiting[j].alert => by[i] < by[j]

LEMMA AwaitingIs ==
  ASSUME NEW rows, NEW c, c \in Nat, Written(Queue(rows), c), \A i \in 1 .. c : Queue(rows)[i].alert \in BOOLEAN
  PROVE  \E by : Prefers(by, Awaiting(rows), Queue(rows), c)
<1>1. PICK queue : queue = Queue(rows)
  OBVIOUS
<1>2. DOMAIN queue = 1 .. c /\ \A i \in 1 .. c : queue[i].alert \in BOOLEAN
  BY <1>1 DEF Written
<1>3. PICK key : key = [k \in 1 .. c |-> IF queue[k].alert THEN 0 ELSE 1]
  OBVIOUS
<1>4. key \in [1 .. c -> Int]
  BY <1>3
<1>5. PICK awaiting : awaiting = Awaiting(rows)
  OBVIOUS
<1>6. awaiting = SortedBy(queue, key)
  BY <1>1, <1>2, <1>3, <1>5 DEF Awaiting
<1>7. PICK by : Sorts(by, awaiting, queue, key, c)
  BY <1>2, <1>4, <1>6, SortedIs
<1>8. /\ Reorders(by, c) /\ awaiting = [k \in 1 .. c |-> queue[by[k]]]
      /\ \A k \in 1 .. c : by[k] \in 1 .. c
      /\ \A i, j \in 1 .. c : i < j => key[by[i]] <= key[by[j]]
      /\ \A i, j \in 1 .. c : i < j /\ key[by[i]] = key[by[j]] => by[i] < by[j]
  BY <1>7 DEF Sorts, Reorders
<1>9. Written(awaiting, c)
  <2>1. Listed(awaiting, c)
    BY <1>8 DEF Listed
  <2> QED BY <2>1, FunctionWritten
<1>10. ASSUME NEW i \in 1 .. c, NEW j \in 1 .. c, i < j
       PROVE  /\ awaiting[j].alert => awaiting[i].alert
              /\ awaiting[i].alert = awaiting[j].alert => by[i] < by[j]
  <2>1. PICK a \in 1 .. c, b \in 1 .. c : a = by[i] /\ b = by[j]
    BY <1>8
  <2>2. awaiting[i] = queue[a] /\ awaiting[j] = queue[b]
    BY <1>8, <2>1
  <2>3. key[a] <= key[b] /\ (key[a] = key[b] => a < b)
    BY <1>8, <1>10, <2>1
  <2>4. /\ queue[a].alert \in BOOLEAN /\ queue[b].alert \in BOOLEAN
        /\ key[a] = (IF queue[a].alert THEN 0 ELSE 1) /\ key[b] = (IF queue[b].alert THEN 0 ELSE 1)
    BY <1>2, <1>3
  <2>5. queue[b].alert => queue[a].alert
    BY <2>3, <2>4
  <2>6. queue[a].alert = queue[b].alert => a < b
    BY <2>3, <2>4
  <2> QED BY <2>1, <2>2, <2>5, <2>6
<1>11. Prefers(by, awaiting, queue, c)
  BY <1>8, <1>9, <1>10 DEF Prefers
<1> QED BY <1>1, <1>5, <1>11

\* What both queues say of the evidence of a row.
LEMMA EvidenceAlike ==
  ASSUME NEW row, Summary(row)
  PROVE  /\ QueueEvidence(row) = NeedsEvidence(row)
         /\ \/ QueueEvidence(row).flagged = TRUE /\ Flag(row) > 0
            \/ QueueEvidence(row).flagged = FALSE /\ ~(Flag(row) > 0)
         /\ Flag(row) > 0 => QueueEvidence(row).count = Flag(row)
<1>1. (row.alert <=> row.unverified > 0) /\ row.unverified \in Nat /\ row.verified \in Nat
  BY DEF Summary
<1>2. CASE row.alert
  <2>1. /\ QueueEvidence(row) = [flagged |-> TRUE, count |-> row.unverified]
        /\ NeedsEvidence(row) = [flagged |-> TRUE, count |-> row.unverified]
        /\ Flag(row) = row.unverified
    BY <1>2 DEF QueueEvidence, NeedsEvidence, Flag
  <2>2. row.unverified > 0
    BY <1>1, <1>2
  <2> QED BY <2>1, <2>2
<1>3. CASE ~row.alert
  <2>1. QueueEvidence(row) = [flagged |-> FALSE, count |-> row.verified] /\ Flag(row) = 0
    BY <1>3 DEF QueueEvidence, Flag
  <2>2. row.unverified = 0
    BY <1>1, <1>3
  <2>3. CASE row.verified = 0
    <3>1. NeedsEvidence(row) = [flagged |-> FALSE, count |-> 0]
      BY <1>3, <2>2, <2>3 DEF NeedsEvidence
    <3> QED BY <2>1, <2>3, <3>1
  <2>4. CASE row.verified # 0
    <3>0. row.verified + row.unverified # 0
      BY <1>1, <2>2, <2>4
    <3>1. NeedsEvidence(row) = [flagged |-> FALSE, count |-> row.verified]
      BY <1>3, <3>0 DEF NeedsEvidence
    <3> QED BY <2>1, <3>1
  <2> QED BY <2>3, <2>4
<1> QED BY <1>1, <1>2, <1>3

\* Any list of interviews whose statuses this client knows, at any time.
AnyNumbers(ids) ==
    [kind : {"metrics"}, period : {"24h", "all"}, now : Int, interviews : AnyList(ids, InterviewStatuses)]

LEMMA NobodyEverWaitsUnseen ==
  ASSUME NEW ids, input \in AnyNumbers(ids)
  PROVE  NobodyWaitsUnseen
<1>1. PICK interviews \in AnyList(ids, InterviewStatuses) : interviews = input.interviews
  BY DEF AnyNumbers
<1>2. PICK rows : rows = Summaries(interviews)
  OBVIOUS
<1>3. PICK n : Rowed(rows, n)
  BY <1>1, <1>2, RowsAre
<1>4. PICK rank : rank = [k \in 1 .. n |-> rows[k].updated]
  OBVIOUS
<1>5. PICK queue : queue = Queue(rows)
  OBVIOUS
<1>6. PICK S : S = Waiting(rows, n)
  OBVIOUS
<1>7. PICK at, c : Arranges(at, queue, rows, S, c, rank)
  BY <1>3, <1>4, <1>5, <1>6, QueueIs
<1>8. /\ c \in Nat /\ c = Cardinality(S) /\ Written(queue, c) /\ Len(queue) = c /\ DOMAIN queue = 1 .. c
      /\ \A i \in 1 .. c : at[i] \in S /\ queue[i] = rows[at[i]]
      /\ \A i, j \in 1 .. c : i < j => rank[at[i]] <= rank[at[j]]
  BY <1>7 DEF Arranges, Written
<1>9. \A k \in S : k \in 1 .. n
  BY <1>6 DEF Waiting, Having
<1>10. ASSUME NEW i \in 1 .. c
       PROVE  Summary(queue[i]) /\ queue[i].updated = rank[at[i]] /\ rank[at[i]] \in Int
  <2>1. PICK k \in 1 .. n : k = at[i] /\ queue[i] = rows[k]
    BY <1>8, <1>9
  <2>2. Summary(rows[k])
    BY <1>3 DEF Rowed
  <2>3. rows[k].updated \in Int
    BY <2>2 DEF Summary
  <2> QED BY <1>4, <2>1, <2>2, <2>3
<1>11. \A i \in 1 .. c : queue[i].alert \in BOOLEAN
  BY <1>10 DEF Summary
<1>12. PICK awaiting : awaiting = Awaiting(rows)
  OBVIOUS
<1>13. PICK by : Prefers(by, awaiting, queue, c)
  BY <1>5, <1>8, <1>11, <1>12, AwaitingIs
<1>14. /\ Len(awaiting) = c /\ DOMAIN awaiting = 1 .. c
       /\ \A i \in 1 .. c : by[i] \in 1 .. c /\ awaiting[i] = queue[by[i]]
       /\ \A k \in 1 .. c : \E i \in 1 .. c : by[i] = k
  BY <1>13 DEF Prefers, Written, Reorders
<1>15. ToSet(queue) = ToSet(awaiting)
  <2>1. ASSUME NEW row PROVE row \in ToSet(queue) <=> row \in ToSet(awaiting)
    <3>1. row \in ToSet(queue) <=> \E i \in 1 .. c : row = queue[i]
      BY <1>8 DEF ToSet
    <3>2. row \in ToSet(awaiting) <=> \E i \in 1 .. c : row = awaiting[i]
      BY <1>14 DEF ToSet
    <3>3. ASSUME NEW i \in 1 .. c PROVE \E j \in 1 .. c : queue[i] = awaiting[j]
      <4>1. PICK j \in 1 .. c : by[j] = i
        BY <1>14
      <4> QED BY <1>14, <4>1
    <3>4. \A i \in 1 .. c : \E j \in 1 .. c : awaiting[i] = queue[j]
      BY <1>14
    <3> QED BY <3>1, <3>2, <3>3, <3>4
  <2> QED BY <2>1
<1>16. DOMAIN rows = 1 .. n
  BY <1>3 DEF Rowed, Written
<1>17. S = {k \in DOMAIN rows : rows[k].status = AGUARDANDO}
  BY <1>6, <1>16 DEF Waiting, Having
<1>18. Tile(rows, AGUARDANDO) = c /\ PendingCount(rows) = c
  <2>1. AGUARDANDO # "all" /\ AGUARDANDO # "action_required"
    BY DEF AGUARDANDO
  <2>2. Tile(rows, AGUARDANDO) = Cardinality({k \in DOMAIN rows : rows[k].status = AGUARDANDO})
    BY <2>1 DEF Tile
  <2> QED BY <1>8, <1>17, <2>2 DEF PendingCount
<1>19. \A row \in ToSet(queue) : QueueEvidence(row) = NeedsEvidence(row)
  <2>1. \A i \in 1 .. c : QueueEvidence(queue[i]) = NeedsEvidence(queue[i])
    BY <1>10, EvidenceAlike
  <2> QED BY <1>8, <2>1 DEF ToSet
<1>20. \A j, k \in 1 .. c : j < k => queue[j].updated <= queue[k].updated
  BY <1>8, <1>10
<1>21. ASSUME NEW j \in 1 .. c, NEW k \in 1 .. c, j < k
       PROVE  /\ awaiting[k].alert => awaiting[j].alert
              /\ awaiting[j].alert = awaiting[k].alert => awaiting[j].updated <= awaiting[k].updated
  <2>1. /\ awaiting[k].alert => awaiting[j].alert
        /\ awaiting[j].alert = awaiting[k].alert => by[j] < by[k]
    BY <1>13, <1>21 DEF Prefers
  <2>2. PICK a \in 1 .. c, b \in 1 .. c : a = by[j] /\ b = by[k]
    BY <1>14
  <2>3. awaiting[j] = queue[a] /\ awaiting[k] = queue[b]
    BY <1>14, <2>2
  <2>4. a < b => queue[a].updated <= queue[b].updated
    BY <1>20
  <2> QED BY <2>1, <2>2, <2>3, <2>4
<1> QED BY <1>1, <1>2, <1>5, <1>8, <1>12, <1>14, <1>15, <1>18, <1>19, <1>20, <1>21 DEF NobodyWaitsUnseen

\* Any list on every screen, loaded or not, its last load failed or not.
AnyScreen(ids, statuses) ==
    [kind : {"screens"}, loaded : BOOLEAN, failed : BOOLEAN, demo : BOOLEAN, playing : ids,
     interviews : AnyList(ids, statuses)]

LEMMA NothingIsNeverUnknown ==
  ASSUME NEW ids, NEW statuses, input \in AnyScreen(ids, statuses)
  PROVE  NothingIsNotUnknown
<1>1. PICK interviews \in AnyList(ids, statuses) : interviews = input.interviews
  BY DEF AnyScreen
<1>2. input.loaded \in BOOLEAN /\ input.failed \in BOOLEAN /\ input.demo \in BOOLEAN
  BY DEF AnyScreen
<1> DEFINE rows == Summaries(input.interviews)
           list == [loaded |-> input.loaded, failed |-> input.failed, rows |-> rows]
           dashboard == DashboardView(list, input.demo, "i1", input.playing, "all", 0)
           table == InterviewListView(list, "all", "")
           approvals == ApprovalsView(list)
<1>3. rows = Summaries(interviews)
  BY <1>1
<1> HIDE DEF rows, list, dashboard, table, approvals
<1>4. PICK n : Rowed(rows, n) /\ RowsApart(rows, n) /\ n \in Nat
  BY <1>1, <1>3, RowsAre DEF Rowed
<1>6. list.loaded = input.loaded /\ list.failed = input.failed /\ list.rows = rows
  BY DEF list
<1>10. PICK visible : visible = VisibleRows(rows, "all", "")
  OBVIOUS
<1>11. PICK queue : queue = Queue(rows)
  OBVIOUS
<1>12. /\ dashboard.shows = Screen(list)
       /\ dashboard.board = PipelineBoard(rows, "i1", input.playing)
       /\ ~input.demo => dashboard.action = "new" /\ dashboard.note = "none"
  BY <1>6 DEF dashboard, DashboardView
<1>13. /\ table.shows = Screen(list) /\ table.stale = input.failed
       /\ table.rows = [k \in DOMAIN visible |-> InterviewRow(visible[k])]
       /\ table.empty = CASE visible # <<>> -> "no"
                          [] visible = <<>> /\ rows = <<>> -> "create one"
                          [] OTHER -> "adjust the filter"
  BY <1>6, <1>10 DEF table, InterviewListView
<1>14. approvals.shows = Screen(list) /\ approvals.queue = [k \in DOMAIN queue |-> Approval(queue[k])]
  BY <1>6, <1>11 DEF approvals, ApprovalsView
<1>15. (input.loaded <=> Screen(list) = "rows") /\ (Screen(list) = "error" => input.failed)
  <2>1. CASE input.loaded
    <3>1. Screen(list) = "rows"
      BY <1>2, <1>6, <2>1 DEF Screen
    <3> QED BY <2>1, <3>1
  <2>2. CASE ~input.loaded /\ input.failed
    <3>1. Screen(list) = "error"
      BY <1>2, <1>6, <2>2 DEF Screen
    <3> QED BY <2>2, <3>1
  <2>3. CASE ~input.loaded /\ ~input.failed
    <3>1. Screen(list) = "skeleton"
      BY <1>2, <1>6, <2>3 DEF Screen
    <3> QED BY <2>3, <3>1
  <2> QED BY <1>2, <2>1, <2>2, <2>3
<1>16. DOMAIN rows = 1 .. n /\ Written(rows, n)
  BY <1>4 DEF Rowed, RowsApart
<1>17. ASSUME approvals.queue = <<>>
       PROVE  \A k \in DOMAIN rows : rows[k].status # AGUARDANDO
  <2>1. PICK rank : rank = [k \in 1 .. n |-> rows[k].updated]
    OBVIOUS
  <2>2. PICK at, c : Arranges(at, queue, rows, Waiting(rows, n), c, rank)
    BY <1>4, <1>11, <2>1, QueueIs
  <2>3. c \in Nat /\ DOMAIN queue = 1 .. c /\ \A k \in Waiting(rows, n) : \E i \in 1 .. c : at[i] = k
    BY <2>2 DEF Arranges, Written
  <2>4. DOMAIN queue = {}
    <3>1. DOMAIN approvals.queue = DOMAIN queue
      BY <1>14
    <3>2. DOMAIN <<>> = {}
      OBVIOUS
    <3> QED BY <1>17, <3>1, <3>2
  <2> QED BY <1>16, <2>3, <2>4 DEF Waiting, Having
<1>18. PICK at, c, rank : Arranges(at, visible, rows, Matched(rows, n, "all", ""), c, rank)
  <2>1. PICK rank : rank = [k \in 1 .. n |-> CategoryOrder(rows[k].status)]
    OBVIOUS
  <2>2. \E at, c : Arranges(at, VisibleRows(rows, "all", ""), rows, Matched(rows, n, "all", ""), c, rank)
    BY <1>4, <2>1, VisibleIs
  <2> QED BY <1>10, <2>2
<1>19. Matched(rows, n, "all", "") = 1 .. n
  BY DEF Matched, MatchesFilter, MatchesQuery
<1>20. /\ c = n /\ Written(visible, n) /\ DOMAIN visible = 1 .. n
       /\ \A i \in 1 .. n : at[i] \in 1 .. n /\ visible[i] = rows[at[i]]
  <2>1. /\ c = Cardinality(1 .. n) /\ Written(visible, c)
        /\ \A i \in 1 .. c : at[i] \in 1 .. n /\ visible[i] = rows[at[i]]
    BY <1>18, <1>19 DEF Arranges
  <2>2. c = n
    BY <1>4, <2>1, CountAll
  <2> QED BY <2>1, <2>2 DEF Written
<1>21. (table.empty = "no") = (rows # <<>>)
  <2>1. visible = <<>> <=> rows = <<>>
    <3>1. visible = <<>> <=> n = 0
      BY <1>4, <1>20, NotEmpty DEF Written
    <3>2. rows = <<>> <=> n = 0
      BY <1>4, <1>16, NotEmpty DEF Written
    <3> QED BY <3>1, <3>2
  <2>2. CASE visible # <<>>
    <3>1. table.empty = "no"
      BY <1>13, <2>2
    <3> QED BY <2>1, <2>2, <3>1
  <2>3. CASE visible = <<>>
    <3>1. table.empty = "create one"
      BY <1>13, <2>1, <2>3
    <3> QED BY <2>1, <2>3, <3>1
  <2> QED BY <2>2, <2>3
<1>22. \A k \in 1 .. n : InterviewRow(rows[k]).id = rows[k].id /\ InterviewRow(rows[k]).flag = Flag(rows[k])
  BY DEF InterviewRow
<1>23. ASSUME NEW row \in ToSet(table.rows)
       PROVE  \E k \in 1 .. n : row.id = rows[k].id /\ row.flag = Flag(rows[k])
  <2>0. PICK shown : shown = table.rows
    OBVIOUS
  <2>00. DOMAIN shown = 1 .. n /\ \A i \in 1 .. n : shown[i] = InterviewRow(visible[i])
    BY <1>13, <1>20, <2>0
  <2>1. PICK i \in 1 .. n : row = InterviewRow(visible[i])
    BY <2>0, <2>00 DEF ToSet
  <2>2. PICK k \in 1 .. n : visible[i] = rows[k]
    BY <1>20
  <2> QED BY <1>22, <2>1, <2>2
<1>24. ASSUME NEW s \in DOMAIN Stages, NEW card \in ToSet(dashboard.board.columns[s].cards)
       PROVE  \E k \in 1 .. n : card.id = rows[k].id /\ card.flag = Flag(rows[k])
  <2>1. PICK column : column = Column(rows, Stages[s], "i1")
    OBVIOUS
  <2>2. PICK cards : cards = [j \in DOMAIN column.shown |-> BoardCard(column.shown[j], "i1", input.playing)]
    OBVIOUS
  <2>3. dashboard.board.columns[s] = [cards |-> cards, more |-> column.hidden]
    BY <1>12, <2>1, <2>2 DEF PipelineBoard
  <2>4. dashboard.board.columns[s].cards = cards
    BY <2>3
  <2>5. PICK j \in DOMAIN column.shown : card = BoardCard(column.shown[j], "i1", input.playing)
    BY <1>24, <2>2, <2>4 DEF ToSet
  <2>6. PICK k \in 1 .. n : column.shown[j] = rows[k]
    BY <1>4, <2>1, ColumnIs
  <2> QED BY <2>5, <2>6 DEF BoardCard
<1>25. ASSUME NEW entry \in ToSet(approvals.queue)
       PROVE  \E k \in 1 .. n : entry.id = rows[k].id /\ entry.evidence = QueueEvidence(rows[k])
  <2>1. PICK ages : ages = [k \in 1 .. n |-> rows[k].updated]
    OBVIOUS
  <2>2. PICK by, d : Arranges(by, queue, rows, Waiting(rows, n), d, ages)
    BY <1>4, <1>11, <2>1, QueueIs
  <2>3. DOMAIN queue = 1 .. d /\ \A i \in 1 .. d : by[i] \in 1 .. n /\ queue[i] = rows[by[i]]
    BY <2>2 DEF Arranges, Written, Waiting, Having
  <2>4. PICK i \in 1 .. d : entry = Approval(queue[i])
    BY <1>14, <1>25, <2>3 DEF ToSet
  <2> QED BY <2>3, <2>4 DEF Approval
<1>26. \A j, k \in 1 .. n : rows[j].id = rows[k].id => j = k
  BY <1>4 DEF RowsApart
<1>27. ASSUME NEW s \in DOMAIN Stages, NEW card \in ToSet(dashboard.board.columns[s].cards),
              NEW row \in ToSet(table.rows), card.id = row.id
       PROVE  card.flag = row.flag
  BY <1>23, <1>24, <1>26, <1>27
<1>28. ASSUME NEW entry \in ToSet(approvals.queue), NEW row \in ToSet(table.rows), entry.id = row.id
       PROVE  /\ entry.evidence.flagged = (row.flag > 0)
              /\ row.flag > 0 => entry.evidence.count = row.flag
  <2>1. PICK j \in 1 .. n : entry.id = rows[j].id /\ entry.evidence = QueueEvidence(rows[j])
    BY <1>25
  <2>2. PICK k \in 1 .. n : row.id = rows[k].id /\ row.flag = Flag(rows[k])
    BY <1>23
  <2>3. j = k /\ Summary(rows[j])
    BY <1>4, <1>26, <1>28, <2>1, <2>2 DEF Rowed
  <2>4. PICK known : known = rows[j] /\ Summary(known)
    BY <2>3
  <2>5. /\ \/ QueueEvidence(known).flagged = TRUE /\ Flag(known) > 0
           \/ QueueEvidence(known).flagged = FALSE /\ ~(Flag(known) > 0)
        /\ Flag(known) > 0 => QueueEvidence(known).count = Flag(known)
    BY <2>4, EvidenceAlike
  <2>6. PICK flagged, flag, count : /\ flagged = entry.evidence.flagged /\ flag = row.flag
                                    /\ count = entry.evidence.count
    OBVIOUS
  <2>7. flagged = QueueEvidence(known).flagged /\ count = QueueEvidence(known).count /\ flag = Flag(known)
    BY <2>1, <2>2, <2>3, <2>4, <2>6
  <2>8. flagged = (flag > 0)
    <3>1. (flagged = TRUE /\ flag > 0) \/ (flagged = FALSE /\ ~(flag > 0))
      BY <2>5, <2>7
    <3>2. flag \in Int
      BY <2>4, <2>7 DEF Flag, Summary
    <3>3. CASE flag > 0
      <4>1. flagged = TRUE
        BY <3>1, <3>3
      <4>2. (flag > 0) = TRUE
        BY <3>2, <3>3
      <4> QED BY <4>1, <4>2
    <3>4. CASE ~(flag > 0)
      <4>1. flagged = FALSE
        BY <3>1, <3>4
      <4>2. (flag > 0) = FALSE
        BY <3>2, <3>4
      <4> QED BY <4>1, <4>2
    <3> QED BY <3>3, <3>4
  <2>9. flag > 0 => count = flag
    BY <2>5, <2>7
  <2> QED BY <2>6, <2>8, <2>9
<1>29. \A card \in UNION {ToSet(dashboard.board.columns[k].cards) : k \in DOMAIN Stages}, row \in ToSet(table.rows) :
            card.id = row.id => card.flag = row.flag
  BY <1>27
<1>30. \A screen \in {dashboard.shows, table.shows, approvals.shows} :
            (input.loaded <=> screen = "rows") /\ (screen = "error" => input.failed)
  BY <1>12, <1>13, <1>14, <1>15
<1>31. /\ \A screen \in {dashboard.shows, table.shows, approvals.shows} :
                /\ input.loaded <=> screen = "rows"
                /\ screen = "error" => input.failed
       /\ approvals.shows = "rows" /\ approvals.queue = <<>> =>
                \A k \in DOMAIN list.rows : list.rows[k].status # AGUARDANDO
       /\ table.shows = "rows" => /\ table.stale = input.failed
                                  /\ (table.empty = "no") = (list.rows # <<>>)
       /\ ~input.demo => dashboard.action = "new" /\ dashboard.note = "none"
       /\ \A card \in UNION {ToSet(dashboard.board.columns[k].cards) : k \in DOMAIN Stages}, row \in ToSet(table.rows) :
                card.id = row.id => card.flag = row.flag
       /\ \A entry \in ToSet(approvals.queue), row \in ToSet(table.rows) :
                entry.id = row.id => /\ entry.evidence.flagged = (row.flag > 0)
                                     /\ row.flag > 0 => entry.evidence.count = row.flag
  BY <1>6, <1>12, <1>13, <1>17, <1>21, <1>28, <1>29, <1>30
<1> QED BY <1>31 DEF NothingIsNotUnknown, rows, list, dashboard, table, approvals

\* The rows of a period are rows.
LEMMA WithinIs ==
  ASSUME NEW rows, NEW n, Rowed(rows, n), \A k \in 1 .. n : rows[k].status \in InterviewStatuses,
         NEW period, NEW now, NEW within, within = WithinPeriod(rows, period, now)
  PROVE  \E c : Rowed(within, c) /\ \A k \in 1 .. c : within[k].status \in InterviewStatuses
<1>1. n \in Nat /\ DOMAIN rows = 1 .. n
  BY DEF Rowed, Written
<1>2. CASE period = "all"
  BY <1>2 DEF WithinPeriod
<1>3. CASE period # "all"
  <2>1. PICK S : S = {k \in 1 .. n : rows[k].created >= now - DAY} /\ S \in SUBSET (1 .. n)
    OBVIOUS
  <2>2. within = Only(rows, S)
    BY <1>1, <1>3, <2>1 DEF WithinPeriod
  <2>3. PICK order, c : Keeps(order, within, rows, S, c)
    BY <1>1, <2>1, <2>2, KeptIs, ZenonT(30)
  <2>4. c \in Nat /\ Written(within, c) /\ \A k \in 1 .. c : order[k] \in 1 .. n /\ within[k] = rows[order[k]]
    BY <2>1, <2>3 DEF Keeps
  <2>5. \A k \in 1 .. c : Summary(within[k]) /\ within[k].status \in InterviewStatuses
    BY <2>4 DEF Rowed
  <2> QED BY <2>4, <2>5 DEF Rowed
<1> QED BY <1>2, <1>3

\* Rows of some statuses and of others are counted apart.
LEMMA CountsAdd ==
  ASSUME NEW rows, NEW n, Rowed(rows, n), NEW T, NEW U, T \cap U = {}
  PROVE  /\ CountOf(rows, T) \in Nat /\ CountOf(rows, U) \in Nat
         /\ CountOf(rows, T \cup U) = CountOf(rows, T) + CountOf(rows, U)
<1>1. n \in Nat /\ DOMAIN rows = 1 .. n
  BY DEF Rowed, Written
<1>2. PICK A : A = Having(rows, n, T)
  OBVIOUS
<1>3. PICK B : B = Having(rows, n, U)
  OBVIOUS
<1>4. CountOf(rows, T) = Cardinality(A) /\ CountOf(rows, U) = Cardinality(B)
  BY <1>1, <1>2, <1>3 DEF CountOf, Having
<1>5. A \cap B = {} /\ A \in SUBSET (1 .. n) /\ B \in SUBSET (1 .. n)
  BY <1>2, <1>3 DEF Having
<1>6. CountOf(rows, T \cup U) = Cardinality(A \cup B)
  <2>1. A \cup B = {k \in DOMAIN rows : rows[k].status \in T \cup U}
    BY <1>1, <1>2, <1>3 DEF Having
  <2> QED BY <2>1 DEF CountOf
<1>7. IsFiniteSet(A) /\ IsFiniteSet(B) /\ Cardinality(A) \in Nat /\ Cardinality(B) \in Nat
  BY <1>1, <1>5, Positions
<1>8. Cardinality(A \cup B) = Cardinality(A) + Cardinality(B)
  BY <1>5, <1>7, CountedApart
<1> QED BY <1>4, <1>6, <1>7, <1>8

\* The status of every row is one of those counted, and of one of them alone.
LEMMA EveryRowIsCounted ==
  ASSUME NEW rows, NEW n, Rowed(rows, n), \A k \in 1 .. n : rows[k].status \in InterviewStatuses
  PROVE  /\ Len(rows) = ProcessingCount(rows) + CountOf(rows, {AGUARDANDO}) + CountOf(rows, {FALHOU})
                            + CountOf(rows, {APROVADA, REJEITADA})
         /\ Cardinality({k \in DOMAIN rows : rows[k].needsAction})
                = CountOf(rows, {AGUARDANDO}) + CountOf(rows, {FALHOU})
<1>1. n \in Nat /\ DOMAIN rows = 1 .. n /\ Len(rows) = n
  BY DEF Rowed, Written
<1>2. PICK P : P = {RECEBIDA, TRANSCREVENDO, DIARIZANDO, PONTUANDO}
  OBVIOUS
<1>3. PICK A : A = {AGUARDANDO}
  OBVIOUS
<1>4. PICK F : F = {FALHOU}
  OBVIOUS
<1>5. PICK D : D = {APROVADA, REJEITADA}
  OBVIOUS
<1>6. P \cap A = {} /\ A \cap F = {} /\ (P \cup (A \cup F)) \cap D = {} /\ P \cap (A \cup F) = {}
  BY <1>2, <1>3, <1>4, <1>5
     DEF RECEBIDA, TRANSCREVENDO, DIARIZANDO, PONTUANDO, AGUARDANDO, APROVADA, REJEITADA, FALHOU
<1>7. (P \cup (A \cup F)) \cup D = InterviewStatuses
  BY <1>2, <1>3, <1>4, <1>5 DEF InterviewStatuses
<1>8. PICK N : N = A \cup F
  OBVIOUS
<1>9. PICK K : K = P \cup N
  OBVIOUS
<1>10. CountOf(rows, N) = CountOf(rows, A) + CountOf(rows, F)
  BY <1>6, <1>8, CountsAdd
<1>11. CountOf(rows, K) = CountOf(rows, P) + CountOf(rows, N)
  BY <1>6, <1>8, <1>9, CountsAdd
<1>12. /\ CountOf(rows, InterviewStatuses) = CountOf(rows, K) + CountOf(rows, D)
       /\ CountOf(rows, P) \in Nat /\ CountOf(rows, A) \in Nat /\ CountOf(rows, F) \in Nat /\ CountOf(rows, D) \in Nat
  BY <1>6, <1>7, <1>8, <1>9, CountsAdd
<1>13. CountOf(rows, InterviewStatuses) = n
  <2>1. {k \in DOMAIN rows : rows[k].status \in InterviewStatuses} = 1 .. n
    BY <1>1
  <2> QED BY <1>1, <2>1, CountAll DEF CountOf
<1>14. Cardinality({k \in DOMAIN rows : rows[k].needsAction}) = CountOf(rows, N)
  <2>1. ASSUME NEW k \in DOMAIN rows PROVE rows[k].needsAction <=> rows[k].status \in N
    <3>1. rows[k].needsAction = NeedsAction(rows[k].status)
      BY <1>1 DEF Rowed, Summary
    <3>2. PICK status : status = rows[k].status
      OBVIOUS
    <3>3. NeedsAction(status) <=> status \in {AGUARDANDO, FALHOU}
      <4>1. CASE status \in {AGUARDANDO, FALHOU}
        BY <4>1 DEF NeedsAction, StatusMeta, AGUARDANDO, FALHOU, APROVADA, REJEITADA
      <4>2. CASE status \in {APROVADA, REJEITADA}
        BY <4>2 DEF NeedsAction, StatusMeta, AGUARDANDO, FALHOU, APROVADA, REJEITADA
      <4>3. CASE status \notin {AGUARDANDO, FALHOU, APROVADA, REJEITADA}
        BY <4>3 DEF NeedsAction, StatusMeta
      <4> QED BY <4>1, <4>2, <4>3
    <3> QED BY <1>3, <1>4, <1>8, <3>1, <3>2, <3>3
  <2>2. {k \in DOMAIN rows : rows[k].needsAction} = {k \in DOMAIN rows : rows[k].status \in N}
    BY <2>1
  <2> QED BY <2>2 DEF CountOf
<1> QED BY <1>1, <1>2, <1>3, <1>4, <1>5, <1>10, <1>11, <1>12, <1>13, <1>14 DEF ProcessingCount

\* The numbers a row adds to the evidence, over all the rows.
PerRow(rows, n, verified, unverified, unchecked, competencies) ==
    /\ verified = [k \in 1 .. n |-> rows[k].verified] /\ unverified = [k \in 1 .. n |-> rows[k].unverified]
    /\ unchecked = [k \in 1 .. n |-> rows[k].unchecked]
    /\ competencies = [k \in 1 .. n |-> rows[k].competencies]

LEMMA EvidenceAddsUp ==
  ASSUME NEW rows, NEW n, Rowed(rows, n), NEW verified, NEW unverified, NEW unchecked, NEW competencies,
         PerRow(rows, n, verified, unverified, unchecked, competencies)
  PROVE  /\ SumOf(verified) \in Nat /\ SumOf(unverified) \in Nat /\ SumOf(unchecked) \in Nat
         /\ SumOf(verified) + SumOf(unverified) + SumOf(unchecked) = SumOf(competencies)
         /\ SumOf(unverified) = 0 => \A k \in 1 .. n : ~rows[k].alert
<1>1. n \in Nat
  BY DEF Rowed
<1>2. ASSUME NEW k \in 1 .. n
      PROVE  /\ verified[k] \in Nat /\ unverified[k] \in Nat /\ unchecked[k] \in Nat /\ competencies[k] \in Nat
             /\ verified[k] + unverified[k] + unchecked[k] = competencies[k]
             /\ unverified[k] = 0 => ~rows[k].alert
  <2>1. PICK row : row = rows[k] /\ Summary(row)
    BY DEF Rowed
  <2>2. /\ verified[k] = row.verified /\ unverified[k] = row.unverified
        /\ unchecked[k] = row.unchecked /\ competencies[k] = row.competencies
    BY <2>1 DEF PerRow
  <2> QED BY <2>1, <2>2 DEF Summary
<1>3. /\ verified \in [1 .. n -> Int] /\ unverified \in [1 .. n -> Int]
      /\ unchecked \in [1 .. n -> Int] /\ competencies \in [1 .. n -> Int]
  <2>1. \A k \in 1 .. n : /\ verified[k] \in Int /\ unverified[k] \in Int
                          /\ unchecked[k] \in Int /\ competencies[k] \in Int
    BY <1>2
  <2> QED BY <2>1 DEF PerRow
<1>4. Numbered(verified, n) /\ Numbered(unverified, n) /\ Numbered(unchecked, n) /\ Numbered(competencies, n)
  BY <1>1, <1>3, NumbersAre
<1>5. PICK known : known = [k \in 1 .. n |-> verified[k] + unverified[k]]
  OBVIOUS
<1>6. known \in [1 .. n -> Int] /\ \A k \in 1 .. n : known[k] = verified[k] + unverified[k]
  BY <1>2, <1>5
<1>7. Numbered(known, n)
  BY <1>1, <1>6, NumbersAre
<1>8. SumOf(known) = SumOf(verified) + SumOf(unverified)
  BY <1>4, <1>6, <1>7, SumAdds, ZenonT(30)
<1>9. \A k \in 1 .. n : competencies[k] = known[k] + unchecked[k]
  BY <1>2, <1>6
<1>10. SumOf(competencies) = SumOf(known) + SumOf(unchecked)
  BY <1>4, <1>7, <1>9, SumAdds
<1>11. \A k \in 1 .. n : verified[k] >= 0 /\ unverified[k] >= 0 /\ unchecked[k] >= 0
  BY <1>2
<1>12. SumOf(verified) \in Nat /\ SumOf(unchecked) \in Nat
  BY <1>4, <1>11, SumOfNaturals
<1>13. SumOf(unverified) \in Nat /\ (SumOf(unverified) = 0 => \A k \in 1 .. n : unverified[k] = 0)
  BY <1>4, <1>11, SumOfNaturals
<1> QED BY <1>2, <1>8, <1>10, <1>12, <1>13

LEMMA RateIs ==
  ASSUME NEW v \in Nat, NEW u \in Nat
  PROVE  /\ (Rate(v, u) = ABSENT_SCORE) = (v + u = 0)
         /\ Rate(v, u) = 100 => u = 0
<1>1. CASE v + u = 0
  <2>1. Rate(v, u) = -1 /\ u = 0
    BY <1>1 DEF Rate, ABSENT_SCORE
  <2> QED BY <1>1, <2>1 DEF ABSENT_SCORE
<1>2. CASE v + u > 0
  <2>1. 100 * v \in Nat /\ v + u \in Nat
    OBVIOUS
  <2>2. PICK q \in Nat : q = (100 * v) \div (v + u) /\ q * (v + u) <= 100 * v
    BY <1>2, <2>1, QuotientIs
  <2>3. Rate(v, u) = q
    BY <1>2, <2>2 DEF Rate
  <2>4. q = 100 => u = 0
    BY <2>2
  <2>5. Rate(v, u) # ABSENT_SCORE /\ v + u # 0
    BY <1>2, <2>3 DEF ABSENT_SCORE
  <2> QED BY <2>3, <2>4, <2>5
<1> QED BY <1>1, <1>2

\* How many scores of a row are at most m.
UpToScore(row, m) == Cardinality({j \in DOMAIN row.scores : row.scores[j] <= m})

LEMMA ScoresUpTo ==
  ASSUME NEW row, Summary(row), NEW m \in 1 .. 5
  PROVE  /\ UpToScore(row, m - 1) \in Int /\ UpToScore(row, m) \in Int /\ TimesScored(row, m) \in Int
         /\ UpToScore(row, m) = UpToScore(row, m - 1) + TimesScored(row, m)
         /\ TimesScored(row, m) >= 0
<1>1. PICK c \in Nat : Written(row.scores, c) /\ \A j \in 1 .. c : row.scores[j] \in 1 .. 5
  BY DEF Summary
<1>2. DOMAIN row.scores = 1 .. c
  BY <1>1 DEF Written
<1>3. PICK l \in Int : l = m - 1
  OBVIOUS
<1>4. PICK A : A = {j \in 1 .. c : row.scores[j] <= l} /\ A \in SUBSET (1 .. c)
  OBVIOUS
<1>5. PICK B : B = {j \in 1 .. c : row.scores[j] = m} /\ B \in SUBSET (1 .. c)
  OBVIOUS
<1>6. \A j \in 1 .. c : row.scores[j] <= m <=> row.scores[j] <= l \/ row.scores[j] = m
  <2>1. \A s \in 1 .. 5 : s <= m <=> s <= l \/ s = m
    BY <1>3
  <2> QED BY <1>1, <2>1
<1>7. A \cup B = {j \in 1 .. c : row.scores[j] <= m}
  BY <1>4, <1>5, <1>6
<1>8. A \cap B = {}
  <2>1. \A s \in 1 .. 5 : ~(s <= l /\ s = m)
    BY <1>3
  <2> QED BY <1>1, <1>4, <1>5, <2>1
<1>9. IsFiniteSet(A) /\ IsFiniteSet(B) /\ Cardinality(A) \in Nat /\ Cardinality(B) \in Nat
  BY <1>1, <1>4, <1>5, Positions
<1>10. Cardinality(A \cup B) = Cardinality(A) + Cardinality(B)
  BY <1>8, <1>9, CountedApart
<1>11. UpToScore(row, m) = Cardinality(A \cup B)
  BY <1>2, <1>7 DEF UpToScore
<1>12. UpToScore(row, m - 1) = Cardinality(A)
  BY <1>2, <1>3, <1>4 DEF UpToScore
<1>13. TimesScored(row, m) = Cardinality(B)
  BY <1>2, <1>5 DEF TimesScored
<1> QED BY <1>9, <1>10, <1>11, <1>12, <1>13

LEMMA ScoresAtTheEnds ==
  ASSUME NEW row, Summary(row)
  PROVE  UpToScore(row, 0) = 0 /\ UpToScore(row, 5) = Len(row.scores)
<1>1. PICK c \in Nat : Written(row.scores, c) /\ \A j \in 1 .. c : row.scores[j] \in 1 .. 5
  BY DEF Summary
<1>2. DOMAIN row.scores = 1 .. c /\ Len(row.scores) = c
  BY <1>1 DEF Written
<1>3. \A s \in 1 .. 5 : ~(s <= 0) /\ s <= 5
  OBVIOUS
<1>4. {j \in DOMAIN row.scores : row.scores[j] <= 0} = {}
  BY <1>1, <1>2, <1>3
<1>5. {j \in DOMAIN row.scores : row.scores[j] <= 5} = 1 .. c
  BY <1>1, <1>2, <1>3
<1> QED BY <1>2, <1>4, <1>5, CountAll, FS_EmptySet DEF UpToScore

\* The chart draws every score once.
LEMMA EveryScoreIsDrawn ==
  ASSUME NEW rows, NEW n, Rowed(rows, n),
         NEW drawn, drawn = [m \in 1 .. 5 |-> SumOf([k \in 1 .. n |-> TimesScored(rows[k], m)])]
  PROVE  /\ SumOf(drawn) = SumOf([k \in 1 .. n |-> Len(rows[k].scores)])
         /\ drawn \in [1 .. 5 -> Nat]
<1>1. n \in Nat /\ \A k \in 1 .. n : Summary(rows[k])
  BY DEF Rowed
<1>2. PICK times : times = [m \in 1 .. 5 |-> [k \in 1 .. n |-> TimesScored(rows[k], m)]]
  OBVIOUS
<1>3. PICK upTo : upTo = [m \in 0 .. 5 |-> [k \in 1 .. n |-> UpToScore(rows[k], m)]]
  OBVIOUS
<1>4. ASSUME NEW m \in 1 .. 5, NEW l \in 0 .. 5, l = m - 1
      PROVE  /\ Numbered(times[m], n) /\ Numbered(upTo[m], n) /\ Numbered(upTo[l], n)
             /\ \A k \in 1 .. n : upTo[m][k] = upTo[l][k] + times[m][k]
             /\ \A k \in 1 .. n : times[m][k] >= 0
  <2>1. PICK t : t = times[m] /\ t = [k \in 1 .. n |-> TimesScored(rows[k], m)]
    BY <1>2
  <2>2. PICK u : u = upTo[m] /\ u = [k \in 1 .. n |-> UpToScore(rows[k], m)]
    <3>1. m \in 0 .. 5
      OBVIOUS
    <3> QED BY <1>3, <3>1
  <2>3. PICK v : v = upTo[l] /\ v = [k \in 1 .. n |-> UpToScore(rows[k], l)]
    BY <1>3
  <2>4. ASSUME NEW k \in 1 .. n
        PROVE  t[k] \in Int /\ u[k] \in Int /\ v[k] \in Int /\ u[k] = v[k] + t[k] /\ t[k] >= 0
    <3>1. PICK row : row = rows[k] /\ Summary(row)
      BY <1>1
    <3>2. /\ UpToScore(row, l) \in Int /\ UpToScore(row, m) \in Int /\ TimesScored(row, m) \in Int
          /\ UpToScore(row, m) = UpToScore(row, l) + TimesScored(row, m) /\ TimesScored(row, m) >= 0
      BY <1>4, <3>1, ScoresUpTo
    <3> QED BY <2>1, <2>2, <2>3, <3>1, <3>2
  <2>5. t \in [1 .. n -> Int] /\ u \in [1 .. n -> Int] /\ v \in [1 .. n -> Int]
    BY <2>1, <2>2, <2>3, <2>4
  <2>6. Numbered(t, n) /\ Numbered(u, n) /\ Numbered(v, n)
    BY <1>1, <2>5, NumbersAre
  <2> QED BY <2>1, <2>2, <2>3, <2>4, <2>6
<1>5. ASSUME NEW m \in 1 .. 5 PROVE drawn[m] = SumOf(times[m]) /\ drawn[m] \in Nat
  <2>1. PICK l \in 0 .. 5 : l = m - 1
    OBVIOUS
  <2>2. PICK t : t = times[m] /\ Numbered(t, n) /\ \A k \in 1 .. n : t[k] >= 0
    BY <1>4, <2>1
  <2>3. SumOf(t) \in Nat
    BY <2>2, SumOfNaturals
  <2>4. drawn[m] = SumOf(t)
    BY <1>2, <2>2
  <2> QED BY <2>2, <2>3, <2>4
<1>6. drawn \in [1 .. 5 -> Nat] /\ drawn \in [1 .. 5 -> Int] /\ 5 \in Nat
  <2>0. \A m \in 1 .. 5 : drawn[m] \in Nat
    BY <1>5
  <2>1. ASSUME NEW m \in 1 .. 5 PROVE drawn[m] \in Nat /\ drawn[m] \in Int
    <3>1. PICK x \in Nat : x = drawn[m]
      BY <2>0
    <3>2. x \in Int
      OBVIOUS
    <3> QED BY <3>1, <3>2
  <2>2. drawn = [m \in 1 .. 5 |-> drawn[m]]
    OBVIOUS
  <2> QED BY <2>1, <2>2
<1>7. Numbered(drawn, 5)
  BY <1>6, NumbersAre
<1>8. PICK f : Totals(f, drawn, 5)
  BY <1>7, SumIs
<1>9. PICK I : I = {m \in 0 .. 5 : f[m] = SumOf(upTo[m])}
  OBVIOUS
<1>10. 0 \in I
  <2>1. PICK v : v = upTo[0] /\ v = [k \in 1 .. n |-> UpToScore(rows[k], 0)]
    BY <1>3
  <2>2. Numbered(v, n)
    <3>1. 1 \in 1 .. 5 /\ 0 \in 0 .. 5 /\ 0 = 1 - 1
      OBVIOUS
    <3> QED BY <1>4, <2>1, <3>1
  <2>3. \A k \in 1 .. n : v[k] = 0
    BY <1>1, <2>1, ScoresAtTheEnds
  <2>4. SumOf(v) \in Int /\ SumOf(v) = SumOf(v) + SumOf(v)
    <3>1. \A k \in 1 .. n : v[k] = v[k] + v[k]
      BY <2>3
    <3> QED BY <2>2, <3>1, SumAdds, SumIs
  <2>5. SumOf(v) = 0
    BY <2>4
  <2>6. f[0] = 0
    BY <1>8 DEF Totals
  <2>7. 0 \in 0 .. 5 /\ f[0] = SumOf(upTo[0])
    BY <2>1, <2>5, <2>6
  <2> QED BY <1>9, <2>7
<1>11. ASSUME NEW m \in 1 .. 5, m - 1 \in I PROVE m \in I
  <2>1. PICK l \in 0 .. 5 : l = m - 1 /\ l \in I
    BY <1>9, <1>11
  <2>2. PICK t : t = times[m]
    OBVIOUS
  <2>3. PICK u : u = upTo[m]
    OBVIOUS
  <2>4. PICK v : v = upTo[l]
    OBVIOUS
  <2>5. Numbered(t, n) /\ Numbered(u, n) /\ Numbered(v, n) /\ \A k \in 1 .. n : u[k] = v[k] + t[k]
    BY <1>4, <2>1, <2>2, <2>3, <2>4
  <2>6. SumOf(u) = SumOf(v) + SumOf(t)
    BY <2>5, SumAdds
  <2>7. f[m] = f[l] + drawn[m] /\ f[l] = SumOf(v) /\ drawn[m] = SumOf(t)
    BY <1>5, <1>8, <1>9, <2>1, <2>2, <2>4 DEF Totals
  <2>8. m \in 0 .. 5
    OBVIOUS
  <2> QED BY <1>9, <2>3, <2>6, <2>7, <2>8
<1>12. \A m \in 0 .. 5 : m \in I
  BY <1>10, <1>11, StepByStep
<1>13. 5 \in 0 .. 5
  OBVIOUS
<1>14. SumOf(drawn) = SumOf(upTo[5])
  BY <1>8, <1>9, <1>12, <1>13 DEF Totals
<1>15. upTo[5] = [k \in 1 .. n |-> Len(rows[k].scores)]
  <2>1. \A k \in 1 .. n : UpToScore(rows[k], 5) = Len(rows[k].scores)
    BY <1>1, ScoresAtTheEnds
  <2> QED BY <1>3, <1>13, <2>1
<1> QED BY <1>6, <1>14, <1>15

\* The scores of all the rows add up to as many ones at least, and as many fives at most.
LEMMA ScoresAreWithin ==
  ASSUME NEW rows, NEW n, Rowed(rows, n),
         NEW sums, sums = [k \in 1 .. n |-> SumOf(rows[k].scores)],
         NEW lengths, lengths = [k \in 1 .. n |-> Len(rows[k].scores)]
  PROVE  SumOf(sums) \in Nat /\ SumOf(lengths) \in Nat
            /\ SumOf(lengths) <= SumOf(sums) /\ SumOf(sums) <= 5 * SumOf(lengths)
<1>1. n \in Nat /\ \A k \in 1 .. n : Summary(rows[k])
  BY DEF Rowed
<1>2. ASSUME NEW k \in 1 .. n
      PROVE  /\ sums[k] \in Int /\ lengths[k] \in Int /\ lengths[k] >= 0
             /\ lengths[k] <= sums[k] /\ sums[k] <= 5 * lengths[k]
  <2>1. PICK c \in Nat : Written(rows[k].scores, c) /\ \A j \in 1 .. c : rows[k].scores[j] \in 1 .. 5
    BY <1>1 DEF Summary
  <2>2. PICK scores : scores = rows[k].scores
    OBVIOUS
  <2>3. Written(scores, c) /\ \A j \in 1 .. c : scores[j] \in 1 .. 5 /\ scores[j] \in Int
    BY <2>1, <2>2
  <2>4. scores \in [1 .. c -> Int]
    BY <2>3 DEF Written, Listed
  <2>5. PICK ones : ones = [j \in 1 .. c |-> 1]
    OBVIOUS
  <2>6. ones \in [1 .. c -> Int] /\ \A j \in 1 .. c : ones[j] = 1
    BY <2>5
  <2>7. Numbered(scores, c) /\ Numbered(ones, c)
    BY <2>1, <2>4, <2>6, NumbersAre
  <2>8. \A j \in 1 .. c : ones[j] <= scores[j] /\ scores[j] <= 5 * ones[j]
    BY <2>3, <2>6
  <2>9. SumOf(ones) <= SumOf(scores) /\ SumOf(scores) <= 5 * SumOf(ones)
    <3>1. 5 \in Nat
      OBVIOUS
    <3> QED BY <2>7, <2>8, <3>1, SumWithin
  <2>10. SumOf(ones) = c /\ SumOf(scores) \in Int
    BY <2>6, <2>7, SumOfOnes, SumIs
  <2>11. sums[k] = SumOf(scores) /\ lengths[k] = c
    BY <2>2, <2>3 DEF Written
  <2> QED BY <2>1, <2>9, <2>10, <2>11
<1>3. sums \in [1 .. n -> Int] /\ lengths \in [1 .. n -> Int]
  BY <1>2
<1>4. Numbered(sums, n) /\ Numbered(lengths, n)
  BY <1>1, <1>3, NumbersAre
<1>5. SumOf(lengths) <= SumOf(sums) /\ SumOf(sums) <= 5 * SumOf(lengths)
  <2>1. 5 \in Nat /\ \A k \in 1 .. n : lengths[k] <= sums[k] /\ sums[k] <= 5 * lengths[k]
    BY <1>2
  <2> QED BY <1>4, <2>1, SumWithin
<1>6. SumOf(lengths) \in Nat
  BY <1>2, <1>4, SumOfNaturals
<1>7. SumOf(sums) \in Int
  BY <1>4, SumIs
<1> QED BY <1>5, <1>6, <1>7

LEMMA AverageIs ==
  ASSUME NEW sum \in Nat, NEW count \in Nat, count <= sum, sum <= 5 * count
  PROVE  Average(sum, count) # ABSENT_SCORE => Average(sum, count) \in 1 .. 5
<1>1. CASE count = 0
  BY <1>1 DEF Average
<1>2. CASE count > 0
  <2>1. PICK q \in Nat : q = sum \div count /\ q * count <= sum /\ sum < q * count + count
    BY <1>2, QuotientIs
  <2>2. q >= 1
    <3>1. q = 0 => sum < count
      BY <2>1
    <3> QED BY <3>1
  <2>3. q <= 5
    <3>1. ASSUME q >= 6 PROVE FALSE
      <4>1. PICK d \in Nat : d = q - 6
        BY <3>1
      <4>2. q * count = 6 * count + d * count /\ d * count >= 0
        BY <4>1
      <4> QED BY <1>2, <2>1, <4>2
    <3> QED BY <3>1
  <2> QED BY <1>2, <2>1, <2>2, <2>3 DEF Average
<1> QED BY <1>1, <1>2

\* The arcs of the gauge do not overlap.
LEMMA ArcsFollow ==
  ASSUME NEW v \in Nat, NEW u \in Nat, NEW w \in Nat, NEW arcs, arcs = Arcs(<<v, u, w>>)
  PROVE  \A k \in 1 .. 2 : arcs[k].from + arcs[k].length <= arcs[k + 1].from
<1>1. PICK s : s = <<v, u, w>>
  OBVIOUS
<1>2. DOMAIN s = 1 .. 3 /\ Len(s) = 3 /\ s[1] = v /\ s[2] = u /\ s[3] = w /\ s \in [1 .. 3 -> Int]
  BY <1>1
<1>3. PICK t : t = SumOf(s)
  OBVIOUS
<1>4. t = v + u + w
  <2>1. Numbered(s, 3)
    BY <1>2 DEF Numbered
  <2>2. PICK f : Totals(f, s, 3)
    BY <2>1, SumIs
  <2>3. f[0] = 0 /\ f[1] = f[0] + v /\ f[2] = f[1] + u /\ f[3] = f[2] + w /\ SumOf(s) = f[3]
    <3>1. \A n \in 1 .. 3 : f[n] = f[n - 1] + s[n]
      BY <2>2 DEF Totals
    <3>2. f[1] = f[1 - 1] + s[1] /\ f[2] = f[2 - 1] + s[2] /\ f[3] = f[3 - 1] + s[3]
      BY <3>1
    <3>3. f[0] = 0 /\ SumOf(s) = f[3]
      BY <2>2 DEF Totals
    <3> QED BY <1>2, <3>2, <3>3
  <2> QED BY <1>3, <2>3
<1>5. PICK before : before = [k \in 1 .. 3 |-> SumOf(SubSeq(s, 1, k - 1))]
  OBVIOUS
<1>6. arcs = [k \in 1 .. 3 |-> [from |-> Share(before[k], t), length |-> Share(s[k], t)]]
  BY <1>1, <1>2, <1>3, <1>5 DEF Arcs
<1>7. before[1] = 0 /\ before[2] = v /\ before[3] = v + u
  <2>1. PICK S : S = Int /\ \A i \in 1 .. 3 : s[i] \in S
    BY <1>2
  <2>2. ASSUME NEW e \in 0 .. 2
        PROVE  LET c == SubSeq(s, 1, e) IN Numbered(c, e) /\ \A i \in 1 .. e : c[i] = s[i]
    <3>1. PICK c : c = SubSeq(s, 1, e)
      OBVIOUS
    <3>2. /\ c \in Seq(S) /\ Len(c) = (IF 1 <= e THEN e - 1 + 1 ELSE 0)
          /\ \A i \in 1 .. e - 1 + 1 : c[i] = s[1 + i - 1]
      <4>1. \A i \in 1 .. e : s[i] \in S
        BY <2>1
      <4> QED BY <3>1, <4>1, SubSeqProperties
    <3>3. Len(c) = e /\ \A i \in 1 .. e : c[i] = s[i]
      <4>1. \A i \in 1 .. e : 1 + i - 1 = i /\ i \in 1 .. e - 1 + 1
        OBVIOUS
      <4> QED BY <3>2, <4>1
    <3>4. c \in [1 .. e -> Int]
      BY <2>1, <3>2, <3>3, LenProperties
    <3> QED BY <3>1, <3>3, <3>4 DEF Numbered
  <2>3. ASSUME NEW e \in 0 .. 2
        PROVE  \E f : Totals(f, SubSeq(s, 1, e), e) /\ \A i \in 1 .. e : f[i] = f[i - 1] + s[i]
    <3>1. PICK c : c = SubSeq(s, 1, e) /\ Numbered(c, e) /\ \A i \in 1 .. e : c[i] = s[i]
      BY <2>2
    <3>2. PICK f : Totals(f, c, e)
      BY <3>1, SumIs
    <3>3. \A i \in 1 .. e : f[i] = f[i - 1] + s[i]
      BY <3>1, <3>2 DEF Totals
    <3> QED BY <3>1, <3>2, <3>3
  <2>4. before[1] = 0
    <3>0. before[1] = SumOf(SubSeq(s, 1, 0))
      BY <1>5
    <3>1. PICK f : Totals(f, SubSeq(s, 1, 0), 0)
      BY <2>3
    <3> QED BY <3>0, <3>1 DEF Totals
  <2>5. before[2] = v
    <3>0. before[2] = SumOf(SubSeq(s, 1, 1))
      BY <1>5
    <3>1. PICK f : Totals(f, SubSeq(s, 1, 1), 1) /\ \A i \in 1 .. 1 : f[i] = f[i - 1] + s[i]
      BY <2>3
    <3>2. f[0] = 0 /\ f[1] = f[1 - 1] + s[1] /\ SumOf(SubSeq(s, 1, 1)) = f[1]
      BY <3>1 DEF Totals
    <3> QED BY <1>2, <3>0, <3>2
  <2>6. before[3] = v + u
    <3>0. before[3] = SumOf(SubSeq(s, 1, 2))
      BY <1>5
    <3>1. PICK f : Totals(f, SubSeq(s, 1, 2), 2) /\ \A i \in 1 .. 2 : f[i] = f[i - 1] + s[i]
      BY <2>3
    <3>2. /\ f[0] = 0 /\ f[1] = f[1 - 1] + s[1] /\ f[2] = f[2 - 1] + s[2]
          /\ SumOf(SubSeq(s, 1, 2)) = f[2]
      BY <3>1 DEF Totals
    <3> QED BY <1>2, <3>0, <3>2
  <2> QED BY <2>4, <2>5, <2>6
<1>8. /\ arcs[1].from = Share(0, t) /\ arcs[1].length = Share(v, t)
      /\ arcs[2].from = Share(v, t) /\ arcs[2].length = Share(u, t) /\ arcs[3].from = Share(v + u, t)
  BY <1>2, <1>6, <1>7
<1>9. /\ Share(0, t) + Share(v, t) <= Share(v, t)
      /\ Share(v, t) + Share(u, t) <= Share(v + u, t)
  <2>1. CASE t = 0
    BY <2>1 DEF Share
  <2>2. CASE t > 0
    <3>1. t \in Nat /\ 100 * v \in Nat /\ 100 * u \in Nat /\ 100 * 0 \in Nat
      BY <1>4
    <3>2. (100 * v) \div t \in Nat
      BY <2>2, <3>1, QuotientIs
    <3>3. (100 * 0) \div t = 0
      <4>1. PICK q \in Nat : q = (100 * 0) \div t /\ q * t <= 100 * 0
        BY <2>2, <3>1, QuotientIs
      <4>2. q = 0
        BY <2>2, <3>1, <4>1
      <4> QED BY <4>1, <4>2
    <3>4. ((100 * v) \div t) + ((100 * u) \div t) <= (100 * v + 100 * u) \div t
      BY <2>2, <3>1, QuotientsTogether
    <3>5. 100 * v + 100 * u = 100 * (v + u)
      OBVIOUS
    <3> QED BY <2>2, <3>2, <3>3, <3>4, <3>5 DEF Share
  <2> QED BY <1>4, <2>1, <2>2
<1> QED BY <1>8, <1>9

\* A bar is as high as it is long ago of the highest, and never flat.
LEMMA BarsAre ==
  ASSUME NEW values \in [1 .. 5 -> Nat], NEW bars, bars = Bars(values)
  PROVE  DOMAIN bars = 1 .. 5 /\ \A k \in 1 .. 5 : (bars[k] = 0) = (values[k] = 0) /\ bars[k] <= 128
<1>1. PICK M : M = {1} \cup {values[k] : k \in 1 .. 5}
  OBVIOUS
<1>2. \E m \in M : m >= 1 /\ \A k \in 1 .. 5 : m >= values[k]
  <2>1. PICK a \in M : a \in Nat /\ a >= 1 /\ a >= values[1]
    BY <1>1
  <2>2. PICK b \in M : b \in Nat /\ b >= a /\ b >= values[2]
    BY <1>1, <2>1
  <2>3. PICK c \in M : c \in Nat /\ c >= b /\ c >= values[3]
    BY <1>1, <2>2
  <2>4. PICK d \in M : d \in Nat /\ d >= c /\ d >= values[4]
    BY <1>1, <2>3
  <2>5. PICK e \in M : e \in Nat /\ e >= d /\ e >= values[5]
    BY <1>1, <2>4
  <2>6. \A k \in 1 .. 5 : k = 1 \/ k = 2 \/ k = 3 \/ k = 4 \/ k = 5
    OBVIOUS
  <2>7. values[1] \in Nat /\ values[2] \in Nat /\ values[3] \in Nat /\ values[4] \in Nat /\ values[5] \in Nat
    OBVIOUS
  <2>8. e >= 1 /\ e >= values[1] /\ e >= values[2] /\ e >= values[3] /\ e >= values[4] /\ e >= values[5]
    BY <2>1, <2>2, <2>3, <2>4, <2>5, <2>7
  <2> QED BY <2>6, <2>8
<1>3. PICK max : max = CHOOSE m \in M : m >= 1 /\ \A k \in 1 .. 5 : m >= values[k]
  OBVIOUS
<1>4. max \in Nat /\ max >= 1 /\ \A k \in 1 .. 5 : max >= values[k]
  <2>1. max \in M /\ max >= 1 /\ \A k \in 1 .. 5 : max >= values[k]
    BY <1>2, <1>3
  <2> QED BY <1>1, <2>1
<1>5. bars = [k \in 1 .. 5 |-> LET height == (values[k] * 128) \div max
                               IN  IF values[k] > 0 /\ height < 2 THEN 2 ELSE height]
  BY <1>1, <1>3 DEF Bars
<1>6. ASSUME NEW k \in 1 .. 5 PROVE (bars[k] = 0) = (values[k] = 0) /\ bars[k] <= 128
  <2>1. PICK x \in Nat : x = values[k] /\ x <= max
    BY <1>4
  <2>2. x * 128 \in Nat /\ max > 0
    BY <1>4
  <2>3. PICK h \in Nat : h = (x * 128) \div max /\ h * max <= x * 128
    BY <1>4, <2>2, QuotientIs
  <2>4. bars[k] = IF x > 0 /\ h < 2 THEN 2 ELSE h
    BY <1>5, <2>1, <2>3
  <2>5. x = 0 => h = 0
    BY <1>4, <2>2, <2>3
  <2>6. h <= 128
    <3>1. ASSUME h >= 129 PROVE FALSE
      <4>1. PICK d \in Nat : d = h - 129
        BY <3>1
      <4>2. h * max = 129 * max + d * max /\ d * max >= 0
        BY <1>4, <4>1
      <4> QED BY <1>4, <2>1, <2>2, <2>3, <4>2
    <3> QED BY <3>1
  <2>7. bars[k] = 0 <=> x = 0
    BY <2>4, <2>5
  <2> QED BY <2>1, <2>4, <2>6, <2>7
<1> QED BY <1>5, <1>6

\* The middle of numbers in order has at least half of them up to it, and less than half below it.
UpTo(key, c, limit) == {i \in 1 .. c : key[i] <= limit}

LEMMA Halved ==
  ASSUME NEW c \in Nat, c > 0, NEW key \in [1 .. c -> Int], NEW at, NEW waits, Sorts(at, waits, key, key, c),
         NEW h, h = (c - 1) \div 2 + 1
  PROVE  /\ h \in 1 .. c /\ waits[h] \in Int /\ waits[h] <= waits[c]
         /\ 2 * Cardinality(UpTo(key, c, waits[h])) >= c
         /\ 2 * Cardinality(UpTo(key, c, waits[h] - 1)) < c
<1>1. /\ at \in [1 .. c -> 1 .. c] /\ \A i, j \in 1 .. c : at[i] = at[j] => i = j
      /\ \A k \in 1 .. c : \E i \in 1 .. c : at[i] = k
      /\ \A i \in 1 .. c : waits[i] = key[at[i]]
      /\ \A i, j \in 1 .. c : i < j => key[at[i]] <= key[at[j]]
  BY DEF Sorts, Reorders
<1>2. PICK q \in Nat : q = (c - 1) \div 2 /\ q * 2 <= c - 1 /\ c - 1 < q * 2 + 2
  <2>1. c - 1 \in Nat /\ 2 \in Nat /\ 2 > 0
    OBVIOUS
  <2> QED BY <2>1, QuotientIs
<1>3. h = q + 1 /\ h \in 1 .. c /\ c \in 1 .. c
  BY <1>2
<1>4. \A i \in 1 .. c : waits[i] \in Int
  BY <1>1, ZenonT(30)
<1>5. \A i, j \in 1 .. c : i < j => waits[i] <= waits[j]
  BY <1>1
<1>6. PICK w \in Int : w = waits[h]
  BY <1>3, <1>4
<1>7. w <= waits[c]
  <2>1. CASE h = c
    BY <1>4, <1>6, <2>1
  <2>2. CASE h # c
    <3>1. h < c
      BY <1>3, <2>2
    <3> QED BY <1>3, <1>5, <1>6, <3>1
  <2> QED BY <2>1, <2>2
<1>8. ASSUME NEW limit \in Int
      PROVE  Cardinality({i \in 1 .. c : waits[i] <= limit}) = Cardinality(UpTo(key, c, limit))
  <2>1. PICK A : A = UpTo(key, c, limit) /\ A \in SUBSET (1 .. c)
    BY DEF UpTo
  <2>2. PICK B : B = {i \in 1 .. c : at[i] \in A}
    OBVIOUS
  <2>3. PICK S : S = 1 .. c
    OBVIOUS
  <2>4. Meets(at, c, S) /\ A \in SUBSET S
    BY <1>1, <2>1, <2>3 DEF Meets
  <2>5. Cardinality(B) = Cardinality(A)
    BY <2>2, <2>4, CountMet
  <2>6. B = {i \in 1 .. c : waits[i] <= limit}
    BY <1>1, <2>1, <2>2 DEF UpTo
  <2> QED BY <2>1, <2>5, <2>6
<1>9. 2 * Cardinality(UpTo(key, c, w)) >= c
  <2>1. PICK B : B = {i \in 1 .. c : waits[i] <= w}
    OBVIOUS
  <2>2. \A i \in 1 .. h : i \in B
    <3>1. ASSUME NEW i \in 1 .. h PROVE waits[i] <= w
      <4>1. i \in 1 .. c /\ (i = h \/ i < h)
        BY <1>3
      <4> QED BY <1>3, <1>5, <1>6, <4>1
    <3> QED BY <1>3, <2>1, <3>1
  <2>3. PICK H : H = 1 .. h
    OBVIOUS
  <2>4. B \in SUBSET (1 .. c) /\ H \in SUBSET B
    BY <2>1, <2>2, <2>3
  <2>5. Cardinality(H) <= Cardinality(B) /\ Cardinality(B) \in Nat /\ Cardinality(H) \in Nat
    BY <2>4, CountFewer
  <2>6. h \in Nat /\ Cardinality(H) = h
    BY <1>3, <2>3, CountAll
  <2>7. Cardinality(UpTo(key, c, w)) = Cardinality(B)
    BY <1>8, <2>1
  <2>8. 2 * Cardinality(B) >= c
    BY <1>2, <1>3, <2>5, <2>6
  <2> QED BY <2>7, <2>8
<1>10. 2 * Cardinality(UpTo(key, c, w - 1)) < c
  <2>1. PICK l \in Int : l = w - 1
    OBVIOUS
  <2>2. PICK B : B = {i \in 1 .. c : waits[i] <= l}
    OBVIOUS
  <2>3. PICK Q : Q = 1 .. q
    OBVIOUS
  <2>4. \A i \in B : i \in Q
    <3>1. ASSUME NEW i \in 1 .. c, waits[i] <= l PROVE i <= q
      <4>1. waits[i] \in Int /\ waits[i] < w
        BY <1>4, <2>1, <3>1
      <4>2. ~(h = i \/ h < i)
        <5>1. h = i => w = waits[i]
          BY <1>6
        <5>2. h < i => w <= waits[i]
          BY <1>3, <1>5, <1>6
        <5> QED BY <4>1, <5>1, <5>2
      <4> QED BY <1>3, <4>2
    <3> QED BY <2>2, <2>3, <3>1
  <2>5. Q \in SUBSET (1 .. c) /\ B \in SUBSET Q
    BY <1>2, <2>2, <2>3, <2>4
  <2>6. Cardinality(B) <= Cardinality(Q) /\ Cardinality(B) \in Nat
    BY <2>5, CountFewer
  <2>7. Cardinality(Q) = q
    BY <2>3, CountAll
  <2>8. Cardinality(UpTo(key, c, l)) = Cardinality(B)
    BY <1>8, <2>2
  <2>9. 2 * Cardinality(B) < c
    BY <1>2, <2>6, <2>7
  <2> QED BY <2>1, <2>8, <2>9
<1> QED BY <1>3, <1>4, <1>6, <1>7, <1>9, <1>10

\* How many of those who wait have waited no longer than this.
Waited(rows, waiting, now, limit) == Cardinality({k \in waiting : SinceUpdate(rows[k], now) <= limit})

LEMMA WaitsAre ==
  ASSUME NEW rows, NEW n, Rowed(rows, n), NEW now \in Int, NEW waits, waits = Waits(rows, now),
         NEW waiting, waiting = Waiting(rows, n), waiting # {}
  PROVE  /\ waits # <<>>
         /\ Median(waits) <= waits[Len(waits)] /\ waits[Len(waits)] >= 0
         /\ 2 * Waited(rows, waiting, now, Median(waits)) >= Cardinality(waiting)
         /\ 2 * Waited(rows, waiting, now, Median(waits) - 1) < Cardinality(waiting)
<1>1. n \in Nat /\ \A k \in 1 .. n : Summary(rows[k])
  BY DEF Rowed
<1>2. PICK statuses : statuses = {AGUARDANDO}
  OBVIOUS
<1>3. PICK kept : kept = WithStatus(rows, statuses)
  OBVIOUS
<1>4. waiting \in SUBSET (1 .. n) /\ \E order, c : Keeps(order, kept, rows, waiting, c)
  <2>1. waiting = Having(rows, n, statuses)
    BY <1>2 DEF Waiting
  <2> QED BY <1>3, <2>1, WithStatusIs
<1>5. PICK order, c : Keeps(order, kept, rows, waiting, c)
  BY <1>4
<1>6. /\ c \in Nat /\ c = Cardinality(waiting) /\ DOMAIN kept = 1 .. c
      /\ order \in [1 .. c -> waiting] /\ \A i \in 1 .. c : kept[i] = rows[order[i]]
      /\ \A i, j \in 1 .. c : i < j => order[i] < order[j]
      /\ \A k \in waiting : \E i \in 1 .. c : order[i] = k
  BY <1>5 DEF Keeps, Written
<1>7. \A i, j \in 1 .. c : order[i] = order[j] => i = j
  <2>1. \A i \in 1 .. c : order[i] \in Int
    BY <1>4, <1>6
  <2> QED BY <1>6, <2>1
<1>8. c > 0
  <2>1. PICK k \in waiting : TRUE
    OBVIOUS
  <2>2. \E i \in 1 .. c : order[i] = k
    BY <1>6
  <2> QED BY <1>6, <2>2
<1>9. PICK key : key = [k \in DOMAIN kept |-> SinceUpdate(kept[k], now)]
  OBVIOUS
<1>10. ASSUME NEW row, Summary(row) PROVE SinceUpdate(row, now) \in Int /\ SinceUpdate(row, now) >= 0
  <2>1. row.updated \in Int
    BY <1>10 DEF Summary
  <2> QED BY <2>1 DEF SinceUpdate
<1>11. /\ key \in [1 .. c -> Int] /\ DOMAIN key = 1 .. c
       /\ \A i \in 1 .. c : key[i] >= 0 /\ key[i] = SinceUpdate(rows[order[i]], now)
  <2>1. ASSUME NEW i \in 1 .. c PROVE key[i] \in Int /\ key[i] >= 0 /\ key[i] = SinceUpdate(rows[order[i]], now)
    <3>1. order[i] \in 1 .. n /\ Summary(rows[order[i]])
      BY <1>1, <1>4, <1>6
    <3>2. key[i] = SinceUpdate(rows[order[i]], now)
      BY <1>6, <1>9
    <3> QED BY <1>10, <3>1, <3>2
  <2> QED BY <1>6, <1>9, <2>1
<1>12. waits = SortedBy(key, key)
  BY <1>2, <1>3, <1>9 DEF Waits
<1>13. PICK at : Sorts(at, waits, key, key, c)
  BY <1>6, <1>11, <1>12, SortedIs
<1>14. PICK h : h = (c - 1) \div 2 + 1
  OBVIOUS
<1>15. /\ h \in 1 .. c /\ waits[h] \in Int /\ waits[h] <= waits[c]
       /\ 2 * Cardinality(UpTo(key, c, waits[h])) >= c
       /\ 2 * Cardinality(UpTo(key, c, waits[h] - 1)) < c
  BY <1>6, <1>8, <1>11, <1>13, <1>14, Halved, ZenonT(30)
<1>16. /\ waits = [k \in 1 .. c |-> key[at[k]]] /\ at \in [1 .. c -> 1 .. c]
  BY <1>13 DEF Sorts, Reorders
<1>17. waits # <<>> /\ Len(waits) = c
  <2>1. Listed(waits, c)
    BY <1>16 DEF Listed
  <2>2. Written(waits, c)
    BY <1>6, <2>1, FunctionWritten
  <2> QED BY <1>8, <2>2 DEF Written
<1>18. Median(waits) = waits[h]
  BY <1>14, <1>17 DEF Median
<1>19. waits[c] >= 0
  <2>1. c \in 1 .. c
    BY <1>6, <1>8
  <2> QED BY <1>11, <1>16, <2>1
<1>20. ASSUME NEW limit \in Int PROVE Waited(rows, waiting, now, limit) = Cardinality(UpTo(key, c, limit))
  <2>1. PICK A : A = {k \in waiting : SinceUpdate(rows[k], now) <= limit} /\ A \in SUBSET waiting
    OBVIOUS
  <2>2. PICK B : B = {i \in 1 .. c : order[i] \in A}
    OBVIOUS
  <2>3. Cardinality(B) = Cardinality(A)
    <3>1. Meets(order, c, waiting)
      BY <1>6, <1>7 DEF Meets
    <3> QED BY <2>1, <2>2, <3>1, CountMet
  <2>4. B = UpTo(key, c, limit)
    BY <1>6, <1>11, <2>1, <2>2 DEF UpTo
  <2> QED BY <2>1, <2>3, <2>4 DEF Waited
<1>21. PICK w \in Int, l \in Int : w = waits[h] /\ l = w - 1
  BY <1>15, SMTT(30)
<1> QED BY <1>6, <1>15, <1>17, <1>18, <1>19, <1>20, <1>21

LEMMA NumbersAlwaysAddUp ==
  ASSUME NEW ids, input \in AnyNumbers(ids)
  PROVE  NumbersAddUp
<1>1. PICK interviews \in AnyList(ids, InterviewStatuses) : interviews = input.interviews
  BY DEF AnyNumbers
<1> DEFINE rows == WithinPeriod(Summaries(input.interviews), input.period, input.now)
           m == ComputeMetrics(rows, input.now)
           arcs == Arcs(<<m.verified, m.unverified, m.unchecked>>)
           bars == Bars(m.distribution)
           waiting == {k \in DOMAIN rows : rows[k].status = AGUARDANDO}
<1>2. PICK n : Rowed(rows, n) /\ \A k \in 1 .. n : rows[k].status \in InterviewStatuses
  <2>1. PICK all : all = Summaries(interviews)
    OBVIOUS
  <2>2. PICK a : Rowed(all, a) /\ \A k \in 1 .. a : all[k].status \in InterviewStatuses
    BY <2>1, RowsAre
  <2>3. rows = WithinPeriod(all, input.period, input.now)
    BY <1>1, <2>1
  <2> HIDE DEF rows
  <2> QED BY <2>2, <2>3, WithinIs
<1> HIDE DEF rows, m, arcs, bars, waiting
<1>3. PICK now \in Int : now = input.now
  BY DEF AnyNumbers
<1>4. n \in Nat /\ DOMAIN rows = 1 .. n /\ \A k \in 1 .. n : Summary(rows[k])
  BY <1>2 DEF Rowed, Written
<1>5. PICK verified, unverified, unchecked, competencies :
          PerRow(rows, n, verified, unverified, unchecked, competencies)
  BY DEF PerRow
<1>6. /\ SumOf(verified) \in Nat /\ SumOf(unverified) \in Nat /\ SumOf(unchecked) \in Nat
      /\ SumOf(verified) + SumOf(unverified) + SumOf(unchecked) = SumOf(competencies)
      /\ SumOf(unverified) = 0 => \A k \in 1 .. n : ~rows[k].alert
  BY <1>2, <1>5, EvidenceAddsUp
<1>7. PICK v \in Nat, u \in Nat, w \in Nat : v = SumOf(verified) /\ u = SumOf(unverified) /\ w = SumOf(unchecked)
  BY <1>6
<1>8. PICK sums : sums = [k \in 1 .. n |-> SumOf(rows[k].scores)]
  OBVIOUS
<1>9. PICK lengths : lengths = [k \in 1 .. n |-> Len(rows[k].scores)]
  OBVIOUS
<1>10. PICK drawn : drawn = [s \in 1 .. 5 |-> SumOf([k \in 1 .. n |-> TimesScored(rows[k], s)])]
  OBVIOUS
<1>11. PICK waits : waits = Waits(rows, now)
  OBVIOUS
<1>12. /\ m.total = Len(rows) /\ m.needsAction = Cardinality({k \in DOMAIN rows : rows[k].needsAction})
       /\ m.awaitingApproval = CountOf(rows, {AGUARDANDO}) /\ m.failed = CountOf(rows, {FALHOU})
       /\ m.processing = ProcessingCount(rows) /\ m.decided = CountOf(rows, {APROVADA, REJEITADA})
       /\ m.alerts = Cardinality({k \in DOMAIN rows : rows[k].alert})
  BY DEF m, ComputeMetrics
<1>13. m.verified = v /\ m.unverified = u /\ m.unchecked = w /\ m.rate = Rate(v, u)
  <2>1. /\ verified = [k \in DOMAIN rows |-> rows[k].verified]
        /\ unverified = [k \in DOMAIN rows |-> rows[k].unverified]
        /\ unchecked = [k \in DOMAIN rows |-> rows[k].unchecked]
    BY <1>4, <1>5 DEF PerRow
  <2>2. /\ m.verified = SumOf(verified) /\ m.unverified = SumOf(unverified) /\ m.unchecked = SumOf(unchecked)
        /\ m.rate = Rate(SumOf(verified), SumOf(unverified))
    BY <2>1 DEF m, ComputeMetrics
  <2> QED BY <1>7, <2>2
<1>14. m.distribution = drawn /\ m.average = Average(SumOf(sums), SumOf(lengths))
  BY <1>4, <1>8, <1>9, <1>10 DEF m, ComputeMetrics
<1>15. /\ m.longestWait = IF waits = <<>> THEN ABSENT_SCORE ELSE waits[Len(waits)]
       /\ m.medianWait = Median(waits)
  BY <1>3, <1>11 DEF m, ComputeMetrics
<1>16. /\ m.total = m.processing + m.awaitingApproval + m.failed + m.decided
       /\ m.needsAction = m.awaitingApproval + m.failed
  BY <1>2, <1>12, EveryRowIsCounted
<1>17. m.verified + m.unverified + m.unchecked = SumOf([k \in DOMAIN rows |-> rows[k].competencies])
  <2>1. competencies = [k \in DOMAIN rows |-> rows[k].competencies]
    BY <1>4, <1>5 DEF PerRow
  <2> QED BY <1>6, <1>7, <1>13, <2>1
<1>18. (m.rate = ABSENT_SCORE) = (m.verified + m.unverified = 0)
  BY <1>7, <1>13, RateIs
<1>19. m.rate = 100 => m.alerts = 0
  <2>1. ASSUME m.rate = 100 PROVE \A k \in 1 .. n : ~rows[k].alert
    <3>1. u = 0
      BY <1>7, <1>13, <2>1, RateIs
    <3> QED BY <1>6, <1>7, <3>1
  <2>2. ASSUME m.rate = 100 PROVE {k \in DOMAIN rows : rows[k].alert} = {}
    BY <1>4, <2>1, <2>2
  <2> QED BY <1>12, <2>2, FS_EmptySet
<1>20. SumOf(drawn) = SumOf(lengths) /\ drawn \in [1 .. 5 -> Nat]
  BY <1>2, <1>9, <1>10, EveryScoreIsDrawn
<1>21. SumOf(m.distribution) = SumOf([k \in DOMAIN rows |-> Len(rows[k].scores)])
  BY <1>4, <1>9, <1>14, <1>20
<1>22. \A k \in DOMAIN bars : (bars[k] = 0) = (m.distribution[k] = 0) /\ bars[k] <= 128
  <2>1. bars = Bars(drawn)
    BY <1>14 DEF bars
  <2>2. DOMAIN bars = 1 .. 5 /\ \A k \in 1 .. 5 : (bars[k] = 0) = (drawn[k] = 0) /\ bars[k] <= 128
    BY <1>20, <2>1, BarsAre
  <2> QED BY <1>14, <2>2
<1>23. \A k \in 1 .. 2 : arcs[k].from + arcs[k].length <= arcs[k + 1].from
  <2>1. arcs = Arcs(<<v, u, w>>)
    BY <1>13 DEF arcs
  <2> QED BY <1>7, <2>1, ArcsFollow
<1>24. m.average # ABSENT_SCORE => m.average \in 1 .. 5
  <2>1. PICK sum \in Nat, count \in Nat : /\ sum = SumOf(sums) /\ count = SumOf(lengths)
                                          /\ count <= sum /\ sum <= 5 * count
    BY <1>2, <1>8, <1>9, ScoresAreWithin
  <2>2. Average(sum, count) # ABSENT_SCORE => Average(sum, count) \in 1 .. 5
    BY <2>1, AverageIs
  <2> QED BY <1>14, <2>1, <2>2
<1>25. waiting = Waiting(rows, n)
  BY <1>4 DEF waiting, Waiting, Having
<1>26. ASSUME waiting # {}
       PROVE  /\ m.medianWait <= m.longestWait
              /\ 2 * Waited(rows, waiting, now, m.medianWait) >= Cardinality(waiting)
              /\ 2 * Waited(rows, waiting, now, m.medianWait - 1) < Cardinality(waiting)
              /\ m.longestWait >= 0
  <2>1. /\ waits # <<>>
        /\ Median(waits) <= waits[Len(waits)] /\ waits[Len(waits)] >= 0
        /\ 2 * Waited(rows, waiting, now, Median(waits)) >= Cardinality(waiting)
        /\ 2 * Waited(rows, waiting, now, Median(waits) - 1) < Cardinality(waiting)
    BY <1>2, <1>3, <1>11, <1>25, <1>26, WaitsAre
  <2> QED BY <1>15, <2>1
<1>27. waiting # {} =>
            /\ m.medianWait <= m.longestWait
            /\ 2 * Cardinality({k \in waiting : SinceUpdate(rows[k], input.now) <= m.medianWait})
                    >= Cardinality(waiting)
            /\ 2 * Cardinality({k \in waiting : SinceUpdate(rows[k], input.now) <= m.medianWait - 1})
                    < Cardinality(waiting)
            /\ m.longestWait >= 0
  BY <1>3, <1>26 DEF Waited
<1>28. /\ m.total = m.processing + m.awaitingApproval + m.failed + m.decided
       /\ m.needsAction = m.awaitingApproval + m.failed
       /\ m.verified + m.unverified + m.unchecked = SumOf([k \in DOMAIN rows |-> rows[k].competencies])
       /\ (m.rate = ABSENT_SCORE) = (m.verified + m.unverified = 0)
       /\ m.rate = 100 => m.alerts = 0
       /\ SumOf(m.distribution) = SumOf([k \in DOMAIN rows |-> Len(rows[k].scores)])
       /\ \A k \in DOMAIN bars : (bars[k] = 0) = (m.distribution[k] = 0) /\ bars[k] <= 128
       /\ \A k \in 1 .. 2 : arcs[k].from + arcs[k].length <= arcs[k + 1].from
       /\ m.average # ABSENT_SCORE => m.average \in 1 .. 5
       /\ waiting # {} =>
            /\ m.medianWait <= m.longestWait
            /\ 2 * Cardinality({k \in waiting : SinceUpdate(rows[k], input.now) <= m.medianWait})
                    >= Cardinality(waiting)
            /\ 2 * Cardinality({k \in waiting : SinceUpdate(rows[k], input.now) <= m.medianWait - 1})
                    < Cardinality(waiting)
            /\ m.longestWait >= 0
  BY <1>16, <1>17, <1>18, <1>19, <1>21, <1>22, <1>23, <1>24, <1>27
<1> QED BY <1>28 DEF NumbersAddUp, rows, m, arcs, bars, waiting

\* Whatever the list, the screens that read it count, list and flag the same
\* interviews, and none says more of the list than is known: no one is lost on the
\* board, a tile counts what it lists, no one waits unseen, the numbers of a period
\* add up and "nothing" is said only of a list that was loaded (features/, lib/metrics.ts).
THEOREM ScreensAlwaysAgree ==
  ASSUME NEW ids, NEW statuses,
         input \in AnyBoard(ids, statuses) \cup AnyNumbers(ids) \cup AnyScreen(ids, statuses)
  PROVE  ScreensAgree
<1>1. CASE input \in AnyBoard(ids, statuses)
  <2>1. input.kind = "board"
    BY <1>1 DEF AnyBoard
  <2>2. NobodyIsLostOnTheBoard /\ TilesCountWhatTheyList
    BY <1>1, NobodyIsEverLost, TilesAlwaysCount
  <2> QED BY <2>1, <2>2 DEF ScreensAgree, NobodyWaitsUnseen, NumbersAddUp, NothingIsNotUnknown
<1>2. CASE input \in AnyNumbers(ids)
  <2>1. input.kind = "metrics"
    BY <1>2 DEF AnyNumbers
  <2>2. NobodyWaitsUnseen /\ NumbersAddUp
    BY <1>2, NobodyEverWaitsUnseen, NumbersAlwaysAddUp
  <2> QED BY <2>1, <2>2 DEF ScreensAgree, NobodyIsLostOnTheBoard, TilesCountWhatTheyList, NothingIsNotUnknown
<1>3. CASE input \in AnyScreen(ids, statuses)
  <2>1. input.kind = "screens"
    BY <1>3 DEF AnyScreen
  <2>2. NothingIsNotUnknown
    BY <1>3, NothingIsNeverUnknown
  <2> QED BY <2>1, <2>2 DEF ScreensAgree, NobodyIsLostOnTheBoard, TilesCountWhatTheyList, NobodyWaitsUnseen, NumbersAddUp
<1> QED BY <1>1, <1>2, <1>3
===============================================================================
