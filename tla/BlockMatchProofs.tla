--------------------------- MODULE BlockMatchProofs ---------------------------
(***************************************************************************)
(* Proofs about BlockMatch, for any blocks, labels, patterns, weights and  *)
(* messages, and about the cache that the weights are read through.        *)
(*                                                                         *)
(* match() is a chain of folds, and a fold is a choice of a function on    *)
(* sets of positions.  The lemmas first show that such a function exists,  *)
(* and what it is worth for each prefix of a sequence; then what a filter, *)
(* the sort by labels, a sum and the search for the best block return.     *)
(* The invariant adds that blocks are created once, which makes a list of  *)
(* matches as long as the set of the blocks that match.                    *)
(***************************************************************************)
EXTENDS BlockMatch, ReadThrough, FiniteSetTheorems, TLAPS

\* Induction, without an operator for what is shown: a set that holds 0 and
\* successors holds all numbers.
LEMMA Counting ==
  ASSUME NEW A, 0 \in A, \A n \in Nat : n \in A => n + 1 \in A
  PROVE  Nat \subseteq A
<1> DEFINE R == OpToRel(<, Nat)
           T == Nat \ A
<1>1. IsWellFoundedOn(R, Nat)
  BY Zenon, NatLessThanWellFounded
<1>2. \A x, y \in Nat : y < x => <<y, x>> \in R
  BY DEF OpToRel
<1> HIDE DEF R
<1>3. CASE T # {}
  <2>1. PICK x \in T : \A y \in T : <<y, x>> \notin R
    <3>1. T \subseteq Nat
      OBVIOUS
    <3> HIDE DEF T
    <3> QED BY <1>1, <1>3, <3>1, WFMin
  <2>2. x # 0 /\ x - 1 \in Nat /\ x - 1 < x
    OBVIOUS
  <2>3. x - 1 \notin A
    <3>1. (x - 1) + 1 = x
      BY <2>2
    <3> QED BY <2>2, <3>1
  <2> QED BY <1>2, <2>1, <2>2, <2>3
<1> QED BY <1>3

\* A set of positions has a first one, and a last one.
LEMMA FirstPosition ==
  ASSUME NEW S, S \subseteq Nat, S # {}
  PROVE  Min(S) \in S /\ \A y \in S : Min(S) <= y
<1> DEFINE A == {n \in Nat : \A y \in S : n <= y}
<1>1. 0 \in A
  OBVIOUS
<1>2. PICK n \in A : n + 1 \notin A
  <2>1. PICK z \in S : z \in Nat
    OBVIOUS
  <2>2. z + 1 \notin A
    BY <2>1
  <2>3. ~(Nat \subseteq A)
    BY <2>1, <2>2
  <2> HIDE DEF A
  <2> QED BY <1>1, <2>3, Counting
<1>3. PICK y \in S : ~(n + 1 <= y)
  BY <1>2
<1>4. y = n
  BY <1>2, <1>3
<1>5. \E x \in S : \A w \in S : x <= w
  BY <1>2, <1>4
<1> QED BY <1>5 DEF Min

LEMMA LastPosition ==
  ASSUME NEW S, NEW n \in Nat, S \subseteq 1 .. n, S # {}
  PROVE  Max(S) \in S /\ \A y \in S : Max(S) >= y
<1> DEFINE A == {k \in Nat : \E y \in S : y >= n - k}
<1>1. PICK z \in S : z \in 1 .. n
  OBVIOUS
<1>2. \E x \in S : \A y \in S : x >= y
  <2> DEFINE B == {n - y : y \in S}
  <2>1. B \subseteq Nat /\ B # {}
    OBVIOUS
  <2>2. Min(B) \in B /\ \A y \in B : Min(B) <= y
    BY <2>1, FirstPosition
  <2>3. PICK x \in S : Min(B) = n - x
    BY <2>2
  <2>4. ASSUME NEW y \in S PROVE x >= y
    <3>1. n - y \in B
      OBVIOUS
    <3>2. n - x <= n - y
      BY <2>2, <2>3, <3>1
    <3> QED BY <3>2
  <2> QED BY <2>4
<1> QED BY <1>2 DEF Max

\* The function that a fold from left to right chooses exists: g folds every
\* part of q by h.
Folding(g, h, base, q) ==
  \A s \in SUBSET DOMAIN q :
    g[s] = IF s = {} THEN base ELSE h[<<g[s \ {Max(s)}], q[Max(s)]>>]

LEMMA FoldExists ==
  ASSUME NEW T, NEW S, NEW h \in [T \X S -> T], NEW base \in T, NEW q \in Seq(S)
  PROVE  \E g \in [SUBSET DOMAIN q -> T] : Folding(g, h, base, q)
<1> DEFINE Right(g, n) ==
             \A s \in SUBSET (1 .. n) :
               g[s] = IF s = {} THEN base ELSE h[<<g[s \ {Max(s)}], q[Max(s)]>>]
           Found(n) == \E g \in [SUBSET (1 .. n) -> T] : Right(g, n)
           A == {n \in Nat : n <= Len(q) => Found(n)}
<1>1. 0 \in A
  <2> DEFINE g == [s \in SUBSET (1 .. 0) |-> base]
  <2>1. \A s \in SUBSET (1 .. 0) : s = {}
    OBVIOUS
  <2>2. g \in [SUBSET (1 .. 0) -> T] /\ Right(g, 0)
    BY <2>1
  <2> QED BY <2>2
<1> HIDE DEF Right, Found
<1>2. ASSUME NEW n \in Nat, n \in A PROVE n + 1 \in A
  <2> SUFFICES ASSUME n + 1 <= Len(q)
               PROVE  Found(n + 1)
    OBVIOUS
  <2>0. n <= Len(q)
    OBVIOUS
  <2>1. PICK g \in [SUBSET (1 .. n) -> T] : Right(g, n)
    BY <1>2, <2>0 DEF Found
  <2> DEFINE N == 1 .. n + 1
             f == [s \in SUBSET N |->
                     IF n + 1 \in s THEN h[<<g[s \ {n + 1}], q[n + 1]>>] ELSE g[s]]
  <2>2. \A s \in SUBSET N : /\ n + 1 \in s => s \ {n + 1} \in SUBSET (1 .. n)
                            /\ n + 1 \notin s => s \in SUBSET (1 .. n)
    OBVIOUS
  <2>3. q[n + 1] \in S
    OBVIOUS
  <2>4. f \in [SUBSET N -> T]
    BY <2>2, <2>3
  <2>5. \A s \in SUBSET (1 .. n) : s \in SUBSET N /\ f[s] = g[s]
    <3>1. \A s \in SUBSET (1 .. n) : n + 1 \notin s /\ s \in SUBSET N
      OBVIOUS
    <3> QED BY <3>1
  <2>6. ASSUME NEW s \in SUBSET N
        PROVE  f[s] = IF s = {} THEN base ELSE h[<<f[s \ {Max(s)}], q[Max(s)]>>]
    <3>1. CASE n + 1 \in s
      <4>1. Max(s) = n + 1
        <5>1. n + 1 \in Nat /\ s \subseteq 1 .. n + 1 /\ s # {}
          BY <3>1
        <5>2. Max(s) \in s /\ \A y \in s : Max(s) >= y
          <6> HIDE DEF f, N
          <6> QED BY <5>1, LastPosition
        <5>3. Max(s) \in 1 .. n + 1 /\ Max(s) >= n + 1
          BY <3>1, <5>1, <5>2
        <5> HIDE DEF f, N
        <5> QED BY <5>3
      <4>2. f[s] = h[<<g[s \ {n + 1}], q[n + 1]>>]
        BY <3>1
      <4> HIDE DEF f
      <4> QED BY <2>2, <2>5, <3>1, <4>1, <4>2
    <3>2. CASE n + 1 \notin s
      <4>1. s \in SUBSET (1 .. n) /\ s \ {Max(s)} \in SUBSET (1 .. n)
        BY <2>2, <3>2
      <4> HIDE DEF f
      <4> QED BY <2>1, <2>5, <4>1 DEF Right
    <3> QED BY <3>1, <3>2
  <2> HIDE DEF f
  <2>7. Right(f, n + 1)
    BY <2>6 DEF Right
  <2> QED BY <2>4, <2>7 DEF Found
<1> HIDE DEF A
<1>3. Len(q) \in A
  BY <1>1, <1>2, Counting
<1>4. DOMAIN q = 1 .. Len(q)
  OBVIOUS
<1>5. Found(Len(q))
  BY <1>3 DEF A
<1> QED BY <1>4, <1>5 DEF Found, Right, Folding

\* From left to right, prefix by prefix.
LEMMA LeftToRight ==
  ASSUME NEW n \in Nat, NEW i \in 1 .. n
  PROVE  /\ 1 .. i \in SUBSET (1 .. n) /\ 1 .. i # {}
         /\ Max(1 .. i) = i
         /\ (1 .. i) \ {i} = 1 .. (i - 1)
<1>1. i \in Nat /\ 1 .. i \subseteq 1 .. i /\ 1 .. i # {} /\ i \in 1 .. i
  OBVIOUS
<1>2. Max(1 .. i) \in 1 .. i /\ \A y \in 1 .. i : Max(1 .. i) >= y
  BY <1>1, LastPosition
<1>3. Max(1 .. i) = i
  BY <1>1, <1>2
<1> QED BY <1>1, <1>3

\* A filter goes through a sequence and appends what is to be kept.
LEMMA OnlySteps ==
  ASSUME NEW S, NEW s \in Seq(S), NEW A
  PROVE  \E t : /\ t[0] = <<>>
                /\ \A i \in 1 .. Len(s) :
                     t[i] = IF s[i] \in A THEN Append(t[i - 1], s[i]) ELSE t[i - 1]
                /\ Only(s, A) = t[Len(s)]
<1> DEFINE Fold(g) == [d \in SUBSET DOMAIN s |->
                         IF d = {} THEN <<>>
                         ELSE IF s[Max(d)] \in A THEN Append(g[d \ {Max(d)}], s[Max(d)])
                              ELSE g[d \ {Max(d)}]]
           h == [x \in Seq(S) \X S |-> IF x[2] \in A THEN Append(x[1], x[2]) ELSE x[1]]
           G == CHOOSE g : g = Fold(g)
<1>1. Only(s, A) = G[DOMAIN s]
  BY Zenon DEF Only, FoldLeft, MapThenFoldSet
<1>2. G = Fold(G)
  <2>1. h \in [Seq(S) \X S -> Seq(S)]
    OBVIOUS
  <2>2. \A x \in Seq(S), y \in S : h[<<x, y>>] = IF y \in A THEN Append(x, y) ELSE x
    OBVIOUS
  <2> HIDE DEF h
  <2>3. PICK g \in [SUBSET DOMAIN s -> Seq(S)] : Folding(g, h, <<>>, s)
    <3>1. <<>> \in Seq(S)
      OBVIOUS
    <3> QED BY <2>1, <3>1, FoldExists
  <2>4. ASSUME NEW d \in SUBSET DOMAIN s, d # {}
        PROVE  s[Max(d)] \in S /\ g[d \ {Max(d)}] \in Seq(S)
    <3>1. Len(s) \in Nat /\ d \subseteq 1 .. Len(s)
      OBVIOUS
    <3>2. Max(d) \in d
      BY <2>4, <3>1, LastPosition
    <3> QED BY <2>3, <3>1, <3>2
  <2>5. \A d \in SUBSET DOMAIN s : g[d] = Fold(g)[d]
    BY <2>2, <2>3, <2>4 DEF Folding
  <2>6. g = Fold(g)
    BY <2>3, <2>5
  <2> HIDE DEF Fold
  <2> QED BY <2>6
<1> HIDE DEF G
<1>3. DOMAIN s = 1 .. Len(s) /\ Len(s) \in Nat
  OBVIOUS
<1> DEFINE t == [i \in 0 .. Len(s) |-> G[1 .. i]]
<1>4. t[0] = <<>>
  <2>1. 1 .. 0 = {} /\ {} \in SUBSET DOMAIN s
    OBVIOUS
  <2>2. G[{}] = <<>>
    BY <1>2, <2>1
  <2> QED BY <1>3, <2>1, <2>2
<1>5. ASSUME NEW i \in 1 .. Len(s)
      PROVE  t[i] = IF s[i] \in A THEN Append(t[i - 1], s[i]) ELSE t[i - 1]
  <2>1. /\ 1 .. i \in SUBSET DOMAIN s /\ 1 .. i # {}
        /\ Max(1 .. i) = i /\ (1 .. i) \ {i} = 1 .. (i - 1)
    BY <1>3, LeftToRight
  <2>2. G[1 .. i] = IF s[i] \in A THEN Append(G[1 .. (i - 1)], s[i]) ELSE G[1 .. (i - 1)]
    BY <1>2, <2>1
  <2>3. t[i] = G[1 .. i] /\ t[i - 1] = G[1 .. (i - 1)]
    BY <1>3
  <2> HIDE DEF t
  <2> QED BY <2>2, <2>3
<1>6. Only(s, A) = t[Len(s)]
  BY <1>1, <1>3
<1> HIDE DEF t
<1> QED BY <1>4, <1>5, <1>6

\* What is kept of s, and where in s it is: pos is the sequence of the kept
\* positions, in their order.
Kept(s, n, A, k, pos) ==
  /\ pos \in [1 .. Len(k) -> 1 .. n]
  /\ \A i, j \in 1 .. Len(k) : i < j => pos[i] < pos[j]
  /\ \A i \in 1 .. Len(k) : k[i] = s[pos[i]] /\ s[pos[i]] \in A
  /\ \A j \in 1 .. n : s[j] \in A => \E i \in 1 .. Len(k) : pos[i] = j

LEMMA OnlyKeeps ==
  ASSUME NEW S, NEW s \in Seq(S), NEW A
  PROVE  Only(s, A) \in Seq(S) /\ \E pos : Kept(s, Len(s), A, Only(s, A), pos)
<1>1. PICK t : /\ t[0] = <<>>
               /\ \A i \in 1 .. Len(s) :
                    t[i] = IF s[i] \in A THEN Append(t[i - 1], s[i]) ELSE t[i - 1]
               /\ Only(s, A) = t[Len(s)]
  BY OnlySteps
<1> DEFINE Good(n) == t[n] \in Seq(S) /\ \E pos : Kept(s, n, A, t[n], pos)
           B == {n \in Nat : n <= Len(s) => Good(n)}
<1>2. Good(0)
  <2>1. t[0] \in Seq(S) /\ Len(t[0]) = 0
    BY <1>1
  <2>2. Kept(s, 0, A, t[0], <<>>)
    BY <2>1 DEF Kept
  <2> QED BY <2>1, <2>2
<1>3. ASSUME NEW n \in Nat, n + 1 <= Len(s), Good(n) PROVE Good(n + 1)
  <2> DEFINE e == s[n + 1]
  <2>0. n + 1 \in 1 .. Len(s) /\ (n + 1) - 1 = n /\ e \in S
    BY <1>3
  <2>1. t[n + 1] = IF e \in A THEN Append(t[n], e) ELSE t[n]
    BY <1>1, <2>0
  <2>2. PICK pos : Kept(s, n, A, t[n], pos)
    BY <1>3
  <2>3. t[n] \in Seq(S)
    BY <1>3
  <2>4. CASE e \notin A
    <3>1. t[n + 1] = t[n]
      BY <2>1, <2>4
    <3>2. Kept(s, n + 1, A, t[n], pos)
      BY <2>2, <2>3, <2>4 DEF Kept
    <3> QED BY <2>3, <3>1, <3>2
  <2>5. CASE e \in A
    <3> DEFINE m == Len(t[n])
               p == [i \in 1 .. m + 1 |-> IF i = m + 1 THEN n + 1 ELSE pos[i]]
    <3>1. /\ t[n + 1] = Append(t[n], e) /\ t[n + 1] \in Seq(S)
          /\ m \in Nat /\ Len(t[n + 1]) = m + 1
          /\ \A i \in 1 .. m : t[n + 1][i] = t[n][i]
          /\ t[n + 1][m + 1] = e
      BY <2>0, <2>1, <2>3, <2>5
    <3>2. Kept(s, n + 1, A, t[n + 1], p)
      <4>1. \A i \in 1 .. m : p[i] = pos[i] /\ pos[i] \in 1 .. n /\ pos[i] < n + 1
        BY <2>2, <3>1 DEF Kept
      <4>3. \A i \in 1 .. m + 1 : i = m + 1 \/ i \in 1 .. m
        BY <3>1
      <4>2. p[m + 1] = n + 1 /\ p \in [1 .. m + 1 -> 1 .. n + 1]
        <5>1. \A i \in 1 .. m + 1 : p[i] \in 1 .. n + 1
          <6>1. p[m + 1] = n + 1 /\ n + 1 \in 1 .. n + 1
            BY <3>1
          <6>2. \A i \in 1 .. m : p[i] \in 1 .. n + 1
            <7> HIDE DEF p
            <7> QED BY <4>1
          <6> HIDE DEF p, m
          <6> QED BY <4>3, <6>1, <6>2
        <5> HIDE DEF m
        <5> QED BY <3>1, <5>1
      <4>4. \A i, j \in 1 .. m + 1 : i < j => i \in 1 .. m /\ (j = m + 1 \/ j \in 1 .. m)
        BY <3>1
      <4> HIDE DEF p, m, e
      <4>5. \A i, j \in 1 .. m + 1 : i < j => p[i] < p[j]
        BY <2>2, <3>1, <4>1, <4>2, <4>4 DEF Kept, m
      <4>6. \A i \in 1 .. m + 1 : t[n + 1][i] = s[p[i]] /\ s[p[i]] \in A
        BY <2>2, <2>5, <3>1, <4>1, <4>2, <4>3 DEF Kept, m, e
      <4>7. ASSUME NEW j \in 1 .. n + 1, s[j] \in A PROVE \E i \in 1 .. m + 1 : p[i] = j
        <5>1. CASE j = n + 1
          BY <3>1, <4>2, <5>1
        <5>2. CASE j \in 1 .. n
          <6>1. PICK i \in 1 .. m : pos[i] = j
            BY <2>2, <4>7, <5>2 DEF Kept, m
          <6> QED BY <3>1, <4>1, <6>1
        <5> QED BY <5>1, <5>2
      <4> QED BY <3>1, <4>2, <4>5, <4>6, <4>7 DEF Kept
    <3> QED BY <3>1, <3>2
  <2> QED BY <2>4, <2>5
<1> HIDE DEF Good
<1>4. Nat \subseteq B
  <2>1. 0 \in B
    BY <1>2
  <2>2. ASSUME NEW n \in Nat, n \in B PROVE n + 1 \in B
    <3>1. n + 1 <= Len(s) => n <= Len(s)
      OBVIOUS
    <3> QED BY <1>3, <2>2, <3>1
  <2> HIDE DEF B
  <2> QED BY <2>1, <2>2, Counting
<1>5. Good(Len(s))
  BY <1>4
<1> QED BY <1>1, <1>5 DEF Good

-----------------------------------------------------------------------------
(* Lists of blocks.                                                        *)

\* The number of labels a block asks for.
Rank(b) == Cardinality(b.labels)

\* No block twice; blocks with more labels first.
Unique(s) == \A i, j \in 1 .. Len(s) : s[i] = s[j] => i = j
Ordered(s) == \A i, j \in 1 .. Len(s) : i < j => Rank(s[j]) <= Rank(s[i])

LEMMA RankIsNumber == \A b \in BlockSet : Rank(b) \in 0 .. Cardinality(Labels)
<1>1. \A b \in BlockSet : b.labels \subseteq Labels /\ IsFiniteSet(Labels)
  BY MatchAssumption
<1>2. \A b \in BlockSet : Cardinality(b.labels) \in Nat
          /\ Cardinality(b.labels) <= Cardinality(Labels)
  BY <1>1, FS_Subset, FS_CardinalityType
<1>3. Cardinality(Labels) \in Nat
  BY MatchAssumption, FS_CardinalityType
<1> QED BY <1>2, <1>3 DEF Rank

\* A filter keeps what is to be kept, once, and in order.
LEMMA OnlyFacts ==
  ASSUME NEW S, NEW s \in Seq(S), NEW A
  PROVE  /\ Only(s, A) \in Seq(S)
         /\ ToSet(Only(s, A)) = ToSet(s) \cap A
         /\ Unique(s) => Unique(Only(s, A))
         /\ Ordered(s) => Ordered(Only(s, A))
<1> DEFINE k == Only(s, A)
<1>1. k \in Seq(S)
  BY OnlyKeeps
<1>2. PICK pos : Kept(s, Len(s), A, k, pos)
  BY OnlyKeeps
<1> HIDE DEF k
<1>3. DOMAIN s = 1 .. Len(s) /\ DOMAIN k = 1 .. Len(k) /\ Len(k) \in Nat /\ Len(s) \in Nat
  BY <1>1
<1>4. ToSet(k) = ToSet(s) \cap A
  <2>1. ToSet(k) \subseteq ToSet(s) \cap A
    BY <1>2, <1>3 DEF ToSet, Kept
  <2>2. ToSet(s) \cap A \subseteq ToSet(k)
    BY <1>2, <1>3 DEF ToSet, Kept
  <2> QED BY <2>1, <2>2
<1>5. Unique(s) => Unique(k)
  <2> SUFFICES ASSUME Unique(s), NEW i \in 1 .. Len(k), NEW j \in 1 .. Len(k), k[i] = k[j]
               PROVE  i = j
    BY DEF Unique
  <2>1. pos[i] \in 1 .. Len(s) /\ pos[j] \in 1 .. Len(s) /\ pos[i] = pos[j]
    BY <1>2 DEF Kept, Unique
  <2>2. ~(i < j) /\ ~(j < i)
    BY <1>2, <2>1 DEF Kept
  <2> QED BY <1>3, <2>2
<1>6. Ordered(s) => Ordered(k)
  BY <1>2 DEF Ordered, Kept
<1> QED BY <1>1, <1>4, <1>5, <1>6 DEF k

\* Two lists one after the other.
LEMMA Joined ==
  ASSUME NEW p \in Seq(BlockSet), NEW q \in Seq(BlockSet), Ordered(p), Ordered(q),
         \A x \in ToSet(p), y \in ToSet(q) : Rank(y) < Rank(x)
  PROVE  /\ p \o q \in Seq(BlockSet)
         /\ ToSet(p \o q) = ToSet(p) \cup ToSet(q)
         /\ Ordered(p \o q)
         /\ Unique(p) /\ Unique(q) => Unique(p \o q)
<1> DEFINE r == p \o q
           m == Len(p)
           n == Len(q)
<1>1. /\ r \in Seq(BlockSet) /\ Len(r) = m + n /\ m \in Nat /\ n \in Nat
      /\ DOMAIN p = 1 .. m /\ DOMAIN q = 1 .. n /\ DOMAIN r = 1 .. m + n
  OBVIOUS
<1>2. \A i \in 1 .. m : i \in 1 .. m + n /\ r[i] = p[i] /\ p[i] \in ToSet(p)
          /\ p[i] \in BlockSet
  BY <1>1 DEF ToSet
<1>3. \A i \in 1 .. n : m + i \in 1 .. m + n /\ r[m + i] = q[i] /\ q[i] \in ToSet(q)
          /\ q[i] \in BlockSet
  BY <1>1 DEF ToSet
<1>4. \A i \in 1 .. m + n : i \in 1 .. m \/ (i - m \in 1 .. n /\ i = m + (i - m))
  BY <1>1
<1>5. \A b \in BlockSet : Rank(b) \in Int
  BY RankIsNumber
<1> HIDE DEF r, m, n
<1>6. ToSet(r) = ToSet(p) \cup ToSet(q)
  <2>1. ToSet(r) \subseteq ToSet(p) \cup ToSet(q)
    <3> SUFFICES ASSUME NEW i \in 1 .. m + n PROVE r[i] \in ToSet(p) \cup ToSet(q)
      BY <1>1 DEF ToSet
    <3>1. CASE i \in 1 .. m
      BY <1>2, <3>1
    <3>2. CASE i - m \in 1 .. n /\ i = m + (i - m)
      <4>1. r[m + (i - m)] \in ToSet(q)
        BY <1>3, <3>2
      <4> QED BY <3>2, <4>1
    <3> QED BY <1>4, <3>1, <3>2
  <2>2. \A i \in 1 .. m : p[i] \in ToSet(r)
    BY <1>1, <1>2 DEF ToSet
  <2>3. \A i \in 1 .. n : q[i] \in ToSet(r)
    BY <1>1, <1>3 DEF ToSet
  <2>4. ToSet(p) = {p[i] : i \in 1 .. m} /\ ToSet(q) = {q[i] : i \in 1 .. n}
    BY <1>1 DEF ToSet
  <2> QED BY <2>1, <2>2, <2>3, <2>4
<1>7. Ordered(r)
  <2> SUFFICES ASSUME NEW i \in 1 .. m + n, NEW j \in 1 .. m + n, i < j
               PROVE  Rank(r[j]) <= Rank(r[i])
    BY <1>1 DEF Ordered
  <2>1. CASE j \in 1 .. m
    <3>1. i \in 1 .. m
      BY <1>1, <2>1
    <3>2. Rank(p[j]) <= Rank(p[i])
      BY <2>1, <3>1 DEF Ordered, m
    <3> QED BY <1>2, <2>1, <3>1, <3>2
  <2>2. CASE i \in 1 .. m /\ j - m \in 1 .. n /\ j = m + (j - m)
    <3>1. r[i] \in ToSet(p) /\ r[i] \in BlockSet /\ r[m + (j - m)] \in ToSet(q)
          /\ r[m + (j - m)] \in BlockSet
      BY <1>2, <1>3, <2>2
    <3>2. Rank(r[j]) < Rank(r[i]) /\ Rank(r[j]) \in Int /\ Rank(r[i]) \in Int
      BY <1>5, <2>2, <3>1
    <3> QED BY <3>2
  <2>3. CASE i - m \in 1 .. n /\ i = m + (i - m) /\ j - m \in 1 .. n /\ j = m + (j - m)
    <3>1. i - m < j - m
      BY <1>1
    <3>2. Rank(q[j - m]) <= Rank(q[i - m])
      BY <2>3, <3>1 DEF Ordered, n
    <3>3. r[m + (i - m)] = q[i - m] /\ r[m + (j - m)] = q[j - m]
      BY <1>3, <2>3
    <3> QED BY <2>3, <3>2, <3>3
  <2> QED BY <1>4, <2>1, <2>2, <2>3
<1>8. ASSUME Unique(p), Unique(q) PROVE Unique(r)
  <2>1. \A x \in ToSet(p), y \in ToSet(q) : x \in BlockSet /\ y \in BlockSet => x # y
    BY <1>5
  <2> SUFFICES ASSUME NEW i \in 1 .. m + n, NEW j \in 1 .. m + n, r[i] = r[j] PROVE i = j
    BY <1>1 DEF Unique
  <2>2. CASE i \in 1 .. m /\ j \in 1 .. m
    BY <1>2, <1>8, <2>2 DEF Unique, m
  <2>3. CASE i - m \in 1 .. n /\ i = m + (i - m) /\ j - m \in 1 .. n /\ j = m + (j - m)
    <3>1. r[m + (i - m)] = q[i - m] /\ r[m + (j - m)] = q[j - m]
      BY <1>3, <2>3
    <3>2. i - m = j - m
      BY <1>8, <2>3, <3>1 DEF Unique, n
    <3> QED BY <1>1, <3>2
  <2>4. CASE i \in 1 .. m /\ j - m \in 1 .. n /\ j = m + (j - m)
    <3>1. r[i] \in ToSet(p) /\ r[i] \in BlockSet /\ r[m + (j - m)] \in ToSet(q)
          /\ r[m + (j - m)] \in BlockSet
      BY <1>2, <1>3, <2>4
    <3> QED BY <2>1, <2>4, <3>1
  <2>5. CASE j \in 1 .. m /\ i - m \in 1 .. n /\ i = m + (i - m)
    <3>1. r[j] \in ToSet(p) /\ r[j] \in BlockSet /\ r[m + (i - m)] \in ToSet(q)
          /\ r[m + (i - m)] \in BlockSet
      BY <1>2, <1>3, <2>5
    <3> QED BY <2>1, <2>5, <3>1
  <2> QED BY <1>4, <2>2, <2>3, <2>4, <2>5
<1> QED BY <1>1, <1>6, <1>7, <1>8 DEF r

\* Lists are joined from the first to the last.
LEMMA FlattenSteps ==
  ASSUME NEW S, NEW q \in Seq(Seq(S)), Len(q) # 0
  PROVE  \E f : /\ f[1] = q[1]
                /\ \A i \in 2 .. Len(q) : f[i] = f[i - 1] \o q[i]
                /\ FlattenSeq(q) = f[Len(q)]
<1> DEFINE Flat(f, n) == [i \in 1 .. n |-> IF i = 1 THEN q[i] ELSE f[i - 1] \o q[i]]
           Found(n) == \E f \in [1 .. n -> Seq(S)] : f = Flat(f, n)
           G == CHOOSE f : f = Flat(f, Len(q))
           A == {n \in Nat : n <= Len(q) => Found(n)}
<1>1. FlattenSeq(q) = G[Len(q)]
  BY Zenon DEF FlattenSeq
<1>2. 0 \in A
  <2>1. <<>> = Flat(<<>>, 0) /\ <<>> \in [1 .. 0 -> Seq(S)]
    OBVIOUS
  <2>2. Found(0)
    BY <2>1
  <2> HIDE DEF Found
  <2> QED BY <2>2
<1>3. ASSUME NEW n \in Nat, n + 1 <= Len(q), Found(n) PROVE Found(n + 1)
  <2>1. PICK f \in [1 .. n -> Seq(S)] : f = Flat(f, n)
    BY <1>3
  <2> DEFINE g == [i \in 1 .. n + 1 |-> IF i = n + 1
                                        THEN IF i = 1 THEN q[i] ELSE f[n] \o q[i]
                                        ELSE f[i]]
  <2>2. \A i \in 1 .. n : g[i] = f[i] /\ f[i] \in Seq(S)
    <3>1. \A i \in 1 .. n : i \in 1 .. n + 1 /\ i # n + 1
      OBVIOUS
    <3> QED BY <3>1
  <2>3. \A i \in 1 .. n + 1 : q[i] \in Seq(S)
    BY <1>3
  <2>4. g[n + 1] = IF n + 1 = 1 THEN q[n + 1] ELSE f[n] \o q[n + 1]
    OBVIOUS
  <2>5. \A i \in 1 .. n + 1 : i = n + 1 \/ i \in 1 .. n
    OBVIOUS
  <2>6. g[n + 1] \in Seq(S)
    <3>1. n + 1 # 1 => f[n] \in Seq(S)
      OBVIOUS
    <3> HIDE DEF g
    <3> QED BY <2>3, <2>4, <3>1
  <2>7. g \in [1 .. n + 1 -> Seq(S)]
    <3>1. \A i \in 1 .. n + 1 : g[i] \in Seq(S)
      <4> HIDE DEF g
      <4> QED BY <2>2, <2>5, <2>6
    <3> QED BY <3>1
  <2>8. ASSUME NEW i \in 1 .. n + 1 PROVE g[i] = IF i = 1 THEN q[i] ELSE g[i - 1] \o q[i]
    <3> HIDE DEF g
    <3>1. i # 1 => i - 1 \in 1 .. n
      OBVIOUS
    <3>2. CASE i = n + 1
      BY <2>2, <2>4, <3>1, <3>2
    <3>3. CASE i \in 1 .. n
      <4>1. f[i] = IF i = 1 THEN q[i] ELSE f[i - 1] \o q[i]
        BY <2>1, <3>3
      <4> QED BY <2>2, <3>1, <3>3, <4>1
    <3> QED BY <2>5, <3>2, <3>3
  <2>9. g = Flat(g, n + 1)
    BY <2>8
  <2> QED BY <2>7, <2>9
<1> HIDE DEF Found
<1>4. Nat \subseteq A
  <2>1. ASSUME NEW n \in Nat, n \in A PROVE n + 1 \in A
    <3>1. n + 1 <= Len(q) => n <= Len(q)
      OBVIOUS
    <3> QED BY <1>3, <2>1, <3>1
  <2> HIDE DEF A
  <2> QED BY <1>2, <2>1, Counting
<1>5. Found(Len(q))
  BY <1>4
<1>6. G = Flat(G, Len(q))
  <2> HIDE DEF Flat
  <2> QED BY <1>5 DEF Found
<1> HIDE DEF G
<1>7. \A i \in 1 .. Len(q) : G[i] = IF i = 1 THEN q[i] ELSE G[i - 1] \o q[i]
  BY <1>6
<1>8. 1 \in 1 .. Len(q) /\ \A i \in 2 .. Len(q) : i \in 1 .. Len(q) /\ i # 1
  OBVIOUS
<1> QED BY <1>1, <1>7, <1>8

\* The stable sort: the same blocks, those with more labels first.
LEMMA PrioritizedFacts ==
  ASSUME NEW bs \in Seq(BlockSet)
  PROVE  /\ Prioritized(bs) \in Seq(BlockSet)
         /\ ToSet(Prioritized(bs)) = ToSet(bs)
         /\ Ordered(Prioritized(bs))
         /\ Unique(bs) => Unique(Prioritized(bs))
<1> DEFINE n == Cardinality(Labels) + 1
           Of(i) == {b \in ToSet(bs) : Cardinality(b.labels) = n - i}
           q == [i \in 1 .. n |-> Only(bs, Of(i))]
           Upto(i) == {b \in ToSet(bs) : Rank(b) >= n - i}
<1>1. n \in Nat \ {0}
  BY MatchAssumption, FS_CardinalityType
<1>2. Prioritized(bs) = FlattenSeq(q)
  BY DEF Prioritized
<1>3. \A b \in ToSet(bs) : b \in BlockSet /\ Rank(b) \in Nat /\ Rank(b) <= n - 1
  <2>1. ToSet(bs) \subseteq BlockSet
    BY DEF ToSet
  <2>2. Cardinality(Labels) \in Nat
    BY MatchAssumption, FS_CardinalityType
  <2> QED BY <2>1, <2>2, RankIsNumber
<1>4. ASSUME NEW i \in 1 .. n
      PROVE  /\ q[i] \in Seq(BlockSet)
             /\ ToSet(q[i]) = {b \in ToSet(bs) : Rank(b) = n - i}
             /\ Unique(bs) => Unique(q[i])
             /\ Ordered(q[i])
  <2>1. q[i] = Only(bs, Of(i))
    OBVIOUS
  <2>2. Of(i) = {b \in ToSet(bs) : Rank(b) = n - i}
    BY DEF Rank
  <2> HIDE DEF q, Of
  <2>3. /\ q[i] \in Seq(BlockSet)
        /\ ToSet(q[i]) = ToSet(bs) \cap Of(i)
        /\ Unique(bs) => Unique(q[i])
    BY <2>1, OnlyFacts
  <2>4. ToSet(q[i]) = {b \in ToSet(bs) : Rank(b) = n - i}
    BY <2>2, <2>3
  <2>5. Ordered(q[i])
    <3>1. \A j \in 1 .. Len(q[i]) : q[i][j] \in ToSet(q[i])
      BY <2>3 DEF ToSet
    <3>2. \A j \in 1 .. Len(q[i]) : Rank(q[i][j]) = n - i
      BY <2>4, <3>1
    <3> QED BY <1>1, <3>2 DEF Ordered
  <2> QED BY <2>3, <2>4, <2>5
<1>5. q \in Seq(Seq(BlockSet)) /\ Len(q) = n
  <2> DEFINE T == Seq(BlockSet)
  <2>1. q \in [1 .. n -> T]
    <3>1. \A i \in 1 .. n : q[i] \in T
      BY <1>4
    <3> HIDE DEF T
    <3> QED BY <3>1
  <2> HIDE DEF T, q, n
  <2>2. q \in Seq(T) /\ Len(q) = n
    BY <1>1, <2>1
  <2> QED BY <2>2 DEF T
<1> HIDE DEF q
<1>6. PICK f : /\ f[1] = q[1]
               /\ \A i \in 2 .. n : f[i] = f[i - 1] \o q[i]
               /\ FlattenSeq(q) = f[n]
  BY <1>1, <1>5, FlattenSteps
<1> DEFINE Good(i) == /\ f[i] \in Seq(BlockSet)
                      /\ ToSet(f[i]) = Upto(i)
                      /\ Ordered(f[i])
                      /\ Unique(bs) => Unique(f[i])
           A == {k \in Nat : k + 1 <= n => Good(k + 1)}
<1>7. Good(1)
  <2>1. 1 \in 1 .. n
    BY <1>1
  <2>2. {b \in ToSet(bs) : Rank(b) = n - 1} = Upto(1)
    BY <1>1, <1>3
  <2> HIDE DEF Upto
  <2> QED BY <1>4, <1>6, <2>1, <2>2
<1>8. ASSUME NEW i \in 2 .. n, Good(i - 1) PROVE Good(i)
  <2>1. f[i] = f[i - 1] \o q[i]
    BY <1>6
  <2>2. i \in 1 .. n
    BY <1>1
  <2>3. ASSUME NEW x \in ToSet(f[i - 1]), NEW y \in ToSet(q[i]) PROVE Rank(y) < Rank(x)
    <3>1. Rank(x) >= n - (i - 1) /\ x \in ToSet(bs)
      BY <1>8
    <3>2. Rank(y) = n - i
      BY <1>4, <2>2
    <3> QED BY <1>1, <1>3, <3>1, <3>2
  <2>4. Upto(i - 1) \cup {b \in ToSet(bs) : Rank(b) = n - i} = Upto(i)
    BY <1>1, <1>3
  <2> HIDE DEF Upto
  <2>5. /\ f[i] \in Seq(BlockSet)
        /\ ToSet(f[i]) = ToSet(f[i - 1]) \cup ToSet(q[i])
        /\ Ordered(f[i])
        /\ Unique(f[i - 1]) /\ Unique(q[i]) => Unique(f[i])
    BY <1>4, <1>8, <2>1, <2>2, <2>3, Joined
  <2> QED BY <1>4, <1>8, <2>2, <2>4, <2>5
<1> HIDE DEF Good
<1>9. Nat \subseteq A
  <2>1. 0 \in A
    BY <1>7
  <2>2. ASSUME NEW k \in Nat, k \in A PROVE k + 1 \in A
    <3>1. CASE (k + 1) + 1 <= n
      <4>1. (k + 1) + 1 \in 2 .. n /\ ((k + 1) + 1) - 1 = k + 1 /\ k + 1 <= n
        BY <1>1, <3>1
      <4>2. Good(k + 1)
        BY <2>2, <4>1
      <4> QED BY <1>8, <4>1, <4>2
    <3> QED BY <3>1
  <2> HIDE DEF A
  <2> QED BY <2>1, <2>2, Counting
<1>10. Good(n)
  <2>1. n - 1 \in Nat /\ (n - 1) + 1 = n
    BY <1>1
  <2> HIDE DEF n
  <2>2. n - 1 \in A
    BY <1>9, <2>1
  <2> QED BY <1>1, <2>1, <2>2
<1>11. Upto(n) = ToSet(bs)
  BY <1>1, <1>3
<1> HIDE DEF Upto, n
<1> QED BY <1>2, <1>6, <1>10, <1>11 DEF Good

\* The candidates, in the order in which match() goes through them.
Line(bs, e) == Prioritized(Candidates(bs, e))

For(bs, e) ==
  {b \in ToSet(bs) : IsChannelSupported(b, e) /\ MatchesSubscriberLabels(b, e)}

LEMMA LineFacts ==
  ASSUME NEW bs \in Seq(BlockSet), Unique(bs), NEW e
  PROVE  /\ Line(bs, e) \in Seq(BlockSet)
         /\ ToSet(Line(bs, e)) = For(bs, e)
         /\ Ordered(Line(bs, e))
         /\ Unique(Line(bs, e))
<1>1. Candidates(bs, e) = Only(bs, For(bs, e))
  BY DEF Candidates, For
<1>2. /\ Candidates(bs, e) \in Seq(BlockSet)
      /\ ToSet(Candidates(bs, e)) = ToSet(bs) \cap For(bs, e)
      /\ Unique(Candidates(bs, e))
  BY <1>1, OnlyFacts
<1>3. ToSet(bs) \cap For(bs, e) = For(bs, e)
  BY DEF For
<1> QED BY <1>2, <1>3, PrioritizedFacts DEF Line

\* The elements of a sequence are finitely many.
LEMMA FinitelyMany ==
  ASSUME NEW S, NEW s \in Seq(S)
  PROVE  IsFiniteSet(ToSet(s))
<1>1. s \in [1 .. Len(s) -> ToSet(s)] /\ DOMAIN s = 1 .. Len(s) /\ Len(s) \in Nat
  BY DEF ToSet
<1>2. s \in Surjection(1 .. Len(s), ToSet(s))
  BY <1>1 DEF Surjection, ToSet
<1>3. IsFiniteSet(1 .. Len(s))
  BY <1>1, FS_Interval
<1> QED BY <1>2, <1>3, FS_Surjection

\* A list without repetitions is longer than one if it has several elements.
LEMMA Several ==
  ASSUME NEW m \in Seq(BlockSet), Unique(m), m # <<>>
  PROVE  Cardinality(ToSet(m)) > 1 <=> Len(m) > 1
<1>1. DOMAIN m = 1 .. Len(m) /\ Len(m) \in Nat \ {0}
  OBVIOUS
<1>2. CASE Len(m) = 1
  <2>1. ToSet(m) = {m[1]}
    BY <1>1, <1>2 DEF ToSet
  <2> QED BY <1>2, <2>1, FS_Singleton
<1>3. CASE Len(m) > 1
  <2>1. 1 \in 1 .. Len(m) /\ 2 \in 1 .. Len(m)
    BY <1>1, <1>3
  <2>2. m[1] \in ToSet(m) /\ m[2] \in ToSet(m) /\ m[1] # m[2]
    BY <1>1, <2>1 DEF ToSet, Unique
  <2>3. IsFiniteSet(ToSet(m))
    BY FinitelyMany
  <2>4. Cardinality({m[1], m[2]}) = 2
    <3>1. {m[1], m[2]} = {m[1]} \cup {m[2]}
      OBVIOUS
    <3>2. IsFiniteSet({m[1]}) /\ Cardinality({m[1]}) = 1 /\ m[2] \notin {m[1]}
      BY <2>2, FS_Singleton
    <3>3. Cardinality({m[1]} \cup {m[2]}) = 1 + 1
      BY <3>2, FS_AddElement
    <3> QED BY <3>1, <3>3
  <2>5. Cardinality({m[1], m[2]}) <= Cardinality(ToSet(m)) /\ Cardinality(ToSet(m)) \in Nat
    BY <2>2, <2>3, FS_Subset, FS_CardinalityType
  <2> QED BY <1>3, <2>4, <2>5
<1> QED BY <1>1, <1>2, <1>3

\* What is picked of a list of matches.
LEMMA PickFacts ==
  ASSUME NEW m \in Seq(BlockSet), Unique(m), Ordered(m), m # <<>>, NEW many \in BOOLEAN
  PROVE  IF ~many /\ Cardinality(ToSet(m)) > 1
         THEN Pick(m, many) = NoBlock
         ELSE /\ Pick(m, many) \in ToSet(m)
              /\ \A b \in ToSet(m) : Rank(b) <= Rank(Pick(m, many))
<1>1. Cardinality(ToSet(m)) > 1 <=> Len(m) > 1
  BY Several
<1>2. DOMAIN m = 1 .. Len(m) /\ 1 \in 1 .. Len(m)
  OBVIOUS
<1>3. m[1] \in ToSet(m)
  BY <1>2 DEF ToSet
<1>4. \A b \in ToSet(m) : Rank(b) <= Rank(m[1])
  <2> SUFFICES ASSUME NEW i \in 1 .. Len(m) PROVE Rank(m[i]) <= Rank(m[1])
    BY <1>2 DEF ToSet
  <2>1. CASE i = 1
    BY <2>1, RankIsNumber
  <2>2. CASE 1 < i
    BY <1>2, <2>2 DEF Ordered
  <2> QED BY <2>1, <2>2
<1> QED BY <1>1, <1>3, <1>4 DEF Pick

-----------------------------------------------------------------------------
(* What is answered stays the answer.                                      *)

\* Blocks are created once; the answer is that of match().
MatchInv ==
  /\ blocks \in Seq(BlockSet)
  /\ Unique(blocks)
  /\ Matching =>
       /\ event \in Events /\ multiple \in BOOLEAN
       /\ answer = Match(blocks, event, multiple)

LEMMA MatchAlways == Spec => []MatchInv
<1>1. Init => MatchInv
  <2> SUFFICES ASSUME Init PROVE MatchInv
    OBVIOUS
  <2>1. blocks \in Seq(BlockSet) /\ Len(blocks) = 0
    BY DEF Init
  <2>2. ~Matching
    BY DEF Init, Matching
  <2> QED BY <2>1, <2>2 DEF MatchInv, Unique
<1>2. MatchInv /\ [Next]_vars => MatchInv'
  <2> SUFFICES ASSUME MatchInv, [Next]_vars PROVE MatchInv'
    OBVIOUS
  <2>1. ASSUME NEW b \in BlockSet, CreateBlock(b) PROVE MatchInv'
    <3>1. blocks' = Append(blocks, b) /\ b \notin ToSet(blocks) /\ event = NoEvent
          /\ event' = event
      BY <2>1 DEF CreateBlock
    <3>2. ~Matching'
      BY <3>1 DEF Matching
    <3>3. blocks' \in Seq(BlockSet) /\ Len(blocks') = Len(blocks) + 1
          /\ blocks'[Len(blocks) + 1] = b
          /\ \A i \in 1 .. Len(blocks) : blocks'[i] = blocks[i] /\ blocks[i] # b
      BY <3>1 DEF MatchInv, ToSet
    <3>4. Len(blocks) \in Nat
      BY DEF MatchInv
    <3>5. \A i \in 1 .. Len(blocks') : i \in 1 .. Len(blocks) \/ i = Len(blocks) + 1
      BY <3>3, <3>4
    <3>6. Unique(blocks')
      <4> SUFFICES ASSUME NEW i \in 1 .. Len(blocks'), NEW j \in 1 .. Len(blocks'),
                          blocks'[i] = blocks'[j]
                   PROVE  i = j
        BY DEF Unique
      <4> QED BY <3>3, <3>5 DEF MatchInv, Unique
    <3> QED BY <3>2, <3>3, <3>6 DEF MatchInv, Unique
  <2>2. ASSUME NEW e \in Events, NEW many \in BOOLEAN, AnswerMessage(e, many) PROVE MatchInv'
    <3>1. /\ event' = e /\ multiple' = many /\ blocks' = blocks
          /\ answer' = Match(blocks, e, many)
      BY <2>2 DEF AnswerMessage
    <3>2. answer' = Match(blocks', event', multiple')
      BY <3>1
    <3> QED BY <3>1, <3>2 DEF MatchInv, Unique
  <2>3. ASSUME NEW e \in Events, NEW outcome \in Outcomes, AnswerOutcome(e, outcome)
        PROVE  MatchInv'
    <3>1. /\ event' = [channel |-> e.channel, labels |-> e.labels, outcome |-> outcome]
          /\ blocks' = blocks
      BY <2>3 DEF AnswerOutcome
    <3>2. "outcome" \in DOMAIN event'
      BY <3>1
    <3> QED BY <3>1, <3>2 DEF MatchInv, Unique, Matching
  <2>4. CASE UNCHANGED vars
    <3>1. blocks' = blocks /\ event' = event /\ multiple' = multiple /\ answer' = answer
      BY <2>4 DEF vars
    <3>2. Match(blocks', event', multiple') = Match(blocks, event, multiple)
      BY <3>1
    <3> QED BY <3>1, <3>2 DEF MatchInv, Unique, Matching
  <2> QED BY <2>1, <2>2, <2>3, <2>4 DEF Next
<1> QED BY <1>1, <1>2, PTL DEF Spec

\* The blocks that match the payload, and those that match the text, in the
\* order in which match() goes through them.
ByPayloadInLine ==
  Only(Line(blocks, event), {b \in ToSet(Line(blocks, event)) : MatchPayload(event.payload, b)})

ByTextInLine ==
  Only(Line(blocks, event), {b \in ToSet(Line(blocks, event)) : MatchText(event.text, b)})

LEMMA AudienceInLine ==
  ASSUME MatchInv
  PROVE  /\ Line(blocks, event) \in Seq(BlockSet)
         /\ ToSet(Line(blocks, event)) = Audience
         /\ Ordered(Line(blocks, event)) /\ Unique(Line(blocks, event))
<1>1. For(blocks, event) = Audience
  BY DEF For, Audience, IsChannelSupported, MatchesSubscriberLabels
<1> QED BY <1>1, LineFacts DEF MatchInv

LEMMA NamedInLine ==
  ASSUME MatchInv
  PROVE  /\ event.payload # NoPayload =>
              /\ ByPayloadInLine \in Seq(BlockSet) /\ ToSet(ByPayloadInLine) = ByPayload
              /\ Ordered(ByPayloadInLine) /\ Unique(ByPayloadInLine)
         /\ event.text # NoText =>
              /\ ByTextInLine \in Seq(BlockSet) /\ ToSet(ByTextInLine) = ByText
              /\ Ordered(ByTextInLine) /\ Unique(ByTextInLine)
<1> DEFINE P == {b \in ToSet(Line(blocks, event)) : MatchPayload(event.payload, b)}
           T == {b \in ToSet(Line(blocks, event)) : MatchText(event.text, b)}
<1>1. event.payload # NoPayload => ToSet(Line(blocks, event)) \cap P = ByPayload
  BY AudienceInLine DEF ByPayload
<1>2. event.text # NoText => ToSet(Line(blocks, event)) \cap T = ByText
  BY AudienceInLine DEF ByText
<1>3. ByPayloadInLine = Only(Line(blocks, event), P)
      /\ ByTextInLine = Only(Line(blocks, event), T)
  BY DEF ByPayloadInLine, ByTextInLine
<1> HIDE DEF P, T
<1> QED BY <1>1, <1>2, <1>3, AudienceInLine, OnlyFacts

\* match() by what the message names.
LEMMA MatchByCases ==
  ASSUME MatchInv
  PROVE  Match(blocks, event, multiple) =
           IF event.payload # NoPayload /\ ByPayloadInLine # <<>>
           THEN Pick(ByPayloadInLine, multiple)
           ELSE IF event.text # NoText /\ ByTextInLine # <<>>
           THEN Pick(ByTextInLine, multiple)
           ELSE MatchBestNLP(Line(blocks, event), ScoredEntities(event.entities))
BY Zenon DEF Match, Line, ByPayloadInLine, ByTextInLine

LEMMA NothingInNone ==
  ASSUME NEW m \in Seq(BlockSet)
  PROVE  m = <<>> <=> ToSet(m) = {}
<1>1. DOMAIN m = 1 .. Len(m) /\ Len(m) \in Nat
  OBVIOUS
<1>2. m # <<>> => m[1] \in ToSet(m)
  BY <1>1 DEF ToSet
<1>3. m = <<>> => ToSet(m) = {}
  BY <1>1 DEF ToSet
<1> QED BY <1>2, <1>3

\* A message whose payload, or else text, names blocks is answered by one of
\* them with the most labels, or, when only one may match and several do, by
\* none (NamedAnswers), for any blocks, patterns and labels.
THEOREM NamedBlocksAnswer == Spec => []NamedAnswers
<1>1. MatchInv => NamedAnswers
  <2> SUFFICES ASSUME MatchInv, Matching, Named # {}
               PROVE  IF ~multiple /\ Cardinality(Named) > 1
                      THEN answer = NoBlock
                      ELSE /\ answer \in Named
                           /\ \A b \in Named : Rank(b) <= Rank(answer)
    BY DEF NamedAnswers, Rank
  <2>1. multiple \in BOOLEAN /\ answer = Match(blocks, event, multiple)
    BY DEF MatchInv
  <2>2. ASSUME NEW m \in Seq(BlockSet), ToSet(m) = Named, Ordered(m), Unique(m),
               answer = Pick(m, multiple)
        PROVE  IF ~multiple /\ Cardinality(Named) > 1
               THEN answer = NoBlock
               ELSE /\ answer \in Named
                    /\ \A b \in Named : Rank(b) <= Rank(answer)
    <3>1. m # <<>>
      BY <2>2, NothingInNone
    <3> QED BY <2>1, <2>2, <3>1, PickFacts
  <2>3. CASE ByPayload # {}
    <3>1. Named = ByPayload /\ event.payload # NoPayload
      BY <2>3 DEF Named, ByPayload
    <3>2. ByPayloadInLine # <<>>
      BY <2>3, <3>1, NamedInLine, NothingInNone
    <3>3. answer = Pick(ByPayloadInLine, multiple)
      BY <2>1, <3>1, <3>2, MatchByCases
    <3> QED BY <2>2, <3>1, <3>3, NamedInLine
  <2>4. CASE ByPayload = {}
    <3>1. Named = ByText /\ ByText # {} /\ event.text # NoText
      BY <2>4 DEF Named, ByText
    <3>2. ByTextInLine # <<>>
      BY <3>1, NamedInLine, NothingInNone
    <3>3. ~(event.payload # NoPayload /\ ByPayloadInLine # <<>>)
      BY <2>4, NamedInLine, NothingInNone
    <3>4. answer = Pick(ByTextInLine, multiple)
      BY <2>1, <3>1, <3>2, <3>3, MatchByCases
    <3> QED BY <2>2, <3>1, <3>4, NamedInLine
  <2> QED BY <2>3, <2>4
<1> QED BY <1>1, MatchAlways, PTL

-----------------------------------------------------------------------------
(* Predictions.                                                            *)

\* A family that holds the empty set and grows by elements holds all subsets.
LEMMA Collecting ==
  ASSUME NEW S, IsFiniteSet(S), NEW F, {} \in F,
         \A T \in SUBSET S, x \in S : T \in F /\ x \notin T => T \cup {x} \in F
  PROVE  S \in F
<1> DEFINE A == {n \in Nat : \A T \in SUBSET S : Cardinality(T) = n => T \in F}
<1>1. \A T \in SUBSET S : IsFiniteSet(T) /\ Cardinality(T) \in Nat
  BY FS_Subset, FS_CardinalityType
<1>2. 0 \in A
  BY <1>1, FS_EmptySet
<1>3. ASSUME NEW n \in Nat, n \in A PROVE n + 1 \in A
  <2> SUFFICES ASSUME NEW T \in SUBSET S, Cardinality(T) = n + 1 PROVE T \in F
    OBVIOUS
  <2>1. PICK x \in T : TRUE
    BY <1>1, FS_EmptySet
  <2>2. Cardinality(T \ {x}) = n
    <3>1. Cardinality(T \ {x}) = Cardinality(T) - 1
      BY <1>1, <2>1, FS_RemoveElement
    <3> QED BY <3>1
  <2>3. T \ {x} \in F
    BY <1>3, <2>2
  <2>4. T = (T \ {x}) \cup {x}
    BY <2>1
  <2> QED BY <2>1, <2>3, <2>4
<1> HIDE DEF A
<1>4. Nat \subseteq A
  BY <1>2, <1>3, Counting
<1> QED BY <1>1, <1>4 DEF A

\* Of finitely many numbers one is the largest.
LEMMA Largest ==
  ASSUME NEW S, IsFiniteSet(S), S \subseteq Int, S # {}
  PROVE  Max(S) \in S /\ \A y \in S : Max(S) >= y
<1> DEFINE F == {T \in SUBSET S : T = {} \/ \E x \in T : \A y \in T : x >= y}
<1>1. {} \in F
  OBVIOUS
<1>2. ASSUME NEW T \in SUBSET S, NEW x \in S, T \in F PROVE T \cup {x} \in F
  <2>1. CASE T = {}
    BY <2>1
  <2>2. CASE \E z \in T : \A y \in T : z >= y
    <3>1. PICK z \in T : \A y \in T : z >= y
      BY <2>2
    <3>2. CASE x >= z
      <4>1. \A y \in T \cup {x} : x >= y
        BY <3>1, <3>2
      <4> QED BY <4>1
    <3>3. CASE z >= x
      <4>1. \A y \in T \cup {x} : z >= y
        BY <3>1, <3>3
      <4> QED BY <3>1, <4>1
    <3> QED BY <3>2, <3>3
  <2> QED BY <1>2, <2>1, <2>2
<1> HIDE DEF F
<1>3. S \in F
  BY <1>1, <1>2, Collecting
<1>4. \E x \in S : \A y \in S : x >= y
  BY <1>3 DEF F
<1> QED BY <1>4 DEF Max

\* The sum of v[1], ..., v[n] as a fold chooses it.
Summed(v, n) ==
  LET G == CHOOSE g : g = [d \in SUBSET (1 .. n) |->
                             IF d = {} THEN 0 ELSE g[d \ {Max(d)}] + v[Max(d)]]
  IN  G[1 .. n]

\* The sum of numbers is a number.
LEMMA SummedIsNumber ==
  ASSUME NEW n \in Nat, NEW v \in [1 .. n -> Int]
  PROVE  Summed(v, n) \in Int
<1> DEFINE Fold(g) == [d \in SUBSET (1 .. n) |->
                         IF d = {} THEN 0 ELSE g[d \ {Max(d)}] + v[Max(d)]]
           h == [x \in Int \X Int |-> x[1] + x[2]]
           G == CHOOSE g : g = Fold(g)
<1>1. Summed(v, n) = G[1 .. n]
  BY Zenon DEF Summed
<1>2. ASSUME NEW d \in SUBSET (1 .. n), d # {}
      PROVE  Max(d) \in d /\ v[Max(d)] \in Int
  <2>1. Max(d) \in d
    BY <1>2, LastPosition
  <2> QED BY <2>1
<1>3. \E g : g = Fold(g)
  <2>1. h \in [Int \X Int -> Int]
    OBVIOUS
  <2>2. \A x, y \in Int : h[<<x, y>>] = x + y
    OBVIOUS
  <2>0. v \in Seq(Int) /\ DOMAIN v = 1 .. n /\ 0 \in Int
    OBVIOUS
  <2> HIDE DEF h
  <2> DEFINE T == Int
             zero == 0
  <2>3. h \in [T \X T -> T] /\ zero \in T /\ v \in Seq(T)
    BY <2>0, <2>1
  <2> HIDE DEF T, zero
  <2>4. \E g \in [SUBSET DOMAIN v -> T] : Folding(g, h, zero, v)
    BY <2>3, FoldExists
  <2>5. PICK g \in [SUBSET (1 .. n) -> Int] : Folding(g, h, 0, v)
    BY <2>0, <2>4 DEF T, zero
  <2>6. \A d \in SUBSET (1 .. n) : g[d] = Fold(g)[d]
    BY <1>2, <2>0, <2>2, <2>5 DEF Folding
  <2>7. g = Fold(g)
    BY <2>5, <2>6
  <2> HIDE DEF Fold
  <2> QED BY <2>7
<1>4. G = Fold(G)
  <2> HIDE DEF Fold
  <2> QED BY <1>3
<1> HIDE DEF G
<1> DEFINE A == {k \in Nat : k <= n => G[1 .. k] \in Int}
<1>6. 0 \in A
  <2>1. 1 .. 0 = {} /\ {} \in SUBSET (1 .. n)
    OBVIOUS
  <2>2. G[{}] = 0
    BY <1>4, <2>1
  <2> QED BY <2>1, <2>2
<1>7. ASSUME NEW k \in Nat, k \in A PROVE k + 1 \in A
  <2> SUFFICES ASSUME k + 1 <= n PROVE G[1 .. k + 1] \in Int
    OBVIOUS
  <2>1. k + 1 \in 1 .. n /\ (k + 1) - 1 = k /\ k <= n
    OBVIOUS
  <2>2. /\ 1 .. k + 1 \in SUBSET (1 .. n) /\ 1 .. k + 1 # {}
        /\ Max(1 .. k + 1) = k + 1 /\ (1 .. k + 1) \ {k + 1} = 1 .. k
    <3>1. /\ 1 .. k + 1 \in SUBSET (1 .. n) /\ 1 .. k + 1 # {}
          /\ Max(1 .. k + 1) = k + 1 /\ (1 .. k + 1) \ {k + 1} = 1 .. ((k + 1) - 1)
      BY <2>1, LeftToRight
    <3> QED BY <2>1, <3>1
  <2>3. G[1 .. k + 1] = G[1 .. k] + v[k + 1]
    BY <1>4, <2>2
  <2>4. G[1 .. k] \in Int
    BY <1>7, <2>1
  <2> QED BY <2>1, <2>3, <2>4
<1> HIDE DEF A
<1>8. n \in A
  BY <1>6, <1>7, Counting
<1>9. G[1 .. n] \in Int
  BY <1>8 DEF A
<1> QED BY <1>1, <1>9

\* Whether match() knows the i-th entity of the prediction.
Knows(i) == event.entities[i].entity \in DOMAIN Weight

\* What the prediction gives for pattern q: the first known entity that matches.
First(q) == Min({i \in DOMAIN event.entities :
                   Knows(i) /\ MatchesNluEntity(event.entities[i], q)})
Part(q) == LET n == event.entities[First(q)]
           IN  n.confidence * Weight[n.entity]
                 * (IF q.match = "entity" THEN Penalty ELSE Whole)

LEMMA TotalIsSum ==
  ASSUME NEW p, NEW S, p.all \in Seq(S)
  PROVE  Total(p) = Summed([k \in 1 .. Len(p.all) |-> Part(p.all[k])], Len(p.all))
<1> DEFINE s == p.all
           n == Len(s)
           v == [k \in 1 .. n |-> Part(s[k])]
           Fold(g) == [d \in SUBSET (1 .. n) |->
                         IF d = {} THEN 0 ELSE g[d \ {Max(d)}] + v[Max(d)]]
           Told(g) == [d \in SUBSET DOMAIN s |->
                         IF d = {} THEN 0 ELSE g[d \ {Max(d)}] + Part(s[Max(d)])]
<1>1. Total(p) = (CHOOSE g : g = Told(g))[DOMAIN s]
  BY Zenon DEF Total, Part, First, Knows, FoldLeft, MapThenFoldSet
<1>2. Summed(v, n) = (CHOOSE g : g = Fold(g))[1 .. n]
  BY Zenon DEF Summed
<1>3. DOMAIN s = 1 .. n /\ n \in Nat
  OBVIOUS
<1>4. \A g : Told(g) = Fold(g)
  <2> SUFFICES ASSUME NEW g, NEW d \in SUBSET (1 .. n), d # {}
               PROVE  Part(s[Max(d)]) = v[Max(d)]
    BY <1>3
  <2>1. Max(d) \in d
    BY <1>3, LastPosition
  <2> QED BY <2>1
<1> HIDE DEF Told, Fold
<1>5. (CHOOSE g : g = Told(g)) = (CHOOSE g : g = Fold(g))
  BY Zenon, <1>4
<1> QED BY <1>1, <1>2, <1>3, <1>5

\* k holds the known entities of the prediction, scored, at positions pos.
Scored(k, m, pos) ==
  /\ m \in Nat /\ DOMAIN k = 1 .. m /\ Len(k) = m
  /\ pos \in [1 .. m -> DOMAIN event.entities]
  /\ \A i, j \in 1 .. m : i < j => pos[i] < pos[j]
  /\ \A i \in 1 .. m : LET n == event.entities[pos[i]] IN
       /\ Knows(pos[i])
       /\ k[i].entity = n.entity /\ k[i].value = n.value /\ k[i].canonical = n.canonical
       /\ k[i].score = n.confidence * Weight[n.entity]
  /\ \A j \in DOMAIN event.entities : Knows(j) => \E i \in 1 .. m : pos[i] = j

LEMMA EntitiesScored ==
  ASSUME event \in Events
  PROVE  \E m, pos : Scored(ScoredEntities(event.entities), m, pos)
<1> DEFINE E == event.entities
           A == {n \in ToSet(E) : n.entity \in DOMAIN Weight}
           known == Only(E, A)
           m == Len(known)
           k == ScoredEntities(E)
<1>1. E \in Seq(ToSet(E)) /\ DOMAIN E = 1 .. Len(E)
  BY MatchAssumption
<1>2. known \in Seq(ToSet(E)) /\ \E pos : Kept(E, Len(E), A, known, pos)
  <2> HIDE DEF A, E
  <2> QED BY <1>1, OnlyKeeps
<1>3. PICK pos : Kept(E, Len(E), A, known, pos)
  BY <1>2
<1>4. k = [i \in DOMAIN known |->
             [entity    |-> known[i].entity,
              value     |-> known[i].value,
              canonical |-> known[i].canonical,
              score     |-> known[i].confidence * Weight[known[i].entity]]]
  BY DEF ScoredEntities
<1>5. \A j \in DOMAIN E : E[j] \in A <=> Knows(j)
  BY DEF ToSet, Knows
<1> HIDE DEF known
<1>6. m \in Nat /\ DOMAIN known = 1 .. m
  BY <1>2
<1> HIDE DEF A, k, m
<1>7. DOMAIN k = 1 .. m /\ Len(k) = m
  BY <1>4, <1>6
<1>8. /\ pos \in [1 .. m -> DOMAIN E]
      /\ \A i, j \in 1 .. m : i < j => pos[i] < pos[j]
      /\ \A i \in 1 .. m : known[i] = E[pos[i]] /\ E[pos[i]] \in A
      /\ \A j \in DOMAIN E : E[j] \in A => \E i \in 1 .. m : pos[i] = j
  BY <1>1, <1>3 DEF Kept, m
<1>9. ASSUME NEW i \in 1 .. m
      PROVE  LET n == E[pos[i]] IN
               /\ Knows(pos[i])
               /\ k[i].entity = n.entity /\ k[i].value = n.value
               /\ k[i].canonical = n.canonical
               /\ k[i].score = n.confidence * Weight[n.entity]
  <2>1. Knows(pos[i]) /\ known[i] = E[pos[i]]
    BY <1>5, <1>8
  <2>2. k[i] = [entity |-> known[i].entity, value |-> known[i].value,
                canonical |-> known[i].canonical,
                score |-> known[i].confidence * Weight[known[i].entity]]
    BY <1>4, <1>6
  <2> QED BY <2>1, <2>2
<1>10. \A j \in DOMAIN E : Knows(j) => \E i \in 1 .. m : pos[i] = j
  BY <1>5, <1>8
<1>11. Scored(k, m, pos)
  BY <1>6, <1>7, <1>8, <1>9, <1>10 DEF Scored
<1> QED BY <1>11 DEF k

LEMMA MatchesAlike ==
  ASSUME NEW k, NEW m, NEW pos, Scored(k, m, pos), NEW i \in 1 .. m, NEW q
  PROVE  MatchesNluEntity(k[i], q) <=> MatchesNluEntity(event.entities[pos[i]], q)
<1>1. LET n == event.entities[pos[i]] IN
        k[i].entity = n.entity /\ k[i].value = n.value /\ k[i].canonical = n.canonical
  BY DEF Scored
<1> QED BY <1>1 DEF MatchesNluEntity

\* The lists of patterns that match are the same, among the scored entities
\* and in the prediction.
LEMMA SameLists ==
  ASSUME NEW k, NEW m, NEW pos, Scored(k, m, pos), NEW b
  PROVE  MatchingNluPatterns(k, b) = MatchedLists(b)
<1>1. ASSUME NEW q
      PROVE  (\E n \in ToSet(k) : MatchesNluEntity(n, q))
             <=> \E j \in DOMAIN event.entities :
                   Knows(j) /\ MatchesNluEntity(event.entities[j], q)
  <2>1. (\E n \in ToSet(k) : MatchesNluEntity(n, q)) <=> \E i \in 1 .. m : MatchesNluEntity(k[i], q)
    BY DEF ToSet, Scored
  <2>2. (\E i \in 1 .. m : MatchesNluEntity(k[i], q))
          <=> \E i \in 1 .. m : MatchesNluEntity(event.entities[pos[i]], q)
    BY MatchesAlike
  <2>3. (\E i \in 1 .. m : MatchesNluEntity(event.entities[pos[i]], q))
          <=> \E j \in DOMAIN event.entities :
                   Knows(j) /\ MatchesNluEntity(event.entities[j], q)
    BY DEF Scored
  <2> QED BY <2>1, <2>2, <2>3
<1> QED BY <1>1 DEF MatchingNluPatterns, MatchedLists, Knows

\* The first of the scored entities that matches is the first of the known.
LEMMA FirstFound ==
  ASSUME event \in Events, NEW k, NEW m, NEW pos, Scored(k, m, pos), NEW q,
         \E j \in DOMAIN event.entities : Knows(j) /\ MatchesNluEntity(event.entities[j], q)
  PROVE  LET i == SelectInSeq(k, LAMBDA n : MatchesNluEntity(n, q))
         IN  i # 0 /\ PatternScore(k[i], q) = Part(q) /\ Part(q) \in Int
<1> DEFINE E == event.entities
           I == {i \in 1 .. m : MatchesNluEntity(k[i], q)}
           J == {j \in DOMAIN E : Knows(j) /\ MatchesNluEntity(E[j], q)}
           i == Min(I)
<1>1. DOMAIN E \subseteq Nat /\ m \in Nat
  BY MatchAssumption DEF Scored
<1>2. J \subseteq Nat /\ J # {} /\ I \subseteq Nat
  BY <1>1
<1>3. \A x \in I : pos[x] \in J
  BY MatchesAlike DEF Scored
<1>4. ASSUME NEW j \in J PROVE \E x \in I : pos[x] = j
  <2>1. PICK x \in 1 .. m : pos[x] = j
    BY DEF Scored
  <2>2. MatchesNluEntity(k[x], q)
    BY <2>1, MatchesAlike
  <2> QED BY <2>1, <2>2
<1>5. SelectInSeq(k, LAMBDA n : MatchesNluEntity(n, q)) = IF I # {} THEN Min(I) ELSE 0
  BY DEF SelectInSeq, Scored
<1> HIDE DEF I, J
<1>6. i \in I /\ \A x \in I : i <= x
  BY <1>2, <1>4, FirstPosition
<1>7. i \in 1 .. m
  BY <1>6 DEF I
<1>8. \A j \in J : pos[i] <= j
  <2> SUFFICES ASSUME NEW j \in J PROVE pos[i] <= j
    OBVIOUS
  <2>1. PICK x \in I : pos[x] = j
    BY <1>4
  <2>2. x \in 1 .. m /\ i <= x
    BY <1>6, <2>1 DEF I
  <2>3. pos[i] \in Nat /\ pos[x] \in Nat
    BY <1>2, <1>3, <1>6, <2>1
  <2>4. i < x => pos[i] < pos[x]
    BY <1>7, <2>2 DEF Scored
  <2> HIDE DEF i
  <2>5. i = x \/ i < x
    BY <1>1, <1>7, <2>2
  <2> QED BY <2>1, <2>3, <2>4, <2>5
<1>9. Min(J) = pos[i]
  <2>1. Min(J) \in J /\ \A y \in J : Min(J) <= y
    BY <1>2, FirstPosition
  <2>2. pos[i] \in J
    BY <1>3, <1>6
  <2>3. pos[i] \in Nat /\ Min(J) \in Nat /\ pos[i] <= Min(J) /\ Min(J) <= pos[i]
    BY <1>2, <1>8, <2>1, <2>2
  <2> HIDE DEF i
  <2> QED BY <2>3
<1>10. First(q) = pos[i]
  BY <1>9 DEF First, J
<1> DEFINE n == E[pos[i]]
<1>11. k[i].score = n.confidence * Weight[n.entity] /\ Knows(pos[i]) /\ pos[i] \in DOMAIN E
  BY <1>7 DEF Scored
<1>12. n.confidence \in Int /\ Weight[n.entity] \in Int /\ Penalty \in Int /\ Whole \in Int
  <2>1. n \in ToSet(event.entities)
    BY <1>11 DEF ToSet
  <2>2. n.confidence \in Int
    BY <2>1, MatchAssumption
  <2>3. Weight[n.entity] \in Int
    BY <1>11, MatchAssumption DEF Knows
  <2> QED BY <2>2, <2>3, MatchAssumption
<1>13. Part(q) = k[i].score * (IF q.match = "entity" THEN Penalty ELSE Whole)
  BY <1>10, <1>11 DEF Part
<1>14. k[i].score \in Int
  BY <1>11, <1>12
<1>15. Part(q) \in Int
  BY <1>12, <1>13, <1>14
<1>16. PatternScore(k[i], q) = Part(q)
  BY <1>13 DEF PatternScore
<1>17. i # 0 /\ SelectInSeq(k, LAMBDA x : MatchesNluEntity(x, q)) = i
  BY <1>1, <1>5, <1>6, <1>7
<1> QED BY <1>15, <1>16, <1>17

\* The score of a list of patterns is its total in the prediction.
LEMMA ScoreIsTotal ==
  ASSUME event \in Events, NEW b \in BlockSet, NEW p \in MatchedLists(b),
         NEW k, NEW m, NEW pos, Scored(k, m, pos)
  PROVE  NluPatternMatchScore(p, k) = Total(p) /\ Total(p) \in Int
<1> DEFINE s == p.all
           n == Len(s)
           v == [x \in 1 .. n |-> Part(s[x])]
           At(q) == SelectInSeq(k, LAMBDA y : MatchesNluEntity(y, q))
           Fold(g) == [d \in SUBSET (1 .. n) |->
                         IF d = {} THEN 0 ELSE g[d \ {Max(d)}] + v[Max(d)]]
           Told(g) == [d \in SUBSET DOMAIN s |->
                         IF d = {} THEN 0
                         ELSE IF At(s[Max(d)]) = 0 THEN g[d \ {Max(d)}]
                              ELSE g[d \ {Max(d)}] + PatternScore(k[At(s[Max(d)])], s[Max(d)])]
<1>1. s \in Seq(ToSet(s))
  <2>1. p \in ToSet(b.patterns) /\ p.kind = "nlp"
    BY DEF MatchedLists, PatternsOf
  <2> QED BY <2>1, MatchAssumption
<1>2. DOMAIN s = 1 .. n /\ n \in Nat
  BY <1>1
<1>3. \A x \in 1 .. n : /\ At(s[x]) # 0
                         /\ PatternScore(k[At(s[x])], s[x]) = Part(s[x])
                         /\ Part(s[x]) \in Int
  <2> SUFFICES ASSUME NEW x \in 1 .. n
               PROVE  \E j \in DOMAIN event.entities :
                        Knows(j) /\ MatchesNluEntity(event.entities[j], s[x])
    BY FirstFound
  <2>1. s[x] \in ToSet(s)
    BY <1>2 DEF ToSet
  <2> QED BY <2>1 DEF MatchedLists, Knows
<1>4. NluPatternMatchScore(p, k) = (CHOOSE g : g = Told(g))[DOMAIN s]
  BY Zenon DEF NluPatternMatchScore, FoldLeft, MapThenFoldSet
<1>5. Summed(v, n) = (CHOOSE g : g = Fold(g))[1 .. n]
  BY Zenon DEF Summed
<1> HIDE DEF At
<1>6. \A g : Told(g) = Fold(g)
  <2>1. ASSUME NEW d \in SUBSET (1 .. n), d # {}
        PROVE  /\ At(s[Max(d)]) # 0
               /\ PatternScore(k[At(s[Max(d)])], s[Max(d)]) = v[Max(d)]
    <3>1. Max(d) \in d
      BY <1>2, <2>1, LastPosition
    <3> QED BY <1>3, <3>1
  <2> HIDE DEF v, s, n
  <2> QED BY <1>2, <2>1
<1>7. (CHOOSE g : g = Told(g)) = (CHOOSE g : g = Fold(g))
  <2> HIDE DEF Told, Fold
  <2> QED BY Zenon, <1>6
<1> HIDE DEF Told, Fold
<1>8. Total(p) = Summed(v, n)
  BY <1>1, TotalIsSum
<1>9. v \in [1 .. n -> Int]
  BY <1>3
<1>10. Summed(v, n) \in Int
  <2> HIDE DEF v, n
  <2> QED BY <1>2, <1>9, SummedIsNumber
<1> HIDE DEF v, n, s
<1> QED BY <1>2, <1>4, <1>5, <1>7, <1>8, <1>10

\* The score of a block: of its matching lists the largest total, or 0.
LEMMA ScoreOfBlock ==
  ASSUME event \in Events, NEW b \in BlockSet
  PROVE  LET N == NluScore(b, ScoredEntities(event.entities)) IN
           /\ N \in Nat
           /\ \A p \in MatchedLists(b) : Total(p) \in Int /\ Total(p) <= N
           /\ N > 0 => \E p \in MatchedLists(b) : Total(p) = N
<1> DEFINE k == ScoredEntities(event.entities)
           S == {0} \cup {Total(p) : p \in MatchedLists(b)}
<1>1. PICK m, pos : Scored(k, m, pos)
  BY EntitiesScored
<1> HIDE DEF k
<1>2. MatchingNluPatterns(k, b) = MatchedLists(b)
  BY <1>1, SameLists
<1>3. \A p \in MatchedLists(b) : NluPatternMatchScore(p, k) = Total(p) /\ Total(p) \in Int
  BY <1>1, ScoreIsTotal
<1>4. NluScore(b, k) = Max(S)
  <2>1. {NluPatternMatchScore(p, k) : p \in MatchedLists(b)} = {Total(p) : p \in MatchedLists(b)}
    BY <1>3
  <2> QED BY <1>2, <2>1 DEF NluScore
<1>5. IsFiniteSet(MatchedLists(b))
  <2>1. IsFiniteSet(ToSet(b.patterns))
    BY MatchAssumption, FinitelyMany
  <2>2. MatchedLists(b) \subseteq ToSet(b.patterns)
    BY DEF MatchedLists, PatternsOf
  <2> QED BY <2>1, <2>2, FS_Subset
<1> DEFINE T == {Total(p) : p \in MatchedLists(b)}
<1>6. IsFiniteSet(T)
  <2> DEFINE f == [p \in MatchedLists(b) |-> Total(p)]
  <2>1. f \in Surjection(MatchedLists(b), T)
    BY DEF Surjection
  <2> HIDE DEF f, T
  <2> QED BY <1>5, <2>1, FS_Surjection
<1>7. IsFiniteSet(S) /\ S \subseteq Int /\ S # {}
  <2>1. S = T \cup {0} /\ S \subseteq Int /\ S # {}
    BY <1>3
  <2> HIDE DEF S, T
  <2> QED BY <1>6, <2>1, FS_AddElement
<1>8. Max(S) \in S /\ \A y \in S : Max(S) >= y
  <2> HIDE DEF S
  <2> QED BY <1>7, Largest
<1> DEFINE N == Max(S)
<1>9. N \in S /\ N \in Int /\ N >= 0 /\ \A p \in MatchedLists(b) : N >= Total(p)
  BY <1>7, <1>8
<1> HIDE DEF N
<1>10. N > 0 => \E p \in MatchedLists(b) : Total(p) = N
  BY <1>9
<1>11. NluScore(b, ScoredEntities(event.entities)) = N
  BY <1>4 DEF N, k
<1> QED BY <1>3, <1>9, <1>10, <1>11

\* The fold of MatchBestNLP, block by block.
Better(best, b, k) ==
  IF NluScore(b, k) > (IF best = NoBlock THEN 0 ELSE NluScore(best, k)) THEN b ELSE best

LEMMA BestSteps ==
  ASSUME NEW s \in Seq(BlockSet), NEW k
  PROVE  \E t : /\ t[0] = NoBlock
                /\ \A i \in 1 .. Len(s) : t[i] = Better(t[i - 1], s[i], k)
                /\ MatchBestNLP(s, k) = t[Len(s)]
<1> DEFINE Fold(g) == [d \in SUBSET DOMAIN s |->
                         IF d = {} THEN NoBlock ELSE Better(g[d \ {Max(d)}], s[Max(d)], k)]
           T == BlockSet \cup {NoBlock}
           h == [x \in T \X BlockSet |-> Better(x[1], x[2], k)]
           G == CHOOSE g : g = Fold(g)
<1>1. MatchBestNLP(s, k) = G[DOMAIN s]
  BY Zenon DEF MatchBestNLP, Better, FoldLeft, MapThenFoldSet
<1>2. G = Fold(G)
  <2>1. \A x \in T, y \in BlockSet : Better(x, y, k) \in T
    BY DEF Better
  <2>2. h \in [T \X BlockSet -> T] /\ \A x \in T, y \in BlockSet : h[<<x, y>>] = Better(x, y, k)
    BY <2>1
  <2>3. NoBlock \in T
    OBVIOUS
  <2> HIDE DEF h, T
  <2>4. PICK g \in [SUBSET DOMAIN s -> T] : Folding(g, h, NoBlock, s)
    BY <2>2, <2>3, FoldExists
  <2>5. ASSUME NEW d \in SUBSET DOMAIN s, d # {}
        PROVE  s[Max(d)] \in BlockSet /\ g[d \ {Max(d)}] \in T
    <3>1. Len(s) \in Nat /\ d \subseteq 1 .. Len(s)
      OBVIOUS
    <3>2. Max(d) \in d
      BY <2>5, <3>1, LastPosition
    <3> QED BY <2>4, <3>1, <3>2
  <2>6. \A d \in SUBSET DOMAIN s : g[d] = Fold(g)[d]
    BY <2>2, <2>4, <2>5 DEF Folding
  <2>7. g = Fold(g)
    BY <2>4, <2>6
  <2> HIDE DEF Fold
  <2> QED BY <2>7
<1> HIDE DEF G
<1>3. DOMAIN s = 1 .. Len(s) /\ Len(s) \in Nat
  OBVIOUS
<1> DEFINE t == [i \in 0 .. Len(s) |-> G[1 .. i]]
<1>4. t[0] = NoBlock
  <2>1. 1 .. 0 = {} /\ {} \in SUBSET DOMAIN s
    OBVIOUS
  <2>2. G[{}] = NoBlock
    BY <1>2, <2>1
  <2> QED BY <1>3, <2>1, <2>2
<1>5. ASSUME NEW i \in 1 .. Len(s)
      PROVE  t[i] = Better(t[i - 1], s[i], k)
  <2>1. /\ 1 .. i \in SUBSET DOMAIN s /\ 1 .. i # {}
        /\ Max(1 .. i) = i /\ (1 .. i) \ {i} = 1 .. (i - 1)
    BY <1>3, LeftToRight
  <2>2. G[1 .. i] = Better(G[1 .. (i - 1)], s[i], k)
    BY <1>2, <2>1
  <2>3. t[i] = G[1 .. i] /\ t[i - 1] = G[1 .. (i - 1)]
    BY <1>3
  <2> HIDE DEF t
  <2> QED BY <2>2, <2>3
<1>6. MatchBestNLP(s, k) = t[Len(s)]
  BY <1>1, <1>3
<1> HIDE DEF t
<1> QED BY <1>4, <1>5, <1>6

\* A block of the highest score, if any has a positive one.
LEMMA BestOf ==
  ASSUME NEW s \in Seq(BlockSet), NEW k,
         \A b \in BlockSet : NluScore(b, k) \in Nat
  PROVE  LET best == MatchBestNLP(s, k) IN
           IF best = NoBlock
           THEN \A b \in ToSet(s) : NluScore(b, k) = 0
           ELSE /\ best \in ToSet(s) /\ NluScore(best, k) > 0
                /\ \A b \in ToSet(s) : NluScore(b, k) <= NluScore(best, k)
<1> DEFINE N(b) == NluScore(b, k)
           Best(x, n) == IF x = NoBlock
                         THEN \A i \in 1 .. n : N(s[i]) = 0
                         ELSE /\ x \in ToSet(s) /\ N(x) > 0
                              /\ \A i \in 1 .. n : N(s[i]) <= N(x)
<1>1. PICK t : /\ t[0] = NoBlock
               /\ \A i \in 1 .. Len(s) : t[i] = Better(t[i - 1], s[i], k)
               /\ MatchBestNLP(s, k) = t[Len(s)]
  BY BestSteps
<1> DEFINE A == {n \in Nat : n <= Len(s) => Best(t[n], n)}
<1>2. DOMAIN s = 1 .. Len(s) /\ Len(s) \in Nat
  OBVIOUS
<1>3. \A i \in 1 .. Len(s) : s[i] \in ToSet(s) /\ s[i] \in BlockSet /\ N(s[i]) \in Nat
  BY <1>2 DEF ToSet
<1>4. ToSet(s) \subseteq BlockSet /\ NoBlock \notin BlockSet
  BY <1>2, MatchAssumption DEF ToSet
<1>5. 0 \in A
  BY <1>1
<1>6. ASSUME NEW n \in Nat, n \in A PROVE n + 1 \in A
  <2> SUFFICES ASSUME n + 1 <= Len(s) PROVE Best(t[n + 1], n + 1)
    OBVIOUS
  <2>1. n + 1 \in 1 .. Len(s) /\ (n + 1) - 1 = n /\ n <= Len(s)
    BY <1>2
  <2> DEFINE x == t[n]
             y == s[n + 1]
  <2>2. Best(x, n)
    BY <1>6, <2>1
  <2>3. t[n + 1] = IF N(y) > (IF x = NoBlock THEN 0 ELSE N(x)) THEN y ELSE x
    BY <1>1, <2>1 DEF Better
  <2>4. y \in ToSet(s) /\ y # NoBlock /\ N(y) \in Nat
    BY <1>3, <1>4, <2>1
  <2>5. x # NoBlock => N(x) \in Nat
    BY <1>4, <2>2
  <2>6. \A i \in 1 .. n + 1 : i = n + 1 \/ i \in 1 .. n
    OBVIOUS
  <2>7. \A i \in 1 .. n : N(s[i]) \in Nat
    BY <1>3, <2>1
  <2> HIDE DEF N, x
  <2>8. CASE x = NoBlock
    <3>1. CASE N(y) > 0
      <4>1. t[n + 1] = y
        BY <2>3, <2>8, <3>1
      <4>2. \A i \in 1 .. n : N(s[i]) <= N(y)
        BY <2>2, <2>4, <2>8
      <4> QED BY <2>4, <2>6, <3>1, <4>1, <4>2
    <3>2. CASE ~(N(y) > 0)
      <4>1. t[n + 1] = NoBlock /\ N(y) = 0
        BY <2>3, <2>4, <2>8, <3>2
      <4> QED BY <2>2, <2>6, <2>8, <4>1
    <3> QED BY <3>1, <3>2
  <2>9. CASE x # NoBlock
    <3>1. CASE N(y) > N(x)
      <4>1. t[n + 1] = y
        BY <2>3, <2>9, <3>1
      <4>2. \A i \in 1 .. n : N(s[i]) <= N(y)
        BY <2>2, <2>4, <2>5, <2>7, <2>9, <3>1
      <4>3. N(y) > 0 /\ N(y) <= N(y)
        BY <2>2, <2>4, <2>5, <2>9, <3>1
      <4> QED BY <2>4, <2>6, <4>1, <4>2, <4>3
    <3>2. CASE ~(N(y) > N(x))
      <4>1. t[n + 1] = x /\ N(y) <= N(x)
        BY <2>3, <2>4, <2>5, <2>9, <3>2
      <4> QED BY <2>2, <2>6, <2>9, <4>1
    <3> QED BY <3>1, <3>2
  <2> QED BY <2>8, <2>9
<1> HIDE DEF A
<1>7. Len(s) \in A
  BY <1>2, <1>5, <1>6, Counting
<1>8. Best(t[Len(s)], Len(s))
  BY <1>7 DEF A
<1>9. \A b \in ToSet(s) : \E i \in 1 .. Len(s) : b = s[i]
  BY <1>2 DEF ToSet
<1> QED BY <1>1, <1>8, <1>9

\* Of blocks that are not named, the answer is one whose predicted entities
\* weigh the most, and there is one as soon as a matching list of patterns of
\* any block has a positive score (BestPredictionAnswers), for any patterns,
\* weights and predictions.
THEOREM BestPredictionWins == Spec => []BestPredictionAnswers
<1>1. MatchInv => BestPredictionAnswers
  <2> DEFINE lists == UNION {{b} \X {p \in MatchedLists(b) : Total(p) > 0} : b \in Audience}
             k == ScoredEntities(event.entities)
             N(b) == NluScore(b, k)
  <2> SUFFICES ASSUME MatchInv, Matching, Named = {}
               PROVE  IF lists = {} THEN answer = NoBlock
                      ELSE \E x \in lists : /\ x[1] = answer
                                            /\ \A y \in lists : Total(y[2]) <= Total(x[2])
    BY DEF BestPredictionAnswers
  <2>1. event \in Events /\ answer = Match(blocks, event, multiple)
    BY DEF MatchInv
  <2>2. answer = MatchBestNLP(Line(blocks, event), k)
    <3>1. ByPayload = {} /\ ByText = {}
      BY DEF Named
    <3>2. /\ ~(event.payload # NoPayload /\ ByPayloadInLine # <<>>)
          /\ ~(event.text # NoText /\ ByTextInLine # <<>>)
      BY <3>1, NamedInLine, NothingInNone
    <3> QED BY <2>1, <3>2, MatchByCases
  <2>3. Line(blocks, event) \in Seq(BlockSet) /\ ToSet(Line(blocks, event)) = Audience
    BY AudienceInLine
  <2>4. ASSUME NEW b \in BlockSet
        PROVE  /\ N(b) \in Nat
               /\ \A p \in MatchedLists(b) : Total(p) \in Int /\ Total(p) <= N(b)
               /\ N(b) > 0 => \E p \in MatchedLists(b) : Total(p) = N(b)
    BY <2>1, ScoreOfBlock
  <2>5. Audience \subseteq BlockSet
    BY <2>3 DEF ToSet
  <2> HIDE DEF k
  <2>6. IF answer = NoBlock
        THEN \A b \in Audience : N(b) = 0
        ELSE /\ answer \in Audience /\ N(answer) > 0
             /\ \A b \in Audience : N(b) <= N(answer)
    BY <2>2, <2>3, <2>4, BestOf
  <2>7. \A y : y \in lists <=> /\ y = <<y[1], y[2]>> /\ y[1] \in Audience
                              /\ y[2] \in MatchedLists(y[1]) /\ Total(y[2]) > 0
    OBVIOUS
  <2> HIDE DEF N, lists
  <2>8. CASE answer = NoBlock
    <3>1. ASSUME NEW y \in lists PROVE FALSE
      <4>1. y[1] \in Audience /\ y[2] \in MatchedLists(y[1]) /\ Total(y[2]) > 0
        BY <2>7
      <4>2. Total(y[2]) \in Int /\ Total(y[2]) <= N(y[1]) /\ N(y[1]) = 0
        BY <2>4, <2>5, <2>6, <2>8, <4>1
      <4> QED BY <4>1, <4>2
    <3> QED BY <2>8, <3>1
  <2>9. CASE answer # NoBlock
    <3>1. answer \in Audience /\ answer \in BlockSet /\ N(answer) > 0
      BY <2>5, <2>6, <2>9
    <3>2. PICK p \in MatchedLists(answer) : Total(p) = N(answer)
      BY <2>4, <3>1
    <3>3. <<answer, p>> \in lists
      BY <2>7, <3>1, <3>2
    <3>4. ASSUME NEW y \in lists PROVE Total(y[2]) <= Total(p)
      <4>1. y[1] \in Audience /\ y[2] \in MatchedLists(y[1])
        BY <2>7
      <4>2. y[1] \in BlockSet /\ N(y[1]) <= N(answer)
        BY <2>5, <2>6, <2>9, <4>1
      <4>3. Total(y[2]) \in Int /\ Total(y[2]) <= N(y[1]) /\ N(y[1]) \in Nat
        BY <2>4, <4>1, <4>2
      <4>4. N(answer) \in Nat
        BY <2>4, <3>1
      <4> QED BY <3>2, <4>2, <4>3, <4>4
    <3> QED BY <3>3, <3>4
  <2> QED BY <2>8, <2>9
<1> QED BY <1>1, MatchAlways, PTL

-----------------------------------------------------------------------------
(* The cache that the weights are read through: the NLP map, from which    *)
(* match() takes them, is a cached read.  A deletion of the key accounts   *)
(* for every read that has queried before it, so what remains is the last  *)
(* deletion of a write.                                                    *)

USE CacheAssumption

\* Why a version that a read or the cache holds may not be the last one.
Excused == lost \/ \E w \in Writers : Outstanding(w)

\* The reads about to store, as the cache itself: old only if overtaken or excused.
ReadsStaleOnlyIfRaced ==
  \A r \in Readers : rpc[r] = "set" /\ got[r] # version => r \in overtaken \/ Excused

-----------------------------------------------------------------------------

\* All variables of a read-through cache stay within their types: what is
\* stored is a version that was queried, and deletions are counted from 0.
THEOREM CacheTypeCorrect == CacheSpec => []CacheTypeOK
<1>1. ASSUME CacheInit PROVE CacheTypeOK
  <2>1. late \in BOOLEAN /\ lost \in BOOLEAN
    BY <1>1, Zenon DEF CacheInit
  <2>2. /\ rpc \in [Readers -> {"idle", "query", "set"}]
        /\ got \in [Readers -> Nat]
        /\ wpc \in [Writers -> {"idle", "write", "done"} \cup Hooked]
        /\ pending \in [Writers -> Nat]
    BY <1>1 DEF CacheInit
  <2> QED BY <1>1, <2>1, <2>2 DEF CacheInit, CacheTypeOK
<1>2. CacheTypeOK /\ [CacheNext]_cacheVars => CacheTypeOK'
  <2> SUFFICES ASSUME CacheTypeOK, [CacheNext]_cacheVars PROVE CacheTypeOK'
    OBVIOUS
  <2> USE DEF CacheTypeOK, reads, writes, Delete, Skip
  <2>1. ASSUME NEW r \in Readers, Get(r) PROVE CacheTypeOK'
    BY <2>1 DEF Get
  <2>2. ASSUME NEW r \in Readers, Query(r) PROVE CacheTypeOK'
    BY <2>2 DEF Query
  <2>3. ASSUME NEW r \in Readers, Set(r) PROVE CacheTypeOK'
    <3>0. (r \in overtaken) \in BOOLEAN
      OBVIOUS
    <3>1. late' \in BOOLEAN
      BY <2>3, <3>0, Zenon DEF Set
    <3>2. rpc' \in [Readers -> {"idle", "query", "set"}] /\ got' \in [Readers -> Nat]
      BY <2>3 DEF Set
    <3>3. entry' \in Nat \cup {NoEntry} /\ overtaken' \in SUBSET Readers
      BY <2>3 DEF Set
    <3> QED BY <2>3, <3>1, <3>2, <3>3 DEF Set, writes
  <2>4. ASSUME NEW w \in Writers, StartWrite(w) PROVE CacheTypeOK'
    BY <2>4 DEF StartWrite, Hooked
  <2>5. ASSUME NEW w \in Writers, Clear(w) PROVE CacheTypeOK'
    <3>1. AfterHook[wpc[w]] \in {"idle", "write", "done"} \cup Hooked
      BY <2>5 DEF Clear, Hooked, AfterHook
    <3>2. wpc' \in [Writers -> {"idle", "write", "done"} \cup Hooked]
      BY <2>5, <3>1 DEF Clear
    <3>3. pending' \in [Writers -> Nat]
      BY <2>5 DEF Clear
    <3>4. entry' \in Nat \cup {NoEntry} /\ overtaken' \in SUBSET Readers /\ late' \in BOOLEAN
      BY <2>5 DEF Clear
    <3>5. lost' \in BOOLEAN
      BY <2>5 DEF Clear
    <3> QED BY <2>5, <3>2, <3>3, <3>4, <3>5 DEF Clear
  <2>6. ASSUME NEW w \in Writers, Write(w) PROVE CacheTypeOK'
    BY <2>6 DEF Write, Hooked
  <2>7. ASSUME NEW w \in Writers, Arrive(w) PROVE CacheTypeOK'
    <3>1. lost' \in BOOLEAN
      BY <2>7, Zenon DEF Arrive
    <3>2. pending' \in [Writers -> Nat]
      BY <2>7 DEF Arrive
    <3>3. entry' \in Nat \cup {NoEntry} /\ overtaken' \in SUBSET Readers /\ late' \in BOOLEAN
      BY <2>7 DEF Arrive
    <3> QED BY <2>7, <3>1, <3>2, <3>3 DEF Arrive
  <2>8. ASSUME Expire PROVE CacheTypeOK'
    BY <2>8 DEF Expire
  <2>9. ASSUME Crash PROVE CacheTypeOK'
    <3>1. lost' \in BOOLEAN
      BY <2>9, Zenon DEF Crash
    <3>2. rpc' \in [Readers -> {"idle", "query", "set"}] /\ got' \in [Readers -> Nat]
      BY <2>9 DEF Crash
    <3>3. wpc' \in [Writers -> {"idle", "write", "done"} \cup Hooked]
          /\ pending' \in [Writers -> Nat]
      BY <2>9 DEF Crash
    <3>4. entry' \in Nat \cup {NoEntry} /\ overtaken' \in SUBSET Readers /\ late' \in BOOLEAN
      BY <2>9 DEF Crash
    <3> QED BY <2>9, <3>1, <3>2, <3>3, <3>4 DEF Crash
  <2>10. CASE UNCHANGED cacheVars
    BY <2>10 DEF cacheVars
  <2> QED BY <2>1, <2>2, <2>3, <2>4, <2>5, <2>6, <2>7, <2>8, <2>9, <2>10
          DEF CacheNext, ReaderStep, WriterStep
<1> QED BY <1>1, <1>2, PTL DEF CacheSpec

-----------------------------------------------------------------------------
(* The writes: what makes a version old stays accounted for.               *)

\* A step of a write that deletes nothing leaves every excuse there is.
LEMMA ExcuseStays ==
  ASSUME CacheTypeOK, Excused, [CacheNext]_cacheVars,
         NEW w \in Writers, Clear(w) \/ Write(w) \/ Arrive(w)
                            \/ StartWrite(w)
  PROVE  Excused' \/ Delete
<1>1. ASSUME NEW v \in Writers, v # w PROVE Outstanding(v) <=> Outstanding(v)'
  BY <1>1 DEF CacheTypeOK, Clear, Write, Arrive, StartWrite,
              Outstanding, writes
<1>2. lost => lost' \/ Delete
  BY DEF Clear, Write, Arrive, StartWrite, Skip, writes
<1>3. Outstanding(w) => lost' \/ Outstanding(w)' \/ Delete
  <2>1. CASE Clear(w)
    <3>1. Outstanding(w) => wpc[w] = "post"
      BY <2>1 DEF Clear, Outstanding, Hooked
    <3>2. CASE wpc[w] = "post"
      <4>1. wpc'[w] = "done"
        BY <2>1, <3>2 DEF Clear, AfterHook, CacheTypeOK
      <4>2. CASE mode.clearing = "awaited"
        BY <2>1, <3>2, <4>2, Zenon DEF Clear, Skip
      <4>3. CASE mode.clearing = "detached"
        <5>1. pending'[w] = pending[w] + 1 /\ pending[w] \in Nat
          BY <2>1, <4>3 DEF Clear, CacheTypeOK
        <5> QED BY <4>1, <5>1 DEF Outstanding
      <4>4. CASE mode.clearing = "never"
        BY <2>1, <3>2, <4>4, Zenon DEF Clear, Skip
      <4> QED BY <2>1, <4>2, <4>3, <4>4 DEF Clear
    <3> QED BY <3>1, <3>2
  <2>2. CASE Write(w)
    BY <2>2 DEF Write, Outstanding, CacheTypeOK
  <2>3. CASE Arrive(w)
    BY <2>3 DEF Arrive, Outstanding, Skip, CacheTypeOK
  <2>4. CASE StartWrite(w)
    BY <2>4 DEF StartWrite, Outstanding, CacheTypeOK
  <2> QED BY <2>1, <2>2, <2>3, <2>4
<1> QED BY <1>1, <1>2, <1>3 DEF Excused

LEMMA RacesStep ==
  ASSUME CacheTypeOK, StaleOnlyIfRaced, ReadsStaleOnlyIfRaced,
         [CacheNext]_cacheVars
  PROVE  StaleOnlyIfRaced' /\ ReadsStaleOnlyIfRaced'
<1> USE DEF CacheTypeOK
<1>a. StaleOnlyIfRaced <=> (entry # NoEntry /\ entry # version => late \/ Excused)
  BY DEF StaleOnlyIfRaced, Excused
<1>b. StaleOnlyIfRaced' <=> (entry' # NoEntry /\ entry' # version' => late' \/ Excused')
  BY DEF StaleOnlyIfRaced, Excused
<1>c. UNCHANGED <<lost, wpc, pending>> => (Excused <=> Excused')
  BY DEF Excused, Outstanding
<1>1. ASSUME NEW r \in Readers, Get(r)
      PROVE  StaleOnlyIfRaced' /\ ReadsStaleOnlyIfRaced'
  BY <1>1, <1>a, <1>b, <1>c DEF Get, ReadsStaleOnlyIfRaced, writes
<1>2. ASSUME NEW r \in Readers, Query(r)
      PROVE  StaleOnlyIfRaced' /\ ReadsStaleOnlyIfRaced'
  BY <1>2, <1>a, <1>b, <1>c DEF Query, ReadsStaleOnlyIfRaced, writes
<1>3. ASSUME NEW r \in Readers, Set(r)
      PROVE  StaleOnlyIfRaced' /\ ReadsStaleOnlyIfRaced'
  BY <1>3, <1>a, <1>b, <1>c DEF Set, ReadsStaleOnlyIfRaced, writes
<1>4. ASSUME Expire PROVE StaleOnlyIfRaced' /\ ReadsStaleOnlyIfRaced'
  BY <1>4, <1>b, <1>c DEF Expire, ReadsStaleOnlyIfRaced, reads, writes
<1>5. ASSUME NEW w \in Writers, StartWrite(w) \/ WriterStep(w) \/ Arrive(w)
      PROVE  StaleOnlyIfRaced' /\ ReadsStaleOnlyIfRaced'
  <2>1. CASE Delete
    BY <1>5, <2>1, <1>b DEF Delete, ReadsStaleOnlyIfRaced, StartWrite,
                            WriterStep, Clear, Write,
                            Arrive, reads
  <2>2. CASE ~Delete
    <3>1. Excused => Excused'
      BY <1>5, <2>2, ExcuseStays DEF WriterStep
    <3>2. UNCHANGED <<entry, late, overtaken, rpc, got>>
      BY <1>5, <2>2 DEF StartWrite, WriterStep, Clear, Write,
                        Arrive, Skip, reads
    <3>3. CASE version' = version
      BY <3>1, <3>2, <3>3, <1>a, <1>b DEF ReadsStaleOnlyIfRaced
    <3>4. CASE version' # version
      <4>1. Write(w) /\ wpc' = [wpc EXCEPT ![w] = "post"]
        BY <1>5, <3>4 DEF StartWrite, WriterStep, Clear, Write,
                          Arrive
      <4>2. Outstanding(w)'
        BY <4>1 DEF Outstanding
      <4> QED BY <4>2, <1>b DEF ReadsStaleOnlyIfRaced, Excused
    <3> QED BY <3>3, <3>4
  <2> QED BY <2>1, <2>2
<1>6. ASSUME Crash PROVE StaleOnlyIfRaced' /\ ReadsStaleOnlyIfRaced'
  <2>1. Excused => lost'
    BY <1>6 DEF Crash, Excused
  <2>2. Excused => Excused'
    BY <2>1 DEF Excused
  <2>3. StaleOnlyIfRaced'
    BY <1>6, <2>2, <1>a, <1>b DEF Crash
  <2>4. ReadsStaleOnlyIfRaced'
    <3> SUFFICES ASSUME NEW r \in Readers, rpc'[r] = "set", got'[r] # version'
                 PROVE  r \in overtaken' \/ Excused'
      BY DEF ReadsStaleOnlyIfRaced
    <3>1. PICK stopped \in SUBSET Readers :
            /\ rpc' = [q \in Readers |-> IF q \in stopped THEN "idle" ELSE rpc[q]]
            /\ got' = [q \in Readers |-> IF q \in stopped THEN 0 ELSE got[q]]
            /\ overtaken' = overtaken \ stopped
      BY <1>6 DEF Crash
    <3>2. r \notin stopped /\ rpc[r] = "set" /\ got[r] # version
      BY <1>6, <3>1 DEF Crash
    <3> QED BY <3>1, <3>2, <2>2 DEF ReadsStaleOnlyIfRaced
  <2> QED BY <2>3, <2>4
<1>7. CASE UNCHANGED cacheVars
  BY <1>7, <1>a, <1>b, <1>c DEF cacheVars, reads, writes, ReadsStaleOnlyIfRaced
<1> QED BY <1>1, <1>2, <1>3, <1>4, <1>5, <1>6, <1>7 DEF CacheNext, ReaderStep

\* What is cached differs from the database only until the last deletion of a
\* write, when that one was lost, or when a deletion overtook the read that
\* stored it (Cacheable, the listeners that delete its keys).
THEOREM OnlyRacesAreStale == CacheSpec => []StaleOnlyIfRaced
<1>1. CacheInit => StaleOnlyIfRaced /\ ReadsStaleOnlyIfRaced
  <2>1. CacheInit => StaleOnlyIfRaced
    BY DEF CacheInit, StaleOnlyIfRaced
  <2>2. CacheInit => ReadsStaleOnlyIfRaced
    BY DEF CacheInit, ReadsStaleOnlyIfRaced
  <2> QED BY <2>1, <2>2
<1>2. CacheTypeOK /\ StaleOnlyIfRaced /\ ReadsStaleOnlyIfRaced /\ [CacheNext]_cacheVars
        => (StaleOnlyIfRaced /\ ReadsStaleOnlyIfRaced)'
  BY RacesStep
<1> QED BY <1>1, <1>2, CacheTypeCorrect, PTL DEF CacheSpec

=============================================================================
