--------------------------- MODULE AnalyticsProofs ---------------------------
(***************************************************************************)
(* Theorems about Analytics, for all thresholds, silences and numbers of   *)
(* messages, whatever is handled at once and whatever fails: no insight    *)
(* counts more than there was to count; one of which no two entries        *)
(* crossed counts each of them, unless something fails; no silence longer  *)
(* than RetentionReset lies within the retention of a subscriber; and a    *)
(* sender who comes back after a silence is counted as returning.          *)
(*                                                                         *)
(* What an insight counts is a fold over a sequence, and what is underway  *)
(* a fold over a set: the first part is about sums.                        *)
(***************************************************************************)
EXTENDS Analytics, FiniteSetTheorems, TLAPS

-----------------------------------------------------------------------------
(* Sums.                                                                   *)

\* Induction, without an operator for what is shown: a set that holds 0 and
\* successors holds all numbers.
LEMMA Counting ==
  ASSUME NEW A, 0 \in A, \A n \in Nat : n \in A => n + 1 \in A
  PROVE  Nat \subseteq A
<1> DEFINE R == OpToRel(<, Nat)
           T == Nat \ A
<1>1. IsWellFoundedOn(R, Nat)
  BY Zenon, NatLessThanWellFounded
<1>2. \A x, y \in Nat : y < x => <<y, x>> \in R
  BY DEF OpToRel
<1> HIDE DEF R
<1>3. CASE T # {}
  <2>1. PICK x \in T : \A y \in T : <<y, x>> \notin R
    <3>1. T \subseteq Nat
      OBVIOUS
    <3> HIDE DEF T
    <3> QED BY <1>1, <1>3, <3>1, WFMin
  <2>2. x # 0 /\ x - 1 \in Nat /\ x - 1 < x
    OBVIOUS
  <2>3. x - 1 \notin A
    <3>1. (x - 1) + 1 = x
      BY <2>2
    <3> QED BY <2>2, <3>1
  <2> QED BY <1>2, <2>1, <2>2, <2>3
<1> QED BY <1>3

\* A family that holds the empty set and grows by elements holds all subsets.
LEMMA Collecting ==
  ASSUME NEW S, IsFiniteSet(S), NEW F, {} \in F,
         \A T \in SUBSET S, x \in S : T \in F /\ x \notin T => T \cup {x} \in F
  PROVE  S \in F
<1> DEFINE A == {n \in Nat : \A T \in SUBSET S : Cardinality(T) = n => T \in F}
<1>1. \A T \in SUBSET S : IsFiniteSet(T) /\ Cardinality(T) \in Nat
  BY FS_Subset, FS_CardinalityType
<1>2. 0 \in A
  BY <1>1, FS_EmptySet
<1>3. ASSUME NEW n \in Nat, n \in A PROVE n + 1 \in A
  <2> SUFFICES ASSUME NEW T \in SUBSET S, Cardinality(T) = n + 1 PROVE T \in F
    OBVIOUS
  <2>1. PICK x \in T : TRUE
    BY <1>1, FS_EmptySet
  <2>2. Cardinality(T \ {x}) = n
    <3>1. Cardinality(T \ {x}) = Cardinality(T) - 1
      BY <1>1, <2>1, FS_RemoveElement
    <3> QED BY <3>1
  <2>3. T \ {x} \in F
    BY <1>3, <2>2
  <2>4. T = (T \ {x}) \cup {x}
    BY <2>1
  <2> QED BY <2>1, <2>3, <2>4
<1> HIDE DEF A
<1>4. Nat \subseteq A
  BY <1>2, <1>3, Counting
<1> QED BY <1>1, <1>4 DEF A

\* The element that FoldSeq and MapThenSumSet take first, and what they sum up.
Some(s) == CHOOSE x \in s : TRUE

Folded(f, S, g) == [s \in SUBSET S |-> IF s = {} THEN 0 ELSE f[Some(s)] + g[s \ {Some(s)}]]

SumOf(f, S) == (CHOOSE g : g = Folded(f, S, g))[S]

LEMMA SeqSum == \A seq : FoldSeq(+, 0, seq) = SumOf(seq, DOMAIN seq)
BY Zenon DEF FoldSeq, FoldFunction, FoldFunctionOnSet, MapThenFoldSet, SumOf, Folded, Some

LEMMA SetSum == \A f, S : MapThenSumSet(LAMBDA x : f[x], S) = SumOf(f, S)
BY Zenon DEF MapThenSumSet, MapThenFoldSet, SumOf, Folded, Some

\* The function that FoldSeq and MapThenSumSet choose exists.
LEMMA FoldExists ==
  ASSUME NEW S, IsFiniteSet(S), NEW f, \A x \in S : f[x] \in Nat
  PROVE  \E g \in [SUBSET S -> Nat] : g = Folded(f, S, g)
<1> DEFINE Right(g, n) ==
             \A s \in SUBSET S : Cardinality(s) <= n =>
               g[s] = IF s = {} THEN 0 ELSE f[Some(s)] + g[s \ {Some(s)}]
           A == {n \in Nat : \E g \in [SUBSET S -> Nat] : Right(g, n)}
<1>1. /\ IsFiniteSet(S)
      /\ \A s \in SUBSET S : /\ IsFiniteSet(s) /\ Cardinality(s) \in Nat
                             /\ Cardinality(s) <= Cardinality(S)
  BY FS_Subset, FS_CardinalityType
<1>2. \A s \in SUBSET S : s # {} =>
        /\ Some(s) \in s /\ f[Some(s)] \in Nat
        /\ s \ {Some(s)} \in SUBSET S
        /\ Cardinality(s \ {Some(s)}) = Cardinality(s) - 1
  BY <1>1, FS_RemoveElement DEF Some
<1>3. \A s \in SUBSET S : Cardinality(s) = 0 <=> s = {}
  BY <1>1, FS_EmptySet
<1>4. 0 \in A
  <2> DEFINE g == [s \in SUBSET S |-> 0]
  <2>1. \A s \in SUBSET S : Cardinality(s) <= 0 => s = {}
    BY <1>1, <1>3
  <2>2. g \in [SUBSET S -> Nat] /\ Right(g, 0)
    BY <2>1
  <2> QED BY <2>2
<1>5. ASSUME NEW n \in Nat, n \in A PROVE n + 1 \in A
  <2>1. PICK g \in [SUBSET S -> Nat] : Right(g, n)
    BY <1>5
  <2> DEFINE h == [s \in SUBSET S |-> IF Cardinality(s) = n + 1
                                      THEN f[Some(s)] + g[s \ {Some(s)}]
                                      ELSE g[s]]
  <2>2. \A s \in SUBSET S : Cardinality(s) = n + 1 => s # {}
    BY <1>3
  <2>3. h \in [SUBSET S -> Nat]
    BY <1>2, <2>2
  <2>4. \A s \in SUBSET S : Cardinality(s) <= n => h[s] = g[s]
    BY <1>1
  <2>5. \A s \in SUBSET S : s # {} /\ Cardinality(s) <= n + 1 => h[s \ {Some(s)}] = g[s \ {Some(s)}]
    BY <1>1, <1>2, <2>4
  <2>6. ASSUME NEW s \in SUBSET S, Cardinality(s) <= n + 1
        PROVE  h[s] = IF s = {} THEN 0 ELSE f[Some(s)] + h[s \ {Some(s)}]
    <3>1. CASE Cardinality(s) = n + 1
      <4>1. h[s] = f[Some(s)] + g[s \ {Some(s)}]
        BY <3>1
      <4> HIDE DEF h
      <4> QED BY <2>2, <2>5, <2>6, <3>1, <4>1
    <3>2. CASE Cardinality(s) <= n
      BY <2>1, <2>4, <2>5, <2>6, <3>2
    <3> QED BY <1>1, <2>6, <3>1, <3>2
  <2> HIDE DEF h
  <2>7. Right(h, n + 1)
    BY <2>6
  <2> QED BY <2>3, <2>7
<1> HIDE DEF A
<1>6. Cardinality(S) \in A
  BY <1>1, <1>4, <1>5, Counting
<1>7. PICK g \in [SUBSET S -> Nat] : Right(g, Cardinality(S))
  BY <1>6 DEF A
<1>8. g = Folded(f, S, g)
  BY <1>1, <1>7 DEF Folded
<1> QED BY <1>8

\* So a sum is that of a folding.
LEMMA SumFolded ==
  ASSUME NEW S, IsFiniteSet(S), NEW f, \A x \in S : f[x] \in Nat
  PROVE  \E g : g = Folded(f, S, g) /\ SumOf(f, S) = g[S]
<1>1. PICK g : g = Folded(f, S, g)
  BY FoldExists
<1> QED BY <1>1 DEF SumOf

\* Any element may be taken out first.
LEMMA FoldRemoves ==
  ASSUME NEW S, IsFiniteSet(S), NEW f, \A x \in S : f[x] \in Nat,
         NEW g, g = Folded(f, S, g)
  PROVE  /\ g[{}] = 0
         /\ \A s \in SUBSET S : g[s] \in Nat
         /\ \A s \in SUBSET S, x \in S : x \in s => g[s] = f[x] + g[s \ {x}]
<1> DEFINE A == {n \in Nat : \A s \in SUBSET S : Cardinality(s) = n =>
                   \A x \in s : g[s] = f[x] + g[s \ {x}]}
<1>0. g[{}] = 0
  BY DEF Folded
<1>1. \A s \in SUBSET S : IsFiniteSet(s) /\ Cardinality(s) \in Nat
  BY FS_Subset, FS_CardinalityType
<1>2. \A s \in SUBSET S : s # {} => g[s] = f[Some(s)] + g[s \ {Some(s)}] /\ Some(s) \in s
  BY DEF Folded, Some
<1>3. \A s \in SUBSET S, x \in S : x \in s => Cardinality(s \ {x}) = Cardinality(s) - 1
  BY <1>1, FS_RemoveElement
<1>n. \A s \in SUBSET S : g[s] \in Nat
  <2> DEFINE B == {n \in Nat : \A s \in SUBSET S : Cardinality(s) = n => g[s] \in Nat}
  <2>2. \A s \in SUBSET S : Cardinality(s) = 0 => s = {}
    BY <1>1, FS_EmptySet
  <2>3. 0 \in B
    BY <1>0, <2>2
  <2>4. ASSUME NEW n \in Nat, n \in B PROVE n + 1 \in B
    <3> SUFFICES ASSUME NEW s \in SUBSET S, Cardinality(s) = n + 1 PROVE g[s] \in Nat
      OBVIOUS
    <3>1. s # {}
      BY FS_EmptySet
    <3>2. Some(s) \in S /\ g[s] = f[Some(s)] + g[s \ {Some(s)}]
          /\ Cardinality(s \ {Some(s)}) = Cardinality(s) - 1
      BY <1>2, <1>3, <3>1
    <3>3. Cardinality(s \ {Some(s)}) = n
      BY <3>2
    <3>4. g[s \ {Some(s)}] \in Nat
      BY <2>4, <3>3
    <3> QED BY <3>2, <3>4
  <2> HIDE DEF B
  <2>5. Nat \subseteq B
    BY <2>3, <2>4, Counting
  <2> QED BY <1>1, <2>5 DEF B
<1>4. 0 \in A
  <2>1. \A s \in SUBSET S : Cardinality(s) = 0 => s = {}
    BY <1>1, FS_EmptySet
  <2> QED BY <1>0, <2>1
<1>5. ASSUME NEW n \in Nat, n \in A PROVE n + 1 \in A
  <2> SUFFICES ASSUME NEW s \in SUBSET S, Cardinality(s) = n + 1, NEW x \in s
      PROVE  g[s] = f[x] + g[s \ {x}]
    OBVIOUS
  <2> DEFINE c == Some(s)
  <2>1. s # {}
    BY FS_EmptySet
  <2>2. c \in s /\ g[s] = f[c] + g[s \ {c}]
    BY <1>2, <2>1
  <2> HIDE DEF c
  <2>3. ASSUME NEW y \in s
        PROVE  s \ {y} \in SUBSET S /\ \A z \in s \ {y} : g[s \ {y}] = f[z] + g[(s \ {y}) \ {z}]
    <3>1. Cardinality(s \ {y}) = Cardinality(s) - 1
      BY <1>3
    <3>2. Cardinality(s \ {y}) = n
      BY <3>1
    <3> QED BY <1>5, <3>2
  <2>4. CASE x # c
    <3>1. g[s \ {c}] = f[x] + g[(s \ {c}) \ {x}] /\ g[s \ {x}] = f[c] + g[(s \ {x}) \ {c}]
      BY <2>2, <2>3, <2>4
    <3>2. (s \ {x}) \ {c} = (s \ {c}) \ {x}
      OBVIOUS
    <3> DEFINE rest == g[(s \ {c}) \ {x}]
    <3>3. rest \in Nat /\ f[x] \in Nat /\ f[c] \in Nat
      BY <1>n, <2>2
    <3>4. g[s] = f[c] + (f[x] + rest) /\ g[s \ {x}] = f[c] + rest
      BY <2>2, <3>1, <3>2
    <3> HIDE DEF rest
    <3> QED BY <3>3, <3>4
  <2> QED BY <2>2, <2>4
<1> HIDE DEF A
<1>6. Nat \subseteq A
  BY <1>4, <1>5, Counting
<1> QED BY <1>0, <1>n, <1>1, <1>6 DEF A

\* What has a sum.
Numbers(f, S) == IsFiniteSet(S) /\ \A x \in S : f[x] \in Nat

LEMMA SumOfNone == \A f : SumOf(f, {}) = 0
<1> SUFFICES ASSUME NEW f PROVE SumOf(f, {}) = 0
  OBVIOUS
<1>1. PICK g : g = Folded(f, {}, g) /\ SumOf(f, {}) = g[{}]
  BY SumFolded, FS_EmptySet
<1> QED BY <1>1 DEF Folded

LEMMA SumIsNumber ==
  ASSUME NEW f, NEW S, Numbers(f, S)
  PROVE  SumOf(f, S) \in Nat
<1>1. PICK g : g = Folded(f, S, g) /\ SumOf(f, S) = g[S]
  BY SumFolded DEF Numbers
<1> QED BY <1>1, FoldRemoves DEF Numbers

\* A sum over S, and one over S without x, are of different foldings, which
\* agree on every part of S without x.
LEMMA SumSplits ==
  ASSUME NEW f, NEW S, Numbers(f, S), NEW x \in S
  PROVE  /\ Numbers(f, S \ {x})
         /\ SumOf(f, S) = f[x] + SumOf(f, S \ {x})
<1> DEFINE T == S \ {x}
<1>1. Numbers(f, T)
  BY FS_RemoveElement DEF Numbers
<1>2. PICK g : g = Folded(f, S, g) /\ SumOf(f, S) = g[S]
  BY SumFolded DEF Numbers
<1>3. PICK h : h = Folded(f, T, h) /\ SumOf(f, T) = h[T]
  BY <1>1, SumFolded DEF Numbers
<1>4. g[S] = f[x] + g[T]
  BY <1>2, FoldRemoves DEF Numbers
<1> DEFINE F == {s \in SUBSET T : g[s] = h[s]}
<1>5. {} \in F
  BY <1>2, <1>3 DEF Folded
<1>6. ASSUME NEW s \in SUBSET T, NEW y \in T, s \in F, y \notin s PROVE s \cup {y} \in F
  <2> DEFINE t == s \cup {y}
  <2>1. t \ {y} = s /\ t \in SUBSET T /\ t \in SUBSET S /\ y \in t /\ y \in S
    BY <1>6
  <2> HIDE DEF t
  <2>2. g[t] = f[y] + g[t \ {y}]
    BY <1>2, <2>1, FoldRemoves DEF Numbers
  <2>3. h[t] = f[y] + h[t \ {y}]
    BY <1>1, <1>3, <2>1, FoldRemoves DEF Numbers
  <2>4. t \in F
    BY <1>6, <2>1, <2>2, <2>3
  <2> QED BY <2>4 DEF t
<1> HIDE DEF F
<1>7. T \in F
  BY <1>1, <1>5, <1>6, Collecting DEF Numbers
<1> QED BY <1>1, <1>2, <1>3, <1>4, <1>7 DEF F

\* Greater numbers have a greater sum.
LEMMA SumGrows ==
  ASSUME NEW f, NEW h, NEW S, Numbers(f, S), Numbers(h, S), \A x \in S : f[x] <= h[x]
  PROVE  SumOf(f, S) <= SumOf(h, S)
<1> DEFINE F == {s \in SUBSET S : SumOf(f, s) <= SumOf(h, s)}
<1>1. {} \in F
  BY SumOfNone
<1>2. ASSUME NEW s \in SUBSET S, NEW y \in S, s \in F, y \notin s PROVE s \cup {y} \in F
  <2> DEFINE t == s \cup {y}
  <2>1. t \ {y} = s /\ t \in SUBSET S /\ y \in t
    BY <1>2
  <2>2. Numbers(f, t) /\ Numbers(h, t) /\ Numbers(f, s) /\ Numbers(h, s)
    BY FS_Subset, <2>1 DEF Numbers
  <2>3. SumOf(f, t) = f[y] + SumOf(f, s) /\ SumOf(h, t) = h[y] + SumOf(h, s)
    <3> HIDE DEF t
    <3> QED BY <2>1, <2>2, SumSplits
  <2>4. SumOf(f, s) \in Nat /\ SumOf(h, s) \in Nat /\ f[y] \in Nat /\ h[y] \in Nat /\ f[y] <= h[y]
    BY <2>2, SumIsNumber DEF Numbers
  <2>5. SumOf(f, s) <= SumOf(h, s)
    BY <1>2
  <2> HIDE DEF t
  <2>6. SumOf(f, t) <= SumOf(h, t)
    BY <2>3, <2>4, <2>5
  <2> QED BY <2>1, <2>6
<1> HIDE DEF F
<1>3. S \in F
  BY <1>1, <1>2, Collecting DEF Numbers
<1> QED BY <1>3 DEF F

LEMMA SumAgrees ==
  ASSUME NEW f, NEW h, NEW S, Numbers(f, S), \A x \in S : f[x] = h[x]
  PROVE  Numbers(h, S) /\ SumOf(f, S) = SumOf(h, S)
<1>1. Numbers(h, S)
  BY DEF Numbers
<1>2. \A x \in S : f[x] <= h[x] /\ h[x] <= f[x]
  BY DEF Numbers
<1>3. SumOf(f, S) <= SumOf(h, S) /\ SumOf(h, S) <= SumOf(f, S)
  BY <1>1, <1>2, SumGrows
<1>4. SumOf(f, S) \in Nat /\ SumOf(h, S) \in Nat
  BY <1>1, SumIsNumber
<1> QED BY <1>1, <1>3, <1>4

\* h differs from f at x alone, where x may be new, and so do their sums.
Differs(f, h, S, x) ==
  /\ Numbers(f, S) /\ h[x] \in Nat
  /\ \A y \in S \ {x} : f[y] = h[y]

SumsDiffer(f, h, S, x) ==
  /\ Numbers(h, S \cup {x})
  /\ SumOf(h, S \cup {x}) = h[x] + SumOf(f, S \ {x})
  /\ x \in S => SumOf(f, S) = f[x] + SumOf(f, S \ {x})
  /\ x \notin S => SumOf(f, S) = SumOf(f, S \ {x})
  /\ SumOf(f, S \ {x}) \in Nat

LEMMA SumChanges ==
  ASSUME NEW f, NEW h, NEW S, NEW x, Differs(f, h, S, x)
  PROVE  SumsDiffer(f, h, S, x)
<1>1. Numbers(h, S \cup {x}) /\ Numbers(f, S \ {x})
  BY FS_AddElement, FS_RemoveElement DEF Numbers, Differs
<1>2. SumOf(h, S \cup {x}) = h[x] + SumOf(h, (S \cup {x}) \ {x})
  BY <1>1, SumSplits
<1>3. (S \cup {x}) \ {x} = S \ {x}
  OBVIOUS
<1>4. SumOf(f, S \ {x}) = SumOf(h, S \ {x})
  BY <1>1, SumAgrees DEF Differs
<1>5. SumOf(f, S \ {x}) \in Nat
  BY <1>1, SumIsNumber
<1>6. x \in S => SumOf(f, S) = f[x] + SumOf(f, S \ {x})
  BY SumSplits DEF Differs
<1>7. x \notin S => S \ {x} = S
  OBVIOUS
<1> QED BY <1>1, <1>2, <1>3, <1>4, <1>5, <1>6, <1>7 DEF SumsDiffer

-----------------------------------------------------------------------------
(* Bags of entries: how many of a name there are.                          *)

\* A bag counts no element 0 times.
Positive(B) == \A e \in DOMAIN B : B[e] \in Nat \ {0}

Of(B, n) == {e \in DOMAIN B : e.name = n}

Weight(B, n) == SumOf(B, Of(B, n))

LEMMA WeightIsNumber ==
  ASSUME NEW B, Positive(B), NEW n, IsFiniteSet(Of(B, n))
  PROVE  Numbers(B, Of(B, n)) /\ Weight(B, n) \in Nat
<1>1. Numbers(B, Of(B, n))
  BY DEF Positive, Of, Numbers
<1> QED BY <1>1, SumIsNumber DEF Weight

\* The elements of a set are added to a bag.
Added(B, F, C) ==
  /\ DOMAIN C = DOMAIN B \cup F
  /\ \A x \in DOMAIN B \ F : C[x] = B[x]
  /\ \A x \in F : C[x] = (IF x \in DOMAIN B THEN B[x] ELSE 0) + 1

LEMMA BagAdds == \A B, F : Positive(B) => Added(B, F, B (+) SetToBag(F))
<1> SUFFICES ASSUME NEW B, Positive(B), NEW F PROVE Added(B, F, B (+) SetToBag(F))
  OBVIOUS
<1> DEFINE G == SetToBag(F)
           C == B (+) G
<1>1. DOMAIN G = F /\ \A x \in F : G[x] = 1
  BY DEF SetToBag
<1>2. C = [x \in DOMAIN B \cup DOMAIN G |->
             (IF x \in DOMAIN B THEN B[x] ELSE 0) + (IF x \in DOMAIN G THEN G[x] ELSE 0)]
  BY DEF (+)
<1> HIDE DEF G, C
<1>3. Added(B, F, C)
  BY <1>1, <1>2 DEF Positive, Added
<1> QED BY <1>3 DEF C, G

\* A set of entries is added, one of each name.
LEMMA BagGrows ==
  ASSUME NEW B, Positive(B), NEW n, IsFiniteSet(Of(B, n)), NEW F,
         \A x, y \in F : x.name = n /\ y.name = n => x = y,
         NEW C, Added(B, F, C)
  PROVE  /\ Positive(C)
         /\ IsFiniteSet(Of(C, n))
         /\ Weight(C, n) = Weight(B, n) + IF \E x \in F : x.name = n THEN 1 ELSE 0
<1>1. Added(B, F, C)
  OBVIOUS
<1>2. Positive(C)
  BY <1>1 DEF Positive, Added
<1>3. Numbers(B, Of(B, n)) /\ Weight(B, n) \in Nat
  BY WeightIsNumber
<1>4. CASE \E x \in F : x.name = n
  <2>1. PICK x \in F : x.name = n
    BY <1>4
  <2>2. Of(C, n) = Of(B, n) \cup {x}
    BY <1>1, <2>1 DEF Of, Added
  <2>3. \A y \in Of(B, n) \ {x} : B[y] = C[y]
    BY <1>1, <2>1 DEF Of, Added
  <2>4. C[x] \in Nat
    BY <1>1, <1>2, <2>1 DEF Positive, Added
  <2>5. x \in Of(B, n) <=> x \in DOMAIN B
    BY <2>1 DEF Of
  <2> DEFINE rest == SumOf(B, Of(B, n) \ {x})
  <2>6. /\ Numbers(C, Of(B, n) \cup {x})
        /\ SumOf(C, Of(B, n) \cup {x}) = C[x] + rest
        /\ x \in Of(B, n) => SumOf(B, Of(B, n)) = B[x] + rest
        /\ x \notin Of(B, n) => SumOf(B, Of(B, n)) = rest
        /\ rest \in Nat
    <3>1. Differs(B, C, Of(B, n), x)
      BY <1>3, <2>3, <2>4 DEF Differs
    <3>2. SumsDiffer(B, C, Of(B, n), x)
      BY <3>1, SumChanges
    <3> QED BY <3>2 DEF SumsDiffer
  <2> HIDE DEF rest
  <2>7. SumOf(C, Of(C, n)) = C[x] + rest /\ IsFiniteSet(Of(C, n))
    BY <2>2, <2>6 DEF Numbers
  <2>8. C[x] = (IF x \in Of(B, n) THEN B[x] ELSE 0) + 1
    BY <1>1, <2>1, <2>5 DEF Added
  <2>9. (IF x \in Of(B, n) THEN B[x] ELSE 0) \in Nat
    BY <2>5 DEF Positive
  <2>10. Weight(C, n) = Weight(B, n) + 1
    BY <2>6, <2>7, <2>8, <2>9 DEF Weight
  <2> QED BY <1>2, <1>4, <2>7, <2>10
<1>5. CASE ~\E x \in F : x.name = n
  <2>1. Of(C, n) = Of(B, n) /\ \A y \in Of(B, n) : B[y] = C[y]
    BY <1>1, <1>5 DEF Of, Added
  <2>2. Weight(C, n) = Weight(B, n)
    BY <1>3, <2>1, SumAgrees DEF Weight
  <2> QED BY <1>2, <1>3, <1>5, <2>1, <2>2
<1> QED BY <1>4, <1>5

\* An element is taken out of a bag once.
Removed(B, e, C) ==
  /\ DOMAIN C = IF B[e] = 1 THEN DOMAIN B \ {e} ELSE DOMAIN B
  /\ \A x \in DOMAIN B \ {e} : C[x] = B[x]
  /\ B[e] # 1 => C[e] = B[e] - 1

LEMMA BagRemoves == \A B : Positive(B) => \A e \in DOMAIN B : Removed(B, e, B (-) SetToBag({e}))
<1> SUFFICES ASSUME NEW B, Positive(B), NEW e \in DOMAIN B PROVE Removed(B, e, B (-) SetToBag({e}))
  OBVIOUS
<1> DEFINE C == B (-) SetToBag({e})
           D == [x \in DOMAIN B |-> IF x = e THEN B[x] - 1 ELSE B[x]]
<1>1. C = [x \in {y \in DOMAIN B : D[y] > 0} |-> D[x]]
  <2>1. DOMAIN SetToBag({e}) = {e} /\ SetToBag({e})[e] = 1
    BY DEF SetToBag
  <2>2. D = [x \in DOMAIN B |->
               IF x \in DOMAIN SetToBag({e}) THEN B[x] - SetToBag({e})[x] ELSE B[x]]
    BY <2>1
  <2> QED BY <2>2 DEF (-)
<1>2. \A x \in DOMAIN B : D[x] = IF x = e THEN B[x] - 1 ELSE B[x]
  OBVIOUS
<1> HIDE DEF C, D
<1>3. \A x \in DOMAIN B : D[x] > 0 <=> x # e \/ B[e] # 1
  BY <1>2 DEF Positive
<1>4. Removed(B, e, C)
  BY <1>1, <1>2, <1>3 DEF Removed
<1> QED BY <1>4 DEF C

\* So an entry is taken out, once.
LEMMA BagShrinks ==
  ASSUME NEW B, Positive(B), NEW n, IsFiniteSet(Of(B, n)), NEW e \in DOMAIN B,
         NEW C, Removed(B, e, C)
  PROVE  /\ Positive(C)
         /\ IsFiniteSet(Of(C, n))
         /\ Weight(B, n) = Weight(C, n) + IF e.name = n THEN 1 ELSE 0
<1>2. Removed(B, e, C)
  OBVIOUS
<1>3. Positive(C)
  BY <1>2 DEF Positive, Removed
<1>4. Numbers(B, Of(B, n)) /\ Weight(B, n) \in Nat
  BY WeightIsNumber
<1>5. CASE e.name # n
  <2>1. Of(C, n) = Of(B, n) /\ \A y \in Of(B, n) : B[y] = C[y]
    BY <1>2, <1>5 DEF Of, Removed
  <2>2. Weight(C, n) = Weight(B, n)
    BY <1>4, <2>1, SumAgrees DEF Weight
  <2>3. Weight(B, n) = Weight(C, n) + IF e.name = n THEN 1 ELSE 0
    BY <1>4, <1>5, <2>2
  <2> QED BY <1>3, <2>1, <2>3
<1>6. CASE e.name = n
  <2>1. e \in Of(B, n) /\ B[e] \in Nat \ {0}
    BY <1>6 DEF Of, Positive
  <2> DEFINE rest == SumOf(B, Of(B, n) \ {e})
  <2>2. Weight(B, n) = B[e] + rest /\ Numbers(B, Of(B, n) \ {e}) /\ rest \in Nat
    BY <1>4, <2>1, SumSplits, SumIsNumber DEF Weight
  <2>3. \A y \in Of(B, n) \ {e} : B[y] = C[y]
    BY <1>2 DEF Of, Removed
  <2>4. CASE B[e] = 1
    <3>1. Of(C, n) = Of(B, n) \ {e}
      BY <1>2, <2>4 DEF Of, Removed
    <3>s. SumOf(B, Of(B, n) \ {e}) = SumOf(C, Of(B, n) \ {e})
      BY <2>2, <2>3, SumAgrees
    <3>2. Weight(C, n) = rest
      BY <3>1, <3>s DEF Weight
    <3>3. IsFiniteSet(Of(C, n))
      BY <2>2, <3>1 DEF Numbers
    <3> HIDE DEF rest
    <3>4. Weight(B, n) = Weight(C, n) + 1
      BY <2>2, <2>4, <3>2
    <3> QED BY <1>3, <1>6, <3>3, <3>4
  <2>5. CASE B[e] # 1
    <3>1. Of(C, n) = Of(B, n) /\ Of(B, n) \cup {e} = Of(B, n)
      BY <1>2, <2>1, <2>5 DEF Of, Removed
    <3>2. C[e] = B[e] - 1 /\ C[e] \in Nat
      BY <1>2, <2>1, <2>5 DEF Removed
    <3>3. Numbers(C, Of(B, n) \cup {e}) /\ SumOf(C, Of(B, n) \cup {e}) = C[e] + rest
      <4>1. Differs(B, C, Of(B, n), e)
        BY <1>4, <2>3, <3>2 DEF Differs
      <4>2. SumsDiffer(B, C, Of(B, n), e)
        BY <4>1, SumChanges
      <4> QED BY <4>2 DEF SumsDiffer
    <3>4. Weight(C, n) = C[e] + rest /\ IsFiniteSet(Of(C, n))
      BY <3>1, <3>3 DEF Weight
    <3> HIDE DEF rest
    <3>5. Weight(B, n) = Weight(C, n) + 1
      BY <2>1, <2>2, <3>2, <3>4
    <3> QED BY <1>3, <1>6, <3>4, <3>5
  <2> QED BY <2>4, <2>5
<1> QED BY <1>5, <1>6

-----------------------------------------------------------------------------
(* What a step may do with the entries and the insights of a name.         *)

EntryRecords == [name : Names, stage : {"find", "create", "update"}, doc : Nat, seen : Nat]

\* The types of what is counted; an entry that updates has a document.
EntriesTyped ==
  /\ insights \in [Names -> Seq(Nat)]
  /\ emitted \in [Names -> Nat]
  /\ Positive(entries)
  /\ \A n \in Names : IsFiniteSet(Of(entries, n))
  /\ \A e \in DOMAIN entries :
       /\ e \in EntryRecords
       /\ e.stage = "update" => e.doc \in DOMAIN insights[e.name]

\* Nothing of the name n, or an entry begins.
Same(n) ==
  /\ insights'[n] = insights[n] /\ emitted'[n] = emitted[n]
  /\ Of(entries', n) = Of(entries, n) /\ \A e \in Of(entries, n) : entries'[e] = entries[e]
  /\ Weight(entries', n) = Weight(entries, n)

Begun(n) ==
  /\ insights'[n] = insights[n] /\ emitted'[n] = emitted[n] + 1
  /\ Of(entries', n) = Of(entries, n) \cup {Entry(n, "find", 0, 0)}
  /\ Of(entries, n) = {} => entries'[Entry(n, "find", 0, 0)] = 1
  /\ Of(entries, n) # {} => n \in crossed'
  /\ Weight(entries', n) = Weight(entries, n) + 1

\* Entries are lost.
Lost(n) ==
  /\ mode.faults # {}
  /\ insights'[n] = insights[n] /\ emitted'[n] = emitted[n]
  /\ Of(entries', n) \subseteq Of(entries, n)
  /\ Weight(entries', n) <= Weight(entries, n)

\* The entry e goes on as f: the insight is found or made.
Turned(n, e, f) ==
  /\ e \in Of(entries, n) /\ f.name = n
  /\ emitted'[n] = emitted[n]
  /\ Of(entries', n) \subseteq Of(entries, n) \cup {f}
  /\ Of(entries, n) = {e} /\ entries[e] = 1 => Of(entries', n) = {f} /\ entries'[f] = 1
  /\ Weight(entries', n) = Weight(entries, n)

Found(n, e) ==
  /\ insights'[n] = insights[n]
  /\ \/ insights[n] = <<>> /\ Turned(n, e, Entry(n, "create", 0, 0))
     \/ \E i \in DOMAIN insights[n] : Turned(n, e, Entry(n, "update", i, insights[n][i]))

Made(n, e) ==
  /\ e.stage = "create"
  /\ insights'[n] = Append(insights[n], 0)
  /\ Turned(n, e, Entry(n, "update", Len(insights[n]) + 1, 0))

\* The insight is written, and the entry is done.
Written(n, e) ==
  /\ e \in Of(entries, n) /\ e.stage = "update"
  /\ emitted'[n] = emitted[n]
  /\ insights'[n] = [insights[n] EXCEPT ![e.doc] = e.seen + 1]
  /\ Of(entries', n) \subseteq Of(entries, n)
  /\ Of(entries, n) = {e} /\ entries[e] = 1 => Of(entries', n) = {}
  /\ Weight(entries, n) = Weight(entries', n) + 1

\* A new day.
Renewed(n) ==
  /\ insights'[n] = <<>> /\ emitted'[n] = 0
  /\ Of(entries', n) = {} /\ Weight(entries', n) = 0

Change(n) ==
  \/ Renewed(n)
  \/ /\ n \in crossed => n \in crossed'
     /\ \/ Same(n) \/ Begun(n) \/ Lost(n)
        \/ \E e \in Of(entries, n) : Found(n, e) \/ Made(n, e) \/ Written(n, e)

LEMMA Idle ==
  ASSUME EntriesTyped, UNCHANGED <<insights, entries, emitted, crossed>>
  PROVE  EntriesTyped' /\ \A n \in Names : Change(n)
BY DEF EntriesTyped, Change, Same

\* Entries begin, one of each name that is followed.
LEMMA EmitChanges ==
  ASSUME EntriesTyped, NEW names \in SUBSET Names, Emit(names), UNCHANGED insights
  PROVE  EntriesTyped' /\ \A n \in Names : Change(n)
<1> DEFINE followed == names \cap mode.names
           F == {Entry(n, "find", 0, 0) : n \in followed}
<1>1. /\ entries' = entries (+) SetToBag(F)
      /\ emitted' = [n \in Names |-> emitted[n] + IF n \in followed THEN 1 ELSE 0]
      /\ crossed' = crossed \cup {n \in followed : Handling(n)}
      /\ followed \subseteq Names
  BY DEF Emit
<1>2. /\ \A x \in F : x.name \in followed /\ x = Entry(x.name, "find", 0, 0)
      /\ \A n \in followed : Entry(n, "find", 0, 0) \in F
      /\ \A n \in Names : Entry(n, "find", 0, 0) \in EntryRecords /\ Entry(n, "find", 0, 0).name = n
                          /\ Entry(n, "find", 0, 0).stage = "find"
  BY DEF Entry, EntryRecords
<1> HIDE DEF F, followed
<1>3. Added(entries, F, entries')
  BY <1>1, BagAdds DEF EntriesTyped
<1>4. \A x, y \in F : x.name = y.name => x = y
  BY <1>2
<1>5. ASSUME NEW n \in Names
      PROVE  /\ Positive(entries') /\ IsFiniteSet(Of(entries', n))
             /\ Weight(entries', n) = Weight(entries, n) + IF \E x \in F : x.name = n THEN 1 ELSE 0
  <2>1. IsFiniteSet(Of(entries, n)) /\ Positive(entries)
    BY DEF EntriesTyped
  <2>2. \A x, y \in F : x.name = n /\ y.name = n => x = y
    BY <1>4
  <2> QED BY <1>3, <2>1, <2>2, BagGrows
<1>6. EntriesTyped'
  <2>1. Positive(entries')
    BY <1>3 DEF Added, Positive, EntriesTyped
  <2>2. \A e \in DOMAIN entries' : e \in DOMAIN entries \/ e \in F
    BY <1>3 DEF Added
  <2>3. emitted' \in [Names -> Nat]
    BY <1>1 DEF EntriesTyped
  <2>4. \A e \in F : e \in EntryRecords /\ e.stage # "update"
    <3>1. \A e \in F : e.name \in Names
      BY <1>1, <1>2
    <3> QED BY <1>2, <3>1
  <2> QED BY <1>5, <2>1, <2>2, <2>3, <2>4 DEF EntriesTyped
<1>7. ASSUME NEW n \in Names PROVE Change(n)
  <2>0. Weight(entries, n) \in Nat
    BY WeightIsNumber DEF EntriesTyped
  <2> DEFINE x == Entry(n, "find", 0, 0)
  <2>1. CASE n \in followed
    <3>1. x \in F /\ x.name = n /\ \A y \in F : y.name = n => y = x
      BY <1>2, <2>1
    <3> HIDE DEF x
    <3>2. Of(entries', n) = Of(entries, n) \cup {x}
      BY <1>3, <3>1 DEF Added, Of
    <3>3. Of(entries, n) = {} => entries'[x] = 1
      BY <1>3, <3>1 DEF Added, Of
    <3>4. Weight(entries', n) = Weight(entries, n) + 1
      BY <1>5, <3>1
    <3>5. Of(entries, n) # {} => n \in crossed'
      BY <1>1, <2>1 DEF Handling, BagToSet, Of
    <3>6. emitted'[n] = emitted[n] + 1
      BY <1>1, <2>1
    <3>7. Begun(n)
      BY <3>2, <3>3, <3>4, <3>5, <3>6 DEF Begun, x
    <3> QED BY <1>1, <3>7 DEF Change
  <2>2. CASE n \notin followed
    <3>1. \A y \in F : y.name # n
      BY <1>2, <2>2
    <3>2. Of(entries', n) = Of(entries, n) /\ \A e \in Of(entries, n) : entries'[e] = entries[e]
      BY <1>3, <3>1 DEF Added, Of
    <3>3. Weight(entries', n) = Weight(entries, n)
      BY <1>5, <2>0, <3>1
    <3>4. emitted'[n] = emitted[n]
      BY <1>1, <2>2 DEF EntriesTyped
    <3>5. Same(n)
      BY <3>2, <3>3, <3>4 DEF Same
    <3> QED BY <1>1, <3>5 DEF Change
  <2> QED BY <2>1, <2>2
<1> QED BY <1>6, <1>7

\* What Without does to each name, and to all.
LEMMA Removing ==
  ASSUME EntriesTyped, NEW e \in DOMAIN entries, NEW n \in Names
  PROVE  /\ Removed(entries, e, Without(e))
         /\ Positive(Without(e)) /\ IsFiniteSet(Of(Without(e), n))
         /\ Weight(Without(e), n) \in Nat /\ Weight(entries, n) \in Nat
         /\ Weight(entries, n) = Weight(Without(e), n) + IF e.name = n THEN 1 ELSE 0
<1> DEFINE C == Without(e)
<1>1. IsFiniteSet(Of(entries, n)) /\ Positive(entries)
  BY DEF EntriesTyped
<1>2. Removed(entries, e, C)
  BY <1>1, BagRemoves DEF Without
<1> HIDE DEF C
<1>3. /\ Positive(C) /\ IsFiniteSet(Of(C, n))
      /\ Weight(entries, n) = Weight(C, n) + IF e.name = n THEN 1 ELSE 0
  BY <1>1, <1>2, BagShrinks
<1>4. Weight(C, n) \in Nat /\ Weight(entries, n) \in Nat
  BY <1>1, <1>3, WeightIsNumber
<1> QED BY <1>2, <1>3, <1>4 DEF C

\* Nothing of another name changes.
Apart(e) ==
  \A n \in Names : n # e.name =>
    /\ Of(entries', n) = Of(entries, n)
    /\ \A x \in Of(entries, n) : entries'[x] = entries[x]
    /\ Weight(entries', n) = Weight(entries, n)

LEMMA Taking ==
  ASSUME EntriesTyped, NEW e \in DOMAIN entries, entries' = Without(e)
  PROVE  /\ Positive(entries') /\ \A n \in Names : IsFiniteSet(Of(entries', n))
         /\ DOMAIN entries' \subseteq DOMAIN entries
         /\ Apart(e)
         /\ entries[e] = 1 => e \notin DOMAIN entries'
         /\ Weight(entries, e.name) = Weight(entries', e.name) + 1
         /\ Weight(entries', e.name) \in Nat
<1>1. e.name \in Names
  BY DEF EntriesTyped, EntryRecords
<1>2. Removed(entries, e, entries')
  BY <1>1, Removing
<1>3. \A n \in Names :
        /\ Positive(entries') /\ IsFiniteSet(Of(entries', n))
        /\ Weight(entries', n) \in Nat /\ Weight(entries, n) \in Nat
        /\ Weight(entries, n) = Weight(entries', n) + IF e.name = n THEN 1 ELSE 0
  BY Removing
<1>4. DOMAIN entries' \subseteq DOMAIN entries /\ (entries[e] = 1 => e \notin DOMAIN entries')
  BY <1>2 DEF Removed
<1>5. \A n \in Names : n # e.name => Weight(entries', n) = Weight(entries, n)
  BY <1>3
<1>6. \A n \in Names : n # e.name =>
        Of(entries', n) = Of(entries, n) /\ \A x \in Of(entries, n) : entries'[x] = entries[x]
  BY <1>2 DEF Removed, Of
<1> QED BY <1>1, <1>3, <1>4, <1>5, <1>6 DEF Apart

LEMMA Replacing ==
  ASSUME EntriesTyped, NEW e \in DOMAIN entries, NEW f, f.name = e.name, Replace(e, f)
  PROVE  /\ Positive(entries') /\ \A n \in Names : IsFiniteSet(Of(entries', n))
         /\ DOMAIN entries' \subseteq DOMAIN entries \cup {f}
         /\ Apart(e)
         /\ emitted' = emitted => Turned(e.name, e, f)
<1> DEFINE C == Without(e)
<1>1. e.name \in Names
  BY DEF EntriesTyped, EntryRecords
<1>2. Removed(entries, e, C)
  BY <1>1, Removing
<1>3. \A n \in Names :
        /\ Positive(C) /\ IsFiniteSet(Of(C, n))
        /\ Weight(C, n) \in Nat /\ Weight(entries, n) \in Nat
        /\ Weight(entries, n) = Weight(C, n) + IF e.name = n THEN 1 ELSE 0
  BY Removing
<1> HIDE DEF C
<1>4. Added(C, {f}, entries')
  BY <1>1, <1>3, BagAdds DEF Replace, C
<1>5. ASSUME NEW n \in Names
      PROVE  /\ Positive(entries') /\ IsFiniteSet(Of(entries', n))
             /\ Weight(entries', n) = Weight(C, n) + IF \E x \in {f} : x.name = n THEN 1 ELSE 0
  <2>1. IsFiniteSet(Of(C, n)) /\ Positive(C) /\ \A x, y \in {f} : x.name = n /\ y.name = n => x = y
    BY <1>3
  <2> QED BY <1>4, <2>1, BagGrows
<1>6. \A n \in Names : Weight(entries', n) = Weight(entries, n)
  BY <1>3, <1>5
<1>7. \A n \in Names : n # e.name =>
        Of(entries', n) = Of(entries, n) /\ \A x \in Of(entries, n) : entries'[x] = entries[x]
  BY <1>2, <1>4 DEF Removed, Added, Of
<1>8. DOMAIN entries' \subseteq DOMAIN entries \cup {f}
  BY <1>2, <1>4 DEF Removed, Added
<1>9. ASSUME emitted' = emitted PROVE Turned(e.name, e, f)
  <2>1. e \in Of(entries, e.name)
    BY DEF Of
  <2>2. Of(entries', e.name) \subseteq Of(entries, e.name) \cup {f}
    BY <1>8 DEF Of
  <2>3. ASSUME Of(entries, e.name) = {e}, entries[e] = 1
        PROVE  Of(entries', e.name) = {f} /\ entries'[f] = 1
    <3>1. DOMAIN C = DOMAIN entries \ {e} /\ Of(C, e.name) = {}
      BY <1>2, <2>3 DEF Removed, Of
    <3>2. f \notin DOMAIN C
      BY <3>1 DEF Of
    <3>3. entries'[f] = 1 /\ f \in DOMAIN entries'
      BY <1>4, <3>2 DEF Added
    <3> QED BY <1>4, <3>1, <3>3 DEF Added, Of
  <2> QED BY <1>1, <1>6, <1>9, <2>1, <2>2, <2>3 DEF Turned
<1> QED BY <1>1, <1>5, <1>6, <1>7, <1>8, <1>9 DEF Apart

USE AnalyticsAssumption

\* Documents are added at the end, and written in place.
LEMMA Appended ==
  ASSUME NEW s \in Seq(Nat), NEW v \in Nat
  PROVE  /\ Append(s, v) \in Seq(Nat)
         /\ DOMAIN s = 1 .. Len(s) /\ Len(s) \in Nat
         /\ DOMAIN Append(s, v) = 1 .. (Len(s) + 1)
         /\ DOMAIN s \subseteq DOMAIN Append(s, v)
         /\ Len(s) + 1 \in DOMAIN Append(s, v)
OBVIOUS

LEMMA Overwritten ==
  ASSUME NEW s \in Seq(Nat), NEW i \in DOMAIN s, NEW v \in Nat
  PROVE  [s EXCEPT ![i] = v] \in Seq(Nat)
OBVIOUS

LEMMA EntrySteps ==
  ASSUME EntriesTyped, NEW e \in BagToSet(entries),
         FindInsight(e) \/ CreateInsight(e) \/ UpdateInsight(e)
  PROVE  EntriesTyped' /\ \A n \in Names : Change(n)
<1> USE DEF BagToSet
<1>1. e \in DOMAIN entries /\ e \in EntryRecords /\ e.name \in Names /\ e \in Of(entries, e.name)
  BY DEF EntriesTyped, EntryRecords, Of
<1>2. UNCHANGED <<mode, emitted, crossed>>
  BY DEF FindInsight, CreateInsight, UpdateInsight, UnchangedForEntries, history
<1>3. ASSUME Apart(e), \A n \in Names : n # e.name => insights'[n] = insights[n]
      PROVE  \A n \in Names : n # e.name => Change(n)
  BY <1>2, <1>3 DEF Apart, Change, Same
<1>4. CASE Fails /\ Drop(e)
  <2>1. entries' = Without(e) /\ insights' = insights
    BY <1>4 DEF Drop
  <2>2. /\ Positive(entries') /\ \A n \in Names : IsFiniteSet(Of(entries', n))
        /\ DOMAIN entries' \subseteq DOMAIN entries
        /\ Apart(e)
        /\ Weight(entries, e.name) = Weight(entries', e.name) + 1
        /\ Weight(entries', e.name) \in Nat
    BY <1>1, <2>1, Taking
  <2>3. EntriesTyped'
    BY <1>2, <2>1, <2>2 DEF EntriesTyped
  <2>4. Lost(e.name)
    BY <1>2, <1>4, <2>1, <2>2 DEF Lost, Fails, Of
  <2> QED BY <1>2, <1>3, <2>1, <2>2, <2>3, <2>4 DEF Change
<1>5. ASSUME NEW f \in EntryRecords, f.name = e.name, Replace(e, f),
             insights' \in [Names -> Seq(Nat)],
             \A n \in Names : n # e.name => insights'[n] = insights[n],
             DOMAIN insights[e.name] \subseteq DOMAIN insights'[e.name],
             f.stage = "update" => f.doc \in DOMAIN insights'[f.name]
      PROVE  EntriesTyped' /\ Turned(e.name, e, f) /\ \A n \in Names : n # e.name => Change(n)
  <2>1. /\ Positive(entries') /\ \A n \in Names : IsFiniteSet(Of(entries', n))
        /\ DOMAIN entries' \subseteq DOMAIN entries \cup {f}
        /\ Apart(e)
        /\ Turned(e.name, e, f)
    BY <1>1, <1>2, <1>5, Replacing
  <2>2. \A x \in DOMAIN entries' :
          x \in EntryRecords /\ (x.stage = "update" => x.doc \in DOMAIN insights'[x.name])
    BY <1>1, <1>5, <2>1 DEF EntriesTyped, EntryRecords
  <2>3. EntriesTyped'
    BY <1>2, <1>5, <2>1, <2>2 DEF EntriesTyped
  <2> QED BY <1>3, <1>5, <2>1, <2>3
<1>6. CASE FindInsight(e) /\ insights[e.name] = <<>> /\ Replace(e, Entry(e.name, "create", 0, 0))
           /\ UNCHANGED insights
  <2> DEFINE f == Entry(e.name, "create", 0, 0)
  <2>1. f \in EntryRecords /\ f.name = e.name /\ f.stage = "create"
    BY <1>1 DEF Entry, EntryRecords
  <2> HIDE DEF f
  <2>2. EntriesTyped' /\ Turned(e.name, e, f) /\ \A n \in Names : n # e.name => Change(n)
    BY <1>5, <1>6, <2>1 DEF EntriesTyped, f
  <2>3. Found(e.name, e)
    BY <1>6, <2>2 DEF Found, f
  <2> QED BY <1>1, <1>2, <2>2, <2>3 DEF Change
<1>7. ASSUME FindInsight(e), NEW i \in DOMAIN insights[e.name], UNCHANGED insights,
             Replace(e, Entry(e.name, "update", i, insights[e.name][i]))
      PROVE  EntriesTyped' /\ \A n \in Names : Change(n)
  <2> DEFINE f == Entry(e.name, "update", i, insights[e.name][i])
  <2>0. i \in Nat /\ insights[e.name][i] \in Nat
    BY <1>1 DEF EntriesTyped
  <2>1. f \in EntryRecords /\ f.name = e.name /\ f.stage = "update" /\ f.doc = i
    BY <1>1, <2>0 DEF Entry, EntryRecords
  <2> HIDE DEF f
  <2>2. EntriesTyped' /\ Turned(e.name, e, f) /\ \A n \in Names : n # e.name => Change(n)
    BY <1>5, <1>7, <2>1 DEF EntriesTyped, f
  <2>3. Found(e.name, e)
    BY <1>7, <2>2 DEF Found, f
  <2> QED BY <1>1, <1>2, <2>2, <2>3 DEF Change
<1>8. CASE CreateInsight(e) /\ insights' = [insights EXCEPT ![e.name] = Append(@, 0)]
           /\ Replace(e, Entry(e.name, "update", Len(insights[e.name]) + 1, 0))
  <2> DEFINE f == Entry(e.name, "update", Len(insights[e.name]) + 1, 0)
  <2>0. insights[e.name] \in Seq(Nat)
    BY <1>1 DEF EntriesTyped
  <2>1. /\ f \in EntryRecords /\ f.name = e.name /\ f.stage = "update"
        /\ f.doc = Len(insights[e.name]) + 1
    BY <1>1, <2>0 DEF Entry, EntryRecords
  <2> HIDE DEF f
  <2>2. /\ insights' \in [Names -> Seq(Nat)]
        /\ insights'[e.name] = Append(insights[e.name], 0)
        /\ \A n \in Names : n # e.name => insights'[n] = insights[n]
    BY <1>1, <1>8, <2>0 DEF EntriesTyped
  <2>3. /\ DOMAIN insights[e.name] \subseteq DOMAIN insights'[e.name]
        /\ Len(insights[e.name]) + 1 \in DOMAIN insights'[e.name]
    BY <2>0, <2>2, Appended
  <2>4. EntriesTyped' /\ Turned(e.name, e, f) /\ \A n \in Names : n # e.name => Change(n)
    BY <1>5, <1>8, <2>1, <2>2, <2>3 DEF f
  <2>5. Made(e.name, e)
    BY <1>8, <2>2, <2>4 DEF CreateInsight, Made, f
  <2> QED BY <1>1, <1>2, <2>4, <2>5 DEF Change
<1>9. CASE /\ UpdateInsight(e) /\ insights' = [insights EXCEPT ![e.name][e.doc] = e.seen + 1]
           /\ entries' = Without(e)
  <2>1. /\ Positive(entries') /\ \A n \in Names : IsFiniteSet(Of(entries', n))
        /\ DOMAIN entries' \subseteq DOMAIN entries
        /\ Apart(e)
        /\ entries[e] = 1 => e \notin DOMAIN entries'
        /\ Weight(entries, e.name) = Weight(entries', e.name) + 1
    BY <1>1, <1>9, Taking
  <2>2. /\ insights[e.name] \in Seq(Nat) /\ e.doc \in DOMAIN insights[e.name]
        /\ e.seen + 1 \in Nat /\ e.stage = "update"
    BY <1>1, <1>9 DEF EntriesTyped, EntryRecords, UpdateInsight
  <2> DEFINE values == [insights[e.name] EXCEPT ![e.doc] = e.seen + 1]
  <2>v. values \in Seq(Nat)
    BY <2>2, Overwritten
  <2>i. insights \in [Names -> Seq(Nat)] /\ insights' = [insights EXCEPT ![e.name] = values]
    BY <1>9 DEF EntriesTyped
  <2> HIDE DEF values
  <2>3. /\ insights' \in [Names -> Seq(Nat)]
        /\ insights'[e.name] = values
        /\ \A n \in Names : n # e.name => insights'[n] = insights[n]
    BY <1>1, <2>v, <2>i
  <2>4. DOMAIN insights'[e.name] = DOMAIN insights[e.name]
    BY <2>2, <2>3 DEF values
  <2>5. EntriesTyped'
    BY <1>2, <2>1, <2>3, <2>4 DEF EntriesTyped, EntryRecords
  <2>6. Written(e.name, e)
    BY <1>1, <1>2, <2>1, <2>2, <2>3 DEF Written, Of, values
  <2> QED BY <1>1, <1>2, <1>3, <2>1, <2>3, <2>5, <2>6 DEF Change
<1> QED BY <1>4, <1>6, <1>7, <1>8, <1>9 DEF FindInsight, CreateInsight, UpdateInsight

\* The empty bag.
LEMMA NoEntries ==
  /\ Positive(EmptyBag) /\ DOMAIN EmptyBag = {}
  /\ \A n : Of(EmptyBag, n) = {} /\ IsFiniteSet(Of(EmptyBag, n)) /\ Weight(EmptyBag, n) = 0
<1>1. DOMAIN EmptyBag = {}
  BY DEF EmptyBag, SetToBag
<1>2. \A n : Of(EmptyBag, n) = {}
  BY <1>1 DEF Of
<1> QED BY <1>1, <1>2, SumOfNone, FS_EmptySet DEF Positive, Weight

\* Every step is a change of these kinds to every name.
LEMMA CountsChange ==
  EntriesTyped /\ [Next]_vars => EntriesTyped' /\ \A n \in Names : mode' = mode /\ Change(n)
<1> SUFFICES ASSUME EntriesTyped, [Next]_vars
             PROVE  EntriesTyped' /\ \A n \in Names : mode' = mode /\ Change(n)
  OBVIOUS
<1>0. mode' = mode
  BY DEF Next, vars, Receive, FindSubscriber, CreateSubscriber, Visit, SaveVisit, LogMessage,
         Answer, FindInsight, CreateInsight, UpdateInsight, UnchangedForEntries, Wait, Crash
<1>1. ASSUME NEW m \in Messages, Receive(m) \/ FindSubscriber(m) \/ SaveVisit(m)
      PROVE  UNCHANGED <<insights, entries, emitted, crossed>>
  BY <1>1 DEF Receive, FindSubscriber, SaveVisit, history
<1>2. ASSUME NEW m \in Messages, CreateSubscriber(m) \/ Visit(m) \/ LogMessage(m) \/ Answer(m)
      PROVE  /\ UNCHANGED insights
             /\ \/ UNCHANGED <<entries, emitted, crossed>>
                \/ \E names \in SUBSET Names : Emit(names)
  <2>1. /\ {"New users"} \in SUBSET Names /\ VisitInsights(copy[m]) \in SUBSET Names
        /\ {"Incoming", "All Messages"} \in SUBSET Names
        /\ {"Outgoing", "All Messages"} \in SUBSET Names
    BY DEF Names, VisitInsights
  <2> HIDE DEF Names
  <2> QED BY <1>2, <2>1 DEF CreateSubscriber, Visit, LogMessage, Answer, EmitNothing
<1>3. ASSUME NEW d \in Pauses, Wait(d) PROVE EntriesTyped' /\ \A n \in Names : Change(n)
  <2>1. entries = EmptyBag /\ entries' = EmptyBag
    BY <1>3 DEF Wait, Quiet
  <2>2. CASE UNCHANGED <<insights, emitted, crossed>>
    BY <2>1, <2>2, Idle
  <2>3. CASE insights' = [n \in Names |-> <<>>] /\ emitted' = [n \in Names |-> 0]
    <3>1. insights' \in [Names -> Seq(Nat)] /\ emitted' \in [Names -> Nat]
      BY <2>3
    <3>2. EntriesTyped'
      BY <2>1, <3>1, NoEntries DEF EntriesTyped
    <3>3. \A n \in Names : Renewed(n)
      BY <2>1, <2>3, NoEntries DEF Renewed
    <3> QED BY <3>2, <3>3 DEF Change
  <2> QED BY <1>3, <2>2, <2>3 DEF Wait
<1>4. CASE Crash
  <2>1. entries' = EmptyBag /\ UNCHANGED <<insights, emitted, crossed>> /\ mode.faults # {}
    BY <1>4 DEF Crash, history
  <2>2. EntriesTyped'
    BY <2>1, NoEntries DEF EntriesTyped
  <2>3. \A n \in Names : Weight(entries, n) \in Nat
    BY WeightIsNumber DEF EntriesTyped
  <2>4. \A n \in Names : Lost(n)
    BY <2>1, <2>3, NoEntries DEF Lost
  <2> QED BY <1>0, <2>1, <2>2, <2>4 DEF Change
<1>5. CASE UNCHANGED vars
  BY <1>5, Idle DEF vars, history
<1>6. ASSUME NEW m \in Messages,
             \/ Receive(m) \/ FindSubscriber(m) \/ CreateSubscriber(m) \/ Visit(m)
             \/ SaveVisit(m) \/ LogMessage(m) \/ Answer(m)
      PROVE  EntriesTyped' /\ \A n \in Names : Change(n)
  <2>1. CASE UNCHANGED <<insights, entries, emitted, crossed>>
    BY <2>1, Idle
  <2>2. CASE UNCHANGED insights /\ \E names \in SUBSET Names : Emit(names)
    BY <2>2, EmitChanges
  <2> QED BY <1>1, <1>2, <1>6, <2>1, <2>2
<1> QED BY <1>0, <1>3, <1>4, <1>5, <1>6, EntrySteps DEF Next

-----------------------------------------------------------------------------
(* Counts.                                                                 *)

LEMMA FiniteSequence == \A s \in Seq(Nat) : IsFiniteSet(DOMAIN s)
<1> SUFFICES ASSUME NEW s \in Seq(Nat) PROVE IsFiniteSet(DOMAIN s)
  OBVIOUS
<1>1. DOMAIN s = 1 .. Len(s) /\ 1 \in Int /\ Len(s) \in Int
  OBVIOUS
<1>2. IsFiniteSet(1 .. Len(s))
  BY <1>1, FS_Interval
<1> QED BY <1>1, <1>2

LEMMA EntryFields ==
  \A n, s, d, v : /\ Entry(n, s, d, v).name = n /\ Entry(n, s, d, v).stage = s
                  /\ Entry(n, s, d, v).doc = d /\ Entry(n, s, d, v).seen = v
BY DEF Entry

LEMMA EntriesTypedAtFirst == Init => EntriesTyped
<1> SUFFICES ASSUME Init PROVE EntriesTyped
  OBVIOUS
<1> QED BY NoEntries DEF Init, EntriesTyped

\* What a document holds may go down, for an entry that saw less of it may be
\* written later, so what is counted and underway is not what grows.  Each
\* document has a peak, though, which is over what it holds and what entries
\* have seen of it, and which a write raises by one at most: the peaks and what
\* is underway stay within what was emitted.
Peak(n, p) ==
  /\ p \in [DOMAIN insights[n] -> Nat]
  /\ \A i \in DOMAIN insights[n] : insights[n][i] <= p[i]
  /\ \A e \in Of(entries, n) : e.stage = "update" => e.seen <= p[e.doc]
  /\ SumOf(p, DOMAIN insights[n]) + Weight(entries, n) <= emitted[n]

Peaks == \A n \in Names : \E p : Peak(n, p)

LEMMA PeaksStep ==
  ASSUME EntriesTyped, EntriesTyped', NEW n \in Names, NEW p, Peak(n, p), Change(n)
  PROVE  \E q : Peak(n, q)'
<1> DEFINE S == DOMAIN insights[n]
<1>s. S = DOMAIN insights[n]
  OBVIOUS
<1> HIDE DEF S
<1>1. /\ insights[n] \in Seq(Nat) /\ emitted[n] \in Nat /\ emitted'[n] \in Nat
      /\ Weight(entries, n) \in Nat /\ Weight(entries', n) \in Nat
      /\ \A e \in Of(entries, n) : e \in EntryRecords /\ e.doc \in Nat /\ e.seen \in Nat
           /\ (e.stage = "update" => e.doc \in DOMAIN insights[n])
  BY WeightIsNumber DEF EntriesTyped, Of, EntryRecords
<1>2. Numbers(p, DOMAIN insights[n]) /\ SumOf(p, DOMAIN insights[n]) \in Nat
  <2>2. IsFiniteSet(DOMAIN insights[n])
    BY <1>1, FiniteSequence
  <2>3. Numbers(p, DOMAIN insights[n])
    BY <2>2 DEF Numbers, Peak
  <2> QED BY <2>3, SumIsNumber
<1>3. CASE Renewed(n)
  <2> DEFINE q == [i \in {} |-> 0]
  <2>1. /\ q \in [DOMAIN insights'[n] -> Nat]
        /\ SumOf(q, DOMAIN insights'[n]) = 0 /\ DOMAIN insights'[n] = {}
    BY <1>3, SumOfNone DEF Renewed
  <2> HIDE DEF q
  <2>2. Peak(n, q)'
    BY <1>3, <2>1 DEF Renewed, Peak
  <2> QED BY <2>2
<1>4. CASE Same(n) \/ Lost(n)
  <2>1. Weight(entries', n) <= Weight(entries, n) /\ Of(entries', n) \subseteq Of(entries, n)
        /\ insights'[n] = insights[n] /\ emitted'[n] = emitted[n]
    BY <1>1, <1>4 DEF Same, Lost
  <2>2. Peak(n, p)'
    BY <1>1, <1>2, <2>1 DEF Peak
  <2> QED BY <2>2
<1>5. CASE Begun(n)
  <2>1. \A e \in Of(entries', n) : e.stage = "update" => e \in Of(entries, n)
    BY <1>5 DEF Begun, Entry
  <2>2. Peak(n, p)'
    BY <1>1, <1>2, <1>5, <2>1 DEF Peak, Begun
  <2> QED BY <2>2
<1>6. ASSUME NEW e \in Of(entries, n), Found(n, e) PROVE \E q : Peak(n, q)'
  <2>0. PICK f :
          /\ Turned(n, e, f)
          /\ \/ f.stage = "create"
             \/ f.stage = "update" /\ f.doc \in DOMAIN insights[n] /\ f.seen = insights[n][f.doc]
    BY <1>6, EntryFields DEF Found
  <2>1. \A x \in Of(entries', n) : x.stage = "update" =>
          x \in Of(entries, n) \/ (x.doc \in DOMAIN insights[n] /\ x.seen = insights[n][x.doc])
    BY <2>0 DEF Turned
  <2>2. /\ insights'[n] = insights[n] /\ emitted'[n] = emitted[n]
        /\ Weight(entries', n) = Weight(entries, n)
    BY <1>6 DEF Found, Turned
  <2>3. Peak(n, p)'
    BY <1>1, <1>2, <2>1, <2>2 DEF Peak
  <2> QED BY <2>3
<1>7. ASSUME NEW e \in Of(entries, n), Made(n, e) PROVE \E q : Peak(n, q)'
  <2>n. PICK new : new = Len(insights[n]) + 1
    OBVIOUS
  <2>q. PICK q : q = [i \in DOMAIN insights[n] \cup {new} |-> IF i = new THEN 0 ELSE p[i]]
    OBVIOUS
  <2>1. /\ DOMAIN insights'[n] = DOMAIN insights[n] \cup {new} /\ new \notin DOMAIN insights[n]
        /\ \A i \in DOMAIN insights'[n] : insights'[n][i] = IF i = new THEN 0 ELSE insights[n][i]
        /\ new \in Nat
    BY <1>1, <1>7, <2>n DEF Made
  <2>2. /\ q \in [DOMAIN insights'[n] -> Nat] /\ q[new] = 0
        /\ \A i \in DOMAIN insights[n] : q[i] = p[i]
    BY <2>1, <2>q DEF Peak
  <2>3. \A x \in Of(entries', n) : x.stage = "update" =>
          x \in Of(entries, n) \/ (x.doc = new /\ x.seen = 0)
    BY <1>7, <2>n, EntryFields DEF Made, Turned
  <2>4. emitted'[n] = emitted[n] /\ Weight(entries', n) = Weight(entries, n)
    BY <1>7 DEF Made, Turned
  <2>5. /\ SumOf(q, S \cup {new}) = q[new] + SumOf(p, S \ {new})
        /\ new \notin S => SumOf(p, S) = SumOf(p, S \ {new})
        /\ SumOf(p, S \ {new}) \in Nat
    <3>1. Differs(p, q, S, new)
      BY <1>s, <1>2, <2>2 DEF Differs
    <3>2. SumsDiffer(p, q, S, new)
      BY <3>1, SumChanges
    <3> QED BY <3>2 DEF SumsDiffer
  <2>6. SumOf(q, DOMAIN insights'[n]) = SumOf(p, DOMAIN insights[n])
    BY <1>s, <1>2, <2>1, <2>2, <2>5
  <2>7. \A x \in Of(entries', n) : x.stage = "update" => x.seen <= q[x.doc]
    BY <1>1, <2>2, <2>3 DEF Peak
  <2>8. \A i \in DOMAIN insights'[n] : insights'[n][i] <= q[i]
    BY <2>1, <2>2 DEF Peak
  <2>9. Peak(n, q)'
    BY <2>2, <2>4, <2>6, <2>7, <2>8 DEF Peak
  <2> QED BY <2>9
<1>8. ASSUME NEW e \in Of(entries, n), Written(n, e) PROVE \E q : Peak(n, q)'
  <2>d. PICK d : d = e.doc
    OBVIOUS
  <2>q. PICK q :
          q = [i \in DOMAIN insights[n] |-> IF i = d /\ p[i] <= e.seen THEN e.seen + 1 ELSE p[i]]
    OBVIOUS
  <2>1. /\ d \in DOMAIN insights[n] /\ e.seen \in Nat /\ e.seen <= p[d] /\ p[d] \in Nat
        /\ p \in [DOMAIN insights[n] -> Nat]
    BY <1>1, <1>8, <2>d DEF Written, Peak
  <2>2. /\ DOMAIN insights'[n] = DOMAIN insights[n]
        /\ \A i \in DOMAIN insights'[n] :
             insights'[n][i] = IF i = d THEN e.seen + 1 ELSE insights[n][i]
    BY <1>1, <1>8, <2>1, <2>d DEF Written
  <2>3. /\ q \in [DOMAIN insights'[n] -> Nat]
        /\ p[d] <= q[d] /\ q[d] <= p[d] + 1 /\ e.seen + 1 <= q[d]
        /\ \A i \in DOMAIN insights[n] \ {d} : q[i] = p[i]
    BY <2>1, <2>2, <2>q
  <2>4. emitted'[n] = emitted[n] /\ Weight(entries, n) = Weight(entries', n) + 1
        /\ Of(entries', n) \subseteq Of(entries, n)
    BY <1>8 DEF Written
  <2>5. /\ SumOf(q, S \cup {d}) = q[d] + SumOf(p, S \ {d})
        /\ d \in S => SumOf(p, S) = p[d] + SumOf(p, S \ {d})
        /\ SumOf(p, S \ {d}) \in Nat
    <3>1. Differs(p, q, S, d)
      BY <1>s, <1>2, <2>1, <2>2, <2>3 DEF Differs
    <3>2. SumsDiffer(p, q, S, d)
      BY <3>1, SumChanges
    <3> QED BY <3>2 DEF SumsDiffer
  <2>6. S \cup {d} = S
    BY <1>s, <2>1
  <2>7. q[d] \in Nat
    BY <2>1, <2>2, <2>3
  <2>8. SumOf(q, DOMAIN insights'[n]) + Weight(entries', n) <= emitted'[n]
    <3>1. SumOf(q, DOMAIN insights'[n]) = q[d] + SumOf(p, S \ {d})
      BY <1>s, <2>2, <2>5, <2>6
    <3>2. SumOf(p, S) + Weight(entries, n) <= emitted[n]
      BY <1>s DEF Peak
    <3> QED BY <1>s, <1>1, <2>1, <2>3, <2>4, <2>5, <2>7, <3>1, <3>2
  <2>9. \A x \in Of(entries', n) : x.stage = "update" => x.seen <= q[x.doc]
    <3> SUFFICES ASSUME NEW x \in Of(entries', n), x.stage = "update" PROVE x.seen <= q[x.doc]
      OBVIOUS
    <3>1. x.seen <= p[x.doc] /\ x.doc \in DOMAIN insights[n] /\ x.seen \in Nat
      BY <1>1, <2>4 DEF Peak
    <3>2. p[x.doc] <= q[x.doc] /\ p[x.doc] \in Nat /\ q[x.doc] \in Nat
      BY <2>1, <2>2, <2>3, <3>1
    <3> QED BY <3>1, <3>2
  <2>10. \A i \in DOMAIN insights'[n] : insights'[n][i] <= q[i]
    BY <2>1, <2>2, <2>3 DEF Peak
  <2>11. Peak(n, q)'
    BY <2>3, <2>8, <2>9, <2>10 DEF Peak
  <2> QED BY <2>11
<1> QED BY <1>3, <1>4, <1>5, <1>6, <1>7, <1>8 DEF Change

-----------------------------------------------------------------------------
(* Names of which no two entries crossed.                                  *)

First(n) == IF insights[n] = <<>> THEN 0 ELSE insights[n][1]

\* The only entry of a name, if there is one, has seen what its only document holds.
OneEntry(n) ==
  /\ Len(insights[n]) <= 1
  /\ \A e \in Of(entries, n) :
       /\ Of(entries, n) = {e} /\ entries[e] = 1
       /\ e.stage = "create" => insights[n] = <<>>
       /\ e.stage = "update" => e.seen = insights[n][1]
  /\ First(n) + Weight(entries, n) = emitted[n]

Uncrossed == mode.faults = {} => \A n \in Names \ crossed : OneEntry(n)

LEMMA UncrossedStep ==
  ASSUME EntriesTyped, EntriesTyped', NEW n \in Names, Change(n),
         mode.faults = {}, n \notin crossed', n \notin crossed => OneEntry(n)
  PROVE  OneEntry(n)'
<1>1. /\ insights[n] \in Seq(Nat) /\ insights'[n] \in Seq(Nat)
      /\ emitted[n] \in Nat /\ emitted'[n] \in Nat
      /\ Weight(entries, n) \in Nat /\ Weight(entries', n) \in Nat
      /\ \A e \in Of(entries, n) : e \in EntryRecords /\ e.doc \in Nat /\ e.seen \in Nat
           /\ (e.stage = "update" => e.doc \in DOMAIN insights[n])
  BY WeightIsNumber DEF EntriesTyped, Of, EntryRecords
<1>2. CASE Renewed(n)
  BY <1>2 DEF Renewed, OneEntry, First
<1>3. CASE OneEntry(n) /\ Same(n)
  BY <1>3 DEF Same, OneEntry, First
<1>4. CASE OneEntry(n) /\ Begun(n)
  <2>1. /\ Of(entries', n) = {Entry(n, "find", 0, 0)}
        /\ entries'[Entry(n, "find", 0, 0)] = 1
        /\ Entry(n, "find", 0, 0).stage = "find"
    BY <1>4 DEF Begun, Entry
  <2>2. First(n)' = First(n) /\ First(n) \in Nat
    BY <1>1, <1>4 DEF Begun, First
  <2>3. /\ Len(insights'[n]) <= 1 /\ emitted'[n] = emitted[n] + 1
        /\ Weight(entries', n) = Weight(entries, n) + 1
        /\ First(n) + Weight(entries, n) = emitted[n]
    BY <1>4 DEF OneEntry, Begun
  <2>4. First(n)' + Weight(entries', n) = emitted'[n]
    BY <1>1, <2>2, <2>3
  <2> QED BY <2>1, <2>3, <2>4 DEF OneEntry
<1>5. ASSUME OneEntry(n), NEW e \in Of(entries, n), Found(n, e) PROVE OneEntry(n)'
  <2>1. Of(entries, n) = {e} /\ entries[e] = 1
    BY <1>5 DEF OneEntry
  <2>2. PICK f :
          /\ Turned(n, e, f)
          /\ \/ insights[n] = <<>> /\ f.stage = "create"
             \/ f.stage = "update" /\ f.seen = insights[n][1]
    <3>1. \A i \in DOMAIN insights[n] : i = 1
      BY <1>1, <1>5 DEF OneEntry
    <3> QED BY <1>5, <3>1, EntryFields DEF Found
  <2>3. /\ Of(entries', n) = {f} /\ entries'[f] = 1
        /\ emitted'[n] = emitted[n] /\ Weight(entries', n) = Weight(entries, n)
        /\ insights'[n] = insights[n]
    BY <1>5, <2>1, <2>2 DEF Turned, Found
  <2> QED BY <1>5, <2>2, <2>3 DEF OneEntry, First
<1>6. ASSUME OneEntry(n), NEW e \in Of(entries, n), Made(n, e) PROVE OneEntry(n)'
  <2>1. Of(entries, n) = {e} /\ entries[e] = 1 /\ insights[n] = <<>>
    BY <1>6 DEF OneEntry, Made
  <2>2. PICK f : Turned(n, e, f) /\ f.stage = "update" /\ f.seen = 0
    BY <1>6 DEF Made, Entry
  <2>3. /\ Of(entries', n) = {f} /\ entries'[f] = 1
        /\ emitted'[n] = emitted[n] /\ Weight(entries', n) = Weight(entries, n)
    BY <2>1, <2>2 DEF Turned
  <2>4. Len(insights'[n]) = 1 /\ insights'[n][1] = 0 /\ insights'[n] # <<>>
    BY <1>6, <2>1 DEF Made
  <2> QED BY <1>6, <2>1, <2>2, <2>3, <2>4 DEF OneEntry, First
<1>7. ASSUME OneEntry(n), NEW e \in Of(entries, n), Written(n, e) PROVE OneEntry(n)'
  <2>1. /\ Of(entries, n) = {e} /\ entries[e] = 1 /\ e.seen = insights[n][1]
        /\ e.doc \in DOMAIN insights[n] /\ e.seen \in Nat
        /\ Len(insights[n]) <= 1
    BY <1>1, <1>7 DEF OneEntry, Written
  <2>2. e.doc = 1 /\ insights[n] # <<>>
    BY <1>1, <2>1
  <2>3. Len(insights'[n]) = Len(insights[n]) /\ insights'[n][1] = e.seen + 1 /\ insights'[n] # <<>>
    BY <1>1, <1>7, <2>1, <2>2 DEF Written
  <2>4. /\ Of(entries', n) = {} /\ emitted'[n] = emitted[n]
        /\ Weight(entries, n) = Weight(entries', n) + 1
    BY <1>7, <2>1 DEF Written
  <2>5. First(n) = e.seen /\ First(n)' = e.seen + 1
    BY <2>1, <2>2, <2>3 DEF First
  <2>6. First(n)' + Weight(entries', n) = emitted'[n]
    <3>1. First(n) + Weight(entries, n) = emitted[n]
      BY <1>7 DEF OneEntry
    <3>2. Weight(entries', n) \in Nat /\ e.seen \in Nat
      BY <1>1, <2>1
    <3> QED BY <2>4, <2>5, <3>1, <3>2
  <2> QED BY <2>1, <2>3, <2>4, <2>6 DEF OneEntry
<1> QED BY <1>2, <1>3, <1>4, <1>5, <1>6, <1>7 DEF Change, Lost

CountsInv == EntriesTyped /\ Peaks /\ Uncrossed

LEMMA CountsInit == Init => CountsInv
<1> SUFFICES ASSUME Init PROVE CountsInv
  OBVIOUS
<1>1. /\ EntriesTyped
      /\ \A n \in Names : /\ insights[n] = <<>> /\ DOMAIN insights[n] = {} /\ emitted[n] = 0
                          /\ Of(entries, n) = {} /\ Weight(entries, n) = 0
  BY EntriesTypedAtFirst, NoEntries DEF Init
<1>2. ASSUME NEW n \in Names PROVE Peak(n, <<>>)
  <2>1. <<>> \in [DOMAIN insights[n] -> Nat]
    BY <1>1
  <2>2. SumOf(<<>>, DOMAIN insights[n]) = 0
    BY <1>1, SumOfNone
  <2> QED BY <1>1, <2>1, <2>2 DEF Peak
<1>3. \A n \in Names : OneEntry(n)
  BY <1>1 DEF OneEntry, First
<1> QED BY <1>1, <1>2, <1>3 DEF CountsInv, Peaks, Uncrossed

LEMMA CountsStep == CountsInv /\ [Next]_vars => CountsInv'
<1> SUFFICES ASSUME CountsInv, [Next]_vars PROVE CountsInv'
  OBVIOUS
<1>1. EntriesTyped /\ EntriesTyped' /\ \A n \in Names : mode' = mode /\ Change(n)
  BY CountsChange DEF CountsInv
<1>2. Peaks'
  BY <1>1, PeaksStep DEF CountsInv, Peaks
<1>3. Uncrossed'
  BY <1>1, UncrossedStep DEF CountsInv, Uncrossed
<1> QED BY <1>1, <1>2, <1>3 DEF CountsInv

\* What the model sums up.
LEMMA UnderwayIsWeight == \A n : Underway(n) = Weight(entries, n)
BY SetSum DEF Underway, Weight, Of, BagToSet

LEMMA TotalIsSum == \A n : Total(n) = SumOf(insights[n], DOMAIN insights[n])
BY SeqSum DEF Total

\* Whatever fails and however entries cross, no insight counts more than there
\* was to count today (NeverOvercounted, handleStatEntry).
THEOREM NothingOvercounted == Spec => []NeverOvercounted
<1>1. CountsInv => NeverOvercounted
  <2> SUFFICES ASSUME CountsInv, NEW n \in Names PROVE Total(n) + Underway(n) <= emitted[n]
    BY DEF NeverOvercounted
  <2>1. PICK p : Peak(n, p)
    BY DEF CountsInv, Peaks
  <2>2. /\ insights[n] \in Seq(Nat) /\ emitted[n] \in Nat /\ Weight(entries, n) \in Nat
    BY WeightIsNumber DEF CountsInv, EntriesTyped
  <2>3. IsFiniteSet(DOMAIN insights[n])
    BY <2>2, FiniteSequence
  <2>4. Numbers(p, DOMAIN insights[n]) /\ Numbers(insights[n], DOMAIN insights[n])
        /\ \A i \in DOMAIN insights[n] : insights[n][i] <= p[i]
    BY <2>1, <2>2, <2>3 DEF Numbers, Peak
  <2>5. /\ SumOf(insights[n], DOMAIN insights[n]) <= SumOf(p, DOMAIN insights[n])
        /\ SumOf(insights[n], DOMAIN insights[n]) \in Nat /\ SumOf(p, DOMAIN insights[n]) \in Nat
    BY <2>4, SumGrows, SumIsNumber
  <2>6. SumOf(p, DOMAIN insights[n]) + Weight(entries, n) <= emitted[n]
    BY <2>1 DEF Peak
  <2> QED BY <2>2, <2>5, <2>6, UnderwayIsWeight, TotalIsSum
<1> QED BY <1>1, CountsInit, CountsStep, PTL DEF Spec

\* When nothing fails, an insight of which no two entries were handled at once
\* has one document, which counts each of them (ExactUnlessCrossed,
\* handleStatEntry and findOneOrCreate).
THEOREM UncrossedExact == Spec => []ExactUnlessCrossed
<1>1. CountsInv => ExactUnlessCrossed
  <2> SUFFICES ASSUME CountsInv, mode.faults = {}, NEW n \in Names \ crossed
               PROVE  Total(n) + Underway(n) = emitted[n] /\ Len(insights[n]) <= 1
    BY DEF ExactUnlessCrossed
  <2>1. OneEntry(n)
    BY DEF CountsInv, Uncrossed
  <2>2. insights[n] \in Seq(Nat)
    BY DEF CountsInv, EntriesTyped
  <2>3. SumOf(insights[n], DOMAIN insights[n]) = First(n)
    <3>1. CASE insights[n] = <<>>
      BY <3>1, SumOfNone DEF First
    <3>2. CASE insights[n] # <<>>
      <4>1. DOMAIN insights[n] = {1} /\ insights[n][1] \in Nat
        BY <2>1, <2>2, <3>2 DEF OneEntry
      <4>2. Numbers(insights[n], {1})
        BY <4>1, FS_Singleton DEF Numbers
      <4>3. SumOf(insights[n], {1}) = insights[n][1] + SumOf(insights[n], {1} \ {1})
        BY <4>2, SumSplits
      <4>4. {1} \ {1} = {} /\ SumOf(insights[n], {}) = 0
        BY SumOfNone
      <4>5. SumOf(insights[n], DOMAIN insights[n]) = insights[n][1]
        BY <4>1, <4>3, <4>4
      <4> QED BY <3>2, <4>5 DEF First
    <3> QED BY <3>1, <3>2
  <2> QED BY <2>1, <2>3, UnderwayIsWeight, TotalIsSum DEF OneEntry
<1> QED BY <1>1, CountsInit, CountsStep, PTL DEF Spec

-----------------------------------------------------------------------------
(* Retentions.                                                             *)

\* The retention of a document holds no long silence, and is not of the future.
Unbroken(d) ==
  /\ d.lastvisit <= now
  /\ \A v \in visits :
       d.retainedFrom <= v /\ v < d.lastvisit =>
         \E w \in visits : v < w /\ w <= v + RetentionReset

\* So it is of every document and of every copy; what is saved now is a visit
\* of now, to a document there is.
Kept ==
  /\ \A v \in visits : v <= now
  /\ \A i \in DOMAIN subscribers : Unbroken(subscribers[i])
  /\ \A m \in Messages :
       /\ Unbroken(copy[m])
       /\ "save" \in tasks[m] => now \in visits
       /\ stage[m] = "found" \/ "save" \in tasks[m] => copy[m].id \in DOMAIN subscribers

IInv == TypeOK /\ Kept

LEMMA InitKept == Init => IInv
<1> SUFFICES ASSUME Init PROVE IInv
  OBVIOUS
<1>1. NoDocument \in Documents /\ NoDocument.lastvisit = 0
  BY DEF NoDocument, Documents
<1>2. TypeOK
  BY <1>1 DEF Init, TypeOK
<1>3. Kept
  BY <1>1 DEF Init, Kept, Unbroken, Messages
<1>4. QED
  BY <1>2, <1>3 DEF IInv

\* A step that lets time stand, keeps the visits and the documents.
LEMMA KeptByRest ==
  ASSUME IInv, UNCHANGED <<mode, now, subscribers, visits, copy>>,
         stage' \in [Messages -> {"sent", "find", "create", "found", "visited"}],
         tasks' \in [Messages -> SUBSET {"save", "log", "answer"}],
         \A m \in Messages : tasks'[m] \subseteq tasks[m],
         \A m \in Messages : stage'[m] = "found" => stage[m] = "found"
  PROVE  IInv'
<1>1. TypeOK'
  BY DEF IInv, TypeOK
<1>2. Kept'
  BY DEF IInv, TypeOK, Kept, Unbroken
<1>3. QED
  BY <1>1, <1>2 DEF IInv

\* What is saved of an unbroken copy is unbroken.
LEMMA VisitedUnbroken ==
  ASSUME now \in Nat, visits \in SUBSET Nat, now \in visits,
         NEW d \in Documents, Unbroken(d)
  PROVE  Visited(d) \in Documents /\ Unbroken(Visited(d))
<1>1. /\ Visited(d) \in Documents
      /\ Visited(d).lastvisit = now
      /\ Visited(d).retainedFrom =
           IF now - d.lastvisit > RetentionReset THEN now ELSE d.retainedFrom
  BY DEF Visited, Documents
<1>2. ASSUME NEW v \in visits, Visited(d).retainedFrom <= v, v < now
      PROVE  \E w \in visits : v < w /\ w <= v + RetentionReset
  <2>1. now - d.lastvisit <= RetentionReset /\ d.retainedFrom <= v
    BY <1>1, <1>2 DEF Documents
  <2>2. CASE v < d.lastvisit
    BY <2>1, <2>2 DEF Unbroken
  <2>3. CASE ~(v < d.lastvisit)
    <3>1. v < now /\ now <= v + RetentionReset
      BY <1>2, <2>1, <2>3 DEF Documents
    <3>2. QED
      BY <3>1
  <2>4. QED
    BY <2>2, <2>3
<1>3. QED
  BY <1>1, <1>2 DEF Unbroken

LEMMA KeptStep == IInv /\ [Next]_vars => IInv'
<1> SUFFICES ASSUME IInv, [Next]_vars PROVE IInv'
  OBVIOUS
<1>1. ASSUME NEW m \in Messages, Receive(m) PROVE IInv'
  BY <1>1, KeptByRest DEF Receive, Goto, IInv, TypeOK, history
<1>2. ASSUME NEW m \in Messages, FindSubscriber(m) PROVE IInv'
  <2>1. CASE UNCHANGED copy /\ (Goto(m, "create") \/ Goto(m, "visited"))
    BY <1>2, <2>1, KeptByRest DEF FindSubscriber, Goto, IInv, TypeOK, history
  <2>2. ASSUME NEW i \in DOMAIN subscribers,
               copy' = [copy EXCEPT ![m] = [subscribers[i] EXCEPT !.id = i]],
               Goto(m, "found")
        PROVE  IInv'
    <3>0. i \in Nat /\ subscribers[i] \in Documents /\ Unbroken(subscribers[i])
      BY <2>2 DEF IInv, TypeOK, Kept
    <3> DEFINE d == [subscribers[i] EXCEPT !.id = i]
    <3>1. d \in Documents /\ d.id = i
          /\ d.lastvisit = subscribers[i].lastvisit
          /\ d.retainedFrom = subscribers[i].retainedFrom
      BY <3>0 DEF Documents
    <3>2. Unbroken(d)
      BY <3>0, <3>1 DEF Unbroken
    <3> HIDE DEF d
    <3>3. copy' \in [Messages -> Documents]
      BY <2>2, <3>1 DEF IInv, TypeOK, d
    <3>4. \A k \in Messages : copy'[k] = IF k = m THEN d ELSE copy[k]
      BY <2>2 DEF IInv, TypeOK, d
    <3>5. /\ UNCHANGED <<mode, now, subscribers, tasks, visits>>
          /\ stage' = [stage EXCEPT ![m] = "found"]
      BY <1>2, <2>2 DEF FindSubscriber, Goto, history
    <3>6. TypeOK'
      <4>1. stage' \in [Messages -> {"sent", "find", "create", "found", "visited"}]
        BY <3>5 DEF IInv, TypeOK
      <4>2. QED
        BY <3>3, <3>5, <4>1 DEF IInv, TypeOK
    <3>7. Kept'
      BY <3>1, <3>2, <3>4, <3>5 DEF IInv, TypeOK, Kept, Unbroken
    <3>8. QED
      BY <3>6, <3>7 DEF IInv
  <2>3. QED
    BY <1>2, <2>1, <2>2 DEF FindSubscriber
<1>3. ASSUME NEW m \in Messages, CreateSubscriber(m) PROVE IInv'
  <2>1. CASE Goto(m, "visited") /\ UNCHANGED <<subscribers, copy>>
    BY <1>3, <2>1, KeptByRest DEF CreateSubscriber, Goto, IInv, TypeOK
  <2>2. CASE Goto(m, "found")
    <3> DEFINE new == [id |-> Len(subscribers) + 1, lastvisit |-> now, retainedFrom |-> now]
    <3>1. /\ subscribers' = Append(subscribers, new)
          /\ copy' = [copy EXCEPT ![m] = new]
          /\ UNCHANGED <<mode, now, tasks, visits>>
          /\ stage' = [stage EXCEPT ![m] = "found"]
      BY <1>3, <2>2 DEF CreateSubscriber, Goto, IInv, TypeOK
    <3>2. new \in Documents /\ Unbroken(new) /\ new.id = Len(subscribers) + 1
      BY DEF IInv, TypeOK, Kept, Documents, Unbroken
    <3> HIDE DEF new
    <3>3. /\ subscribers' \in Seq(Documents)
          /\ DOMAIN subscribers' = 1 .. (Len(subscribers) + 1)
          /\ \A i \in DOMAIN subscribers' :
               subscribers'[i] = IF i = Len(subscribers) + 1 THEN new ELSE subscribers[i]
          /\ DOMAIN subscribers = 1 .. Len(subscribers)
          /\ Len(subscribers) \in Nat
      BY <3>1, <3>2 DEF IInv, TypeOK
    <3>4. /\ copy' \in [Messages -> Documents]
          /\ \A k \in Messages : copy'[k] = IF k = m THEN new ELSE copy[k]
          /\ stage' \in [Messages -> {"sent", "find", "create", "found", "visited"}]
      BY <3>1, <3>2 DEF IInv, TypeOK
    <3>5. TypeOK'
      BY <3>1, <3>3, <3>4 DEF IInv, TypeOK
    <3>6. \A i \in DOMAIN subscribers' : Unbroken(subscribers[i])'
      BY <3>1, <3>2, <3>3 DEF IInv, Kept, Unbroken
    <3>7. ASSUME NEW k \in Messages
          PROVE  /\ Unbroken(copy[k])'
                 /\ ("save" \in tasks[k] => now \in visits)'
                 /\ (stage[k] = "found" \/ "save" \in tasks[k] =>
                       copy[k].id \in DOMAIN subscribers)'
      BY <3>1, <3>2, <3>3, <3>4 DEF IInv, TypeOK, Kept, Unbroken
    <3>8. QED
      BY <3>1, <3>5, <3>6, <3>7 DEF IInv, Kept
  <2>3. QED
    BY <1>3, <2>1, <2>2 DEF CreateSubscriber
<1>4. ASSUME NEW m \in Messages, Visit(m) PROVE IInv'
  <2>1. /\ stage[m] = "found" /\ stage' = [stage EXCEPT ![m] = "visited"]
        /\ tasks' = [tasks EXCEPT ![m] = {"save", "log", "answer"}]
        /\ visits' = visits \cup {now}
        /\ UNCHANGED <<mode, now, subscribers, copy>>
    BY <1>4 DEF Visit, Goto
  <2>2. TypeOK'
    BY <2>1 DEF IInv, TypeOK
  <2>3. \A d \in Documents : Unbroken(d) => Unbroken(d)'
    BY <2>1 DEF IInv, TypeOK, Kept, Unbroken, Documents
  <2>4. \A i \in DOMAIN subscribers : subscribers[i] \in Documents
    BY DEF IInv, TypeOK
  <2>5. \A i \in DOMAIN subscribers' : Unbroken(subscribers[i])'
    BY <2>1, <2>3, <2>4 DEF IInv, Kept, Unbroken
  <2>6. \A k \in Messages : Unbroken(copy[k])'
    BY <2>1, <2>3 DEF IInv, TypeOK, Kept, Unbroken
  <2>7. \A k \in Messages :
          /\ "save" \in tasks'[k] => now \in visits'
          /\ stage'[k] = "found" \/ "save" \in tasks'[k] => copy[k].id \in DOMAIN subscribers
    BY <2>1 DEF IInv, TypeOK, Kept
  <2>8. \A v \in visits' : v <= now'
    BY <2>1 DEF IInv, TypeOK, Kept
  <2>9. QED
    BY <2>1, <2>2, <2>5, <2>6, <2>7, <2>8 DEF IInv, Kept
<1>5. ASSUME NEW m \in Messages, SaveVisit(m) PROVE IInv'
  <2>1. CASE UNCHANGED subscribers
    BY <1>5, <2>1, KeptByRest DEF SaveVisit, Finish, IInv, TypeOK, history
  <2>2. CASE subscribers' = [subscribers EXCEPT ![copy[m].id] = Visited(copy[m])]
    <3>1. /\ "save" \in tasks[m] /\ tasks' = [tasks EXCEPT ![m] = @ \ {"save"}]
          /\ UNCHANGED <<mode, now, stage, copy, visits>>
      BY <1>5 DEF SaveVisit, Finish, history
    <3>2. Visited(copy[m]) \in Documents /\ Unbroken(Visited(copy[m]))
      BY <3>1, VisitedUnbroken DEF IInv, TypeOK, Kept
    <3>3. copy[m].id \in DOMAIN subscribers
      BY <3>1 DEF IInv, Kept
    <3>4. /\ subscribers' \in Seq(Documents)
          /\ DOMAIN subscribers' = DOMAIN subscribers
          /\ \A i \in DOMAIN subscribers :
               subscribers'[i] = IF i = copy[m].id THEN Visited(copy[m]) ELSE subscribers[i]
      BY <2>2, <3>2, <3>3 DEF IInv, TypeOK
    <3>5. TypeOK'
      BY <3>1, <3>4 DEF IInv, TypeOK
    <3>6. \A i \in DOMAIN subscribers' : Unbroken(subscribers[i])'
      BY <3>1, <3>2, <3>4 DEF IInv, Kept, Unbroken
    <3>7. \A k \in Messages :
            /\ Unbroken(copy[k])'
            /\ "save" \in tasks'[k] => now' \in visits'
            /\ stage'[k] = "found" \/ "save" \in tasks'[k] =>
                 copy'[k].id \in DOMAIN subscribers'
      BY <3>1, <3>4 DEF IInv, TypeOK, Kept, Unbroken
    <3>8. QED
      BY <3>1, <3>5, <3>6, <3>7 DEF IInv, Kept
  <2>3. QED
    BY <1>5, <2>1, <2>2 DEF SaveVisit
<1>6. ASSUME NEW m \in Messages, LogMessage(m) \/ Answer(m) PROVE IInv'
  <2>1. PICK t \in {"log", "answer"} :
          /\ tasks' = [tasks EXCEPT ![m] = @ \ {t}]
          /\ UNCHANGED <<mode, now, subscribers, stage, copy, visits>>
    BY <1>6 DEF LogMessage, Answer, Finish
  <2>2. QED
    BY <2>1, KeptByRest DEF IInv, TypeOK
<1>7. ASSUME NEW e \in BagToSet(entries),
             FindInsight(e) \/ CreateInsight(e) \/ UpdateInsight(e)
      PROVE  IInv'
  BY <1>7, KeptByRest
     DEF FindInsight, CreateInsight, UpdateInsight, UnchangedForEntries, history, IInv, TypeOK
<1>8. ASSUME NEW d \in Pauses, Wait(d) PROVE IInv'
  <2>1. /\ now' = now + d /\ d \in Nat /\ now \in Nat
        /\ UNCHANGED <<mode, subscribers, stage, copy, tasks, visits>>
        /\ \A m \in Messages : tasks[m] = {}
    BY <1>8 DEF Wait, Quiet, Done, IInv, TypeOK
  <2>2. TypeOK'
    BY <2>1 DEF IInv, TypeOK
  <2>3. \A d2 \in Documents : Unbroken(d2) => Unbroken(d2)'
    BY <2>1 DEF Unbroken, Documents
  <2>4. \A i \in DOMAIN subscribers : subscribers[i] \in Documents
    BY DEF IInv, TypeOK
  <2>5. \A i \in DOMAIN subscribers' : Unbroken(subscribers[i])'
    BY <2>1, <2>3, <2>4 DEF IInv, Kept, Unbroken
  <2>6. \A m \in Messages : Unbroken(copy[m])'
    BY <2>1, <2>3 DEF IInv, TypeOK, Kept, Unbroken
  <2>7. \A v \in visits' : v <= now'
    BY <2>1 DEF IInv, TypeOK, Kept
  <2>8. QED
    BY <2>1, <2>2, <2>5, <2>6, <2>7 DEF IInv, Kept
<1>9. CASE Crash
  BY <1>9, KeptByRest DEF Crash, history, IInv, TypeOK
<1>10. CASE UNCHANGED vars
  BY <1>10, KeptByRest DEF vars, history, IInv, TypeOK
<1>11. QED
  BY <1>1, <1>2, <1>3, <1>4, <1>5, <1>6, <1>7, <1>8, <1>9, <1>10 DEF Next

\* The sender was never silent for longer than RetentionReset within the
\* retention of a document (PeriodUnbroken): the start is moved in time even by
\* handlers with an old copy, by saves that fail and after crashes.
THEOREM RetentionsUnbroken == Spec => []PeriodUnbroken
<1>1. IInv => PeriodUnbroken
  BY DEF IInv, Kept, Unbroken, PeriodUnbroken
<1>2. QED
  BY <1>1, InitKept, KeptStep, PTL DEF Spec

-----------------------------------------------------------------------------
(* Returns.                                                                *)

\* A document is as old as some visit; it is the last one's.
Seen(d) == visits # {} => \E v \in visits : d.lastvisit <= v
UpToDate(d) == \A v \in visits : v <= d.lastvisit

\* No document and no copy is newer than the visits.
Dated ==
  /\ emitted \in [Names -> Nat]
  /\ visits # {} => \E v \in visits : \A w \in visits : w <= v
  /\ visits # {} => subscribers # <<>>
  /\ \A i \in DOMAIN subscribers : Seen(subscribers[i])
  /\ \A m \in Messages :
       /\ Seen(copy[m])
       /\ stage[m] = "create" => visits = {} \/ now \in visits

\* Messages handled one by one find what the one before has saved.
OneByOne ==
  Alone =>
    /\ \A k, m \in Messages : ~Done(k) /\ ~Done(m) => k = m
    /\ Len(subscribers) <= 1
    /\ (\A m \in Messages : "save" \notin tasks[m]) =>
         \A i \in DOMAIN subscribers : UpToDate(subscribers[i])
    /\ \A m \in Messages :
         /\ stage[m] # "visited" => tasks[m] = {}
         /\ stage[m] = "create" => subscribers = <<>>
         /\ stage[m] = "found" => UpToDate(copy[m])

ReturnInv == Dated /\ OneByOne

LEMMA InitReturn == Init => ReturnInv
<1> SUFFICES ASSUME Init PROVE ReturnInv
  OBVIOUS
<1>1. Dated
  BY DEF Init, Dated, Seen
<1>2. OneByOne
  BY DEF Init, OneByOne, Done
<1> QED BY <1>1, <1>2 DEF ReturnInv

\* What is emitted of a name that is followed.
LEMMA EmitTyped ==
  ASSUME emitted \in [Names -> Nat], NEW S \in SUBSET Names, Emit(S)
  PROVE  /\ emitted' \in [Names -> Nat]
         /\ \A n \in mode.names \cap Names : emitted'[n] > emitted[n] <=> n \in S
<1>1. emitted' = [n \in Names |-> emitted[n] + IF n \in S \cap mode.names THEN 1 ELSE 0]
  BY DEF Emit
<1>2. \A n \in Names : emitted'[n] = emitted[n] + IF n \in S \cap mode.names THEN 1 ELSE 0
  BY <1>1
<1> QED BY <1>1, <1>2

\* Receive waits for the others, if messages are handled one by one.
LEMMA ReceivedAlone ==
  ASSUME NEW m \in Messages, Receive(m), Alone
  PROVE  \A k \in Messages : Done(k)
<1> DEFINE busy == {k \in Messages : ~Done(k)}
<1>1. IsFiniteSet(Messages)
  <2>1. 1 \in Int /\ MessageLimit \in Int
    OBVIOUS
  <2> QED BY <2>1, FS_Interval DEF Messages
<1>2. IsFiniteSet(busy)
  BY <1>1, FS_Subset
<1>3. Cardinality(busy) < 1
  BY DEF Receive, Alone
<1>4. Cardinality(busy) \in Nat
  BY <1>2, FS_CardinalityType
<1>5. busy = {}
  BY <1>2, <1>3, <1>4, FS_EmptySet
<1> QED BY <1>5

\* Steps that leave the documents, the copies and the visits alone.
LEMMA DatedByRest ==
  ASSUME IInv, Dated, UNCHANGED <<mode, now, subscribers, visits, copy>>,
         emitted' \in [Names -> Nat],
         \A m \in Messages : stage'[m] = "create" => stage[m] = "create" \/ subscribers = <<>>
  PROVE  Dated'
BY DEF Dated, Seen

LEMMA AloneByRest ==
  ASSUME IInv, OneByOne, UNCHANGED <<mode, subscribers, visits, copy, stage>>,
         \A m \in Messages : tasks'[m] \subseteq tasks[m],
         \A m \in Messages : "save" \in tasks[m] => "save" \in tasks'[m]
  PROVE  OneByOne'
<1> SUFFICES ASSUME Alone PROVE OneByOne'
  BY DEF OneByOne, Alone
<1>1. \A k \in Messages : ~Done(k)' => ~Done(k)
  BY DEF Done
<1> QED BY <1>1 DEF OneByOne, UpToDate

LEMMA DatedStep == IInv /\ Dated /\ [Next]_vars => Dated'
<1> SUFFICES ASSUME IInv, Dated, [Next]_vars PROVE Dated'
  OBVIOUS
<1>e. emitted \in [Names -> Nat]
  BY DEF Dated
<1>1. ASSUME NEW m \in Messages, Receive(m) PROVE Dated'
  BY <1>1, <1>e, DatedByRest DEF Receive, Goto, IInv, TypeOK, history
<1>2. ASSUME NEW m \in Messages, FindSubscriber(m) PROVE Dated'
  <2>1. CASE UNCHANGED copy
    BY <1>2, <1>e, <2>1, DatedByRest DEF FindSubscriber, Goto, IInv, TypeOK, history
  <2>2. ASSUME NEW i \in DOMAIN subscribers,
               copy' = [copy EXCEPT ![m] = [subscribers[i] EXCEPT !.id = i]],
               Goto(m, "found")
        PROVE  Dated'
    <3>1. /\ UNCHANGED <<now, subscribers, visits, emitted>>
          /\ stage' = [stage EXCEPT ![m] = "found"]
      BY <1>2, <2>2 DEF FindSubscriber, Goto, history
    <3>2. subscribers[i] \in Documents
      BY <2>2 DEF IInv, TypeOK
    <3>3. /\ copy'[m].lastvisit = subscribers[i].lastvisit
          /\ \A k \in Messages \ {m} : copy'[k] = copy[k]
      BY <2>2, <3>2 DEF IInv, TypeOK, Documents
    <3>4. \A k \in Messages : stage'[k] = "create" => stage[k] = "create"
      BY <3>1 DEF IInv, TypeOK
    <3> QED BY <2>2, <3>1, <3>3, <3>4 DEF Dated, Seen
  <2> QED BY <1>2, <2>1, <2>2 DEF FindSubscriber
<1>3. ASSUME NEW m \in Messages, CreateSubscriber(m) PROVE Dated'
  <2>1. CASE EmitNothing /\ UNCHANGED <<subscribers, copy>> /\ Goto(m, "visited")
    BY <1>3, <1>e, <2>1, DatedByRest DEF CreateSubscriber, Goto, EmitNothing, IInv, TypeOK
  <2> DEFINE new == [id |-> Len(subscribers) + 1, lastvisit |-> now, retainedFrom |-> now]
  <2>2. CASE /\ subscribers' = Append(subscribers, new) /\ copy' = [copy EXCEPT ![m] = new]
             /\ Goto(m, "found") /\ Emit({"New users"})
    <3>1. /\ UNCHANGED <<now, visits>>
          /\ stage[m] = "create" /\ stage' = [stage EXCEPT ![m] = "found"]
          /\ subscribers' = Append(subscribers, new) /\ copy' = [copy EXCEPT ![m] = new]
      BY <1>3, <2>2 DEF CreateSubscriber, Goto
    <3>2. emitted' \in [Names -> Nat]
      BY <1>e, <2>2, EmitTyped DEF Names
    <3>3. new \in Documents /\ new.lastvisit = now
      BY DEF IInv, TypeOK, Documents
    <3>4. visits # {} => now \in visits
      BY <3>1 DEF Dated
    <3> HIDE DEF new
    <3>5. /\ DOMAIN subscribers' = 1 .. (Len(subscribers) + 1)
          /\ \A i \in DOMAIN subscribers' :
               subscribers'[i] = IF i = Len(subscribers) + 1 THEN new ELSE subscribers[i]
          /\ DOMAIN subscribers = 1 .. Len(subscribers)
          /\ Len(subscribers) \in Nat
      BY <3>1, <3>3 DEF IInv, TypeOK
    <3>6. \A k \in Messages : copy'[k] = IF k = m THEN new ELSE copy[k]
      BY <3>1 DEF IInv, TypeOK
    <3>7. Seen(new)
      BY <3>3, <3>4 DEF Seen, IInv, TypeOK
    <3>8. \A i \in DOMAIN subscribers' : Seen(subscribers[i])'
      BY <3>1, <3>5, <3>7 DEF Dated, Seen
    <3>9. \A k \in Messages : Seen(copy[k])'
      BY <3>1, <3>6, <3>7 DEF Dated, Seen
    <3>10. \A k \in Messages : stage'[k] = "create" => stage[k] = "create"
      BY <3>1 DEF IInv, TypeOK
    <3>11. subscribers' # <<>>
      <4>1. DOMAIN subscribers' # {}
        BY <3>5
      <4> QED BY <4>1
    <3> QED BY <3>1, <3>2, <3>8, <3>9, <3>10, <3>11 DEF Dated
  <2> QED BY <1>3, <2>1, <2>2 DEF CreateSubscriber
<1>4. ASSUME NEW m \in Messages, Visit(m) PROVE Dated'
  <2>1. /\ stage[m] = "found" /\ stage' = [stage EXCEPT ![m] = "visited"]
        /\ visits' = visits \cup {now}
        /\ UNCHANGED <<now, subscribers, copy>>
        /\ Emit(VisitInsights(copy[m]))
    BY <1>4 DEF Visit, Goto
  <2>2. VisitInsights(copy[m]) \in SUBSET Names
    BY DEF VisitInsights, Names
  <2>3. emitted' \in [Names -> Nat]
    BY <1>e, <2>1, <2>2, EmitTyped
  <2>4. now \in visits' /\ \A w \in visits' : w <= now
    BY <2>1 DEF IInv, TypeOK, Kept
  <2>5. subscribers' # <<>>
    BY <2>1 DEF IInv, Kept
  <2>6. \A d \in Documents : Unbroken(d) => Seen(d)'
    BY <2>4 DEF Unbroken, Seen, Documents, IInv, TypeOK
  <2>7. \A i \in DOMAIN subscribers' : Seen(subscribers[i])'
    BY <2>1, <2>6 DEF IInv, TypeOK, Kept
  <2>8. \A k \in Messages : Seen(copy[k])'
    BY <2>1, <2>6 DEF IInv, TypeOK, Kept
  <2> QED BY <2>1, <2>3, <2>4, <2>5, <2>7, <2>8 DEF Dated
<1>5. ASSUME NEW m \in Messages, SaveVisit(m) PROVE Dated'
  <2>1. CASE UNCHANGED subscribers
    BY <1>5, <1>e, <2>1, DatedByRest DEF SaveVisit, history
  <2>2. CASE subscribers' = [subscribers EXCEPT ![copy[m].id] = Visited(copy[m])]
    <3>1. "save" \in tasks[m] /\ UNCHANGED <<now, stage, copy, visits, emitted>>
      BY <1>5 DEF SaveVisit, Finish, history
    <3>2. now \in visits /\ now \in Nat /\ copy[m] \in Documents
      BY <3>1 DEF IInv, Kept, TypeOK
    <3>3. Visited(copy[m]).lastvisit = now
      BY <3>2 DEF Visited, Documents
    <3>4. /\ DOMAIN subscribers' = DOMAIN subscribers
          /\ subscribers' # <<>>
          /\ \A i \in DOMAIN subscribers :
               subscribers'[i] = IF i = copy[m].id THEN Visited(copy[m]) ELSE subscribers[i]
      BY <2>2, <3>1 DEF IInv, Kept, TypeOK
    <3>5. \A i \in DOMAIN subscribers' : Seen(subscribers[i])'
      BY <3>1, <3>2, <3>3, <3>4 DEF Dated, Seen
    <3> QED BY <3>1, <3>4, <3>5 DEF Dated, Seen
  <2> QED BY <1>5, <2>1, <2>2 DEF SaveVisit
<1>6. ASSUME NEW m \in Messages, LogMessage(m) \/ Answer(m) PROVE Dated'
  <2>1. UNCHANGED <<mode, now, subscribers, visits, copy, stage>>
    BY <1>6 DEF LogMessage, Answer
  <2>2. emitted' \in [Names -> Nat]
    <3>1. \/ EmitNothing
          \/ Emit({"Incoming", "All Messages"})
          \/ Emit({"Outgoing", "All Messages"})
      BY <1>6 DEF LogMessage, Answer
    <3> QED BY <3>1, <1>e, EmitTyped DEF EmitNothing, Names
  <2> QED BY <2>1, <2>2, DatedByRest
<1>7. ASSUME NEW e \in BagToSet(entries),
             FindInsight(e) \/ CreateInsight(e) \/ UpdateInsight(e)
      PROVE  Dated'
  BY <1>7, <1>e, DatedByRest
     DEF FindInsight, CreateInsight, UpdateInsight, UnchangedForEntries, history
<1>8. ASSUME NEW d \in Pauses, Wait(d) PROVE Dated'
  <2>1. /\ UNCHANGED <<subscribers, stage, copy, visits>>
        /\ \A m \in Messages : stage[m] # "create"
        /\ emitted' \in [Names -> Nat]
    BY <1>8, <1>e DEF Wait, Quiet, Done
  <2> QED BY <2>1 DEF Dated, Seen
<1>9. CASE Crash
  BY <1>9, <1>e, DatedByRest DEF Crash, history
<1>10. CASE UNCHANGED vars
  BY <1>10, <1>e, DatedByRest DEF vars, history
<1> QED BY <1>1, <1>2, <1>3, <1>4, <1>5, <1>6, <1>7, <1>8, <1>9, <1>10 DEF Next

LEMMA AloneStep == IInv /\ Dated /\ OneByOne /\ [Next]_vars => OneByOne'
<1> SUFFICES ASSUME IInv, Dated, OneByOne, [Next]_vars, Alone PROVE OneByOne'
  BY DEF OneByOne, Alone, Next, Receive, FindSubscriber, CreateSubscriber, Visit, SaveVisit,
         LogMessage, Answer, FindInsight, CreateInsight, UpdateInsight, UnchangedForEntries,
         Wait, Crash, vars
<1> DEFINE Saved == \A m \in Messages : "save" \notin tasks[m]
<1>i. /\ \A k, m \in Messages : ~Done(k) /\ ~Done(m) => k = m
      /\ Len(subscribers) <= 1
      /\ Saved => \A i \in DOMAIN subscribers : UpToDate(subscribers[i])
      /\ \A m \in Messages :
           /\ stage[m] # "visited" => tasks[m] = {}
           /\ stage[m] = "create" => subscribers = <<>>
           /\ stage[m] = "found" => UpToDate(copy[m])
  BY DEF OneByOne
<1>f. ~Fails
  BY DEF Fails, Alone
<1>1. ASSUME NEW m \in Messages, Receive(m) PROVE OneByOne'
  <2>1. /\ stage[m] = "sent" /\ stage' = [stage EXCEPT ![m] = "find"]
        /\ UNCHANGED <<mode, subscribers, copy, tasks, visits>>
    BY <1>1 DEF Receive, Goto, history
  <2>2. \A k \in Messages : Done(k)
    BY <1>1, ReceivedAlone
  <2>3. stage'[m] = "find" /\ \A k \in Messages \ {m} : stage'[k] = stage[k]
    BY <2>1 DEF IInv, TypeOK
  <2>4. \A k, j \in Messages : ~Done(k)' /\ ~Done(j)' => k = j
    BY <2>1, <2>2, <2>3 DEF Done
  <2> QED BY <1>i, <2>1, <2>3, <2>4 DEF OneByOne, UpToDate
<1>2. ASSUME NEW m \in Messages, FindSubscriber(m) PROVE OneByOne'
  <2>1. stage[m] = "find" /\ ~Done(m) /\ UNCHANGED <<mode, subscribers, tasks, visits>>
    BY <1>2 DEF FindSubscriber, Done, history
  <2>2. \A k \in Messages : tasks[k] = {}
    BY <1>i, <2>1 DEF Done
  <2>3. \A i \in DOMAIN subscribers : UpToDate(subscribers[i])
    BY <1>i, <2>2
  <2>4. CASE subscribers = <<>> /\ Goto(m, "create") /\ UNCHANGED copy
    <3>1. stage'[m] = "create" /\ \A k \in Messages \ {m} : stage'[k] = stage[k]
      BY <2>4 DEF Goto, IInv, TypeOK
    <3>2. \A k \in Messages : ~Done(k)' => ~Done(k)
      BY <2>1, <3>1 DEF Done
    <3> QED BY <1>i, <2>1, <2>4, <3>1, <3>2 DEF OneByOne, UpToDate
  <2>5. ASSUME NEW i \in DOMAIN subscribers,
               copy' = [copy EXCEPT ![m] = [subscribers[i] EXCEPT !.id = i]], Goto(m, "found")
        PROVE  OneByOne'
    <3>1. stage'[m] = "found" /\ \A k \in Messages \ {m} : stage'[k] = stage[k]
      BY <2>5 DEF Goto, IInv, TypeOK
    <3>2. \A k \in Messages : ~Done(k)' => ~Done(k)
      BY <2>1, <3>1 DEF Done
    <3>3. subscribers[i] \in Documents
      BY <2>5 DEF IInv, TypeOK
    <3>4. /\ copy'[m].lastvisit = subscribers[i].lastvisit
          /\ \A k \in Messages \ {m} : copy'[k] = copy[k]
      BY <2>5, <3>3 DEF IInv, TypeOK, Documents
    <3>5. UpToDate(copy[m])'
      BY <2>1, <2>3, <2>5, <3>4 DEF UpToDate
    <3> QED BY <1>i, <2>1, <3>1, <3>2, <3>4, <3>5 DEF OneByOne, UpToDate
  <2> QED BY <1>2, <1>f, <2>4, <2>5 DEF FindSubscriber
<1>3. ASSUME NEW m \in Messages, CreateSubscriber(m) PROVE OneByOne'
  <2> DEFINE new == [id |-> Len(subscribers) + 1, lastvisit |-> now, retainedFrom |-> now]
  <2>1. /\ stage[m] = "create" /\ ~Done(m)
        /\ stage' = [stage EXCEPT ![m] = "found"]
        /\ subscribers' = Append(subscribers, new) /\ copy' = [copy EXCEPT ![m] = new]
        /\ UNCHANGED <<mode, tasks, visits>>
    BY <1>3, <1>f DEF CreateSubscriber, Goto, Done
  <2>2. subscribers = <<>> /\ new \in Documents /\ new.lastvisit = now
    BY <1>i, <2>1 DEF IInv, TypeOK, Documents
  <2> HIDE DEF new
  <2>3. subscribers' = <<new>>
    BY <2>1, <2>2
  <2>4. Len(subscribers') = 1 /\ \A i \in DOMAIN subscribers' : subscribers'[i] = new
    BY <2>3
  <2>5. UpToDate(new)
    BY <2>2 DEF UpToDate, IInv, Kept
  <2>6. /\ stage'[m] = "found" /\ \A k \in Messages \ {m} : stage'[k] = stage[k]
        /\ copy'[m] = new /\ \A k \in Messages \ {m} : copy'[k] = copy[k]
    BY <2>1 DEF IInv, TypeOK
  <2>7. \A k \in Messages : ~Done(k)' => ~Done(k)
    BY <2>1, <2>6 DEF Done
  <2>8. \A k \in Messages \ {m} : stage[k] # "create"
    BY <1>i, <2>1 DEF Done
  <2> QED BY <1>i, <2>1, <2>4, <2>5, <2>6, <2>7, <2>8 DEF OneByOne, UpToDate
<1>4. ASSUME NEW m \in Messages, Visit(m) PROVE OneByOne'
  <2>1. /\ stage[m] = "found" /\ ~Done(m)
        /\ stage' = [stage EXCEPT ![m] = "visited"]
        /\ tasks' = [tasks EXCEPT ![m] = {"save", "log", "answer"}]
        /\ UNCHANGED <<mode, subscribers, copy>>
    BY <1>4 DEF Visit, Goto, Done
  <2>2. /\ stage'[m] = "visited" /\ \A k \in Messages \ {m} : stage'[k] = stage[k]
        /\ "save" \in tasks'[m] /\ \A k \in Messages \ {m} : tasks'[k] = tasks[k]
    BY <2>1 DEF IInv, TypeOK
  <2>3. \A k \in Messages : ~Done(k)' => ~Done(k)
    BY <2>1, <2>2 DEF Done
  <2>4. \A k \in Messages \ {m} : Done(k)
    BY <1>i, <2>1
  <2>5. \A k \in Messages : stage'[k] \notin {"create", "found"}
    BY <2>2, <2>4 DEF Done
  <2> QED BY <1>i, <2>1, <2>2, <2>3, <2>5 DEF OneByOne
<1>5. ASSUME NEW m \in Messages, SaveVisit(m) PROVE OneByOne'
  <2>1. /\ "save" \in tasks[m] /\ ~Done(m)
        /\ subscribers' = [subscribers EXCEPT ![copy[m].id] = Visited(copy[m])]
        /\ tasks' = [tasks EXCEPT ![m] = @ \ {"save"}]
        /\ UNCHANGED <<mode, stage, copy, visits>>
    BY <1>5, <1>f DEF SaveVisit, Finish, Done, history
  <2>2. Visited(copy[m]).lastvisit = now
    BY DEF Visited, Documents, IInv, TypeOK
  <2>3. UpToDate(Visited(copy[m]))
    BY <2>2 DEF UpToDate, IInv, Kept
  <2>4. /\ DOMAIN subscribers' = DOMAIN subscribers /\ Len(subscribers') = Len(subscribers)
        /\ copy[m].id \in DOMAIN subscribers /\ subscribers'[copy[m].id] = Visited(copy[m])
    BY <2>1 DEF IInv, TypeOK, Kept
  <2>5. \A i \in DOMAIN subscribers : i = 1
    BY <1>i DEF IInv, TypeOK
  <2>6. \A i \in DOMAIN subscribers' : UpToDate(subscribers[i])'
    BY <2>1, <2>3, <2>4, <2>5 DEF UpToDate
  <2>7. /\ \A k \in Messages : tasks'[k] \subseteq tasks[k]
        /\ \A k \in Messages : ~Done(k)' => ~Done(k)
    BY <2>1 DEF Done, IInv, TypeOK
  <2>8. stage[m] = "visited" /\ \A k \in Messages \ {m} : Done(k)
    BY <1>i, <2>1
  <2>9. \A k \in Messages : stage'[k] \notin {"create", "found"}
    BY <2>1, <2>8 DEF Done
  <2> QED BY <1>i, <2>1, <2>4, <2>6, <2>7, <2>9 DEF OneByOne
<1>6. ASSUME NEW m \in Messages, LogMessage(m) \/ Answer(m) PROVE OneByOne'
  <2>1. PICK t \in {"log", "answer"} :
          /\ tasks' = [tasks EXCEPT ![m] = @ \ {t}]
          /\ UNCHANGED <<mode, subscribers, visits, copy, stage>>
    BY <1>6 DEF LogMessage, Answer, Finish
  <2> QED BY <2>1, AloneByRest DEF IInv, TypeOK
<1>7. ASSUME NEW e \in BagToSet(entries),
             FindInsight(e) \/ CreateInsight(e) \/ UpdateInsight(e)
      PROVE  OneByOne'
  BY <1>7, AloneByRest
     DEF FindInsight, CreateInsight, UpdateInsight, UnchangedForEntries, history
<1>8. ASSUME NEW d \in Pauses, Wait(d) PROVE OneByOne'
  BY <1>8, AloneByRest DEF Wait
<1>9. CASE Crash
  BY <1>9 DEF Crash, Alone
<1>10. CASE UNCHANGED vars
  BY <1>10, AloneByRest DEF vars, history
<1> QED BY <1>1, <1>2, <1>3, <1>4, <1>5, <1>6, <1>7, <1>8, <1>9, <1>10 DEF Next

\* The last of the visits is the one the copy of a message is compared with.
LEMMA LastVisit ==
  ASSUME IInv, Dated, visits # {}
  PROVE  /\ Max(visits) \in visits
         /\ \A v \in visits : v <= Max(visits)
         /\ \A m \in Messages : copy[m].lastvisit <= Max(visits)
<1>1. PICK last \in visits : \A w \in visits : last >= w
  BY DEF Dated, IInv, TypeOK
<1>2. Max(visits) \in visits /\ \A w \in visits : Max(visits) >= w
  BY <1>1 DEF Max
<1>3. \A m \in Messages : copy[m].lastvisit <= Max(visits)
  <2> SUFFICES ASSUME NEW m \in Messages PROVE copy[m].lastvisit <= Max(visits)
    OBVIOUS
  <2>1. visits \in SUBSET Nat /\ copy[m].lastvisit \in Nat
    BY DEF IInv, TypeOK, Documents
  <2>2. PICK v \in visits : copy[m].lastvisit <= v
    BY DEF Dated, Seen
  <2>3. v \in Nat /\ Max(visits) \in Nat /\ Max(visits) >= v
    BY <1>2, <2>1
  <2> QED BY <2>1, <2>2, <2>3
<1> QED BY <1>2, <1>3 DEF IInv, TypeOK

LEMMA ReturnedStep ==
  ASSUME IInv, ReturnInv, NEW n \in Names, NEW threshold \in Nat,
         \A d \in Documents : n \in VisitInsights(d) <=> now - d.lastvisit > threshold
  PROVE  Returned(n, threshold)
<1> SUFFICES ASSUME NEW m \in Messages, Visit(m), visits # {}, n \in mode.names
    PROVE  /\ now - Max(visits) > threshold => emitted'[n] > emitted[n]
           /\ Alone /\ emitted'[n] > emitted[n] => now - Max(visits) > threshold
  BY DEF Returned
<1>1. /\ now \in Nat /\ Max(visits) \in Nat /\ copy[m] \in Documents /\ copy[m].lastvisit \in Nat
      /\ copy[m].lastvisit <= Max(visits)
      /\ Max(visits) \in visits
  BY LastVisit DEF ReturnInv, IInv, TypeOK, Documents
<1>2. VisitInsights(copy[m]) \in SUBSET Names
  BY DEF VisitInsights, Names
<1>3. emitted'[n] > emitted[n] <=> n \in VisitInsights(copy[m])
  BY <1>2, EmitTyped DEF Visit, ReturnInv, Dated
<1>4. emitted'[n] > emitted[n] <=> now - copy[m].lastvisit > threshold
  BY <1>1, <1>3
<1>5. Alone => Max(visits) <= copy[m].lastvisit
  BY <1>1 DEF ReturnInv, OneByOne, UpToDate, Visit
<1> QED BY <1>1, <1>4, <1>5

\* A sender who comes back after a silence is counted, whatever is handled at
\* once and whatever fails; messages handled one by one without a failure
\* count nobody else (ReturnsCounted, the two handlers of hook:user:lastvisit).
THEOREM ReturnsAlwaysCounted == Spec => ReturnsCounted
<1>1. IInv /\ ReturnInv /\ [Next]_vars => ReturnInv'
  BY DatedStep, AloneStep DEF ReturnInv
<1>2. IInv /\ ReturnInv => Returned("Returning users", Returning) /\ Returned("Loyalty", Loyalty)
  <2> SUFFICES ASSUME IInv, ReturnInv
               PROVE  Returned("Returning users", Returning) /\ Returned("Loyalty", Loyalty)
    OBVIOUS
  <2>1. \A d \in Documents :
          /\ "Returning users" \in VisitInsights(d) <=> now - d.lastvisit > Returning
          /\ "Loyalty" \in VisitInsights(d) <=> now - d.lastvisit > Loyalty
    BY DEF VisitInsights
  <2>2. "Returning users" \in Names /\ "Loyalty" \in Names /\ Returning \in Nat /\ Loyalty \in Nat
    BY DEF Names
  <2> QED BY <2>1, <2>2, ReturnedStep
<1> QED BY <1>1, <1>2, InitKept, InitReturn, KeptStep, PTL DEF Spec, ReturnsCounted

=============================================================================
