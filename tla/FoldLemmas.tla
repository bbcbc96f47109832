----------------------------- MODULE FoldLemmas -----------------------------
(***************************************************************************)
(* What the operators of the community modules compute that the models are *)
(* built from: MapThenSumSet for any finite set and any integer weights of *)
(* its elements (the sum does not depend on the order in which the fold    *)
(* takes the elements), and FlattenSeq for any sequence of sequences.      *)
(*                                                                         *)
(* Both are recursive functions.  That there is such a function, and what  *)
(* is said of its values, is shown by induction, as the absence of a least *)
(* exception.                                                              *)
(***************************************************************************)
EXTENDS Integers, Sequences, SequencesExt, FiniteSets, FiniteSetsExt, SequenceTheorems,
        FiniteSetTheorems, WellFoundedInduction, TLAPS

(* A set of numbers, unless it is empty, has a least one. *)
LEMMA LeastNumber ==
  ASSUME NEW B \in SUBSET Nat, B # {}
  PROVE  \E m \in B : \A n \in Nat : n < m => n \notin B
<1> DEFINE R == OpToRel(<, Nat)
<1>1. IsWellFoundedOn(R, Nat)
  BY NatLessThanWellFounded
<1>2. \A x, y \in Nat : <<y, x>> \in R <=> y < x
  BY DEF OpToRel
<1> HIDE DEF R
<1>3. PICK m \in B : \A n \in B : ~(<<n, m>> \in R)
  BY <1>1, WFMin
<1> QED BY <1>2, <1>3
-----------------------------------------------------------------------------
(* MapThenSumSet: it takes the elements out of the set one by one, each with
   CHOOSE; its value is that of a recursive function on the subsets. *)

SumOf(w, S) == MapThenSumSet(LAMBDA b : w[b], S)

(* The element the fold takes from T, and the recursion over the subsets of S. *)
Pick(T) == CHOOSE x \in T : TRUE
Fold(f, w, T) == IF T = {} THEN 0 ELSE w[Pick(T)] + f[T \ {Pick(T)}]
Folds(f, w, S) == f = [T \in SUBSET S |-> Fold(f, w, T)]

IntWeights(w, S) == \A x \in S : w[x] \in Int
IntFolds(f, w, S) == f \in [SUBSET S -> Int] /\ Folds(f, w, S)

(* SumOf is defined by that recursion. *)
LEMMA SumUnfold ==
  ASSUME NEW w, NEW S
  PROVE  SumOf(w, S) = (CHOOSE f : Folds(f, w, S))[S]
BY DEF SumOf, MapThenSumSet, MapThenFoldSet, Folds, Fold, Pick

LEMMA PickIn == ASSUME NEW T, T # {} PROVE Pick(T) \in T
BY DEF Pick

(* A set of subsets of a finite set, unless it is empty, has a member of least
   cardinality. *)
LEMMA LeastSubset ==
  ASSUME NEW S, IsFiniteSet(S), NEW B \in SUBSET SUBSET S, B # {}
  PROVE  \E T \in B : \A U \in SUBSET S : Cardinality(U) < Cardinality(T) => U \notin B
<1> DEFINE C == {Cardinality(T) : T \in B}
<1>1. \A T \in SUBSET S : Cardinality(T) \in Nat
  BY FS_Subset, FS_CardinalityType
<1>2. C \in SUBSET Nat /\ C # {}
  BY <1>1
<1> HIDE DEF C
<1>3. PICK m \in C : \A n \in Nat : n < m => n \notin C
  BY <1>2, LeastNumber
<1>4. PICK T \in B : Cardinality(T) = m
  BY <1>3 DEF C
<1>5. ASSUME NEW U \in SUBSET S, Cardinality(U) < Cardinality(T), U \in B PROVE FALSE
  BY <1>1, <1>3, <1>4, <1>5 DEF C
<1> QED BY <1>4, <1>5

(* Taking an element out of a finite set. *)
LEMMA SmallerWithout ==
  ASSUME NEW S, IsFiniteSet(S), NEW T \in SUBSET S, NEW x \in T
  PROVE  Cardinality(T \ {x}) < Cardinality(T)
<1>1. IsFiniteSet(T)
  BY FS_Subset
<1>2. Cardinality(T \ {x}) = Cardinality(T) - 1 /\ Cardinality(T) \in Nat
  BY <1>1, FS_RemoveElement, FS_CardinalityType
<1> QED BY <1>2

(* Two folds with the same weights agree, whatever sets they are defined on. *)
LEMMA FoldsAgree ==
  ASSUME NEW S, IsFiniteSet(S), NEW D, NEW E, S \subseteq D, S \subseteq E,
         NEW v, NEW w, \A x \in S : v[x] = w[x],
         NEW f, NEW g, Folds(f, v, D), Folds(g, w, E)
  PROVE  f[S] = g[S]
<1> DEFINE B == {T \in SUBSET S : f[T] # g[T]}
<1> SUFFICES ASSUME B # {} PROVE FALSE
  OBVIOUS
<1>0. B \in SUBSET SUBSET S
  OBVIOUS
<1>1. PICK T \in B : \A U \in SUBSET S : Cardinality(U) < Cardinality(T) => U \notin B
  <2> HIDE DEF B
  <2> QED BY <1>0, LeastSubset
<1>2. T \in SUBSET S /\ T \in SUBSET D /\ T \in SUBSET E
  OBVIOUS
<1>3. f[T] = Fold(f, v, T) /\ g[T] = Fold(g, w, T)
  BY <1>2 DEF Folds
<1>4. CASE T = {}
  BY <1>1, <1>3, <1>4 DEF Fold
<1>5. CASE T # {}
  <2>1. Pick(T) \in T
    BY <1>5, PickIn
  <2>2. T \ {Pick(T)} \in SUBSET S /\ T \ {Pick(T)} \notin B
    BY <1>1, <1>2, <2>1, SmallerWithout
  <2>3. f[T \ {Pick(T)}] = g[T \ {Pick(T)}] /\ v[Pick(T)] = w[Pick(T)]
    BY <1>2, <2>1, <2>2
  <2> QED BY <1>1, <1>3, <1>5, <2>3 DEF Fold
<1> QED BY <1>4, <1>5

(* There is a fold over the subsets of a finite set, and its values are
   integers when the weights are. *)
LEMMA FoldsExists ==
  ASSUME NEW S, IsFiniteSet(S), NEW w, IntWeights(w, S)
  PROVE  \E f : IntFolds(f, w, S)
<1> DEFINE Upto(f, k) == \A T \in SUBSET S : Cardinality(T) <= k => f[T] = Fold(f, w, T)
           Bad == {k \in Nat : ~ \E f \in [SUBSET S -> Int] : Upto(f, k)}
<1>0. \A T \in SUBSET S : Cardinality(T) \in Nat /\ (T = {} <=> Cardinality(T) = 0)
  <2> SUFFICES ASSUME NEW T \in SUBSET S
               PROVE  Cardinality(T) \in Nat /\ (T = {} <=> Cardinality(T) = 0)
    OBVIOUS
  <2>1. IsFiniteSet(T)
    BY FS_Subset
  <2> QED BY <2>1, FS_CardinalityType, FS_EmptySet
<1>1. ASSUME NEW f \in [SUBSET S -> Int], NEW T \in SUBSET S
      PROVE  Fold(f, w, T) \in Int
  BY PickIn DEF Fold, IntWeights
<1>2. \E f \in [SUBSET S -> Int] : Upto(f, 0)
  <2> DEFINE z == [T \in SUBSET S |-> 0]
  <2>1. z \in [SUBSET S -> Int]
    OBVIOUS
  <2>2. Upto(z, 0)
    <3> SUFFICES ASSUME NEW T \in SUBSET S, Cardinality(T) <= 0
                 PROVE  z[T] = Fold(z, w, T)
      OBVIOUS
    <3>1. T = {}
      BY <1>0
    <3> QED BY <3>1 DEF Fold
  <2> QED BY <2>1, <2>2
<1>3. ASSUME NEW k \in Nat, NEW f \in [SUBSET S -> Int], Upto(f, k)
      PROVE  \E g \in [SUBSET S -> Int] : Upto(g, k + 1)
  <2> DEFINE g == [T \in SUBSET S |-> IF Cardinality(T) <= k THEN f[T] ELSE Fold(f, w, T)]
  <2>1. g \in [SUBSET S -> Int]
    BY <1>1
  <2>2. ASSUME NEW T \in SUBSET S, Cardinality(T) <= k + 1
        PROVE  g[T] = Fold(g, w, T)
    <3>1. g[T] = Fold(f, w, T)
      BY <1>3
    <3>2. CASE T = {}
      BY <3>1, <3>2 DEF Fold
    <3>3. CASE T # {}
      <4> DEFINE U == T \ {Pick(T)}
      <4>1. Pick(T) \in T
        BY <3>3, PickIn
      <4>2. U \in SUBSET S /\ Cardinality(U) < Cardinality(T)
        BY <4>1, SmallerWithout
      <4>3. Cardinality(U) <= k
        BY <1>0, <2>2, <4>2
      <4>4. g[U] = f[U]
        BY <4>2, <4>3
      <4> QED BY <3>1, <3>3, <4>4 DEF Fold
    <3> QED BY <3>2, <3>3
  <2> HIDE DEF g
  <2> QED BY <2>1, <2>2
<1> HIDE DEF Upto
<1>4. Bad = {}
  <2> SUFFICES ASSUME Bad # {} PROVE FALSE
    OBVIOUS
  <2>1. Bad \in SUBSET Nat /\ 0 \notin Bad
    BY <1>2
  <2> HIDE DEF Bad
  <2>2. PICK m \in Bad : \A n \in Nat : n < m => n \notin Bad
    BY <2>1, LeastNumber
  <2>3. m \in Nat /\ m - 1 \in Nat /\ m - 1 < m
    BY <2>1
  <2>4. PICK f \in [SUBSET S -> Int] : Upto(f, m - 1)
    BY <2>2, <2>3 DEF Bad
  <2>5. \E g \in [SUBSET S -> Int] : Upto(g, (m - 1) + 1)
    BY <1>3, <2>3, <2>4
  <2>6. (m - 1) + 1 = m
    BY <2>3
  <2> QED BY <2>2, <2>5, <2>6 DEF Bad
<1>5. Cardinality(S) \in Nat
  BY <1>0
<1>6. PICK f \in [SUBSET S -> Int] : Upto(f, Cardinality(S))
  BY <1>4, <1>5
<1>7. ASSUME NEW T \in SUBSET S PROVE f[T] = Fold(f, w, T)
  <2>1. Cardinality(T) <= Cardinality(S)
    BY FS_Subset
  <2> QED BY <1>6, <2>1 DEF Upto
<1>8. f = [T \in SUBSET S |-> Fold(f, w, T)]
  BY <1>7
<1> QED BY <1>8 DEF Folds, IntFolds

LEMMA SumIsFold ==
  ASSUME NEW S, IsFiniteSet(S), NEW D, IsFiniteSet(D), S \subseteq D,
         NEW w, IntWeights(w, D), NEW f, Folds(f, w, D)
  PROVE  SumOf(w, S) = f[S]
<1>0. IntWeights(w, S)
  BY DEF IntWeights
<1>1. \E g : Folds(g, w, S)
  BY <1>0, FoldsExists DEF IntFolds
<1> DEFINE g == CHOOSE h : Folds(h, w, S)
<1>2. Folds(g, w, S)
  BY <1>1
<1>3. SumOf(w, S) = g[S]
  BY SumUnfold
<1> HIDE DEF g
<1>4. g[S] = f[S]
  BY <1>2, FoldsAgree
<1> QED BY <1>3, <1>4

(* Any element may be taken first. *)
LEMMA FoldsAnyOrder ==
  ASSUME NEW S, IsFiniteSet(S), NEW w, IntWeights(w, S),
         NEW f, IntFolds(f, w, S)
  PROVE  \A x \in S : f[S] = w[x] + f[S \ {x}]
<1> USE DEF IntFolds
<1> DEFINE Good(T) == \A x \in T : f[T] = w[x] + f[T \ {x}]
           B == {T \in SUBSET S : ~Good(T)}
<1> SUFFICES ASSUME B # {} PROVE FALSE
  OBVIOUS
<1>0. B \in SUBSET SUBSET S
  OBVIOUS
<1>1. PICK T \in B : \A U \in SUBSET S : Cardinality(U) < Cardinality(T) => U \notin B
  <2> HIDE DEF B
  <2> QED BY <1>0, LeastSubset
<1>2. T \in SUBSET S
  OBVIOUS
<1>3. PICK x \in T : f[T] # w[x] + f[T \ {x}]
  BY <1>1
<1>4. Pick(T) \in T
  BY <1>3, PickIn
<1> DEFINE y == Pick(T)
<1>5. f[T] = w[y] + f[T \ {y}]
  BY <1>2, <1>3 DEF Folds, Fold
<1>6. y \in T
  BY <1>4
<1> HIDE DEF y
<1>7. x # y
  BY <1>3, <1>5
<1>8. T \ {y} \in SUBSET S /\ T \ {x} \in SUBSET S /\ x \in T \ {y} /\ y \in T \ {x}
  BY <1>2, <1>6, <1>7
<1>9. Good(T \ {y}) /\ Good(T \ {x})
  BY <1>1, <1>2, <1>6, <1>8, SmallerWithout
<1>10. (T \ {y}) \ {x} = (T \ {x}) \ {y} /\ (T \ {x}) \ {y} \in SUBSET S
  BY <1>2
<1>11. f[T \ {y}] = w[x] + f[(T \ {x}) \ {y}] /\ f[T \ {x}] = w[y] + f[(T \ {x}) \ {y}]
  BY <1>8, <1>9, <1>10
<1>12. w[x] \in Int /\ w[y] \in Int /\ f[(T \ {x}) \ {y}] \in Int
  BY <1>2, <1>6, <1>10 DEF IntWeights
<1> QED BY <1>3, <1>5, <1>11, <1>12
-----------------------------------------------------------------------------
LEMMA SumEmpty == ASSUME NEW w PROVE SumOf(w, {}) = 0
<1> DEFINE f == [T \in SUBSET {} |-> 0]
<1>1. Folds(f, w, {})
  BY DEF Folds, Fold
<1>2. SumOf(w, {}) = f[{}]
  BY <1>1, FS_EmptySet, SumIsFold DEF IntWeights
<1> QED BY <1>2

LEMMA SumInt ==
  ASSUME NEW S, IsFiniteSet(S), NEW w, IntWeights(w, S)
  PROVE  SumOf(w, S) \in Int
<1>1. PICK f : IntFolds(f, w, S)
  BY FoldsExists
<1> QED BY <1>1, SumIsFold DEF IntFolds

(* The sum depends on the weights of the elements only. *)
LEMMA SumSame ==
  ASSUME NEW S, IsFiniteSet(S), NEW v, NEW w, IntWeights(w, S), \A x \in S : v[x] = w[x]
  PROVE  SumOf(v, S) = SumOf(w, S)
<1>0. IntWeights(v, S)
  BY DEF IntWeights
<1>1. PICK f : Folds(f, v, S)
  BY <1>0, FoldsExists DEF IntFolds
<1>2. PICK g : Folds(g, w, S)
  BY FoldsExists DEF IntFolds
<1>3. SumOf(v, S) = f[S] /\ SumOf(w, S) = g[S]
  BY <1>0, <1>1, <1>2, SumIsFold
<1>4. f[S] = g[S]
  BY <1>1, <1>2, FoldsAgree
<1> QED BY <1>3, <1>4

(* One element more. *)
LEMMA SumWithout ==
  ASSUME NEW S, IsFiniteSet(S), NEW w, IntWeights(w, S), NEW a \in S
  PROVE  SumOf(w, S) = w[a] + SumOf(w, S \ {a})
<1>1. PICK f : IntFolds(f, w, S)
  BY FoldsExists
<1>2. SumOf(w, S) = f[S]
  BY <1>1, SumIsFold DEF IntFolds
<1>3. IsFiniteSet(S \ {a}) /\ S \ {a} \subseteq S
  BY FS_Subset
<1>4. SumOf(w, S \ {a}) = f[S \ {a}]
  BY <1>1, <1>3, SumIsFold DEF IntFolds
<1>5. \A x \in S : f[S] = w[x] + f[S \ {x}]
  BY <1>1, FoldsAnyOrder
<1> QED BY <1>2, <1>4, <1>5

(* One element and its weight take the place of another; a and c may be the
   same element with a new weight. *)
LEMMA SumReplaced ==
  ASSUME NEW S, IsFiniteSet(S), NEW T, IsFiniteSet(T), NEW a \in S, NEW c \in T,
         S \ {a} = T \ {c},
         NEW w, IntWeights(w, S), NEW v, IntWeights(v, T),
         \A x \in S \ {a} : v[x] = w[x]
  PROVE  SumOf(v, T) = SumOf(w, S) - w[a] + v[c]
<1> DEFINE U == S \ {a}
<1>1. IsFiniteSet(U) /\ IntWeights(w, U) /\ \A x \in U : v[x] = w[x]
  BY FS_Subset DEF IntWeights
<1>2. SumOf(w, S) = w[a] + SumOf(w, U) /\ w[a] \in Int
  BY SumWithout DEF IntWeights
<1>3. SumOf(v, T) = v[c] + SumOf(v, U) /\ v[c] \in Int
  BY SumWithout DEF IntWeights
<1> HIDE DEF U
<1>4. SumOf(v, U) = SumOf(w, U) /\ SumOf(w, U) \in Int
  BY <1>1, SumSame, SumInt
<1> QED BY <1>2, <1>3, <1>4
-----------------------------------------------------------------------------
(* FlattenSeq: its value is that of a recursive function on the indices. *)

Longer(f, ss, i) == IF i = 1 THEN ss[i] ELSE f[i - 1] \o ss[i]
Appends(f, ss) == f = [i \in 1 .. Len(ss) |-> Longer(f, ss, i)]

LEMMA FlattenUnfold ==
  ASSUME NEW ss, Len(ss) # 0
  PROVE  FlattenSeq(ss) = (CHOOSE f : Appends(f, ss))[Len(ss)]
BY DEF FlattenSeq, Appends, Longer

LEMMA AppendsExists ==
  ASSUME NEW X, NEW ss \in Seq(Seq(X))
  PROVE  \E f : Appends(f, ss)
<1> DEFINE n == Len(ss)
           F == [1 .. n -> Seq(X)]
           Upto(f, k) == \A i \in 1 .. n : i <= k => f[i] = Longer(f, ss, i)
           Bad == {k \in Nat : ~ \E f \in F : Upto(f, k)}
<1>0. n \in Nat /\ \A i \in 1 .. n : ss[i] \in Seq(X)
  OBVIOUS
<1>1. ASSUME NEW f \in F, NEW i \in 1 .. n PROVE Longer(f, ss, i) \in Seq(X)
  <2> HIDE DEF n
  <2>1. i # 1 => i - 1 \in 1 .. n
    BY <1>0
  <2>2. i # 1 => f[i - 1] \in Seq(X)
    BY <2>1
  <2> QED BY <1>0, <2>2, ConcatProperties DEF Longer
<1>2. \E f \in F : Upto(f, 0)
  <2> DEFINE z == [i \in 1 .. n |-> <<>>]
  <2>1. z \in F
    OBVIOUS
  <2>2. Upto(z, 0)
    BY <1>0
  <2> HIDE DEF z
  <2> QED BY <2>1, <2>2
<1>3. ASSUME NEW k \in Nat, NEW f \in F, Upto(f, k)
      PROVE  \E g \in F : Upto(g, k + 1)
  <2> DEFINE g == [i \in 1 .. n |-> IF i <= k THEN f[i] ELSE Longer(f, ss, i)]
  <2>1. g \in F
    BY <1>1
  <2>2. ASSUME NEW i \in 1 .. n, i <= k + 1 PROVE g[i] = Longer(g, ss, i)
    <3>1. g[i] = Longer(f, ss, i)
      BY <1>3
    <3>2. i # 1 => i - 1 \in 1 .. n /\ i - 1 <= k
      BY <1>0, <2>2
    <3>3. i # 1 => g[i - 1] = f[i - 1]
      BY <3>2
    <3> QED BY <3>1, <3>3 DEF Longer
  <2> HIDE DEF g
  <2> QED BY <2>1, <2>2
<1> HIDE DEF Upto, F
<1>4. Bad = {}
  <2> SUFFICES ASSUME Bad # {} PROVE FALSE
    OBVIOUS
  <2>1. Bad \in SUBSET Nat /\ 0 \notin Bad
    BY <1>2
  <2> HIDE DEF Bad
  <2>2. PICK m \in Bad : \A l \in Nat : l < m => l \notin Bad
    BY <2>1, LeastNumber
  <2>3. m \in Nat /\ m - 1 \in Nat /\ m - 1 < m
    BY <2>1
  <2>4. PICK f \in F : Upto(f, m - 1)
    BY <2>2, <2>3 DEF Bad
  <2>5. \E g \in F : Upto(g, (m - 1) + 1)
    BY <1>3, <2>3, <2>4
  <2>6. (m - 1) + 1 = m
    BY <2>3
  <2> QED BY <2>2, <2>5, <2>6 DEF Bad
<1>5. PICK f \in F : Upto(f, n)
  BY <1>0, <1>4
<1>6. \A i \in 1 .. n : f[i] = Longer(f, ss, i)
  BY <1>0, <1>5 DEF Upto
<1>7. f = [i \in 1 .. n |-> Longer(f, ss, i)]
  BY <1>5, <1>6 DEF F
<1> QED BY <1>7 DEF Appends

(* x is an element of s. *)
Has(s, x) == \E m \in DOMAIN s : s[m] = x

LEMMA HasConcat ==
  ASSUME NEW X, NEW s \in Seq(X), NEW t \in Seq(X), NEW x
  PROVE  Has(s \o t, x) <=> Has(s, x) \/ Has(t, x)
<1>1. Has(s, x) => Has(s \o t, x)
  BY DEF Has
<1>2. Has(t, x) => Has(s \o t, x)
  <2> SUFFICES ASSUME NEW m \in DOMAIN t, t[m] = x PROVE Has(s \o t, x)
    BY DEF Has
  <2>1. Len(s) + m \in DOMAIN (s \o t) /\ (s \o t)[Len(s) + m] = t[m]
    OBVIOUS
  <2> QED BY <2>1 DEF Has
<1>3. Has(s \o t, x) => Has(s, x) \/ Has(t, x)
  <2> SUFFICES ASSUME NEW m \in DOMAIN (s \o t), (s \o t)[m] = x
               PROVE  Has(s, x) \/ Has(t, x)
    BY DEF Has
  <2>1. CASE m <= Len(s)
    BY <2>1 DEF Has
  <2>2. CASE ~(m <= Len(s))
    <3>1. m - Len(s) \in DOMAIN t /\ t[m - Len(s)] = x
      BY <2>2
    <3> QED BY <3>1 DEF Has
  <2> QED BY <2>1, <2>2
<1> QED BY <1>1, <1>2, <1>3

(* The elements of the flattened sequence are those of the parts. *)
LEMMA HasFlatten ==
  ASSUME NEW X, NEW ss \in Seq(Seq(X)), Len(ss) # 0
  PROVE  /\ FlattenSeq(ss) \in Seq(X)
         /\ \A x : Has(FlattenSeq(ss), x) <=> \E i \in DOMAIN ss : Has(ss[i], x)
<1> DEFINE n == Len(ss)
           f == CHOOSE h : Appends(h, ss)
           Good(k) == /\ f[k] \in Seq(X)
                      /\ \A x : Has(f[k], x) <=> \E i \in 1 .. k : Has(ss[i], x)
           Bad == {k \in 1 .. n : ~Good(k)}
<1>0. n \in Nat /\ n # 0 /\ DOMAIN ss = 1 .. n /\ \A i \in 1 .. n : ss[i] \in Seq(X)
  OBVIOUS
<1>1. Appends(f, ss)
  BY AppendsExists
<1>2. FlattenSeq(ss) = f[n]
  BY FlattenUnfold
<1> HIDE DEF f
<1>3. \A i \in 1 .. n : f[i] = Longer(f, ss, i)
  BY <1>1 DEF Appends
<1> HIDE DEF n
<1>4. Bad = {}
  <2> SUFFICES ASSUME Bad # {} PROVE FALSE
    OBVIOUS
  <2>1. Bad \in SUBSET Nat
    BY <1>0
  <2>2. PICK m \in Bad : \A l \in Nat : l < m => l \notin Bad
    <3> HIDE DEF Bad
    <3> QED BY <2>1, LeastNumber
  <2>3. m \in 1 .. n /\ ~Good(m)
    BY <2>2
  <2>4. CASE m = 1
    <3>1. f[1] = ss[1]
      BY <1>3, <2>3, <2>4 DEF Longer
    <3>2. \A i : i \in 1 .. 1 <=> i = 1
      OBVIOUS
    <3> QED BY <1>0, <2>3, <2>4, <3>1, <3>2
  <2>5. CASE m # 1
    <3>1. m - 1 \in 1 .. n /\ m - 1 \in Nat /\ m - 1 < m
      BY <1>0, <2>3, <2>5
    <3>2. Good(m - 1)
      BY <2>2, <3>1
    <3>3. f[m] = f[m - 1] \o ss[m] /\ ss[m] \in Seq(X)
      BY <1>0, <1>3, <2>3, <2>5 DEF Longer
    <3>4. f[m] \in Seq(X)
      BY <3>2, <3>3, ConcatProperties
    <3>5. \A x : Has(f[m], x) <=> Has(f[m - 1], x) \/ Has(ss[m], x)
      BY <3>2, <3>3, HasConcat
    <3>6. \A i : i \in 1 .. m <=> i \in 1 .. (m - 1) \/ i = m
      BY <1>0, <2>3
    <3>7. \A x : Has(f[m], x) <=> \E i \in 1 .. m : Has(ss[i], x)
      BY <3>2, <3>5, <3>6
    <3> QED BY <2>3, <3>4, <3>7
  <2> QED BY <2>4, <2>5
<1>5. Good(n)
  <2>1. n \in 1 .. n
    BY <1>0
  <2> HIDE DEF Good
  <2> QED BY <1>4, <2>1
<1> QED BY <1>0, <1>2, <1>5
=============================================================================
