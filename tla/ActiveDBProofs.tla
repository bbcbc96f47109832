--------------------------- MODULE ActiveDBProofs ---------------------------
(***************************************************************************)
(* Proofs about the active database, for any number of processes, groups,  *)
(* buckets and servers: groups stay in the table in the order in which the *)
(* walks meet them, whatever is transferred, set or created meanwhile.     *)
(***************************************************************************)
EXTENDS ActiveDB, FiniteSetTheorems, SequenceTheorems, WellFoundedInduction, TLAPS

(* A record of the table lies in a page behind the header, so it is not None. *)
Rcd == [name : Group, ctime : Nat, mtime : Nat, page : Nat \ {0}]

RecordsOf(t) == UNION {Range(t[b]) : b \in Bucket}
KnownOf(t) == {r.name : r \in RecordsOf(t)}

(* Group g has a record at place i of its bucket. *)
Place(t, g, i) == i \in DOMAIN t[Hash[g]] /\ t[Hash[g]][i].name = g

(* The table is a hash table: a record is in the bucket of its group, and no
   group has two records. *)
TabInv(t) ==
  /\ t \in [Bucket -> Seq(Rcd)]
  /\ \A b \in Bucket : \A i \in DOMAIN t[b] : Hash[t[b][i].name] = b
  /\ \A b \in Bucket : \A i, j \in DOMAIN t[b] : t[b][i].name = t[b][j].name => i = j
  /\ IsFiniteSet(RecordsOf(t))

(* A walk meets g in front of h. *)
Before(t, g, h) ==
  \/ Hash[g] < Hash[h]
  \/ Hash[g] = Hash[h] /\ \E i, j \in Nat : i < j /\ Place(t, g, i) /\ Place(t, h, j)

(* The records of t are the last ones of the buckets of u. *)
Grows(t, u) ==
  \A b \in Bucket :
    /\ Len(u[b]) >= Len(t[b])
    /\ \A i \in 1 .. Len(t[b]) :
         LET j == i + (Len(u[b]) - Len(t[b]))
         IN u[b][j].name = t[b][i].name /\ u[b][j].ctime = t[b][i].ctime

LEMMA BucketType ==
  /\ Bucket \subseteq Nat /\ Buckets \in Nat /\ Bucket = 1 .. Buckets
  /\ \A g \in Group : Hash[g] \in Bucket
BY BucketsAssumption DEF Bucket

(* The records of a table, and the groups that have one, by place. *)
LEMMA Members ==
  ASSUME NEW t, TabInv(t)
  PROVE  /\ \A r : r \in RecordsOf(t) <=> \E b \in Bucket : \E i \in DOMAIN t[b] : r = t[b][i]
         /\ \A r \in RecordsOf(t) : r \in Rcd
         /\ \A g : g \in KnownOf(t) <=> g \in Group /\ \E i \in Nat : Place(t, g, i)
         /\ \A b \in Bucket : DOMAIN t[b] = 1 .. Len(t[b]) /\ Len(t[b]) \in Nat
         /\ \A b \in Bucket : \A i \in DOMAIN t[b] : t[b][i] \in Rcd
<1>1. \A b \in Bucket : t[b] \in Seq(Rcd)
  BY DEF TabInv
<1>2. \A b \in Bucket : DOMAIN t[b] = 1 .. Len(t[b]) /\ Len(t[b]) \in Nat
                        /\ \A i \in DOMAIN t[b] : t[b][i] \in Rcd
  BY <1>1
<1>3. \A r : r \in RecordsOf(t) <=> \E b \in Bucket : \E i \in DOMAIN t[b] : r = t[b][i]
  BY DEF RecordsOf, Range
<1>4. \A r \in RecordsOf(t) : r \in Rcd
  BY <1>2, <1>3
<1>5. ASSUME NEW g \in KnownOf(t)
      PROVE  g \in Group /\ \E i \in Nat : Place(t, g, i)
  <2>1. PICK r \in RecordsOf(t) : g = r.name
    BY DEF KnownOf
  <2>2. PICK b \in Bucket : \E i \in DOMAIN t[b] : r = t[b][i]
    BY <1>3, <2>1
  <2>3. PICK i \in DOMAIN t[b] : r = t[b][i]
    BY <2>2
  <2>4. Hash[g] = b /\ i \in Nat
    BY <1>2, <2>1, <2>3 DEF TabInv
  <2>5. Place(t, g, i) /\ g \in Group
    BY <1>4, <2>1, <2>3, <2>4 DEF Place, Rcd
  <2> QED BY <2>4, <2>5
<1>6. ASSUME NEW g \in Group, NEW i \in Nat, Place(t, g, i)
      PROVE  g \in KnownOf(t)
  <2>1. t[Hash[g]][i] \in RecordsOf(t)
    BY <1>3, <1>6, BucketType DEF Place
  <2> QED BY <1>6, <2>1 DEF Place, KnownOf
<1> QED BY <1>2, <1>3, <1>4, <1>5, <1>6

(* Nobody has two places. *)
LEMMA OnePlace ==
  ASSUME NEW t, TabInv(t), NEW g \in Group, NEW i, NEW j, Place(t, g, i), Place(t, g, j)
  PROVE  i = j
BY BucketType DEF TabInv, Place

(* There are as many records as groups that have one. *)
LEMMA CardKnown ==
  ASSUME NEW t, TabInv(t)
  PROVE  /\ Cardinality(KnownOf(t)) = Cardinality(RecordsOf(t))
         /\ IsFiniteSet(KnownOf(t)) /\ IsFiniteSet(RecordsOf(t))
         /\ Cardinality(RecordsOf(t)) \in Nat
<1> DEFINE R == RecordsOf(t)
           K == KnownOf(t)
           f == [r \in R |-> r.name]
<1>1. f \in Surjection(R, K)
  BY DEF Surjection, KnownOf
<1>2. ASSUME NEW r \in R, NEW s \in R, r.name = s.name PROVE r = s
  <2>1. PICK b \in Bucket : \E i \in DOMAIN t[b] : r = t[b][i]
    BY Members
  <2>2. PICK c \in Bucket : \E i \in DOMAIN t[c] : s = t[c][i]
    BY Members
  <2>3. b = c
    BY <1>2, <2>1, <2>2 DEF TabInv
  <2> QED BY <1>2, <2>1, <2>2, <2>3 DEF TabInv
<1>3. f \in Injection(R, K)
  <2>1. f \in [R -> K]
    BY <1>1 DEF Surjection
  <2> QED BY <1>2, <2>1 DEF Injection, IsInjective
<1>4. IsFiniteSet(R)
  BY DEF TabInv
<1> HIDE DEF f, R, K
<1>5. IsFiniteSet(K) /\ Cardinality(K) = Cardinality(R)
  BY <1>1, <1>3, <1>4, FS_Surjection
<1>6. Cardinality(R) \in Nat
  BY <1>4, FS_CardinalityType
<1> QED BY <1>4, <1>5, <1>6 DEF R, K

(* In a table that grows, every group keeps its record with its ctime, and the
   order in which a walk meets the groups stays. *)
LEMMA GrowsKeeps ==
  ASSUME NEW t, NEW u, TabInv(t), TabInv(u), Grows(t, u)
  PROVE  /\ \A r \in RecordsOf(t) : \E s \in RecordsOf(u) : s.name = r.name /\ s.ctime = r.ctime
         /\ KnownOf(t) \subseteq KnownOf(u)
         /\ \A g, h \in Group : Before(t, g, h) => Before(u, g, h)
<1>1. ASSUME NEW b \in Bucket, NEW i \in DOMAIN t[b]
      PROVE  LET j == i + (Len(u[b]) - Len(t[b]))
             IN j \in DOMAIN u[b] /\ u[b][j].name = t[b][i].name /\ u[b][j].ctime = t[b][i].ctime
  <2>1. DOMAIN t[b] = 1 .. Len(t[b]) /\ Len(t[b]) \in Nat /\ DOMAIN u[b] = 1 .. Len(u[b]) /\ Len(u[b]) \in Nat
    BY Members
  <2>2. Len(u[b]) >= Len(t[b]) /\ i \in 1 .. Len(t[b])
    BY <2>1 DEF Grows
  <2>3. i + (Len(u[b]) - Len(t[b])) \in DOMAIN u[b]
    <3> DEFINE m == Len(t[b])
               n == Len(u[b])
    <3>1. m \in Nat /\ n \in Nat /\ n >= m /\ i \in 1 .. m /\ DOMAIN u[b] = 1 .. n
      BY <2>1, <2>2
    <3> HIDE DEF m, n
    <3>2. i + (n - m) \in DOMAIN u[b]
      BY <3>1
    <3> QED BY <3>2 DEF m, n
  <2> QED BY <2>2, <2>3 DEF Grows
<1>2. ASSUME NEW r \in RecordsOf(t)
      PROVE  \E s \in RecordsOf(u) : s.name = r.name /\ s.ctime = r.ctime
  <2>0. PICK b \in Bucket : \E i \in DOMAIN t[b] : r = t[b][i]
    BY Members
  <2>1. PICK i \in DOMAIN t[b] : r = t[b][i]
    BY <2>0
  <2> DEFINE j == i + (Len(u[b]) - Len(t[b]))
  <2>2. j \in DOMAIN u[b] /\ u[b][j].name = r.name /\ u[b][j].ctime = r.ctime
    BY <1>1, <2>1
  <2> HIDE DEF j
  <2>3. u[b][j] \in RecordsOf(u)
    BY <2>2, Members
  <2> QED BY <2>2, <2>3
<1>3. KnownOf(t) \subseteq KnownOf(u)
  BY <1>2 DEF KnownOf
<1>4. ASSUME NEW g \in Group, NEW h \in Group, Before(t, g, h) PROVE Before(u, g, h)
  <2>1. CASE Hash[g] < Hash[h]
    BY <2>1 DEF Before
  <2>2. CASE ~(Hash[g] < Hash[h])
    <3>1. Hash[g] = Hash[h]
      BY <1>4, <2>2 DEF Before
    <3>2. PICK i \in Nat, j \in Nat : i < j /\ Place(t, g, i) /\ Place(t, h, j)
      BY <1>4, <2>2 DEF Before
    <3> DEFINE b == Hash[g]
               k == Len(u[b]) - Len(t[b])
    <3>3. b \in Bucket /\ k \in Int
      BY BucketType, Members
    <3>4. Place(u, g, i + k) /\ Place(u, h, j + k)
      BY <1>1, <3>1, <3>2, <3>3 DEF Place
    <3>5. i + k \in Nat /\ j + k \in Nat /\ i + k < j + k
      <4>1. i + k \in DOMAIN u[b] /\ j + k \in DOMAIN u[b]
        BY <3>1, <3>4 DEF Place
      <4> HIDE DEF k, b
      <4>2. i + k \in Nat /\ j + k \in Nat
        BY <3>3, <4>1, Members
      <4> QED BY <3>2, <3>3, <4>2
    <3> HIDE DEF k
    <3> QED BY <3>1, <3>4, <3>5 DEF Before
  <2> QED BY <2>1, <2>2
<1> QED BY <1>2, <1>3, <1>4

(* The page of a record does not fall as records are added. *)
LEMMA DivMonotone ==
  ASSUME NEW a \in Nat, NEW b \in Nat, a <= b, NEW c \in Nat \ {0}
  PROVE  a \div c \in Nat /\ a \div c <= b \div c
<1>1. a \div c \in Int /\ b \div c \in Int
  OBVIOUS
<1>2. a = c * (a \div c) + (a % c) /\ 0 <= a % c /\ a % c < c /\ a % c \in Int
  OBVIOUS
<1>3. b = c * (b \div c) + (b % c) /\ 0 <= b % c /\ b % c < c /\ b % c \in Int
  OBVIOUS
<1> DEFINE x == a \div c
           y == b \div c
           u == a % c
           v == b % c
<1>4. /\ x \in Int /\ y \in Int /\ u \in Int /\ v \in Int
      /\ a = c * x + u /\ 0 <= u /\ u < c
      /\ b = c * y + v /\ 0 <= v /\ v < c
  BY <1>1, <1>2, <1>3
<1> HIDE DEF x, y, u, v
<1>5. x >= 0
  <2>1. SUFFICES ASSUME x <= -1 PROVE FALSE
    BY <1>4
  <2>2. c * x <= c * (-1)
    BY <1>4, <2>1
  <2> QED BY <1>4, <2>2
<1>6. x <= y
  <2>1. SUFFICES ASSUME y + 1 <= x PROVE FALSE
    BY <1>4
  <2>2. c * (y + 1) <= c * x
    BY <1>4, <2>1
  <2>3. c * (y + 1) = c * y + c
    BY <1>4
  <2>4. c * y \in Int /\ c * x \in Int
    BY <1>4
  <2> QED BY <1>4, <2>2, <2>3, <2>4
<1> QED BY <1>4, <1>5, <1>6 DEF x, y

(* What Sset is given. *)
Given == [name : Group, ctime : Nat, mtime : Nat, page : Nat]

(* Replacing the time of a record leaves the table what it was otherwise. *)
LEMMA ReplaceGrows ==
  ASSUME TabInv(tab), NEW r \in Given
  PROVE  /\ TabInv(Replace(r)) /\ Grows(tab, Replace(r))
         /\ KnownOf(Replace(r)) = KnownOf(tab)
<1> DEFINE u == Replace(r)
           new(x) == IF x.name = r.name THEN [x EXCEPT !.mtime = r.mtime] ELSE x
<1>1. \A x \in Rcd : new(x) \in Rcd /\ new(x).name = x.name /\ new(x).ctime = x.ctime
  BY DEF Rcd, Given
<1>2. \A b \in Bucket : u[b] = [i \in DOMAIN tab[b] |-> new(tab[b][i])]
  BY DEF Replace
<1>3. \A b \in Bucket : DOMAIN u[b] = DOMAIN tab[b] /\ \A i \in DOMAIN tab[b] : u[b][i] = new(tab[b][i])
  BY <1>2
<1>4. ASSUME NEW b \in Bucket
      PROVE  u[b] \in Seq(Rcd) /\ Len(u[b]) = Len(tab[b]) /\ DOMAIN tab[b] = 1 .. Len(tab[b])
             /\ \A i \in DOMAIN tab[b] : u[b][i].name = tab[b][i].name /\ u[b][i].ctime = tab[b][i].ctime
  <2>1. DOMAIN tab[b] = 1 .. Len(tab[b]) /\ Len(tab[b]) \in Nat /\ \A i \in DOMAIN tab[b] : tab[b][i] \in Rcd
    BY Members
  <2> HIDE DEF new
  <2>2. u[b] \in [1 .. Len(tab[b]) -> Rcd]
    BY <1>1, <1>2, <2>1
  <2> QED BY <1>1, <1>3, <2>1, <2>2
<1>5. RecordsOf(u) = {new(x) : x \in RecordsOf(tab)}
  <2> HIDE DEF new, u
  <2>1. ASSUME NEW y \in RecordsOf(u) PROVE \E x \in RecordsOf(tab) : y = new(x)
    <3>1. PICK b \in Bucket : y \in Range(u[b])
      BY DEF RecordsOf
    <3>2. PICK i \in DOMAIN tab[b] : y = new(tab[b][i])
      BY <1>3, <3>1 DEF Range
    <3> QED BY <3>2, Members
  <2>2. ASSUME NEW x \in RecordsOf(tab) PROVE new(x) \in RecordsOf(u)
    <3>1. PICK b \in Bucket : \E i \in DOMAIN tab[b] : x = tab[b][i]
      BY Members
    <3>2. new(x) \in Range(u[b])
      BY <1>3, <3>1 DEF Range
    <3> QED BY <3>2 DEF RecordsOf
  <2> QED BY <2>1, <2>2
<1>6. IsFiniteSet(RecordsOf(u))
  <2> DEFINE R == RecordsOf(tab)
             f == [x \in R |-> new(x)]
  <2>1. f \in Surjection(R, RecordsOf(u))
    <3> HIDE DEF new, u
    <3> QED BY <1>5 DEF Surjection
  <2>2. IsFiniteSet(R)
    BY DEF TabInv
  <2> HIDE DEF f, R, u
  <2> QED BY <2>1, <2>2, FS_Surjection
<1>7. KnownOf(u) = KnownOf(tab)
  <2> HIDE DEF new, u
  <2>1. \A x \in RecordsOf(tab) : new(x).name = x.name
    BY <1>1, Members
  <2> QED BY <1>5, <2>1 DEF KnownOf
<1> HIDE DEF new
<1>8. u \in [Bucket -> Seq(Rcd)]
  BY <1>4 DEF Replace
<1> HIDE DEF u
<1>9. TabInv(u)
  BY <1>3, <1>4, <1>6, <1>8 DEF TabInv
<1>10. Grows(tab, u)
  <2>1. \A b \in Bucket : Len(tab[b]) \in Nat
    BY Members
  <2> QED BY <1>4, <2>1 DEF Grows
<1> QED BY <1>7, <1>9, <1>10 DEF u

(* A table that stays. *)
LEMMA SameGrows ==
  ASSUME TabInv(tab)
  PROVE  Grows(tab, tab)
<1>1. ASSUME NEW b \in Bucket, NEW i \in 1 .. Len(tab[b])
      PROVE  i + (Len(tab[b]) - Len(tab[b])) = i
  <2>1. Len(tab[b]) \in Nat
    BY Members
  <2> QED BY <2>1
<1>2. \A b \in Bucket : Len(tab[b]) \in Nat
  BY Members
<1> QED BY <1>1, <1>2 DEF Grows

(* A record in front of its bucket, for a group that has none. *)
LEMMA PrependGrows ==
  ASSUME TabInv(tab), NEW x \in Rcd, x.name \notin KnownOf(tab),
         NEW u, u = [tab EXCEPT ![Hash[x.name]] = <<x>> \o @]
  PROVE  /\ TabInv(u) /\ Grows(tab, u)
         /\ RecordsOf(u) = RecordsOf(tab) \cup {x} /\ x \notin RecordsOf(tab)
<1> DEFINE c == Hash[x.name]
<1>1. x.name \in Group /\ c \in Bucket
  BY BucketType DEF Rcd
<1> HIDE DEF c
<1>2. tab \in [Bucket -> Seq(Rcd)]
  BY DEF TabInv
<1>3. u = [tab EXCEPT ![c] = <<x>> \o tab[c]]
  BY DEF c
<1>4. u[c] = <<x>> \o tab[c] /\ \A b \in Bucket \ {c} : u[b] = tab[b]
  BY <1>1, <1>2, <1>3
<1>5. tab[c] \in Seq(Rcd) /\ <<x>> \in Seq(Rcd)
  BY <1>1, <1>2
<1>6. /\ u[c] \in Seq(Rcd) /\ Len(u[c]) = Len(tab[c]) + 1 /\ u[c][1] = x
      /\ \A i \in 1 .. Len(tab[c]) : u[c][i + 1] = tab[c][i]
      /\ Len(tab[c]) \in Nat
  BY <1>4, <1>5
<1>7. u \in [Bucket -> Seq(Rcd)]
  BY <1>2, <1>3, <1>4, <1>6
<1>8. /\ DOMAIN u[c] = 1 .. Len(tab[c]) + 1
      /\ \A i \in DOMAIN u[c] : i = 1 \/ (i - 1 \in 1 .. Len(tab[c]) /\ u[c][i] = tab[c][i - 1])
  <2>1. DOMAIN u[c] = 1 .. Len(tab[c]) + 1
    BY <1>6
  <2>2. ASSUME NEW i \in DOMAIN u[c], i # 1
        PROVE  i - 1 \in 1 .. Len(tab[c]) /\ u[c][i] = tab[c][i - 1]
    <3>1. i - 1 \in 1 .. Len(tab[c]) /\ (i - 1) + 1 = i
      BY <1>6, <2>1, <2>2
    <3> QED BY <1>6, <3>1
  <2> QED BY <2>1, <2>2
<1>9. \A i \in 1 .. Len(tab[c]) : i \in DOMAIN tab[c] /\ tab[c][i].name # x.name
                                /\ Hash[tab[c][i].name] = c
  <2>1. DOMAIN tab[c] = 1 .. Len(tab[c])
    BY <1>1, Members
  <2>2. \A i \in DOMAIN tab[c] : tab[c][i] \in RecordsOf(tab)
    BY <1>1, Members
  <2>3. \A i \in DOMAIN tab[c] : tab[c][i].name # x.name
    BY <2>2 DEF KnownOf
  <2> QED BY <1>1, <2>1, <2>3 DEF TabInv
<1>10. \A b \in Bucket : \A i \in DOMAIN u[b] : Hash[u[b][i].name] = b
  <2>1. \A i \in DOMAIN u[c] : Hash[u[c][i].name] = c
    BY <1>6, <1>8, <1>9 DEF c
  <2>2. \A b \in Bucket \ {c} : \A i \in DOMAIN u[b] : Hash[u[b][i].name] = b
    BY <1>4 DEF TabInv
  <2> QED BY <2>1, <2>2
<1>11. \A b \in Bucket : \A i, j \in DOMAIN u[b] : u[b][i].name = u[b][j].name => i = j
  <2>1. ASSUME NEW i \in DOMAIN u[c], NEW j \in DOMAIN u[c], u[c][i].name = u[c][j].name
        PROVE  i = j
    <3>1. i \in Int /\ j \in Int
      BY <1>6, <1>8
    <3>2. CASE i = 1 \/ j = 1
      BY <1>6, <1>8, <1>9, <2>1, <3>2
    <3>3. CASE i # 1 /\ j # 1
      <4>1. /\ i - 1 \in DOMAIN tab[c] /\ j - 1 \in DOMAIN tab[c]
            /\ tab[c][i - 1].name = tab[c][j - 1].name
        BY <1>8, <1>9, <2>1, <3>3
      <4>2. i - 1 = j - 1
        BY <1>1, <4>1 DEF TabInv
      <4> QED BY <3>1, <4>2
    <3> QED BY <3>2, <3>3
  <2>2. \A b \in Bucket \ {c} : \A i, j \in DOMAIN u[b] : u[b][i].name = u[b][j].name => i = j
    BY <1>4 DEF TabInv
  <2> QED BY <2>1, <2>2
<1>12. RecordsOf(u) = RecordsOf(tab) \cup {x}
  <2>1. Range(u[c]) = Range(tab[c]) \cup {x}
    <3>1. ASSUME NEW y \in Range(u[c]) PROVE y \in Range(tab[c]) \cup {x}
      <4>1. PICK i \in DOMAIN u[c] : y = u[c][i]
        BY DEF Range
      <4>2. CASE i = 1
        BY <1>6, <4>1, <4>2
      <4>3. CASE i # 1
        BY <1>8, <1>9, <4>1, <4>3 DEF Range
      <4> QED BY <4>2, <4>3
    <3>2. x \in Range(u[c])
      <4>1. 1 \in DOMAIN u[c]
        BY <1>6, <1>8
      <4> QED BY <1>6, <4>1 DEF Range
    <3>3. ASSUME NEW y \in Range(tab[c]) PROVE y \in Range(u[c])
      <4>1. PICK i \in DOMAIN tab[c] : y = tab[c][i]
        BY DEF Range
      <4>2. i \in 1 .. Len(tab[c])
        BY <1>1, Members
      <4>3. i + 1 \in DOMAIN u[c] /\ u[c][i + 1] = y
        BY <1>6, <1>8, <4>1, <4>2
      <4> QED BY <4>3 DEF Range
    <3> QED BY <3>1, <3>2, <3>3
  <2>2. \A b \in Bucket \ {c} : Range(u[b]) = Range(tab[b])
    BY <1>4
  <2>3. \A y : y \in RecordsOf(u) <=> \E b \in Bucket : y \in Range(u[b])
    BY DEF RecordsOf
  <2>4. \A y : y \in RecordsOf(tab) <=> \E b \in Bucket : y \in Range(tab[b])
    BY DEF RecordsOf
  <2> QED BY <1>1, <2>1, <2>2, <2>3, <2>4
<1>13. x \notin RecordsOf(tab)
  BY DEF KnownOf
<1>14. IsFiniteSet(RecordsOf(u))
  <2>1. IsFiniteSet(RecordsOf(tab))
    BY DEF TabInv
  <2> QED BY <1>12, <2>1, FS_AddElement
<1>15. TabInv(u)
  BY <1>7, <1>10, <1>11, <1>14 DEF TabInv
<1>16. Grows(tab, u)
  <2>1. ASSUME NEW b \in Bucket \ {c}
        PROVE  /\ Len(u[b]) >= Len(tab[b])
               /\ \A i \in 1 .. Len(tab[b]) :
                    LET j == i + (Len(u[b]) - Len(tab[b]))
                    IN u[b][j].name = tab[b][i].name /\ u[b][j].ctime = tab[b][i].ctime
    BY <1>4, SameGrows DEF Grows
  <2>2. Len(u[c]) >= Len(tab[c]) /\ \A i \in 1 .. Len(tab[c]) : i + (Len(u[c]) - Len(tab[c])) = i + 1
    <3> DEFINE m == Len(tab[c])
               n == Len(u[c])
    <3>1. m \in Nat /\ n = m + 1
      BY <1>6
    <3> HIDE DEF m, n
    <3>2. n >= m /\ \A i \in 1 .. m : i + (n - m) = i + 1
      BY <3>1
    <3> QED BY <3>2 DEF m, n
  <2>3. \A i \in 1 .. Len(tab[c]) :
          LET j == i + (Len(u[c]) - Len(tab[c]))
          IN u[c][j].name = tab[c][i].name /\ u[c][j].ctime = tab[c][i].ctime
    BY <1>6, <2>2
  <2> QED BY <2>1, <2>2, <2>3 DEF Grows
<1> QED BY <1>12, <1>13, <1>15, <1>16

(* The size of the file: a header, the table, and the records. *)
PagesInv(t, n) ==
  /\ n \in Nat /\ n >= 2
  /\ n <= 2 + Cardinality(RecordsOf(t)) \div PerPage

(* NVActiveDB::sset keeps the table a hash table that grows, and a file that
   does not shrink. *)
LEMMA SsetGrows ==
  ASSUME TabInv(tab), PagesInv(tab, pages), now \in Nat, NEW r \in Given, Sset(r)
  PROVE  TabInv(tab') /\ Grows(tab, tab') /\ PagesInv(tab', pages') /\ pages <= pages'
<1>0. Known = KnownOf(tab) /\ Records = RecordsOf(tab) /\ PerPage \in Nat \ {0}
  BY TimesAssumption DEF Known, Records, KnownOf, RecordsOf
<1> DEFINE C == Cardinality(RecordsOf(tab))
<1>1. C \in Nat /\ Cardinality(KnownOf(tab)) = C
  BY CardKnown
<1>2. CASE r.name \in Known
  <2>1. tab' = Replace(r) /\ pages' = pages
    BY <1>2 DEF Sset
  <2>2. TabInv(tab') /\ Grows(tab, tab') /\ KnownOf(tab') = KnownOf(tab)
    BY <2>1, ReplaceGrows
  <2>3. Cardinality(RecordsOf(tab')) = C
    BY <1>1, <2>2, CardKnown
  <2>4. PagesInv(tab', pages')
    BY <2>1, <2>3 DEF PagesInv
  <2>5. pages <= pages'
    BY <2>1 DEF PagesInv
  <2> QED BY <2>2, <2>4, <2>5
<1>3. CASE r.name \notin Known
  <2> DEFINE x == [r EXCEPT !.ctime = now, !.page = NextPage]
  <2>1. /\ tab' = [tab EXCEPT ![Hash[r.name]] = <<x>> \o @] /\ pages' = NextPage
    BY <1>3 DEF Sset
  <2>2. NextPage = 2 + C \div PerPage
    BY <1>0 DEF NextPage
  <2>3. C \div PerPage \in Nat /\ C \div PerPage <= (C + 1) \div PerPage /\ (C + 1) \div PerPage \in Nat
    <3> HIDE DEF C
    <3>1. C + 1 \in Nat /\ C <= C + 1 /\ C + 1 <= C + 1
      BY <1>1
    <3> QED BY <1>0, <1>1, <3>1, DivMonotone
  <2>4. NextPage \in Nat \ {0} /\ NextPage >= 2
    <3> HIDE DEF C
    <3> QED BY <2>2, <2>3
  <2>5. x \in Rcd /\ x.name = r.name
    BY <2>4 DEF Given, Rcd
  <2> HIDE DEF x
  <2>6. tab' = [tab EXCEPT ![Hash[x.name]] = <<x>> \o @]
    BY <2>1, <2>5
  <2>7. TabInv(tab') /\ Grows(tab, tab') /\ RecordsOf(tab') = RecordsOf(tab) \cup {x} /\ x \notin RecordsOf(tab)
    BY <1>0, <1>3, <2>5, <2>6, PrependGrows
  <2>8. Cardinality(RecordsOf(tab')) = C + 1
    <3>1. IsFiniteSet(RecordsOf(tab))
      BY DEF TabInv
    <3> QED BY <2>7, <3>1, FS_AddElement
  <2>9. PagesInv(tab', pages') /\ pages <= pages'
    <3> HIDE DEF C
    <3>1. pages \in Nat /\ pages <= 2 + C \div PerPage
      BY DEF PagesInv, C
    <3> QED BY <2>1, <2>2, <2>3, <2>4, <2>8, <3>1 DEF PagesInv
  <2> QED BY <2>7, <2>9
<1> QED BY <1>2, <1>3

-----------------------------------------------------------------------------
(* The order in which a walk meets the groups is a strict order. *)
LEMMA BeforeOrder ==
  ASSUME NEW t, TabInv(t)
  PROVE  /\ \A g \in Group : ~Before(t, g, g)
         /\ \A g, h, k \in Group : Before(t, g, h) /\ Before(t, h, k) => Before(t, g, k)
<1>0. \A g \in Group : Hash[g] \in Int
  BY BucketType
<1>1. ASSUME NEW g \in Group, Before(t, g, g) PROVE FALSE
  <2>1. PICK i \in Nat, j \in Nat : i < j /\ Place(t, g, i) /\ Place(t, g, j)
    BY <1>0, <1>1 DEF Before
  <2> QED BY <2>1, OnePlace
<1>2. ASSUME NEW g \in Group, NEW h \in Group, NEW k \in Group, Before(t, g, h), Before(t, h, k)
      PROVE  Before(t, g, k)
  <2>1. CASE Hash[g] < Hash[h] \/ Hash[h] < Hash[k]
    <3>1. Hash[g] < Hash[k]
      BY <1>0, <1>2, <2>1 DEF Before
    <3> QED BY <3>1 DEF Before
  <2>2. CASE ~(Hash[g] < Hash[h] \/ Hash[h] < Hash[k])
    <3>1. Hash[g] = Hash[h] /\ Hash[h] = Hash[k]
      BY <1>2, <2>2 DEF Before
    <3>2. PICK i \in Nat, j \in Nat : i < j /\ Place(t, g, i) /\ Place(t, h, j)
      BY <1>2, <2>2 DEF Before
    <3>3. PICK l \in Nat, m \in Nat : l < m /\ Place(t, h, l) /\ Place(t, k, m)
      BY <1>2, <2>2 DEF Before
    <3>4. j = l
      BY <3>2, <3>3, OnePlace
    <3>5. i < m
      BY <3>2, <3>3, <3>4
    <3> QED BY <3>1, <3>2, <3>3, <3>5 DEF Before
  <2> QED BY <2>1, <2>2
<1> QED BY <1>1, <1>2

(* A nonempty set of natural numbers has a least element. *)
LEMMA Least ==
  ASSUME NEW S \in SUBSET Nat, S # {}
  PROVE  \E n \in S : \A m \in S : n <= m
<1> DEFINE R == OpToRel(<, Nat)
<1>1. IsWellFoundedOn(R, Nat)
  BY NatLessThanWellFounded
<1>2. \A x, y \in Nat : <<y, x>> \in R <=> y < x
  BY DEF OpToRel
<1> HIDE DEF R
<1>3. PICK x \in S : \A y \in S : ~(<<y, x>> \in R)
  BY <1>1, WFMin
<1>4. ASSUME NEW y \in S PROVE x <= y
  <2>1. x \in Nat /\ y \in Nat
    OBVIOUS
  <2>2. ~(y < x)
    BY <1>2, <1>3, <2>1
  <2> QED BY <2>1, <2>2
<1> QED BY <1>4

(* FirstFrom(b) is the first record that a walk meets from bucket b on. *)
LEMMA FirstFromIsFirst ==
  ASSUME TabInv(tab), NEW b \in Nat
  PROVE  \/ FirstFrom(b) = None /\ \A h \in KnownOf(tab) : Hash[h] < b
         \/ /\ FirstFrom(b) \in RecordsOf(tab) /\ Hash[FirstFrom(b).name] >= b
            /\ \A h \in KnownOf(tab) : Hash[h] >= b =>
                  h = FirstFrom(b).name \/ Before(tab, FirstFrom(b).name, h)
<1> DEFINE bs == {c \in Bucket : c >= b /\ tab[c] # <<>>}
<1>1. ASSUME NEW h \in KnownOf(tab), Hash[h] >= b
      PROVE  Hash[h] \in bs
  <2>1. h \in Group /\ \E i \in Nat : Place(tab, h, i)
    BY Members
  <2>2. Hash[h] \in Bucket /\ tab[Hash[h]] # <<>>
    BY <2>1, BucketType DEF Place
  <2> QED BY <1>1, <2>2
<1>2. \A h \in KnownOf(tab) : h \in Group /\ Hash[h] \in Nat
  BY Members, BucketType
<1>3. CASE bs = {}
  <2>1. FirstFrom(b) = None
    BY <1>3 DEF FirstFrom
  <2>2. \A h \in KnownOf(tab) : Hash[h] < b
    <3> HIDE DEF bs
    <3> QED BY <1>1, <1>2, <1>3
  <2> QED BY <2>1, <2>2
<1>4. CASE bs # {}
  <2> DEFINE c == CHOOSE d \in bs : \A e \in bs : d <= e
  <2>1. bs \in SUBSET Nat
    BY BucketType
  <2>2. c \in bs /\ \A e \in bs : c <= e
    <3> HIDE DEF bs
    <3>1. \E d \in bs : \A e \in bs : d <= e
      BY <1>4, <2>1, Least
    <3> QED BY <3>1
  <2>3. FirstFrom(b) = tab[c][1]
    BY <1>4 DEF FirstFrom
  <2>4. c \in Bucket /\ c >= b /\ tab[c] # <<>> /\ c \in Nat
    <3> HIDE DEF c
    <3> QED BY <2>1, <2>2
  <2> HIDE DEF c
  <2> DEFINE x == tab[c][1]
  <2>5. 1 \in DOMAIN tab[c] /\ x \in RecordsOf(tab)
    <3>1. tab[c] \in Seq(Rcd)
      BY <2>4 DEF TabInv
    <3>2. 1 \in DOMAIN tab[c]
      BY <2>4, <3>1
    <3> QED BY <2>4, <3>2, Members
  <2>6. Hash[x.name] = c /\ Place(tab, x.name, 1) /\ x.name \in Group
    BY <2>4, <2>5, Members DEF TabInv, Place, Rcd
  <2>7. ASSUME NEW h \in KnownOf(tab), Hash[h] >= b, h # x.name
        PROVE  Before(tab, x.name, h)
    <3>1. Hash[h] \in bs
      BY <1>1, <2>7
    <3>2. c <= Hash[h]
      <4> HIDE DEF bs
      <4> QED BY <2>2, <3>1
    <3>3. CASE c < Hash[h]
      BY <2>6, <3>3 DEF Before
    <3>4. CASE c = Hash[h]
      <4>1. PICK i \in Nat : Place(tab, h, i)
        BY Members
      <4>2. i # 1 /\ i \in 1 .. Len(tab[c])
        BY <2>4, <2>6, <2>7, <3>4, <4>1, Members DEF Place
      <4>3. 1 < i
        BY <4>2
      <4> QED BY <2>6, <3>4, <4>1, <4>3 DEF Before
    <3> QED BY <1>2, <2>4, <3>2, <3>3, <3>4
  <2> QED BY <2>3, <2>4, <2>5, <2>6, <2>7
<1> QED BY <1>3, <1>4

(* Following(r) is what a walk meets right after the group of r. *)
LEMMA FollowingIsNext ==
  ASSUME TabInv(tab), NEW r, r.name \in KnownOf(tab)
  PROVE  \/ Following(r) = None /\ \A h \in KnownOf(tab) : ~Before(tab, r.name, h)
         \/ /\ Following(r) \in RecordsOf(tab) /\ Before(tab, r.name, Following(r).name)
            /\ \A h \in KnownOf(tab) : Before(tab, r.name, h) =>
                  h = Following(r).name \/ Before(tab, Following(r).name, h)
<1> DEFINE g == r.name
           b == Hash[g]
           i == Pos(r)
<1>1. g \in Group /\ b \in Bucket /\ b \in Nat /\ b + 1 \in Nat
  BY Members, BucketType
<1>2. DOMAIN tab[b] = 1 .. Len(tab[b]) /\ Len(tab[b]) \in Nat
  BY <1>1, Members
<1>3. i \in DOMAIN tab[b] /\ tab[b][i].name = g
  <2>1. \E j \in DOMAIN tab[b] : tab[b][j].name = g
    BY Members DEF Place
  <2> QED BY <2>1 DEF Pos
<1>4. Place(tab, g, i) /\ i \in Nat
  BY <1>2, <1>3 DEF Place
<1>5. Following(r) = IF i = Len(tab[b]) THEN FirstFrom(b + 1) ELSE tab[b][i + 1]
  BY DEF Following
<1> HIDE DEF i
<1>6. \A h \in KnownOf(tab) : h \in Group /\ Hash[h] \in Nat
  BY Members, BucketType
<1>7. \A h \in KnownOf(tab) : Before(tab, g, h) =>
         \/ Hash[h] >= b + 1
         \/ Hash[h] = b /\ \E j \in DOMAIN tab[b] : i < j /\ Place(tab, h, j)
  <2>1. SUFFICES ASSUME NEW h \in KnownOf(tab), Before(tab, g, h), ~(Hash[h] >= b + 1)
                 PROVE  Hash[h] = b /\ \E j \in DOMAIN tab[b] : i < j /\ Place(tab, h, j)
    OBVIOUS
  <2>2. ~(b < Hash[h])
    BY <1>1, <1>6, <2>1
  <2>3. Hash[h] = b
    BY <2>1, <2>2 DEF Before
  <2>4. PICK k \in Nat, j \in Nat : k < j /\ Place(tab, g, k) /\ Place(tab, h, j)
    BY <2>1, <2>2 DEF Before
  <2>5. k = i
    BY <1>1, <1>4, <2>4, OnePlace
  <2> QED BY <2>3, <2>4, <2>5 DEF Place
<1>8. CASE i = Len(tab[b])
  <2> DEFINE f == FirstFrom(b + 1)
  <2>1. \A h \in KnownOf(tab) : Before(tab, g, h) => Hash[h] >= b + 1
    <3>1. \A j \in DOMAIN tab[b] : ~(i < j)
      BY <1>2, <1>8
    <3> QED BY <1>7, <3>1
  <2>2. Following(r) = f
    BY <1>5, <1>8
  <2>3. \/ f = None /\ \A h \in KnownOf(tab) : Hash[h] < b + 1
        \/ /\ f \in RecordsOf(tab) /\ Hash[f.name] >= b + 1
           /\ \A h \in KnownOf(tab) : Hash[h] >= b + 1 => h = f.name \/ Before(tab, f.name, h)
    <3> DEFINE c == b + 1
    <3>1. c \in Nat
      BY <1>1
    <3> HIDE DEF c
    <3>2. \/ FirstFrom(c) = None /\ \A h \in KnownOf(tab) : Hash[h] < c
          \/ /\ FirstFrom(c) \in RecordsOf(tab) /\ Hash[FirstFrom(c).name] >= c
             /\ \A h \in KnownOf(tab) : Hash[h] >= c =>
                   h = FirstFrom(c).name \/ Before(tab, FirstFrom(c).name, h)
      BY <3>1, FirstFromIsFirst
    <3> QED BY <3>2 DEF c
  <2> HIDE DEF f
  <2>4. CASE f = None /\ \A h \in KnownOf(tab) : Hash[h] < b + 1
    <3>1. ASSUME NEW h \in KnownOf(tab), Before(tab, g, h) PROVE FALSE
      BY <1>1, <1>6, <2>1, <2>4, <3>1
    <3> QED BY <2>2, <2>4, <3>1
  <2>5. CASE /\ f \in RecordsOf(tab) /\ Hash[f.name] >= b + 1
             /\ \A h \in KnownOf(tab) : Hash[h] >= b + 1 => h = f.name \/ Before(tab, f.name, h)
    <3>1. f.name \in KnownOf(tab)
      BY <2>5 DEF KnownOf
    <3>2. b < Hash[f.name]
      BY <1>1, <1>6, <2>5, <3>1
    <3>3. Before(tab, g, f.name)
      BY <3>2 DEF Before
    <3> QED BY <2>1, <2>2, <2>5, <3>3
  <2> QED BY <2>3, <2>4, <2>5
<1>9. CASE i # Len(tab[b])
  <2> DEFINE f == tab[b][i + 1]
  <2>1. i + 1 \in DOMAIN tab[b] /\ i + 1 \in Nat /\ i < i + 1
    BY <1>2, <1>3, <1>9
  <2>2. Following(r) = f
    BY <1>5, <1>9
  <2>3. f \in RecordsOf(tab) /\ Hash[f.name] = b
    BY <1>1, <2>1, Members DEF TabInv
  <2>4. Place(tab, f.name, i + 1)
    BY <2>1, <2>3 DEF Place
  <2>5. Before(tab, g, f.name)
    BY <1>4, <2>1, <2>3, <2>4 DEF Before
  <2>6. ASSUME NEW h \in KnownOf(tab), Before(tab, g, h), h # f.name
        PROVE  Before(tab, f.name, h)
    <3>1. CASE Hash[h] >= b + 1
      <4>1. b < Hash[h]
        BY <1>1, <1>6, <3>1
      <4> QED BY <2>3, <4>1 DEF Before
    <3>2. CASE Hash[h] = b /\ \E j \in DOMAIN tab[b] : i < j /\ Place(tab, h, j)
      <4>1. PICK j \in DOMAIN tab[b] : i < j /\ Place(tab, h, j)
        BY <3>2
      <4>2. j # i + 1
        BY <2>6, <3>2, <4>1 DEF Place
      <4>3. i + 1 < j /\ j \in Nat
        BY <1>2, <1>4, <4>1, <4>2
      <4> QED BY <2>1, <2>3, <2>4, <3>2, <4>1, <4>3 DEF Before
    <3> QED BY <1>7, <2>6, <3>1, <3>2
  <2> QED BY <2>2, <2>3, <2>5, <2>6
<1> QED BY <1>8, <1>9

-----------------------------------------------------------------------------
(* The inductive invariant. *)

(* The record a process has in hand. *)
Hand == [name : Group \cup {""}, ctime : Nat, mtime : Nat, page : Nat]

TypeInv ==
  /\ mtime \in Nat /\ now \in Nat
  /\ hashtab \in [Proc -> BOOLEAN] /\ msz \in [Proc -> Nat]
  /\ pc \in [Proc -> {"closed", "create", "idle", "relock", "transfer", "read", "active",
                      "walk", "select", "set"}]
  /\ todo \in [Proc -> 0 .. Len(Lists)] /\ rest \in [Proc -> SUBSET Group]
  /\ cur \in [Proc -> Hand]
  /\ base \in [Proc -> SUBSET Group] /\ seen \in [Proc -> Seq(Group)]

(* A file without a table has its first size; with a table it is larger, so a
   process that knows of no table sees by the size that there is one now. *)
FileInv ==
  /\ TabInv(tab)
  /\ made \in BOOLEAN /\ pages \in Nat
  /\ ~made => pages = 1 /\ RecordsOf(tab) = {}
  /\ made => PagesInv(tab, pages)

(* What a walk has listed lies in front of the record at hand, and what it has
   to list is that record or lies behind it. *)
WalkInv(p) ==
  /\ cur[p] # None => cur[p].name \in KnownOf(tab)
  /\ base[p] \subseteq KnownOf(tab)
  /\ \A i \in DOMAIN seen[p] :
       cur[p] # None => Before(tab, seen[p][i], cur[p].name)
  /\ IsInjective(seen[p])
  /\ \A g \in base[p] :
       \/ g \in Range(seen[p])
       \/ cur[p] # None /\ (g = cur[p].name \/ Before(tab, cur[p].name, g))

ProcInv(p) ==
  /\ msz[p] <= pages
  /\ hashtab[p] <=> msz[p] >= 2
  /\ pc[p] \notin {"closed", "create"} => hashtab[p]
  /\ pc[p] \in {"select", "set"} => cur[p].name \in Group
  /\ pc[p] = "walk" => WalkInv(p)

ActiveInv == TypeInv /\ FileInv /\ \A p \in Proc : ProcInv(p)

(* What a step may do to the file. *)
FileStep == FileInv' /\ Grows(tab, tab') /\ pages <= pages'

LEMMA FileSame ==
  ASSUME ActiveInv, UNCHANGED file
  PROVE  FileStep
<1>1. TabInv(tab)
  BY DEF ActiveInv, FileInv
<1>2. Grows(tab, tab)
  BY <1>1, SameGrows
<1> QED BY <1>1, <1>2 DEF ActiveInv, FileInv, FileStep, file

(* The walk of a process stands while others add records. *)
LEMMA WalkStands ==
  ASSUME ActiveInv, FileStep, NEW p \in Proc, WalkInv(p),
         cur'[p] = cur[p], base'[p] = base[p], seen'[p] = seen[p]
  PROVE  WalkInv(p)'
<1>1. TabInv(tab) /\ TabInv(tab') /\ Grows(tab, tab')
  BY DEF ActiveInv, FileInv, FileStep
<1>2. /\ KnownOf(tab) \subseteq KnownOf(tab')
      /\ \A g, h \in Group : Before(tab, g, h) => Before(tab', g, h)
  BY <1>1, GrowsKeeps
<1>3. KnownOf(tab) \subseteq Group
  BY <1>1, Members
<1>4. \A i \in DOMAIN seen[p] : seen[p][i] \in Group
  <2>1. seen[p] \in Seq(Group)
    BY DEF ActiveInv, TypeInv
  <2> QED BY <2>1
<1>5. base[p] \subseteq Group
  BY DEF ActiveInv, TypeInv
<1> QED BY <1>2, <1>3, <1>4, <1>5 DEF WalkInv

(* A step leaves the locals of the other processes alone. *)
OthersKept(p) ==
  \A q \in Proc \ {p} :
    /\ hashtab'[q] = hashtab[q] /\ msz'[q] = msz[q] /\ pc'[q] = pc[q]
    /\ cur'[q] = cur[q] /\ base'[q] = base[q] /\ seen'[q] = seen[q]

LEMMA StepInv ==
  ASSUME ActiveInv, NEW p \in Proc, TypeInv', FileStep, OthersKept(p), ProcInv(p)'
  PROVE  ActiveInv'
<1>1. ASSUME NEW q \in Proc \ {p} PROVE ProcInv(q)'
  <2>1. ProcInv(q)
    BY DEF ActiveInv
  <2>2. pc[q] = "walk" => WalkInv(q)'
    BY <2>1, WalkStands DEF ProcInv, OthersKept
  <2>3. msz[q] \in Nat /\ pages \in Nat /\ pages' \in Nat /\ pages <= pages'
    BY DEF ActiveInv, TypeInv, FileInv, FileStep
  <2>4. msz'[q] <= pages'
    BY <2>1, <2>3 DEF ProcInv, OthersKept
  <2> QED BY <2>1, <2>2, <2>4 DEF ProcInv, OthersKept
<1> QED BY <1>1 DEF ActiveInv, FileStep

(* When a lock is granted the process sees the file as it is. *)
LEMMA Current ==
  ASSUME ActiveInv, NEW p \in Proc, MakeCurrent(p), UNCHANGED file
  PROVE  /\ hashtab' \in [Proc -> BOOLEAN] /\ msz' \in [Proc -> Nat]
         /\ msz'[p] <= pages' /\ (hashtab'[p] <=> msz'[p] >= 2)
         /\ hashtab[p] => hashtab'[p]
         /\ \A q \in Proc \ {p} : hashtab'[q] = hashtab[q] /\ msz'[q] = msz[q]
<1>1. made <=> pages >= 2
  BY DEF ActiveInv, FileInv, PagesInv
<1>2. /\ pages \in Nat /\ made \in BOOLEAN /\ msz[p] \in Nat /\ msz[p] <= pages
      /\ (hashtab[p] <=> msz[p] >= 2)
  BY DEF ActiveInv, FileInv, TypeInv, ProcInv
<1>3. /\ msz' = [msz EXCEPT ![p] = pages] /\ pages' = pages
      /\ hashtab' = [hashtab EXCEPT ![p] = IF msz[p] = pages THEN hashtab[p] ELSE made]
  BY DEF MakeCurrent, file
<1>4. hashtab \in [Proc -> BOOLEAN] /\ msz \in [Proc -> Nat]
  BY DEF ActiveInv, TypeInv
<1>5. hashtab' \in [Proc -> BOOLEAN] /\ msz' \in [Proc -> Nat]
  BY <1>2, <1>3, <1>4
<1>6. msz'[p] = pages /\ hashtab'[p] = (IF msz[p] = pages THEN hashtab[p] ELSE made)
  BY <1>3, <1>4
<1>7. hashtab[p] => made
  BY <1>1, <1>2
<1>8. hashtab'[p] <=> pages >= 2
  BY <1>1, <1>2, <1>6
<1> QED BY <1>2, <1>3, <1>4, <1>5, <1>6, <1>7, <1>8

-----------------------------------------------------------------------------
(* The records that groupinfo makes. *)
LEMMA RecordType ==
  ASSUME NEW g \in Group, NEW t \in Nat
  PROVE  /\ Record(g, t) \in Hand /\ Record(g, t) \in Given /\ Record(g, t).name = g
         /\ [None EXCEPT !.name = g] \in Hand /\ [None EXCEPT !.name = g].name = g
         /\ None \in Hand
BY DEF Record, None, Hand, Given

(* One lemma per operation: the invariant holds again, and the file changes
   only as FileStep allows. *)

LEMMA OpenInv ==
  ASSUME ActiveInv, NEW p \in Proc, Open(p)
  PROVE  ActiveInv' /\ FileStep
<1>1. FileStep
  BY FileSame DEF Open
<1>2. made <=> pages >= 2
  BY DEF ActiveInv, FileInv, PagesInv
<1>3. TypeInv'
  BY DEF ActiveInv, TypeInv, FileInv, Open, Goto, job
<1>4. OthersKept(p)
  BY DEF ActiveInv, TypeInv, OthersKept, Open, Goto, job
<1>5. msz'[p] = pages /\ hashtab'[p] = made /\ pages' = pages /\ pc'[p] = IF made THEN "idle" ELSE "create"
  BY DEF ActiveInv, TypeInv, Open, Goto, file
<1>6. ProcInv(p)'
  <2>1. pages \in Nat
    BY DEF ActiveInv, FileInv
  <2> QED BY <1>2, <1>5, <2>1 DEF ProcInv
<1> QED BY <1>1, <1>3, <1>4, <1>6, StepInv

(* A table is only created when there is none: a process that has not seen
   the table others made sees that the file has grown. *)
LEMMA CreateInv ==
  ASSUME ActiveInv, NEW p \in Proc, Create(p)
  PROVE  ActiveInv' /\ FileStep
<1>1. made <=> pages >= 2
  BY DEF ActiveInv, FileInv, PagesInv
<1>2. /\ pages \in Nat /\ made \in BOOLEAN /\ msz[p] \in Nat /\ TabInv(tab)
      /\ (hashtab[p] <=> msz[p] >= 2)
  BY DEF ActiveInv, FileInv, TypeInv, ProcInv
<1>3. IF made THEN UNCHANGED file
      ELSE tab' = [b \in Bucket |-> <<>>] /\ made' = TRUE /\ pages' = pages + 1
  BY <1>1, <1>2 DEF Create
<1>4. FileStep /\ pages' >= 2
  <2>1. CASE made
    BY <1>1, <1>3, <2>1, FileSame DEF file
  <2>2. CASE ~made
    <3>1. pages = 1 /\ RecordsOf(tab) = {}
      BY <2>2 DEF ActiveInv, FileInv
    <3>2. tab' \in [Bucket -> Seq(Rcd)] /\ \A b \in Bucket : tab'[b] = <<>> /\ DOMAIN tab'[b] = {}
      <4> DEFINE e == <<>>
      <4>1. e \in Seq(Rcd) /\ DOMAIN e = {}
        OBVIOUS
      <4>2. tab' = [b \in Bucket |-> e]
        BY <1>3, <2>2
      <4> HIDE DEF e
      <4>3. tab' \in [Bucket -> Seq(Rcd)] /\ \A b \in Bucket : tab'[b] = e /\ DOMAIN tab'[b] = {}
        BY <4>1, <4>2
      <4> QED BY <4>3 DEF e
    <3>3. RecordsOf(tab') = {}
      BY <3>2 DEF RecordsOf, Range
    <3>4. TabInv(tab')
      BY <3>2, <3>3, FS_EmptySet DEF TabInv
    <3>5. \A b \in Bucket : Len(tab[b]) = 0 /\ Len(tab'[b]) = 0
      <4>1. \A b \in Bucket : DOMAIN tab[b] = 1 .. Len(tab[b]) /\ Len(tab[b]) \in Nat
        BY <1>2, Members
      <4>2. \A b \in Bucket : DOMAIN tab[b] = {}
        BY <1>2, <3>1, Members
      <4>3. ASSUME NEW b \in Bucket PROVE Len(tab[b]) = 0
        <5> DEFINE n == Len(tab[b])
        <5>1. n \in Nat /\ 1 .. n = {}
          BY <4>1, <4>2
        <5> HIDE DEF n
        <5>2. n = 0
          BY <5>1
        <5> QED BY <5>2 DEF n
      <4>4. Len(<<>>) = 0
        OBVIOUS
      <4> QED BY <3>2, <4>3, <4>4
    <3>6. Grows(tab, tab')
      <4>1. ASSUME NEW b \in Bucket
            PROVE  Len(tab'[b]) >= Len(tab[b]) /\ 1 .. Len(tab[b]) = {}
        <5>1. 0 >= 0 /\ 1 .. 0 = {}
          OBVIOUS
        <5> QED BY <3>5, <5>1
      <4> QED BY <4>1 DEF Grows
    <3>7. PagesInv(tab', pages')
      <4>1. 0 \div PerPage \in Nat
        <5>1. 0 \in Nat /\ PerPage \in Nat \ {0} /\ 0 <= 0
          BY TimesAssumption
        <5> QED BY <5>1, DivMonotone
      <4>2. Cardinality(RecordsOf(tab')) = 0
        BY <3>3, FS_EmptySet
      <4> QED BY <1>3, <2>2, <3>1, <4>1, <4>2 DEF PagesInv
    <3> QED BY <1>3, <2>2, <3>1, <3>4, <3>6, <3>7 DEF FileStep, FileInv
  <2> QED BY <2>1, <2>2
<1>5. pages' \in Nat
  BY <1>4 DEF FileStep, FileInv
<1>6. TypeInv'
  BY <1>5 DEF ActiveInv, TypeInv, Create, Goto, job
<1>7. OthersKept(p)
  BY DEF ActiveInv, TypeInv, OthersKept, Create, Goto, job
<1>8. hashtab'[p] = TRUE /\ msz'[p] = pages' /\ pc'[p] = "idle"
  BY DEF ActiveInv, TypeInv, Create, Goto
<1>9. ProcInv(p)'
  BY <1>4, <1>5, <1>8 DEF ProcInv
<1> QED BY <1>4, <1>6, <1>7, <1>9, StepInv

(* Steps that only look at the file under a lock. *)
LEMMA LookInv ==
  ASSUME ActiveInv, NEW p \in Proc,
         ActiveTest(p) \/ ActiveLock(p) \/ SelectAnswer(p) \/ Invalidate(p)
           \/ \E g \in Group : GroupinfoGet(p, g)
  PROVE  ActiveInv' /\ FileStep
<1>1. MakeCurrent(p) /\ UNCHANGED file
  BY DEF ActiveTest, ActiveLock, SelectAnswer, Invalidate, GroupinfoGet
<1>2. FileStep
  BY <1>1, FileSame
<1>3. /\ hashtab' \in [Proc -> BOOLEAN] /\ msz' \in [Proc -> Nat]
      /\ msz'[p] <= pages' /\ (hashtab'[p] <=> msz'[p] >= 2)
      /\ hashtab[p] => hashtab'[p]
      /\ \A q \in Proc \ {p} : hashtab'[q] = hashtab[q] /\ msz'[q] = msz[q]
  BY <1>1, Current
<1>4. ProcInv(p)
  BY DEF ActiveInv
<1>5. CASE ActiveTest(p)
  <2>1. TypeInv' /\ OthersKept(p)
    BY <1>3, <1>5 DEF ActiveInv, TypeInv, OthersKept, ActiveTest, Goto, job
  <2>2. ProcInv(p)'
    BY <1>3, <1>4, <1>5 DEF ActiveInv, TypeInv, ProcInv, ActiveTest, Goto, job
  <2> QED BY <1>2, <2>1, <2>2, StepInv
<1>6. CASE ActiveLock(p)
  <2>0. 0 \in 0 .. Len(Lists)
    BY ListsAssumption
  <2>1. TypeInv' /\ OthersKept(p)
    BY <1>3, <1>6, <2>0 DEF ActiveInv, TypeInv, OthersKept, ActiveLock, Goto
  <2>2. ProcInv(p)'
    BY <1>3, <1>4, <1>6 DEF ActiveInv, TypeInv, ProcInv, ActiveLock, Goto
  <2> QED BY <1>2, <2>1, <2>2, StepInv
<1>7. CASE SelectAnswer(p)
  <2>0. cur[p].name \in Group
    BY <1>4, <1>7 DEF ProcInv, SelectAnswer
  <2> DEFINE x == Record(cur[p].name, now)
  <2>1. cur' = [cur EXCEPT ![p] = x] /\ x \in Hand /\ x.name = cur[p].name
    BY <1>7, <2>0, RecordType DEF SelectAnswer, ActiveInv, TypeInv
  <2> HIDE DEF x
  <2>2. TypeInv' /\ OthersKept(p)
    BY <1>3, <1>7, <2>1 DEF ActiveInv, TypeInv, OthersKept, SelectAnswer, Goto
  <2>3. pc'[p] = "set" /\ cur'[p] = x /\ hashtab'[p]
    BY <1>3, <1>4, <1>7, <2>1 DEF ActiveInv, TypeInv, ProcInv, SelectAnswer, Goto
  <2>4. ProcInv(p)'
    BY <1>3, <2>0, <2>1, <2>3 DEF ProcInv
  <2> QED BY <1>2, <2>2, <2>4, StepInv
<1>8. CASE Invalidate(p)
  <2>1. TypeInv' /\ OthersKept(p)
    BY <1>3, <1>8 DEF ActiveInv, TypeInv, OthersKept, Invalidate, job
  <2>2. ProcInv(p)'
    BY <1>3, <1>4, <1>8 DEF ActiveInv, TypeInv, ProcInv, Invalidate, job
  <2> QED BY <1>2, <2>1, <2>2, StepInv
<1>9. ASSUME NEW g \in Group, GroupinfoGet(p, g) PROVE ActiveInv' /\ FileStep
  <2> DEFINE x == [None EXCEPT !.name = g]
  <2>1. x \in Hand /\ x.name = g
    <3>1. 0 \in Nat
      OBVIOUS
    <3> QED BY <3>1, RecordType
  <2>2. \/ pc' = pc /\ cur' = cur
        \/ pc' = [pc EXCEPT ![p] = "select"] /\ cur' = [cur EXCEPT ![p] = x]
    BY <1>9 DEF GroupinfoGet, Goto
  <2> HIDE DEF x
  <2>3. TypeInv' /\ OthersKept(p)
    <3>1. CASE pc' = pc /\ cur' = cur
      BY <1>3, <1>9, <3>1 DEF ActiveInv, TypeInv, OthersKept, GroupinfoGet
    <3>2. CASE pc' = [pc EXCEPT ![p] = "select"] /\ cur' = [cur EXCEPT ![p] = x]
      BY <1>3, <1>9, <2>1, <3>2 DEF ActiveInv, TypeInv, OthersKept, GroupinfoGet
    <3> QED BY <2>2, <3>1, <3>2
  <2>4. pc[p] = "idle" /\ (pc'[p] = "idle" \/ (pc'[p] = "select" /\ cur'[p] = x))
    BY <1>9, <2>2 DEF ActiveInv, TypeInv, GroupinfoGet
  <2>5. ProcInv(p)'
    BY <1>3, <1>4, <2>1, <2>4 DEF ProcInv
  <2> QED BY <1>2, <2>3, <2>5, StepInv
<1> QED BY <1>5, <1>6, <1>7, <1>8, <1>9

(* Steps that leave the file and the mapping alone, and do not walk. *)
LEMMA QuietInv ==
  ASSUME ActiveInv, NEW p \in Proc,
         TransferServer(p) \/ ReadEnd(p) \/ ReadThrows(p) \/ TransferEnd(p)
           \/ WalkEnd(p) \/ SelectFails(p) \/ Used(p)
  PROVE  ActiveInv' /\ FileStep
<1>1. UNCHANGED file /\ hashtab' = hashtab /\ msz' = msz
  BY DEF TransferServer, ReadEnd, ReadThrows, TransferEnd, WalkEnd, SelectFails, Used, map
<1>2. FileStep
  BY <1>1, FileSame
<1>3. ProcInv(p) /\ pages' = pages
  BY <1>1 DEF ActiveInv, file
<1>4. /\ pc'[p] \in {"idle", "transfer", "read", "active"}
      /\ pc[p] \notin {"closed", "create"}
  BY DEF ActiveInv, TypeInv, TransferServer, ReadEnd, ReadThrows, TransferEnd, WalkEnd,
         SelectFails, Used, Goto
<1>5. ProcInv(p)'
  BY <1>1, <1>3, <1>4 DEF ProcInv
<1>6. CASE TransferServer(p)
  <2>1. todo[p] + 1 \in 1 .. Len(Lists) /\ todo[p] + 1 \in 0 .. Len(Lists)
    BY <1>6, ListsAssumption DEF ActiveInv, TypeInv, TransferServer
  <2>2. Lists[todo[p] + 1] \in SUBSET Group
    BY <2>1, ListsAssumption
  <2>3. TypeInv' /\ OthersKept(p)
    BY <1>1, <1>6, <2>1, <2>2 DEF ActiveInv, TypeInv, OthersKept, TransferServer, Goto
  <2> QED BY <1>2, <1>5, <2>3, StepInv
<1>7. CASE ReadEnd(p)
  <2>1. mtime' \in Nat
    BY <1>7 DEF ActiveInv, TypeInv, ReadEnd, Setmtime
  <2>2. TypeInv' /\ OthersKept(p)
    BY <1>1, <1>7, <2>1 DEF ActiveInv, TypeInv, OthersKept, ReadEnd, Goto
  <2> QED BY <1>2, <1>5, <2>2, StepInv
<1>8. CASE ReadThrows(p)
  <2>1. TypeInv' /\ OthersKept(p)
    BY <1>1, <1>8 DEF ActiveInv, TypeInv, OthersKept, ReadThrows, Goto
  <2> QED BY <1>2, <1>5, <2>1, StepInv
<1>9. CASE TransferEnd(p)
  <2>0. 0 \in 0 .. Len(Lists)
    BY ListsAssumption
  <2>1. TypeInv' /\ OthersKept(p)
    BY <1>1, <1>9, <2>0 DEF ActiveInv, TypeInv, OthersKept, TransferEnd, Goto
  <2> QED BY <1>2, <1>5, <2>1, StepInv
<1>10. CASE WalkEnd(p)
  <2> DEFINE e == <<>>
  <2>0. e \in Seq(Group) /\ seen' = [seen EXCEPT ![p] = e]
    BY <1>10 DEF WalkEnd
  <2> HIDE DEF e
  <2>1. TypeInv' /\ OthersKept(p)
    BY <1>1, <1>10, <2>0 DEF ActiveInv, TypeInv, OthersKept, WalkEnd, Goto
  <2> QED BY <1>2, <1>5, <2>1, StepInv
<1>11. CASE SelectFails(p)
  <2>0. None \in Hand
    BY DEF None, Hand
  <2>1. TypeInv' /\ OthersKept(p)
    BY <1>1, <1>11, <2>0 DEF ActiveInv, TypeInv, OthersKept, SelectFails, Goto
  <2> QED BY <1>2, <1>5, <2>1, StepInv
<1>12. CASE Used(p)
  <2>1. TypeInv' /\ OthersKept(p)
    BY <1>1, <1>12 DEF ActiveInv, TypeInv, OthersKept, Used, Goto, job
  <2> QED BY <1>2, <1>5, <2>1, StepInv
<1> QED BY <1>6, <1>7, <1>8, <1>9, <1>10, <1>11, <1>12

(* NVActiveDB::read and NVActiveDB::set: a record is stored. *)
LEMMA StoreInv ==
  ASSUME ActiveInv, NEW p \in Proc, ReadLine(p) \/ SelectSet(p)
  PROVE  ActiveInv' /\ FileStep
<1>1. ProcInv(p) /\ hashtab[p] = TRUE /\ msz[p] \in Nat /\ pages \in Nat /\ now \in Nat
  BY DEF ActiveInv, TypeInv, FileInv, ProcInv, ReadLine, SelectSet
<1>2. made = TRUE /\ TabInv(tab) /\ PagesInv(tab, pages) /\ made' = made
  BY <1>1 DEF ActiveInv, FileInv, ProcInv, ReadLine, SelectSet
<1>3. \E r \in Given : Sset(r)
  <2>1. CASE ReadLine(p)
    <3>1. PICK g \in rest[p] : Sset(Record(g, now))
      BY <2>1 DEF ReadLine
    <3>2. g \in Group
      BY DEF ActiveInv, TypeInv
    <3> QED BY <1>1, <3>1, <3>2, RecordType
  <2>2. CASE SelectSet(p)
    <3>1. cur[p] \in Hand /\ cur[p].name \in Group
      BY <1>1, <2>2 DEF ActiveInv, TypeInv, ProcInv, SelectSet
    <3>2. cur[p] \in Given
      BY <3>1 DEF Hand, Given
    <3> QED BY <2>2, <3>2 DEF SelectSet
  <2> QED BY <2>1, <2>2
<1>4. TabInv(tab') /\ Grows(tab, tab') /\ PagesInv(tab', pages') /\ pages <= pages'
  BY <1>1, <1>2, <1>3, SsetGrows
<1>5. FileStep /\ pages' \in Nat /\ pages' >= 2
  BY <1>2, <1>4 DEF FileStep, FileInv, PagesInv
<1>6. hashtab' = hashtab
  <2>1. CASE ReadLine(p)
    BY <2>1 DEF ReadLine
  <2>2. CASE SelectSet(p)
    BY <1>1, <1>2, <2>2 DEF ActiveInv, TypeInv, SelectSet
  <2> QED BY <2>1, <2>2
<1>7. msz' = [msz EXCEPT ![p] = pages']
  BY DEF ReadLine, SelectSet
<1>8. None \in Hand
  BY DEF None, Hand
<1>9. TypeInv' /\ OthersKept(p)
  <2>1. CASE ReadLine(p)
    <3>1. \E g \in rest[p] : rest' = [rest EXCEPT ![p] = rest[p] \ {g}]
      BY <2>1 DEF ReadLine
    <3>2. rest' \in [Proc -> SUBSET Group]
      BY <3>1 DEF ActiveInv, TypeInv
    <3> QED BY <1>5, <1>6, <1>7, <2>1, <3>2 DEF ActiveInv, TypeInv, OthersKept, ReadLine
  <2>2. CASE SelectSet(p)
    BY <1>5, <1>6, <1>7, <1>8, <2>2 DEF ActiveInv, TypeInv, OthersKept, SelectSet, Goto
  <2> QED BY <2>1, <2>2
<1>10. pc'[p] \in {"read", "idle"} /\ msz'[p] = pages'
  BY <1>7 DEF ActiveInv, TypeInv, ReadLine, SelectSet, Goto
<1>11. ProcInv(p)'
  BY <1>1, <1>5, <1>6, <1>10 DEF ProcInv
<1> QED BY <1>5, <1>9, <1>11, StepInv

(* The process ends, or dies. *)
LEMMA GoneInv ==
  ASSUME ActiveInv, NEW p \in Proc, Gone(p)
  PROVE  ActiveInv' /\ FileStep
<1>1. FileStep /\ pages' = pages /\ pages \in Nat
  BY FileSame DEF Gone, ActiveInv, FileInv, file
<1>2. None \in Hand /\ 0 \in 0 .. Len(Lists)
  BY ListsAssumption DEF None, Hand
<1> DEFINE e == <<>>
<1>3. e \in Seq(Group) /\ seen' = [seen EXCEPT ![p] = e]
  BY DEF Gone
<1> HIDE DEF e
<1>4. TypeInv' /\ OthersKept(p)
  BY <1>2, <1>3 DEF ActiveInv, TypeInv, OthersKept, Gone, Goto
<1>5. msz'[p] = 0 /\ hashtab'[p] = FALSE /\ pc'[p] = "closed"
  BY DEF ActiveInv, TypeInv, Gone, Goto
<1>6. ProcInv(p)'
  BY <1>1, <1>5 DEF ProcInv
<1> QED BY <1>1, <1>4, <1>6, StepInv

(* A record of the table is not None. *)
LEMMA RecordNotNone ==
  ASSUME NEW t, TabInv(t), NEW r \in RecordsOf(t)
  PROVE  r # None /\ r \in Hand /\ r.name \in Group /\ r.name \in KnownOf(t)
<1>1. r \in Rcd
  BY Members
<1>2. r.page # None.page
  BY <1>1 DEF Rcd, None
<1> QED BY <1>1, <1>2 DEF Rcd, Hand, KnownOf

(* A walk begins in front of everything. *)
LEMMA WalkBeginInv ==
  ASSUME ActiveInv, NEW p \in Proc, WalkBegin(p)
  PROVE  ActiveInv' /\ FileStep
<1>1. TabInv(tab) /\ ProcInv(p)
  BY DEF ActiveInv, FileInv
<1>2. FileStep /\ tab' = tab /\ pages' = pages /\ hashtab' = hashtab /\ msz' = msz
  BY FileSame DEF WalkBegin, file, map
<1> DEFINE f == FirstFrom(1)
           e == <<>>
<1>3. \/ f = None /\ \A h \in KnownOf(tab) : Hash[h] < 1
      \/ /\ f \in RecordsOf(tab) /\ Hash[f.name] >= 1
         /\ \A h \in KnownOf(tab) : Hash[h] >= 1 => h = f.name \/ Before(tab, f.name, h)
  <2>1. 1 \in Nat
    OBVIOUS
  <2> QED BY <1>1, <2>1, FirstFromIsFirst
<1>4. KnownOf(tab) \subseteq Group /\ \A h \in KnownOf(tab) : Hash[h] >= 1 /\ ~(Hash[h] < 1)
  <2>1. \A h \in KnownOf(tab) : h \in Group /\ Hash[h] \in 1 .. Buckets /\ Buckets \in Nat
    BY <1>1, Members, BucketType
  <2> QED BY <2>1
<1>5. /\ e \in Seq(Group) /\ DOMAIN e = {} /\ Known = KnownOf(tab)
      /\ cur' = [cur EXCEPT ![p] = f] /\ base' = [base EXCEPT ![p] = KnownOf(tab)]
      /\ seen' = [seen EXCEPT ![p] = e]
  BY DEF WalkBegin, Known, Records, KnownOf, RecordsOf
<1> HIDE DEF f, e
<1>6. f \in Hand /\ (f # None => f \in RecordsOf(tab) /\ f.name \in KnownOf(tab))
  <2>1. None \in Hand
    BY DEF None, Hand
  <2> QED BY <1>1, <1>3, <2>1, RecordNotNone
<1>7. TypeInv' /\ OthersKept(p)
  BY <1>2, <1>4, <1>5, <1>6 DEF ActiveInv, TypeInv, OthersKept, WalkBegin, Goto
<1>8. cur'[p] = f /\ base'[p] = KnownOf(tab) /\ seen'[p] = e /\ pc'[p] = "walk"
  BY <1>5 DEF ActiveInv, TypeInv, WalkBegin, Goto
<1>9. \A g \in KnownOf(tab) : f # None /\ (g = f.name \/ Before(tab, f.name, g))
  BY <1>1, <1>3, <1>4, RecordNotNone
<1>10. WalkInv(p)'
  BY <1>2, <1>5, <1>6, <1>8, <1>9 DEF WalkInv, IsInjective
<1>11. pc[p] = "active"
  BY DEF WalkBegin
<1>12. ProcInv(p)'
  BY <1>1, <1>2, <1>8, <1>10, <1>11 DEF ProcInv
<1> QED BY <1>2, <1>7, <1>12, StepInv

(* A step of a walk lists the record at hand and goes on to the next. *)
LEMMA WalkStepInv ==
  ASSUME ActiveInv, NEW p \in Proc, WalkStep(p)
  PROVE  ActiveInv' /\ FileStep
<1>1. /\ TabInv(tab) /\ ProcInv(p) /\ pc[p] = "walk" /\ WalkInv(p) /\ cur[p] # None
      /\ seen[p] \in Seq(Group) /\ base[p] \subseteq Group
  BY DEF ActiveInv, FileInv, TypeInv, ProcInv, WalkStep
<1>2. FileStep /\ tab' = tab /\ pages' = pages /\ hashtab' = hashtab /\ msz' = msz
  BY FileSame DEF WalkStep, file, map
<1> DEFINE c == cur[p]
           g == cur[p].name
           f == Following(cur[p])
           s == seen[p]
           u == Append(seen[p], g)
<1>3. g \in KnownOf(tab) /\ g \in Group
  BY <1>1, Members DEF WalkInv
<1>4. \/ f = None /\ \A h \in KnownOf(tab) : ~Before(tab, g, h)
      \/ /\ f \in RecordsOf(tab) /\ Before(tab, g, f.name)
         /\ \A h \in KnownOf(tab) : Before(tab, g, h) => h = f.name \/ Before(tab, f.name, h)
  <2>1. c.name \in KnownOf(tab)
    BY <1>3
  <2> HIDE DEF c
  <2>2. \/ Following(c) = None /\ \A h \in KnownOf(tab) : ~Before(tab, c.name, h)
        \/ /\ Following(c) \in RecordsOf(tab) /\ Before(tab, c.name, Following(c).name)
           /\ \A h \in KnownOf(tab) : Before(tab, c.name, h) =>
                 h = Following(c).name \/ Before(tab, Following(c).name, h)
    BY <1>1, <2>1, FollowingIsNext
  <2> QED BY <2>2 DEF c
<1>5. /\ u \in Seq(Group) /\ DOMAIN u = 1 .. (Len(s) + 1) /\ DOMAIN s = 1 .. Len(s) /\ Len(s) \in Nat
      /\ u[Len(s) + 1] = g /\ \A i \in DOMAIN s : u[i] = s[i]
  BY <1>1, <1>3
<1>6. /\ cur' = [cur EXCEPT ![p] = f] /\ seen' = [seen EXCEPT ![p] = u] /\ base' = base /\ pc' = pc
      /\ todo' = todo /\ rest' = rest /\ mtime' = mtime /\ now' = now
  BY DEF WalkStep
<1>7. /\ \A i \in DOMAIN s : s[i] \in Group /\ Before(tab, s[i], g)
      /\ IsInjective(s)
      /\ \A h \in base[p] : h \in KnownOf(tab) /\ (h \in Range(s) \/ h = g \/ Before(tab, g, h))
  <2>1. \A i \in DOMAIN s : s[i] \in Group
    BY <1>1
  <2> QED BY <1>1, <2>1 DEF WalkInv
<1> HIDE DEF c, g, f, s, u
<1>8. f \in Hand /\ (f # None => f \in RecordsOf(tab) /\ f.name \in KnownOf(tab) /\ f.name \in Group)
  <2>1. None \in Hand
    BY DEF None, Hand
  <2> QED BY <1>1, <1>4, <2>1, RecordNotNone
<1>9. f \in RecordsOf(tab) => f # None
  BY <1>1, RecordNotNone
<1>10. \A i \in DOMAIN u : i = Len(s) + 1 \/ i \in DOMAIN s
  BY <1>5
<1>11. \A i \in DOMAIN u : f # None => Before(tab, u[i], f.name)
  <2>1. SUFFICES ASSUME NEW i \in DOMAIN u, f # None PROVE Before(tab, u[i], f.name)
    OBVIOUS
  <2>2. Before(tab, g, f.name) /\ f.name \in Group
    BY <1>4, <1>8, <2>1
  <2>3. CASE i = Len(s) + 1
    BY <1>5, <2>2, <2>3
  <2>4. CASE i \in DOMAIN s
    <3>1. u[i] = s[i] /\ s[i] \in Group /\ Before(tab, s[i], g)
      BY <1>5, <1>7, <2>4
    <3> QED BY <1>1, <1>3, <2>2, <3>1, BeforeOrder
  <2> QED BY <1>10, <2>3, <2>4
<1>12. IsInjective(u)
  <2>1. \A i \in DOMAIN s : s[i] # g
    BY <1>1, <1>3, <1>7, BeforeOrder
  <2>2. \A i, j \in DOMAIN s : s[i] = s[j] => i = j
    BY <1>7 DEF IsInjective
  <2>3. ASSUME NEW i \in DOMAIN u, NEW j \in DOMAIN u, u[i] = u[j] PROVE i = j
    BY <1>5, <1>10, <2>1, <2>2, <2>3
  <2> QED BY <2>3 DEF IsInjective
<1>13. Range(u) = Range(s) \cup {g}
  <2>1. Len(s) + 1 \in DOMAIN u /\ \A i \in DOMAIN s : i \in DOMAIN u
    BY <1>5
  <2> QED BY <1>5, <1>10, <2>1 DEF Range
<1>14. \A h \in base[p] : h \in Range(u) \/ (f # None /\ (h = f.name \/ Before(tab, f.name, h)))
  <2>1. SUFFICES ASSUME NEW h \in base[p], h \notin Range(u)
                 PROVE  f # None /\ (h = f.name \/ Before(tab, f.name, h))
    OBVIOUS
  <2>2. h \in KnownOf(tab) /\ Before(tab, g, h)
    BY <1>7, <1>13, <2>1
  <2> QED BY <1>4, <1>9, <2>2
<1>15. TypeInv' /\ OthersKept(p)
  BY <1>2, <1>5, <1>6, <1>8 DEF ActiveInv, TypeInv, OthersKept
<1>16. cur'[p] = f /\ seen'[p] = u /\ base'[p] = base[p] /\ pc'[p] = "walk"
  BY <1>1, <1>6 DEF ActiveInv, TypeInv
<1>17. WalkInv(p)'
  <2>1. base[p] \subseteq KnownOf(tab)
    BY <1>7
  <2> QED BY <1>2, <1>8, <1>11, <1>12, <1>14, <1>16, <2>1 DEF WalkInv
<1>18. ProcInv(p)'
  BY <1>1, <1>2, <1>16, <1>17 DEF ProcInv
<1> QED BY <1>2, <1>15, <1>18, StepInv

LEMMA TickInv ==
  ASSUME ActiveInv, Tick
  PROVE  ActiveInv' /\ FileStep
<1>1. FileStep /\ tab' = tab /\ pages' = pages
  BY FileSame DEF Tick, file
<1>2. TypeInv'
  BY DEF ActiveInv, TypeInv, Tick, map, job
<1>3. ASSUME NEW p \in Proc PROVE ProcInv(p)'
  BY <1>1 DEF ActiveInv, ProcInv, WalkInv, Tick, map, job
<1> QED BY <1>1, <1>2, <1>3 DEF ActiveInv, FileStep

-----------------------------------------------------------------------------
(* Every step keeps the invariant, and the table grows. *)
LEMMA NextKeeps ==
  ASSUME ActiveInv, Next
  PROVE  ActiveInv' /\ FileStep
<1>1. CASE Tick
  BY <1>1, TickInv
<1>2. ASSUME NEW p \in Proc, Going(p) PROVE ActiveInv' /\ FileStep
  <2>1. CASE Create(p)
    BY <2>1, CreateInv
  <2>2. CASE ActiveLock(p) \/ SelectAnswer(p)
    BY <2>2, LookInv
  <2>3. CASE TransferServer(p) \/ ReadEnd(p) \/ ReadThrows(p) \/ TransferEnd(p)
              \/ WalkEnd(p) \/ SelectFails(p) \/ Used(p)
    BY <2>3, QuietInv
  <2>4. CASE ReadLine(p) \/ SelectSet(p)
    BY <2>4, StoreInv
  <2>5. CASE WalkBegin(p)
    BY <2>5, WalkBeginInv
  <2>6. CASE WalkStep(p)
    BY <2>6, WalkStepInv
  <2>7. CASE WalkDies(p)
    BY <2>7, GoneInv DEF WalkDies
  <2> QED BY <1>2, <2>1, <2>2, <2>3, <2>4, <2>5, <2>6, <2>7 DEF Going
<1>3. ASSUME NEW p \in Proc, Open(p) PROVE ActiveInv' /\ FileStep
  BY <1>3, OpenInv
<1>4. ASSUME NEW p \in Proc, ActiveTest(p) \/ Invalidate(p) \/ \E g \in Group : GroupinfoGet(p, g)
      PROVE  ActiveInv' /\ FileStep
  BY <1>4, LookInv
<1>5. ASSUME NEW p \in Proc, Exit(p) PROVE ActiveInv' /\ FileStep
  BY <1>5, GoneInv DEF Exit
<1> QED BY <1>1, <1>2, <1>3, <1>4, <1>5 DEF Next

LEMMA InitInv == Init => ActiveInv
<1> SUFFICES ASSUME Init PROVE ActiveInv
  OBVIOUS
<1> DEFINE e == <<>>
<1>1. e \in Seq(Rcd) /\ e \in Seq(Group) /\ DOMAIN e = {}
  OBVIOUS
<1>2. tab = [b \in Bucket |-> e] /\ seen = [p \in Proc |-> e]
  BY DEF Init
<1> HIDE DEF e
<1>3. tab \in [Bucket -> Seq(Rcd)] /\ \A b \in Bucket : DOMAIN tab[b] = {}
  BY <1>1, <1>2
<1>4. RecordsOf(tab) = {}
  BY <1>3 DEF RecordsOf, Range
<1>5. TabInv(tab)
  BY <1>3, <1>4, FS_EmptySet DEF TabInv
<1>6. FileInv
  BY <1>4, <1>5 DEF Init, FileInv
<1>7. None \in Hand /\ 0 \in 0 .. Len(Lists)
  BY ListsAssumption DEF None, Hand
<1>8. TypeInv
  BY <1>1, <1>2, <1>7 DEF Init, TypeInv
<1>9. \A p \in Proc : ProcInv(p)
  BY DEF Init, ProcInv
<1> QED BY <1>6, <1>8, <1>9 DEF ActiveInv

LEMMA NextInv == ActiveInv /\ [Next]_vars => ActiveInv'
<1> SUFFICES ASSUME ActiveInv, [Next]_vars PROVE ActiveInv'
  OBVIOUS
<1>1. CASE Next
  BY <1>1, NextKeeps
<1>2. CASE UNCHANGED vars
  BY <1>2 DEF vars, ActiveInv, TypeInv, FileInv, ProcInv, WalkInv
<1> QED BY <1>1, <1>2

LEMMA Invariance == Spec => []ActiveInv
BY InitInv, NextInv, PTL DEF Spec

(* A group that is in the active database stays there, once, with the time at
   which it became known, for every hash function and every order in which
   processes create the table, transfer lists and set records. *)
THEOREM GroupsStay == Spec => GroupsKept
<1> DEFINE A == /\ \A r \in Records : \E s \in Records' : s.name = r.name /\ s.ctime = r.ctime
                /\ Cardinality(Known') = Cardinality(Records')
<1>1. ActiveInv /\ [Next]_vars => [A]_vars
  <2> SUFFICES ASSUME ActiveInv, Next PROVE A
    OBVIOUS
  <2>1. TabInv(tab) /\ TabInv(tab') /\ Grows(tab, tab')
    BY NextKeeps DEF ActiveInv, FileInv, FileStep
  <2>2. /\ Records = RecordsOf(tab) /\ Records' = RecordsOf(tab') /\ Known' = KnownOf(tab')
    BY DEF Records, Known, RecordsOf, KnownOf
  <2> QED BY <2>1, <2>2, GrowsKeeps, CardKnown
<1> QED BY <1>1, Invariance, PTL DEF Spec, GroupsKept

-----------------------------------------------------------------------------
(* When the lists were read *)

(* The time in the header is not older than what was read.  A transfer keeps the
   others out, and what it has still to read was too old when it began. *)
FetchInv ==
  /\ fetched \in [DOMAIN Lists -> Nat] /\ held \in [Proc -> {"UnLock", "ExclLock"}]
  /\ mtime <= now
  /\ \A k \in DOMAIN Lists : fetched[k] <= mtime
  /\ \A p \in Proc : pc[p] \in {"transfer", "read"} =>
       /\ held[p] = "ExclLock"
       /\ \A k \in DOMAIN Lists : k > todo[p] => fetched[k] + TTL <= now
  /\ \A p, q \in Proc : held[p] = "ExclLock" /\ held[q] = "ExclLock" => p = q

LEMMA FetchType ==
  ASSUME ActiveInv
  PROVE  /\ pc \in [Proc -> {"closed", "create", "idle", "relock", "transfer", "read", "active",
                             "walk", "select", "set"}]
         /\ mtime \in Nat /\ now \in Nat /\ TTL \in Nat
         /\ todo \in [Proc -> 0 .. Len(Lists)]
         /\ Len(Lists) \in Nat /\ DOMAIN Lists = 1 .. Len(Lists)
BY TimesAssumption, ListsAssumption DEF ActiveInv, TypeInv

(* Steps that touch neither the times nor the locks, and begin no transfer. *)
LEMMA FetchStands ==
  ASSUME ActiveInv, FetchInv, UNCHANGED <<mtime, fetched, now, held, todo>>,
         \A q \in Proc : pc'[q] = pc[q] \/ pc'[q] \notin {"transfer", "read"}
  PROVE  FetchInv'
BY DEF FetchInv

LEMMA FetchNext ==
  ASSUME ActiveInv, FetchInv, [Next]_vars
  PROVE  FetchInv'
<1>0. /\ pc \in [Proc -> {"closed", "create", "idle", "relock", "transfer", "read", "active",
                          "walk", "select", "set"}]
      /\ mtime \in Nat /\ now \in Nat /\ TTL \in Nat
      /\ todo \in [Proc -> 0 .. Len(Lists)]
      /\ Len(Lists) \in Nat /\ DOMAIN Lists = 1 .. Len(Lists)
  BY FetchType
<1>1. ASSUME NEW p \in Proc,
             \/ Open(p) \/ Create(p) \/ ActiveTest(p) \/ ReadLine(p) \/ WalkBegin(p) \/ WalkStep(p)
             \/ WalkEnd(p) \/ Used(p) \/ SelectFails(p) \/ SelectAnswer(p) \/ SelectSet(p)
             \/ \E g \in Group : GroupinfoGet(p, g)
      PROVE  FetchInv'
  <2>1. UNCHANGED <<mtime, fetched, now, held, todo>>
    BY <1>1 DEF Open, Create, ActiveTest, ReadLine, WalkBegin, WalkStep, WalkEnd, Used, SelectFails,
                SelectAnswer, SelectSet, GroupinfoGet, job
  <2>2. \A q \in Proc : pc'[q] = pc[q] \/ pc'[q] \notin {"transfer", "read"}
    BY <1>0, <1>1 DEF Open, Create, ActiveTest, ReadLine, WalkBegin, WalkStep, WalkEnd, Used, SelectFails,
                SelectAnswer, SelectSet, GroupinfoGet, Goto
  <2> QED BY <2>1, <2>2, FetchStands
<1>2. ASSUME NEW p \in Proc, ActiveLock(p) PROVE FetchInv'
  <2>1. UNCHANGED <<mtime, fetched, now>> /\ todo' = [todo EXCEPT ![p] = 0] /\ pc[p] = "relock"
    BY <1>2 DEF ActiveLock
  <2>2. CASE active_valid
    <3>1. pc' = [pc EXCEPT ![p] = "active"] /\ held' = held
      BY <1>2, <2>2 DEF ActiveLock, Goto
    <3> QED BY <1>0, <2>1, <3>1 DEF FetchInv
  <2>3. CASE ~active_valid
    <3>1. pc' = [pc EXCEPT ![p] = "transfer"] /\ held' = [held EXCEPT ![p] = "ExclLock"]
      BY <1>2, <2>3 DEF ActiveLock, Goto
    <3>2. \A q \in Proc \ {p} : held[q] = "UnLock"
      BY <1>2 DEF ActiveLock, Free
    <3>3. \A q \in Proc \ {p} : pc[q] \notin {"transfer", "read"}
      BY <3>2 DEF FetchInv
    <3>4. \A k \in DOMAIN Lists : fetched[k] + TTL <= now
      BY <1>0, <2>3 DEF active_valid, FetchInv
    <3> QED BY <1>0, <2>1, <3>1, <3>2, <3>3, <3>4 DEF FetchInv
  <2> QED BY <2>2, <2>3
<1>3. ASSUME NEW p \in Proc, TransferServer(p) PROVE FetchInv'
  <2>1. /\ UNCHANGED <<mtime, fetched, now, held>> /\ todo' = [todo EXCEPT ![p] = @ + 1]
        /\ pc[p] = "transfer" /\ (pc' = pc \/ pc' = [pc EXCEPT ![p] = "read"])
    BY <1>3 DEF TransferServer, Goto
  <2>2. \A q \in Proc : todo[q] \in Nat /\ todo'[q] \in Nat /\ todo[q] <= todo'[q]
    BY <1>0, <2>1
  <2>3. \A q \in Proc : pc'[q] \in {"transfer", "read"} => pc[q] \in {"transfer", "read"}
    BY <1>0, <2>1
  <2>4. \A q \in Proc : \A k \in DOMAIN Lists : k > todo'[q] => k > todo[q]
    BY <1>0, <2>2
  <2> QED BY <2>1, <2>3, <2>4 DEF FetchInv
<1>4. ASSUME NEW p \in Proc, ReadEnd(p) PROVE FetchInv'
  <2>1. /\ UNCHANGED <<now, held, todo>> /\ fetched' = [fetched EXCEPT ![todo[p]] = now]
        /\ mtime' = (IF now > mtime THEN now ELSE mtime)
        /\ pc[p] = "read" /\ pc' = [pc EXCEPT ![p] = "transfer"]
    BY <1>4 DEF ReadEnd, Goto, Setmtime
  <2>2. mtime' = now
    BY <1>0, <2>1 DEF FetchInv
  <2>3. \A k \in DOMAIN Lists : fetched'[k] = (IF k = todo[p] THEN now ELSE fetched[k])
    BY <2>1 DEF FetchInv
  <2>4. fetched' \in [DOMAIN Lists -> Nat]
    BY <1>0, <2>1 DEF FetchInv
  <2>5. \A k \in DOMAIN Lists : fetched'[k] <= mtime'
    BY <1>0, <2>2, <2>3 DEF FetchInv
  <2>6. \A q \in Proc : pc'[q] \in {"transfer", "read"} => q = p
    <3>1. \A q \in Proc : pc'[q] \in {"transfer", "read"} => pc[q] \in {"transfer", "read"}
      BY <1>0, <2>1
    <3> QED BY <2>1, <3>1 DEF FetchInv
  <2>7. held[p] = "ExclLock" /\ \A k \in DOMAIN Lists : k > todo[p] => fetched[k] + TTL <= now
    BY <2>1 DEF FetchInv
  <2>8. \A k \in DOMAIN Lists : k > todo[p] => k # todo[p]
    BY <1>0
  <2>9. \A k \in DOMAIN Lists : k > todo'[p] => fetched'[k] + TTL <= now'
    BY <2>1, <2>3, <2>7, <2>8
  <2> QED BY <1>0, <2>1, <2>2, <2>4, <2>5, <2>6, <2>7, <2>9 DEF FetchInv
<1>5. ASSUME NEW p \in Proc, ReadThrows(p) PROVE FetchInv'
  <2>1. /\ UNCHANGED <<mtime, fetched, now, held, todo>>
        /\ pc[p] = "read" /\ pc' = [pc EXCEPT ![p] = "transfer"]
    BY <1>5 DEF ReadThrows, Goto
  <2>2. \A q \in Proc : pc'[q] \in {"transfer", "read"} => pc[q] \in {"transfer", "read"}
    BY <1>0, <2>1
  <2> QED BY <2>1, <2>2 DEF FetchInv
<1>6. ASSUME NEW p \in Proc, TransferEnd(p) PROVE FetchInv'
  <2>1. /\ UNCHANGED <<mtime, fetched, now>> /\ todo' = [todo EXCEPT ![p] = 0]
        /\ pc[p] = "transfer" /\ pc' = [pc EXCEPT ![p] = "active"]
        /\ \E l \in {"ExclLock", "UnLock"} : held' = [held EXCEPT ![p] = l]
    BY <1>6 DEF TransferEnd, Goto
  <2>2. held[p] = "ExclLock"
    BY <2>1 DEF FetchInv
  <2>3. held' \in [Proc -> {"UnLock", "ExclLock"}] /\ \A q \in Proc : held'[q] = "ExclLock" => held[q] = "ExclLock"
    BY <2>1, <2>2 DEF FetchInv
  <2>4. \A q \in Proc : pc'[q] \in {"transfer", "read"} =>
          pc[q] \in {"transfer", "read"} /\ held'[q] = held[q] /\ todo'[q] = todo[q]
    BY <1>0, <2>1 DEF FetchInv
  <2> QED BY <2>1, <2>3, <2>4 DEF FetchInv
<1>7. ASSUME NEW p \in Proc, Gone(p) PROVE FetchInv'
  <2>1. /\ UNCHANGED <<mtime, fetched, now>> /\ todo' = [todo EXCEPT ![p] = 0]
        /\ pc' = [pc EXCEPT ![p] = "closed"] /\ held' = [held EXCEPT ![p] = "UnLock"]
    BY <1>7 DEF Gone, Goto
  <2>2. held' \in [Proc -> {"UnLock", "ExclLock"}] /\ \A q \in Proc : held'[q] = "ExclLock" => held[q] = "ExclLock"
    BY <2>1 DEF FetchInv
  <2>3. \A q \in Proc : pc'[q] \in {"transfer", "read"} =>
          pc[q] \in {"transfer", "read"} /\ held'[q] = held[q] /\ todo'[q] = todo[q]
    BY <1>0, <2>1 DEF FetchInv
  <2> QED BY <2>1, <2>2, <2>3 DEF FetchInv
<1>8. ASSUME NEW p \in Proc, Invalidate(p) PROVE FetchInv'
  <2>1. /\ UNCHANGED <<now, held, pc, todo>> /\ mtime' = 0 /\ fetched' = [k \in DOMAIN Lists |-> 0]
        /\ pc[p] = "idle" /\ \A q \in Proc \ {p} : held[q] = "UnLock"
    BY <1>8 DEF Invalidate, Free, job
  <2>2. \A q \in Proc : pc[q] \notin {"transfer", "read"}
    BY <2>1 DEF FetchInv
  <2> QED BY <1>0, <2>1, <2>2 DEF FetchInv
<1>9. CASE Tick
  <2>1. UNCHANGED <<mtime, fetched, held, pc, todo>> /\ now' = now + 1
    BY <1>9 DEF Tick, job
  <2>2. \A k \in DOMAIN Lists : fetched[k] + TTL <= now => fetched[k] + TTL <= now'
    BY <1>0, <2>1 DEF FetchInv
  <2>3. mtime' <= now'
    BY <1>0, <2>1 DEF FetchInv
  <2> QED BY <2>1, <2>2, <2>3 DEF FetchInv
<1>10. CASE UNCHANGED vars
  BY <1>10 DEF FetchInv, vars
<1> QED BY <1>1, <1>2, <1>3, <1>4, <1>5, <1>6, <1>7, <1>8, <1>9, <1>10 DEF Next, Going, WalkDies, Exit

(* No list is read from its server again before the time to live has passed
   since it was last read to its end, by whichever process, unless the database
   was invalidated: for any number of processes, servers and any times to live
   the second test of CServer::active, under the lock, keeps out those that found
   the database too old before somebody else had transferred it. *)
THEOREM NoTransferRepeated == Spec => NoRepeatedTransfer
<1> DEFINE A == \A p \in Proc : pc[p] = "transfer" /\ pc'[p] = "read" => fetched[todo'[p]] + TTL <= now
<1>1. Init => FetchInv
  <2> SUFFICES ASSUME Init PROVE FetchInv
    OBVIOUS
  <2>1. mtime = 0 /\ now = 1 /\ fetched = [k \in DOMAIN Lists |-> 0]
        /\ held = [p \in Proc |-> "UnLock"] /\ pc = [p \in Proc |-> "closed"]
    BY DEF Init
  <2> QED BY <2>1 DEF FetchInv
<1>2. ActiveInv /\ FetchInv /\ [Next]_vars => FetchInv'
  BY FetchNext
<1>3. ActiveInv /\ FetchInv /\ [Next]_vars => [A]_vars
  <2> SUFFICES ASSUME ActiveInv, FetchInv, Next, NEW p \in Proc, pc[p] = "transfer", pc'[p] = "read"
               PROVE  fetched[todo'[p]] + TTL <= now
    OBVIOUS
  <2>1. /\ pc \in [Proc -> {"closed", "create", "idle", "relock", "transfer", "read", "active",
                            "walk", "select", "set"}]
        /\ todo \in [Proc -> 0 .. Len(Lists)] /\ Len(Lists) \in Nat /\ DOMAIN Lists = 1 .. Len(Lists)
    BY FetchType
  <2>2. TransferServer(p)
    BY <2>1 DEF Next, Tick, Going, Create, ActiveLock, TransferServer, ReadLine, ReadEnd, ReadThrows,
          TransferEnd, WalkBegin, WalkStep, WalkEnd, WalkDies, Used, SelectFails, SelectAnswer,
          SelectSet, Open, ActiveTest, Invalidate, Exit, GroupinfoGet, Gone, Goto
  <2>3. todo'[p] = todo[p] + 1 /\ todo[p] < Len(Lists)
    BY <2>1, <2>2 DEF TransferServer
  <2>4. todo'[p] \in DOMAIN Lists /\ todo'[p] > todo[p]
    BY <2>1, <2>3
  <2> QED BY <2>4 DEF FetchInv
<1> QED BY <1>1, <1>2, <1>3, Invariance, PTL DEF Spec, NoRepeatedTransfer

(* A walk without a lock lists every group that was there at its start and
   lists none twice, however many records others put in front of the buckets. *)
THEOREM WalksAreComplete == Spec => []WalkComplete
<1>1. ActiveInv => WalkComplete
  BY DEF ActiveInv, ProcInv, WalkInv, WalkComplete
<1> QED BY <1>1, Invariance, PTL
=============================================================================
