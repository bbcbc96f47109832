--------------------------- MODULE GroupDBProofs ----------------------------
(***************************************************************************)
(* Proofs about the database of a newsgroup, for any set of processes, any *)
(* range of article numbers and any window: the operations of NVArray and  *)
(* NVNewsgroup keep the table sound, and the processes that use them keep  *)
(* to the lock that makes this enough.                                     *)
(***************************************************************************)
EXTENDS GroupDB, FiniteSetTheorems, WellFoundedInduction, TLAPS

(* The type of the database, and what makes a database sound: TableSound and
   RightArticle of an arbitrary database instead of the current one. *)
Database ==
  [fst : 1 .. MaxNbr + 1, lst : 0 .. MaxNbr, tab : [Nbr -> Block \cup {0}],
   table : Block \cup {0}, used : SUBSET Block,
   body : [Block -> [kind : Kinds, nbr : Nbr \cup {0}]], files : SUBSET Nbr]

EntriesOf(d) == {n \in Nbr : Has(d, n)}

Sound(d) ==
  /\ d \in Database
  /\ d.fst <= d.lst + 1
  /\ \A n \in EntriesOf(d) : d.tab[n] \in d.used \ {d.table}
  /\ \A n, m \in EntriesOf(d) : d.tab[n] = d.tab[m] => n = m
  /\ \A b \in d.used : b = d.table \/ \E n \in EntriesOf(d) : b = d.tab[n]
  /\ d.table # 0 => d.table \in d.used
  /\ \A n \in EntriesOf(d) : d.body[d.tab[n]].nbr = n

(* The container has a block left for whatever a database is about to store:
   the table and the entries take at most MaxNbr + 1 blocks. *)
LEMMA Room ==
  ASSUME NEW d \in Database, Sound(d), NEW S \in SUBSET d.used
  PROVE  NewBlock(S) \in Block \ S
<1> DEFINE E == EntriesOf(d)
           t == d.table
           f == [n \in E |-> d.tab[n]]
           T == {f[n] : n \in E}
<1>0. E \in SUBSET Nbr
  BY DEF EntriesOf
<1>1. IsFiniteSet(Nbr) /\ Cardinality(Nbr) = MaxNbr
  BY FS_Interval, MaxNbrAssumption DEF Nbr
<1>2. IsFiniteSet(E) /\ Cardinality(E) <= MaxNbr /\ Cardinality(E) \in Nat
  BY <1>0, <1>1, FS_Subset, FS_CardinalityType
<1>3. f \in Surjection(E, T)
  BY DEF Surjection
<1>4. IsFiniteSet(T) /\ Cardinality(T) <= Cardinality(E) /\ Cardinality(T) \in Nat
  <2> HIDE DEF f, T
  <2> QED BY <1>2, <1>3, FS_Surjection, FS_CardinalityType
<1>5. IsFiniteSet(T \cup {t}) /\ Cardinality(T \cup {t}) <= MaxNbr + 1
       /\ Cardinality(T \cup {t}) \in Nat
  <2> HIDE DEF T
  <2>1. IsFiniteSet(T \cup {t}) /\ Cardinality(T \cup {t}) \in Nat
    BY <1>4, FS_AddElement, FS_CardinalityType
  <2>2. Cardinality(T \cup {t}) = IF t \in T THEN Cardinality(T) ELSE Cardinality(T) + 1
    BY <1>4, FS_AddElement
  <2> QED BY <1>2, <1>4, <2>1, <2>2, MaxNbrAssumption
<1>6. S \in SUBSET (T \cup {t})
  BY DEF Sound
<1>7. IsFiniteSet(S) /\ Cardinality(S) <= MaxNbr + 1
  <2> HIDE DEF T
  <2> QED BY <1>5, <1>6, FS_Subset, FS_CardinalityType, MaxNbrAssumption
<1>8. \E b \in Block : b \notin S
  BY <1>7, BlockAssumption DEF Database
<1> QED BY <1>8 DEF NewBlock

(* Being in the table is being in the range with a block. *)
LEMMA EntryOf ==
  ASSUME NEW d \in Database, NEW n \in Nbr
  PROVE  /\ n \in EntriesOf(d) <=> d.fst <= n /\ n <= d.lst /\ d.tab[n] # 0
         /\ Has(d, n) <=> n \in EntriesOf(d)
         /\ n \in EntriesOf(d) => d.tab[n] \in Block
BY DEF EntriesOf, Has, InRange, Database

(* What is in the range of a database is an article number. *)
LEMMA RangeNbr ==
  ASSUME NEW d \in Database, NEW n \in Int, InRange(d, n)
  PROVE  n \in Nbr
BY MaxNbrAssumption DEF InRange, Database, Nbr

(* Store puts one record into one block and touches nothing else. *)
LEMMA StoreFields ==
  ASSUME NEW d \in Database, NEW n \in Nbr, NEW k \in Kinds, NEW b \in Block,
         b = NewBlock(d.used)
  PROVE  LET e == Store(d, n, k) IN
         /\ e \in Database
         /\ e.fst = d.fst /\ e.lst = d.lst /\ e.table = d.table /\ e.files = d.files
         /\ e.used = d.used \cup {b}
         /\ e.tab = [d.tab EXCEPT ![n] = b]
         /\ e.body = [d.body EXCEPT ![b] = [kind |-> k, nbr |-> n]]
BY DEF Store, Database

LEMMA FreeFields ==
  ASSUME NEW d \in Database, NEW n \in Nbr
  PROVE  LET e == Free(d, n) IN
         /\ e \in Database
         /\ e.fst = d.fst /\ e.lst = d.lst /\ e.table = d.table /\ e.files = d.files
         /\ e.used = d.used \ {d.tab[n]}
         /\ e.tab = d.tab /\ e.body = d.body
BY DEF Free, Database

LEMMA DropFields ==
  ASSUME NEW d \in Database, NEW n \in Nbr
  PROVE  LET e == [Free(d, n) EXCEPT !.tab[n] = 0] IN
         /\ e \in Database
         /\ e.fst = d.fst /\ e.lst = d.lst /\ e.table = d.table /\ e.files = d.files
         /\ e.used = d.used \ {d.tab[n]}
         /\ e.tab = [d.tab EXCEPT ![n] = 0] /\ e.body = d.body
BY DEF Free, Database

(* The blocks in use once setsize has freed what falls off. *)
Staying(d, f, l) == d.used \ {d.tab[n] : n \in Gone(d, f, l)}

LEMMA SetsizeFields ==
  ASSUME NEW d \in Database, NEW f \in 1 .. MaxNbr + 1, NEW l \in 0 .. MaxNbr,
         NEW t \in Block, t = NewBlock(Staying(d, f, l))
  PROVE  LET e == Setsize(d, f, l) IN
         /\ e \in Database
         /\ e.fst = f /\ e.lst = l /\ e.table = t
         /\ e.used = (Staying(d, f, l) \cup {t}) \ {d.table}
         /\ e.tab = Copy(d, f, l) /\ e.body = d.body
<1>1. Copy(d, f, l) \in [Nbr -> Block \cup {0}]
  BY DEF Copy, Database
<1> QED BY <1>1 DEF Setsize, Staying, Database

(* A new record for a number that has none, in a database that is otherwise
   sound, leaves it sound. *)
LEMMA StoreSound ==
  ASSUME NEW d \in Database, Sound(d), NEW n \in Nbr, InRange(d, n), ~Has(d, n),
         NEW k \in Kinds
  PROVE  LET e == Store(d, n, k) IN
         /\ Sound(e)
         /\ e.fst = d.fst /\ e.lst = d.lst /\ e.files = d.files
         /\ Kind(e, n) = k /\ Has(e, n)
         /\ \A m \in Nbr \ {n} : Kind(e, m) = Kind(d, m) /\ (Has(e, m) <=> Has(d, m))
<1> DEFINE b == NewBlock(d.used)
           e == Store(d, n, k)
<1>1. b \in Block \ d.used
  BY Room DEF Database
<1>2. /\ e \in Database
      /\ e.fst = d.fst /\ e.lst = d.lst /\ e.table = d.table /\ e.files = d.files
      /\ e.used = d.used \cup {b}
      /\ e.tab = [d.tab EXCEPT ![n] = b]
      /\ e.body = [d.body EXCEPT ![b] = [kind |-> k, nbr |-> n]]
  BY <1>1, StoreFields
<1> HIDE DEF b, e
<1>3. b # 0 /\ b # d.table
  BY <1>1, BlockAssumption DEF Sound
<1>4. /\ d.tab \in [Nbr -> Block \cup {0}]
      /\ d.body \in [Block -> [kind : Kinds, nbr : Nbr \cup {0}]]
  BY DEF Database
<1>5. e.tab[n] = b /\ \A m \in Nbr \ {n} : e.tab[m] = d.tab[m]
  BY <1>2, <1>4
<1>6. EntriesOf(e) = EntriesOf(d) \cup {n}
  BY <1>2, <1>3, <1>5 DEF EntriesOf, Has, InRange
<1>7. \A m \in EntriesOf(d) : m # n /\ d.tab[m] \in d.used /\ d.tab[m] # b /\ e.tab[m] = d.tab[m]
                              /\ d.tab[m] \in Block
  BY <1>1, <1>5, EntryOf DEF Sound, EntriesOf
<1>8. e.body[b] = [kind |-> k, nbr |-> n] /\ \A c \in Block \ {b} : e.body[c] = d.body[c]
  BY <1>1, <1>2, <1>4
<1>9. Sound(e)
  <2>1. \A m \in EntriesOf(e) : e.tab[m] \in e.used \ {e.table}
    BY <1>2, <1>3, <1>5, <1>6, <1>7 DEF Sound
  <2>2. \A m, j \in EntriesOf(e) : e.tab[m] = e.tab[j] => m = j
    BY <1>5, <1>6, <1>7 DEF Sound
  <2>3. \A c \in e.used : c = e.table \/ \E m \in EntriesOf(e) : c = e.tab[m]
    BY <1>2, <1>5, <1>6, <1>7 DEF Sound
  <2>4. \A m \in EntriesOf(e) : e.body[e.tab[m]].nbr = m
    BY <1>5, <1>6, <1>7, <1>8 DEF Sound
  <2> QED BY <1>2, <2>1, <2>2, <2>3, <2>4 DEF Sound
<1>10. Kind(e, n) = k /\ Has(e, n)
  BY <1>2, <1>3, <1>5, <1>8 DEF Kind, Has, InRange
<1>11. ASSUME NEW m \in Nbr \ {n}
       PROVE  Kind(e, m) = Kind(d, m) /\ (Has(e, m) <=> Has(d, m))
  <2>1. Has(e, m) <=> Has(d, m)
    BY <1>2, <1>5 DEF Has, InRange
  <2>2. Has(d, m) => e.body[e.tab[m]] = d.body[d.tab[m]]
    BY <1>7, <1>8 DEF EntriesOf
  <2> QED BY <2>1, <2>2 DEF Kind
<1> QED BY <1>2, <1>9, <1>10, <1>11 DEF e

(* Freeing the block of an entry and clearing the entry leaves a sound
   database without that entry. *)
LEMMA DropSound ==
  ASSUME NEW d \in Database, Sound(d), NEW n \in Nbr, Has(d, n)
  PROVE  LET e == [Free(d, n) EXCEPT !.tab[n] = 0] IN
         /\ Sound(e)
         /\ e.fst = d.fst /\ e.lst = d.lst /\ e.files = d.files
         /\ ~Has(e, n)
         /\ \A m \in Nbr \ {n} : Kind(e, m) = Kind(d, m) /\ (Has(e, m) <=> Has(d, m))
<1> DEFINE e == [Free(d, n) EXCEPT !.tab[n] = 0]
<1>1. /\ e \in Database
      /\ e.fst = d.fst /\ e.lst = d.lst /\ e.table = d.table /\ e.files = d.files
      /\ e.used = d.used \ {d.tab[n]}
      /\ e.tab = [d.tab EXCEPT ![n] = 0] /\ e.body = d.body
  BY DropFields
<1> HIDE DEF e
<1>2. e.tab[n] = 0 /\ \A m \in Nbr \ {n} : e.tab[m] = d.tab[m]
  BY <1>1 DEF Database
<1>3. EntriesOf(e) = EntriesOf(d) \ {n} /\ n \in EntriesOf(d)
  BY <1>1, <1>2 DEF EntriesOf, Has, InRange
<1>4. Sound(e)
  <2>1. \A m \in EntriesOf(e) : e.tab[m] = d.tab[m] /\ m \in EntriesOf(d) /\ e.tab[m] # d.tab[n]
    BY <1>2, <1>3 DEF Sound, EntriesOf
  <2>2. \A m \in EntriesOf(e) : e.tab[m] \in e.used \ {e.table}
    BY <1>1, <2>1 DEF Sound
  <2>3. \A c \in e.used : c = e.table \/ \E m \in EntriesOf(e) : c = e.tab[m]
    <3>1. SUFFICES ASSUME NEW c \in e.used, c # e.table
                   PROVE  \E m \in EntriesOf(e) : c = e.tab[m]
      OBVIOUS
    <3>2. PICK m \in EntriesOf(d) : c = d.tab[m]
      BY <1>1, <3>1 DEF Sound
    <3>3. m # n
      BY <1>1, <3>2
    <3> QED BY <1>2, <1>3, <3>2, <3>3 DEF EntriesOf
  <2>4. e.table # 0 => e.table \in e.used
    BY <1>1, <1>3 DEF Sound
  <2> QED BY <1>1, <2>1, <2>2, <2>3, <2>4 DEF Sound
<1>5. \A m \in Nbr \ {n} : Kind(e, m) = Kind(d, m) /\ (Has(e, m) <=> Has(d, m))
  BY <1>1, <1>2 DEF Kind, Has, InRange
<1>6. ~Has(e, n)
  BY <1>2 DEF Has
<1> QED BY <1>1, <1>4, <1>5, <1>6 DEF e

(* Storing over an entry whose block was just freed is dropping the entry and
   storing a new one. *)
LEMMA ReplaceIsDropAndStore ==
  ASSUME NEW d \in Database, Sound(d), NEW n \in Nbr, Has(d, n), NEW k \in Kinds
  PROVE  Store(Free(d, n), n, k) = Store([Free(d, n) EXCEPT !.tab[n] = 0], n, k)
<1> DEFINE x == Free(d, n)
           y == [Free(d, n) EXCEPT !.tab[n] = 0]
           b == NewBlock(x.used)
<1>1. x \in Database /\ x.used = d.used \ {d.tab[n]} /\ x.tab = d.tab
  BY FreeFields
<1>2. y = [x EXCEPT !.tab[n] = 0]
  OBVIOUS
<1> HIDE DEF x, y, b
<1>3. /\ y = [x EXCEPT !.tab = [x.tab EXCEPT ![n] = 0]]
      /\ y.used = x.used /\ y.body = x.body
      /\ y.tab = [x.tab EXCEPT ![n] = 0]
  BY <1>1, <1>2 DEF Database
<1>4. [y.tab EXCEPT ![n] = b] = [x.tab EXCEPT ![n] = b]
  BY <1>3, <1>1 DEF Database
<1>5. Store(x, n, k) = [x EXCEPT !.used = x.used \cup {b}, !.tab = [x.tab EXCEPT ![n] = b],
                                 !.body = [x.body EXCEPT ![b] = [kind |-> k, nbr |-> n]]]
  BY <1>1 DEF Store, b, Database
<1>6. Store(y, n, k) = [y EXCEPT !.used = x.used \cup {b}, !.tab = [x.tab EXCEPT ![n] = b],
                                 !.body = [x.body EXCEPT ![b] = [kind |-> k, nbr |-> n]]]
  BY <1>1, <1>3, <1>4 DEF Store, b, Database
<1>7. Store(x, n, k) = Store(y, n, k)
  BY <1>1, <1>3, <1>5, <1>6 DEF Database
<1> QED BY <1>7 DEF x, y

(* Putting a record of kind k where there may be one already, as setarticle
   does: the database stays sound and only that number changes. *)
LEMMA PutSound ==
  ASSUME NEW d \in Database, Sound(d), NEW n \in Nbr, InRange(d, n), NEW k \in Kinds
  PROVE  LET e == Store(IF Has(d, n) THEN Free(d, n) ELSE d, n, k) IN
         /\ Sound(e)
         /\ e.fst = d.fst /\ e.lst = d.lst /\ e.files = d.files
         /\ Kind(e, n) = k /\ Has(e, n)
         /\ \A m \in Nbr \ {n} : Kind(e, m) = Kind(d, m) /\ (Has(e, m) <=> Has(d, m))
<1>1. CASE ~Has(d, n)
  BY <1>1, StoreSound
<1>2. CASE Has(d, n)
  <2> DEFINE y == [Free(d, n) EXCEPT !.tab[n] = 0]
             e == Store(y, n, k)
  <2>1. /\ Sound(y)
        /\ y.fst = d.fst /\ y.lst = d.lst /\ y.files = d.files
        /\ ~Has(y, n)
        /\ \A m \in Nbr \ {n} : Kind(y, m) = Kind(d, m) /\ (Has(y, m) <=> Has(d, m))
    BY <1>2, DropSound
  <2>2. Store(Free(d, n), n, k) = e
    BY <1>2, ReplaceIsDropAndStore
  <2> HIDE DEF y
  <2>3. y \in Database /\ InRange(y, n)
    BY <2>1 DEF Sound, InRange
  <2>4. /\ Sound(e)
        /\ e.fst = y.fst /\ e.lst = y.lst /\ e.files = y.files
        /\ Kind(e, n) = k /\ Has(e, n)
        /\ \A m \in Nbr \ {n} : Kind(e, m) = Kind(y, m) /\ (Has(e, m) <=> Has(y, m))
    BY <2>1, <2>3, StoreSound
  <2> HIDE DEF e
  <2> QED BY <1>2, <2>1, <2>2, <2>4
<1> QED BY <1>1, <1>2

(* A record in place becomes the mark of a big article. *)
LEMMA MarkSound ==
  ASSUME NEW d \in Database, Sound(d), NEW n \in Nbr, Has(d, n)
  PROVE  LET e == [d EXCEPT !.body[d.tab[n]].kind = "big"] IN
         /\ Sound(e)
         /\ e.fst = d.fst /\ e.lst = d.lst /\ e.files = d.files
         /\ Kind(e, n) = "big" /\ Has(e, n)
         /\ \A m \in Nbr \ {n} : Kind(e, m) = Kind(d, m) /\ (Has(e, m) <=> Has(d, m))
<1> DEFINE b == d.tab[n]
           e == [d EXCEPT !.body[b].kind = "big"]
<1>1. b \in Block
  BY EntryOf
<1>2. /\ d.body \in [Block -> [kind : Kinds, nbr : Nbr \cup {0}]]
      /\ "big" \in Kinds
  BY DEF Database, Kinds
<1>3. /\ e = [d EXCEPT !.body = [d.body EXCEPT ![b] = [d.body[b] EXCEPT !.kind = "big"]]]
      /\ [d.body[b] EXCEPT !.kind = "big"] \in [kind : Kinds, nbr : Nbr \cup {0}]
  BY <1>1, <1>2
<1>4. /\ e \in Database
      /\ e.fst = d.fst /\ e.lst = d.lst /\ e.table = d.table /\ e.files = d.files
      /\ e.used = d.used /\ e.tab = d.tab
      /\ e.body = [d.body EXCEPT ![b] = [d.body[b] EXCEPT !.kind = "big"]]
  <2> HIDE DEF b
  <2> QED BY <1>1, <1>2, <1>3 DEF Database
<1>5. /\ e.body[b].kind = "big" /\ e.body[b].nbr = d.body[b].nbr
      /\ \A c \in Block \ {b} : e.body[c] = d.body[c]
  <2> HIDE DEF b, e
  <2> QED BY <1>1, <1>2, <1>4
<1> HIDE DEF b, e
<1>6. EntriesOf(e) = EntriesOf(d)
  BY <1>4 DEF EntriesOf, Has, InRange
<1>7. \A c \in Block : e.body[c].nbr = d.body[c].nbr
  BY <1>5
<1>8. Sound(e)
  <2>1. \A m \in EntriesOf(d) : d.tab[m] \in Block
    BY EntryOf DEF EntriesOf
  <2> QED BY <1>4, <1>6, <1>7, <2>1 DEF Sound
<1>9. Kind(e, n) = "big" /\ Has(e, n)
  BY <1>4, <1>5 DEF Kind, Has, InRange, b
<1>10. \A m \in Nbr \ {n} : Kind(e, m) = Kind(d, m) /\ (Has(e, m) <=> Has(d, m))
  <2>1. \A m \in Nbr \ {n} : Has(d, m) => d.tab[m] \in Block \ {b}
    BY EntryOf DEF Sound, EntriesOf, b
  <2> QED BY <1>4, <1>5, <2>1 DEF Kind, Has, InRange
<1> QED BY <1>4, <1>8, <1>9, <1>10 DEF e, b

(* The .art files have no part in the soundness of the table. *)
LEMMA FilesSound ==
  ASSUME NEW d \in Database, Sound(d), NEW F \in SUBSET Nbr
  PROVE  LET e == [d EXCEPT !.files = F] IN
         /\ Sound(e)
         /\ e.fst = d.fst /\ e.lst = d.lst /\ e.files = F
         /\ \A m \in Nbr : Kind(e, m) = Kind(d, m) /\ (Has(e, m) <=> Has(d, m))
<1> DEFINE e == [d EXCEPT !.files = F]
<1>1. /\ e \in Database
      /\ e.fst = d.fst /\ e.lst = d.lst /\ e.table = d.table /\ e.files = F
      /\ e.used = d.used /\ e.tab = d.tab /\ e.body = d.body
  BY DEF Database
<1> HIDE DEF e
<1>2. EntriesOf(e) = EntriesOf(d)
  BY <1>1 DEF EntriesOf, Has, InRange
<1>3. Sound(e)
  BY <1>1, <1>2 DEF Sound
<1>4. \A m \in Nbr : Kind(e, m) = Kind(d, m) /\ (Has(e, m) <=> Has(d, m))
  BY <1>1 DEF Kind, Has, InRange
<1> QED BY <1>1, <1>3, <1>4 DEF e

(* What an operation may do to the records of a database: it keeps the range,
   turns no article into an overview record and drops no entry. *)
Improves(d, e) ==
  /\ e.fst = d.fst /\ e.lst = d.lst
  /\ \A n \in Nbr : Kind(d, n) \in {"art", "big"} => Kind(e, n) # "over"
  /\ \A n \in Nbr : Has(d, n) => Has(e, n)

(* setarticle keeps the database sound and only improves it. *)
LEMMA SetarticleSound ==
  ASSUME NEW d \in Database, Sound(d), NEW n \in Int
  PROVE  Sound(Setarticle(d, n)) /\ Improves(d, Setarticle(d, n))
<1>1. CASE ~InRange(d, n)
  BY <1>1 DEF Setarticle, Improves
<1>2. CASE InRange(d, n) /\ n \notin Big
  <2> DEFINE e == Store(IF Has(d, n) THEN Free(d, n) ELSE d, n, "art")
  <2>1. Setarticle(d, n) = e
    BY <1>2 DEF Setarticle
  <2>2. n \in Nbr /\ "art" \in Kinds
    BY <1>2, RangeNbr DEF Kinds
  <2>3. /\ Sound(e)
        /\ e.fst = d.fst /\ e.lst = d.lst /\ e.files = d.files
        /\ Kind(e, n) = "art" /\ Has(e, n)
        /\ \A m \in Nbr \ {n} : Kind(e, m) = Kind(d, m) /\ (Has(e, m) <=> Has(d, m))
    BY <1>2, <2>2, PutSound
  <2> HIDE DEF e
  <2> QED BY <2>1, <2>3 DEF Improves
<1>3. CASE InRange(d, n) /\ n \in Big
  <2> DEFINE s == IF Kind(d, n) \in {"over", "big"}
                  THEN [d EXCEPT !.body[d.tab[n]].kind = "big"]
                  ELSE Store(IF Has(d, n) THEN Free(d, n) ELSE d, n, "big")
             e == [s EXCEPT !.files = s.files \cup {n}]
  <2>1. Setarticle(d, n) = e
    BY <1>3 DEF Setarticle
  <2>2. n \in Nbr /\ "big" \in Kinds
    BY <1>3, RangeNbr DEF Kinds
  <2>3. Kind(d, n) \in {"over", "big"} => Has(d, n)
    BY DEF Kind
  <2>4. /\ Sound(s)
        /\ s.fst = d.fst /\ s.lst = d.lst /\ s.files = d.files
        /\ Kind(s, n) = "big" /\ Has(s, n)
        /\ \A m \in Nbr \ {n} : Kind(s, m) = Kind(d, m) /\ (Has(s, m) <=> Has(d, m))
    <3>1. CASE Kind(d, n) \in {"over", "big"}
      BY <2>2, <2>3, <3>1, MarkSound
    <3>2. CASE Kind(d, n) \notin {"over", "big"}
      BY <1>3, <2>2, <3>2, PutSound
    <3> QED BY <3>1, <3>2
  <2> HIDE DEF s
  <2>5. s \in Database /\ s.files \cup {n} \in SUBSET Nbr
    BY <2>2, <2>4 DEF Sound, Database
  <2>6. /\ Sound(e)
        /\ e.fst = s.fst /\ e.lst = s.lst
        /\ \A m \in Nbr : Kind(e, m) = Kind(s, m) /\ (Has(e, m) <=> Has(s, m))
    BY <2>4, <2>5, FilesSound
  <2> HIDE DEF e
  <2> QED BY <2>1, <2>4, <2>6 DEF Improves
<1> QED BY <1>1, <1>2, <1>3

(* setover keeps the database sound and only improves it. *)
LEMMA SetoverSound ==
  ASSUME NEW d \in Database, Sound(d), NEW n \in Nbr
  PROVE  Sound(Setover(d, n)) /\ Improves(d, Setover(d, n))
<1>1. CASE ~(InRange(d, n) /\ ~Has(d, n))
  BY <1>1 DEF Setover, Improves
<1>2. CASE InRange(d, n) /\ ~Has(d, n)
  <2> DEFINE e == Store(d, n, "over")
  <2>1. Setover(d, n) = e
    BY <1>2 DEF Setover
  <2>2. "over" \in Kinds
    BY DEF Kinds
  <2>3. /\ Sound(e)
        /\ e.fst = d.fst /\ e.lst = d.lst
        /\ Has(e, n)
        /\ \A m \in Nbr \ {n} : Kind(e, m) = Kind(d, m) /\ (Has(e, m) <=> Has(d, m))
    BY <1>2, <2>2, StoreSound
  <2>4. Kind(d, n) = "none"
    BY <1>2 DEF Kind
  <2> HIDE DEF e
  <2> QED BY <2>1, <2>3, <2>4 DEF Improves
<1> QED BY <1>1, <1>2

(* Dropping the article of the number itself: the index was computed from the
   range the table has. *)
LEMMA DropDeletedSound ==
  ASSUME NEW d \in Database, Sound(d), NEW n \in Nbr, Has(d, n)
  PROVE  LET e == DropDeleted(d, n, d.fst) IN
         /\ Sound(e)
         /\ e.fst = d.fst /\ e.lst = d.lst
         /\ \A m \in Nbr : Kind(d, m) \in {"art", "big"} => Kind(e, m) # "over"
         /\ \A m \in Nbr \ {n} : Has(d, m) => Has(e, m)
<1> DEFINE e == [Free(d, n) EXCEPT !.tab[n] = 0]
<1>1. Indexed(d, n, d.fst) = n
  BY DEF Indexed, Database, Nbr
<1>2. DropDeleted(d, n, d.fst) = e
  BY <1>1 DEF DropDeleted
<1>3. /\ Sound(e)
      /\ e.fst = d.fst /\ e.lst = d.lst
      /\ ~Has(e, n)
      /\ \A m \in Nbr \ {n} : Kind(e, m) = Kind(d, m) /\ (Has(e, m) <=> Has(d, m))
  BY DropSound
<1> HIDE DEF e
<1>4. Kind(e, n) = "none"
  BY <1>3 DEF Kind
<1> QED BY <1>2, <1>3, <1>4

(* NVNewsgroup::setsize: the entries that stay keep their number, their block
   and what is in it; those that fall off give up their block. *)
LEMMA SetsizeSound ==
  ASSUME NEW d \in Database, Sound(d), NEW f \in 1 .. MaxNbr + 1, NEW l \in 0 .. MaxNbr,
         f <= l + 1
  PROVE  LET e == Setsize(d, f, l) IN
         /\ Sound(e)
         /\ e.fst = f /\ e.lst = l
         /\ \A n \in Nbr : Kind(d, n) \in {"art", "big"} => Kind(e, n) # "over"
         /\ \A n \in Nbr : Has(e, n) <=> Has(d, n) /\ f <= n /\ n <= l
<1> DEFINE U == Staying(d, f, l)
           t == NewBlock(U)
           e == Setsize(d, f, l)
<1>1. U \in SUBSET d.used /\ U \in SUBSET Block
  BY DEF Database, Staying
<1>2. t \in Block \ U
  <2> HIDE DEF U
  <2> QED BY <1>1, Room
<1>3. /\ e \in Database
      /\ e.fst = f /\ e.lst = l /\ e.table = t
      /\ e.used = (U \cup {t}) \ {d.table}
      /\ e.tab = Copy(d, f, l) /\ e.body = d.body
  BY <1>2, SetsizeFields
<1> HIDE DEF t, e
<1>4. \A n \in Nbr : e.tab[n] = IF f <= n /\ n <= l /\ InRange(d, n) THEN d.tab[n] ELSE 0
  BY <1>3 DEF Copy
<1>5. \A n \in Nbr : Has(e, n) <=> Has(d, n) /\ f <= n /\ n <= l
  BY <1>3, <1>4 DEF Has, InRange
<1>6. \A n \in Nbr : Has(e, n) => e.tab[n] = d.tab[n]
  BY <1>4, <1>5 DEF Has
<1>7. Gone(d, f, l) = {n \in EntriesOf(d) : n < f \/ n > l}
  <2>1. \A n \in d.fst .. d.lst : n \in Nbr
    BY MaxNbrAssumption DEF Database, Nbr
  <2>2. Nbr \subseteq Int /\ d.fst \in Int /\ d.lst \in Int
    BY DEF Database, Nbr
  <2>3. ASSUME NEW n
        PROVE  n \in Gone(d, f, l) <=> n \in EntriesOf(d) /\ (n < f \/ n > l)
    <3>1. n \in Gone(d, f, l) => n \in EntriesOf(d) /\ (n < f \/ n > l)
      BY <2>1, <2>2 DEF Gone, EntriesOf, Has, InRange
    <3>2. ASSUME n \in EntriesOf(d) PROVE n \in Nbr /\ n \in Int /\ n \in d.fst .. d.lst /\ d.tab[n] # 0
      BY <2>2, <3>2 DEF EntriesOf, Has, InRange
    <3>3. n \in EntriesOf(d) /\ (n < f \/ n > l) => n \in Gone(d, f, l)
      BY <3>2 DEF Gone
    <3> QED BY <3>1, <3>3
  <2> QED BY <2>3
<1>8. \A n \in EntriesOf(d) : n \in EntriesOf(e) \/ n \in Gone(d, f, l)
  BY <1>5, <1>7 DEF EntriesOf, Nbr
<1>9. \A n \in EntriesOf(e) : n \in EntriesOf(d) /\ n \notin Gone(d, f, l) /\ e.tab[n] = d.tab[n]
  BY <1>5, <1>6, <1>7 DEF EntriesOf, Nbr
<1>10. \A n \in EntriesOf(e) : d.tab[n] \in U \ {d.table}
  BY <1>7, <1>9 DEF Sound, Staying
<1>11. d.table # 0 => d.table \in U
  BY <1>7 DEF Sound, Staying
<1>12. Sound(e)
  <2>1. \A n \in EntriesOf(e) : e.tab[n] \in e.used \ {e.table}
    BY <1>2, <1>3, <1>9, <1>10
  <2>2. \A b \in e.used : b = e.table \/ \E n \in EntriesOf(e) : b = e.tab[n]
    <3>1. SUFFICES ASSUME NEW b \in U, b # d.table
                   PROVE  \E n \in EntriesOf(e) : b = e.tab[n]
      BY <1>3
    <3>2. PICK n \in EntriesOf(d) : b = d.tab[n]
      BY <1>1, <3>1 DEF Sound
    <3>3. n \notin Gone(d, f, l)
      BY <3>2 DEF Staying
    <3> QED BY <1>8, <1>9, <3>2, <3>3
  <2>3. e.table \in e.used
    <3>1. t # d.table
      BY <1>2, <1>11, BlockAssumption
    <3> QED BY <1>3, <3>1
  <2>4. \A n, m \in EntriesOf(e) : e.tab[n] = e.tab[m] => n = m
    BY <1>9 DEF Sound
  <2>5. \A n \in EntriesOf(e) : e.body[e.tab[n]].nbr = n
    BY <1>3, <1>9 DEF Sound
  <2> QED BY <1>3, <2>1, <2>2, <2>3, <2>4, <2>5 DEF Sound
<1>13. \A n \in Nbr : Kind(d, n) \in {"art", "big"} => Kind(e, n) # "over"
  BY <1>3, <1>5, <1>6 DEF Kind
<1> QED BY <1>3, <1>5, <1>12, <1>13 DEF e

-----------------------------------------------------------------------------
(* The processes.  A walk over the database has the exclusive lock from its
   beginning to its end, so the range it was begun with is the range of the
   table; whoever stores or moves the table takes the lock for one step. *)
Walking(p) == pc[p] \in {"update", "overview", "prefetch"}

ProcInv(p) ==
  /\ pc[p] \in {"idle", "setsize", "retrieve", "store", "update", "overview", "prefetch"}
  /\ pc[p] \in {"idle", "setsize", "store"} => lock[p] = "UnLock"
  /\ pc[p] = "retrieve" => lock[p] = "ShrdLock"
  /\ pc[p] = "setsize" => lo[p] <= hi[p] + 1
  /\ Walking(p) =>
       /\ lock[p] = "ExclLock"
       /\ lo[p] = db.fst /\ hi[p] = db.lst
       /\ lo[p] <= nbr[p] /\ nbr[p] <= hi[p] + 1

OneWriter == \A p, q \in Proc : p # q /\ lock[p] = "ExclLock" => lock[q] = "UnLock"

(* The inductive invariant. *)
GroupInv == TypeOK /\ Sound(db) /\ OneWriter /\ \A p \in Proc : ProcInv(p)

(* A nonempty set of integers that is bounded from above has a greatest
   element. *)
LEMMA Greatest ==
  ASSUME NEW S \in SUBSET Int, NEW h \in Int, \A n \in S : n <= h, S # {}
  PROVE  \E n \in S : \A m \in S : m <= n
<1> DEFINE R == OpToRel(<, Nat)
           T == {h - n : n \in S}
<1>1. IsWellFoundedOn(R, Nat)
  BY NatLessThanWellFounded
<1>2. T \subseteq Nat /\ T # {}
  <2>1. \A n \in S : h - n \in Nat
    OBVIOUS
  <2>2. PICK n \in S : TRUE
    OBVIOUS
  <2>3. h - n \in T
    OBVIOUS
  <2> QED BY <2>1, <2>3
<1>3. \A x, y \in Nat : <<y, x>> \in R <=> y < x
  BY DEF OpToRel
<1>4. \E x \in T : \A y \in T : ~(<<y, x>> \in R)
  <2> HIDE DEF R, T
  <2> QED BY <1>1, <1>2, WFMin
<1>5. PICK x \in T : \A y \in T : ~(<<y, x>> \in R)
  BY <1>4
<1>6. \A y \in T : ~(y < x)
  <2> HIDE DEF R, T
  <2> QED BY <1>2, <1>3, <1>5
<1>7. PICK n \in S : x = h - n
  OBVIOUS
<1>8. ASSUME NEW m \in S PROVE m <= n
  <2>1. h - m \in T
    OBVIOUS
  <2>2. ~(h - m < h - n)
    BY <1>6, <1>7, <2>1
  <2> QED BY <2>2
<1> QED BY <1>8

(* The request of sUpdateOverview starts at a missing number and ends at one;
   the number where the walk goes on lies behind it, and no number that is
   missing lies between. *)
LEMMA Batch ==
  ASSUME NEW p \in Proc, GroupInv, pc[p] = "update", nbr[p] <= hi[p],
         Listed(p), ~Has(db, nbr[p])
  PROVE  /\ BatchLast(p) \in nbr[p] .. hi[p]
         /\ BatchNext(p) \in nbr[p] .. hi[p] + 1
         /\ \A n \in list[p] : nbr[p] <= n /\ n < BatchNext(p) =>
               Has(db, n) \/ n \in nbr[p] .. BatchLast(p)
<1> DEFINE missing == {n \in list[p] : nbr[p] <= n /\ n <= hi[p] /\ ~Has(db, n)}
           reached == {n \in missing : \A k \in missing :
                         k < n => \E m \in missing : k < m /\ m <= n /\ m < k + Window}
           B == BatchLast(p)
<1>1. list[p] \subseteq Int /\ nbr[p] \in Int /\ hi[p] \in Int /\ Window \in Int /\ Window > 0
  BY WindowAssumption, MaxNbrAssumption DEF GroupInv, TypeOK, Nbr
<1>2. nbr[p] \in missing /\ \A k \in missing : ~(k < nbr[p])
  BY <1>1 DEF Listed
<1>3. nbr[p] \in reached
  BY <1>2
<1>4. missing \in SUBSET Int /\ reached \subseteq missing /\ \A n \in missing : nbr[p] <= n /\ n <= hi[p]
  BY <1>1
<1>5. \E n \in reached : \A m \in reached : m <= n
  <2>1. reached \in SUBSET Int /\ \A n \in reached : n <= hi[p]
    BY <1>4
  <2> HIDE DEF reached
  <2> QED BY <1>1, <1>3, <2>1, Greatest
<1>6. B = CHOOSE n \in reached : \A m \in reached : m <= n
  BY DEF BatchLast
<1>7. B \in reached /\ \A m \in reached : m <= B
  <2> HIDE DEF reached, B
  <2> QED BY <1>5, <1>6
<1>8. B \in nbr[p] .. hi[p] /\ B \in missing
  <2> HIDE DEF B
  <2> QED BY <1>1, <1>4, <1>7
<1>9. BatchNext(p) = IF B + Window <= hi[p] THEN B + Window ELSE hi[p] + 1
  BY DEF BatchNext
<1>10. \A k \in missing : k < B => \E m \in missing : k < m /\ m <= B /\ m < k + Window
  <2> HIDE DEF B
  <2> QED BY <1>7
<1> HIDE DEF B
<1>11. ASSUME NEW n \in list[p], nbr[p] <= n, n < BatchNext(p), ~Has(db, n), ~(n <= B)
       PROVE  FALSE
  <2>1. n \in Int /\ B \in Int /\ n <= hi[p] /\ n < B + Window
    BY <1>1, <1>8, <1>9, <1>11
  <2>2. n \in missing
    BY <1>11, <2>1
  <2>3. ASSUME NEW k \in missing, k < n
        PROVE  \E m \in missing : k < m /\ m <= n /\ m < k + Window
    <3>1. k \in Int
      BY <1>4
    <3>2. CASE k < B
      <4>1. PICK m \in missing : k < m /\ m <= B /\ m < k + Window
        BY <1>10, <3>2
      <4>2. m \in Int
        BY <1>4
      <4> HIDE DEF missing
      <4> QED BY <1>11, <2>1, <4>1, <4>2
    <3>3. CASE ~(k < B)
      <4>1. k < n /\ n <= n /\ n < k + Window
        BY <1>1, <2>1, <2>3, <3>1, <3>3
      <4> HIDE DEF missing
      <4> QED BY <2>2, <4>1
    <3> QED BY <3>2, <3>3
  <2>4. n \in reached
    <3> HIDE DEF missing
    <3> QED BY <2>2, <2>3
  <2> HIDE DEF reached
  <2> QED BY <1>7, <1>11, <2>4
<1>12. BatchNext(p) \in nbr[p] .. hi[p] + 1
  BY <1>1, <1>8, <1>9
<1>13. ASSUME NEW n \in list[p], nbr[p] <= n, n < BatchNext(p), ~Has(db, n)
       PROVE  n \in nbr[p] .. B
  BY <1>1, <1>8, <1>11, <1>13
<1> QED BY <1>8, <1>12, <1>13 DEF B

-----------------------------------------------------------------------------
(* A step of p leaves the locals and the lock of the others alone, and moves
   the range of the table only when no other process has a lock. *)
OthersKept(p) ==
  /\ \A q \in Proc \ {p} : /\ pc'[q] = pc[q] /\ lock'[q] = lock[q] /\ lo'[q] = lo[q]
                            /\ hi'[q] = hi[q] /\ nbr'[q] = nbr[q]
  /\ Exclusive(p) \/ (db'.fst = db.fst /\ db'.lst = db.lst)

(* A lock is taken when the locks of the others allow it. *)
LockTaken(p) ==
  /\ lock'[p] = "ExclLock" => lock[p] = "ExclLock" \/ Exclusive(p)
  /\ lock'[p] # "UnLock" => lock[p] # "UnLock" \/ Shared(p)

(* What holds of the process that takes a step, and of the others, makes the
   invariant hold again. *)
LEMMA StepInv ==
  ASSUME GroupInv, NEW p \in Proc, TypeOK', Sound(db'), OthersKept(p), LockTaken(p),
         ProcInv(p)'
  PROVE  GroupInv'
<1>1. ASSUME NEW q \in Proc \ {p} PROVE ProcInv(q)'
  <2>1. ProcInv(q)
    BY DEF GroupInv
  <2>2. Walking(q) => ~Exclusive(p)
    BY <2>1 DEF ProcInv, Exclusive
  <2> QED BY <2>1, <2>2 DEF OthersKept, ProcInv, Walking
<1>2. OneWriter'
  <2>1. SUFFICES ASSUME NEW r \in Proc, NEW q \in Proc, r # q, lock'[r] = "ExclLock"
                 PROVE  lock'[q] = "UnLock"
    BY DEF OneWriter
  <2>2. CASE r # p /\ q # p
    BY <2>1, <2>2 DEF GroupInv, OneWriter, OthersKept
  <2>3. CASE r = p
    BY <2>1, <2>3 DEF GroupInv, OneWriter, OthersKept, LockTaken, Exclusive
  <2>4. CASE q = p
    BY <2>1, <2>4 DEF GroupInv, OneWriter, OthersKept, LockTaken, Shared
  <2> QED BY <2>2, <2>3, <2>4
<1> QED BY <1>1, <1>2 DEF GroupInv

(* What a step of p may do to the database. *)
StepEffect(p) ==
  /\ Sound(db')
  /\ \A n \in Nbr : Kind(db, n) \in {"art", "big"} => Kind(db', n) # "over"
  /\ \A n \in Nbr : Has(db, n) /\ InRange(db', n) /\ ~Has(db', n) =>
       nbr[p] = n /\ nbr'[p] = n + 1 /\ n \notin list[p]

(* A step that leaves the database alone, or only improves it. *)
LEMMA ImproveEffect ==
  ASSUME GroupInv, NEW p \in Proc, Sound(db'), Improves(db, db')
  PROVE  StepEffect(p) /\ db'.fst = db.fst /\ db'.lst = db.lst
BY DEF StepEffect, Improves

LEMMA SameEffect ==
  ASSUME GroupInv, NEW p \in Proc, db' = db
  PROVE  StepEffect(p) /\ db'.fst = db.fst /\ db'.lst = db.lst
BY DEF StepEffect, GroupInv

(* A step that moves the table. *)
LEMMA MoveEffect ==
  ASSUME GroupInv, NEW p \in Proc, NEW f \in 1 .. MaxNbr + 1, NEW l \in 0 .. MaxNbr,
         f <= l + 1, db' = Setsize(db, f, l)
  PROVE  StepEffect(p) /\ db'.fst = f /\ db'.lst = l
<1>1. db \in Database /\ Sound(db)
  BY DEF GroupInv, Sound
<1>2. /\ Sound(db')
      /\ db'.fst = f /\ db'.lst = l
      /\ \A n \in Nbr : Kind(db, n) \in {"art", "big"} => Kind(db', n) # "over"
      /\ \A n \in Nbr : Has(db', n) <=> Has(db, n) /\ f <= n /\ n <= l
  BY <1>1, SetsizeSound
<1> QED BY <1>2 DEF StepEffect, InRange

(* A step that drops the article at hand, which is not listed. *)
LEMMA DropEffect ==
  ASSUME GroupInv, NEW p \in Proc, Walking(p), nbr[p] <= hi[p], ~Listed(p), Has(db, nbr[p]),
         db' = DropDeleted(db, nbr[p], lo[p]), Advance(p)
  PROVE  StepEffect(p) /\ db'.fst = db.fst /\ db'.lst = db.lst
<1>1. db \in Database /\ Sound(db) /\ ProcInv(p)
  BY DEF GroupInv, Sound
<1>2. nbr[p] \in Int
  BY MaxNbrAssumption DEF GroupInv, TypeOK
<1>3. nbr[p] \in Nbr /\ lo[p] = db.fst
  BY <1>1, <1>2, RangeNbr DEF ProcInv, Has
<1>4. /\ Sound(db')
      /\ db'.fst = db.fst /\ db'.lst = db.lst
      /\ \A m \in Nbr : Kind(db, m) \in {"art", "big"} => Kind(db', m) # "over"
      /\ \A m \in Nbr \ {nbr[p]} : Has(db, m) => Has(db', m)
  BY <1>1, <1>3, DropDeletedSound
<1>5. nbr'[p] = nbr[p] + 1
  BY DEF GroupInv, TypeOK, Advance
<1> QED BY <1>4, <1>5 DEF StepEffect, Listed

-----------------------------------------------------------------------------
(* One lemma per operation: the invariant holds again and the step does to the
   database what StepEffect says. *)

(* An operation is over. *)
LEMMA DoneInv ==
  ASSUME GroupInv, NEW p \in Proc, Done(p), Sound(db'),
         Exclusive(p) \/ (db'.fst = db.fst /\ db'.lst = db.lst)
  PROVE  GroupInv'
<1>1. TypeOK'
  BY MaxNbrAssumption DEF GroupInv, TypeOK, Done, Sound, Database
<1>2. OthersKept(p) /\ LockTaken(p) /\ ProcInv(p)'
  BY DEF GroupInv, TypeOK, Done, OthersKept, LockTaken, ProcInv, Walking
<1> QED BY <1>1, <1>2, StepInv

(* The ranges that groupinfo reports. *)
LEMMA RangeType ==
  ASSUME NEW r \in Ranges
  PROVE  r[1] \in 1 .. MaxNbr + 1 /\ r[2] \in 0 .. MaxNbr /\ r[1] <= r[2] + 1
BY RangesAssumption

LEMMA SetsizeBeginInv ==
  ASSUME GroupInv, NEW p \in Proc, NEW r \in Ranges, SetsizeBegin(p, r[1], r[2])
  PROVE  GroupInv' /\ StepEffect(p)
<1>1. StepEffect(p) /\ db' = db
  BY SameEffect DEF SetsizeBegin
<1>2. TypeOK'
  BY RangeType DEF GroupInv, TypeOK, SetsizeBegin
<1>3. OthersKept(p) /\ LockTaken(p)
  BY DEF GroupInv, TypeOK, SetsizeBegin, OthersKept, LockTaken
<1>4. ProcInv(p)'
  BY RangeType DEF GroupInv, TypeOK, SetsizeBegin, ProcInv, Walking
<1> QED BY <1>1, <1>2, <1>3, <1>4, StepInv DEF StepEffect

LEMMA SetsizeEndInv ==
  ASSUME GroupInv, NEW p \in Proc, SetsizeEnd(p)
  PROVE  GroupInv' /\ StepEffect(p)
<1>1. lo[p] \in 1 .. MaxNbr + 1 /\ hi[p] \in 0 .. MaxNbr /\ lo[p] <= hi[p] + 1
  BY DEF GroupInv, TypeOK, ProcInv, SetsizeEnd
<1>2. StepEffect(p)
  BY <1>1, MoveEffect DEF SetsizeEnd
<1> QED BY <1>2, DoneInv DEF SetsizeEnd, StepEffect

LEMMA GetarticleInv ==
  ASSUME GroupInv, NEW p \in Proc, NEW n \in Nbr, Getarticle(p, n)
  PROVE  GroupInv' /\ StepEffect(p)
<1>1. StepEffect(p) /\ db' = db
  BY SameEffect DEF Getarticle
<1>2. TypeOK'
  BY MaxNbrAssumption DEF GroupInv, TypeOK, Getarticle, Nbr
<1>3. OthersKept(p) /\ LockTaken(p)
  BY DEF GroupInv, TypeOK, Getarticle, OthersKept, LockTaken
<1>4. ProcInv(p)'
  BY DEF GroupInv, TypeOK, Getarticle, ProcInv, Walking
<1> QED BY <1>1, <1>2, <1>3, <1>4, StepInv DEF StepEffect

LEMMA RetrieveInv ==
  ASSUME GroupInv, NEW p \in Proc, RetrieveFails(p) \/ Retrieved(p)
  PROVE  GroupInv' /\ StepEffect(p)
<1>1. StepEffect(p) /\ db' = db
  BY SameEffect DEF RetrieveFails, Retrieved
<1>2. CASE RetrieveFails(p)
  BY <1>1, <1>2, DoneInv DEF RetrieveFails, StepEffect
<1>3. CASE Retrieved(p)
  <2>1. TypeOK'
    BY <1>3 DEF GroupInv, TypeOK, Retrieved, job
  <2>2. OthersKept(p) /\ LockTaken(p) /\ ProcInv(p)'
    BY <1>3 DEF GroupInv, TypeOK, Retrieved, job, OthersKept, LockTaken, ProcInv, Walking
  <2> QED BY <1>1, <2>1, <2>2, StepInv DEF StepEffect
<1> QED BY <1>1, <1>2, <1>3

LEMMA StoreArticleInv ==
  ASSUME GroupInv, NEW p \in Proc, StoreArticle(p)
  PROVE  GroupInv' /\ StepEffect(p)
<1>1. db \in Database /\ Sound(db) /\ nbr[p] \in Int
  BY MaxNbrAssumption DEF GroupInv, TypeOK, Sound
<1>2. Sound(db') /\ Improves(db, db')
  BY <1>1, SetarticleSound DEF StoreArticle
<1>3. StepEffect(p)
  BY <1>2, ImproveEffect
<1> QED BY <1>2, <1>3, DoneInv DEF StoreArticle

LEMMA BeginInv ==
  ASSUME GroupInv, NEW p \in Proc, NEW r \in Ranges, r[1] >= db.fst, Begin(p, r)
  PROVE  GroupInv' /\ StepEffect(p)
<1>1. PICK what \in {"update", "prefetch"}, listed \in SUBSET (r[1] .. r[2]) :
        UpdateBegin(p, what, r[1], r[2], listed)
  BY DEF Begin
<1> DEFINE f == r[1]
           l == r[2]
<1>2. f \in 1 .. MaxNbr + 1 /\ l \in 0 .. MaxNbr /\ f <= l + 1
  BY RangeType
<1>3. listed \in SUBSET Nbr
  BY <1>2, MaxNbrAssumption DEF Nbr
<1>4. /\ pc[p] = "idle" /\ Exclusive(p)
      /\ db' = IF f = db.fst /\ l = db.lst THEN db ELSE Setsize(db, f, l)
      /\ lock' = [lock EXCEPT ![p] = "ExclLock"]
      /\ pc' = [pc EXCEPT ![p] = what]
      /\ lo' = [lo EXCEPT ![p] = f] /\ hi' = [hi EXCEPT ![p] = l]
      /\ nbr' = [nbr EXCEPT ![p] = f]
      /\ list' = [list EXCEPT ![p] = listed]
      /\ pending' = pending
  <2>1. ~(f < db.fst)
    BY <1>2 DEF GroupInv, TypeOK
  <2> QED BY <1>1, <2>1 DEF UpdateBegin, UpdateGroupInfo
<1> HIDE DEF f, l
<1>5. StepEffect(p) /\ db'.fst = f /\ db'.lst = l
  <2>1. CASE f = db.fst /\ l = db.lst
    BY <1>4, <2>1, SameEffect
  <2>2. CASE ~(f = db.fst /\ l = db.lst)
    BY <1>2, <1>4, <2>2, MoveEffect
  <2> QED BY <2>1, <2>2
<1>6. TypeOK'
  <2>1. db' \in Database
    BY <1>5 DEF StepEffect, Sound
  <2> QED BY <1>2, <1>3, <1>4, <2>1, MaxNbrAssumption DEF GroupInv, TypeOK, Database
<1>7. OthersKept(p) /\ LockTaken(p)
  <2>1. Shared(p)
    BY <1>4 DEF Exclusive, Shared
  <2> QED BY <1>4, <2>1 DEF GroupInv, TypeOK, OthersKept, LockTaken
<1>8. ProcInv(p)'
  BY <1>2, <1>4, <1>5 DEF GroupInv, TypeOK, ProcInv, Walking
<1> QED BY <1>5, <1>6, <1>7, <1>8, StepInv DEF StepEffect

(* The steps of a walk: they keep the lock, the range and the locals of the
   others. *)
LEMMA WalkInv ==
  ASSUME GroupInv, NEW p \in Proc, Walking(p), Sound(db'),
         db'.fst = db.fst, db'.lst = db.lst, lock' = lock, lo' = lo, hi' = hi, list' = list,
         NEW c \in {"update", "overview", "prefetch"}, pc' = [pc EXCEPT ![p] = c],
         NEW n \in nbr[p] .. hi[p] + 1, nbr' = [nbr EXCEPT ![p] = n],
         NEW T \in SUBSET Nbr, pending' = [pending EXCEPT ![p] = T]
  PROVE  GroupInv'
<1>1. ProcInv(p)
  BY DEF GroupInv
<1>2. n \in 0 .. MaxNbr + 1
  BY MaxNbrAssumption DEF GroupInv, TypeOK
<1>3. TypeOK'
  <2>1. db' \in Database
    BY DEF Sound
  <2> QED BY <1>2, <2>1 DEF GroupInv, TypeOK, Database
<1>4. OthersKept(p) /\ LockTaken(p)
  BY DEF GroupInv, TypeOK, OthersKept, LockTaken
<1>5. n \in Int /\ nbr[p] <= n /\ n <= hi[p] + 1
  BY MaxNbrAssumption DEF GroupInv, TypeOK
<1>6. ProcInv(p)'
  <2>1. pc'[p] = c /\ nbr'[p] = n
    BY DEF GroupInv, TypeOK
  <2>2. lo[p] \in Int /\ nbr[p] \in Int
    BY MaxNbrAssumption DEF GroupInv, TypeOK
  <2> QED BY <1>1, <1>5, <2>1, <2>2 DEF ProcInv, Walking
<1> QED BY <1>3, <1>4, <1>6, StepInv

(* The number at hand, before the end of a walk and one further. *)
LEMMA AdvanceType ==
  ASSUME GroupInv, NEW p \in Proc, Walking(p)
  PROVE  /\ nbr[p] \in Int /\ hi[p] \in Int /\ nbr[p] \in nbr[p] .. hi[p] + 1
         /\ nbr[p] <= hi[p] => nbr[p] + 1 \in nbr[p] .. hi[p] + 1
         /\ pc = [pc EXCEPT ![p] = pc[p]] /\ pc[p] \in {"update", "overview", "prefetch"}
         /\ pending = [pending EXCEPT ![p] = pending[p]] /\ pending[p] \in SUBSET Nbr
         /\ nbr = [nbr EXCEPT ![p] = nbr[p]]
<1>1. nbr[p] \in Int /\ hi[p] \in Int
  BY MaxNbrAssumption DEF GroupInv, TypeOK
<1>2. nbr[p] <= hi[p] + 1
  BY DEF GroupInv, ProcInv
<1> QED BY <1>1, <1>2 DEF GroupInv, TypeOK, Walking

LEMMA UpdateSkipInv ==
  ASSUME GroupInv, NEW p \in Proc, UpdateSkip(p)
  PROVE  GroupInv' /\ StepEffect(p)
<1>1. Walking(p) /\ nbr[p] <= hi[p]
  BY DEF UpdateSkip, Walking
<1>2. StepEffect(p) /\ db'.fst = db.fst /\ db'.lst = db.lst /\ Sound(db')
  BY SameEffect DEF UpdateSkip, StepEffect
<1>3. nbr' = [nbr EXCEPT ![p] = nbr[p] + 1]
  BY DEF UpdateSkip, Advance
<1> DEFINE n == nbr[p] + 1
<1>4. n \in nbr[p] .. hi[p] + 1 /\ nbr' = [nbr EXCEPT ![p] = n]
  BY <1>1, <1>3, AdvanceType
<1> HIDE DEF n
<1> QED BY <1>1, <1>2, <1>4, AdvanceType, WalkInv DEF UpdateSkip

LEMMA UpdateAskInv ==
  ASSUME GroupInv, NEW p \in Proc, UpdateAsk(p)
  PROVE  GroupInv' /\ StepEffect(p)
<1>1. Walking(p) /\ ProcInv(p)
  BY DEF UpdateAsk, Walking, GroupInv
<1>2. StepEffect(p) /\ db'.fst = db.fst /\ db'.lst = db.lst /\ Sound(db')
  BY SameEffect DEF UpdateAsk, StepEffect
<1>3. BatchLast(p) \in nbr[p] .. hi[p] /\ BatchNext(p) \in nbr[p] .. hi[p] + 1
  BY Batch DEF UpdateAsk
<1> DEFINE T == nbr[p] .. BatchLast(p)
           n == BatchNext(p)
<1>4. T \in SUBSET Nbr
  <2>1. nbr[p] \in Int /\ hi[p] \in Int /\ hi[p] <= MaxNbr /\ 1 <= nbr[p]
    BY <1>1, MaxNbrAssumption DEF GroupInv, TypeOK, ProcInv
  <2> QED BY <1>3, <2>1, MaxNbrAssumption DEF Nbr
<1>5. /\ pending' = [pending EXCEPT ![p] = T] /\ nbr' = [nbr EXCEPT ![p] = n]
      /\ n \in nbr[p] .. hi[p] + 1
  BY <1>3 DEF UpdateAsk
<1> HIDE DEF T, n
<1> QED BY <1>1, <1>2, <1>4, <1>5, WalkInv DEF UpdateAsk

LEMMA ReadOverInv ==
  ASSUME GroupInv, NEW p \in Proc, NEW n \in Nbr, ReadOver(p, n)
  PROVE  GroupInv' /\ StepEffect(p)
<1>1. Walking(p)
  BY DEF ReadOver, Walking
<1>2. db \in Database /\ Sound(db)
  BY DEF GroupInv, Sound
<1>3. Sound(db') /\ Improves(db, db')
  BY <1>2, SetoverSound DEF ReadOver
<1>4. StepEffect(p) /\ db'.fst = db.fst /\ db'.lst = db.lst
  BY <1>3, ImproveEffect
<1> DEFINE T == {m \in pending[p] : n < m}
<1>5. T \in SUBSET Nbr /\ pending' = [pending EXCEPT ![p] = T]
  BY DEF GroupInv, TypeOK, ReadOver
<1> HIDE DEF T
<1> QED BY <1>1, <1>3, <1>4, <1>5, AdvanceType, WalkInv DEF ReadOver

LEMMA ReadOverEndInv ==
  ASSUME GroupInv, NEW p \in Proc, ReadOverEnd(p) \/ OverviewFails(p)
  PROVE  GroupInv' /\ StepEffect(p)
<1>1. Walking(p)
  BY DEF ReadOverEnd, OverviewFails, Walking
<1>2. StepEffect(p) /\ db'.fst = db.fst /\ db'.lst = db.lst /\ Sound(db')
  BY SameEffect DEF ReadOverEnd, OverviewFails, StepEffect
<1>3. CASE ReadOverEnd(p)
  <2> DEFINE T == {}
  <2>1. T \in SUBSET Nbr /\ pending' = [pending EXCEPT ![p] = T]
    BY <1>3 DEF ReadOverEnd
  <2> HIDE DEF T
  <2> QED BY <1>1, <1>2, <1>3, <2>1, AdvanceType, WalkInv DEF ReadOverEnd
<1>4. CASE OverviewFails(p)
  BY <1>2, <1>4, DoneInv DEF OverviewFails
<1> QED BY <1>2, <1>3, <1>4

LEMMA UpdateDropInv ==
  ASSUME GroupInv, NEW p \in Proc, UpdateDrop(p)
  PROVE  GroupInv' /\ StepEffect(p)
<1>1. Walking(p) /\ nbr[p] <= hi[p]
  BY DEF UpdateDrop, Walking
<1>2. StepEffect(p) /\ db'.fst = db.fst /\ db'.lst = db.lst /\ Sound(db')
  BY <1>1, DropEffect DEF UpdateDrop, StepEffect
<1> DEFINE n == nbr[p] + 1
<1>3. n \in nbr[p] .. hi[p] + 1 /\ nbr' = [nbr EXCEPT ![p] = n]
  BY <1>1, AdvanceType DEF UpdateDrop, Advance
<1> HIDE DEF n
<1> QED BY <1>1, <1>2, <1>3, AdvanceType, WalkInv DEF UpdateDrop

LEMMA UpdateEndInv ==
  ASSUME GroupInv, NEW p \in Proc, UpdateEnd(p)
  PROVE  GroupInv' /\ StepEffect(p)
BY SameEffect, DoneInv DEF UpdateEnd, StepEffect

LEMMA PrefetchLockedInv ==
  ASSUME GroupInv, NEW p \in Proc, PrefetchLocked(p)
  PROVE  GroupInv' /\ StepEffect(p)
<1>1. Walking(p) /\ nbr[p] <= hi[p]
  BY DEF PrefetchLocked, Walking
<1>2. db \in Database /\ Sound(db) /\ nbr[p] \in Int
  BY <1>1, AdvanceType DEF GroupInv, Sound
<1>3. \/ db' = db
      \/ db' = Setarticle(db, nbr[p])
      \/ ~Listed(p) /\ Has(db, nbr[p]) /\ db' = DropDeleted(db, nbr[p], lo[p])
  BY DEF PrefetchLocked, PrefetchArticle
<1>4. StepEffect(p) /\ db'.fst = db.fst /\ db'.lst = db.lst /\ Sound(db')
  <2>1. CASE db' = db
    BY <2>1, SameEffect DEF StepEffect
  <2>2. CASE db' = Setarticle(db, nbr[p])
    BY <1>2, <2>2, SetarticleSound, ImproveEffect
  <2>3. CASE ~Listed(p) /\ Has(db, nbr[p]) /\ db' = DropDeleted(db, nbr[p], lo[p])
    <3>1. Advance(p)
      BY DEF PrefetchLocked
    <3> QED BY <1>1, <2>3, <3>1, DropEffect DEF StepEffect
  <2> QED BY <1>3, <2>1, <2>2, <2>3
<1> DEFINE n == nbr[p] + 1
<1>5. n \in nbr[p] .. hi[p] + 1 /\ nbr' = [nbr EXCEPT ![p] = n]
  BY <1>1, AdvanceType DEF PrefetchLocked, Advance
<1> HIDE DEF n
<1> QED BY <1>1, <1>4, <1>5, AdvanceType, WalkInv DEF PrefetchLocked

-----------------------------------------------------------------------------
(* Every step of a process keeps the invariant and has only the effects on the
   database that it may have. *)
LEMMA StepKeeps ==
  ASSUME GroupInv, NEW p \in Proc, Step(p)
  PROVE  GroupInv' /\ StepEffect(p)
<1>1. CASE \E r \in Ranges : SetsizeBegin(p, r[1], r[2])
  BY <1>1, SetsizeBeginInv
<1>2. CASE SetsizeEnd(p)
  BY <1>2, SetsizeEndInv
<1>3. CASE \E n \in Nbr : Getarticle(p, n)
  BY <1>3, GetarticleInv
<1>4. CASE RetrieveFails(p) \/ Retrieved(p)
  BY <1>4, RetrieveInv
<1>5. CASE StoreArticle(p)
  BY <1>5, StoreArticleInv
<1>6. CASE \E r \in Ranges : r[1] >= db.fst /\ Begin(p, r)
  BY <1>6, BeginInv
<1>7. CASE Update(p)
  <2>1. CASE UpdateSkip(p)
    BY <2>1, UpdateSkipInv
  <2>2. CASE UpdateAsk(p)
    BY <2>2, UpdateAskInv
  <2>3. CASE ReadOverEnd(p) \/ OverviewFails(p)
    BY <2>3, ReadOverEndInv
  <2>4. CASE UpdateDrop(p)
    BY <2>4, UpdateDropInv
  <2>5. CASE UpdateEnd(p)
    BY <2>5, UpdateEndInv
  <2>6. CASE PrefetchLocked(p)
    BY <2>6, PrefetchLockedInv
  <2>7. CASE \E n \in Nbr : ReadOver(p, n)
    BY <2>7, ReadOverInv
  <2> QED BY <1>7, <2>1, <2>2, <2>3, <2>4, <2>5, <2>6, <2>7 DEF Update
<1> QED BY <1>1, <1>2, <1>3, <1>4, <1>5, <1>6, <1>7 DEF Step

LEMMA InitInv == Init => GroupInv
<1> SUFFICES ASSUME Init PROVE GroupInv
  OBVIOUS
<1>1. TypeOK
  BY MaxNbrAssumption DEF Init, TypeOK, Kinds, Nbr
<1>2. db \in Database
  BY <1>1 DEF TypeOK, Database
<1>3. EntriesOf(db) = {}
  BY DEF Init, EntriesOf, Has
<1>4. Sound(db)
  <2>1. db.fst = 1 /\ db.lst = 0 /\ db.table = 0 /\ db.used = {}
    BY DEF Init
  <2> QED BY <1>2, <1>3, <2>1 DEF Sound
<1>5. OneWriter /\ \A p \in Proc : ProcInv(p)
  BY DEF Init, OneWriter, ProcInv, Walking
<1> QED BY <1>1, <1>4, <1>5 DEF GroupInv

LEMMA NextInv == GroupInv /\ [Next]_vars => GroupInv'
<1> SUFFICES ASSUME GroupInv, [Next]_vars PROVE GroupInv'
  OBVIOUS
<1>1. CASE Next
  BY <1>1, StepKeeps DEF Next
<1>2. CASE UNCHANGED vars
  BY <1>2 DEF vars, GroupInv, TypeOK, OneWriter, ProcInv, Walking
<1> QED BY <1>1, <1>2

LEMMA Invariance == Spec => []GroupInv
BY InitInv, NextInv, PTL DEF Spec

(* The variables of the database and of the walks keep their types; a walk
   ends right behind the last number, however the ranges move and whatever
   the windows are. *)
THEOREM TypeCorrect == Spec => []TypeOK
<1>1. GroupInv => TypeOK
  BY DEF GroupInv
<1> QED BY <1>1, Invariance, PTL

(* The table and the allocator agree: every entry has a block of its own that
   is in use, and no block is in use that is not the table's or an entry's. *)
THEOREM TableIsSound == Spec => []TableSound
<1>1. GroupInv => TableSound
  <2> SUFFICES ASSUME GroupInv PROVE TableSound
    OBVIOUS
  <2>1. Entries = EntriesOf(db) /\ Sound(db)
    BY DEF Entries, EntriesOf, GroupInv
  <2>2. \A n \in Entries : db.tab[n] \in db.used \ {db.table}
    BY <2>1 DEF Sound
  <2>3. \A n, m \in Entries : db.tab[n] = db.tab[m] => n = m
    BY <2>1 DEF Sound
  <2>4. \A b \in db.used : b \in {db.tab[n] : n \in Entries} \cup ({db.table} \ {0})
    BY <2>1, BlockAssumption DEF Sound, Database
  <2>5. \A b \in {db.tab[n] : n \in Entries} \cup ({db.table} \ {0}) : b \in db.used
    BY <2>1, <2>2 DEF Sound
  <2> QED BY <2>2, <2>3, <2>4, <2>5 DEF TableSound
<1> QED BY <1>1, Invariance, PTL

(* The entry of a number leads to the record that was stored for it, also when
   the table moves between the steps of the processes. *)
THEOREM EntriesLeadToTheirArticle == Spec => []RightArticle
<1>1. GroupInv => RightArticle
  BY DEF GroupInv, Sound, RightArticle, Entries, EntriesOf
<1> QED BY <1>1, Invariance, PTL

(* No step replaces an article by its overview record. *)
THEOREM ArticlesAreNotDowngraded == Spec => NoDowngrade
<1>1. GroupInv /\ [Next]_vars =>
        [\A n \in Nbr : Kind(db, n) \in {"art", "big"} => Kind(db, n)' # "over"]_vars
  <2> SUFFICES ASSUME GroupInv, Next
               PROVE  \A n \in Nbr : Kind(db, n) \in {"art", "big"} => Kind(db, n)' # "over"
    OBVIOUS
  <2>1. \A n \in Nbr : Kind(db, n) \in {"art", "big"} => Kind(db', n) # "over"
    BY StepKeeps DEF Next, StepEffect
  <2> QED BY <2>1 DEF Kind, Has, InRange
<1> QED BY <1>1, Invariance, PTL DEF Spec, NoDowngrade

(* An entry within the range is only dropped by the process that passes it in its
   walk, and whose list of the numbers that exist upstream does not have it. *)
THEOREM DroppedOnlyWhenDeleted == Spec => OnlyDeletedDropped
<1>1. GroupInv /\ [Next]_vars =>
        [\A n \in Nbr : Has(db, n) /\ InRange(db', n) /\ ~Has(db', n) =>
           \E p \in Proc : nbr[p] = n /\ nbr'[p] = n + 1 /\ n \notin list[p]]_vars
  BY StepKeeps DEF Next, StepEffect
<1> QED BY <1>1, Invariance, PTL DEF Spec, OnlyDeletedDropped

(* The walk over the overview records passes no listed article that is missing
   without asking for it, for every window. *)
THEOREM WalkSkipsNothing == Spec => NoneSkipped
<1> DEFINE A(p) == pc[p] = "update" =>
                     \A n \in list[p] :
                       nbr[p] <= n /\ n < nbr'[p] => Has(db, n) \/ n \in pending'[p]
<1>1. ASSUME GroupInv, NEW q \in Proc, Step(q), NEW p \in Proc, pc[p] = "update"
      PROVE  A(p)
  <2>1. nbr \in [Proc -> 0 .. MaxNbr + 1] /\ list[p] \subseteq Int /\ nbr[p] \in Int
    BY <1>1, MaxNbrAssumption DEF GroupInv, TypeOK, Nbr
  <2>2. CASE nbr'[p] = nbr[p]
    BY <2>1, <2>2
  <2>3. CASE UpdateSkip(p) \/ UpdateDrop(p)
    <3>1. nbr'[p] = nbr[p] + 1 /\ (Listed(p) => Has(db, nbr[p]))
      BY <2>1, <2>3 DEF UpdateSkip, UpdateDrop, Advance
    <3>2. \A n \in list[p] : nbr[p] <= n /\ n < nbr[p] + 1 => n = nbr[p]
      BY <2>1
    <3> QED BY <3>1, <3>2 DEF Listed
  <2>4. CASE UpdateAsk(p)
    <3>1. nbr'[p] = BatchNext(p) /\ pending'[p] = nbr[p] .. BatchLast(p)
      BY <1>1, <2>1, <2>4 DEF UpdateAsk, GroupInv, TypeOK
    <3>2. \A n \in list[p] : nbr[p] <= n /\ n < BatchNext(p) =>
             Has(db, n) \/ n \in nbr[p] .. BatchLast(p)
      BY <1>1, <2>4, Batch DEF UpdateAsk
    <3> QED BY <3>1, <3>2
  <2>5. CASE UpdateEnd(p)
    <3>1. nbr'[p] = 0
      BY <2>1, <2>5 DEF UpdateEnd, Done
    <3> QED BY <1>1, <2>1, <3>1 DEF GroupInv, ProcInv, Walking
  <2>6. ASSUME p # q PROVE nbr'[p] = nbr[p]
    BY <1>1, <2>1, <2>6 DEF Step, SetsizeBegin, SetsizeEnd, Getarticle, RetrieveFails, Retrieved,
          StoreArticle, Begin, UpdateBegin, Update, UpdateSkip, UpdateAsk, ReadOver, ReadOverEnd,
          OverviewFails, UpdateDrop, UpdateEnd, PrefetchLocked, Advance, Done, job
  <2>7. ASSUME p = q PROVE UpdateSkip(p) \/ UpdateDrop(p) \/ UpdateAsk(p) \/ UpdateEnd(p)
    BY <1>1, <2>7 DEF Step, SetsizeBegin, SetsizeEnd, Getarticle, RetrieveFails, Retrieved,
          StoreArticle, Begin, UpdateBegin, Update, ReadOver, ReadOverEnd,
          OverviewFails, PrefetchLocked
  <2> QED BY <2>2, <2>3, <2>4, <2>5, <2>6, <2>7
<1>2. GroupInv /\ [Next]_vars => [\A p \in Proc : A(p)]_vars
  BY <1>1 DEF Next
<1> QED BY <1>2, Invariance, PTL DEF Spec, NoneSkipped
=============================================================================
