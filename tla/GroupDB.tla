------------------------------ MODULE GroupDB -------------------------------
(***************************************************************************)
(* The database of one cached newsgroup, shared by the NewsCache children  *)
(* and updatenews: NVArray (the table of articles), NVNewsgroup (overview  *)
(* records, articles, .art files of big articles) and CNewsgroup (keeping  *)
(* up with the upstream server).                                           *)
(*                                                                         *)
(* The table maps the article numbers fst..lst to blocks of the container  *)
(* (module BlockStore: a block that nvalloc returns is not in use), or to  *)
(* 0.  A block holds what was stored in it until it is stored to again,    *)
(* also after it was freed.  The lock is the one of NVlock: an upgrade     *)
(* from ShrdLock to ExclLock first gives up the lock.                      *)
(***************************************************************************)
EXTENDS Integers, FiniteSets

CONSTANTS
  Proc,       \* the processes that have the group open
  MaxNbr,     \* article numbers are 1..MaxNbr
  Window,     \* overview records are asked for in one go over gaps below this (8)
  Big,        \* articles that are larger than 15360 bytes
  Block,      \* blocks of the container
  Ranges      \* first and last number that groupinfo may report

ASSUME MaxNbrAssumption == MaxNbr \in Nat \ {0}
ASSUME WindowAssumption == Window \in Nat \ {0}
ASSUME BigAssumption == Big \subseteq 1 .. MaxNbr
(* An empty group has first = last + 1. *)
ASSUME RangesAssumption ==
  Ranges \subseteq {r \in (1 .. MaxNbr + 1) \X (0 .. MaxNbr) : r[1] <= r[2] + 1}
ASSUME BlockAssumption ==
  /\ Block \subseteq Nat \ {0}
  /\ \A S \in SUBSET Block : IsFiniteSet(S) /\ Cardinality(S) <= MaxNbr + 1 => Block \ S # {}

VARIABLES
  db,         \* the database and the .art files beside it
  lock,       \* the lock each process has
  pc,         \* what each process is doing
  lo, hi,     \* setsize: the new range; updates: infof and infol
  nbr,        \* the article number at hand
  list,       \* updates: the numbers that listgroup has marked
  pending     \* overview records still to come

job == <<lo, hi, nbr, list, pending>>
vars == <<db, lock, pc, lo, hi, nbr, list, pending>>

Nbr == 1 .. MaxNbr
Kinds == {"none", "over", "art", "big"}
-----------------------------------------------------------------------------
(* Operations on the database, each run under the exclusive lock. *)

InRange(d, n) == d.fst <= n /\ n <= d.lst

(* shas_element, sget: the first byte of the block tells what is in it. *)
Has(d, n) == InRange(d, n) /\ d.tab[n] # 0
Kind(d, n) == IF Has(d, n) THEN d.body[d.tab[n]].kind ELSE "none"

NewBlock(used) == CHOOSE b \in Block : b \notin used

(* A record of kind k for article n in a new block. *)
Store(d, n, k) ==
  LET b == NewBlock(d.used) IN
  [d EXCEPT !.used = @ \cup {b}, !.tab[n] = b, !.body[b] = [kind |-> k, nbr |-> n]]

Free(d, n) == [d EXCEPT !.used = @ \ {d.tab[n]}]

(* Mutant: only what falls off the low end is freed. *)
GoneLow(d, f, l) == {n \in d.fst .. d.lst : n < f /\ d.tab[n] # 0}

(* The entries that fall off either end. *)
Gone(d, f, l) == {n \in d.fst .. d.lst : (n < f \/ n > l) /\ d.tab[n] # 0}

(* The .art files that are removed with them. *)
Unlinked(d, gone) == {n \in gone : Kind(d, n) = "big"}

(* Mutant: entries are copied to the same index instead of the same number. *)
CopySameIndex(d, f, l) ==
  [n \in Nbr |-> IF f <= n /\ n <= l /\ InRange(d, n - f + d.fst) THEN d.tab[n - f + d.fst] ELSE 0]

(* ssetsize: the entries of the new table. *)
Copy(d, f, l) == [n \in Nbr |-> IF f <= n /\ n <= l /\ InRange(d, n) THEN d.tab[n] ELSE 0]

(* NVNewsgroup::setsize: free what falls off, with its .art file, then
   ssetsize: allocate a new table, copy what stays and free the old one. *)
Setsize(d, f, l) ==
  LET gone == Gone(d, f, l)
      used == d.used \ {d.tab[n] : n \in gone}
      table == NewBlock(used)
  IN [d EXCEPT !.fst = f, !.lst = l, !.tab = Copy(d, f, l), !.table = table,
               !.files = @ \ Unlinked(d, gone), !.used = (used \cup {table}) \ {d.table}]

(* NVArray::clear: frees the blocks and leaves the table as it is. *)
Clear(d) == [d EXCEPT !.used = @ \ {d.tab[n] : n \in {m \in Nbr : Has(d, m)}}]

(* sUpdateGroupInfo: adapt to the range the upstream server reports. *)
UpdateGroupInfo(d, f, l) ==
  IF f = d.fst /\ l = d.lst THEN d
  ELSE Setsize(IF f < d.fst THEN Clear(d) ELSE d, f, l)

(* setarticle: a small article replaces what is there; of a big one the
   database keeps the overview record, marked as such, and a file the text. *)
Setarticle(d, n) ==
  CASE ~InRange(d, n) -> d
    [] InRange(d, n) /\ n \notin Big ->
         Store(IF Has(d, n) THEN Free(d, n) ELSE d, n, "art")
    [] InRange(d, n) /\ n \in Big ->
         LET stored == IF Kind(d, n) \in {"over", "big"}
                       THEN [d EXCEPT !.body[d.tab[n]].kind = "big"]
                       ELSE Store(IF Has(d, n) THEN Free(d, n) ELSE d, n, "big")
         IN [stored EXCEPT !.files = @ \cup {n}]

(* Mutant: an overview record replaces what is there. *)
SetoverAlways(d, n) ==
  IF InRange(d, n) THEN Store(IF Has(d, n) THEN Free(d, n) ELSE d, n, "over") ELSE d

(* setover: only where there is nothing yet. *)
Setover(d, n) == IF InRange(d, n) /\ ~Has(d, n) THEN Store(d, n, "over") ELSE d

(* The number whose entry has index n - infof. *)
Indexed(d, n, infof) == d.fst + (n - infof)

(* Mutant: numbers count from 1 and indices too. *)
DropDeletedNext(d, n, infof) ==
  LET m == Indexed(d, n, infof) + 1 IN IF m \in Nbr THEN [Free(d, m) EXCEPT !.tab[m] = 0] ELSE d

(* The article with index n - infof in the table is gone upstream.  Its .art
   file stays: the name that is unlinked is not the name of an article. *)
DropDeleted(d, n, infof) ==
  LET m == Indexed(d, n, infof) IN [Free(d, m) EXCEPT !.tab[m] = 0]
-----------------------------------------------------------------------------
Init ==
  /\ db = [fst |-> 1, lst |-> 0, tab |-> [n \in Nbr |-> 0], table |-> 0, used |-> {},
           body |-> [b \in Block |-> [kind |-> "none", nbr |-> 0]], files |-> {}]
  /\ lock = [p \in Proc |-> "UnLock"]
  /\ pc = [p \in Proc |-> "idle"]
  /\ lo = [p \in Proc |-> 1] /\ hi = [p \in Proc |-> 0]
  /\ nbr = [p \in Proc |-> 0]
  /\ list = [p \in Proc |-> {}]
  /\ pending = [p \in Proc |-> {}]

Shared(p) == \A q \in Proc \ {p} : lock[q] # "ExclLock"
Exclusive(p) == \A q \in Proc \ {p} : lock[q] = "UnLock"

(* The operation is over: locks and locals are gone. *)
Done(p) ==
  /\ lock' = [lock EXCEPT ![p] = "UnLock"]
  /\ pc' = [pc EXCEPT ![p] = "idle"]
  /\ lo' = [lo EXCEPT ![p] = 1] /\ hi' = [hi EXCEPT ![p] = 0]
  /\ nbr' = [nbr EXCEPT ![p] = 0]
  /\ list' = [list EXCEPT ![p] = {}]
  /\ pending' = [pending EXCEPT ![p] = {}]

(* CNewsgroup::setsize, called by getgroup and nsh_group with what groupinfo
   returned some time ago: the ranges are compared under the shared lock ... *)
SetsizeBegin(p, f, l) ==
  /\ pc[p] = "idle" /\ Shared(p)
  /\ f # db.fst \/ l # db.lst
  /\ pc' = [pc EXCEPT ![p] = "setsize"]
  /\ lo' = [lo EXCEPT ![p] = f] /\ hi' = [hi EXCEPT ![p] = l]
  /\ UNCHANGED <<db, lock, nbr, list, pending>>

(* ... and not again once the upgrade to the exclusive lock is done. *)
SetsizeEnd(p) ==
  /\ pc[p] = "setsize" /\ Exclusive(p)
  /\ db' = Setsize(db, lo[p], hi[p])
  /\ Done(p)

(* getarticle and printarticle: what is not in the cache, or whose file is
   missing, is fetched under the shared lock ... *)
Getarticle(p, n) ==
  /\ pc[p] = "idle" /\ Shared(p)
  /\ InRange(db, n)
  /\ Kind(db, n) \in {"none", "over"} \/ (Kind(db, n) = "big" /\ n \notin db.files)
  /\ lock' = [lock EXCEPT ![p] = "ShrdLock"]
  /\ pc' = [pc EXCEPT ![p] = "retrieve"]
  /\ nbr' = [nbr EXCEPT ![p] = n]
  /\ UNCHANGED <<db, lo, hi, list, pending>>

RetrieveFails(p) ==
  /\ pc[p] = "retrieve"
  /\ Done(p)
  /\ UNCHANGED db

Retrieved(p) ==
  /\ pc[p] = "retrieve"
  /\ lock' = [lock EXCEPT ![p] = "UnLock"]
  /\ pc' = [pc EXCEPT ![p] = "store"]
  /\ UNCHANGED <<db, job>>

(* ... and stored after an upgrade. *)
StoreArticle(p) ==
  /\ pc[p] = "store" /\ Exclusive(p)
  /\ db' = Setarticle(db, nbr[p])
  /\ Done(p)
-----------------------------------------------------------------------------
(* updateOverview, prefetchOverview and prefetchGroup start alike.  When
   groupinfo fails the range stays; when listgroup fails all numbers count as
   listed.  The exclusive lock is kept until the end. *)
UpdateBegin(p, what, f, l, listed) ==
  /\ pc[p] = "idle" /\ Exclusive(p)
  /\ db' = UpdateGroupInfo(db, f, l)
  /\ lock' = [lock EXCEPT ![p] = "ExclLock"]
  /\ pc' = [pc EXCEPT ![p] = what]
  /\ lo' = [lo EXCEPT ![p] = f] /\ hi' = [hi EXCEPT ![p] = l]
  /\ nbr' = [nbr EXCEPT ![p] = f]
  /\ list' = [list EXCEPT ![p] = listed]
  /\ UNCHANGED pending

Listed(p) == nbr[p] \in list[p]
Advance(p) == nbr' = [nbr EXCEPT ![p] = @ + 1]

UpdateSkip(p) ==
  /\ pc[p] = "update" /\ nbr[p] <= hi[p]
  /\ Has(db, nbr[p]) <=> Listed(p)
  /\ Advance(p)
  /\ UNCHANGED <<db, lock, pc, lo, hi, list, pending>>

(* Mutant: the request does not grow with the window that is passed. *)
BatchLastFirst(p) == nbr[p]

(* The last number of the request: missing ones less than Window apart are
   asked for together. *)
BatchLast(p) ==
  LET missing == {n \in list[p] : nbr[p] <= n /\ n <= hi[p] /\ ~Has(db, n)}
      reached == {n \in missing : \A k \in missing :
                    k < n => \E m \in missing : k < m /\ m <= n /\ m < k + Window}
  IN CHOOSE n \in reached : \A m \in reached : m <= n

(* Mutants: the walk runs past the end; it stays. *)
BatchNextUncapped(p) == BatchLast(p) + Window
BatchNextStaying(p) == nbr[p]

(* Where the walk goes on. *)
BatchNext(p) ==
  IF BatchLast(p) + Window <= hi[p] THEN BatchLast(p) + Window ELSE hi[p] + 1

UpdateAsk(p) ==
  /\ pc[p] = "update" /\ nbr[p] <= hi[p]
  /\ Listed(p) /\ ~Has(db, nbr[p])
  /\ pc' = [pc EXCEPT ![p] = "overview"]
  /\ pending' = [pending EXCEPT ![p] = nbr[p] .. BatchLast(p)]
  /\ nbr' = [nbr EXCEPT ![p] = BatchNext(p)]
  /\ UNCHANGED <<db, lock, lo, hi, list>>

(* readoverdb: one record after the other, until the dot or the end of input. *)
ReadOver(p, n) ==
  /\ pc[p] = "overview" /\ n \in pending[p]
  /\ db' = Setover(db, n)
  /\ pending' = [pending EXCEPT ![p] = {m \in @ : n < m}]
  /\ UNCHANGED <<lock, pc, lo, hi, nbr, list>>

ReadOverEnd(p) ==
  /\ pc[p] = "overview"
  /\ pc' = [pc EXCEPT ![p] = "update"]
  /\ pending' = [pending EXCEPT ![p] = {}]
  /\ UNCHANGED <<db, lock, lo, hi, nbr, list>>

(* overviewdb throws: the rest of the update is given up. *)
OverviewFails(p) ==
  /\ pc[p] = "overview"
  /\ Done(p)
  /\ UNCHANGED db

UpdateDrop(p) ==
  /\ pc[p] = "update" /\ nbr[p] <= hi[p]
  /\ ~Listed(p) /\ Has(db, nbr[p])
  /\ db' = DropDeleted(db, nbr[p], lo[p])
  /\ Advance(p)
  /\ UNCHANGED <<lock, pc, lo, hi, list, pending>>

UpdateEnd(p) ==
  /\ pc[p] \in {"update", "prefetch"}
  /\ nbr[p] > hi[p]
  /\ Done(p)
  /\ UNCHANGED db
-----------------------------------------------------------------------------
(* What prefetchGroup does about one article, under the exclusive lock:
   fetch it, drop it, or leave it. *)
PrefetchArticle(p) ==
  CASE Listed(p) /\ Kind(db, nbr[p]) \in {"none", "over"} -> db' \in {db, Setarticle(db, nbr[p])}
    [] ~Listed(p) /\ Has(db, nbr[p]) -> db' = DropDeleted(db, nbr[p], lo[p])
    [] OTHER -> db' = db

(* With --lock-groups the exclusive lock is kept throughout. *)
PrefetchLocked(p) ==
  /\ pc[p] = "prefetch" /\ lock[p] = "ExclLock" /\ nbr[p] <= hi[p]
  /\ PrefetchArticle(p)
  /\ Advance(p)
  /\ UNCHANGED <<lock, pc, lo, hi, list, pending>>

(* Without, it is exchanged for a shared one before the walk begins, ... *)
PrefetchUnlock(p) ==
  /\ pc[p] = "prefetch" /\ lock[p] = "ExclLock" /\ nbr[p] = lo[p]
  /\ lock' = [lock EXCEPT ![p] = "UnLock"]
  /\ pc' = [pc EXCEPT ![p] = "relock"]
  /\ UNCHANGED <<db, job>>

PrefetchRelock(p) ==
  /\ pc[p] = "relock" /\ Shared(p)
  /\ lock' = [lock EXCEPT ![p] = "ShrdLock"]
  /\ pc' = [pc EXCEPT ![p] = "prefetch"]
  /\ UNCHANGED <<db, job>>

PrefetchLook(p) ==
  /\ pc[p] = "prefetch" /\ lock[p] = "ShrdLock" /\ nbr[p] <= hi[p]
  /\ IF \/ ~Has(db, nbr[p]) /\ ~Listed(p)
        \/ Kind(db, nbr[p]) \in {"art", "big"} /\ Listed(p)
     THEN Advance(p) /\ UNCHANGED <<lock, pc>>
     ELSE /\ lock' = [lock EXCEPT ![p] = "UnLock"]
          /\ pc' = [pc EXCEPT ![p] = "upgrade"]
          /\ UNCHANGED nbr
  /\ UNCHANGED <<db, lo, hi, list, pending>>

(* ... and upgraded for each article that needs something done.  The model
   ends where the index leads outside of the table. *)
PrefetchUpgraded(p) ==
  /\ pc[p] = "upgrade" /\ Exclusive(p)
  /\ InRange(db, Indexed(db, nbr[p], lo[p]))
  /\ PrefetchArticle(p)
  /\ Advance(p)
  /\ pc' = [pc EXCEPT ![p] = "relock"]
  /\ UNCHANGED <<lock, lo, hi, list, pending>>
-----------------------------------------------------------------------------
Update(p) ==
  \/ UpdateSkip(p) \/ UpdateAsk(p) \/ ReadOverEnd(p) \/ OverviewFails(p)
  \/ UpdateDrop(p) \/ UpdateEnd(p) \/ PrefetchLocked(p)
  \/ \E n \in Nbr : ReadOver(p, n)

Begin(p, r) ==
  \E what \in {"update", "prefetch"}, listed \in SUBSET (r[1] .. r[2]) :
    UpdateBegin(p, what, r[1], r[2], listed)

Step(p) ==
  \/ \E r \in Ranges : SetsizeBegin(p, r[1], r[2])
  \/ SetsizeEnd(p)
  \/ \E n \in Nbr : Getarticle(p, n)
  \/ RetrieveFails(p) \/ Retrieved(p) \/ StoreArticle(p)
  \/ \E r \in Ranges : r[1] >= db.fst /\ Begin(p, r)
  \/ Update(p)

(* First article numbers only rise, and groups are locked for prefetching. *)
Next == \E p \in Proc : Step(p)
Spec == Init /\ [][Next]_vars
FairSpec == Spec /\ \A p \in Proc : WF_vars(Update(p))

(* Any range is reported. *)
FallingSpec ==
  Init /\ [][Next \/ \E p \in Proc, r \in Ranges : Begin(p, r)]_vars

(* Groups are prefetched without --lock-groups. *)
UnlockedSpec ==
  Init /\ [][Next \/ \E p \in Proc : PrefetchUnlock(p) \/ PrefetchRelock(p)
                                     \/ PrefetchLook(p) \/ PrefetchUpgraded(p)]_vars
-----------------------------------------------------------------------------
(* Every variable has its type; a walk ends right behind the last number. *)
TypeOK ==
  /\ db \in [fst : 1 .. MaxNbr + 1, lst : 0 .. MaxNbr, tab : [Nbr -> Block \cup {0}],
             table : Block \cup {0}, used : SUBSET Block,
             body : [Block -> [kind : Kinds, nbr : Nbr \cup {0}]], files : SUBSET Nbr]
  /\ lock \in [Proc -> {"UnLock", "ShrdLock", "ExclLock"}]
  /\ pc \in [Proc -> {"idle", "setsize", "retrieve", "store", "update", "overview",
                      "prefetch", "relock", "upgrade"}]
  /\ lo \in [Proc -> 1 .. MaxNbr + 1] /\ hi \in [Proc -> 0 .. MaxNbr]
  /\ nbr \in [Proc -> 0 .. MaxNbr + 1]
  /\ list \in [Proc -> SUBSET Nbr]
  /\ pending \in [Proc -> SUBSET Nbr]

Entries == {n \in Nbr : Has(db, n)}

(* The table and the allocator agree: each entry has a block of its own that
   is in use, the table has one, and no other block is in use.  So nothing is
   freed twice, read after it was freed, or lost, whatever the order in which
   ranges move, articles are stored and records are dropped. *)
TableSound ==
  /\ \A n \in Entries : db.tab[n] \in db.used \ {db.table}
  /\ \A n, m \in Entries : db.tab[n] = db.tab[m] => n = m
  /\ db.used = {db.tab[n] : n \in Entries} \cup ({db.table} \ {0})

(* The entry of an article number leads to a record that was stored for that
   number: setsize keeps the numbers when the table moves, and no process
   writes through an index it computed before the table moved. *)
RightArticle == \A n \in Entries : db.body[db.tab[n]].nbr = n

(* An article in the cache is not replaced by its overview record: what two
   processes fetch at the same time is merged to the more complete one. *)
NoDowngrade ==
  [][\A n \in Nbr : Kind(db, n) \in {"art", "big"} => Kind(db, n)' # "over"]_vars

(* The walk of sUpdateOverview passes no listed article that is missing from
   the cache and is not part of the request it makes, though it moves on by
   whole windows. *)
NoneSkipped ==
  [][\A p \in Proc : pc[p] = "update" =>
       \A n \in list[p] :
         nbr[p] <= n /\ n < nbr'[p] => Has(db, n) \/ n \in pending'[p]]_vars

(* An entry that is in the range before and after a step is only dropped by a
   process that passes it in its walk and whose list of the numbers the upstream
   server has is without it. *)
OnlyDeletedDropped ==
  [][\A n \in Nbr : Has(db, n) /\ InRange(db', n) /\ ~Has(db', n) =>
       \E p \in Proc : nbr[p] = n /\ nbr'[p] = n + 1 /\ n \notin list[p]]_vars

(* An update that holds the exclusive lock ends. *)
UpdatesEnd ==
  \A p \in Proc : pc[p] \in {"update", "overview", "prefetch"} ~> pc[p] = "idle"
=============================================================================
