------------------------------ MODULE ActiveDB ------------------------------
(***************************************************************************)
(* The active database, the list of all newsgroups, which all processes    *)
(* share: NVHash and NVlist (the hash table in the mapped file),           *)
(* NVActiveDB (one record per group), and the operations of CServer that   *)
(* keep it up to date: active, groupinfo, invalidateActiveDB.              *)
(*                                                                         *)
(* A bucket of the table is a circular list whose root points to its last  *)
(* record; here it is the sequence of records from first to last.  Records *)
(* are put in front and never removed.  A record lies in some page of the  *)
(* file; a process that walks the table without a lock sees what it had    *)
(* mapped at its last lock.                                                *)
(***************************************************************************)
EXTENDS Integers, Sequences, SequencesExt, FiniteSets

CONSTANTS
  Proc,          \* processes: children and updatenews
  Group,         \* newsgroups
  Buckets,       \* size of the hash table
  Hash,          \* Hash[g]: the bucket of a group
  Lists,         \* Lists[k]: the groups that the list of server k has for us
  TTL,           \* _TTLActive
  GroupTimeout,  \* age from which groupinfo asks the server
  MaxTime,       \* bound on the clock
  PerPage,       \* records that fit into a page of the file
  MaxFaults      \* bound on failing servers and on invalidations

Bucket == 1 .. Buckets
ASSUME BucketsAssumption == Buckets \in Nat \ {0} /\ Hash \in [Group -> Bucket]
ASSUME ListsAssumption == Lists \in Seq(SUBSET Group)
ASSUME TimesAssumption == {TTL, GroupTimeout, MaxTime, PerPage, MaxFaults} \subseteq Nat \ {0}

VARIABLES
  tab,           \* the buckets
  made,          \* has the header a pointer to a hash table?
  pages,         \* size of the file
  mtime,         \* time of the last transfer, in the header
  now,           \* the clock
  hashtab,       \* does the process have the address of the table?
  msz,           \* pages the process has mapped
  held,          \* the lock the process has
  leaked,        \* frames left on its lock stack by an exception
  pc,            \* what the process is doing
  todo,          \* transfer: the server at hand
  rest,          \* transfer: groups of its list still to come
  cur,           \* groupinfo: the group and the record to store; walk: the record at hand
  base,          \* walk: the groups the database had at its start
  seen,          \* walk: the groups listed so far
  faults,        \* faults still to come
  fetched        \* history: when the list of each server was last read to its end, 0 if it
                 \* was not or the database was invalidated since

file == <<tab, made, pages>>
map == <<hashtab, msz>>
job == <<todo, rest, cur, base, seen>>
vars == <<tab, made, pages, mtime, now, hashtab, msz, held, leaked, pc, todo, rest, cur, base, seen, faults, fetched>>

None == [name |-> "", ctime |-> 0, mtime |-> 0, page |-> 0]
Records == UNION {Range(tab[b]) : b \in Bucket}
Known == {r.name : r \in Records}
Rec(g) == CHOOSE r \in Records : r.name = g
-----------------------------------------------------------------------------
Init ==
  /\ tab = [b \in Bucket |-> <<>>] /\ made = FALSE /\ pages = 1
  /\ mtime = 0 /\ now = 1
  /\ hashtab = [p \in Proc |-> FALSE] /\ msz = [p \in Proc |-> 0]
  /\ held = [p \in Proc |-> "UnLock"] /\ leaked = [p \in Proc |-> 0]
  /\ pc = [p \in Proc |-> "closed"]
  /\ todo = [p \in Proc |-> 0] /\ rest = [p \in Proc |-> {}]
  /\ cur = [p \in Proc |-> None]
  /\ base = [p \in Proc |-> {}] /\ seen = [p \in Proc |-> <<>>]
  /\ faults = MaxFaults
  /\ fetched = [k \in DOMAIN Lists |-> 0]

(* An exclusive lock that is held over several steps keeps the others out. *)
Free(p) == \A q \in Proc \ {p} : held[q] = "UnLock"

(* NVHash::make_current, run when a lock is granted: nothing to do as long as
   the file has its old size. *)
MakeCurrent(p) ==
  /\ msz' = [msz EXCEPT ![p] = pages]
  /\ hashtab' = [hashtab EXCEPT ![p] = IF msz[p] = pages THEN @ ELSE made]

Goto(p, at) == pc' = [pc EXCEPT ![p] = at]

(* NVHash::open: map the file; without a table, create one. *)
Open(p) ==
  /\ pc[p] = "closed" /\ Free(p)
  /\ msz' = [msz EXCEPT ![p] = pages]
  /\ hashtab' = [hashtab EXCEPT ![p] = made]
  /\ Goto(p, IF made THEN "idle" ELSE "create")
  /\ UNCHANGED <<file, mtime, fetched, now, held, leaked, job, faults>>

(* The table is allocated under the lock, if there is still none.  It is larger
   than a new file, so creating it changes the size of the file. *)
Create(p) ==
  /\ pc[p] = "create" /\ Free(p)
  /\ LET have == IF msz[p] = pages THEN hashtab[p] ELSE made IN
       IF have THEN UNCHANGED file
       ELSE tab' = [b \in Bucket |-> <<>>] /\ made' = TRUE /\ pages' = pages + 1
  /\ hashtab' = [hashtab EXCEPT ![p] = TRUE] /\ msz' = [msz EXCEPT ![p] = pages']
  /\ Goto(p, "idle")
  /\ UNCHANGED <<mtime, fetched, now, held, leaked, job, faults>>
-----------------------------------------------------------------------------
(* NVActiveDB::sset: a record that is there keeps its ctime and its place; a
   new one is put in front of its bucket (NVlist::sprepend). *)

Replace(r) ==
  [b \in Bucket |-> [i \in DOMAIN tab[b] |->
     IF tab[b][i].name = r.name THEN [tab[b][i] EXCEPT !.mtime = r.mtime] ELSE tab[b][i]]]

(* The page of the next record: the table is in page 2. *)
NextPage == 2 + Cardinality(Records) \div PerPage

(* Mutant: a record is always added. *)
SsetAdd(r) ==
  /\ tab' = [tab EXCEPT ![Hash[r.name]] = <<[r EXCEPT !.ctime = now, !.page = NextPage]>> \o @]
  /\ pages' = NextPage

Sset(r) ==
  IF r.name \in Known THEN tab' = Replace(r) /\ UNCHANGED pages
  ELSE /\ tab' = [tab EXCEPT ![Hash[r.name]] = <<[r EXCEPT !.ctime = now, !.page = NextPage]>> \o @]
       /\ pages' = NextPage

Record(g, t) == [None EXCEPT !.name = g, !.mtime = t]

(* NVcontainer::setmtime: only raises the time. *)
Setmtime(t) == mtime' = IF t > mtime THEN t ELSE mtime

active_valid == mtime + TTL > now
-----------------------------------------------------------------------------
(* CServer::active *)

(* The first test; getmtime takes the shared lock for its own time. *)
ActiveTest(p) ==
  /\ pc[p] = "idle" /\ Free(p)
  /\ MakeCurrent(p)
  /\ Goto(p, IF active_valid THEN "active" ELSE "relock")
  /\ UNCHANGED <<file, mtime, fetched, now, held, leaked, job, faults>>

(* Mutant: the time is not tested again under the lock. *)
ActiveLockUntested(p) ==
  /\ pc[p] = "relock" /\ Free(p)
  /\ MakeCurrent(p)
  /\ held' = [held EXCEPT ![p] = "ExclLock"] /\ Goto(p, "transfer")
  /\ todo' = [todo EXCEPT ![p] = 0]
  /\ UNCHANGED <<file, mtime, fetched, now, leaked, rest, cur, base, seen, faults>>

(* The second test, under the exclusive lock. *)
ActiveLock(p) ==
  /\ pc[p] = "relock" /\ Free(p)
  /\ MakeCurrent(p)
  /\ IF active_valid THEN Goto(p, "active") /\ UNCHANGED held
     ELSE held' = [held EXCEPT ![p] = "ExclLock"] /\ Goto(p, "transfer")
  /\ todo' = [todo EXCEPT ![p] = 0]
  /\ UNCHANGED <<file, mtime, fetched, now, leaked, rest, cur, base, seen, faults>>

(* RServer::active: the next server answers and its list follows, or not. *)
TransferServer(p) ==
  /\ pc[p] = "transfer" /\ todo[p] < Len(Lists)
  /\ todo' = [todo EXCEPT ![p] = @ + 1]
  /\ \/ /\ rest' = [rest EXCEPT ![p] = Lists[todo[p] + 1]]
        /\ Goto(p, "read")
        /\ UNCHANGED faults
     \/ faults > 0 /\ faults' = faults - 1 /\ UNCHANGED <<rest, pc>>
  /\ UNCHANGED <<file, mtime, fetched, now, map, held, leaked, cur, base, seen>>

(* NVActiveDB::read, one line; those without a lock may look at the table
   after every one. *)
ReadLine(p) ==
  /\ pc[p] = "read"
  /\ \E g \in rest[p] :
       /\ Sset(Record(g, now))
       /\ rest' = [rest EXCEPT ![p] = @ \ {g}]
  /\ msz' = [msz EXCEPT ![p] = pages']
  /\ UNCHANGED <<made, mtime, fetched, now, hashtab, held, leaked, pc, todo, cur, base, seen, faults>>

(* Mutant: the time of the transfer is not stored. *)
ReadEndUntimed(p) ==
  /\ pc[p] = "read"
  /\ IF rest[p] = {} THEN UNCHANGED faults ELSE faults > 0 /\ faults' = faults - 1
  /\ fetched' = [fetched EXCEPT ![todo[p]] = now]
  /\ rest' = [rest EXCEPT ![p] = {}]
  /\ Goto(p, "transfer")
  /\ UNCHANGED <<file, mtime, now, map, held, leaked, todo, cur, base, seen>>

(* The end of the list.  If the connection is lost it ends early, and the data
   counts as complete all the same. *)
ReadEnd(p) ==
  /\ pc[p] = "read"
  /\ IF rest[p] = {} THEN UNCHANGED faults ELSE faults > 0 /\ faults' = faults - 1
  /\ Setmtime(now)
  /\ fetched' = [fetched EXCEPT ![todo[p]] = now]
  /\ rest' = [rest EXCEPT ![p] = {}]
  /\ Goto(p, "transfer")
  /\ UNCHANGED <<file, now, map, held, leaked, todo, cur, base, seen>>

(* The connection is lost inside of a line, or between two lines while the filter
   starts with "*", which lets the empty line pass: the line cannot be parsed, and
   the exception leaves read without its unlock. *)
ReadThrows(p) ==
  /\ pc[p] = "read" /\ faults > 0
  /\ faults' = faults - 1
  /\ leaked' = [leaked EXCEPT ![p] = 1]
  /\ rest' = [rest EXCEPT ![p] = {}]
  /\ Goto(p, "transfer")
  /\ UNCHANGED <<file, mtime, fetched, now, map, held, todo, cur, base, seen>>

TransferEnd(p) ==
  /\ pc[p] = "transfer" /\ todo[p] = Len(Lists)
  /\ held' = [held EXCEPT ![p] = IF leaked[p] > 0 THEN "ExclLock" ELSE "UnLock"]
  /\ todo' = [todo EXCEPT ![p] = 0]
  /\ Goto(p, "active")
  /\ UNCHANGED <<file, mtime, fetched, now, map, leaked, rest, cur, base, seen, faults>>
-----------------------------------------------------------------------------
(* NVActiveDB_Iter: the walk of LIST and NEWGROUPS over what active returned,
   without a lock. *)

(* The first record of the first bucket from b on that is not empty. *)
FirstFrom(b) ==
  LET bs == {c \in Bucket : c >= b /\ tab[c] # <<>>}
  IN IF bs = {} THEN None ELSE tab[CHOOSE c \in bs : \A d \in bs : c <= d][1]

Pos(r) == CHOOSE i \in DOMAIN tab[Hash[r.name]] : tab[Hash[r.name]][i].name = r.name

(* Mutant: the walk of a bucket stops in front of its last record. *)
FollowingEarly(r) ==
  LET b == Hash[r.name] IN
  IF Pos(r) + 1 >= Len(tab[b]) THEN FirstFrom(b + 1) ELSE tab[b][Pos(r) + 1]

Following(r) ==
  LET b == Hash[r.name] IN
  IF Pos(r) = Len(tab[b]) THEN FirstFrom(b + 1) ELSE tab[b][Pos(r) + 1]

WalkBegin(p) ==
  /\ pc[p] = "active"
  /\ cur' = [cur EXCEPT ![p] = FirstFrom(1)]
  /\ base' = [base EXCEPT ![p] = Known]
  /\ seen' = [seen EXCEPT ![p] = <<>>]
  /\ Goto(p, "walk")
  /\ UNCHANGED <<file, mtime, fetched, now, map, held, leaked, todo, rest, faults>>

WalkStep(p) ==
  /\ pc[p] = "walk" /\ cur[p] # None /\ cur[p].page <= msz[p]
  /\ seen' = [seen EXCEPT ![p] = Append(@, cur[p].name)]
  /\ cur' = [cur EXCEPT ![p] = Following(cur[p])]
  /\ UNCHANGED <<file, mtime, fetched, now, map, held, leaked, pc, todo, rest, base, faults>>

WalkEnd(p) ==
  /\ pc[p] = "walk" /\ cur[p] = None
  /\ base' = [base EXCEPT ![p] = {}] /\ seen' = [seen EXCEPT ![p] = <<>>]
  /\ Goto(p, "idle")
  /\ UNCHANGED <<file, mtime, fetched, now, map, held, leaked, todo, rest, cur, faults>>

Gone(p) ==
  /\ Goto(p, "closed")
  /\ held' = [held EXCEPT ![p] = "UnLock"] /\ leaked' = [leaked EXCEPT ![p] = 0]
  /\ hashtab' = [hashtab EXCEPT ![p] = FALSE] /\ msz' = [msz EXCEPT ![p] = 0]
  /\ todo' = [todo EXCEPT ![p] = 0] /\ rest' = [rest EXCEPT ![p] = {}]
  /\ cur' = [cur EXCEPT ![p] = None]
  /\ base' = [base EXCEPT ![p] = {}] /\ seen' = [seen EXCEPT ![p] = <<>>]
  /\ UNCHANGED <<file, mtime, fetched, now, faults>>

(* The next record is behind what the process has mapped: it dies. *)
WalkDies(p) == pc[p] = "walk" /\ cur[p].page > msz[p] /\ Gone(p)
-----------------------------------------------------------------------------
(* CServer::groupinfo and RServer::selectgroup *)

GroupinfoGet(p, g) ==
  /\ pc[p] = "idle" /\ Free(p)
  /\ MakeCurrent(p)
  /\ IF g \in Known /\ Rec(g).mtime + GroupTimeout >= now
     THEN UNCHANGED <<pc, cur>>
     ELSE Goto(p, "select") /\ cur' = [cur EXCEPT ![p] = [None EXCEPT !.name = g]]
  /\ UNCHANGED <<file, mtime, fetched, now, held, leaked, todo, rest, base, seen, faults>>

(* The server does not answer, and the cached record is the answer if there is
   one; or it does not know the group (411), and there is no such group. *)
SelectFails(p) ==
  /\ pc[p] = "select"
  /\ cur' = [cur EXCEPT ![p] = None]
  /\ Goto(p, "idle")
  /\ UNCHANGED <<file, mtime, fetched, now, map, held, leaked, todo, rest, base, seen, faults>>

(* The numbers of the answer, with the time they came. *)
SelectAnswer(p) ==
  /\ pc[p] = "select" /\ Free(p)
  /\ MakeCurrent(p)
  /\ cur' = [cur EXCEPT ![p] = Record(@.name, now)]
  /\ Goto(p, "set")
  /\ UNCHANGED <<file, mtime, fetched, now, held, leaked, todo, rest, base, seen, faults>>

(* NVActiveDB::set *)
SelectSet(p) ==
  /\ pc[p] = "set" /\ Free(p)
  /\ Sset(cur[p])
  /\ hashtab' = [hashtab EXCEPT ![p] = IF msz[p] = pages THEN @ ELSE made]
  /\ msz' = [msz EXCEPT ![p] = pages']
  /\ cur' = [cur EXCEPT ![p] = None]
  /\ Goto(p, "idle")
  /\ UNCHANGED <<made, mtime, fetched, now, held, leaked, todo, rest, base, seen, faults>>

(* updatenews -a: invalidateActiveDB forces the time to 0. *)
Invalidate(p) ==
  /\ pc[p] = "idle" /\ Free(p) /\ faults > 0
  /\ faults' = faults - 1
  /\ mtime' = 0
  /\ fetched' = [k \in DOMAIN Lists |-> 0]
  /\ MakeCurrent(p)
  /\ UNCHANGED <<file, now, held, leaked, pc, job>>

(* active was called for something else than a walk (updatenews). *)
Used(p) ==
  /\ pc[p] = "active"
  /\ Goto(p, "idle")
  /\ UNCHANGED <<file, mtime, fetched, now, map, held, leaked, job, faults>>

(* The process ends: ~CServer closes the database. *)
Exit(p) == pc[p] = "idle" /\ Gone(p)

Tick ==
  /\ now < MaxTime
  /\ now' = now + 1
  /\ UNCHANGED <<file, mtime, fetched, map, held, leaked, pc, job, faults>>

Going(p) ==
  \/ Create(p)
  \/ ActiveLock(p) \/ TransferServer(p) \/ ReadLine(p) \/ ReadEnd(p) \/ ReadThrows(p) \/ TransferEnd(p)
  \/ WalkBegin(p) \/ WalkStep(p) \/ WalkEnd(p) \/ WalkDies(p) \/ Used(p)
  \/ SelectFails(p) \/ SelectAnswer(p) \/ SelectSet(p)
Next ==
  \/ Tick
  \/ \E p \in Proc :
       \/ Going(p)
       \/ Open(p) \/ ActiveTest(p) \/ Invalidate(p) \/ Exit(p)
       \/ \E g \in Group : GroupinfoGet(p, g)

(* A process goes on with its operation once the lock is free, and ends some
   day: at QUIT, at the end of its input or when the client times out. *)
Fairness == \A p \in Proc : WF_vars(Going(p)) /\ SF_vars(Exit(p))
Spec == Init /\ [][Next]_vars /\ Fairness
-----------------------------------------------------------------------------
(* A group that is in the active database stays there, once, with the time at
   which it became known (NEWGROUPS relies on it), whatever is transferred, set
   or created at the same time. *)
GroupsKept ==
  [][ /\ \A r \in Records : \E s \in Records' : s.name = r.name /\ s.ctime = r.ctime
      /\ Cardinality(Known') = Cardinality(Records') ]_vars

(* CServer::active tests twice so that not every process that found the database
   too old transfers it: no list is read from its server again before the time to
   live has passed since it was last read to its end, by whichever process, unless
   the database was invalidated in between. *)
NoRepeatedTransfer ==
  [][\A p \in Proc : pc[p] = "transfer" /\ pc'[p] = "read" => fetched[todo'[p]] + TTL <= now]_vars

(* A walk without a lock lists every group that was there at its start, and
   lists none twice, although others put records in front of the buckets. *)
WalkComplete ==
  \A p \in Proc : pc[p] = "walk" =>
    /\ IsInjective(seen[p])
    /\ cur[p] = None => base[p] \subseteq Range(seen[p])

(* Every operation ends: nobody waits for the lock forever. *)
OperationsEnd == \A p \in Proc : (pc[p] \notin {"closed", "idle"}) ~> (pc[p] \in {"closed", "idle"})
=============================================================================
