------------------------------ MODULE Session ------------------------------
(***************************************************************************)
(* The sessions of the clients: the command loop of nnrpd and the ns_*     *)
(* functions of NewsCache.cc, one process (child) per client, with the     *)
(* group databases that the children share.                                *)
(*                                                                         *)
(* What a command asks of CServer is one step per lock or exchange:        *)
(* groupinfo (module ActiveDB has its details), setsize and                *)
(* updateOverview of a cached group (module GroupDB), overviewdb of a      *)
(* group that is not cached.  Between two steps the other children and the *)
(* upstream server go on.  Texts are left out; of an answer only what      *)
(* changes the session is kept.                                            *)
(***************************************************************************)
EXTENDS Integers, FiniteSets

CONSTANTS
  Client,      \* clients; each has at most one child at a time
  Group,       \* newsgroups
  Cached,      \* the groups of servers with F_CACHED (CNewsgroup)
  Upstream,    \* Upstream[g]: numbers and articles of g at first
  Before,      \* Before[g]: numbers and records left by earlier processes
  Commands,    \* Commands[c]: the lines client c may send
  MaxNumber,   \* bound: no article gets a higher number
  MaxEvents    \* bound: lines, changes upstream, connections and signals together

None == "none"
NoInfo == [f |-> 0, l |-> 0]
NoCommand == [op |-> None, g |-> None, n |-> 0]
Ops == {"group", "listgroup", "article", "stat", "next", "last", "xover", "xhdr", "list",
        "newgroups", "help", "date", "mode", "xdebug", "misc", "quit"}

(* Article numbers start at 1: LAST counts down with an unsigned int and
   would not end in a group that starts at 0. *)
ASSUME UpstreamAssumption ==
  /\ Cached \subseteq Group /\ None \notin Group /\ MaxNumber \in Nat
  /\ Upstream \in [Group -> [f : Nat, l : Nat, arts : SUBSET Nat]]
  /\ Before \in [Cached -> [f : Nat, l : Nat, over : SUBSET Nat]]
  /\ \A g \in Group : /\ Upstream[g].f \in 1..(Upstream[g].l + 1)
                      /\ Upstream[g].arts \subseteq Upstream[g].f..Upstream[g].l
  /\ \A g \in Cached : /\ Before[g].f \in 1..Upstream[g].f /\ Before[g].l <= Upstream[g].l
                       /\ Before[g].over \subseteq Before[g].f..Before[g].l
ASSUME CommandsAssumption ==
  \A c \in Client : Commands[c] \subseteq [op : Ops, g : Group \cup {None}, n : 0..MaxNumber]

VARIABLES
  ses,       \* the ClientData and the point of control of each client's child
  db,        \* the database of each cached group: numbers and records
  adb,       \* the numbers the active database has for a group
  up,        \* the groups as the upstream servers have them
  kept,      \* for each child, the records its group has had since the command began
  events     \* events from outside that are still to come

env == <<up, events>>
Event == events > 0 /\ events' = events - 1

Empty == [f |-> 1, l |-> 0, over |-> {}]

(* ClientData: pc and cmd, groupname, grp (the group it was opened for), nbr,
   the records of an RNewsgroup, and local variables of the command. *)
Blank(pc) == [pc |-> pc, cmd |-> NoCommand, name |-> None, grp |-> None, nbr |-> -1,
              own |-> Empty, i |-> 0, f |-> 0, l |-> 0]

At(c, pc) == ses[c].pc = pc
Doing(c, ops) == ses[c].cmd.op \in ops
Put(c, s) == ses' = [ses EXCEPT ![c] = s]

(* A command has returned 0 or -1; or the child ends. *)
Back(s) == [s EXCEPT !.pc = "read", !.cmd = NoCommand, !.i = 0, !.f = 0, !.l = 0]
Ended == Blank("gone")

(* The database behind the open group, and the records of the selected one. *)
Table(c) == IF ses[c].grp \in Cached THEN db[ses[c].grp] ELSE ses[c].own
Records(c) ==
  IF ses[c].name \in Cached THEN db[ses[c].name].over
  ELSE IF ses[c].grp = ses[c].name THEN ses[c].own.over ELSE {}

SessionInit ==
  /\ ses = [c \in Client |-> Blank("off")]
  /\ db = [g \in Cached |-> Before[g]]
  /\ adb = [g \in Group |-> IF g \in Cached THEN [f |-> Before[g].f, l |-> Before[g].l] ELSE NoInfo]
  /\ up = Upstream
  /\ kept = [c \in Client |-> {}]
  /\ events = MaxEvents
-----------------------------------------------------------------------------
(* CServer as the session uses it *)

(* groupinfo: the numbers of the active database, or those that a GROUP to
   the upstream server has just brought. *)
Groupinfo(g, r) ==
  \/ r = adb[g] /\ r # NoInfo /\ UNCHANGED adb
  \/ r = [f |-> up[g].f, l |-> up[g].l] /\ adb' = [adb EXCEPT ![g] = r]
GroupinfoFails(g) == adb[g] = NoInfo

(* active: nothing if the database is not too old; otherwise the numbers of
   the groups whose lines come. *)
Active ==
  \E S \in SUBSET Group :
    adb' = [g \in Group |-> IF g \in S THEN [f |-> up[g].f, l |-> up[g].l] ELSE adb[g]]

Infos(g) == {adb[g], [f |-> up[g].f, l |-> up[g].l]}

(* CNewsgroup::setsize *)
Setsize(t, r) == [f |-> r.f, l |-> r.l, over |-> t.over \cap (r.f..r.l)]

(* RNewsgroup::readoverdb and setover: what comes before the end of the answer
   (number k, if the connection is lost after it) and lies in the group. *)
Readoverdb(arts, f, k) == arts \cap (f..k)

(* RNewsgroup::setsize: fetches the records that are missing , as
   far as number k; the first number follows only together with the last. *)
RSetsize(t, r, arts, k) ==
  IF r.f < t.f \/ r.l < t.l THEN [f |-> r.f, l |-> r.l, over |-> Readoverdb(arts, r.f, k)]
  ELSE LET old == t.over \ (0..(r.f - 1))
       IN IF t.l < r.l THEN [f |-> r.f, l |-> r.l, over |-> old \cup Readoverdb(arts, t.l + 1, k)]
          ELSE [t EXCEPT !.over = old]

(* The overview after an update that got as far as number k. *)
Synced(t, arts, k) ==
  [t EXCEPT !.over = (arts \cap (t.f..k)) \cup (t.over \ (0..k))]

(* updateOverview: nothing if the group is not too old; otherwise the numbers,
   then the records, as far as the upstream server delivers them. *)
UpdateOverview(g) ==
  \/ UNCHANGED <<db, adb>>
  \/ \E r \in Infos(g) : \E k \in (r.f - 1)..r.l :
       /\ Groupinfo(g, r)
       /\ db' = [db EXCEPT ![g] = Synced(Setsize(db[g], r), up[g].arts, k)]
-----------------------------------------------------------------------------
(* The command loop *)

(* A line arrives in time.  Up to its first access to something shared a
   command is one step. *)
Line(c, m) == At(c, "read") /\ Event /\ m \in Commands[c]

(* Commands that are answered and change nothing of the session. *)
Answered(c, op) ==
  /\ \E m \in Commands[c] : Line(c, m) /\ m.op = op
  /\ UNCHANGED <<ses, db, adb, up>>

Help(c) == Answered(c, "help")
Date(c) == Answered(c, "date")
Mode(c) == Answered(c, "mode")
Xdebug(c) == Answered(c, "xdebug")
(* xmotd, ids, syntax errors, unknown commands and empty lines. *)
Misc(c) == Answered(c, "misc")

Quit(c) ==
  /\ \E m \in Commands[c] : Line(c, m) /\ m.op = "quit"
  /\ Put(c, Ended)
  /\ UNCHANGED <<db, adb, up>>

(* Every line printed tests the stream: the command returns -2, and the
   session ends, if the client does not take the lines. *)
PrintLines(c) == Put(c, Back(ses[c])) \/ Put(c, Ended)

List(c) ==
  /\ \E m \in Commands[c] : Line(c, m) /\ m.op = "list"
  /\ Active /\ PrintLines(c)
  /\ UNCHANGED <<db, up>>

(* NEWGROUPS: a date that is no date is refused before the database is asked. *)
Newgroups(c) ==
  /\ \E m \in Commands[c] : Line(c, m) /\ m.op = "newgroups"
  /\ \/ UNCHANGED <<ses, adb>>
     \/ Active /\ PrintLines(c)
  /\ UNCHANGED <<db, up>>
-----------------------------------------------------------------------------
(* Selecting and opening a group *)

(* The next point of control of a command that needs the group. *)
Opening(s) == [s EXCEPT !.pc = IF s.grp = None THEN "getgroup" ELSE "do"]
Selected(s) == IF s.cmd.op = "group" THEN Back(s) ELSE Opening(s)

(* Mutant: the group that was open stays open. *)
SelectgroupKeep(s, g, r) ==
  LET p == [s EXCEPT !.nbr = IF r.f <= r.l THEN r.f ELSE -1]
  IN IF s.name # g THEN Selected([p EXCEPT !.name = g])
     ELSE IF s.grp = None THEN Selected(p)
     ELSE [p EXCEPT !.pc = "resize", !.f = r.f, !.l = r.l]

(* selectgroup, after groupinfo: reset the article pointer; another group
   closes the one that is open, the same group is resized if it is open. *)
Selectgroup(s, g, r) ==
  LET p == [s EXCEPT !.nbr = IF r.f <= r.l THEN r.f ELSE -1]
  IN IF s.name # g THEN Selected([p EXCEPT !.name = g, !.grp = None, !.own = Empty])
     ELSE IF s.grp = None THEN Selected(p)
     ELSE [p EXCEPT !.pc = "resize", !.f = r.f, !.l = r.l]

(* group, and listgroup with an argument; 411 leaves everything as it is. *)
Select(c) ==
  /\ \E m \in Commands[c] :
       /\ Line(c, m) /\ m.op \in {"group", "listgroup"} /\ m.g # None
       /\ \/ GroupinfoFails(m.g) /\ UNCHANGED <<ses, adb>>
          \/ \E r \in Infos(m.g) :
               Groupinfo(m.g, r) /\ Put(c, Selectgroup([ses[c] EXCEPT !.cmd = m], m.g, r))
  /\ UNCHANGED <<db, up>>

(* setsize of the open group; overviewdb may throw out of selectgroup. *)
Resize(c) ==
  /\ At(c, "resize")
  /\ LET s == ses[c]
     IN IF s.grp \in Cached
        THEN db' = [db EXCEPT ![s.grp] = Setsize(@, s)] /\ Put(c, Selected(s))
        ELSE /\ \/ \E k \in (s.f - 1)..s.l : Put(c, Selected([s EXCEPT !.own = RSetsize(@, s, up[s.grp].arts, k)]))
                \/ Put(c, Ended)
             /\ UNCHANGED db
  /\ UNCHANGED <<adb, env>>

(* 412 without a group, 420 for next and last without an article. *)
InGroup == {"article", "stat", "next", "last", "xover", "xhdr", "listgroup"}
Begin(c) ==
  /\ \E m \in Commands[c] :
       /\ Line(c, m) /\ m.op \in InGroup /\ m.g = None
       /\ IF ses[c].name = None \/ (m.op \in {"next", "last"} /\ ses[c].nbr < 0)
          THEN UNCHANGED ses ELSE Put(c, Opening([ses[c] EXCEPT !.cmd = m]))
  /\ UNCHANGED <<db, adb, up>>

(* CServer::getgroup: groupinfo, then the object and its size. *)
Getgroup(c) ==
  /\ At(c, "getgroup")
  /\ LET g == ses[c].name
     IN \/ GroupinfoFails(g) /\ Put(c, Back(ses[c])) /\ UNCHANGED adb
        \/ \E r \in Infos(g) :
             Groupinfo(g, r) /\ Put(c, [ses[c] EXCEPT !.pc = "open", !.f = r.f, !.l = r.l])
  /\ UNCHANGED <<db, env>>

OpenGroup(c) ==
  /\ At(c, "open")
  /\ LET s == ses[c]
         o == [s EXCEPT !.pc = "do", !.grp = s.name]
     IN IF s.name \in Cached
        THEN db' = [db EXCEPT ![s.name] = Setsize(@, s)] /\ Put(c, o)
        ELSE /\ \E k \in (s.f - 1)..s.l : Put(c, [o EXCEPT !.own = RSetsize(Empty, s, up[s.name].arts, k)])
             /\ UNCHANGED db
  /\ UNCHANGED <<adb, env>>

(* The file or the upstream server fails: "412 operation failed". *)
OpenFails(c) ==
  /\ At(c, "open")
  /\ Put(c, Back(ses[c]))
  /\ UNCHANGED <<db, adb, env>>
-----------------------------------------------------------------------------
(* Commands on the open group *)

Number(s) == IF s.cmd.n = 0 THEN s.nbr ELSE s.cmd.n
NoCurrent(s) == s.cmd.n = 0 /\ s.nbr < 0

(* article, head, body: an article that is fetched is stored in a cached group. *)
Article(c) ==
  /\ At(c, "do") /\ Doing(c, {"article"})
  /\ LET s == ses[c]
         n == Number(s)
         t == Table(c)
     IN \/ Put(c, Back(s)) /\ UNCHANGED db          \* 420, 423, or the fetch failed
        \/ /\ ~NoCurrent(s)
           /\ Put(c, Back([s EXCEPT !.nbr = n]))
           /\ IF s.grp \in Cached
              THEN /\ n \in t.f..t.l /\ n \in t.over \cup up[s.grp].arts
                   /\ db' = [db EXCEPT ![s.grp].over = @ \cup {n}]
              ELSE n \in up[s.grp].arts /\ UNCHANGED db
  /\ UNCHANGED <<adb, env>>

(* stat: 223 whether there is a record or not; RNewsgroup::getover returns
   NULL where there is none, and the child ends with SIGSEGV. *)
Stat(c) ==
  /\ At(c, "do") /\ Doing(c, {"stat"})
  /\ LET s == ses[c]
     IN IF NoCurrent(s) THEN Put(c, Back(s)) /\ UNCHANGED <<db, adb>>
        ELSE IF s.grp \in Cached THEN UpdateOverview(s.grp) /\ Put(c, Back(s))
        ELSE /\ Put(c, IF Number(s) \in s.own.over THEN Back(s) ELSE Ended)
             /\ UNCHANGED <<db, adb>>
  /\ UNCHANGED <<env>>

(* Brought up to date, then printed under the lock. *)
Printdb(c, op) ==
  /\ At(c, "do") /\ Doing(c, {op})
  /\ IF ses[c].grp \in Cached THEN UpdateOverview(ses[c].grp) ELSE UNCHANGED <<db, adb>>
  /\ Put(c, Back(ses[c]))
  /\ UNCHANGED <<env>>

Xover(c) == Printdb(c, "xover")
Xhdr(c) == Printdb(c, "xhdr")
Listgroup(c) == Printdb(c, "listgroup")

(* getsize reads the two numbers without a lock, one after the other. *)
GetFirst(c) ==
  /\ At(c, "do") /\ Doing(c, {"next", "last"})
  /\ Put(c, [ses[c] EXCEPT !.pc = "size", !.i = ses[c].nbr, !.f = Table(c).f])
  /\ UNCHANGED <<db, adb, env>>

GetLast(c) ==
  /\ At(c, "size")
  /\ Put(c, [ses[c] EXCEPT !.pc = "walk", !.l = Table(c).l])
  /\ UNCHANGED <<db, adb, env>>

(* 421 and 422 *)
Outside(s, i) == IF s.cmd.op = "next" THEN i > s.l ELSE i < s.f

(* One turn of the loop of last and next. *)
Walk(c) ==
  /\ At(c, "walk")
  /\ LET s == ses[c]
         i == IF s.cmd.op = "next" THEN s.i + 1 ELSE s.i - 1
     IN IF Outside(s, i) THEN Put(c, Back(s)) /\ UNCHANGED <<db, adb>>
        ELSE IF s.grp \in Cached
        THEN /\ UpdateOverview(s.grp)
             /\ Put(c, IF i \in db'[s.grp].over THEN Back([s EXCEPT !.nbr = i]) ELSE [s EXCEPT !.i = i])
        ELSE /\ Put(c, IF i \in s.own.over THEN Back([s EXCEPT !.nbr = i]) ELSE Ended)
             /\ UNCHANGED <<db, adb>>
  /\ UNCHANGED <<env>>
-----------------------------------------------------------------------------
(* The upstream groups *)

Change(g, u) == Event /\ up' = [up EXCEPT ![g] = u]

Arrive(g) ==
  /\ up[g].l < MaxNumber
  /\ Change(g, [up[g] EXCEPT !.l = @ + 1, !.arts = @ \cup {up[g].l + 1}])
  /\ UNCHANGED <<ses, db, adb>>
Expire(g) ==
  /\ up[g].f <= up[g].l
  /\ Change(g, [up[g] EXCEPT !.f = @ + 1, !.arts = @ \ {up[g].f}])
  /\ UNCHANGED <<ses, db, adb>>
Cancel(g) ==
  /\ \E a \in up[g].arts : Change(g, [up[g] EXCEPT !.arts = @ \ {a}])
  /\ UNCHANGED <<ses, db, adb>>
-----------------------------------------------------------------------------
(* Lines from the client, and the steps that a command takes after them. *)
Receiving(c) ==
  \/ Help(c) \/ Date(c) \/ Mode(c) \/ Xdebug(c) \/ Misc(c) \/ Quit(c)
  \/ List(c) \/ Newgroups(c) \/ Select(c) \/ Begin(c)
Running(c) ==
  \/ Resize(c) \/ Getgroup(c) \/ OpenGroup(c) \/ OpenFails(c) \/ Article(c) \/ Stat(c)
  \/ Xover(c) \/ Xhdr(c) \/ Listgroup(c) \/ GetFirst(c) \/ GetLast(c) \/ Walk(c)

Changing == \E g \in Group : Arrive(g) \/ Expire(g) \/ Cancel(g)

(* kept follows the records of the group; it starts anew with a command. *)
Keep == kept' = [c \in Client |-> IF At(c, "read") THEN Records(c)' ELSE kept[c] \cap Records(c)']
=============================================================================
