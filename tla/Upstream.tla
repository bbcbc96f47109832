------------------------------ MODULE Upstream ------------------------------
(***************************************************************************)
(* The connection of one process to its upstream news servers (RServer and *)
(* the part of CServer that calls it): connecting, issuing a command with  *)
(* reconnects and retries, selecting a group, and the operations made of   *)
(* these.                                                                  *)
(*                                                                         *)
(* connect calls issue and selectgroup, which call connect again when the  *)
(* connection is lost, each call with its own counter of retries.  The     *)
(* running calls are a stack of frames; an exception unwinds it to the     *)
(* first frame that catches it.  One action is one exchange with the       *)
(* server or one piece of code between two exchanges.                      *)
(*                                                                         *)
(* The servers are modelled as the code sees them: what they carry, which  *)
(* commands they know, and faults (a lost or refused connection, 400 or    *)
(* 503), of which MaxFaults happen.                                        *)
(***************************************************************************)
EXTENDS ServerList, FiniteSetsExt

CONSTANTS
  Group,      \* newsgroups
  Carries,    \* Carries[k]: the groups server k has at first
  Knows,      \* Knows[k]: the commands it knows, "post" if it allows posting
  Retries,    \* MPListEntry::retries
  MaxFaults   \* bound on the faults of the servers and the network

Flags == {"reader", "fmt", "over", "xover", "wildmat", "post"}
ASSUME RetriesAssumption == Retries \in Nat /\ MaxFaults \in Nat
ASSUME GroupAssumption == Group \subseteq Seq(STRING)
ASSUME ServersAssumption ==
  /\ Carries \in [Nr -> SUBSET Group]
  /\ Knows \in [Nr -> SUBSET Flags]

(* The server of each group, and the groups that pass the filter of each
   LIST ACTIVE without and with an argument (rule j of server k). *)
ServerOf == [g \in Group |-> server(g)]
Passing == [k \in Nr |-> {g \in Group : matchgroup(makeFilter(k, All), g) > 0}]
PassingWildmat ==
  [k \in Nr |-> [j \in DOMAIN Entries[k].read |->
     {g \in Group : matchgroup(makeFilter(k, Entries[k].read[j]), g) > 0}]]

(* What a list of servers must be like for active() and selectgroup to agree on
   the server of a group, in terms of the rules alone.  Every server has rules,
   none that rejects (the filter made for one rule of a server leaves out its other
   rules), and no group has equally long rules at two servers ("Same newsgroup
   expression configured for two different servers!"). *)
HasRules == \A k \in Nr : Entries[k].host => Entries[k].read # <<>>
NoRejects == \A k \in Nr : Entries[k].host => \A j \in DOMAIN Entries[k].read : ~Entries[k].read[j].rej
NoTies ==
  \A g \in Group : \A j, k \in Nr :
    matchgroup(Entries[j].read, g) > 0
      /\ matchgroup(Entries[j].read, g) = matchgroup(Entries[k].read, g) => j = k

(* And the rules come in an order in which makeFilter, which never sets listp
   back, finds all rules of others inside of a rule q: in front of the first of
   them only rules that begin with another character than q, and between it and
   the last of them no "*". *)
Inside(q, r) == q.star /\ ~r.rej /\ IsStrictPrefix(q.stem, r.stem)
Apart(q, r) == Chars(r) # <<>> => Chars(r)[1] # Chars(q)[1]
InOrder ==
  \A k \in Nr : Entries[k].host =>
    \A j \in DOMAIN Entries[k].read : Entries[k].read[j] # All =>
      LET q == Entries[k].read[j]
          others == Others(k)
      IN \A i \in DOMAIN others : Inside(q, others[i]) =>
           \A h \in 1 .. i - 1 :
             IF \E e \in 1 .. h - 1 : Inside(q, others[e]) THEN others[h] # All
             ELSE Inside(q, others[h]) \/ Apart(q, others[h])
FiltersAgree == HasRules /\ NoRejects /\ NoTies /\ InOrder

VARIABLES
  cs,         \* _CurrentServer, 0 = NULL
  cg,         \* _CurrentGroup.name(), <<>> = ""
  st,         \* _pServerStream: none (NULL), good, or bad (non-NULL, but not good())
  sel,        \* the group the server has selected for this connection
  flags,      \* nntpflags of each server
  adb,        \* the server whose numbers the active database has for a group
  carried,    \* the groups each server has now
  stack,      \* the running calls, innermost first
  resp,       \* response code of the operation's last command, 0: none yet
  res,        \* how the last operation ended: ok or the exception
  got,        \* what it has read: group asked for, server, group selected
  hit,        \* has a fault happened during the operation?
  faults      \* faults still to come

conn == <<cs, cg, st, sel>>
hist == <<res, got>>
env == <<carried, faults, hit>>
vars == <<cs, cg, st, sel, flags, adb, carried, stack, resp, res, got, hit, faults>>

Nothing == [asked |-> <<>>, from |-> 0, sel |-> <<>>]

Init ==
  /\ cs = 0 /\ cg = <<>> /\ st = "none" /\ sel = <<>>
  /\ flags = [k \in Nr |-> Flags]
  /\ adb = [g \in Group |-> 0]
  /\ carried = Carries
  /\ stack = <<>> /\ resp = 0 /\ res = "ok" /\ got = Nothing
  /\ hit = FALSE /\ faults = MaxFaults
-----------------------------------------------------------------------------
(* Frames: function, command, group, where it goes on, and its counters. *)

Frame(fn, c, g, at, i, j) == [fn |-> fn, c |-> c, g |-> g, at |-> at, i |-> i, j |-> j]
Connect == Frame("connect", "", <<>>, "open", Retries, 0)
Select(g) == Frame("selectgroup", "", g, "start", 0, 0)

(* Mutant: no attempt is left for a reconnect. *)
IssueFrameOnce(c, g) == Frame("issue", c, g, "first", Retries, 0)

IssueFrame(c, g) == Frame("issue", c, g, "first", Retries + 1, 0)

(* issue connects first if there is no stream, outside of its retry loop. *)
Issue(c, g) == IF st = "none" THEN <<Connect, IssueFrame(c, g)>> ELSE <<IssueFrame(c, g)>>

(* selectgroup without force is nothing if the group is the current one. *)
Selecting(g) == IF cg = g THEN <<>> ELSE <<Select(g)>>

Top(fn, at) == stack # <<>> /\ stack[1].fn = fn /\ stack[1].at = at
Goto(at) == <<[stack[1] EXCEPT !.at = at]>> \o Tail(stack)
Return == stack' = Tail(stack)

Fault == faults > 0 /\ faults' = faults - 1 /\ hit' = TRUE

Catches(e, fr) == fr.fn = "active" \/ (fr.fn = "issue" /\ fr.at = "again" /\ e = "System")
Unknown(e, fr) == fr.fn = "active" /\ fr.at = "wild" /\ e = "Response"
Resume(e, fr) ==
  [fr EXCEPT !.at = IF fr.fn = "issue" THEN "retry" ELSE IF Unknown(e, fr) THEN "plain" ELSE "next"]

(* An exception: issue catches SystemError while it reconnects; active
   catches everything and goes on with the next server, except that a
   ResponseError of "list active rule" makes it try "list active". *)
Throw(e) ==
  LET ks == {k \in DOMAIN stack : Catches(e, stack[k])}
      k == Min(ks)
  IN IF ks = {} THEN stack' = <<>> /\ res' = e /\ UNCHANGED flags
     ELSE /\ stack' = <<Resume(e, stack[k])>> \o SubSeq(stack, k + 1, Len(stack))
          /\ flags' = IF Unknown(e, stack[k]) THEN [flags EXCEPT ![cs] = @ \ {"wildmat"}] ELSE flags
          /\ UNCHANGED res

(* setserver: another server means no connection and no current group. *)
Setserver(k) ==
  /\ cs' = k
  /\ IF cs = k THEN UNCHANGED <<cg, st, sel>> ELSE st' = "none" /\ sel' = <<>> /\ cg' = <<>>
-----------------------------------------------------------------------------
(* RServer::issue *)

(* What a server answers. *)
Answers(c, g) ==
  CASE c = "group" -> IF g \in carried[cs] THEN {211} ELSE {411}
    [] c = "reader" -> IF "reader" \notin Knows[cs] THEN {500}
                       ELSE IF "post" \in Knows[cs] THEN {200} ELSE {201}
    [] c \in {"fmt", "wildmat"} -> IF c \in Knows[cs] THEN {215} ELSE {500}
    [] c = "active" -> {215}
    [] c \in {"over", "xover"} /\ c \notin Knows[cs] -> {500}
    [] c \in {"over", "xover"} /\ c \in Knows[cs] -> IF sel = <<>> THEN {412} ELSE {224, 420}
    [] c = "listgroup" -> IF sel = <<>> THEN {412} ELSE {211}
    [] c = "article" -> IF sel = <<>> THEN {412} ELSE {220, 423}
    [] c = "artid" -> {220, 430}

(* A code other than the expected one is an exception. *)
Expected(c, code) == c \in {"fmt", "active", "wildmat"} => code = 215

IssueAnswered ==
  /\ Top("issue", "first") \/ Top("issue", "again")
  /\ st = "good"
  /\ \E code \in Answers(stack[1].c, stack[1].g) :
       /\ resp' = code
       /\ sel' = IF stack[1].c = "group" /\ code = 211 THEN stack[1].g ELSE sel
       /\ IF Expected(stack[1].c, code) THEN Return /\ UNCHANGED <<res, flags>> ELSE Throw("Response")
  /\ UNCHANGED <<cs, cg, st, adb, got, env>>

(* The connection is lost, also after the server has executed the command,
   or was lost before; or the server answers 400 or 503, and the stream is good. *)
IssueLost ==
  /\ Top("issue", "first") \/ Top("issue", "again")
  /\ IF st = "bad" THEN UNCHANGED <<st, env>> ELSE Fault /\ UNCHANGED carried /\ st' \in {"bad", "good"}
  /\ stack' = Goto("retry")
  /\ UNCHANGED <<cs, cg, sel, flags, adb, resp, hist>>

IssueRetry ==
  /\ Top("issue", "retry")
  /\ IF stack[1].i = 1
     THEN Throw("System") /\ UNCHANGED <<st, sel>>
     ELSE /\ st' = "none" /\ sel' = <<>>
          /\ stack' = <<Connect, [stack[1] EXCEPT !.i = @ - 1, !.at = "again"]>> \o Tail(stack)
          /\ UNCHANGED <<res, flags>>
  /\ UNCHANGED <<cs, cg, adb, resp, got, env>>
-----------------------------------------------------------------------------
(* RServer::connect *)

ConnectRefused ==
  /\ Top("connect", "open")
  /\ Fault
  /\ st' = "none" /\ sel' = <<>>
  /\ Throw("System")
  /\ UNCHANGED <<cs, cg, adb, carried, resp, got>>

(* The connection is lost before the greeting: try again with the same
   stream, give up without deleting it. *)
ConnectLost ==
  /\ Top("connect", "open")
  /\ Fault
  /\ st' = "bad" /\ sel' = <<>>
  /\ IF stack[1].i > 0
     THEN stack' = <<[stack[1] EXCEPT !.i = @ - 1]>> \o Tail(stack) /\ UNCHANGED <<res, flags>>
     ELSE Throw("System")
  /\ UNCHANGED <<cs, cg, adb, carried, resp, got>>

(* The greeting is neither 200 nor 201. *)
ConnectBusy ==
  /\ Top("connect", "open")
  /\ Fault
  /\ st' = "none" /\ sel' = <<>>
  /\ Throw("Response")
  /\ UNCHANGED <<cs, cg, adb, carried, resp, got>>

ConnectGreeted ==
  /\ Top("connect", "open")
  /\ st' = "good" /\ sel' = <<>>
  /\ resp' = IF "post" \in Knows[cs] THEN 200 ELSE 201
  /\ stack' = (IF "reader" \in flags[cs] THEN <<IssueFrame("reader", <<>>)>> ELSE <<>>)
              \o Goto("greeted")
  /\ UNCHANGED <<cs, cg, flags, adb, hist, env>>

(* The answer to "mode reader" counts as the greeting, if there is one. *)
ConnectReader ==
  /\ Top("connect", "greeted")
  /\ LET asked == IF resp \in {200, 201} THEN flags[cs] ELSE flags[cs] \ {"reader"}
         fl == IF resp = 201 THEN asked \ {"post"} ELSE asked
     IN /\ flags' = [flags EXCEPT ![cs] = fl]
        /\ stack' = (IF "fmt" \in fl THEN Issue("fmt", <<>>) ELSE <<>>) \o Goto("fmt")
  /\ UNCHANGED <<conn, adb, resp, hist, env>>

(* Read the overview format, if it was asked for; select the current group
   again. *)
ConnectFmt ==
  /\ Top("connect", "fmt")
  /\ stack' = (IF cg # <<>> THEN <<Select(cg)>> ELSE <<>>) \o Goto("end")
  /\ UNCHANGED <<conn, flags, adb, resp, hist, env>>

ConnectEnd ==
  /\ Top("connect", "end")
  /\ Return
  /\ UNCHANGED <<conn, flags, adb, resp, hist, env>>
-----------------------------------------------------------------------------
(* RServer::selectgroup *)

SelectgroupIssue ==
  /\ Top("selectgroup", "start")
  /\ LET g == stack[1].g IN
       IF ServerOf[g] = 0
       THEN Throw("NoGroup") /\ UNCHANGED conn
       ELSE /\ Setserver(ServerOf[g])
            /\ stack' = (IF st' = "none" THEN <<Connect>> ELSE <<>>) \o <<IssueFrame("group", g)>> \o Goto("answer")
            /\ UNCHANGED <<res, flags>>
  /\ UNCHANGED <<adb, resp, got, env>>

(* Mutant: a group the server does not have becomes the current one. *)
SelectgroupAnswerAny ==
  /\ Top("selectgroup", "answer")
  /\ cg' = stack[1].g
  /\ IF resp = 211
     THEN adb' = [adb EXCEPT ![stack[1].g] = cs] /\ Return /\ UNCHANGED <<res, flags>>
     ELSE Throw("NoGroup") /\ UNCHANGED adb
  /\ UNCHANGED <<cs, st, sel, resp, got, env>>

(* The numbers of the answer go to the active database. *)
SelectgroupAnswer ==
  /\ Top("selectgroup", "answer")
  /\ IF resp = 211
     THEN /\ cg' = stack[1].g
          /\ adb' = [adb EXCEPT ![stack[1].g] = cs]
          /\ Return /\ UNCHANGED <<res, flags>>
     ELSE Throw("NoGroup") /\ UNCHANGED <<cg, adb>>
  /\ UNCHANGED <<cs, st, sel, resp, got, env>>
-----------------------------------------------------------------------------
(* Operations: the frame at the bottom of the stack. *)

Start(frames) ==
  /\ stack = <<>>
  /\ stack' = frames
  /\ resp' = 0 /\ res' = "ok" /\ got' = Nothing /\ hit' = FALSE
  /\ UNCHANGED <<conn, flags, adb, carried, faults>>

Online(g) == ~Entries[ServerOf[g]].offline

(* groupinfo (force) and getgroup of a group that is not cached. *)
Selectgroup(g) ==
  /\ ServerOf[g] # 0 => Online(g)
  /\ Start(<<Select(g)>>) \/ (cg # g /\ Start(Selecting(g)))

(* CServer::listgroup, overviewdb and article; none goes to an offline
   server, and all are called for groups with a server. *)
Serves(g) == ServerOf[g] # 0 /\ Online(g)
Listgroup(g) == Serves(g) /\ Start(Selecting(g) \o <<Frame("op", "listgroup", g, "start", 0, 0)>>)
Overviewdb(g) == Serves(g) /\ Start(Selecting(g) \o <<Frame("op", "over", g, "start", 0, 0)>>)
Article(g) == Serves(g) /\ Start(Selecting(g) \o <<Frame("op", "article", g, "start", 0, 0)>>)

OpIssue ==
  /\ Top("op", "start")
  /\ stack' = Issue(stack[1].c, <<>>) \o Goto("answer")
  /\ stack[1].c \in {"listgroup", "article"}
  /\ UNCHANGED <<conn, flags, adb, resp, hist, env>>

(* "over" until the server is known not to have it, then "xover". *)
OverviewIssue ==
  /\ Top("op", "start") /\ stack[1].c \in {"over", "xover"}
  /\ IF "xover" \notin flags[cs] THEN Throw("NSError")
     ELSE LET c == IF "over" \in flags[cs] THEN "over" ELSE "xover" IN
          /\ stack' = Issue(c, <<>>) \o <<[stack[1] EXCEPT !.c = c, !.at = "answer"]>> \o Tail(stack)
          /\ UNCHANGED <<res, flags>>
  /\ UNCHANGED <<conn, adb, resp, got, env>>

(* The body of an answer is read to its end, or the connection is lost in
   it, which only listgroup notices. *)
OpRead ==
  /\ Top("op", "answer") /\ resp \in {211, 220, 224}
  /\ got' = [asked |-> stack[1].g, from |-> cs, sel |-> sel]
  /\ \/ Return /\ UNCHANGED <<st, res, flags, env>>
     \/ /\ Fault /\ st' = "bad" /\ UNCHANGED carried
        /\ IF stack[1].c = "listgroup" THEN Throw("System") ELSE Return /\ UNCHANGED <<res, flags>>
  /\ UNCHANGED <<cs, cg, sel, adb, resp>>

(* Mutant: an unknown command is not noted. *)
OverviewUnknownKept ==
  /\ Top("op", "answer") /\ stack[1].c \in {"over", "xover"} /\ resp = 500
  /\ stack' = Goto("start")
  /\ UNCHANGED <<conn, flags, adb, resp, hist, env>>

OverviewUnknown ==
  /\ Top("op", "answer") /\ stack[1].c \in {"over", "xover"} /\ resp = 500
  /\ flags' = [flags EXCEPT ![cs] = @ \ {stack[1].c}]
  /\ stack' = Goto("start")
  /\ UNCHANGED <<conn, adb, resp, hist, env>>

OpRefused ==
  /\ Top("op", "answer") /\ resp \in {412, 420, 423}
  /\ Throw(IF resp = 423 THEN "NoArticle" ELSE IF resp = 412 /\ stack[1].c \in {"over", "xover"} THEN "NoGroup" ELSE "Response")
  /\ UNCHANGED <<conn, adb, resp, got, env>>

(* CServer::article(id): ask the current server, then all the others. *)
ArticleId ==
  Start((IF cs # 0 /\ ~Entries[cs].offline THEN Issue("artid", <<>>) ELSE <<>>)
        \o <<Frame("artid", "artid", <<>>, IF cs # 0 /\ ~Entries[cs].offline THEN "answer" ELSE "next", 0, cs)>>)

ArticleIdAnswer ==
  /\ Top("artid", "answer")
  /\ stack' = IF resp = 220 THEN Tail(stack) ELSE Goto("next")
  /\ \/ UNCHANGED <<st, env>>
     \/ resp = 220 /\ Fault /\ st' = "bad" /\ UNCHANGED carried
  /\ UNCHANGED <<cs, cg, sel, flags, adb, resp, hist>>

ArticleIdNext ==
  /\ Top("artid", "next")
  /\ LET ks == {k \in Nr : k > stack[1].i /\ k # stack[1].j /\ Entries[k].host /\ ~Entries[k].offline} IN
       IF ks = {} THEN Throw("NoArticle") /\ UNCHANGED conn
       ELSE /\ Setserver(Min(ks))
            /\ stack' = (IF st' = "none" THEN <<Connect>> ELSE <<>>)
                        \o <<IssueFrame("artid", <<>>),
                             [stack[1] EXCEPT !.at = "answer", !.i = Min(ks)]>>
            /\ UNCHANGED <<res, flags>>
  /\ UNCHANGED <<adb, resp, got, env>>
-----------------------------------------------------------------------------
(* RServer::active: the list of every server that is online. *)

Active == Start(<<Frame("active", "", <<>>, "next", 0, 0)>>)

ActiveServer ==
  /\ Top("active", "next")
  /\ LET ks == {k \in Nr : k > stack[1].i /\ Entries[k].host} IN
       IF ks = {} THEN Return /\ UNCHANGED conn
       ELSE LET k == Min(ks) IN
            /\ Setserver(k)
            /\ stack' = IF Entries[k].offline \/ Entries[k].semioffline
                        THEN <<[stack[1] EXCEPT !.i = k]>>
                        ELSE (IF st' = "none" THEN <<Connect>> ELSE <<>>)
                             \o <<[stack[1] EXCEPT !.i = k, !.j = 1, !.at = "list"]>>
  /\ UNCHANGED <<flags, adb, resp, hist, env>>

ActiveIssue ==
  /\ Top("active", "list") \/ Top("active", "plain")
  /\ stack' = IF "wildmat" \in flags[cs] THEN Issue("wildmat", <<>>) \o Goto("wild")
              ELSE Issue("active", <<>>) \o Goto("body")
  /\ UNCHANGED <<conn, flags, adb, resp, hist, env>>

(* The groups the server lists for the command. *)
ListedGroups ==
  IF stack[1].at = "body" THEN carried[cs]
  ELSE {g \in carried[cs] : Clen(Entries[cs].read[stack[1].j], g) > 0}

(* Those that pass the filter. *)
Wanted ==
  ListedGroups \cap (IF stack[1].at = "body" THEN Passing[cs] ELSE PassingWildmat[cs][stack[1].j])

ActiveNext ==
  IF stack[1].at = "wild" /\ stack[1].j < Len(Entries[cs].read)
  THEN <<[stack[1] EXCEPT !.j = @ + 1, !.at = "list"]>> ELSE Goto("next")

(* The groups are stored as they come; a connection lost in between ends the
   list silently or, inside a line, with an error. *)
ActiveRead ==
  /\ Top("active", "wild") \/ Top("active", "body")
  /\ \E S \in SUBSET Wanted :
       /\ adb' = [g \in Group |-> IF g \in S THEN cs ELSE adb[g]]
       /\ \/ S = Wanted /\ stack' = ActiveNext /\ UNCHANGED <<st, res, flags, env>>
          \/ /\ Fault /\ st' = "bad" /\ UNCHANGED carried
             /\ (stack' = ActiveNext /\ UNCHANGED <<res, flags>>) \/ Throw("NSError")
  /\ UNCHANGED <<cs, cg, sel, resp, got>>
-----------------------------------------------------------------------------
(* setserverlist: everything is forgotten. *)
Setserverlist ==
  /\ stack = <<>>
  /\ cs' = 0 /\ cg' = <<>> /\ st' = "none" /\ sel' = <<>>
  /\ UNCHANGED <<flags, adb, carried, stack, resp, hist, hit, faults>>

(* The server closes an idle connection, or gives up a group. *)
IdleClose ==
  /\ stack = <<>> /\ st = "good" /\ faults > 0
  /\ st' = "bad" /\ faults' = faults - 1
  /\ UNCHANGED <<cs, cg, sel, flags, adb, carried, stack, resp, hist, hit>>

GroupRemoved ==
  /\ stack = <<>> /\ faults > 0
  /\ \E k \in Nr, g \in Group : g \in carried[k] /\ carried' = [carried EXCEPT ![k] = @ \ {g}]
  /\ faults' = faults - 1
  /\ UNCHANGED <<conn, flags, adb, stack, resp, hist, hit>>

Issuing == IssueAnswered \/ IssueLost \/ IssueRetry
Connecting == ConnectRefused \/ ConnectLost \/ ConnectBusy \/ ConnectGreeted \/ ConnectReader \/ ConnectFmt \/ ConnectEnd
Operating ==
  \/ SelectgroupIssue \/ SelectgroupAnswer
  \/ OpIssue \/ OverviewIssue \/ OpRead \/ OverviewUnknown \/ OpRefused
  \/ ArticleIdAnswer \/ ArticleIdNext
  \/ ActiveServer \/ ActiveIssue \/ ActiveRead
Running == Issuing \/ Connecting \/ Operating
Next ==
  \/ Running
  \/ \E g \in Group : Selectgroup(g) \/ Listgroup(g) \/ Overviewdb(g) \/ Article(g)
  \/ ArticleId \/ Active \/ Setserverlist
  \/ IdleClose \/ GroupRemoved

(* An operation that is running goes on: every exchange ends somehow. *)
Spec == Init /\ [][Next]_vars /\ WF_vars(Running)
-----------------------------------------------------------------------------
(* RServer reads articles, overviews and lists of a group only from the server
   that is responsible for the group, with that group selected there, whatever
   was lost, reconnected or refused in between. *)
RightGroup ==
  got.asked # <<>> => got.from = ServerOf[got.asked] /\ got.sel = got.asked

(* The active database has the numbers of a group only from the server that is
   responsible for it: selectgroup and the filters of active() agree. *)
ActiveFromResponsible == \A g \in Group : adb[g] \in {0, ServerOf[g]}

(* A connection that the server closed while it was idle (or that the last
   operation left broken) is invisible: an operation ends with a SystemError
   only if a fault has happened while it was running. *)
IdleCloseInvisible == stack = <<>> /\ res = "System" => hit

(* Once the servers and the network have stopped to fail, every operation ends,
   however deep connect, issue and selectgroup have called each other by then.
   (Every behaviour of the specification has finitely many faults; what an
   operation does for as long as there are more is the subject of GivesUp.) *)
EndsAfterFaults == (stack # <<>>) ~> (stack = <<>>)

(* "After a certain number of retries, NewsCache gives up", and the number is that
   of the configuration: never are more attempts to connect under way, one inside
   of the other, than the first one and its retries.  (The loop of issue counts
   down, but connect issues commands of its own, with a counter of their own.) *)
GivesUp == Cardinality({k \in DOMAIN stack : stack[k].fn = "connect"}) <= Retries + 1
=============================================================================
