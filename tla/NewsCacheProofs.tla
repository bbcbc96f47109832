-------------------------- MODULE NewsCacheProofs --------------------------
(***************************************************************************)
(* Proofs about the NewsCache daemon, for any set of clients, commands,    *)
(* groups and limits, and whatever the bound on the events from outside.   *)
(***************************************************************************)
EXTENDS NewsCache, FiniteSetTheorems, TLAPS

(* The child that was forked and is not counted yet. *)
Uncounted == IF dpc = "forked" THEN 1 ELSE 0

(* nntp_connections never falls short of the children that run or wait to be
   reaped: a lost decrement leaves it too high, the increment after fork comes
   before the next accept. *)
ConnInv ==
  /\ DOMAIN ses = Client
  /\ count \in Int /\ zombies \in Nat /\ maxc \in Nat /\ top \in Nat
  /\ maxc <= top
  /\ IsFiniteSet(Alive)
  /\ Cardinality(Alive) + zombies <= count + Uncounted
  /\ Cardinality(Alive) <= top

Off == {"off", "queue", "gone"}

(* A step that touches the session of c alone. *)
Touches(c) == DOMAIN ses' = DOMAIN ses /\ \A d \in Client \ {c} : ses'[d] = ses[d]

LEMMA PutTouches ==
  ASSUME DOMAIN ses = Client, NEW c \in Client, NEW s, Put(c, s)
  PROVE  Touches(c) /\ ses'[c] = s
BY DEF Put, Touches

(* Every step of a command is one of a child that runs, and touches the
   session of its client alone. *)
LEMMA ReceivingTouches ==
  ASSUME DOMAIN ses = Client, NEW c \in Client, Receiving(c)
  PROVE  c \in Alive /\ Touches(c)
<1>1. At(c, "read")
  BY DEF Receiving, Help, Date, Mode, Xdebug, Misc, Answered, Quit, List, Newgroups, Select, Begin, Line
<1>2. ses' = ses \/ \E s : Put(c, s)
  BY DEF Receiving, Help, Date, Mode, Xdebug, Misc, Answered, Quit, List, Newgroups, Select, Begin,
         PrintLines
<1>3. Touches(c)
  BY <1>2, PutTouches DEF Touches
<1> QED BY <1>1, <1>3 DEF Alive, At

LEMMA RunningTouches ==
  ASSUME DOMAIN ses = Client, NEW c \in Client, Running(c)
  PROVE  c \in Alive /\ Touches(c)
<1>1. At(c, "resize") \/ At(c, "getgroup") \/ At(c, "open") \/ At(c, "do") \/ At(c, "size") \/ At(c, "walk")
  BY DEF Running, Resize, Getgroup, OpenGroup, OpenFails, Article, Stat, Xover, Xhdr, Listgroup, Printdb,
         GetFirst, GetLast, Walk
<1>2. \E s : Put(c, s)
  <2>1. CASE Resize(c)
    BY <2>1 DEF Resize
  <2>2. CASE Getgroup(c)
    BY <2>2 DEF Getgroup
  <2>3. CASE OpenGroup(c) \/ OpenFails(c)
    BY <2>3 DEF OpenGroup, OpenFails
  <2>4. CASE Article(c)
    BY <2>4 DEF Article
  <2>5. CASE Stat(c)
    BY <2>5 DEF Stat
  <2>6. CASE Xover(c) \/ Xhdr(c) \/ Listgroup(c)
    BY <2>6 DEF Xover, Xhdr, Listgroup, Printdb
  <2>7. CASE GetFirst(c) \/ GetLast(c)
    BY <2>7 DEF GetFirst, GetLast
  <2>8. CASE Walk(c)
    BY <2>8 DEF Walk
  <2> QED BY <2>1, <2>2, <2>3, <2>4, <2>5, <2>6, <2>7, <2>8 DEF Running
<1>3. Touches(c)
  BY <1>2, PutTouches
<1> QED BY <1>1, <1>3 DEF Alive, At

(* The children that run after a step that touches one session. *)
LEMMA AliveChange ==
  ASSUME ConnInv, NEW c \in Client, Touches(c)
  PROVE  /\ IsFiniteSet(Alive') /\ Cardinality(Alive') \in Nat /\ Cardinality(Alive) \in Nat
         /\ c \in Alive => Cardinality(Alive') <= Cardinality(Alive)
         /\ c \in Alive /\ ses'[c].pc \in Off => Cardinality(Alive') = Cardinality(Alive) - 1
         /\ c \notin Alive /\ ses'[c].pc \in Off => Cardinality(Alive') = Cardinality(Alive)
         /\ Cardinality(Alive') <= Cardinality(Alive) + 1
<1>1. \A d \in Client \ {c} : d \in Alive' <=> d \in Alive
  BY DEF Touches, Alive
<1>2. IsFiniteSet(Alive)
  BY DEF ConnInv
<1>3. c \in Alive' <=> ses'[c].pc \notin Off
  BY DEF Alive, Off
<1>4. Alive \subseteq Client /\ Alive' \subseteq Client
  BY DEF Alive
<1>5. Alive' = IF ses'[c].pc \in Off THEN Alive \ {c} ELSE Alive \cup {c}
  BY <1>1, <1>3, <1>4
<1>6. /\ IsFiniteSet(Alive \ {c}) /\ IsFiniteSet(Alive \cup {c})
      /\ Cardinality(Alive \ {c}) = IF c \in Alive THEN Cardinality(Alive) - 1 ELSE Cardinality(Alive)
      /\ Cardinality(Alive \cup {c}) = IF c \in Alive THEN Cardinality(Alive) ELSE Cardinality(Alive) + 1
  BY <1>2, FS_AddElement, FS_RemoveElement
<1>7. /\ Cardinality(Alive) \in Nat /\ Cardinality(Alive \ {c}) \in Nat /\ Cardinality(Alive \cup {c}) \in Nat
  BY <1>2, <1>6, FS_CardinalityType
<1> QED BY <1>5, <1>6, <1>7

(* What the end of a child, or a step of it, does to the counts. *)
LEMMA ChildInv ==
  ASSUME ConnInv, NEW c \in Client, c \in Alive, Touches(c), UNCHANGED daemon,
         IF ses'[c].pc = "gone" THEN zombies' = zombies + 1 ELSE zombies' = zombies
  PROVE  ConnInv'
<1>1. /\ dpc' = dpc /\ count' = count /\ maxc' = maxc /\ top' = top /\ DOMAIN ses' = Client
  BY DEF daemon, ConnInv, Touches
<1>2. /\ count \in Int /\ zombies \in Nat /\ maxc \in Nat /\ top \in Nat /\ maxc <= top
      /\ Cardinality(Alive) + zombies <= count + Uncounted /\ Cardinality(Alive) <= top
      /\ Uncounted \in Int /\ Uncounted' = Uncounted
  BY <1>1 DEF ConnInv, Uncounted
<1>3. /\ IsFiniteSet(Alive') /\ Cardinality(Alive') \in Nat /\ Cardinality(Alive) \in Nat
      /\ Cardinality(Alive') <= Cardinality(Alive)
      /\ ses'[c].pc = "gone" => Cardinality(Alive') = Cardinality(Alive) - 1
  BY AliveChange DEF Off
<1>4. zombies' \in Nat /\ Cardinality(Alive') + zombies' <= Cardinality(Alive) + zombies
  BY <1>2, <1>3
<1> HIDE DEF Uncounted
<1>5. Cardinality(Alive') + zombies' <= count + Uncounted /\ Cardinality(Alive') <= top
  BY <1>2, <1>3, <1>4
<1> QED BY <1>1, <1>2, <1>3, <1>4, <1>5 DEF ConnInv

(* Connections that come, wait and go without a child. *)
LEMMA QueueInv ==
  ASSUME ConnInv, NEW c \in Client, c \notin Alive, Touches(c), ses'[c].pc \in Off,
         UNCHANGED <<daemon, zombies>>
  PROVE  ConnInv'
<1>1. /\ dpc' = dpc /\ count' = count /\ maxc' = maxc /\ top' = top /\ zombies' = zombies
      /\ DOMAIN ses' = Client
  BY DEF daemon, ConnInv, Touches
<1>2. IsFiniteSet(Alive') /\ Cardinality(Alive') = Cardinality(Alive)
  BY AliveChange
<1> QED BY <1>1, <1>2 DEF ConnInv, Uncounted

(* The daemon exits, or goes on: the children do. *)
LEMMA ExitAlive ==
  ASSUME ConnInv, Exit \/ UNCHANGED ses
  PROVE  Alive' = Alive /\ DOMAIN ses' = Client
<1>1. CASE UNCHANGED ses
  BY <1>1 DEF ConnInv, Alive
<1>2. CASE Exit
  <2>1. ses' = [c \in Client |-> IF At(c, "queue") THEN Ended ELSE ses[c]]
    BY <1>2 DEF Exit
  <2>2. Ended.pc = "gone"
    BY DEF Ended, Blank
  <2>3. \A c \in Client : c \in Alive' <=> c \in Alive
    BY <2>1, <2>2 DEF Alive, At
  <2> QED BY <2>1, <2>3 DEF Alive
<1> QED BY <1>1, <1>2

(* A session that ends, as its client's child does it. *)
LEMMA EndInv ==
  ASSUME ConnInv, NEW c \in Client, c \in Alive, Put(c, Ended), Dies(c), UNCHANGED daemon
  PROVE  ConnInv'
<1>1. Touches(c) /\ ses'[c].pc = "gone"
  BY PutTouches DEF ConnInv, Ended, Blank
<1> QED BY <1>1, ChildInv DEF Dies

-----------------------------------------------------------------------------
(* One step per action of the daemon, its handlers, the clients and the children. *)
LEMMA DaemonInv ==
  ASSUME ConnInv, Daemon
  PROVE  ConnInv'
<1>0. /\ DOMAIN ses = Client /\ count \in Int /\ zombies \in Nat /\ maxc \in Nat /\ top \in Nat
      /\ maxc <= top /\ IsFiniteSet(Alive) /\ Cardinality(Alive) \in Nat
      /\ Cardinality(Alive) + zombies <= count + Uncounted /\ Cardinality(Alive) <= top
  BY FS_CardinalityType DEF ConnInv
<1>1. CASE AcceptStop
  <2>1. Alive' = Alive /\ DOMAIN ses' = Client
    BY <1>1, ExitAlive DEF AcceptStop
  <2>2. dpc = "accept" /\ dpc' = "exited" /\ count' = count /\ maxc' = maxc /\ top' = top /\ zombies' = zombies
    BY <1>1 DEF AcceptStop, Exit, children
  <2> QED BY <1>0, <2>1, <2>2 DEF ConnInv, Uncounted
<1>2. CASE AcceptFails \/ Refuse
  <2>1. PICK c \in Client : Accepts(c) /\ Put(c, Ended)
    BY <1>2 DEF AcceptFails, Refuse
  <2>2. c \notin Alive /\ Touches(c) /\ ses'[c].pc \in Off
    BY <1>0, <2>1, PutTouches DEF Accepts, At, Alive, Ended, Blank, Off
  <2>3. UNCHANGED <<daemon, zombies>>
    BY <1>2 DEF AcceptFails, Refuse, children
  <2> QED BY <2>2, <2>3, QueueInv
<1>3. CASE Fork
  <2>1. PICK c \in Client : Accepts(c) /\ Put(c, Blank("start"))
    BY <1>3 DEF Fork
  <2>2. Touches(c)
    BY <1>0, <2>1, PutTouches
  <2>3. IsFiniteSet(Alive') /\ Cardinality(Alive') \in Nat /\ Cardinality(Alive') <= Cardinality(Alive) + 1
    BY <2>2, AliveChange
  <2>4. /\ dpc = "accept" /\ dpc' = "forked" /\ count' = count /\ maxc' = maxc /\ top' = top
        /\ zombies' = zombies /\ DOMAIN ses' = Client
    BY <1>0, <1>3, <2>1, <2>2 DEF Fork, Accepts, children, Touches
  <2>5. Uncounted = 0 /\ Uncounted' = 1
    BY <2>4 DEF Uncounted
  <2>6. count < maxc
    BY <1>0, <1>3 DEF Fork, Full
  <2>7. Cardinality(Alive') + zombies' <= count' + Uncounted' /\ Cardinality(Alive') <= top'
    BY <1>0, <2>3, <2>4, <2>5, <2>6
  <2> QED BY <1>0, <2>3, <2>4, <2>7 DEF ConnInv
<1>4. CASE Increment
  <2>1. /\ dpc = "forked" /\ dpc' = "accept" /\ count' = count + 1 /\ ses' = ses
        /\ maxc' = maxc /\ top' = top /\ zombies' = zombies
    BY <1>4 DEF Increment, children
  <2>2. Alive' = Alive
    BY <2>1 DEF Alive
  <2> QED BY <1>0, <2>1, <2>2 DEF ConnInv, Uncounted
<1> QED BY <1>1, <1>2, <1>3, <1>4 DEF Daemon

(* The handlers: whatever they interrupt, the count stays large enough. *)
LEMMA HandlerInv ==
  ASSUME ConnInv, sigchld \/ catchsighup \/ catchsignal
  PROVE  ConnInv'
<1>0. /\ DOMAIN ses = Client /\ count \in Int /\ zombies \in Nat /\ maxc \in Nat /\ top \in Nat
      /\ maxc <= top /\ IsFiniteSet(Alive) /\ Cardinality(Alive) \in Nat
      /\ Cardinality(Alive) + zombies <= count + Uncounted /\ Cardinality(Alive) <= top
  BY FS_CardinalityType DEF ConnInv
<1>1. \E x \in BOOLEAN : Interrupted(x)
  <2>1. Interrupted(xsig) => Interrupted(TRUE) \/ Interrupted(FALSE)
    BY DEF Interrupted
  <2> QED BY <2>1 DEF sigchld, catchsighup, catchsignal
<1>2. Exit \/ UNCHANGED ses
  BY <1>1 DEF Interrupted
<1>3. Alive' = Alive /\ DOMAIN ses' = Client
  BY <1>2, ExitAlive
<1>4. Uncounted' = Uncounted /\ Uncounted \in Nat
  <2>1. dpc' = dpc \/ (dpc = "accept" /\ dpc' = "exited")
    BY <1>1 DEF Interrupted, Exit
  <2> QED BY <2>1 DEF Uncounted
<1>5. CASE sigchld
  <2>1. /\ zombies' = 0 /\ maxc' = maxc /\ top' = top
        /\ count' = count - zombies \/ count' = count
    BY <1>5 DEF sigchld, Reap
  <2>2. count' \in Int /\ Cardinality(Alive') + zombies' <= count' + Uncounted'
    BY <1>0, <1>3, <1>4, <2>1
  <2> QED BY <1>0, <1>3, <2>1, <2>2 DEF ConnInv
<1>6. CASE catchsighup
  <2>1. /\ zombies' = zombies /\ count' = count /\ maxc' \in Limits
        /\ top' = IF maxc' > top THEN maxc' ELSE top
    BY <1>6 DEF catchsighup, children
  <2>2. maxc' \in Nat /\ top' \in Nat /\ maxc' <= top' /\ top <= top'
    BY <1>0, <2>1, LimitsAssumption
  <2>3. Cardinality(Alive') <= top'
    BY <1>0, <1>3, <2>2
  <2> QED BY <1>0, <1>3, <1>4, <2>1, <2>2, <2>3 DEF ConnInv
<1>7. CASE catchsignal
  <2>1. zombies' = zombies /\ count' = count /\ maxc' = maxc /\ top' = top
    BY <1>7 DEF catchsignal, children
  <2> QED BY <1>0, <1>3, <1>4, <2>1 DEF ConnInv
<1> QED BY <1>5, <1>6, <1>7

LEMMA ClientInv ==
  ASSUME ConnInv, NEW c \in Client,
         \/ ConnectTo(c) \/ Child(c) \/ Timeout(c) \/ Eof(c) \/ ChildSignal(c)
         \/ Discontinue(c) \/ ReceiveLine(c)
  PROVE  ConnInv'
<1>0. DOMAIN ses = Client
  BY DEF ConnInv
<1>1. CASE ConnectTo(c)
  <2>1. c \notin Alive /\ Touches(c) /\ ses'[c].pc \in Off
    <3>1. Put(c, Blank("queue"))
      BY <1>1 DEF ConnectTo
    <3>2. Touches(c) /\ ses'[c] = Blank("queue")
      BY <1>0, <3>1, PutTouches
    <3> QED BY <1>1, <3>2 DEF ConnectTo, At, Alive, Blank, Off
  <2>2. UNCHANGED <<daemon, zombies>>
    BY <1>1 DEF ConnectTo, children
  <2> QED BY <2>1, <2>2, QueueInv
<1>2. CASE Greet(c)
  <2>1. c \in Alive
    BY <1>2 DEF Greet, At, Alive
  <2> DEFINE s == [ses[c] EXCEPT !.pc = "read"]
  <2>2. Put(c, s)
    BY <1>2 DEF Greet
  <2>3. s.pc # "gone"
    <3>1. ses[c].pc = "start"
      BY <1>2 DEF Greet, At
    <3> QED BY <3>1
  <2> HIDE DEF s
  <2>4. Touches(c) /\ ses'[c] = s
    BY <1>0, <2>2, PutTouches
  <2>5. UNCHANGED daemon /\ zombies' = zombies
    BY <1>2 DEF Greet, children
  <2> QED BY <2>1, <2>3, <2>4, <2>5, ChildInv
<1>3. CASE TurnAway(c) \/ Timeout(c) \/ Eof(c) \/ Discontinue(c)
  <2>1. c \in Alive
    BY <1>3 DEF TurnAway, Timeout, Eof, Discontinue, At, Alive
  <2> QED BY <1>3, <2>1, EndInv DEF TurnAway, Timeout, Eof, Discontinue
<1>4. CASE ChildSignal(c)
  <2>1. CASE At(c, "read")
    BY <1>4, <2>1, EndInv DEF ChildSignal
  <2>2. CASE ~At(c, "read")
    <3>1. c \in Alive /\ ses' = ses /\ zombies' = zombies /\ UNCHANGED daemon
      BY <1>4, <2>2 DEF ChildSignal
    <3>2. Alive' = Alive
      BY <3>1 DEF Alive
    <3> QED BY <3>1, <3>2 DEF ConnInv, Uncounted, daemon
  <2> QED BY <2>1, <2>2
<1>5. CASE ReceiveLine(c)
  <2>1. c \in Alive /\ Touches(c)
    BY <1>0, <1>5, ReceivingTouches DEF ReceiveLine
  <2> QED BY <1>5, <2>1, ChildInv DEF ReceiveLine, Ending, Dies, children
<1>6. CASE Command(c)
  <2>1. c \in Alive /\ Touches(c)
    BY <1>0, <1>6, RunningTouches DEF Command
  <2> QED BY <1>6, <2>1, ChildInv DEF Command, Ending, Dies, children
<1> QED BY <1>1, <1>2, <1>3, <1>4, <1>5, <1>6 DEF Child

(* Steps that leave the sessions and the counts alone. *)
LEMMA IdleInv ==
  ASSUME ConnInv, ses' = ses, UNCHANGED <<daemon, zombies>>
  PROVE  ConnInv'
<1>1. Alive' = Alive
  BY DEF Alive
<1> QED BY <1>1 DEF ConnInv, Uncounted, daemon

LEMMA NextInv == ConnInv /\ [Next]_vars => ConnInv'
<1> SUFFICES ASSUME ConnInv, [Next]_vars PROVE ConnInv'
  OBVIOUS
<1>1. CASE Daemon
  BY <1>1, DaemonInv
<1>2. CASE sigchld \/ catchsighup \/ catchsignal
  BY <1>2, HandlerInv
<1>3. CASE UpstreamChange
  <2>1. ses' = ses /\ UNCHANGED <<daemon, zombies>>
    BY <1>3 DEF UpstreamChange, Changing, Arrive, Expire, Cancel, children
  <2> QED BY <2>1, IdleInv
<1>4. ASSUME NEW c \in Client,
             \/ ConnectTo(c) \/ Child(c) \/ Timeout(c) \/ Eof(c) \/ ChildSignal(c)
             \/ Discontinue(c) \/ ReceiveLine(c)
      PROVE  ConnInv'
  BY <1>4, ClientInv
<1>5. CASE UNCHANGED vars
  BY <1>5, IdleInv DEF vars, daemon
<1> QED BY <1>1, <1>2, <1>3, <1>4, <1>5 DEF Next

LEMMA InitInv == Init => ConnInv
<1> SUFFICES ASSUME Init PROVE ConnInv
  OBVIOUS
<1>1. ses = [c \in Client |-> Blank("off")]
  BY DEF Init, SessionInit
<1>2. Alive = {}
  BY <1>1 DEF Alive, Blank
<1>3. maxc \in Nat /\ top = maxc /\ count = 0 /\ zombies = 0 /\ dpc = "accept"
  BY LimitsAssumption DEF Init
<1> QED BY <1>1, <1>2, <1>3, FS_EmptySet DEF ConnInv, Uncounted

(* There are never more children than the largest MaxConnections that was
   configured, for any number of clients and any loss of decrements. *)
THEOREM ConnectionsAreBounded == Spec => []ConnectionsBounded
<1>1. ConnInv => ConnectionsBounded
  BY DEF ConnInv, ConnectionsBounded
<1>2. Spec => []ConnInv
  BY InitInv, NextInv, PTL DEF Spec
<1> QED BY <1>1, <1>2, PTL
-----------------------------------------------------------------------------
(* The walk of NEXT and LAST *)

(* A table, an upstream group or the numbers of the active database. *)
TableType == [f : Nat, l : Nat, over : SUBSET Nat]
TableOK(t) == t \in TableType /\ t.over \subseteq t.f..t.l
UpType == [f : Nat, l : Nat, arts : SUBSET Nat]
InfoType == [f : Nat, l : Nat]
CommandType == [op : Ops \cup {None}, g : Group \cup {None}, n : Nat]
Control ==
  {"off", "queue", "start", "read", "resize", "getgroup", "open", "do", "size", "walk", "gone"}
SessionType ==
  [pc : Control, cmd : CommandType, name : Group \cup {None}, grp : Group \cup {None},
   nbr : Int, own : TableType, i : Int, f : Nat, l : Nat]

(* The numbers a child has are never ahead of the upstream group. *)
NotAhead(s, u) == s.name \in Group /\ s.f <= u[s.name].f

(* What the loop of NEXT or LAST has left behind holds no record of k. *)
Passed(s, k) ==
  IF s.cmd.op = "next" THEN s.nbr <= s.i /\ \A n \in k : n > s.nbr => n > s.i
  ELSE s.nbr >= s.i /\ \A n \in k : n < s.nbr => n < s.i

SessionBase(s) ==
  /\ s \in SessionType /\ TableOK(s.own)
  /\ s.grp = None \/ s.grp = s.name

(* A session s with the kept records k of its group, upstream groups u. *)
SessionOK(s, k, u) ==
  /\ SessionBase(s)
  /\ s.pc \in {"open", "resize"} => NotAhead(s, u)
  /\ s.pc = "getgroup" => s.name \in Group
  /\ s.pc \in {"resize", "do", "size", "walk"} => s.grp \in Group
  /\ s.pc \in {"size", "walk"} => s.cmd.op \in {"next", "last"} /\ \A n \in k : s.f <= n
  /\ s.pc = "size" => s.i = s.nbr
  /\ s.pc = "walk" => Passed(s, k) /\ \A n \in k : n <= s.l

DataOK ==
  /\ up \in [Group -> UpType]
  /\ \A g \in Group : up[g].f <= up[g].l + 1 /\ up[g].arts \subseteq up[g].f..up[g].l
  /\ adb \in [Group -> InfoType] /\ \A g \in Group : adb[g].f <= up[g].f
  /\ db \in [Cached -> TableType] /\ \A g \in Cached : TableOK(db[g])

WalkInv ==
  /\ DataOK
  /\ DOMAIN ses = Client /\ DOMAIN kept = Client
  /\ \A c \in Client : SessionOK(ses[c], kept[c], up) /\ kept[c] \subseteq Records(c)

(* Sessions as the operations leave them. *)
LEMMA BlankOK ==
  ASSUME NEW pc \in {"off", "queue", "gone", "start"}, NEW k, NEW u
  PROVE  SessionOK(Blank(pc), k, u)
<1>1. Empty \in TableType /\ TableOK(Empty)
  BY DEF Empty, TableType, TableOK
<1>2. NoCommand \in CommandType
  BY DEF NoCommand, CommandType
<1>3. Blank(pc) \in SessionType
  BY <1>1, <1>2 DEF Blank, SessionType, Control
<1> QED BY <1>1, <1>3 DEF Blank, SessionOK, SessionBase

LEMMA BackOK ==
  ASSUME NEW s, SessionBase(s), NEW k, NEW u
  PROVE  SessionOK(Back(s), k, u)
<1>1. NoCommand \in CommandType
  BY DEF NoCommand, CommandType
<1>2. Back(s) \in SessionType
  <2> DEFINE t == [s EXCEPT !.pc = "read", !.cmd = NoCommand]
  <2>1. t \in SessionType
    BY <1>1 DEF SessionBase, SessionType, Control
  <2> DEFINE v == [t EXCEPT !.i = 0]
             w == [v EXCEPT !.f = 0]
  <2>2. Back(s) = [w EXCEPT !.l = 0]
    BY DEF Back
  <2> HIDE DEF t
  <2>3. v \in SessionType
    BY <2>1 DEF SessionType
  <2> HIDE DEF v
  <2>4. w \in SessionType
    BY <2>3 DEF SessionType
  <2> HIDE DEF w
  <2> QED BY <2>2, <2>4 DEF SessionType
<1>3. /\ Back(s).own = s.own /\ Back(s).grp = s.grp /\ Back(s).name = s.name /\ Back(s).pc = "read"
  BY DEF Back, SessionBase, SessionType
<1> HIDE DEF Back
<1> QED BY <1>2, <1>3 DEF SessionOK, SessionBase

LEMMA OpeningOK ==
  ASSUME NEW s, SessionBase(s), s.name \in Group, NEW k, NEW u
  PROVE  SessionOK(Opening(s), k, u)
<1>1. Opening(s) \in SessionType
  BY DEF Opening, SessionBase, SessionType, Control
<1>2. /\ Opening(s).own = s.own /\ Opening(s).grp = s.grp /\ Opening(s).name = s.name
      /\ Opening(s).pc = IF s.grp = None THEN "getgroup" ELSE "do"
  BY DEF Opening, SessionBase, SessionType, Control
<1> QED BY <1>1, <1>2 DEF SessionOK, SessionBase

LEMMA SelectedOK ==
  ASSUME NEW s, SessionBase(s), s.name \in Group, NEW k, NEW u
  PROVE  SessionOK(Selected(s), k, u)
BY BackOK, OpeningOK DEF Selected

LEMMA SelectgroupOK ==
  ASSUME NEW s, SessionBase(s), NEW g \in Group, NEW r \in InfoType, NEW k, NEW u, r.f <= u[g].f
  PROVE  SessionOK(Selectgroup(s, g, r), k, u)
<1> DEFINE p == [s EXCEPT !.nbr = IF r.f <= r.l THEN r.f ELSE -1]
<1>1. /\ p \in SessionType /\ p.own = s.own /\ p.grp = s.grp /\ p.name = s.name
  BY DEF SessionBase, SessionType, InfoType
<1>2. SessionBase(p)
  BY <1>1 DEF SessionBase
<1>3. CASE s.name # g
  <2> DEFINE q == [p EXCEPT !.name = g, !.grp = None, !.own = Empty]
  <2>0. Empty \in TableType /\ TableOK(Empty)
    BY DEF Empty, TableType, TableOK
  <2> HIDE DEF p
  <2>1. q \in SessionType /\ q.own = Empty /\ q.grp = None /\ q.name = g
    BY <1>1, <2>0 DEF SessionType
  <2> HIDE DEF q
  <2>2. SessionOK(Selected(q), k, u)
    BY <2>0, <2>1, SelectedOK DEF SessionBase
  <2> QED BY <1>3, <2>2 DEF Selectgroup, p, q
<1>4. CASE s.name = g /\ s.grp = None
  <2>1. SessionOK(Selected(p), k, u)
    BY <1>1, <1>2, <1>4, SelectedOK
  <2> QED BY <1>4, <2>1 DEF Selectgroup
<1>5. CASE s.name = g /\ s.grp # None
  <2> DEFINE q == [p EXCEPT !.pc = "resize", !.f = r.f, !.l = r.l]
  <2> HIDE DEF p
  <2>1. /\ q \in SessionType /\ q.own = s.own /\ q.grp = s.grp /\ q.name = s.name
        /\ q.pc = "resize" /\ q.f = r.f
    BY <1>1 DEF SessionType, InfoType, Control
  <2> HIDE DEF q
  <2>2. SessionOK(q, k, u)
    BY <1>5, <2>1 DEF SessionBase, SessionOK, NotAhead
  <2> QED BY <1>5, <2>2 DEF Selectgroup, p, q
<1> QED BY <1>3, <1>4, <1>5

(* A session that is left alone, while records disappear and upstream groups
   move on. *)
LEMMA LeftAloneOK ==
  ASSUME NEW s, NEW k, NEW u \in [Group -> UpType], SessionOK(s, k, u),
         NEW h, h \subseteq k \/ s.pc = "read",
         NEW v \in [Group -> UpType], \A g \in Group : u[g].f <= v[g].f
  PROVE  SessionOK(s, h, v)
<1>1. NotAhead(s, u) => NotAhead(s, v)
  BY DEF NotAhead, SessionOK, SessionBase, SessionType, UpType
<1>2. h \subseteq k => (Passed(s, k) => Passed(s, h))
  BY DEF Passed
<1> QED BY <1>1, <1>2 DEF SessionOK

(* Tables as setsize and the overviews leave them. *)
LEMMA SetsizeOK ==
  ASSUME NEW t \in TableType, NEW r, r.f \in Nat, r.l \in Nat
  PROVE  TableOK(Setsize(t, r)) /\ Setsize(t, r).l = r.l
BY DEF TableType, TableOK, Setsize

LEMMA SyncedOK ==
  ASSUME NEW t, TableOK(t), NEW arts \in SUBSET Nat, NEW k \in Int, k <= t.l
  PROVE  TableOK(Synced(t, arts, k))
<1>1. /\ t \in TableType /\ t.f \in Nat /\ t.l \in Nat /\ t.over \subseteq t.f..t.l
      /\ t.over \subseteq Nat
  BY DEF TableOK, TableType
<1> DEFINE o == (arts \cap (t.f..k)) \cup (t.over \ (0..k))
<1>2. o \in SUBSET Nat /\ o \subseteq t.f..t.l
  BY <1>1
<1> HIDE DEF o
<1>3. [t EXCEPT !.over = o] \in TableType
  BY <1>1, <1>2 DEF TableType
<1>4. /\ [t EXCEPT !.over = o].over = o /\ [t EXCEPT !.over = o].f = t.f
      /\ [t EXCEPT !.over = o].l = t.l
  BY <1>1 DEF TableType
<1> QED BY <1>2, <1>3, <1>4 DEF Synced, TableOK, o

(* What RNewsgroup::setsize fetches lies in the group, as the numbers are not
   ahead of the upstream group. *)
LEMMA RSetsizeOK ==
  ASSUME NEW t, TableOK(t), NEW r, r.f \in Nat, r.l \in Nat, NEW arts \in SUBSET Nat,
         \A a \in arts : r.f <= a, NEW k \in (r.f - 1)..r.l
  PROVE  TableOK(RSetsize(t, r, arts, k))
<1>1. /\ t \in TableType /\ t.f \in Nat /\ t.l \in Nat /\ t.over \subseteq t.f..t.l
      /\ t.over \subseteq Nat /\ k \in Int /\ k <= r.l
  BY DEF TableOK, TableType
<1> DEFINE old == t.over \ (0..(r.f - 1))
<1>2. CASE r.f < t.f \/ r.l < t.l
  <2>1. RSetsize(t, r, arts, k) = [f |-> r.f, l |-> r.l, over |-> arts \cap (r.f..k)]
    BY <1>2 DEF RSetsize, Readoverdb
  <2>2. arts \cap (r.f..k) \in SUBSET Nat /\ arts \cap (r.f..k) \subseteq r.f..r.l
    BY <1>1
  <2> QED BY <2>1, <2>2 DEF TableOK, TableType
<1>3. CASE ~(r.f < t.f \/ r.l < t.l) /\ t.l < r.l
  <2> DEFINE o == old \cup (arts \cap ((t.l + 1)..k))
  <2>1. RSetsize(t, r, arts, k) = [f |-> r.f, l |-> r.l, over |-> o]
    BY <1>3 DEF RSetsize, Readoverdb
  <2>2. o \in SUBSET Nat /\ o \subseteq r.f..r.l
    BY <1>1, <1>3
  <2> QED BY <2>1, <2>2 DEF TableOK, TableType
<1>4. CASE ~(r.f < t.f \/ r.l < t.l) /\ ~(t.l < r.l)
  <2>1. RSetsize(t, r, arts, k) = [t EXCEPT !.over = old]
    BY <1>4 DEF RSetsize
  <2>2. old \in SUBSET Nat /\ old \subseteq t.f..t.l
    BY <1>1
  <2> HIDE DEF old
  <2> QED BY <1>1, <2>1, <2>2 DEF TableOK, TableType
<1> QED BY <1>2, <1>3, <1>4

LEMMA InfosOK ==
  ASSUME DataOK, NEW g \in Group, NEW r \in Infos(g)
  PROVE  r \in InfoType /\ r.f <= up[g].f
BY DEF DataOK, Infos, InfoType, UpType

(* groupinfo and active: numbers of the upstream group, now or earlier. *)
LEMMA GroupinfoOK ==
  ASSUME DataOK, NEW g \in Group, NEW r \in Infos(g), Groupinfo(g, r)
  PROVE  adb' \in [Group -> InfoType] /\ \A h \in Group : adb'[h].f <= up[h].f
BY InfosOK DEF DataOK, Groupinfo

LEMMA ActiveOK ==
  ASSUME DataOK, Active
  PROVE  adb' \in [Group -> InfoType] /\ \A h \in Group : adb'[h].f <= up[h].f
<1>1. PICK S \in SUBSET Group :
        adb' = [g \in Group |-> IF g \in S THEN [f |-> up[g].f, l |-> up[g].l] ELSE adb[g]]
  BY DEF Active
<1>2. \A g \in Group : [f |-> up[g].f, l |-> up[g].l] \in InfoType /\ up[g].f \in Nat
  BY DEF DataOK, UpType, InfoType
<1> QED BY <1>1, <1>2 DEF DataOK

(* A table is replaced by a sound one. *)
LEMMA ReplaceOK ==
  ASSUME DataOK, NEW g \in Cached, NEW t, TableOK(t), db' = [db EXCEPT ![g] = t], up' = up,
         adb' \in [Group -> InfoType] /\ \A h \in Group : adb'[h].f <= up[h].f
  PROVE  DataOK'
<1>1. t \in TableType
  BY DEF TableOK
<1>2. db' \in [Cached -> TableType] /\ \A h \in Cached : db'[h] = IF h = g THEN t ELSE db[h]
  BY <1>1 DEF DataOK
<1> QED BY <1>2 DEF DataOK

LEMMA UpdateOK ==
  ASSUME DataOK, NEW g \in Cached, UpdateOverview(g), up' = up
  PROVE  DataOK'
<1>0. g \in Group
  BY UpstreamAssumption
<1>1. CASE UNCHANGED <<db, adb>>
  BY <1>1 DEF DataOK
<1>2. ASSUME NEW r \in Infos(g), NEW k \in (r.f - 1)..r.l, Groupinfo(g, r),
             db' = [db EXCEPT ![g] = Synced(Setsize(db[g], r), up[g].arts, k)]
      PROVE  DataOK'
  <2>1. r.f \in Nat /\ r.l \in Nat /\ k \in Int /\ k <= r.l
    BY <1>0, <1>2, InfosOK DEF InfoType
  <2>2. db[g] \in TableType /\ up[g].arts \in SUBSET Nat
    BY <1>0 DEF DataOK, UpType
  <2>3. TableOK(Synced(Setsize(db[g], r), up[g].arts, k))
    BY <2>1, <2>2, SetsizeOK, SyncedOK
  <2> QED BY <1>0, <1>2, <2>3, GroupinfoOK, ReplaceOK
<1> QED BY <1>1, <1>2 DEF UpdateOverview

(* A line: the command begins with the session as the last one left it. *)
LEMMA ReceivingOK ==
  ASSUME WalkInv, NEW c \in Client, Receiving(c), NEW k
  PROVE  DataOK' /\ up' = up /\ SessionOK(ses'[c], k, up)
<1>0. /\ DataOK /\ DOMAIN ses = Client /\ SessionOK(ses[c], kept[c], up) /\ SessionBase(ses[c])
      /\ up \in [Group -> UpType] /\ \A g \in Group : up[g].f \in Nat
  BY DEF WalkInv, SessionOK, DataOK, UpType
<1>1. ses[c].pc = "read" /\ up' = up
  BY DEF Receiving, Help, Date, Mode, Xdebug, Misc, Answered, Quit, List, Newgroups, Select, Begin, Line, At
<1>2. SessionOK(ses[c], k, up)
  BY <1>0, <1>1, LeftAloneOK
<1>3. SessionOK(Ended, k, up)
  BY BlankOK DEF Ended
<1>4. \A s : Put(c, s) => ses'[c] = s
  BY <1>0 DEF Put
<1>5. CASE \E op \in Ops : Answered(c, op)
  BY <1>0, <1>1, <1>2, <1>5 DEF Answered, DataOK
<1>6. CASE Quit(c)
  BY <1>0, <1>1, <1>3, <1>4, <1>6 DEF Quit, DataOK
<1>7. ASSUME PrintLines(c) PROVE SessionOK(ses'[c], k, up)
  BY <1>0, <1>3, <1>4, <1>7, BackOK DEF PrintLines
<1>8. CASE List(c)
  <2>1. Active /\ PrintLines(c) /\ db' = db
    BY <1>8 DEF List
  <2>2. DataOK'
    BY <1>0, <1>1, <2>1, ActiveOK DEF DataOK
  <2> QED BY <1>1, <1>7, <2>1, <2>2
<1>9. CASE Newgroups(c)
  <2>1. CASE ses' = ses /\ adb' = adb
    BY <1>0, <1>1, <1>2, <1>9, <2>1 DEF Newgroups, DataOK
  <2>2. CASE Active /\ PrintLines(c)
    <3>1. DataOK'
      BY <1>0, <1>1, <1>9, <2>2, ActiveOK DEF Newgroups, DataOK
    <3> QED BY <1>1, <1>7, <2>2, <3>1
  <2> QED BY <1>9, <2>1, <2>2 DEF Newgroups
<1>10. CASE Select(c)
  <2>1. db' = db
    BY <1>10 DEF Select
  <2>2. PICK m \in Commands[c] :
          /\ m.g # None
          /\ \/ GroupinfoFails(m.g) /\ UNCHANGED <<ses, adb>>
             \/ \E r \in Infos(m.g) :
                  Groupinfo(m.g, r) /\ Put(c, Selectgroup([ses[c] EXCEPT !.cmd = m], m.g, r))
    BY <1>10 DEF Select
  <2>3. m \in CommandType /\ m.g \in Group
    BY <2>2, CommandsAssumption, UpstreamAssumption DEF CommandType
  <2>4. CASE UNCHANGED <<ses, adb>>
    BY <1>0, <1>1, <1>2, <2>1, <2>4 DEF DataOK
  <2>5. ASSUME NEW r \in Infos(m.g), Groupinfo(m.g, r),
               Put(c, Selectgroup([ses[c] EXCEPT !.cmd = m], m.g, r))
        PROVE  DataOK' /\ SessionOK(ses'[c], k, up)
    <3> DEFINE s == [ses[c] EXCEPT !.cmd = m]
    <3>1. s \in SessionType /\ s.own = ses[c].own /\ s.grp = ses[c].grp /\ s.name = ses[c].name
      BY <1>0, <2>3 DEF SessionBase, SessionType
    <3> HIDE DEF s
    <3>2. SessionBase(s)
      BY <1>0, <3>1 DEF SessionBase
    <3>3. SessionOK(Selectgroup(s, m.g, r), k, up)
      BY <1>0, <2>3, <2>5, <3>2, InfosOK, SelectgroupOK
    <3>4. ses'[c] = Selectgroup(s, m.g, r)
      BY <1>4, <2>5 DEF s
    <3>5. DataOK'
      BY <1>0, <1>1, <2>1, <2>3, <2>5, GroupinfoOK DEF DataOK
    <3> QED BY <3>3, <3>4, <3>5
  <2> QED BY <1>1, <2>2, <2>4, <2>5
<1>11. CASE Begin(c)
  <2>1. db' = db /\ adb' = adb
    BY <1>11 DEF Begin
  <2>2. DataOK'
    BY <1>0, <1>1, <2>1 DEF DataOK
  <2>3. PICK m \in Commands[c] :
          IF ses[c].name = None \/ (m.op \in {"next", "last"} /\ ses[c].nbr < 0)
          THEN UNCHANGED ses ELSE Put(c, Opening([ses[c] EXCEPT !.cmd = m]))
    BY <1>11 DEF Begin
  <2>4. CASE UNCHANGED ses
    BY <1>1, <1>2, <2>2, <2>4
  <2>5. CASE ses[c].name # None /\ Put(c, Opening([ses[c] EXCEPT !.cmd = m]))
    <3> DEFINE s == [ses[c] EXCEPT !.cmd = m]
    <3>0. m \in CommandType
      BY <2>3, CommandsAssumption, UpstreamAssumption DEF CommandType
    <3>1. /\ s \in SessionType /\ s.own = ses[c].own /\ s.grp = ses[c].grp
          /\ s.name = ses[c].name /\ s.name \in Group
      BY <1>0, <2>5, <3>0 DEF SessionBase, SessionType
    <3>2. ses'[c] = Opening(s)
      BY <1>4, <2>5
    <3> HIDE DEF s
    <3>3. SessionBase(s)
      BY <1>0, <3>1 DEF SessionBase
    <3> QED BY <1>1, <2>2, <3>1, <3>2, <3>3, OpeningOK
  <2> QED BY <2>3, <2>4, <2>5
<1> QED
  BY <1>5, <1>6, <1>8, <1>9, <1>10, <1>11 DEF Receiving, Help, Date, Mode, Xdebug, Misc, Ops

(* The steps that select and open a group. *)
LEMMA OpenStepsOK ==
  ASSUME WalkInv, NEW c \in Client, Resize(c) \/ Getgroup(c) \/ OpenGroup(c) \/ OpenFails(c), NEW k
  PROVE  DataOK' /\ up' = up /\ SessionOK(ses'[c], k, up)
<1> DEFINE s == ses[c]
<1>0. /\ DataOK /\ DOMAIN ses = Client /\ SessionOK(s, kept[c], up) /\ SessionBase(s)
      /\ s \in SessionType /\ TableOK(s.own) /\ s.f \in Nat /\ s.l \in Nat
      /\ up \in [Group -> UpType]
  BY DEF WalkInv, SessionOK, SessionBase, SessionType, DataOK
<1>1. up' = up
  BY DEF Resize, Getgroup, OpenGroup, OpenFails, env
<1>2. \A t : Put(c, t) => ses'[c] = t
  BY <1>0 DEF Put
<1>3. adb \in [Group -> InfoType] /\ \A h \in Group : adb[h].f <= up[h].f
  BY <1>0 DEF DataOK
<1>4. SessionOK(Ended, k, up)
  BY BlankOK DEF Ended
<1>5. ASSUME NEW g \in Group, NotAhead(s, up), s.name = g
      PROVE  up[g].arts \in SUBSET Nat /\ \A a \in up[g].arts : s.f <= a
  BY <1>0, <1>5 DEF DataOK, UpType, NotAhead
<1>6. CASE Resize(c)
  <2>1. /\ s.pc = "resize" /\ NotAhead(s, up) /\ s.grp \in Group /\ s.grp = s.name /\ adb' = adb
    BY <1>0, <1>6, UpstreamAssumption DEF Resize, At, SessionOK, SessionBase
  <2>2. CASE s.grp \in Cached
    <3>1. db' = [db EXCEPT ![s.grp] = Setsize(db[s.grp], s)] /\ Put(c, Selected(s))
      BY <1>0, <1>6, <2>2 DEF Resize, DataOK
    <3>2. TableOK(Setsize(db[s.grp], s))
      BY <1>0, <2>2, SetsizeOK DEF DataOK
    <3>3. DataOK'
      BY <1>0, <1>1, <1>3, <2>1, <2>2, <3>1, <3>2, ReplaceOK
    <3>4. SessionOK(Selected(s), k, up)
      BY <1>0, <2>1, SelectedOK
    <3> QED BY <1>1, <1>2, <3>1, <3>3, <3>4
  <2>3. CASE s.grp \notin Cached
    <3>1. db' = db
      BY <1>6, <2>3 DEF Resize
    <3>2. DataOK'
      BY <1>0, <1>1, <2>1, <3>1 DEF DataOK
    <3>3. ASSUME NEW n \in (s.f - 1)..s.l,
                 Put(c, Selected([s EXCEPT !.own = RSetsize(s.own, s, up[s.grp].arts, n)]))
          PROVE  SessionOK(ses'[c], k, up)
      <4> DEFINE t == RSetsize(s.own, s, up[s.grp].arts, n)
                 v == [s EXCEPT !.own = t]
      <4>1. TableOK(t)
        BY <1>0, <1>5, <2>1, <3>3, RSetsizeOK
      <4>2. ses'[c] = Selected(v)
        BY <1>2, <3>3
      <4> HIDE DEF t
      <4>3. t \in TableType
        BY <4>1 DEF TableOK
      <4>4. v \in SessionType /\ v.own = t /\ v.grp = s.grp /\ v.name = s.name
        BY <1>0, <4>3 DEF SessionType
      <4> HIDE DEF v
      <4>5. SessionBase(v) /\ v.name \in Group
        BY <1>0, <2>1, <4>1, <4>4 DEF SessionBase
      <4> QED BY <4>2, <4>5, SelectedOK
    <3>4. CASE Put(c, Ended)
      BY <1>1, <1>2, <1>4, <3>2, <3>4
    <3>5. \/ \E n \in (s.f - 1)..s.l :
               Put(c, Selected([s EXCEPT !.own = RSetsize(s.own, s, up[s.grp].arts, n)]))
          \/ Put(c, Ended)
      BY <1>0, <1>6, <2>3 DEF Resize, SessionType
    <3> QED BY <1>1, <3>2, <3>3, <3>4, <3>5
  <2> QED BY <2>2, <2>3
<1>7. CASE Getgroup(c)
  <2>1. s.name \in Group /\ db' = db
    BY <1>0, <1>7 DEF Getgroup, At, SessionOK
  <2>2. CASE Put(c, Back(s)) /\ adb' = adb
    BY <1>0, <1>1, <1>2, <2>1, <2>2, BackOK DEF DataOK
  <2>3. ASSUME NEW r \in Infos(s.name), Groupinfo(s.name, r),
               Put(c, [s EXCEPT !.pc = "open", !.f = r.f, !.l = r.l])
        PROVE  DataOK' /\ SessionOK(ses'[c], k, up)
    <3>1. r \in InfoType /\ r.f <= up[s.name].f
      BY <1>0, <2>1, <2>3, InfosOK
    <3> DEFINE v == [s EXCEPT !.pc = "open", !.f = r.f, !.l = r.l]
    <3>2. /\ v \in SessionType /\ v.own = s.own /\ v.grp = s.grp /\ v.name = s.name
          /\ v.pc = "open" /\ v.f = r.f
      BY <1>0, <3>1 DEF SessionType, InfoType, Control
    <3>3. ses'[c] = v
      BY <1>2, <2>3
    <3> HIDE DEF v
    <3>4. SessionOK(v, k, up)
      BY <1>0, <2>1, <3>1, <3>2 DEF SessionOK, SessionBase, NotAhead
    <3>5. DataOK'
      BY <1>0, <1>1, <2>1, <2>3, GroupinfoOK DEF DataOK
    <3> QED BY <3>3, <3>4, <3>5
  <2> QED BY <1>1, <1>7, <2>2, <2>3 DEF Getgroup
<1>8. CASE OpenGroup(c)
  <2>1. s.pc = "open" /\ NotAhead(s, up) /\ s.name \in Group /\ adb' = adb
    BY <1>0, <1>8 DEF OpenGroup, At, SessionOK, NotAhead
  <2> DEFINE o == [s EXCEPT !.pc = "do", !.grp = s.name]
  <2>2. /\ o \in SessionType /\ o.own = s.own /\ o.grp = s.name /\ o.name = s.name /\ o.pc = "do"
    BY <1>0, <2>1 DEF SessionType, Control
  <2>3. CASE s.name \in Cached
    <3>1. db' = [db EXCEPT ![s.name] = Setsize(db[s.name], s)] /\ Put(c, o)
      BY <1>0, <1>8, <2>3 DEF OpenGroup, DataOK
    <3> HIDE DEF o
    <3>2. TableOK(Setsize(db[s.name], s))
      BY <1>0, <2>3, SetsizeOK DEF DataOK
    <3>3. DataOK'
      BY <1>0, <1>1, <1>3, <2>1, <2>3, <3>1, <3>2, ReplaceOK
    <3>4. SessionOK(o, k, up)
      BY <1>0, <2>1, <2>2 DEF SessionOK, SessionBase
    <3> QED BY <1>1, <1>2, <3>1, <3>3, <3>4
  <2>4. CASE s.name \notin Cached
    <3>1. PICK n \in (s.f - 1)..s.l : Put(c, [o EXCEPT !.own = RSetsize(Empty, s, up[s.name].arts, n)])
      BY <1>8, <2>4 DEF OpenGroup
    <3> DEFINE t == RSetsize(Empty, s, up[s.name].arts, n)
               v == [o EXCEPT !.own = t]
    <3>2. TableOK(Empty)
      BY DEF Empty, TableType, TableOK
    <3>3. TableOK(t)
      BY <1>0, <1>5, <2>1, <3>2, RSetsizeOK
    <3>4. ses'[c] = v
      BY <1>2, <3>1
    <3> HIDE DEF t, o
    <3>5. t \in TableType
      BY <3>3 DEF TableOK
    <3>6. v \in SessionType /\ v.own = t /\ v.grp = s.name /\ v.name = s.name /\ v.pc = "do"
      BY <2>2, <3>5 DEF SessionType
    <3> HIDE DEF v
    <3>7. SessionOK(v, k, up)
      BY <2>1, <3>3, <3>6 DEF SessionOK, SessionBase
    <3>8. DataOK'
      BY <1>0, <1>1, <1>8, <2>1, <2>4 DEF OpenGroup, DataOK
    <3> QED BY <1>1, <3>4, <3>7, <3>8
  <2> QED BY <2>3, <2>4
<1>9. CASE OpenFails(c)
  <2>1. Put(c, Back(s)) /\ db' = db /\ adb' = adb
    BY <1>9 DEF OpenFails
  <2> QED BY <1>0, <1>1, <1>2, <2>1, BackOK DEF DataOK
<1> QED BY <1>6, <1>7, <1>8, <1>9

(* The commands on the open group. *)
LEMMA GroupStepsOK ==
  ASSUME WalkInv, NEW c \in Client,
         Article(c) \/ Stat(c) \/ Xover(c) \/ Xhdr(c) \/ Listgroup(c), NEW k
  PROVE  DataOK' /\ up' = up /\ SessionOK(ses'[c], k, up)
<1> DEFINE s == ses[c]
<1>0. /\ DataOK /\ DOMAIN ses = Client /\ SessionOK(s, kept[c], up) /\ SessionBase(s)
      /\ s \in SessionType /\ TableOK(s.own)
  BY DEF WalkInv, SessionOK, SessionBase
<1>1. up' = up /\ s.pc = "do" /\ s.grp \in Group
  BY <1>0 DEF Article, Stat, Xover, Xhdr, Listgroup, Printdb, env, At, SessionOK
<1>2. \A t : Put(c, t) => ses'[c] = t
  BY <1>0 DEF Put
<1>3. adb \in [Group -> InfoType] /\ \A h \in Group : adb[h].f <= up[h].f
  BY <1>0 DEF DataOK
<1>4. SessionOK(Ended, k, up) /\ SessionOK(Back(s), k, up)
  BY <1>0, BlankOK, BackOK DEF Ended
<1>5. CASE Article(c)
  <2> DEFINE n == Number(s)
             t == Table(c)
             v == [s EXCEPT !.nbr = n]
  <2>1. n \in Int
    BY <1>0 DEF Number, SessionType, CommandType
  <2>2. adb' = adb
    BY <1>5 DEF Article
  <2>3. CASE Put(c, Back(s)) /\ db' = db
    BY <1>0, <1>1, <1>2, <1>4, <2>2, <2>3 DEF DataOK
  <2>4. CASE /\ Put(c, Back(v))
             /\ IF s.grp \in Cached
                THEN /\ n \in t.f..t.l /\ n \in t.over \cup up[s.grp].arts
                     /\ db' = [db EXCEPT ![s.grp].over = @ \cup {n}]
                ELSE n \in up[s.grp].arts /\ UNCHANGED db
    <3>1. SessionOK(ses'[c], k, up)
      <4>1. ses'[c] = Back(v)
        BY <1>2, <2>4
      <4> HIDE DEF n
      <4>2. v \in SessionType /\ v.own = s.own /\ v.grp = s.grp /\ v.name = s.name
        BY <1>0, <2>1 DEF SessionType
      <4> HIDE DEF v
      <4>3. SessionBase(v)
        BY <1>0, <4>2 DEF SessionBase
      <4> QED BY <4>1, <4>3, BackOK
    <3>2. CASE s.grp \in Cached
      <4> DEFINE w == [db[s.grp] EXCEPT !.over = @ \cup {n}]
      <4>1. n \in t.f..t.l /\ db' = [db EXCEPT ![s.grp] = w]
        BY <2>4, <3>2
      <4>2. t = db[s.grp] /\ TableOK(t)
        BY <1>0, <3>2 DEF Table, DataOK
      <4>3. t \in TableType /\ t.f \in Nat /\ t.l \in Nat /\ t.over \subseteq t.f..t.l /\ t.over \subseteq Nat
        BY <4>2 DEF TableOK, TableType
      <4> HIDE DEF n, t
      <4>4. t.over \cup {n} \in SUBSET Nat /\ t.over \cup {n} \subseteq t.f..t.l
        BY <2>1, <4>1, <4>3
      <4>5. TableOK(w)
        BY <4>2, <4>3, <4>4 DEF TableOK, TableType
      <4> HIDE DEF w
      <4>6. DataOK'
        BY <1>0, <1>1, <1>3, <2>2, <3>2, <4>1, <4>5, ReplaceOK
      <4> QED BY <1>1, <3>1, <4>6
    <3>3. CASE s.grp \notin Cached
      BY <1>0, <1>1, <2>2, <2>4, <3>1, <3>3 DEF DataOK
    <3> QED BY <3>2, <3>3
  <2> QED BY <1>5, <2>3, <2>4 DEF Article
<1>6. CASE Stat(c)
  <2>1. ses'[c] \in {Back(s), Ended}
    BY <1>2, <1>6 DEF Stat
  <2>2. UNCHANGED <<db, adb>> \/ (s.grp \in Cached /\ UpdateOverview(s.grp))
    BY <1>6 DEF Stat
  <2>3. DataOK'
    <3>1. CASE UNCHANGED <<db, adb>>
      BY <1>0, <1>1, <3>1 DEF DataOK
    <3>2. CASE s.grp \in Cached /\ UpdateOverview(s.grp)
      BY <1>0, <1>1, <3>2, UpdateOK
    <3> QED BY <2>2, <3>1, <3>2
  <2> QED BY <1>1, <1>4, <2>1, <2>3
<1>7. CASE \E op \in Ops : Printdb(c, op)
  <2>1. ses'[c] = Back(s)
    BY <1>2, <1>7 DEF Printdb
  <2>2. UNCHANGED <<db, adb>> \/ (s.grp \in Cached /\ UpdateOverview(s.grp))
    BY <1>7 DEF Printdb
  <2>3. DataOK'
    <3>1. CASE UNCHANGED <<db, adb>>
      BY <1>0, <1>1, <3>1 DEF DataOK
    <3>2. CASE s.grp \in Cached /\ UpdateOverview(s.grp)
      BY <1>0, <1>1, <3>2, UpdateOK
    <3> QED BY <2>2, <3>1, <3>2
  <2> QED BY <1>1, <1>4, <2>1, <2>3
<1> QED BY <1>5, <1>6, <1>7 DEF Xover, Xhdr, Listgroup, Ops

(* getsize, without a lock: the numbers cover every record that is kept. *)
LEMMA GetsizeOK ==
  ASSUME WalkInv, NEW c \in Client, GetFirst(c) \/ GetLast(c), Keep
  PROVE  DataOK' /\ up' = up /\ SessionOK(ses'[c], kept'[c], up)
<1> DEFINE s == ses[c]
           t == Table(c)
<1>0. /\ DataOK /\ DOMAIN ses = Client /\ SessionOK(s, kept[c], up) /\ SessionBase(s)
      /\ s \in SessionType /\ TableOK(s.own) /\ kept[c] \subseteq Records(c)
  BY DEF WalkInv, SessionOK, SessionBase
<1>1. /\ up' = up /\ db' = db /\ adb' = adb /\ s.pc \in {"do", "size"} /\ s.grp \in Group /\ s.grp = s.name
  BY <1>0, UpstreamAssumption DEF GetFirst, GetLast, env, At, SessionOK, SessionBase
<1>2. DataOK'
  BY <1>0, <1>1 DEF DataOK
<1>3. TableOK(t) /\ kept[c] \subseteq t.over
  BY <1>0, <1>1 DEF DataOK, Table, Records
<1>4. /\ t.f \in Nat /\ t.l \in Nat /\ \A n \in kept[c] : n \in Nat /\ t.f <= n /\ n <= t.l
  BY <1>3 DEF TableOK, TableType
<1>5. kept'[c] \subseteq kept[c]
  BY <1>1 DEF Keep, At
<1>6. \A v : Put(c, v) => ses'[c] = v
  BY <1>0 DEF Put
<1> HIDE DEF t
<1>7. CASE GetFirst(c)
  <2> DEFINE v == [s EXCEPT !.pc = "size", !.i = s.nbr, !.f = t.f]
  <2>1. ses'[c] = v /\ s.cmd.op \in {"next", "last"}
    BY <1>6, <1>7 DEF GetFirst, Doing, t
  <2>2. /\ v \in SessionType /\ v.own = s.own /\ v.grp = s.grp /\ v.name = s.name
        /\ v.pc = "size" /\ v.f = t.f /\ v.i = v.nbr /\ v.cmd = s.cmd
    BY <1>0, <1>4 DEF SessionType, Control
  <2> HIDE DEF v
  <2>3. SessionOK(v, kept'[c], up)
    BY <1>0, <1>1, <1>4, <1>5, <2>1, <2>2 DEF SessionOK, SessionBase
  <2> QED BY <1>1, <1>2, <2>1, <2>3
<1>8. CASE GetLast(c)
  <2> DEFINE v == [s EXCEPT !.pc = "walk", !.l = t.l]
  <2>1. ses'[c] = v
    BY <1>6, <1>8 DEF GetLast, t
  <2>2. /\ s.i = s.nbr /\ s.cmd.op \in {"next", "last"} /\ \A n \in kept[c] : s.f <= n
    BY <1>0, <1>8 DEF GetLast, At, SessionOK
  <2>3. /\ v \in SessionType /\ v.own = s.own /\ v.grp = s.grp /\ v.name = s.name
        /\ v.pc = "walk" /\ v.f = s.f /\ v.l = t.l /\ v.i = s.i /\ v.nbr = s.nbr /\ v.cmd = s.cmd
    BY <1>0, <1>4 DEF SessionType, Control
  <2>4. v.nbr \in Int
    BY <2>3 DEF SessionType
  <2> HIDE DEF v
  <2>5. Passed(v, kept'[c])
    BY <2>2, <2>3, <2>4 DEF Passed
  <2>6. SessionOK(v, kept'[c], up)
    BY <1>0, <1>1, <1>4, <1>5, <2>2, <2>3, <2>5 DEF SessionOK, SessionBase
  <2> QED BY <1>1, <1>2, <2>1, <2>6
<1> QED BY <1>7, <1>8

LEMMA BackFields ==
  ASSUME NEW s \in SessionType
  PROVE  /\ Back(s).own = s.own /\ Back(s).grp = s.grp /\ Back(s).name = s.name
         /\ Back(s).nbr = s.nbr /\ Back(s).pc = "read"
BY DEF Back, SessionType

(* One turn of the loop: the number at hand has a record, or it is passed
   because it has none at this moment, and so is not kept. *)
LEMMA WalkOK ==
  ASSUME WalkInv, NEW c \in Client, Walk(c), Keep
  PROVE  DataOK' /\ up' = up /\ SessionOK(ses'[c], kept'[c], up) /\ SkipsNone(c)
<1> DEFINE s == ses[c]
           i == IF s.cmd.op = "next" THEN s.i + 1 ELSE s.i - 1
<1>0. /\ DataOK /\ DOMAIN ses = Client /\ SessionOK(s, kept[c], up) /\ SessionBase(s)
      /\ s \in SessionType /\ TableOK(s.own) /\ kept[c] \subseteq Records(c)
  BY DEF WalkInv, SessionOK, SessionBase
<1>1. /\ up' = up /\ s.pc = "walk" /\ s.grp \in Group /\ s.grp = s.name
      /\ s.cmd.op \in {"next", "last"} /\ Passed(s, kept[c])
      /\ \A n \in kept[c] : s.f <= n /\ n <= s.l
  BY <1>0, UpstreamAssumption DEF Walk, env, At, SessionOK, SessionBase
<1>2. s.i \in Int /\ i \in Int /\ s.nbr \in Int /\ s.f \in Nat /\ s.l \in Nat
  BY <1>0 DEF SessionType
<1>3. kept'[c] = kept[c] \cap Records(c)'
  BY <1>1 DEF Keep, At
<1>4. \A v : Put(c, v) => ses'[c] = v
  BY <1>0 DEF Put
<1>5. \A n \in kept[c] : n \in Nat
  BY <1>0, <1>1 DEF Records, DataOK, TableType, TableOK
<1>6. ASSUME ses'[c].name = s.name, ses'[c].grp = s.grp, ses'[c].own = s.own
      PROVE  Records(c)' = IF s.grp \in Cached THEN db'[s.grp].over ELSE s.own.over
  BY <1>1, <1>6 DEF Records
<1>7. ASSUME UNCHANGED <<db, adb>> PROVE DataOK'
  BY <1>0, <1>1, <1>7 DEF DataOK
<1>8. CASE Outside(s, i)
  <2>1. Put(c, Back(s)) /\ UNCHANGED <<db, adb>>
    BY <1>8 DEF Walk
  <2>2. ses'[c] = Back(s) /\ ses'[c].nbr = s.nbr
    BY <1>0, <1>4, <2>1, BackFields
  <2>3. \A n \in kept[c] : ~Beyond(c, n)
    BY <1>1, <1>2, <1>5, <1>8 DEF Outside, Beyond, Doing, Passed
  <2>4. SkipsNone(c)
    BY <1>3, <2>2, <2>3 DEF SkipsNone
  <2> QED BY <1>0, <1>1, <1>7, <2>1, <2>2, <2>4, BackOK
<1>9. ASSUME ses'[c] = Back([s EXCEPT !.nbr = i]),
             i \in IF s.grp \in Cached THEN db'[s.grp].over ELSE s.own.over
      PROVE  SessionOK(ses'[c], kept'[c], up) /\ SkipsNone(c)
  <2> DEFINE v == [s EXCEPT !.nbr = i]
  <2> HIDE DEF i
  <2>1. v \in SessionType /\ v.own = s.own /\ v.grp = s.grp /\ v.name = s.name /\ v.nbr = i
    BY <1>0, <1>2 DEF SessionType
  <2>2. ses'[c] = Back(v)
    BY <1>9
  <2> HIDE DEF v
  <2>3. SessionBase(v)
    BY <1>0, <2>1 DEF SessionBase
  <2>4. SessionOK(ses'[c], kept'[c], up)
    BY <2>2, <2>3, BackOK
  <2>5. /\ ses'[c].nbr = i /\ ses'[c].name = s.name /\ ses'[c].grp = s.grp /\ ses'[c].own = s.own
    BY <2>1, <2>2, BackFields
  <2>6. i \in Records(c)'
    BY <1>6, <1>9, <2>5
  <2>7. i # s.nbr /\ Beyond(c, i)
    BY <1>1, <1>2 DEF Beyond, Doing, Passed, i
  <2>8. \A n \in kept'[c] : Beyond(c, n) => ~Nearer(c, n)
    BY <1>1, <1>2, <1>3, <1>5, <2>5 DEF Beyond, Nearer, Doing, Passed, i
  <2> QED BY <2>4, <2>5, <2>6, <2>7, <2>8 DEF SkipsNone
<1>10. ASSUME ses'[c] = [s EXCEPT !.i = i],
              i \notin IF s.grp \in Cached THEN db'[s.grp].over ELSE s.own.over
       PROVE  SessionOK(ses'[c], kept'[c], up) /\ SkipsNone(c)
  <2> DEFINE v == [s EXCEPT !.i = i]
  <2> HIDE DEF i
  <2>1. /\ v \in SessionType /\ v.own = s.own /\ v.grp = s.grp /\ v.name = s.name /\ v.nbr = s.nbr
        /\ v.i = i /\ v.pc = "walk" /\ v.cmd = s.cmd /\ v.f = s.f /\ v.l = s.l
    BY <1>0, <1>1, <1>2 DEF SessionType
  <2>2. ses'[c] = v
    BY <1>10
  <2> HIDE DEF v
  <2>3. i \notin kept'[c] /\ kept'[c] \subseteq kept[c]
    BY <1>3, <1>6, <1>10, <2>1, <2>2
  <2>4. Passed(v, kept'[c])
    BY <1>1, <1>2, <1>5, <2>1, <2>3 DEF Passed, i
  <2>5. SessionOK(v, kept'[c], up)
    BY <1>0, <1>1, <2>1, <2>3, <2>4 DEF SessionOK, SessionBase
  <2> QED BY <2>1, <2>2, <2>5 DEF SkipsNone
<1>11. CASE ~Outside(s, i) /\ s.grp \in Cached
  <2>1. /\ UpdateOverview(s.grp)
        /\ Put(c, IF i \in db'[s.grp].over THEN Back([s EXCEPT !.nbr = i]) ELSE [s EXCEPT !.i = i])
    BY <1>11 DEF Walk
  <2>2. DataOK'
    BY <1>0, <1>1, <1>11, <2>1, UpdateOK
  <2>3. ses'[c] = IF i \in db'[s.grp].over THEN Back([s EXCEPT !.nbr = i]) ELSE [s EXCEPT !.i = i]
    BY <1>4, <2>1
  <2> HIDE DEF i
  <2> QED BY <1>1, <1>9, <1>10, <1>11, <2>2, <2>3
<1>12. CASE ~Outside(s, i) /\ s.grp \notin Cached
  <2>1. /\ Put(c, IF i \in s.own.over THEN Back([s EXCEPT !.nbr = i]) ELSE Ended)
        /\ UNCHANGED <<db, adb>>
    BY <1>12 DEF Walk
  <2>2. DataOK'
    BY <1>7, <2>1
  <2>3. ses'[c] = IF i \in s.own.over THEN Back([s EXCEPT !.nbr = i]) ELSE Ended
    BY <1>4, <2>1
  <2>4. SessionOK(Ended, kept'[c], up) /\ Ended.pc = "gone"
    BY BlankOK DEF Ended, Blank
  <2> HIDE DEF i
  <2> QED BY <1>1, <1>9, <1>12, <2>2, <2>3, <2>4 DEF SkipsNone
<1> QED BY <1>8, <1>11, <1>12

(* A step that leaves a session alone, or sound and with nothing skipped. *)
LEMMA StepWalk ==
  ASSUME WalkInv, Keep, DataOK', \A g \in Group : up[g].f <= up'[g].f, DOMAIN ses' = Client,
         \A d \in Client : \/ ses'[d] = ses[d]
                           \/ SessionOK(ses'[d], kept'[d], up') /\ SkipsNone(d)
  PROVE  WalkInv' /\ \A d \in Client : SkipsNone(d)
<1>1. up \in [Group -> UpType] /\ up' \in [Group -> UpType]
  BY DEF WalkInv, DataOK
<1>2. DOMAIN kept' = Client /\ \A d \in Client : kept'[d] \subseteq Records(d)'
  BY DEF Keep
<1>3. \A d \in Client : kept'[d] \subseteq kept[d] \/ ses[d].pc = "read"
  BY DEF Keep, At
<1>4. ASSUME NEW d \in Client PROVE SessionOK(ses'[d], kept'[d], up') /\ SkipsNone(d)
  <2>1. CASE ses'[d] = ses[d]
    <3>1. SessionOK(ses[d], kept[d], up)
      BY DEF WalkInv
    <3>2. SessionOK(ses[d], kept'[d], up')
      BY <1>1, <1>3, <3>1, LeftAloneOK
    <3> QED BY <2>1, <3>2 DEF SkipsNone, At
  <2> QED BY <2>1
<1> QED BY <1>2, <1>4 DEF WalkInv

(* Sessions begin and end; the data are left alone. *)
LEMMA BeginEndWalk ==
  ASSUME WalkInv, Keep, db' = db, adb' = adb, up' = up, DOMAIN ses' = Client,
         \A d \in Client : ses'[d] = ses[d] \/ ses'[d] \in {Blank("queue"), Blank("start"), Ended}
  PROVE  WalkInv' /\ \A d \in Client : SkipsNone(d)
<1>1. DataOK' /\ \A g \in Group : up[g].f <= up'[g].f
  BY DEF WalkInv, DataOK, UpType
<1>2. ASSUME NEW d \in Client, ses'[d] # ses[d]
      PROVE  SessionOK(ses'[d], kept'[d], up') /\ SkipsNone(d)
  <2>1. PICK p \in {"queue", "start", "gone"} : ses'[d] = Blank(p)
    BY <1>2 DEF Ended
  <2>2. ses'[d].pc # "read"
    BY <2>1 DEF Blank
  <2> QED BY <2>1, <2>2, BlankOK DEF SkipsNone
<1> QED BY <1>1, <1>2, StepWalk

LEMMA UpstreamWalk ==
  ASSUME WalkInv, Keep, Changing
  PROVE  WalkInv' /\ \A d \in Client : SkipsNone(d)
<1>0. DataOK /\ DOMAIN ses = Client /\ up \in [Group -> UpType] /\ MaxNumber \in Nat
  BY UpstreamAssumption DEF WalkInv, DataOK
<1>1. PICK g \in Group : Arrive(g) \/ Expire(g) \/ Cancel(g)
  BY DEF Changing
<1>2. /\ up[g].f \in Nat /\ up[g].l \in Nat /\ up[g].arts \in SUBSET Nat
      /\ up[g].arts \subseteq up[g].f..up[g].l /\ up[g] \in UpType /\ up[g].f <= up[g].l + 1
  BY <1>0 DEF DataOK, UpType
<1>3. PICK u \in UpType : /\ up' = [up EXCEPT ![g] = u] /\ up[g].f <= u.f
                          /\ u.f <= u.l + 1 /\ u.arts \subseteq u.f..u.l
  <2>1. CASE Arrive(g)
    <3> DEFINE a == up[g].arts \cup {up[g].l + 1}
               u == [up[g] EXCEPT !.l = @ + 1, !.arts = a]
    <3>1. up' = [up EXCEPT ![g] = u]
      BY <2>1 DEF Arrive, Change
    <3>2. a \in SUBSET Nat
      BY <1>2
    <3>3. u \in UpType /\ u.f = up[g].f /\ u.l = up[g].l + 1 /\ u.arts = a
      BY <1>2, <3>2 DEF UpType
    <3>4. u.arts \subseteq u.f..u.l
      BY <1>2, <3>3
    <3>5. up[g].f <= u.f /\ u.f <= u.l + 1
      BY <1>2, <3>3
    <3> HIDE DEF u
    <3> QED BY <3>1, <3>3, <3>4, <3>5
  <2>2. CASE Expire(g)
    <3> DEFINE a == up[g].arts \ {up[g].f}
               v == [up[g] EXCEPT !.f = @ + 1]
               u == [v EXCEPT !.arts = a]
    <3>1. up' = [up EXCEPT ![g] = u]
      BY <2>2 DEF Expire, Change
    <3>0. up[g].f <= up[g].l
      BY <2>2 DEF Expire
    <3>2. a \in SUBSET Nat /\ a \subseteq (up[g].f + 1)..up[g].l
      BY <1>2
    <3>3. v \in UpType /\ v.f = up[g].f + 1 /\ v.l = up[g].l
      BY <1>2 DEF UpType
    <3> HIDE DEF v, a
    <3>4. u \in UpType /\ u.f = up[g].f + 1 /\ u.l = up[g].l /\ u.arts = a
      BY <3>2, <3>3 DEF UpType
    <3>5. up[g].f <= u.f /\ u.f <= u.l + 1 /\ u.arts \subseteq u.f..u.l
      BY <1>2, <3>0, <3>2, <3>4
    <3> HIDE DEF u
    <3> QED BY <3>1, <3>4, <3>5
  <2>3. CASE Cancel(g)
    <3>1. PICK n \in up[g].arts : up' = [up EXCEPT ![g] = [up[g] EXCEPT !.arts = @ \ {n}]]
      BY <2>3 DEF Cancel, Change
    <3> DEFINE u == [up[g] EXCEPT !.arts = @ \ {n}]
    <3>2. u \in UpType /\ u.f = up[g].f /\ u.l = up[g].l /\ u.arts = up[g].arts \ {n}
      BY <1>2 DEF UpType
    <3>3. up[g].f <= u.f /\ u.f <= u.l + 1 /\ u.arts \subseteq u.f..u.l
      BY <1>2, <3>2
    <3> HIDE DEF u
    <3> QED BY <3>1, <3>2, <3>3 DEF u
  <2> QED BY <1>1, <2>1, <2>2, <2>3
<1>4. /\ up' \in [Group -> UpType] /\ \A h \in Group : up'[h] = IF h = g THEN u ELSE up[h]
  BY <1>0, <1>3
<1>5. \A h \in Group : up[h].f \in Nat /\ up'[h].f \in Nat /\ up[h].f <= up'[h].f
  BY <1>0, <1>3, <1>4 DEF UpType
<1>6. ses' = ses /\ db' = db /\ adb' = adb
  BY <1>1 DEF Arrive, Expire, Cancel
<1>7. \A h \in Group : adb'[h].f <= up'[h].f
  BY <1>0, <1>5, <1>6 DEF DataOK, InfoType
<1>8. DataOK'
  BY <1>0, <1>3, <1>4, <1>6, <1>7 DEF DataOK
<1> QED BY <1>0, <1>5, <1>6, <1>8, StepWalk

LEMMA CommandWalk ==
  ASSUME WalkInv, Keep, NEW c \in Client, Receiving(c) \/ Running(c)
  PROVE  WalkInv' /\ \A d \in Client : SkipsNone(d)
<1>0. DataOK /\ DOMAIN ses = Client
  BY DEF WalkInv
<1>1. Touches(c)
  BY <1>0, ReceivingTouches, RunningTouches
<1>2. DataOK' /\ up' = up /\ SessionOK(ses'[c], kept'[c], up) /\ SkipsNone(c)
  <2>1. CASE Receiving(c)
    <3>1. At(c, "read")
      BY <2>1 DEF Receiving, Help, Date, Mode, Xdebug, Misc, Answered, Quit, List, Newgroups, Select, Begin, Line
    <3> QED BY <2>1, <3>1, ReceivingOK DEF SkipsNone, At
  <2>2. CASE Resize(c) \/ Getgroup(c) \/ OpenGroup(c) \/ OpenFails(c)
    <3>1. ~At(c, "walk")
      BY <2>2 DEF Resize, Getgroup, OpenGroup, OpenFails, At
    <3> QED BY <2>2, <3>1, OpenStepsOK DEF SkipsNone
  <2>3. CASE Article(c) \/ Stat(c) \/ Xover(c) \/ Xhdr(c) \/ Listgroup(c)
    <3>1. ~At(c, "walk")
      BY <2>3 DEF Article, Stat, Xover, Xhdr, Listgroup, Printdb, At
    <3> QED BY <2>3, <3>1, GroupStepsOK DEF SkipsNone
  <2>4. CASE GetFirst(c) \/ GetLast(c)
    <3>1. ~At(c, "walk")
      BY <2>4 DEF GetFirst, GetLast, At
    <3> QED BY <2>4, <3>1, GetsizeOK DEF SkipsNone
  <2>5. CASE Walk(c)
    BY <2>5, WalkOK
  <2> QED BY <2>1, <2>2, <2>3, <2>4, <2>5 DEF Running
<1>3. DOMAIN ses' = Client /\ \A d \in Client : d # c => ses'[d] = ses[d]
  BY <1>0, <1>1 DEF Touches
<1>4. \A g \in Group : up[g].f <= up'[g].f
  BY <1>0, <1>2 DEF DataOK, UpType
<1> QED BY <1>2, <1>3, <1>4, StepWalk

LEMMA NextWalk == WalkInv /\ Next => WalkInv' /\ \A d \in Client : SkipsNone(d)
<1> SUFFICES ASSUME WalkInv, Next PROVE WalkInv' /\ \A d \in Client : SkipsNone(d)
  OBVIOUS
<1>0. Keep /\ DataOK /\ DOMAIN ses = Client
  BY DEF Next, WalkInv
<1>1. \A c \in Client : \A s : Put(c, s) =>
        DOMAIN ses' = Client /\ \A d \in Client : ses'[d] = IF d = c THEN s ELSE ses[d]
  BY <1>0 DEF Put
<1>2. ASSUME Exit \/ UNCHANGED ses
      PROVE  DOMAIN ses' = Client /\ \A d \in Client : ses'[d] = ses[d] \/ ses'[d] = Ended
  BY <1>0, <1>2 DEF Exit
<1>3. CASE Daemon
  <2>1. UNCHANGED shared
    BY <1>3 DEF Daemon, AcceptStop, AcceptFails, Refuse, Fork, Increment
  <2>2. db' = db /\ adb' = adb /\ up' = up
    BY <2>1 DEF shared, env
  <2>3. \/ Exit \/ UNCHANGED ses
        \/ \E c \in Client : Put(c, Ended) \/ Put(c, Blank("start"))
    BY <1>3 DEF Daemon, AcceptStop, AcceptFails, Refuse, Fork, Increment
  <2>4. /\ DOMAIN ses' = Client
        /\ \A d \in Client : ses'[d] = ses[d] \/ ses'[d] \in {Blank("queue"), Blank("start"), Ended}
    BY <1>1, <1>2, <2>3
  <2> QED BY <1>0, <2>2, <2>4, BeginEndWalk
<1>4. CASE sigchld \/ catchsighup \/ catchsignal
  <2>1. db' = db /\ adb' = adb /\ up' = up
    BY <1>4 DEF sigchld, catchsighup, catchsignal, shared, env
  <2>2. Exit \/ UNCHANGED ses
    BY <1>4 DEF sigchld, catchsighup, catchsignal, Interrupted
  <2> QED BY <1>0, <1>2, <2>1, <2>2, BeginEndWalk
<1>5. CASE UpstreamChange
  BY <1>0, <1>5, UpstreamWalk DEF UpstreamChange
<1>6. ASSUME NEW c \in Client,
             ConnectTo(c) \/ TurnAway(c) \/ Timeout(c) \/ Eof(c) \/ ChildSignal(c) \/ Discontinue(c)
      PROVE  WalkInv' /\ \A d \in Client : SkipsNone(d)
  <2>1. db' = db /\ adb' = adb /\ up' = up
    BY <1>6 DEF ConnectTo, TurnAway, Timeout, Eof, ChildSignal, Discontinue, shared, env
  <2>2. UNCHANGED ses \/ Put(c, Ended) \/ Put(c, Blank("queue"))
    BY <1>6 DEF ConnectTo, TurnAway, Timeout, Eof, ChildSignal, Discontinue
  <2>3. /\ DOMAIN ses' = Client
        /\ \A d \in Client : ses'[d] = ses[d] \/ ses'[d] \in {Blank("queue"), Blank("start"), Ended}
    BY <1>0, <1>1, <2>2
  <2> QED BY <1>0, <2>1, <2>3, BeginEndWalk
<1>7. ASSUME NEW c \in Client, Greet(c)
      PROVE  WalkInv' /\ \A d \in Client : SkipsNone(d)
  <2> DEFINE s == [ses[c] EXCEPT !.pc = "read"]
  <2>1. db' = db /\ adb' = adb /\ up' = up /\ Put(c, s) /\ ~At(c, "walk")
    BY <1>7 DEF Greet, shared, env, At
  <2>2. SessionBase(ses[c])
    BY DEF WalkInv, SessionOK
  <2>3. s \in SessionType /\ s.own = ses[c].own /\ s.grp = ses[c].grp /\ s.name = ses[c].name /\ s.pc = "read"
    BY <2>2 DEF SessionBase, SessionType, Control
  <2> HIDE DEF s
  <2>4. SessionOK(s, kept'[c], up') /\ SkipsNone(c)
    BY <2>1, <2>2, <2>3 DEF SessionOK, SessionBase, SkipsNone
  <2>5. DataOK' /\ \A g \in Group : up[g].f <= up'[g].f
    BY <1>0, <2>1 DEF DataOK, UpType
  <2> QED BY <1>0, <1>1, <2>1, <2>4, <2>5, StepWalk
<1>8. ASSUME NEW c \in Client, ReceiveLine(c) \/ Command(c)
      PROVE  WalkInv' /\ \A d \in Client : SkipsNone(d)
  BY <1>0, <1>8, CommandWalk DEF ReceiveLine, Command
<1> QED BY <1>3, <1>4, <1>5, <1>6, <1>7, <1>8 DEF Next, Child

LEMMA InitWalk == Init => WalkInv
<1> SUFFICES ASSUME Init PROVE WalkInv
  OBVIOUS
<1>1. /\ ses = [c \in Client |-> Blank("off")] /\ kept = [c \in Client |-> {}] /\ up = Upstream
      /\ db = [g \in Cached |-> Before[g]]
      /\ adb = [g \in Group |-> IF g \in Cached THEN [f |-> Before[g].f, l |-> Before[g].l] ELSE NoInfo]
  BY DEF Init, SessionInit
<1>2. up \in [Group -> UpType] /\ \A g \in Group : up[g].f <= up[g].l + 1 /\ up[g].arts \subseteq up[g].f..up[g].l
  <2>1. \A g \in Group : Upstream[g].l \in Nat
    BY UpstreamAssumption
  <2> QED BY <1>1, <2>1, UpstreamAssumption DEF UpType
<1>3. db \in [Cached -> TableType] /\ \A g \in Cached : TableOK(db[g])
  BY <1>1, UpstreamAssumption DEF TableType, TableOK
<1>4. adb \in [Group -> InfoType] /\ \A g \in Group : adb[g].f <= up[g].f
  <2>1. \A g \in Group : up[g].f \in Nat
    BY <1>2 DEF UpType
  <2>2. \A g \in Cached : Before[g].f \in Nat /\ Before[g].l \in Nat /\ Before[g].f <= up[g].f
    BY <1>1, <2>1, UpstreamAssumption
  <2> QED BY <1>1, <2>1, <2>2 DEF InfoType, NoInfo
<1>5. \A c \in Client : SessionOK(ses[c], kept[c], up)
  BY <1>1, BlankOK
<1> QED BY <1>1, <1>2, <1>3, <1>4, <1>5 DEF WalkInv, DataOK

(* NEXT and LAST find the nearest article that has had a record since the
   command began, or none only if there is none (ns_lastnext over getsize and
   getover), for any groups, any number of clients and whatever the other
   children, the upstream servers and updates do between two turns. *)
THEOREM WalkFindsTheNearest == Spec => NothingSkipped
<1>1. WalkInv /\ [Next]_vars => WalkInv'
  <2>1. WalkInv /\ UNCHANGED vars => WalkInv'
    BY DEF vars, WalkInv, DataOK, Records
  <2> QED BY <2>1, NextWalk
<1>2. WalkInv /\ [Next]_vars => [\A c \in Client : SkipsNone(c)]_vars
  BY NextWalk
<1>3. Spec => []WalkInv
  BY <1>1, InitWalk, PTL DEF Spec
<1> QED BY <1>2, <1>3, PTL DEF Spec, NothingSkipped
=============================================================================
