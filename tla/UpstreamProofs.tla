--------------------------- MODULE UpstreamProofs ---------------------------
(***************************************************************************)
(* Proofs about the connection to the upstream servers, for any list of    *)
(* servers, any groups and any number of retries and faults: however the   *)
(* calls of issue, connect and selectgroup are nested and cut short, the   *)
(* server and the group that a call relies on are still the current ones   *)
(* when it goes on.                                                        *)
(***************************************************************************)
EXTENDS Upstream, FoldLemmas, WellFoundedInduction, TLAPS

(* Frames *)
Calls == {"connect", "issue", "selectgroup", "op", "artid", "active"}
OpCommands == {"listgroup", "article", "over", "xover"}
Commands == OpCommands \cup {"", "group", "reader", "fmt", "wildmat", "active", "artid"}
Places == {"open", "greeted", "fmt", "end", "first", "again", "retry", "start", "answer",
           "next", "list", "plain", "wild", "body"}
ServerNr == Int \cup {ServerOf[g] : g \in Group}
FrameType ==
  [fn : Calls, c : Commands, g : Group \cup {<<>>}, at : Places, i : Int, j : ServerNr]

Is(f, fn, at) == f.fn = fn /\ f.at = at

(* Which call f may run inside of the call b; a call of selectgroup by connect
   is for the current group cur. *)
On(f, b, cur) ==
  \/ Is(b, "connect", "greeted") /\ f.fn = "issue" /\ f.c = "reader"
  \/ Is(b, "connect", "fmt") /\ f.fn = "issue" /\ f.c = "fmt"
  \/ Is(b, "connect", "end") /\ f.fn = "selectgroup" /\ f.g = cur /\ cur # <<>>
  \/ b.fn = "issue" /\ b.at \in {"first", "again"} /\ f.fn = "connect"
  \/ Is(b, "selectgroup", "answer") /\ f.fn = "issue" /\ f.c = "group" /\ f.g = b.g
  \/ Is(b, "op", "start") /\ f.fn = "selectgroup" /\ f.g = b.g
  \/ Is(b, "op", "answer") /\ f.fn = "issue" /\ f.c = b.c
  \/ Is(b, "artid", "answer") /\ f.fn = "issue" /\ f.c = "artid"
  \/ Is(b, "active", "list") /\ f.fn = "connect"
  \/ Is(b, "active", "wild") /\ f.fn = "issue" /\ f.c = "wildmat"
  \/ Is(b, "active", "body") /\ f.fn = "issue" /\ f.c = "active"

(* The call that is the operation. *)
Base(f) == f.fn \in {"selectgroup", "op", "artid", "active"}

(* What a call relies on until it goes on: the server srv that it has set, and
   the group cur that is selected. *)
FrameOK(f, srv, cur) ==
  /\ f.fn = "selectgroup" => f.g \in Group
  /\ Is(f, "selectgroup", "answer") => srv = ServerOf[f.g] /\ srv # 0
  /\ f.fn = "op" => f.c \in OpCommands
  /\ Is(f, "op", "answer") => cur = f.g
  /\ f.fn = "active" => f.i \in Nat /\ f.j \in Nat
  /\ f.fn = "active" /\ f.at # "next" =>
       /\ f.i = srv /\ srv \in Nr /\ Entries[srv].host
       /\ f.j = 1 \/ f.j \in DOMAIN Entries[srv].read

Good(s, srv, cur) ==
  /\ s \in Seq(FrameType)
  /\ \A n \in 1 .. Len(s) : FrameOK(s[n], srv, cur)
  /\ \A n \in 1 .. Len(s) - 1 : On(s[n], s[n + 1], cur)
  /\ s # <<>> => Base(s[Len(s)])

(* The group se that the server has selected is the current one or none, also
   right after a lost connection; only between the answer 211 and the end of
   selectgroup it is the group that was asked for.  A command of an operation
   has succeeded only with a group selected. *)
TopOK(s, cur, se, r) ==
  /\ IF s # <<>> /\ Is(s[1], "selectgroup", "answer") /\ r = 211 THEN se = s[1].g
     ELSE se \in {<<>>, cur}
  /\ s # <<>> /\ Is(s[1], "op", "start") => cur = s[1].g
  /\ s # <<>> /\ Is(s[1], "op", "answer") /\ r \in {211, 220, 224} => se # <<>>

CurrentOK(srv, cur) ==
  /\ srv \in ServerNr /\ cur \in Group \cup {<<>>}
  /\ cur # <<>> => srv = ServerOf[cur] /\ srv # 0

GroupInv ==
  /\ Good(stack, cs, cg) /\ TopOK(stack, cg, sel, resp) /\ CurrentOK(cs, cg)
  /\ RightGroup
-----------------------------------------------------------------------------
(* Sequences of frames *)

LEMMA ConsProps ==
  ASSUME NEW s \in Seq(FrameType), NEW f \in FrameType
  PROVE  /\ <<f>> \o s \in Seq(FrameType) /\ <<f>> \o s # <<>>
         /\ Len(<<f>> \o s) = Len(s) + 1 /\ (<<f>> \o s)[1] = f
         /\ \A n \in 1 .. Len(s) : (<<f>> \o s)[n + 1] = s[n]
         /\ \A n \in 2 .. Len(s) + 1 : (<<f>> \o s)[n] = s[n - 1]
OBVIOUS

LEMMA Empty ==
  ASSUME NEW s \in Seq(FrameType)
  PROVE  Len(s) \in Nat /\ (s = <<>> <=> Len(s) = 0)
OBVIOUS

LEMMA TailProps ==
  ASSUME NEW s \in Seq(FrameType), s # <<>>
  PROVE  /\ Len(s) \in Nat \ {0} /\ s[1] \in FrameType
         /\ Tail(s) \in Seq(FrameType) /\ Len(Tail(s)) = Len(s) - 1
         /\ \A n \in 1 .. Len(s) - 1 : Tail(s)[n] = s[n + 1]
         /\ Tail(s) = <<>> <=> Len(s) = 1
<1>1. Len(s) \in Nat \ {0} /\ s[1] \in FrameType
  OBVIOUS
<1>2. Tail(s) \in Seq(FrameType) /\ Len(Tail(s)) = Len(s) - 1
  OBVIOUS
<1>3. \A n \in 1 .. Len(s) - 1 : Tail(s)[n] = s[n + 1]
  OBVIOUS
<1>4. Tail(s) = <<>> <=> Len(Tail(s)) = 0
  BY <1>2, Empty
<1> QED BY <1>1, <1>2, <1>3, <1>4

LEMMA Concat ==
  ASSUME NEW s \in Seq(FrameType), NEW f \in FrameType, NEW h \in FrameType
  PROVE  /\ <<>> \o s = s /\ s \o <<>> = s
         /\ <<f, h>> \o s = <<f>> \o (<<h>> \o s)
         /\ <<f, h>> = <<f>> \o <<h>>
         /\ <<f>> \in Seq(FrameType) /\ <<>> \in Seq(FrameType)
         /\ <<f>> \o <<>> = <<f>>
<1>1. <<>> \o s = s /\ s \o <<>> = s
  OBVIOUS
<1>2. <<f, h>> \o s = <<f>> \o (<<h>> \o s)
  <2> DEFINE t == <<f, h>> \o s
             u == <<h>> \o s
             v == <<f>> \o u
  <2>0. <<f, h>> \in Seq(FrameType) /\ Len(<<f, h>>) = 2 /\ <<f, h>>[1] = f /\ <<f, h>>[2] = h
    OBVIOUS
  <2>1. t \in Seq(FrameType) /\ Len(t) = Len(s) + 2
    BY <2>0
  <2>2. \A n \in 1 .. Len(s) + 2 : t[n] = IF n = 1 THEN f ELSE IF n = 2 THEN h ELSE s[n - 2]
    BY <2>0
  <2>3. u \in Seq(FrameType) /\ Len(u) = Len(s) + 1 /\ u[1] = h /\ \A n \in 2 .. Len(s) + 1 : u[n] = s[n - 1]
    BY ConsProps
  <2>4. v \in Seq(FrameType) /\ Len(v) = Len(s) + 2 /\ v[1] = f /\ \A n \in 2 .. Len(s) + 2 : v[n] = u[n - 1]
    BY <2>3, ConsProps
  <2>5. \A n \in 1 .. Len(s) + 2 : t[n] = v[n]
    <3> SUFFICES ASSUME NEW n \in 1 .. Len(s) + 2 PROVE t[n] = v[n]
      OBVIOUS
    <3> HIDE DEF t, u, v
    <3>1. CASE n = 1
      BY <2>2, <2>4, <3>1
    <3>2. CASE n = 2
      BY <2>2, <2>3, <2>4, <3>2
    <3>3. CASE n > 2
      <4>1. n - 1 \in 2 .. Len(s) + 1 /\ n \in 2 .. Len(s) + 2 /\ (n - 1) - 1 = n - 2
        BY <3>3
      <4>2. t[n] = s[n - 2] /\ v[n] = u[n - 1]
        BY <2>2, <2>4, <3>3, <4>1
      <4>3. u[n - 1] = s[(n - 1) - 1]
        BY <2>3, <4>1
      <4> QED BY <4>1, <4>2, <4>3
    <3> QED BY <3>1, <3>2, <3>3
  <2> HIDE DEF t, u, v
  <2>6. t = v
    BY <2>1, <2>4, <2>5
  <2> QED BY <2>6 DEF t, u, v
<1>3. <<f, h>> = <<f>> \o <<h>>
  <2> DEFINE t == <<f>> \o <<h>>
  <2>1. <<h>> \in Seq(FrameType) /\ Len(<<h>>) = 1 /\ <<h>>[1] = h
    OBVIOUS
  <2>2. t \in Seq(FrameType) /\ Len(t) = 2 /\ t[1] = f /\ t[1 + 1] = h
    BY <2>1, ConsProps
  <2> HIDE DEF t
  <2>3. t = <<f, h>>
    BY <2>2
  <2> QED BY <2>3 DEF t
<1>4. <<f>> \in Seq(FrameType) /\ <<>> \in Seq(FrameType) /\ <<f>> \o <<>> = <<f>>
  OBVIOUS
<1> QED BY <1>1, <1>2, <1>3, <1>4

(* A call on top of others. *)
LEMMA GoodCons ==
  ASSUME NEW s, NEW srv, NEW cur, Good(s, srv, cur), NEW f \in FrameType, FrameOK(f, srv, cur),
         s = <<>> => Base(f), s # <<>> => On(f, s[1], cur)
  PROVE  Good(<<f>> \o s, srv, cur)
<1>0. s \in Seq(FrameType)
  BY DEF Good
<1> DEFINE t == <<f>> \o s
<1>1. /\ t \in Seq(FrameType) /\ t # <<>> /\ Len(t) = Len(s) + 1 /\ t[1] = f
      /\ \A n \in 1 .. Len(s) : t[n + 1] = s[n]
      /\ \A n \in 2 .. Len(s) + 1 : t[n] = s[n - 1]
  BY <1>0, ConsProps
<1>2. Len(s) \in Nat /\ (s = <<>> <=> Len(s) = 0)
  BY <1>0
<1> HIDE DEF t
<1>3. \A n \in 1 .. Len(t) : FrameOK(t[n], srv, cur)
  <2> SUFFICES ASSUME NEW n \in 1 .. Len(t) PROVE FrameOK(t[n], srv, cur)
    OBVIOUS
  <2>1. CASE n = 1
    BY <1>1, <2>1
  <2>2. CASE n # 1
    <3>1. n \in 2 .. Len(s) + 1 /\ n - 1 \in 1 .. Len(s)
      BY <1>1, <1>2, <2>2
    <3> QED BY <1>1, <3>1 DEF Good
  <2> QED BY <2>1, <2>2
<1>4. \A n \in 1 .. Len(t) - 1 : On(t[n], t[n + 1], cur)
  <2> SUFFICES ASSUME NEW n \in 1 .. Len(t) - 1 PROVE On(t[n], t[n + 1], cur)
    OBVIOUS
  <2>1. n \in 1 .. Len(s) /\ t[n + 1] = s[n]
    BY <1>1, <1>2
  <2>2. CASE n = 1
    BY <1>1, <1>2, <2>1, <2>2
  <2>3. CASE n # 1
    <3>1. n \in 2 .. Len(s) + 1 /\ n - 1 \in 1 .. Len(s) - 1 /\ (n - 1) + 1 = n
      BY <1>2, <2>1, <2>3
    <3>2. t[n] = s[n - 1]
      BY <1>1, <3>1
    <3>3. On(s[n - 1], s[n], cur)
      BY <3>1 DEF Good
    <3> QED BY <2>1, <3>2, <3>3
  <2> QED BY <2>2, <2>3
<1>5. Base(t[Len(t)])
  <2>1. CASE s = <<>>
    BY <1>1, <1>2, <2>1
  <2>2. CASE s # <<>>
    <3>1. Len(s) \in 1 .. Len(s) /\ Len(t) = Len(s) + 1
      BY <1>1, <1>2, <2>2
    <3> QED BY <1>1, <2>2, <3>1 DEF Good
  <2> QED BY <2>1, <2>2
<1> QED BY <1>1, <1>3, <1>4, <1>5 DEF Good, t

(* The calls from the n-th on, and what they say of the (n-1)-th. *)
LEMMA GoodSuffix ==
  ASSUME NEW s, NEW srv, NEW cur, Good(s, srv, cur), NEW n \in 1 .. Len(s)
  PROVE  /\ Good(SubSeq(s, n + 1, Len(s)), srv, cur)
         /\ SubSeq(s, n + 1, Len(s)) = <<>> => Base(s[n])
         /\ SubSeq(s, n + 1, Len(s)) # <<>> => On(s[n], SubSeq(s, n + 1, Len(s))[1], cur)
<1>0. s \in Seq(FrameType) /\ Len(s) \in Nat /\ n \in Nat
  BY DEF Good
<1> DEFINE t == SubSeq(s, n + 1, Len(s))
<1>1. /\ t \in Seq(FrameType) /\ Len(t) = Len(s) - n
      /\ \A m \in 1 .. Len(s) - n : t[m] = s[n + m]
  BY <1>0
<1>2. t = <<>> <=> Len(s) = n
  BY <1>0, <1>1
<1> HIDE DEF t
<1>3. \A m \in 1 .. Len(t) : FrameOK(t[m], srv, cur)
  <2> SUFFICES ASSUME NEW m \in 1 .. Len(t) PROVE FrameOK(t[m], srv, cur)
    OBVIOUS
  <2>1. n + m \in 1 .. Len(s) /\ t[m] = s[n + m]
    BY <1>0, <1>1
  <2> QED BY <2>1 DEF Good
<1>4. \A m \in 1 .. Len(t) - 1 : On(t[m], t[m + 1], cur)
  <2> SUFFICES ASSUME NEW m \in 1 .. Len(t) - 1 PROVE On(t[m], t[m + 1], cur)
    OBVIOUS
  <2>1. n + m \in 1 .. Len(s) - 1 /\ t[m] = s[n + m] /\ t[m + 1] = s[n + (m + 1)]
    BY <1>0, <1>1
  <2>2. n + (m + 1) = (n + m) + 1
    BY <1>0
  <2> QED BY <2>1, <2>2 DEF Good
<1>5. t # <<>> => Base(t[Len(t)]) /\ On(s[n], t[1], cur)
  <2> SUFFICES ASSUME t # <<>> PROVE Base(t[Len(t)]) /\ On(s[n], t[1], cur)
    OBVIOUS
  <2>1. Len(s) - n \in 1 .. Len(s) - n /\ 1 \in 1 .. Len(s) - n /\ n \in 1 .. Len(s) - 1
    BY <1>0, <1>1, <1>2
  <2>2. t[Len(t)] = s[Len(s)] /\ t[1] = s[n + 1] /\ s # <<>>
    BY <1>0, <1>1, <2>1
  <2> QED BY <2>1, <2>2 DEF Good
<1>6. t = <<>> => Base(s[n])
  BY <1>0, <1>2 DEF Good
<1> QED BY <1>1, <1>3, <1>4, <1>5, <1>6 DEF Good, t

LEMMA GoodTail ==
  ASSUME NEW s, NEW srv, NEW cur, Good(s, srv, cur), s # <<>>
  PROVE  /\ Good(Tail(s), srv, cur)
         /\ Tail(s) = <<>> => Base(s[1])
         /\ Tail(s) # <<>> => On(s[1], Tail(s)[1], cur)
         /\ FrameOK(s[1], srv, cur) /\ s[1] \in FrameType /\ s \in Seq(FrameType)
<1>0. s \in Seq(FrameType) /\ Len(s) \in Nat /\ Len(s) >= 1
  BY DEF Good
<1>1. Tail(s) = SubSeq(s, 1 + 1, Len(s))
  BY <1>0
<1>2. 1 \in 1 .. Len(s)
  BY <1>0
<1>3. FrameOK(s[1], srv, cur) /\ s[1] \in FrameType
  BY <1>0, <1>2 DEF Good
<1> QED BY <1>0, <1>1, <1>2, <1>3, GoodSuffix

(* A call that goes on at another place, in the place of the call h. *)
LEMMA GoodGoon ==
  ASSUME NEW s, NEW srv, NEW cur, Good(s, srv, cur), NEW h, NEW f \in FrameType,
         s = <<>> => Base(h), s # <<>> => On(h, s[1], cur),
         f.fn = h.fn, f.c = h.c, f.g = h.g, FrameOK(f, srv, cur)
  PROVE  Good(<<f>> \o s, srv, cur)
<1>1. s = <<>> => Base(f)
  BY DEF Base
<1>2. s # <<>> => On(f, s[1], cur)
  BY DEF On
<1> QED BY <1>1, <1>2, GoodCons
-----------------------------------------------------------------------------
(* Calls as they begin *)

LEMMA NewCalls ==
  ASSUME NEW srv, NEW cur
  PROVE  /\ Connect \in FrameType /\ FrameOK(Connect, srv, cur) /\ Connect.fn = "connect"
         /\ \A c \in Commands : \A g \in Group \cup {<<>>} :
              /\ IssueFrame(c, g) \in FrameType /\ FrameOK(IssueFrame(c, g), srv, cur)
              /\ IssueFrame(c, g).fn = "issue" /\ IssueFrame(c, g).c = c /\ IssueFrame(c, g).g = g
              /\ IssueFrame(c, g).at = "first"
         /\ \A g \in Group :
              /\ Select(g) \in FrameType /\ FrameOK(Select(g), srv, cur)
              /\ Select(g).fn = "selectgroup" /\ Select(g).at = "start" /\ Select(g).g = g
BY RetriesAssumption
   DEF Connect, IssueFrame, Select, Frame, FrameType, Calls, Commands, OpCommands, Places, ServerNr, FrameOK, Is

LEMMA NewIssue ==
  ASSUME NEW srv, NEW cur, NEW c \in Commands, NEW g \in Group \cup {<<>>}
  PROVE  /\ IssueFrame(c, g) \in FrameType /\ FrameOK(IssueFrame(c, g), srv, cur)
         /\ IssueFrame(c, g).fn = "issue" /\ IssueFrame(c, g).at = "first"
<1> DEFINE f == IssueFrame(c, g)
<1>1. f = [fn |-> "issue", c |-> c, g |-> g, at |-> "first", i |-> Retries + 1, j |-> 0]
  BY DEF IssueFrame, Frame
<1> HIDE DEF f
<1>2. f.fn = "issue" /\ f.at = "first" /\ f.c = c /\ f.g = g
  BY <1>1
<1>3. FrameOK(f, srv, cur)
  BY <1>2 DEF FrameOK, Is
<1>4. "issue" \in Calls /\ "first" \in Places /\ Retries + 1 \in Int /\ 0 \in ServerNr
  BY RetriesAssumption DEF Calls, Places, ServerNr
<1>5. f \in FrameType
  BY <1>1, <1>4 DEF FrameType
<1> QED BY <1>2, <1>3, <1>5 DEF f

(* issue, with or without a connect in front. *)
LEMMA GoodIssue ==
  ASSUME NEW s, NEW srv, NEW cur, Good(s, srv, cur), s # <<>>, NEW c \in Commands,
         NEW g \in Group \cup {<<>>}, On(IssueFrame(c, g), s[1], cur)
  PROVE  /\ Good(<<IssueFrame(c, g)>> \o s, srv, cur)
         /\ (<<IssueFrame(c, g)>> \o s)[1].fn = "issue"
         /\ Good(<<Connect, IssueFrame(c, g)>> \o s, srv, cur)
         /\ (<<Connect, IssueFrame(c, g)>> \o s)[1].fn = "connect"
<1> DEFINE f == IssueFrame(c, g)
           t == <<f>> \o s
<1>1. /\ f \in FrameType /\ FrameOK(f, srv, cur) /\ f.fn = "issue" /\ f.at = "first"
      /\ Connect \in FrameType /\ FrameOK(Connect, srv, cur) /\ Connect.fn = "connect"
  <2>1. Connect \in FrameType /\ FrameOK(Connect, srv, cur) /\ Connect.fn = "connect"
    BY NewCalls
  <2>2. f \in FrameType /\ FrameOK(f, srv, cur) /\ f.fn = "issue" /\ f.at = "first"
    BY NewIssue
  <2> QED BY <2>1, <2>2
<1>2. s \in Seq(FrameType)
  BY DEF Good
<1> HIDE DEF f
<1>3. Good(t, srv, cur)
  BY <1>1, GoodCons DEF f
<1>4. t \in Seq(FrameType) /\ t # <<>> /\ t[1] = f
  BY <1>1, <1>2, ConsProps
<1>5. <<Connect, f>> \o s = <<Connect>> \o t
  BY <1>1, <1>2, Concat
<1> HIDE DEF t
<1>6. On(Connect, t[1], cur)
  BY <1>1, <1>4 DEF On
<1>7. Good(<<Connect>> \o t, srv, cur) /\ (<<Connect>> \o t)[1] = Connect
  BY <1>1, <1>3, <1>4, <1>6, GoodCons, ConsProps
<1> QED BY <1>1, <1>3, <1>4, <1>5, <1>7 DEF f, t

(* Nothing is expected of the answer to a command before a call of these. *)
PlainTop(s) ==
  s = <<>> \/ s[1].fn \in {"connect", "issue", "artid", "active"} \/ Is(s[1], "selectgroup", "start")

LEMMA TopPlain ==
  ASSUME NEW s, PlainTop(s), NEW cur, NEW se \in {<<>>, cur}, NEW r
  PROVE  TopOK(s, cur, se, r)
BY DEF PlainTop, TopOK, Is

LEMMA MinIn ==
  ASSUME NEW S \in SUBSET Nat, S # {}
  PROVE  Min(S) \in S /\ \A n \in S : Min(S) <= n
<1> DEFINE R == OpToRel(<, Nat)
<1>1. IsWellFoundedOn(R, Nat)
  BY NatLessThanWellFounded
<1>2. \A x, y \in Nat : <<y, x>> \in R <=> y < x
  BY DEF OpToRel
<1> HIDE DEF R
<1>3. PICK m \in S : \A n \in S : ~(<<n, m>> \in R)
  BY <1>1, WFMin
<1>4. \A n \in S : m <= n
  <2> SUFFICES ASSUME NEW n \in S PROVE m <= n
    OBVIOUS
  <2>1. n \in Nat /\ m \in Nat
    OBVIOUS
  <2>2. ~(n < m)
    BY <1>2, <1>3, <2>1
  <2> QED BY <2>1, <2>2
<1> QED BY <1>4 DEF Min

(* An exception: the calls below the one that catches it are as they were. *)
LEMMA GoodThrow ==
  ASSUME NEW srv, NEW cur, Good(stack, srv, cur), NEW e, Throw(e)
  PROVE  Good(stack', srv, cur) /\ PlainTop(stack')
<1> DEFINE ks == {n \in DOMAIN stack : Catches(e, stack[n])}
           k == Min(ks)
           f == Resume(e, stack[k])
<1>0. stack \in Seq(FrameType) /\ Len(stack) \in Nat /\ DOMAIN stack = 1 .. Len(stack)
  BY DEF Good
<1>1. CASE ks = {}
  <2>1. stack' = <<>>
    BY <1>1 DEF Throw
  <2> QED BY <2>1 DEF Good, PlainTop
<1>2. CASE ks # {}
  <2>1. stack' = <<f>> \o SubSeq(stack, k + 1, Len(stack))
    BY <1>2 DEF Throw
  <2>2. ks \in SUBSET Nat
    BY <1>0
  <2>3. k \in ks
    BY <1>2, <2>2, MinIn
  <2>4. k \in 1 .. Len(stack) /\ Catches(e, stack[k])
    BY <1>0, <2>3
  <2> HIDE DEF k, ks
  <2>5. stack[k] \in FrameType /\ FrameOK(stack[k], srv, cur)
    BY <1>0, <2>4 DEF Good
  <2>6. /\ f \in FrameType /\ f.fn = stack[k].fn /\ f.c = stack[k].c /\ f.g = stack[k].g
        /\ f.i = stack[k].i /\ f.j = stack[k].j
        /\ f.fn \in {"issue", "active"}
        /\ f.fn = "active" => f.at = "next" \/ stack[k].at = "wild"
    BY <2>4, <2>5 DEF Resume, Unknown, Catches, FrameType, Places
  <2> HIDE DEF f
  <2>7. FrameOK(f, srv, cur)
    BY <2>5, <2>6 DEF FrameOK, Is
  <2> DEFINE t == SubSeq(stack, k + 1, Len(stack))
  <2>8. Good(t, srv, cur) /\ (t = <<>> => Base(stack[k])) /\ (t # <<>> => On(stack[k], t[1], cur))
    BY <2>4, GoodSuffix
  <2> HIDE DEF t
  <2>9. Good(<<f>> \o t, srv, cur)
    BY <2>6, <2>7, <2>8, GoodGoon
  <2>10. (<<f>> \o t)[1] = f
    BY <2>6, <2>8, ConsProps DEF Good
  <2> QED BY <2>1, <2>6, <2>9, <2>10 DEF PlainTop, t
<1> QED BY <1>1, <1>2
-----------------------------------------------------------------------------
(* The calls and what they rely on: one lemma per function. *)

(* A step that keeps the server and the current group. *)
LEMMA SameServer ==
  ASSUME GroupInv, cs' = cs, cg' = cg, got' = got, Good(stack', cs, cg), TopOK(stack', cg, sel', resp')
  PROVE  GroupInv'
BY DEF GroupInv, CurrentOK, RightGroup

(* The call that runs. *)
LEMMA RunningCall ==
  ASSUME GroupInv, stack # <<>>
  PROVE  /\ Good(stack, cs, cg) /\ Good(Tail(stack), cs, cg)
         /\ Tail(stack) \in Seq(FrameType) /\ stack[1] \in FrameType
         /\ FrameOK(stack[1], cs, cg)
         /\ Tail(stack) = <<>> => Base(stack[1])
         /\ Tail(stack) # <<>> => On(stack[1], Tail(stack)[1], cg)
         /\ ~Is(stack[1], "selectgroup", "answer") => sel \in {<<>>, cg}
<1>1. Good(stack, cs, cg) /\ TopOK(stack, cg, sel, resp)
  BY DEF GroupInv
<1>2. ~Is(stack[1], "selectgroup", "answer") => sel \in {<<>>, cg}
  BY <1>1 DEF TopOK
<1>3. Tail(stack) \in Seq(FrameType)
  BY <1>1, GoodTail DEF Good
<1> QED BY <1>1, <1>2, <1>3, GoodTail

(* The call f that runs goes on at another place. *)
LEMMA GotoProps ==
  ASSUME NEW f \in FrameType, NEW at \in Places
  PROVE  /\ [f EXCEPT !.at = at] \in FrameType
         /\ [f EXCEPT !.at = at].fn = f.fn /\ [f EXCEPT !.at = at].c = f.c
         /\ [f EXCEPT !.at = at].g = f.g /\ [f EXCEPT !.at = at].at = at
         /\ [f EXCEPT !.at = at].i = f.i /\ [f EXCEPT !.at = at].j = f.j
BY DEF FrameType

LEMMA CountProps ==
  ASSUME NEW f \in FrameType, NEW m \in Int
  PROVE  /\ [f EXCEPT !.i = m] \in FrameType
         /\ [f EXCEPT !.i = m].fn = f.fn /\ [f EXCEPT !.i = m].c = f.c
         /\ [f EXCEPT !.i = m].g = f.g /\ [f EXCEPT !.i = m].at = f.at
         /\ [f EXCEPT !.i = m].i = m /\ [f EXCEPT !.i = m].j = f.j
BY DEF FrameType

LEMMA GoodGoto ==
  ASSUME GroupInv, stack # <<>>, NEW at \in Places,
         FrameOK([stack[1] EXCEPT !.at = at], cs, cg)
  PROVE  /\ Good(Goto(at), cs, cg) /\ Goto(at) # <<>> /\ Goto(at) \in Seq(FrameType)
         /\ Goto(at)[1] = [stack[1] EXCEPT !.at = at]
<1> DEFINE f == [stack[1] EXCEPT !.at = at]
<1>1. stack[1] \in FrameType /\ Good(Tail(stack), cs, cg) /\ Tail(stack) \in Seq(FrameType)
  BY RunningCall
<1>2. f \in FrameType /\ f.fn = stack[1].fn /\ f.c = stack[1].c /\ f.g = stack[1].g
  BY <1>1, GotoProps
<1> HIDE DEF f
<1>3. Good(<<f>> \o Tail(stack), cs, cg)
  BY <1>1, <1>2, RunningCall, GoodGoon DEF f
<1>4. <<f>> \o Tail(stack) # <<>> /\ (<<f>> \o Tail(stack))[1] = f /\ <<f>> \o Tail(stack) \in Seq(FrameType)
  BY <1>1, <1>2, ConsProps
<1> QED BY <1>3, <1>4 DEF Goto, f

(* The commands of operations succeed only with a group selected. *)
LEMMA OpAnswers ==
  ASSUME NEW c \in OpCommands, NEW g, NEW code \in Answers(c, g), code \in {211, 220, 224}
  PROVE  sel # <<>>
<1> SUFFICES ASSUME sel = <<>> PROVE FALSE
  OBVIOUS
<1>1. CASE c = "listgroup"
  BY <1>1 DEF Answers
<1>2. CASE c = "article"
  BY <1>2 DEF Answers
<1>3. CASE c \in {"over", "xover"} /\ c \in Knows[cs]
  BY <1>3 DEF Answers
<1>4. CASE c \in {"over", "xover"} /\ c \notin Knows[cs]
  BY <1>4 DEF Answers
<1> QED BY <1>1, <1>2, <1>3, <1>4 DEF OpCommands

LEMMA IssuingInv ==
  ASSUME GroupInv, Issuing
  PROVE  GroupInv'
<1>0. stack # <<>> /\ stack[1].fn = "issue" /\ cs' = cs /\ cg' = cg /\ got' = got
  BY DEF Issuing, IssueAnswered, IssueLost, IssueRetry, Top, hist
<1> DEFINE f == stack[1]
           b == Tail(stack)[1]
<1>1. /\ Good(stack, cs, cg) /\ Good(Tail(stack), cs, cg) /\ f \in FrameType /\ FrameOK(f, cs, cg)
      /\ Tail(stack) # <<>> /\ On(f, b, cg) /\ sel \in {<<>>, cg}
      /\ Tail(stack) \in Seq(FrameType)
  BY <1>0, RunningCall DEF Base, Is
<1>2. CASE IssueAnswered
  <2>1. PICK code \in Answers(f.c, f.g) :
          /\ resp' = code
          /\ sel' = IF f.c = "group" /\ code = 211 THEN f.g ELSE sel
          /\ IF Expected(f.c, code) THEN stack' = Tail(stack) ELSE Throw("Response")
    BY <1>2 DEF IssueAnswered, Return
  <2>2. CASE ~Expected(f.c, code)
    <3>1. sel' = sel /\ Throw("Response")
      BY <2>1, <2>2 DEF Expected
    <3>2. Good(stack', cs, cg) /\ PlainTop(stack')
      BY <1>1, <3>1, GoodThrow
    <3> QED BY <1>0, <1>1, <3>1, <3>2, TopPlain, SameServer
  <2>3. CASE Expected(f.c, code)
    <3>0. stack' = Tail(stack)
      BY <2>1, <2>3
    <3>1. CASE f.c = "group"
      <4>1. Is(b, "selectgroup", "answer") /\ f.g = b.g
        <5>1. b \in FrameType /\ FrameOK(b, cs, cg)
          BY <1>1, GoodTail
        <5> QED BY <1>0, <1>1, <3>1, <5>1 DEF On, FrameOK, OpCommands, Is
      <4>2. TopOK(Tail(stack), cg, sel', resp')
        BY <1>1, <2>1, <3>1, <4>1 DEF TopOK, Is
      <4> QED BY <1>0, <1>1, <3>0, <4>2, SameServer
    <3>2. CASE f.c # "group"
      <4>1. sel' = sel /\ sel' \in {<<>>, cg}
        BY <1>1, <2>1, <3>2
      <4>2. CASE Is(b, "op", "answer")
        <5>1. FrameOK(b, cs, cg)
          BY <1>1, GoodTail
        <5>2. f.c = b.c /\ b.c \in OpCommands
          BY <1>0, <4>2, <5>1 , <1>1 DEF On, FrameOK, Is
        <5>3. code \in {211, 220, 224} => sel # <<>>
          <6>1. f.c \in OpCommands /\ code \in Answers(f.c, f.g)
            BY <2>1, <5>2
          <6> QED BY <6>1, OpAnswers
        <5>4. TopOK(Tail(stack), cg, sel', resp')
          BY <2>1, <4>1, <4>2, <5>3 DEF TopOK, Is
        <5> QED BY <1>0, <1>1, <3>0, <5>4, SameServer
      <4>3. CASE ~Is(b, "op", "answer")
        <5>1. PlainTop(Tail(stack))
          BY <1>0, <1>1, <3>2, <4>3 DEF On, Is, PlainTop
        <5> QED BY <1>0, <1>1, <3>0, <4>1, <5>1, TopPlain, SameServer
      <4> QED BY <4>2, <4>3
    <3> QED BY <3>1, <3>2
  <2> QED BY <2>2, <2>3
<1>3. CASE IssueLost
  <2>1. stack' = Goto("retry") /\ sel' = sel
    BY <1>3 DEF IssueLost
  <2>2. [f EXCEPT !.at = "retry"].fn = "issue"
    BY <1>0, <1>1 DEF FrameType
  <2>3. FrameOK([f EXCEPT !.at = "retry"], cs, cg)
    BY <2>2 DEF FrameOK, Is
  <2>4. Good(Goto("retry"), cs, cg) /\ Goto("retry")[1].fn = "issue"
    BY <1>0, <2>2, <2>3, GoodGoto DEF Places
  <2>5. TopOK(Goto("retry"), cg, sel', resp')
    BY <1>1, <2>1, <2>4, TopPlain DEF PlainTop
  <2> QED BY <1>0, <2>1, <2>4, <2>5, SameServer
<1>4. CASE IssueRetry
  <2>1. CASE f.i = 1
    <3>1. Throw("System") /\ sel' = sel
      BY <1>4, <2>1 DEF IssueRetry
    <3>2. Good(stack', cs, cg) /\ PlainTop(stack')
      BY <1>1, <3>1, GoodThrow
    <3> QED BY <1>0, <1>1, <3>1, <3>2, TopPlain, SameServer
  <2>2. CASE f.i # 1
    <3> DEFINE h == [f EXCEPT !.i = @ - 1, !.at = "again"]
               t == <<h>> \o Tail(stack)
               e == [f EXCEPT !.i = @ - 1]
    <3>0. e \in FrameType /\ e.fn = f.fn /\ e.c = f.c /\ e.g = f.g
      <4>1. f.i \in Int
        BY <1>1 DEF FrameType
      <4>2. f.i - 1 \in Int
        BY <4>1
      <4> QED BY <1>1, <4>2, CountProps
    <3>a. h = [e EXCEPT !.at = "again"]
      OBVIOUS
    <3> HIDE DEF e
    <3>1. stack' = <<Connect, h>> \o Tail(stack) /\ sel' = <<>>
      BY <1>4, <2>2 DEF IssueRetry
    <3> HIDE DEF h
    <3>2. /\ h \in FrameType /\ h.fn = "issue" /\ h.c = f.c /\ h.g = f.g /\ h.at = "again"
      <4>1. "again" \in Places
        BY DEF Places
      <4> QED BY <1>0, <3>0, <3>a, <4>1, GotoProps
    <3>3. FrameOK(h, cs, cg) /\ Connect \in FrameType /\ FrameOK(Connect, cs, cg) /\ Connect.fn = "connect"
      BY <3>2, NewCalls DEF FrameOK, Is
    <3>4. Good(t, cs, cg)
      BY <1>0, <1>1, <3>2, <3>3, GoodGoon
    <3>5. t \in Seq(FrameType) /\ t # <<>> /\ t[1] = h /\ stack' = <<Connect>> \o t
      BY <1>1, <3>1, <3>2, <3>3, ConsProps, Concat
    <3> HIDE DEF t
    <3>6. On(Connect, t[1], cg)
      BY <3>2, <3>3, <3>5 DEF On
    <3>7. Good(<<Connect>> \o t, cs, cg) /\ (<<Connect>> \o t)[1] = Connect
      BY <3>3, <3>4, <3>5, <3>6, GoodCons, ConsProps
    <3>8. TopOK(<<Connect>> \o t, cg, sel', resp')
      BY <3>1, <3>3, <3>7, TopPlain DEF PlainTop
    <3> QED BY <1>0, <3>5, <3>7, <3>8, SameServer
  <2> QED BY <2>1, <2>2
<1> QED BY <1>2, <1>3, <1>4 DEF Issuing

LEMMA ConnectingInv ==
  ASSUME GroupInv, Connecting
  PROVE  GroupInv'
<1>0. stack # <<>> /\ stack[1].fn = "connect" /\ cs' = cs /\ cg' = cg /\ got' = got
  BY DEF Connecting, ConnectRefused, ConnectLost, ConnectBusy, ConnectGreeted, ConnectReader, ConnectFmt,
         ConnectEnd, Top, conn, hist
<1> DEFINE f == stack[1]
<1>1. /\ Good(stack, cs, cg) /\ Good(Tail(stack), cs, cg) /\ f \in FrameType
      /\ Tail(stack) # <<>> /\ On(f, Tail(stack)[1], cg) /\ sel \in {<<>>, cg}
      /\ Tail(stack) \in Seq(FrameType)
  BY <1>0, RunningCall DEF Base, Is
<1>2. ASSUME NEW e, Throw(e), sel' \in {<<>>, cg} PROVE GroupInv'
  <2>1. Good(stack', cs, cg) /\ PlainTop(stack')
    BY <1>1, <1>2, GoodThrow
  <2> QED BY <1>0, <1>2, <2>1, TopPlain, SameServer
<1>3. ASSUME NEW at \in Places
      PROVE  /\ Good(Goto(at), cs, cg) /\ Goto(at) # <<>> /\ Goto(at) \in Seq(FrameType)
             /\ Is(Goto(at)[1], "connect", at)
  <2>1. [f EXCEPT !.at = at].fn = "connect" /\ [f EXCEPT !.at = at].at = at
    BY <1>0, <1>1, GotoProps
  <2>2. FrameOK([f EXCEPT !.at = at], cs, cg)
    BY <2>1 DEF FrameOK, Is
  <2> QED BY <1>0, <2>1, <2>2, GoodGoto DEF Is
<1>4. ASSUME NEW t, stack' = t, Good(t, cs, cg), t[1].fn \in {"connect", "issue"} \/ Is(t[1], "selectgroup", "start"),
             sel' \in {<<>>, cg}
      PROVE  GroupInv'
  <2>1. TopOK(t, cg, sel', resp')
    BY <1>4, TopPlain DEF PlainTop
  <2> QED BY <1>0, <1>4, <2>1, SameServer
<1>5. CASE ConnectRefused \/ ConnectBusy
  BY <1>2, <1>5 DEF ConnectRefused, ConnectBusy
<1>6. CASE ConnectLost
  <2>1. CASE f.i > 0
    <3> DEFINE h == [f EXCEPT !.i = @ - 1]
    <3>1. stack' = <<h>> \o Tail(stack) /\ sel' = <<>>
      BY <1>6, <2>1 DEF ConnectLost
    <3>2. f.i \in Int
      BY <1>1 DEF FrameType
    <3>3. f.i - 1 \in Int
      BY <3>2
    <3>4. h \in FrameType /\ h.fn = f.fn /\ h.c = f.c /\ h.g = f.g
      BY <1>1, <3>3, CountProps
    <3> HIDE DEF h
    <3>5. FrameOK(h, cs, cg)
      BY <1>0, <3>4 DEF FrameOK, Is
    <3>6. Good(<<h>> \o Tail(stack), cs, cg) /\ (<<h>> \o Tail(stack))[1] = h
      BY <1>1, <3>4, <3>5, GoodGoon, ConsProps
    <3> QED BY <1>0, <1>4, <3>1, <3>4, <3>6
  <2>2. CASE ~(f.i > 0)
    BY <1>2, <1>6, <2>2 DEF ConnectLost
  <2> QED BY <2>1, <2>2
<1>7. CASE ConnectGreeted
  <2>0. "greeted" \in Places /\ "reader" \in Commands /\ sel' = <<>>
    BY <1>7 DEF Places, Commands, ConnectGreeted
  <2>1. /\ Good(Goto("greeted"), cs, cg) /\ Goto("greeted") # <<>> /\ Goto("greeted") \in Seq(FrameType)
        /\ Is(Goto("greeted")[1], "connect", "greeted")
    BY <1>3, <2>0
  <2>2. CASE "reader" \in flags[cs]
    <3>1. stack' = <<IssueFrame("reader", <<>>)>> \o Goto("greeted")
      BY <1>7, <2>2 DEF ConnectGreeted
    <3>2. IssueFrame("reader", <<>>).fn = "issue" /\ IssueFrame("reader", <<>>).c = "reader"
      BY <2>0, NewCalls
    <3>3. On(IssueFrame("reader", <<>>), Goto("greeted")[1], cg)
      BY <2>1, <3>2 DEF On
    <3>4. /\ Good(<<IssueFrame("reader", <<>>)>> \o Goto("greeted"), cs, cg)
          /\ (<<IssueFrame("reader", <<>>)>> \o Goto("greeted"))[1].fn = "issue"
      BY <2>0, <2>1, <3>3, GoodIssue
    <3> QED BY <1>4, <2>0, <3>1, <3>4
  <2>3. CASE "reader" \notin flags[cs]
    <3>1. stack' = Goto("greeted")
      BY <1>7, <2>1, <2>3, NewCalls, Concat DEF ConnectGreeted
    <3> QED BY <1>4, <2>0, <2>1, <3>1 DEF Is
  <2> QED BY <2>2, <2>3
<1>8. CASE ConnectReader
  <2>0. "fmt" \in Places /\ "fmt" \in Commands /\ sel' = sel
    BY <1>8 DEF Places, Commands, ConnectReader, conn
  <2>1. /\ Good(Goto("fmt"), cs, cg) /\ Goto("fmt") # <<>> /\ Goto("fmt") \in Seq(FrameType)
        /\ Is(Goto("fmt")[1], "connect", "fmt")
    BY <1>3, <2>0
  <2>2. stack' = Issue("fmt", <<>>) \o Goto("fmt") \/ stack' = <<>> \o Goto("fmt")
    BY <1>8 DEF ConnectReader
  <2>3. CASE stack' = Issue("fmt", <<>>) \o Goto("fmt")
    <3>1. IssueFrame("fmt", <<>>).fn = "issue" /\ IssueFrame("fmt", <<>>).c = "fmt"
      BY <2>0, NewCalls
    <3>2. On(IssueFrame("fmt", <<>>), Goto("fmt")[1], cg)
      BY <2>1, <3>1 DEF On
    <3>3. /\ Good(<<IssueFrame("fmt", <<>>)>> \o Goto("fmt"), cs, cg)
          /\ (<<IssueFrame("fmt", <<>>)>> \o Goto("fmt"))[1].fn = "issue"
          /\ Good(<<Connect, IssueFrame("fmt", <<>>)>> \o Goto("fmt"), cs, cg)
          /\ (<<Connect, IssueFrame("fmt", <<>>)>> \o Goto("fmt"))[1].fn = "connect"
      BY <2>0, <2>1, <3>2, GoodIssue
    <3>4. CASE st = "none"
      <4>1. stack' = <<Connect, IssueFrame("fmt", <<>>)>> \o Goto("fmt")
        BY <2>3, <3>4 DEF Issue
      <4> QED BY <1>1, <1>4, <2>0, <3>3, <4>1
    <3>5. CASE st # "none"
      <4>1. stack' = <<IssueFrame("fmt", <<>>)>> \o Goto("fmt")
        BY <2>3, <3>5 DEF Issue
      <4> QED BY <1>1, <1>4, <2>0, <3>3, <4>1
    <3> QED BY <3>4, <3>5
  <2>4. CASE stack' = <<>> \o Goto("fmt")
    <3>1. stack' = Goto("fmt")
      BY <2>1, <2>4, NewCalls, Concat
    <3> QED BY <1>1, <1>4, <2>0, <2>1, <3>1 DEF Is
  <2> QED BY <2>2, <2>3, <2>4
<1>9. CASE ConnectFmt
  <2>0. "end" \in Places /\ sel' = sel
    BY <1>9 DEF Places, ConnectFmt, conn
  <2>1. /\ Good(Goto("end"), cs, cg) /\ Goto("end") # <<>> /\ Goto("end") \in Seq(FrameType)
        /\ Is(Goto("end")[1], "connect", "end")
    BY <1>3, <2>0
  <2>2. CASE cg # <<>>
    <3>1. stack' = <<Select(cg)>> \o Goto("end")
      BY <1>9, <2>2 DEF ConnectFmt
    <3>2. cg \in Group
      BY <2>2 DEF GroupInv, CurrentOK
    <3>3. /\ Select(cg) \in FrameType /\ FrameOK(Select(cg), cs, cg)
          /\ Select(cg).fn = "selectgroup" /\ Select(cg).at = "start" /\ Select(cg).g = cg
      BY <3>2, NewCalls
    <3>4. On(Select(cg), Goto("end")[1], cg)
      BY <2>1, <2>2, <3>3 DEF On
    <3>5. Good(<<Select(cg)>> \o Goto("end"), cs, cg) /\ (<<Select(cg)>> \o Goto("end"))[1] = Select(cg)
      BY <2>1, <3>3, <3>4, GoodCons, ConsProps
    <3> QED BY <1>1, <1>4, <2>0, <3>1, <3>3, <3>5 DEF Is
  <2>3. CASE cg = <<>>
    <3>1. stack' = Goto("end")
      BY <1>9, <2>1, <2>3, NewCalls, Concat DEF ConnectFmt
    <3> QED BY <1>1, <1>4, <2>0, <2>1, <3>1 DEF Is
  <2> QED BY <2>2, <2>3
<1>10. CASE ConnectEnd
  <2>1. stack' = Tail(stack) /\ sel' = sel
    BY <1>10 DEF ConnectEnd, Return, conn
  <2>2. PlainTop(Tail(stack))
    BY <1>0, <1>1 DEF On, Is, PlainTop
  <2>3. TopOK(stack', cg, sel', resp')
    BY <1>1, <2>1, <2>2, TopPlain
  <2> QED BY <1>0, <1>1, <2>1, <2>3, SameServer
<1> QED BY <1>5, <1>6, <1>7, <1>8, <1>9, <1>10 DEF Connecting

(* An operation has nothing below it. *)
LEMMA OperationIsLast ==
  ASSUME NEW s, NEW srv, NEW cur, Good(s, srv, cur), s # <<>>, s[1].fn \in {"op", "artid", "active"}
  PROVE  Tail(s) = <<>> /\ s = <<s[1]>>
<1>1. s \in Seq(FrameType)
  BY DEF Good
<1>2. Tail(s) = <<>>
  BY GoodTail DEF On
<1>3. Len(s) = 1
  BY <1>1, <1>2, TailProps
<1> QED BY <1>1, <1>2, <1>3

LEMMA GoodOne ==
  ASSUME NEW f \in FrameType, NEW srv, NEW cur, Base(f), FrameOK(f, srv, cur)
  PROVE  Good(<<f>>, srv, cur) /\ Good(<<>>, srv, cur)
<1>1. Good(<<>>, srv, cur)
  BY DEF Good
<1>2. Good(<<f>> \o <<>>, srv, cur)
  BY <1>1, GoodCons
<1> QED BY <1>1, <1>2, Concat

(* A selectgroup that connect has called is for the current group, and its
   server is the current one; any other one is the operation, or the first
   step of it. *)
LEMMA WhoSelects ==
  ASSUME GroupInv, stack # <<>>, stack[1].fn = "selectgroup"
  PROVE  \/ stack[1].g = cg /\ cg # <<>> /\ cs = ServerOf[cg]
         \/ Tail(stack) = <<>>
         \/ Is(Tail(stack)[1], "op", "start") /\ Tail(stack) = <<Tail(stack)[1]>>
            /\ Tail(stack)[1].g = stack[1].g
<1>1. Good(Tail(stack), cs, cg) /\ (Tail(stack) # <<>> => On(stack[1], Tail(stack)[1], cg))
  BY RunningCall
<1>2. CASE Tail(stack) # <<>> /\ Is(Tail(stack)[1], "connect", "end")
  BY <1>1, <1>2 DEF On, Is, GroupInv, CurrentOK
<1>3. CASE Tail(stack) # <<>> /\ Is(Tail(stack)[1], "op", "start")
  <2>1. Tail(stack) = <<Tail(stack)[1]>>
    BY <1>1, <1>3, OperationIsLast DEF Is
  <2>2. Tail(stack)[1].g = stack[1].g
    BY <1>1, <1>3 DEF On, Is
  <2> QED BY <1>3, <2>1, <2>2
<1>4. Tail(stack) # <<>> => Is(Tail(stack)[1], "connect", "end") \/ Is(Tail(stack)[1], "op", "start")
  BY <1>1 DEF On, Is
<1> QED BY <1>2, <1>3, <1>4

(* The calls below a selectgroup bear another server and another current
   group, if it is not one that connect has called. *)
LEMMA BelowSelect ==
  ASSUME GroupInv, stack # <<>>, stack[1].fn = "selectgroup", NEW srv, NEW cur,
         (srv = cs /\ cur = cg) \/ ~(stack[1].g = cg /\ cg # <<>> /\ cs = ServerOf[cg])
  PROVE  /\ Good(Tail(stack), srv, cur)
         /\ Tail(stack) = <<>> => Base(stack[1])
         /\ Tail(stack) # <<>> => On(stack[1], Tail(stack)[1], cur)
<1>1. CASE srv = cs /\ cur = cg
  BY <1>1, RunningCall
<1>2. CASE Tail(stack) = <<>>
  <2>1. Good(<<>>, srv, cur)
    BY DEF Good
  <2> QED BY <1>2, <2>1, RunningCall
<1>3. CASE /\ Is(Tail(stack)[1], "op", "start") /\ Tail(stack) = <<Tail(stack)[1]>>
           /\ Tail(stack)[1].g = stack[1].g
  <2> DEFINE b == Tail(stack)[1]
  <2>1. Tail(stack) # <<>> /\ b \in FrameType /\ FrameOK(b, cs, cg)
    <3>1. <<b>> # <<>>
      OBVIOUS
    <3>2. Tail(stack) # <<>>
      BY <1>3, <3>1
    <3> QED BY <3>2, RunningCall, GoodTail
  <2>2. FrameOK(b, srv, cur) /\ Base(b)
    BY <1>3, <2>1 DEF FrameOK, Is, Base
  <2>3. Good(<<b>>, srv, cur)
    BY <2>1, <2>2, GoodOne
  <2>4. On(stack[1], b, cur)
    BY <1>3 DEF On
  <2> QED BY <1>3, <2>1, <2>3, <2>4
<1> QED BY <1>1, <1>2, <1>3, WhoSelects

LEMMA SelectingInv ==
  ASSUME GroupInv, SelectgroupIssue \/ SelectgroupAnswer
  PROVE  GroupInv'
<1>0. stack # <<>> /\ stack[1].fn = "selectgroup" /\ got' = got
  BY DEF SelectgroupIssue, SelectgroupAnswer, Top
<1> DEFINE f == stack[1]
<1>1. /\ Good(stack, cs, cg) /\ f \in FrameType /\ FrameOK(f, cs, cg) /\ f.g \in Group
      /\ Tail(stack) \in Seq(FrameType) /\ TopOK(stack, cg, sel, resp) /\ CurrentOK(cs, cg) /\ RightGroup
  BY <1>0, RunningCall DEF GroupInv, FrameOK
<1>2. RightGroup'
  BY <1>0, <1>1 DEF RightGroup
<1>3. CASE SelectgroupIssue
  <2>1. f.at = "start" /\ sel \in {<<>>, cg}
    BY <1>1, <1>3 DEF SelectgroupIssue, Top, TopOK, Is
  <2>2. CASE ServerOf[f.g] = 0
    <3>1. Throw("NoGroup") /\ UNCHANGED conn
      BY <1>3, <2>2 DEF SelectgroupIssue
    <3>2. Good(stack', cs, cg) /\ PlainTop(stack')
      BY <1>1, <3>1, GoodThrow
    <3> QED BY <1>0, <2>1, <3>1, <3>2, TopPlain, SameServer DEF conn
  <2>3. CASE ServerOf[f.g] # 0
    <3> DEFINE h == [f EXCEPT !.at = "answer"]
               I == IssueFrame("group", f.g)
    <3>1. /\ Setserver(ServerOf[f.g])
          /\ stack' = (IF st' = "none" THEN <<Connect>> ELSE <<>>) \o <<I>> \o (<<h>> \o Tail(stack))
      BY <1>3, <2>3 DEF SelectgroupIssue, Goto
    <3>2. /\ cs' = ServerOf[f.g] /\ sel' \in {<<>>, cg'} /\ (cg' = <<>> \/ (cs' = cs /\ cg' = cg))
          /\ cs = ServerOf[f.g] => cg' = cg
      BY <2>1, <3>1 DEF Setserver
    <3>3. CurrentOK(cs', cg')
      BY <1>1, <3>2 DEF CurrentOK, ServerNr
    <3>4. /\ Good(Tail(stack), cs', cg')
          /\ Tail(stack) = <<>> => Base(f)
          /\ Tail(stack) # <<>> => On(f, Tail(stack)[1], cg')
      <4>1. (cs' = cs /\ cg' = cg) \/ ~(f.g = cg /\ cg # <<>> /\ cs = ServerOf[cg])
        BY <3>2
      <4> QED BY <1>0, <4>1, BelowSelect
    <3>5. h \in FrameType /\ h.fn = "selectgroup" /\ h.c = f.c /\ h.g = f.g /\ h.at = "answer"
      BY <1>0, <1>1, GotoProps DEF Places
    <3>6. FrameOK(h, cs', cg')
      BY <1>1, <2>3, <3>2, <3>5 DEF FrameOK, Is
    <3> HIDE DEF h
    <3> DEFINE t == <<h>> \o Tail(stack)
    <3>7. Good(t, cs', cg')
      BY <1>0, <3>4, <3>5, <3>6, GoodGoon
    <3>8. t \in Seq(FrameType) /\ t # <<>> /\ t[1] = h
      BY <1>1, <3>5, ConsProps
    <3>9. stack' = <<Connect, I>> \o t \/ stack' = <<I>> \o t
      <4>1. I \in FrameType /\ Connect \in FrameType
        BY <1>1, NewCalls DEF Commands
      <4> HIDE DEF I, t
      <4>a. <<I>> \in Seq(FrameType)
        BY <4>1, Concat
      <4>b. <<Connect, I>> = <<Connect>> \o <<I>>
        BY <4>1, <4>a, Concat
      <4>c. <<>> \o <<I>> = <<I>>
        <5> DEFINE u == <<I>>
        <5> HIDE DEF u
        <5>1. u \in Seq(FrameType)
          BY <4>a DEF u
        <5>2. <<>> \o u = u
          BY <5>1
        <5> QED BY <5>2 DEF u
      <4>2. <<Connect>> \o <<I>> = <<Connect, I>> /\ <<>> \o <<I>> = <<I>>
        BY <4>b, <4>c
      <4>3. stack' = (<<Connect>> \o <<I>>) \o t \/ stack' = (<<>> \o <<I>>) \o t
        BY <3>1 DEF t
      <4> QED BY <4>2, <4>3
    <3> HIDE DEF t
    <3>10. "group" \in Commands
      BY DEF Commands
    <3>11. On(I, t[1], cg')
      BY <1>1, <3>5, <3>8, <3>10, NewCalls DEF On, Is
    <3>12. /\ Good(<<I>> \o t, cs', cg') /\ (<<I>> \o t)[1].fn = "issue"
           /\ Good(<<Connect, I>> \o t, cs', cg') /\ (<<Connect, I>> \o t)[1].fn = "connect"
      BY <1>1, <3>7, <3>8, <3>10, <3>11, GoodIssue
    <3> HIDE DEF I
    <3>13. Good(stack', cs', cg') /\ PlainTop(stack')
      BY <3>9, <3>12 DEF PlainTop
    <3>14. TopOK(stack', cg', sel', resp')
      BY <3>2, <3>13, TopPlain
    <3> QED BY <1>2, <3>3, <3>13, <3>14 DEF GroupInv
  <2> QED BY <2>2, <2>3
<1>4. CASE SelectgroupAnswer
  <2>0. Is(f, "selectgroup", "answer") /\ cs' = cs /\ sel' = sel /\ resp' = resp
    BY <1>4 DEF SelectgroupAnswer, Top, Is
  <2>1. CASE resp = 211
    <3>1. cg' = f.g /\ stack' = Tail(stack)
      BY <1>4, <2>1 DEF SelectgroupAnswer, Return
    <3>2. sel = f.g /\ cs = ServerOf[f.g] /\ cs # 0
      BY <1>0, <1>1, <2>0, <2>1 DEF TopOK, FrameOK
    <3>3. CurrentOK(cs', cg')
      BY <1>1, <2>0, <3>1, <3>2 DEF CurrentOK
    <3>4. Good(Tail(stack), cs', cg')
      <4>1. (cs' = cs /\ cg' = cg) \/ ~(f.g = cg /\ cg # <<>> /\ cs = ServerOf[cg])
        BY <2>0, <3>1
      <4> QED BY <1>0, <4>1, BelowSelect
    <3>5. /\ Tail(stack) # <<>> => ~Is(Tail(stack)[1], "selectgroup", "answer") /\ ~Is(Tail(stack)[1], "op", "answer")
          /\ Tail(stack) # <<>> /\ Is(Tail(stack)[1], "op", "start") => Tail(stack)[1].g = f.g
      BY <1>0, RunningCall DEF On, Is
    <3>6. TopOK(stack', cg', sel', resp')
      BY <2>0, <3>1, <3>2, <3>5 DEF TopOK
    <3> QED BY <1>2, <3>1, <3>3, <3>4, <3>6 DEF GroupInv
  <2>2. CASE resp # 211
    <3>1. Throw("NoGroup") /\ cg' = cg
      BY <1>4, <2>2 DEF SelectgroupAnswer
    <3>2. sel \in {<<>>, cg}
      BY <1>1, <2>2 DEF TopOK
    <3>3. Good(stack', cs, cg) /\ PlainTop(stack')
      BY <1>1, <3>1, GoodThrow
    <3> QED BY <1>0, <2>0, <3>1, <3>2, <3>3, TopPlain, SameServer
  <2> QED BY <2>1, <2>2
<1> QED BY <1>3, <1>4
-----------------------------------------------------------------------------
(* The operations *)

(* A step after which nothing is expected of an answer. *)
LEMMA PlainStep ==
  ASSUME Good(stack', cs', cg'), PlainTop(stack'), sel' \in {<<>>, cg'}, CurrentOK(cs', cg'), RightGroup'
  PROVE  GroupInv'
<1>1. TopOK(stack', cg', sel', resp')
  BY TopPlain
<1> QED BY <1>1 DEF GroupInv

(* setserver, while the group that the server has selected is the current one. *)
LEMMA NewServer ==
  ASSUME GroupInv, NEW k \in Nat, Setserver(k), sel \in {<<>>, cg}
  PROVE  cs' = k /\ CurrentOK(cs', cg') /\ sel' \in {<<>>, cg'}
BY DEF GroupInv, CurrentOK, Setserver, ServerNr

(* A command of the call on top, after a connect if there is no stream. *)
LEMMA GoodIssuing ==
  ASSUME NEW s, NEW srv, NEW cur, Good(s, srv, cur), s # <<>>, NEW c \in Commands,
         On(IssueFrame(c, <<>>), s[1], cur)
  PROVE  Good(Issue(c, <<>>) \o s, srv, cur) /\ PlainTop(Issue(c, <<>>) \o s)
<1>1. /\ Good(<<IssueFrame(c, <<>>)>> \o s, srv, cur)
      /\ (<<IssueFrame(c, <<>>)>> \o s)[1].fn = "issue"
      /\ Good(<<Connect, IssueFrame(c, <<>>)>> \o s, srv, cur)
      /\ (<<Connect, IssueFrame(c, <<>>)>> \o s)[1].fn = "connect"
  BY GoodIssue
<1>2. CASE st = "none"
  <2>1. Issue(c, <<>>) = <<Connect, IssueFrame(c, <<>>)>>
    BY <1>2 DEF Issue
  <2> QED BY <1>1, <2>1 DEF PlainTop
<1>3. CASE st # "none"
  <2>1. Issue(c, <<>>) = <<IssueFrame(c, <<>>)>>
    BY <1>3 DEF Issue
  <2> QED BY <1>1, <2>1 DEF PlainTop
<1> QED BY <1>2, <1>3

(* A connect in front of the call on top, or not. *)
LEMMA GoodConnect ==
  ASSUME NEW s, NEW srv, NEW cur, Good(s, srv, cur), s # <<>>, On(Connect, s[1], cur),
         NEW P \in BOOLEAN
  PROVE  /\ Good((IF P THEN <<Connect>> ELSE <<>>) \o s, srv, cur)
         /\ PlainTop((IF P THEN <<Connect>> ELSE <<>>) \o s)
<1>1. s \in Seq(FrameType)
  BY DEF Good
<1>2. Connect \in FrameType /\ FrameOK(Connect, srv, cur) /\ Connect.fn = "connect"
  BY NewCalls
<1>3. CASE P
  <2>1. Good(<<Connect>> \o s, srv, cur) /\ (<<Connect>> \o s)[1] = Connect
    BY <1>1, <1>2, GoodCons, ConsProps
  <2> QED BY <1>2, <1>3, <2>1 DEF PlainTop
<1>4. CASE ~P
  <2>1. <<>> \o s = s
    BY <1>1
  <2>2. s[1].fn \in {"issue", "active"}
    BY <1>2 DEF On, Is
  <2> QED BY <1>4, <2>1, <2>2 DEF PlainTop
<1> QED BY <1>3, <1>4

(* The operation that runs has nothing below it. *)
LEMMA RunningOperation ==
  ASSUME GroupInv, stack # <<>>, stack[1].fn \in {"op", "artid", "active"}
  PROVE  /\ Tail(stack) = <<>> /\ stack[1] \in FrameType /\ FrameOK(stack[1], cs, cg)
         /\ sel \in {<<>>, cg} /\ Good(stack, cs, cg) /\ CurrentOK(cs, cg) /\ RightGroup
         /\ TopOK(stack, cg, sel, resp)
         /\ \A h \in FrameType : <<h>> \o Tail(stack) = <<h>>
<1>1. Tail(stack) = <<>>
  BY RunningCall, OperationIsLast
<1>2. \A h \in FrameType : <<h>> \o <<>> = <<h>>
  BY Concat
<1> QED BY <1>1, <1>2, RunningCall DEF GroupInv, Is

LEMMA GroupOpInv ==
  ASSUME GroupInv, OpIssue \/ OverviewIssue \/ OpRead \/ OverviewUnknown \/ OpRefused
  PROVE  GroupInv'
<1>0. /\ stack # <<>> /\ stack[1].fn = "op" /\ cs' = cs /\ cg' = cg /\ sel' = sel
      /\ stack[1].at \in {"start", "answer"}
  BY DEF OpIssue, OverviewIssue, OpRead, OverviewUnknown, OpRefused, Top, conn
<1> DEFINE f == stack[1]
<1>1. /\ Tail(stack) = <<>> /\ f \in FrameType /\ FrameOK(f, cs, cg) /\ f.c \in OpCommands
      /\ sel \in {<<>>, cg} /\ Good(stack, cs, cg) /\ CurrentOK(cs, cg) /\ RightGroup
      /\ TopOK(stack, cg, sel, resp)
  BY <1>0, RunningOperation DEF FrameOK
<1>2. f.g = cg
  BY <1>0, <1>1 DEF FrameOK, TopOK, Is
<1>3. ASSUME NEW at \in {"start", "answer"}
      PROVE  /\ Good(Goto(at), cs, cg) /\ Goto(at) # <<>>
             /\ Goto(at)[1].fn = "op" /\ Goto(at)[1].at = at /\ Goto(at)[1].c = f.c /\ Goto(at)[1].g = f.g
  <2>1. at \in Places
    BY DEF Places
  <2>2. /\ [f EXCEPT !.at = at].fn = "op" /\ [f EXCEPT !.at = at].c = f.c
        /\ [f EXCEPT !.at = at].g = f.g /\ [f EXCEPT !.at = at].at = at
    BY <1>0, <1>1, <2>1, GotoProps
  <2>3. FrameOK([f EXCEPT !.at = at], cs, cg)
    BY <1>1, <1>2, <2>2 DEF FrameOK, Is
  <2> QED BY <1>0, <2>1, <2>2, <2>3, GoodGoto
<1>4. ASSUME NEW e, Throw(e), got' = got PROVE GroupInv'
  <2>1. Good(stack', cs, cg) /\ PlainTop(stack')
    BY <1>1, <1>4, GoodThrow
  <2> QED BY <1>0, <1>1, <1>4, <2>1, TopPlain, SameServer
<1>5. ASSUME NEW t, NEW c \in OpCommands, Good(t, cs, cg), t # <<>>, Is(t[1], "op", "answer"), t[1].c = c,
             stack' = Issue(c, <<>>) \o t, got' = got
      PROVE  GroupInv'
  <2>1. c \in Commands
    BY DEF Commands
  <2>2. On(IssueFrame(c, <<>>), t[1], cg)
    BY <1>5, <2>1, NewCalls DEF On
  <2>3. Good(stack', cs, cg) /\ PlainTop(stack')
    BY <1>5, <2>1, <2>2, GoodIssuing
  <2> QED BY <1>0, <1>1, <1>5, <2>3, TopPlain, SameServer
<1>6. CASE OpIssue
  <2>1. stack' = Issue(f.c, <<>>) \o Goto("answer") /\ got' = got
    BY <1>6 DEF OpIssue, hist
  <2>2. Good(Goto("answer"), cs, cg) /\ Goto("answer") # <<>> /\ Is(Goto("answer")[1], "op", "answer") /\ Goto("answer")[1].c = f.c
    BY <1>3 DEF Is
  <2> QED BY <1>1, <1>5, <2>1, <2>2
<1>7. CASE OverviewIssue
  <2>0. got' = got
    BY <1>7 DEF OverviewIssue
  <2>1. CASE "xover" \notin flags[cs]
    <3>1. Throw("NSError")
      BY <1>7, <2>1 DEF OverviewIssue
    <3> QED BY <1>4, <2>0, <3>1
  <2>2. CASE "xover" \in flags[cs]
    <3> DEFINE c == IF "over" \in flags[cs] THEN "over" ELSE "xover"
               e == [f EXCEPT !.c = c]
               h == [f EXCEPT !.c = c, !.at = "answer"]
    <3>1. stack' = Issue(c, <<>>) \o <<h>> \o Tail(stack)
      BY <1>7, <2>2 DEF OverviewIssue
    <3>2. c \in OpCommands /\ c \in Commands
      BY DEF OpCommands, Commands
    <3> HIDE DEF c
    <3>3. e \in FrameType /\ e.fn = "op" /\ e.c = c /\ e.g = f.g
      BY <1>0, <1>1, <3>2 DEF FrameType
    <3>4. h = [e EXCEPT !.at = "answer"]
      OBVIOUS
    <3> HIDE DEF e, h
    <3>5. "answer" \in Places
      BY DEF Places
    <3>6. h \in FrameType /\ h.fn = "op" /\ h.c = c /\ h.g = f.g /\ h.at = "answer"
      BY <3>3, <3>4, <3>5, GotoProps
    <3>7. FrameOK(h, cs, cg) /\ Base(h)
      BY <1>2, <3>2, <3>6 DEF FrameOK, Is, Base
    <3>8. Good(<<h>>, cs, cg)
      BY <3>6, <3>7, GoodOne
    <3>9. <<h>> # <<>> /\ <<h>>[1] = h /\ <<h>> \in Seq(FrameType)
      BY <3>6
    <3>10. stack' = Issue(c, <<>>) \o <<h>>
      <4>1. Issue(c, <<>>) \in Seq(FrameType)
        BY <3>2, NewCalls DEF Issue
      <4> DEFINE u == <<h>>
                 v == Issue(c, <<>>)
      <4> HIDE DEF u, v
      <4>2. v \o u \in Seq(FrameType)
        BY <3>9, <4>1 DEF u, v
      <4>3. (v \o u) \o <<>> = v \o u
        BY <4>2
      <4> QED BY <1>1, <3>1, <4>3 DEF u, v
    <3> QED BY <1>5, <2>0, <3>2, <3>6, <3>8, <3>9, <3>10 DEF Is
  <2> QED BY <2>1, <2>2
<1>8. CASE OpRead
  <2>1. f.at = "answer" /\ resp \in {211, 220, 224} /\ got' = [asked |-> f.g, from |-> cs, sel |-> sel]
    BY <1>8 DEF OpRead, Top
  <2>2. sel # <<>> /\ sel = cg
    BY <1>0, <1>1, <2>1 DEF TopOK, Is
  <2>3. RightGroup'
    BY <1>0, <1>1, <1>2, <2>1, <2>2 DEF RightGroup, CurrentOK
  <2>4. stack' = <<>> \/ Throw("System")
    BY <1>1, <1>8 DEF OpRead, Return
  <2>5. Good(stack', cs, cg) /\ PlainTop(stack')
    <3>1. CASE stack' = <<>>
      BY <3>1 DEF Good, PlainTop
    <3>2. CASE Throw("System")
      BY <1>1, <3>2, GoodThrow
    <3> QED BY <2>4, <3>1, <3>2
  <2> QED BY <1>0, <1>1, <2>3, <2>5, PlainStep
<1>9. CASE OverviewUnknown
  <2>1. stack' = Goto("start") /\ got' = got
    BY <1>9 DEF OverviewUnknown, hist
  <2>2. Good(stack', cs, cg) /\ stack' # <<>> /\ Is(stack'[1], "op", "start") /\ stack'[1].g = cg
    BY <1>2, <1>3, <2>1 DEF Is
  <2>3. TopOK(stack', cg, sel', resp')
    BY <1>0, <1>1, <2>2 DEF TopOK, Is
  <2> QED BY <1>0, <2>1, <2>2, <2>3, SameServer
<1>10. CASE OpRefused
  BY <1>4, <1>10 DEF OpRefused
<1> QED BY <1>6, <1>7, <1>8, <1>9, <1>10

(* The first server of a set of them. *)
LEMMA FirstServer ==
  ASSUME NEW S \in SUBSET Nr, S # {}
  PROVE  Min(S) \in S /\ Min(S) \in Nat
<1>1. Nr \in SUBSET Nat
  BY EntriesAssumption DEF Nr
<1> QED BY <1>1, MinIn

LEMMA RulesOfServer ==
  ASSUME NEW k \in Nr
  PROVE  Entries[k].read \in Seq(Rule)
<1> DEFINE E == [host : BOOLEAN, read : Seq(Rule), offline : BOOLEAN, semioffline : BOOLEAN]
<1>1. \A e \in E : e.read \in Seq(Rule)
  OBVIOUS
<1>2. Entries \in Seq(E)
  BY EntriesAssumption
<1> HIDE DEF E
<1>3. Entries[k] \in E
  BY <1>2 DEF Nr
<1> QED BY <1>1, <1>3

LEMMA ArticleIdInv ==
  ASSUME GroupInv, ArticleIdAnswer \/ ArticleIdNext
  PROVE  GroupInv'
<1>0. stack # <<>> /\ stack[1].fn = "artid" /\ got' = got
  BY DEF ArticleIdAnswer, ArticleIdNext, Top, hist
<1> DEFINE f == stack[1]
<1>1. /\ Tail(stack) = <<>> /\ f \in FrameType /\ FrameOK(f, cs, cg)
      /\ sel \in {<<>>, cg} /\ Good(stack, cs, cg) /\ CurrentOK(cs, cg) /\ RightGroup
  BY <1>0, RunningOperation
<1>2. RightGroup'
  BY <1>0, <1>1 DEF RightGroup
<1>3. CASE ArticleIdAnswer
  <2>1. /\ cs' = cs /\ cg' = cg /\ sel' = sel
        /\ stack' = <<>> \/ stack' = Goto("next")
    BY <1>1, <1>3 DEF ArticleIdAnswer
  <2>2. CASE stack' = <<>>
    <3>1. Good(stack', cs, cg) /\ PlainTop(stack')
      BY <2>2 DEF Good, PlainTop
    <3> QED BY <1>0, <1>1, <2>1, <3>1, TopPlain, SameServer
  <2>3. CASE stack' = Goto("next")
    <3>1. "next" \in Places
      BY DEF Places
    <3>2. [f EXCEPT !.at = "next"].fn = "artid"
      BY <1>0, <1>1, <3>1, GotoProps
    <3>3. FrameOK([f EXCEPT !.at = "next"], cs, cg)
      BY <3>2 DEF FrameOK, Is
    <3>4. Good(stack', cs, cg) /\ PlainTop(stack')
      BY <1>0, <2>3, <3>1, <3>2, <3>3, GoodGoto DEF PlainTop
    <3> QED BY <1>0, <1>1, <2>1, <3>4, TopPlain, SameServer
  <2> QED BY <2>1, <2>2, <2>3
<1>4. CASE ArticleIdNext
  <2> DEFINE ks == {k \in Nr : k > f.i /\ k # f.j /\ Entries[k].host /\ ~Entries[k].offline}
             m == Min(ks)
             e == [f EXCEPT !.at = "answer"]
             h == [f EXCEPT !.at = "answer", !.i = m]
             I == IssueFrame("artid", <<>>)
  <2>1. CASE ks = {}
    <3>1. Throw("NoArticle") /\ UNCHANGED conn
      BY <1>4, <2>1 DEF ArticleIdNext
    <3>2. Good(stack', cs, cg) /\ PlainTop(stack')
      BY <1>1, <3>1, GoodThrow
    <3> QED BY <1>0, <1>1, <3>1, <3>2, TopPlain, SameServer DEF conn
  <2>2. CASE ks # {}
    <3>1. Setserver(m) /\ stack' = (IF st' = "none" THEN <<Connect>> ELSE <<>>) \o <<I, h>>
      BY <1>4, <2>2 DEF ArticleIdNext
    <3>2. m \in Nat
      BY <2>2, FirstServer
    <3> HIDE DEF ks, m
    <3>3. CurrentOK(cs', cg') /\ sel' \in {<<>>, cg'}
      BY <1>1, <3>1, <3>2, NewServer
    <3>4. "answer" \in Places /\ "artid" \in Commands
      BY DEF Places, Commands
    <3>5. e \in FrameType /\ e.fn = "artid" /\ e.at = "answer"
      BY <1>0, <1>1, <3>4, GotoProps
    <3>6. h = [e EXCEPT !.i = m]
      OBVIOUS
    <3> HIDE DEF e, h
    <3>7. h \in FrameType /\ h.fn = "artid" /\ h.at = "answer"
      BY <3>2, <3>5, <3>6, CountProps
    <3>8. FrameOK(h, cs', cg') /\ Base(h)
      BY <3>7 DEF FrameOK, Is, Base
    <3>9. Good(<<h>>, cs', cg') /\ <<h>> # <<>> /\ <<h>>[1] = h /\ <<h>> \in Seq(FrameType)
      BY <3>7, <3>8, GoodOne
    <3>10. /\ I \in FrameType /\ I.fn = "issue" /\ I.c = "artid" /\ I.at = "first"
      BY <3>4, NewCalls
    <3>11. On(I, <<h>>[1], cg')
      BY <3>7, <3>9, <3>10 DEF On, Is
    <3>12. Good(<<I>> \o <<h>>, cs', cg')
      BY <3>4, <3>9, <3>11, GoodIssue
    <3> HIDE DEF I
    <3>13. <<I, h>> = <<I>> \o <<h>>
      BY <3>7, <3>9, <3>10, Concat
    <3>14. Good(<<I, h>>, cs', cg') /\ <<I, h>> # <<>> /\ <<I, h>>[1] = I
      BY <3>12, <3>13
    <3>15. On(Connect, <<I, h>>[1], cg')
      BY <3>10, <3>14, NewCalls DEF On
    <3>16. Good(stack', cs', cg') /\ PlainTop(stack')
      BY <3>1, <3>14, <3>15, GoodConnect
    <3> QED BY <1>2, <3>3, <3>16, PlainStep
  <2> QED BY <2>1, <2>2
<1> QED BY <1>3, <1>4

LEMMA ActiveInv ==
  ASSUME GroupInv, ActiveServer \/ ActiveIssue \/ ActiveRead
  PROVE  GroupInv'
<1>0. stack # <<>> /\ stack[1].fn = "active" /\ got' = got
  BY DEF ActiveServer, ActiveIssue, ActiveRead, Top, hist
<1> DEFINE f == stack[1]
<1>1. /\ Tail(stack) = <<>> /\ f \in FrameType /\ FrameOK(f, cs, cg)
      /\ sel \in {<<>>, cg} /\ Good(stack, cs, cg) /\ CurrentOK(cs, cg) /\ RightGroup
  BY <1>0, RunningOperation
<1>2. RightGroup'
  BY <1>0, <1>1 DEF RightGroup
<1>3. ASSUME NEW at \in {"next", "wild", "body"}, at # "next" => f.at # "next"
      PROVE  /\ Good(Goto(at), cs, cg) /\ Goto(at) # <<>> /\ Is(Goto(at)[1], "active", at)
             /\ PlainTop(Goto(at))
  <2>1. at \in Places
    BY DEF Places
  <2>2. /\ [f EXCEPT !.at = at].fn = "active" /\ [f EXCEPT !.at = at].i = f.i
        /\ [f EXCEPT !.at = at].j = f.j /\ [f EXCEPT !.at = at].at = at
    BY <1>0, <1>1, <2>1, GotoProps
  <2>3. FrameOK([f EXCEPT !.at = at], cs, cg)
    BY <1>0, <1>1, <1>3, <2>2 DEF FrameOK, Is
  <2> QED BY <1>0, <2>1, <2>2, <2>3, GoodGoto DEF Is, PlainTop
<1>4. CASE ActiveServer
  <2> DEFINE ks == {k \in Nr : k > f.i /\ Entries[k].host}
             m == Min(ks)
             e == [f EXCEPT !.i = m]
             d == [e EXCEPT !.j = 1]
             h == [f EXCEPT !.i = m, !.j = 1, !.at = "list"]
  <2>0. f.at = "next"
    BY <1>4 DEF ActiveServer, Top
  <2>1. CASE ks = {}
    <3>1. stack' = <<>> /\ UNCHANGED conn
      BY <1>1, <1>4, <2>1 DEF ActiveServer, Return
    <3>2. Good(stack', cs, cg) /\ PlainTop(stack')
      BY <3>1 DEF Good, PlainTop
    <3> QED BY <1>0, <1>1, <3>1, <3>2, TopPlain, SameServer DEF conn
  <2>2. CASE ks # {}
    <3>1. /\ Setserver(m)
          /\ \/ stack' = <<e>>
             \/ stack' = (IF st' = "none" THEN <<Connect>> ELSE <<>>) \o <<h>>
      BY <1>4, <2>2 DEF ActiveServer
    <3>2. m \in ks /\ m \in Nat
      BY <2>2, FirstServer
    <3>3. m \in Nr /\ Entries[m].host
      BY <3>2
    <3> HIDE DEF ks, m
    <3>4. cs' = m /\ CurrentOK(cs', cg') /\ sel' \in {<<>>, cg'}
      BY <1>1, <3>1, <3>2, NewServer
    <3>5. "list" \in Places /\ f.j \in Nat
      BY <1>0, <1>1 DEF Places, FrameOK
    <3>6. e \in FrameType /\ e.fn = "active" /\ e.at = "next" /\ e.i = m /\ e.j = f.j
      BY <1>0, <1>1, <2>0, <3>2, CountProps
    <3>7. h = [d EXCEPT !.at = "list"]
      OBVIOUS
    <3> HIDE DEF e
    <3>8. d \in FrameType /\ d.fn = "active" /\ d.i = m /\ d.j = 1
      BY <3>6 DEF FrameType, ServerNr
    <3> HIDE DEF d, h
    <3>9. h \in FrameType /\ h.fn = "active" /\ h.i = m /\ h.j = 1 /\ h.at = "list"
      BY <3>5, <3>7, <3>8, GotoProps
    <3>10. CASE stack' = <<e>>
      <4>1. FrameOK(e, cs', cg') /\ Base(e)
        BY <3>2, <3>5, <3>6 DEF FrameOK, Is, Base
      <4>2. Good(stack', cs', cg') /\ PlainTop(stack')
        BY <3>6, <3>10, <4>1, GoodOne DEF PlainTop
      <4> QED BY <1>2, <3>4, <4>2, PlainStep
    <3>11. CASE stack' = (IF st' = "none" THEN <<Connect>> ELSE <<>>) \o <<h>>
      <4>1. FrameOK(h, cs', cg') /\ Base(h)
        BY <3>2, <3>3, <3>4, <3>9 DEF FrameOK, Is, Base
      <4>2. Good(<<h>>, cs', cg') /\ <<h>> # <<>> /\ <<h>>[1] = h
        BY <3>9, <4>1, GoodOne
      <4>3. On(Connect, <<h>>[1], cg')
        BY <3>9, <4>2, NewCalls DEF On, Is
      <4>4. Good(stack', cs', cg') /\ PlainTop(stack')
        BY <3>11, <4>2, <4>3, GoodConnect
      <4> QED BY <1>2, <3>4, <4>4, PlainStep
    <3> QED BY <3>1, <3>10, <3>11
  <2> QED BY <2>1, <2>2
<1>5. CASE ActiveIssue
  <2>0. /\ f.at # "next" /\ cs' = cs /\ cg' = cg /\ sel' = sel
        /\ stack' = Issue("wildmat", <<>>) \o Goto("wild") \/ stack' = Issue("active", <<>>) \o Goto("body")
    BY <1>5 DEF ActiveIssue, Top, conn
  <2>1. "wildmat" \in Commands /\ "active" \in Commands
    BY DEF Commands
  <2>2. /\ Good(Goto("wild"), cs, cg) /\ Goto("wild") # <<>> /\ Is(Goto("wild")[1], "active", "wild")
        /\ Good(Goto("body"), cs, cg) /\ Goto("body") # <<>> /\ Is(Goto("body")[1], "active", "body")
    BY <1>3, <2>0
  <2>3. On(IssueFrame("wildmat", <<>>), Goto("wild")[1], cg) /\ On(IssueFrame("active", <<>>), Goto("body")[1], cg)
    BY <2>1, <2>2, NewCalls DEF On
  <2>4. Good(stack', cs, cg) /\ PlainTop(stack')
    <3>1. CASE stack' = Issue("wildmat", <<>>) \o Goto("wild")
      BY <2>1, <2>2, <2>3, <3>1, GoodIssuing
    <3>2. CASE stack' = Issue("active", <<>>) \o Goto("body")
      BY <2>1, <2>2, <2>3, <3>2, GoodIssuing
    <3> QED BY <2>0, <3>1, <3>2
  <2> QED BY <1>0, <1>1, <2>0, <2>4, TopPlain, SameServer
<1>6. CASE ActiveRead
  <2>0. /\ f.at \in {"wild", "body"} /\ cs' = cs /\ cg' = cg /\ sel' = sel
        /\ stack' = ActiveNext \/ Throw("NSError")
    BY <1>6 DEF ActiveRead, Top
  <2>1. Good(ActiveNext, cs, cg) /\ PlainTop(ActiveNext)
    <3>1. CASE f.at = "wild" /\ f.j < Len(Entries[cs].read)
      <4> DEFINE e == [f EXCEPT !.j = @ + 1]
                 h == [f EXCEPT !.j = @ + 1, !.at = "list"]
      <4>1. ActiveNext = <<h>>
        BY <3>1 DEF ActiveNext
      <4>2. f.j \in Nat /\ cs \in Nr /\ Entries[cs].host /\ f.i = cs /\ (f.j = 1 \/ f.j \in DOMAIN Entries[cs].read)
        BY <1>0, <1>1, <3>1 DEF FrameOK
      <4>3. f.j + 1 \in Int /\ f.j + 1 \in Nat /\ f.j + 1 \in DOMAIN Entries[cs].read
        <5>1. Entries[cs].read \in Seq(Rule)
          BY <4>2, RulesOfServer
        <5> HIDE DEF f
        <5>2. Len(Entries[cs].read) \in Nat /\ DOMAIN Entries[cs].read = 1 .. Len(Entries[cs].read)
          BY <5>1
        <5> QED BY <3>1, <4>2, <5>2
      <4>4. e \in FrameType /\ e.fn = "active" /\ e.i = f.i /\ e.j = f.j + 1
        BY <1>0, <1>1, <4>3 DEF FrameType, ServerNr
      <4>5. h = [e EXCEPT !.at = "list"] /\ "list" \in Places
        BY DEF Places
      <4> HIDE DEF e, h
      <4>6. h \in FrameType /\ h.fn = "active" /\ h.i = f.i /\ h.j = f.j + 1 /\ h.at = "list"
        BY <4>4, <4>5, GotoProps
      <4>7. FrameOK(h, cs, cg) /\ Base(h)
        <5>1. h.i \in Nat /\ h.i = cs
          BY <1>0, <1>1, <4>2, <4>6 DEF FrameOK
        <5> QED BY <4>2, <4>3, <4>6, <5>1 DEF FrameOK, Is, Base
      <4> QED BY <4>1, <4>6, <4>7, GoodOne DEF PlainTop
    <3>2. CASE ~(f.at = "wild" /\ f.j < Len(Entries[cs].read))
      <4>1. ActiveNext = Goto("next")
        BY <3>2 DEF ActiveNext
      <4> QED BY <1>3, <4>1
    <3> QED BY <3>1, <3>2
  <2>2. Good(stack', cs, cg) /\ PlainTop(stack')
    <3>1. CASE stack' = ActiveNext
      BY <2>1, <3>1
    <3>2. CASE Throw("NSError")
      BY <1>1, <3>2, GoodThrow
    <3> QED BY <2>0, <3>1, <3>2
  <2> QED BY <1>0, <1>1, <2>0, <2>2, TopPlain, SameServer
<1> QED BY <1>4, <1>5, <1>6

(* The start of an operation. *)
LEMMA StartInv ==
  ASSUME GroupInv, NEW t, Start(t), Good(t, cs, cg),
         PlainTop(t) \/ (Is(t[1], "op", "start") /\ t[1].g = cg)
  PROVE  GroupInv'
<1>1. stack = <<>> /\ stack' = t /\ got' = Nothing /\ cs' = cs /\ cg' = cg /\ sel' = sel
  BY DEF Start, conn
<1>2. sel \in {<<>>, cg} /\ CurrentOK(cs, cg)
  BY <1>1 DEF GroupInv, TopOK
<1>3. RightGroup'
  BY <1>1 DEF RightGroup, Nothing
<1>4. CASE PlainTop(t)
  BY <1>1, <1>2, <1>3, <1>4, PlainStep
<1>5. CASE Is(t[1], "op", "start") /\ t[1].g = cg
  <2>1. TopOK(stack', cg', sel', resp')
    BY <1>1, <1>2, <1>5 DEF TopOK, Is
  <2> QED BY <1>1, <1>2, <1>3, <2>1 DEF GroupInv
<1> QED BY <1>4, <1>5

LEMMA StartGroupInv ==
  ASSUME GroupInv, NEW g \in Group, Selectgroup(g) \/ Listgroup(g) \/ Overviewdb(g) \/ Article(g)
  PROVE  GroupInv'
<1>1. /\ Select(g) \in FrameType /\ FrameOK(Select(g), cs, cg) /\ Select(g).fn = "selectgroup"
      /\ Select(g).at = "start" /\ Select(g).g = g /\ Base(Select(g))
  BY NewCalls DEF Base
<1>2. CASE Selectgroup(g)
  <2>1. Start(<<Select(g)>>)
    BY <1>2 DEF Selectgroup, Selecting
  <2>2. Good(<<Select(g)>>, cs, cg)
    BY <1>1, GoodOne
  <2>3. PlainTop(<<Select(g)>>)
    BY <1>1 DEF PlainTop, Is
  <2> QED BY <2>1, <2>2, <2>3, StartInv
<1>3. CASE Listgroup(g) \/ Overviewdb(g) \/ Article(g)
  <2>1. PICK c \in OpCommands : Start(Selecting(g) \o <<Frame("op", c, g, "start", 0, 0)>>)
    BY <1>3 DEF Listgroup, Overviewdb, Article, OpCommands
  <2> DEFINE f == Frame("op", c, g, "start", 0, 0)
  <2>2. f \in FrameType /\ f.fn = "op" /\ f.at = "start" /\ f.g = g /\ f.c = c
    <3>1. c \in Commands
      BY <2>1 DEF Commands
    <3>2. "op" \in Calls /\ "start" \in Places /\ 0 \in ServerNr /\ 0 \in Int
      BY DEF Calls, Places, ServerNr
    <3> QED BY <3>1, <3>2 DEF Frame, FrameType
  <2>3. FrameOK(f, cs, cg) /\ Base(f)
    BY <2>2 DEF FrameOK, Is, Base
  <2> HIDE DEF f
  <2>4. Good(<<f>>, cs, cg) /\ <<f>> # <<>> /\ <<f>>[1] = f /\ <<f>> \in Seq(FrameType)
    BY <2>2, <2>3, GoodOne
  <2>5. CASE cg = g
    <3>1. Selecting(g) \o <<f>> = <<f>>
      <4> DEFINE u == <<f>>
      <4> HIDE DEF u
      <4>1. <<>> \o u = u
        BY <2>4 DEF u
      <4> QED BY <2>5, <4>1 DEF Selecting, u
    <3>2. Start(<<f>>)
      BY <2>1, <3>1 DEF f
    <3> QED BY <2>2, <2>4, <2>5, <3>2, StartInv DEF Is
  <2>6. CASE cg # g
    <3>1. Start(<<Select(g)>> \o <<f>>)
      BY <2>1, <2>6 DEF f, Selecting
    <3>2. On(Select(g), <<f>>[1], cg)
      BY <1>1, <2>2, <2>4 DEF On, Is
    <3>3. Good(<<Select(g)>> \o <<f>>, cs, cg)
      BY <1>1, <2>4, <3>2, GoodCons
    <3>4. PlainTop(<<Select(g)>> \o <<f>>)
      <4>1. (<<Select(g)>> \o <<f>>)[1] = Select(g)
        BY <1>1, <2>4, ConsProps
      <4> QED BY <1>1, <4>1 DEF PlainTop, Is
    <3> QED BY <3>1, <3>3, <3>4, StartInv
  <2> QED BY <2>5, <2>6
<1> QED BY <1>2, <1>3

LEMMA StartOtherInv ==
  ASSUME GroupInv, ArticleId \/ Active
  PROVE  GroupInv'
<1>1. CASE Active
  <2> DEFINE f == Frame("active", "", <<>>, "next", 0, 0)
  <2>1. f \in FrameType /\ f.fn = "active" /\ f.at = "next" /\ f.i = 0 /\ f.j = 0
    BY DEF Frame, FrameType, Calls, Commands, Places, ServerNr
  <2>2. Start(<<f>>)
    BY <1>1 DEF Active
  <2> HIDE DEF f
  <2>3. FrameOK(f, cs, cg) /\ Base(f)
    BY <2>1 DEF FrameOK, Is, Base
  <2>4. Good(<<f>>, cs, cg) /\ PlainTop(<<f>>)
    BY <2>1, <2>3, GoodOne DEF PlainTop
  <2> QED BY <2>2, <2>4, StartInv
<1>2. CASE ArticleId
  <2> DEFINE asks == cs # 0 /\ ~Entries[cs].offline
             f == Frame("artid", "artid", <<>>, IF asks THEN "answer" ELSE "next", 0, cs)
  <2>0. cs \in ServerNr
    BY DEF GroupInv, CurrentOK
  <2>1. f \in FrameType /\ f.fn = "artid" /\ f.at = IF asks THEN "answer" ELSE "next"
    BY <2>0 DEF Frame, FrameType, Calls, Commands, Places
  <2>2. Start((IF asks THEN Issue("artid", <<>>) ELSE <<>>) \o <<f>>)
    BY <1>2 DEF ArticleId
  <2> HIDE DEF f
  <2>3. FrameOK(f, cs, cg) /\ Base(f)
    BY <2>1 DEF FrameOK, Is, Base
  <2>4. Good(<<f>>, cs, cg) /\ <<f>> # <<>> /\ <<f>>[1] = f /\ <<f>> \in Seq(FrameType) /\ PlainTop(<<f>>)
    BY <2>1, <2>3, GoodOne DEF PlainTop
  <2>5. CASE asks
    <3>1. "artid" \in Commands
      BY DEF Commands
    <3>2. On(IssueFrame("artid", <<>>), <<f>>[1], cg)
      BY <2>1, <2>4, <2>5, <3>1, NewCalls DEF On, Is
    <3>3. Good(Issue("artid", <<>>) \o <<f>>, cs, cg) /\ PlainTop(Issue("artid", <<>>) \o <<f>>)
      BY <2>4, <3>1, <3>2, GoodIssuing
    <3>4. Start(Issue("artid", <<>>) \o <<f>>)
      BY <2>2, <2>5
    <3> QED BY <3>3, <3>4, StartInv
  <2>6. CASE ~asks
    <3>1. Start(<<>> \o <<f>>)
      BY <2>2, <2>6
    <3>2. <<>> \o <<f>> = <<f>>
      <4> DEFINE u == <<f>>
      <4> HIDE DEF u
      <4>1. <<>> \o u = u
        BY <2>4 DEF u
      <4> QED BY <4>1 DEF u
    <3> QED BY <2>4, <3>1, <3>2, StartInv
  <2> QED BY <2>5, <2>6
<1> QED BY <1>1, <1>2

(* Between two operations. *)
LEMMA IdleInv ==
  ASSUME GroupInv, Setserverlist \/ IdleClose \/ GroupRemoved
  PROVE  GroupInv'
<1>1. stack = <<>> /\ stack' = <<>> /\ got' = got
  BY DEF Setserverlist, IdleClose, GroupRemoved, hist
<1>2. sel \in {<<>>, cg} /\ CurrentOK(cs, cg) /\ RightGroup
  BY <1>1 DEF GroupInv, TopOK
<1>3. RightGroup'
  BY <1>1, <1>2 DEF RightGroup
<1>4. Good(stack', cs', cg') /\ PlainTop(stack')
  BY <1>1 DEF Good, PlainTop
<1>5. sel' \in {<<>>, cg'} /\ CurrentOK(cs', cg')
  <2>1. CASE Setserverlist
    BY <2>1 DEF Setserverlist, CurrentOK, ServerNr
  <2>2. CASE IdleClose \/ GroupRemoved
    BY <1>2, <2>2 DEF IdleClose, GroupRemoved, conn
  <2> QED BY <2>1, <2>2
<1> QED BY <1>3, <1>4, <1>5, PlainStep

LEMMA GroupInvInit == Init => GroupInv
<1> SUFFICES ASSUME Init PROVE GroupInv
  OBVIOUS
<1>1. Good(stack, cs, cg) /\ TopOK(stack, cg, sel, resp)
  BY DEF Init, Good, TopOK
<1>2. CurrentOK(cs, cg) /\ RightGroup
  BY DEF Init, CurrentOK, ServerNr, RightGroup, Nothing
<1> QED BY <1>1, <1>2 DEF GroupInv

LEMMA GroupInvNext == GroupInv /\ [Next]_vars => GroupInv'
<1> SUFFICES ASSUME GroupInv, [Next]_vars PROVE GroupInv'
  OBVIOUS
<1>1. CASE UNCHANGED vars
  BY <1>1 DEF GroupInv, RightGroup, vars
<1>2. CASE Running
  BY <1>2, IssuingInv, ConnectingInv, SelectingInv, GroupOpInv, ArticleIdInv, ActiveInv DEF Running, Operating
<1>3. ASSUME NEW g \in Group, Selectgroup(g) \/ Listgroup(g) \/ Overviewdb(g) \/ Article(g) PROVE GroupInv'
  BY <1>3, StartGroupInv
<1>4. CASE ArticleId \/ Active \/ Setserverlist \/ IdleClose \/ GroupRemoved
  BY <1>4, StartOtherInv, IdleInv
<1> QED BY <1>1, <1>2, <1>3, <1>4 DEF Next

LEMMA GroupInvariant == Spec => []GroupInv
<1>1. Init => GroupInv
  BY GroupInvInit
<1>2. GroupInv /\ [Next]_vars => GroupInv'
  BY GroupInvNext
<1> QED BY <1>1, <1>2, PTL DEF Spec

(* RServer reads articles, overviews and article lists of a group only from the
   server that is responsible for it and with that group selected there, for
   any list of servers and any sequence of lost, refused and repeated
   connections. *)
THEOREM ReadsFromTheRightGroup == Spec => []RightGroup
<1>1. GroupInv => RightGroup
  BY DEF GroupInv
<1> QED BY <1>1, GroupInvariant, PTL
-----------------------------------------------------------------------------
(* A broken connection that is found by an operation *)

(* A call of issue has all its attempts until it meets a broken connection, and
   one that reconnects does not find a broken one. *)
AttemptsLeft(f, t) ==
  f.fn = "issue" => IF f.at = "again" THEN t # "bad" ELSE f.i = Retries + 1

AllLeft(s, t) == \A n \in 1 .. Len(s) : AttemptsLeft(s[n], t)

(* That is so while no fault has happened, and no SystemError is thrown. *)
HitInv == ~hit => AllLeft(stack, st) /\ res # "System"

LEMMA LeftCons ==
  ASSUME NEW s \in Seq(FrameType), NEW f \in FrameType, NEW t, AllLeft(s, t), AttemptsLeft(f, t)
  PROVE  <<f>> \o s \in Seq(FrameType) /\ AllLeft(<<f>> \o s, t)
<1> DEFINE u == <<f>> \o s
<1>1. /\ u \in Seq(FrameType) /\ Len(u) = Len(s) + 1 /\ u[1] = f
      /\ \A n \in 2 .. Len(s) + 1 : u[n] = s[n - 1]
  BY ConsProps
<1>2. Len(s) \in Nat
  OBVIOUS
<1> HIDE DEF u
<1>3. ASSUME NEW n \in 1 .. Len(u) PROVE AttemptsLeft(u[n], t)
  <2>1. CASE n = 1
    BY <1>1, <2>1
  <2>2. CASE n # 1
    <3>1. n \in 2 .. Len(s) + 1 /\ n - 1 \in 1 .. Len(s)
      BY <1>1, <1>2, <2>2
    <3> QED BY <1>1, <3>1 DEF AllLeft
  <2> QED BY <2>1, <2>2
<1>4. AllLeft(u, t)
  BY <1>3 DEF AllLeft
<1> QED BY <1>1, <1>4 DEF u

LEMMA LeftTail ==
  ASSUME NEW s \in Seq(FrameType), s # <<>>, NEW t, AllLeft(s, t)
  PROVE  AllLeft(Tail(s), t) /\ AttemptsLeft(s[1], t)
<1>1. /\ Len(s) \in Nat \ {0} /\ Len(Tail(s)) = Len(s) - 1
      /\ \A n \in 1 .. Len(s) - 1 : Tail(s)[n] = s[n + 1]
  BY TailProps
<1>2. ASSUME NEW n \in 1 .. Len(Tail(s)) PROVE AttemptsLeft(Tail(s)[n], t)
  <2>1. n \in 1 .. Len(s) - 1 /\ n + 1 \in 1 .. Len(s)
    BY <1>1
  <2> QED BY <1>1, <2>1 DEF AllLeft
<1>3. 1 \in 1 .. Len(s)
  BY <1>1
<1> QED BY <1>2, <1>3 DEF AllLeft

(* The stream matters only if it is broken. *)
LEMMA LeftStream ==
  ASSUME NEW s, NEW t, NEW u, AllLeft(s, t), u # "bad"
  PROVE  AllLeft(s, u)
BY DEF AllLeft, AttemptsLeft

(* An exception other than a SystemError ends calls of issue and goes on with
   none of them. *)
LEMMA LeftThrow ==
  ASSUME NEW e, e # "System", Throw(e), stack \in Seq(FrameType), NEW t, AllLeft(stack, t), res # "System"
  PROVE  AllLeft(stack', t) /\ res' # "System"
<1> DEFINE ks == {n \in DOMAIN stack : Catches(e, stack[n])}
           k == Min(ks)
           f == Resume(e, stack[k])
           u == SubSeq(stack, k + 1, Len(stack))
<1>0. Len(stack) \in Nat /\ DOMAIN stack = 1 .. Len(stack)
  OBVIOUS
<1>1. CASE ks = {}
  <2>1. stack' = <<>> /\ res' = e
    BY <1>1 DEF Throw
  <2> QED BY <2>1 DEF AllLeft
<1>2. CASE ks # {}
  <2>1. stack' = <<f>> \o u /\ res' = res
    BY <1>2 DEF Throw
  <2>2. ks \in SUBSET Nat
    BY <1>0
  <2>3. k \in ks
    BY <1>2, <2>2, MinIn
  <2>4. k \in 1 .. Len(stack) /\ Catches(e, stack[k])
    BY <1>0, <2>3
  <2> HIDE DEF k, ks
  <2>5. f \in FrameType /\ f.fn = "active"
    <3>1. stack[k] \in FrameType /\ stack[k].fn = "active"
      BY <1>0, <2>4 DEF Catches
    <3> QED BY <3>1 DEF Resume, FrameType, Places
  <2>6. u \in Seq(FrameType) /\ AllLeft(u, t)
    <3>1. /\ u \in Seq(FrameType) /\ Len(u) = Len(stack) - k
          /\ \A m \in 1 .. Len(stack) - k : u[m] = stack[k + m]
      BY <1>0, <2>4
    <3> HIDE DEF u
    <3>2. ASSUME NEW m \in 1 .. Len(u) PROVE AttemptsLeft(u[m], t)
      <4>1. k + m \in 1 .. Len(stack) /\ u[m] = stack[k + m]
        BY <1>0, <2>4, <3>1
      <4> QED BY <4>1 DEF AllLeft
    <3> QED BY <3>1, <3>2 DEF AllLeft
  <2> HIDE DEF f, u
  <2>7. AttemptsLeft(f, t)
    BY <2>5 DEF AttemptsLeft
  <2> QED BY <2>1, <2>5, <2>6, <2>7, LeftCons
<1> QED BY <1>1, <1>2

(* New calls. *)
LEMMA NewLeft ==
  ASSUME NEW t
  PROVE  /\ AttemptsLeft(Connect, t) /\ Connect \in FrameType
         /\ \A c \in Commands : \A g \in Group \cup {<<>>} :
              AttemptsLeft(IssueFrame(c, g), t) /\ IssueFrame(c, g) \in FrameType
         /\ \A g \in Group : AttemptsLeft(Select(g), t) /\ Select(g) \in FrameType
<1>1. AttemptsLeft(Connect, t) /\ \A g \in Group : AttemptsLeft(Select(g), t)
  BY DEF AttemptsLeft, Connect, Select, Frame
<1>2. \A c \in Commands : \A g \in Group \cup {<<>>} : AttemptsLeft(IssueFrame(c, g), t)
  BY DEF AttemptsLeft, IssueFrame, Frame
<1> QED BY <1>1, <1>2, NewCalls

LEMMA LeftIssue ==
  ASSUME NEW s \in Seq(FrameType), NEW t, AllLeft(s, t), NEW c \in Commands, NEW g \in Group \cup {<<>>}
  PROVE  /\ AllLeft(<<Connect>> \o s, t)
         /\ AllLeft(<<IssueFrame(c, g)>> \o s, t)
         /\ AllLeft(<<Connect, IssueFrame(c, g)>> \o s, t)
         /\ AllLeft(Issue(c, g) \o s, t)
<1> DEFINE I == IssueFrame(c, g)
           u == <<I>> \o s
<1>1. AttemptsLeft(Connect, t) /\ Connect \in FrameType /\ AttemptsLeft(I, t) /\ I \in FrameType
  BY NewLeft
<1> HIDE DEF I
<1>2. AllLeft(<<Connect>> \o s, t) /\ u \in Seq(FrameType) /\ AllLeft(u, t)
  BY <1>1, LeftCons
<1>3. <<Connect, I>> \o s = <<Connect>> \o u
  BY <1>1, Concat
<1> HIDE DEF u
<1>4. AllLeft(<<Connect>> \o u, t)
  BY <1>1, <1>2, LeftCons
<1>5. Issue(c, g) = <<I>> \/ Issue(c, g) = <<Connect, I>>
  BY DEF Issue, I
<1> QED BY <1>2, <1>3, <1>4, <1>5 DEF I, u

(* The call that runs goes on at another place. *)
LEMMA LeftGoto ==
  ASSUME stack \in Seq(FrameType), stack # <<>>, NEW t, AllLeft(stack, t), NEW at \in Places,
         stack[1].fn # "issue" \/ (at = "retry" /\ stack[1].i = Retries + 1)
  PROVE  Goto(at) \in Seq(FrameType) /\ AllLeft(Goto(at), t)
<1> DEFINE h == [stack[1] EXCEPT !.at = at]
<1>1. stack[1] \in FrameType /\ Tail(stack) \in Seq(FrameType)
  BY TailProps
<1>2. h \in FrameType /\ h.fn = stack[1].fn /\ h.i = stack[1].i /\ h.at = at
  BY <1>1, GotoProps
<1>3. Goto(at) = <<h>> \o Tail(stack)
  BY DEF Goto
<1> HIDE DEF h
<1>4. AttemptsLeft(h, t)
  BY <1>2 DEF AttemptsLeft
<1>5. AllLeft(Tail(stack), t)
  BY LeftTail
<1> QED BY <1>1, <1>2, <1>3, <1>4, <1>5, LeftCons

(* What an operation that has met no fault knows. *)
LEMMA Unhit ==
  ASSUME GroupInv, HitInv, ~hit
  PROVE  /\ stack \in Seq(FrameType) /\ AllLeft(stack, st) /\ res # "System"
         /\ stack # <<>> => /\ stack[1] \in FrameType /\ Tail(stack) \in Seq(FrameType)
                            /\ AllLeft(Tail(stack), st) /\ AttemptsLeft(stack[1], st)
<1>1. stack \in Seq(FrameType)
  BY DEF GroupInv, Good
<1>2. AllLeft(stack, st) /\ res # "System"
  BY DEF HitInv
<1> QED BY <1>1, <1>2, TailProps, LeftTail

LEMMA IssuingHit ==
  ASSUME GroupInv, HitInv, Issuing, ~hit', Retries >= 1
  PROVE  AllLeft(stack', st') /\ res' # "System"
<1>0. ~hit /\ hit' = hit /\ stack # <<>> /\ stack[1].fn = "issue" /\ stack[1].at \in {"first", "again", "retry"}
  BY DEF Issuing, IssueAnswered, IssueLost, IssueRetry, Top, env, Fault
<1> DEFINE f == stack[1]
<1>1. /\ stack \in Seq(FrameType) /\ AllLeft(stack, st) /\ res # "System"
      /\ f \in FrameType /\ Tail(stack) \in Seq(FrameType) /\ AllLeft(Tail(stack), st)
      /\ AttemptsLeft(f, st)
  BY <1>0, Unhit
<1>2. CASE IssueAnswered
  <2>1. (stack' = Tail(stack) /\ res' = res) \/ Throw("Response")
    BY <1>2 DEF IssueAnswered, Return
  <2>2. st' = st
    BY <1>2 DEF IssueAnswered
  <2>3. CASE Throw("Response")
    BY <1>1, <2>2, <2>3, LeftThrow
  <2> QED BY <1>1, <2>1, <2>2, <2>3
<1>3. CASE IssueLost
  <2>1. st = "bad" /\ st' = st /\ stack' = Goto("retry") /\ res' = res /\ f.at # "retry"
    BY <1>0, <1>3 DEF IssueLost, Fault, Top, hist
  <2>2. f.i = Retries + 1
    BY <1>0, <1>1, <2>1 DEF AttemptsLeft
  <2>3. "retry" \in Places
    BY DEF Places
  <2> QED BY <1>0, <1>1, <2>1, <2>2, <2>3, LeftGoto
<1>4. CASE IssueRetry
  <2>1. f.at = "retry" /\ f.i = Retries + 1
    BY <1>0, <1>1, <1>4 DEF AttemptsLeft, IssueRetry, Top
  <2>2. f.i # 1
    BY <2>1, RetriesAssumption
  <2> DEFINE e == [f EXCEPT !.i = @ - 1]
             h == [f EXCEPT !.i = @ - 1, !.at = "again"]
             t == <<h>> \o Tail(stack)
  <2>3. st' = "none" /\ stack' = <<Connect, h>> \o Tail(stack) /\ res' = res
    BY <1>4, <2>2 DEF IssueRetry
  <2>4. f.i - 1 \in Int /\ "again" \in Places
    BY <2>1, RetriesAssumption DEF Places
  <2>5. e \in FrameType
    BY <1>1, <2>4, CountProps
  <2>6. h = [e EXCEPT !.at = "again"]
    OBVIOUS
  <2> HIDE DEF e, h
  <2>7. h \in FrameType /\ h.at = "again"
    BY <2>4, <2>5, <2>6, GotoProps
  <2>8. AttemptsLeft(h, "none") /\ AllLeft(Tail(stack), "none")
    BY <1>1, <2>7, LeftStream DEF AttemptsLeft
  <2>9. t \in Seq(FrameType) /\ AllLeft(t, "none")
    BY <1>1, <2>7, <2>8, LeftCons
  <2>10. stack' = <<Connect>> \o t
    BY <1>1, <2>3, <2>7, NewLeft, Concat
  <2> HIDE DEF t
  <2>11. AllLeft(<<Connect>> \o t, "none")
    BY <2>9, NewLeft, LeftCons
  <2> QED BY <1>1, <2>3, <2>10, <2>11
<1> QED BY <1>2, <1>3, <1>4 DEF Issuing

LEMMA ConnectingHit ==
  ASSUME GroupInv, HitInv, Connecting, ~hit'
  PROVE  AllLeft(stack', st') /\ res' # "System"
<1>0. /\ ~hit /\ stack # <<>> /\ stack[1].fn = "connect" /\ res' = res
      /\ ConnectGreeted \/ ConnectReader \/ ConnectFmt \/ ConnectEnd
  BY DEF Connecting, ConnectRefused, ConnectLost, ConnectBusy, ConnectGreeted, ConnectReader,
         ConnectFmt, ConnectEnd, Top, env, Fault, hist
<1>1. /\ stack \in Seq(FrameType) /\ AllLeft(stack, st) /\ res # "System"
      /\ AllLeft(Tail(stack), st)
  BY <1>0, Unhit
<1>2. ASSUME NEW at \in Places
      PROVE  Goto(at) \in Seq(FrameType) /\ AllLeft(Goto(at), st) /\ <<>> \o Goto(at) = Goto(at)
  <2>1. Goto(at) \in Seq(FrameType) /\ AllLeft(Goto(at), st)
    BY <1>0, <1>1, LeftGoto
  <2> QED BY <2>1
<1>3. CASE ConnectGreeted
  <2>1. "greeted" \in Places /\ "reader" \in Commands /\ st' = "good"
    BY <1>3 DEF Places, Commands, ConnectGreeted
  <2>2. /\ Goto("greeted") \in Seq(FrameType) /\ AllLeft(Goto("greeted"), "good")
        /\ <<>> \o Goto("greeted") = Goto("greeted")
    BY <1>2, <2>1, LeftStream
  <2>3. stack' = <<IssueFrame("reader", <<>>)>> \o Goto("greeted") \/ stack' = <<>> \o Goto("greeted")
    BY <1>3 DEF ConnectGreeted
  <2>4. AllLeft(<<IssueFrame("reader", <<>>)>> \o Goto("greeted"), "good")
    BY <2>1, <2>2, LeftIssue
  <2> QED BY <1>0, <1>1, <2>1, <2>2, <2>3, <2>4
<1>4. CASE ConnectReader
  <2>1. "fmt" \in Places /\ "fmt" \in Commands /\ st' = st
    BY <1>4 DEF Places, Commands, ConnectReader, conn
  <2>2. Goto("fmt") \in Seq(FrameType) /\ AllLeft(Goto("fmt"), st) /\ <<>> \o Goto("fmt") = Goto("fmt")
    BY <1>2, <2>1
  <2>3. stack' = Issue("fmt", <<>>) \o Goto("fmt") \/ stack' = <<>> \o Goto("fmt")
    BY <1>4 DEF ConnectReader
  <2>4. AllLeft(Issue("fmt", <<>>) \o Goto("fmt"), st)
    BY <2>1, <2>2, LeftIssue
  <2> QED BY <1>0, <1>1, <2>1, <2>2, <2>3, <2>4
<1>5. CASE ConnectFmt
  <2>1. "end" \in Places /\ st' = st
    BY <1>5 DEF Places, ConnectFmt, conn
  <2>2. Goto("end") \in Seq(FrameType) /\ AllLeft(Goto("end"), st) /\ <<>> \o Goto("end") = Goto("end")
    BY <1>2, <2>1
  <2>3. (cg # <<>> /\ stack' = <<Select(cg)>> \o Goto("end")) \/ stack' = <<>> \o Goto("end")
    BY <1>5 DEF ConnectFmt
  <2>4. cg # <<>> => AllLeft(<<Select(cg)>> \o Goto("end"), st)
    <3>1. cg # <<>> => cg \in Group
      BY DEF GroupInv, CurrentOK
    <3> QED BY <2>2, <3>1, NewLeft, LeftCons
  <2> QED BY <1>0, <1>1, <2>1, <2>2, <2>3, <2>4
<1>6. CASE ConnectEnd
  BY <1>0, <1>1, <1>6 DEF ConnectEnd, Return, conn
<1> QED BY <1>0, <1>3, <1>4, <1>5, <1>6

LEMMA SelectingHit ==
  ASSUME GroupInv, HitInv, SelectgroupIssue \/ SelectgroupAnswer, ~hit'
  PROVE  AllLeft(stack', st') /\ res' # "System"
<1>0. ~hit /\ stack # <<>> /\ stack[1].fn = "selectgroup"
  BY DEF SelectgroupIssue, SelectgroupAnswer, Top, env
<1> DEFINE g == stack[1].g
<1>1. /\ stack \in Seq(FrameType) /\ AllLeft(stack, st) /\ res # "System"
      /\ AllLeft(Tail(stack), st) /\ g \in Group
  BY <1>0, Unhit, RunningCall DEF FrameOK
<1>2. ASSUME Throw("NoGroup"), st' = st PROVE AllLeft(stack', st') /\ res' # "System"
  BY <1>1, <1>2, LeftThrow
<1>3. CASE SelectgroupAnswer
  <2>1. st' = st /\ ((stack' = Tail(stack) /\ res' = res) \/ Throw("NoGroup"))
    BY <1>3 DEF SelectgroupAnswer, Return
  <2> QED BY <1>1, <1>2, <2>1
<1>4. CASE SelectgroupIssue /\ ServerOf[g] = 0
  <2>1. st' = st /\ Throw("NoGroup")
    BY <1>4 DEF SelectgroupIssue, conn
  <2> QED BY <1>2, <2>1
<1>5. CASE SelectgroupIssue /\ ServerOf[g] # 0
  <2> DEFINE I == IssueFrame("group", g)
             t == Goto("answer")
  <2>1. /\ Setserver(ServerOf[g]) /\ res' = res
        /\ stack' = (<<Connect>> \o <<I>>) \o t \/ stack' = (<<>> \o <<I>>) \o t
    BY <1>5 DEF SelectgroupIssue
  <2>2. st' = st \/ st' = "none"
    BY <2>1 DEF Setserver
  <2>3. "answer" \in Places /\ "group" \in Commands
    BY DEF Places, Commands
  <2>4. t \in Seq(FrameType) /\ AllLeft(t, st)
    BY <1>0, <1>1, <2>3, LeftGoto
  <2> HIDE DEF t
  <2>5. AllLeft(t, st')
    BY <2>2, <2>4, LeftStream
  <2>6. I \in FrameType /\ Connect \in FrameType
    BY <1>1, <2>3, NewLeft
  <2>7. AllLeft(<<I>> \o t, st') /\ AllLeft(<<Connect, I>> \o t, st')
    BY <1>1, <2>3, <2>4, <2>5, LeftIssue
  <2> HIDE DEF I
  <2>8. <<I>> \in Seq(FrameType)
    BY <2>6
  <2>9. <<Connect, I>> = <<Connect>> \o <<I>>
    BY <2>6, <2>8, Concat
  <2>10. <<>> \o <<I>> = <<I>>
    <3> DEFINE u == <<I>>
    <3> HIDE DEF u
    <3>1. <<>> \o u = u
      BY <2>8 DEF u
    <3> QED BY <3>1 DEF u
  <2> QED BY <1>1, <2>1, <2>7, <2>9, <2>10
<1> QED BY <1>3, <1>4, <1>5

LEMMA GroupOpHit ==
  ASSUME GroupInv, HitInv, ~hit', OpIssue \/ OverviewIssue \/ OpRead \/ OverviewUnknown \/ OpRefused
  PROVE  AllLeft(stack', st') /\ res' # "System"
<1>0. ~hit /\ stack # <<>> /\ stack[1].fn = "op" /\ st' = st
  <2>1. CASE OpRead
    BY <2>1 DEF OpRead, Top, env, Fault
  <2>2. CASE OpIssue \/ OverviewIssue \/ OverviewUnknown \/ OpRefused
    <3>1. stack # <<>> /\ stack[1].fn = "op"
      BY <2>2 DEF OpIssue, OverviewIssue, OverviewUnknown, OpRefused, Top
    <3>2. UNCHANGED conn /\ UNCHANGED env
      BY <2>2 DEF OpIssue, OverviewIssue, OverviewUnknown, OpRefused
    <3>3. st' = st /\ hit' = hit
      BY <3>2 DEF conn, env
    <3> QED BY <3>1, <3>3
  <2> QED BY <2>1, <2>2
<1> DEFINE f == stack[1]
<1>1. /\ stack \in Seq(FrameType) /\ AllLeft(stack, st) /\ res # "System" /\ f \in FrameType
      /\ AllLeft(Tail(stack), st) /\ Tail(stack) \in Seq(FrameType) /\ f.c \in OpCommands
  BY <1>0, Unhit, RunningCall DEF FrameOK
<1>2. ASSUME NEW e, e # "System", Throw(e) PROVE AllLeft(stack', st') /\ res' # "System"
  BY <1>0, <1>1, <1>2, LeftThrow
<1>3. \A at \in {"start", "answer"} : Goto(at) \in Seq(FrameType) /\ AllLeft(Goto(at), st)
  <2>1. \A at \in {"start", "answer"} : at \in Places
    BY DEF Places
  <2> QED BY <1>0, <1>1, <2>1, LeftGoto
<1>4. CASE OpIssue
  <2>1. stack' = Issue(f.c, <<>>) \o Goto("answer") /\ res' = res
    BY <1>4 DEF OpIssue, hist
  <2>2. f.c \in Commands
    BY <1>1 DEF Commands
  <2>3. AllLeft(Issue(f.c, <<>>) \o Goto("answer"), st)
    BY <1>3, <2>2, LeftIssue
  <2> QED BY <1>0, <1>1, <2>1, <2>3
<1>5. CASE OverviewIssue
  <2>1. CASE "xover" \notin flags[cs]
    <3>1. Throw("NSError")
      BY <1>5, <2>1 DEF OverviewIssue
    <3> QED BY <1>2, <3>1
  <2>2. CASE "xover" \in flags[cs]
    <3> DEFINE c == IF "over" \in flags[cs] THEN "over" ELSE "xover"
               e == [f EXCEPT !.c = c]
               h == [f EXCEPT !.c = c, !.at = "answer"]
               t == <<h>> \o Tail(stack)
    <3>1. stack' = (Issue(c, <<>>) \o <<h>>) \o Tail(stack) /\ res' = res
      BY <1>5, <2>2 DEF OverviewIssue
    <3>2. c \in Commands /\ "answer" \in Places
      BY DEF OpCommands, Commands, Places
    <3> HIDE DEF c
    <3>3. e \in FrameType /\ e.fn = "op"
      BY <1>0, <1>1, <3>2 DEF FrameType
    <3>4. h = [e EXCEPT !.at = "answer"]
      OBVIOUS
    <3> HIDE DEF e, h
    <3>5. h \in FrameType /\ h.fn = "op"
      BY <3>2, <3>3, <3>4, GotoProps
    <3>6. Tail(stack) = <<>>
      BY <1>0, RunningOperation
    <3>7. AttemptsLeft(h, st) /\ AllLeft(<<>>, st) /\ <<>> \in Seq(FrameType)
      BY <3>5 DEF AttemptsLeft, AllLeft
    <3>8. AllLeft(<<h>> \o <<>>, st) /\ <<h>> \o <<>> = <<h>> /\ <<h>> \in Seq(FrameType)
      BY <3>5, <3>7, LeftCons, Concat
    <3>9. AllLeft(Issue(c, <<>>) \o <<h>>, st)
      BY <3>2, <3>8, LeftIssue
    <3>10. stack' = Issue(c, <<>>) \o <<h>>
      <4>1. Issue(c, <<>>) \in Seq(FrameType)
        BY <3>2, NewCalls DEF Issue
      <4> DEFINE u == <<h>>
                 v == Issue(c, <<>>)
      <4> HIDE DEF u, v
      <4>2. v \o u \in Seq(FrameType)
        BY <3>8, <4>1 DEF u, v
      <4>3. (v \o u) \o <<>> = v \o u
        BY <4>2
      <4> QED BY <3>1, <3>6, <4>3 DEF u, v
    <3> QED BY <1>0, <1>1, <3>1, <3>9, <3>10
  <2> QED BY <2>1, <2>2
<1>6. CASE OpRead
  <2>1. stack' = Tail(stack) /\ res' = res
    BY <1>6 DEF OpRead, Return, Fault
  <2> QED BY <1>0, <1>1, <2>1
<1>7. CASE OverviewUnknown
  <2>1. stack' = Goto("start") /\ res' = res
    BY <1>7 DEF OverviewUnknown, hist
  <2> QED BY <1>0, <1>1, <1>3, <2>1
<1>8. CASE OpRefused
  <2>1. Throw("NoArticle") \/ Throw("NoGroup") \/ Throw("Response")
    BY <1>8 DEF OpRefused
  <2> QED BY <1>2, <2>1
<1> QED BY <1>4, <1>5, <1>6, <1>7, <1>8

LEMMA ArticleIdHit ==
  ASSUME GroupInv, HitInv, ~hit', ArticleIdAnswer \/ ArticleIdNext
  PROVE  AllLeft(stack', st') /\ res' # "System"
<1>0. ~hit /\ stack # <<>> /\ stack[1].fn = "artid"
  <2>1. stack # <<>> /\ stack[1].fn = "artid"
    BY DEF ArticleIdAnswer, ArticleIdNext, Top
  <2>2. UNCHANGED env \/ hit' = TRUE
    BY DEF ArticleIdAnswer, ArticleIdNext, Fault
  <2>3. hit' = hit
    BY <2>2 DEF env
  <2> QED BY <2>1, <2>3
<1> DEFINE f == stack[1]
<1>1. /\ stack \in Seq(FrameType) /\ AllLeft(stack, st) /\ res # "System" /\ f \in FrameType
      /\ AllLeft(Tail(stack), st)
  BY <1>0, Unhit
<1>2. CASE ArticleIdAnswer
  <2>1. st' = st /\ res' = res /\ (stack' = Tail(stack) \/ stack' = Goto("next"))
    BY <1>2 DEF ArticleIdAnswer, Fault, hist
  <2>2. "next" \in Places
    BY DEF Places
  <2>3. AllLeft(Goto("next"), st)
    BY <1>0, <1>1, <2>2, LeftGoto
  <2> QED BY <1>1, <2>1, <2>3
<1>3. CASE ArticleIdNext
  <2> DEFINE ks == {k \in Nr : k > f.i /\ k # f.j /\ Entries[k].host /\ ~Entries[k].offline}
             m == Min(ks)
             e == [f EXCEPT !.at = "answer"]
             h == [f EXCEPT !.at = "answer", !.i = m]
             I == IssueFrame("artid", <<>>)
  <2>1. CASE ks = {}
    <3>1. Throw("NoArticle") /\ st' = st
      BY <1>3, <2>1 DEF ArticleIdNext, conn
    <3> QED BY <1>1, <3>1, LeftThrow
  <2>2. CASE ks # {}
    <3>1. /\ Setserver(m) /\ res' = res
          /\ stack' = <<Connect>> \o <<I, h>> \/ stack' = <<>> \o <<I, h>>
      BY <1>3, <2>2 DEF ArticleIdNext
    <3>2. m \in Nat
      BY <2>2, FirstServer
    <3> HIDE DEF ks, m
    <3>3. "answer" \in Places /\ "artid" \in Commands
      BY DEF Places, Commands
    <3>4. e \in FrameType /\ e.fn = "artid"
      BY <1>0, <1>1, <3>3, GotoProps
    <3>5. h = [e EXCEPT !.i = m]
      OBVIOUS
    <3> HIDE DEF e, h
    <3>6. h \in FrameType /\ h.fn = "artid"
      BY <3>2, <3>4, <3>5, CountProps
    <3>7. AttemptsLeft(h, st') /\ AllLeft(<<>>, st') /\ <<>> \in Seq(FrameType)
      BY <3>6 DEF AttemptsLeft, AllLeft
    <3>8. AllLeft(<<h>> \o <<>>, st') /\ <<h>> \o <<>> = <<h>> /\ <<h>> \in Seq(FrameType)
      BY <3>6, <3>7, LeftCons, Concat
    <3>9. I \in FrameType /\ AttemptsLeft(I, st')
      BY <3>3, NewLeft
    <3> HIDE DEF I
    <3>10. <<I, h>> = <<I>> \o <<h>>
      BY <3>6, <3>8, <3>9, Concat
    <3>11. <<I, h>> \in Seq(FrameType) /\ AllLeft(<<I, h>>, st')
      BY <3>8, <3>9, <3>10, LeftCons
    <3> DEFINE t == <<I, h>>
    <3> HIDE DEF t
    <3>12. t \in Seq(FrameType) /\ AllLeft(t, st') /\ (stack' = <<Connect>> \o t \/ stack' = <<>> \o t)
      BY <3>1, <3>11 DEF t
    <3>13. <<>> \o t = t /\ AllLeft(<<Connect>> \o t, st')
      BY <3>12, NewLeft, LeftCons
    <3> QED BY <1>1, <3>1, <3>12, <3>13
  <2> QED BY <2>1, <2>2
<1> QED BY <1>2, <1>3

LEMMA ActiveHit ==
  ASSUME GroupInv, HitInv, ~hit', ActiveServer \/ ActiveIssue \/ ActiveRead
  PROVE  AllLeft(stack', st') /\ res' # "System"
<1>0. ~hit /\ stack # <<>> /\ stack[1].fn = "active" /\ res' = res
  <2>1. CASE ActiveServer \/ ActiveIssue
    <3>1. stack # <<>> /\ stack[1].fn = "active"
      BY <2>1 DEF ActiveServer, ActiveIssue, Top
    <3>2. UNCHANGED env /\ UNCHANGED hist
      BY <2>1 DEF ActiveServer, ActiveIssue
    <3>3. hit' = hit /\ res' = res
      BY <3>2 DEF env, hist
    <3> QED BY <3>1, <3>3
  <2>2. CASE ActiveRead
    BY <2>2 DEF ActiveRead, Top, env, Fault
  <2> QED BY <2>1, <2>2
<1> DEFINE f == stack[1]
<1>1. /\ stack \in Seq(FrameType) /\ AllLeft(stack, st) /\ res # "System" /\ f \in FrameType
      /\ AllLeft(Tail(stack), st)
  BY <1>0, Unhit
<1>2. \A h \in FrameType : h.fn = "active" => AllLeft(<<h>>, st') /\ <<h>> \in Seq(FrameType)
  <2> SUFFICES ASSUME NEW h \in FrameType, h.fn = "active" PROVE AllLeft(<<h>>, st') /\ <<h>> \in Seq(FrameType)
    OBVIOUS
  <2>1. AttemptsLeft(h, st') /\ AllLeft(<<>>, st') /\ <<>> \in Seq(FrameType)
    BY DEF AttemptsLeft, AllLeft
  <2> QED BY <2>1, LeftCons, Concat
<1>3. \A at \in Places : [f EXCEPT !.at = at] \in FrameType /\ [f EXCEPT !.at = at].fn = "active"
  BY <1>0, <1>1, GotoProps
<1>4. \A at \in Places : Goto(at) \in Seq(FrameType) /\ AllLeft(Goto(at), st)
  BY <1>0, <1>1, LeftGoto
<1>5. CASE ActiveServer
  <2> DEFINE ks == {k \in Nr : k > f.i /\ Entries[k].host}
             m == Min(ks)
             e == [f EXCEPT !.i = m]
             d == [e EXCEPT !.j = 1]
             h == [f EXCEPT !.i = m, !.j = 1, !.at = "list"]
  <2>1. CASE ks = {}
    <3>1. stack' = Tail(stack) /\ st' = st
      BY <1>5, <2>1 DEF ActiveServer, Return, conn
    <3> QED BY <1>0, <1>1, <3>1
  <2>2. CASE ks # {}
    <3>1. stack' = <<e>> \/ stack' = <<Connect>> \o <<h>> \/ stack' = <<>> \o <<h>>
      BY <1>5, <2>2 DEF ActiveServer
    <3>2. m \in Nat /\ "list" \in Places
      BY <2>2, FirstServer DEF Places
    <3> HIDE DEF ks, m
    <3>3. e \in FrameType /\ e.fn = "active"
      BY <1>0, <1>1, <3>2, CountProps
    <3>4. h = [d EXCEPT !.at = "list"]
      OBVIOUS
    <3> HIDE DEF e
    <3>5. d \in FrameType /\ d.fn = "active"
      BY <3>3 DEF FrameType, ServerNr
    <3> HIDE DEF d, h
    <3>6. h \in FrameType /\ h.fn = "active"
      BY <3>2, <3>4, <3>5, GotoProps
    <3> DEFINE t == <<h>>
    <3>7. t \in Seq(FrameType) /\ AllLeft(t, st') /\ AllLeft(<<e>>, st')
      BY <1>2, <3>3, <3>6
    <3> HIDE DEF t
    <3>8. <<>> \o t = t /\ AllLeft(<<Connect>> \o t, st')
      BY <3>7, NewLeft, LeftCons
    <3>9. stack' = <<e>> \/ stack' = <<Connect>> \o t \/ stack' = <<>> \o t
      BY <3>1 DEF t
    <3> QED BY <1>0, <1>1, <3>7, <3>8, <3>9
  <2> QED BY <2>1, <2>2
<1>6. CASE ActiveIssue
  <2>1. /\ st' = st
        /\ stack' = Issue("wildmat", <<>>) \o Goto("wild") \/ stack' = Issue("active", <<>>) \o Goto("body")
    BY <1>6 DEF ActiveIssue, conn
  <2>2. "wildmat" \in Commands /\ "active" \in Commands /\ "wild" \in Places /\ "body" \in Places
    BY DEF Commands, Places
  <2>3. AllLeft(Issue("wildmat", <<>>) \o Goto("wild"), st) /\ AllLeft(Issue("active", <<>>) \o Goto("body"), st)
    BY <1>4, <2>2, LeftIssue
  <2> QED BY <1>0, <1>1, <2>1, <2>3
<1>7. CASE ActiveRead
  <2>1. st' = st /\ stack' = ActiveNext
    BY <1>7 DEF ActiveRead, Fault
  <2>2. CASE f.at = "wild" /\ f.j < Len(Entries[cs].read)
    <3> DEFINE e == [f EXCEPT !.j = @ + 1]
               h == [f EXCEPT !.j = @ + 1, !.at = "list"]
    <3>1. ActiveNext = <<h>>
      BY <2>2 DEF ActiveNext
    <3>2. f.j \in Nat
      BY <1>0, RunningCall DEF FrameOK
    <3>3. e \in FrameType /\ e.fn = "active"
      BY <1>0, <1>1, <3>2 DEF FrameType, ServerNr
    <3>4. h = [e EXCEPT !.at = "list"] /\ "list" \in Places
      BY DEF Places
    <3> HIDE DEF e, h
    <3>5. h \in FrameType /\ h.fn = "active"
      BY <3>3, <3>4, GotoProps
    <3> QED BY <1>0, <1>1, <1>2, <2>1, <3>1, <3>5
  <2>3. CASE ~(f.at = "wild" /\ f.j < Len(Entries[cs].read))
    <3>1. ActiveNext = Goto("next") /\ "next" \in Places
      BY <2>3 DEF ActiveNext, Places
    <3> QED BY <1>0, <1>1, <1>4, <2>1, <3>1
  <2> QED BY <2>2, <2>3
<1> QED BY <1>5, <1>6, <1>7

(* The start of an operation forgets the faults of the last one. *)
LEMMA StartHit ==
  ASSUME GroupInv, ArticleId \/ Active
                   \/ \E g \in Group : Selectgroup(g) \/ Listgroup(g) \/ Overviewdb(g) \/ Article(g)
  PROVE  AllLeft(stack', st') /\ res' # "System"
<1>0. AllLeft(<<>>, st) /\ <<>> \in Seq(FrameType)
  BY DEF AllLeft
<1>1. ASSUME NEW t, Start(t), AllLeft(t, st) PROVE AllLeft(stack', st') /\ res' # "System"
  BY <1>1 DEF Start, conn
<1>2. ASSUME NEW f \in FrameType, f.fn # "issue"
      PROVE  AllLeft(<<f>>, st) /\ <<f>> \in Seq(FrameType) /\ <<>> \o <<f>> = <<f>>
  <2>1. AttemptsLeft(f, st)
    BY <1>2 DEF AttemptsLeft
  <2>2. AllLeft(<<f>>, st) /\ <<f>> \in Seq(FrameType)
    BY <1>0, <2>1, LeftCons, Concat
  <2> DEFINE u == <<f>>
  <2> HIDE DEF u
  <2>3. <<>> \o u = u
    BY <2>2 DEF u
  <2> QED BY <2>2, <2>3 DEF u
<1>3. CASE Active
  <2> DEFINE f == Frame("active", "", <<>>, "next", 0, 0)
  <2>1. f \in FrameType /\ f.fn = "active"
    BY DEF Frame, FrameType, Calls, Commands, Places, ServerNr
  <2>2. Start(<<f>>)
    BY <1>3 DEF Active
  <2> HIDE DEF f
  <2> QED BY <1>1, <1>2, <2>1, <2>2
<1>4. CASE ArticleId
  <2> DEFINE asks == cs # 0 /\ ~Entries[cs].offline
             f == Frame("artid", "artid", <<>>, IF asks THEN "answer" ELSE "next", 0, cs)
  <2>0. cs \in ServerNr /\ "artid" \in Commands
    BY DEF GroupInv, CurrentOK, Commands
  <2>1. f \in FrameType /\ f.fn = "artid"
    BY <2>0 DEF Frame, FrameType, Calls, Commands, Places
  <2>2. Start(Issue("artid", <<>>) \o <<f>>) \/ Start(<<>> \o <<f>>)
    BY <1>4 DEF ArticleId
  <2> HIDE DEF f
  <2>3. AllLeft(<<f>>, st) /\ <<f>> \in Seq(FrameType) /\ <<>> \o <<f>> = <<f>>
    BY <1>2, <2>1
  <2>4. AllLeft(Issue("artid", <<>>) \o <<f>>, st)
    BY <2>0, <2>3, LeftIssue
  <2> QED BY <1>1, <2>2, <2>3, <2>4
<1>5. ASSUME NEW g \in Group, Selectgroup(g) PROVE AllLeft(stack', st') /\ res' # "System"
  <2>1. Start(<<Select(g)>>)
    BY <1>5 DEF Selectgroup, Selecting
  <2>2. Select(g) \in FrameType /\ Select(g).fn = "selectgroup"
    BY NewCalls
  <2> QED BY <1>1, <1>2, <2>1, <2>2
<1>6. ASSUME NEW g \in Group, Listgroup(g) \/ Overviewdb(g) \/ Article(g)
      PROVE  AllLeft(stack', st') /\ res' # "System"
  <2>1. PICK c \in OpCommands : Start(Selecting(g) \o <<Frame("op", c, g, "start", 0, 0)>>)
    BY <1>6 DEF Listgroup, Overviewdb, Article, OpCommands
  <2> DEFINE f == Frame("op", c, g, "start", 0, 0)
  <2>2. f \in FrameType /\ f.fn = "op"
    <3>1. c \in Commands
      BY <2>1 DEF Commands
    <3>2. "op" \in Calls /\ "start" \in Places /\ 0 \in ServerNr /\ 0 \in Int
      BY DEF Calls, Places, ServerNr
    <3> QED BY <3>1, <3>2 DEF Frame, FrameType
  <2>3. Start(<<Select(g)>> \o <<f>>) \/ Start(<<>> \o <<f>>)
    BY <2>1 DEF Selecting
  <2> HIDE DEF f
  <2>4. AllLeft(<<f>>, st) /\ <<f>> \in Seq(FrameType) /\ <<>> \o <<f>> = <<f>>
    BY <1>2, <2>2
  <2>5. AllLeft(<<Select(g)>> \o <<f>>, st)
    BY <2>4, NewLeft, LeftCons
  <2> QED BY <1>1, <2>3, <2>4, <2>5
<1> QED BY <1>3, <1>4, <1>5, <1>6

LEMMA HitInvNext ==
  ASSUME GroupInv, HitInv, [Next]_vars, Retries >= 1
  PROVE  HitInv'
<1> SUFFICES ASSUME ~hit' PROVE AllLeft(stack', st') /\ res' # "System"
  BY DEF HitInv
<1>1. CASE UNCHANGED vars
  <2>1. stack' = stack /\ st' = st /\ res' = res /\ hit' = hit
    BY <1>1 DEF vars
  <2> QED BY <2>1 DEF HitInv
<1>2. CASE Running
  BY <1>2, IssuingHit, ConnectingHit, SelectingHit, GroupOpHit, ArticleIdHit, ActiveHit DEF Running, Operating
<1>3. CASE ArticleId \/ Active
           \/ \E g \in Group : Selectgroup(g) \/ Listgroup(g) \/ Overviewdb(g) \/ Article(g)
  BY <1>3, StartHit
<1>4. CASE Setserverlist \/ IdleClose \/ GroupRemoved
  <2>1. stack' = <<>> /\ res' = res /\ hit' = hit
    BY <1>4 DEF Setserverlist, IdleClose, GroupRemoved, hist
  <2>2. AllLeft(<<>>, st')
    BY DEF AllLeft
  <2> QED BY <2>1, <2>2 DEF HitInv
<1> QED BY <1>1, <1>2, <1>3, <1>4 DEF Next

(* If the configuration allows at least one retry, an operation ends with a
   SystemError only if a fault has happened while it was running: the broken
   connection an earlier operation or an idle close has left costs one attempt
   of the first issue that meets it, and the reconnect has the others. *)
THEOREM IdleCloseIsInvisible ==
  ASSUME Retries >= 1
  PROVE  Spec => []IdleCloseInvisible
<1>1. Init => HitInv
  <2> SUFFICES ASSUME Init PROVE AllLeft(stack, st) /\ res # "System"
    BY DEF HitInv
  <2> QED BY DEF Init, AllLeft
<1>2. GroupInv /\ HitInv /\ [Next]_vars => HitInv'
  BY HitInvNext
<1>3. HitInv => IdleCloseInvisible
  BY DEF HitInv, IdleCloseInvisible
<1> QED BY <1>1, <1>2, <1>3, GroupInvariant, PTL DEF Spec
-----------------------------------------------------------------------------
(* The server list: which rule decides, which server is responsible, and which
   groups its filter lets pass *)

(* Of finitely many numbers one is the first of the greatest. *)
LEMMA FirstOfGreatest ==
  ASSUME NEW n \in Nat, NEW S \in SUBSET (1 .. n), S # {}, NEW v, \A k \in S : v[k] \in Int
  PROVE  \E k \in S : \A j \in S : v[k] > v[j] \/ (v[k] = v[j] /\ k <= j)
<1> DEFINE Best(k, m) == /\ k \in S /\ k <= m
                         /\ \A j \in S : j <= m => v[k] > v[j] \/ (v[k] = v[j] /\ k <= j)
           Bad == {m \in Nat : (\E k \in S : k <= m) /\ ~ \E k \in S : Best(k, m)}
<1>0. S \in SUBSET Nat /\ \A k \in S : 1 <= k /\ k <= n
  OBVIOUS
<1>1. Bad = {}
  <2> SUFFICES ASSUME Bad # {} PROVE FALSE
    OBVIOUS
  <2>1. PICK m \in Bad : \A l \in Nat : l < m => l \notin Bad
    <3>1. Bad \in SUBSET Nat
      OBVIOUS
    <3> HIDE DEF Bad
    <3> QED BY <3>1, LeastNumber
  <2>2. m \in Nat /\ (\E k \in S : k <= m) /\ ~ \E k \in S : Best(k, m)
    BY <2>1
  <2>3. m # 0 /\ m - 1 \in Nat /\ m - 1 < m
    BY <1>0, <2>2
  <2>4. m - 1 \notin Bad
    BY <2>1, <2>3
  <2>5. \A j \in S : j <= m <=> j <= m - 1 \/ j = m
    BY <1>0, <2>2
  <2>6. CASE ~ \E k \in S : k <= m - 1
    <3>1. m \in S /\ \A j \in S : j <= m => j = m
      BY <2>2, <2>5, <2>6
    <3>2. Best(m, m)
      BY <1>0, <2>2, <3>1
    <3> QED BY <2>2, <3>1, <3>2
  <2>7. CASE \E k \in S : k <= m - 1
    <3>1. PICK k \in S : Best(k, m - 1)
      BY <2>3, <2>4, <2>7
    <3>2. CASE m \in S /\ v[m] > v[k]
      <4>1. \A j \in S : j <= m => v[m] > v[j] \/ (v[m] = v[j] /\ m <= j)
        BY <1>0, <2>2, <2>5, <3>1, <3>2
      <4>2. Best(m, m)
        BY <2>2, <3>2, <4>1
      <4> QED BY <2>2, <3>2, <4>2
    <3>3. CASE ~(m \in S /\ v[m] > v[k])
      <4>1. k <= m
        BY <1>0, <2>5, <3>1
      <4>2. m \in S => v[k] > v[m] \/ (v[k] = v[m] /\ k <= m)
        <5> SUFFICES ASSUME m \in S PROVE v[k] > v[m] \/ (v[k] = v[m] /\ k <= m)
          OBVIOUS
        <5>1. v[k] \in Int /\ v[m] \in Int /\ ~(v[m] > v[k])
          BY <3>3
        <5> HIDE DEF Best, Bad
        <5> QED BY <4>1, <5>1
      <4>3. \A j \in S : j <= m => v[k] > v[j] \/ (v[k] = v[j] /\ k <= j)
        BY <2>5, <3>1, <4>2
      <4>4. Best(k, m)
        BY <4>1, <4>3
      <4> QED BY <2>2, <4>4
    <3> QED BY <3>2, <3>3
  <2> QED BY <2>6, <2>7
<1>2. \E k \in S : k <= n
  BY <1>0
<1>3. PICK k \in S : Best(k, n)
  BY <1>1, <1>2
<1> QED BY <1>0, <1>3

(* A rule of the server list or of a filter made from it ("!" is a string, but
   that is not known to the provers). *)
Text == STRING \cup {"!"}
Line == [rej : BOOLEAN, stem : Seq(Text), star : BOOLEAN]

LEMMA LinesOfServer ==
  ASSUME NEW k \in Nr
  PROVE  Entries[k].read \in Seq(Line)
<1> DEFINE Parts == STRING
           Texts == Text
           rules == Entries[k].read
<1>1. Rule = [rej : BOOLEAN, stem : Seq(Parts), star : BOOLEAN]
  BY DEF Rule
<1>2. Line = [rej : BOOLEAN, stem : Seq(Texts), star : BOOLEAN] /\ Parts \in SUBSET Texts
  BY DEF Line, Text
<1>3. rules \in Seq(Rule)
  BY RulesOfServer
<1> HIDE DEF Parts, Texts, rules
<1>4. \A s \in Seq(Parts) : s \in Seq(Texts)
  BY <1>2
<1>5. \A r \in Rule : r \in Line
  BY <1>1, <1>2, <1>4
<1>6. rules \in Seq(Line)
  BY <1>3, <1>5
<1> QED BY <1>6 DEF rules

LEMMA ClenInt == ASSUME NEW r \in Line, NEW g PROVE Clen(r, g) \in Int
<1> DEFINE Parts == Text
<1>1. r.stem \in Seq(Parts)
  BY DEF Line
<1> HIDE DEF Parts
<1>2. Len(r.stem) \in Nat
  BY <1>1
<1> QED BY <1>2 DEF Clen

(* Line b of the list fits, and is the first of the longest that do. *)
Decides(b, rules, g) ==
  /\ b \in DOMAIN rules /\ Clen(rules[b], g) > 0
  /\ \A j \in DOMAIN rules : Clen(rules[j], g) > 0 =>
       Clen(rules[b], g) > Clen(rules[j], g) \/ (Clen(rules[b], g) = Clen(rules[j], g) /\ b <= j)

Verdict(rules, b, g) == IF rules[b].rej THEN - Clen(rules[b], g) ELSE Clen(rules[b], g)

LEMMA SomeRuleDecides ==
  ASSUME NEW rules \in Seq(Line), NEW g, \E j \in DOMAIN rules : Clen(rules[j], g) > 0
  PROVE  \E b : Decides(b, rules, g)
<1> DEFINE fit == {k \in DOMAIN rules : Clen(rules[k], g) > 0}
           v == [k \in fit |-> Clen(rules[k], g)]
<1>1. Len(rules) \in Nat /\ fit \in SUBSET (1 .. Len(rules)) /\ fit # {}
  OBVIOUS
<1>2. \A k \in fit : v[k] \in Int /\ v[k] = Clen(rules[k], g)
  BY ClenInt
<1> HIDE DEF fit, v
<1>3. PICK b \in fit : \A j \in fit : v[b] > v[j] \/ (v[b] = v[j] /\ b <= j)
  BY <1>1, <1>2, FirstOfGreatest
<1> QED BY <1>2, <1>3 DEF fit, Decides

LEMMA DeciderUnique ==
  ASSUME NEW rules \in Seq(Line), NEW g, NEW b, Decides(b, rules, g), NEW c, Decides(c, rules, g)
  PROVE  b = c
<1>1. b \in Nat /\ c \in Nat /\ Clen(rules[b], g) \in Int /\ Clen(rules[c], g) \in Int
  BY ClenInt DEF Decides
<1> QED BY <1>1 DEF Decides

LEMMA MatchOfDecider ==
  ASSUME NEW rules \in Seq(Line), NEW g, NEW b, Decides(b, rules, g)
  PROVE  matchgroup(rules, g) = Verdict(rules, b, g)
<1> DEFINE fit == {k \in DOMAIN rules : Clen(rules[k], g) > 0}
           best == CHOOSE k \in fit : \A j \in fit : Clen(rules[k], g) > Clen(rules[j], g)
                                        \/ (Clen(rules[k], g) = Clen(rules[j], g) /\ k <= j)
<1>1. b \in fit /\ \A j \in fit : Clen(rules[b], g) > Clen(rules[j], g)
                                    \/ (Clen(rules[b], g) = Clen(rules[j], g) /\ b <= j)
  BY DEF Decides
<1>2. Decides(best, rules, g)
  BY <1>1 DEF Decides
<1>3. matchgroup(rules, g) = Clen(rules[best], g) * (IF rules[best].rej THEN -1 ELSE 1)
  BY <1>1 DEF matchgroup, FirstBest
<1> HIDE DEF best
<1>4. best = b
  BY <1>2, DeciderUnique
<1>5. Clen(rules[b], g) \in Int
  BY ClenInt DEF Decides
<1>6. matchgroup(rules, g) = Clen(rules[b], g) * (IF rules[b].rej THEN -1 ELSE 1)
  BY <1>3, <1>4
<1>7. CASE rules[b].rej
  BY <1>5, <1>6, <1>7 DEF Verdict
<1>8. CASE ~rules[b].rej
  BY <1>5, <1>6, <1>8 DEF Verdict
<1> QED BY <1>7, <1>8

(* matchgroup: the longest rule that fits decides, the first of them if several
   are equally long; the result is 0 only if no rule fits. *)
THEOREM LongestRuleDecides ==
  ASSUME NEW rules \in Seq(Line), NEW g
  PROVE  \/ matchgroup(rules, g) = 0 /\ \A j \in DOMAIN rules : ~(Clen(rules[j], g) > 0)
         \/ \E b : Decides(b, rules, g) /\ matchgroup(rules, g) = Verdict(rules, b, g)
<1>1. CASE \E j \in DOMAIN rules : Clen(rules[j], g) > 0
  BY <1>1, SomeRuleDecides, MatchOfDecider
<1>2. CASE ~ \E j \in DOMAIN rules : Clen(rules[j], g) > 0
  <2>1. {k \in DOMAIN rules : Clen(rules[k], g) > 0} = {}
    BY <1>2
  <2>2. matchgroup(rules, g) = 0
    BY <2>1 DEF matchgroup
  <2> QED BY <1>2, <2>2
<1> QED BY <1>1, <1>2

(* How well an entry of the server list fits, and the first of the best. *)
Fits(k, g) == matchgroup(Entries[k].read, g)

Leads(k, g) ==
  /\ k \in Nr /\ Fits(k, g) > 0
  /\ \A j \in Nr : Fits(j, g) > 0 => Fits(k, g) > Fits(j, g) \/ (Fits(k, g) = Fits(j, g) /\ k <= j)

LEMMA FitsInt ==
  ASSUME NEW k \in Nr, NEW g
  PROVE  Fits(k, g) \in Int
<1> DEFINE rules == Entries[k].read
<1>1. rules \in Seq(Line)
  BY LinesOfServer
<1>2. Fits(k, g) = matchgroup(rules, g)
  BY DEF Fits
<1> HIDE DEF rules
<1>3. CASE matchgroup(rules, g) = 0
  BY <1>2, <1>3
<1>4. ASSUME NEW b, Decides(b, rules, g), matchgroup(rules, g) = Verdict(rules, b, g)
      PROVE  Fits(k, g) \in Int
  <2>1. Clen(rules[b], g) \in Int
    BY <1>1, <1>4, ClenInt DEF Decides
  <2> QED BY <1>2, <1>4, <2>1 DEF Verdict
<1> QED BY <1>1, <1>3, <1>4, LongestRuleDecides

LEMMA NrFinite == Len(Entries) \in Nat /\ Nr \in SUBSET Nat
BY EntriesAssumption DEF Nr

LEMMA LeaderUnique ==
  ASSUME NEW g, NEW k, Leads(k, g), NEW j, Leads(j, g)
  PROVE  k = j
<1>1. k \in Nat /\ j \in Nat /\ Fits(k, g) \in Int /\ Fits(j, g) \in Int
  BY NrFinite, FitsInt DEF Leads
<1> QED BY <1>1 DEF Leads

LEMMA ServerOfLeader ==
  ASSUME NEW g, NEW k, Leads(k, g)
  PROVE  server(g) = IF Entries[k].host THEN k ELSE 0
<1> DEFINE fit == {j \in Nr : Fits(j, g) > 0}
           best == CHOOSE i \in fit : \A j \in fit : Fits(i, g) > Fits(j, g)
                                        \/ (Fits(i, g) = Fits(j, g) /\ i <= j)
<1>1. k \in fit /\ \A j \in fit : Fits(k, g) > Fits(j, g) \/ (Fits(k, g) = Fits(j, g) /\ k <= j)
  BY DEF Leads
<1>2. Leads(best, g)
  BY <1>1 DEF Leads
<1>3. server(g) = IF ~Entries[best].host THEN 0 ELSE best
  BY <1>1 DEF server, FirstBest, Fits
<1> HIDE DEF best
<1>4. best = k
  BY <1>2, LeaderUnique
<1> QED BY <1>3, <1>4

(* MPList::server: the server whose rules fit best, the first of them if several
   fit equally well, and none if that entry is a NoServer one or no entry fits. *)
THEOREM BestServerIsResponsible ==
  ASSUME NEW g
  PROVE  \/ server(g) = 0 /\ \A j \in Nr : ~(Fits(j, g) > 0)
         \/ \E k : Leads(k, g) /\ server(g) = IF Entries[k].host THEN k ELSE 0
<1> DEFINE fit == {j \in Nr : Fits(j, g) > 0}
           v == [j \in fit |-> Fits(j, g)]
<1>1. CASE fit = {}
  <2>1. server(g) = 0
    BY <1>1 DEF server, Fits
  <2> QED BY <1>1, <2>1
<1>2. CASE fit # {}
  <2>1. fit \in SUBSET (1 .. Len(Entries)) /\ Len(Entries) \in Nat
    BY NrFinite DEF Nr
  <2>2. \A j \in fit : v[j] \in Int /\ v[j] = Fits(j, g)
    BY FitsInt
  <2> HIDE DEF fit, v
  <2>3. PICK k \in fit : \A j \in fit : v[k] > v[j] \/ (v[k] = v[j] /\ k <= j)
    BY <1>2, <2>1, <2>2, FirstOfGreatest
  <2>4. Leads(k, g)
    BY <2>2, <2>3 DEF fit, Leads
  <2> QED BY <2>4, ServerOfLeader
<1> QED BY <1>1, <1>2

(* The rules of the other entries. *)
LEMMA RulesOfOthers ==
  ASSUME NEW k \in Nr
  PROVE  /\ Others(k) \in Seq(Line)
         /\ \A r : Has(Others(k), r) <=> \E j \in Nr : j # k /\ Has(Entries[j].read, r)
<1> DEFINE X == Line
           ss == [j \in Nr |-> IF j = k THEN <<>> ELSE Entries[j].read]
<1>1. \A j \in Nr : Entries[j].read \in Seq(X)
  BY LinesOfServer
<1>2. Others(k) = FlattenSeq(ss)
  BY DEF Others
<1> HIDE DEF X
<1>3. ss \in [1 .. Len(Entries) -> Seq(X)]
  BY <1>1 DEF Nr
<1>4. Len(Entries) \in Nat /\ 1 <= Len(Entries)
  BY NrFinite DEF Nr
<1>5. ss \in Seq(Seq(X)) /\ Len(ss) # 0 /\ DOMAIN ss = Nr
  BY <1>3, <1>4 DEF Nr
<1>6. \A j \in Nr : ss[j] = IF j = k THEN <<>> ELSE Entries[j].read
  OBVIOUS
<1> HIDE DEF ss
<1>7. FlattenSeq(ss) \in Seq(X) /\ \A r : Has(FlattenSeq(ss), r) <=> \E i \in DOMAIN ss : Has(ss[i], r)
  BY <1>5, HasFlatten
<1>8. \A r : ~Has(<<>>, r)
  BY DEF Has
<1> QED BY <1>2, <1>5, <1>6, <1>7, <1>8 DEF X

LEMMA RejectProps ==
  ASSUME NEW r \in Line, NEW g
  PROVE  /\ Reject(r) \in Line /\ Reject(r).rej
         /\ ~r.rej => Clen(Reject(r), g) = Clen(r, g)
<1> DEFINE Parts == Text
           bang == IF r.rej THEN <<"!">> ELSE <<>>
<1>1. r.stem \in Seq(Parts) /\ r.star \in BOOLEAN /\ r.rej \in BOOLEAN
  BY DEF Line
<1>2. Line = [rej : BOOLEAN, stem : Seq(Parts), star : BOOLEAN]
  BY DEF Line
<1>3. "!" \in Parts
  BY DEF Text
<1> HIDE DEF Parts
<1>4. bang \in Seq(Parts)
  BY <1>3
<1>5. ~r.rej => bang \o r.stem = r.stem
  BY <1>1
<1>6. Reject(r) = [rej |-> TRUE, stem |-> bang \o r.stem, star |-> r.star]
  BY DEF Reject
<1> HIDE DEF bang
<1>7. bang \o r.stem \in Seq(Parts)
  BY <1>1, <1>4
<1>8. Reject(r).rej = TRUE /\ Reject(r).stem = bang \o r.stem /\ Reject(r).star = r.star
  BY <1>6
<1>9. Reject(r) \in Line
  BY <1>1, <1>2, <1>6, <1>7
<1>10. ~r.rej => Clen(Reject(r), g) = Clen(r, g)
  BY <1>5, <1>8 DEF Clen
<1> QED BY <1>8, <1>9, <1>10

(* The filter of LIST ACTIVE: the rules of the entry, then those of the others. *)
LEMMA FilterRules ==
  ASSUME NEW k \in Nr
  PROVE  LET own == Entries[k].read
             F == FilterAll(k)
         IN /\ F \in Seq(Line) /\ own \in Seq(Line) /\ Len(own) \in Nat
            /\ \A i \in DOMAIN own : i \in DOMAIN F /\ F[i] = own[i] /\ i <= Len(own)
            /\ \A i \in DOMAIN F : i \in Nat
            /\ \A i \in DOMAIN F : i \notin DOMAIN own =>
                 i > Len(own) /\ \E j \in Nr : j # k /\ \E r \in Line :
                   Has(Entries[j].read, r) /\ F[i] = Reject(r)
            /\ \A j \in Nr : j # k => \A r : Has(Entries[j].read, r) =>
                 \E i \in DOMAIN F : i > Len(own) /\ F[i] = Reject(r)
<1> DEFINE own == Entries[k].read
           others == Others(k)
           rej == RejectAll(others)
           F == FilterAll(k)
<1>1. own \in Seq(Line) /\ others \in Seq(Line)
  BY LinesOfServer, RulesOfOthers
<1>2. \A r : Has(others, r) <=> \E j \in Nr : j # k /\ Has(Entries[j].read, r)
  BY RulesOfOthers
<1>3. F = own \o rej /\ rej = [i \in DOMAIN others |-> Reject(others[i])]
  BY DEF FilterAll, RejectAll
<1> HIDE DEF own, others, rej, F
<1>4. \A i \in DOMAIN others : Reject(others[i]) \in Line /\ others[i] \in Line
  BY <1>1, RejectProps
<1>5. DOMAIN rej = 1 .. Len(others) /\ \A i \in DOMAIN rej : rej[i] = Reject(others[i]) /\ rej[i] \in Line
  BY <1>1, <1>3, <1>4
<1>6. Len(others) \in Nat /\ DOMAIN others = 1 .. Len(others) /\ Len(own) \in Nat /\ DOMAIN own = 1 .. Len(own)
  BY <1>1
<1>7. rej \in Seq(Line) /\ Len(rej) = Len(others)
  BY <1>1, <1>3, <1>4, <1>6
<1>8. F \in Seq(Line) /\ Len(F) = Len(own) + Len(others) /\ DOMAIN F = 1 .. Len(own) + Len(others)
  BY <1>1, <1>3, <1>6, <1>7
<1>9. \A i \in DOMAIN own : i \in DOMAIN F /\ F[i] = own[i] /\ i <= Len(own)
  BY <1>1, <1>3, <1>6, <1>7, <1>8
<1>10. \A m \in DOMAIN others : Len(own) + m \in DOMAIN F /\ F[Len(own) + m] = Reject(others[m])
  BY <1>1, <1>3, <1>5, <1>6, <1>7, <1>8
<1>11. ASSUME NEW i \in DOMAIN F, i \notin DOMAIN own
       PROVE  i > Len(own) /\ \E j \in Nr : j # k /\ \E r \in Line :
                Has(Entries[j].read, r) /\ F[i] = Reject(r)
  <2>1. i > Len(own) /\ i - Len(own) \in DOMAIN others /\ Len(own) + (i - Len(own)) = i
    BY <1>6, <1>8, <1>11
  <2> DEFINE r == others[i - Len(own)]
  <2>2. r \in Line /\ F[i] = Reject(r) /\ Has(others, r)
    BY <1>4, <1>10, <2>1 DEF Has
  <2> HIDE DEF r
  <2> QED BY <1>2, <2>1, <2>2
<1>12. ASSUME NEW j \in Nr, j # k, NEW r, Has(Entries[j].read, r)
       PROVE  \E i \in DOMAIN F : i > Len(own) /\ F[i] = Reject(r)
  <2>1. PICK m \in DOMAIN others : others[m] = r
    BY <1>2, <1>12 DEF Has
  <2>2. Len(own) + m > Len(own)
    BY <1>6
  <2> QED BY <1>10, <2>1, <2>2
<1>13. \A i \in DOMAIN F : i \in Nat
  BY <1>6, <1>8
<1> QED BY <1>1, <1>6, <1>8, <1>9, <1>11, <1>12, <1>13 DEF own, F

(* An entry that fits does so through a rule of its own that accepts, and no
   longer rule of it fits. *)
LEMMA FittingRule ==
  ASSUME NEW k \in Nr, NEW g, Fits(k, g) > 0
  PROVE  \E r \in Line : Has(Entries[k].read, r) /\ ~r.rej /\ Clen(r, g) = Fits(k, g)
<1> DEFINE rules == Entries[k].read
<1>1. rules \in Seq(Line)
  BY LinesOfServer
<1>2. Fits(k, g) = matchgroup(rules, g)
  BY DEF Fits
<1> HIDE DEF rules
<1>3. PICK b : Decides(b, rules, g) /\ matchgroup(rules, g) = Verdict(rules, b, g)
  BY <1>1, <1>2, LongestRuleDecides
<1>4. b \in DOMAIN rules /\ rules[b] \in Line /\ Clen(rules[b], g) > 0
  BY <1>1, <1>3 DEF Decides
<1>5. Clen(rules[b], g) \in Int
  BY <1>4, ClenInt
<1>6. ~rules[b].rej
  BY <1>2, <1>3, <1>4, <1>5 DEF Verdict
<1>7. Clen(rules[b], g) = Fits(k, g)
  BY <1>2, <1>3, <1>6 DEF Verdict
<1> QED BY <1>4, <1>6, <1>7 DEF Has, rules

(* makeFilter(k, "*"): if no group has equally long rules at two servers, the
   filter of a server lets only groups pass that MPList::server gives to it. *)
THEOREM FilterKeepsOwnGroups ==
  ASSUME NoTies, NEW k \in Nr, Entries[k].host, NEW g \in Passing[k]
  PROVE  ServerOf[g] = k
<1> DEFINE own == Entries[k].read
           F == FilterAll(k)
<1>1. g \in Group /\ matchgroup(F, g) > 0
  BY DEF Passing, makeFilter
<1>2. /\ F \in Seq(Line) /\ own \in Seq(Line)
      /\ \A i \in DOMAIN own : i \in DOMAIN F /\ F[i] = own[i]
  BY FilterRules
<1>3. \A i \in DOMAIN F : i \notin DOMAIN own => \E j \in Nr : j # k /\ \E r \in Line :
        Has(Entries[j].read, r) /\ F[i] = Reject(r)
  BY FilterRules
<1>4. \A j \in Nr : j # k => \A r : Has(Entries[j].read, r) =>
        \E i \in DOMAIN F : i > Len(own) /\ F[i] = Reject(r)
  BY FilterRules
<1>5. Fits(k, g) = matchgroup(own, g)
  BY DEF Fits
<1> HIDE DEF own, F
<1>6. PICK b : Decides(b, F, g) /\ matchgroup(F, g) = Verdict(F, b, g)
  BY <1>1, <1>2, LongestRuleDecides
<1>7. b \in DOMAIN F /\ F[b] \in Line /\ Clen(F[b], g) > 0
  BY <1>2, <1>6 DEF Decides
<1>8. Clen(F[b], g) \in Int
  BY <1>7, ClenInt
<1>9. ~F[b].rej
  BY <1>1, <1>6, <1>7, <1>8 DEF Verdict
<1>10. b \in DOMAIN own /\ own[b] = F[b]
  BY <1>2, <1>3, <1>7, <1>9, RejectProps
<1>11. Decides(b, own, g)
  BY <1>2, <1>6, <1>10 DEF Decides
<1>12. Fits(k, g) = Clen(F[b], g)
  BY <1>2, <1>5, <1>9, <1>10, <1>11, MatchOfDecider DEF Verdict
<1>13. ASSUME NEW j \in Nr, j # k, Fits(j, g) > 0
       PROVE  Fits(k, g) > Fits(j, g)
  <2>1. PICK r \in Line : Has(Entries[j].read, r) /\ ~r.rej /\ Clen(r, g) = Fits(j, g)
    BY <1>13, FittingRule
  <2>2. PICK i \in DOMAIN F : F[i] = Reject(r)
    BY <1>4, <1>13, <2>1
  <2>3. Clen(F[i], g) = Fits(j, g)
    BY <2>1, <2>2, RejectProps
  <2>4. Fits(k, g) > Fits(j, g) \/ Fits(k, g) = Fits(j, g)
    BY <1>6, <1>12, <1>13, <2>3 DEF Decides
  <2>5. Fits(k, g) # Fits(j, g)
    BY <1>1, <1>13 DEF NoTies, Fits
  <2> QED BY <2>4, <2>5
<1>14. Fits(k, g) > 0
  BY <1>7, <1>12
<1>15. Leads(k, g)
  <2>1. \A j \in Nr : Fits(j, g) > 0 => Fits(k, g) > Fits(j, g) \/ (Fits(k, g) = Fits(j, g) /\ k <= j)
    <3>1. k <= k
      BY NrFinite
    <3> QED BY <1>13, <3>1
  <2> QED BY <1>14, <2>1 DEF Leads
<1>16. server(g) = k
  BY <1>15, ServerOfLeader
<1> QED BY <1>1, <1>16 DEF ServerOf

(* makeFilter(k, "*"): if no server has a rule that rejects, every group passes
   the filter of the server that MPList::server gives it to, so LIST ACTIVE has
   it.  (A rule that rejects hides, in the filters of the others, the groups that
   it does not accept itself.) *)
THEOREM EveryServedGroupPasses ==
  ASSUME \A j \in Nr : \A i \in DOMAIN Entries[j].read : ~Entries[j].read[i].rej,
         NEW g \in Group, ServerOf[g] # 0
  PROVE  ServerOf[g] \in Nr /\ g \in Passing[ServerOf[g]]
<1> DEFINE k == ServerOf[g]
<1>1. server(g) = k /\ k # 0
  BY DEF ServerOf
<1> HIDE DEF k
<1>2. Leads(k, g)
  BY <1>1, BestServerIsResponsible
<1>3. k \in Nr /\ Fits(k, g) > 0 /\ Fits(k, g) \in Int
  BY <1>2, FitsInt DEF Leads
<1> DEFINE own == Entries[k].read
           F == FilterAll(k)
<1>4. /\ F \in Seq(Line) /\ own \in Seq(Line) /\ Len(own) \in Nat
      /\ \A i \in DOMAIN own : i \in DOMAIN F /\ F[i] = own[i] /\ i <= Len(own)
      /\ \A i \in DOMAIN F : i \in Nat
      /\ \A i \in DOMAIN F : i \notin DOMAIN own =>
           i > Len(own) /\ \E j \in Nr : j # k /\ \E r \in Line : Has(Entries[j].read, r) /\ F[i] = Reject(r)
  BY <1>3, FilterRules
<1>5. \A i \in DOMAIN own : ~own[i].rej
  BY <1>3
<1>6. PICK q \in Line : Has(own, q) /\ Clen(q, g) = Fits(k, g)
  BY <1>3, FittingRule
<1>7. g \in Passing[k] <=> matchgroup(F, g) > 0
  BY <1>3 DEF Passing, makeFilter
<1> HIDE DEF own, F
<1>8. PICK m \in DOMAIN own : own[m] = q
  BY <1>6 DEF Has
<1>9. m \in DOMAIN F /\ F[m] = q /\ Clen(F[m], g) > 0 /\ m <= Len(own)
  BY <1>3, <1>4, <1>6, <1>8
<1>10. PICK b : Decides(b, F, g) /\ matchgroup(F, g) = Verdict(F, b, g)
  BY <1>4, <1>9, LongestRuleDecides
<1>11. b \in DOMAIN F /\ F[b] \in Line /\ Clen(F[b], g) > 0 /\ b \in Nat
  BY <1>4, <1>10 DEF Decides
<1>12. b \in DOMAIN own
  <2> SUFFICES ASSUME b \notin DOMAIN own PROVE FALSE
    OBVIOUS
  <2>1. b > Len(own) /\ \E j \in Nr : j # k /\ \E r \in Line : Has(Entries[j].read, r) /\ F[b] = Reject(r)
    BY <1>4, <1>11
  <2>2. PICK j \in Nr : j # k /\ \E r \in Line : Has(Entries[j].read, r) /\ F[b] = Reject(r)
    BY <2>1
  <2>3. PICK r \in Line : Has(Entries[j].read, r) /\ F[b] = Reject(r)
    BY <2>2
  <2>4. m \in Nat /\ ~(b <= m)
    BY <1>4, <1>9, <1>11, <2>1
  <2>5. Clen(F[b], g) > Fits(k, g)
    BY <1>6, <1>9, <1>10, <2>4 DEF Decides
  <2> DEFINE rules == Entries[j].read
  <2>6. rules \in Seq(Line) /\ Has(rules, r)
    BY <2>3, LinesOfServer
  <2>7. Fits(j, g) = matchgroup(rules, g)
    BY DEF Fits
  <2>8. \A i \in DOMAIN rules : ~rules[i].rej
    OBVIOUS
  <2> HIDE DEF rules
  <2>9. PICK i \in DOMAIN rules : rules[i] = r
    BY <2>6 DEF Has
  <2>10. ~r.rej
    BY <2>8, <2>9
  <2>11. Clen(rules[i], g) = Clen(F[b], g)
    BY <2>3, <2>9, <2>10, RejectProps
  <2>12. PICK d : Decides(d, rules, g) /\ matchgroup(rules, g) = Verdict(rules, d, g)
    BY <1>11, <2>6, <2>9, <2>11, LongestRuleDecides
  <2>13. Fits(j, g) = Clen(rules[d], g) /\ d \in DOMAIN rules /\ rules[d] \in Line
    BY <2>6, <2>7, <2>8, <2>12 DEF Verdict, Decides
  <2>14. Clen(rules[d], g) \in Int /\ Clen(F[b], g) \in Int
    BY <1>11, <2>13, ClenInt
  <2>15. Clen(rules[d], g) >= Clen(F[b], g)
    BY <1>11, <2>11, <2>12, <2>14 DEF Decides
  <2>16. Fits(j, g) > Fits(k, g) /\ Fits(j, g) > 0
    BY <1>3, <2>5, <2>13, <2>14, <2>15
  <2>17. Fits(k, g) > Fits(j, g) \/ Fits(k, g) = Fits(j, g)
    BY <1>2, <2>16 DEF Leads
  <2> QED BY <1>3, <2>13, <2>14, <2>16, <2>17
<1>13. ~F[b].rej
  BY <1>4, <1>5, <1>12
<1>14. matchgroup(F, g) > 0
  BY <1>10, <1>11, <1>13 DEF Verdict
<1> QED BY <1>3, <1>7, <1>14 DEF k
-----------------------------------------------------------------------------
(* makeFilter with an argument: what listp does *)

(* The argument, from position p on, and the rule have the first n pieces in
   common, and not more. *)
Common(arg, p, r, n) ==
  /\ p + n - 1 <= Len(arg) /\ \A m \in 1 .. n : arg[p + m - 1] = r[m]
  /\ n = Len(r) \/ p + n > Len(arg) \/ arg[p + n] # r[n + 1]

LEMMA CommonNotShorter ==
  ASSUME NEW arg, Len(arg) \in Nat, NEW r, Len(r) \in Nat, NEW p \in Nat,
         NEW n \in 0 .. Len(r), Common(arg, p, r, n), NEW l \in 0 .. Len(r), Common(arg, p, r, l)
  PROVE  ~(n < l)
<1> SUFFICES ASSUME n < l PROVE FALSE
  OBVIOUS
<1>1. n \in Nat /\ l \in Nat /\ n # Len(r) /\ n + 1 \in 1 .. l
  OBVIOUS
<1>2. p + n <= Len(arg)
  BY <1>1 DEF Common
<1>3. arg[p + n] # r[n + 1]
  BY <1>1, <1>2 DEF Common
<1>4. arg[p + (n + 1) - 1] = r[n + 1]
  BY <1>1 DEF Common
<1>5. p + (n + 1) - 1 = p + n
  BY <1>1
<1> QED BY <1>3, <1>4, <1>5

LEMMA AdvanceTo ==
  ASSUME NEW arg, Len(arg) \in Nat, NEW r, Len(r) \in Nat, NEW p \in Nat,
         NEW n \in 0 .. Len(r), Common(arg, p, r, n)
  PROVE  Advance(arg, p, r) = p + n
<1> DEFINE l == CHOOSE m \in 0 .. Len(r) : Common(arg, p, r, m)
<1>1. Advance(arg, p, r) = p + l
  BY DEF Advance, Common
<1>2. l \in 0 .. Len(r) /\ Common(arg, p, r, l)
  OBVIOUS
<1> HIDE DEF l
<1>3. ~(n < l) /\ ~(l < n)
  BY <1>2, CommonNotShorter
<1>4. n = l
  BY <1>2, <1>3
<1> QED BY <1>1, <1>4

(* Positions is defined by recursion over the rules. *)
Listp(f, arg, rules, i) == IF i = 0 THEN 1 ELSE Advance(arg, f[i - 1], Chars(rules[i]))
Scans(f, arg, rules) == f = [i \in 0 .. Len(rules) |-> Listp(f, arg, rules, i)]

LEMMA PositionsUnfold ==
  ASSUME NEW arg, NEW rules
  PROVE  Positions(arg, rules) = CHOOSE f : Scans(f, arg, rules)
BY DEF Positions, Scans, Listp

LEMMA ScansExists ==
  ASSUME NEW arg, NEW rules, Len(rules) \in Nat
  PROVE  \E f : Scans(f, arg, rules)
<1> DEFINE n == Len(rules)
           Upto(f, k) == \A i \in 0 .. n : i <= k => f[i] = Listp(f, arg, rules, i)
           Bad == {k \in Nat : ~ \E f : Upto(f, k)}
<1>0. n \in Nat
  OBVIOUS
<1> HIDE DEF n
<1>1. \E f : Upto(f, 0)
  <2> DEFINE z == [i \in 0 .. n |-> 1]
  <2>1. Upto(z, 0)
    BY <1>0 DEF Listp
  <2> HIDE DEF z
  <2> QED BY <2>1
<1>2. ASSUME NEW k \in Nat, NEW f, Upto(f, k)
      PROVE  \E g : Upto(g, k + 1)
  <2> DEFINE g == [i \in 0 .. n |-> IF i <= k THEN f[i] ELSE Listp(f, arg, rules, i)]
  <2>1. ASSUME NEW i \in 0 .. n, i <= k + 1 PROVE g[i] = Listp(g, arg, rules, i)
    <3>1. g[i] = Listp(f, arg, rules, i)
      BY <1>2
    <3>2. i # 0 => i - 1 \in 0 .. n /\ i - 1 <= k
      BY <1>0, <2>1
    <3>3. i # 0 => g[i - 1] = f[i - 1]
      BY <3>2
    <3> QED BY <3>1, <3>3 DEF Listp
  <2> HIDE DEF g
  <2> QED BY <2>1
<1> HIDE DEF Upto
<1>3. Bad = {}
  <2> SUFFICES ASSUME Bad # {} PROVE FALSE
    OBVIOUS
  <2>1. Bad \in SUBSET Nat /\ 0 \notin Bad
    BY <1>1
  <2>2. \A k \in Nat : k \notin Bad => \E f : Upto(f, k)
    OBVIOUS
  <2>3. \A k \in Bad : ~ \E f : Upto(f, k)
    OBVIOUS
  <2> HIDE DEF Bad
  <2>4. PICK m \in Bad : \A l \in Nat : l < m => l \notin Bad
    BY <2>1, LeastNumber
  <2>5. m \in Nat /\ m - 1 \in Nat /\ m - 1 < m /\ (m - 1) + 1 = m
    BY <2>1
  <2>6. PICK f : Upto(f, m - 1)
    BY <2>2, <2>4, <2>5
  <2>7. \E g : Upto(g, (m - 1) + 1)
    BY <1>2, <2>5, <2>6
  <2> QED BY <2>3, <2>5, <2>7
<1>4. PICK f : Upto(f, n)
  BY <1>0, <1>3
<1>5. \A i \in 0 .. n : f[i] = Listp(f, arg, rules, i)
  BY <1>0, <1>4 DEF Upto
<1> DEFINE g == [i \in 0 .. n |-> f[i]]
<1>6. ASSUME NEW i \in 0 .. n PROVE g[i] = Listp(g, arg, rules, i)
  <2>1. i # 0 => i - 1 \in 0 .. n
    BY <1>0
  <2>2. Listp(g, arg, rules, i) = Listp(f, arg, rules, i)
    BY <2>1 DEF Listp
  <2> QED BY <1>5, <2>2
<1>7. g = [i \in 0 .. n |-> g[i]]
  OBVIOUS
<1> HIDE DEF g
<1>8. g = [i \in 0 .. n |-> Listp(g, arg, rules, i)]
  BY <1>6, <1>7
<1> QED BY <1>8 DEF Scans, n

LEMMA PositionsSteps ==
  ASSUME NEW arg, NEW rules, Len(rules) \in Nat
  PROVE  /\ Positions(arg, rules)[0] = 1
         /\ \A i \in 1 .. Len(rules) :
              Positions(arg, rules)[i] = Advance(arg, Positions(arg, rules)[i - 1], Chars(rules[i]))
<1> DEFINE f == Positions(arg, rules)
<1>1. Scans(f, arg, rules)
  BY ScansExists, PositionsUnfold
<1> HIDE DEF f
<1>2. \A i \in 0 .. Len(rules) : f[i] = Listp(f, arg, rules, i)
  BY <1>1 DEF Scans
<1>3. f[0] = 1 /\ \A i \in 1 .. Len(rules) : f[i] = Advance(arg, f[i - 1], Chars(rules[i]))
  BY <1>2 DEF Listp
<1> QED BY <1>3 DEF f

StarFree(r) == \A n \in DOMAIN r.stem : r.stem[n] # "*"

LEMMA PiecesOfRule ==
  ASSUME NEW r \in Line
  PROVE  /\ Len(r.stem) \in Nat /\ Len(Chars(r)) \in Nat /\ DOMAIN r.stem = 1 .. Len(r.stem)
         /\ Len(Chars(r)) = 0 => Chars(r) = <<>>
         /\ r.rej => Chars(r)[1] = "!"
         /\ ~r.rej => /\ Len(Chars(r)) = Len(r.stem) + (IF r.star THEN 1 ELSE 0)
                      /\ \A m \in 1 .. Len(r.stem) : Chars(r)[m] = r.stem[m]
                      /\ r.star => Chars(r)[Len(r.stem) + 1] = "*"
<1> DEFINE Parts == Text \cup {"*"}
           s == r.stem
           bang == IF r.rej THEN <<"!">> ELSE <<>>
           star == IF r.star THEN <<"*">> ELSE <<>>
<1>1. s \in Seq(Text) /\ r.star \in BOOLEAN /\ r.rej \in BOOLEAN
  BY DEF Line
<1>2. "!" \in Parts /\ "*" \in Parts /\ Text \subseteq Parts
  BY DEF Text
<1> HIDE DEF Parts, s
<1>3. s \in Seq(Parts)
  BY <1>1, <1>2
<1>4. bang \in Seq(Parts) /\ star \in Seq(Parts)
  BY <1>2
<1>5. Chars(r) = bang \o s \o star
  BY DEF Chars, s
<1>6. Chars(r) \in Seq(Parts)
  BY <1>3, <1>4, <1>5
<1>7. r.rej => bang = <<"!">>
  OBVIOUS
<1>8. ~r.rej => bang = <<>>
  OBVIOUS
<1>9. star = IF r.star THEN <<"*">> ELSE <<>>
  OBVIOUS
<1> HIDE DEF bang, star
<1>10. r.rej => Chars(r)[1] = "!"
  <2> SUFFICES ASSUME r.rej PROVE Chars(r)[1] = "!"
    OBVIOUS
  <2> DEFINE u == bang \o s
  <2>1. Len(bang) = 1 /\ bang[1] = "!"
    BY <1>7
  <2>2. u \in Seq(Parts) /\ u[1] = "!" /\ Len(u) >= 1
    BY <1>3, <1>4, <2>1
  <2>3. Chars(r) = u \o star
    BY <1>5
  <2> HIDE DEF u
  <2> QED BY <1>4, <2>2, <2>3
<1>11. ~r.rej => Chars(r) = s \o star
  <2> SUFFICES ASSUME ~r.rej PROVE Chars(r) = s \o star
    OBVIOUS
  <2>1. bang \o s = s
    BY <1>3, <1>8
  <2> QED BY <1>5, <2>1
<1>12. Len(star) = IF r.star THEN 1 ELSE 0
  BY <1>1, <1>9
<1>13. ~r.rej => /\ Len(Chars(r)) = Len(s) + (IF r.star THEN 1 ELSE 0)
                 /\ \A m \in 1 .. Len(s) : Chars(r)[m] = s[m]
  <2> SUFFICES ASSUME ~r.rej
               PROVE  /\ Len(Chars(r)) = Len(s) + (IF r.star THEN 1 ELSE 0)
                      /\ \A m \in 1 .. Len(s) : Chars(r)[m] = s[m]
    OBVIOUS
  <2>1. Len(s \o star) = Len(s) + Len(star)
    BY <1>3, <1>4
  <2>2. \A m \in 1 .. Len(s) : (s \o star)[m] = s[m]
    BY <1>3, <1>4
  <2> QED BY <1>11, <1>12, <2>1, <2>2
<1>14. ~r.rej /\ r.star => Chars(r)[Len(s) + 1] = "*"
  BY <1>3, <1>4, <1>9, <1>11
<1>15. Len(s) \in Nat /\ DOMAIN s = 1 .. Len(s) /\ Len(Chars(r)) \in Nat /\ (Len(Chars(r)) = 0 => Chars(r) = <<>>)
  BY <1>3, <1>6
<1> QED BY <1>10, <1>13, <1>14, <1>15 DEF s

(* A rule other than "*" does not begin with a star. *)
LEMMA FirstPiece ==
  ASSUME NEW r \in Line, StarFree(r), r # All
  PROVE  Chars(r) = <<>> \/ Chars(r)[1] # "*"
<1> DEFINE s == r.stem
<1>1. r.rej \in BOOLEAN /\ r.star \in BOOLEAN /\ s \in Seq(Text) /\ r = [rej |-> r.rej, stem |-> s, star |-> r.star]
  BY DEF Line
<1>2. CASE r.rej
  BY <1>2, PiecesOfRule
<1>3. CASE ~r.rej /\ s # <<>>
  <2>1. 1 \in DOMAIN s /\ 1 \in 1 .. Len(s)
    <3> DEFINE T == Text
    <3>1. s \in Seq(T)
      BY <1>1
    <3> HIDE DEF s, T
    <3> QED BY <1>3, <3>1
  <2>2. Chars(r)[1] = s[1]
    BY <1>3, <2>1, PiecesOfRule
  <2> QED BY <2>1, <2>2 DEF StarFree
<1>4. CASE ~r.rej /\ s = <<>>
  <2>1. ~r.star
    <3> SUFFICES ASSUME r.star PROVE FALSE
      OBVIOUS
    <3>1. r = [rej |-> FALSE, stem |-> <<>>, star |-> TRUE]
      BY <1>1, <1>4
    <3> QED BY <3>1 DEF All, Accept
  <2>2. Len(s) = 0
    BY <1>4
  <2>3. Len(Chars(r)) = 0
    <3>1. Len(Chars(r)) = Len(s) + (IF r.star THEN 1 ELSE 0)
      BY <1>4, PiecesOfRule
    <3> HIDE DEF s
    <3> QED BY <2>1, <2>2, <3>1
  <2> QED BY <2>3, PiecesOfRule
<1> QED BY <1>2, <1>3, <1>4

(* A rule r inside of q: its pieces up to the star of q, and one that differs. *)
LEMMA InsideProps ==
  ASSUME NEW q \in Line, NEW r \in Line, Inside(q, r)
  PROVE  Len(q.stem) < Len(r.stem) /\ \A m \in 1 .. Len(q.stem) : q.stem[m] = r.stem[m]
<1> DEFINE s == q.stem
           t == r.stem
           X == Text
<1>1. s \in Seq(X) /\ t \in Seq(X)
  BY DEF Line
<1>2. IsPrefix(s, t) /\ s # t
  BY DEF Inside, IsStrictPrefix
<1> HIDE DEF s, t, X
<1>3. Len(s) \in Nat /\ Len(t) \in Nat /\ Len(s) <= Len(t) /\ SubSeq(s, 1, Len(s)) = SubSeq(t, 1, Len(s))
  BY <1>1, <1>2 DEF IsPrefix
<1>4. \A m \in 1 .. Len(s) : s[m] = t[m]
  <2> SUFFICES ASSUME NEW m \in 1 .. Len(s) PROVE s[m] = t[m]
    OBVIOUS
  <2>1. SubSeq(s, 1, Len(s))[m] = s[m] /\ SubSeq(t, 1, Len(s))[m] = t[m]
    BY <1>1, <1>3
  <2> QED BY <1>3, <2>1
<1>5. Len(s) # Len(t)
  <2> SUFFICES ASSUME Len(s) = Len(t) PROVE FALSE
    OBVIOUS
  <2>1. s = t
    BY <1>1, <1>4, SeqEqual
  <2> QED BY <1>2, <2>1
<1> QED BY <1>3, <1>4, <1>5 DEF s, t

(* One comparison: from the beginning of the argument with a rule that begins
   differently, from there with a rule inside of it, and from its star. *)
LEMMA AdvanceCases ==
  ASSUME NEW q \in Line, ~q.rej, q.star, q.stem # <<>>, StarFree(q), NEW r \in Line, StarFree(r)
  PROVE  LET arg == Chars(q)
             top == Len(q.stem) + 1
         IN /\ Inside(q, r) => ~Apart(q, r) /\ r # All /\ Advance(arg, 1, Chars(r)) = top
            /\ Apart(q, r) => Advance(arg, 1, Chars(r)) = 1
            /\ r # All => Advance(arg, top, Chars(r)) = top
<1> DEFINE arg == Chars(q)
           c == Chars(r)
           n == Len(q.stem)
<1>1. n \in Nat /\ n # 0 /\ 1 \in 1 .. n
  <2> DEFINE s == q.stem
             T == Text
  <2>1. s \in Seq(T) /\ s # <<>>
    BY DEF Line
  <2> HIDE DEF s, T
  <2>2. Len(s) \in Nat /\ Len(s) # 0
    BY <2>1
  <2> QED BY <2>2 DEF s
<1>2. Len(arg) = n + 1 /\ arg[n + 1] = "*" /\ \A m \in 1 .. n : arg[m] = q.stem[m]
  BY PiecesOfRule
<1>3. Len(c) \in Nat /\ (Len(c) = 0 <=> c = <<>>)
  BY PiecesOfRule
<1>4. \A m \in 1 .. n : arg[m] # "*"
  BY <1>2, PiecesOfRule DEF StarFree
<1>5. ASSUME Inside(q, r) PROVE ~Apart(q, r) /\ r # All /\ Advance(arg, 1, c) = n + 1
  <2>1. n < Len(r.stem) /\ ~r.rej /\ Len(r.stem) \in Nat
    BY <1>5, InsideProps, PiecesOfRule DEF Inside
  <2>2. \A m \in 1 .. n : q.stem[m] = r.stem[m]
    BY <1>5, InsideProps
  <2>3. Len(c) >= Len(r.stem) /\ \A m \in 1 .. Len(r.stem) : c[m] = r.stem[m]
    <3>1. Len(c) = Len(r.stem) + (IF r.star THEN 1 ELSE 0)
      BY <2>1, PiecesOfRule
    <3>2. \A m \in 1 .. Len(r.stem) : c[m] = r.stem[m]
      BY <2>1, PiecesOfRule
    <3>3. Len(c) >= Len(r.stem)
      <4> DEFINE l == Len(r.stem)
                 d == Len(c)
      <4>1. l \in Nat /\ (d = l + 1 \/ d = l + 0)
        BY <2>1, <3>1
      <4> HIDE DEF l, d
      <4>2. d >= l
        BY <4>1
      <4> QED BY <4>2 DEF l, d
    <3> QED BY <3>2, <3>3
  <2>4. \A m \in 1 .. n : arg[m] = c[m]
    BY <1>1, <1>2, <2>1, <2>2, <2>3
  <2>5. c[n + 1] # "*"
    BY <1>1, <2>1, <2>3, PiecesOfRule DEF StarFree
  <2>6. Common(arg, 1, c, n)
    <3> HIDE DEF arg, c, n
    <3>1. \A m \in 1 .. n : arg[1 + m - 1] = c[m]
      BY <1>1, <2>4
    <3> QED BY <1>1, <1>2, <2>5, <3>1 DEF Common
  <2>7. n \in 0 .. Len(c)
    BY <1>1, <1>3, <2>1, <2>3
  <2>8. Advance(arg, 1, c) = n + 1
    <3> HIDE DEF arg, c, n
    <3>1. Advance(arg, 1, c) = 1 + n
      BY <1>1, <1>2, <1>3, <2>6, <2>7, AdvanceTo
    <3> QED BY <1>1, <3>1
  <2>9. c # <<>> /\ c[1] = arg[1]
    BY <1>1, <1>3, <2>1, <2>3, <2>4
  <2>10. r # All
    <3>1. All.stem = <<>>
      BY DEF All, Accept
    <3>2. Len(<<>>) = 0
      OBVIOUS
    <3> QED BY <1>1, <2>1, <3>1, <3>2
  <2> QED BY <2>8, <2>9, <2>10 DEF Apart
<1>6. ASSUME Apart(q, r) PROVE Advance(arg, 1, c) = 1
  <2>1. c = <<>> \/ c[1] # arg[1]
    BY <1>6 DEF Apart
  <2> HIDE DEF arg, c, n
  <2>2. Common(arg, 1, c, 0)
    BY <1>1, <1>2, <1>3, <2>1 DEF Common
  <2>3. Advance(arg, 1, c) = 1 + 0
    BY <1>1, <1>2, <1>3, <2>2, AdvanceTo
  <2> QED BY <2>3
<1>7. ASSUME r # All PROVE Advance(arg, n + 1, c) = n + 1
  <2>1. c = <<>> \/ c[1] # "*"
    BY <1>7, FirstPiece
  <2> HIDE DEF arg, c, n
  <2>2. Common(arg, n + 1, c, 0)
    <3>1. n + 1 + 0 = n + 1 /\ n + 1 + 0 - 1 <= Len(arg)
      BY <1>1, <1>2
    <3>2. 0 = Len(c) \/ arg[n + 1 + 0] # c[0 + 1]
      BY <1>2, <1>3, <2>1, <3>1
    <3> QED BY <3>1, <3>2 DEF Common
  <2>3. Advance(arg, n + 1, c) = (n + 1) + 0
    BY <1>1, <1>2, <1>3, <2>2, AdvanceTo
  <2> QED BY <1>1, <2>3
<1> QED BY <1>5, <1>6, <1>7

(* In an order as InOrder asks for, listp is at the star of the argument q when it
   comes to a rule inside of q: up to the first of them it stays at the beginning,
   and from there on at the star. *)
LEMMA FoundInside ==
  ASSUME NEW q \in Line, ~q.rej, q.star, q.stem # <<>>, StarFree(q),
         NEW others \in Seq(Line), \A h \in DOMAIN others : StarFree(others[h]),
         NEW i \in DOMAIN others, Inside(q, others[i]),
         \A h \in 1 .. i - 1 :
           IF \E e \in 1 .. h - 1 : Inside(q, others[e]) THEN others[h] # All
           ELSE Inside(q, others[h]) \/ Apart(q, others[h])
  PROVE  AtStar(Chars(q), Positions(Chars(q), others)[i])
<1> DEFINE arg == Chars(q)
           top == Len(q.stem) + 1
           f == Positions(arg, others)
           Found(h) == \E e \in 1 .. h : Inside(q, others[e])
           At(h) == f[h] = IF Found(h) THEN top ELSE 1
           Bad == {h \in 0 .. i : ~At(h)}
<1>1. Len(others) \in Nat /\ DOMAIN others = 1 .. Len(others) /\ i \in Nat /\ i <= Len(others) /\ 1 <= i
  OBVIOUS
<1>2. f[0] = 1 /\ \A h \in 1 .. Len(others) : f[h] = Advance(arg, f[h - 1], Chars(others[h]))
  BY <1>1, PositionsSteps
<1>3. \A h \in DOMAIN others :
        /\ Inside(q, others[h]) => ~Apart(q, others[h]) /\ others[h] # All /\ Advance(arg, 1, Chars(others[h])) = top
        /\ Apart(q, others[h]) => Advance(arg, 1, Chars(others[h])) = 1
        /\ others[h] # All => Advance(arg, top, Chars(others[h])) = top
  BY AdvanceCases
<1>4. AtStar(arg, top)
  <2>1. Len(arg) = Len(q.stem) + 1 /\ arg[Len(q.stem) + 1] = "*" /\ Len(q.stem) \in Nat
    BY PiecesOfRule
  <2> HIDE DEF arg
  <2>2. Len(arg) = top /\ arg[top] = "*" /\ top \in Nat
    BY <2>1
  <2> HIDE DEF top
  <2> QED BY <2>2 DEF AtStar
<1> HIDE DEF arg, top, f
<1>5. Bad = {}
  <2> SUFFICES ASSUME Bad # {} PROVE FALSE
    OBVIOUS
  <2>1. Bad \in SUBSET Nat
    BY <1>1
  <2>2. PICK m \in Bad : \A l \in Nat : l < m => l \notin Bad
    <3> HIDE DEF Bad
    <3> QED BY <2>1, LeastNumber
  <2>3. m \in 0 .. i /\ ~At(m)
    BY <2>2
  <2>4. m # 0
    <3>1. \A e : e \notin 1 .. 0
      OBVIOUS
    <3>2. ~Found(0)
      BY <3>1
    <3> QED BY <1>2, <2>3, <3>2
  <2>5. m - 1 \in Nat /\ m - 1 < m /\ m - 1 \in 0 .. i /\ m \in 1 .. Len(others) /\ m \in DOMAIN others
    BY <1>1, <2>3, <2>4
  <2>6. At(m - 1)
    BY <2>2, <2>5
  <2>7. f[m] = Advance(arg, f[m - 1], Chars(others[m]))
    BY <1>2, <2>5
  <2>8. \A e : e \in 1 .. m <=> e \in 1 .. (m - 1) \/ e = m
    BY <2>5
  <2>9. Found(m) <=> Found(m - 1) \/ Inside(q, others[m])
    BY <2>8
  <2>10. m # i => m \in 1 .. i - 1
    BY <1>1, <2>3, <2>4
  <2> HIDE DEF Bad
  <2>11. CASE Found(m - 1)
    <3>1. others[m] # All
      BY <1>3, <2>5, <2>10, <2>11
    <3>2. f[m - 1] = top
      BY <2>6, <2>11
    <3>3. f[m] = top
      BY <1>3, <2>5, <2>7, <3>1, <3>2
    <3> QED BY <2>3, <2>9, <2>11, <3>3
  <2>12. CASE ~Found(m - 1)
    <3>1. f[m - 1] = 1
      BY <2>6, <2>12
    <3>2. Inside(q, others[m]) \/ Apart(q, others[m])
      BY <2>10, <2>12
    <3>3. CASE Inside(q, others[m])
      BY <1>3, <2>3, <2>5, <2>7, <2>9, <3>1, <3>3
    <3>4. CASE Apart(q, others[m])
      BY <1>3, <2>3, <2>5, <2>7, <2>9, <2>12, <3>1, <3>4
    <3> QED BY <3>2, <3>3, <3>4
  <2> QED BY <2>11, <2>12
<1>6. At(i) /\ Found(i)
  BY <1>1, <1>5
<1>7. f[i] = top
  BY <1>6
<1> QED BY <1>4, <1>7 DEF arg, f

(* The filter made for an argument: "*", and against rules of the others, among
   them those whose comparison ends at the star of the argument. *)
LEMMA WildmatRules ==
  ASSUME NEW k \in Nr, NEW q
  PROVE  LET F == FilterWildmat(k, q)
         IN /\ F \in Seq(Line)
            /\ \A r : Has(F, r) => r = All \/ r.rej
            /\ \A i \in DOMAIN Others(k) : AtStar(Chars(q), Positions(Chars(q), Others(k))[i]) =>
                 Has(F, Reject(Others(k)[i]))
<1> DEFINE others == Others(k)
           star(i) == AtStar(Chars(q), Positions(Chars(q), others)[i])
           ss == [i \in DOMAIN others |-> IF star(i) THEN <<others[i]>> ELSE <<>>]
           found == FlattenSeq(ss)
           rej == RejectAll(found)
           F == FilterWildmat(k, q)
           X == Line
<1>1. F = <<All>> \o rej
  BY DEF FilterWildmat
<1>2. others \in Seq(X)
  BY RulesOfOthers
<1>3. All \in X
  <2>1. <<>> \in Seq(Text)
    OBVIOUS
  <2> QED BY <2>1 DEF All, Accept, Line
<1>4. \A r \in X : Reject(r) \in X /\ Reject(r).rej
  BY RejectProps
<1> HIDE DEF others, F, X, star
<1>5. Len(others) \in Nat /\ DOMAIN others = 1 .. Len(others) /\ \A i \in DOMAIN others : others[i] \in X
  BY <1>2
<1>6. \A i \in DOMAIN others : ss[i] = IF star(i) THEN <<others[i]>> ELSE <<>>
  OBVIOUS
<1>7. \A i \in DOMAIN others : ss[i] \in Seq(X)
  BY <1>5, <1>6
<1>8. ss \in Seq(Seq(X)) /\ Len(ss) = Len(others) /\ DOMAIN ss = DOMAIN others
  <2>1. DOMAIN ss = DOMAIN others /\ ss = [i \in 1 .. Len(others) |-> ss[i]]
    BY <1>5
  <2> HIDE DEF ss
  <2>2. ss \in [1 .. Len(others) -> Seq(X)]
    BY <1>5, <1>7, <2>1
  <2> QED BY <1>5, <2>1, <2>2
<1>9. found \in Seq(X) /\ \A i \in DOMAIN others : star(i) => Has(found, others[i])
  <2>1. CASE Len(others) = 0
    <3>1. Len(ss) = 0
      BY <1>8, <2>1
    <3>2. found = <<>>
      BY <1>8, <3>1 DEF FlattenSeq
    <3>3. \A i : i \notin DOMAIN others
      BY <1>5, <2>1
    <3> HIDE DEF found
    <3> QED BY <3>2, <3>3
  <2>2. CASE Len(others) # 0
    <3> HIDE DEF ss
    <3>1. found \in Seq(X) /\ \A x : Has(found, x) <=> \E i \in DOMAIN ss : Has(ss[i], x)
      BY <1>8, <2>2, HasFlatten
    <3>2. ASSUME NEW i \in DOMAIN others, star(i) PROVE Has(found, others[i])
      <4>1. ss[i] = <<others[i]>>
        BY <1>6, <3>2
      <4>2. Has(ss[i], others[i])
        BY <4>1 DEF Has
      <4> HIDE DEF found
      <4> QED BY <1>8, <3>1, <4>2
    <3> QED BY <3>1, <3>2
  <2> QED BY <2>1, <2>2
<1> HIDE DEF found
<1>10. rej = [i \in DOMAIN found |-> Reject(found[i])] /\ DOMAIN found = 1 .. Len(found) /\ Len(found) \in Nat
  BY <1>9 DEF RejectAll
<1> HIDE DEF rej
<1>11. \A i \in DOMAIN found : i \in DOMAIN rej /\ rej[i] = Reject(found[i]) /\ rej[i] \in X /\ rej[i].rej
  BY <1>4, <1>9, <1>10
<1>12. rej \in [1 .. Len(found) -> X]
  BY <1>10, <1>11
<1>13. rej \in Seq(X) /\ DOMAIN rej = DOMAIN found
  BY <1>10, <1>12
<1>14. <<All>> \in Seq(X)
  BY <1>3
<1>15. F \in Seq(X)
  BY <1>1, <1>13, <1>14
<1>16. \A r : Has(F, r) <=> Has(<<All>>, r) \/ Has(rej, r)
  BY <1>1, <1>13, <1>14, HasConcat
<1>17. \A r : Has(<<All>>, r) => r = All
  BY DEF Has
<1>18. \A r : Has(rej, r) => r.rej
  BY <1>11, <1>13 DEF Has
<1>19. ASSUME NEW i \in DOMAIN others, star(i) PROVE Has(F, Reject(others[i]))
  <2>1. PICK m \in DOMAIN found : found[m] = others[i]
    BY <1>9, <1>19 DEF Has
  <2>2. Has(rej, Reject(others[i]))
    BY <1>11, <2>1 DEF Has
  <2> QED BY <1>16, <2>2
<1> QED BY <1>15, <1>16, <1>17, <1>18, <1>19 DEF F, X, others, star

LEMMA ClenProps ==
  ASSUME NEW r \in Line, NEW g, Clen(r, g) > 0
  PROVE  /\ Clen(r, g) = Len(r.stem) + 1 /\ Len(r.stem) \in Nat
         /\ r.stem = g \/ (r.star /\ IsPrefix(r.stem, g))
<1>1. Len(r.stem) \in Nat
  BY PiecesOfRule
<1> QED BY <1>1 DEF Clen

(* Of two rules that fit a group, the longer one is inside of the other. *)
LEMMA LongerIsInside ==
  ASSUME NEW q \in Line, NEW r \in Line, ~r.rej, NEW g \in Group,
         Clen(q, g) > 0, Clen(r, g) > Clen(q, g)
  PROVE  Inside(q, r)
<1> DEFINE s == q.stem
           t == r.stem
           X == Text
<1>1. s \in Seq(X) /\ t \in Seq(X)
  BY DEF Line
<1>2. g \in Seq(X)
  <2> DEFINE Parts == STRING
  <2>1. g \in Seq(Parts) /\ Parts \subseteq X
    BY GroupAssumption DEF Text
  <2> HIDE DEF Parts, X
  <2> QED BY <2>1
<1>3. Clen(q, g) \in Int /\ Clen(r, g) \in Int /\ Clen(r, g) > 0
  <2>1. Clen(q, g) \in Int /\ Clen(r, g) \in Int
    BY ClenInt
  <2> QED BY <2>1
<1>4. Clen(q, g) = Len(s) + 1 /\ (s = g \/ (q.star /\ IsPrefix(s, g)))
  BY ClenProps
<1>5. Clen(r, g) = Len(t) + 1 /\ (t = g \/ IsPrefix(t, g))
  BY <1>3, ClenProps
<1> HIDE DEF s, t, X
<1>6. Len(s) \in Nat /\ Len(t) \in Nat /\ Len(g) \in Nat /\ Len(s) < Len(t)
  BY <1>1, <1>2, <1>4, <1>5
<1>7. Len(t) <= Len(g) /\ \A m \in 1 .. Len(t) : t[m] = g[m]
  <2>1. CASE t = g
    BY <1>6, <2>1
  <2>2. CASE IsPrefix(t, g)
    <3>1. Len(t) <= Len(g) /\ SubSeq(t, 1, Len(t)) = SubSeq(g, 1, Len(t))
      BY <2>2 DEF IsPrefix
    <3>2. ASSUME NEW m \in 1 .. Len(t) PROVE t[m] = g[m]
      <4>1. SubSeq(t, 1, Len(t))[m] = t[m] /\ SubSeq(g, 1, Len(t))[m] = g[m]
        BY <1>1, <1>2, <1>6, <3>1
      <4> QED BY <3>1, <4>1
    <3> QED BY <3>1, <3>2
  <2> QED BY <1>5, <2>1, <2>2
<1>8. q.star /\ IsPrefix(s, g)
  BY <1>4, <1>6, <1>7
<1>9. \A m \in 1 .. Len(s) : s[m] = g[m]
  <2>1. SubSeq(s, 1, Len(s)) = SubSeq(g, 1, Len(s)) /\ Len(s) <= Len(g)
    BY <1>8 DEF IsPrefix
  <2>2. ASSUME NEW m \in 1 .. Len(s) PROVE s[m] = g[m]
    <3>1. SubSeq(s, 1, Len(s))[m] = s[m] /\ SubSeq(g, 1, Len(s))[m] = g[m]
      BY <1>1, <1>2, <1>6, <2>1
    <3> QED BY <2>1, <3>1
  <2> QED BY <2>2
<1>10. \A m \in 1 .. Len(s) : s[m] = t[m]
  BY <1>6, <1>7, <1>9
<1>11. SubSeq(s, 1, Len(s)) = SubSeq(t, 1, Len(s))
  <2> DEFINE n == Len(s)
             a == SubSeq(s, 1, n)
             b == SubSeq(t, 1, n)
  <2>1. a \in Seq(X) /\ b \in Seq(X) /\ Len(a) = n /\ Len(b) = n
    BY <1>1, <1>6
  <2>2. \A m \in 1 .. n : a[m] = s[m] /\ b[m] = t[m]
    BY <1>1, <1>6
  <2> HIDE DEF a, b
  <2>3. a = b
    BY <1>10, <2>1, <2>2, SeqEqual
  <2> QED BY <2>3 DEF a, b
<1>12. IsPrefix(s, t) /\ s # t
  BY <1>6, <1>11 DEF IsPrefix
<1> QED BY <1>8, <1>12 DEF Inside, IsStrictPrefix, s, t

(* No rule of the server list has a star inside. *)
LEMMA StarFreeRules ==
  ASSUME NEW k \in Nr, NEW r, Has(Entries[k].read, r)
  PROVE  StarFree(r)
BY StarsAssumption DEF Has, StarFree

(* Without rules that reject, an entry fits at least as well as any rule of it. *)
LEMMA FitsWithRule ==
  ASSUME NEW k \in Nr, \A j \in DOMAIN Entries[k].read : ~Entries[k].read[j].rej,
         NEW q, Has(Entries[k].read, q), NEW g, Clen(q, g) > 0
  PROVE  Fits(k, g) \in Int /\ Clen(q, g) \in Int /\ Fits(k, g) >= Clen(q, g)
<1> DEFINE rules == Entries[k].read
<1>1. rules \in Seq(Line) /\ Fits(k, g) = matchgroup(rules, g) /\ \A j \in DOMAIN rules : ~rules[j].rej
  BY LinesOfServer DEF Fits
<1> HIDE DEF rules
<1>2. PICK m \in DOMAIN rules : rules[m] = q
  BY DEF Has, rules
<1>3. PICK b : Decides(b, rules, g) /\ matchgroup(rules, g) = Verdict(rules, b, g)
  BY <1>1, <1>2, LongestRuleDecides
<1>4. b \in DOMAIN rules /\ Fits(k, g) = Clen(rules[b], g)
  BY <1>1, <1>3 DEF Decides, Verdict
<1>5. Clen(rules[b], g) \in Int /\ Clen(q, g) \in Int
  BY <1>1, <1>2, <1>4, ClenInt
<1>6. Clen(rules[b], g) > Clen(q, g) \/ Clen(rules[b], g) = Clen(q, g)
  BY <1>2, <1>3 DEF Decides
<1> QED BY <1>4, <1>5, <1>6

(* makeFilter(k, rule), the filter of "list active rule": in a server list without
   ties and rejecting rules, whose rules come in an order that the scan of
   makeFilter can cope with, a group that the rule fits and that passes the filter
   is one that MPList::server gives to the server. *)
THEOREM FilterOfRuleKeepsOwnGroups ==
  ASSUME NoRejects, NoTies, InOrder, NEW k \in Nr, Entries[k].host,
         NEW j \in DOMAIN Entries[k].read, Entries[k].read[j] # All,
         NEW g \in PassingWildmat[k][j], Clen(Entries[k].read[j], g) > 0
  PROVE  ServerOf[g] = k
<1> DEFINE q == Entries[k].read[j]
           F == FilterWildmat(k, q)
           others == Others(k)
<1>1. q \in Line /\ ~q.rej /\ Has(Entries[k].read, q) /\ q # All /\ Clen(q, g) > 0
  BY LinesOfServer DEF NoRejects, Has
<1>2. g \in Group /\ matchgroup(F, g) > 0
  BY DEF PassingWildmat, makeFilter
<1>3. StarFree(q)
  BY <1>1, StarFreeRules
<1>4. Fits(k, g) \in Int /\ Clen(q, g) \in Int /\ Fits(k, g) >= Clen(q, g)
  BY <1>1, FitsWithRule DEF NoRejects
<1>5. /\ F \in Seq(Line) /\ \A r : Has(F, r) => r = All \/ r.rej
      /\ \A i \in DOMAIN others : AtStar(Chars(q), Positions(Chars(q), others)[i]) => Has(F, Reject(others[i]))
  BY WildmatRules
<1>6. others \in Seq(Line) /\ \A r : Has(others, r) <=> \E m \in Nr : m # k /\ Has(Entries[m].read, r)
  BY RulesOfOthers
<1>7. \A i \in DOMAIN others : Inside(q, others[i]) =>
        \A h \in 1 .. i - 1 :
          IF \E e \in 1 .. h - 1 : Inside(q, others[e]) THEN others[h] # All
          ELSE Inside(q, others[h]) \/ Apart(q, others[h])
  BY <1>1 DEF InOrder
<1> HIDE DEF q, F, others
<1>8. \A i \in DOMAIN others : StarFree(others[i])
  <2> SUFFICES ASSUME NEW i \in DOMAIN others PROVE StarFree(others[i])
    OBVIOUS
  <2>1. Has(others, others[i])
    BY DEF Has
  <2> QED BY <1>6, <2>1, StarFreeRules
<1>9. ASSUME NEW r \in Line, Has(others, r), ~r.rej, Clen(r, g) > Clen(q, g) PROVE FALSE
  <2>1. Inside(q, r)
    BY <1>1, <1>2, <1>9, LongerIsInside
  <2>2. PICK i \in DOMAIN others : others[i] = r
    BY <1>9 DEF Has
  <2>3. q.star
    BY <2>1 DEF Inside
  <2>4. q.stem # <<>>
    <3> DEFINE s == q.stem
    <3>1. q = [rej |-> q.rej, stem |-> s, star |-> q.star] /\ q.rej \in BOOLEAN /\ q.star \in BOOLEAN
      BY <1>1 DEF Line
    <3> HIDE DEF s
    <3>2. s # <<>>
      BY <1>1, <2>3, <3>1 DEF All, Accept
    <3> QED BY <3>2 DEF s
  <2>5. AtStar(Chars(q), Positions(Chars(q), others)[i])
    <3>1. \A h \in 1 .. i - 1 :
            IF \E e \in 1 .. h - 1 : Inside(q, others[e]) THEN others[h] # All
            ELSE Inside(q, others[h]) \/ Apart(q, others[h])
      BY <1>7, <2>1, <2>2
    <3> QED BY <1>1, <1>3, <1>6, <1>8, <2>1, <2>2, <2>3, <2>4, <3>1, FoundInside
  <2>6. Has(F, Reject(r))
    BY <1>5, <2>2, <2>5
  <2>7. PICK m \in DOMAIN F : F[m] = Reject(r)
    BY <2>6 DEF Has
  <2>8. Clen(F[m], g) = Clen(r, g) /\ Clen(r, g) \in Int
    BY <1>9, <2>7, RejectProps, ClenInt
  <2>9. Clen(r, g) > 1 /\ Clen(F[m], g) > 0
    BY <1>1, <1>4, <1>9, <2>8
  <2>10. PICK b : Decides(b, F, g) /\ matchgroup(F, g) = Verdict(F, b, g)
    BY <1>5, <2>7, <2>9, LongestRuleDecides
  <2>11. b \in DOMAIN F /\ F[b] \in Line
    BY <1>5, <2>10 DEF Decides
  <2>12. Clen(F[b], g) \in Int /\ Clen(F[b], g) > 1
    <3>1. Clen(F[b], g) \in Int
      BY <2>11, ClenInt
    <3>2. Clen(F[b], g) > Clen(F[m], g) \/ Clen(F[b], g) = Clen(F[m], g)
      BY <2>7, <2>9, <2>10 DEF Decides
    <3> QED BY <2>8, <2>9, <3>1, <3>2
  <2>13. F[b] # All
    <3> SUFFICES ASSUME F[b] = All PROVE FALSE
      OBVIOUS
    <3>1. Clen(F[b], g) = Len(F[b].stem) + 1
      BY <2>11, <2>12, ClenProps
    <3>2. F[b].stem = <<>>
      BY DEF All, Accept
    <3>3. Len(<<>>) = 0
      OBVIOUS
    <3> QED BY <2>12, <3>1, <3>2, <3>3
  <2>14. F[b].rej
    BY <1>5, <2>11, <2>13 DEF Has
  <2>15. matchgroup(F, g) = - Clen(F[b], g)
    BY <2>10, <2>14 DEF Verdict
  <2> QED BY <1>2, <2>12, <2>15
<1>10. ASSUME NEW m \in Nr, m # k, Fits(m, g) > 0
       PROVE  Fits(k, g) > Fits(m, g)
  <2>1. PICK r \in Line : Has(Entries[m].read, r) /\ ~r.rej /\ Clen(r, g) = Fits(m, g)
    BY <1>10, FittingRule
  <2>2. Has(others, r)
    BY <1>6, <1>10, <2>1
  <2>3. ~(Clen(r, g) > Clen(q, g))
    BY <1>9, <2>1, <2>2
  <2>4. Fits(m, g) \in Int
    BY FitsInt
  <2>5. Fits(k, g) # Fits(m, g)
    BY <1>2, <1>10 DEF NoTies, Fits
  <2> QED BY <1>4, <2>1, <2>3, <2>4, <2>5
<1>11. Fits(k, g) > 0
  BY <1>1, <1>4
<1>12. Leads(k, g)
  <2>1. k <= k
    BY NrFinite
  <2> QED BY <1>10, <1>11, <2>1 DEF Leads
<1>13. server(g) = k
  BY <1>12, ServerOfLeader
<1> QED BY <1>2, <1>13 DEF ServerOf
-----------------------------------------------------------------------------
(* Where the numbers of the active database come from *)

AdbInv == adb = [g \in Group |-> adb[g]] /\ ActiveFromResponsible

(* Every group that active() takes over is one the server is responsible for. *)
LEMMA WantedOfServer ==
  ASSUME FiltersAgree, GroupInv, Top("active", "wild") \/ Top("active", "body"), NEW g \in Group, g \in Wanted
  PROVE  cs = ServerOf[g]
<1> DEFINE f == stack[1]
<1>1. stack # <<>> /\ f.fn = "active" /\ f.at \in {"wild", "body"}
  BY DEF Top
<1>2. cs \in Nr /\ Entries[cs].host /\ (f.j = 1 \/ f.j \in DOMAIN Entries[cs].read)
  BY <1>1, RunningCall DEF FrameOK
<1>3. Entries[cs].read # <<>>
  BY <1>2 DEF FiltersAgree, HasRules
<1>4. f.j \in DOMAIN Entries[cs].read
  <2> DEFINE r == Entries[cs].read
  <2>1. r \in Seq(Rule)
    BY <1>2, RulesOfServer
  <2> HIDE DEF r
  <2>2. r # <<>> => 1 \in DOMAIN r
    BY <2>1
  <2> QED BY <1>2, <1>3, <2>2 DEF r
<1>5. CASE f.at = "body"
  <2>1. g \in Passing[cs]
    BY <1>5 DEF Wanted
  <2> QED BY <1>2, <2>1, FilterKeepsOwnGroups DEF FiltersAgree
<1>6. CASE f.at = "wild"
  <2>1. g \in PassingWildmat[cs][f.j] /\ Clen(Entries[cs].read[f.j], g) > 0
    BY <1>6 DEF Wanted, ListedGroups
  <2>2. CASE Entries[cs].read[f.j] = All
    <3>1. PassingWildmat[cs][f.j] = Passing[cs]
      BY <1>2, <1>4, <2>2 DEF PassingWildmat, Passing
    <3> QED BY <1>2, <2>1, <3>1, FilterKeepsOwnGroups DEF FiltersAgree
  <2>3. CASE Entries[cs].read[f.j] # All
    BY <1>2, <1>4, <2>1, <2>3, FilterOfRuleKeepsOwnGroups DEF FiltersAgree
  <2> QED BY <2>2, <2>3
<1> QED BY <1>1, <1>5, <1>6

LEMMA AdbInvNext ==
  ASSUME FiltersAgree, GroupInv, AdbInv, [Next]_vars
  PROVE  AdbInv'
<1>1. ASSUME adb' = adb PROVE AdbInv'
  BY <1>1 DEF AdbInv, ActiveFromResponsible
<1>2. CASE SelectgroupAnswer
  <2> DEFINE g == stack[1].g
  <2>1. stack # <<>> /\ stack[1].fn = "selectgroup" /\ stack[1].at = "answer"
    BY <1>2 DEF SelectgroupAnswer, Top
  <2>2. g \in Group /\ cs = ServerOf[g]
    BY <2>1, RunningCall DEF FrameOK, Is
  <2>3. adb' = adb \/ adb' = [adb EXCEPT ![g] = cs]
    BY <1>2 DEF SelectgroupAnswer
  <2>4. CASE adb' = [adb EXCEPT ![g] = cs]
    <3> HIDE DEF g
    <3>1. adb' = [x \in Group |-> IF x = g THEN cs ELSE adb[x]]
      BY <2>4 DEF AdbInv
    <3>2. \A x \in Group : adb'[x] = IF x = g THEN cs ELSE adb[x]
      BY <3>1
    <3>3. ActiveFromResponsible'
      BY <2>2, <3>2 DEF AdbInv, ActiveFromResponsible
    <3>4. adb' = [x \in Group |-> adb'[x]]
      BY <3>1
    <3> QED BY <3>3, <3>4 DEF AdbInv
  <2> QED BY <1>1, <2>3, <2>4
<1>3. CASE ActiveRead
  <2>1. PICK S \in SUBSET Wanted : adb' = [x \in Group |-> IF x \in S THEN cs ELSE adb[x]]
    BY <1>3 DEF ActiveRead
  <2>2. \A x \in Group : adb'[x] = IF x \in S THEN cs ELSE adb[x]
    BY <2>1
  <2>3. \A x \in Group : x \in S => cs = ServerOf[x]
    <3>1. Top("active", "wild") \/ Top("active", "body")
      BY <1>3 DEF ActiveRead
    <3> QED BY <2>1, <3>1, WantedOfServer
  <2>4. ActiveFromResponsible'
    BY <2>2, <2>3 DEF AdbInv, ActiveFromResponsible
  <2>5. adb' = [x \in Group |-> adb'[x]]
    BY <2>1
  <2> QED BY <2>4, <2>5 DEF AdbInv
<1>4. CASE Issuing \/ Connecting
  <2>1. adb' = adb
    BY <1>4 DEF Issuing, IssueAnswered, IssueLost, IssueRetry, Connecting, ConnectRefused, ConnectLost,
                ConnectBusy, ConnectGreeted, ConnectReader, ConnectFmt, ConnectEnd
  <2> QED BY <1>1, <2>1
<1>5. CASE \/ SelectgroupIssue \/ OpIssue \/ OverviewIssue \/ OpRead \/ OverviewUnknown \/ OpRefused
           \/ ArticleIdAnswer \/ ArticleIdNext \/ ActiveServer \/ ActiveIssue
  <2>1. adb' = adb
    BY <1>5 DEF SelectgroupIssue, OpIssue, OverviewIssue, OpRead, OverviewUnknown, OpRefused,
                ArticleIdAnswer, ArticleIdNext, ActiveServer, ActiveIssue
  <2> QED BY <1>1, <2>1
<1>6. ASSUME NEW g \in Group, Selectgroup(g) \/ Listgroup(g) \/ Overviewdb(g) \/ Article(g) PROVE AdbInv'
  <2>1. adb' = adb
    BY <1>6 DEF Selectgroup, Listgroup, Overviewdb, Article, Start
  <2> QED BY <1>1, <2>1
<1>7. CASE ArticleId \/ Active \/ Setserverlist \/ IdleClose \/ GroupRemoved
  <2>1. adb' = adb
    BY <1>7 DEF ArticleId, Active, Start, Setserverlist, IdleClose, GroupRemoved
  <2> QED BY <1>1, <2>1
<1>8. CASE UNCHANGED vars
  <2>1. adb' = adb
    BY <1>8 DEF vars
  <2> QED BY <1>1, <2>1
<1> QED BY <1>2, <1>3, <1>4, <1>5, <1>6, <1>7, <1>8 DEF Next, Running, Operating

(* If the server list has no rejecting rules and no ties, and its rules come in an
   order that the scan of makeFilter can cope with, the active database has the
   numbers of a group only from the server responsible for it: the filters of
   LIST ACTIVE, with and without an argument, agree with MPList::server, and
   neither a reconnect inside of active() nor one inside of selectgroup stores the
   numbers for another server. *)
THEOREM NumbersFromTheResponsibleServer ==
  ASSUME FiltersAgree
  PROVE  Spec => []ActiveFromResponsible
<1>1. Init => AdbInv
  <2> SUFFICES ASSUME Init PROVE AdbInv
    OBVIOUS
  <2>1. adb = [g \in Group |-> 0]
    BY DEF Init
  <2>2. \A g \in Group : adb[g] = 0
    BY <2>1
  <2>3. adb = [g \in Group |-> adb[g]]
    BY <2>1
  <2> QED BY <2>2, <2>3 DEF AdbInv, ActiveFromResponsible
<1>2. GroupInv /\ AdbInv /\ [Next]_vars => AdbInv'
  BY AdbInvNext
<1>3. AdbInv => ActiveFromResponsible
  BY DEF AdbInv
<1> QED BY <1>1, <1>2, <1>3, GroupInvariant, PTL DEF Spec
=============================================================================
