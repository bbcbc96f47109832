---------------------------- MODULE PostingProofs ---------------------------
(***************************************************************************)
(* No article is lost on its way, whatever the sets of articles, servers   *)
(* and processes and however often the network fails.                      *)
(***************************************************************************)
EXTENDS Posting, TLAPS

(* A process holds an article exactly while it is posting it. *)
Holding ==
  /\ \A p \in Proc : pc[p] = "idle" <=> art[p] = NoArticle
  /\ \A p \in Updater : pc[p] # "answer"

(* The server being talked to has no outcome yet. *)
Undecided ==
  \A p \in Proc, s \in Server :
    pc[p] \in {"post", "send"} /\ s \in cur[p] => fate[p][s] = "todo"

(* A server that counts as posted has the article, and none is forgotten. *)
FateSound ==
  \A p \in Proc : Working(p) => \A s \in Server :
    /\ fate[p][s] = "posts" => art[p] \in has[s]
    /\ fate[p][s] = "none" => s \notin Target[art[p]]

(* A child alone posts its article, which has no answer yet. *)
ChildAlone ==
  \A p \in Child : pc[p] # "idle" =>
    /\ answer[art[p]] = "none"
    /\ \A q \in Child \ {p} : art[q] # art[p]

(* The child has let go of the article, and the client is or will be told 240. *)
Accepted(a) == answer[a] = "240" \/ \E p \in Child : pc[p] = "answer" /\ art[p] = a

(* Only accepted articles are in the stores and in the hands of updatenews. *)
StoredAccepted ==
  \A a \in Article :
    a \in spool \cup bad \/ (\E p \in Updater : art[p] = a) => Accepted(a)

(* And each accepted article is kept until it is delivered. *)
AcceptedKept ==
  \A a \in Article : Accepted(a) =>
    a \in spool \cup bad \/ Delivered(a) \/ \E p \in Updater : Working(p) /\ art[p] = a

(* What a server confirmed before the answer, the child has counted. *)
AckCounted ==
  /\ \A p \in Child : Working(p) =>
       \A s \in acked[art[p]] : fate[p][s] = "posts"
  /\ \A a \in Article :
       answer[a] = "none" /\ (\A p \in Proc : art[p] # a) => acked[a] = {}

(* Between stat and the end of the exchange no one else sends the article. *)
NotYetSent ==
  \A p \in Proc, s \in Server :
    pc[p] \in {"post", "send"} /\ s \in cur[p] /\ art[p] \in has[s] => tries[p] <= Retries

PInv ==
  /\ TypeOK /\ Holding /\ Undecided /\ FateSound /\ ExclusiveHands /\ ChildAlone
  /\ StoredAccepted /\ AcceptedKept /\ AckCounted /\ NotYetSent /\ RejectedIsOver

USE TargetAssumption, OfflineAssumption, RetriesAssumption, ProcessAssumption,
    NoArticleAssumption
-----------------------------------------------------------------------------
LEMMA InitPInv == Init => PInv
<1> SUFFICES ASSUME Init PROVE PInv
  OBVIOUS
<1>1. TypeOK
  BY DEF Init, TypeOK, Fates
<1>2. Holding /\ Undecided /\ FateSound /\ ExclusiveHands /\ ChildAlone
  BY DEF Init, Holding, Undecided, FateSound, ExclusiveHands, ChildAlone, Working, Proc
<1>3. StoredAccepted /\ AcceptedKept
  BY DEF Init, StoredAccepted, AcceptedKept, Accepted, Proc
<1>4. AckCounted /\ NotYetSent /\ RejectedIsOver
  BY DEF Init, AckCounted, NotYetSent, RejectedIsOver, Working, Proc
<1> QED
  BY <1>1, <1>2, <1>3, <1>4 DEF PInv

(* What an exchange of process p with server s may do: only p moves, the
   article stays in its hands, the server may get it, and the outcome is
   decided at most once. *)
Exchanged(p, s) ==
  /\ UNCHANGED <<answer, spool, bad, art>>
  /\ Working(p)
  /\ \E x \in {"next", "post", "send"} : pc' = [pc EXCEPT ![p] = x]
  /\ has' = has \/ has' = [has EXCEPT ![s] = @ \cup {art[p]}]
  /\ \/ fate' = fate /\ acked' = acked
     \/ /\ fate[p][s] = "todo" /\ acked' = acked
        /\ \E f \in {"spool", "err"} : fate' = [fate EXCEPT ![p][s] = f]
     \/ /\ fate' = [fate EXCEPT ![p][s] = "posts"]
        /\ acked' = [acked EXCEPT ![art[p]] = @ \cup {s}]
        /\ art[p] \in has'[s]

LEMMA ExchangeStep ==
  ASSUME PInv, NEW p \in Proc, NEW s \in Server,
         \/ SkipOffline(p, s) \/ StatFails(p, s) \/ Stat(p, s)
         \/ PostGoOn(p, s) \/ PostRefused(p, s)
         \/ Sent(p, s) \/ SendRefused(p, s) \/ LostAnswer(p, s) \/ LostArticle(p, s)
  PROVE  Exchanged(p, s) /\ TypeOK' /\ Undecided' /\ NotYetSent'
<1> USE DEF store, posting
<1>0. TypeOK /\ Undecided /\ NotYetSent /\ ExclusiveHands /\ Holding
  BY DEF PInv
<1>a. Working(p) => art[p] \in Article
  BY <1>0 DEF TypeOK, Holding, Working
<1>1. CASE SkipOffline(p, s)
  <2>1. TypeOK'
    BY <1>1, <1>0, <1>a DEF TypeOK, Fates, Working, SkipOffline, Settle, Todo
  <2>2. Exchanged(p, s)
    BY <1>1, <1>0, <1>a DEF TypeOK, Exchanged, Working, Undecided, SkipOffline, Settle, Todo
  <2>3. Undecided'
    BY <1>1, <1>0 DEF TypeOK, Undecided, SkipOffline, Settle, Todo
  <2>4. NotYetSent'
    BY <1>1, <1>0, <1>a DEF TypeOK, NotYetSent, ExclusiveHands, Working, SkipOffline, Settle, Todo
  <2> QED
    BY <2>1, <2>2, <2>3, <2>4
<1>2. CASE StatFails(p, s)
  <2>1. TypeOK'
    BY <1>2, <1>0, <1>a DEF TypeOK, Fates, Working, StatFails, Settle, Todo
  <2>2. Exchanged(p, s)
    BY <1>2, <1>0, <1>a DEF TypeOK, Exchanged, Working, Undecided, StatFails, Settle, Todo
  <2>3. Undecided'
    BY <1>2, <1>0 DEF TypeOK, Undecided, StatFails, Settle, Todo
  <2>4. NotYetSent'
    BY <1>2, <1>0, <1>a DEF TypeOK, NotYetSent, ExclusiveHands, Working, StatFails, Settle, Todo
  <2> QED
    BY <2>1, <2>2, <2>3, <2>4
<1>3. CASE Stat(p, s)
  <2>1. TypeOK'
    <3>1. CASE art[p] \in has[s]
      <4>1. /\ Settle(p, s, "posts")
            /\ acked' = [acked EXCEPT ![art[p]] = @ \cup {s}]
            /\ UNCHANGED <<answer, spool, bad, has>>
            /\ art[p] \in Article
        BY <3>1, <1>3, <1>a DEF Stat, Working
      <4> QED
        BY <4>1, <1>0 DEF TypeOK, Fates, Settle
    <3>2. CASE art[p] \notin has[s]
      <4>1. /\ cur' = [cur EXCEPT ![p] = {s}]
            /\ pc' = [pc EXCEPT ![p] = "post"]
            /\ UNCHANGED <<answer, spool, bad, has, acked, art, fate, tries>>
        BY <3>2, <1>3 DEF Stat
      <4> QED
        BY <4>1, <1>0 DEF TypeOK, Fates
    <3> QED
      BY <3>1, <3>2
  <2>2. Exchanged(p, s)
    BY <1>3, <1>0, <1>a DEF TypeOK, Exchanged, Working, Undecided, Stat, Settle, Todo
  <2>3. Undecided'
    BY <1>3, <1>0 DEF TypeOK, Undecided, Stat, Settle, Todo
  <2>4. NotYetSent'
    BY <1>3, <1>0, <1>a DEF TypeOK, NotYetSent, ExclusiveHands, Working, Stat, Settle, Todo
  <2> QED
    BY <2>1, <2>2, <2>3, <2>4
<1>4. CASE PostGoOn(p, s)
  <2>1. TypeOK'
    BY <1>4, <1>0, <1>a DEF TypeOK, Fates, Working, PostGoOn
  <2>2. Exchanged(p, s)
    BY <1>4, <1>0, <1>a DEF TypeOK, Exchanged, Working, Undecided, PostGoOn
  <2>3. Undecided'
    BY <1>4, <1>0 DEF TypeOK, Undecided, PostGoOn
  <2>4. NotYetSent'
    BY <1>4, <1>0, <1>a DEF TypeOK, NotYetSent, ExclusiveHands, Working, PostGoOn
  <2> QED
    BY <2>1, <2>2, <2>3, <2>4
<1>5. CASE PostRefused(p, s)
  <2>1. TypeOK'
    BY <1>5, <1>0, <1>a DEF TypeOK, Fates, Working, PostRefused, Settle
  <2>2. Exchanged(p, s)
    BY <1>5, <1>0, <1>a DEF TypeOK, Exchanged, Working, Undecided, PostRefused, Settle
  <2>3. Undecided'
    BY <1>5, <1>0 DEF TypeOK, Undecided, PostRefused, Settle
  <2>4. NotYetSent'
    BY <1>5, <1>0, <1>a DEF TypeOK, NotYetSent, ExclusiveHands, Working, PostRefused, Settle
  <2> QED
    BY <2>1, <2>2, <2>3, <2>4
<1>6. CASE Sent(p, s)
  <2>1. TypeOK'
    BY <1>6, <1>0, <1>a DEF TypeOK, Fates, Working, Sent, Settle
  <2>2. Exchanged(p, s)
    BY <1>6, <1>0, <1>a DEF TypeOK, Exchanged, Working, Undecided, Sent, Settle
  <2>3. Undecided'
    BY <1>6, <1>0 DEF TypeOK, Undecided, Sent, Settle
  <2>4. NotYetSent'
    BY <1>6, <1>0, <1>a DEF TypeOK, NotYetSent, ExclusiveHands, Working, Sent, Settle
  <2> QED
    BY <2>1, <2>2, <2>3, <2>4
<1>7. CASE SendRefused(p, s)
  <2>1. TypeOK'
    BY <1>7, <1>0, <1>a DEF TypeOK, Fates, Working, SendRefused, Settle
  <2>2. Exchanged(p, s)
    BY <1>7, <1>0, <1>a DEF TypeOK, Exchanged, Working, Undecided, SendRefused, Settle
  <2>3. Undecided'
    BY <1>7, <1>0 DEF TypeOK, Undecided, SendRefused, Settle
  <2>4. NotYetSent'
    BY <1>7, <1>0, <1>a DEF TypeOK, NotYetSent, ExclusiveHands, Working, SendRefused, Settle
  <2> QED
    BY <2>1, <2>2, <2>3, <2>4
<1>8. CASE LostAnswer(p, s)
  <2>1. TypeOK'
    <3>1. CASE \E f \in {"err", "spool"} : Settle(p, s, f)
      BY <3>1, <1>8, <1>0, <1>a DEF TypeOK, Fates, Working, LostAnswer, Settle
    <3>2. CASE ~ \E f \in {"err", "spool"} : Settle(p, s, f)
      <4>1. PICK n \in 1 .. tries[p] - 1 :
              tries' = [tries EXCEPT ![p] = n]
        BY <3>2, <1>8 DEF LostAnswer, Retry
      <4>2. tries' \in [Proc -> 1 .. Retries + 1]
        BY <4>1, <1>0 DEF TypeOK
      <4> QED
        BY <4>2, <3>2, <1>8, <1>0, <1>a DEF TypeOK, Fates, Working, LostAnswer, Retry
    <3> QED
      BY <3>1, <3>2
  <2>2. Exchanged(p, s)
    BY <1>8, <1>0, <1>a DEF TypeOK, Exchanged, Working, Undecided, LostAnswer, Retry, Settle
  <2>3. Undecided'
    BY <1>8, <1>0 DEF TypeOK, Undecided, LostAnswer, Retry, Settle
  <2>4. NotYetSent'
    BY <1>8, <1>0, <1>a DEF TypeOK, NotYetSent, ExclusiveHands, Working, LostAnswer, Retry, Settle
  <2> QED
    BY <2>1, <2>2, <2>3, <2>4
<1>9. CASE LostArticle(p, s)
  <2>1. TypeOK'
    <3>1. CASE \E f \in {"err", "spool"} : Settle(p, s, f)
      BY <3>1, <1>9, <1>0, <1>a DEF TypeOK, Fates, Working, LostArticle, Settle
    <3>2. CASE ~ \E f \in {"err", "spool"} : Settle(p, s, f)
      <4>1. PICK n \in 1 .. tries[p] - 1 :
              tries' = [tries EXCEPT ![p] = n]
        BY <3>2, <1>9 DEF LostArticle, Retry
      <4>2. tries' \in [Proc -> 1 .. Retries + 1]
        BY <4>1, <1>0 DEF TypeOK
      <4> QED
        BY <4>2, <3>2, <1>9, <1>0, <1>a DEF TypeOK, Fates, Working, LostArticle, Retry
    <3> QED
      BY <3>1, <3>2
  <2>2. Exchanged(p, s)
    BY <1>9, <1>0, <1>a DEF TypeOK, Exchanged, Working, Undecided, LostArticle, Retry, Settle
  <2>3. Undecided'
    BY <1>9, <1>0 DEF TypeOK, Undecided, LostArticle, Retry, Settle
  <2>4. NotYetSent'
    BY <1>9, <1>0, <1>a DEF TypeOK, NotYetSent, ExclusiveHands, Working, LostArticle, Retry, Settle
  <2> QED
    BY <2>1, <2>2, <2>3, <2>4
<1> QED
  BY <1>1, <1>2, <1>3, <1>4, <1>5, <1>6, <1>7, <1>8, <1>9

(* An exchange preserves the invariant. *)
LEMMA ExchangePInv ==
  ASSUME PInv, NEW p \in Proc, Exchange(p)
  PROVE  PInv'
<1>1. PICK s \in Server : Exchanged(p, s) /\ TypeOK' /\ Undecided' /\ NotYetSent'
  BY ExchangeStep DEF Exchange
<1>2. TypeOK /\ art[p] \in Article
  BY <1>1 DEF PInv, TypeOK, Holding, Exchanged, Working
<1>3. /\ UNCHANGED <<answer, spool, bad, art>>
      /\ \A q \in Proc : Working(q)' <=> Working(q)
      /\ \A q \in Proc \ {p} : pc'[q] = pc[q]
      /\ pc[p] \notin {"idle", "answer"} /\ pc'[p] \notin {"idle", "answer"}
  BY <1>1, <1>2 DEF Exchanged, Working, TypeOK
<1>4. \A t \in Server : has[t] \subseteq has'[t]
  <2>1. CASE has' = has
    BY <2>1
  <2>2. CASE has' = [has EXCEPT ![s] = @ \cup {art[p]}]
    BY <2>2, <1>2 DEF TypeOK
  <2> QED
    BY <2>1, <2>2, <1>1 DEF Exchanged
<1>5. Holding'
  BY <1>3 DEF PInv, Holding, Proc
<1>6. FateSound'
  BY <1>1, <1>2, <1>3, <1>4 DEF PInv, FateSound, Exchanged, TypeOK
<1>7. ExclusiveHands'
  BY <1>3 DEF PInv, ExclusiveHands
<1>8. ChildAlone' /\ StoredAccepted'
  BY <1>3 DEF PInv, ChildAlone, StoredAccepted, Accepted, Proc
<1>9. AcceptedKept'
  BY <1>3, <1>4 DEF PInv, AcceptedKept, Accepted, Delivered, Proc
<1>10. AckCounted' /\ RejectedIsOver'
  <2>1. \A a \in Article : a # art[p] => acked'[a] = acked[a]
    BY <1>1, <1>2 DEF Exchanged, TypeOK
  <2>2. \A q \in Child : Working(q)' => \A t \in acked'[art'[q]] : fate'[q][t] = "posts"
    <3> SUFFICES ASSUME NEW q \in Child, Working(q)', NEW t \in acked'[art'[q]]
                 PROVE  fate'[q][t] = "posts"
      OBVIOUS
    <3>1. CASE q = p
      BY <3>1, <1>1, <1>2, <1>3 DEF PInv, AckCounted, Exchanged, TypeOK, Proc
    <3>2. CASE q # p
      <4>1. Working(q) /\ art'[q] = art[q] /\ art[q] \in Article /\ art[q] # art[p]
        BY <3>2, <1>1, <1>2, <1>3 DEF PInv, Holding, ExclusiveHands, Exchanged, Working, TypeOK, Proc
      <4>2. fate'[q] = fate[q]
        BY <3>2, <1>1, <1>2 DEF Exchanged, TypeOK, Proc
      <4> QED
        BY <4>1, <4>2, <2>1 DEF PInv, AckCounted
    <3> QED
      BY <3>1, <3>2
  <2> QED
    BY <2>1, <2>2, <1>2, <1>3 DEF PInv, AckCounted, RejectedIsOver
<1> QED
  BY <1>1, <1>5, <1>6, <1>7, <1>8, <1>9, <1>10 DEF PInv

(* A new article is in nobody's hands and in no store. *)
LEMMA NsPostPInv ==
  ASSUME PInv, NEW p \in Child, NEW a \in Article, NsPost(p, a)
  PROVE  PInv'
<1> USE DEF PInv, Proc, store, posting
<1>1. /\ pc[p] = "idle" /\ answer[a] = "none"
      /\ \A q \in Proc : art[q] # a
      /\ a \notin spool \cup bad
      /\ UNCHANGED <<spool, bad, has, acked>>
  BY DEF NsPost, StoredAccepted, Accepted
<1>2. CASE Target[a] = {}
  <2>1. answer' = [answer EXCEPT ![a] = "441"] /\ UNCHANGED <<pc, art, fate, cur, tries>>
    BY <1>2 DEF NsPost
  <2>2. TypeOK' /\ Holding' /\ Undecided' /\ FateSound' /\ NotYetSent'
    BY <1>1, <2>1 DEF TypeOK, Holding, Undecided, FateSound, NotYetSent, Working
  <2>3. ExclusiveHands' /\ ChildAlone' /\ StoredAccepted' /\ AcceptedKept'
    <3>1. answer'[a] = "441" /\ \A b \in Article : b # a => answer'[b] = answer[b]
      BY <2>1 DEF TypeOK
    <3>2. \A q \in Proc : Working(q)' = Working(q)
      BY <2>1 DEF Working
    <3>3. ExclusiveHands'
      BY <1>1, <2>1, <3>2 DEF ExclusiveHands
    <3>4. ChildAlone'
      BY <1>1, <2>1, <3>1, <3>2 DEF ChildAlone
    <3>5. StoredAccepted'
      BY <1>1, <2>1, <3>1 DEF StoredAccepted, Accepted
    <3>6. AcceptedKept'
      BY <1>1, <2>1, <3>1, <3>2 DEF AcceptedKept, Accepted, Delivered
    <3> QED BY <3>3, <3>4, <3>5, <3>6
  <2>4. AckCounted'
    BY <1>1, <2>1 DEF TypeOK, AckCounted, Working
  <2>5. RejectedIsOver'
    <3>1. acked[a] = {}
      BY <1>1 DEF AckCounted
    <3>2. \A b \in Article : b # a => answer'[b] = answer[b]
      BY <2>1 DEF TypeOK
    <3> QED
      BY <3>1, <3>2, <1>1, <2>1 DEF RejectedIsOver
  <2> QED
    BY <2>2, <2>3, <2>4, <2>5
<1>3. CASE Target[a] # {}
  <2> DEFINE fates == [s \in Server |-> IF s \in Target[a] THEN "todo" ELSE "none"]
  <2>1. /\ art' = [art EXCEPT ![p] = a]
        /\ fate' = [fate EXCEPT ![p] = fates]
        /\ pc' = [pc EXCEPT ![p] = "next"]
        /\ UNCHANGED <<answer, cur, tries>>
    BY <1>3 DEF NsPost, BeginPost
  <2>2. fates \in [Server -> Fates]
    BY DEF Fates
  <2>3. \A s \in Server : fates[s] # "posts" /\ (fates[s] = "none" => s \notin Target[a])
    OBVIOUS
  <2> HIDE DEF fates
  <2>4. TypeOK' /\ Holding' /\ Undecided' /\ NotYetSent'
    BY <1>1, <2>1, <2>2 DEF TypeOK, Holding, Undecided, NotYetSent
  <2>5. FateSound'
    BY <1>1, <2>1, <2>3 DEF TypeOK, FateSound, Working
  <2>6. ExclusiveHands' /\ ChildAlone'
    BY <1>1, <2>1 DEF TypeOK, Holding, ExclusiveHands, ChildAlone, Working
  <2>7. p \notin Updater /\ \A q \in Proc \ {p} : art'[q] = art[q] /\ pc'[q] = pc[q] /\ fate'[q] = fate[q]
    BY <2>1 DEF TypeOK
  <2>8. \A b \in Article : Accepted(b)' <=> Accepted(b)
    BY <1>1, <2>1, <2>7 DEF TypeOK, Accepted
  <2>9. StoredAccepted'
    BY <1>1, <2>7, <2>8 DEF StoredAccepted
  <2>10. AcceptedKept'
    BY <1>1, <2>7, <2>8 DEF AcceptedKept, Delivered, Working
  <2>11. acked[a] = {}
    BY <1>1 DEF AckCounted
  <2>12. AckCounted'
    <3>1. art'[p] = a
      BY <2>1 DEF TypeOK
    <3>2. \A q \in Child : Working(q)' => \A s \in acked'[art'[q]] : fate'[q][s] = "posts"
      BY <1>1, <2>7, <2>11, <3>1 DEF AckCounted, Working
    <3>3. \A b \in Article : (\A q \in Proc : art'[q] # b) => acked[b] = {} \/ answer[b] # "none"
      BY <1>1, <2>7, <2>11, <3>1 DEF Holding, AckCounted
    <3> QED
      BY <1>1, <2>1, <3>2, <3>3 DEF AckCounted
  <2>13. RejectedIsOver'
    BY <1>1, <2>1 DEF TypeOK, RejectedIsOver
  <2> QED
    BY <2>4, <2>5, <2>6, <2>9, <2>10, <2>12, <2>13
<1> QED
  BY <1>2, <1>3

(* The article leaves the spool for the hands of one process. *)
LEMMA GetSpooledArtPInv ==
  ASSUME PInv, NEW p \in Updater, NEW a \in Article, GetSpooledArt(p, a)
  PROVE  PInv'
<1> USE DEF PInv, Proc, store, posting
<1>1. TypeOK'
  BY DEF TypeOK, Fates, GetSpooledArt, BeginPost
<1>2. Holding'
  BY DEF TypeOK, Holding, GetSpooledArt, BeginPost
<1>3. Undecided'
  BY DEF TypeOK, Undecided, GetSpooledArt, BeginPost
<1>4. FateSound'
  BY DEF TypeOK, FateSound, Working, GetSpooledArt, BeginPost
<1>5. ExclusiveHands'
  BY DEF TypeOK, ExclusiveHands, Holding, StoredAccepted, Working, Accepted, GetSpooledArt, BeginPost
<1>6. ChildAlone'
  BY DEF TypeOK, ChildAlone, Holding, GetSpooledArt, BeginPost
<1>7. StoredAccepted'
  BY DEF TypeOK, StoredAccepted, ChildAlone, Holding, Accepted, GetSpooledArt, BeginPost
<1>8. AcceptedKept'
  BY DEF TypeOK, AcceptedKept, FateSound, StoredAccepted, Holding, ChildAlone, Accepted, Delivered, Working, GetSpooledArt, BeginPost
<1>9. AckCounted'
  BY DEF TypeOK, AckCounted, Holding, ChildAlone, StoredAccepted, Working, Accepted, GetSpooledArt, BeginPost
<1>10. NotYetSent'
  BY DEF TypeOK, NotYetSent, GetSpooledArt, BeginPost
<1>11. RejectedIsOver'
  BY DEF TypeOK, RejectedIsOver, Holding, ChildAlone, StoredAccepted, AckCounted, ExclusiveHands, Accepted, Working, GetSpooledArt, BeginPost
<1> QED
  BY <1>1, <1>2, <1>3, <1>4, <1>5, <1>6, <1>7, <1>8, <1>9, <1>10, <1>11

(* No server took the article: nothing to keep. *)
LEMMA PostInvalidPInv ==
  ASSUME PInv, NEW p \in Child, PostInvalid(p)
  PROVE  PInv'
<1> USE DEF PInv, Proc, store, posting
<1>1. TypeOK'
  BY DEF TypeOK, Fates, PostInvalid, Idle, Finished, Invalid
<1>2. Holding'
  BY DEF TypeOK, Holding, PostInvalid, Idle, Finished, Invalid
<1>3. Undecided'
  BY DEF TypeOK, Undecided, PostInvalid, Idle, Finished, Invalid
<1>4. FateSound'
  BY DEF TypeOK, FateSound, Working, PostInvalid, Idle, Finished, Invalid
<1>5. ExclusiveHands'
  BY DEF TypeOK, ExclusiveHands, Holding, StoredAccepted, Working, Accepted, PostInvalid, Idle, Finished, Invalid
<1>6. ChildAlone'
  BY DEF TypeOK, ChildAlone, Holding, PostInvalid, Idle, Finished, Invalid
<1>7. StoredAccepted'
  BY DEF TypeOK, StoredAccepted, ChildAlone, Holding, Accepted, PostInvalid, Idle, Finished, Invalid
<1>8. AcceptedKept'
  BY DEF TypeOK, AcceptedKept, FateSound, StoredAccepted, Holding, ChildAlone, Accepted, Delivered, Working, PostInvalid, Idle, Finished, Invalid
<1>9. AckCounted'
  BY DEF TypeOK, AckCounted, Holding, ChildAlone, StoredAccepted, Working, Accepted, PostInvalid, Idle, Finished, Invalid
<1>10. NotYetSent'
  BY DEF TypeOK, NotYetSent, PostInvalid, Idle, Finished, Invalid
<1>11. RejectedIsOver'
  BY DEF TypeOK, RejectedIsOver, Holding, ChildAlone, StoredAccepted, AckCounted, ExclusiveHands, Accepted, Working, PostInvalid, Idle, Finished, Invalid
<1> QED
  BY <1>1, <1>2, <1>3, <1>4, <1>5, <1>6, <1>7, <1>8, <1>9, <1>10, <1>11

(* What is not delivered is in the spool before the client hears of it. *)
LEMMA SpoolArticlePInv ==
  ASSUME PInv, NEW p \in Child, SpoolArticle(p)
  PROVE  PInv'
<1> USE DEF PInv, Proc, store, posting
<1>1. TypeOK'
  <2>1. art[p] \in Article
    BY DEF TypeOK, Holding, SpoolArticle, Finished
  <2>2. spool' \subseteq Article
    BY <2>1 DEF TypeOK, SpoolArticle
  <2> QED
    BY <2>2 DEF TypeOK, SpoolArticle
<1>2. Holding'
  BY DEF TypeOK, Holding, SpoolArticle, Finished, Invalid, Incomplete, Todo, Fates
<1>3. Undecided'
  BY DEF TypeOK, Undecided, SpoolArticle, Finished, Invalid, Incomplete, Todo, Fates
<1>4. FateSound'
  BY DEF TypeOK, FateSound, Working, SpoolArticle, Finished, Invalid, Incomplete, Todo, Fates
<1>5. ExclusiveHands'
  BY DEF TypeOK, ExclusiveHands, Holding, StoredAccepted, Working, Accepted, SpoolArticle, Finished, Invalid, Incomplete, Todo, Fates
<1>6. ChildAlone'
  BY DEF TypeOK, ChildAlone, Holding, SpoolArticle, Finished, Invalid, Incomplete, Todo, Fates
<1>7. StoredAccepted'
  BY DEF TypeOK, StoredAccepted, ChildAlone, Holding, Accepted, SpoolArticle, Finished, Invalid, Incomplete, Todo, Fates
<1>8. AcceptedKept'
  BY DEF TypeOK, AcceptedKept, FateSound, StoredAccepted, Holding, ChildAlone, Accepted, Delivered, Working, SpoolArticle, Finished, Invalid, Incomplete, Todo, Fates
<1>9. AckCounted'
  BY DEF TypeOK, AckCounted, Holding, ChildAlone, StoredAccepted, Working, Accepted, SpoolArticle, Finished, Invalid, Incomplete, Todo, Fates
<1>10. NotYetSent'
  BY DEF TypeOK, NotYetSent, SpoolArticle, Finished, Invalid, Incomplete, Todo, Fates
<1>11. RejectedIsOver'
  BY DEF TypeOK, RejectedIsOver, Holding, ChildAlone, StoredAccepted, AckCounted, ExclusiveHands, Accepted, Working, SpoolArticle, Finished, Invalid, Incomplete, Todo, Fates
<1> QED
  BY <1>1, <1>2, <1>3, <1>4, <1>5, <1>6, <1>7, <1>8, <1>9, <1>10, <1>11

(* The client is told that the article is not kept. *)
LEMMA SpoolFailsPInv ==
  ASSUME PInv, NEW p \in Child, SpoolFails(p)
  PROVE  PInv'
<1> USE DEF PInv, Proc, store, posting
<1>1. TypeOK'
  BY DEF TypeOK, Fates, SpoolFails, Idle, Finished
<1>2. Holding'
  BY DEF TypeOK, Holding, SpoolFails, Idle, Finished
<1>3. Undecided'
  BY DEF TypeOK, Undecided, SpoolFails, Idle, Finished
<1>4. FateSound'
  BY DEF TypeOK, FateSound, Working, SpoolFails, Idle, Finished
<1>5. ExclusiveHands'
  BY DEF TypeOK, ExclusiveHands, Holding, StoredAccepted, Working, Accepted, SpoolFails, Idle, Finished
<1>6. ChildAlone'
  BY DEF TypeOK, ChildAlone, Holding, SpoolFails, Idle, Finished
<1>7. StoredAccepted'
  BY DEF TypeOK, StoredAccepted, ChildAlone, Holding, Accepted, SpoolFails, Idle, Finished
<1>8. AcceptedKept'
  <2>1. pc'[p] = "idle" /\ \A q \in Proc : q # p => pc'[q] = pc[q] /\ art'[q] = art[q]
    BY DEF TypeOK, SpoolFails, Idle
  <2>2. art[p] \in Article
    BY DEF TypeOK, Holding, SpoolFails, Finished
  <2>3. \A b \in Article : answer'[b] = "240" => answer[b] = "240"
    BY <2>2 DEF TypeOK, SpoolFails
  <2>4. \A b \in Article : Accepted(b)' => Accepted(b)
    BY <2>1, <2>3 DEF Accepted
  <2>5. \A q \in Updater : q # p /\ art'[q] = art[q] /\ (Working(q) => Working(q)')
    BY <2>1 DEF Working
  <2>6. UNCHANGED <<spool, bad, has>>
    BY DEF SpoolFails
  <2> QED BY <2>4, <2>5, <2>6 DEF AcceptedKept, Delivered
<1>9. AckCounted'
  BY DEF TypeOK, AckCounted, Holding, ChildAlone, StoredAccepted, Working, Accepted, SpoolFails, Idle, Finished
<1>10. NotYetSent'
  BY DEF TypeOK, NotYetSent, SpoolFails, Idle, Finished
<1>11. RejectedIsOver'
  BY DEF TypeOK, RejectedIsOver, Holding, ChildAlone, StoredAccepted, AckCounted, ExclusiveHands, Accepted, Working, SpoolFails, Idle, Finished
<1> QED
  BY <1>1, <1>2, <1>3, <1>4, <1>5, <1>6, <1>7, <1>8, <1>9, <1>10, <1>11

(* The client is told what is true already. *)
LEMMA PostAnswerPInv ==
  ASSUME PInv, NEW p \in Child, PostAnswer(p)
  PROVE  PInv'
<1> USE DEF PInv, Proc, store, posting
<1>1. TypeOK'
  BY DEF TypeOK, Fates, PostAnswer, Idle
<1>2. Holding'
  BY DEF TypeOK, Holding, PostAnswer, Idle
<1>3. Undecided'
  BY DEF TypeOK, Undecided, PostAnswer, Idle
<1>4. FateSound'
  BY DEF TypeOK, FateSound, Working, PostAnswer, Idle
<1>5. ExclusiveHands'
  BY DEF TypeOK, ExclusiveHands, Holding, StoredAccepted, Working, Accepted, PostAnswer, Idle
<1>6. ChildAlone'
  BY DEF TypeOK, ChildAlone, Holding, PostAnswer, Idle
<1>7. StoredAccepted'
  BY DEF TypeOK, StoredAccepted, ChildAlone, Holding, Accepted, PostAnswer, Idle
<1>8. AcceptedKept'
  BY DEF TypeOK, AcceptedKept, FateSound, StoredAccepted, Holding, ChildAlone, Accepted, Delivered, Working, PostAnswer, Idle
<1>9. AckCounted'
  BY DEF TypeOK, AckCounted, Holding, ChildAlone, StoredAccepted, Working, Accepted, PostAnswer, Idle
<1>10. NotYetSent'
  BY DEF TypeOK, NotYetSent, PostAnswer, Idle
<1>11. RejectedIsOver'
  BY DEF TypeOK, RejectedIsOver, Holding, ChildAlone, StoredAccepted, AckCounted, ExclusiveHands, Accepted, Working, PostAnswer, Idle
<1> QED
  BY <1>1, <1>2, <1>3, <1>4, <1>5, <1>6, <1>7, <1>8, <1>9, <1>10, <1>11

(* What is not delivered is among the bad articles. *)
LEMMA PostSpooledEndPInv ==
  ASSUME PInv, NEW p \in Updater, PostSpooledEnd(p)
  PROVE  PInv'
<1> USE DEF PInv, Proc, store, posting
<1>1. TypeOK'
  <2>1. art[p] \in Article
    BY DEF TypeOK, Holding, PostSpooledEnd, Finished
  <2>2. bad' \subseteq Article
    BY <2>1 DEF TypeOK, PostSpooledEnd
  <2> QED
    BY <2>2 DEF TypeOK, Fates, PostSpooledEnd, Idle
<1>2. Holding'
  BY DEF TypeOK, Holding, PostSpooledEnd, Idle, Finished, Invalid, Incomplete, Todo, Fates
<1>3. Undecided'
  BY DEF TypeOK, Undecided, PostSpooledEnd, Idle, Finished, Invalid, Incomplete, Todo, Fates
<1>4. FateSound'
  BY DEF TypeOK, FateSound, Working, PostSpooledEnd, Idle, Finished, Invalid, Incomplete, Todo, Fates
<1>5. ExclusiveHands'
  BY DEF TypeOK, ExclusiveHands, Holding, StoredAccepted, Working, Accepted, PostSpooledEnd, Idle, Finished, Invalid, Incomplete, Todo, Fates
<1>6. ChildAlone'
  BY DEF TypeOK, ChildAlone, Holding, PostSpooledEnd, Idle, Finished, Invalid, Incomplete, Todo, Fates
<1>7. StoredAccepted'
  BY DEF TypeOK, StoredAccepted, ChildAlone, Holding, Accepted, PostSpooledEnd, Idle, Finished, Invalid, Incomplete, Todo, Fates
<1>8. AcceptedKept'
  BY DEF TypeOK, AcceptedKept, FateSound, StoredAccepted, Holding, ChildAlone, Accepted, Delivered, Working, PostSpooledEnd, Idle, Finished, Invalid, Incomplete, Todo, Fates
<1>9. AckCounted'
  <2>1. answer' = answer /\ acked' = acked /\ \A q \in Proc \ {p} : art'[q] = art[q] /\ fate'[q] = fate[q] /\ pc'[q] = pc[q]
    BY DEF TypeOK, PostSpooledEnd, Idle
  <2>2. \A a \in Article : answer[a] = "none" /\ (\A q \in Proc : art'[q] # a) => acked[a] = {}
    BY <2>1 DEF AckCounted, StoredAccepted, Accepted
  <2> QED
    BY <2>1, <2>2 DEF AckCounted, Working
<1>10. NotYetSent'
  BY DEF TypeOK, NotYetSent, PostSpooledEnd, Idle, Finished, Invalid, Incomplete, Todo, Fates
<1>11. RejectedIsOver'
  BY DEF TypeOK, RejectedIsOver, Holding, ChildAlone, StoredAccepted, AckCounted, ExclusiveHands, Accepted, Working, PostSpooledEnd, Idle, Finished, Invalid, Incomplete, Todo, Fates
<1> QED
  BY <1>1, <1>2, <1>3, <1>4, <1>5, <1>6, <1>7, <1>8, <1>9, <1>10, <1>11

LEMMA NextPInv == PInv /\ [Next]_vars => PInv'
<1> SUFFICES ASSUME PInv, [Next]_vars PROVE PInv'
  OBVIOUS
<1>1. CASE UNCHANGED vars
  BY <1>1 DEF PInv, vars, TypeOK, Holding, Undecided, FateSound, ExclusiveHands, ChildAlone,
              StoredAccepted, AcceptedKept, AckCounted, NotYetSent, RejectedIsOver, Accepted,
              Delivered, Working
<1>2. CASE \E p \in Child : (\E a \in Article : NsPost(p, a)) \/ EndChild(p)
  BY <1>2, NsPostPInv, PostInvalidPInv, SpoolArticlePInv, SpoolFailsPInv, PostAnswerPInv
     DEF EndChild
<1>3. CASE \E p \in Updater : (\E a \in Article : GetSpooledArt(p, a)) \/ PostSpooledEnd(p)
  BY <1>3, GetSpooledArtPInv, PostSpooledEndPInv
<1>4. CASE \E p \in Proc : Exchange(p)
  BY <1>4, ExchangePInv
<1> QED
  BY <1>1, <1>2, <1>3, <1>4 DEF Next

(* The inductive invariant holds in every reachable state. *)
THEOREM PostingInvariant == Spec => []PInv
  BY InitPInv, NextPInv, PTL DEF Spec

(* The spool, the servers and the local variables of post and postspooled have
   their types: above all, an exchange is never tried once more after its last
   retry. *)
THEOREM TypeCorrect == Spec => []TypeOK
<1>1. PInv => TypeOK
  BY DEF PInv
<1> QED BY <1>1, PostingInvariant, PTL

(* No article the client was told 240 for is lost (CServer::post,
   spoolarticle, postspooled), for any number of servers and processes and
   however connections fail. *)
THEOREM NoArticleLost == Spec => []NoneLost
<1>1. PInv => NoneLost
  BY DEF PInv, AcceptedKept, Accepted, NoneLost
<1> QED
  BY <1>1, PostingInvariant, PTL

(* An article is in one place: the spool, the bad articles, or the hands of
   one process (getSpooledArt, storeArticle). *)
THEOREM OneOwner == Spec => []ExclusiveHands
<1>1. PInv => ExclusiveHands
  BY DEF PInv
<1> QED
  BY <1>1, PostingInvariant, PTL

(* A server is sent an article it has got already only in a retry of
   RServer::post(srvr, article). *)
THEOREM StatPreventsResend == Spec => []NoNeedlessSend
<1>1. PInv => NoNeedlessSend
  BY DEF PInv, NotYetSent, NoNeedlessSend
<1> QED
  BY <1>1, PostingInvariant, PTL

(* 441 is final: no server confirmed the article and nobody will send it
   (RServer::post, ns_post). *)
THEOREM RejectionIsFinal == Spec => []RejectedIsOver
<1>1. PInv => RejectedIsOver
  BY DEF PInv
<1> QED
  BY <1>1, PostingInvariant, PTL
=============================================================================
