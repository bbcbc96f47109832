------------------------------ MODULE Posting -------------------------------
(***************************************************************************)
(* The way of an article from a client to the upstream news servers:       *)
(* ns_post (NewsCache.cc), RServer::post, CServer::post, spoolarticle and  *)
(* postspooled (NServer.cc), and the article spool (ArtSpooler.cc).        *)
(*                                                                         *)
(* A NewsCache child serves one client; what cannot be sent at once is     *)
(* spooled, and the client is told 240 all the same.  Each run of          *)
(* updatenews takes the articles out of the spool, one after the other,    *)
(* and posts them; several runs may overlap.  Upstream servers and the     *)
(* network may fail at each exchange, and a connection may be lost before  *)
(* or after the server has got the article.                                *)
(***************************************************************************)
EXTENDS Integers, FiniteSets

CONSTANTS
  Article,     \* the articles, by message-id
  Server,      \* upstream servers with F_POST
  Child,       \* NewsCache processes
  Updater,     \* updatenews processes
  Target,      \* servers of an article's newsgroups; {}: malformed or no group
  Offline,     \* servers flagged F_OFFLINE, for the children only
  Retries,     \* retries of the upstream connection
  NoArticle

ASSUME TargetAssumption == Target \in [Article -> SUBSET Server]
ASSUME OfflineAssumption == Offline \subseteq Server
ASSUME RetriesAssumption == Retries \in Nat
ASSUME ProcessAssumption == Child \cap Updater = {}
ASSUME NoArticleAssumption == NoArticle \notin Article

VARIABLES
  answer,    \* what the client was told of each article
  spool,     \* articles in .artSpool
  bad,       \* articles in .badArticles
  has,       \* articles each server has got
  acked,     \* servers that answered 240 or 223 for each article (history)
  pc,        \* what each process is doing
  art,       \* the article each process is posting
  fate,      \* outcome so far for each server of that article
  cur,       \* the servers the process is talking to, one at most
  tries      \* i in RServer::post(srvr, article)

store == <<spool, bad>>
posting == <<art, fate, cur, tries>>
vars == <<answer, spool, bad, has, acked, pc, art, fate, cur, tries>>

Proc == Child \cup Updater
Fates == {"none", "todo", "posts", "spool", "err"}

-----------------------------------------------------------------------------
Init ==
  /\ answer = [a \in Article |-> "none"]
  /\ spool = {} /\ bad = {}
  /\ has = [s \in Server |-> {}]
  /\ acked = [a \in Article |-> {}]
  /\ pc = [p \in Proc |-> "idle"]
  /\ art = [p \in Proc |-> NoArticle]
  /\ fate = [p \in Proc |-> [s \in Server |-> "none"]]
  /\ cur = [p \in Proc |-> {}]
  /\ tries = [p \in Proc |-> Retries + 1]

(* The start of RServer::post(article): one entry per server, however many
   of the newsgroups it serves. *)
BeginPost(p, a) ==
  /\ art' = [art EXCEPT ![p] = a]
  /\ fate' = [fate EXCEPT ![p] = [s \in Server |-> IF s \in Target[a] THEN "todo" ELSE "none"]]
  /\ pc' = [pc EXCEPT ![p] = "next"]
  /\ UNCHANGED <<cur, tries>>

(* A client posts an article; a malformed one, or one for no known group,
   is refused before any server is asked. *)
NsPost(p, a) ==
  /\ pc[p] = "idle"
  /\ answer[a] = "none"
  /\ \A q \in Proc : art[q] # a
  /\ IF Target[a] = {}
     THEN /\ answer' = [answer EXCEPT ![a] = "441"]
          /\ UNCHANGED <<pc, posting>>
     ELSE /\ BeginPost(p, a)
          /\ UNCHANGED answer
  /\ UNCHANGED <<store, has, acked>>

(* Mutant: the file stays in the spool while its article is posted. *)
GetSpooledArtKept(p, a) ==
  /\ pc[p] = "idle"
  /\ a \in spool
  /\ BeginPost(p, a)
  /\ UNCHANGED <<answer, store, has, acked>>

(* postspooled, getSpooledArt: any file of the spool, unlinked once read. *)
GetSpooledArt(p, a) ==
  /\ pc[p] = "idle"
  /\ a \in spool
  /\ spool' = spool \ {a}
  /\ BeginPost(p, a)
  /\ UNCHANGED <<answer, bad, has, acked>>

(* The servers left, and the end of one server's turn. *)
Todo(p) == {s \in Server : fate[p][s] = "todo"}
Settle(p, s, f) ==
  /\ fate' = [fate EXCEPT ![p][s] = f]
  /\ cur' = [cur EXCEPT ![p] = {}]
  /\ tries' = [tries EXCEPT ![p] = Retries + 1]
  /\ pc' = [pc EXCEPT ![p] = "next"]
  /\ UNCHANGED art

(* A server that is offline is not asked; updatenews has cleared the flags. *)
SkipOffline(p, s) ==
  /\ pc[p] = "next" /\ s \in Todo(p)
  /\ s \in Offline /\ p \in Child
  /\ Settle(p, s, "spool")
  /\ UNCHANGED <<answer, store, has, acked>>

Online(p, s) == s \notin Offline \/ p \in Updater

(* connect or stat fails: SystemError after the last retry or an answer out of the
   protocol (spool), or the current group, which connect selects again, is gone
   (NoSuchGroupError: err). *)
StatFails(p, s) ==
  /\ pc[p] = "next" /\ s \in Todo(p) /\ Online(p, s)
  /\ \E f \in {"err", "spool"} : Settle(p, s, f)
  /\ UNCHANGED <<answer, store, has, acked>>

(* Mutant: the article is posted whatever the server says. *)
StatIgnored(p, s) ==
  /\ pc[p] = "next" /\ s \in Todo(p) /\ Online(p, s)
  /\ cur' = [cur EXCEPT ![p] = {s}]
  /\ pc' = [pc EXCEPT ![p] = "post"]
  /\ UNCHANGED <<answer, store, has, acked, art, fate, tries>>

(* stat <message-id>: 223 is a duplicate and counts as posted, 430 goes on. *)
Stat(p, s) ==
  /\ pc[p] = "next" /\ s \in Todo(p) /\ Online(p, s)
  /\ IF art[p] \in has[s]
     THEN /\ Settle(p, s, "posts")
          /\ acked' = [acked EXCEPT ![art[p]] = @ \cup {s}]
     ELSE /\ cur' = [cur EXCEPT ![p] = {s}]
          /\ pc' = [pc EXCEPT ![p] = "post"]
          /\ UNCHANGED <<acked, art, fate, tries>>
  /\ UNCHANGED <<answer, store, has>>

(* The post command: 340, 440 (not allowed), or anything else. *)
PostGoOn(p, s) ==
  /\ pc[p] = "post" /\ s \in cur[p]
  /\ pc' = [pc EXCEPT ![p] = "send"]
  /\ UNCHANGED <<answer, store, has, acked, posting>>

PostRefused(p, s) ==
  /\ pc[p] = "post" /\ s \in cur[p]
  /\ \E f \in {"err", "spool"} : Settle(p, s, f)
  /\ UNCHANGED <<answer, store, has, acked>>

(* The article is sent and taken. *)
Sent(p, s) ==
  /\ pc[p] = "send" /\ s \in cur[p]
  /\ has' = [has EXCEPT ![s] = @ \cup {art[p]}]
  /\ acked' = [acked EXCEPT ![art[p]] = @ \cup {s}]
  /\ Settle(p, s, "posts")
  /\ UNCHANGED <<answer, store>>

(* The article is sent and refused: 440, 441, or another answer. *)
SendRefused(p, s) ==
  /\ pc[p] = "send" /\ s \in cur[p]
  /\ \E f \in {"err", "spool"} : Settle(p, s, f)
  /\ UNCHANGED <<answer, store, has, acked>>

(* Mutant: the retries are not counted. *)
RetryForever(p, s) ==
  /\ pc' = [pc EXCEPT ![p] = "post"]
  /\ UNCHANGED posting

(* The connection is lost: post again, without another stat, or give up when
   the retries are used up or connect fails with anything but a SystemError.  A
   SystemError of connect uses up a retry too. *)
Retry(p, s) ==
  \/ \E f \in {"err", "spool"} : Settle(p, s, f)
  \/ /\ \E n \in 1 .. tries[p] - 1 : tries' = [tries EXCEPT ![p] = n]
     /\ pc' = [pc EXCEPT ![p] = "post"]
     /\ UNCHANGED <<art, fate, cur>>

(* The connection breaks after the server has got the article, or before. *)
LostAnswer(p, s) ==
  /\ pc[p] = "send" /\ s \in cur[p]
  /\ has' = [has EXCEPT ![s] = @ \cup {art[p]}]
  /\ Retry(p, s)
  /\ UNCHANGED <<answer, store, acked>>

LostArticle(p, s) ==
  /\ pc[p] = "send" /\ s \in cur[p]
  /\ Retry(p, s)
  /\ UNCHANGED <<answer, store, has, acked>>

(* Mutant: one refusal is enough to call the article invalid. *)
InvalidIfAnyErr(p) == \E s \in Server : fate[p][s] = "err"

(* What RServer::post(article) returns. *)
Invalid(p) ==
  /\ \E s \in Server : fate[p][s] = "err"
  /\ \A s \in Server : fate[p][s] # "posts"

(* Mutant: a partial failure (-2) counts as posted. *)
IncompleteIfSpooled(p) ==
  /\ ~Invalid(p)
  /\ \E s \in Server : fate[p][s] = "spool"
  /\ \A s \in Server : fate[p][s] # "err"

(* -1 or -2 *)
Incomplete(p) ==
  /\ ~Invalid(p)
  /\ \E s \in Server : fate[p][s] \in {"spool", "err"}

Finished(p) == pc[p] = "next" /\ Todo(p) = {}

Idle(p) ==
  /\ pc' = [pc EXCEPT ![p] = "idle"]
  /\ art' = [art EXCEPT ![p] = NoArticle]
  /\ fate' = [fate EXCEPT ![p] = [s \in Server |-> "none"]]
  /\ UNCHANGED <<cur, tries>>

(* CServer::post on InvalidArticleError: ns_post answers 441. *)
PostInvalid(p) ==
  /\ Finished(p) /\ Invalid(p)
  /\ answer' = [answer EXCEPT ![art[p]] = "441"]
  /\ Idle(p)
  /\ UNCHANGED <<store, has, acked>>

(* CServer::post: an article not sent everywhere is spooled. *)
SpoolArticle(p) ==
  /\ Finished(p) /\ ~Invalid(p)
  /\ spool' = IF Incomplete(p) THEN spool \cup {art[p]} ELSE spool
  /\ pc' = [pc EXCEPT ![p] = "answer"]
  /\ UNCHANGED <<answer, bad, has, acked, posting>>

(* ... and when that fails the client is told 449. *)
SpoolFails(p) ==
  /\ Finished(p) /\ Incomplete(p)
  /\ answer' = [answer EXCEPT ![art[p]] = "449"]
  /\ Idle(p)
  /\ UNCHANGED <<store, has, acked>>

PostAnswer(p) ==
  /\ pc[p] = "answer"
  /\ answer' = [answer EXCEPT ![art[p]] = "240"]
  /\ Idle(p)
  /\ UNCHANGED <<store, has, acked>>

(* postspooled: what could not be sent everywhere goes to the bad articles. *)
PostSpooledEnd(p) ==
  /\ Finished(p)
  /\ bad' = IF Invalid(p) \/ Incomplete(p) THEN bad \cup {art[p]} ELSE bad
  /\ Idle(p)
  /\ UNCHANGED <<answer, spool, has, acked>>
-----------------------------------------------------------------------------
Exchange(p) ==
  \E s \in Server :
    \/ SkipOffline(p, s) \/ StatFails(p, s) \/ Stat(p, s)
    \/ PostGoOn(p, s) \/ PostRefused(p, s)
    \/ Sent(p, s) \/ SendRefused(p, s) \/ LostAnswer(p, s) \/ LostArticle(p, s)

EndChild(p) == PostInvalid(p) \/ SpoolArticle(p) \/ SpoolFails(p) \/ PostAnswer(p)

Next ==
  \/ \E p \in Child : (\E a \in Article : NsPost(p, a)) \/ EndChild(p)
  \/ \E p \in Updater : (\E a \in Article : GetSpooledArt(p, a)) \/ PostSpooledEnd(p)
  \/ \E p \in Proc : Exchange(p)

(* Processes go on, and updatenews is run again and again. *)
Fairness ==
  /\ \A p \in Child : WF_vars(EndChild(p))
  /\ \A p \in Updater : WF_vars(PostSpooledEnd(p)) /\ WF_vars(\E a \in Article : GetSpooledArt(p, a))
  /\ \A p \in Proc : WF_vars(Exchange(p))

Spec == Init /\ [][Next]_vars
FairSpec == Spec /\ Fairness
-----------------------------------------------------------------------------
(* Every variable has its type; the retries left are never fewer than one. *)
TypeOK ==
  /\ answer \in [Article -> {"none", "240", "441", "449"}]
  /\ spool \subseteq Article /\ bad \subseteq Article
  /\ has \in [Server -> SUBSET Article]
  /\ acked \in [Article -> SUBSET Server]
  /\ pc \in [Proc -> {"idle", "next", "post", "send", "answer"}]
  /\ art \in [Proc -> Article \cup {NoArticle}]
  /\ fate \in [Proc -> [Server -> Fates]]
  /\ cur \in [Proc -> SUBSET Server]
  /\ tries \in [Proc -> 1 .. Retries + 1]

Working(p) == pc[p] \in {"next", "post", "send"}
Delivered(a) == \A s \in Target[a] : a \in has[s]

(* No article is lost: one the client was told 240 for has reached all its
   servers, or it lies in the spool or among the bad articles, or an updatenews
   is posting it.  CServer::post and postspooled hand it on whatever the
   servers and the connections do. *)
NoneLost ==
  \A a \in Article : answer[a] = "240" =>
    a \in spool \cup bad \/ Delivered(a) \/ \E p \in Updater : Working(p) /\ art[p] = a

(* An article is in one place: nobody is posting what lies in the spool or
   among the bad articles, and no two processes post the same article.
   getSpooledArt unlinks the file it has read before it gives up the lock. *)
ExclusiveHands ==
  /\ spool \cap bad = {}
  /\ \A p \in Proc : Working(p) =>
       /\ art[p] \notin spool \cup bad
       /\ \A q \in Proc \ {p} : Working(q) => art[q] # art[p]

(* A server is sent an article it has got already only by the process that
   lost the connection to it while sending it: stat keeps every other process
   from it, also after a partial failure put the article back in the spool. *)
NoNeedlessSend ==
  \A p \in Proc, s \in Server :
    pc[p] = "send" /\ s \in cur[p] /\ art[p] \in has[s] => tries[p] <= Retries

(* 441 is final and no server has confirmed the article: it is in no store,
   nobody will send it.  RServer::post calls an article invalid only if no
   server took it. *)
RejectedIsOver ==
  \A a \in Article : answer[a] = "441" =>
    /\ acked[a] = {}
    /\ a \notin spool \cup bad
    /\ \A p \in Proc : art[p] # a

(* Every client gets its answer: the retries of each exchange end. *)
ClientAnswered ==
  \A p \in Child, a \in Article : art[p] = a ~> answer[a] # "none"

(* Every article the client was told 240 for reaches all its servers or the
   operator's store of bad articles, given that updatenews is run. *)
DeliveredOrBad ==
  \A a \in Article : answer[a] = "240" ~> (a \in bad \/ Delivered(a))
=============================================================================
