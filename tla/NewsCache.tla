----------------------------- MODULE NewsCache -----------------------------
(***************************************************************************)
(* NewsCache as a standalone server: nntpd accepts connections and forks   *)
(* one child per client, which runs a session (module Session); the        *)
(* SIGCHLD handler reaps the children and counts them down, SIGHUP reads   *)
(* the configuration again, SIGINT, SIGTERM and SIGPIPE set Xsignal.       *)
(*                                                                         *)
(* A handler runs between any two steps of its process.  What the accept   *)
(* loop does from the return of accept to fork is one step: a handler that *)
(* runs in between could as well have run before or after it.              *)
(* nntp_connections is a plain int: a decrement by the handler is lost if  *)
(* it falls between the load and the store of the increment after fork.    *)
(***************************************************************************)
EXTENDS Session

CONSTANTS
  Limits         \* the values MaxConnections may have in the configuration

ASSUME LimitsAssumption == Limits \subseteq Nat /\ Limits # {}

VARIABLES
  dpc,        \* the accept loop: accept, forked (before the increment), exited
  count,      \* nntp_connections
  maxc,       \* Cfg.MaxConnections
  top,        \* the largest value it has had
  xsig,       \* Xsignal >= 0 in the daemon
  zombies,    \* children that ended and were not reaped
  chld,       \* is a SIGCHLD pending?
  stopped     \* Xsignal >= 0 in the child of a client

daemon == <<dpc, count, maxc, top, xsig>>
vars == <<ses, db, adb, up, kept, events, dpc, count, maxc, top, xsig,
          zombies, chld, stopped>>

shared == <<db, adb, env>>
children == <<zombies, chld, stopped>>

Alive == {c \in Client : ses[c].pc \notin {"off", "queue", "gone"}}

Init ==
  /\ SessionInit
  /\ dpc = "accept" /\ count = 0
  /\ maxc \in Limits /\ top = maxc /\ xsig = FALSE
  /\ zombies = 0 /\ chld = FALSE /\ stopped = [c \in Client |-> FALSE]
-----------------------------------------------------------------------------
(* Clients *)

ConnectTo(c) ==
  /\ At(c, "off") \/ At(c, "gone")
  /\ dpc # "exited" /\ Event
  /\ Put(c, Blank("queue"))
  /\ UNCHANGED <<db, adb, up, daemon, children>>
-----------------------------------------------------------------------------
(* nntpd *)

(* The daemon leaves: connections that wait are reset. *)
Exit ==
  /\ dpc' = "exited"
  /\ ses' = [c \in Client |-> IF At(c, "queue") THEN Ended ELSE ses[c]]

(* Mutant: one connection too many. *)
FullOver == count > maxc

Full == count >= maxc

(* accept returns a connection: the daemon stops if Xsignal is set. *)
Accepts(c) == dpc = "accept" /\ At(c, "queue") /\ ~xsig

AcceptStop ==
  /\ dpc = "accept" /\ xsig /\ \E c \in Client : At(c, "queue")
  /\ Exit
  /\ UNCHANGED <<shared, count, maxc, top, xsig, children>>

(* The connection has failed, or fork fails: closed, with or without an answer. *)
AcceptFails ==
  /\ \E c \in Client : Accepts(c) /\ Put(c, Ended)
  /\ UNCHANGED <<shared, daemon, children>>

(* "400 too many users" *)
Refuse ==
  /\ Full /\ \E c \in Client : Accepts(c) /\ Put(c, Ended)
  /\ UNCHANGED <<shared, daemon, children>>

Fork ==
  /\ ~Full /\ \E c \in Client : Accepts(c) /\ Put(c, Blank("start"))
  /\ dpc' = "forked"
  /\ UNCHANGED <<shared, count, maxc, top, xsig, children>>

Increment ==
  /\ dpc = "forked"
  /\ dpc' = "accept" /\ count' = count + 1
  /\ UNCHANGED <<ses, shared, maxc, top, xsig, children>>
-----------------------------------------------------------------------------
(* Signal handlers of the daemon *)

(* A blocked accept returns with EINTR, and the loop tests Xsignal; a signal
   that comes before the call is only seen when accept returns. *)
Interrupted(x) ==
  \/ dpc = "accept" /\ x /\ Exit
  \/ UNCHANGED <<dpc, ses>>

(* Mutant: one child per signal. *)
ReapOne == count' = count - 1 /\ zombies' = zombies - 1

(* waitpid until no child is left that has ended. *)
Reap ==
  /\ zombies' = 0
  /\ count' = count - zombies \/ (dpc = "forked" /\ count' = count)

sigchld ==
  /\ chld /\ dpc # "exited"
  /\ chld' = FALSE /\ Reap
  /\ Interrupted(xsig)
  /\ UNCHANGED <<shared, maxc, top, xsig, stopped>>

catchsighup ==
  /\ dpc # "exited" /\ Event
  /\ maxc' \in Limits \ {maxc} /\ top' = IF maxc' > top THEN maxc' ELSE top
  /\ Interrupted(xsig)
  /\ UNCHANGED <<db, adb, up, count, xsig, children>>

catchsignal ==
  /\ ~xsig /\ dpc # "exited" /\ Event
  /\ xsig' = TRUE
  /\ Interrupted(TRUE)
  /\ UNCHANGED <<db, adb, up, count, maxc, top, children>>
-----------------------------------------------------------------------------
(* nnrpd: the ends of a session *)

Dies(c) ==
  /\ zombies' = zombies + 1 /\ chld' = TRUE
  /\ stopped' = [stopped EXCEPT ![c] = FALSE]

Greet(c) ==
  /\ At(c, "start")
  /\ Put(c, [ses[c] EXCEPT !.pc = "read"])
  /\ UNCHANGED <<shared, daemon, children>>

(* The client may not talk, or CServer cannot open the spool directory. *)
TurnAway(c) ==
  /\ At(c, "start")
  /\ Put(c, Ended) /\ Dies(c)
  /\ UNCHANGED <<shared, daemon>>

(* ClientTimeout *)
Timeout(c) ==
  /\ At(c, "read")
  /\ Put(c, Ended) /\ Dies(c)
  /\ UNCHANGED <<shared, daemon>>

(* The client closes the connection. *)
Eof(c) ==
  /\ At(c, "read")
  /\ Put(c, Ended) /\ Dies(c)
  /\ UNCHANGED <<shared, daemon>>

(* A signal in the child: a read that waits is interrupted, and the session ends. *)
ChildSignal(c) ==
  /\ c \in Alive /\ ~stopped[c] /\ Event
  /\ IF At(c, "read") THEN Put(c, Ended) /\ Dies(c)
     ELSE stopped' = [stopped EXCEPT ![c] = TRUE] /\ UNCHANGED <<ses, zombies, chld>>
  /\ UNCHANGED <<db, adb, up, daemon>>

(* Xsignal was set while a command ran: the next line is answered by 400. *)
Discontinue(c) ==
  /\ At(c, "read") /\ stopped[c] /\ Event
  /\ Put(c, Ended) /\ Dies(c)
  /\ UNCHANGED <<db, adb, up, daemon>>

(* A line and the steps of its command, each of which may end the child. *)
Ending(c) == IF ses'[c].pc = "gone" THEN Dies(c) ELSE UNCHANGED children
ReceiveLine(c) ==
  /\ ~stopped[c] /\ Receiving(c) /\ Ending(c)
  /\ UNCHANGED daemon
Command(c) ==
  /\ Running(c) /\ Ending(c)
  /\ UNCHANGED daemon

UpstreamChange == Changing /\ UNCHANGED <<daemon, children>>
-----------------------------------------------------------------------------
Daemon == AcceptStop \/ AcceptFails \/ Refuse \/ Fork \/ Increment
Child(c) == Greet(c) \/ TurnAway(c) \/ Command(c)

Next ==
  /\ \/ Daemon \/ sigchld \/ catchsighup \/ catchsignal \/ UpstreamChange
     \/ \E c \in Client :
          \/ ConnectTo(c) \/ Child(c) \/ Timeout(c) \/ Eof(c) \/ ChildSignal(c)
          \/ Discontinue(c) \/ ReceiveLine(c)
  /\ Keep

(* Processes are scheduled, signals and alarms are delivered.  Nothing is
   assumed of the clients, the upstream servers and the other signals. *)
Fairness ==
  /\ WF_vars(Daemon /\ Keep) /\ WF_vars(sigchld /\ Keep)
  /\ \A c \in Client : WF_vars(Child(c) /\ Keep) /\ WF_vars(Timeout(c) /\ Keep)

Spec == Init /\ [][Next]_vars /\ Fairness
-----------------------------------------------------------------------------
(* There are never more children than the largest MaxConnections that was
   configured, although the counter is changed by the accept loop and by the
   handler (doc/NewsCache.texinfo: "the maximum number of connections"). *)
ConnectionsBounded == Cardinality(Alive) <= top

(* On the way of NEXT, or of LAST; and met before the article it has gone to. *)
Beyond(c, n) == IF Doing(c, {"next"}) THEN n > ses[c].nbr ELSE n < ses[c].nbr
Nearer(c, n) == IF Doing(c, {"next"}) THEN n < ses'[c].nbr ELSE n > ses'[c].nbr
SkipsNone(c) ==
  At(c, "walk") /\ ses'[c].pc = "read" =>
    LET skippable == {n \in kept'[c] : Beyond(c, n)}
    IN IF ses'[c].nbr = ses[c].nbr THEN skippable = {}
       ELSE /\ Beyond(c, ses'[c].nbr) /\ ses'[c].nbr \in Records(c)'
            /\ \A n \in skippable : ~Nearer(c, n)

(* NEXT and LAST go to an article of the selected group that has a record,
   pass over none that has had a record since the command began, and answer
   421 or 422 only if there is none on that side, whatever the other
   children do to the database meanwhile. *)
NothingSkipped == [][\A c \in Client : SkipsNone(c)]_vars

(* No client waits forever, for a connection, for the answer to a line, or
   silently in a session (ClientTimeout), and ended children are reaped.
   Lines being bounded, a session that does not end hangs at some point. *)
ClientsServed ==
  /\ \A c \in Client : []<>(ses[c].pc \in {"off", "gone"})
  /\ []<>(zombies = 0 \/ dpc = "exited")
=============================================================================
