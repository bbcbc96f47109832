---------------------------- MODULE MCNewsCache ----------------------------
(* A cached group that has moved on since earlier processes looked at it, and
   a group that is not cached; one client reads, one brings the cache up to date. *)
EXTENDS NewsCache

UpstreamMC == [g \in {"a", "b"} |->
  IF g = "a" THEN [f |-> 2, l |-> 4, arts |-> {2, 4}] ELSE [f |-> 1, l |-> 1, arts |-> {1}]]
BeforeMC == [g \in {"a"} |-> [f |-> 1, l |-> 3, over |-> {1, 2, 3}]]

C(op, g, n) == [op |-> op, g |-> g, n |-> n]
CommandsMC == [c \in Client |-> IF c = CHOOSE x \in Client : TRUE
  THEN {C("group", "a", 0), C("group", "b", 0), C("next", None, 0), C("last", None, 0),
        C("article", None, 3), C("stat", None, 0), C("quit", None, 0)}
  ELSE {C("listgroup", "a", 0), C("xover", None, 0), C("xhdr", None, 0), C("list", None, 0), C("newgroups", None, 0)}
       \cup {C(op, None, 0) : op \in {"help", "date", "mode", "xdebug", "misc"}}]
=============================================================================
