----------------------------- MODULE ServerList -----------------------------
(***************************************************************************)
(* The list of upstream servers (MPList) and the matching of newsgroups    *)
(* against the rules of its entries (matchgroup, and the same algorithm in *)
(* NewsgroupFilter::matches): which server serves a group, and which       *)
(* groups of a server's LIST ACTIVE are taken over.                        *)
(*                                                                         *)
(* A name is cut into pieces of text of which two that can stand at the    *)
(* same place begin with different characters; single characters always    *)
(* do.  A group is the sequence of the pieces of its name.  A rule is a    *)
(* stem that ends the name, or goes on with anything (star), and accepts   *)
(* or rejects (rej).                                                       *)
(***************************************************************************)
EXTENDS Integers, Sequences, SequencesExt, FiniteSets

CONSTANTS
  Entries     \* the entries: host (FALSE: NoServer), read (its rules), offline, semioffline

Rule == [rej : BOOLEAN, stem : Seq(STRING), star : BOOLEAN]
ASSUME EntriesAssumption ==
  Entries \in Seq([host : BOOLEAN, read : Seq(Rule), offline : BOOLEAN, semioffline : BOOLEAN])

Nr == 1 .. Len(Entries)

(* A star is only at the end of a rule, where matchgroup expects it. *)
ASSUME StarsAssumption ==
  \A k \in Nr : \A j \in DOMAIN Entries[k].read :
    \A n \in DOMAIN Entries[k].read[j].stem : Entries[k].read[j].stem[n] # "*"

Accept(stem, star) == [rej |-> FALSE, stem |-> stem, star |-> star]

(* The rule with one more "!" in front.  The first "!" rejects, a second one is
   text, which no name of a group starts with. *)
Reject(r) ==
  [rej |-> TRUE, stem |-> (IF r.rej THEN <<"!">> ELSE <<>>) \o r.stem, star |-> r.star]
RejectAll(rules) == [j \in DOMAIN rules |-> Reject(rules[j])]

(* The first of the best: a later one must be strictly better. *)
FirstBest(S, val(_)) ==
  CHOOSE k \in S : \A j \in S : val(k) > val(j) \/ (val(k) = val(j) /\ k <= j)

(* How well a rule fits: the length that matches plus one, or -1. *)
Clen(r, g) ==
  IF (r.star /\ IsPrefix(r.stem, g)) \/ r.stem = g THEN Len(r.stem) + 1 ELSE -1

(* The longest rule that fits decides: positive if it accepts. *)
matchgroup(rules, g) ==
  LET fit == {k \in DOMAIN rules : Clen(rules[k], g) > 0}
      best == FirstBest(fit, LAMBDA k : Clen(rules[k], g))
  IN IF fit = {} THEN 0 ELSE Clen(rules[best], g) * (IF rules[best].rej THEN -1 ELSE 1)

(* MPList::server: the entry with the longest rule, 0 (NULL) if there is
   none or if it is a NoServer entry. *)
server(g) ==
  LET fit == {k \in Nr : matchgroup(Entries[k].read, g) > 0}
      best == FirstBest(fit, LAMBDA k : matchgroup(Entries[k].read, g))
  IN IF fit = {} \/ ~Entries[best].host THEN 0 ELSE best

(* The rules of all other entries, in order. *)
Others(k) == FlattenSeq([j \in Nr |-> IF j = k THEN <<>> ELSE Entries[j].read])

(* The rule "*". *)
All == Accept(<<>>, TRUE)

(* makeFilter(k, "*"): the rules of the entry, and against those of the others. *)
FilterAll(k) == Entries[k].read \o RejectAll(Others(k))

(* The text of a rule. *)
Chars(r) == (IF r.rej THEN <<"!">> ELSE <<>>) \o r.stem \o (IF r.star THEN <<"*">> ELSE <<>>)

(* listp after the comparison with a rule: behind what the list argument, from
   position p on, and the rule have in common. *)
Advance(arg, p, r) ==
  p + CHOOSE n \in 0 .. Len(r) :
        /\ p + n - 1 <= Len(arg) /\ \A m \in 1 .. n : arg[p + m - 1] = r[m]
        /\ n = Len(r) \/ p + n > Len(arg) \/ arg[p + n] # r[n + 1]

(* listp after each of the rules; it is not set back between two rules. *)
Positions(arg, rules) ==
  LET listp[i \in 0 .. Len(rules)] ==
        IF i = 0 THEN 1 ELSE Advance(arg, listp[i - 1], Chars(rules[i]))
  IN listp

AtStar(arg, p) == p <= Len(arg) /\ arg[p] = "*"

(* Mutant: the rules of the others are not compared with the argument. *)
FilterWildmatBare(k, rule) == <<All>>

(* makeFilter(k, arg) of another arg: everything but the rules of the others that
   the argument matches, which is to say that listp is at its star. *)
FilterWildmat(k, rule) ==
  LET arg == Chars(rule)
      listp == Positions(arg, Others(k))
  IN <<All>> \o RejectAll(FlattenSeq(
       [i \in DOMAIN Others(k) |-> IF AtStar(arg, listp[i]) THEN <<Others(k)[i]>> ELSE <<>>]))

makeFilter(k, rule) == IF rule = All THEN FilterAll(k) ELSE FilterWildmat(k, rule)
=============================================================================
