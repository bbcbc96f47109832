----------------------------- MODULE MCFilters ------------------------------
(* Three servers, each for a hierarchy inside that of another one, in an order in
   which makeFilter does not find comp.lang.c.* inside of comp.lang.*: comparing
   comp.* has moved listp behind "comp.". *)
EXTENDS Upstream

Entry(stem) ==
  [host |-> TRUE, read |-> <<Accept(stem, TRUE)>>, offline |-> FALSE, semioffline |-> FALSE]

MCEntries == <<Entry(<<"comp.", "lang.">>), Entry(<<"comp.">>), Entry(<<"comp.", "lang.", "c.">>)>>
MCGroup == {<<"comp.", "os">>, <<"comp.", "lang.", "c.", "x">>}
MCCarries == [k \in 1 .. 3 |-> MCGroup]
MCKnows == [k \in 1 .. 3 |-> Flags]
=============================================================================
