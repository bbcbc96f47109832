----------------------------- MODULE MCUpstream -----------------------------
(* Two servers, one of them for a hierarchy inside that of the other, and inside
   of that a hierarchy that is served by nobody; a third server is offline.  One
   group is carried by none of them.  The first server knows neither "over" nor
   "list active" with an argument and allows no posting. *)
EXTENDS Upstream

Entry(host, read) == [host |-> host, read |-> read, offline |-> FALSE, semioffline |-> FALSE]
Star(stem) == Accept(stem, TRUE)

MCEntries ==
  <<Entry(TRUE, <<Star(<<>>)>>),
    Entry(TRUE, <<Star(<<"comp.">>)>>),
    Entry(FALSE, <<Star(<<"comp.", "lang.">>)>>),
    [Entry(TRUE, <<Star(<<"local.">>)>>) EXCEPT !.offline = TRUE]>>
MCGroup == {<<"rec">>, <<"sci">>, <<"comp.", "os">>, <<"comp.", "lang.", "c">>}
MCCarries == [k \in 1 .. 4 |-> IF k > 2 THEN {} ELSE MCGroup \ {<<"sci">>}]
MCKnows == [k \in 1 .. 4 |-> IF k = 1 THEN {"reader", "fmt", "xover"} ELSE Flags]

(* The rules of these servers meet the condition under which active() and
   selectgroup take the same server for a group. *)
ASSUME MCFiltersAgree == FiltersAgree
=============================================================================
