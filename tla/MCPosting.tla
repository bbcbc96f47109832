----------------------------- MODULE MCPosting ------------------------------
(* A child, two overlapping runs of updatenews and three servers, one of
   them offline; an article for the two that are online, one for the server
   that is not, and one for no known group. *)
EXTENDS Posting, TLC

CONSTANTS a1, a2, a3, s1, s2, s3

MCArticle == {a1, a2, a3}
MCServer == {s1, s2, s3}
MCTarget == a1 :> {s1, s2} @@ a2 :> {s3} @@ a3 :> {}
MCOffline == {s3}
=============================================================================
