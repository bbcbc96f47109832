---------------------------- MODULE MCNVcontainer ----------------------------
EXTENDS NVcontainer

(* States that differ only in what is left over in words that belong to no
   record and to no user are one state to TLC: inside free blocks, and inside
   the block nvalloc has just found until it is filled. *)
Owned == {u \in Addr : \E b \in used : /\ b <= u /\ u < b + w0[b]
                                       /\ pc = "fill" => b # pb}
LiveView ==
  <<size, freelist, bytes_free, pc, prv, cur, rsz, pb, free, used,
    [b \in free |-> <<w0[b], w1[b]>>], [b \in used |-> w0[b]],
    [u \in Owned |-> <<w0[u], w1[u]>>]>>
=============================================================================
