----------------------------- MODULE MCGroupDB ------------------------------
EXTENDS GroupDB

Moving == {<<1, 3>>, <<2, 4>>, <<5, 4>>}

(* Which blocks an entry and the table have makes no difference as long as the
   table is sound and leads to the right records: such states are one to TLC,
   states in which it is not are kept apart. *)
BlocksView ==
  <<IF TableSound /\ RightArticle
    THEN <<db.fst, db.lst, db.files, [n \in Nbr |-> Kind(db, n)], db.table = 0>>
    ELSE db,
    lock, pc, lo, hi, nbr, list, pending>>
=============================================================================
