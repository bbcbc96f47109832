------------------------------ MODULE BlockStore ------------------------------
(***************************************************************************)
(* What the allocator of an NVcontainer promises to its users (NVArray,    *)
(* NVlist, NVHash): nvalloc hands out a block that lies inside the         *)
(* database file, behind its header, and overlaps no block in use; nvfree  *)
(* takes back exactly the block it is given.  How free memory is found is  *)
(* left open.                                                              *)
(***************************************************************************)
EXTENDS Naturals

CONSTANTS
  Hdr,          \* units occupied by the file header
  MaxSize,      \* largest size of the database file, in units
  Lengths       \* block lengths that can be asked for, in units

VARIABLE blocks \* the blocks in use, [at: offset, len: units]

Block == [at : Hdr..(MaxSize - 1), len : 1..MaxSize]

Disjoint(b, c) == b.at + b.len <= c.at \/ c.at + c.len <= b.at

Init == blocks = {}

Alloc(n) ==
  \E b \in Block :
    /\ b.len = n
    /\ b.at + b.len <= MaxSize
    /\ \A c \in blocks : Disjoint(b, c)
    /\ blocks' = blocks \cup {b}

Free(b) == blocks' = blocks \ {b}

Next == \/ \E n \in Lengths : Alloc(n)
        \/ \E b \in blocks : Free(b)

Spec == Init /\ [][Next]_blocks
===============================================================================
