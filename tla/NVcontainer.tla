----------------------------- MODULE NVcontainer -----------------------------
(***************************************************************************)
(* The memory allocator inside an NVcontainer database file                *)
(* (NVClasses-0.9.1/NVcontainer.cc: nvalloc, nvfree, resize and the file   *)
(* layout written by open), as run by the process that holds the exclusive *)
(* lock.  One action is one iteration of a free-list walk or the stores    *)
(* that follow it.                                                         *)
(*                                                                         *)
(* Offsets and sizes are in units of 16 bytes: every block starts on a     *)
(* unit and is a whole number of units long, the free-list record is one   *)
(* unit, the header three.  A unit holds two machine words.  A free block  *)
(* keeps {next, size} in its first unit; a block in use keeps its size in  *)
(* the first word, where `next' was, and its user owns all other words.    *)
(***************************************************************************)
EXTENDS Integers, FiniteSets, FiniteSetsExt

CONSTANTS
  Hdr,          \* sizeof(Header) in units (3 on a 64-bit machine)
  Page,         \* growth step of the file, 0x10000 bytes (4096 units)
  MaxSize,      \* ftruncate beyond this size fails (disk full, file limit)
  Requests,     \* sizes in bytes that users ask for
  Data          \* what users write into the words of their blocks

ASSUME HdrAssumption == Hdr \in Nat \ {0}
ASSUME PageAssumption == Page \in Nat /\ Hdr < Page
ASSUME MaxSizeAssumption == MaxSize \in Nat /\ Page <= MaxSize
ASSUME RequestsAssumption == Requests \subseteq Nat
ASSUME DataAssumption == Data \subseteq Nat

VARIABLES
  size,         \* mem_hdr->size; also the file's size and the holder's mem_sz
  freelist,     \* mem_hdr->freelist: the last free block of the file
  bytes_free,   \* mem_hdr->bytes_free, in units
  w0,           \* first word of each unit: next of a free block, size of one in use
  w1,           \* second word of each unit: size of a free block
  pc,           \* "idle", or what is in progress: "nvalloc", then "fill"; "nvfree"
  prv, cur,     \* the walk's two pointers
  rsz,          \* nvalloc: units asked for
  pb,           \* the block to fill or to free
  free, used    \* (history) the free blocks and the blocks in use

heap == <<size, freelist, bytes_free, w0, w1, free, used>>
vars == <<size, freelist, bytes_free, w0, w1, pc, prv, cur, rsz, pb, free, used>>

Unit == 16      \* bytes
Word == 8       \* sizeof(unsigned long)
FreeList == 1   \* sizeof(FreeList) in units
Addr == 0..(MaxSize - 1)

(* rsz = (rsz + sizeof(unsigned long) + 0xf) & ~0xf: room for the size word,
   rounded up to whole units. *)
BlockUnits(bytes) == (bytes + Word + Unit - 1) \div Unit

(* nsz = (nsz + 0x10000) & ~0xffff: at least one unit larger than asked for. *)
PageUp(nsz) == ((nsz + Page) \div Page) * Page

(* The length of a block, read from the word that holds it. *)
Extent(b) == IF b \in free THEN w1[b] ELSE w0[b]
Blocks == free \cup used
-----------------------------------------------------------------------------
(* open() of an empty file: header, one free block behind it. *)
Init ==
  /\ size = Page
  /\ freelist = Hdr
  /\ bytes_free = Page - Hdr
  /\ w0 = [u \in Addr |-> IF u = Hdr THEN Hdr ELSE 0]
  /\ w1 = [u \in Addr |-> IF u = Hdr THEN Page - Hdr ELSE 0]
  /\ pc = "idle"
  /\ prv = 0 /\ cur = 0 /\ rsz = 0 /\ pb = 0
  /\ free = {Hdr}
  /\ used = {}

(* The operation returns (or throws): its locals are gone. *)
Return == pc' = "idle" /\ prv' = 0 /\ cur' = 0 /\ rsz' = 0 /\ pb' = 0

(* nvalloc returns the block at cur; its caller goes on to fill it. *)
Found == pc' = "fill" /\ pb' = cur /\ prv' = 0 /\ cur' = 0 /\ rsz' = 0

(* Both walks start at the block after the last one: the first of the file. *)
StartWalk == prv' = freelist /\ cur' = w0[freelist]
StepWalk == prv' = cur /\ cur' = w0[cur]
-----------------------------------------------------------------------------
(* nvalloc(bytes) *)

NvallocBegin(bytes) ==
  /\ pc = "idle"
  /\ pc' = "nvalloc"
  /\ rsz' = BlockUnits(bytes)
  /\ StartWalk
  /\ UNCHANGED <<heap, pb>>

(* Mutant: the walk takes a block only if it is larger than asked for. *)
NvallocWalkingStrict == w1[cur] <= rsz /\ cur # freelist
(* Mutant: the walk does not stop at the last block. *)
NvallocWalkingOn == w1[cur] < rsz

(* while (cur->size < rsz && cur != flhead) *)
NvallocWalking == w1[cur] < rsz /\ cur # freelist

NvallocStep ==
  /\ pc = "nvalloc"
  /\ NvallocWalking
  /\ StepWalk
  /\ UNCHANGED <<heap, pc, rsz, pb>>

(* Mutant: the record of the last block is forgotten. *)
TailTooSmallBare == cur = freelist /\ w1[cur] < rsz

(* The last block must survive the split with room for its own record. *)
TailTooSmall == cur = freelist /\ w1[cur] < rsz + FreeList

NewSize == PageUp(size + (rsz + FreeList - w1[cur]))

(* Mutant: the result of ftruncate is not looked at. *)
NvallocResizeUnchecked ==
  /\ pc = "nvalloc" /\ ~NvallocWalking /\ TailTooSmall
  /\ size' = NewSize
  /\ bytes_free' = bytes_free + (NewSize - size)
  /\ w1' = [w1 EXCEPT ![freelist] = @ + (NewSize - size)]
  /\ UNCHANGED <<freelist, w0, free, used, pc, prv, cur, rsz, pb>>
(* Mutant: the growth is not added to bytes_free. *)
NvallocResizeUncounted ==
  /\ pc = "nvalloc" /\ ~NvallocWalking /\ TailTooSmall
  /\ NewSize <= MaxSize
  /\ size' = NewSize
  /\ w1' = [w1 EXCEPT ![freelist] = @ + (NewSize - size)]
  /\ UNCHANGED <<bytes_free, freelist, w0, free, used, pc, prv, cur, rsz, pb>>

(* resize: the file grows and all of the growth goes to the last block. *)
NvallocResize ==
  /\ pc = "nvalloc"
  /\ ~NvallocWalking
  /\ TailTooSmall
  /\ NewSize <= MaxSize
  /\ size' = NewSize
  /\ bytes_free' = bytes_free + (NewSize - size)
  /\ w1' = [w1 EXCEPT ![freelist] = @ + (NewSize - size)]
  /\ UNCHANGED <<freelist, w0, free, used, pc, prv, cur, rsz, pb>>

(* ftruncate fails: SystemError, nothing has been stored. *)
NvallocFail ==
  /\ pc = "nvalloc"
  /\ ~NvallocWalking
  /\ TailTooSmall
  /\ NewSize > MaxSize
  /\ Return
  /\ UNCHANGED heap

(* Mutant: the block handed out stays in the list. *)
NvallocWholeLinked ==
  /\ pc = "nvalloc"
  /\ ~NvallocWalking /\ ~TailTooSmall
  /\ w1[cur] < rsz + FreeList
  /\ bytes_free' = bytes_free - w1[cur]
  /\ used' = used \cup {cur}
  /\ Found
  /\ UNCHANGED <<size, freelist, w0, w1, free>>

(* The block found is too small to split: unlink all of it. *)
NvallocWhole ==
  /\ pc = "nvalloc"
  /\ ~NvallocWalking /\ ~TailTooSmall
  /\ w1[cur] < rsz + FreeList
  /\ w0' = [w0 EXCEPT ![prv] = w0[cur], ![cur] = w1[cur]]
  /\ bytes_free' = bytes_free - w1[cur]
  /\ free' = free \ {cur}
  /\ used' = used \cup {cur}
  /\ Found
  /\ UNCHANGED <<size, freelist, w1>>

(* Mutant: the rest of the block keeps the length of the whole. *)
NvallocSplitLong ==
  LET rest == cur + rsz IN
  /\ pc = "nvalloc" /\ ~NvallocWalking /\ ~TailTooSmall
  /\ w1[cur] >= rsz + FreeList
  /\ w1' = [w1 EXCEPT ![rest] = w1[cur]]
  /\ w0' = IF prv # cur
             THEN [w0 EXCEPT ![rest] = w0[cur], ![prv] = rest, ![cur] = rsz]
             ELSE [w0 EXCEPT ![rest] = rest, ![cur] = rsz]
  /\ freelist' = IF cur = freelist THEN rest ELSE freelist
  /\ bytes_free' = bytes_free - rsz
  /\ free' = (free \ {cur}) \cup {rest}
  /\ used' = used \cup {cur}
  /\ Found
  /\ UNCHANGED size
(* Mutant: the head of the list does not move on to the rest. *)
NvallocSplitOldHead ==
  LET rest == cur + rsz IN
  /\ pc = "nvalloc" /\ ~NvallocWalking /\ ~TailTooSmall
  /\ w1[cur] >= rsz + FreeList
  /\ w1' = [w1 EXCEPT ![rest] = w1[cur] - rsz]
  /\ w0' = IF prv # cur
             THEN [w0 EXCEPT ![rest] = w0[cur], ![prv] = rest, ![cur] = rsz]
             ELSE [w0 EXCEPT ![rest] = rest, ![cur] = rsz]
  /\ bytes_free' = bytes_free - rsz
  /\ free' = (free \ {cur}) \cup {rest}
  /\ used' = used \cup {cur}
  /\ Found
  /\ UNCHANGED <<size, freelist>>

(* Take the front of the block found; the rest takes its place in the list. *)
NvallocSplit ==
  LET rest == cur + rsz IN
  /\ pc = "nvalloc"
  /\ ~NvallocWalking /\ ~TailTooSmall
  /\ w1[cur] >= rsz + FreeList
  /\ w1' = [w1 EXCEPT ![rest] = w1[cur] - rsz]
  /\ w0' = IF prv # cur
             THEN [w0 EXCEPT ![rest] = w0[cur], ![prv] = rest, ![cur] = rsz]
             ELSE [w0 EXCEPT ![rest] = rest, ![cur] = rsz]
  /\ freelist' = IF cur = freelist THEN rest ELSE freelist
  /\ bytes_free' = bytes_free - rsz
  /\ free' = (free \ {cur}) \cup {rest}
  /\ used' = used \cup {cur}
  /\ Found
  /\ UNCHANGED size
-----------------------------------------------------------------------------
(* nvfree(b) *)

NvfreeBegin(b) ==
  /\ pc = "idle"
  /\ pc' = "nvfree"
  /\ pb' = b
  /\ StartWalk
  /\ UNCHANGED <<heap, rsz>>

psz == w0[pb]
pe == pb + psz

(* while (cur < pb && cur != flhead) *)
NvfreeWalking == cur < pb /\ cur # freelist

NvfreeStep ==
  /\ pc = "nvfree"
  /\ NvfreeWalking
  /\ StepWalk
  /\ UNCHANGED <<heap, pc, rsz, pb>>

(* Mutants: any block in front counts as a neighbour; the next one never does. *)
AdjacentPrevLoose == prv + w1[prv] <= pb
AdjacentNextNever == FALSE

AdjacentPrev == prv + w1[prv] = pb
AdjacentNext == pe = cur

(* What every outcome of nvfree has in common. *)
NvfreeEnd ==
  /\ pc = "nvfree"
  /\ ~NvfreeWalking
  /\ bytes_free' = bytes_free + psz
  /\ used' = used \ {pb}
  /\ Return
  /\ UNCHANGED size

NvfreePrev ==
  /\ NvfreeEnd
  /\ AdjacentPrev /\ ~AdjacentNext
  /\ w1' = [w1 EXCEPT ![prv] = @ + psz]
  /\ UNCHANGED <<freelist, w0, free>>

NvfreeBoth ==
  /\ NvfreeEnd
  /\ AdjacentPrev /\ AdjacentNext
  /\ w1' = [w1 EXCEPT ![prv] = @ + psz + w1[cur]]
  /\ w0' = [w0 EXCEPT ![prv] = w0[cur]]
  /\ freelist' = IF cur = freelist THEN prv ELSE freelist
  /\ free' = free \ {cur}

(* Also the case of a list with one block, which has to point to itself. *)
NvfreeNext ==
  /\ NvfreeEnd
  /\ ~AdjacentPrev /\ AdjacentNext
  /\ w1' = [w1 EXCEPT ![pb] = psz + w1[cur]]
  /\ w0' = IF w0[cur] = cur
             THEN [w0 EXCEPT ![pb] = pb]
             ELSE [w0 EXCEPT ![pb] = w0[cur], ![prv] = pb]
  /\ freelist' = IF cur = freelist THEN pb ELSE freelist
  /\ free' = (free \ {cur}) \cup {pb}

NvfreeLink ==
  /\ NvfreeEnd
  /\ ~AdjacentPrev /\ ~AdjacentNext
  /\ w1' = [w1 EXCEPT ![pb] = psz]
  /\ w0' = [w0 EXCEPT ![pb] = cur, ![prv] = pb]
  /\ free' = free \cup {pb}
  /\ UNCHANGED freelist
-----------------------------------------------------------------------------
(* The caller fills the block it got: the memcpy after nvalloc in
   NVArray::sset and NVlist::sprepend, the table loops of NVArray::ssetsize and
   NVHash::open.  It owns every word of the block but the size word. *)
Fill(d) ==
  LET Inside(u) == pb < u /\ u < pb + w0[pb] IN
  /\ pc = "fill"
  /\ w0' = [u \in Addr |-> IF Inside(u) THEN d ELSE w0[u]]
  /\ w1' = [u \in Addr |-> IF Inside(u) \/ u = pb THEN d ELSE w1[u]]
  /\ Return
  /\ UNCHANGED <<size, freelist, bytes_free, free, used>>

Nvalloc ==
  \/ \E bytes \in Requests : NvallocBegin(bytes)
  \/ NvallocStep \/ NvallocResize \/ NvallocFail \/ NvallocWhole \/ NvallocSplit

Nvfree ==
  \/ \E b \in used : NvfreeBegin(b)
  \/ NvfreeStep \/ NvfreePrev \/ NvfreeBoth \/ NvfreeNext \/ NvfreeLink

Next == Nvalloc \/ Nvfree \/ \E d \in Data : Fill(d)

Spec == Init /\ [][Next]_vars

(* An operation that has begun is run to its end: the process holds the lock
   and nothing in the walks or the stores waits for anybody. *)
FairSpec ==
  /\ Spec
  /\ WF_vars(NvallocStep \/ NvallocResize \/ NvallocFail \/ NvallocWhole \/ NvallocSplit)
  /\ WF_vars(\E d \in Data : Fill(d))
  /\ WF_vars(NvfreeStep \/ NvfreePrev \/ NvfreeBoth \/ NvfreeNext \/ NvfreeLink)
-----------------------------------------------------------------------------
(* Every variable has its type: offsets stay inside the file, however nvalloc
   grows it, and the file never grows past its limit. *)
TypeOK ==
  /\ size \in Nat /\ size <= MaxSize
  /\ freelist \in Addr
  /\ bytes_free \in Int
  /\ w0 \in [Addr -> Nat] /\ w1 \in [Addr -> Nat]
  /\ pc \in {"idle", "nvalloc", "fill", "nvfree"}
  /\ prv \in Addr /\ cur \in Addr /\ pb \in Addr
  /\ rsz \in Nat
  /\ free \subseteq Addr /\ used \subseteq Addr

(* The free list visits the free blocks in ascending order and closes at the
   last one, which is the block mem_hdr->freelist points to ("flhead points to
   the last free memory block") and which reaches to the end of the file. *)
FreeListOrdered ==
  /\ freelist \in free
  /\ freelist + w1[freelist] = size
  /\ \A b \in free :
       /\ b <= freelist
       /\ w0[b] \in free
       /\ b = freelist => \A c \in free : w0[b] <= c
       /\ b # freelist => b < w0[b] /\ \A c \in free : c <= b \/ w0[b] <= c

(* Free blocks and blocks in use tile the file behind its header: none
   overlaps another (no word has two owners), and where one ends the next one
   starts (no word is lost), after any sequence of nvalloc and nvfree. *)
Tiled ==
  /\ free \cap used = {}
  /\ Hdr \in Blocks
  /\ \A b \in Blocks :
       /\ Hdr <= b /\ 0 < Extent(b) /\ b + Extent(b) <= size
       /\ b + Extent(b) # size => b + Extent(b) \in Blocks
       /\ \A c \in Blocks : b < c => b + Extent(b) <= c

(* nvfree merges a freed block with both neighbours, so the list never holds
   two free blocks that touch: free memory does not fragment further than the
   blocks in use make it. *)
Coalesced == \A b \in free : b + w1[b] \notin free

(* mem_hdr->bytes_free is the total size of the free blocks: the counter is
   adjusted in nvalloc, resize and nvfree, and no walk ever recomputes it. *)
BytesFreeExact == bytes_free = MapThenSumSet(LAMBDA b : w1[b], free)

(* Where a walk stands: cur follows prv in the list; nvalloc has passed only
   blocks that are too small, nvfree only blocks in front of the one to free. *)
WalkSound ==
  /\ pc \in {"nvalloc", "nvfree"} => prv \in free /\ cur = w0[prv]
  /\ pc = "nvalloc" => 0 < rsz /\ \A b \in free : b < cur => w1[b] < rsz
  /\ pc = "nvfree" => prv = freelist \/ prv < pb
  /\ pc \in {"nvfree", "fill"} => pb \in used

(* The inductive invariant. *)
IInv == TypeOK /\ FreeListOrdered /\ Tiled /\ Coalesced /\ WalkSound

(* The ASSERTs of nvalloc and nvfree, which a production build compiles out. *)
AssertionsHold ==
  /\ pc = "nvalloc" /\ ~NvallocWalking =>
       IF TailTooSmall
         THEN w1[cur] + (NewSize - size) >= rsz + FreeList   \* "resize failed"
         ELSE /\ w1[cur] >= rsz          \* "did not find a large enough ..."
              /\ w1[cur] < rsz + FreeList => cur # freelist  \* "Cannot split ... at tail"
              /\ prv = cur => cur = freelist  \* "Lost block of free memory at tail"
  /\ pc = "nvfree" =>
       /\ Hdr <= pb /\ pe <= size        \* "tried to free illegal memory block"
       /\ prv # freelist => prv < cur    \* "freelist out of order!"
       /\ ~NvfreeWalking => pb < cur     \* "tried to free unallocated memory block"
       /\ w0[cur] = cur => cur = freelist  \* "flhead lost trailing block"

(* nvalloc "find[s] the first suitable memory block in the database": it skips
   no block that is large enough, and grows the file only when none is. *)
FirstFit ==
  [][/\ pc = "nvalloc" /\ pc' = "fill" => \A b \in free : b < pb' => w1[b] < rsz
     /\ size' # size => \A b \in free \ {freelist} : w1[b] < rsz]_vars

(* Neither nvalloc nor nvfree changes a word of a block that stays in use:
   what a user stored is there until the user frees the block. *)
UserWordsKept ==
  [][\A b \in used \cap used' :
       /\ w0'[b] = w0[b]
       /\ ~(pc = "fill" /\ b = pb) =>
            /\ w1'[b] = w1[b]
            /\ \A u \in Addr : b < u /\ u < b + w0[b] =>
                 w0'[u] = w0[u] /\ w1'[u] = w1[u]]_vars

(* Every walk of the circular list ends. *)
Terminates == pc # "idle" ~> pc = "idle"

(* The allocator implements BlockStore. *)
InUse == {[at |-> b, len |-> w0[b]] : b \in used}
Lengths == {BlockUnits(bytes) : bytes \in Requests}
BS == INSTANCE BlockStore WITH blocks <- InUse

ImplementsBlockStore == BS!Spec
=============================================================================
