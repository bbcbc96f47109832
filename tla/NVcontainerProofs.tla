-------------------------- MODULE NVcontainerProofs --------------------------
(***************************************************************************)
(* Proofs about the allocator of NVcontainer, for every header size, page  *)
(* size, file-size limit and set of requests.                              *)
(***************************************************************************)
EXTENDS NVcontainer, FoldLemmas, TLAPS

(* resize always grows the file by at least what was asked for. *)
LEMMA PageUpGrows == \A n \in Nat : PageUp(n) \in Nat /\ PageUp(n) > n
<1> SUFFICES ASSUME NEW n \in Nat PROVE PageUp(n) \in Nat /\ PageUp(n) > n
  OBVIOUS
<1>0. Page \in Nat /\ Page > 0
  BY HdrAssumption, PageAssumption
<1>1. PICK q \in Int, r \in Int : n + Page = Page * q + r /\ 0 <= r /\ r < Page /\ q = (n + Page) \div Page
  BY <1>0
<1>2. q * Page = n + Page - r
  BY <1>0, <1>1
<1> QED BY <1>0, <1>1, <1>2 DEF PageUp

(* A block has room for the size word and the bytes asked for. *)
LEMMA BlockUnitsFit ==
  \A bytes \in Nat : /\ BlockUnits(bytes) \in Nat \ {0}
                     /\ bytes + Word <= Unit * BlockUnits(bytes)
BY DEF BlockUnits, Word, Unit

LEMMA InitIInv == Init => IInv
<1> SUFFICES ASSUME Init PROVE IInv
  OBVIOUS
<1> USE HdrAssumption, PageAssumption, MaxSizeAssumption DEF Init
<1>1. TypeOK
  BY DEF TypeOK, Addr
<1>2. FreeListOrdered
  BY DEF FreeListOrdered, Addr
<1>3. Tiled
  BY DEF Tiled, Blocks, Extent, Addr
<1>4. Coalesced
  BY DEF Coalesced, Addr
<1>5. WalkSound
  BY DEF WalkSound
<1> QED BY <1>1, <1>2, <1>3, <1>4, <1>5 DEF IInv

(* The two walks only move the pointers. *)
LEMMA WalkIInv ==
  ASSUME IInv,
         \/ \E bytes \in Requests : NvallocBegin(bytes)
         \/ NvallocStep
         \/ \E b \in used : NvfreeBegin(b)
         \/ NvfreeStep
  PROVE  IInv'
<1> USE DEF IInv
<1>1. UNCHANGED heap
  BY DEF NvallocBegin, NvallocStep, NvfreeBegin, NvfreeStep, heap
<1>2. FreeListOrdered' /\ Tiled' /\ Coalesced'
  BY <1>1 DEF heap, FreeListOrdered, Tiled, Coalesced, Blocks, Extent
<1>3. TypeOK' /\ WalkSound'
  <2> USE <1>1 DEF heap
  <2>0. StartWalk \/ (cur \in free /\ StepWalk)
    BY DEF NvallocBegin, NvallocStep, NvfreeBegin, NvfreeStep, WalkSound, FreeListOrdered
  <2>1. prv' \in free /\ cur' = w0[prv'] /\ cur' \in free
    BY <2>0 DEF StartWalk, StepWalk, FreeListOrdered
  <2>2. prv' \in Addr /\ cur' \in Addr
    BY <2>1 DEF TypeOK
  <2>3. ASSUME NEW bytes \in Requests, NvallocBegin(bytes) PROVE TypeOK' /\ WalkSound'
    <3>1. BlockUnits(bytes) \in Nat /\ 0 < BlockUnits(bytes)
      BY BlockUnitsFit, RequestsAssumption
    <3>2. TypeOK'
      BY <2>2, <2>3, <3>1 DEF NvallocBegin, TypeOK
    <3>3. \A b \in free : ~(b < w0[freelist])
      BY DEF FreeListOrdered, TypeOK, Addr
    <3>4. WalkSound'
      BY <2>1, <2>3, <3>1, <3>3 DEF NvallocBegin, StartWalk, WalkSound
    <3> QED BY <3>2, <3>4
  <2>4. CASE NvallocStep
    <3>1. TypeOK'
      BY <2>2, <2>4 DEF NvallocStep, TypeOK
    <3>2. \A b \in free : b < w0[cur] => b <= cur
      BY <2>4 DEF NvallocStep, NvallocWalking, WalkSound, FreeListOrdered, TypeOK, Addr
    <3>3. \A b \in free : b < w0[cur] => w1[b] < rsz
      BY <2>4, <3>2 DEF NvallocStep, NvallocWalking, WalkSound, TypeOK, Addr
    <3>4. WalkSound'
      BY <2>1, <2>4, <3>3 DEF NvallocStep, StepWalk, WalkSound
    <3> QED BY <3>1, <3>4
  <2>5. ASSUME NEW b \in used, NvfreeBegin(b) PROVE TypeOK' /\ WalkSound'
    BY <2>1, <2>2, <2>5 DEF NvfreeBegin, StartWalk, TypeOK, WalkSound
  <2>6. CASE NvfreeStep
    BY <2>1, <2>2, <2>6 DEF NvfreeStep, NvfreeWalking, StepWalk, TypeOK, WalkSound
  <2> QED BY <2>3, <2>4, <2>5, <2>6
<1> QED BY <1>2, <1>3

LEMMA ResizeIInv == ASSUME IInv, NvallocResize PROVE IInv'
<1> USE DEF IInv
<1> DEFINE need == rsz + FreeList - w1[cur]
<1>1. /\ cur = freelist /\ freelist \in free /\ rsz \in Nat /\ size \in Nat
      /\ w1[cur] \in Nat /\ w1[cur] < rsz + FreeList
  BY DEF NvallocResize, TailTooSmall, TypeOK, FreeListOrdered, WalkSound
<1>2. NewSize \in Nat /\ size < NewSize /\ NewSize <= MaxSize
  <2>1. need \in Nat /\ size + need \in Nat
    BY <1>1 DEF FreeList
  <2>2. NewSize = PageUp(size + need)
    BY DEF NewSize
  <2> QED BY <1>1, <2>1, <2>2, PageUpGrows DEF NvallocResize
<1>3. /\ size' = NewSize
      /\ w1' = [w1 EXCEPT ![freelist] = @ + (NewSize - size)]
      /\ w1'[freelist] = w1[freelist] + (NewSize - size)
      /\ \A u \in Addr : u # freelist => w1'[u] = w1[u]
      /\ UNCHANGED <<freelist, w0, free, used, pc, prv, cur, rsz, pb>>
  BY DEF NvallocResize, TypeOK
<1>4. TypeOK'
  BY <1>2, <1>3 DEF TypeOK, NvallocResize
<1>0. /\ free \subseteq Addr /\ used \subseteq Addr
      /\ \A u \in Addr : u \in Nat /\ w0[u] \in Nat /\ w1[u] \in Nat
  BY DEF TypeOK, Addr
<1>5. FreeListOrdered'
  <2>1. freelist' + w1'[freelist'] = size'
    BY <1>0, <1>1, <1>2, <1>3 DEF FreeListOrdered
  <2> QED BY <1>3, <2>1 DEF FreeListOrdered
<1>6. Tiled'
  <2>1. \A b \in Blocks \ {freelist} : Extent(b)' = Extent(b)
    BY <1>0, <1>3 DEF Blocks, Extent
  <2>2. Extent(freelist)' = NewSize - freelist /\ Extent(freelist) = size - freelist
    BY <1>0, <1>1, <1>2, <1>3 DEF Extent, FreeListOrdered
  <2>3. \A b \in Blocks : b # freelist => b < freelist /\ b + Extent(b) <= freelist
    BY <1>0, <1>1, <2>2 DEF Tiled, Blocks, Extent
  <2>4. Blocks' = Blocks /\ Blocks \subseteq Nat /\ \A b \in Blocks : Extent(b) \in Nat
    BY <1>0, <1>3 DEF Blocks, Extent
  <2>5. freelist \in Blocks /\ freelist < size
    BY <1>0, <1>1, <2>2 DEF Tiled, Blocks
  <2> QED BY <1>1, <1>2, <1>3, <2>1, <2>2, <2>3, <2>4, <2>5 DEF Tiled
<1>7. Coalesced'
  BY <1>0, <1>1, <1>2, <1>3 DEF Coalesced, FreeListOrdered
<1>8. WalkSound'
  BY <1>0, <1>1, <1>2, <1>3 DEF WalkSound, FreeListOrdered
<1> QED BY <1>4, <1>5, <1>6, <1>7, <1>8

-----------------------------------------------------------------------------
(* Facts about the blocks that every store below needs. *)
LEMMA Basics ==
  ASSUME IInv
  PROVE  /\ free \subseteq Addr /\ used \subseteq Addr /\ Addr \subseteq Nat
         /\ \A u \in Addr : u \in Nat /\ w0[u] \in Nat /\ w1[u] \in Nat
         /\ Blocks \subseteq Addr
         /\ \A b \in free : b \in Blocks /\ b \notin used /\ Extent(b) = w1[b]
         /\ \A b \in used : b \in Blocks /\ b \notin free /\ Extent(b) = w0[b]
         /\ \A b \in Blocks : b \in Nat /\ Extent(b) \in Nat /\ 0 < Extent(b)
         /\ size \in Nat /\ size <= MaxSize /\ freelist \in free /\ 0 \in Addr
<1> USE DEF IInv
<1>1. free \subseteq Addr /\ used \subseteq Addr /\ Addr \subseteq Nat
  BY DEF TypeOK, Addr
<1>2. \A u \in Addr : u \in Nat /\ w0[u] \in Nat /\ w1[u] \in Nat
  BY <1>1 DEF TypeOK
<1>3. free \cap used = {}
  BY DEF Tiled
<1>4. \A b \in Blocks : b \in Nat /\ Extent(b) \in Nat /\ 0 < Extent(b)
  BY <1>1, <1>2 DEF Blocks, Extent, Tiled
<1>5. 0 \in Addr
  BY HdrAssumption, PageAssumption, MaxSizeAssumption DEF Addr
<1> QED BY <1>1, <1>2, <1>3, <1>4, <1>5 DEF Blocks, Extent, TypeOK, FreeListOrdered

(* The list has no two predecessors of a block. *)
LEMMA NextInjective ==
  ASSUME IInv, NEW b \in free, NEW c \in free, w0[b] = w0[c]
  PROVE  b = c
BY Basics DEF IInv, FreeListOrdered

(* Stores that keep the list and the block lengths keep their invariants. *)
LEMMA SameShape ==
  ASSUME IInv,
         UNCHANGED <<size, freelist, free, used>>,
         \A b \in free : w0'[b] = w0[b] /\ w1'[b] = w1[b],
         \A b \in used : w0'[b] = w0[b]
  PROVE  FreeListOrdered' /\ Tiled' /\ Coalesced'
<1> USE DEF IInv
<1>1. FreeListOrdered'
  BY DEF FreeListOrdered
<1>2. Blocks' = Blocks /\ \A b \in Blocks : Extent(b)' = Extent(b)
  BY Basics DEF Blocks, Extent
<1>3. Tiled'
  BY <1>2 DEF Tiled
<1>4. Coalesced'
  BY DEF Coalesced
<1> QED BY <1>1, <1>3, <1>4

LEMMA FailIInv == ASSUME IInv, NvallocFail PROVE IInv'
<1> USE DEF IInv
<1>1. FreeListOrdered' /\ Tiled' /\ Coalesced'
  BY SameShape DEF NvallocFail, heap
<1>2. TypeOK'
  BY Basics DEF NvallocFail, Return, heap, TypeOK
<1>3. WalkSound'
  BY DEF NvallocFail, Return, WalkSound
<1> QED BY <1>1, <1>2, <1>3

(* The caller of nvalloc stays inside its block. *)
LEMMA FillIInv == ASSUME IInv, NEW d \in Data, Fill(d) PROVE IInv'
<1> USE DEF IInv
<1> DEFINE Inside(u) == pb < u /\ u < pb + w0[pb]
<1>1. /\ pb \in used
      /\ w0' = [u \in Addr |-> IF Inside(u) THEN d ELSE w0[u]]
      /\ w1' = [u \in Addr |-> IF Inside(u) \/ u = pb THEN d ELSE w1[u]]
      /\ UNCHANGED <<size, freelist, free, used, bytes_free>>
  BY DEF Fill, WalkSound
<1>2. \A b \in Blocks : ~Inside(b)
  BY <1>1, Basics DEF Tiled
<1>3. \A b \in free : w0'[b] = w0[b] /\ w1'[b] = w1[b]
  BY <1>1, <1>2, Basics
<1>4. \A b \in used : w0'[b] = w0[b]
  BY <1>1, <1>2, Basics
<1>5. FreeListOrdered' /\ Tiled' /\ Coalesced'
  BY <1>1, <1>3, <1>4, SameShape
<1>6. TypeOK'
  <2>1. w0' \in [Addr -> Nat] /\ w1' \in [Addr -> Nat]
    BY <1>1, DataAssumption DEF TypeOK
  <2> QED BY <1>1, <2>1, Basics DEF Fill, Return, TypeOK
<1>7. WalkSound'
  BY DEF Fill, Return, WalkSound
<1> QED BY <1>5, <1>6, <1>7

(* nvalloc unlinks a whole block. *)
LEMMA WholeIInv == ASSUME IInv, NvallocWhole PROVE IInv'
<1> USE DEF IInv
<1>1. /\ prv \in free /\ cur \in free /\ cur = w0[prv] /\ cur # freelist
      /\ w0' = [w0 EXCEPT ![prv] = w0[cur], ![cur] = w1[cur]]
      /\ free' = free \ {cur} /\ used' = used \cup {cur}
      /\ UNCHANGED <<size, freelist, w1>>
  BY DEF NvallocWhole, NvallocWalking, TailTooSmall, WalkSound, FreeListOrdered, TypeOK, FreeList
<1>2. prv # cur
  BY <1>1, Basics DEF FreeListOrdered
<1>3. /\ w0'[prv] = w0[cur] /\ w0'[cur] = w1[cur]
      /\ \A u \in Addr : u # prv /\ u # cur => w0'[u] = w0[u]
  BY <1>1, <1>2, Basics DEF TypeOK
<1>4. FreeListOrdered'
  <2>1. \A b \in free : b # prv => w0[b] # cur
    BY <1>1, NextInjective
  <2>2. freelist' \in free' /\ freelist' + w1'[freelist'] = size'
    BY <1>1 DEF FreeListOrdered
  <2>3. ASSUME NEW b \in free'
        PROVE  /\ b <= freelist' /\ w0'[b] \in free'
               /\ b = freelist' => \A c \in free' : w0'[b] <= c
               /\ b # freelist' => b < w0'[b] /\ \A c \in free' : c <= b \/ w0'[b] <= c
    <3>0. b \in free /\ b # cur /\ \A c \in free' : c \in free /\ c # cur
      BY <1>1
    <3>1. CASE b = prv
      <4>1. cur < w0[cur] /\ w0[cur] \in free' /\ \A c \in free' : c < cur \/ w0[cur] <= c
        BY <1>1, <3>0, Basics DEF FreeListOrdered
      <4>2. prv = freelist => \A c \in free' : ~(c < cur)
        BY <1>1, <3>0, Basics DEF FreeListOrdered
      <4>3. prv # freelist => prv < cur /\ \A c \in free' : c < cur => c <= prv
        BY <1>1, <3>0, Basics DEF FreeListOrdered
      <4>4. prv <= freelist
        BY <1>1 DEF FreeListOrdered
      <4>5. /\ cur \in Nat /\ prv \in Nat /\ w0[cur] \in Nat
            /\ \A c \in free' : c \in Nat
        BY <1>1, <3>0, Basics
      <4>6. freelist' = freelist /\ w0'[b] = w0[cur]
        BY <1>1, <1>3, <3>1
      <4> QED BY <3>1, <4>1, <4>2, <4>3, <4>4, <4>5, <4>6
    <3>2. CASE b # prv
      <4>1. w0'[b] = w0[b] /\ w0[b] \in free'
        BY <1>1, <1>3, <2>1, <3>0, <3>2, Basics DEF FreeListOrdered
      <4> QED BY <1>1, <3>0, <4>1 DEF FreeListOrdered
    <3> QED BY <3>1, <3>2
  <2> QED BY <2>2, <2>3 DEF FreeListOrdered
<1>5. Tiled'
  <2>1. Blocks' = Blocks /\ \A b \in Blocks : Extent(b)' = Extent(b)
    BY <1>1, <1>2, <1>3, Basics DEF Blocks, Extent
  <2> QED BY <1>1, <2>1 DEF Tiled
<1>6. Coalesced'
  BY <1>1 DEF Coalesced
<1>7. TypeOK'
  <2>1. w0' \in [Addr -> Nat]
    BY <1>1, Basics DEF TypeOK
  <2>2. bytes_free' \in Int
    BY <1>1, Basics DEF NvallocWhole, TypeOK
  <2> QED BY <1>1, <2>1, <2>2, Basics DEF NvallocWhole, Found, TypeOK
<1>8. WalkSound'
  BY <1>1 DEF NvallocWhole, Found, WalkSound
<1> QED BY <1>4, <1>5, <1>6, <1>7, <1>8

(* nvalloc splits a block. *)
LEMMA SplitIInv == ASSUME IInv, NvallocSplit PROVE IInv'
<1> USE DEF IInv
<1> DEFINE rest == cur + rsz
<1> DEFINE LenN(b) == IF b \in free' THEN w1'[b] ELSE w0'[b]
<1>1. /\ prv \in free /\ cur \in free /\ cur = w0[prv]
      /\ rsz \in Nat /\ 0 < rsz /\ rsz < w1[cur]
      /\ w1' = [w1 EXCEPT ![rest] = w1[cur] - rsz]
      /\ w0' = IF prv # cur
                 THEN [w0 EXCEPT ![rest] = w0[cur], ![prv] = rest, ![cur] = rsz]
                 ELSE [w0 EXCEPT ![rest] = rest, ![cur] = rsz]
      /\ freelist' = IF cur = freelist THEN rest ELSE freelist
      /\ free' = (free \ {cur}) \cup {rest} /\ used' = used \cup {cur}
      /\ size' = size
  BY Basics DEF NvallocSplit, WalkSound, FreeListOrdered, TypeOK, FreeList
<1>2. /\ cur \in Nat /\ w1[cur] \in Nat /\ prv \in Nat /\ w0[cur] \in free /\ freelist \in Nat
      /\ cur \in Blocks /\ Extent(cur) = w1[cur] /\ size \in Nat /\ size <= MaxSize
      /\ cur + w1[cur] <= size
  BY <1>1, Basics DEF FreeListOrdered, Tiled
<1>3. rest \in Nat /\ rest \in Addr /\ cur < rest /\ rest < cur + w1[cur]
  BY <1>1, <1>2, MaxSizeAssumption DEF Addr
<1>4. \A b \in Blocks : b <= cur \/ cur + w1[cur] <= b
  BY <1>2, Basics DEF Tiled
<1>5. \A b \in Blocks : b <= cur \/ rest < b
  BY <1>2, <1>3, <1>4, Basics
<1>6. rest \notin Blocks /\ rest \notin free /\ rest \notin used /\ rest # prv /\ rest # cur
  BY <1>1, <1>3, <1>5, Basics
<1>7. /\ w1'[rest] = w1[cur] - rsz
      /\ \A u \in Addr : u # rest => w1'[u] = w1[u]
      /\ w0'[cur] = rsz
      /\ w0'[rest] = IF prv # cur THEN w0[cur] ELSE rest
      /\ prv # cur => w0'[prv] = rest
      /\ \A u \in Addr : u # rest /\ u # cur /\ u # prv => w0'[u] = w0[u]
  BY <1>1, <1>3, <1>6, Basics DEF TypeOK
<1>8. TypeOK'
  <2>1. w1' \in [Addr -> Nat]
    BY <1>1, <1>2, <1>3 DEF TypeOK
  <2>2. w0' \in [Addr -> Nat]
    BY <1>1, <1>2, <1>3, Basics DEF TypeOK
  <2>3. bytes_free' \in Int
    BY <1>1 DEF NvallocSplit, TypeOK
  <2> QED BY <1>1, <1>3, <2>1, <2>2, <2>3, Basics DEF NvallocSplit, Found, TypeOK
<1>9. WalkSound'
  BY <1>1 DEF NvallocSplit, Found, WalkSound
<1>10. Coalesced'
  <2>1. rest + w1'[rest] = cur + w1[cur]
    BY <1>1, <1>2, <1>3, <1>7
  <2>2. cur + w1[cur] \notin free /\ cur + w1[cur] # rest
    BY <1>1, <1>3 DEF Coalesced
  <2>3. \A b \in free : b # cur => b + w1[b] # rest
    BY <1>1, <1>2, <1>3, <1>5, Basics DEF Tiled
  <2>4. \A b \in free : b # cur => w1'[b] = w1[b] /\ b + w1[b] \notin free
    BY <1>6, <1>7, Basics DEF Coalesced
  <2> QED BY <1>1, <2>1, <2>2, <2>3, <2>4 DEF Coalesced
<1>11. Tiled'
  <2>1. Blocks' = Blocks \cup {rest} /\ free' \cap used' = {}
    BY <1>1, <1>6, Basics DEF Blocks, Tiled
  <2>2. /\ LenN(cur) = rsz /\ LenN(rest) = w1[cur] - rsz
    BY <1>1, <1>3, <1>6, <1>7
  <2>3. \A b \in Blocks : b # cur => LenN(b) = Extent(b)
    <3>1. \A b \in free : b # cur => LenN(b) = Extent(b)
      BY <1>1, <1>6, <1>7, Basics
    <3>2. \A b \in used : LenN(b) = Extent(b)
      BY <1>1, <1>6, <1>7, Basics
    <3> QED BY <3>1, <3>2 DEF Blocks
  <2>4. Hdr <= cur /\ Hdr < rest /\ Hdr \in Nat
    BY <1>2, <1>3, HdrAssumption DEF Tiled
  <2>5. ASSUME NEW b \in Blocks'
        PROVE  /\ Hdr <= b /\ 0 < LenN(b) /\ b + LenN(b) <= size'
               /\ b + LenN(b) # size' => b + LenN(b) \in Blocks'
               /\ \A c \in Blocks' : b < c => b + LenN(b) <= c
    <3>1. CASE b = rest
      <4>1. b + LenN(b) = cur + Extent(cur) /\ 0 < LenN(b)
        BY <1>1, <1>2, <1>3, <2>2, <3>1
      <4>2. \A c \in Blocks' : b < c => cur + Extent(cur) <= c
        BY <1>2, <1>3, <1>4, <2>1, <3>1, Basics
      <4> QED BY <1>1, <1>2, <2>1, <2>4, <3>1, <4>1, <4>2 DEF Tiled
    <3>2. CASE b = cur
      <4>1. b + LenN(b) = rest
        BY <2>2, <3>2
      <4>2. \A c \in Blocks' : b < c => rest <= c
        BY <1>2, <1>3, <1>5, <2>1, <3>2, Basics
      <4>3. size' = size /\ rest <= size /\ rest \in Blocks' /\ 0 < LenN(cur)
        BY <1>1, <1>2, <1>3, <2>1, <2>2
      <4> QED BY <2>4, <3>2, <4>1, <4>2, <4>3
    <3>3. CASE b \in Blocks /\ b # cur
      <4>1. LenN(b) = Extent(b)
        BY <2>3, <3>3
      <4>2. b < rest => b + Extent(b) <= rest
        BY <1>2, <1>3, <1>5, <3>3, Basics DEF Tiled
      <4>3. /\ Hdr <= b /\ 0 < Extent(b) /\ b + Extent(b) <= size
            /\ b + Extent(b) # size => b + Extent(b) \in Blocks
            /\ \A c \in Blocks : b < c => b + Extent(b) <= c
        BY <3>3 DEF Tiled
      <4>4. size' = size
        BY <1>1
      <4> QED BY <2>1, <3>3, <4>1, <4>2, <4>3, <4>4
    <3> QED BY <2>1, <3>1, <3>2, <3>3
  <2>6. Hdr \in Blocks'
    BY <2>1 DEF Tiled
  <2> QED BY <2>1, <2>5, <2>6 DEF Tiled, Extent
<1>12. FreeListOrdered'
  <2>0. /\ free' \subseteq Nat
        /\ \A c \in free' : c = rest \/ (c \in free /\ c # cur /\ (c < cur \/ rest < c))
    BY <1>1, <1>2, <1>3, <1>5, Basics
  <2>00. /\ freelist' = IF cur = freelist THEN rest ELSE freelist
         /\ free' = (free \ {cur}) \cup {rest} /\ cur \in free
         /\ cur \in Nat /\ rest \in Nat /\ prv \in Nat /\ freelist \in Nat /\ cur < rest
         /\ \A c \in free : c \in Nat /\ w0[c] \in Nat
    BY <1>1, <1>2, <1>3, Basics
  <2>1. freelist' \in free' /\ freelist' + w1'[freelist'] = size'
    BY <1>1, <1>2, <1>3, <1>6, <1>7, Basics DEF FreeListOrdered
  <2>2. ASSUME NEW b \in free'
        PROVE  /\ b <= freelist' /\ w0'[b] \in free'
               /\ b = freelist' => \A c \in free' : w0'[b] <= c
               /\ b # freelist' => b < w0'[b] /\ \A c \in free' : c <= b \/ w0'[b] <= c
    <3>0. b <= freelist'
      BY <1>1, <1>2, <1>3, <2>0 DEF FreeListOrdered
    <3>1. CASE b = rest /\ prv = cur
      <4>1. cur = freelist /\ free = {cur}
        BY <1>1, <3>1, Basics DEF FreeListOrdered
      <4> QED BY <1>1, <1>3, <1>7, <3>0, <3>1, <4>1
    <3>2. CASE b = rest /\ prv # cur
      <4>1. w0'[b] = w0[cur] /\ w0[cur] \in free /\ w0[cur] # cur
        BY <1>1, <1>2, <1>7, <3>2, NextInjective
      <4>2. CASE cur = freelist
        <5>1. \A c \in free : w0[cur] <= c
          BY <1>1, <4>2 DEF FreeListOrdered
        <5> QED BY <2>00, <2>0, <3>0, <3>2, <4>1, <4>2, <5>1
      <4>3. CASE cur # freelist
        <5>1. cur < w0[cur] /\ \A c \in free : c <= cur \/ w0[cur] <= c
          BY <1>1, <4>3 DEF FreeListOrdered
        <5>2. rest < w0[cur] /\ freelist' = freelist /\ rest # freelist
          BY <1>1, <1>5, <1>6, <4>1, <4>3, <5>1, Basics
        <5> QED BY <2>00, <2>0, <3>0, <3>2, <4>1, <5>1, <5>2, Basics
      <4> QED BY <4>2, <4>3
    <3>3. CASE b # rest /\ b = prv
      <4>1. w0'[b] = rest /\ prv # cur /\ prv \in free
        BY <1>1, <1>7, <3>3, <2>0
      <4>2. CASE prv = freelist
        <5>1. \A c \in free : cur <= c
          BY <1>1, <4>2 DEF FreeListOrdered
        <5> QED BY <2>00, <2>0, <3>0, <3>3, <4>1, <4>2, <5>1
      <4>3. CASE prv # freelist
        <5>1. prv < cur /\ \A c \in free : c <= prv \/ cur <= c
          BY <1>1, <4>3 DEF FreeListOrdered
        <5> QED BY <2>00, <2>0, <3>0, <3>3, <4>1, <4>3, <5>1
      <4> QED BY <4>2, <4>3
    <3>4. CASE b # rest /\ b # prv
      <4>1. b \in free /\ b # cur /\ w0[b] \in free /\ w0[b] # cur
        BY <1>1, <2>0, <3>4, NextInjective DEF FreeListOrdered
      <4>2. w0'[b] = w0[b] /\ w0[b] \in free'
        BY <1>1, <1>7, <3>4, <4>1, Basics
      <4>3. CASE b = freelist
        <5>1. \A c \in free : w0[b] <= c
          BY <4>1, <4>3 DEF FreeListOrdered
        <5> QED BY <2>00, <2>0, <3>0, <4>1, <4>2, <4>3, <5>1, Basics
      <4>4. CASE b # freelist
        <5>1. b < w0[b] /\ \A c \in free : c <= b \/ w0[b] <= c
          BY <4>1, <4>4 DEF FreeListOrdered
        <5>2. rest <= b \/ w0[b] <= rest
          BY <1>1, <1>2, <1>3, <2>0, <4>1, <5>1, Basics
        <5> QED BY <1>1, <1>2, <2>0, <3>0, <3>4, <4>2, <4>4, <5>1, <5>2
      <4> QED BY <4>3, <4>4
    <3> QED BY <3>1, <3>2, <3>3, <3>4
  <2> QED BY <2>1, <2>2 DEF FreeListOrdered
<1> QED BY <1>8, <1>9, <1>10, <1>11, <1>12

-----------------------------------------------------------------------------
(* Tiled, of any set B of block starts with lengths L in a file of n units. *)
Tiles(B, L, n) ==
  /\ Hdr \in B
  /\ \A b \in B :
       /\ Hdr <= b /\ 0 < L[b] /\ b + L[b] <= n
       /\ b + L[b] # n => b + L[b] \in B
       /\ \A c \in B : b < c => b + L[b] <= c

(* Two blocks that touch can be made one. *)
LEMMA MergeTiles ==
  ASSUME NEW B \in SUBSET Nat, NEW L \in [B -> Nat], NEW n \in Nat, Tiles(B, L, n),
         NEW x \in B, NEW y \in B, x + L[x] = y,
         NEW M, \A b \in B \ {y} : M[b] = IF b = x THEN L[x] + L[y] ELSE L[b]
  PROVE  Tiles(B \ {y}, M, n)
<1> DEFINE C == B \ {y}
<1>1. x # y /\ x < y /\ x \in C /\ x \in Nat /\ y \in Nat /\ L[x] \in Nat /\ L[y] \in Nat
  BY DEF Tiles
<1>2. Hdr \in C
  BY <1>1, HdrAssumption DEF Tiles
<1>3. ASSUME NEW b \in C
      PROVE  /\ Hdr <= b /\ 0 < M[b] /\ b + M[b] <= n
             /\ b + M[b] # n => b + M[b] \in C
             /\ \A c \in C : b < c => b + M[b] <= c
  <2>1. CASE b = x
    <3>1. M[b] = L[x] + L[y] /\ b + M[b] = y + L[y]
      BY <1>1, <2>1
    <3>2. \A c \in C : x < c => y < c
      BY <1>1 DEF Tiles
    <3>3. 0 < L[y] /\ y + L[y] <= n /\ (y + L[y] # n => y + L[y] \in B)
          /\ (\A c \in B : y < c => y + L[y] <= c) /\ Hdr <= x
      BY DEF Tiles
    <3> QED BY <1>1, <2>1, <3>1, <3>2, <3>3
  <2>2. CASE b # x
    <3>1. M[b] = L[b] /\ L[b] \in Nat /\ b \in Nat
      BY <2>2
    <3>2. b + L[b] # y
      BY <1>1, <2>2, <3>1 DEF Tiles
    <3> QED BY <3>1, <3>2 DEF Tiles
  <2> QED BY <2>1, <2>2
<1> QED BY <1>2, <1>3 DEF Tiles

Lens == [b \in Blocks |-> Extent(b)]

LEMMA TiledIsTiles ==
  ASSUME IInv
  PROVE  Tiles(Blocks, Lens, size) /\ Blocks \in SUBSET Nat /\ Lens \in [Blocks -> Nat]
<1>1. Blocks \in SUBSET Nat /\ \A b \in Blocks : Lens[b] = Extent(b) /\ Extent(b) \in Nat
  BY Basics DEF Lens
<1>2. Lens \in [Blocks -> Nat]
  BY <1>1 DEF Lens
<1>3. Tiles(Blocks, Lens, size)
  BY <1>1 DEF IInv, Tiled, Tiles
<1> QED BY <1>1, <1>2, <1>3

LEMMA TilesIsTiled ==
  ASSUME free' \cap used' = {}, Tiles(Blocks', Lens', size')
  PROVE  Tiled'
<1>1. \A b \in Blocks' : Lens'[b] = Extent(b)'
  BY DEF Lens
<1> QED BY <1>1 DEF Tiled, Tiles

(* Where nvfree's walk has stopped: prv and cur are the neighbours of pb. *)
LEMMA NvfreeFacts ==
  ASSUME IInv, pc = "nvfree", ~NvfreeWalking
  PROVE  /\ pb \in used /\ prv \in free /\ cur \in free /\ cur = w0[prv]
         /\ pb \in Nat /\ prv \in Nat /\ cur \in Nat /\ freelist \in Nat
         /\ psz \in Nat /\ 0 < psz /\ psz = Extent(pb)
         /\ w1[prv] = Extent(prv) /\ w1[cur] = Extent(cur)
         /\ pb < cur /\ pe <= cur
         /\ prv = freelist => \A c \in free : cur <= c
         /\ prv # freelist => prv < pb /\ \A c \in free : c <= prv \/ cur <= c
         /\ AdjacentPrev => prv # freelist
<1> USE DEF IInv
<1>1. /\ pb \in used /\ prv \in free /\ cur \in free /\ cur = w0[prv]
      /\ pb \in Nat /\ prv \in Nat /\ cur \in Nat /\ freelist \in Nat
  BY Basics DEF WalkSound, FreeListOrdered
<1>2. psz \in Nat /\ 0 < psz /\ psz = Extent(pb) /\ w1[prv] = Extent(prv) /\ w1[cur] = Extent(cur)
  BY <1>1, Basics DEF psz
<1>3. freelist + Extent(freelist) = size /\ freelist \in Blocks /\ pb \in Blocks /\ pb # freelist
  BY <1>1, Basics DEF FreeListOrdered
<1>4. pb < freelist /\ pb < size
  BY <1>1, <1>2, <1>3, Basics DEF Tiled
<1>5. pb < cur
  BY <1>1, <1>4, Basics DEF NvfreeWalking
<1>6. pe <= cur
  BY <1>1, <1>2, <1>5, Basics DEF pe, Tiled
<1>7. AdjacentPrev => prv # freelist
  BY <1>1, <1>4 DEF AdjacentPrev, FreeListOrdered
<1>8. prv = freelist => \A c \in free : cur <= c
  BY <1>1 DEF FreeListOrdered
<1>9. prv # freelist => prv < pb /\ \A c \in free : c <= prv \/ cur <= c
  BY <1>1 DEF FreeListOrdered, WalkSound
<1> QED BY <1>1, <1>2, <1>5, <1>6, <1>7, <1>8, <1>9

(* No free block but prv can end where pb starts. *)
LEMMA OnlyPrvTouches ==
  ASSUME IInv, pc = "nvfree", ~NvfreeWalking
  PROVE  \A b \in free : b # prv => b + w1[b] # pb
<1>1. \A b \in free : b # prv /\ b < pb => b < prv /\ prv < pb
  BY NvfreeFacts, Basics
<1>2. \A b \in free : b < prv => b + w1[b] <= prv
  BY NvfreeFacts, Basics DEF IInv, Tiled
<1>3. prv \in Nat /\ pb \in Nat /\ \A b \in free : b \in Nat /\ w1[b] \in Nat /\ 0 < w1[b]
  BY NvfreeFacts, Basics
<1> QED BY <1>1, <1>2, <1>3

(* The four outcomes of nvfree leave types and walk state alike. *)
LEMMA NvfreeEndTypes ==
  ASSUME IInv, NvfreeEnd, freelist' \in Addr, free' \subseteq Addr,
         w0' \in [Addr -> Nat], w1' \in [Addr -> Nat]
  PROVE  TypeOK' /\ WalkSound'
<1> USE DEF IInv
<1>1. bytes_free' \in Int /\ used' \subseteq Addr /\ size' = size
  BY NvfreeFacts DEF NvfreeEnd, TypeOK
<1>2. TypeOK'
  BY <1>1, Basics DEF NvfreeEnd, Return, TypeOK
<1>3. WalkSound'
  BY DEF NvfreeEnd, Return, WalkSound
<1> QED BY <1>2, <1>3

LEMMA NvfreePrevIInv == ASSUME IInv, NvfreePrev PROVE IInv'
<1> USE DEF IInv
<1>0. pc = "nvfree" /\ ~NvfreeWalking /\ NvfreeEnd /\ AdjacentPrev /\ pe # cur
  BY DEF NvfreePrev, NvfreeEnd, AdjacentNext
<1>1. /\ pb \in used /\ prv \in free /\ psz = Extent(pb) /\ w1[prv] = Extent(prv)
      /\ prv + Extent(prv) = pb /\ prv # freelist /\ prv < pb
      /\ pb \in Nat /\ prv \in Nat /\ cur \in Nat /\ psz \in Nat /\ 0 < psz
  BY <1>0, NvfreeFacts DEF AdjacentPrev
<1>2. /\ w1' = [w1 EXCEPT ![prv] = Extent(prv) + Extent(pb)]
      /\ UNCHANGED <<freelist, w0, free, size>> /\ used' = used \ {pb}
  BY <1>1 DEF NvfreePrev, NvfreeEnd
<1>3. w1'[prv] = Extent(prv) + Extent(pb) /\ \A u \in Addr : u # prv => w1'[u] = w1[u]
  BY <1>1, <1>2, Basics DEF TypeOK
<1>4. TypeOK' /\ WalkSound'
  <2>1. w1' \in [Addr -> Nat]
    BY <1>1, <1>2, Basics DEF TypeOK
  <2> QED BY <1>0, <1>2, <2>1, Basics, NvfreeEndTypes DEF TypeOK
<1>5. FreeListOrdered'
  BY <1>1, <1>2, <1>3, Basics DEF FreeListOrdered
<1>6. Coalesced'
  <2>1. prv + w1'[prv] = pe
    BY <1>1, <1>3, Basics DEF pe
  <2>2. pe \notin free
    BY <1>0, <1>1, NvfreeFacts DEF pe
  <2> QED BY <1>1, <1>2, <1>3, <2>1, <2>2, Basics DEF Coalesced
<1>7. Tiled'
  <2>1. Blocks' = Blocks \ {pb} /\ free' \cap used' = {}
    BY <1>1, <1>2, Basics DEF Blocks
  <2>2. \A b \in Blocks' : Extent(b)' = IF b = prv THEN Extent(prv) + Extent(pb) ELSE Extent(b)
    BY <1>1, <1>2, <1>3, <2>1, Basics DEF Blocks, Extent
  <2>3. prv \in Blocks /\ pb \in Blocks /\ prv + Lens[prv] = pb
    BY <1>1, Basics DEF Lens
  <2>4. \A b \in Blocks \ {pb} : Lens'[b] = IF b = prv THEN Lens[prv] + Lens[pb] ELSE Lens[b]
    BY <2>1, <2>2, <2>3, Basics DEF Lens
  <2>5. /\ Blocks \in SUBSET Nat /\ Lens \in [Blocks -> Nat] /\ size \in Nat
        /\ Tiles(Blocks, Lens, size)
    BY TiledIsTiles, Basics
  <2>6. Tiles(Blocks', Lens', size')
    BY <1>2, <2>1, <2>3, <2>4, <2>5, MergeTiles
  <2> QED BY <2>1, <2>6, TilesIsTiled
<1> QED BY <1>4, <1>5, <1>6, <1>7

LEMMA NvfreeLinkIInv == ASSUME IInv, NvfreeLink PROVE IInv'
<1> USE DEF IInv
<1>0. pc = "nvfree" /\ ~NvfreeWalking /\ NvfreeEnd /\ ~AdjacentPrev /\ pe # cur
  BY DEF NvfreeLink, NvfreeEnd, AdjacentNext
<1>1. /\ pb \in used /\ prv \in free /\ cur \in free /\ cur = w0[prv] /\ psz = Extent(pb)
      /\ pb \in Nat /\ prv \in Nat /\ cur \in Nat /\ psz \in Nat /\ 0 < psz
      /\ pb < cur /\ pb # prv /\ pe < cur /\ freelist \in Nat
  BY <1>0, NvfreeFacts, Basics DEF pe
<1>2. /\ w1' = [w1 EXCEPT ![pb] = psz]
      /\ w0' = [w0 EXCEPT ![pb] = cur, ![prv] = pb]
      /\ UNCHANGED <<freelist, size>> /\ used' = used \ {pb} /\ free' = free \cup {pb}
  BY DEF NvfreeLink, NvfreeEnd
<1>3. /\ w1'[pb] = psz /\ \A u \in Addr : u # pb => w1'[u] = w1[u]
      /\ w0'[pb] = cur /\ w0'[prv] = pb
      /\ \A u \in Addr : u # pb /\ u # prv => w0'[u] = w0[u]
  BY <1>1, <1>2, Basics DEF TypeOK
<1>4. TypeOK' /\ WalkSound'
  <2>1. w1' \in [Addr -> Nat] /\ w0' \in [Addr -> Nat]
    BY <1>1, <1>2, Basics DEF TypeOK
  <2> QED BY <1>0, <1>1, <1>2, <2>1, Basics, NvfreeEndTypes
<1>5. Coalesced'
  <2>1. pe \notin free /\ pe # pb
    BY <1>0, <1>1, NvfreeFacts DEF pe
  <2>2. \A b \in free : b # prv => b + w1[b] # pb
    BY <1>0, OnlyPrvTouches
  <2>3. prv + w1[prv] # pb
    BY <1>0 DEF AdjacentPrev
  <2> QED BY <1>1, <1>2, <1>3, <2>1, <2>2, <2>3, Basics DEF Coalesced, pe
<1>6. Tiled'
  <2>1. Blocks' = Blocks /\ free' \cap used' = {}
    BY <1>1, <1>2, Basics DEF Blocks
  <2>2. \A b \in Blocks : Extent(b)' = Extent(b)
    BY <1>1, <1>2, <1>3, Basics DEF Blocks, Extent
  <2> QED BY <1>2, <2>1, <2>2 DEF Tiled
<1>7. FreeListOrdered'
  <2>0. /\ freelist' = freelist /\ free' = free \cup {pb} /\ pb \notin free /\ pb # freelist
        /\ \A c \in free' : c \in Nat
    BY <1>1, <1>2, Basics
  <2>1. freelist' \in free' /\ freelist' + w1'[freelist'] = size'
    BY <1>2, <1>3, <2>0, Basics DEF FreeListOrdered
  <2>2. ASSUME NEW b \in free'
        PROVE  /\ b <= freelist' /\ w0'[b] \in free'
               /\ b = freelist' => \A c \in free' : w0'[b] <= c
               /\ b # freelist' => b < w0'[b] /\ \A c \in free' : c <= b \/ w0'[b] <= c
    <3>0. b <= freelist'
      BY <1>1, <2>0 DEF FreeListOrdered
    <3>1. CASE b = pb
      BY <1>0, <1>1, <1>3, <2>0, <3>0, <3>1, NvfreeFacts
    <3>2. CASE b = prv
      BY <1>0, <1>1, <1>3, <2>0, <3>0, <3>2, NvfreeFacts
    <3>3. CASE b # pb /\ b # prv
      <4>1. b \in free /\ w0'[b] = w0[b] /\ w0[b] \in free /\ w0[b] # cur
        BY <1>1, <1>3, <2>0, <3>3, Basics, NextInjective DEF FreeListOrdered
      <4>2. CASE b = freelist
        <5>1. \A c \in free : w0[b] <= c
          BY <4>1, <4>2 DEF FreeListOrdered
        <5>2. w0[b] <= prv /\ prv < pb /\ w0[b] \in Nat
          BY <1>0, <1>1, <3>3, <4>1, <4>2, <5>1, NvfreeFacts, Basics
        <5> QED BY <1>1, <2>0, <3>0, <4>1, <4>2, <5>1, <5>2
      <4>3. CASE b # freelist
        <5>1. b < w0[b] /\ \A c \in free : c <= b \/ w0[b] <= c
          BY <4>1, <4>3 DEF FreeListOrdered
        <5>2. pb <= b \/ w0[b] <= pb
          <6>1. b \in Nat /\ w0[b] \in Nat /\ (b <= prv => b < prv)
            BY <1>1, <3>3, <4>1, Basics
          <6>2. CASE prv = freelist
            BY <1>0, <1>1, <4>1, <6>1, <6>2, NvfreeFacts
          <6>3. CASE prv # freelist
            <7>1. prv < pb /\ (b < prv \/ cur <= b)
              BY <1>0, <4>1, <6>1, <6>3, NvfreeFacts
            <7>2. b < prv => w0[b] <= prv
              BY <1>1, <5>1, <6>1
            <7> QED BY <1>1, <6>1, <7>1, <7>2
          <6> QED BY <6>2, <6>3
        <5> QED BY <2>0, <3>0, <4>1, <4>3, <5>1, <5>2
      <4> QED BY <4>2, <4>3
    <3> QED BY <3>1, <3>2, <3>3
  <2> QED BY <2>1, <2>2 DEF FreeListOrdered
<1> QED BY <1>4, <1>5, <1>6, <1>7

LEMMA NvfreeNextIInv == ASSUME IInv, NvfreeNext PROVE IInv'
<1> USE DEF IInv
<1>0. pc = "nvfree" /\ ~NvfreeWalking /\ NvfreeEnd /\ ~AdjacentPrev /\ pe = cur
  BY DEF NvfreeNext, NvfreeEnd, AdjacentNext
<1>1. /\ pb \in used /\ prv \in free /\ cur \in free /\ cur = w0[prv] /\ psz = Extent(pb)
      /\ pb \in Nat /\ prv \in Nat /\ cur \in Nat /\ psz \in Nat /\ 0 < psz
      /\ pb < cur /\ pb # prv /\ pb + Extent(pb) = cur /\ freelist \in Nat
      /\ w1[cur] = Extent(cur)
  BY <1>0, NvfreeFacts, Basics DEF pe
<1>2. /\ w1' = [w1 EXCEPT ![pb] = Extent(pb) + Extent(cur)]
      /\ w0' = IF w0[cur] = cur
                 THEN [w0 EXCEPT ![pb] = pb]
                 ELSE [w0 EXCEPT ![pb] = w0[cur], ![prv] = pb]
      /\ freelist' = IF cur = freelist THEN pb ELSE freelist
      /\ size' = size /\ used' = used \ {pb} /\ free' = (free \ {cur}) \cup {pb}
  BY <1>1 DEF NvfreeNext, NvfreeEnd
<1>3. /\ w1'[pb] = Extent(pb) + Extent(cur) /\ \A u \in Addr : u # pb => w1'[u] = w1[u]
      /\ w0'[pb] = IF w0[cur] = cur THEN pb ELSE w0[cur]
      /\ w0[cur] # cur => w0'[prv] = pb
      /\ \A u \in Addr : u # pb /\ u # prv => w0'[u] = w0[u]
  BY <1>1, <1>2, Basics DEF TypeOK
<1>4. TypeOK' /\ WalkSound'
  <2>1. w1' \in [Addr -> Nat] /\ w0' \in [Addr -> Nat]
    BY <1>1, <1>2, Basics DEF TypeOK
  <2> QED BY <1>0, <1>1, <1>2, <2>1, Basics, NvfreeEndTypes
<1>5. Coalesced'
  <2>1. pb + w1'[pb] = cur + w1[cur] /\ cur + w1[cur] \notin free /\ cur + w1[cur] # pb
    BY <1>1, <1>3, Basics DEF Coalesced
  <2>2. \A b \in free : b + w1[b] # pb
    BY <1>0, OnlyPrvTouches DEF AdjacentPrev
  <2> QED BY <1>1, <1>2, <1>3, <2>1, <2>2, Basics DEF Coalesced
<1>6. Tiled'
  <2>1. Blocks' = Blocks \ {cur} /\ free' \cap used' = {}
    BY <1>1, <1>2, Basics DEF Blocks
  <2>2. \A b \in Blocks' : Extent(b)' = IF b = pb THEN Extent(pb) + Extent(cur) ELSE Extent(b)
    <3>1. Extent(pb) + Extent(cur) = w1'[pb] /\ pb \in free'
      BY <1>2, <1>3
    <3>2. \A b \in free \ {cur} : b \in free' /\ w1'[b] = Extent(b) /\ b # pb
      BY <1>1, <1>2, <1>3, Basics
    <3>3. \A b \in used \ {pb} : b \notin free' /\ w0'[b] = Extent(b)
      BY <1>1, <1>2, <1>3, Basics
    <3> QED BY <2>1, <3>1, <3>2, <3>3 DEF Blocks, Extent
  <2>3. pb \in Blocks /\ cur \in Blocks /\ pb + Lens[pb] = cur
    BY <1>1, Basics DEF Lens
  <2>4. \A b \in Blocks \ {cur} : Lens'[b] = IF b = pb THEN Lens[pb] + Lens[cur] ELSE Lens[b]
    BY <2>1, <2>2, <2>3, Basics DEF Lens
  <2>5. /\ Blocks \in SUBSET Nat /\ Lens \in [Blocks -> Nat] /\ size \in Nat
        /\ Tiles(Blocks, Lens, size)
    BY TiledIsTiles, Basics
  <2>6. Tiles(Blocks', Lens', size')
    BY <1>2, <2>1, <2>3, <2>4, <2>5, MergeTiles
  <2> QED BY <2>1, <2>6, TilesIsTiled
<1>7. FreeListOrdered'
  <2>0. /\ free' = (free \ {cur}) \cup {pb} /\ pb \notin free /\ pb # freelist
        /\ freelist' = IF cur = freelist THEN pb ELSE freelist
        /\ \A c \in free' : c \in Nat /\ c # cur
        /\ \A c \in free : c \in Nat /\ w0[c] \in Nat /\ w0[c] \in free
    BY <1>1, <1>2, Basics DEF FreeListOrdered
  <2>1. freelist' \in free' /\ freelist' + w1'[freelist'] = size'
    BY <1>1, <1>2, <1>3, <2>0, Basics DEF FreeListOrdered
  <2>2. w0[cur] = cur => cur = freelist /\ free' = {pb}
    <3>1. w0[cur] = cur => cur = freelist
      BY <1>1, <2>0 DEF FreeListOrdered
    <3>2. w0[cur] = cur => \A c \in free : c = cur
      BY <1>1, <2>0, <3>1 DEF FreeListOrdered
    <3> QED BY <2>0, <3>1, <3>2
  <2>3. w0[cur] # cur => prv # cur
    BY <1>1
  <2>4. prv = freelist => \A c \in free : cur <= c
    BY <1>0, NvfreeFacts
  <2>5. prv # freelist => prv < pb /\ \A c \in free : c <= prv \/ cur <= c
    BY <1>0, NvfreeFacts
  <2>6. ASSUME NEW b \in free'
        PROVE  /\ b <= freelist' /\ w0'[b] \in free'
               /\ b = freelist' => \A c \in free' : w0'[b] <= c
               /\ b # freelist' => b < w0'[b] /\ \A c \in free' : c <= b \/ w0'[b] <= c
    <3>0. CASE w0[cur] = cur
      BY <1>1, <1>3, <2>0, <2>2, <3>0
    <3>a. b <= freelist'
      <4>1. \A c \in free : c <= freelist
        BY DEF FreeListOrdered
      <4> QED BY <1>1, <2>0, <2>4, <2>5, <4>1
    <3>1. CASE w0[cur] # cur /\ b = pb
      <4>1. w0'[b] = w0[cur] /\ w0[cur] \in free'
        BY <1>1, <1>3, <2>0, <3>1
      <4>2. CASE cur = freelist
        <5>1. \A c \in free : w0[cur] <= c
          BY <1>1, <4>2 DEF FreeListOrdered
        <5>2. prv < pb
          BY <2>3, <2>5, <3>1, <4>2
        <5> QED BY <1>1, <2>0, <3>1, <3>a, <4>1, <4>2, <5>1, <5>2
      <4>3. CASE cur # freelist
        <5>1. cur < w0[cur] /\ \A c \in free : c <= cur \/ w0[cur] <= c
          BY <1>1, <4>3 DEF FreeListOrdered
        <5>2. \A c \in free' : c <= pb \/ w0[cur] <= c
          BY <1>1, <2>0, <2>4, <2>5, <5>1
        <5> QED BY <1>1, <2>0, <3>1, <3>a, <4>1, <4>3, <5>1, <5>2
      <4> QED BY <4>2, <4>3
    <3>2. CASE w0[cur] # cur /\ b = prv
      <4>1. w0'[b] = pb
        BY <1>3, <3>2
      <4> QED BY <1>1, <2>0, <2>3, <2>4, <2>5, <3>2, <3>a, <4>1
    <3>3. CASE w0[cur] # cur /\ b # pb /\ b # prv
      <4>1. b \in free /\ w0'[b] = w0[b] /\ w0[b] \in free /\ w0[b] # cur
        BY <1>1, <1>3, <2>0, <3>3, Basics, NextInjective
      <4>2. CASE b = freelist
        <5>1. \A c \in free : w0[b] <= c
          BY <4>1, <4>2 DEF FreeListOrdered
        <5>2. w0[b] <= prv /\ prv < pb
          BY <1>1, <2>5, <3>3, <4>2, <5>1
        <5> QED BY <1>1, <2>0, <3>a, <4>1, <4>2, <5>1, <5>2
      <4>3. CASE b # freelist
        <5>1. b < w0[b] /\ \A c \in free : c <= b \/ w0[b] <= c
          BY <4>1, <4>3 DEF FreeListOrdered
        <5>2. pb <= b \/ w0[b] <= pb
          <6>1. CASE prv = freelist
            BY <1>1, <2>0, <2>4, <4>1, <6>1
          <6>2. CASE prv # freelist
            BY <1>1, <2>0, <2>5, <3>3, <4>1, <5>1, <6>2
          <6> QED BY <6>1, <6>2
        <5> QED BY <2>0, <3>3, <3>a, <4>1, <4>3, <5>1, <5>2
      <4> QED BY <4>2, <4>3
    <3> QED BY <3>0, <3>1, <3>2, <3>3
  <2> QED BY <2>1, <2>6 DEF FreeListOrdered
<1> QED BY <1>4, <1>5, <1>6, <1>7

LEMMA NvfreeBothIInv == ASSUME IInv, NvfreeBoth PROVE IInv'
<1> USE DEF IInv
<1>0. pc = "nvfree" /\ ~NvfreeWalking /\ NvfreeEnd /\ AdjacentPrev /\ pe = cur
  BY DEF NvfreeBoth, NvfreeEnd, AdjacentNext
<1>1. /\ pb \in used /\ prv \in free /\ cur \in free /\ cur = w0[prv] /\ psz = Extent(pb)
      /\ pb \in Nat /\ prv \in Nat /\ cur \in Nat /\ psz \in Nat /\ 0 < psz
      /\ prv < pb /\ pb < cur /\ pb + Extent(pb) = cur /\ freelist \in Nat
      /\ prv + Extent(prv) = pb /\ prv # freelist
      /\ w1[cur] = Extent(cur) /\ w1[prv] = Extent(prv)
      /\ Extent(prv) \in Nat /\ Extent(pb) \in Nat /\ Extent(cur) \in Nat
  BY <1>0, NvfreeFacts, Basics DEF pe, AdjacentPrev
<1> DEFINE sum == Extent(prv) + Extent(pb) + Extent(cur)
<1>2. /\ w1' = [w1 EXCEPT ![prv] = sum]
      /\ w0' = [w0 EXCEPT ![prv] = w0[cur]]
      /\ freelist' = IF cur = freelist THEN prv ELSE freelist
      /\ size' = size /\ used' = used \ {pb} /\ free' = free \ {cur}
  BY <1>1 DEF NvfreeBoth, NvfreeEnd
<1>3. /\ w1'[prv] = sum /\ \A u \in Addr : u # prv => w1'[u] = w1[u]
      /\ w0'[prv] = w0[cur] /\ \A u \in Addr : u # prv => w0'[u] = w0[u]
  BY <1>1, <1>2, Basics DEF TypeOK
<1>4. TypeOK' /\ WalkSound'
  <2>1. w1' \in [Addr -> Nat] /\ w0' \in [Addr -> Nat]
    BY <1>1, <1>2, Basics DEF TypeOK
  <2> QED BY <1>0, <1>1, <1>2, <2>1, Basics, NvfreeEndTypes
<1>5. Coalesced'
  <2>1. prv + w1'[prv] = cur + w1[cur] /\ cur + w1[cur] \notin free
    BY <1>1, <1>3 DEF Coalesced
  <2> QED BY <1>1, <1>2, <1>3, <2>1, Basics DEF Coalesced
<1>6. Tiled'
  <2>1. /\ Blocks' = (Blocks \ {cur}) \ {pb} /\ free' \cap used' = {}
        /\ prv \in Blocks /\ pb \in Blocks /\ cur \in Blocks
        /\ prv # pb /\ prv # cur /\ pb # cur
    BY <1>1, <1>2, Basics DEF Blocks
  <2>2. \A b \in Blocks' : Extent(b)' = IF b = prv THEN sum ELSE Extent(b)
    <3>1. \A b \in free' : b \in free /\ Extent(b)' = w1'[b]
      BY <1>2 DEF Extent
    <3>2. \A b \in used' : b \in used /\ b # prv /\ Extent(b)' = w0'[b]
      BY <1>1, <1>2, Basics DEF Extent
    <3>3. w1'[prv] = sum /\ prv \in free' /\ prv # cur
      BY <1>1, <1>2, <1>3
    <3>4. \A b \in free : b # prv => w1'[b] = Extent(b)
      BY <1>3, Basics
    <3>5. \A b \in used : b # prv => w0'[b] = Extent(b)
      BY <1>3, Basics
    <3> HIDE DEF sum
    <3> QED BY <3>1, <3>2, <3>3, <3>4, <3>5 DEF Blocks
  <2> DEFINE B1 == Blocks \ {cur}
             M1 == [b \in B1 |-> IF b = pb THEN Lens[pb] + Lens[cur] ELSE Lens[b]]
  <2>3. /\ Blocks \in SUBSET Nat /\ Lens \in [Blocks -> Nat] /\ size \in Nat
        /\ Tiles(Blocks, Lens, size)
        /\ \A b \in Blocks : Lens[b] = Extent(b)
    BY TiledIsTiles, Basics DEF Lens
  <2>4. /\ \A b \in B1 : M1[b] = IF b = pb THEN Lens[pb] + Lens[cur] ELSE Lens[b]
        /\ M1 \in [B1 -> Nat] /\ B1 \in SUBSET Nat
    BY <2>1, <2>3
  <2>5. pb + Lens[pb] = cur /\ prv \in B1 /\ pb \in B1 /\ prv + M1[prv] = pb
    BY <1>1, <2>1, <2>3, <2>4
  <2>6. \A b \in B1 \ {pb} : Lens'[b] = IF b = prv THEN M1[prv] + M1[pb] ELSE M1[b]
    <3>1. \A b \in Blocks' : Lens'[b] = Extent(b)'
      BY DEF Lens
    <3>2. M1[prv] = Extent(prv) /\ M1[pb] = Extent(pb) + Extent(cur)
      BY <2>1, <2>3, <2>4
    <3>3. \A b \in B1 \ {pb} : M1[b] = Extent(b)
      BY <2>3, <2>4
    <3>4. sum = M1[prv] + M1[pb]
      BY <1>1, <3>2
    <3> HIDE DEF M1, sum
    <3> QED BY <2>1, <2>2, <3>1, <3>3, <3>4
  <2> HIDE DEF M1, B1
  <2>7. Tiles(B1, M1, size)
    BY <2>1, <2>3, <2>4, <2>5, MergeTiles DEF B1
  <2>8. Tiles(Blocks', Lens', size')
    BY <1>2, <2>1, <2>3, <2>4, <2>5, <2>6, <2>7, MergeTiles DEF B1
  <2> QED BY <2>1, <2>8, TilesIsTiled
<1>7. FreeListOrdered'
  <2>0. /\ free' = free \ {cur} /\ freelist' = IF cur = freelist THEN prv ELSE freelist
        /\ \A c \in free : c \in Nat /\ w0[c] \in Nat /\ w0[c] \in free /\ c <= freelist
        /\ w0[cur] # cur
    BY <1>1, <1>2, Basics DEF FreeListOrdered
  <2>1. freelist' \in free' /\ freelist' + w1'[freelist'] = size'
    <3>1. cur + Extent(cur) = size \/ cur # freelist
      BY <1>1 DEF FreeListOrdered
    <3>2. CASE cur = freelist
      BY <1>1, <1>2, <1>3, <2>0, <3>1, <3>2
    <3>3. CASE cur # freelist
      BY <1>1, <1>2, <1>3, <2>0, <3>3, Basics DEF FreeListOrdered
    <3> QED BY <3>2, <3>3
  <2>2. \A c \in free : c <= prv \/ cur <= c
    BY <1>0, <1>1, NvfreeFacts
  <2>3. ASSUME NEW b \in free'
        PROVE  /\ b <= freelist' /\ w0'[b] \in free'
               /\ b = freelist' => \A c \in free' : w0'[b] <= c
               /\ b # freelist' => b < w0'[b] /\ \A c \in free' : c <= b \/ w0'[b] <= c
    <3>0. b \in free /\ b # cur
      BY <2>0
    <3>1. b <= freelist'
      BY <1>1, <2>0, <2>2, <3>0
    <3>2. CASE b = prv
      <4>1. w0'[b] = w0[cur] /\ w0[cur] \in free'
        BY <1>1, <1>3, <2>0, <3>2
      <4>2. CASE cur = freelist
        <5>1. \A c \in free : w0[cur] <= c
          BY <1>1, <4>2 DEF FreeListOrdered
        <5> QED BY <1>1, <2>0, <3>1, <3>2, <4>1, <4>2, <5>1
      <4>3. CASE cur # freelist
        <5>1. cur < w0[cur] /\ \A c \in free : c <= cur \/ w0[cur] <= c
          BY <1>1, <4>3 DEF FreeListOrdered
        <5> QED BY <1>1, <2>0, <2>2, <3>1, <3>2, <4>1, <4>3, <5>1
      <4> QED BY <4>2, <4>3
    <3>3. CASE b # prv
      <4>1. w0'[b] = w0[b]
        BY <1>3, <3>0, <3>3, Basics
      <4>2. w0[b] # cur
        BY <1>1, <3>0, <3>3, NextInjective
      <4>3. w0[b] \in free' /\ (b = freelist' <=> b = freelist)
        BY <2>0, <3>0, <3>3, <4>2
      <4> QED BY <1>1, <2>0, <3>0, <3>1, <4>1, <4>3 DEF FreeListOrdered
    <3> QED BY <3>2, <3>3
  <2> QED BY <2>1, <2>3 DEF FreeListOrdered
<1> QED BY <1>4, <1>5, <1>6, <1>7

-----------------------------------------------------------------------------
(* Every step of the allocator keeps the invariant. *)
LEMMA NextIInv == IInv /\ [Next]_vars => IInv'
<1> SUFFICES ASSUME IInv, [Next]_vars PROVE IInv'
  OBVIOUS
<1>1. CASE Nvalloc
  BY <1>1, WalkIInv, ResizeIInv, FailIInv, WholeIInv, SplitIInv DEF Nvalloc
<1>2. CASE Nvfree
  BY <1>2, WalkIInv, NvfreePrevIInv, NvfreeBothIInv, NvfreeNextIInv, NvfreeLinkIInv DEF Nvfree
<1>3. ASSUME NEW d \in Data, Fill(d) PROVE IInv'
  BY <1>3, FillIInv
<1>4. CASE UNCHANGED vars
  <2>1. FreeListOrdered' /\ Tiled' /\ Coalesced'
    BY <1>4, SameShape DEF vars
  <2>2. TypeOK' /\ WalkSound'
    BY <1>4 DEF vars, IInv, TypeOK, WalkSound
  <2> QED BY <2>1, <2>2 DEF IInv
<1> QED BY <1>1, <1>2, <1>3, <1>4 DEF Next

THEOREM Invariant == Spec => []IInv
<1> QED BY InitIInv, NextIInv, PTL DEF Spec

(* Type correctness: in particular the file never outgrows the limit and no
   pointer of a walk leaves the file. *)
THEOREM TypeCorrect == Spec => []TypeOK
<1>1. IInv => TypeOK
  BY DEF IInv
<1> QED BY <1>1, Invariant, PTL

(* No two blocks overlap and none is lost, for every sequence of nvalloc and
   nvfree. *)
THEOREM NoOverlapNoLoss == Spec => []Tiled
<1>1. IInv => Tiled
  BY DEF IInv
<1> QED BY <1>1, Invariant, PTL

(* The circular list stays in ascending order, its head the last block. *)
THEOREM ListOrdered == Spec => []FreeListOrdered
<1>1. IInv => FreeListOrdered
  BY DEF IInv
<1> QED BY <1>1, Invariant, PTL

(* nvfree leaves no two free blocks that touch. *)
THEOREM NoFragments == Spec => []Coalesced
<1>1. IInv => Coalesced
  BY DEF IInv
<1> QED BY <1>1, Invariant, PTL

-----------------------------------------------------------------------------
(* The counter of free memory.  Each store that changes the list changes the
   weight of one free block, takes one away, adds one or puts one in the place
   of another, and adjusts the counter by the difference. *)
LEMMA FreeWeights ==
  ASSUME IInv
  PROVE  IsFiniteSet(free) /\ IntWeights(w1, free) /\ SumOf(w1, free) \in Int
<1>1. IsFiniteSet(Addr) /\ 0 \in Int /\ MaxSize - 1 \in Int
  BY FS_Interval, MaxSizeAssumption DEF Addr
<1>2. IsFiniteSet(free) /\ IntWeights(w1, free)
  BY <1>1, Basics, FS_Subset DEF IntWeights
<1> QED BY <1>2, SumInt

LEMMA CountIsSum == BytesFreeExact <=> bytes_free = SumOf(w1, free)
BY DEF BytesFreeExact, SumOf

LEMMA CountIsSumNext == BytesFreeExact' <=> bytes_free' = SumOf(w1', free')
BY DEF BytesFreeExact, SumOf, MapThenSumSet, MapThenFoldSet

LEMMA InitBytesFree == Init => BytesFreeExact
<1> SUFFICES ASSUME Init PROVE BytesFreeExact
  OBVIOUS
<1>1. free = {Hdr} /\ w1[Hdr] = Page - Hdr /\ bytes_free = Page - Hdr
  BY HdrAssumption, PageAssumption, MaxSizeAssumption DEF Init, Addr
<1>2. IsFiniteSet(free) /\ IntWeights(w1, free)
  BY InitIInv, FreeWeights
<1>3. SumOf(w1, {Hdr}) = w1[Hdr] + SumOf(w1, {Hdr} \ {Hdr})
  BY <1>1, <1>2, SumWithout
<1>4. {Hdr} \ {Hdr} = {} /\ SumOf(w1, {}) = 0
  BY SumEmpty
<1>5. Page - Hdr \in Int
  BY HdrAssumption, PageAssumption
<1>6. SumOf(w1, free) = bytes_free
  BY <1>1, <1>3, <1>4, <1>5
<1> QED BY <1>6, CountIsSum

(* A step that leaves the counter, the free blocks and their lengths alone. *)
LEMMA SameBytesFree ==
  ASSUME IInv, BytesFreeExact, UNCHANGED <<bytes_free, free>>,
         \A b \in free : w1'[b] = w1[b]
  PROVE  BytesFreeExact'
<1>1. SumOf(w1', free) = SumOf(w1, free)
  BY FreeWeights, SumSame
<1> QED BY <1>1, CountIsSum, CountIsSumNext

(* resize: the last block grows. *)
LEMMA ResizeBytesFree ==
  ASSUME IInv, BytesFreeExact, NvallocResize
  PROVE  BytesFreeExact'
<1>1. /\ freelist \in free /\ free' = free
      /\ bytes_free' = bytes_free + (NewSize - size)
      /\ w1' = [w1 EXCEPT ![freelist] = @ + (NewSize - size)]
  BY Basics DEF NvallocResize
<1>2. /\ w1'[freelist] = w1[freelist] + (NewSize - size)
      /\ \A b \in free \ {freelist} : w1'[b] = w1[b]
  BY <1>1, Basics DEF IInv, TypeOK
<1>3. IsFiniteSet(free) /\ IntWeights(w1, free) /\ SumOf(w1, free) \in Int
  BY FreeWeights
<1>4. IntWeights(w1', free') /\ w1'[freelist] \in Int /\ w1[freelist] \in Int
  <2>1. IInv'
    BY ResizeIInv
  <2>2. \A b \in free : w1'[b] \in Int /\ w1[b] \in Int
    BY <1>1, <2>1, Basics DEF IInv, TypeOK
  <2> QED BY <1>1, <2>2 DEF IntWeights
<1>5. SumOf(w1', free') = SumOf(w1, free) - w1[freelist] + w1'[freelist]
  <2>1. free' = free /\ freelist \in free /\ \A b \in free \ {freelist} : w1'[b] = w1[b]
    BY <1>1, <1>2
  <2> QED BY <1>3, <1>4, <2>1, SumReplaced
<1>6. NewSize - size \in Int
  <2>1. NewSize \in Int
    BY ResizeIInv DEF NvallocResize, IInv, TypeOK
  <2> QED BY <2>1, Basics
<1>7. SumOf(w1', free') = SumOf(w1, free) + (NewSize - size)
  BY <1>2, <1>3, <1>4, <1>5, <1>6
<1> QED BY <1>1, <1>7, CountIsSum, CountIsSumNext

(* A block is handed out as a whole. *)
LEMMA WholeBytesFree ==
  ASSUME IInv, BytesFreeExact, NvallocWhole
  PROVE  BytesFreeExact'
<1>1. /\ cur \in free /\ free' = free \ {cur} /\ w1' = w1
      /\ bytes_free' = bytes_free - w1[cur] /\ w1[cur] \in Int
  BY Basics DEF NvallocWhole, IInv, WalkSound, FreeListOrdered
<1>2. SumOf(w1, free) = w1[cur] + SumOf(w1, free \ {cur})
  BY <1>1, FreeWeights, SumWithout
<1>3. SumOf(w1, free \ {cur}) \in Int
  BY FreeWeights, FS_Subset, SumInt DEF IntWeights
<1>4. bytes_free' = SumOf(w1', free')
  BY <1>1, <1>2, <1>3, CountIsSum
<1> QED BY <1>4, CountIsSumNext

(* The rest of a block takes its place. *)
LEMMA SplitBytesFree ==
  ASSUME IInv, BytesFreeExact, NvallocSplit
  PROVE  BytesFreeExact'
<1> DEFINE rest == cur + rsz
<1>1. /\ cur \in free /\ rsz \in Nat /\ 0 < rsz /\ rsz < w1[cur]
      /\ free' = (free \ {cur}) \cup {rest}
      /\ w1' = [w1 EXCEPT ![rest] = w1[cur] - rsz]
      /\ bytes_free' = bytes_free - rsz
  BY Basics DEF NvallocSplit, IInv, WalkSound, FreeListOrdered, TypeOK, FreeList
<1>2. /\ cur \in Nat /\ w1[cur] \in Nat /\ cur \in Blocks /\ Extent(cur) = w1[cur]
      /\ cur + w1[cur] <= size /\ size \in Nat /\ size <= MaxSize
  BY <1>1, Basics DEF IInv, Tiled
<1>3. rest \in Addr /\ rest # cur
  BY <1>1, <1>2, MaxSizeAssumption DEF Addr
<1>4. rest \notin free
  <2>1. \A b \in Blocks : b <= cur \/ cur + w1[cur] <= b
    BY <1>2, Basics DEF IInv, Tiled
  <2> QED BY <1>1, <1>2, <2>1, Basics
<1> HIDE DEF rest
<1>5. w1'[rest] = w1[cur] - rsz /\ \A b \in free : w1'[b] = w1[b]
  BY <1>1, <1>3, <1>4, Basics DEF IInv, TypeOK
<1>6. IsFiniteSet(free) /\ IntWeights(w1, free) /\ SumOf(w1, free) \in Int
  BY FreeWeights
<1>7. IsFiniteSet(free') /\ IntWeights(w1', free')
  <2>1. IsFiniteSet(free')
    BY <1>1, <1>6, FS_Subset, FS_AddElement
  <2>2. \A b \in free' : w1'[b] \in Int
    BY <1>1, <1>2, <1>5, Basics
  <2> QED BY <2>1, <2>2 DEF IntWeights
<1>8. cur \in free /\ rest \in free' /\ free \ {cur} = free' \ {rest}
  BY <1>1, <1>4
<1>9. SumOf(w1', free') = SumOf(w1, free) - w1[cur] + w1'[rest]
  BY <1>5, <1>6, <1>7, <1>8, SumReplaced
<1>10. SumOf(w1', free') = SumOf(w1, free) - rsz
  BY <1>1, <1>2, <1>5, <1>6, <1>9
<1> QED BY <1>1, <1>10, CountIsSum, CountIsSumNext

(* nvfree: pb goes to the free blocks, alone or with a neighbour. *)
LEMMA FreeBytesFree ==
  ASSUME IInv, BytesFreeExact,
         NvfreePrev \/ NvfreeBoth \/ NvfreeNext \/ NvfreeLink
  PROVE  BytesFreeExact'
<1>0. NvfreeEnd /\ pc = "nvfree" /\ ~NvfreeWalking
  BY DEF NvfreePrev, NvfreeBoth, NvfreeNext, NvfreeLink, NvfreeEnd
<1>1. /\ pb \in used /\ prv \in free /\ cur \in free /\ pb \notin free
      /\ pb \in Addr /\ prv \in Addr /\ psz \in Nat
      /\ w1[prv] \in Nat /\ w1[cur] \in Nat
  BY <1>0, NvfreeFacts, Basics
<1>2. bytes_free' = bytes_free + psz
  BY <1>0 DEF NvfreeEnd
<1>3. IsFiniteSet(free) /\ IntWeights(w1, free) /\ SumOf(w1, free) \in Int
  BY FreeWeights
<1>4. IsFiniteSet(free') /\ IntWeights(w1', free')
  <2>1. IInv'
    BY NvfreePrevIInv, NvfreeBothIInv, NvfreeNextIInv, NvfreeLinkIInv
  <2>2. \A b \in free' : w1'[b] \in Int
    BY <2>1 DEF IInv, TypeOK
  <2>3. free' \subseteq free \cup {pb} /\ IsFiniteSet(free \cup {pb})
    BY <1>3, FS_AddElement DEF NvfreePrev, NvfreeBoth, NvfreeNext, NvfreeLink
  <2> QED BY <2>2, <2>3, FS_Subset DEF IntWeights
<1>5. SumOf(w1', free') = SumOf(w1, free) + psz
  <2>1. CASE NvfreePrev
    <3>1. /\ free' = free /\ w1'[prv] = w1[prv] + psz
          /\ \A b \in free \ {prv} : w1'[b] = w1[b]
      BY <1>1, <2>1, Basics DEF NvfreePrev, IInv, TypeOK
    <3>2. SumOf(w1', free') = SumOf(w1, free) - w1[prv] + w1'[prv]
      BY <1>1, <1>3, <1>4, <3>1, SumReplaced
    <3> QED BY <1>1, <1>3, <3>1, <3>2
  <2>2. CASE NvfreeNext
    <3>1. /\ free' = (free \ {cur}) \cup {pb} /\ w1'[pb] = psz + w1[cur]
          /\ \A b \in free \ {cur} : w1'[b] = w1[b]
      BY <1>1, <2>2, Basics DEF NvfreeNext, IInv, TypeOK
    <3>2. /\ cur \in free /\ pb \in free' /\ free \ {cur} = free' \ {pb}
          /\ \A b \in free \ {cur} : w1'[b] = w1[b]
      BY <1>1, <3>1
    <3>3. SumOf(w1', free') = SumOf(w1, free) - w1[cur] + w1'[pb]
      BY <1>3, <1>4, <3>2, SumReplaced
    <3> QED BY <1>1, <1>3, <3>1, <3>3
  <2>3. CASE NvfreeLink
    <3>1. /\ free' = free \cup {pb} /\ w1'[pb] = psz
          /\ \A b \in free : w1'[b] = w1[b]
      BY <1>1, <2>3, Basics DEF NvfreeLink, IInv, TypeOK
    <3>2. pb \in free' /\ free' \ {pb} = free
      BY <1>1, <3>1
    <3>3. SumOf(w1', free') = w1'[pb] + SumOf(w1', free' \ {pb})
      BY <1>4, <3>2, SumWithout
    <3>4. SumOf(w1', free) = SumOf(w1, free)
      BY <1>3, <3>1, SumSame
    <3> QED BY <1>1, <1>3, <3>1, <3>2, <3>3, <3>4
  <2>4. CASE NvfreeBoth
    <3>1. prv # cur
      BY <1>0, <2>4, NvfreeFacts, Basics DEF NvfreeBoth, AdjacentPrev
    <3>2. /\ free' = free \ {cur} /\ w1'[prv] = w1[prv] + psz + w1[cur]
          /\ \A b \in free' \ {prv} : w1'[b] = w1[b]
      BY <1>1, <2>4, Basics DEF NvfreeBoth, IInv, TypeOK
    <3>3. /\ prv \in free' /\ IntWeights(w1, free')
          /\ SumOf(w1, free) = w1[cur] + SumOf(w1, free')
      BY <1>1, <1>3, <3>1, <3>2, SumWithout DEF IntWeights
    <3>4. SumOf(w1, free') \in Int
      BY <1>4, <3>3, SumInt
    <3>5. SumOf(w1', free') = SumOf(w1, free') - w1[prv] + w1'[prv]
      BY <1>4, <3>2, <3>3, SumReplaced
    <3> QED BY <1>1, <3>2, <3>3, <3>4, <3>5
  <2> QED BY <2>1, <2>2, <2>3, <2>4
<1> QED BY <1>2, <1>5, CountIsSum, CountIsSumNext

LEMMA NextBytesFree == IInv /\ BytesFreeExact /\ [Next]_vars => BytesFreeExact'
<1> SUFFICES ASSUME IInv, BytesFreeExact, [Next]_vars PROVE BytesFreeExact'
  OBVIOUS
<1>1. ASSUME UNCHANGED heap PROVE BytesFreeExact'
  BY <1>1, SameBytesFree DEF heap
<1>2. CASE Nvalloc
  <2>1. UNCHANGED heap \/ NvallocResize \/ NvallocWhole \/ NvallocSplit
    BY <1>2 DEF Nvalloc, NvallocBegin, NvallocStep, NvallocFail
  <2> QED BY <1>1, <2>1, ResizeBytesFree, WholeBytesFree, SplitBytesFree
<1>3. CASE Nvfree
  <2>1. UNCHANGED heap \/ NvfreePrev \/ NvfreeBoth \/ NvfreeNext \/ NvfreeLink
    BY <1>3 DEF Nvfree, NvfreeBegin, NvfreeStep
  <2> QED BY <1>1, <2>1, FreeBytesFree
<1>4. ASSUME NEW d \in Data, Fill(d) PROVE BytesFreeExact'
  <2>1. pb \in used /\ \A b \in free : ~(pb < b /\ b < pb + w0[pb]) /\ b # pb
    <3>1. pb \in used
      BY <1>4 DEF Fill, IInv, WalkSound
    <3> QED BY <3>1, Basics DEF IInv, Tiled
  <2>2. \A b \in free : w1'[b] = w1[b]
    BY <1>4, <2>1, Basics DEF Fill
  <2>3. UNCHANGED <<bytes_free, free>>
    BY <1>4 DEF Fill
  <2> QED BY <2>2, <2>3, SameBytesFree
<1>5. CASE UNCHANGED vars
  BY <1>1, <1>5 DEF vars, heap
<1> QED BY <1>2, <1>3, <1>4, <1>5 DEF Next

(* mem_hdr->bytes_free, which is only ever adjusted, is at every moment the
   sum of the lengths of the free blocks: no sequence of nvalloc, nvfree and
   growth of the file makes it drift. *)
THEOREM CounterIsExact == Spec => []BytesFreeExact
<1>1. Init => IInv /\ BytesFreeExact
  BY InitIInv, InitBytesFree
<1>2. IInv /\ BytesFreeExact /\ [Next]_vars => IInv' /\ BytesFreeExact'
  BY NextIInv, NextBytesFree
<1> QED BY <1>1, <1>2, PTL DEF Spec

(* No ASSERT of nvalloc and nvfree can fail, so that a build without
   ENABLE_ASSERTIONS loses nothing. *)
THEOREM AssertsNeverFail == Spec => []AssertionsHold
<1>1. IInv => AssertionsHold
  <2> SUFFICES ASSUME IInv PROVE AssertionsHold
    OBVIOUS
  <2> USE DEF IInv
  <2>1. ASSUME pc = "nvalloc", ~NvallocWalking, TailTooSmall
        PROVE  w1[cur] + (NewSize - size) >= rsz + FreeList
    <3> DEFINE need == rsz + FreeList - w1[cur]
    <3>1. /\ cur \in free /\ w1[cur] \in Nat /\ rsz \in Nat /\ size \in Nat
          /\ w1[cur] < rsz + FreeList
      BY <2>1, Basics DEF TailTooSmall, TypeOK
    <3>2. size + need \in Nat /\ need \in Nat
      BY <3>1 DEF FreeList
    <3>3. NewSize \in Nat /\ NewSize > size + need
      BY <3>2, PageUpGrows DEF NewSize
    <3> QED BY <3>1, <3>2, <3>3 DEF FreeList
  <2>2. ASSUME pc = "nvalloc", ~NvallocWalking, ~TailTooSmall
        PROVE  /\ w1[cur] >= rsz
               /\ w1[cur] < rsz + FreeList => cur # freelist
               /\ prv = cur => cur = freelist
    <3>1. /\ prv \in free /\ cur = w0[prv] /\ cur \in free
          /\ prv \in Nat /\ cur \in Nat /\ w1[cur] \in Nat /\ rsz \in Nat
      BY <2>2, Basics DEF WalkSound, FreeListOrdered, TypeOK
    <3>2. prv = cur => cur = freelist
      BY <3>1 DEF FreeListOrdered
    <3> QED BY <2>2, <3>1, <3>2 DEF NvallocWalking, TailTooSmall, FreeList
  <2>3. ASSUME pc = "nvfree"
        PROVE  /\ Hdr <= pb /\ pe <= size
               /\ prv # freelist => prv < cur
               /\ ~NvfreeWalking => pb < cur
               /\ w0[cur] = cur => cur = freelist
    <3>1. pb \in used /\ prv \in free /\ cur = w0[prv] /\ cur \in free
      BY <2>3 DEF WalkSound, FreeListOrdered
    <3>2. Hdr <= pb /\ pe <= size
      BY <3>1, Basics DEF Tiled, pe, psz
    <3>3. (prv # freelist => prv < cur) /\ (w0[cur] = cur => cur = freelist)
      BY <3>1, Basics DEF FreeListOrdered
    <3>4. ~NvfreeWalking => pb < cur
      BY <2>3, NvfreeFacts
    <3> QED BY <3>2, <3>3, <3>4
  <2> QED BY <2>1, <2>2, <2>3 DEF AssertionsHold
<1> QED BY <1>1, Invariant, PTL

(* nvalloc is first fit. *)
THEOREM AllocIsFirstFit == Spec => FirstFit
<1> DEFINE A == /\ pc = "nvalloc" /\ pc' = "fill" => \A b \in free : b < pb' => w1[b] < rsz
                /\ size' # size => \A b \in free \ {freelist} : w1[b] < rsz
<1>1. IInv /\ [Next]_vars => [A]_vars
  <2> SUFFICES ASSUME IInv, Next PROVE A
    OBVIOUS
  <2> USE DEF IInv
  <2>1. ASSUME pc = "nvalloc", pc' = "fill" PROVE \A b \in free : b < pb' => w1[b] < rsz
    <3>1. pb' = cur
      BY <2>1 DEF Next, Nvalloc, Nvfree, NvallocBegin, NvallocStep, NvallocResize,
         NvallocFail, NvallocWhole, NvallocSplit, NvfreeBegin, NvfreeStep, NvfreePrev,
         NvfreeBoth, NvfreeNext, NvfreeLink, NvfreeEnd, Fill, Found, Return
    <3> QED BY <2>1, <3>1 DEF WalkSound
  <2>2. ASSUME size' # size PROVE \A b \in free \ {freelist} : w1[b] < rsz
    <3>1. NvallocResize
      BY <2>2 DEF Next, Nvalloc, Nvfree, NvallocBegin, NvallocStep, NvallocFail,
         NvallocWhole, NvallocSplit, NvfreeBegin, NvfreeStep, NvfreePrev,
         NvfreeBoth, NvfreeNext, NvfreeLink, NvfreeEnd, Fill, heap
    <3>2. cur = freelist /\ pc = "nvalloc"
      BY <3>1 DEF NvallocResize, TailTooSmall
    <3>3. \A b \in free \ {freelist} : b < freelist
      BY Basics DEF FreeListOrdered
    <3> QED BY <3>2, <3>3 DEF WalkSound
  <2> QED BY <2>1, <2>2
<1>2. Spec => [][A]_vars
  BY <1>1, Invariant, PTL DEF Spec
<1> QED BY <1>2 DEF FirstFit

-----------------------------------------------------------------------------
(* Stores that stay inside other blocks leave a block in use alone. *)
LEMMA KeptOutside ==
  ASSUME IInv, NEW T,
         \A u \in Addr : u \notin T => w0'[u] = w0[u] /\ w1'[u] = w1[u],
         \A t \in T : \E c \in Blocks : t \in Nat /\ c <= t /\ t < c + Extent(c) /\ c \notin used \cap used'
  PROVE  \A b \in used \cap used', u \in Addr :
           b <= u /\ u < b + w0[b] => w0'[u] = w0[u] /\ w1'[u] = w1[u]
<1> SUFFICES ASSUME NEW b \in used \cap used', NEW u \in Addr, b <= u, u < b + w0[b], u \in T
             PROVE  FALSE
  OBVIOUS
<1>1. PICK c \in Blocks : c <= u /\ u < c + Extent(c) /\ c # b
  OBVIOUS
<1>2. b \in Blocks /\ Extent(b) = w0[b] /\ b \in Nat /\ u \in Nat /\ c \in Nat /\ Extent(b) \in Nat /\ Extent(c) \in Nat
  BY Basics
<1>3. b + Extent(b) <= c \/ c + Extent(c) <= b
  BY <1>1, <1>2 DEF IInv, Tiled
<1> QED BY <1>1, <1>2, <1>3

(* Every step but the filling of a fresh block. *)
LEMMA StoresKept ==
  ASSUME IInv, Next, ~\E d \in Data : Fill(d)
  PROVE  \A b \in used \cap used', u \in Addr :
           b <= u /\ u < b + w0[b] => w0'[u] = w0[u] /\ w1'[u] = w1[u]
<1> DEFINE Kept == \A b \in used \cap used', u \in Addr :
                     b <= u /\ u < b + w0[b] => w0'[u] = w0[u] /\ w1'[u] = w1[u]
           In(t) == \E c \in Blocks : t \in Nat /\ c <= t /\ t < c + Extent(c) /\ c \notin used \cap used'
<1>0. /\ w0 \in [Addr -> Nat] /\ w1 \in [Addr -> Nat]
      /\ \A b \in free : In(b)
      /\ \A b \in used \ used' : In(b)
  <2>1. \A b \in Blocks : b <= b /\ b < b + Extent(b) /\ b \in Nat
    BY Basics
  <2> QED BY <2>1, Basics DEF IInv, TypeOK
<1>1. CASE UNCHANGED <<w0, w1>>
  BY <1>1
<1>2. CASE NvallocResize
  <2> DEFINE T == {freelist}
  <2>1. \A u \in Addr : u \notin T => w0'[u] = w0[u] /\ w1'[u] = w1[u]
    BY <1>0, <1>2 DEF NvallocResize
  <2>2. \A t \in T : In(t)
    BY <1>0, Basics
  <2> HIDE DEF T
  <2> QED BY <2>1, <2>2, KeptOutside
<1>3. CASE NvallocWhole
  <2> DEFINE T == {prv, cur}
  <2>1. \A u \in Addr : u \notin T => w0'[u] = w0[u] /\ w1'[u] = w1[u]
    BY <1>0, <1>3 DEF NvallocWhole
  <2>2. \A t \in T : In(t)
    BY <1>0, <1>3 DEF NvallocWhole, IInv, WalkSound, FreeListOrdered
  <2> HIDE DEF T
  <2> QED BY <2>1, <2>2, KeptOutside
<1>4. CASE NvallocSplit
  <2> DEFINE T == {prv, cur, cur + rsz}
  <2>0. /\ prv \in free /\ cur \in free /\ rsz \in Nat /\ w1[cur] >= rsz + FreeList
        /\ cur \in Nat /\ w1[cur] \in Nat /\ Extent(cur) = w1[cur]
    BY <1>4, Basics DEF NvallocSplit, IInv, TypeOK, WalkSound, FreeListOrdered
  <2>1. \A u \in Addr : u \notin T => w0'[u] = w0[u] /\ w1'[u] = w1[u]
    BY <1>0, <1>4 DEF NvallocSplit
  <2>2. In(cur + rsz)
    <3>1. cur \in Blocks /\ cur \notin used
      BY <2>0, Basics
    <3>2. cur + rsz \in Nat /\ cur <= cur + rsz /\ cur + rsz < cur + Extent(cur)
      BY <2>0 DEF FreeList
    <3> QED BY <3>1, <3>2
  <2>3. \A t \in T : In(t)
    BY <1>0, <2>0, <2>2
  <2> HIDE DEF T
  <2> QED BY <2>1, <2>3, KeptOutside
<1>5. CASE NvfreePrev \/ NvfreeBoth \/ NvfreeNext \/ NvfreeLink
  <2> DEFINE T == {prv, pb}
  <2>0. prv \in free /\ pb \in used \ used'
    BY <1>5, NvfreeFacts DEF NvfreePrev, NvfreeBoth, NvfreeNext, NvfreeLink, NvfreeEnd
  <2>1. \A u \in Addr : u \notin T => w0'[u] = w0[u] /\ w1'[u] = w1[u]
    BY <1>0, <1>5 DEF NvfreePrev, NvfreeBoth, NvfreeNext, NvfreeLink
  <2>2. \A t \in T : In(t)
    BY <1>0, <2>0
  <2> HIDE DEF T
  <2> QED BY <2>1, <2>2, KeptOutside
<1>6. NvallocResize \/ NvallocWhole \/ NvallocSplit
        \/ NvfreePrev \/ NvfreeBoth \/ NvfreeNext \/ NvfreeLink \/ UNCHANGED <<w0, w1>>
  BY DEF Next, Nvalloc, Nvfree, NvallocBegin, NvallocStep, NvallocFail, NvfreeBegin,
         NvfreeStep, heap
<1> QED BY <1>1, <1>2, <1>3, <1>4, <1>5, <1>6

(* What a user stored in a block stays there until the user frees it. *)
THEOREM UserWordsStay == Spec => UserWordsKept
<1> DEFINE A == \A b \in used \cap used' :
                  /\ w0'[b] = w0[b]
                  /\ ~(pc = "fill" /\ b = pb) =>
                       /\ w1'[b] = w1[b]
                       /\ \A u \in Addr : b < u /\ u < b + w0[b] =>
                            w0'[u] = w0[u] /\ w1'[u] = w1[u]
<1>1. IInv /\ [Next]_vars => [A]_vars
  <2> SUFFICES ASSUME IInv, Next PROVE A
    OBVIOUS
  <2>1. CASE ~\E d \in Data : Fill(d)
    <3>1. \A b \in used \cap used', u \in Addr :
            b <= u /\ u < b + w0[b] => w0'[u] = w0[u] /\ w1'[u] = w1[u]
      BY <2>1, StoresKept
    <3>2. \A b \in used : b \in Addr /\ b \in Nat /\ w0[b] \in Nat /\ b <= b /\ b < b + w0[b]
      BY Basics
    <3>3. \A b \in used, u \in Addr : b < u => b <= u
      BY Basics
    <3> QED BY <3>1, <3>2, <3>3
  <2>2. ASSUME NEW d \in Data, Fill(d) PROVE A
    <3> DEFINE Inside(u) == pb < u /\ u < pb + w0[pb]
    <3>1. /\ pb \in used /\ pc = "fill" /\ used' = used
          /\ \A u \in Addr : ~Inside(u) => w0'[u] = w0[u] /\ (u # pb => w1'[u] = w1[u])
      BY <2>2 DEF Fill, IInv, WalkSound
    <3>2. \A b \in Blocks : ~Inside(b)
      BY <3>1, Basics DEF IInv, Tiled
    <3>3. \A b \in used : b # pb => b + w0[b] <= pb \/ pb + w0[pb] <= b
      BY <3>1, Basics DEF IInv, Tiled
    <3>4. \A b \in used, u \in Addr : b # pb /\ b < u /\ u < b + w0[b] => ~Inside(u) /\ u # pb
      BY <3>1, <3>3, Basics
    <3>5. \A b \in used : b \in Addr /\ ~Inside(b)
      BY <3>2, Basics
    <3> QED BY <3>1, <3>4, <3>5
  <2> QED BY <2>1, <2>2
<1>2. Spec => [][A]_vars
  BY <1>1, Invariant, PTL DEF Spec
<1> QED BY <1>2 DEF UserWordsKept

-----------------------------------------------------------------------------
(* The size nvalloc looks for is that of a request. *)
Requested == pc = "nvalloc" => rsz \in Lengths

LEMMA NextRequested == Requested /\ [Next]_vars => Requested'
<1> SUFFICES ASSUME Requested, [Next]_vars PROVE Requested'
  OBVIOUS
<1> USE DEF Requested
<1>1. ASSUME NEW bytes \in Requests, NvallocBegin(bytes) PROVE Requested'
  BY <1>1 DEF NvallocBegin, Lengths
<1>2. CASE NvallocStep \/ NvallocResize \/ UNCHANGED vars
  BY <1>2 DEF NvallocStep, NvallocResize, vars
<1>3. CASE Nvfree \/ NvallocFail \/ NvallocWhole \/ NvallocSplit \/ \E d \in Data : Fill(d)
  BY <1>3 DEF Nvfree, NvallocFail, NvallocWhole, NvallocSplit, Fill, Found, Return,
     NvfreeBegin, NvfreeStep, NvfreePrev, NvfreeBoth, NvfreeNext, NvfreeLink, NvfreeEnd
<1> QED BY <1>1, <1>2, <1>3 DEF Next, Nvalloc

(* nvalloc, when it finds a block, is BlockStore's Alloc. *)
LEMMA AllocSimulates ==
  ASSUME IInv, Requested, NvallocWhole \/ NvallocSplit
  PROVE  BS!Next
<1> USE DEF IInv
<1>1. /\ pc = "nvalloc" /\ cur \in free /\ used' = used \cup {cur} /\ rsz \in Lengths
      /\ cur \in Addr /\ w0 \in [Addr -> Nat]
  BY DEF NvallocWhole, NvallocSplit, WalkSound, FreeListOrdered, Requested, TypeOK
<1>2. w0'[cur] = rsz /\ rsz \in Nat /\ 0 < rsz /\ rsz <= w1[cur]
  <2>1. CASE NvallocWhole
    <3>1. w1[cur] = rsz
      BY <1>1, <2>1, Basics DEF NvallocWhole, NvallocWalking, TailTooSmall, FreeList, TypeOK
    <3> QED BY <1>1, <2>1, <3>1, Basics DEF NvallocWhole, WalkSound, TypeOK
  <2>2. CASE NvallocSplit
    BY <1>1, <2>2, Basics DEF NvallocSplit, FreeList, WalkSound, TypeOK
  <2> QED BY <2>1, <2>2
<1> DEFINE blk == [at |-> cur, len |-> rsz]
<1>3. /\ cur \in Blocks /\ Extent(cur) = w1[cur] /\ cur \in Nat /\ w1[cur] \in Nat
      /\ cur + w1[cur] <= size /\ size \in Nat /\ size <= MaxSize /\ Hdr <= cur
      /\ MaxSize \in Nat /\ Hdr \in Nat
  BY <1>1, Basics, MaxSizeAssumption, HdrAssumption DEF Tiled
<1>4. blk \in BS!Block /\ cur + rsz <= MaxSize
  BY <1>2, <1>3 DEF BS!Block
<1>5. \A b \in used : b + w0[b] <= cur \/ cur + rsz <= b
  <2>1. \A b \in used : b + Extent(b) <= cur \/ cur + Extent(cur) <= b
    <3>1. \A b \in used : b \in Blocks /\ b # cur /\ b \in Nat
      BY <1>1, Basics
    <3>2. \A b, c \in Blocks : b < c => b + Extent(b) <= c
      BY DEF Tiled
    <3> QED BY <1>3, <3>1, <3>2
  <2> QED BY <1>2, <1>3, <2>1, Basics
<1>6. \A c \in InUse : BS!Disjoint(blk, c)
  BY <1>5 DEF InUse, BS!Disjoint
<1>7. \A b \in used : w0'[b] = w0[b]
  <2>1. ~\E d \in Data : Fill(d)
    BY <1>1 DEF Fill
  <2>2. Next
    BY DEF Next, Nvalloc
  <2>3. \A b \in used : b \in used \cap used' /\ b \in Addr /\ b <= b /\ b < b + w0[b]
    BY <1>1, Basics
  <2> QED BY <2>1, <2>2, <2>3, StoresKept
<1>8. InUse' = InUse \cup {blk}
  BY <1>1, <1>2, <1>7 DEF InUse
<1>9. BS!Alloc(rsz)
  BY <1>4, <1>6, <1>8 DEF BS!Alloc
<1> QED BY <1>1, <1>9 DEF BS!Next

(* nvfree, when its walk is over, is BlockStore's Free. *)
LEMMA FreeSimulates ==
  ASSUME IInv, NvfreePrev \/ NvfreeBoth \/ NvfreeNext \/ NvfreeLink
  PROVE  BS!Next
<1> DEFINE blk == [at |-> pb, len |-> w0[pb]]
<1>1. pb \in used /\ used' = used \ {pb} /\ pc = "nvfree"
  BY NvfreeFacts DEF NvfreePrev, NvfreeBoth, NvfreeNext, NvfreeLink, NvfreeEnd
<1>2. \A b \in used' : w0'[b] = w0[b]
  <2>1. ~\E d \in Data : Fill(d)
    BY <1>1 DEF Fill
  <2>2. Next
    BY DEF Next, Nvfree
  <2>3. \A b \in used' : b \in used \cap used' /\ b \in Addr /\ b <= b /\ b < b + w0[b]
    BY <1>1, Basics
  <2> QED BY <2>1, <2>2, <2>3, StoresKept
<1>3. InUse' = InUse \ {blk} /\ blk \in InUse
  BY <1>1, <1>2 DEF InUse
<1> QED BY <1>3 DEF BS!Next, BS!Free

(* The allocator implements BlockStore: nvalloc never hands out memory that is
   in use, and nvfree takes back exactly the block it is given. *)
THEOREM Refinement == Spec => ImplementsBlockStore
<1>1. Init => BS!Init /\ Requested
  BY DEF Init, BS!Init, InUse, Requested
<1>2. IInv /\ Requested /\ [Next]_vars => [BS!Next]_InUse
  <2> SUFFICES ASSUME IInv, Requested, [Next]_vars PROVE BS!Next \/ InUse' = InUse
    OBVIOUS
  <2>1. CASE NvallocWhole \/ NvallocSplit
    BY <2>1, AllocSimulates
  <2>2. CASE NvfreePrev \/ NvfreeBoth \/ NvfreeNext \/ NvfreeLink
    BY <2>2, FreeSimulates
  <2>3. ASSUME NEW d \in Data, Fill(d) PROVE InUse' = InUse
    <3>1. pb \in used /\ used' = used
      BY <2>3 DEF Fill, IInv, WalkSound
    <3>2. \A b \in used : ~(pb < b /\ b < pb + w0[pb]) /\ b \in Addr
      BY <3>1, Basics DEF IInv, Tiled
    <3>3. \A b \in used : w0'[b] = w0[b]
      BY <2>3, <3>2 DEF Fill
    <3> QED BY <3>1, <3>3 DEF InUse
  <2>4. CASE UNCHANGED vars
    BY <2>4 DEF vars, InUse
  <2>5. CASE \/ \E bytes \in Requests : NvallocBegin(bytes)
             \/ \E b \in used : NvfreeBegin(b)
             \/ NvallocStep \/ NvfreeStep \/ NvallocResize \/ NvallocFail
    BY <2>5 DEF NvallocBegin, NvallocStep, NvallocResize, NvallocFail, NvfreeBegin,
       NvfreeStep, heap, InUse
  <2> QED BY <2>1, <2>2, <2>3, <2>4, <2>5 DEF Next, Nvalloc, Nvfree
<1> QED BY <1>1, <1>2, NextRequested, Invariant, PTL DEF Spec, ImplementsBlockStore, BS!Spec
=============================================================================
