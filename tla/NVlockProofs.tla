---------------------------- MODULE NVlockProofs ----------------------------
(***************************************************************************)
(* Proofs about the lock stack and the mapping of an NVcontainer, for any  *)
(* set of processes, any depth of the lock stack and any file-size limit.  *)
(***************************************************************************)
EXTENDS NVlock, SequenceTheorems, TLAPS

(* What a stack looks like after lock() pushes or pops a frame. *)
LEMMA Push ==
  ASSUME NEW s \in Seq(Locks), NEW c \in Locks
  PROVE  /\ Append(s, c) \in Seq(Locks) /\ Append(s, c) # <<>>
         /\ Len(Append(s, c)) = Len(s) + 1
         /\ Top(Append(s, c)) = c
         /\ DOMAIN Append(s, c) = 1..(Len(s) + 1)
         /\ \A i \in 1..Len(s) : Append(s, c)[i] = s[i]
         /\ Append(s, c)[Len(s) + 1] = c
BY DEF Top

LEMMA PopFrame ==
  ASSUME NEW s \in Seq(Locks), Len(s) > 0
  PROVE  /\ Pop(s) \in Seq(Locks)
         /\ Len(Pop(s)) = Len(s) - 1
         /\ DOMAIN Pop(s) = 1..(Len(s) - 1)
         /\ \A i \in 1..(Len(s) - 1) : Pop(s)[i] = s[i]
         /\ Top(Pop(s)) = IF Len(s) = 1 THEN "UnLock" ELSE s[Len(s) - 1]
         /\ Len(s) > 1 => Top(Pop(s)) \in Locks /\ Pop(s) # <<>>
         /\ Len(s) = 1 => Pop(s) = <<>>
<1>0. Len(s) \in Nat /\ \A i \in 1..(Len(s) - 1) : s[i] \in Locks
  OBVIOUS
<1>1. /\ Pop(s) \in Seq(Locks) /\ Len(Pop(s)) = Len(s) - 1
      /\ \A i \in 1..(Len(s) - 1) : Pop(s)[i] = s[i]
  <2> DEFINE n == Len(s) - 1
  <2>1. n \in Int /\ 1 \in Int /\ \A i \in 1..n : s[i] \in Locks
    BY <1>0
  <2>2. /\ SubSeq(s, 1, n) \in Seq(Locks)
        /\ Len(SubSeq(s, 1, n)) = IF 1 <= n THEN n - 1 + 1 ELSE 0
        /\ \A i \in 1 .. n - 1 + 1 : SubSeq(s, 1, n)[i] = s[1 + i - 1]
    <3> HIDE DEF n
    <3> QED BY <2>1, SubSeqProperties
  <2>3. Pop(s) = SubSeq(s, 1, n)
    BY DEF Pop
  <2>4. Len(SubSeq(s, 1, n)) = n /\ \A i \in 1..n : SubSeq(s, 1, n)[i] = s[i]
    <3>1. n \in Nat /\ n - 1 + 1 = n /\ \A i \in 1..n : 1 + i - 1 = i
      BY <1>0
    <3> HIDE DEF n
    <3> QED BY <2>2, <3>1
  <2> QED BY <2>2, <2>3, <2>4
<1>2. DOMAIN Pop(s) = 1..(Len(s) - 1)
  BY <1>1
<1>3. Pop(s) = <<>> <=> Len(s) = 1
  BY <1>1
<1> QED BY <1>1, <1>2, <1>3 DEF Top

LEMMA Empty ==
  ASSUME NEW s \in Seq(Locks)
  PROVE  /\ s = <<>> <=> Len(s) = 0
         /\ DOMAIN s = 1..Len(s) /\ Len(s) \in Nat
         /\ Top(s) = "UnLock" <=> s = <<>>
         /\ s # <<>> => Top(s) = s[Len(s)] /\ Top(s) \in Locks
BY DEF Top, Locks
-----------------------------------------------------------------------------
(* Once a frame is exclusive, all frames above it are. *)
Nested(s) ==
  \A i, j \in DOMAIN s : i <= j /\ s[i] = "ExclLock" => s[j] = "ExclLock"

(* What each place in the code knows about the lock. *)
StackOK ==
  \A p \in Proc :
    /\ Nested(stack[p])
    /\ Running(p) => held[p] = Top(stack[p])
    /\ pc[p] \in {"closed", "opened", "acquire"} => held[p] = "UnLock"
    /\ pc[p] \in {"closed", "opening", "opened"} => stack[p] = <<>>
    /\ pc[p] = "opening" => held[p] = "ExclLock"
    /\ pc[p] = "acquire" => stack[p] # <<>>
    /\ Resizing(p) => /\ Len(stack[p]) > 1 /\ Top(stack[p]) = "ExclLock"
                      /\ Top(Pop(stack[p])) = "ExclLock"
                      /\ leaked[p] < Len(stack[p])

Exclusion ==
  \A p, q \in Proc : p # q /\ held[p] = "ExclLock" => held[q] = "UnLock"

(* How far the sizes agree: only inside resize they do not. *)
FileOK ==
  /\ (\A p \in Proc : ~Resizing(p)) => fsz = hsz /\ tail = hsz
  /\ \A p \in Proc :
       /\ pc[p] = "truncated" => fsz = nsz[p] /\ hsz = msz[p] /\ tail = msz[p]
       /\ pc[p] = "counted" => fsz = nsz[p] /\ hsz = msz[p] /\ tail = nsz[p]
       /\ pc[p] = "sized" => fsz = nsz[p] /\ hsz = nsz[p] /\ tail = nsz[p]

MapOK == \A p \in Proc : pc[p] = "ready" /\ stack[p] # <<>> => msz[p] = hsz

LockInv == TypeOK /\ StackOK /\ Exclusion /\ FileOK /\ MapOK

LEMMA InitLockInv == Init => LockInv
<1> SUFFICES ASSUME Init PROVE LockInv
  OBVIOUS
<1>1. TypeOK
  BY LockStackSizeAssumption DEF Init, TypeOK
<1>2. StackOK
  <2>1. Nested(<<>>)
    BY DEF Nested
  <2>2. Top(<<>>) = "UnLock"
    BY DEF Top
  <2> QED BY <2>1, <2>2 DEF Init, StackOK, Running, Resizing
<1>3. Exclusion /\ FileOK /\ MapOK
  BY DEF Init, Exclusion, FileOK, MapOK, Resizing
<1> QED BY <1>1, <1>2, <1>3 DEF LockInv

-----------------------------------------------------------------------------
LEMMA NestedPush ==
  ASSUME NEW s \in Seq(Locks), Nested(s), NEW c \in Locks, Top(s) = "ExclLock" => c = "ExclLock"
  PROVE  Nested(Append(s, c))
<1>1. DOMAIN s = 1..Len(s) /\ Len(s) \in Nat
  OBVIOUS
<1>2. \A i \in DOMAIN s : s[i] = "ExclLock" => c = "ExclLock"
  BY <1>1, Empty DEF Nested
<1> QED BY <1>1, <1>2, Push DEF Nested

LEMMA NestedPop ==
  ASSUME NEW s \in Seq(Locks), Nested(s), Len(s) > 0
  PROVE  Nested(Pop(s))
<1>1. DOMAIN s = 1..Len(s) /\ Len(s) \in Nat
  OBVIOUS
<1>2. DOMAIN Pop(s) = 1..(Len(s) - 1) /\ \A i \in 1..(Len(s) - 1) : Pop(s)[i] = s[i]
  BY PopFrame
<1>3. \A i \in DOMAIN Pop(s) : i \in DOMAIN s /\ Pop(s)[i] = s[i]
  BY <1>1, <1>2
<1> HIDE DEF Pop
<1> QED BY <1>3 DEF Nested

(* No process resizes while another has a lock. *)
LEMMA Alone ==
  ASSUME LockInv, NEW p \in Proc, NEW q \in Proc, p # q, Resizing(q)
  PROVE  held[p] = "UnLock" /\ held[q] = "ExclLock"
BY DEF LockInv, StackOK, Exclusion, Running

(* open() *)
LEMMA OpenLockInv ==
  ASSUME LockInv, NEW p \in Proc, OpenLock(p) \/ OpenCreate(p) \/ OpenMap(p)
  PROVE  LockInv'
<1> USE DEF LockInv
<1>1. UNCHANGED <<data, stack, leaked, nsz>>
  BY DEF OpenLock, OpenCreate, OpenMap, file
<1>2. TypeOK'
  <2>1. CASE OpenLock(p)
    BY <2>1 DEF OpenLock, TypeOK, file, Locks
  <2>2. CASE OpenCreate(p)
    BY <2>2 DEF OpenCreate, TypeOK
  <2>3. CASE OpenMap(p)
    BY <2>3 DEF OpenMap, MakeCurrent, TypeOK, file
  <2> QED BY <2>1, <2>2, <2>3
<1>3. StackOK'
  <2>1. \A q \in Proc : q # p => pc'[q] = pc[q] /\ held'[q] = held[q]
    BY DEF OpenLock, OpenCreate, OpenMap, TypeOK
  <2>2. stack[p] = <<>> /\ Top(stack[p]) = "UnLock"
    BY DEF OpenLock, OpenCreate, OpenMap, StackOK, Top
  <2>3. \/ pc'[p] = "opening" /\ held'[p] = "ExclLock"
        \/ pc'[p] \in {"opened", "ready"} /\ held'[p] = "UnLock"
    BY DEF OpenLock, OpenCreate, OpenMap, StackOK, TypeOK
  <2> QED BY <1>1, <2>1, <2>2, <2>3 DEF StackOK, Running, Resizing
<1>4. Exclusion'
  <2>1. CASE OpenLock(p)
    <3>1. held'[p] = "ExclLock" /\ \A q \in Proc : q # p => held'[q] = held[q]
      BY <2>1 DEF OpenLock, TypeOK
    <3>2. \A q \in Proc : q # p => held[q] = "UnLock"
      BY <2>1 DEF OpenLock, Grantable
    <3> QED BY <3>1, <3>2 DEF Exclusion
  <2>2. CASE OpenCreate(p)
    <3>1. held'[p] = "UnLock" /\ \A q \in Proc : q # p => held'[q] = held[q]
      BY <2>2 DEF OpenCreate, TypeOK
    <3> QED BY <3>1 DEF Exclusion
  <2>3. CASE OpenMap(p)
    BY <2>3 DEF OpenMap, Exclusion
  <2> QED BY <2>1, <2>2, <2>3
<1>5. \A q \in Proc : Resizing(q)' <=> Resizing(q)
  BY DEF OpenLock, OpenCreate, OpenMap, Resizing, TypeOK
<1>6. FileOK' /\ MapOK'
  <2>1. CASE OpenLock(p)
    BY <1>5, <2>1 DEF OpenLock, FileOK, MapOK, file, TypeOK, Resizing
  <2>2. CASE OpenCreate(p)
    <3>1. \A q \in Proc : ~Resizing(q)
      BY <2>2 DEF OpenCreate, StackOK, Exclusion, Running, Resizing
    <3>2. fsz' = hsz' /\ tail' = hsz'
      BY <2>2, <3>1 DEF OpenCreate, FileOK
    <3>3. FileOK'
      BY <1>5, <3>1, <3>2 DEF FileOK, Resizing
    <3>4. \A q \in Proc : pc[q] = "ready" => stack[q] = <<>>
      BY <2>2, Empty DEF OpenCreate, StackOK, Exclusion, Running, TypeOK
    <3>5. MapOK'
      BY <1>1, <2>2, <3>4 DEF OpenCreate, MapOK, TypeOK
    <3> QED BY <3>3, <3>5
  <2>3. CASE OpenMap(p)
    <3>1. /\ UNCHANGED <<fsz, hsz, tail>> /\ stack[p] = <<>> /\ ~Resizing(p)
          /\ \A q \in Proc : q # p => msz'[q] = msz[q] /\ pc'[q] = pc[q]
          /\ pc'[p] = "ready"
      BY <2>3 DEF OpenMap, MakeCurrent, file, StackOK, Resizing, TypeOK
    <3> QED BY <1>1, <1>5, <3>1 DEF FileOK, MapOK, Resizing
  <2> QED BY <2>1, <2>2, <2>3
<1> QED BY <1>2, <1>3, <1>4, <1>6

(* The frame of p changes and p lets go of its lock, or keeps it if the
   strongest lock stays the same. *)
LEMMA RelockInv ==
  ASSUME LockInv, NEW p \in Proc, pc[p] = "ready", NEW s \in Seq(Locks), Nested(s),
         stack' = [stack EXCEPT ![p] = s], Len(s) <= LockStackSize, leaked[p] <= Len(s),
         Relock(p, Top(stack[p]), Top(s)), UNCHANGED <<file, leaked, msz, nsz>>
  PROVE  LockInv'
<1> USE DEF LockInv
<1>1. /\ stack'[p] = s /\ pc'[p] \in {"ready", "acquire"}
      /\ \A q \in Proc : q # p => stack'[q] = stack[q] /\ held'[q] = held[q] /\ pc'[q] = pc[q]
      /\ \A q \in Proc : held'[q] = held[q] \/ held'[q] = "UnLock"
      /\ held[p] = Top(stack[p])
  BY DEF Relock, TypeOK, StackOK, Running
<1>2. TypeOK'
  BY DEF TypeOK, Relock, file
<1>3. CASE Top(stack[p]) = Top(s)
  <2>1. pc' = pc /\ held' = held
    BY <1>3 DEF Relock
  <2>2. StackOK'
    BY <1>1, <1>3, <2>1 DEF StackOK, Running, Resizing
  <2>3. stack[p] = <<>> <=> s = <<>>
    BY <1>3, Empty DEF TypeOK
  <2>4. Exclusion' /\ FileOK' /\ MapOK'
    BY <1>1, <2>1, <2>3 DEF Exclusion, FileOK, MapOK, Resizing, file
  <2> QED BY <1>2, <2>2, <2>4
<1>4. CASE Top(stack[p]) # Top(s)
  <2>1. held'[p] = "UnLock" /\ (s = <<>> => pc'[p] = "ready") /\ (s # <<>> => pc'[p] = "acquire")
    BY <1>4, Empty DEF Relock, TypeOK
  <2>2. StackOK'
    BY <1>1, <2>1, Empty DEF StackOK, Running, Resizing
  <2>3. Exclusion'
    BY <1>1 DEF Exclusion
  <2>4. FileOK' /\ MapOK'
    BY <1>1, <2>1 DEF FileOK, MapOK, Resizing, file
  <2> QED BY <1>2, <2>2, <2>3, <2>4
<1> QED BY <1>3, <1>4

LEMMA LockLockInv ==
  ASSUME LockInv, NEW p \in Proc, NEW c \in Locks, Lock(p, c)
  PROVE  LockInv'
<1> DEFINE old == Top(stack[p])
           new == IF old = "ExclLock" THEN "ExclLock" ELSE c
<1>1. stack[p] \in Seq(Locks) /\ new \in Locks /\ Nested(stack[p]) /\ leaked[p] <= Len(stack[p])
  BY DEF LockInv, TypeOK, StackOK, Locks
<1>2. Nested(Append(stack[p], new))
  BY <1>1, NestedPush
<1>3. /\ Append(stack[p], new) \in Seq(Locks) /\ Top(Append(stack[p], new)) = new
      /\ Len(Append(stack[p], new)) = Len(stack[p]) + 1
  BY <1>1, Push
<1>4. /\ pc[p] = "ready" /\ Len(stack[p]) < LockStackSize
      /\ stack' = [stack EXCEPT ![p] = Append(stack[p], new)]
      /\ Relock(p, old, new) /\ UNCHANGED <<file, leaked, msz, nsz>>
  BY DEF Lock
<1>5. leaked[p] <= Len(Append(stack[p], new)) /\ Len(Append(stack[p], new)) <= LockStackSize
  BY <1>1, <1>3, <1>4, LockStackSizeAssumption DEF LockInv, TypeOK
<1> HIDE DEF new
<1> QED BY <1>2, <1>3, <1>4, <1>5, RelockInv

LEMMA UnlockLockInv ==
  ASSUME LockInv, NEW p \in Proc, Unlock(p)
  PROVE  LockInv'
<1>1. /\ stack[p] \in Seq(Locks) /\ Nested(stack[p]) /\ leaked[p] \in Nat /\ Len(stack[p]) \in Nat
      /\ Len(stack[p]) <= LockStackSize
  BY DEF LockInv, TypeOK, StackOK
<1>2. Len(stack[p]) > 0 /\ leaked[p] < Len(stack[p])
  BY <1>1 DEF Unlock
<1>3. /\ Pop(stack[p]) \in Seq(Locks) /\ Nested(Pop(stack[p]))
      /\ Len(Pop(stack[p])) = Len(stack[p]) - 1
  BY <1>1, <1>2, PopFrame, NestedPop
<1>4. leaked[p] <= Len(Pop(stack[p])) /\ Len(Pop(stack[p])) <= LockStackSize
  BY <1>1, <1>2, <1>3, LockStackSizeAssumption
<1> QED BY <1>3, <1>4, RelockInv DEF Unlock

LEMMA AcquireLockInv ==
  ASSUME LockInv, NEW p \in Proc, Acquire(p)
  PROVE  LockInv'
<1> USE DEF LockInv
<1>1. /\ pc[p] = "acquire" /\ pc'[p] = "ready" /\ held'[p] = Top(stack[p])
      /\ \A q \in Proc : q # p => pc'[q] = pc[q] /\ held'[q] = held[q] /\ msz'[q] = msz[q]
      /\ UNCHANGED <<fsz, hsz, tail, data, stack, leaked, nsz>>
      /\ stack[p] # <<>> /\ Top(stack[p]) \in Locks
  BY Empty DEF Acquire, MakeCurrent, TypeOK, StackOK, file
<1>2. TypeOK'
  BY <1>1 DEF Acquire, MakeCurrent, TypeOK
<1>3. StackOK'
  BY <1>1 DEF StackOK, Running, Resizing
<1>4. Exclusion'
  BY <1>1 DEF Acquire, Grantable, Exclusion, Locks
<1>5. \A q \in Proc : ~Resizing(q)
  BY <1>1 DEF Acquire, Grantable, StackOK, Running, Resizing, Locks
<1>6. fsz = hsz /\ tail = hsz
  BY <1>5 DEF FileOK
<1>7. FileOK'
  BY <1>1, <1>5, <1>6 DEF FileOK, Resizing
<1>8. msz'[p] = hsz
  BY <1>6 DEF Acquire, MakeCurrent, TypeOK
<1>9. MapOK'
  BY <1>1, <1>8 DEF MapOK
<1> QED BY <1>2, <1>3, <1>4, <1>7, <1>9

LEMMA WriteLockInv ==
  ASSUME LockInv, NEW p \in Proc, Write(p)
  PROVE  LockInv'
BY DEF LockInv, Write, TypeOK, StackOK, Exclusion, FileOK, MapOK, Running, Resizing

(* resize() *)
LEMMA ResizeLockInv ==
  ASSUME LockInv, NEW p \in Proc,
         ResizeTruncate(p) \/ ResizeFail(p) \/ ResizeCount(p) \/ ResizeSize(p) \/ ResizeEnd(p)
  PROVE  LockInv'
<1> USE DEF LockInv
<1>0. /\ stack[p] \in Seq(Locks) /\ Len(stack[p]) \in Nat /\ Nested(stack[p])
      /\ held[p] = Top(stack[p]) /\ Top(stack[p]) = "ExclLock" /\ stack[p] # <<>>
      /\ leaked[p] <= Len(stack[p]) /\ leaked[p] \in Nat /\ Len(stack[p]) <= LockStackSize
      /\ Len(stack[p]) > 0 /\ LockStackSize \in Nat
  BY Empty, LockStackSizeAssumption DEF ResizeTruncate, ResizeFail, ResizeCount, ResizeSize, ResizeEnd, TypeOK,
     StackOK, Running, Resizing
<1>1. /\ UNCHANGED <<held, data>>
      /\ \A q \in Proc : q # p => /\ pc'[q] = pc[q] /\ stack'[q] = stack[q] /\ msz'[q] = msz[q]
                                  /\ nsz'[q] = nsz[q] /\ leaked'[q] = leaked[q]
  BY DEF ResizeTruncate, ResizeFail, ResizeCount, ResizeSize, ResizeEnd, TypeOK, MakeCurrent, file
<1>2. \A q \in Proc : q # p => ~Resizing(q) /\ held[q] = "UnLock"
  BY <1>0, Alone DEF Exclusion
<1>3. \A q \in Proc : q # p /\ pc[q] = "ready" => stack[q] = <<>>
  BY <1>2, Empty DEF StackOK, Running, TypeOK
<1>4. Exclusion'
  BY <1>1 DEF Exclusion
<1> DEFINE s == Append(stack[p], "ExclLock")
<1>5. /\ s \in Seq(Locks) /\ Len(s) = Len(stack[p]) + 1 /\ Top(s) = "ExclLock" /\ s # <<>>
      /\ Nested(s)
  BY <1>0, Push, NestedPush DEF Locks
<1>6. Top(Pop(s)) = "ExclLock"
  <2>1. "ExclLock" \in Locks
    BY DEF Locks
  <2>2. s[Len(s) - 1] = stack[p][Len(stack[p])] /\ Len(s) > 1
    BY <1>0, <1>5, <2>1, Push
  <2>3. stack[p][Len(stack[p])] = "ExclLock"
    BY <1>0, Empty
  <2>4. Len(s) > 0 /\ Len(s) # 1
    BY <1>0, <1>5
  <2> HIDE DEF s
  <2>5. Top(Pop(s)) = IF Len(s) = 1 THEN "UnLock" ELSE s[Len(s) - 1]
    BY <1>5, <2>4, PopFrame
  <2> QED BY <2>2, <2>3, <2>4, <2>5
<1> HIDE DEF s
<1>7. ASSUME stack'[p] = stack[p], leaked' = leaked, Resizing(p), Resizing(p)' PROVE StackOK'
  BY <1>0, <1>1, <1>7 DEF StackOK, Running, Resizing
<1>8. CASE ResizeTruncate(p)
  <2>1. /\ stack' = [stack EXCEPT ![p] = s] /\ stack'[p] = s /\ pc[p] = "ready" /\ pc'[p] = "truncated"
        /\ nsz'[p] = msz[p] + 1 /\ fsz' = msz[p] + 1 /\ UNCHANGED <<hsz, tail, leaked, msz>>
        /\ Len(stack[p]) < LockStackSize
    BY <1>8 DEF ResizeTruncate, TypeOK, s
  <2>2. TypeOK'
    <3>1. Len(s) <= LockStackSize /\ leaked[p] <= Len(s)
      BY <1>0, <1>5, <2>1
    <3> QED BY <1>1, <1>5, <1>8, <2>1, <3>1 DEF ResizeTruncate, TypeOK
  <2>3. StackOK'
    <3>1. Len(s) > 1 /\ leaked[p] < Len(s)
      BY <1>0, <1>5
    <3> QED BY <1>0, <1>1, <1>5, <1>6, <2>1, <3>1 DEF StackOK, Running, Resizing
  <2>4. FileOK' /\ MapOK'
    <3>1. \A q \in Proc : ~Resizing(q)
      BY <1>2, <2>1 DEF Resizing
    <3>2. hsz = tail /\ msz[p] = hsz
      BY <1>0, <2>1, <3>1 DEF FileOK, MapOK
    <3> QED BY <1>1, <1>2, <1>3, <2>1, <3>2 DEF FileOK, MapOK, Resizing
  <2> QED BY <1>4, <2>2, <2>3, <2>4
<1>9. CASE ResizeFail(p)
  <2>1. /\ stack' = [stack EXCEPT ![p] = s] /\ stack'[p] = s /\ pc[p] = "ready" /\ pc' = pc
        /\ leaked'[p] = Len(s) /\ UNCHANGED <<fsz, hsz, tail, msz, nsz>>
        /\ Len(stack[p]) < LockStackSize
    BY <1>5, <1>9 DEF ResizeFail, TypeOK, s, file
  <2>2. TypeOK'
    <3>1. Len(s) <= LockStackSize /\ Len(s) \in Nat
      BY <1>0, <1>5, <2>1
    <3>2. leaked' \in [Proc -> Nat]
      BY <1>0, <1>9 DEF ResizeFail, TypeOK
    <3>3. stack' \in [Proc -> Seq(Locks)]
      BY <1>5, <2>1 DEF TypeOK
    <3>4. \A q \in Proc : leaked'[q] <= Len(stack'[q]) /\ Len(stack'[q]) <= LockStackSize
      BY <1>1, <2>1, <3>1 DEF TypeOK
    <3> QED BY <1>1, <2>1, <3>2, <3>3, <3>4 DEF TypeOK
  <2>3. StackOK'
    BY <1>0, <1>1, <1>5, <2>1 DEF StackOK, Running, Resizing
  <2>4. FileOK' /\ MapOK'
    BY <1>0, <1>1, <2>1 DEF FileOK, MapOK, Resizing
  <2> QED BY <1>4, <2>2, <2>3, <2>4
<1>10. CASE ResizeCount(p)
  <2>1. /\ pc[p] = "truncated" /\ pc'[p] = "counted" /\ tail' = tail + (nsz[p] - msz[p])
        /\ UNCHANGED <<fsz, hsz, stack, leaked, msz, nsz>>
    BY <1>10 DEF ResizeCount, TypeOK
  <2>2. TypeOK'
    BY <1>1, <1>10, <2>1 DEF ResizeCount, TypeOK
  <2>3. StackOK'
    BY <1>7, <2>1 DEF Resizing
  <2>4. tail' = nsz[p] /\ fsz = nsz[p] /\ hsz = msz[p]
    BY <2>1 DEF FileOK, TypeOK
  <2>5. FileOK' /\ MapOK'
    BY <1>1, <1>2, <1>3, <2>1, <2>4 DEF FileOK, MapOK, Resizing
  <2> QED BY <1>4, <2>2, <2>3, <2>5
<1>11. CASE ResizeSize(p)
  <2>1. /\ pc[p] = "counted" /\ pc'[p] = "sized" /\ hsz' = nsz[p]
        /\ UNCHANGED <<fsz, tail, stack, leaked, msz, nsz>>
    BY <1>11 DEF ResizeSize, TypeOK
  <2>2. TypeOK'
    BY <1>1, <1>11, <2>1 DEF ResizeSize, TypeOK
  <2>3. StackOK'
    BY <1>7, <2>1 DEF Resizing
  <2>4. tail = nsz[p] /\ fsz = nsz[p]
    BY <2>1 DEF FileOK
  <2>5. FileOK' /\ MapOK'
    BY <1>1, <1>2, <1>3, <2>1, <2>4 DEF FileOK, MapOK, Resizing
  <2> QED BY <1>4, <2>2, <2>3, <2>5
<1>12. CASE ResizeEnd(p)
  <2> DEFINE t == Pop(stack[p])
  <2>1. /\ stack' = [stack EXCEPT ![p] = t] /\ stack'[p] = t /\ pc[p] = "sized" /\ pc'[p] = "ready"
        /\ msz'[p] = IF msz[p] # 0 /\ msz[p] = hsz THEN msz[p] ELSE fsz
        /\ UNCHANGED <<fsz, hsz, tail, leaked>>
    BY <1>12 DEF ResizeEnd, MakeCurrent, TypeOK, file
  <2>2. /\ t \in Seq(Locks) /\ Len(t) = Len(stack[p]) - 1 /\ Nested(t)
        /\ Top(t) = "ExclLock" /\ leaked[p] < Len(stack[p])
    BY <1>0, <2>1, PopFrame, NestedPop DEF StackOK, Resizing
  <2> HIDE DEF t
  <2>3. TypeOK'
    <3>1. Len(t) <= LockStackSize /\ leaked[p] <= Len(t)
      BY <1>0, <2>2
    <3>2. msz' \in [Proc -> Nat] /\ nsz' \in [Proc -> Nat]
      BY <1>12 DEF ResizeEnd, MakeCurrent, TypeOK
    <3>3. pc' \in [Proc -> {"closed", "opening", "opened", "ready", "acquire",
                            "truncated", "counted", "sized"}]
      BY <1>12 DEF ResizeEnd, TypeOK
    <3> QED BY <1>1, <2>1, <2>2, <3>1, <3>2, <3>3 DEF TypeOK
  <2>4. StackOK'
    BY <1>0, <1>1, <2>1, <2>2 DEF StackOK, Running, Resizing
  <2>5. fsz = hsz /\ tail = hsz
    BY <2>1 DEF FileOK
  <2>6. FileOK' /\ MapOK'
    BY <1>1, <1>2, <1>3, <2>1, <2>5 DEF FileOK, MapOK, Resizing
  <2> QED BY <1>4, <2>3, <2>4, <2>6
<1> QED BY <1>8, <1>9, <1>10, <1>11, <1>12

LEMMA CloseLockInv ==
  ASSUME LockInv, NEW p \in Proc, Close(p)
  PROVE  LockInv'
<1> USE DEF LockInv
<1>1. /\ pc[p] = "ready" /\ pc'[p] = "closed" /\ held'[p] = "UnLock" /\ stack'[p] = <<>>
      /\ \A q \in Proc : q # p => /\ pc'[q] = pc[q] /\ stack'[q] = stack[q] /\ msz'[q] = msz[q]
                                  /\ nsz'[q] = nsz[q] /\ leaked'[q] = leaked[q] /\ held'[q] = held[q]
      /\ UNCHANGED <<fsz, hsz, tail, data>>
  BY DEF Close, Gone, TypeOK, file
<1>2. TypeOK'
  <2>1. <<>> \in Seq(Locks) /\ Len(<<>>) = 0
    OBVIOUS
  <2> QED BY <1>1, <2>1, LockStackSizeAssumption DEF Close, Gone, TypeOK
<1>3. Nested(<<>>)
  BY DEF Nested
<1>4. StackOK'
  BY <1>1, <1>3 DEF StackOK, Running, Resizing
<1>5. Exclusion' /\ FileOK' /\ MapOK'
  BY <1>1 DEF Exclusion, FileOK, MapOK, Resizing
<1> QED BY <1>2, <1>4, <1>5

LEMMA NextLockInv == LockInv /\ [Next]_vars => LockInv'
<1> SUFFICES ASSUME LockInv, [Next]_vars PROVE LockInv'
  OBVIOUS
<1>1. ASSUME NEW p \in Proc, Step(p) PROVE LockInv'
  BY <1>1, OpenLockInv, LockLockInv, UnlockLockInv, AcquireLockInv, WriteLockInv,
     ResizeLockInv, CloseLockInv DEF Step
<1>2. CASE UNCHANGED vars
  BY <1>2 DEF vars, LockInv, TypeOK, StackOK, Exclusion, FileOK, MapOK, Running, Resizing
<1> QED BY <1>1, <1>2 DEF Next
-----------------------------------------------------------------------------
(* The lock discipline is inductive. *)
THEOREM LockInvariant == Spec => []LockInv
BY InitLockInv, NextLockInv, PTL DEF Spec

(* Sizes, locks, lock stacks and points of control of the processes have their
   types: no lock stack outgrows NVcontainer_LOCKSTACKSIZE, and none is popped
   below the frames that an exception has left on it. *)
THEOREM TypeCorrect == Spec => []TypeOK
<1>1. LockInv => TypeOK
  BY DEF LockInv
<1> QED BY <1>1, LockInvariant, PTL

(* A running process has the strongest lock its stack asks for. *)
THEOREM LocksAreHeld == Spec => []LockedMeansHeld
<1>1. LockInv => LockedMeansHeld
  <2> SUFFICES ASSUME LockInv, NEW p \in Proc, Running(p)
               PROVE  IF \E i \in DOMAIN stack[p] : stack[p][i] = "ExclLock"
                        THEN held[p] = "ExclLock"
                        ELSE held[p] = IF stack[p] = <<>> THEN "UnLock" ELSE "ShrdLock"
    BY DEF LockedMeansHeld
  <2>1. stack[p] \in Seq(Locks) /\ Nested(stack[p]) /\ held[p] = Top(stack[p])
    BY DEF LockInv, TypeOK, StackOK
  <2>2. CASE stack[p] = <<>>
    <3>1. DOMAIN stack[p] = {} /\ held[p] = "UnLock"
      <4>1. DOMAIN <<>> = {}
        OBVIOUS
      <4>2. Top(<<>>) = "UnLock"
        BY DEF Top
      <4> QED BY <2>1, <2>2, <4>1, <4>2
    <3> QED BY <2>2, <3>1
  <2>3. CASE stack[p] # <<>>
    <3>1. Len(stack[p]) \in DOMAIN stack[p] /\ held[p] = stack[p][Len(stack[p])] /\ held[p] \in Locks
      BY <2>1, <2>3, Empty
    <3>2. \A i \in DOMAIN stack[p] : i <= Len(stack[p])
      BY <2>1, Empty
    <3> QED BY <2>1, <2>3, <3>1, <3>2 DEF Nested, Locks
  <2> QED BY <2>2, <2>3
<1> QED BY <1>1, LockInvariant, PTL

(* A process that has a lock sees a finished file through a current mapping. *)
THEOREM MappingsAreCurrent == Spec => []MappingCurrent
<1>1. LockInv => MappingCurrent
  <2> SUFFICES ASSUME LockInv, NEW p \in Proc, pc[p] = "ready", stack[p] # <<>>
               PROVE  fsz = hsz /\ tail = hsz /\ msz[p] = hsz
    BY DEF MappingCurrent
  <2>1. held[p] # "UnLock"
    BY Empty DEF LockInv, TypeOK, StackOK, Running
  <2>2. \A q \in Proc : ~Resizing(q)
    BY <2>1, Alone DEF Resizing
  <2> QED BY <2>2 DEF LockInv, FileOK, MapOK
<1> QED BY <1>1, LockInvariant, PTL

(* Nobody else changes the file while a process has it locked. *)
THEOREM LockedIsStable == Spec => StableWhileLocked
<1> DEFINE A == \A p \in Proc : Running(p) /\ stack[p] # <<>> =>
                  /\ data' # data => data' = p
                  /\ <<fsz, hsz, tail>>' # <<fsz, hsz, tail>> => pc'[p] # pc[p]
<1>1. LockInv /\ [Next]_vars => [A]_vars
  <2> SUFFICES ASSUME LockInv, Next, NEW p \in Proc, Running(p), stack[p] # <<>>
               PROVE  /\ data' # data => data' = p
                      /\ <<fsz, hsz, tail>>' # <<fsz, hsz, tail>> => pc'[p] # pc[p]
    OBVIOUS
  <2>1. PICK q \in Proc : Step(q)
    BY DEF Next
  <2>2. held[p] # "UnLock"
    BY Empty DEF LockInv, TypeOK, StackOK
  <2>3. CASE UNCHANGED file
    BY <2>3 DEF file
  <2>4. CASE Write(q)
    <3>1. held[q] = "ExclLock"
      BY <2>4 DEF Write, LockInv, StackOK, Running
    <3>2. q = p
      BY <2>2, <3>1 DEF LockInv, Exclusion
    <3> QED BY <2>4, <3>2 DEF Write
  <2>5. CASE ResizeTruncate(q) \/ ResizeCount(q) \/ ResizeSize(q)
    <3>1. held[q] = "ExclLock" /\ data' = data
      BY <2>5 DEF ResizeTruncate, ResizeCount, ResizeSize, LockInv, StackOK, Running, Resizing
    <3>2. q = p
      BY <2>2, <3>1 DEF LockInv, Exclusion
    <3>3. pc'[q] # pc[q]
      BY <2>5 DEF ResizeTruncate, ResizeCount, ResizeSize, LockInv, TypeOK
    <3> QED BY <3>1, <3>2, <3>3
  <2>6. CASE OpenCreate(q)
    <3>1. held[q] = "ExclLock" /\ pc[q] = "opening" /\ pc[p] # "opening"
      BY <2>6 DEF OpenCreate, LockInv, StackOK, Running, Resizing
    <3> QED BY <2>2, <3>1 DEF LockInv, Exclusion
  <2>7. UNCHANGED file \/ Write(q) \/ OpenCreate(q)
          \/ ResizeTruncate(q) \/ ResizeCount(q) \/ ResizeSize(q)
    BY <2>1 DEF Step, OpenLock, OpenMap, Lock, Unlock, Acquire, ResizeFail, ResizeEnd, Close
  <2> QED BY <2>3, <2>4, <2>5, <2>6, <2>7
<1>2. Spec => [][A]_vars
  BY <1>1, LockInvariant, PTL DEF Spec
<1> QED BY <1>2 DEF StableWhileLocked
-----------------------------------------------------------------------------
(* The lock protocol implements SharedFile *)

(* What the refinement needs beyond LockInv: resize asks for one unit more, and
   whoever has come out of open() has left a created file behind. *)
GrowOK ==
  \A p \in Proc :
    /\ pc[p] \in {"truncated", "counted"} => nsz[p] = msz[p] + 1
    /\ pc[p] \notin {"closed", "opening"} => hsz # 0

(* A step of a process leaves the others where they are. *)
LEMMA OneMoves ==
  ASSUME LockInv, NEW p \in Proc, Step(p), NEW q \in Proc, q # p
  PROVE  pc'[q] = pc[q] /\ stack'[q] = stack[q] /\ msz'[q] = msz[q] /\ nsz'[q] = nsz[q]
<1> USE DEF LockInv, TypeOK
<1>1. CASE OpenLock(p) \/ OpenCreate(p) \/ OpenMap(p)
  BY <1>1 DEF OpenLock, OpenCreate, OpenMap, MakeCurrent
<1>2. CASE (\E c \in Locks : Lock(p, c)) \/ Unlock(p)
  BY <1>2 DEF Lock, Unlock, Relock
<1>3. CASE Acquire(p) \/ Write(p)
  BY <1>3 DEF Acquire, Write, MakeCurrent
<1>4. CASE ResizeTruncate(p) \/ ResizeFail(p) \/ ResizeCount(p) \/ ResizeSize(p) \/ ResizeEnd(p)
  BY <1>4 DEF ResizeTruncate, ResizeFail, ResizeCount, ResizeSize, ResizeEnd, MakeCurrent
<1>5. CASE Close(p)
  BY <1>5 DEF Close, Gone
<1> QED BY <1>1, <1>2, <1>3, <1>4, <1>5 DEF Step

(* While a process is in open() and has the lock, or resizes, the others have
   none. *)
LEMMA NobodyElse ==
  ASSUME LockInv, NEW p \in Proc, held[p] = "ExclLock", NEW q \in Proc, q # p
  PROVE  Mode[q] = "UnLock" /\ ~Resizing(q)
<1>1. held[q] = "UnLock"
  BY DEF LockInv, Exclusion
<1>2. Running(q) => Top(stack[q]) = "UnLock"
  BY <1>1 DEF LockInv, StackOK
<1>3. ~Resizing(q)
  BY <1>2 DEF LockInv, StackOK, Running
<1> QED BY <1>2, <1>3 DEF Mode

(* What a process can rely on after its step. *)
LEMMA ModeAfter ==
  ASSUME LockInv, NEW p \in Proc, Step(p), NEW m, m = Mode'[p]
  PROVE  Mode' = [Mode EXCEPT ![p] = m]
<1>1. \A q \in Proc : q # p => Mode'[q] = Mode[q]
  BY OneMoves DEF Mode, Running, Resizing
<1>2. Mode = [q \in Proc |-> Mode[q]] /\ Mode' = [q \in Proc |-> Mode'[q]]
  BY DEF Mode
<1> HIDE DEF Mode
<1> QED BY <1>1, <1>2

LEMMA ModeSame ==
  ASSUME LockInv, NEW p \in Proc, Step(p), Mode'[p] = Mode[p]
  PROVE  Mode' = Mode
<1>1. Mode' = [Mode EXCEPT ![p] = Mode[p]]
  BY ModeAfter
<1>2. Mode = [q \in Proc |-> Mode[q]]
  BY DEF Mode
<1> HIDE DEF Mode
<1> QED BY <1>1, <1>2

LEMMA GrowNext == LockInv /\ GrowOK /\ [Next]_vars => GrowOK'
<1> SUFFICES ASSUME LockInv, GrowOK, [Next]_vars PROVE GrowOK'
  OBVIOUS
<1>1. CASE UNCHANGED vars
  BY <1>1 DEF vars, GrowOK
<1>2. ASSUME NEW p \in Proc, Step(p) PROVE GrowOK'
  <2>1. hsz # 0 => hsz' # 0
    <3>1. CASE OpenCreate(p)
      BY <3>1 DEF OpenCreate
    <3>2. CASE ResizeSize(p)
      <4>1. hsz' = msz[p] + 1 /\ msz[p] \in Nat
        BY <3>2 DEF ResizeSize, GrowOK, LockInv, TypeOK
      <4> QED BY <4>1
    <3>3. CASE ~OpenCreate(p) /\ ~ResizeSize(p)
      BY <1>2, <3>3 DEF Step, OpenLock, OpenMap, Lock, Unlock, Acquire, Write, ResizeTruncate, ResizeFail,
                        ResizeCount, ResizeEnd, Close, file
    <3> QED BY <3>1, <3>2, <3>3
  <2>2. pc'[p] \in {"truncated", "counted"} => nsz'[p] = msz'[p] + 1
    <3>1. CASE ResizeTruncate(p) \/ ResizeCount(p)
      BY <3>1 DEF ResizeTruncate, ResizeCount, GrowOK, LockInv, TypeOK
    <3>2. CASE \/ OpenLock(p) \/ OpenCreate(p) \/ OpenMap(p) \/ Acquire(p) \/ Write(p)
               \/ ResizeFail(p) \/ ResizeSize(p) \/ ResizeEnd(p) \/ Close(p)
      BY <3>2 DEF OpenLock, OpenCreate, OpenMap, Acquire, Write, ResizeFail, ResizeSize, ResizeEnd,
                  Close, Gone, LockInv, TypeOK
    <3>3. CASE (\E c \in Locks : Lock(p, c)) \/ Unlock(p)
      BY <3>3 DEF Lock, Unlock, Relock, LockInv, TypeOK
    <3> QED BY <1>2, <3>1, <3>2, <3>3 DEF Step
  <2>3. pc'[p] \notin {"closed", "opening"} => hsz' # 0
    <3>1. CASE OpenCreate(p)
      <4>1. held[p] = "ExclLock" /\ ~Resizing(p)
        BY <3>1 DEF OpenCreate, LockInv, StackOK, Resizing
      <4>2. \A q \in Proc : ~Resizing(q)
        BY <4>1, NobodyElse
      <4> QED BY <3>1, <4>2 DEF OpenCreate, LockInv, FileOK
    <3>2. CASE OpenLock(p) \/ Close(p)
      BY <3>2 DEF OpenLock, Close, Gone, LockInv, TypeOK
    <3>3. CASE ~OpenCreate(p) /\ ~OpenLock(p) /\ ~Close(p)
      <4>1. pc[p] \notin {"closed", "opening"}
        BY <1>2, <3>3 DEF Step, OpenMap, Lock, Unlock, Acquire, Write, ResizeTruncate, ResizeFail,
                          ResizeCount, ResizeSize, ResizeEnd
      <4> QED BY <2>1, <4>1 DEF GrowOK
    <3> QED BY <3>1, <3>2, <3>3
  <2> QED BY <1>2, <2>1, <2>2, <2>3, OneMoves DEF GrowOK
<1> QED BY <1>1, <1>2 DEF Next

(* nvflock: a lock that changes is given up; one that stays is kept. *)
LEMMA RelockIsRelease ==
  ASSUME LockInv, NEW p \in Proc, Step(p), pc[p] = "ready",
         Relock(p, Top(stack[p]), Top(stack'[p])), UNCHANGED <<hsz, data>>
  PROVE  SF!Release(p) \/ UNCHANGED SF!store
<1>1. Mode[p] = Top(stack[p])
  BY DEF Mode, Running
<1>2. pc'[p] = IF Top(stack[p]) # Top(stack'[p]) /\ Top(stack'[p]) # "UnLock" THEN "acquire" ELSE "ready"
  BY DEF Relock, LockInv, TypeOK
<1>3. Mode'[p] = Mode[p] \/ Mode'[p] = "UnLock"
  BY <1>1, <1>2 DEF Mode, Running, Resizing
<1>4. CASE Mode'[p] = "UnLock"
  BY <1>4, ModeAfter DEF SF!Release
<1>5. CASE Mode'[p] = Mode[p]
  BY <1>5, ModeSame DEF SF!store
<1> QED BY <1>3, <1>4, <1>5

LEMMA StepImplements ==
  ASSUME LockInv, GrowOK, NEW p \in Proc, Step(p)
  PROVE  [SF!Next]_SF!store
<1>1. CASE OpenLock(p) \/ OpenMap(p)
  <2>1. Mode[p] = "UnLock"
    BY <1>1 DEF OpenLock, OpenMap, Mode, Running, Resizing
  <2>2. Mode'[p] = "UnLock"
    BY <1>1, Empty DEF OpenLock, OpenMap, Mode, Running, Resizing, LockInv, TypeOK, StackOK
  <2>3. UNCHANGED <<hsz, data>>
    BY <1>1 DEF OpenLock, OpenMap, file
  <2>4. Mode' = Mode
    BY <2>1, <2>2, ModeSame
  <2> QED BY <2>3, <2>4 DEF SF!store
<1>2. CASE OpenCreate(p)
  <2>1. Mode[p] = "UnLock" /\ held[p] = "ExclLock" /\ ~Resizing(p)
    BY <1>2 DEF OpenCreate, Mode, Running, Resizing, LockInv, StackOK
  <2>2. Mode'[p] = "UnLock"
    BY <1>2 DEF OpenCreate, Mode, Running, Resizing, LockInv, TypeOK
  <2>3. Mode' = Mode
    BY <2>1, <2>2, ModeSame
  <2>4. \A q \in Proc : Mode[q] = "UnLock" /\ ~Resizing(q)
    BY <2>1, NobodyElse
  <2>5. CASE fsz = 0
    <3>1. hsz = 0 /\ hsz' = 1 /\ data' = data
      BY <1>2, <2>4, <2>5 DEF OpenCreate, LockInv, FileOK
    <3>2. SF!Create
      BY <2>3, <2>4, <3>1 DEF SF!Create
    <3> QED BY <3>2 DEF SF!Next
  <2>6. CASE fsz # 0
    <3>1. UNCHANGED <<hsz, data>>
      BY <1>2, <2>6 DEF OpenCreate
    <3> QED BY <2>3, <3>1 DEF SF!store
  <2> QED BY <2>5, <2>6
<1>3. ASSUME NEW c \in Locks, Lock(p, c) PROVE [SF!Next]_SF!store
  <2> DEFINE new == IF Top(stack[p]) = "ExclLock" THEN "ExclLock" ELSE c
  <2>1. pc[p] = "ready" /\ UNCHANGED <<hsz, data>> /\ Relock(p, Top(stack[p]), new)
    BY <1>3 DEF Lock, file
  <2>2. stack'[p] = Append(stack[p], new) /\ new \in Locks /\ stack[p] \in Seq(Locks)
    BY <1>3 DEF Lock, LockInv, TypeOK, Locks
  <2>3. Top(stack'[p]) = new
    BY <2>2, Push
  <2> QED BY <2>1, <2>3, RelockIsRelease DEF SF!Next
<1>4. CASE Unlock(p)
  <2>1. pc[p] = "ready" /\ UNCHANGED <<hsz, data>> /\ Relock(p, Top(stack[p]), Top(Pop(stack[p])))
    BY <1>4 DEF Unlock, file
  <2>2. stack'[p] = Pop(stack[p])
    BY <1>4 DEF Unlock, LockInv, TypeOK
  <2> QED BY <2>1, <2>2, RelockIsRelease DEF SF!Next
<1>5. CASE Acquire(p)
  <2> DEFINE l == Top(stack[p])
  <2>1. pc[p] = "acquire" /\ Grantable(p, l) /\ UNCHANGED <<hsz, data>> /\ stack' = stack /\ pc'[p] = "ready"
    BY <1>5 DEF Acquire, file, LockInv, TypeOK
  <2>2. l \in Locks
    BY <2>1, Empty DEF LockInv, TypeOK, StackOK
  <2>3. Mode[p] = "UnLock" /\ Mode'[p] = l
    BY <2>1 DEF Mode, Running, Resizing
  <2>4. Mode' = [Mode EXCEPT ![p] = l]
    BY <2>3, ModeAfter
  <2>5. hsz # 0
    BY <2>1 DEF GrowOK
  <2>6. \A q \in Proc : Mode[q] = held[q] \/ Mode[q] = "UnLock"
    BY DEF Mode, LockInv, StackOK
  <2>7. \A q \in Proc \ {p} : Mode[q] = "UnLock" \/ (l = "ShrdLock" /\ Mode[q] = "ShrdLock")
    BY <2>1, <2>6 DEF Grantable
  <2>8. SF!Gain(p, l)
    BY <2>1, <2>3, <2>4, <2>5, <2>7 DEF SF!Gain
  <2> QED BY <2>2, <2>8 DEF SF!Next, Locks
<1>6. CASE Write(p)
  <2>1. Mode[p] = "ExclLock" /\ Mode'[p] = Mode[p] /\ data' = p /\ hsz' = hsz
    BY <1>6 DEF Write, Mode, Running, Resizing
  <2>2. Mode' = Mode
    BY <2>1, ModeSame
  <2>3. SF!Write(p)
    BY <2>1, <2>2 DEF SF!Write
  <2> QED BY <2>3 DEF SF!Next
<1>7. CASE ResizeTruncate(p) \/ ResizeFail(p)
  <2>1. pc[p] = "ready" /\ Top(stack[p]) = "ExclLock" /\ UNCHANGED <<hsz, data>> /\ pc'[p] \in {"ready", "truncated"}
    BY <1>7 DEF ResizeTruncate, ResizeFail, file, LockInv, TypeOK
  <2>2. stack'[p] = Append(stack[p], "ExclLock") /\ stack[p] \in Seq(Locks)
    BY <1>7 DEF ResizeTruncate, ResizeFail, LockInv, TypeOK
  <2>3. Top(stack'[p]) = "ExclLock"
    BY <2>2, Push DEF Locks
  <2>4. Mode'[p] = Mode[p]
    BY <2>1, <2>3 DEF Mode, Running, Resizing
  <2> QED BY <2>1, <2>4, ModeSame DEF SF!store
<1>8. CASE ResizeCount(p) \/ ResizeEnd(p)
  <2>1. UNCHANGED <<hsz, data>> /\ Resizing(p) /\ pc'[p] \in {"counted", "ready"}
    BY <1>8 DEF ResizeCount, ResizeEnd, file, Resizing, LockInv, TypeOK
  <2>2. Top(stack[p]) = "ExclLock" /\ Top(Pop(stack[p])) = "ExclLock"
    BY <2>1 DEF LockInv, StackOK
  <2>3. stack'[p] = stack[p] \/ stack'[p] = Pop(stack[p])
    BY <1>8 DEF ResizeCount, ResizeEnd, LockInv, TypeOK
  <2>4. Mode'[p] = Mode[p]
    BY <2>1, <2>2, <2>3 DEF Mode, Running, Resizing
  <2> QED BY <2>1, <2>4, ModeSame DEF SF!store
<1>9. CASE ResizeSize(p)
  <2>1. Resizing(p) /\ data' = data /\ hsz' = nsz[p] /\ stack' = stack /\ pc'[p] = "sized"
    BY <1>9 DEF ResizeSize, Resizing, LockInv, TypeOK
  <2>2. hsz' = hsz + 1
    BY <1>9, <2>1 DEF ResizeSize, GrowOK, LockInv, FileOK
  <2>3. Top(stack[p]) = "ExclLock"
    BY <2>1 DEF LockInv, StackOK
  <2>4. Mode[p] = "ExclLock" /\ Mode'[p] = Mode[p]
    BY <2>1, <2>3 DEF Mode, Running, Resizing
  <2>5. Mode' = Mode
    BY <2>4, ModeSame
  <2>6. SF!Grow(p)
    BY <2>1, <2>2, <2>4, <2>5 DEF SF!Grow
  <2> QED BY <2>6 DEF SF!Next
<1>10. CASE Close(p)
  <2>1. UNCHANGED <<hsz, data>> /\ pc'[p] = "closed"
    BY <1>10 DEF Close, Gone, file, LockInv, TypeOK
  <2>2. Mode'[p] = "UnLock"
    BY <2>1 DEF Mode, Running, Resizing
  <2>3. SF!Release(p)
    BY <2>1, <2>2, ModeAfter DEF SF!Release
  <2> QED BY <2>3 DEF SF!Next
<1> QED BY <1>1, <1>2, <1>3, <1>4, <1>5, <1>6, <1>7, <1>8, <1>9, <1>10 DEF Step

(* open, lock, nvflock, resize and close of any number of processes implement
   SharedFile: every step is one of its steps or changes nothing of it, so what
   the classes above build on it holds for the container. *)
THEOREM Refinement == Spec => ImplementsSharedFile
<1>1. Init => SF!Init
  <2> SUFFICES ASSUME Init PROVE SF!Init
    OBVIOUS
  <2>1. \A p \in Proc : Mode[p] = "UnLock"
    BY DEF Init, Mode, Running, Resizing
  <2>2. Mode = [p \in Proc |-> Mode[p]]
    BY DEF Mode
  <2> HIDE DEF Mode
  <2>3. Mode = [p \in Proc |-> "UnLock"]
    BY <2>1, <2>2
  <2> QED BY <2>3 DEF Init, SF!Init
<1>2. Init => GrowOK
  BY DEF Init, GrowOK
<1>3. LockInv /\ GrowOK /\ [Next]_vars => [SF!Next]_SF!store
  <2> SUFFICES ASSUME LockInv, GrowOK, [Next]_vars PROVE [SF!Next]_SF!store
    OBVIOUS
  <2>1. CASE UNCHANGED vars
    BY <2>1 DEF vars, SF!store, Mode, Running, Resizing
  <2> QED BY <2>1, StepImplements DEF Next
<1>4. Spec => [](LockInv /\ GrowOK)
  BY <1>2, GrowNext, LockInvariant, PTL DEF Spec
<1> QED BY <1>1, <1>3, <1>4, PTL DEF Spec, ImplementsSharedFile, SF!Spec
=============================================================================
