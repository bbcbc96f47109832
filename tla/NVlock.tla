------------------------------- MODULE NVlock -------------------------------
(***************************************************************************)
(* The processes that share one NVcontainer file: open, lock, nvflock,     *)
(* make_current, resize and close of NVClasses-0.9.1/NVcontainer.cc.       *)
(*                                                                         *)
(* Every process (a NewsCache child per client, updatenews,                *)
(* newscacheclean) has its own lock stack and its own mapping of the file. *)
(* nvflock gives up the record lock it has before it asks for another one, *)
(* so an upgrade (ShrdLock, then ExclLock on top of it) and the downgrade  *)
(* when the inner lock is popped each open a gap for other processes.      *)
(* One step is one system call or one store that others can see.           *)
(* Sizes count units of growth.                                            *)
(***************************************************************************)
EXTENDS Integers, Sequences

CONSTANTS
  Proc,           \* the processes
  LockStackSize,  \* NVcontainer_LOCKSTACKSIZE
  MaxSize         \* ftruncate beyond this size fails

ASSUME LockStackSizeAssumption == LockStackSize \in Nat \ {0}
ASSUME MaxSizeAssumption == MaxSize \in Nat \ {0}

VARIABLES
  fsz,       \* size of the file (st_size)
  hsz,       \* mem_hdr->size
  tail,      \* where the last block of the free list ends
  data,      \* who wrote the user data last
  held,      \* record lock of each process, as the kernel sees it
  stack,     \* lck_stack of each process, the top is its last element
  leaked,    \* frames of the stack whose unlock an exception has skipped
  msz,       \* mem_sz of each process, 0 if it has no mapping
  nsz,       \* resize: the new size
  pc         \* what each process is doing

file == <<fsz, hsz, tail, data>>
vars == <<fsz, hsz, tail, data, held, stack, leaked, msz, nsz, pc>>

Locks == {"ShrdLock", "ExclLock"}

(* get_lock() *)
Top(s) == IF s = <<>> THEN "UnLock" ELSE s[Len(s)]
Pop(s) == SubSeq(s, 1, Len(s) - 1)

(* The kernel grants a record lock that conflicts with no other one. *)
Grantable(p, l) ==
  \A q \in Proc \ {p} : held[q] = "UnLock" \/ (l = "ShrdLock" /\ held[q] = "ShrdLock")

Resizing(p) == pc[p] \in {"truncated", "counted", "sized"}
Running(p) == pc[p] = "ready" \/ Resizing(p)

(* make_current maps the file at its present size, unless is_current(). *)
MakeCurrent(p) == msz' = [msz EXCEPT ![p] = IF @ # 0 /\ @ = hsz THEN @ ELSE fsz]
-----------------------------------------------------------------------------
Init ==
  /\ fsz = 0 /\ hsz = 0 /\ tail = 0
  /\ data \in Proc
  /\ held = [p \in Proc |-> "UnLock"]
  /\ stack = [p \in Proc |-> <<>>]
  /\ leaked = [p \in Proc |-> 0]
  /\ msz = [p \in Proc |-> 0]
  /\ nsz = [p \in Proc |-> 0]
  /\ pc = [p \in Proc |-> "closed"]

(* open(): the exclusive record lock is taken past the lock stack. *)
OpenLock(p) ==
  /\ pc[p] = "closed"
  /\ Grantable(p, "ExclLock")
  /\ held' = [held EXCEPT ![p] = "ExclLock"]
  /\ pc' = [pc EXCEPT ![p] = "opening"]
  /\ UNCHANGED <<file, stack, leaked, msz, nsz>>

(* An empty file gets its header and free-list record; then the lock is given
   up before the file is mapped. *)
OpenCreate(p) ==
  /\ pc[p] = "opening"
  /\ IF fsz = 0 THEN fsz' = 1 /\ hsz' = 1 /\ tail' = 1
                ELSE UNCHANGED <<fsz, hsz, tail>>
  /\ held' = [held EXCEPT ![p] = "UnLock"]
  /\ pc' = [pc EXCEPT ![p] = "opened"]
  /\ UNCHANGED <<data, stack, leaked, msz, nsz>>

OpenMap(p) ==
  /\ pc[p] = "opened"
  /\ MakeCurrent(p)
  /\ pc' = [pc EXCEPT ![p] = "ready"]
  /\ UNCHANGED <<file, held, stack, leaked, nsz>>

(* Mutant: the lock in place is kept while waiting for the new one. *)
RelockInPlace(p, old, new) ==
  /\ held' = IF new = "UnLock" THEN [held EXCEPT ![p] = "UnLock"] ELSE held
  /\ pc' = IF old # new /\ new # "UnLock" THEN [pc EXCEPT ![p] = "acquire"] ELSE pc

(* nvflock: give up the lock in place; unless that is all, wait for the new
   one.  Nothing is done when the lock does not change. *)
Relock(p, old, new) ==
  /\ held' = IF old # new THEN [held EXCEPT ![p] = "UnLock"] ELSE held
  /\ pc' = IF old # new /\ new # "UnLock" THEN [pc EXCEPT ![p] = "acquire"] ELSE pc

(* Mutant: a shared lock may be nested in an exclusive one. *)
LockAsAsked(p, c) ==
  /\ pc[p] = "ready"
  /\ Len(stack[p]) < LockStackSize
  /\ stack' = [stack EXCEPT ![p] = Append(@, c)]
  /\ Relock(p, Top(stack[p]), c)
  /\ UNCHANGED <<file, leaked, msz, nsz>>

(* Mutant: one frame too many. *)
LockOverflowing(p, c) ==
  LET old == Top(stack[p])
      new == IF old = "ExclLock" THEN "ExclLock" ELSE c
  IN /\ pc[p] = "ready"
     /\ Len(stack[p]) <= LockStackSize
     /\ stack' = [stack EXCEPT ![p] = Append(@, new)]
     /\ Relock(p, old, new)
     /\ UNCHANGED <<file, leaked, msz, nsz>>

(* lock(ShrdLock) and lock(ExclLock): under an exclusive lock all is exclusive. *)
Lock(p, c) ==
  LET old == Top(stack[p])
      new == IF old = "ExclLock" THEN "ExclLock" ELSE c
  IN /\ pc[p] = "ready"
     /\ Len(stack[p]) < LockStackSize
     /\ stack' = [stack EXCEPT ![p] = Append(@, new)]
     /\ Relock(p, old, new)
     /\ UNCHANGED <<file, leaked, msz, nsz>>

(* lock(UnLock): back to the lock below. *)
Unlock(p) ==
  LET below == Pop(stack[p]) IN
  /\ pc[p] = "ready"
  /\ Len(stack[p]) > leaked[p]
  /\ stack' = [stack EXCEPT ![p] = below]
  /\ Relock(p, Top(stack[p]), Top(below))
  /\ UNCHANGED <<file, leaked, msz, nsz>>

(* Mutant: the mapping is kept as it is. *)
AcquireUnmapped(p) ==
  /\ pc[p] = "acquire"
  /\ Grantable(p, Top(stack[p]))
  /\ held' = [held EXCEPT ![p] = Top(stack[p])]
  /\ pc' = [pc EXCEPT ![p] = "ready"]
  /\ UNCHANGED <<file, stack, leaked, msz, nsz>>

(* Mutant: nvflock asks for F_RDLCK whatever the command. *)
AcquireShared(p) ==
  /\ pc[p] = "acquire"
  /\ Grantable(p, "ShrdLock")
  /\ held' = [held EXCEPT ![p] = "ShrdLock"]
  /\ MakeCurrent(p)
  /\ pc' = [pc EXCEPT ![p] = "ready"]
  /\ UNCHANGED <<file, stack, leaked, nsz>>

(* F_SETLKW returns, and lock() adapts the mapping to the size it finds. *)
Acquire(p) ==
  /\ pc[p] = "acquire"
  /\ Grantable(p, Top(stack[p]))
  /\ held' = [held EXCEPT ![p] = Top(stack[p])]
  /\ MakeCurrent(p)
  /\ pc' = [pc EXCEPT ![p] = "ready"]
  /\ UNCHANGED <<file, stack, leaked, nsz>>

(* A signal ends the wait with EINTR (the handlers are installed without
   SA_RESTART): lock() throws SystemError and leaves the new frame on the stack. *)
Interrupt(p) ==
  /\ pc[p] = "acquire"
  /\ pc' = [pc EXCEPT ![p] = "ready"]
  /\ leaked' = [leaked EXCEPT ![p] = Len(stack[p])]
  /\ UNCHANGED <<file, held, stack, msz, nsz>>

(* A user under the exclusive lock stores something. *)
Write(p) ==
  /\ pc[p] = "ready"
  /\ Top(stack[p]) = "ExclLock"
  /\ data' = p
  /\ UNCHANGED <<fsz, hsz, tail, held, stack, leaked, msz, nsz, pc>>
-----------------------------------------------------------------------------
(* resize(), called by nvalloc under its exclusive lock, takes one more.  The
   file grows first, then bytes_free and the last block, then mem_hdr->size. *)
ResizeTruncate(p) ==
  /\ pc[p] = "ready"
  /\ Top(stack[p]) = "ExclLock"
  /\ Len(stack[p]) < LockStackSize
  /\ msz[p] + 1 <= MaxSize
  /\ stack' = [stack EXCEPT ![p] = Append(@, "ExclLock")]
  /\ nsz' = [nsz EXCEPT ![p] = msz[p] + 1]
  /\ fsz' = msz[p] + 1
  /\ pc' = [pc EXCEPT ![p] = "truncated"]
  /\ UNCHANGED <<hsz, tail, data, held, leaked, msz>>

(* ftruncate fails: SystemError.  Neither resize nor its callers unlock on the
   way out, so all frames stay on the stack until close(). *)
ResizeFail(p) ==
  /\ pc[p] = "ready"
  /\ Top(stack[p]) = "ExclLock"
  /\ Len(stack[p]) < LockStackSize
  /\ msz[p] + 1 > MaxSize
  /\ stack' = [stack EXCEPT ![p] = Append(@, "ExclLock")]
  /\ leaked' = [leaked EXCEPT ![p] = Len(stack[p]) + 1]
  /\ UNCHANGED <<file, held, msz, nsz, pc>>

ResizeCount(p) ==
  /\ pc[p] = "truncated"
  /\ tail' = tail + (nsz[p] - msz[p])
  /\ pc' = [pc EXCEPT ![p] = "counted"]
  /\ UNCHANGED <<fsz, hsz, data, held, stack, leaked, msz, nsz>>

ResizeSize(p) ==
  /\ pc[p] = "counted"
  /\ hsz' = nsz[p]
  /\ pc' = [pc EXCEPT ![p] = "sized"]
  /\ UNCHANGED <<fsz, tail, data, held, stack, leaked, msz, nsz>>

(* make_current(), lock(UnLock): an exclusive lock is always below. *)
ResizeEnd(p) ==
  /\ pc[p] = "sized"
  /\ MakeCurrent(p)
  /\ stack' = [stack EXCEPT ![p] = Pop(@)]
  /\ nsz' = [nsz EXCEPT ![p] = 0]
  /\ pc' = [pc EXCEPT ![p] = "ready"]
  /\ UNCHANGED <<file, held, leaked>>
-----------------------------------------------------------------------------
(* The process has no open file: the kernel has dropped its lock and mapping. *)
Gone(p) ==
  /\ held' = [held EXCEPT ![p] = "UnLock"]
  /\ stack' = [stack EXCEPT ![p] = <<>>]
  /\ leaked' = [leaked EXCEPT ![p] = 0]
  /\ msz' = [msz EXCEPT ![p] = 0]
  /\ nsz' = [nsz EXCEPT ![p] = 0]
  /\ pc' = [pc EXCEPT ![p] = "closed"]

(* close(): between operations; what is left on the stack was leaked. *)
Close(p) ==
  /\ pc[p] = "ready"
  /\ Len(stack[p]) = leaked[p]
  /\ Gone(p)
  /\ UNCHANGED file

Step(p) ==
  \/ OpenLock(p) \/ OpenCreate(p) \/ OpenMap(p)
  \/ \E c \in Locks : Lock(p, c)
  \/ Unlock(p) \/ Acquire(p) \/ Write(p)
  \/ ResizeTruncate(p) \/ ResizeFail(p) \/ ResizeCount(p) \/ ResizeSize(p) \/ ResizeEnd(p)
  \/ Close(p)

Next == \E p \in Proc : Step(p)

Spec == Init /\ [][Next]_vars

(* A process that is not waiting for a lock goes on, and an operation ends by
   popping what it has pushed; sessions end (QUIT, end of input or the
   ClientTimeout alarm), which closes the container; the kernel grants a lock
   that stays grantable. *)
FairSpec ==
  /\ Spec
  /\ \A p \in Proc :
       /\ WF_vars(OpenCreate(p) \/ OpenMap(p) \/ Acquire(p))
       /\ WF_vars(ResizeCount(p) \/ ResizeSize(p) \/ ResizeEnd(p))
       /\ SF_vars(Unlock(p))
       /\ SF_vars(Close(p))

(* The same, in which a signal can reach a process that waits. *)
SignalSpec == Init /\ [][Next \/ \E p \in Proc : Interrupt(p)]_vars
-----------------------------------------------------------------------------
(* Every variable has its type: the lock stack never overflows, and no more
   frames are leaked than there are. *)
TypeOK ==
  /\ fsz \in Nat /\ hsz \in Nat /\ tail \in Int
  /\ data \in Proc
  /\ held \in [Proc -> Locks \cup {"UnLock"}]
  /\ stack \in [Proc -> Seq(Locks)]
  /\ leaked \in [Proc -> Nat]
  /\ \A p \in Proc : leaked[p] <= Len(stack[p]) /\ Len(stack[p]) <= LockStackSize
  /\ msz \in [Proc -> Nat]
  /\ nsz \in [Proc -> Nat]
  /\ pc \in [Proc -> {"closed", "opening", "opened", "ready", "acquire",
                      "truncated", "counted", "sized"}]

(* A process that runs has the strongest lock any frame of its stack asked
   for: neither a nested lock nor its unlock ever weakens an outer one. *)
LockedMeansHeld ==
  \A p \in Proc : Running(p) =>
    IF \E i \in DOMAIN stack[p] : stack[p][i] = "ExclLock"
      THEN held[p] = "ExclLock"
      ELSE held[p] = IF stack[p] = <<>> THEN "UnLock" ELSE "ShrdLock"

(* Whoever holds the lock sees a finished file: header, free list and file
   agree on its size, and the mapping covers all of it, whatever happened in
   the gaps of upgrades and between open()'s unlock and its first mapping. *)
MappingCurrent ==
  \A p \in Proc : pc[p] = "ready" /\ stack[p] # <<>> =>
    fsz = hsz /\ tail = hsz /\ msz[p] = hsz

(* Between gaining a lock and giving it up a process sees no change that it
   did not make itself. *)
StableWhileLocked ==
  [][\A p \in Proc : Running(p) /\ stack[p] # <<>> =>
       /\ data' # data => data' = p
       /\ <<fsz, hsz, tail>>' # <<fsz, hsz, tail>> => pc'[p] # pc[p]]_vars

(* Processes never all wait for each other: while one waits for the lock, two
   readers that both upgrade included, some process gets it and runs. *)
WaitersServed ==
  (\E p \in Proc : pc[p] = "acquire") ~>
    (\E p \in Proc : pc[p] # "acquire" /\ held[p] # "UnLock")
-----------------------------------------------------------------------------
(* The lock a process can rely on: none while it waits, the frames on its stack
   notwithstanding. *)
Mode == [p \in Proc |-> IF Running(p) THEN Top(stack[p]) ELSE "UnLock"]

SF == INSTANCE SharedFile WITH mode <- Mode, size <- hsz

(* Lock stack, record locks, gaps and the steps of resize together are one lock
   for many readers or one writer on a file that is created once, changes only
   under the exclusive lock and grows in one step. *)
ImplementsSharedFile == SF!Spec
=============================================================================
