----------------------------- MODULE SharedFile -----------------------------
(***************************************************************************)
(* What the locks of an NVcontainer promise to the classes that store data *)
(* in it (NVArray, NVlist, NVHash): a file with one writer or many         *)
(* readers, created before anybody has it.  It changes only under the      *)
(* exclusive lock, and grows in one step.  A lock cannot be exchanged for  *)
(* another one: it is given up first, and others may come in between.      *)
(***************************************************************************)
EXTENDS Integers

CONSTANT Proc   \* the processes

VARIABLES
  mode,         \* the lock each process has
  size,         \* size of the file, 0 before it is created
  data          \* who wrote the user data last

store == <<mode, size, data>>

Init ==
  /\ mode = [p \in Proc |-> "UnLock"]
  /\ size = 0
  /\ data \in Proc

Create ==
  /\ size = 0
  /\ \A q \in Proc : mode[q] = "UnLock"
  /\ size' = 1
  /\ UNCHANGED <<mode, data>>

Gain(p, l) ==
  /\ size # 0
  /\ mode[p] = "UnLock"
  /\ \A q \in Proc \ {p} : mode[q] = "UnLock" \/ (l = "ShrdLock" /\ mode[q] = "ShrdLock")
  /\ mode' = [mode EXCEPT ![p] = l]
  /\ UNCHANGED <<size, data>>

Release(p) ==
  /\ mode' = [mode EXCEPT ![p] = "UnLock"]
  /\ UNCHANGED <<size, data>>

Write(p) ==
  /\ mode[p] = "ExclLock"
  /\ data' = p
  /\ UNCHANGED <<mode, size>>

Grow(p) ==
  /\ mode[p] = "ExclLock"
  /\ size' = size + 1
  /\ UNCHANGED <<mode, data>>

Next ==
  \/ Create
  \/ \E p \in Proc :
       \/ \E l \in {"ShrdLock", "ExclLock"} : Gain(p, l)
       \/ Release(p) \/ Write(p) \/ Grow(p)

Spec == Init /\ [][Next]_store
=============================================================================
