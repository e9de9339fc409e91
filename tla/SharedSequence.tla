--------------------------- MODULE SharedSequence ---------------------------
(***************************************************************************)
(* Shared_Sequence_Number (src/fplog/shared_sequence_number.cpp): the      *)
(* number every message of every application of a host is stamped with.    *)
(* It lives in shared memory and is protected by an interprocess mutex,    *)
(* a semaphore on the systems fplog runs on.  A process that waits for the *)
(* mutex for 5 seconds takes its owner for dead, unlocks the mutex in its  *)
(* place, and waits again.                                                 *)
(*                                                                         *)
(* One step is one access to the semaphore or to the shared memory.        *)
(***************************************************************************)
EXTENDS Integers, Sequences, FiniteSets

CONSTANTS
  Procs,           \* the processes that log
  MaxNumber,       \* bound: no read() begins once the number has reached it
  MaxCrashes,      \* bound: processes that die
  MaxRushes        \* bound: waits of 5 seconds for a mutex that is not lost

ASSUME SequenceAssumption ==
  /\ IsFiniteSet(Procs)
  /\ MaxNumber \in Nat
  /\ MaxCrashes \in Nat
  /\ MaxRushes \in Nat

VARIABLES
  exists,          \* the shared memory object has been created
  number,          \* the number in shared memory
  sem,             \* the semaphore of condition_mutex_
  pc, op,          \* where each process stands, and in what operation if any
  virgin, local,   \* each process's virgin and number
  issued,          \* history: the numbers read() returned
  leaked,          \* history: processes that died owning the mutex
  stolen,          \* history: unlocks in the place of another process
  crashes, rushes  \* what is left of the bounds

memory == <<exists, number>>
locals == <<virgin, local>>
vars == <<memory, sem, pc, op, locals, issued, leaked, stolen, crashes, rushes>>

Owning == {"open", "map", "zero", "load", "store", "unlock"}
Owners == {p \in Procs : pc[p] \in Owning}

Goto(p, place) == pc' = [pc EXCEPT ![p] = place]

----------------------------------------------------------------------------
(* The mutex *)

\* The constructor, read() and the destructor all begin by locking the mutex.
Begin(p, operation, from) ==
  /\ pc[p] = from
  /\ Goto(p, "lock")
  /\ op' = [op EXCEPT ![p] = operation]
  /\ UNCHANGED <<memory, sem, locals, issued, leaked, stolen, crashes, rushes>>

Attach(p) == Begin(p, "attach", "out")
Read(p)   == number < MaxNumber /\ Begin(p, "read", "idle")
Detach(p) == Begin(p, "detach", "idle")

First(operation) == CASE operation = "attach" -> "open"
                      [] operation = "read"   -> "load"
                      [] operation = "detach" -> "unlock"

\* Mutant: the semaphore is taken without looking whether it is free.
AcquireUnchecked(p) ==
  /\ pc[p] = "lock"
  /\ sem' = sem - 1
  /\ Goto(p, First(op[p]))
  /\ UNCHANGED <<memory, op, locals, issued, leaked, stolen, crashes, rushes>>

Acquire(p) ==
  /\ pc[p] = "lock" /\ sem > 0
  /\ sem' = sem - 1
  /\ Goto(p, First(op[p]))
  /\ UNCHANGED <<memory, op, locals, issued, leaked, stolen, crashes, rushes>>

\* Mutant: the wait is only started again.
TimeOutWaitsAgain(p) ==
  /\ pc[p] = "lock" /\ op[p] # "detach" /\ sem = 0
  /\ UNCHANGED vars

\* Mutant: the operation goes on without the mutex.
TimeOutGoesOn(p) ==
  /\ pc[p] = "lock" /\ op[p] # "detach" /\ sem = 0
  /\ Goto(p, First(op[p]))
  /\ UNCHANGED <<memory, sem, op, locals, issued, leaked, stolen, crashes, rushes>>

\* Five seconds have passed: goto relock.  The first to see a dead owner does
\* what is right; anyone else frees a mutex that is in use or already free.
\* The destructor waits without a limit.
TimeOut(p) ==
  /\ pc[p] = "lock" /\ op[p] # "detach" /\ sem = 0
  /\ \/ stolen < leaked /\ UNCHANGED rushes
     \/ stolen >= leaked /\ rushes > 0 /\ rushes' = rushes - 1
  /\ sem' = sem + 1
  /\ stolen' = stolen + 1
  /\ UNCHANGED <<memory, pc, op, locals, issued, leaked, crashes>>

After(operation) == CASE operation = "attach" -> "idle"
                      [] operation = "read"   -> "return"
                      [] operation = "detach" -> "out"

Unlock(p) ==
  /\ pc[p] = "unlock"
  /\ sem' = sem + 1
  /\ Goto(p, After(op[p]))
  /\ op' = [op EXCEPT ![p] = "none"]
  /\ virgin' = [virgin EXCEPT ![p] = FALSE]
  /\ UNCHANGED <<memory, local, issued, leaked, stolen, crashes, rushes>>

----------------------------------------------------------------------------
(* The shared memory *)

\* The constructor looks whether the object exists, creates it if not, gives
\* it its size, and sets the number to zero if it did not.
Open(p) ==
  /\ pc[p] = "open"
  /\ virgin' = [virgin EXCEPT ![p] = ~exists]
  /\ Goto(p, "map")
  /\ UNCHANGED <<memory, sem, op, local, issued, leaked, stolen, crashes, rushes>>

\* Mutant: every process resets the number.
MapAlwaysZeroes(p) ==
  /\ pc[p] = "map"
  /\ exists' = TRUE
  /\ Goto(p, "zero")
  /\ UNCHANGED <<number, sem, op, locals, issued, leaked, stolen, crashes, rushes>>

Map(p) ==
  /\ pc[p] = "map"
  /\ exists' = TRUE
  /\ Goto(p, IF virgin[p] THEN "zero" ELSE "unlock")
  /\ UNCHANGED <<number, sem, op, locals, issued, leaked, stolen, crashes, rushes>>

Zero(p) ==
  /\ pc[p] = "zero"
  /\ number' = 0
  /\ Goto(p, "unlock")
  /\ UNCHANGED <<exists, sem, op, locals, issued, leaked, stolen, crashes, rushes>>

\* read() copies the number, and then the next one back.
Load(p) ==
  /\ pc[p] = "load"
  /\ local' = [local EXCEPT ![p] = number]
  /\ Goto(p, "store")
  /\ UNCHANGED <<memory, sem, op, virgin, issued, leaked, stolen, crashes, rushes>>

Store(p) ==
  /\ pc[p] = "store"
  /\ number' = local[p] + 1
  /\ Goto(p, "unlock")
  /\ UNCHANGED <<exists, sem, op, locals, issued, leaked, stolen, crashes, rushes>>

\* Mutant: the number that is now in the memory is returned.
ReturnShared(p) ==
  /\ pc[p] = "return"
  /\ issued' = Append(issued, number)
  /\ local' = [local EXCEPT ![p] = 0]
  /\ Goto(p, "idle")
  /\ UNCHANGED <<memory, sem, op, virgin, leaked, stolen, crashes, rushes>>

Return(p) ==
  /\ pc[p] = "return"
  /\ issued' = Append(issued, local[p])
  /\ local' = [local EXCEPT ![p] = 0]
  /\ Goto(p, "idle")
  /\ UNCHANGED <<memory, sem, op, virgin, leaked, stolen, crashes, rushes>>

\* The process dies.  The semaphore and the memory outlive it.
Crash(p) ==
  /\ pc[p] # "out" /\ crashes > 0
  /\ crashes' = crashes - 1
  /\ leaked' = IF p \in Owners THEN leaked + 1 ELSE leaked
  /\ Goto(p, "out")
  /\ op' = [op EXCEPT ![p] = "none"]
  /\ virgin' = [virgin EXCEPT ![p] = FALSE]
  /\ local' = [local EXCEPT ![p] = 0]
  /\ UNCHANGED <<memory, sem, issued, stolen, rushes>>

----------------------------------------------------------------------------

Init ==
  /\ exists = FALSE /\ number = 0 /\ sem = 1
  /\ pc = [p \in Procs |-> "out"] /\ op = [p \in Procs |-> "none"]
  /\ virgin = [p \in Procs |-> FALSE] /\ local = [p \in Procs |-> 0]
  /\ issued = <<>> /\ leaked = 0 /\ stolen = 0
  /\ crashes = MaxCrashes /\ rushes = MaxRushes

\* What a process does once it has begun an operation.
Proceed(p) == \/ Acquire(p) \/ TimeOut(p) \/ Unlock(p) \/ Open(p) \/ Map(p)
              \/ Zero(p) \/ Load(p) \/ Store(p) \/ Return(p)

Next == \E p \in Procs : Attach(p) \/ Read(p) \/ Detach(p) \/ Proceed(p) \/ Crash(p)

Spec == Init /\ [][Next]_vars
FairSpec == Spec /\ \A p \in Procs : WF_vars(Proceed(p))

----------------------------------------------------------------------------
(* Properties *)

\* Every variable keeps its type.
TypeOK ==
  /\ exists \in BOOLEAN /\ number \in Nat /\ sem \in Nat
  /\ pc \in [Procs -> Owning \cup {"out", "lock", "return", "idle"}]
  /\ op \in [Procs -> {"attach", "read", "detach", "none"}]
  /\ virgin \in [Procs -> BOOLEAN] /\ local \in [Procs -> Nat]
  /\ issued \in Seq(Nat)
  /\ leaked \in Nat /\ stolen \in Nat /\ crashes \in Nat /\ rushes \in Nat

\* One process at a time touches the shared memory, as long as nobody waits
\* 5 seconds for an owner that is alive, or at the same time as another.
MutualExclusion == \A p, q \in Owners : p = q

\* No number is handed out twice, in one process or in two, over crashes and
\* restarts ("prevent duplicate messages", fplog.h).
NoNumberTwice ==
  \A i, j \in 1 .. Len(issued) : i # j => issued[i] # issued[j]

\* An owner that dies does not lock the others out for ever.
LockComesBack ==
  \A p \in Procs :
    pc[p] = "lock" /\ op[p] # "detach" /\ sem = 0 /\ Owners = {}
      ~> pc[p] # "lock" \/ sem > 0 \/ Owners # {}

N == INSTANCE SequenceNumbers WITH next <- number

Implements == N!Spec
=============================================================================
