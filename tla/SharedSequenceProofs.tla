------------------------ MODULE SharedSequenceProofs ------------------------
(***************************************************************************)
(* Proofs about SharedSequence.  Whatever happens, the semaphore counts    *)
(* the owners that died and the unlocks made in their place.  If every     *)
(* such unlock follows a death, at most one process owns the mutex, and    *)
(* then no number is handed out twice.                                     *)
(***************************************************************************)
EXTENDS SharedSequence, FiniteSetTheorems, TLAPS

Places == Owning \cup {"out", "lock", "return", "idle"}

Step(p) == Attach(p) \/ Read(p) \/ Detach(p) \/ Proceed(p) \/ Crash(p)

\* The operation of a process that stands at a given place.
OpInv ==
  \A p \in Procs :
    /\ pc[p] = "lock" => op[p] \in {"attach", "read", "detach"}
    /\ pc[p] = "unlock" => op[p] \in {"attach", "read", "detach"}
    /\ pc[p] \in {"load", "store"} => op[p] = "read"
    /\ pc[p] \in {"open", "map", "zero"} => op[p] = "attach"

TypeInv == TypeOK /\ OpInv

\* Every step keeps every variable well typed.
LEMMA TypeStep ==
  ASSUME TypeInv, [Next]_vars
  PROVE  TypeInv'
<1> USE DEF TypeInv, TypeOK, OpInv, Owning, memory, locals
<1>1. CASE UNCHANGED vars
  BY <1>1 DEF vars
<1>2. ASSUME NEW p \in Procs, Attach(p) \/ Read(p) \/ Detach(p)
      PROVE  TypeInv'
  BY <1>2 DEF Attach, Read, Detach, Begin, Goto
<1>3. ASSUME NEW p \in Procs, Acquire(p)
      PROVE  TypeInv'
  BY <1>3 DEF Acquire, Goto, First
<1>4. ASSUME NEW p \in Procs, TimeOut(p)
      PROVE  TypeInv'
  BY <1>4 DEF TimeOut
<1>5. ASSUME NEW p \in Procs, Unlock(p)
      PROVE  TypeInv'
  BY <1>5 DEF Unlock, Goto, After
<1>6. ASSUME NEW p \in Procs, Open(p)
      PROVE  TypeInv'
  <2>1. (~exists) \in BOOLEAN
    BY Zenon
  <2>2. virgin' \in [Procs -> BOOLEAN]
    BY <1>6, <2>1, Zenon DEF Open
  <2> QED
    BY <1>6, <2>2 DEF Open, Goto
<1>7. ASSUME NEW p \in Procs, Map(p)
      PROVE  TypeInv'
  BY <1>7 DEF Map, Goto
<1>8. ASSUME NEW p \in Procs, Zero(p)
      PROVE  TypeInv'
  BY <1>8 DEF Zero, Goto
<1>9. ASSUME NEW p \in Procs, Load(p) \/ Store(p)
      PROVE  TypeInv'
  <2>1. CASE Load(p)
    BY <2>1 DEF Load, Goto
  <2>2. CASE Store(p)
    BY <2>2 DEF Store, Goto
  <2> QED
    BY <1>9, <2>1, <2>2
<1>10. ASSUME NEW p \in Procs, Return(p)
       PROVE  TypeInv'
  BY <1>10 DEF Return, Goto
<1>11. ASSUME NEW p \in Procs, Crash(p)
       PROVE  TypeInv'
  BY <1>11 DEF Crash, Goto
<1> QED
  BY <1>1, <1>2, <1>3, <1>4, <1>5, <1>6, <1>7, <1>8, <1>9, <1>10, <1>11
     DEF Next, Proceed

\* At first no process is there.
LEMMA TypeInit ==
  ASSUME Init
  PROVE  TypeInv
<1>1. virgin \in [Procs -> BOOLEAN] /\ exists \in BOOLEAN
  BY Zenon DEF Init
<1>2. /\ crashes \in Nat /\ rushes \in Nat /\ leaked \in Nat /\ stolen \in Nat
      /\ number \in Nat /\ sem \in Nat /\ issued \in Seq(Nat)
  BY SequenceAssumption DEF Init
<1>3. /\ pc \in [Procs -> Owning \cup {"out", "lock", "return", "idle"}]
      /\ op \in [Procs -> {"attach", "read", "detach", "none"}]
      /\ local \in [Procs -> Nat]
  BY DEF Init
<1>4. OpInv
  BY DEF Init, OpInv
<1> QED
  BY <1>1, <1>2, <1>3, <1>4 DEF TypeInv, TypeOK

\* Every variable keeps its type, whatever the processes do.
THEOREM TypeCorrect == Spec => []TypeOK
<1>1. Init => TypeInv
  BY TypeInit
<1>2. TypeInv /\ [Next]_vars => TypeInv'
  BY TypeStep
<1>3. TypeInv => TypeOK
  BY DEF TypeInv
<1> QED
  BY <1>1, <1>2, <1>3, PTL DEF Spec

----------------------------------------------------------------------------

\* The owners are finitely many.
LEMMA OwnersFinite ==
  /\ IsFiniteSet(Owners) /\ Cardinality(Owners) \in Nat
  /\ IsFiniteSet(Owners')
<1>1. Owners \subseteq Procs /\ Owners' \subseteq Procs
  BY DEF Owners
<1> QED
  BY <1>1, FS_Subset, FS_CardinalityType, SequenceAssumption

\* A process that comes in is one owner more, one that leaves one owner less.
LEMMA OwnersChange ==
  ASSUME NEW p \in Procs, pc \in [Procs -> Places], NEW place,
         Goto(p, place)
  PROVE  /\ p \in Owners => \/ place \in Owning /\ Owners' = Owners
                            \/ /\ place \notin Owning
                               /\ Cardinality(Owners') = Cardinality(Owners) - 1
         /\ p \notin Owners => \/ place \notin Owning /\ Owners' = Owners
                               \/ /\ place \in Owning
                                  /\ Cardinality(Owners') = Cardinality(Owners) + 1
<1>1. \A q \in Procs : pc'[q] = IF q = p THEN place ELSE pc[q]
  BY DEF Goto
<1>2. place \in Owning => Owners' = Owners \cup {p}
  BY <1>1 DEF Owners
<1>3. place \notin Owning => Owners' = Owners \ {p}
  BY <1>1 DEF Owners
<1>4. p \notin Owners => Cardinality(Owners \cup {p}) = Cardinality(Owners) + 1
  BY OwnersFinite, FS_AddElement
<1>5. p \in Owners => Cardinality(Owners \ {p}) = Cardinality(Owners) - 1
  BY OwnersFinite, FS_RemoveElement
<1> QED
  BY <1>2, <1>3, <1>4, <1>5

\* What the semaphore counts: one place, less the owners, less those that died
\* as owners, and one more for every unlock in the place of another.
LockCount == sem + Cardinality(Owners) + leaked = 1 + stolen

\* Every step keeps the count of the semaphore.
LEMMA LockCountStep ==
  ASSUME TypeInv, LockCount, [Next]_vars
  PROVE  LockCount'
<1>1. pc \in [Procs -> Places]
  BY DEF TypeInv, TypeOK, Places
<1>2. /\ sem \in Nat /\ leaked \in Nat /\ stolen \in Nat
      /\ Cardinality(Owners) \in Nat
  BY OwnersFinite DEF TypeInv, TypeOK
<1>3. CASE UNCHANGED vars
  BY <1>3 DEF vars, LockCount, Owners
<1>4. ASSUME NEW p \in Procs, Attach(p) \/ Read(p) \/ Detach(p)
      PROVE  LockCount'
  <2>1. p \notin Owners /\ Goto(p, "lock")
    BY <1>4 DEF Attach, Read, Detach, Begin, Owners, Owning
  <2>2. Owners' = Owners
    BY <1>1, <2>1, OwnersChange DEF Owning
  <2> QED
    BY <1>4, <2>2 DEF LockCount, Attach, Read, Detach, Begin
<1>5. ASSUME NEW p \in Procs, Acquire(p)
      PROVE  LockCount'
  <2>1. p \notin Owners /\ Goto(p, First(op[p]))
    BY <1>5 DEF Acquire, Owners, Owning
  <2>2. First(op[p]) \in Owning
    BY <1>5 DEF Acquire, First, Owning, TypeInv, OpInv
  <2>3. Cardinality(Owners') = Cardinality(Owners) + 1
    BY <1>1, <2>1, <2>2, OwnersChange
  <2> QED
    BY <1>2, <1>5, <2>3 DEF LockCount, Acquire
<1>6. ASSUME NEW p \in Procs, TimeOut(p)
      PROVE  LockCount'
  <2>1. Owners' = Owners
    BY <1>6 DEF TimeOut, Owners
  <2> QED
    BY <1>2, <1>6, <2>1 DEF LockCount, TimeOut
<1>7. ASSUME NEW p \in Procs, Unlock(p)
      PROVE  LockCount'
  <2>1. p \in Owners /\ Goto(p, After(op[p]))
    BY <1>7 DEF Unlock, Owners, Owning
  <2>2. After(op[p]) \notin Owning
    BY <1>7 DEF Unlock, After, Owning, TypeInv, OpInv
  <2>3. Cardinality(Owners') = Cardinality(Owners) - 1
    BY <1>1, <2>1, <2>2, OwnersChange
  <2> QED
    BY <1>2, <1>7, <2>3 DEF LockCount, Unlock
<1>8. ASSUME NEW p \in Procs,
             Open(p) \/ Map(p) \/ Zero(p) \/ Load(p) \/ Store(p)
      PROVE  LockCount'
  <2>1. p \in Owners
    BY <1>8 DEF Open, Map, Zero, Load, Store, Owners, Owning
  <2>2. \E place \in Owning : Goto(p, place)
    BY <1>8 DEF Open, Map, Zero, Load, Store, Owning
  <2>3. Owners' = Owners
    BY <1>1, <2>1, <2>2, OwnersChange
  <2> QED
    BY <1>8, <2>3 DEF LockCount, Open, Map, Zero, Load, Store
<1>9. ASSUME NEW p \in Procs, Return(p)
      PROVE  LockCount'
  <2>1. p \notin Owners /\ Goto(p, "idle")
    BY <1>9 DEF Return, Owners, Owning
  <2>2. Owners' = Owners
    BY <1>1, <2>1, OwnersChange DEF Owning
  <2> QED
    BY <1>9, <2>2 DEF LockCount, Return
<1>10. ASSUME NEW p \in Procs, Crash(p)
       PROVE  LockCount'
  <2>1. Goto(p, "out") /\ "out" \notin Owning
    BY <1>10 DEF Crash, Owning
  <2>2. CASE p \in Owners
    <3>1. Cardinality(Owners') = Cardinality(Owners) - 1
      BY <1>1, <2>1, <2>2, OwnersChange
    <3> QED
      BY <1>2, <1>10, <2>2, <3>1 DEF LockCount, Crash
  <2>3. CASE p \notin Owners
    <3>1. Owners' = Owners
      BY <1>1, <2>1, <2>3, OwnersChange
    <3> QED
      BY <1>10, <2>3, <3>1 DEF LockCount, Crash
  <2> QED
    BY <2>2, <2>3
<1> QED
  BY <1>3, <1>4, <1>5, <1>6, <1>7, <1>8, <1>9, <1>10 DEF Next, Proceed

\* The unlocks that did not follow a death were made in a hurry.
RushCount == rushes \in 0 .. MaxRushes /\ stolen - leaked <= MaxRushes - rushes

LEMMA RushCountStep ==
  ASSUME TypeInv, RushCount, [Next]_vars
  PROVE  RushCount'
<1>1. leaked \in Nat /\ stolen \in Nat /\ MaxRushes \in Nat
  BY SequenceAssumption DEF TypeInv, TypeOK
<1>2. CASE UNCHANGED vars
  BY <1>2 DEF vars, RushCount
<1>3. ASSUME NEW p \in Procs, TimeOut(p)
      PROVE  RushCount'
  <2>1. CASE stolen < leaked /\ UNCHANGED rushes
    BY <1>1, <1>3, <2>1 DEF TimeOut, RushCount
  <2>2. CASE rushes > 0 /\ rushes' = rushes - 1
    BY <1>1, <1>3, <2>2 DEF TimeOut, RushCount
  <2> QED
    BY <1>3, <2>1, <2>2 DEF TimeOut
<1>4. ASSUME NEW p \in Procs, Crash(p)
      PROVE  RushCount'
  BY <1>1, <1>4 DEF Crash, RushCount
<1>5. ASSUME NEW p \in Procs,
             \/ Attach(p) \/ Read(p) \/ Detach(p) \/ Acquire(p) \/ Unlock(p)
             \/ Open(p) \/ Map(p) \/ Zero(p) \/ Load(p) \/ Store(p) \/ Return(p)
      PROVE  RushCount'
  BY <1>5 DEF Attach, Read, Detach, Begin, Acquire, Unlock, Open, Map, Zero,
              Load, Store, Return, RushCount
<1> QED
  BY <1>2, <1>3, <1>4, <1>5 DEF Next, Proceed

\* The processes that are in, or that the semaphore would let in.
OneMoreEachRush == sem + Cardinality(Owners) <= 1 + (MaxRushes - rushes)

\* Whatever dies, a wait that gives up on a live owner, or on a dead one that
\* another has unlocked for already, lets one process more in and no other step
\* does: after k of them up to k + 1 processes are in the shared memory.
THEOREM RushesLetOneMoreIn == Spec => []OneMoreEachRush
<1> DEFINE Inv == TypeInv /\ LockCount /\ RushCount
<1>1. Init => Inv
  <2>1. Init => TypeInv
    BY TypeInit
  <2>2. Init => Owners = {}
    BY DEF Init, Owners, Owning
  <2>3. Init => Cardinality(Owners) = 0
    BY <2>2, FS_EmptySet
  <2>4. Init => sem = 1 /\ leaked = 0 /\ stolen = 0 /\ rushes = MaxRushes
    BY DEF Init
  <2> QED
    BY <2>1, <2>3, <2>4, SequenceAssumption DEF LockCount, RushCount
<1>2. Inv /\ [Next]_vars => Inv'
  BY TypeStep, LockCountStep, RushCountStep
<1>3. Inv => OneMoreEachRush
  <2>1. TypeInv => /\ sem \in Nat /\ leaked \in Nat /\ stolen \in Nat
                   /\ Cardinality(Owners) \in Nat
    BY OwnersFinite DEF TypeInv, TypeOK
  <2> QED
    BY <2>1, SequenceAssumption DEF LockCount, RushCount, OneMoreEachRush
<1> QED
  BY <1>1, <1>2, <1>3, PTL DEF Spec

----------------------------------------------------------------------------
(* Nobody rushes: every stolen mutex had lost its owner. *)

Patience == rushes = 0 /\ stolen <= leaked

LockInv == TypeInv /\ LockCount /\ Patience

\* With nobody in a hurry an unlock in another's place follows a death.
LEMMA PatienceStep ==
  ASSUME TypeInv, Patience, [Next]_vars
  PROVE  Patience'
<1>1. leaked \in Nat /\ stolen \in Nat
  BY DEF TypeInv, TypeOK
<1>2. CASE UNCHANGED vars
  BY <1>2 DEF vars, Patience
<1>3. ASSUME NEW p \in Procs, TimeOut(p)
      PROVE  Patience'
  BY <1>1, <1>3 DEF TimeOut, Patience
<1>4. ASSUME NEW p \in Procs, Crash(p)
      PROVE  Patience'
  BY <1>1, <1>4 DEF Crash, Patience
<1>5. ASSUME NEW p \in Procs,
             \/ Attach(p) \/ Read(p) \/ Detach(p) \/ Acquire(p) \/ Unlock(p)
             \/ Open(p) \/ Map(p) \/ Zero(p) \/ Load(p) \/ Store(p) \/ Return(p)
      PROVE  Patience'
  BY <1>5 DEF Attach, Read, Detach, Begin, Acquire, Unlock, Open, Map, Zero,
              Load, Store, Return, Patience
<1> QED
  BY <1>2, <1>3, <1>4, <1>5 DEF Next, Proceed

\* The count of the semaphore leaves room for one owner.
LEMMA OneOwner ==
  ASSUME LockInv
  PROVE  /\ MutualExclusion
         /\ Owners # {} => sem = 0
<1>1. /\ sem \in Nat /\ leaked \in Nat /\ stolen \in Nat
      /\ Cardinality(Owners) \in Nat /\ IsFiniteSet(Owners)
  BY OwnersFinite DEF LockInv, TypeInv, TypeOK
<1>2. sem + Cardinality(Owners) <= 1
  BY <1>1 DEF LockInv, LockCount, Patience
<1>3. ASSUME NEW p \in Owners, NEW q \in Owners, p # q
      PROVE  FALSE
  <2>1. {p, q} \subseteq Owners
    OBVIOUS
  <2>2. Cardinality({p, q}) = 2
    <3>1. IsFiniteSet({p}) /\ Cardinality({p}) = 1
      BY FS_Singleton
    <3>2. Cardinality({p} \cup {q}) = 2
      BY <1>3, <3>1, FS_AddElement
    <3>3. {p, q} = {p} \cup {q}
      OBVIOUS
    <3> QED
      BY <3>2, <3>3
  <2>3. Cardinality({p, q}) <= Cardinality(Owners)
    BY <1>1, <2>1, FS_Subset
  <2> QED
    BY <1>1, <1>2, <2>2, <2>3
<1>4. ASSUME Owners # {}
      PROVE  sem = 0
  <2>1. Cardinality(Owners) # 0
    BY <1>1, <1>4, FS_EmptySet
  <2> QED
    BY <1>1, <1>2, <2>1
<1> QED
  BY <1>3, <1>4 DEF MutualExclusion

\* The lock invariant holds of every behaviour in which nobody rushes.
LEMMA LockInvariant ==
  ASSUME MaxRushes = 0
  PROVE  Spec => []LockInv
<1>1. Init => LockInv
  <2>1. Init => Cardinality(Owners) = 0
    <3>1. Init => Owners = {}
      BY DEF Init, Owners, Owning
    <3> QED
      BY <3>1, FS_EmptySet
  <2>2. Init => sem = 1 /\ leaked = 0 /\ stolen = 0 /\ rushes = 0
    BY DEF Init
  <2> QED
    BY TypeInit, <2>1, <2>2 DEF LockInv, LockCount, Patience
<1>2. LockInv /\ [Next]_vars => LockInv'
  BY TypeStep, LockCountStep, PatienceStep DEF LockInv
<1> QED
  BY <1>1, <1>2, PTL DEF Spec

\* As long as nobody waits 5 seconds for a live owner, and no two processes
\* take the same owner for dead, one process at a time owns the mutex.
THEOREM Exclusive ==
  ASSUME MaxRushes = 0
  PROVE  Spec => []MutualExclusion
<1>1. LockInv => MutualExclusion
  BY OneOwner
<1> QED
  BY <1>1, LockInvariant, PTL

----------------------------------------------------------------------------
(* The numbers *)

\* A process that has the number of its read() and has not returned it yet.
Holds(p) == pc[p] = "return" \/ (pc[p] = "unlock" /\ op[p] = "read")

\* Where a process can only be when the shared memory object exists.
MemoryInv ==
  /\ \A p \in Procs :
       /\ pc[p] \in {"zero", "load", "store", "unlock", "idle", "return"} => exists
       /\ pc[p] = "lock" /\ op[p] # "attach" => exists
       /\ pc[p] = "zero" \/ (pc[p] = "map" /\ virgin[p]) => number = 0
  /\ ~exists => number = 0

\* Numbers that are held or issued have been counted, and no two are the same.
NumberInv ==
  /\ \A p \in Procs : pc[p] = "store" => local[p] = number
  /\ \A p \in Procs : Holds(p) =>
       /\ local[p] < number
       /\ \A i \in 1 .. Len(issued) : issued[i] # local[p]
       /\ \A q \in Procs : Holds(q) /\ p # q => local[p] # local[q]
  /\ \A i \in 1 .. Len(issued) : issued[i] < number
  /\ NoNumberTwice

SequenceInv == LockInv /\ MemoryInv /\ NumberInv

\* Every step keeps what is known of the shared memory.
LEMMA MemoryStep ==
  ASSUME LockInv, MemoryInv, NumberInv, [Next]_vars
  PROVE  MemoryInv'
<1> USE DEF MemoryInv, memory, locals
<1>1. /\ pc \in [Procs -> Places] /\ virgin \in [Procs -> BOOLEAN]
      /\ op \in [Procs -> {"attach", "read", "detach", "none"}]
      /\ local \in [Procs -> Nat] /\ number \in Nat /\ OpInv
  BY DEF LockInv, TypeInv, TypeOK, Places
<1>2. CASE UNCHANGED vars
  BY <1>2 DEF vars
<1>3. ASSUME NEW p \in Procs, Attach(p) \/ Read(p) \/ Detach(p)
      PROVE  MemoryInv'
  BY <1>1, <1>3 DEF Attach, Read, Detach, Begin, Goto
<1>4. ASSUME NEW p \in Procs, Acquire(p)
      PROVE  MemoryInv'
  BY <1>1, <1>4 DEF Acquire, Goto, First, OpInv
<1>5. ASSUME NEW p \in Procs, TimeOut(p)
      PROVE  MemoryInv'
  BY <1>5 DEF TimeOut
<1>6. ASSUME NEW p \in Procs, Unlock(p)
      PROVE  MemoryInv'
  BY <1>1, <1>6 DEF Unlock, Goto, After, OpInv
<1>7. ASSUME NEW p \in Procs, Open(p)
      PROVE  MemoryInv'
  BY <1>1, <1>7 DEF Open, Goto, OpInv
<1>8. ASSUME NEW p \in Procs, Map(p)
      PROVE  MemoryInv'
  BY <1>1, <1>8 DEF Map, Goto, OpInv
<1>9. ASSUME NEW p \in Procs, Zero(p)
      PROVE  MemoryInv'
  BY <1>1, <1>9 DEF Zero, Goto
<1>10. ASSUME NEW p \in Procs, Load(p)
       PROVE  MemoryInv'
  BY <1>1, <1>10 DEF Load, Goto
<1>11. ASSUME NEW p \in Procs, Store(p)
       PROVE  MemoryInv'
  <2>1. \A q \in Procs : q # p => pc[q] \notin Owning
    BY <1>11, OneOwner DEF Store, MutualExclusion, Owners, Owning
  <2> QED
    BY <1>1, <1>11, <2>1 DEF Store, Goto, Owning
<1>12. ASSUME NEW p \in Procs, Return(p)
       PROVE  MemoryInv'
  BY <1>1, <1>12 DEF Return, Goto
<1>13. ASSUME NEW p \in Procs, Crash(p)
       PROVE  MemoryInv'
  BY <1>1, <1>13 DEF Crash, Goto
<1> QED
  BY <1>2, <1>3, <1>4, <1>5, <1>6, <1>7, <1>8, <1>9, <1>10, <1>11, <1>12, <1>13
     DEF Next, Proceed

\* Every step keeps the numbers apart.
LEMMA NumberStep ==
  ASSUME LockInv, MemoryInv, NumberInv, [Next]_vars
  PROVE  NumberInv'
<1> USE DEF NumberInv, Holds, NoNumberTwice, memory, locals
<1>1. /\ pc \in [Procs -> Places]
      /\ op \in [Procs -> {"attach", "read", "detach", "none"}]
      /\ local \in [Procs -> Nat] /\ number \in Nat /\ issued \in Seq(Nat)
      /\ OpInv
  BY DEF LockInv, TypeInv, TypeOK, Places
<1>2. CASE UNCHANGED vars
  BY <1>2 DEF vars
<1>3. ASSUME NEW p \in Procs, Attach(p) \/ Read(p) \/ Detach(p)
      PROVE  NumberInv'
  <2>1. /\ pc[p] \in {"out", "idle"} /\ pc' = [pc EXCEPT ![p] = "lock"]
        /\ UNCHANGED <<number, local, issued>>
        /\ \A q \in Procs : q # p => op'[q] = op[q]
    BY <1>1, <1>3 DEF Attach, Read, Detach, Begin, Goto
  <2> QED
    BY <1>1, <2>1
<1>4. ASSUME NEW p \in Procs, Acquire(p)
      PROVE  NumberInv'
  BY <1>1, <1>4 DEF Acquire, Goto, First, OpInv
<1>5. ASSUME NEW p \in Procs, TimeOut(p)
      PROVE  NumberInv'
  BY <1>5 DEF TimeOut
<1>6. ASSUME NEW p \in Procs, Unlock(p)
      PROVE  NumberInv'
  BY <1>1, <1>6 DEF Unlock, Goto, After, OpInv
<1>7. ASSUME NEW p \in Procs, Open(p) \/ Map(p)
      PROVE  NumberInv'
  BY <1>1, <1>7 DEF Open, Map, Goto, OpInv
<1>8. ASSUME NEW p \in Procs, Zero(p)
      PROVE  NumberInv'
  BY <1>1, <1>8 DEF Zero, Goto, MemoryInv, OpInv
<1>9. ASSUME NEW p \in Procs, Load(p)
      PROVE  NumberInv'
  BY <1>1, <1>9 DEF Load, Goto
<1>10. ASSUME NEW p \in Procs, Store(p)
       PROVE  NumberInv'
  <2>1. \A q \in Procs : q # p => pc[q] \notin Owning
    BY <1>10, OneOwner DEF Store, MutualExclusion, Owners, Owning
  <2>2. /\ number' = number + 1 /\ local[p] = number
        /\ UNCHANGED <<local, issued, op>>
    BY <1>10 DEF Store
  <2>3. \A q \in Procs : q # p => pc'[q] = pc[q]
    BY <1>1, <1>10 DEF Store, Goto
  <2>4. pc'[p] = "unlock" /\ op[p] = "read" /\ ~Holds(p)
    BY <1>1, <1>10 DEF Store, Goto, OpInv
  <2>5. \A q \in Procs : q # p => pc[q] \notin {"store", "unlock"}
    BY <2>1 DEF Owning
  <2>6. \A q \in Procs : q # p => (Holds(q)' <=> Holds(q))
    BY <2>2, <2>3
  <2>7. \A q \in Procs : Holds(q) => q # p /\ local[q] < local[p]
    BY <2>2, <2>4
  <2>8. \A q \in Procs : Holds(q)' =>
          /\ local'[q] < number'
          /\ \A i \in 1 .. Len(issued') : issued'[i] # local'[q]
    BY <1>1, <2>2, <2>6
  <2>9. \A q, r \in Procs : Holds(q)' /\ Holds(r)' /\ q # r => local'[q] # local'[r]
    BY <1>1, <2>2, <2>6, <2>7
  <2>10. \A q \in Procs : pc'[q] # "store"
    BY <2>3, <2>4, <2>5
  <2>11. (\A i \in 1 .. Len(issued') : issued'[i] < number') /\ NoNumberTwice'
    BY <1>1, <2>2
  <2> QED
    BY <2>8, <2>9, <2>10, <2>11
<1>11. ASSUME NEW p \in Procs, Return(p)
       PROVE  NumberInv'
  <2>1. /\ issued' = Append(issued, local[p])
        /\ Len(issued') = Len(issued) + 1
        /\ issued'[Len(issued) + 1] = local[p]
        /\ \A i \in 1 .. Len(issued) : issued'[i] = issued[i]
    BY <1>1, <1>11 DEF Return
  <2>2. Holds(p) /\ ~Holds(p)' /\ pc'[p] = "idle"
    BY <1>1, <1>11 DEF Return, Goto
  <2>3. \A q \in Procs : q # p =>
          /\ pc'[q] = pc[q] /\ local'[q] = local[q] /\ op'[q] = op[q]
    BY <1>1, <1>11 DEF Return, Goto
  <2>4. number' = number
    BY <1>11 DEF Return
  <2>5. NoNumberTwice'
    BY <1>1, <2>1, <2>2
  <2>6. \A i \in 1 .. Len(issued') : issued'[i] < number'
    BY <1>1, <2>1, <2>2, <2>4
  <2>7. \A q \in Procs : Holds(q)' => q # p /\ Holds(q)
    BY <2>2, <2>3
  <2>8. \A q \in Procs : Holds(q)' =>
          /\ local'[q] < number'
          /\ \A i \in 1 .. Len(issued') : issued'[i] # local'[q]
    BY <1>1, <2>1, <2>2, <2>3, <2>4, <2>7
  <2>9. \A q, r \in Procs : Holds(q)' /\ Holds(r)' /\ q # r => local'[q] # local'[r]
    BY <2>3, <2>7
  <2>10. \A q \in Procs : pc'[q] = "store" => local'[q] = number'
    BY <2>2, <2>3, <2>4
  <2> QED
    BY <2>5, <2>6, <2>8, <2>9, <2>10
<1>12. ASSUME NEW p \in Procs, Crash(p)
       PROVE  NumberInv'
  BY <1>1, <1>12 DEF Crash, Goto
<1> QED
  BY <1>2, <1>3, <1>4, <1>5, <1>6, <1>7, <1>8, <1>9, <1>10, <1>11, <1>12
     DEF Next, Proceed

\* What the numbers rest on holds of every behaviour in which nobody rushes.
LEMMA SequenceInvariant ==
  ASSUME MaxRushes = 0
  PROVE  Spec => []SequenceInv
<1>1. Init => MemoryInv /\ NumberInv
  BY DEF Init, MemoryInv, NumberInv, NoNumberTwice, Holds
<1>2. LockInv /\ LockInv' /\ MemoryInv /\ NumberInv /\ [Next]_vars
        => (MemoryInv /\ NumberInv)'
  BY MemoryStep, NumberStep
<1> QED
  BY <1>1, <1>2, LockInvariant, PTL DEF Spec, SequenceInv

\* No number is handed out twice, whichever processes die and come back, as
\* long as nobody takes a live owner for dead.
THEOREM NumbersUnique ==
  ASSUME MaxRushes = 0
  PROVE  Spec => []NoNumberTwice
<1>1. SequenceInv => NoNumberTwice
  BY DEF SequenceInv, NumberInv
<1> QED
  BY <1>1, SequenceInvariant, PTL

\* The same in one statement: the code implements SequenceNumbers.
THEOREM Refinement ==
  ASSUME MaxRushes = 0
  PROVE  Spec => Implements
<1>1. Init => N!Init
  BY DEF Init, N!Init
<1>2. SequenceInv /\ [Next]_vars => [N!Next]_(N!vars)
  <2> SUFFICES ASSUME SequenceInv, [Next]_vars
               PROVE  N!Next \/ UNCHANGED N!vars
    OBVIOUS
  <2> USE DEF N!vars, memory
  <2>1. CASE UNCHANGED vars
    BY <2>1 DEF vars
  <2>2. ASSUME NEW p \in Procs,
               \/ Attach(p) \/ Read(p) \/ Detach(p) \/ Acquire(p) \/ Unlock(p)
               \/ TimeOut(p) \/ Open(p) \/ Map(p) \/ Load(p) \/ Crash(p)
        PROVE  UNCHANGED N!vars
    BY <2>2 DEF Attach, Read, Detach, Begin, Acquire, Unlock, TimeOut, Open,
                Map, Load, Crash
  <2>3. ASSUME NEW p \in Procs, Zero(p)
        PROVE  UNCHANGED N!vars
    BY <2>3 DEF Zero, SequenceInv, MemoryInv
  <2>4. ASSUME NEW p \in Procs, Store(p)
        PROVE  N!Reserve
    BY <2>4 DEF Store, N!Reserve, SequenceInv, NumberInv
  <2>5. ASSUME NEW p \in Procs, Return(p)
        PROVE  N!Next
    <3>1. local[p] \in 0 .. number
      BY <2>5 DEF Return, SequenceInv, NumberInv, Holds, LockInv, TypeInv, TypeOK
    <3>2. N!Issue(local[p])
      BY <2>5 DEF Return, N!Issue, SequenceInv, NumberInv, Holds
    <3> QED
      BY <3>1, <3>2 DEF N!Next
  <2> QED
    BY <2>1, <2>2, <2>3, <2>4, <2>5 DEF Next, Proceed, N!Next
<1> QED
  BY <1>1, <1>2, SequenceInvariant, PTL DEF Spec, Implements, N!Spec
=============================================================================
