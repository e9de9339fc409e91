-------------------------- MODULE FplogClientProofs --------------------------
(***************************************************************************)
(* Proofs about FplogClient, for all values of its constants: types, the   *)
(* order in which the daemon reads, what happens to every message, and     *)
(* when one is read twice.                                                 *)
(***************************************************************************)
EXTENDS FplogClient, ThinningProofs, FiniteSetTheorems, TLAPS

\* A write of the protocol appends the message to what the daemon has read, or
\* leaves that alone; it counts and notes with the right types.
LEMMA WriteSteps ==
  ASSUME TypeOK, NEW n \in Numbers, WriteOk(n) \/ WriteFails(n)
  PROVE  /\ sent' = sent \/ sent' = Append(sent, n)
         /\ sent' \in Seq(Numbers) /\ gone' \subseteq Numbers
         /\ late' \in Nat /\ faults' \in Nat
         /\ WriteOk(n) => n \in Elements(sent') \cup gone'
         /\ gone \subseteq gone'
<1>1. /\ sent' = sent \/ sent' = Append(sent, n)
      /\ late' \in Nat /\ faults' \in Nat /\ gone' \subseteq Numbers
      /\ gone \subseteq gone'
  BY DEF TypeOK, WriteOk, WriteFails, Fault, Delivered, world
<1>2. sent' \in Seq(Numbers)
  BY <1>1 DEF TypeOK
<1>3. ASSUME WriteOk(n)
      PROVE  n \in Elements(sent') \cup gone'
  <2>1. CASE sent' = Append(sent, n)
    <3>1. Len(sent') \in 1 .. Len(sent') /\ sent'[Len(sent')] = n
      BY <2>1 DEF TypeOK
    <3> QED BY <3>1 DEF Elements
  <2>2. CASE n \in gone'
    BY <2>2
  <2> QED BY <1>3, <2>1, <2>2 DEF WriteOk, Delivered, Fault
<1> QED BY <1>1, <1>2, <1>3

\* What an emergency leaves of the queue, and the message pushed then, is a
\* sequence of numbers again.
LEMMA EnqueueTypes ==
  ASSUME mq \in Seq(Numbers), NEW n \in Numbers, Enqueue(n)
  PROVE  mq' \in Seq(Numbers)
<1>1. CASE mq' = Append(mq, n)
  BY <1>1
<1>2. ASSUME NEW kept \in Thinned(mq), mq' = Append(kept, n)
      PROVE  mq' \in Seq(Numbers)
  BY <1>2, ThinnedFacts
<1> QED BY <1>1, <1>2 DEF Enqueue

\* Every variable keeps its type.
THEOREM TypeCorrect == Spec => []TypeOK
<1>1. Init => TypeOK
  <2> SUFFICES ASSUME Init PROVE TypeOK
    OBVIOUS
  <2>1. <<>> \in Seq(Numbers)
    OBVIOUS
  <2>2. /\ async \in BOOLEAN /\ crashed \in BOOLEAN
        /\ up \in BOOLEAN /\ switched \in BOOLEAN
    BY Zenon DEF Init
  <2>3. exists \in BOOLEAN /\ (exists <=> reader # "none")
    BY Zenon DEF Init
  <2> QED BY <2>1, <2>2, <2>3, ClientAssumption DEF ClientAssumption, Init, TypeOK, None
<1>2. TypeOK /\ [Next]_vars => TypeOK'
  <2> SUFFICES ASSUME TypeOK, [Next]_vars PROVE TypeOK'
    OBVIOUS
  <2> USE ClientAssumption DEF ClientAssumption
  <2>1. ASSUME NEW how \in Inits, NEW kind \in BOOLEAN, InitLog(how, kind)
        PROVE  TypeOK'
    BY <2>1 DEF TypeOK, InitLog, call, world, daemon
  <2>2. CASE WriteAsync
    <3>1. number' \in Numbers
      BY <2>2 DEF WriteAsync, Writing, TypeOK, Numbers
    <3>2. mq' \in Seq(Numbers)
      BY <2>2, <3>1, EnqueueTypes DEF WriteAsync, TypeOK
    <3> QED BY <2>2, <3>1, <3>2
            DEF WriteAsync, Writing, TypeOK, Numbers, None, call, impl, world, daemon
  <2>3. CASE WriteSync
    BY <2>3 DEF WriteSync, Writing, TypeOK, None, impl, world, daemon
  <2>4. CASE ShutdownBegins
    BY <2>4 DEF ShutdownBegins, TypeOK, impl, world, daemon
  <2>5. CASE SyncTry
    <3>1. CASE WildWrite
      BY <3>1 DEF WildWrite, TypeOK, call, impl, world, daemon
    <3>2. ASSUME WriteOk(number), SyncSucceeds,
                 UNCHANGED <<impl, number, mq, reader, hand, crashed, daemon>>
          PROVE  TypeOK'
      <4>1. number \in Numbers
        BY <2>5 DEF SyncTry, TypeOK, Numbers, None
      <4> QED BY <3>2, <4>1, WriteSteps DEF SyncSucceeds, TypeOK, impl, daemon
    <3>3. ASSUME WriteFails(number), SyncFails, api = "write",
                 UNCHANGED <<impl, number, mq, reader, hand, crashed, daemon>>
          PROVE  TypeOK'
      <4>1. number \in Numbers
        BY <3>3 DEF TypeOK, Numbers, None
      <4>2. tries' \in 0 .. SyncRetries
        BY <3>3 DEF SyncFails, TypeOK
      <4> QED BY <3>3, <4>1, <4>2, WriteSteps DEF SyncFails, TypeOK, impl, daemon
    <3> QED BY <2>5, <3>1, <3>2, <3>3 DEF SyncTry
  <2>6. CASE ShutdownEnds
    <3>1. <<>> \in Seq(Numbers)
      OBVIOUS
    <3>2. crashed' \in BOOLEAN /\ async' \in BOOLEAN /\ exists' \in BOOLEAN
      BY <2>6, Zenon DEF ShutdownEnds
    <3>3. exists' <=> reader' # "none"
      BY <2>6, Zenon DEF ShutdownEnds
    <3> QED BY <2>6, <3>1, <3>2, <3>3 DEF ShutdownEnds, TypeOK, world, daemon
  <2>7. CASE ReaderLoop
    BY <2>7 DEF ReaderLoop, TypeOK, call, impl, world, daemon
  <2>8. CASE ReaderTake
    <3>1. mq # <<>> => Head(mq) \in Numbers /\ Tail(mq) \in Seq(Numbers)
      BY DEF TypeOK
    <3>2. CASE UNCHANGED <<hand, mq>>
      BY <2>8, <3>2 DEF ReaderTake, TypeOK, call, impl, world, daemon
    <3>3. CASE mq # <<>> /\ hand' = Head(mq) /\ mq' = Tail(mq)
      <4>1. mq' \in Seq(Numbers) /\ hand' \in 0 .. MaxNumber
        BY <3>1, <3>3 DEF Numbers
      <4> QED BY <2>8, <4>1 DEF ReaderTake, TypeOK, call, impl, world, daemon
    <3> QED BY <2>8, <3>2, <3>3 DEF ReaderTake
  <2>9. CASE ReaderRetry
    BY <2>9 DEF ReaderRetry, TypeOK, None, call, impl, world, daemon
  <2>10. CASE ReaderWrite
    <3>1. CASE WildWrite
      BY <3>1 DEF WildWrite, TypeOK, call, impl, world, daemon
    <3>2. ASSUME \/ WriteOk(hand) /\ ReaderSent
                 \/ WriteFails(hand) /\ ReaderFailed,
                 reader = "write",
                 UNCHANGED <<call, impl, number, mq, crashed, daemon>>
          PROVE  TypeOK'
      <4>1. hand \in Numbers
        BY <3>2 DEF TypeOK, Numbers, None
      <4>2. /\ sent' \in Seq(Numbers) /\ gone' \subseteq Numbers
            /\ late' \in Nat /\ faults' \in Nat
        BY <3>2, <4>1, WriteSteps
      <4> QED BY <3>2, <4>2
              DEF ReaderSent, ReaderFailed, TypeOK, None, call, impl, daemon
    <3> QED BY <2>10, <3>1, <3>2 DEF ReaderWrite
  <2>11. CASE DaemonStops
    <3>1. up' \in BOOLEAN
      BY <2>11, Zenon DEF DaemonStops
    <3> QED BY <2>11, <3>1 DEF DaemonStops, TypeOK, call, impl, world
  <2>12. CASE DaemonStarts
    BY <2>12 DEF DaemonStarts, TypeOK, call, impl, world
  <2>13. CASE UNCHANGED vars
    BY <2>13 DEF vars, TypeOK, call, impl, world, daemon
  <2> QED BY <2>1, <2>2, <2>3, <2>4, <2>5, <2>6, <2>7, <2>8, <2>9, <2>10, <2>11, <2>12, <2>13
          DEF Next, Application, Continue, Reader
<1> QED BY <1>1, <1>2, PTL DEF Spec

----------------------------------------------------------------------------
(* The order in which the daemon reads *)

\* What has been sent, what the reader holds, and what waits in the queue come
\* in this order, each part sorted, and nothing is newer than the last number
\* drawn.  While logging is synchronous nothing waits.
Sorted(q) == \A i, j \in 1 .. Len(q) : i < j => q[i] < q[j]

OrderInv ==
  ~switched =>
    /\ InOrder
    /\ Sorted(mq)
    /\ hand <= number
    /\ \A i \in 1 .. Len(mq) : hand < mq[i] /\ mq[i] <= number
    /\ \A i \in 1 .. Len(sent) : sent[i] <= number /\ (hand # None => sent[i] <= hand)
    /\ \A i \in 1 .. Len(sent) : \A j \in 1 .. Len(mq) : sent[i] < mq[j]
    /\ ~async => mq = <<>> /\ hand = None
    /\ api = "write" => ~async

\* An emergency keeps a choice of the old messages, and the new one is last.
LEMMA EnqueueChooses ==
  ASSUME mq \in Seq(Numbers), NEW n \in Numbers, Enqueue(n)
  PROVE  \E k \in 0 .. Len(mq) : \E f \in Picks(k, Len(mq)) :
           /\ Len(mq') = k + 1
           /\ \A i \in 1 .. k : mq'[i] = mq[f[i]]
           /\ mq'[k + 1] = n
<1>1. ASSUME NEW kept \in Seq(Numbers), mq' = Append(kept, n), Len(kept) <= Len(mq),
             \E f \in Picks(Len(kept), Len(mq)) : \A i \in 1 .. Len(kept) : kept[i] = mq[f[i]]
      PROVE  \E k \in 0 .. Len(mq) : \E f \in Picks(k, Len(mq)) :
               /\ Len(mq') = k + 1
               /\ \A i \in 1 .. k : mq'[i] = mq[f[i]]
               /\ mq'[k + 1] = n
  <2>1. PICK f \in Picks(Len(kept), Len(mq)) : \A i \in 1 .. Len(kept) : kept[i] = mq[f[i]]
    BY <1>1
  <2>2. Len(kept) \in Nat /\ Len(mq) \in Nat
    OBVIOUS
  <2>3. Len(kept) \in 0 .. Len(mq)
    BY <1>1, <2>2
  <2>4. /\ Len(mq') = Len(kept) + 1
        /\ \A i \in 1 .. Len(kept) : mq'[i] = kept[i]
        /\ mq'[Len(kept) + 1] = n
    BY <1>1
  <2> QED BY <2>1, <2>3, <2>4
<1>2. CASE mq' = Append(mq, n)
  BY <1>1, <1>2, AllKept
<1>3. ASSUME NEW kept \in Thinned(mq), mq' = Append(kept, n)
      PROVE  kept \in Seq(Numbers) /\ Len(kept) <= Len(mq)
             /\ \E f \in Picks(Len(kept), Len(mq)) : \A i \in 1 .. Len(kept) : kept[i] = mq[f[i]]
  BY <1>3, ThinnedFacts
<1> QED BY <1>1, <1>2, <1>3 DEF Enqueue

\* The arithmetic of the types.
LEMMA NatFacts ==
  ASSUME TypeOK
  PROVE  /\ number \in Nat /\ hand \in Nat
         /\ Len(mq) \in Nat /\ \A i \in 1 .. Len(mq) : mq[i] \in Nat \ {0}
         /\ Len(sent) \in Nat /\ \A i \in 1 .. Len(sent) : sent[i] \in Nat \ {0}
<1>1. /\ number \in Nat /\ hand \in Nat
      /\ Numbers \subseteq Nat \ {0}
  BY ClientAssumption DEF ClientAssumption, TypeOK, Numbers
<1>2. ASSUME NEW q \in Seq(Numbers)
      PROVE  Len(q) \in Nat /\ \A i \in 1 .. Len(q) : q[i] \in Numbers
  OBVIOUS
<1> QED BY <1>1, <1>2 DEF TypeOK

\* What remains of a queue after pop().
LEMMA TailFacts ==
  ASSUME NEW q \in Seq(Numbers), q # <<>>
  PROVE  /\ Len(q) \in Nat \ {0} /\ Len(Tail(q)) = Len(q) - 1
         /\ Head(q) = q[1] /\ \A i \in 1 .. Len(q) : q[i] \in Numbers
         /\ \A i \in 1 .. Len(Tail(q)) : Tail(q)[i] = q[i + 1]
<1>1. Len(q) \in Nat \ {0} /\ Len(Tail(q)) = Len(q) - 1 /\ Head(q) = q[1]
  OBVIOUS
<1>2. \A i \in 1 .. Len(q) : q[i] \in Numbers
  OBVIOUS
<1>3. \A i \in 1 .. Len(Tail(q)) : Tail(q)[i] = q[i + 1]
  OBVIOUS
<1> QED BY <1>1, <1>2, <1>3

\* Writing a message at least as new as all that were sent keeps the order.
LEMMA SendInOrder ==
  ASSUME TypeOK, NEW n \in Numbers, sent' = sent \/ sent' = Append(sent, n),
         \A i, j \in 1 .. Len(sent) : i < j => sent[i] <= sent[j],
         \A i \in 1 .. Len(sent) : sent[i] <= n
  PROVE  /\ \A i, j \in 1 .. Len(sent') : i < j => sent'[i] <= sent'[j]
         /\ \A i \in 1 .. Len(sent') : sent'[i] <= n
<1>1. CASE sent' = sent
  BY <1>1
<1>2. CASE sent' = Append(sent, n)
  <2>1. /\ Len(sent') = Len(sent) + 1 /\ Len(sent) \in Nat
        /\ \A i \in 1 .. Len(sent) : sent'[i] = sent[i] /\ sent[i] \in Numbers
        /\ sent'[Len(sent) + 1] = n
    BY <1>2 DEF TypeOK
  <2> QED BY <2>1 DEF Numbers
<1> QED BY <1>1, <1>2

\* The daemon reads messages in the order of their numbers, unless synchronous
\* logging was turned on while messages waited.
THEOREM MessagesInOrder == Spec => []InOrder
<1>1. Init => OrderInv
  BY DEF Init, OrderInv, InOrder, Sorted, None
<1>2. TypeOK /\ TypeOK' /\ OrderInv /\ [Next]_vars => OrderInv'
  <2> SUFFICES ASSUME TypeOK, TypeOK', OrderInv, [Next]_vars, ~switched' PROVE OrderInv'
    BY DEF OrderInv
  <2>0. /\ number \in Nat /\ hand \in Nat
        /\ Len(mq) \in Nat /\ \A i \in 1 .. Len(mq) : mq[i] \in Nat \ {0}
        /\ Len(sent) \in Nat /\ \A i \in 1 .. Len(sent) : sent[i] \in Nat \ {0}
    BY NatFacts
  <2>1. ASSUME NEW how \in Inits, NEW kind \in BOOLEAN, InitLog(how, kind)
        PROVE  OrderInv'
    <3>1. ~switched /\ (~kind => Pending = {})
      BY <2>1 DEF InitLog
    <3>2. ~kind => mq = <<>> /\ hand = None
      <4> SUFFICES ASSUME ~kind PROVE mq = <<>> /\ hand = None
        OBVIOUS
      <4>1. hand = None /\ Elements(mq) \subseteq {None}
        BY <3>1 DEF Pending
      <4>2. ASSUME mq # <<>> PROVE FALSE
        <5>1. 1 \in 1 .. Len(mq) /\ mq[1] \in Numbers
          BY <4>2, SMTT(30) DEF TypeOK
        <5> QED BY <4>1, <5>1 DEF Elements, Numbers, None
      <4> QED BY <4>1, <4>2
    <3> QED BY <2>1, <3>1, <3>2 DEF InitLog, OrderInv, InOrder, Sorted, call, world
  <2>2. CASE WriteAsync
    <3>1. number' \in Numbers /\ number' = number + 1 /\ Enqueue(number') /\ async /\ api = "free"
      BY <2>2 DEF WriteAsync, Writing, TypeOK, Numbers
    <3>2. PICK k \in 0 .. Len(mq) : \E f \in Picks(k, Len(mq)) :
            /\ Len(mq') = k + 1
            /\ \A i \in 1 .. k : mq'[i] = mq[f[i]]
            /\ mq'[k + 1] = number'
      BY <3>1, EnqueueChooses DEF TypeOK
    <3>3. PICK f \in Picks(k, Len(mq)) :
            /\ Len(mq') = k + 1
            /\ \A i \in 1 .. k : mq'[i] = mq[f[i]]
            /\ mq'[k + 1] = number'
      BY <3>2
    <3>4. /\ \A i \in 1 .. k : f[i] \in 1 .. Len(mq)
          /\ \A i, j \in 1 .. k : i < j => f[i] < f[j]
      BY DEF Picks
    <3>5. ~switched /\ UNCHANGED <<sent, hand, async, api, switched>>
      BY <2>2 DEF WriteAsync, Writing, call, impl, world
    <3>6. k \in Nat /\ \A i \in 1 .. Len(mq') : i \in 1 .. k \/ i = k + 1
      BY <2>0, <3>3
    <3>7. \A i \in 1 .. k : hand < mq'[i] /\ mq'[i] <= number /\ mq'[i] \in Nat
      BY <2>0, <3>3, <3>4, <3>5 DEF OrderInv
    <3>8. \A i, j \in 1 .. k : i < j => mq'[i] < mq'[j]
      <4>1. \A i, j \in 1 .. Len(mq) : i < j => mq[i] < mq[j]
        BY <3>5 DEF OrderInv, Sorted
      <4> SUFFICES ASSUME NEW i \in 1 .. k, NEW j \in 1 .. k, i < j
                   PROVE  mq'[i] < mq'[j]
        OBVIOUS
      <4>2. f[i] \in 1 .. Len(mq) /\ f[j] \in 1 .. Len(mq) /\ f[i] < f[j]
        BY <3>4
      <4>3. mq[f[i]] < mq[f[j]]
        BY <4>1, <4>2
      <4> QED BY <4>3, <3>3
    <3>9. hand < number' /\ \A i \in 1 .. Len(sent) : sent[i] < number'
      BY <2>0, <3>1, <3>5 DEF OrderInv
    <3>10. Sorted(mq)' /\ \A i \in 1 .. Len(mq') : hand < mq'[i] /\ mq'[i] <= number'
      <4>1. \A i \in 1 .. Len(mq') : hand < mq'[i] /\ mq'[i] <= number'
        BY <2>0, <3>1, <3>3, <3>6, <3>7, <3>9
      <4>2. ASSUME NEW i \in 1 .. Len(mq'), NEW j \in 1 .. Len(mq'), i < j
            PROVE  mq'[i] < mq'[j]
        <5>1. i \in 1 .. k /\ (j \in 1 .. k \/ j = k + 1)
          BY <4>2, <3>6, <3>3
        <5>2. CASE j \in 1 .. k
          BY <4>2, <5>1, <5>2, <3>8
        <5>3. CASE j = k + 1
          BY <5>1, <5>3, <2>0, <3>1, <3>3, <3>7
        <5> QED BY <5>1, <5>2, <5>3
      <4> QED BY <4>1, <4>2 DEF Sorted
    <3>11. \A i \in 1 .. Len(sent) : \A j \in 1 .. k : sent[i] < mq'[j]
      BY <3>3, <3>4, <3>5 DEF OrderInv
    <3>12. \A i \in 1 .. Len(sent) : \A j \in 1 .. Len(mq') : sent[i] < mq'[j]
      BY <3>3, <3>6, <3>9, <3>11
    <3> QED BY <2>0, <3>1, <3>5, <3>10, <3>12 DEF OrderInv, InOrder
  <2>3. CASE WriteSync
    <3>1. ~switched /\ ~async /\ number' = number + 1 /\ UNCHANGED <<sent, mq, hand, async, switched>>
      BY <2>3 DEF WriteSync, Writing, impl, world
    <3> QED BY <2>0, <3>1 DEF OrderInv, InOrder, Sorted
  <2>4. CASE ShutdownBegins
    BY <2>4 DEF ShutdownBegins, OrderInv, InOrder, Sorted, impl, world
  <2>5. CASE SyncTry
    <3>1. CASE WildWrite
      BY <3>1 DEF WildWrite, OrderInv, InOrder, Sorted, call, impl, world
    <3>2. ASSUME WriteOk(number) \/ WriteFails(number), api = "write",
                 UNCHANGED <<impl, number, mq, reader, hand, crashed, daemon>>
          PROVE  OrderInv'
      <4>1. number \in Numbers /\ ~switched
        BY <3>2 DEF TypeOK, Numbers, None, impl
      <4>2. sent' = sent \/ sent' = Append(sent, number)
        BY <3>2, <4>1, WriteSteps
      <4>3. mq = <<>> /\ hand = None /\ ~async
        BY <3>2, <4>1 DEF OrderInv
      <4>4. /\ \A i, j \in 1 .. Len(sent') : i < j => sent'[i] <= sent'[j]
            /\ \A i \in 1 .. Len(sent') : sent'[i] <= number
        BY <4>1, <4>2, SendInOrder DEF OrderInv, InOrder
      <4> QED BY <3>2, <4>1, <4>3, <4>4 DEF OrderInv, InOrder, Sorted, impl, None
    <3> QED BY <2>5, <3>1, <3>2 DEF SyncTry
  <2>6. CASE ShutdownEnds
    BY <2>6 DEF ShutdownEnds, OrderInv, InOrder, Sorted, world
  <2>7. CASE ReaderLoop
    BY <2>7 DEF ReaderLoop, OrderInv, InOrder, Sorted, call, impl, world
  <2>8. CASE ReaderTake
    <3>1. CASE UNCHANGED <<hand, mq>>
      BY <2>8, <3>1 DEF ReaderTake, OrderInv, InOrder, Sorted, call, impl, world
    <3>2. CASE mq # <<>> /\ hand' = Head(mq) /\ mq' = Tail(mq)
      <4>1. /\ Len(mq) \in Nat \ {0} /\ Len(mq') = Len(mq) - 1
            /\ hand' = mq[1] /\ \A i \in 1 .. Len(mq) : mq[i] \in Numbers
            /\ \A i \in 1 .. Len(mq') : mq'[i] = mq[i + 1]
        BY <3>2, TailFacts DEF TypeOK
      <4>2. ~switched /\ UNCHANGED <<sent, number, async, api, switched>>
        BY <2>8 DEF ReaderTake, call, impl, world
      <4>3. async
        BY <3>2, <4>2 DEF OrderInv
      <4>4. \A i \in 1 .. Len(mq') : i + 1 \in 1 .. Len(mq) /\ 1 \in 1 .. Len(mq)
        BY <4>1
      <4>5. \A i, j \in 1 .. Len(mq) : i < j => mq[i] < mq[j]
        BY <4>2 DEF OrderInv, Sorted
      <4>6. ASSUME NEW i \in 1 .. Len(mq') PROVE hand' < mq'[i] /\ mq'[i] <= number
        <5>1. 1 \in 1 .. Len(mq) /\ i + 1 \in 1 .. Len(mq) /\ 1 < i + 1
          BY <4>4, <4>1
        <5>2. mq[1] < mq[i + 1] /\ mq[i + 1] <= number
          BY <5>1, <4>5, <4>2 DEF OrderInv
        <5> QED BY <5>2, <4>1
      <4>7. ASSUME NEW i \in 1 .. Len(mq'), NEW j \in 1 .. Len(mq'), i < j
            PROVE  mq'[i] < mq'[j]
        <5>1. i + 1 \in 1 .. Len(mq) /\ j + 1 \in 1 .. Len(mq) /\ i + 1 < j + 1
          BY <4>4, <4>7
        <5>2. mq[i + 1] < mq[j + 1]
          BY <5>1, <4>5
        <5> QED BY <5>2, <4>1
      <4>8. Sorted(mq)' /\ \A i \in 1 .. Len(mq') : hand' < mq'[i] /\ mq'[i] <= number
        BY <4>6, <4>7 DEF Sorted
      <4>9. \A i \in 1 .. Len(sent) : sent[i] <= hand'
        BY <2>0, <4>1, <4>2 DEF OrderInv, Sorted
      <4>10. \A i \in 1 .. Len(sent) : \A j \in 1 .. Len(mq') : sent[i] < mq'[j]
        BY <2>0, <4>1, <4>2 DEF OrderInv, Sorted
      <4>11. hand' <= number
        BY <4>1, <4>2 DEF OrderInv
      <4> QED BY <4>2, <4>3, <4>8, <4>9, <4>10, <4>11 DEF OrderInv, InOrder
    <3> QED BY <2>8, <3>1, <3>2 DEF ReaderTake
  <2>9. CASE ReaderRetry
    <3>1. /\ hand' = hand \/ hand' = None
          /\ ~switched /\ UNCHANGED <<sent, mq, number, async, api, switched>>
      BY <2>9 DEF ReaderRetry, call, impl, world
    <3> QED BY <2>0, <3>1 DEF OrderInv, InOrder, Sorted, None
  <2>10. CASE ReaderWrite
    <3>1. CASE WildWrite
      BY <3>1 DEF WildWrite, OrderInv, InOrder, Sorted, call, impl, world
    <3>2. ASSUME \/ WriteOk(hand) /\ ReaderSent
                 \/ WriteFails(hand) /\ ReaderFailed,
                 reader = "write",
                 UNCHANGED <<call, impl, number, mq, crashed, daemon>>
          PROVE  OrderInv'
      <4>1. hand \in Numbers /\ ~switched /\ hand # None
        BY <3>2 DEF TypeOK, Numbers, None, impl
      <4>2. sent' = sent \/ sent' = Append(sent, hand)
        BY <3>2, <4>1, WriteSteps
      <4>3. /\ \A i, j \in 1 .. Len(sent') : i < j => sent'[i] <= sent'[j]
            /\ \A i \in 1 .. Len(sent') : sent'[i] <= hand
        BY <4>1, <4>2, SendInOrder DEF OrderInv, InOrder
      <4>4. hand' = hand \/ hand' = None
        BY <3>2 DEF ReaderSent, ReaderFailed
      <4>5. UNCHANGED <<number, mq, async, api, switched>>
        BY <3>2 DEF call, impl
      <4>6. \A i \in 1 .. Len(sent') : sent'[i] \in Nat
        <5>1. sent' \in Seq(Numbers)
          BY DEF TypeOK
        <5>3. Numbers \subseteq Nat
          BY DEF Numbers
        <5>2. ASSUME NEW q \in Seq(Numbers), NEW i \in 1 .. Len(q) PROVE q[i] \in Numbers
          OBVIOUS
        <5> QED BY <5>1, <5>2, <5>3
      <4>7. \A i \in 1 .. Len(sent') : \A j \in 1 .. Len(mq) : sent'[i] < mq[j]
        BY <2>0, <4>1, <4>3, <4>6 DEF OrderInv
      <4>8. \A i \in 1 .. Len(sent') : sent'[i] <= number
        BY <2>0, <4>1, <4>3, <4>6 DEF OrderInv
      <4> QED BY <2>0, <4>1, <4>3, <4>4, <4>5, <4>7, <4>8
              DEF OrderInv, InOrder, Sorted, None
    <3> QED BY <2>10, <3>1, <3>2 DEF ReaderWrite
  <2>11. CASE DaemonStops
    BY <2>11 DEF DaemonStops, OrderInv, InOrder, Sorted, call, impl, world
  <2>12. CASE DaemonStarts
    BY <2>12 DEF DaemonStarts, OrderInv, InOrder, Sorted, call, impl, world
  <2>13. CASE UNCHANGED vars
    BY <2>13 DEF vars, OrderInv, InOrder, Sorted, call, impl, world, daemon
  <2> QED BY <2>1, <2>2, <2>3, <2>4, <2>5, <2>6, <2>7, <2>8, <2>9, <2>10, <2>11, <2>12, <2>13
          DEF Next, Application, Continue, Reader
<1>3. OrderInv => InOrder
  BY DEF OrderInv, InOrder
<1> QED BY <1>1, <1>2, <1>3, TypeCorrect, PTL DEF Spec

----------------------------------------------------------------------------
(* What happens to every message *)

\* The reader has a message only around its write, and took it only when there
\* was a transport.
HandInv == hand # None => reader \in {"retry", "write"} /\ setup # "bare"

\* HandInv holds of every behaviour.
THEOREM HandIsInvariant == Spec => []HandInv
<1>1. Init => HandInv
  BY DEF Init, HandInv
<1>2. HandInv /\ [Next]_vars => HandInv'
  <2> SUFFICES ASSUME HandInv, [Next]_vars PROVE HandInv'
    OBVIOUS
  <2>1. ASSUME NEW how \in Inits, NEW kind \in BOOLEAN, InitLog(how, kind)
        PROVE  HandInv'
    BY <2>1 DEF InitLog, HandInv
  <2>2. CASE WriteAsync \/ WriteSync \/ ShutdownBegins
    BY <2>2 DEF WriteAsync, WriteSync, ShutdownBegins, HandInv, impl
  <2>3. CASE SyncTry
    BY <2>3 DEF SyncTry, WildWrite, HandInv, impl
  <2>4. CASE ShutdownEnds
    BY <2>4 DEF ShutdownEnds, HandInv
  <2>5. CASE ReaderLoop
    BY <2>5 DEF ReaderLoop, HandInv, impl
  <2>6. CASE ReaderTake
    BY <2>6 DEF ReaderTake, HandInv, impl
  <2>7. CASE ReaderRetry
    BY <2>7 DEF ReaderRetry, HandInv, impl
  <2>8. CASE ReaderWrite
    BY <2>8 DEF ReaderWrite, WildWrite, ReaderSent, ReaderFailed, HandInv, impl
  <2>9. CASE DaemonStops \/ DaemonStarts
    BY <2>9 DEF DaemonStops, DaemonStarts, HandInv, impl
  <2>10. CASE UNCHANGED vars
    BY <2>10 DEF vars, HandInv, impl
  <2> QED BY <2>1, <2>2, <2>3, <2>4, <2>5, <2>6, <2>7, <2>8, <2>9, <2>10
          DEF Next, Application, Continue, Reader
<1> QED BY <1>1, <1>2, PTL DEF Spec

\* Before there is a transport the reader writes nothing.
THEOREM SafeBeforeTransport == Spec => NoWriteBeforeTransport
<1>1. TypeOK /\ HandInv /\ [Next]_vars
        => (api = "free" /\ setup = "bare" => crashed' = crashed)
  <2> SUFFICES ASSUME TypeOK, HandInv, [Next]_vars, api = "free", setup = "bare"
               PROVE  crashed' = crashed
    OBVIOUS
  <2>1. ~ReaderWrite
    BY DEF ReaderWrite, HandInv, TypeOK
  <2> QED
    BY <2>1 DEF Next, Application, Continue, Reader, InitLog, WriteAsync, WriteSync,
                ShutdownBegins, SyncTry, ShutdownEnds, ReaderLoop, ReaderTake,
                ReaderRetry, DaemonStops, DaemonStarts, Stopping, vars
<1> QED BY <1>1, TypeCorrect, HandIsInvariant, PTL DEF Spec, NoWriteBeforeTransport

\* The ways a message may leave the library.
Excused(n) ==
  \/ n \in Elements(sent') \cup gone'
  \/ Stopping
  \/ n \in Elements(mq) /\ number' > number /\ Len(mq) > QueueLimit
  \/ api = "write" /\ n = number /\ tries = 1

\* No message disappears without an excuse.
THEOREM LossesExplained == Spec => LossesAreKnown
<1>1. TypeOK /\ HandInv /\ [Next]_vars
        => \A n \in Pending : n \notin Pending' => Excused(n)
  <2> SUFFICES ASSUME TypeOK, HandInv, [Next]_vars,
                      NEW n \in Pending, n \notin Pending', ~Stopping
               PROVE  Excused(n)
    BY DEF Excused
  <2>1. ASSUME NEW how \in Inits, NEW kind \in BOOLEAN, InitLog(how, kind)
        PROVE  Excused(n)
    BY <2>1 DEF InitLog, Pending, call
  <2>2. CASE WriteAsync
    <3>1. n = hand \/ n \in Elements(mq)
      BY <2>2 DEF WriteAsync, Writing, Pending
    <3>2. n # hand
      BY <2>2 DEF WriteAsync, Pending
    <3>3. mq' # Append(mq, number')
      <4> SUFFICES ASSUME mq' = Append(mq, number') PROVE FALSE
        OBVIOUS
      <4>1. PICK i \in 1 .. Len(mq) : n = mq[i]
        BY <3>1, <3>2 DEF Elements
      <4>2. i \in 1 .. Len(mq') /\ mq'[i] = n
        BY <4>1 DEF TypeOK
      <4> QED BY <4>2 DEF Pending, Elements
    <3>4. Len(mq) > QueueLimit
      BY <2>2, <3>3 DEF WriteAsync, Enqueue
    <3>5. number' > number
      BY <2>2, ClientAssumption DEF WriteAsync, Writing, TypeOK, ClientAssumption
    <3> QED BY <3>1, <3>2, <3>4, <3>5 DEF Excused
  <2>3. CASE WriteSync
    BY <2>3 DEF WriteSync, Writing, Pending, impl
  <2>4. CASE ShutdownBegins
    BY <2>4 DEF ShutdownBegins, Pending, impl
  <2>5. CASE SyncTry
    <3>1. CASE WildWrite
      BY <3>1 DEF WildWrite, Pending, call
    <3>2. ASSUME api = "write", UNCHANGED <<number, mq, hand>>
          PROVE  n = number /\ api' # "write"
      BY <3>2 DEF Pending
    <3>3. CASE WriteOk(number) /\ SyncSucceeds
      <4>1. n = number /\ number \in Numbers
        BY <2>5, <3>2, <3>3 DEF SyncTry, WildWrite, SyncSucceeds, call, TypeOK, Numbers, None
      <4> QED BY <3>3, <4>1, WriteSteps DEF Excused
    <3>4. CASE WriteFails(number) /\ SyncFails
      <4>1. n = number /\ api = "write" /\ api' # "write"
        BY <2>5, <3>2, <3>4 DEF SyncTry, WildWrite, SyncFails, call
      <4>2. tries = 1
        BY <3>4, <4>1, ClientAssumption DEF SyncFails, TypeOK, ClientAssumption
      <4> QED BY <4>1, <4>2 DEF Excused
    <3> QED BY <2>5, <3>1, <3>3, <3>4 DEF SyncTry
  <2>6. CASE ShutdownEnds
    BY <2>6 DEF ShutdownEnds
  <2>7. CASE ReaderLoop
    BY <2>7 DEF ReaderLoop, Pending, call
  <2>8. CASE ReaderTake
    <3>1. hand = None /\ n \in Elements(mq) /\ UNCHANGED <<api, number>>
      BY <2>8 DEF ReaderTake, HandInv, Pending, MutexFree, call
    <3>2. CASE UNCHANGED <<hand, mq>>
      BY <3>1, <3>2 DEF Pending
    <3>3. CASE mq # <<>> /\ hand' = Head(mq) /\ mq' = Tail(mq)
      <4>1. PICK i \in 1 .. Len(mq) : n = mq[i]
        BY <3>1 DEF Elements
      <4>2. CASE i = 1
        BY <3>3, <4>1, <4>2 DEF Pending
      <4>3. CASE i # 1
        <5>1. i - 1 \in 1 .. Len(mq') /\ mq'[i - 1] = n
          BY <3>3, <4>1, <4>3 DEF TypeOK
        <5>2. n \in Elements(mq')
          BY <5>1 DEF Elements
        <5> QED BY <5>2 DEF Pending
      <4> QED BY <4>2, <4>3
    <3> QED BY <2>8, <3>2, <3>3 DEF ReaderTake
  <2>9. CASE ReaderRetry
    BY <2>9 DEF ReaderRetry, Pending, call
  <2>10. CASE ReaderWrite
    <3>1. CASE WildWrite
      BY <3>1 DEF WildWrite, Pending, call
    <3>2. CASE WriteOk(hand) /\ ReaderSent
      <4>1. n = hand /\ hand \in Numbers
        BY <2>10, <3>2 DEF ReaderWrite, WildWrite, Pending, call, TypeOK, Numbers, None
      <4> QED BY <3>2, <4>1, WriteSteps DEF Excused
    <3>3. CASE WriteFails(hand) /\ ReaderFailed
      BY <2>10, <3>3 DEF ReaderWrite, WildWrite, ReaderFailed, Pending, call
    <3> QED BY <2>10, <3>1, <3>2, <3>3 DEF ReaderWrite
  <2>11. CASE DaemonStops \/ DaemonStarts
    BY <2>11 DEF DaemonStops, DaemonStarts, Pending, call
  <2>12. CASE UNCHANGED vars
    BY <2>12 DEF vars, Pending, call
  <2> QED BY <2>1, <2>2, <2>3, <2>4, <2>5, <2>6, <2>7, <2>8, <2>9, <2>10, <2>11, <2>12
          DEF Next, Application, Continue, Reader
<1> QED BY <1>1, TypeCorrect, HandIsInvariant, PTL DEF Spec, LossesAreKnown, Excused

----------------------------------------------------------------------------
(***************************************************************************)
(* The library repeats a message only after a late answer.                 *)
(***************************************************************************)

\* What the daemon has read, and what is being written.
Read == Elements(sent)
InFlight ==
  ({hand} \cup IF api = "write" THEN {number} ELSE {}) \ {None}

\* Nothing that waits has been read, or is being written; the reader and a
\* synchronous write never write the same message.
Fresh ==
  /\ Sorted(mq)
  /\ Elements(mq) \cap (Read \cup InFlight) = {}
  /\ Elements(mq) \cup Read \cup {hand} \subseteq 0 .. number
  /\ api = "write" => hand # number

\* A message in flight that has been read is owed a late answer that was
\* counted already: it may still be read once more.
Counted ==
  Len(sent) + Cardinality(InFlight \cap Read) <= Cardinality(Read) + late

RepeatInv == Fresh /\ Counted

----------------------------------------------------------------------------

LEMMA ElementsAppend ==
  ASSUME NEW q \in Seq(Numbers), NEW n \in Numbers
  PROVE  Elements(Append(q, n)) = Elements(q) \cup {n} /\ Len(Append(q, n)) = Len(q) + 1
<1>1. /\ Len(q) \in Nat /\ Len(Append(q, n)) = Len(q) + 1
      /\ Append(q, n)[Len(q) + 1] = n
      /\ \A i \in 1 .. Len(q) : Append(q, n)[i] = q[i]
  OBVIOUS
<1>2. \A i \in 1 .. Len(q) + 1 : i \in 1 .. Len(q) \/ i = Len(q) + 1
  BY <1>1
<1> QED BY <1>1, <1>2 DEF Elements

LEMMA ElementsTail ==
  ASSUME NEW q \in Seq(Numbers), q # <<>>, Sorted(q)
  PROVE  /\ Sorted(Tail(q)) /\ Elements(Tail(q)) \subseteq Elements(q)
         /\ Head(q) \in Elements(q) /\ Head(q) \notin Elements(Tail(q))
<1>1. /\ Len(q) \in Nat \ {0} /\ Len(Tail(q)) = Len(q) - 1
      /\ Head(q) = q[1] /\ \A i \in 1 .. Len(q) : q[i] \in Nat
      /\ \A i \in 1 .. Len(Tail(q)) : Tail(q)[i] = q[i + 1]
  BY TailFacts DEF Numbers
<1>2. \A i \in 1 .. Len(Tail(q)) : i + 1 \in 1 .. Len(q) /\ 1 < i + 1
  BY <1>1
<1>3. Elements(Tail(q)) \subseteq Elements(q) /\ Head(q) \in Elements(q)
  BY <1>1, <1>2 DEF Elements
<1>4. ASSUME NEW i \in 1 .. Len(Tail(q)), NEW j \in 1 .. Len(Tail(q)), i < j
      PROVE  Tail(q)[i] < Tail(q)[j]
  <2>1. i + 1 < j + 1
    BY <1>4
  <2> QED BY <1>1, <1>2, <2>1 DEF Sorted
<1>5. ASSUME NEW i \in 1 .. Len(Tail(q)) PROVE Tail(q)[i] # Head(q)
  <2>1. q[1] < q[i + 1] /\ 1 \in 1 .. Len(q)
    BY <1>1, <1>2 DEF Sorted
  <2> QED BY <1>1, <1>2, <2>1
<1> QED BY <1>3, <1>4, <1>5 DEF Sorted, Elements

\* A push puts the newest message behind some of the others.
LEMMA EnqueueFresh ==
  ASSUME mq \in Seq(Numbers), NEW n \in Numbers, Enqueue(n), Sorted(mq),
         \A m \in Elements(mq) : m < n
  PROVE  Sorted(mq') /\ Elements(mq') \subseteq Elements(mq) \cup {n}
<1>1. PICK k \in 0 .. Len(mq) : \E f \in Picks(k, Len(mq)) :
        /\ Len(mq') = k + 1
        /\ \A i \in 1 .. k : mq'[i] = mq[f[i]]
        /\ mq'[k + 1] = n
  BY EnqueueChooses
<1>2. PICK f \in Picks(k, Len(mq)) :
        /\ Len(mq') = k + 1
        /\ \A i \in 1 .. k : mq'[i] = mq[f[i]]
        /\ mq'[k + 1] = n
  BY <1>1
<1>3. /\ \A i \in 1 .. k : f[i] \in 1 .. Len(mq)
      /\ \A i, j \in 1 .. k : i < j => f[i] < f[j]
  BY DEF Picks
<1>4. k \in Nat /\ \A i \in 1 .. k + 1 : i \in 1 .. k \/ i = k + 1
  OBVIOUS
<1>5. \A i \in 1 .. k : mq'[i] \in Elements(mq)
  BY <1>2, <1>3 DEF Elements
<1>6. Elements(mq') \subseteq Elements(mq) \cup {n}
  BY <1>2, <1>4, <1>5 DEF Elements
<1>7. ASSUME NEW i \in 1 .. k + 1, NEW j \in 1 .. k + 1, i < j
      PROVE  mq'[i] < mq'[j]
  <2>1. i \in 1 .. k
    BY <1>4, <1>7
  <2>2. CASE j \in 1 .. k
    BY <1>2, <1>3, <1>7, <2>1, <2>2 DEF Sorted
  <2>3. CASE j = k + 1
    BY <1>2, <1>5, <2>1, <2>3
  <2> QED BY <1>4, <2>2, <2>3
<1> QED BY <1>2, <1>6, <1>7 DEF Sorted

LEMMA CountsAreNumbers ==
  ASSUME TypeOK
  PROVE  /\ IsFiniteSet(Read) /\ IsFiniteSet(InFlight)
         /\ Cardinality(Read) \in Nat /\ Cardinality(InFlight \cap Read) \in Nat
         /\ Read \subseteq Numbers /\ Len(sent) \in Nat /\ late \in Nat
<1>1. Read \subseteq Numbers /\ Len(sent) \in Nat
  BY DEF TypeOK, Read, Elements
<1>2. IsFiniteSet(Numbers)
  BY FS_Interval, ClientAssumption DEF ClientAssumption, Numbers
<1>3. IsFiniteSet({} \cup {hand}) /\ IsFiniteSet(({} \cup {hand}) \cup {number})
  BY FS_EmptySet, FS_AddElement
<1>4. InFlight \subseteq ({} \cup {hand}) \cup {number}
  BY DEF InFlight
<1>5. IsFiniteSet(Read) /\ IsFiniteSet(InFlight)
  BY <1>1, <1>2, <1>3, <1>4, FS_Subset
<1>6. IsFiniteSet(InFlight \cap Read)
  BY <1>5, FS_Intersection
<1> QED BY <1>1, <1>5, <1>6, FS_CardinalityType DEF TypeOK

\* Nothing new is read, and nothing more is in flight that was.
LEMMA NothingCounted ==
  ASSUME TypeOK, Counted, UNCHANGED <<sent, late>>,
         InFlight' \cap Read \subseteq InFlight
  PROVE  Counted'
<1>1. Read' = Read /\ Len(sent') = Len(sent)
  BY DEF Read
<1>2. InFlight' \cap Read \subseteq InFlight \cap Read
  OBVIOUS
<1>3. IsFiniteSet(InFlight \cap Read)
  BY CountsAreNumbers, FS_Intersection
<1>4. /\ Cardinality(InFlight' \cap Read) <= Cardinality(InFlight \cap Read)
      /\ Cardinality(InFlight' \cap Read) \in Nat
  BY <1>2, <1>3, FS_Subset, FS_CardinalityType
<1> QED BY <1>1, <1>4, CountsAreNumbers DEF Counted

\* One write of the protocol.
LEMMA WriteCounts ==
  ASSUME TypeOK, Counted, NEW n \in Numbers, n \in InFlight,
         \/ WriteOk(n) /\ InFlight' \subseteq InFlight \ {n}
         \/ WriteFails(n) /\ InFlight' \subseteq InFlight
  PROVE  Counted' /\ Read' \subseteq Read \cup {n}
<1>1. CASE UNCHANGED <<sent, late>>
  BY <1>1, NothingCounted DEF Read
<1>2. ASSUME sent' = Append(sent, n)
      PROVE  Counted' /\ Read' = Read \cup {n}
  <2>1. Read' = Read \cup {n} /\ Len(sent') = Len(sent) + 1
    BY <1>2, ElementsAppend DEF TypeOK, Read
  <2> DEFINE owed == InFlight \cap Read
             c == Cardinality(owed)
             r == Cardinality(Read)
             owedThen == InFlight' \cap Read'
  <2>2. /\ IsFiniteSet(owed) /\ IsFiniteSet(Read) /\ c \in Nat /\ r \in Nat
        /\ Len(sent) \in Nat /\ late \in Nat /\ Len(sent) + c <= r + late
    BY CountsAreNumbers, FS_Intersection DEF Counted
  <2>3. Cardinality(Read') = IF n \in Read THEN r ELSE r + 1
    BY <2>1, <2>2, FS_AddElement
  <2>4. n \in owed <=> n \in Read
    OBVIOUS
  <2>5. /\ IsFiniteSet(owed \ {n}) /\ IsFiniteSet(owed \cup {n})
        /\ Cardinality(owed \ {n}) = IF n \in Read THEN c - 1 ELSE c
        /\ Cardinality(owed \cup {n}) = IF n \in Read THEN c ELSE c + 1
    BY <2>2, <2>4, FS_AddElement, FS_RemoveElement
  <2>6. CASE WriteOk(n) /\ InFlight' \subseteq InFlight \ {n}
    <3>1. late' = late
      BY <1>2, <2>1, <2>2, <2>6 DEF WriteOk
    <3>2. owedThen \subseteq owed \ {n}
      BY <2>1, <2>6
    <3>3. Cardinality(owedThen) <= Cardinality(owed \ {n}) /\ Cardinality(owedThen) \in Nat
      BY <2>5, <3>2, FS_Subset, FS_CardinalityType
    <3> HIDE DEF owed, c, r, owedThen
    <3>4. Len(sent') + Cardinality(owedThen) <= Cardinality(Read') + late'
      BY <2>1, <2>2, <2>3, <2>5, <3>1, <3>3
    <3> QED BY <2>1, <3>4 DEF Counted, owedThen
  <2>7. CASE WriteFails(n) /\ InFlight' \subseteq InFlight
    <3>1. late' = late + 1
      BY <1>2, <2>1, <2>2, <2>7 DEF WriteFails, world
    <3>2. owedThen \subseteq owed \cup {n}
      BY <2>1, <2>7
    <3>3. Cardinality(owedThen) <= Cardinality(owed \cup {n}) /\ Cardinality(owedThen) \in Nat
      BY <2>5, <3>2, FS_Subset, FS_CardinalityType
    <3> HIDE DEF owed, c, r, owedThen
    <3>4. Len(sent') + Cardinality(owedThen) <= Cardinality(Read') + late'
      BY <2>1, <2>2, <2>3, <2>5, <3>1, <3>3
    <3> QED BY <2>1, <3>4 DEF Counted, owedThen
  <2> QED BY <2>6, <2>7
<1> QED BY <1>1, <1>2, Zenon DEF WriteOk, WriteFails, Delivered, world

\* Only what is in flight may be read, and that does not wait.
LEMMA StepStaysFresh ==
  ASSUME TypeOK, Fresh, UNCHANGED <<number, mq>>,
         InFlight' \subseteq InFlight, hand' \in {hand, None}, api' = "write" => api = "write",
         TypeOK', Read' \subseteq Read \cup InFlight
  PROVE  Fresh'
<1>1. Elements(mq') = Elements(mq) /\ Sorted(mq') /\ number \in Nat
  BY NatFacts DEF Fresh
<1>2. InFlight \subseteq 0 .. number
  BY <1>1 DEF Fresh, InFlight
<1>3. api' = "write" => hand' # number'
  BY DEF Fresh, TypeOK
<1>4. Elements(mq') \cap (Read' \cup InFlight') = {}
  BY <1>1 DEF Fresh
<1>5. Elements(mq) \cup Read' \cup {hand'} \subseteq 0 .. number
  <2>1. None \in 0 .. number
    BY <1>1 DEF None
  <2>2. Elements(mq) \cup Read \cup {hand} \subseteq 0 .. number
    BY DEF Fresh
  <2> QED BY <1>2, <2>1, <2>2, Zenon
<1>6. Elements(mq') \cup Read' \cup {hand'} \subseteq 0 .. number'
  BY <1>1, <1>5, Zenon
<1> QED BY <1>1, <1>3, <1>4, <1>6, Zenon DEF Fresh

\* A message is read twice only if a write failed though it was read.
THEOREM RepeatsExplained == Spec => []NoNeedlessRepeat
<1>1. Init => RepeatInv
  <2> SUFFICES ASSUME Init PROVE RepeatInv
    OBVIOUS
  <2>1. mq = <<>> /\ sent = <<>> /\ hand = None /\ api = "free" /\ number = 0 /\ late = 0
    BY DEF Init
  <2>2. Elements(mq) = {} /\ Read = {} /\ InFlight = {} /\ Sorted(mq) /\ Len(sent) = 0
    BY <2>1 DEF Elements, Read, InFlight, Sorted
  <2>3. InFlight \cap Read = {}
    BY <2>2
  <2>4. Fresh
    BY <2>1, <2>2 DEF Fresh, None
  <2>5. Counted
    BY <2>1, <2>2, <2>3, FS_EmptySet DEF Counted
  <2> QED BY <2>4, <2>5 DEF RepeatInv
<1>2. TypeOK /\ TypeOK' /\ RepeatInv /\ [Next]_vars => RepeatInv'
  <2> SUFFICES ASSUME TypeOK, TypeOK', Fresh, Counted, [Next]_vars PROVE Fresh' /\ Counted'
    BY DEF RepeatInv
  <2>0. number \in Nat /\ number' \in Nat /\ hand \in Nat /\ mq \in Seq(Numbers)
    BY NatFacts, ClientAssumption DEF TypeOK, ClientAssumption
  <2>1. ASSUME UNCHANGED <<number, mq, sent, late>>, hand' \in {hand, None},
               api' = "write" => api = "write"
        PROVE  Fresh' /\ Counted'
    <3>1. InFlight' \subseteq InFlight /\ Read' = Read
      BY <2>1 DEF InFlight, Read
    <3>2. Fresh'
      BY <2>1, <3>1, StepStaysFresh
    <3> QED BY <2>1, <3>1, <3>2, NothingCounted
  <2>2. ASSUME NEW n \in Numbers, n \in InFlight,
               \/ WriteOk(n) /\ InFlight' \subseteq InFlight \ {n}
               \/ WriteFails(n) /\ InFlight' \subseteq InFlight,
               UNCHANGED <<number, mq>>, hand' \in {hand, None}, api' = "write" => api = "write"
        PROVE  Fresh' /\ Counted'
    <3>1. Counted' /\ Read' \subseteq Read \cup {n}
      BY <2>2, WriteCounts
    <3>2. InFlight' \subseteq InFlight /\ Read' \subseteq Read \cup InFlight
      BY <2>2, <3>1
    <3>3. Fresh'
      BY <2>2, <3>2, StepStaysFresh
    <3> QED BY <3>1, <3>3
  <2>3. CASE (\E how \in Inits, kind \in BOOLEAN : InitLog(how, kind)) \/ ShutdownBegins
             \/ ReaderLoop \/ ReaderRetry \/ WildWrite
             \/ DaemonStops \/ DaemonStarts \/ UNCHANGED vars
    <3>1. /\ UNCHANGED <<number, mq, sent, late>> /\ hand' \in {hand, None}
          /\ api' = "write" => api = "write"
      BY <2>3 DEF InitLog, ShutdownBegins, ReaderLoop, ReaderRetry, WildWrite, DaemonStops,
         DaemonStarts, vars, call, world
    <3> QED BY <2>1, <3>1
  <2>4. CASE WriteAsync
    <3>1. /\ number' = number + 1 /\ number' \in Numbers /\ Enqueue(number')
          /\ UNCHANGED <<api, hand, sent, late>> /\ api = "free"
      BY <2>4 DEF WriteAsync, Writing, TypeOK, Numbers, call, world
    <3>2. Sorted(mq') /\ Elements(mq') \subseteq Elements(mq) \cup {number'}
      <4>1. \A m \in Elements(mq) : m < number'
        BY <2>0, <3>1 DEF Fresh
      <4> QED BY <2>0, <3>1, <4>1, EnqueueFresh DEF Fresh
    <3>3. InFlight' = InFlight /\ Read' = Read
      BY <3>1 DEF InFlight, Read
    <3>4. InFlight \subseteq {hand}
      BY <3>1 DEF InFlight
    <3>5. number' \notin Read \cup InFlight
      BY <2>0, <3>1, <3>4 DEF Fresh
    <3>6. Elements(mq') \cap (Read' \cup InFlight') = {}
      BY <3>2, <3>3, <3>5 DEF Fresh
    <3>7. Elements(mq') \cup Read' \cup {hand'} \subseteq 0 .. number'
      BY <2>0, <3>1, <3>2, <3>3 DEF Fresh
    <3>8. Fresh'
      BY <3>1, <3>2, <3>6, <3>7 DEF Fresh
    <3>9. Counted'
      BY <3>1, <3>3, NothingCounted
    <3> QED BY <3>8, <3>9
  <2>5. CASE WriteSync
    <3>1. /\ number' = number + 1 /\ UNCHANGED <<mq, hand, sent, late>> /\ api = "free"
      BY <2>5 DEF WriteSync, Writing, world
    <3>2. InFlight' \subseteq InFlight \cup {number'} /\ Read' = Read /\ Elements(mq') = Elements(mq)
      BY <3>1 DEF InFlight, Read
    <3>3. number' \notin Read \cup Elements(mq) \cup {hand}
      BY <2>0, <3>1 DEF Fresh
    <3>4. Elements(mq') \cup Read' \cup {hand'} \subseteq 0 .. number'
      BY <2>0, <3>1, <3>2 DEF Fresh
    <3>5. Fresh'
      BY <3>1, <3>2, <3>3, <3>4 DEF Fresh
    <3>6. Counted'
      BY <3>1, <3>2, <3>3, NothingCounted
    <3> QED BY <3>5, <3>6
  <2>6. CASE SyncTry
    <3>1. CASE WildWrite
      BY <2>3, <3>1
    <3>2. ASSUME api = "write", UNCHANGED <<number, mq, hand>>,
                 \/ WriteOk(number) /\ SyncSucceeds
                 \/ WriteFails(number) /\ SyncFails
          PROVE  Fresh' /\ Counted'
      <4>1. number \in Numbers /\ number \in InFlight
        BY <3>2 DEF TypeOK, Numbers, None, InFlight
      <4>2. InFlight' \subseteq InFlight
        BY <3>2 DEF InFlight
      <4>3. SyncSucceeds => InFlight' \subseteq InFlight \ {number}
        BY <3>2 DEF InFlight, SyncSucceeds, Fresh
      <4> QED BY <2>2, <3>2, <4>1, <4>2, <4>3
    <3> QED BY <2>6, <3>1, <3>2 DEF SyncTry
  <2>7. CASE ShutdownEnds
    <3>1. /\ mq' = <<>> /\ UNCHANGED <<number, hand, sent, late>> /\ api' = "free" /\ api = "stopping"
      BY <2>7 DEF ShutdownEnds, Stopping, world
    <3>2. InFlight' = InFlight /\ Read' = Read /\ Elements(mq') = {} /\ Sorted(mq')
      BY <3>1 DEF InFlight, Read, Elements, Sorted
    <3>3. Fresh'
      BY <3>1, <3>2 DEF Fresh
    <3>4. Counted'
      BY <3>1, <3>2, NothingCounted
    <3> QED BY <3>3, <3>4
  <2>8. CASE ReaderTake
    <3>1. UNCHANGED <<api, number, sent, late>> /\ api # "write"
      BY <2>8 DEF ReaderTake, MutexFree, call, world
    <3>2. CASE UNCHANGED <<hand, mq>>
      BY <2>1, <3>1, <3>2
    <3>3. CASE mq # <<>> /\ hand' = Head(mq) /\ mq' = Tail(mq)
      <4>1. /\ Sorted(mq') /\ Elements(mq') \subseteq Elements(mq)
            /\ hand' \in Elements(mq) /\ hand' \notin Elements(mq')
        BY <2>0, <3>3, ElementsTail DEF Fresh
      <4>2. InFlight' \subseteq {hand'} /\ Read' = Read
        BY <3>1 DEF InFlight, Read
      <4>3. Fresh'
        BY <3>1, <4>1, <4>2 DEF Fresh
      <4>4. InFlight' \cap Read = {}
        BY <4>1, <4>2 DEF Fresh
      <4>5. Counted'
        BY <3>1, <4>4, NothingCounted
      <4> QED BY <4>3, <4>5
    <3> QED BY <2>8, <3>2, <3>3 DEF ReaderTake
  <2>9. CASE ReaderWrite
    <3>1. CASE WildWrite
      BY <2>3, <3>1
    <3>2. ASSUME reader = "write", UNCHANGED <<call, number, mq>>,
                 \/ WriteOk(hand) /\ ReaderSent
                 \/ WriteFails(hand) /\ ReaderFailed
          PROVE  Fresh' /\ Counted'
      <4>1. hand \in Numbers /\ hand \in InFlight
        BY <3>2 DEF TypeOK, Numbers, None, InFlight
      <4>2. UNCHANGED <<api, number, mq>> /\ hand' \in {hand, None}
        BY <3>2 DEF call, ReaderSent, ReaderFailed
      <4>3. InFlight' \subseteq InFlight
        BY <4>2 DEF InFlight
      <4>4. ReaderSent => InFlight' \subseteq InFlight \ {hand}
        BY <4>2 DEF InFlight, ReaderSent, Fresh
      <4> QED BY <2>2, <3>2, <4>1, <4>2, <4>3, <4>4
    <3> QED BY <2>9, <3>1, <3>2 DEF ReaderWrite
  <2> QED BY <2>3, <2>4, <2>5, <2>6, <2>7, <2>8, <2>9
          DEF Next, Application, Continue, Reader
<1>3. TypeOK /\ RepeatInv => NoNeedlessRepeat
  <2> SUFFICES ASSUME TypeOK, Counted PROVE NoNeedlessRepeat
    BY DEF RepeatInv
  <2> QED BY CountsAreNumbers DEF Counted, NoNeedlessRepeat, Read
<1> QED BY <1>1, <1>2, <1>3, TypeCorrect, PTL DEF Spec
=============================================================================
