--------------------------- MODULE DeliveryProofs ---------------------------
(***************************************************************************)
(* Proofs about Delivery, for all values of its constants: types, and that *)
(* no message disappears without a reason.                                 *)
(***************************************************************************)
EXTENDS Delivery, ThinningProofs, FiniteSetTheorems, TLAPS

\* Each step of the whole is one of the daemon, or none, and one of the
\* collector, or none.
DaemonAction ==
  \/ SetLogTransport \/ Start \/ StopBegins \/ StopEnds \/ Suicide
  \/ \E l \in Listeners : \/ Connect(l) \/ ConnectFails(l) \/ Accept(l) \/ Push(l)
                          \/ PushThrows(l) \/ ListenerEnds(l) \/ ListenerFails(l) \/ ReportDone(l)
  \/ Lock \/ FillJunk \/ FillSmall \/ FillLarge \/ FillEnds
  \/ Written \/ BatchFails \/ \E opens \in BOOLEAN : ErrorFails(opens)
  \/ UNCHANGED daemon

Sent == {BatchText, ErrorText, Report, Junk}

CollectorAction ==
  \/ CollectorStarts \/ CollectorStopBegins \/ CollectorStopEnds \/ CollectorSuicide
  \/ \E c \in Conns : \/ \E text \in Sent : Receive(c, text)
                      \/ TakeText(c) \/ DropText(c) \/ ChokeOnText(c) \/ LinkEnds(c)
  \/ TakeItem \/ Idle \/ StoreItem \/ StoreItemLate \/ StorageFails \/ StorageRecovers
  \/ UNCHANGED collector

LEMMA StepsOfBoth ==
  ASSUME [Next]_vars, TypeOK
  PROVE  /\ DaemonAction /\ CollectorAction
         /\ faults' \in 0 .. MaxFaults /\ blurred' \in BOOLEAN
<1>1. CASE UNCHANGED vars
  BY <1>1 DEF vars, DaemonAction, CollectorAction, TypeOK
<1>2. ASSUME NEW text, WriteReturns(text), text \in Sent
      PROVE  CollectorAction /\ blurred' \in BOOLEAN /\ (Fault \/ UNCHANGED faults)
  <2>1. Junk \in Sent
    BY DEF Sent
  <2> QED BY <1>2, <2>1, DeliveryAssumption, Zenon
      DEF WriteReturns, CollectorAction, TypeOK, DeliveryAssumption
<1>3. ASSUME NEW text, WriteThrows(text), text \in Sent
      PROVE  CollectorAction /\ blurred' \in BOOLEAN /\ (Fault \/ UNCHANGED faults)
  BY <1>3, DeliveryAssumption, Zenon DEF WriteThrows, CollectorAction, TypeOK, DeliveryAssumption
<1>4. BatchText \in Sent /\ ErrorText \in Sent /\ Report \in Sent
  BY DEF Sent
<1>5. Fault \/ UNCHANGED faults => faults' \in 0 .. MaxFaults
  BY DeliveryAssumption DEF Fault, TypeOK, DeliveryAssumption
<1>6. DaemonOnly => CollectorAction /\ blurred' \in BOOLEAN /\ UNCHANGED faults
  BY Zenon DEF DaemonOnly, CollectorAction, TypeOK
<1>7. CollectorOnly => DaemonAction /\ blurred' \in BOOLEAN /\ UNCHANGED faults
  BY Zenon DEF CollectorOnly, DaemonAction, Blur, TypeOK
<1>8. CASE DaemonMain
  BY <1>5, <1>6, <1>8, Zenon DEF DaemonMain, DaemonAction
<1>9. CASE ReaderStep
  <2>1. CASE ReaderAlone /\ DaemonOnly
    BY <1>5, <1>6, <2>1, Zenon DEF ReaderAlone, DaemonAction
  <2>2. CASE WriteBatch
    BY <1>2, <1>3, <1>4, <1>5, <2>2, Zenon DEF WriteBatch, DaemonAction
  <2>3. CASE WriteError
    BY <1>2, <1>3, <1>4, <1>5, <2>3, Zenon DEF WriteError, DaemonAction, CollectorAction, TypeOK
  <2> QED BY <1>9, <2>1, <2>2, <2>3 DEF ReaderStep
<1>10. CASE DaemonMoves
  BY <1>5, <1>6, <1>10, Zenon DEF DaemonMoves, DaemonAction, CollectorAction, TypeOK
<1>11. ASSUME NEW l \in Listeners, ListenerStep(l)
       PROVE  DaemonAction /\ CollectorAction /\ faults' \in 0 .. MaxFaults /\ blurred' \in BOOLEAN
  BY <1>2, <1>3, <1>4, <1>5, <1>6, <1>11, Zenon
  DEF ListenerStep, ListenerAlone, WriteReport, DaemonAction
<1>12. ASSUME NEW c \in Conns, LinkStep(c)
       PROVE  DaemonAction /\ CollectorAction /\ faults' \in 0 .. MaxFaults /\ blurred' \in BOOLEAN
  BY <1>5, <1>7, <1>12, Zenon DEF LinkStep, CollectorAction
<1>13. CASE StorerStep
  BY <1>5, <1>7, <1>13, Zenon DEF StorerStep, Storer, CollectorAction
<1>14. CASE CollectorEnds
  BY <1>5, <1>7, <1>14, Zenon DEF CollectorEnds, CollectorAction
<1>15. CASE CollectorMoves
  BY <1>5, <1>7, <1>15, Zenon DEF CollectorMoves, CollectorAction, DaemonAction, TypeOK
<1>16. CASE OtherDaemonSends
  BY <1>4, <1>5, <1>16, Zenon DEF OtherDaemonSends, CollectorAction, DaemonAction, TypeOK
<1> QED BY <1>1, <1>8, <1>9, <1>10, <1>11, <1>12, <1>13, <1>14, <1>15, <1>16 DEF Next

----------------------------------------------------------------------------
(* Types, and what the threads hold *)

\* The name of the host is in the queue only at its head, and only until the
\* batch that was in the making there has been written.
HostsOnce == \A i \in 1 .. Len(mq) : mq[i].hosts = 1 => i = 1 /\ batch = <<>>

SendingFree == reader \in {"lock", "fill", "ended"} => sending = <<>>

DaemonInv == DaemonType /\ HostsOnce /\ SendingFree

HandFree == storer # "store" => hand = NoItem

InboxFree ==
  \A c \in Conns :
    /\ IF link[c] = "got" THEN inbox[c].kind # "none" ELSE inbox[c] = NoText
    /\ inbox[c].kind = "junk" => inbox[c].body = <<>>

OffIsClean == life = "off" => storer = "ended" /\ \A c \in Conns : link[c] = "ended"

CollectorInv == CollectorType /\ HandFree /\ InboxFree /\ OffIsClean

LEMMA TailFacts ==
  ASSUME NEW S, NEW q \in Seq(S), q # <<>>
  PROVE  /\ Head(q) \in S /\ Head(q) = q[1] /\ 1 \in 1 .. Len(q)
         /\ Tail(q) \in Seq(S)
         /\ \A i \in 1 .. Len(Tail(q)) : Tail(q)[i] = q[i + 1] /\ i + 1 \in 1 .. Len(q) /\ i + 1 # 1
OBVIOUS

LEMMA AppendFacts ==
  ASSUME NEW S, NEW q \in Seq(S), NEW e \in S
  PROVE  /\ Append(q, e) \in Seq(S) /\ Len(Append(q, e)) = Len(q) + 1
         /\ Append(q, e)[Len(q) + 1] = e
         /\ \A i \in 1 .. Len(q) : Append(q, e)[i] = q[i]
OBVIOUS

LEMMA EmptyTypes == ASSUME NEW S PROVE <<>> \in Seq(S)
OBVIOUS

\* What a message of the queue is after its hostname was appended.
LEMMA WithHostFacts ==
  ASSUME NEW m \in Message
  PROVE  /\ WithHost(m).num = m.num /\ WithHost(m).num \in Nat
         /\ m.hosts = 0 => WithHost(m) \in Message
BY DEF Message, WithHost

\* push() leaves a queue of messages, in which no new one has its hostname.
LEMMA EnqueueTypes ==
  ASSUME DaemonInv, NEW m \in Message, m.hosts = 0, Enqueue(m), UNCHANGED batch
  PROVE  mq' \in Seq(Message) /\ HostsOnce'
<1>1. PICK kept \in Seq(Message) :
         /\ mq' = Append(kept, m)
         /\ \A i \in 1 .. Len(kept) : kept[i].hosts = 1 => i = 1 /\ batch = <<>>
  <2>1. CASE mq' = Append(mq, m)
    BY <2>1 DEF DaemonInv, DaemonType, HostsOnce
  <2>2. ASSUME NEW kept \in Thinned(mq), mq' = Append(kept, m)
        PROVE  \E q \in Seq(Message) :
                 /\ mq' = Append(q, m)
                 /\ \A i \in 1 .. Len(q) : q[i].hosts = 1 => i = 1 /\ batch = <<>>
    <3>1. kept \in Seq(Message) /\ Len(kept) \in Nat /\ Len(mq) \in Nat
      BY ThinnedFacts DEF DaemonInv, DaemonType
    <3>2. PICK f \in Picks(Len(kept), Len(mq)) : \A i \in 1 .. Len(kept) : kept[i] = mq[f[i]]
      BY ThinnedFacts DEF DaemonInv, DaemonType
    <3>3. /\ f \in [1 .. Len(kept) -> 1 .. Len(mq)]
          /\ \A i, j \in 1 .. Len(kept) : i < j => f[i] < f[j]
      BY DEF Picks
    <3>4. ASSUME NEW i \in 1 .. Len(kept), kept[i].hosts = 1
          PROVE  i = 1 /\ batch = <<>>
      <4>1. f[i] \in 1 .. Len(mq) /\ kept[i] = mq[f[i]]
        BY <3>2, <3>3
      <4>2. f[i] = 1 /\ batch = <<>>
        BY <3>4, <4>1 DEF DaemonInv, HostsOnce
      <4>3. ASSUME i # 1 PROVE FALSE
        <5>1. 1 \in 1 .. Len(kept) /\ 1 < i
          BY <3>1, <4>3
        <5>2. f[1] < f[i] /\ f[1] \in 1 .. Len(mq)
          BY <3>3, <5>1
        <5> QED BY <3>1, <4>2, <5>2
      <4> QED BY <4>2, <4>3
    <3> QED BY <2>2, <3>1, <3>4
  <2> QED BY <2>1, <2>2 DEF Enqueue
<1>2. mq' \in Seq(Message)
  BY <1>1, AppendFacts
<1>3. ASSUME NEW i \in 1 .. Len(mq'), mq'[i].hosts = 1
      PROVE  i = 1 /\ batch' = <<>>
  <2>1. CASE i \in 1 .. Len(kept)
    BY <1>1, <1>3, <2>1, AppendFacts
  <2>2. CASE i = Len(kept) + 1
    BY <1>1, <1>3, <2>2, AppendFacts
  <2>3. i \in 1 .. Len(kept) \/ i = Len(kept) + 1
    BY <1>1, AppendFacts
  <2> QED BY <2>1, <2>2, <2>3
<1> QED BY <1>2, <1>3 DEF HostsOnce

\* Taking the head away.
LEMMA TailHosts ==
  ASSUME DaemonInv, mq # <<>>, mq' = Tail(mq)
  PROVE  mq' \in Seq(Message) /\ HostsOnce'
<1>1. mq \in Seq(Message)
  BY DEF DaemonInv, DaemonType
<1>2. mq' \in Seq(Message)
  BY <1>1, TailFacts
<1>3. ASSUME NEW i \in 1 .. Len(mq'), mq'[i].hosts = 1
      PROVE  FALSE
  <2>1. mq'[i] = mq[i + 1] /\ i + 1 \in 1 .. Len(mq) /\ i + 1 # 1
    BY <1>1, TailFacts
  <2> QED BY <1>3, <2>1 DEF DaemonInv, HostsOnce
<1> QED BY <1>2, <1>3 DEF HostsOnce

LEMMA SendTypes ==
  ASSUME DaemonInv, NEW b \in Seq(Nat), Send(b)
  PROVE  /\ sending' \in Seq(Nat) /\ batch' \in Seq(Nat) /\ batch' = <<>>
         /\ flush' \in 0 .. FlushAfter - 1 /\ tries' \in 0 .. Retries
         /\ reader' = "write" /\ logged' \subseteq Nat
BY DaemonAssumption, EmptyTypes DEF Send, DaemonInv, DaemonType, DaemonAssumption

LEMMA DieTypes ==
  ASSUME DaemonInv, Die, wild' \in BOOLEAN
  PROVE  DaemonInv'
<1>1. DaemonType'
  <2>1. phase' \in Phases /\ listener' \in [Listeners -> {"none", "connect", "read", "push", "report", "ended"}]
    BY DEF Die, Phases
  <2>2. mq' \in Seq(Message) /\ batch' \in Seq(Nat) /\ sending' \in Seq(Nat)
    BY EmptyTypes DEF Die
  <2>3. flush' \in 0 .. FlushAfter - 1 /\ tries' \in 0 .. Retries
    BY DaemonAssumption DEF Die, DaemonAssumption
  <2>4. reader' = "ended" /\ logged' = logged /\ number' = number
    BY DEF Die
  <2> QED BY <2>1, <2>2, <2>3, <2>4 DEF DaemonType, DaemonInv
<1>2. HostsOnce' /\ SendingFree'
  BY DEF Die, HostsOnce, SendingFree
<1> QED BY <1>1, <1>2 DEF DaemonInv

LEMMA ElementsTypes ==
  ASSUME NEW s \in Seq(Nat)
  PROVE  Elements(s) \subseteq Nat
BY DEF Elements

\* What an error message holds is some of the batch, in its order, and all of
\* it if there is room and it is no format.
LEMMA ErrorBodyFacts ==
  ASSUME NEW b \in Seq(Nat), NEW e \in ErrorBodies(b)
  PROVE  /\ e \in Seq(Nat) /\ Len(e) <= Len(b)
         /\ \E f \in Picks(Len(e), Len(b)) : \A i \in 1 .. Len(e) : e[i] = b[f[i]]
         /\ ~IsFormat(b) /\ FitsError(b, Len(b)) => e = b
<1>1. CASE IsFormat(b)
  BY <1>1, ThinnedFacts DEF ErrorBodies
<1>2. CASE ~IsFormat(b)
  <2>1. PICK k \in 0 .. Len(b) :
          e = SubSeq(b, 1, k) /\ \A i \in k + 1 .. Len(b) : ~FitsError(b, i)
    BY <1>2 DEF ErrorBodies, Beginning
  <2>2. /\ e \in Seq(Nat) /\ Len(e) = k /\ k \in Nat /\ k <= Len(b) /\ Len(b) \in Nat
        /\ \A i \in 1 .. k : e[i] = b[i]
    BY <2>1
  <2> DEFINE f == [i \in 1 .. k |-> i]
  <2>3. f \in Picks(k, Len(b)) /\ \A i \in 1 .. k : e[i] = b[f[i]]
    BY <2>2 DEF Picks
  <2> HIDE DEF f
  <2>4. ASSUME FitsError(b, Len(b)) PROVE e = b
    <3>1. k = Len(b)
      BY <2>1, <2>2, <2>4
    <3> QED BY <2>1, <2>2, <3>1
  <2> QED BY <2>2, <2>3, <2>4
<1> QED BY <1>1, <1>2

LEMMA ErrorBodyTypes ==
  ASSUME NEW b \in Seq(Nat)
  PROVE  \A e \in ErrorBodies(b) : e \in Seq(Nat)
BY ErrorBodyFacts

\* A listener that is about to push has room for its message.
PushersCounted == number + Cardinality(Pushers) <= MaxNumber

LEMMA PushersFinite ==
  /\ IsFiniteSet(Pushers) /\ Cardinality(Pushers) \in Nat
  /\ IsFiniteSet(Pushers') /\ Cardinality(Pushers') \in Nat
<1>1. Pushers \subseteq Listeners /\ Pushers' \subseteq Listeners
  BY DEF Pushers
<1> QED BY <1>1, FS_Subset, FS_CardinalityType, DaemonAssumption DEF DaemonAssumption

LEMMA PushersMove ==
  ASSUME DaemonType, NEW l \in Listeners, NEW place,
         listener' = [listener EXCEPT ![l] = place]
  PROVE  /\ place = "push" => Pushers' = Pushers \cup {l}
         /\ place # "push" => Pushers' = Pushers \ {l}
BY DEF DaemonType, Pushers

LEMMA CountedStep ==
  ASSUME DaemonType, PushersCounted, DaemonAction
  PROVE  PushersCounted'
<1>0. number \in Nat /\ MaxNumber \in Nat
  BY DaemonAssumption DEF DaemonType, DaemonAssumption
<1>1. ASSUME number' = number, Pushers' \subseteq Pushers
      PROVE  PushersCounted'
  <2>1. Cardinality(Pushers') <= Cardinality(Pushers)
    BY <1>1, PushersFinite, FS_Subset
  <2> QED BY <1>0, <1>1, <2>1, PushersFinite DEF PushersCounted
<1>2. ASSUME NEW l \in Listeners, Push(l) PROVE PushersCounted'
  <2>1. number' = number + 1 /\ l \in Pushers
    BY <1>2 DEF Push, Pushers
  <2>2. \E place \in {"read", "ended"} : listener' = [listener EXCEPT ![l] = place]
    BY <1>2, Zenon DEF Push, AtLoopEnd
  <2>3. Pushers' = Pushers \ {l}
    BY <2>2, PushersMove
  <2>4. Cardinality(Pushers') = Cardinality(Pushers) - 1
    BY <2>1, <2>3, PushersFinite, FS_RemoveElement
  <2> QED BY <1>0, <2>1, <2>4, PushersFinite DEF PushersCounted
<1>3. ASSUME NEW l \in Listeners, Accept(l) PROVE PushersCounted'
  <2>1. number' = number /\ l \notin Pushers /\ number + Cardinality(Pushers) < MaxNumber
    BY <1>3 DEF Accept, Pushers
  <2>2. Pushers' = Pushers \cup {l}
    BY <1>3, PushersMove DEF Accept
  <2>3. Cardinality(Pushers') = Cardinality(Pushers) + 1
    BY <2>1, <2>2, PushersFinite, FS_AddElement
  <2> QED BY <1>0, <2>1, <2>3, PushersFinite DEF PushersCounted
<1>4. ASSUME NEW l \in Listeners,
             Connect(l) \/ ListenerEnds(l) \/ ListenerFails(l) \/ ReportDone(l)
      PROVE  PushersCounted'
  <2>1. number' = number
    BY <1>4 DEF Connect, ListenerEnds, ListenerFails, ReportDone
  <2>2. \E place \in {"read", "report", "ended"} : listener' = [listener EXCEPT ![l] = place]
    BY <1>4, Zenon DEF Connect, ListenerEnds, ListenerFails, ReportDone, AtLoopEnd
  <2>3. Pushers' \subseteq Pushers
    BY <2>2, PushersMove
  <2> QED BY <1>1, <2>1, <2>3
<1>5. ASSUME Die \/ Start PROVE PushersCounted'
  <2>1. number' = number /\ Pushers' = {}
    BY <1>5 DEF Die, Start, Pushers
  <2> QED BY <1>1, <2>1
<1>6. ASSUME UNCHANGED input PROVE PushersCounted'
  <2>1. number' = number /\ Pushers' = Pushers
    BY <1>6 DEF input, Pushers
  <2> QED BY <1>1, <2>1
<1> QED BY <1>2, <1>3, <1>4, <1>5, <1>6, Zenon
  DEF DaemonAction, SetLogTransport, StopBegins, StopEnds, Suicide, ConnectFails, PushThrows,
      Lock, FillJunk, FillSmall, FillSmallAs, FillLarge, FillEnds, Written, BatchFails, ErrorFails, daemon

\* What is pushed is a message without a hostname.
LEMMA PushedExists ==
  ASSUME DaemonType, PushersCounted, NEW l \in Listeners, Push(l)
  PROVE  \E m \in Message : m.num = number + 1 /\ m.hosts = 0 /\ Enqueue(m)
<1>1. l \in Pushers
  BY DEF Push, Pushers
<1>2. Cardinality(Pushers) # 0
  BY <1>1, PushersFinite, FS_EmptySet
<1>3. number + 1 \in 1 .. MaxNumber
  BY <1>2, PushersFinite, DaemonAssumption DEF PushersCounted, DaemonType, DaemonAssumption
<1>4. MessageOf[number + 1] \in [len : Nat, json : SUBSET BOOLEAN, percent : BOOLEAN]
  BY <1>3, DaemonAssumption DEF DaemonAssumption
<1>5. PICK json \in MessageOf[number + 1].json :
        Enqueue([num |-> number + 1, len |-> MessageOf[number + 1].len,
                 json |-> json, hosts |-> 0])
  BY DEF Push
<1>6. MessageOf[number + 1].len \in Nat /\ json \in BOOLEAN /\ number \in Nat
  BY <1>4 DEF DaemonType
<1> DEFINE m == [num |-> number + 1, len |-> MessageOf[number + 1].len,
                 json |-> json, hosts |-> 0]
<1>7. m \in Message /\ m.num = number + 1 /\ m.hosts = 0
  BY <1>6 DEF Message
<1> QED BY <1>5, <1>7

LEMMA DaemonStep ==
  ASSUME DaemonInv, PushersCounted, DaemonAction
  PROVE  DaemonInv'
<1>0. /\ mq \in Seq(Message) /\ batch \in Seq(Nat) /\ sending \in Seq(Nat)
      /\ number \in Nat /\ wild \in BOOLEAN
  BY DEF DaemonInv, DaemonType
<1>1. CASE SetLogTransport \/ StopBegins
  BY <1>1 DEF SetLogTransport, StopBegins, input, queue, output,
     DaemonInv, DaemonType, HostsOnce, SendingFree, Phases
<1>2. CASE Start
  BY <1>2 DEF Start, queue, output, DaemonInv, DaemonType, HostsOnce, SendingFree, Phases
<1>3. CASE StopEnds
  <2>1. mq' = <<>> /\ phase' \in Phases /\ UNCHANGED <<input, output, wild>>
    BY <1>3 DEF StopEnds, Phases
  <2>2. mq' \in Seq(Message) /\ HostsOnce'
    BY <2>1, EmptyTypes DEF HostsOnce
  <2> QED BY <2>1, <2>2 DEF input, output, DaemonInv, DaemonType, SendingFree
<1>4. CASE Suicide
  BY <1>0, <1>4, DieTypes DEF Suicide
<1>5. ASSUME NEW l \in Listeners,
             Connect(l) \/ Accept(l) \/ ListenerEnds(l) \/ ListenerFails(l) \/ ReportDone(l)
      PROVE  DaemonInv'
  <2>1. UNCHANGED <<phase, number, queue, output, wild>>
    BY <1>5 DEF Connect, Accept, ListenerEnds, ListenerFails, ReportDone
  <2>2. \E place \in {"read", "push", "report", "ended"} : listener' = [listener EXCEPT ![l] = place]
    BY <1>5, Zenon DEF Connect, Accept, ListenerEnds, ListenerFails, ReportDone, AtLoopEnd
  <2>3. listener' \in [Listeners -> {"none", "connect", "read", "push", "report", "ended"}]
    BY <2>2 DEF DaemonInv, DaemonType
  <2> QED BY <2>1, <2>3 DEF queue, output, DaemonInv, DaemonType, HostsOnce, SendingFree
<1>6. ASSUME NEW l \in Listeners, ConnectFails(l) \/ PushThrows(l) PROVE DaemonInv'
  BY <1>0, <1>6, DieTypes DEF ConnectFails, PushThrows
<1>7. ASSUME NEW l \in Listeners, Push(l) PROVE DaemonInv'
  <2>1. number' = number + 1 /\ AtLoopEnd(l) /\ UNCHANGED <<phase, output, wild>>
    BY <1>7 DEF Push
  <2>2. PICK m \in Message : m.hosts = 0 /\ Enqueue(m)
    BY <1>7, PushedExists DEF DaemonInv
  <2>3. mq' \in Seq(Message) /\ HostsOnce'
    BY <2>1, <2>2, EnqueueTypes DEF output
  <2>4. listener' \in [Listeners -> {"none", "connect", "read", "push", "report", "ended"}]
    BY <2>1 DEF AtLoopEnd, DaemonInv, DaemonType
  <2> QED BY <1>0, <2>1, <2>3, <2>4 DEF output, DaemonInv, DaemonType, SendingFree
<1>8. CASE Lock
  <2>1. UNCHANGED <<phase, input, queue, flush, sending, tries, logged, wild>>
    BY <1>8 DEF Lock
  <2>2. reader = "lock" /\ reader' \in {"fill", "ended"} /\ batch' \in {batch, <<>>}
    BY <1>8, Zenon DEF Lock
  <2>3. batch' \in Seq(Nat) /\ HostsOnce'
    BY <1>0, <2>1, <2>2, EmptyTypes DEF HostsOnce, DaemonInv, queue
  <2> QED BY <2>1, <2>2, <2>3 DEF input, queue, DaemonInv, DaemonType, SendingFree
<1>9. CASE FillJunk
  <2>1. wild' \in BOOLEAN
    BY <1>9, Zenon DEF FillJunk
  <2>2. CASE Die
    BY <2>1, <2>2, DieTypes
  <2>3. CASE mq' = Tail(mq) /\ UNCHANGED <<phase, input, output>>
    <3>1. mq' \in Seq(Message) /\ HostsOnce'
      BY <1>9, <2>3, TailHosts DEF FillJunk, Filling
    <3> QED BY <2>1, <2>3, <3>1 DEF input, output, DaemonInv, DaemonType, SendingFree
  <2> QED BY <1>9, <2>2, <2>3 DEF FillJunk
<1>10. CASE FillSmall
  <2>1. /\ mq # <<>> /\ mq' = Tail(mq) /\ batch' = Append(batch, Head(mq).num)
        /\ UNCHANGED <<phase, input, reader, flush, sending, tries, logged, wild>>
    BY <1>10 DEF FillSmall, FillSmallAs, Filling
  <2>2. mq' \in Seq(Message) /\ HostsOnce'
    BY <2>1, TailHosts
  <2>3. batch' \in Seq(Nat)
    <3>1. Head(mq) \in Message
      BY <1>0, <2>1, TailFacts
    <3>2. Head(mq).num \in Nat
      BY <3>1 DEF Message
    <3> QED BY <1>0, <2>1, <3>2, AppendFacts
  <2> QED BY <2>1, <2>2, <2>3 DEF input, DaemonInv, DaemonType, SendingFree
<1>11. CASE FillLarge
  <2> DEFINE m == WithHost(Head(mq))
  <2>1. mq # <<>> /\ UNCHANGED <<phase, input, wild>>
    BY <1>11 DEF FillLarge, Filling
  <2>2. Head(mq) \in Message /\ Head(mq) = mq[1] /\ 1 \in 1 .. Len(mq)
    BY <1>0, <2>1, TailFacts
  <2>3. m.num \in Nat /\ (Head(mq).hosts = 0 => m \in Message)
    BY <2>2, WithHostFacts
  <2> HIDE DEF m
  <2>4. CASE mq' = Tail(mq) /\ Send(<<m.num>>)
    <3>1. mq' \in Seq(Message) /\ HostsOnce'
      BY <2>1, <2>4, TailHosts
    <3>2. <<m.num>> \in Seq(Nat)
      BY <2>3
    <3> QED BY <2>1, <2>4, <3>1, <3>2, SendTypes DEF input, DaemonInv, DaemonType, SendingFree
  <2>5. CASE batch # <<>> /\ mq' = [mq EXCEPT ![1] = m] /\ Send(batch)
    <3>1. Head(mq).hosts = 0
      <4>1. Head(mq).hosts # 1
        BY <2>2, <2>5 DEF DaemonInv, HostsOnce
      <4> QED BY <2>2, <4>1 DEF Message
    <3>2. mq' \in Seq(Message) /\ Len(mq') = Len(mq)
          /\ \A i \in 1 .. Len(mq) : i # 1 => mq'[i] = mq[i]
      BY <1>0, <2>2, <2>3, <2>5, <3>1
    <3>3. batch' = <<>>
      BY <2>5 DEF Send
    <3>4. HostsOnce'
      BY <3>2, <3>3 DEF DaemonInv, HostsOnce
    <3> QED BY <1>0, <2>1, <2>5, <3>2, <3>4, SendTypes DEF input, DaemonInv, DaemonType, SendingFree
  <2> QED BY <1>11, <2>4, <2>5 DEF FillLarge, m
<1>12. CASE FillEnds
  <2>1. reader = "fill" /\ UNCHANGED <<phase, input, queue, wild>>
    BY <1>12 DEF FillEnds
  <2>2. CASE Send(batch)
    <3>1. HostsOnce'
      BY <2>1, <2>2 DEF DaemonInv, HostsOnce, queue, Send
    <3> QED BY <1>0, <2>1, <2>2, <3>1, SendTypes DEF input, queue, DaemonInv, DaemonType, SendingFree
  <2>3. CASE /\ flush' \in {flush, flush + 1} /\ flush' < FlushAfter /\ reader' = "lock"
             /\ UNCHANGED <<batch, sending, tries, logged>>
    <3>1. flush' \in 0 .. FlushAfter - 1
      BY <2>3, DaemonAssumption DEF DaemonInv, DaemonType, DaemonAssumption
    <3> QED BY <2>1, <2>3, <3>1 DEF input, queue, DaemonInv, DaemonType, HostsOnce, SendingFree
  <2> QED BY <1>12, <2>2, <2>3 DEF FillEnds
<1>13. CASE Written
  <2>1. /\ reader' = "lock" /\ sending' = <<>> /\ tries' = 0
        /\ UNCHANGED <<phase, input, queue, batch, flush, logged, wild>>
    BY <1>13 DEF Written, Done
  <2>2. sending' \in Seq(Nat) /\ tries' \in 0 .. Retries
    BY <2>1, EmptyTypes, DaemonAssumption DEF DaemonAssumption
  <2> QED BY <2>1, <2>2 DEF input, queue, DaemonInv, DaemonType, HostsOnce, SendingFree
<1>14. CASE BatchFails
  <2>1. CASE Die
    BY <1>0, <1>14, <2>1, DieTypes DEF BatchFails
  <2>2. CASE /\ reader' \in {"write", "error"} /\ tries' \in {tries - 1, Retries}
             /\ tries = 0 => tries' = Retries
             /\ sending' = sending \/ sending' \in ErrorBodies(sending)
             /\ UNCHANGED <<phase, input, queue, batch, flush, logged, wild>>
    <3>1. tries' \in 0 .. Retries
      BY <2>2, DaemonAssumption DEF DaemonInv, DaemonType, DaemonAssumption
    <3>2. sending' \in Seq(Nat)
      BY <1>0, <2>2, ErrorBodyTypes
    <3> QED BY <2>2, <3>1, <3>2 DEF input, queue, DaemonInv, DaemonType, HostsOnce, SendingFree
  <2> QED BY <1>14, <2>1, <2>2 DEF BatchFails
<1>15. ASSUME NEW opens \in BOOLEAN, ErrorFails(opens) PROVE DaemonInv'
  <2>1. reader = "error" /\ UNCHANGED <<phase, input, queue, batch, flush, wild>>
    BY <1>15 DEF ErrorFails
  <2>2. CASE tries' = tries - 1 /\ tries > 0 /\ UNCHANGED <<reader, sending, logged>>
    <3>1. tries' \in 0 .. Retries
      BY <2>2, DaemonAssumption DEF DaemonInv, DaemonType, DaemonAssumption
    <3> QED BY <2>1, <2>2, <3>1 DEF input, queue, DaemonInv, DaemonType, HostsOnce, SendingFree
  <2>3. CASE Done /\ logged' \in {logged, logged \cup Elements(sending)}
    <3>1. sending' \in Seq(Nat) /\ tries' \in 0 .. Retries /\ logged' \subseteq Nat
      BY <1>0, <2>3, EmptyTypes, ElementsTypes, DaemonAssumption
      DEF Done, DaemonInv, DaemonType, DaemonAssumption
    <3> QED BY <2>1, <2>3, <3>1 DEF Done, input, queue, DaemonInv, DaemonType, HostsOnce, SendingFree
  <2> QED BY <1>15, <2>2, <2>3 DEF ErrorFails
<1>16. CASE UNCHANGED daemon
  BY <1>16 DEF daemon, input, queue, output, DaemonInv, DaemonType, HostsOnce, SendingFree
<1> QED BY <1>1, <1>2, <1>3, <1>4, <1>5, <1>6, <1>7, <1>8, <1>9, <1>10, <1>11, <1>12, <1>13,
           <1>14, <1>15, <1>16 DEF DaemonAction

\* Nothing is left of a process that ended, and nothing moves in it.
DeadIsClean ==
  phase = "dead" =>
    /\ mq = <<>> /\ batch = <<>> /\ sending = <<>> /\ reader = "ended"
    /\ \A l \in Listeners : listener[l] = "ended"

LEMMA DeadStaysDead ==
  ASSUME DeadIsClean, phase = "dead", DaemonAction
  PROVE  UNCHANGED daemon
BY DEF DeadIsClean, DaemonAction, SetLogTransport, Start, StopBegins, StopEnds, Suicide, Stopping,
   Connect, ConnectFails, Accept, Push, PushThrows, ListenerEnds, ListenerFails, ReportDone,
   Lock, FillJunk, FillSmall, FillSmallAs, FillLarge, FillEnds, Filling, Written, BatchFails,
   ErrorFails

LEMMA DeadStep ==
  ASSUME DeadIsClean, DaemonAction
  PROVE  DeadIsClean'
<1>1. CASE phase = "dead"
  <2>1. UNCHANGED <<phase, mq, batch, sending, reader, listener>>
    BY <1>1, DeadStaysDead DEF daemon, input, queue, output
  <2> QED BY <2>1 DEF DeadIsClean
<1>2. CASE Die
  BY <1>2 DEF Die, DeadIsClean
<1>3. ASSUME phase # "dead", ~Die PROVE phase' # "dead"
  BY <1>3, Zenon DEF DaemonAction, SetLogTransport, Start, StopBegins, StopEnds, Suicide,
     Connect, ConnectFails, Accept, Push, PushThrows, ListenerEnds, ListenerFails, ReportDone,
     Lock, FillJunk, FillSmall, FillSmallAs, FillLarge, FillEnds, Written, BatchFails,
     ErrorFails, daemon
<1> QED BY <1>1, <1>2, <1>3 DEF DeadIsClean

----------------------------------------------------------------------------

LEMMA TextTypes ==
  ASSUME sending \in Seq(Nat), NEW text \in Sent
  PROVE  /\ text \in Text /\ text.kind # "none"
         /\ text.kind = "junk" => text.body = <<>>
<1>1. <<>> \in Seq(Nat)
  BY EmptyTypes
<1>2. BatchText \in Text /\ BatchText.kind = "batch"
  BY DEF BatchText, Text
<1>3. ErrorText = [kind |-> "error", body |-> sending]
  BY DEF ErrorText, BatchText
<1>4. ErrorText \in Text /\ ErrorText.kind = "error"
  BY <1>3 DEF Text
<1>5. /\ Report \in Text /\ Report.kind = "other"
      /\ Junk \in Text /\ Junk.kind = "junk" /\ Junk.body = <<>>
  BY <1>1 DEF Report, Junk, Text
<1> QED BY <1>2, <1>4, <1>5 DEF Sent

LEMMA NoneTypes == NoText \in Text /\ NoText.kind = "none" /\ NoItem \in Item
BY EmptyTypes DEF NoText, NoItem, Text, Item

LEMMA ItemsTypes ==
  ASSUME NEW text \in Text, text.kind # "junk"
  PROVE  Items(text) \in Seq(Item) /\ (text.kind # "batch" => Len(Items(text)) = 1)
<1>1. CASE text.kind = "batch"
  <2>1. text.body \in Seq(Nat)
    BY DEF Text
  <2>2. \A i \in 1 .. Len(text.body) : [kind |-> "message", nums |-> <<text.body[i]>>] \in Item
    BY <2>1 DEF Item
  <2>3. Items(text) =
          [i \in 1 .. Len(text.body) |-> [kind |-> "message", nums |-> <<text.body[i]>>]]
    BY <1>1 DEF Items
  <2> QED BY <1>1, <2>1, <2>2, <2>3
<1>2. CASE text.kind # "batch"
  <2>1. [kind |-> text.kind, nums |-> text.body] \in Item
    BY <1>2 DEF Text, Item
  <2> QED BY <1>2, <2>1 DEF Items
<1> QED BY <1>1, <1>2

LEMMA EnterTypes ==
  ASSUME backlog \in Seq(Item), NEW items \in Seq(Item), Enter(items)
  PROVE  backlog' \in Seq(Item)
<1>1. CASE backlog' = backlog \o items
  BY <1>1
<1>2. ASSUME items # <<>>,
             NEW kept \in Thinned(backlog \o SubSeq(items, 1, Len(items) - 1)),
             backlog' = Append(kept, items[Len(items)])
      PROVE  backlog' \in Seq(Item)
  <2>1. Len(items) \in 1 .. Len(items) /\ items[Len(items)] \in Item
    BY <1>2
  <2>2. SubSeq(items, 1, Len(items) - 1) \in Seq(Item)
    BY <2>1
  <2>3. backlog \o SubSeq(items, 1, Len(items) - 1) \in Seq(Item)
    BY <2>2
  <2>4. kept \in Seq(Item)
    BY <1>2, <2>3, ThinnedFacts
  <2> QED BY <1>2, <2>1, <2>4, AppendFacts
<1> QED BY <1>1, <1>2 DEF Enter

LEMMA ClearedTypes ==
  ASSUME CollectorInv, life' = "off", Cleared, UNCHANGED storage
  PROVE  CollectorInv'
<1>1. backlog' \in Seq(Item)
  BY EmptyTypes DEF Cleared
<1>2. UNCHANGED <<stored, failing>>
  BY DEF storage
<1>3. /\ link' = [c \in Conns |-> "ended"] /\ inbox' = [c \in Conns |-> NoText]
      /\ old' = NoText /\ storer' = "ended" /\ hand' = NoItem
  BY DEF Cleared
<1>4. CollectorType'
  BY <1>1, <1>2, <1>3, NoneTypes DEF CollectorInv, CollectorType
<1> QED BY <1>3, <1>4, NoneTypes DEF CollectorInv, HandFree, InboxFree, OffIsClean

\* One listener moves on, the others stay.
LEMMA LinkMoves ==
  ASSUME CollectorInv, NEW c \in Conns, NEW place \in {"read", "ended"}, HandsFree(c, place)
  PROVE  /\ link' \in [Conns -> {"read", "got", "ended"}] /\ inbox' \in [Conns -> Text]
         /\ InboxFree'
BY NoneTypes DEF CollectorInv, CollectorType, InboxFree, HandsFree

LEMMA CollectorStep ==
  ASSUME CollectorInv, sending \in Seq(Nat), CollectorAction
  PROVE  CollectorInv'
<1>0. /\ backlog \in Seq(Item) /\ hand \in Item /\ stored \in Seq(Item)
      /\ old \in Text /\ failing \in BOOLEAN
      /\ link \in [Conns -> {"read", "got", "ended"}] /\ inbox \in [Conns -> Text]
  BY DEF CollectorInv, CollectorType
<1>1. CASE CollectorStarts
  <2>1. /\ life' = "running" /\ link' = [c \in Conns |-> "read"] /\ storer' = "take"
        /\ UNCHANGED <<inbox, old, backlog, hand, stored, failing>>
        /\ life = "off"
    BY <1>1 DEF CollectorStarts, storage
  <2>2. storer = "ended" /\ \A c \in Conns : link[c] = "ended"
    BY <2>1 DEF CollectorInv, OffIsClean
  <2> QED BY <2>1, <2>2 DEF CollectorInv, CollectorType, HandFree, InboxFree, OffIsClean
<1>2. CASE CollectorStopBegins
  BY <1>2 DEF CollectorStopBegins, storage, CollectorInv, CollectorType, HandFree, InboxFree, OffIsClean
<1>3. CASE CollectorStopEnds \/ CollectorSuicide \/ \E c \in Conns : ChokeOnText(c)
  BY <1>3, ClearedTypes
  DEF CollectorStopEnds, CollectorSuicide, ChokeOnText, CollectorDies
<1>4. ASSUME NEW c \in Conns, NEW text \in Sent, Receive(c, text) PROVE CollectorInv'
  <2>1. text \in Text /\ text.kind # "none" /\ (text.kind = "junk" => text.body = <<>>)
    BY TextTypes
  <2>2. /\ link' = [link EXCEPT ![c] = "got"] /\ inbox' = [inbox EXCEPT ![c] = text]
        /\ life # "off" /\ UNCHANGED <<life, old, backlog, storer, hand, stored, failing>>
    BY <1>4 DEF Receive, Reads, storage
  <2>3. InboxFree'
    BY <1>0, <2>1, <2>2 DEF CollectorInv, InboxFree
  <2> QED BY <2>1, <2>2, <2>3 DEF CollectorInv, CollectorType, HandFree, OffIsClean
<1>5. ASSUME NEW c \in Conns, TakeText(c) PROVE CollectorInv'
  <2>1. /\ link[c] = "got" /\ inbox[c].kind # "junk"
        /\ Enter(Items(inbox[c])) /\ old' = inbox[c]
        /\ UNCHANGED <<life, storer, hand, stored, failing>>
    BY <1>5 DEF TakeText, storage
  <2>2. \E place \in {"read", "ended"} : HandsFree(c, place)
    BY <1>5, Zenon DEF TakeText
  <2>3. backlog' \in Seq(Item)
    BY <1>0, <2>1, ItemsTypes, EnterTypes
  <2>4. life # "off"
    BY <2>1 DEF CollectorInv, OffIsClean
  <2>5. old' \in Text
    BY <1>0, <2>1
  <2> QED BY <2>1, <2>2, <2>3, <2>4, <2>5, LinkMoves
      DEF CollectorInv, CollectorType, HandFree, OffIsClean
<1>6. ASSUME NEW c \in Conns, DropText(c) PROVE CollectorInv'
  <2>1. /\ link[c] = "got" /\ HandsFree(c, "read")
        /\ UNCHANGED <<life, old, backlog, storer, hand, stored, failing>>
    BY <1>6 DEF DropText, storage
  <2>2. life # "off"
    BY <2>1 DEF CollectorInv, OffIsClean
  <2> QED BY <2>1, <2>2, LinkMoves DEF CollectorInv, CollectorType, HandFree, OffIsClean
<1>7. ASSUME NEW c \in Conns, LinkEnds(c) PROVE CollectorInv'
  <2>1. /\ link[c] = "read" /\ life = "stopping" /\ link' = [link EXCEPT ![c] = "ended"]
        /\ UNCHANGED <<life, inbox, old, backlog, storer, hand, stored, failing>>
    BY <1>7 DEF LinkEnds, storage
  <2> QED BY <2>1 DEF CollectorInv, CollectorType, HandFree, InboxFree, OffIsClean
<1>8. CASE TakeItem
  <2>1. storer = "take" /\ UNCHANGED <<life, link, inbox, old, stored, failing>>
    BY <1>8 DEF TakeItem, storage
  <2>2. CASE storer' = "idle" /\ UNCHANGED <<backlog, hand>>
    BY <2>1, <2>2 DEF CollectorInv, CollectorType, HandFree, InboxFree, OffIsClean
  <2>3. CASE backlog # <<>> /\ hand' = Head(backlog) /\ backlog' = Tail(backlog) /\ storer' = "store"
    <3>1. hand' \in Item /\ backlog' \in Seq(Item)
      BY <1>0, <2>3, TailFacts
    <3> QED BY <2>1, <2>3, <3>1 DEF CollectorInv, CollectorType, HandFree, InboxFree, OffIsClean
  <2> QED BY <1>8, <2>2, <2>3 DEF TakeItem
<1>9. CASE Idle
  <2>1. storer = "idle" /\ UNCHANGED <<life, link, inbox, old, backlog, hand, stored, failing>>
    BY <1>9 DEF Idle, storage
  <2>2. storer' \in {"take", "ended"}
    BY <1>9, Zenon DEF Idle
  <2> QED BY <2>1, <2>2 DEF CollectorInv, CollectorType, HandFree, InboxFree, OffIsClean
<1>10. CASE StoreItem \/ StoreItemLate
  <2>1. stored' = Append(stored, hand)
    BY <1>10 DEF StoreItem, StoreItemLate
  <2>2. stored' \in Seq(Item)
    BY <1>0, <2>1, AppendFacts
  <2> QED BY <1>10, <2>2, NoneTypes
      DEF StoreItem, StoreItemLate, threads, CollectorInv, CollectorType, HandFree, InboxFree, OffIsClean
<1>11. CASE StorageFails \/ StorageRecovers \/ UNCHANGED collector
  <2>1. UNCHANGED <<threads, stored>> /\ failing' \in BOOLEAN
    BY <1>0, <1>11, Zenon DEF StorageFails, StorageRecovers, collector, storage
  <2> QED BY <2>1 DEF threads, CollectorInv, CollectorType, HandFree, InboxFree, OffIsClean
<1> QED BY <1>1, <1>2, <1>3, <1>4, <1>5, <1>6, <1>7, <1>8, <1>9, <1>10, <1>11 DEF CollectorAction

----------------------------------------------------------------------------

TypeInv == DaemonInv /\ PushersCounted /\ DeadIsClean /\ CollectorInv

\* What the proofs below use of every state.
THEOREM InvariantHolds == Spec => [](TypeOK /\ TypeInv)
<1>1. Init => TypeOK /\ TypeInv
  <2> SUFFICES ASSUME Init PROVE TypeOK /\ TypeInv
    OBVIOUS
  <2>1. mq = <<>> /\ batch = <<>> /\ sending = <<>> /\ backlog = <<>> /\ stored = <<>>
    BY DEF Init, DaemonInit, CollectorInit
  <2>2. Len(mq) = 0 /\ mq \in Seq(Message) /\ batch \in Seq(Nat) /\ sending \in Seq(Nat)
        /\ backlog \in Seq(Item) /\ stored \in Seq(Item)
    BY <2>1, EmptyTypes
  <2>3. wild \in BOOLEAN /\ failing \in BOOLEAN /\ blurred \in BOOLEAN
    BY Zenon DEF Init, DaemonInit, CollectorInit
  <2>4. DaemonInv
    BY <2>1, <2>2, <2>3, DaemonAssumption
    DEF Init, DaemonInit, DaemonInv, DaemonType, HostsOnce, SendingFree, Phases, DaemonAssumption
  <2>5. CollectorInv
    BY <2>1, <2>2, <2>3, NoneTypes
    DEF Init, CollectorInit, CollectorInv, CollectorType, HandFree, InboxFree, OffIsClean
  <2>6. PushersCounted
    <3>1. Pushers = {} /\ number = 0
      BY DEF Init, DaemonInit, Pushers
    <3> QED BY <3>1, FS_EmptySet, DaemonAssumption DEF PushersCounted, DaemonAssumption
  <2>7. faults \in 0 .. MaxFaults
    BY DeliveryAssumption DEF Init, DeliveryAssumption
  <2>8. DeadIsClean
    BY DEF Init, DaemonInit, DeadIsClean
  <2> QED BY <2>3, <2>4, <2>5, <2>6, <2>7, <2>8 DEF TypeOK, TypeInv, DaemonInv, CollectorInv
<1>2. TypeOK /\ TypeInv /\ [Next]_vars => (TypeOK /\ TypeInv)'
  <2> SUFFICES ASSUME TypeOK, TypeInv, [Next]_vars PROVE (TypeOK /\ TypeInv)'
    OBVIOUS
  <2>1. DaemonAction /\ CollectorAction /\ faults' \in 0 .. MaxFaults /\ blurred' \in BOOLEAN
    BY StepsOfBoth
  <2>2. DaemonInv' /\ PushersCounted' /\ DeadIsClean'
    BY <2>1, DaemonStep, CountedStep, DeadStep DEF TypeInv, TypeOK
  <2>3. CollectorInv'
    BY <2>1, CollectorStep DEF TypeInv, TypeOK, DaemonType
  <2> QED BY <2>1, <2>2, <2>3 DEF TypeOK, TypeInv, DaemonInv, CollectorInv
<1> QED BY <1>1, <1>2, PTL DEF Spec

\* Every variable keeps its type, and the hostname is appended once only.
THEOREM TypeCorrect == Spec => []TypeOK
BY InvariantHolds, PTL

----------------------------------------------------------------------------
(* Where the messages go *)

LEMMA ElementsAppend ==
  ASSUME NEW S, NEW s \in Seq(S), NEW e \in S
  PROVE  Elements(s) \cup {e} \subseteq Elements(Append(s, e))
<1>1. \A i \in 1 .. Len(s) : i \in 1 .. Len(Append(s, e)) /\ Append(s, e)[i] = s[i]
  BY AppendFacts
<1>2. Len(s) + 1 \in 1 .. Len(Append(s, e)) /\ Append(s, e)[Len(s) + 1] = e
  BY AppendFacts
<1> QED BY <1>1, <1>2 DEF Elements

LEMMA NumsAppend ==
  ASSUME NEW S, NEW q \in Seq(S), NEW m \in S
  PROVE  Nums(q) \subseteq Nums(Append(q, m))
<1>1. \A i \in 1 .. Len(q) : i \in 1 .. Len(Append(q, m)) /\ Append(q, m)[i] = q[i]
  BY AppendFacts
<1> QED BY <1>1 DEF Nums

LEMMA NumsTail ==
  ASSUME NEW S, NEW q \in Seq(S), q # <<>>
  PROVE  Nums(q) \subseteq {Head(q).num} \cup Nums(Tail(q))
<1> SUFFICES ASSUME NEW i \in 1 .. Len(q)
             PROVE  q[i].num \in {Head(q).num} \cup Nums(Tail(q))
  BY DEF Nums
<1>1. CASE i = 1
  BY <1>1, TailFacts
<1>2. CASE i # 1
  <2>1. i - 1 \in 1 .. Len(Tail(q)) /\ Tail(q)[i - 1] = q[i]
    BY <1>2
  <2> QED BY <2>1 DEF Nums
<1> QED BY <1>1, <1>2

LEMMA NumsInConcat ==
  ASSUME NEW S, NEW p \in Seq(S), NEW q \in Seq(S)
  PROVE  NumsIn(p) \cup NumsIn(q) \subseteq NumsIn(p \o q)
<1>1. \A i \in 1 .. Len(p) : i \in 1 .. Len(p \o q) /\ (p \o q)[i] = p[i]
  OBVIOUS
<1>2. \A i \in 1 .. Len(q) : Len(p) + i \in 1 .. Len(p \o q) /\ (p \o q)[Len(p) + i] = q[i]
  OBVIOUS
<1> QED BY <1>1, <1>2 DEF NumsIn

LEMMA NumsInTail ==
  ASSUME NEW S, NEW q \in Seq(S), q # <<>>
  PROVE  NumsIn(q) \subseteq Elements(Head(q).nums) \cup NumsIn(Tail(q))
<1> SUFFICES ASSUME NEW i \in 1 .. Len(q)
             PROVE  Elements(q[i].nums) \subseteq Elements(Head(q).nums) \cup NumsIn(Tail(q))
  BY DEF NumsIn
<1>1. CASE i = 1
  BY <1>1, TailFacts
<1>2. CASE i # 1
  <2>1. i - 1 \in 1 .. Len(Tail(q)) /\ Tail(q)[i - 1] = q[i]
    BY <1>2
  <2> QED BY <2>1 DEF NumsIn
<1> QED BY <1>1, <1>2

LEMMA NumsInAppend ==
  ASSUME NEW S, NEW q \in Seq(S), NEW e \in S
  PROVE  NumsIn(q) \cup Elements(e.nums) \subseteq NumsIn(Append(q, e))
<1>1. \A i \in 1 .. Len(q) : i \in 1 .. Len(Append(q, e)) /\ Append(q, e)[i] = q[i]
  BY AppendFacts
<1>2. Len(q) + 1 \in 1 .. Len(Append(q, e)) /\ Append(q, e)[Len(q) + 1] = e
  BY AppendFacts
<1> QED BY <1>1, <1>2 DEF NumsIn

\* A text is queued with all that it holds.
LEMMA NumsInItems ==
  ASSUME NEW text \in Text
  PROVE  Elements(text.body) \subseteq NumsIn(Items(text))
<1>0. text.body \in Seq(Nat) /\ Len(text.body) \in Nat
  BY DEF Text
<1>1. CASE text.kind = "batch"
  <2> SUFFICES ASSUME NEW i \in 1 .. Len(text.body)
               PROVE  text.body[i] \in NumsIn(Items(text))
    BY DEF Elements
  <2>1. /\ i \in 1 .. Len(Items(text))
        /\ Items(text)[i] = [kind |-> "message", nums |-> <<text.body[i]>>]
    BY <1>0, <1>1 DEF Items
  <2>2. text.body[i] \in Elements(<<text.body[i]>>)
    BY DEF Elements
  <2>3. text.body[i] \in Elements(Items(text)[i].nums)
    BY <2>1, <2>2
  <2> QED BY <2>1, <2>3 DEF NumsIn
<1>2. CASE text.kind # "batch"
  <2>1. 1 \in 1 .. Len(Items(text)) /\ Items(text)[1].nums = text.body
    BY <1>2 DEF Items
  <2> QED BY <2>1 DEF NumsIn
<1> QED BY <1>1, <1>2

\* What is queued, or in the batch in the making, moves on.
LEMMA DaemonKeeps ==
  ASSUME DaemonInv, PushersCounted, DeadIsClean, DaemonAction,
         NEW n \in Nums(mq) \cup Elements(batch) \cup logged
  PROVE  n \in InDaemon' \cup logged' \/ LostInDaemon(n)
<1>0. /\ mq \in Seq(Message) /\ batch \in Seq(Nat) /\ sending \in Seq(Nat) /\ number \in Nat
  BY DEF DaemonInv, DaemonType
<1>1. ASSUME UNCHANGED <<mq, batch, logged>> PROVE n \in InDaemon' \cup logged'
  BY <1>1 DEF InDaemon, Nums, Elements
<1>2. CASE StopEnds
  <2>1. UNCHANGED <<batch, logged>> /\ phase' = "stopped"
    BY <1>2 DEF StopEnds, output
  <2> QED BY <2>1 DEF InDaemon, LostInDaemon
<1>3. ASSUME Die PROVE n \in logged' \/ LostInDaemon(n)
  <2>1. logged' = logged /\ phase' = "dead"
    BY <1>3 DEF Die
  <2>2. n \notin logged => phase # "dead"
    BY DEF DeadIsClean, Nums, Elements
  <2> QED BY <2>1, <2>2 DEF InDaemon, LostInDaemon
<1>4. ASSUME NEW l \in Listeners, Push(l) PROVE n \in InDaemon' \cup logged' \/ LostInDaemon(n)
  <2>1. number' = number + 1 /\ UNCHANGED <<batch, logged>>
    BY <1>4 DEF Push, output
  <2>2. PICK m \in Message : Enqueue(m)
    BY <1>4, PushedExists DEF DaemonInv
  <2>3. CASE mq' = Append(mq, m)
    <3>1. Nums(mq) \subseteq Nums(mq')
      BY <1>0, <2>3, NumsAppend
    <3> QED BY <2>1, <3>1 DEF InDaemon
  <2>4. CASE mq_size > MaxSize
    <3>1. DaemonEmergency
      BY <1>0, <2>1, <2>4 DEF DaemonEmergency
    <3> QED BY <2>1, <3>1 DEF InDaemon, LostInDaemon
  <2> QED BY <2>2, <2>3, <2>4 DEF Enqueue
<1>5. CASE Lock
  <2>1. UNCHANGED <<mq, logged>> /\ reader = "lock"
    BY <1>5 DEF Lock, queue
  <2>2. CASE Stopping
    <3>1. reader' = "ended"
      BY <1>5, <2>2 DEF Lock
    <3> QED BY <2>1, <2>2, <3>1 DEF InDaemon, LostInDaemon
  <2>3. CASE ~Stopping
    BY <1>1, <1>5, <2>1, <2>3 DEF Lock
  <2> QED BY <2>2, <2>3
<1>6. CASE FillJunk
  <2>1. CASE Die
    BY <1>3, <2>1
  <2>2. CASE mq' = Tail(mq) /\ UNCHANGED output
    <3>1. reader = "fill" /\ mq # <<>> /\ ~Head(mq).json
      BY <1>6 DEF FillJunk, Filling
    <3>2. Nums(mq) \subseteq {Head(mq).num} \cup Nums(mq')
      BY <1>0, <2>2, <3>1, NumsTail
    <3> QED BY <2>2, <3>1, <3>2 DEF output, InDaemon, LostInDaemon
  <2> QED BY <1>6, <2>1, <2>2 DEF FillJunk
<1>7. CASE FillSmall
  <2>1. /\ mq # <<>> /\ mq' = Tail(mq) /\ batch' = Append(batch, Head(mq).num) /\ logged' = logged
    BY <1>7 DEF FillSmall, FillSmallAs, Filling
  <2>2. Head(mq).num \in Nat
    <3>1. Head(mq) \in Message
      BY <1>0, <2>1, TailFacts
    <3> QED BY <3>1 DEF Message
  <2>3. Elements(batch) \cup {Head(mq).num} \subseteq Elements(batch')
    BY <1>0, <2>1, <2>2, ElementsAppend
  <2>4. Nums(mq) \subseteq {Head(mq).num} \cup Nums(mq')
    BY <1>0, <2>1, NumsTail
  <2> QED BY <2>1, <2>3, <2>4 DEF InDaemon
<1>8. CASE FillLarge
  <2> DEFINE m == WithHost(Head(mq))
  <2>1. mq # <<>> /\ reader = "fill"
    BY <1>8 DEF FillLarge, Filling
  <2>2. Head(mq) \in Message /\ Head(mq) = mq[1] /\ 1 \in 1 .. Len(mq)
    BY <1>0, <2>1, TailFacts
  <2>3. m.num = Head(mq).num
    BY <2>2, WithHostFacts
  <2> HIDE DEF m
  <2>4. CASE batch = <<>> /\ mq' = Tail(mq) /\ Send(<<m.num>>)
    <3>1. Nums(mq) \subseteq {Head(mq).num} \cup Nums(mq')
      BY <1>0, <2>1, <2>4, NumsTail
    <3>2. sending' = <<m.num>> /\ logged' = logged
      BY <2>4 DEF Send
    <3>3. m.num \in Elements(sending')
      BY <3>2 DEF Elements
    <3>4. Elements(batch) = {}
      BY <2>4 DEF Elements
    <3> QED BY <2>3, <3>1, <3>2, <3>3, <3>4 DEF InDaemon
  <2>5. CASE mq' = [mq EXCEPT ![1] = m] /\ Send(batch)
    <3>1. sending' = batch /\ logged' = logged
      BY <2>5 DEF Send
    <3>2. Len(mq') = Len(mq) /\ \A i \in 1 .. Len(mq) : mq'[i] = IF i = 1 THEN m ELSE mq[i]
      BY <1>0, <2>2, <2>5
    <3>3. \A i \in 1 .. Len(mq) : mq'[i].num = mq[i].num
      BY <2>2, <2>3, <3>2
    <3>4. Nums(mq') = Nums(mq)
      BY <3>2, <3>3 DEF Nums
    <3> QED BY <3>1, <3>4 DEF InDaemon
  <2> QED BY <1>8, <2>4, <2>5 DEF FillLarge, m
<1>9. CASE FillEnds
  <2>1. UNCHANGED mq
    BY <1>9 DEF FillEnds, queue
  <2>2. CASE Send(batch)
    BY <2>1, <2>2 DEF Send, InDaemon
  <2>3. CASE UNCHANGED <<batch, logged>>
    BY <1>1, <2>1, <2>3
  <2> QED BY <1>9, <2>2, <2>3 DEF FillEnds
<1>10. ASSUME NEW opens \in BOOLEAN, ErrorFails(opens) PROVE n \in InDaemon' \cup logged'
  <2>1. UNCHANGED <<mq, batch>> /\ logged \subseteq logged'
    BY <1>10 DEF ErrorFails, queue
  <2> QED BY <2>1 DEF InDaemon
<1>11. CASE \/ SetLogTransport \/ Start \/ StopBegins
            \/ \E l \in Listeners : \/ Connect(l) \/ Accept(l)
                                    \/ ListenerEnds(l) \/ ListenerFails(l) \/ ReportDone(l)
            \/ Written \/ (BatchFails /\ ~Die) \/ UNCHANGED daemon
  BY <1>1, <1>11 DEF SetLogTransport, Start, StopBegins, Connect, Accept, ListenerEnds,
     ListenerFails, ReportDone, Written, BatchFails, daemon, queue, output
<1> QED BY <1>2, <1>3, <1>4, <1>5, <1>6, <1>7, <1>8, <1>9, <1>10, <1>11
        DEF DaemonAction, Suicide, ConnectFails, PushThrows

\* What is being written reaches the collector or the emergency log, as far as
\* the error message can hold it, and stays until then.
LEMMA SendingKept ==
  ASSUME [Next]_vars, TypeOK, TypeInv, NEW n \in Elements(sending)
  PROVE  \/ n \in Elements(sending') \cup logged' \cup InCollector'
         \/ LostInDaemon(n) \/ LostInWrite(n)
<1>0. /\ faults \in Nat /\ sending \in Seq(Nat) /\ Own \in Conns
      /\ inbox \in [Conns -> Text]
  BY DeliveryAssumption DEF TypeOK, TypeInv, DaemonInv, DaemonType, CollectorType, DeliveryAssumption
<1>1. sending # <<>>
  BY DEF Elements
<1>2. reader \in {"write", "error"}
  BY <1>1 DEF TypeInv, DaemonInv, DaemonType, SendingFree
<1>3. Fault => LostInWrite(n)
  BY <1>0 DEF Fault, LostInWrite
<1>4. ASSUME UNCHANGED sending PROVE n \in Elements(sending')
  BY <1>4
<1>5. ASSUME Die PROVE LostInDaemon(n)
  BY <1>1, <1>5 DEF Die, LostInDaemon, InDaemon, TypeInv, DeadIsClean
<1>6. ASSUME NEW text \in {BatchText, ErrorText}, Receive(Own, text) PROVE n \in InCollector'
  <2>1. text.body = sending
    BY <1>6 DEF BatchText, ErrorText
  <2>2. inbox' = [inbox EXCEPT ![Own] = text]
    BY <1>6 DEF Receive
  <2>3. inbox'[Own].body = sending
    BY <1>0, <2>1, <2>2
  <2> QED BY <1>0, <2>3 DEF InCollector
<1>7. ASSUME NEW text \in {BatchText, ErrorText}, WriteReturns(text)
      PROVE  n \in InCollector' \/ LostInWrite(n)
  BY <1>3, <1>6, <1>7, Zenon DEF WriteReturns
<1>8. CASE ReaderStep
  <2>1. ~ReaderAlone
    BY <1>2 DEF ReaderAlone, Lock, FillJunk, FillSmall, FillSmallAs, FillLarge, FillEnds, Filling
  <2>2. CASE WriteBatch
    <3>1. CASE BatchFails
      <4>1. CASE UNCHANGED sending \/ Die
        BY <1>4, <1>5, <4>1
      <4>2. CASE reader' = "error" /\ sending' \in ErrorBodies(sending)
        <5>1. CASE ~IsFormat(sending) /\ FitsError(sending, Len(sending))
          BY <1>0, <1>4, <4>2, <5>1, ErrorBodyFacts
        <5>2. CASE IsFormat(sending) \/ ~FitsError(sending, Len(sending))
          BY <3>1, <4>2, <5>2 DEF BatchFails, LostInWrite
        <5> QED BY <5>1, <5>2
      <4> QED BY <3>1, <4>1, <4>2 DEF BatchFails
    <3> QED BY <1>7, <2>2, <3>1, Zenon DEF WriteBatch
  <2>3. CASE WriteError
    <3>1. CASE Written /\ WriteReturns(ErrorText)
      BY <1>7, <3>1
    <3>2. CASE ErrorFails(TRUE)
      BY <1>4, <3>2 DEF ErrorFails
    <3>3. CASE Fault
      BY <1>3, <3>3
    <3> QED BY <2>3, <3>1, <3>2, <3>3 DEF WriteError
  <2> QED BY <1>8, <2>1, <2>2, <2>3 DEF ReaderStep
<1>9. CASE DaemonMain \/ DaemonMoves
  <2>1. CASE Suicide \/ \E l \in Listeners : ConnectFails(l)
    BY <1>5, <2>1 DEF Suicide, ConnectFails
  <2>2. CASE \/ SetLogTransport \/ Start \/ StopBegins \/ StopEnds
             \/ \E l \in Listeners : Accept(l) \/ ListenerFails(l)
    <3>1. UNCHANGED sending
      BY <2>2 DEF SetLogTransport, Start, StopBegins, StopEnds, Accept, ListenerFails, output
    <3> QED BY <1>4, <3>1
  <2> QED BY <1>9, <2>1, <2>2, Zenon DEF DaemonMain, DaemonMoves
<1>10. ASSUME NEW l \in Listeners, ListenerStep(l)
      PROVE  n \in Elements(sending') \/ LostInDaemon(n)
  <2>1. UNCHANGED sending \/ Die
    BY <1>10 DEF ListenerStep, ListenerAlone, Connect, ListenerEnds, Push, PushThrows,
       WriteReport, ReportDone, output
  <2> QED BY <1>4, <1>5, <2>1
<1>11. CASE UNCHANGED daemon
  BY <1>4, <1>11 DEF daemon, output
<1> QED BY <1>8, <1>9, <1>10, <1>11, Zenon
  DEF Next, LinkStep, StorerStep, CollectorEnds, CollectorMoves, CollectorOnly, OtherDaemonSends, vars

\* What the collector has received moves on to the storage.
LEMMA CollectorKeeps ==
  ASSUME CollectorInv, sending \in Seq(Nat), CollectorAction,
         NEW n \in InCollector \cup NumsIn(stored)
  PROVE  n \in InCollector' \cup NumsIn(stored') \/ LostInCollector(n)
<1>0. /\ backlog \in Seq(Item) /\ hand \in Item /\ stored \in Seq(Item)
      /\ inbox \in [Conns -> Text]
  BY DEF CollectorInv, CollectorType
<1>1. ASSUME UNCHANGED <<backlog, hand, inbox, stored>>
      PROVE  n \in InCollector' \cup NumsIn(stored')
  BY <1>1 DEF InCollector, NumsIn, Elements
<1>2. Elements(NoItem.nums) = {} /\ Elements(NoText.body) = {}
  BY DEF NoItem, NoText, Elements
<1>3. ASSUME NEW c \in Conns, NEW text \in Sent, Receive(c, text)
      PROVE  n \in InCollector' \cup NumsIn(stored')
  <2>1. /\ UNCHANGED <<backlog, hand, stored>> /\ link[c] = "read"
        /\ inbox' = [inbox EXCEPT ![c] = text]
    BY <1>3 DEF Receive, Reads, storage
  <2>2. inbox[c] = NoText
    BY <2>1 DEF CollectorInv, InboxFree
  <2>3. \A d \in Conns : Elements(inbox[d].body) \subseteq Elements(inbox'[d].body)
    BY <1>0, <1>2, <2>1, <2>2
  <2> QED BY <2>1, <2>3, SMTT(30) DEF InCollector
<1>4. ASSUME NEW c \in Conns, TakeText(c)
      PROVE  n \in InCollector' \cup NumsIn(stored') \/ LostInCollector(n)
  <2>1. /\ link[c] = "got" /\ inbox[c].kind # "junk" /\ Enter(Items(inbox[c]))
        /\ UNCHANGED <<hand, stored>>
    BY <1>4 DEF TakeText, storage
  <2>2. inbox' = [inbox EXCEPT ![c] = NoText]
    BY <1>4, Zenon DEF TakeText, HandsFree
  <2>3. inbox[c] \in Text /\ inbox[c] # NoText
    BY <1>0, <2>1 DEF CollectorInv, InboxFree, NoText
  <2>4. Items(inbox[c]) \in Seq(Item)
    BY <2>1, <2>3, ItemsTypes
  <2>5. CASE backlog' = backlog \o Items(inbox[c])
    <3>1. NumsIn(backlog) \cup Elements(inbox[c].body) \subseteq NumsIn(backlog')
      <4>1. Elements(inbox[c].body) \subseteq NumsIn(Items(inbox[c]))
        BY <2>3, NumsInItems
      <4>2. NumsIn(backlog) \cup NumsIn(Items(inbox[c])) \subseteq NumsIn(backlog \o Items(inbox[c]))
        BY <1>0, <2>4, NumsInConcat, Zenon
      <4> QED BY <2>5, <4>1, <4>2
    <3>2. \A d \in Conns : d # c => inbox'[d] = inbox[d]
      BY <1>0, <2>2
    <3> QED BY <2>1, <3>1, <3>2 DEF InCollector
  <2>6. CASE Len(backlog \o Items(inbox[c])) > BacklogLimit + 1
    <3>1. inbox'[c] = NoText /\ \A d \in Conns : d # c => inbox'[d] = inbox[d]
      BY <1>0, <2>2
    <3>2. CollectorEmergency(c)
      BY <2>3, <2>6, <3>1 DEF CollectorEmergency
    <3>3. NumsIn(backlog) \cup Elements(inbox[c].body) \subseteq NumsIn(backlog \o Items(inbox[c]))
      <4>1. Elements(inbox[c].body) \subseteq NumsIn(Items(inbox[c]))
        BY <2>3, NumsInItems
      <4>2. NumsIn(backlog) \cup NumsIn(Items(inbox[c])) \subseteq NumsIn(backlog \o Items(inbox[c]))
        BY <1>0, <2>4, NumsInConcat, Zenon
      <4> QED BY <4>1, <4>2
    <3>4. CASE n \in NumsIn(backlog) \cup Elements(inbox[c].body)
      BY <3>2, <3>3, <3>4, Zenon DEF LostInCollector
    <3>5. CASE n \notin NumsIn(backlog) \cup Elements(inbox[c].body)
      BY <2>1, <3>1, <3>5 DEF InCollector
    <3> QED BY <3>4, <3>5
  <2> QED BY <2>1, <2>5, <2>6 DEF Enter
<1>5. ASSUME NEW c \in Conns, DropText(c)
      PROVE  n \in InCollector' \cup NumsIn(stored') \/ LostInCollector(n)
  <2>1. /\ inbox[c] = old \/ inbox[c].kind = "junk"
        /\ inbox' = [inbox EXCEPT ![c] = NoText] /\ UNCHANGED <<backlog, hand, stored>>
    BY <1>5 DEF DropText, IsRepetition, MayBePartOfOld, HandsFree, storage
  <2>2. inbox'[c] = NoText /\ \A d \in Conns : d # c => inbox'[d] = inbox[d]
    BY <1>0, <2>1
  <2>3. CASE n \in Elements(inbox[c].body)
    <3>1. inbox[c].body # <<>>
      BY <2>3 DEF Elements
    <3>2. inbox[c] = old
      BY <2>1, <3>1 DEF CollectorInv, InboxFree
    <3> QED BY <2>2, <2>3, <3>2, Zenon DEF LostInCollector
  <2>4. CASE n \notin Elements(inbox[c].body)
    BY <2>1, <2>2, <2>4 DEF InCollector
  <2> QED BY <2>3, <2>4
<1>6. CASE \E c \in Conns : LinkEnds(c)
  BY <1>1, <1>6 DEF LinkEnds, storage
<1>7. CASE TakeItem
  <2>1. storer = "take" /\ UNCHANGED <<inbox, stored>>
    BY <1>7 DEF TakeItem, storage
  <2>2. CASE UNCHANGED <<backlog, hand>>
    BY <1>1, <2>1, <2>2
  <2>3. CASE backlog # <<>> /\ hand' = Head(backlog) /\ backlog' = Tail(backlog)
    <3>1. NumsIn(backlog) \subseteq Elements(hand'.nums) \cup NumsIn(backlog')
      BY <1>0, <2>3, NumsInTail
    <3>2. Elements(hand.nums) = {}
      BY <1>2, <2>1 DEF CollectorInv, HandFree
    <3> QED BY <2>1, <3>1, <3>2 DEF InCollector
  <2> QED BY <1>7, <2>2, <2>3 DEF TakeItem
<1>8. CASE StoreItem \/ StoreItemLate
  <2>1. stored' = Append(stored, hand) /\ UNCHANGED <<backlog, inbox>>
    BY <1>8 DEF StoreItem, StoreItemLate, threads
  <2>2. NumsIn(stored) \cup Elements(hand.nums) \subseteq NumsIn(stored')
    BY <1>0, <2>1, NumsInAppend
  <2> QED BY <2>1, <2>2 DEF InCollector
<1>9. CASE \/ CollectorStarts \/ CollectorStopBegins
           \/ Idle \/ StorageFails \/ StorageRecovers \/ UNCHANGED collector
  BY <1>1, <1>9 DEF CollectorStarts, CollectorStopBegins, Idle, StorageFails, StorageRecovers,
     collector, threads, storage
<1>10. CASE CollectorStopEnds \/ CollectorSuicide \/ \E c \in Conns : ChokeOnText(c)
  <2>1. life' = "off" /\ stored' = stored
    BY <1>10 DEF CollectorStopEnds, CollectorSuicide, ChokeOnText, CollectorDies, storage
  <2>2. life # "off"
    BY <1>10 DEF CollectorStopEnds, CollectorSuicide, ChokeOnText, CollectorInv, OffIsClean
  <2> QED BY <2>1, <2>2 DEF LostInCollector
<1> QED BY <1>3, <1>4, <1>5, <1>6, <1>7, <1>8, <1>9, <1>10 DEF CollectorAction

\* A message that was pushed is lost only for a reason that applies to it where
\* it is: the daemon keeps what it has while the collector is down, and neither
\* program forgets a message with another one.
THEOREM LossesExplained == Spec => LossesAreKnown
<1>1. TypeOK /\ TypeInv /\ [Next]_vars =>
        [\A n \in Known \ Known' :
           LostInDaemon(n) \/ LostInWrite(n) \/ LostInCollector(n)]_vars
  <2> SUFFICES ASSUME TypeOK, TypeInv, [Next]_vars, NEW n \in Known
               PROVE  n \in Known' \/ LostInDaemon(n) \/ LostInWrite(n) \/ LostInCollector(n)
    BY Zenon
  <2>1. DaemonAction /\ CollectorAction
    BY StepsOfBoth
  <2>2. CASE n \in Nums(mq) \cup Elements(batch) \cup logged
    BY <2>1, <2>2, DaemonKeeps DEF TypeInv, Known
  <2>3. CASE n \in Elements(sending)
    <3>1. \/ n \in Elements(sending') \cup logged' \cup InCollector'
          \/ LostInDaemon(n) \/ LostInWrite(n)
      BY <2>3, SendingKept
    <3> QED BY <3>1 DEF Known, InDaemon
  <2>4. CASE n \in InCollector \cup NumsIn(stored)
    <3>1. n \in InCollector' \cup NumsIn(stored') \/ LostInCollector(n)
      BY <2>1, <2>4, CollectorKeeps DEF TypeInv, DaemonInv, DaemonType
    <3> QED BY <3>1 DEF Known
  <2> QED BY <2>2, <2>3, <2>4 DEF Known, InDaemon
<1> QED BY <1>1, InvariantHolds, PTL DEF Spec, LossesAreKnown

----------------------------------------------------------------------------
(* What the queue of the daemon counts *)

Lens(q) == [i \in 1 .. Len(q) |-> Length(q[i])]

LEMMA LengthType ==
  ASSUME NEW m \in Message
  PROVE  /\ Length(m) \in Nat
         /\ m.hosts = 0 => Length(m) = m.len
         /\ Length(WithHost(m)) \in Int /\ Length(WithHost(m)) >= Length(m)
<1>1. m.len \in Nat /\ m.hosts \in {0, 1} /\ HostLen \in Nat
  BY DaemonAssumption DEF Message, DaemonAssumption
<1>2. WithHost(m).len = m.len /\ WithHost(m).hosts = m.hosts + 1
  BY DEF WithHost, Message
<1>3. CASE m.hosts = 0
  BY <1>1, <1>2, <1>3 DEF Length
<1>4. CASE m.hosts = 1
  BY <1>1, <1>2, <1>4 DEF Length
<1> QED BY <1>1, <1>3, <1>4

LEMMA LensType ==
  ASSUME NEW q \in Seq(Message)
  PROVE  /\ Lens(q) \in Seq(Nat) /\ Len(Lens(q)) = Len(q) /\ Len(q) \in Nat
         /\ \A i \in 1 .. Len(q) : Lens(q)[i] = Length(q[i])
         /\ Bytes(q) = Total(Lens(q)) /\ Bytes(q) \in Nat
<1>1. \A i \in 1 .. Len(q) : q[i] \in Message
  OBVIOUS
<1>2. \A i \in 1 .. Len(q) : Length(q[i]) \in Nat
  BY <1>1, LengthType
<1>3. Lens(q) \in [1 .. Len(q) -> Nat]
  BY <1>2 DEF Lens
<1>4. Lens(q) \in Seq(Nat) /\ Len(Lens(q)) = Len(q) /\ Len(q) \in Nat
  BY <1>3
<1>5. Bytes(q) = Total(Lens(q))
  BY DEF Bytes, Lens
<1>6. Bytes(q) \in Nat
  BY <1>4, <1>5, TotalType
<1>7. \A i \in 1 .. Len(q) : Lens(q)[i] = Length(q[i])
  BY DEF Lens
<1> QED BY <1>4, <1>5, <1>6, <1>7

LEMMA BytesEmpty == Bytes(<<>>) = 0
<1>1. Lens(<<>>) = <<>> /\ Bytes(<<>>) = Total(Lens(<<>>))
  BY DEF Lens, Bytes
<1> QED BY <1>1, TotalEmpty

LEMMA BytesAppend ==
  ASSUME NEW q \in Seq(Message), NEW m \in Message
  PROVE  Bytes(Append(q, m)) = Bytes(q) + Length(m)
<1> DEFINE r == Append(q, m)
<1>1. /\ r \in Seq(Message) /\ Len(r) = Len(q) + 1 /\ r[Len(q) + 1] = m /\ Len(q) \in Nat
      /\ \A i \in 1 .. Len(q) : r[i] = q[i]
  BY AppendFacts
<1> HIDE DEF r
<1>2. /\ Lens(r) \in Seq(Nat) /\ Lens(q) \in Seq(Nat)
      /\ Len(Lens(r)) = Len(Lens(q)) + 1 /\ Lens(r)[Len(Lens(r))] = Length(m)
  <2>1. Len(q) + 1 \in 1 .. Len(r)
    BY <1>1
  <2>2. Lens(r)[Len(q) + 1] = Length(m)
    BY <2>1, <1>1, LensType
  <2> QED BY <2>2, <1>1, LensType
<1>3. \A i \in 1 .. Len(Lens(q)) : Lens(r)[i] = Lens(q)[i]
  <2>1. \A i \in 1 .. Len(q) : i \in 1 .. Len(r)
    BY <1>1
  <2> QED BY <2>1, <1>1, LensType
<1>4. Bytes(r) = Total(Lens(r)) /\ Bytes(q) = Total(Lens(q))
  BY <1>1, LensType
<1> QED BY <1>2, <1>3, <1>4, TotalLonger DEF r

\* The bytes of a queue are those of its first message and of the others.
LEMMA BytesShorter ==
  ASSUME NEW q \in Seq(Message), NEW r \in Seq(Message), Len(q) = Len(r) + 1,
         \A i \in 1 .. Len(r) : r[i] = q[i + 1]
  PROVE  Bytes(q) = Length(q[1]) + Bytes(r)
<1>1. /\ Lens(q) \in Seq(Nat) /\ Len(Lens(q)) = Len(q) /\ Len(q) \in Nat
      /\ \A i \in 1 .. Len(q) : Lens(q)[i] = Length(q[i])
      /\ Bytes(q) = Total(Lens(q))
  BY LensType
<1>2. /\ Lens(r) \in Seq(Nat) /\ Len(Lens(r)) = Len(r) /\ Len(r) \in Nat
      /\ \A i \in 1 .. Len(r) : Lens(r)[i] = Length(r[i])
      /\ Bytes(r) = Total(Lens(r))
  BY LensType
<1>3. Lens(q)[1] = Length(q[1])
  BY <1>1, <1>2
<1>4. ASSUME NEW i \in 1 .. Len(Lens(r))
      PROVE  Lens(r)[i] = Lens(q)[i + 1]
  <2>1. i \in 1 .. Len(r) /\ i + 1 \in 1 .. Len(q)
    BY <1>1, <1>2
  <2> QED BY <2>1, <1>1, <1>2
<1> QED BY <1>1, <1>2, <1>3, <1>4, TotalShorter

\* Without its head a queue has that much less.
LEMMA BytesTail ==
  ASSUME NEW q \in Seq(Message), q # <<>>
  PROVE  Bytes(q) = Length(Head(q)) + Bytes(Tail(q)) /\ Bytes(Tail(q)) \in Nat
<1> DEFINE r == Tail(q)
<1>1. /\ r \in Seq(Message) /\ Head(q) = q[1] /\ Len(q) = Len(r) + 1
      /\ \A i \in 1 .. Len(r) : r[i] = q[i + 1]
  BY TailFacts
<1> HIDE DEF r
<1> QED BY <1>1, BytesShorter, LensType DEF r

\* With another head it has what the heads differ by.
LEMMA BytesHead ==
  ASSUME NEW q \in Seq(Message), q # <<>>, NEW m \in Message
  PROVE  Bytes([q EXCEPT ![1] = m]) = Length(m) + Bytes(Tail(q))
<1> DEFINE r == Tail(q)
           s == [q EXCEPT ![1] = m]
<1>1. /\ r \in Seq(Message) /\ Len(q) = Len(r) + 1 /\ Len(r) \in Nat
      /\ \A i \in 1 .. Len(r) : r[i] = q[i + 1]
  BY TailFacts
<1>2. 1 \in 1 .. Len(q)
  BY TailFacts
<1>3. s \in Seq(Message) /\ Len(s) = Len(q) /\ s[1] = m
      /\ \A i \in 1 .. Len(q) : i # 1 => s[i] = q[i]
  BY <1>2
<1> HIDE DEF r, s
<1>4. ASSUME NEW i \in 1 .. Len(r)
      PROVE  r[i] = s[i + 1]
  <2>1. i + 1 \in 1 .. Len(q) /\ i + 1 # 1
    BY <1>1
  <2> QED BY <2>1, <1>1, <1>3
<1>5. Bytes(s) = Length(m) + Bytes(r)
  BY <1>1, <1>3, <1>4, BytesShorter
<1> QED BY <1>5 DEF r, s

\* The counted size is a number, and below what is there unless a string was
\* measured after it was deleted.
CountInv == mq_size \in Int /\ CountNeverAbove

\* Every step of the daemon keeps that: what a batch takes out of the queue is
\* subtracted with the hostname it was given after it had been counted.
LEMMA CountStep ==
  ASSUME DaemonInv, PushersCounted, CountInv, DaemonAction
  PROVE  CountInv'
<1>1. /\ mq \in Seq(Message) /\ mq_size \in Int /\ (~wild => mq_size <= Bytes(mq))
      /\ Bytes(mq) \in Nat /\ number \in Nat
  BY LensType DEF DaemonInv, DaemonType, CountInv, CountNeverAbove
<1>2. ASSUME UNCHANGED <<mq, mq_size, wild>>
      PROVE  CountInv'
  BY <1>2 DEF CountInv, CountNeverAbove
<1>3. ASSUME Die, UNCHANGED wild \/ wild'
      PROVE  CountInv'
  <2>1. mq' = <<>> /\ mq_size' = 0
    BY <1>3 DEF Die
  <2> QED BY <2>1, BytesEmpty DEF CountInv, CountNeverAbove
<1>4. ASSUME NEW size \in Int, mq_size' = size, ~wild => size <= Bytes(mq'), UNCHANGED wild
      PROVE  CountInv'
  BY <1>4 DEF CountInv, CountNeverAbove
<1>5. ASSUME mq # <<>>, mq' = Tail(mq)
      PROVE  /\ Bytes(mq) = Length(Head(mq)) + Bytes(mq') /\ Bytes(mq') \in Nat
             /\ Head(mq) \in Message /\ Length(Head(mq)) \in Nat
             /\ Length(WithHost(Head(mq))) \in Int
             /\ Length(WithHost(Head(mq))) >= Length(Head(mq))
  <2>1. Head(mq) \in Message
    BY <1>1, <1>5, TailFacts
  <2> QED BY <2>1, <1>1, <1>5, BytesTail, LengthType
<1>6. CASE StopEnds
  <2>1. mq' = <<>> /\ mq_size' = mq_size - Bytes(mq) /\ UNCHANGED wild
    BY <1>6 DEF StopEnds
  <2> QED BY <2>1, <1>1, <1>4, BytesEmpty
<1>7. ASSUME NEW l \in Listeners, Push(l) PROVE CountInv'
  <2>1. PICK m \in Message : m.hosts = 0 /\ Enqueue(m)
    BY <1>7, PushedExists DEF DaemonInv
  <2>2. UNCHANGED wild
    BY <1>7 DEF Push
  <2>3. m \in Message /\ m.hosts = 0 /\ m.len \in Nat
    BY <2>1 DEF Message
  <2>4. Enqueue(m) /\ UNCHANGED wild
    BY <2>1, <2>2
  <2>5. Length(m) = m.len
    BY <2>3, LengthType
  <2>6. CASE mq' = Append(mq, m) /\ mq_size' = mq_size + m.len
    <3>1. Bytes(mq') = Bytes(mq) + m.len
      BY <1>1, <2>3, <2>5, <2>6, BytesAppend
    <3> QED BY <3>1, <1>1, <1>4, <2>3, <2>4, <2>6
  <2>7. ASSUME NEW kept \in Thinned(mq), mq' = Append(kept, m),
               mq_size' = AtLeastZero(mq_size - (Bytes(mq) - Bytes(kept))) + m.len
        PROVE  CountInv'
    <3>1. kept \in Seq(Message) /\ Bytes(kept) \in Nat
      BY <1>1, ThinnedFacts, LensType
    <3>2. Bytes(mq') = Bytes(kept) + m.len
      BY <2>3, <2>5, <2>7, <3>1, BytesAppend
    <3> DEFINE rest == mq_size - (Bytes(mq) - Bytes(kept))
    <3>3. rest \in Int /\ (~wild => rest <= Bytes(kept))
      BY <1>1, <3>1
    <3>4. mq_size' = AtLeastZero(rest) + m.len
      BY <2>7
    <3> HIDE DEF rest
    <3>5. mq_size' \in Int /\ (~wild => mq_size' <= Bytes(mq'))
      BY <2>3, <3>1, <3>2, <3>3, <3>4 DEF AtLeastZero
    <3> QED BY <3>5, <1>4, <2>4
  <2> QED BY <2>4, <2>6, <2>7 DEF Enqueue
<1>8. CASE FillJunk
  <2>1. CASE Die
    BY <1>3, <1>8, <2>1 DEF FillJunk
  <2>2. CASE \E n \in FreedLens : mq_size' = mq_size - n
    <3>1. mq_size' \in Int /\ wild'
      BY <1>1, <1>8, <2>2, DaemonAssumption DEF FillJunk, DaemonAssumption
    <3> QED BY <3>1 DEF CountInv, CountNeverAbove
  <2> QED BY <1>8, <2>1, <2>2 DEF FillJunk
<1>9. CASE FillSmall
  <2>1. /\ mq # <<>> /\ mq' = Tail(mq) /\ UNCHANGED wild
        /\ mq_size' = mq_size - Length(WithHost(Head(mq)))
    BY <1>9 DEF FillSmall, FillSmallAs, Filling
  <2>2. mq_size - Length(WithHost(Head(mq))) \in Int
        /\ (~wild => mq_size - Length(WithHost(Head(mq))) <= Bytes(mq'))
    BY <2>1, <1>1, <1>5
  <2> QED BY <2>1, <2>2, <1>4
<1>10. CASE FillLarge
  <2> DEFINE m == WithHost(Head(mq))
  <2>1. mq # <<>> /\ UNCHANGED wild
    BY <1>10 DEF FillLarge, Filling
  <2>2. CASE mq' = Tail(mq) /\ mq_size' = mq_size - Length(m)
    <3>1. mq_size - Length(m) \in Int /\ (~wild => mq_size - Length(m) <= Bytes(mq'))
      BY <2>1, <2>2, <1>1, <1>5
    <3> QED BY <2>1, <2>2, <3>1, <1>4
  <2>3. CASE batch # <<>> /\ mq' = [mq EXCEPT ![1] = m] /\ UNCHANGED mq_size
    <3>1. Head(mq) \in Message /\ Head(mq) = mq[1] /\ 1 \in 1 .. Len(mq)
      BY <1>1, <2>1, TailFacts
    <3>2. Head(mq).hosts = 0
      <4>1. Head(mq).hosts # 1
        BY <2>3, <3>1 DEF DaemonInv, HostsOnce
      <4> QED BY <3>1, <4>1 DEF Message
    <3>3. m \in Message /\ Length(m) >= Length(Head(mq)) /\ Length(m) \in Int
          /\ Length(Head(mq)) \in Nat
      BY <3>1, <3>2, WithHostFacts, LengthType
    <3> HIDE DEF m
    <3>4. Bytes(mq') = Length(m) + Bytes(Tail(mq))
      BY <2>1, <2>3, <3>3, <1>1, BytesHead
    <3>5. Bytes(mq) = Length(Head(mq)) + Bytes(Tail(mq)) /\ Bytes(Tail(mq)) \in Nat
      BY <2>1, <1>1, BytesTail
    <3>6. ~wild => mq_size <= Bytes(mq')
      BY <3>3, <3>4, <3>5, <1>1
    <3> QED BY <3>6, <2>1, <2>3, <1>1, <1>4
  <2> QED BY <1>10, <2>2, <2>3 DEF FillLarge
<1>11. ASSUME \/ SetLogTransport \/ Start \/ StopBegins
              \/ \E l \in Listeners : \/ Connect(l) \/ Accept(l) \/ ListenerEnds(l)
                                      \/ ListenerFails(l) \/ ReportDone(l)
              \/ Lock \/ FillEnds \/ Written \/ (BatchFails /\ ~Die)
              \/ \E opens \in BOOLEAN : ErrorFails(opens)
              \/ UNCHANGED daemon
       PROVE  UNCHANGED <<mq, mq_size, wild>>
  BY <1>11 DEF SetLogTransport, Start, StopBegins, Connect, Accept, ListenerEnds,
     ListenerFails, ReportDone, Lock, FillEnds, Written, BatchFails, ErrorFails, daemon, queue
<1>12. ASSUME NEW l \in Listeners, ConnectFails(l) \/ PushThrows(l) PROVE CountInv'
  BY <1>3, <1>12 DEF ConnectFails, PushThrows
<1>13. CASE Suicide \/ (BatchFails /\ Die)
  BY <1>3, <1>13 DEF Suicide, BatchFails
<1> QED BY <1>2, <1>6, <1>7, <1>8, <1>9, <1>10, <1>11, <1>12, <1>13 DEF DaemonAction

\* The queue of the daemon never counts more bytes than it holds, so none of
\* its emergencies is a mistake of the counting.
THEOREM CountIsNeverAbove == Spec => []CountNeverAbove
<1>1. Init => CountInv
  <2> SUFFICES ASSUME Init PROVE CountInv
    OBVIOUS
  <2>1. mq = <<>> /\ mq_size = 0
    BY DEF Init, DaemonInit
  <2> QED BY <2>1, BytesEmpty DEF CountInv, CountNeverAbove
<1>2. TypeOK /\ TypeInv /\ CountInv /\ [Next]_vars => CountInv'
  <2> SUFFICES ASSUME TypeOK, TypeInv, CountInv, [Next]_vars PROVE CountInv'
    OBVIOUS
  <2>1. DaemonAction
    BY StepsOfBoth
  <2> QED BY <2>1, CountStep DEF TypeInv
<1>3. CountInv => CountNeverAbove
  BY DEF CountInv
<1> QED BY <1>1, <1>2, <1>3, InvariantHolds, PTL DEF Spec
=============================================================================
