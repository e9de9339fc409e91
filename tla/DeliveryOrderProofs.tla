------------------------ MODULE DeliveryOrderProofs ------------------------
(***************************************************************************)
(* Proof that the messages of the daemon are stored in order and once, for *)
(* all values of the constants.                                            *)
(***************************************************************************)
EXTENDS DeliveryProofs

(* The invariant: everything on its way from the queue of the daemon to the *)
(* storage is in one order.                                                *)

Increasing(s) == \A i, j \in 1 .. Len(s) : i < j => s[i] < s[j]
Before(A, B) == \A a \in A, b \in B : a < b

\* The messages of the daemon among the items of a queue.
MsgsIn(q) == {q[i].nums[1] : i \in {k \in 1 .. Len(q) : IsMessage(q[k])}}

InOrder(q) ==
  \A i, j \in 1 .. Len(q) :
    i < j /\ IsMessage(q[i]) /\ IsMessage(q[j]) => q[i].nums[1] < q[j].nums[1]

\* The messages in one item.
MsgOf(item) == IF IsMessage(item) THEN {item.nums[1]} ELSE {}

InHand == MsgOf(hand)
Received == MsgsIn(stored) \cup InHand \cup MsgsIn(backlog)
Coming == IF inbox[Own].kind = "batch" THEN Elements(inbox[Own].body) ELSE {}
Waiting == Elements(batch) \cup Nums(mq)

SortedNums(q) == \A i, j \in 1 .. Len(q) : i < j => q[i].num < q[j].num

DaemonOrder ==
  /\ SortedNums(mq)
  /\ Increasing(batch) /\ Increasing(sending)
  /\ Before(Elements(sending), Waiting) /\ Before(Elements(batch), Nums(mq))
  /\ Waiting \cup Elements(sending) \subseteq 0 .. number

InboxOrder ==
  \A c \in Conns : inbox[c].kind = "batch" => c = Own /\ Increasing(inbox[c].body)

ComingOrder ==
  /\ Received \cup Coming \subseteq 0 .. number
  /\ Before(Received \cup Coming, Waiting)
  /\ InboxOrder

ReceivedOrder ==
  /\ InOrder(stored) /\ InOrder(backlog)
  /\ Before(MsgsIn(stored), InHand \cup MsgsIn(backlog)) /\ Before(InHand, MsgsIn(backlog))

\* What comes is new, or known.
NewOrKnown ==
  /\ inbox[Own].kind = "batch" => inbox[Own] = old \/ Before(Received, Coming)
  /\ reader = "write" =>
       \/ old = BatchText
       \/ /\ Before(Received, Elements(sending))
          /\ inbox[Own] = BatchText \/ Before(Coming, Elements(sending))

OrderInv == DaemonOrder /\ ComingOrder /\ (~blurred => ReceivedOrder /\ NewOrKnown)

----------------------------------------------------------------------------
(* Sequences *)

\* p is what is left of q.
PartOf(p, q) == \E f \in Picks(Len(p), Len(q)) : \A i \in 1 .. Len(p) : p[i] = q[f[i]]

\* An emergency that spares the last element.
LEMMA PartAppend ==
  ASSUME NEW S, NEW q \in Seq(S), NEW kept \in Thinned(q), NEW e \in S
  PROVE  PartOf(Append(kept, e), Append(q, e))
<1>1. kept \in Seq(S) /\ Len(kept) \in Nat /\ Len(q) \in Nat /\ Len(kept) <= Len(q)
  BY ThinnedFacts
<1>2. PICK f \in Picks(Len(kept), Len(q)) : \A i \in 1 .. Len(kept) : kept[i] = q[f[i]]
  BY ThinnedFacts
<1>3. /\ f \in [1 .. Len(kept) -> 1 .. Len(q)]
      /\ \A i, j \in 1 .. Len(kept) : i < j => f[i] < f[j]
  BY DEF Picks
<1> DEFINE g == [i \in 1 .. Len(kept) + 1 |-> IF i = Len(kept) + 1 THEN Len(q) + 1 ELSE f[i]]
<1>4. g \in Picks(Len(kept) + 1, Len(q) + 1)
  <2>1. g \in [1 .. Len(kept) + 1 -> 1 .. Len(q) + 1]
    BY <1>1, <1>3
  <2>2. ASSUME NEW i \in 1 .. Len(kept) + 1, NEW j \in 1 .. Len(kept) + 1, i < j
        PROVE  g[i] < g[j]
    <3>1. i \in 1 .. Len(kept) /\ g[i] = f[i] /\ f[i] \in 1 .. Len(q)
      BY <1>1, <1>3, <2>2
    <3>2. CASE j = Len(kept) + 1
      BY <1>1, <3>1, <3>2
    <3>3. CASE j \in 1 .. Len(kept)
      BY <1>1, <1>3, <2>2, <3>1, <3>3
    <3> QED BY <1>1, <3>2, <3>3
  <2> QED BY <2>1, <2>2 DEF Picks
<1>5. ASSUME NEW i \in 1 .. Len(kept) + 1
      PROVE  Append(kept, e)[i] = Append(q, e)[g[i]]
  <2>1. CASE i = Len(kept) + 1
    BY <1>1, <2>1, AppendFacts
  <2>2. CASE i \in 1 .. Len(kept)
    <3>1. g[i] = f[i] /\ f[i] \in 1 .. Len(q) /\ kept[i] = q[f[i]]
      BY <1>1, <1>2, <1>3, <2>2
    <3> QED BY <1>1, <2>2, <3>1, AppendFacts
  <2>3. i = Len(kept) + 1 \/ i \in 1 .. Len(kept)
    BY <1>1
  <2> QED BY <2>1, <2>2, <2>3, Zenon
<1> HIDE DEF g
<1>6. Len(Append(kept, e)) = Len(kept) + 1 /\ Len(Append(q, e)) = Len(q) + 1
  BY <1>1, AppendFacts
<1> QED BY <1>4, <1>5, <1>6, Zenon DEF PartOf

\* All of a sequence is a part of it.
LEMMA PartWhole ==
  ASSUME NEW S, NEW q \in Seq(S)
  PROVE  PartOf(q, q)
BY AllKept DEF PartOf

\* What is left of an ordered queue is ordered.
LEMMA PartOrder ==
  ASSUME NEW p \in Seq(Item), NEW q \in Seq(Item), PartOf(p, q)
  PROVE  (InOrder(q) => InOrder(p)) /\ MsgsIn(p) \subseteq MsgsIn(q)
<1>1. PICK f \in Picks(Len(p), Len(q)) : \A i \in 1 .. Len(p) : p[i] = q[f[i]]
  BY DEF PartOf
<1>2. /\ \A i \in 1 .. Len(p) : f[i] \in 1 .. Len(q)
      /\ \A i, j \in 1 .. Len(p) : i < j => f[i] < f[j]
  BY DEF Picks
<1>3. InOrder(q) => InOrder(p)
  BY <1>1, <1>2 DEF InOrder
<1>4. MsgsIn(p) \subseteq MsgsIn(q)
  BY <1>1, <1>2 DEF MsgsIn
<1> QED BY <1>3, <1>4

\* Two ordered queues make one.
LEMMA ConcatOrder ==
  ASSUME NEW p \in Seq(Item), NEW q \in Seq(Item),
         InOrder(p), InOrder(q), Before(MsgsIn(p), MsgsIn(q))
  PROVE  InOrder(p \o q)
<1> SUFFICES ASSUME NEW i \in 1 .. Len(p \o q), NEW j \in 1 .. Len(p \o q), i < j,
                    IsMessage((p \o q)[i]), IsMessage((p \o q)[j])
             PROVE  (p \o q)[i].nums[1] < (p \o q)[j].nums[1]
  BY DEF InOrder
<1>1. /\ Len(p) \in Nat /\ Len(q) \in Nat
      /\ i \in 1 .. Len(p) + Len(q) /\ j \in 1 .. Len(p) + Len(q)
  OBVIOUS
<1>2. \A k \in 1 .. Len(p) + Len(q) :
        (p \o q)[k] = IF k <= Len(p) THEN p[k] ELSE q[k - Len(p)]
  OBVIOUS
<1>3. CASE j <= Len(p)
  <2>1. i \in 1 .. Len(p) /\ j \in 1 .. Len(p) /\ (p \o q)[i] = p[i] /\ (p \o q)[j] = p[j]
    BY <1>1, <1>2, <1>3
  <2> QED BY <2>1 DEF InOrder
<1>4. CASE i > Len(p)
  <2>1. /\ i - Len(p) \in 1 .. Len(q) /\ j - Len(p) \in 1 .. Len(q)
        /\ i - Len(p) < j - Len(p)
        /\ (p \o q)[i] = q[i - Len(p)] /\ (p \o q)[j] = q[j - Len(p)]
    BY <1>1, <1>2, <1>4
  <2> QED BY <2>1 DEF InOrder
<1>5. CASE i <= Len(p) /\ j > Len(p)
  <2>1. /\ i \in 1 .. Len(p) /\ j - Len(p) \in 1 .. Len(q)
        /\ (p \o q)[i] = p[i] /\ (p \o q)[j] = q[j - Len(p)]
    BY <1>1, <1>2, <1>5
  <2>2. p[i].nums[1] \in MsgsIn(p) /\ q[j - Len(p)].nums[1] \in MsgsIn(q)
    BY <2>1 DEF MsgsIn
  <2> QED BY <2>1, <2>2 DEF Before
<1> QED BY <1>1, <1>3, <1>4, <1>5

LEMMA ConcatMsgs ==
  ASSUME NEW p \in Seq(Item), NEW q \in Seq(Item)
  PROVE  MsgsIn(p \o q) \subseteq MsgsIn(p) \cup MsgsIn(q)
<1> SUFFICES ASSUME NEW i \in 1 .. Len(p \o q), IsMessage((p \o q)[i])
             PROVE  (p \o q)[i].nums[1] \in MsgsIn(p) \cup MsgsIn(q)
  BY DEF MsgsIn
<1>1. CASE i <= Len(p)
  <2>1. i \in 1 .. Len(p) /\ (p \o q)[i] = p[i]
    BY <1>1
  <2> QED BY <2>1 DEF MsgsIn
<1>2. CASE i > Len(p)
  <2>1. i - Len(p) \in 1 .. Len(q) /\ (p \o q)[i] = q[i - Len(p)]
    BY <1>2
  <2> QED BY <2>1 DEF MsgsIn
<1> QED BY <1>1, <1>2

LEMMA OneItem ==
  ASSUME NEW e \in Item
  PROVE  InOrder(<<e>>) /\ MsgsIn(<<e>>) = MsgOf(e) /\ <<e>> \in Seq(Item)
BY DEF InOrder, MsgsIn, MsgOf

LEMMA AppendOrder ==
  ASSUME NEW q \in Seq(Item), NEW e \in Item
  PROVE  /\ InOrder(q) /\ Before(MsgsIn(q), MsgOf(e)) => InOrder(Append(q, e))
         /\ MsgsIn(Append(q, e)) \subseteq MsgsIn(q) \cup MsgOf(e)
<1>1. Append(q, e) = q \o <<e>>
  OBVIOUS
<1> QED BY <1>1, OneItem, ConcatOrder, ConcatMsgs

LEMMA TailOrder ==
  ASSUME NEW q \in Seq(Item), q # <<>>
  PROVE  /\ MsgOf(Head(q)) \subseteq MsgsIn(q) /\ MsgsIn(Tail(q)) \subseteq MsgsIn(q)
         /\ InOrder(q) => InOrder(Tail(q)) /\ Before(MsgOf(Head(q)), MsgsIn(Tail(q)))
<1>1. /\ Head(q) = q[1] /\ 1 \in 1 .. Len(q)
      /\ \A i \in 1 .. Len(Tail(q)) : Tail(q)[i] = q[i + 1] /\ i + 1 \in 1 .. Len(q) /\ i \in Nat /\ 1 < i + 1
  BY TailFacts
<1>2. MsgOf(Head(q)) \subseteq MsgsIn(q)
  BY <1>1 DEF MsgOf, MsgsIn
<1>3. MsgsIn(Tail(q)) \subseteq MsgsIn(q)
  BY <1>1 DEF MsgsIn
<1>4. ASSUME InOrder(q) PROVE InOrder(Tail(q))
  <2> SUFFICES ASSUME NEW i \in 1 .. Len(Tail(q)), NEW j \in 1 .. Len(Tail(q)), i < j,
                      IsMessage(Tail(q)[i]), IsMessage(Tail(q)[j])
               PROVE  Tail(q)[i].nums[1] < Tail(q)[j].nums[1]
    BY DEF InOrder
  <2>1. i + 1 < j + 1
    BY <1>1
  <2> QED BY <1>1, <1>4, <2>1 DEF InOrder
<1>5. ASSUME InOrder(q) PROVE Before(MsgOf(Head(q)), MsgsIn(Tail(q)))
  <2> SUFFICES ASSUME NEW i \in 1 .. Len(Tail(q)), IsMessage(Tail(q)[i]), IsMessage(Head(q))
               PROVE  Head(q).nums[1] < Tail(q)[i].nums[1]
    BY DEF Before, MsgOf, MsgsIn
  <2> QED BY <1>1, <1>5 DEF InOrder
<1> QED BY <1>2, <1>3, <1>4, <1>5

----------------------------------------------------------------------------
(* The daemon *)

LEMMA NothingIsOrdered ==
  /\ Elements(<<>>) = {} /\ Nums(<<>>) = {} /\ MsgsIn(<<>>) = {}
  /\ Increasing(<<>>) /\ SortedNums(<<>>) /\ InOrder(<<>>)
BY DEF Elements, Nums, MsgsIn, Increasing, SortedNums, InOrder

LEMMA OneIsOrdered ==
  ASSUME NEW n \in Nat
  PROVE  Increasing(<<n>>) /\ Elements(<<n>>) = {n}
BY DEF Increasing, Elements

LEMMA NumsTailOrder ==
  ASSUME NEW q \in Seq(Message), q # <<>>
  PROVE  /\ Head(q).num \in Nums(q) /\ Nums(Tail(q)) \subseteq Nums(q)
         /\ SortedNums(q) => SortedNums(Tail(q)) /\ Before({Head(q).num}, Nums(Tail(q)))
<1>1. /\ Head(q) = q[1] /\ 1 \in 1 .. Len(q)
      /\ \A i \in 1 .. Len(Tail(q)) : Tail(q)[i] = q[i + 1] /\ i + 1 \in 1 .. Len(q) /\ i \in Nat /\ 1 < i + 1
  BY TailFacts
<1>2. Head(q).num \in Nums(q) /\ Nums(Tail(q)) \subseteq Nums(q)
  BY <1>1 DEF Nums
<1>3. ASSUME SortedNums(q) PROVE SortedNums(Tail(q))
  <2> SUFFICES ASSUME NEW i \in 1 .. Len(Tail(q)), NEW j \in 1 .. Len(Tail(q)), i < j
               PROVE  Tail(q)[i].num < Tail(q)[j].num
    BY DEF SortedNums
  <2>1. i + 1 < j + 1
    BY <1>1
  <2> QED BY <1>1, <1>3, <2>1 DEF SortedNums
<1>4. ASSUME SortedNums(q) PROVE Before({Head(q).num}, Nums(Tail(q)))
  BY <1>1, <1>4 DEF SortedNums, Before, Nums
<1> QED BY <1>2, <1>3, <1>4

LEMMA IncreasingAppend ==
  ASSUME NEW s \in Seq(Nat), NEW n \in Nat, Increasing(s), Before(Elements(s), {n})
  PROVE  Increasing(Append(s, n)) /\ Elements(Append(s, n)) = Elements(s) \cup {n}
<1>1. /\ Len(s) \in Nat /\ Len(Append(s, n)) = Len(s) + 1 /\ Append(s, n)[Len(s) + 1] = n
      /\ \A i \in 1 .. Len(s) : Append(s, n)[i] = s[i]
  BY AppendFacts
<1>2. \A i \in 1 .. Len(s) + 1 : i \in 1 .. Len(s) \/ i = Len(s) + 1
  BY <1>1
<1>3. Elements(Append(s, n)) = Elements(s) \cup {n}
  BY <1>1, <1>2 DEF Elements
<1>4. ASSUME NEW i \in 1 .. Len(s) + 1, NEW j \in 1 .. Len(s) + 1, i < j
      PROVE  Append(s, n)[i] < Append(s, n)[j]
  <2>1. i \in 1 .. Len(s) /\ s[i] \in Elements(s)
    BY <1>1, <1>4 DEF Elements
  <2>2. CASE j \in 1 .. Len(s)
    BY <1>1, <1>4, <2>1, <2>2 DEF Increasing
  <2>3. CASE j = Len(s) + 1
    BY <1>1, <2>1, <2>3 DEF Before
  <2> QED BY <1>2, <2>2, <2>3
<1> QED BY <1>1, <1>3, <1>4 DEF Increasing

\* push() puts a message behind those of the queue it spares.
LEMMA EnqueueOrder ==
  ASSUME mq \in Seq(Message), number \in Nat, SortedNums(mq), Nums(mq) \subseteq 0 .. number,
         NEW m \in Message, m.num = number + 1, Enqueue(m)
  PROVE  SortedNums(mq') /\ Nums(mq') \subseteq Nums(mq) \cup {number + 1}
<1>1. mq' \in Seq(Message) /\ PartOf(mq', Append(mq, m))
  <2>1. CASE mq' = Append(mq, m)
    BY <2>1, AppendFacts, PartWhole
  <2>2. ASSUME NEW kept \in Thinned(mq), mq' = Append(kept, m)
        PROVE  mq' \in Seq(Message) /\ PartOf(mq', Append(mq, m))
    <3>1. kept \in Seq(Message)
      BY ThinnedFacts
    <3> QED BY <2>2, <3>1, AppendFacts, PartAppend
  <2> QED BY <2>1, <2>2 DEF Enqueue
<1> DEFINE q == Append(mq, m)
<1>2. /\ Len(mq) \in Nat /\ Len(q) = Len(mq) + 1 /\ q[Len(mq) + 1] = m
      /\ \A i \in 1 .. Len(mq) : q[i] = mq[i] /\ mq[i].num \in Nums(mq)
  BY AppendFacts DEF Nums
<1> HIDE DEF q
<1>3. \A i \in 1 .. Len(q) : i \in 1 .. Len(mq) \/ i = Len(mq) + 1
  BY <1>2
<1>4. SortedNums(q)
  <2> SUFFICES ASSUME NEW i \in 1 .. Len(q), NEW j \in 1 .. Len(q), i < j
               PROVE  q[i].num < q[j].num
    BY DEF SortedNums
  <2>1. i \in 1 .. Len(mq) /\ q[i].num \in 0 .. number
    BY <1>2
  <2>2. CASE j \in 1 .. Len(mq)
    BY <1>2, <2>1, <2>2 DEF SortedNums
  <2>3. CASE j = Len(mq) + 1
    BY <1>2, <2>1, <2>3
  <2> QED BY <1>3, <2>2, <2>3
<1>5. Nums(q) \subseteq Nums(mq) \cup {number + 1}
  BY <1>2, <1>3 DEF Nums
<1>6. PICK f \in Picks(Len(mq'), Len(q)) : \A i \in 1 .. Len(mq') : mq'[i] = q[f[i]]
  BY <1>1 DEF PartOf, q
<1>7. /\ \A i \in 1 .. Len(mq') : f[i] \in 1 .. Len(q)
      /\ \A i, j \in 1 .. Len(mq') : i < j => f[i] < f[j]
  BY DEF Picks
<1>8. SortedNums(mq')
  BY <1>4, <1>6, <1>7 DEF SortedNums
<1>9. Nums(mq') \subseteq Nums(q)
  BY <1>6, <1>7 DEF Nums
<1> QED BY <1>5, <1>8, <1>9

\* Nothing is put in front of what waits, and what is written next has waited.
DaemonGoesOn ==
  /\ number' \in Nat /\ number <= number'
  /\ \A n \in Waiting' : n \in Waiting \/ n > number
  /\ reader' = "write" => \/ reader = "write" /\ sending' = sending
                          \/ Elements(sending') \subseteq Waiting

\* A batch becomes a string.
LEMMA SendOrder ==
  ASSUME DaemonInv, DaemonOrder, UNCHANGED number,
         NEW b \in Seq(Nat), Send(b), Increasing(b), Elements(b) \subseteq Waiting,
         SortedNums(mq'), Nums(mq') \subseteq Waiting, Before(Elements(b), Nums(mq'))
  PROVE  DaemonOrder' /\ DaemonGoesOn
<1>1. sending' = b /\ batch' = <<>> /\ number' = number /\ number \in Nat
  BY DEF Send, DaemonInv, DaemonType
<1>2. Elements(sending') = Elements(b) /\ Increasing(sending')
  BY <1>1
<1>3. Elements(batch') = {} /\ Increasing(batch') /\ Waiting' = Nums(mq')
  BY <1>1, NothingIsOrdered DEF Waiting
<1>4. Waiting \subseteq 0 .. number
  BY DEF DaemonOrder
<1>5. DaemonOrder'
  BY <1>1, <1>2, <1>3, <1>4 DEF DaemonOrder, Before
<1>6. DaemonGoesOn
  BY <1>1, <1>2, <1>3 DEF DaemonGoesOn
<1> QED BY <1>5, <1>6

\* What is left of a batch in an error message is in the order of the batch.
LEMMA ErrorBodyOrder ==
  ASSUME NEW b \in Seq(Nat), Increasing(b), NEW e \in ErrorBodies(b)
  PROVE  Increasing(e) /\ Elements(e) \subseteq Elements(b)
<1>1. PICK f \in Picks(Len(e), Len(b)) : \A i \in 1 .. Len(e) : e[i] = b[f[i]]
  BY ErrorBodyFacts
<1>2. /\ \A i \in 1 .. Len(e) : f[i] \in 1 .. Len(b)
      /\ \A i, j \in 1 .. Len(e) : i < j => f[i] < f[j]
  BY DEF Picks
<1>3. Increasing(e)
  BY <1>1, <1>2 DEF Increasing
<1>4. Elements(e) \subseteq Elements(b)
  BY <1>1, <1>2 DEF Elements
<1> QED BY <1>3, <1>4

LEMMA DaemonOrderStep ==
  ASSUME DaemonInv, PushersCounted, DaemonOrder, DaemonAction
  PROVE  DaemonOrder' /\ DaemonGoesOn
<1>0. /\ mq \in Seq(Message) /\ batch \in Seq(Nat) /\ sending \in Seq(Nat) /\ number \in Nat
  BY DEF DaemonInv, DaemonType
<1>1. ASSUME UNCHANGED <<mq, batch, sending, number>>,
             reader' = "write" => reader = "write"
      PROVE  DaemonOrder' /\ DaemonGoesOn
  <2>1. Waiting' = Waiting /\ Elements(sending') = Elements(sending)
    BY <1>1 DEF Waiting
  <2> QED BY <1>0, <1>1, <2>1 DEF DaemonOrder, DaemonGoesOn
<1>2. ASSUME mq' \in {mq, <<>>}, batch' \in {batch, <<>>}, sending' \in {sending, <<>>},
             number' = number, reader' # "write"
      PROVE  DaemonOrder' /\ DaemonGoesOn
  <2>1. /\ Nums(mq') \subseteq Nums(mq) /\ Elements(batch') \subseteq Elements(batch)
        /\ Elements(sending') \subseteq Elements(sending)
        /\ SortedNums(mq') /\ Increasing(batch') /\ Increasing(sending')
    BY <1>2, NothingIsOrdered, Zenon DEF DaemonOrder
  <2>2. DaemonOrder'
    BY <1>2, <2>1 DEF DaemonOrder, Waiting, Before
  <2> QED BY <1>0, <1>2, <2>1, <2>2 DEF DaemonGoesOn, Waiting
<1>3. CASE SetLogTransport \/ Start \/ StopBegins
  BY <1>1, <1>3 DEF SetLogTransport, Start, StopBegins, input, queue, output
<1>4. CASE StopEnds
  <2>1. reader' # "write"
    BY <1>4 DEF StopEnds, output
  <2> QED BY <1>2, <1>4, <2>1 DEF StopEnds, input, output
<1>5. ASSUME Die PROVE DaemonOrder' /\ DaemonGoesOn
  BY <1>2, <1>5 DEF Die
<1>6. ASSUME NEW l \in Listeners, Push(l) PROVE DaemonOrder' /\ DaemonGoesOn
  <2>1. number' = number + 1 /\ UNCHANGED <<batch, sending, reader>>
    BY <1>6 DEF Push, output
  <2>2. PICK m \in Message : m.num = number + 1 /\ Enqueue(m)
    BY <1>6, PushedExists DEF DaemonInv
  <2>3. SortedNums(mq') /\ Nums(mq') \subseteq Nums(mq) \cup {number + 1}
    BY <1>0, <2>2, EnqueueOrder DEF DaemonOrder, Waiting
  <2>4. Elements(batch') = Elements(batch) /\ Elements(sending') = Elements(sending)
    BY <2>1
  <2>5. Waiting' \subseteq Waiting \cup {number + 1}
    BY <2>3, <2>4 DEF Waiting
  <2>6. DaemonOrder'
    BY <1>0, <2>1, <2>3, <2>4, <2>5 DEF DaemonOrder, Before, Waiting
  <2> QED BY <1>0, <2>1, <2>5, <2>6 DEF DaemonGoesOn
<1>7. ASSUME NEW l \in Listeners, Connect(l) \/ Accept(l) \/ ListenerEnds(l) \/ ListenerFails(l) \/ ReportDone(l)
      PROVE  DaemonOrder' /\ DaemonGoesOn
  <2>1. UNCHANGED <<number, queue, output>>
    BY <1>7 DEF Connect, Accept, ListenerEnds, ListenerFails, ReportDone
  <2> QED BY <1>1, <2>1 DEF queue, output
<1>8. CASE Lock
  BY <1>2, <1>8 DEF Lock, input, queue
<1>9. CASE FillJunk
  <2>1. CASE Die
    BY <1>5, <2>1
  <2>2. ASSUME mq # <<>>, mq' = Tail(mq), UNCHANGED <<input, output>>, reader = "fill"
        PROVE  DaemonOrder' /\ DaemonGoesOn
    <3>1. SortedNums(mq') /\ Nums(mq') \subseteq Nums(mq)
      BY <1>0, <2>2, NumsTailOrder DEF DaemonOrder
    <3>2. UNCHANGED <<batch, sending, number, reader>>
      BY <2>2 DEF input, output
    <3>3. Elements(batch') = Elements(batch) /\ Elements(sending') = Elements(sending)
      BY <3>2
    <3>4. DaemonOrder'
      BY <3>1, <3>2, <3>3 DEF DaemonOrder, Waiting, Before
    <3> QED BY <1>0, <2>2, <3>1, <3>2, <3>3, <3>4 DEF DaemonGoesOn, Waiting
  <2> QED BY <1>9, <2>1, <2>2 DEF FillJunk, Filling
<1>10. CASE FillSmall
  <2>1. /\ mq # <<>> /\ mq' = Tail(mq) /\ batch' = Append(batch, Head(mq).num)
        /\ UNCHANGED <<sending, number, reader>> /\ reader = "fill"
    BY <1>10 DEF FillSmall, FillSmallAs, Filling, input
  <2>2. /\ Head(mq).num \in Nums(mq) /\ Nums(mq') \subseteq Nums(mq)
        /\ SortedNums(mq') /\ Before({Head(mq).num}, Nums(mq'))
    BY <1>0, <2>1, NumsTailOrder DEF DaemonOrder
  <2>3. Head(mq).num \in Nat /\ Before(Elements(batch), {Head(mq).num})
    BY <1>0, <2>2 DEF DaemonOrder, Before, Waiting
  <2>4. Increasing(batch') /\ Elements(batch') = Elements(batch) \cup {Head(mq).num}
    BY <1>0, <2>1, <2>3, IncreasingAppend DEF DaemonOrder
  <2>5. Elements(sending') = Elements(sending)
    BY <2>1
  <2>6. Waiting' \subseteq Waiting
    BY <2>2, <2>4 DEF Waiting
  <2>7. Before(Elements(batch'), Nums(mq'))
    BY <2>2, <2>4 DEF DaemonOrder, Before
  <2>8. DaemonOrder'
    BY <2>1, <2>2, <2>4, <2>5, <2>6, <2>7 DEF DaemonOrder, Before
  <2> QED BY <1>0, <2>1, <2>6, <2>8 DEF DaemonGoesOn
<1>11. CASE FillLarge
  <2> DEFINE m == WithHost(Head(mq))
  <2>1. mq # <<>> /\ number' = number
    BY <1>11 DEF FillLarge, Filling, input
  <2>2. /\ Head(mq) \in Message /\ Head(mq) = mq[1] /\ m.num = Head(mq).num /\ m.num \in Nat
        /\ Head(mq).num \in Nums(mq)
    BY <1>0, <2>1, TailFacts, WithHostFacts, NumsTailOrder
  <2>3. CASE mq' = Tail(mq) /\ Send(<<m.num>>)
    <3>1. Nums(mq') \subseteq Nums(mq) /\ SortedNums(mq') /\ Before({m.num}, Nums(mq'))
      BY <1>0, <2>1, <2>2, <2>3, NumsTailOrder DEF DaemonOrder
    <3>2. <<m.num>> \in Seq(Nat) /\ Increasing(<<m.num>>) /\ Elements(<<m.num>>) = {m.num}
      BY <2>2, OneIsOrdered
    <3>3. Elements(<<m.num>>) \subseteq Waiting /\ Nums(mq') \subseteq Waiting
      BY <2>2, <3>1, <3>2 DEF Waiting
    <3> HIDE DEF m
    <3> QED BY <2>1, <2>3, <3>1, <3>2, <3>3, SendOrder
  <2>4. CASE mq' = [mq EXCEPT ![1] = m] /\ Send(batch)
    <3>1. Len(mq') = Len(mq) /\ \A i \in 1 .. Len(mq) : mq'[i].num = mq[i].num
      BY <1>0, <2>1, <2>2, <2>4
    <3>2. Nums(mq') = Nums(mq) /\ SortedNums(mq')
      BY <3>1 DEF Nums, SortedNums, DaemonOrder
    <3> HIDE DEF m
    <3> QED BY <1>0, <2>1, <2>4, <3>2, SendOrder DEF DaemonOrder, Waiting
  <2> QED BY <1>11, <2>3, <2>4 DEF FillLarge
<1>12. CASE FillEnds
  <2>1. UNCHANGED <<number, mq>>
    BY <1>12 DEF FillEnds, input, queue
  <2>2. CASE Send(batch)
    <3>1. Nums(mq') = Nums(mq) /\ SortedNums(mq')
      BY <2>1 DEF DaemonOrder
    <3> QED BY <1>0, <2>1, <2>2, <3>1, SendOrder DEF DaemonOrder, Waiting
  <2>3. CASE reader' = "lock" /\ UNCHANGED <<batch, sending>>
    BY <1>1, <2>1, <2>3
  <2> QED BY <1>12, <2>2, <2>3 DEF FillEnds
<1>13. CASE Written
  BY <1>2, <1>13 DEF Written, Done, input, queue
<1>14. CASE BatchFails
  <2>1. CASE (reader' = "write" /\ UNCHANGED <<sending, input, queue, batch>>) \/ Die
    BY <1>1, <1>5, <1>14, <2>1 DEF BatchFails, input, queue
  <2>2. CASE /\ reader' = "error" /\ sending' \in ErrorBodies(sending)
             /\ UNCHANGED <<input, queue, batch>>
    <3>1. Increasing(sending') /\ Elements(sending') \subseteq Elements(sending)
      BY <1>0, <2>2, ErrorBodyOrder DEF DaemonOrder
    <3>2. UNCHANGED <<mq, batch, number>>
      BY <2>2 DEF input, queue
    <3>3. Waiting' = Waiting
      BY <3>2 DEF Waiting
    <3> QED BY <1>0, <2>2, <3>1, <3>2, <3>3 DEF DaemonOrder, DaemonGoesOn, Before
  <2> QED BY <1>14, <2>1, <2>2 DEF BatchFails
<1>15. ASSUME NEW opens \in BOOLEAN, ErrorFails(opens)
       PROVE  DaemonOrder' /\ DaemonGoesOn
  BY <1>2, <1>15 DEF ErrorFails, Done, input, queue
<1>16. CASE UNCHANGED daemon
  BY <1>1, <1>16 DEF daemon, input, queue, output
<1> QED BY <1>3, <1>4, <1>5, <1>6, <1>7, <1>8, <1>9, <1>10, <1>11, <1>12, <1>13, <1>14, <1>15,
           <1>16, Zenon DEF DaemonAction, Suicide, ConnectFails, PushThrows

----------------------------------------------------------------------------
(* The collector *)

\* The messages of a text are queued in the order in which they are in it.
LEMMA ItemsOrder ==
  ASSUME NEW text \in Text, text.kind # "junk", text.kind = "batch" => Increasing(text.body)
  PROVE  /\ InOrder(Items(text))
         /\ MsgsIn(Items(text)) = IF text.kind = "batch" THEN Elements(text.body) ELSE {}
<1>1. CASE text.kind = "batch"
  <2>1. text.body \in Seq(Nat) /\ Len(text.body) \in Nat
    BY DEF Text
  <2>2. /\ Len(Items(text)) = Len(text.body)
        /\ \A i \in 1 .. Len(text.body) :
             IsMessage(Items(text)[i]) /\ Items(text)[i].nums[1] = text.body[i]
    BY <1>1, <2>1 DEF Items, IsMessage
  <2>3. InOrder(Items(text))
    BY <1>1, <2>2 DEF InOrder, Increasing
  <2>4. MsgsIn(Items(text)) = Elements(text.body)
    BY <2>2 DEF MsgsIn, Elements
  <2> QED BY <1>1, <2>3, <2>4
<1>2. CASE text.kind # "batch"
  <2>1. text.kind # "message"
    BY DEF Text
  <2>2. [kind |-> text.kind, nums |-> text.body].kind # "message"
    BY <2>1
  <2>3. Items(text) = <<[kind |-> text.kind, nums |-> text.body]>>
    BY <1>2 DEF Items
  <2>4. Len(Items(text)) = 1 /\ ~IsMessage(Items(text)[1])
    BY <2>2, <2>3 DEF IsMessage
  <2>5. \A i \in 1 .. Len(Items(text)) : ~IsMessage(Items(text)[i])
    BY <2>4
  <2> QED BY <1>2, <2>5 DEF InOrder, MsgsIn
<1> QED BY <1>1, <1>2

LEMMA ConcatFacts ==
  ASSUME NEW S, NEW p \in Seq(S), NEW q \in Seq(S)
  PROVE  /\ p \o q \in Seq(S) /\ Len(p \o q) = Len(p) + Len(q)
         /\ \A i \in 1 .. Len(p) + Len(q) :
              (p \o q)[i] = IF i <= Len(p) THEN p[i] ELSE q[i - Len(p)]
OBVIOUS

\* All items but the last, and the last.
LEMMA FrontAndLast ==
  ASSUME NEW S, NEW p \in Seq(S), NEW q \in Seq(S), q # <<>>
  PROVE  /\ p \o SubSeq(q, 1, Len(q) - 1) \in Seq(S) /\ q[Len(q)] \in S
         /\ Append(p \o SubSeq(q, 1, Len(q) - 1), q[Len(q)]) = p \o q
<1> DEFINE front == SubSeq(q, 1, Len(q) - 1)
           whole == Append(p \o front, q[Len(q)])
<1>1. /\ Len(q) \in Nat \ {0} /\ Len(q) \in 1 .. Len(q) /\ q[Len(q)] \in S /\ Len(p) \in Nat
  OBVIOUS
<1>2. /\ front \in Seq(S) /\ Len(front) = Len(q) - 1
      /\ \A i \in 1 .. Len(q) - 1 : front[i] = q[i]
  <2>1. front = [i \in 1 .. Len(q) - 1 |-> q[i]]
    <3>1. front = [i \in 1 .. Len(q) - 1 - 1 + 1 |-> q[1 + i - 1]]
      BY <1>1
    <3> HIDE DEF front
    <3> QED BY <1>1, <3>1
  <2> HIDE DEF front
  <2>2. \A i \in 1 .. Len(q) - 1 : q[i] \in S
    BY <1>1
  <2> QED BY <1>1, <2>1, <2>2
<1> HIDE DEF front
<1>3. /\ p \o front \in Seq(S) /\ Len(p \o front) = Len(p) + Len(q) - 1
      /\ \A i \in 1 .. Len(p) + Len(q) - 1 :
           (p \o front)[i] = IF i <= Len(p) THEN p[i] ELSE front[i - Len(p)]
  <2>1. Len(p) + Len(front) = Len(p) + Len(q) - 1
    BY <1>1, <1>2
  <2>2. /\ p \o front \in Seq(S) /\ Len(p \o front) = Len(p) + Len(front)
        /\ \A i \in 1 .. Len(p) + Len(front) :
             (p \o front)[i] = IF i <= Len(p) THEN p[i] ELSE front[i - Len(p)]
    BY <1>2, ConcatFacts, Zenon
  <2> QED BY <2>1, <2>2, Zenon
<1>4. /\ whole \in Seq(S) /\ Len(whole) = Len(p) + Len(q)
      /\ whole[Len(p) + Len(q)] = q[Len(q)]
      /\ \A i \in 1 .. Len(p) + Len(q) - 1 : whole[i] = (p \o front)[i]
  BY <1>1, <1>3, AppendFacts
<1>5. /\ p \o q \in Seq(S) /\ Len(p \o q) = Len(p) + Len(q)
      /\ \A i \in 1 .. Len(p) + Len(q) :
           (p \o q)[i] = IF i <= Len(p) THEN p[i] ELSE q[i - Len(p)]
  BY <1>1
<1>6. ASSUME NEW i \in 1 .. Len(p) + Len(q) PROVE whole[i] = (p \o q)[i]
  <2>1. CASE i = Len(p) + Len(q)
    BY <1>1, <1>4, <1>5, <2>1
  <2>2. CASE i \in 1 .. Len(p) + Len(q) - 1
    <3>1. whole[i] = IF i <= Len(p) THEN p[i] ELSE front[i - Len(p)]
      BY <1>3, <1>4, <2>2
    <3>2. ~(i <= Len(p)) => front[i - Len(p)] = q[i - Len(p)]
      BY <1>1, <1>2, <2>2
    <3> QED BY <1>5, <3>1, <3>2
  <2>3. i = Len(p) + Len(q) \/ i \in 1 .. Len(p) + Len(q) - 1
    BY <1>1
  <2> QED BY <2>1, <2>2, <2>3, Zenon
<1> HIDE DEF whole
<1>7. whole = p \o q
  BY <1>4, <1>5, <1>6
<1> QED BY <1>1, <1>3, <1>7 DEF whole, front

LEMMA EnterOrder ==
  ASSUME backlog \in Seq(Item), NEW items \in Seq(Item), Enter(items)
  PROVE  /\ MsgsIn(backlog') \subseteq MsgsIn(backlog) \cup MsgsIn(items)
         /\ InOrder(backlog) /\ InOrder(items) /\ Before(MsgsIn(backlog), MsgsIn(items))
              => InOrder(backlog')
<1>1. backlog \o items \in Seq(Item) /\ backlog' \in Seq(Item)
  BY EnterTypes
<1>2. PartOf(backlog', backlog \o items)
  <2>1. CASE backlog' = backlog \o items
    BY <1>1, <2>1, PartWhole
  <2>2. ASSUME items # <<>>,
               NEW kept \in Thinned(backlog \o SubSeq(items, 1, Len(items) - 1)),
               backlog' = Append(kept, items[Len(items)])
        PROVE  PartOf(backlog', backlog \o items)
    <3> DEFINE q == backlog \o SubSeq(items, 1, Len(items) - 1)
    <3>1. q \in Seq(Item) /\ items[Len(items)] \in Item
          /\ Append(q, items[Len(items)]) = backlog \o items
      BY <2>2, FrontAndLast
    <3>2. kept \in Thinned(q)
      OBVIOUS
    <3> HIDE DEF q
    <3>3. PartOf(Append(kept, items[Len(items)]), Append(q, items[Len(items)]))
      BY <3>1, <3>2, PartAppend
    <3> QED BY <2>2, <3>1, <3>3
  <2> QED BY <2>1, <2>2 DEF Enter
<1>3. (InOrder(backlog \o items) => InOrder(backlog')) /\ MsgsIn(backlog') \subseteq MsgsIn(backlog \o items)
  BY <1>1, <1>2, PartOrder
<1> QED BY <1>3, ConcatOrder, ConcatMsgs

----------------------------------------------------------------------------
(* Both *)

DaemonAlone == DaemonAction /\ UNCHANGED <<collector, blurred>>

TextArrives ==
  /\ DaemonAction /\ UNCHANGED blurred
  /\ \E text \in Sent : /\ Receive(Own, text)
                        /\ text.kind = "batch" => reader = "write" /\ text = BatchText

OtherTextArrives ==
  /\ UNCHANGED <<daemon, blurred>>
  /\ \E c \in Conns \ {Own} : Receive(c, Report)

CollectorWorks ==
  /\ UNCHANGED daemon /\ Blur
  /\ \/ \E c \in Conns : TakeText(c) \/ DropText(c) \/ ChokeOnText(c) \/ LinkEnds(c)
     \/ TakeItem \/ Idle \/ StoreItem
     \/ CollectorStopBegins \/ CollectorStopEnds \/ CollectorSuicide \/ StorageRecovers

CollectorReturns ==
  UNCHANGED <<daemon, blurred>> /\ (CollectorStarts \/ StorageFails)

\* Each step of the whole is one of these, or a late failure of the storage.
LEMMA WhoMoves ==
  ASSUME [Next]_vars
  PROVE  \/ DaemonAlone \/ TextArrives \/ OtherTextArrives
         \/ CollectorWorks \/ CollectorReturns
         \/ UNCHANGED daemon /\ StoreItemLate /\ blurred'
<1>1. CASE UNCHANGED vars
  BY <1>1 DEF vars, DaemonAlone, DaemonAction
<1>2. /\ BatchText \in Sent /\ BatchText.kind = "batch"
      /\ ErrorText \in Sent /\ ErrorText.kind = "error"
      /\ Report \in Sent /\ Report.kind = "other"
      /\ Junk \in Sent /\ Junk.kind = "junk"
  BY DEF Sent, BatchText, ErrorText, Report, Junk
<1>3. ASSUME DaemonAction, NEW text \in Sent, text.kind = "batch" => reader = "write" /\ text = BatchText,
             WriteReturns(text) \/ WriteThrows(text)
      PROVE  DaemonAlone \/ TextArrives
  <2>1. CASE UNCHANGED <<collector, blurred>>
    BY <1>3, <2>1 DEF DaemonAlone
  <2>2. CASE UNCHANGED blurred /\ Receive(Own, text)
    BY <1>3, <2>2, Zenon DEF TextArrives
  <2>3. CASE UNCHANGED blurred /\ Receive(Own, Junk)
    <3>1. Junk.kind # "batch"
      BY <1>2
    <3> QED BY <1>2, <1>3, <2>3, <3>1, Zenon DEF TextArrives
  <2> QED BY <1>3, <2>1, <2>2, <2>3, Zenon DEF WriteReturns, WriteThrows
<1>4. DaemonOnly /\ DaemonAction => DaemonAlone
  BY DEF DaemonOnly, DaemonAlone
<1>5. CASE DaemonMain \/ DaemonMoves
  <2>1. DaemonAction /\ UNCHANGED <<collector, blurred>>
    BY <1>5, Zenon DEF DaemonMain, DaemonMoves, DaemonOnly, DaemonAction
  <2> QED BY <2>1 DEF DaemonAlone
<1>6. CASE ReaderStep
  <2>1. CASE ReaderAlone /\ DaemonOnly
    BY <1>4, <2>1, Zenon DEF ReaderAlone, DaemonAction
  <2>2. CASE WriteBatch
    <3>1. DaemonAction /\ reader = "write" /\ (WriteReturns(BatchText) \/ WriteThrows(BatchText))
      BY <2>2, Zenon DEF WriteBatch, DaemonAction
    <3> QED BY <1>2, <1>3, <3>1, Zenon
  <2>3. CASE WriteError
    <3>1. \/ DaemonAction /\ (WriteReturns(ErrorText) \/ WriteThrows(ErrorText))
          \/ DaemonAction /\ UNCHANGED <<collector, blurred>>
      BY <2>3, Zenon DEF WriteError, DaemonAction
    <3>2. ErrorText.kind # "batch"
      BY <1>2
    <3> QED BY <1>2, <1>3, <3>1, <3>2, Zenon DEF DaemonAlone
  <2> QED BY <1>6, <2>1, <2>2, <2>3 DEF ReaderStep
<1>7. ASSUME NEW l \in Listeners, ListenerStep(l)
      PROVE  DaemonAlone \/ TextArrives
  <2>1. CASE ListenerAlone(l) /\ DaemonOnly
    BY <1>4, <2>1, Zenon DEF ListenerAlone, DaemonAction
  <2>2. CASE WriteReport(l)
    <3>1. DaemonAction /\ (WriteReturns(Report) \/ WriteThrows(Report))
      BY <2>2, Zenon DEF WriteReport, DaemonAction
    <3>2. Report.kind # "batch"
      BY <1>2
    <3> QED BY <1>2, <1>3, <3>1, <3>2, Zenon
  <2> QED BY <1>7, <2>1, <2>2 DEF ListenerStep
<1>8. ASSUME NEW c \in Conns, LinkStep(c) PROVE CollectorWorks
  BY <1>8, Zenon DEF LinkStep, CollectorOnly, CollectorWorks
<1>9. CASE StorerStep \/ CollectorEnds
  BY <1>9, Zenon DEF StorerStep, Storer, CollectorEnds, CollectorOnly, CollectorWorks
<1>10. CASE CollectorMoves
  <2>1. CASE (CollectorStopBegins \/ CollectorSuicide \/ StorageRecovers) /\ CollectorOnly
    BY <2>1, Zenon DEF CollectorOnly, CollectorWorks
  <2>2. CASE (CollectorStarts \/ StorageFails) /\ UNCHANGED <<daemon, blurred>>
    BY <2>2 DEF CollectorReturns
  <2>3. CASE StoreItemLate /\ blurred' = TRUE /\ UNCHANGED daemon
    BY <2>3
  <2> QED BY <1>10, <2>1, <2>2, <2>3, Zenon DEF CollectorMoves
<1>11. CASE OtherDaemonSends
  BY <1>11, Zenon DEF OtherDaemonSends, OtherTextArrives
<1> QED BY <1>1, <1>5, <1>6, <1>7, <1>8, <1>9, <1>10, <1>11, Zenon DEF Next

\* The text in an inbox is done with, or all of them are.
LEMMA InboxEmptied ==
  ASSUME CollectorInv, InboxOrder, NEW C \in SUBSET Conns,
         inbox' = [c \in Conns |-> IF c \in C THEN NoText ELSE inbox[c]]
  PROVE  /\ InboxOrder'
         /\ Own \in C => inbox'[Own] = NoText /\ Coming' = {}
         /\ Own \notin C => inbox'[Own] = inbox[Own] /\ Coming' = Coming
<1>1. Own \in Conns /\ NoText.kind # "batch"
  BY DeliveryAssumption DEF DeliveryAssumption, NoText
<1>2. \A c \in Conns : inbox'[c] = IF c \in C THEN NoText ELSE inbox[c]
  OBVIOUS
<1>3. InboxOrder'
  BY <1>1, <1>2 DEF InboxOrder
<1>4. Own \in C => inbox'[Own] = NoText /\ Coming' = {}
  BY <1>1, <1>2 DEF Coming
<1>5. Own \notin C => inbox'[Own] = inbox[Own] /\ Coming' = Coming
  BY <1>1, <1>2 DEF Coming
<1> QED BY <1>3, <1>4, <1>5

\* A listener is done with its text.
LEMMA HandsEmptied ==
  ASSUME CollectorInv, InboxOrder, NEW c \in Conns, NEW place, HandsFree(c, place)
  PROVE  /\ InboxOrder'
         /\ c = Own => inbox'[Own] = NoText /\ Coming' = {}
         /\ c # Own => inbox'[Own] = inbox[Own] /\ Coming' = Coming
<1>1. inbox' = [d \in Conns |-> IF d \in {c} THEN NoText ELSE inbox[d]]
  <2>1. inbox \in [Conns -> Text] /\ inbox' = [inbox EXCEPT ![c] = NoText]
    BY DEF HandsFree, CollectorInv, CollectorType
  <2> QED BY <2>1
<1> QED BY <1>1, InboxEmptied

\* What one listener has in its hands.
Taken(c) == IF c = Own THEN Coming ELSE {}

LEMMA TakeTextOrder ==
  ASSUME CollectorInv, InboxOrder, NEW c \in Conns, TakeText(c)
  PROVE  /\ UNCHANGED <<stored, hand>> /\ old' = inbox[c]
         /\ MsgsIn(backlog') \subseteq MsgsIn(backlog) \cup Taken(c)
         /\ InOrder(backlog) /\ Before(MsgsIn(backlog), Taken(c)) => InOrder(backlog')
<1>1. /\ UNCHANGED <<stored, hand>> /\ old' = inbox[c]
      /\ Enter(Items(inbox[c])) /\ inbox[c].kind # "junk"
  BY DEF TakeText, storage
<1>2. inbox[c] \in Text /\ backlog \in Seq(Item)
  BY DEF CollectorInv, CollectorType
<1>3. inbox[c].kind = "batch" => c = Own /\ Increasing(inbox[c].body)
  BY DEF InboxOrder
<1>4. /\ Items(inbox[c]) \in Seq(Item) /\ InOrder(Items(inbox[c]))
      /\ MsgsIn(Items(inbox[c])) =
           IF inbox[c].kind = "batch" THEN Elements(inbox[c].body) ELSE {}
  BY <1>1, <1>2, <1>3, ItemsOrder, ItemsTypes
<1>5. MsgsIn(Items(inbox[c])) = Taken(c)
  BY <1>3, <1>4 DEF Taken, Coming
<1>6. /\ MsgsIn(backlog') \subseteq MsgsIn(backlog) \cup MsgsIn(Items(inbox[c]))
      /\ InOrder(backlog) /\ InOrder(Items(inbox[c])) /\ Before(MsgsIn(backlog), MsgsIn(Items(inbox[c])))
           => InOrder(backlog')
  BY <1>1, <1>2, <1>4, EnterOrder, Zenon
<1> QED BY <1>1, <1>4, <1>5, <1>6

\* The thread that stores.
LEMMA StorerOrder ==
  ASSUME CollectorInv, TakeItem \/ Idle \/ StoreItem \/ StoreItemLate
  PROVE  /\ UNCHANGED <<inbox, old>> /\ Received' \subseteq Received
         /\ StoreItemLate \/ (ReceivedOrder => ReceivedOrder')
<1>0. backlog \in Seq(Item) /\ hand \in Item /\ stored \in Seq(Item) /\ MsgOf(NoItem) = {}
  BY DEF CollectorInv, CollectorType, MsgOf, NoItem, IsMessage
<1>1. CASE UNCHANGED <<inbox, old, backlog, hand, stored>>
  BY <1>1 DEF Received, InHand, ReceivedOrder
<1>2. CASE TakeItem
  <2>1. storer = "take" /\ UNCHANGED <<inbox, old, stored>>
    BY <1>2 DEF TakeItem, storage
  <2>2. CASE UNCHANGED <<backlog, hand>>
    BY <1>1, <2>1, <2>2
  <2>3. CASE backlog # <<>> /\ hand' = Head(backlog) /\ backlog' = Tail(backlog)
    <3>1. InHand = {}
      BY <1>0, <2>1 DEF CollectorInv, HandFree, InHand
    <3>2. InHand' = MsgOf(Head(backlog)) /\ MsgsIn(stored') = MsgsIn(stored) /\ stored' = stored
      BY <2>1, <2>3 DEF InHand
    <3>3. /\ InHand' \subseteq MsgsIn(backlog) /\ MsgsIn(backlog') \subseteq MsgsIn(backlog)
          /\ InOrder(backlog) => InOrder(backlog') /\ Before(InHand', MsgsIn(backlog'))
      BY <1>0, <2>3, <3>2, TailOrder, Zenon
    <3>4. Received' \subseteq Received
      BY <3>2, <3>3 DEF Received
    <3>5. ReceivedOrder => ReceivedOrder'
      BY <3>1, <3>2, <3>3 DEF ReceivedOrder, Before
    <3> QED BY <2>1, <3>4, <3>5
  <2> QED BY <1>2, <2>2, <2>3 DEF TakeItem
<1>3. CASE Idle
  BY <1>1, <1>3 DEF Idle, storage
<1>4. CASE StoreItem
  <2>1. stored' = Append(stored, hand) /\ hand' = NoItem /\ UNCHANGED <<inbox, old, backlog>>
    BY <1>4 DEF StoreItem
  <2>2. /\ MsgsIn(stored') \subseteq MsgsIn(stored) \cup InHand
        /\ InOrder(stored) /\ Before(MsgsIn(stored), InHand) => InOrder(stored')
    BY <1>0, <2>1, AppendOrder DEF InHand
  <2>3. InHand' = {} /\ MsgsIn(backlog') = MsgsIn(backlog)
    BY <1>0, <2>1 DEF InHand
  <2>4. Received' \subseteq Received
    BY <2>2, <2>3 DEF Received
  <2>5. ReceivedOrder => ReceivedOrder'
    BY <2>1, <2>2, <2>3 DEF ReceivedOrder, Before
  <2> QED BY <2>1, <2>4, <2>5
<1>5. CASE StoreItemLate
  <2>1. stored' = Append(stored, hand) /\ UNCHANGED <<inbox, old, backlog, hand>>
    BY <1>5 DEF StoreItemLate, threads
  <2>2. MsgsIn(stored') \subseteq MsgsIn(stored) \cup InHand
    BY <1>0, <2>1, AppendOrder DEF InHand
  <2>3. InHand' = InHand /\ MsgsIn(backlog') = MsgsIn(backlog)
    BY <2>1 DEF InHand
  <2> QED BY <1>5, <2>1, <2>2, <2>3 DEF Received
<1> QED BY <1>2, <1>3, <1>4, <1>5

\* The collector throws away what it has not stored.
LEMMA ClearedOrder ==
  ASSUME CollectorInv, InboxOrder, Cleared, UNCHANGED storage
  PROVE  /\ InboxOrder' /\ inbox'[Own] = NoText /\ Coming' = {} /\ old' = NoText
         /\ Received' \subseteq Received
         /\ ReceivedOrder => ReceivedOrder'
<1>1. /\ inbox' = [c \in Conns |-> NoText] /\ old' = NoText /\ backlog' = <<>> /\ hand' = NoItem
      /\ stored' = stored
  BY DEF Cleared, storage
<1>2. inbox' = [c \in Conns |-> IF c \in Conns THEN NoText ELSE inbox[c]]
  BY <1>1
<1>3. InboxOrder' /\ inbox'[Own] = NoText /\ Coming' = {}
  BY <1>2, InboxEmptied, DeliveryAssumption DEF DeliveryAssumption
<1>4. MsgsIn(backlog') = {} /\ InHand' = {} /\ MsgsIn(stored') = MsgsIn(stored) /\ InOrder(backlog')
  BY <1>1, NothingIsOrdered DEF InHand, MsgOf, IsMessage, NoItem
<1> QED BY <1>1, <1>3, <1>4 DEF Received, ReceivedOrder, Before

\* A text comes in.
LEMMA ReceiveOrder ==
  ASSUME CollectorInv, InboxOrder, Increasing(sending),
         NEW c \in Conns, NEW text \in Sent, Receive(c, text),
         text.kind = "batch" => c = Own /\ text = BatchText
  PROVE  /\ UNCHANGED <<old, backlog, hand, stored>> /\ InboxOrder'
         /\ c = Own => inbox'[Own] = text /\ Coming' \subseteq Elements(sending)
         /\ c = Own /\ text.kind # "batch" => Coming' = {}
         /\ c # Own => inbox'[Own] = inbox[Own] /\ Coming' = Coming
<1>1. Own \in Conns /\ BatchText.body = sending
  BY DeliveryAssumption DEF DeliveryAssumption, BatchText
<1>2. UNCHANGED <<old, backlog, hand, stored>>
  BY DEF Receive, storage
<1>3. \A d \in Conns : inbox'[d] = IF d = c THEN text ELSE inbox[d]
  BY DEF Receive, CollectorInv, CollectorType
<1>4. InboxOrder'
  BY <1>1, <1>3 DEF InboxOrder
<1>5. c # Own => inbox'[Own] = inbox[Own] /\ Coming' = Coming
  BY <1>1, <1>3 DEF Coming
<1>6. ASSUME c = Own
      PROVE  inbox'[Own] = text /\ Coming' = IF text.kind = "batch" THEN Elements(sending) ELSE {}
  <2>1. inbox'[Own] = text
    BY <1>1, <1>3, <1>6
  <2>2. CASE text.kind = "batch"
    BY <1>1, <2>1, <2>2 DEF Coming
  <2>3. CASE text.kind # "batch"
    BY <2>1, <2>3 DEF Coming
  <2> QED BY <2>1, <2>2, <2>3
<1> QED BY <1>2, <1>4, <1>5, <1>6

ReceivedSame == Received' = Received /\ (ReceivedOrder => ReceivedOrder')

LEMMA NothingReceived ==
  ASSUME UNCHANGED <<backlog, hand, stored>>
  PROVE  ReceivedSame
BY DEF ReceivedSame, Received, InHand, ReceivedOrder

\* The collector has nothing that it did not have, and was not sent.
LEMMA WhatIsReceived ==
  ASSUME TypeOK, TypeInv, InboxOrder, Increasing(sending), [Next]_vars
  PROVE  /\ InboxOrder'
         /\ Received' \cup Coming' \subseteq Received \cup Coming \cup Elements(sending)
<1>1. ASSUME UNCHANGED <<inbox, backlog, hand, stored>>
      PROVE  InboxOrder' /\ Received' \cup Coming' = Received \cup Coming
  BY <1>1, NothingReceived DEF InboxOrder, Coming, ReceivedSame
<1>2. CASE DaemonAlone
  BY <1>1, <1>2 DEF DaemonAlone, collector, threads, storage
<1>3. ASSUME NEW c \in Conns, NEW text \in Sent, Receive(c, text),
             text.kind = "batch" => c = Own /\ text = BatchText
      PROVE  /\ InboxOrder'
             /\ Received' \cup Coming' \subseteq Received \cup Coming \cup Elements(sending)
  <2>1. /\ UNCHANGED <<backlog, hand, stored>> /\ InboxOrder'
        /\ Coming' \subseteq Elements(sending) \/ Coming' = Coming
    BY <1>3, ReceiveOrder, Zenon DEF TypeInv
  <2> QED BY <2>1, NothingReceived DEF ReceivedSame
<1>4. CASE TextArrives
  BY <1>3, <1>4, DeliveryAssumption, Zenon DEF TextArrives, DeliveryAssumption
<1>5. CASE OtherTextArrives
  <2>1. Report \in Sent /\ Report.kind # "batch"
    BY DEF Sent, Report
  <2> QED BY <1>3, <1>5, <2>1, Zenon DEF OtherTextArrives
<1>6. ASSUME NEW c \in Conns, TakeText(c)
      PROVE  InboxOrder' /\ Received' \cup Coming' \subseteq Received \cup Coming
  <2>1. \E place : HandsFree(c, place)
    BY <1>6, Zenon DEF TakeText
  <2>2. InboxOrder' /\ Coming' \subseteq Coming
    BY <2>1, HandsEmptied DEF TypeInv
  <2>3. UNCHANGED <<stored, hand>> /\ MsgsIn(backlog') \subseteq MsgsIn(backlog) \cup Taken(c)
    BY <1>6, TakeTextOrder DEF TypeInv
  <2> QED BY <2>2, <2>3 DEF Received, InHand, Taken
<1>7. ASSUME NEW c \in Conns, DropText(c)
      PROVE  InboxOrder' /\ Received' \cup Coming' \subseteq Received \cup Coming
  <2>1. HandsFree(c, "read") /\ UNCHANGED <<backlog, hand, stored>>
    BY <1>7 DEF DropText, storage
  <2>2. InboxOrder' /\ Coming' \subseteq Coming
    BY <2>1, HandsEmptied DEF TypeInv
  <2> QED BY <2>1, <2>2, NothingReceived DEF ReceivedSame
<1>8. CASE CollectorStopEnds \/ CollectorSuicide \/ \E c \in Conns : ChokeOnText(c)
  <2>1. Cleared /\ UNCHANGED storage
    BY <1>8 DEF CollectorStopEnds, CollectorSuicide, ChokeOnText, CollectorDies
  <2> QED BY <2>1, ClearedOrder DEF TypeInv
<1>9. CASE TakeItem \/ Idle \/ StoreItem \/ StoreItemLate
  <2>1. UNCHANGED <<inbox, old>> /\ Received' \subseteq Received
    BY <1>9, StorerOrder DEF TypeInv
  <2> QED BY <2>1 DEF InboxOrder, Coming
<1>10. CASE \/ CollectorStopBegins \/ StorageRecovers \/ CollectorStarts \/ StorageFails
            \/ \E c \in Conns : LinkEnds(c)
  BY <1>1, <1>10
  DEF CollectorStopBegins, StorageRecovers, CollectorStarts, StorageFails, LinkEnds, threads, storage
<1> QED BY <1>2, <1>4, <1>5, <1>6, <1>7, <1>8, <1>9, <1>10, WhoMoves
        DEF CollectorWorks, CollectorReturns

LEMMA ComingOrderStep ==
  ASSUME TypeOK, TypeInv, DaemonOrder, ComingOrder, [Next]_vars
  PROVE  ComingOrder'
<1>1. DaemonOrder' /\ DaemonGoesOn
  BY StepsOfBoth, DaemonOrderStep DEF TypeInv
<1>2. /\ InboxOrder'
      /\ Received' \cup Coming' \subseteq Received \cup Coming \cup Elements(sending)
  BY WhatIsReceived DEF DaemonOrder, ComingOrder
<1>3. Received \cup Coming \cup Elements(sending) \subseteq 0 .. number
  BY DEF DaemonOrder, ComingOrder
<1>4. Before(Received \cup Coming \cup Elements(sending), Waiting)
  BY DEF DaemonOrder, ComingOrder, Before
<1>5. /\ number \in Nat /\ number' \in Nat /\ number <= number'
      /\ \A n \in Waiting' : n \in Waiting \/ n > number
  BY <1>1 DEF DaemonGoesOn, TypeInv, DaemonInv, DaemonType
<1>6. Received' \cup Coming' \subseteq 0 .. number'
  BY <1>2, <1>3, <1>5
<1>7. Before(Received' \cup Coming', Waiting')
  <2> SUFFICES ASSUME NEW a \in Received' \cup Coming', NEW b \in Waiting'
               PROVE  a < b
    BY DEF Before
  <2>1. a \in Received \cup Coming \cup Elements(sending) /\ a \in 0 .. number
    BY <1>2, <1>3
  <2>2. CASE b \in Waiting
    BY <1>4, <2>1, <2>2 DEF Before
  <2>3. CASE b > number
    <3>1. b \in Int
      BY <1>1 DEF DaemonOrder
    <3> QED BY <1>5, <2>1, <2>3, <3>1
  <2> QED BY <1>5, <2>2, <2>3
<1> QED BY <1>2, <1>6, <1>7 DEF ComingOrder

\* A step of the collector that receives nothing new, and does not forget the
\* last text.
LEMMA StillKnown ==
  ASSUME NewOrKnown, UNCHANGED <<reader, sending, old>>,
         Received' \subseteq Received,
         \/ inbox'[Own] = inbox[Own] /\ Coming' = Coming
         \/ inbox'[Own] = NoText /\ Coming' = {} /\ (inbox[Own] # BatchText \/ inbox[Own] = old)
  PROVE  NewOrKnown'
<1>1. BatchText' = BatchText /\ NoText.kind # "batch"
  BY DEF BatchText, NoText
<1>2. inbox'[Own].kind = "batch" => inbox'[Own] = old' \/ Before(Received', Coming')
  BY <1>1 DEF NewOrKnown, Before
<1>3. ASSUME reader = "write", old # BatchText
      PROVE  /\ Before(Received', Elements(sending))
             /\ inbox'[Own] = BatchText \/ Before(Coming', Elements(sending))
  BY <1>1, <1>3 DEF NewOrKnown, Before
<1>4. Elements(sending') = Elements(sending)
  OBVIOUS
<1> QED BY <1>1, <1>2, <1>3, <1>4 DEF NewOrKnown

\* A step of the collector after which the last text is another one.
LEMMA NewlyKnown ==
  ASSUME NewOrKnown, Blur, ~blurred', UNCHANGED <<reader, sending>>,
         Received' \subseteq Received \cup Coming,
         \/ inbox'[Own] = NoText /\ Coming' = {} /\ (inbox[Own] = BatchText => old' = BatchText)
         \/ inbox'[Own] = inbox[Own] /\ Coming' = Coming /\ Received' \subseteq Received
            /\ Own \in Conns
  PROVE  NewOrKnown'
<1>1. BatchText' = BatchText /\ NoText.kind # "batch" /\ BatchText.body = sending
  BY DEF BatchText, NoText
<1>2. Elements(sending') = Elements(sending) /\ Elements(<<>>) = {}
  BY NothingIsOrdered
<1>3. (reader = "write" /\ old = BatchText) \/ (\E c \in Conns : inbox[c] = old)
        => old' = old \/ old.body = <<>>
  BY Zenon DEF Blur
<1>4. ASSUME inbox'[Own].kind = "batch"
      PROVE  inbox'[Own] = old' \/ Before(Received', Coming')
  <2>1. inbox'[Own] = inbox[Own] /\ Coming' = Coming /\ Received' \subseteq Received /\ Own \in Conns
    BY <1>1, <1>4
  <2>2. CASE inbox[Own] = old
    <3>1. old' = old \/ Coming = {}
      BY <1>2, <1>3, <2>1, <2>2, <1>4 DEF Coming
    <3> QED BY <2>1, <2>2, <3>1 DEF Before
  <2>3. CASE Before(Received, Coming)
    BY <2>1, <2>3 DEF Before
  <2> QED BY <1>4, <2>1, <2>2, <2>3 DEF NewOrKnown
<1>5. ASSUME reader = "write", old' # BatchText
      PROVE  /\ Before(Received', Elements(sending))
             /\ inbox'[Own] = BatchText \/ Before(Coming', Elements(sending))
  <2>1. CASE old = BatchText
    <3>1. sending = <<>>
      BY <1>1, <1>3, <1>5, <2>1
    <3> QED BY <1>2, <3>1 DEF Before
  <2>2. CASE old # BatchText
    <3>1. /\ Before(Received, Elements(sending))
          /\ inbox[Own] = BatchText \/ Before(Coming, Elements(sending))
      BY <1>5, <2>2 DEF NewOrKnown
    <3>2. CASE inbox'[Own] = NoText /\ Coming' = {} /\ Before(Coming, Elements(sending))
      BY <3>1, <3>2 DEF Before
    <3>3. CASE inbox'[Own] = inbox[Own] /\ Coming' = Coming /\ Received' \subseteq Received
      BY <3>1, <3>3 DEF Before
    <3> QED BY <1>5, <3>1, <3>2, <3>3
  <2> QED BY <2>1, <2>2
<1> QED BY <1>1, <1>2, <1>4, <1>5 DEF NewOrKnown

\* The collector forgets everything that is not stored.
LEMMA ForgottenKnown ==
  ASSUME NewOrKnown, Blur, ~blurred', UNCHANGED <<reader, sending>>,
         Received' \subseteq Received,
         inbox'[Own] = NoText /\ Coming' = {} /\ old' = NoText, Own \in Conns
  PROVE  NewOrKnown'
<1>1. /\ BatchText' = BatchText /\ NoText.kind # "batch" /\ BatchText.body = sending
      /\ Elements(<<>>) = {} /\ Elements(sending') = Elements(sending)
  BY NothingIsOrdered DEF BatchText, NoText
<1>2. ASSUME reader = "write", old' # BatchText PROVE Before(Received', Elements(sending))
  <2>1. CASE old = BatchText
    <3>1. old' = old \/ old.body = <<>>
      BY <1>2, <2>1, Zenon DEF Blur
    <3>2. Elements(sending) = {}
      BY <1>1, <1>2, <2>1, <3>1
    <3> QED BY <3>2 DEF Before
  <2>2. CASE old # BatchText
    BY <1>2, <2>2 DEF NewOrKnown, Before
  <2> QED BY <2>1, <2>2
<1>3. inbox'[Own].kind # "batch"
  BY <1>1
<1>4. Before(Coming', Elements(sending))
  BY DEF Before
<1> QED BY <1>1, <1>2, <1>3, <1>4 DEF NewOrKnown

\* A step of the daemon: what it will write next is new.
LEMMA DaemonSendsNew ==
  ASSUME TypeOK, TypeInv, DaemonOrder, ComingOrder, NewOrKnown,
         DaemonAlone \/ TextArrives
  PROVE  NewOrKnown'
<1>1. DaemonGoesOn
  BY DaemonOrderStep DEF TypeInv, DaemonAlone, TextArrives
<1>2. ASSUME reader' = "write"
      PROVE  \/ reader = "write" /\ BatchText' = BatchText /\ Elements(sending') = Elements(sending)
             \/ Before(Received, Elements(sending')) /\ Before(Coming, Elements(sending'))
  <2>1. CASE sending' = sending /\ reader = "write"
    BY <2>1 DEF BatchText
  <2>2. CASE Elements(sending') \subseteq Waiting
    BY <2>2 DEF ComingOrder, Before
  <2> QED BY <1>1, <1>2, <2>1, <2>2 DEF DaemonGoesOn
<1>3. CASE DaemonAlone
  <2>1. UNCHANGED <<inbox, old, backlog, hand, stored>>
    BY <1>3 DEF DaemonAlone, collector, threads, storage
  <2>2. Received' = Received /\ Coming' = Coming
    BY <2>1, NothingReceived DEF ReceivedSame, Coming
  <2> QED BY <1>2, <2>1, <2>2 DEF NewOrKnown
<1>4. CASE TextArrives
  <2>1. PICK text \in Sent : /\ Receive(Own, text)
                             /\ text.kind = "batch" => reader = "write" /\ text = BatchText
    BY <1>4 DEF TextArrives
  <2>2. /\ UNCHANGED <<old, backlog, hand, stored>>
        /\ inbox'[Own] = text /\ Coming' \subseteq Elements(sending)
        /\ text.kind # "batch" => Coming' = {}
    BY <2>1, ReceiveOrder, DeliveryAssumption
    DEF TypeInv, ComingOrder, DaemonOrder, DeliveryAssumption
  <2>3. Received' = Received
    BY <2>2, NothingReceived DEF ReceivedSame
  <2>4. CASE text.kind = "batch"
    <3>1. reader = "write" /\ inbox'[Own] = BatchText
      BY <2>1, <2>2, <2>4
    <3>2. old = BatchText \/ Before(Received, Elements(sending))
      BY <3>1 DEF NewOrKnown
    <3>3. inbox'[Own] = old' \/ Before(Received', Coming')
      BY <2>2, <2>3, <3>1, <3>2 DEF Before
    <3>4. ASSUME reader' = "write", old' # BatchText'
          PROVE  /\ Before(Received', Elements(sending'))
                 /\ inbox'[Own] = BatchText' \/ Before(Coming', Elements(sending'))
      <4>1. CASE BatchText' = BatchText /\ Elements(sending') = Elements(sending)
        BY <2>2, <2>3, <3>1, <3>2, <3>4, <4>1
      <4>2. CASE Elements(sending') \subseteq Waiting
        <5>1. Before(Received, Elements(sending')) /\ Before(Elements(sending), Elements(sending'))
          BY <4>2 DEF ComingOrder, DaemonOrder, Before
        <5> QED BY <2>2, <2>3, <5>1 DEF Before
      <4>3. sending' = sending => BatchText' = BatchText
        BY DEF BatchText
      <4> QED BY <1>1, <3>4, <4>1, <4>2, <4>3 DEF DaemonGoesOn
    <3> QED BY <3>3, <3>4 DEF NewOrKnown
  <2>5. CASE text.kind # "batch"
    <3>1. Coming' = {} /\ inbox'[Own].kind # "batch"
      BY <2>2, <2>5
    <3> QED BY <1>2, <2>2, <2>3, <3>1 DEF NewOrKnown, Before
  <2> QED BY <2>4, <2>5
<1> QED BY <1>3, <1>4

LEMMA ReceivedOrderStep ==
  ASSUME TypeOK, TypeInv, DaemonOrder, ComingOrder, ~blurred => ReceivedOrder /\ NewOrKnown,
         [Next]_vars, ~blurred'
  PROVE  ReceivedOrder' /\ NewOrKnown'
<1>1. ~blurred
  BY WhoMoves, Zenon
  DEF DaemonAlone, TextArrives, OtherTextArrives, CollectorWorks, CollectorReturns, Blur
<1>2. ReceivedOrder /\ NewOrKnown /\ CollectorInv /\ InboxOrder /\ Increasing(sending) /\ Own \in Conns
  BY <1>1, DeliveryAssumption DEF TypeInv, ComingOrder, DaemonOrder, DeliveryAssumption
<1>3. ASSUME UNCHANGED <<backlog, hand, stored>>
      PROVE  ReceivedOrder' /\ Received' \subseteq Received
  BY <1>2, <1>3, NothingReceived DEF ReceivedSame
<1>4. CASE DaemonAlone \/ TextArrives
  <2>1. UNCHANGED <<backlog, hand, stored>>
    BY <1>4 DEF DaemonAlone, TextArrives, Receive, collector, threads, storage
  <2> QED BY <1>2, <1>3, <1>4, <2>1, DaemonSendsNew
<1>5. ASSUME UNCHANGED <<daemon, inbox, old, backlog, hand, stored>>
      PROVE  ReceivedOrder' /\ NewOrKnown'
  <2>1. inbox'[Own] = inbox[Own] /\ Coming' = Coming /\ UNCHANGED <<reader, sending, old>>
    BY <1>5 DEF Coming, daemon, output
  <2>2. ReceivedOrder' /\ Received' \subseteq Received
    BY <1>3, <1>5
  <2> QED BY <1>2, <2>1, <2>2, StillKnown
<1>6. CASE OtherTextArrives
  <2>1. PICK c \in Conns \ {Own} : Receive(c, Report)
    BY <1>6 DEF OtherTextArrives
  <2>2. Report \in Sent /\ Report.kind # "batch"
    BY DEF Sent, Report
  <2>3. /\ UNCHANGED <<old, backlog, hand, stored>>
        /\ inbox'[Own] = inbox[Own] /\ Coming' = Coming
    BY <1>2, <2>1, <2>2, ReceiveOrder, Zenon
  <2>4. UNCHANGED <<reader, sending>>
    BY <1>6 DEF OtherTextArrives, daemon, output
  <2> QED BY <1>2, <1>3, <2>3, <2>4, StillKnown
<1>7. CASE CollectorWorks
  <2>1. Blur /\ UNCHANGED <<reader, sending>>
    BY <1>7 DEF CollectorWorks, daemon, output
  <2>2. ASSUME NEW c \in Conns, TakeText(c) PROVE ReceivedOrder' /\ NewOrKnown'
    <3>1. /\ UNCHANGED <<stored, hand>> /\ old' = inbox[c]
          /\ MsgsIn(backlog') \subseteq MsgsIn(backlog) \cup Taken(c)
          /\ InOrder(backlog) /\ Before(MsgsIn(backlog), Taken(c)) => InOrder(backlog')
      BY <1>2, <2>2, TakeTextOrder
    <3>2. InHand' = InHand /\ MsgsIn(stored') = MsgsIn(stored)
      BY <3>1 DEF InHand
    <3>3. Received' \subseteq Received \cup Taken(c)
      BY <3>1, <3>2 DEF Received
    <3>4. Before(Received, Taken(c))
      <4>1. CASE c = Own /\ inbox[Own].kind = "batch"
        <5>1. inbox[Own] # old \/ inbox[Own].body = <<>>
          BY <2>2, <4>1 DEF TakeText, IsRepetition
        <5>2. inbox[Own].body = <<>> => Coming = {}
          BY NothingIsOrdered DEF Coming
        <5>3. Before(Received, Coming)
          BY <1>2, <4>1, <5>1, <5>2 DEF NewOrKnown, Before
        <5> QED BY <4>1, <5>3 DEF Taken
      <4>2. CASE ~(c = Own /\ inbox[Own].kind = "batch")
        BY <4>2 DEF Taken, Coming, Before
      <4> QED BY <4>1, <4>2
    <3>5. ReceivedOrder'
      <4>1. Before(MsgsIn(stored) \cup InHand \cup MsgsIn(backlog), Taken(c))
        BY <3>4 DEF Received
      <4>2. InOrder(backlog')
        BY <1>2, <3>1, <4>1 DEF ReceivedOrder, Before
      <4>3. InOrder(stored')
        BY <1>2, <3>1 DEF ReceivedOrder
      <4>4. Before(MsgsIn(stored'), InHand' \cup MsgsIn(backlog')) /\ Before(InHand', MsgsIn(backlog'))
        BY <1>2, <3>1, <3>2, <4>1 DEF ReceivedOrder, Before
      <4> QED BY <4>2, <4>3, <4>4 DEF ReceivedOrder
    <3>6. \E place : HandsFree(c, place)
      BY <2>2, Zenon DEF TakeText
    <3>7. /\ c = Own => inbox'[Own] = NoText /\ Coming' = {}
          /\ c # Own => inbox'[Own] = inbox[Own] /\ Coming' = Coming
      BY <1>2, <3>6, HandsEmptied
    <3>8. CASE c = Own
      <4>1. inbox'[Own] = NoText /\ Coming' = {} /\ (inbox[Own] = BatchText => old' = BatchText)
        BY <3>1, <3>7, <3>8
      <4>2. Received' \subseteq Received \cup Coming
        BY <3>3, <3>8 DEF Taken
      <4> QED BY <1>2, <2>1, <3>5, <4>1, <4>2, NewlyKnown
    <3>9. CASE c # Own
      <4>1. Received' \subseteq Received
        BY <3>3, <3>9 DEF Taken
      <4>2. Received' \subseteq Received \cup Coming
        BY <4>1
      <4> QED BY <1>2, <2>1, <3>5, <3>7, <3>9, <4>1, <4>2, NewlyKnown
    <3> QED BY <3>8, <3>9
  <2>3. ASSUME NEW c \in Conns, DropText(c) PROVE ReceivedOrder' /\ NewOrKnown'
    <3>1. /\ inbox[c] = old \/ inbox[c] # BatchText
          /\ HandsFree(c, "read") /\ UNCHANGED <<old, backlog, hand, stored>>
      BY <2>3 DEF DropText, IsRepetition, MayBePartOfOld, BatchText, storage
    <3>2. /\ c = Own => inbox'[Own] = NoText /\ Coming' = {}
          /\ c # Own => inbox'[Own] = inbox[Own] /\ Coming' = Coming
      BY <1>2, <3>1, HandsEmptied
    <3>3. \/ inbox'[Own] = inbox[Own] /\ Coming' = Coming
          \/ inbox'[Own] = NoText /\ Coming' = {} /\ (inbox[Own] # BatchText \/ inbox[Own] = old)
      BY <3>1, <3>2
    <3> QED BY <1>2, <1>3, <2>1, <3>1, <3>3, StillKnown
  <2>4. CASE CollectorStopEnds \/ CollectorSuicide \/ \E c \in Conns : ChokeOnText(c)
    <3>1. Cleared /\ UNCHANGED storage
      BY <2>4 DEF CollectorStopEnds, CollectorSuicide, ChokeOnText, CollectorDies
    <3>2. /\ inbox'[Own] = NoText /\ Coming' = {} /\ old' = NoText
          /\ Received' \subseteq Received /\ ReceivedOrder'
      BY <1>2, <3>1, ClearedOrder
    <3> QED BY <1>2, <2>1, <3>2, ForgottenKnown
  <2>5. CASE TakeItem \/ Idle \/ StoreItem
    <3>1. ~StoreItemLate
      BY <1>2, <2>5 DEF TakeItem, Idle, StoreItem, StoreItemLate, threads
    <3>2. UNCHANGED <<inbox, old>> /\ Received' \subseteq Received /\ ReceivedOrder'
      BY <1>2, <2>5, <3>1, StorerOrder
    <3>3. inbox'[Own] = inbox[Own] /\ Coming' = Coming
      BY <3>2 DEF Coming
    <3> QED BY <1>2, <2>1, <3>2, <3>3, StillKnown
  <2>6. CASE CollectorStopBegins \/ StorageRecovers \/ \E c \in Conns : LinkEnds(c)
    <3>1. UNCHANGED <<daemon, inbox, old, backlog, hand, stored>>
      BY <1>7, <2>6 DEF CollectorWorks, CollectorStopBegins, StorageRecovers, LinkEnds, threads, storage
    <3> QED BY <1>5, <3>1
  <2> QED BY <1>7, <2>2, <2>3, <2>4, <2>5, <2>6 DEF CollectorWorks
<1>8. CASE CollectorReturns
  <2>1. UNCHANGED <<daemon, inbox, old, backlog, hand, stored>>
    BY <1>8 DEF CollectorReturns, CollectorStarts, StorageFails, threads, storage
  <2> QED BY <1>5, <2>1
<1> QED BY <1>4, <1>6, <1>7, <1>8, WhoMoves

----------------------------------------------------------------------------

\* The messages of the daemon are stored in the order of their numbers, none of
\* them twice, whatever the sizes of queues, batches and the number of faults.
THEOREM StoredInOrder == Spec => []StoredInOrderOnce
<1>1. Init => OrderInv
  <2> SUFFICES ASSUME Init PROVE OrderInv
    OBVIOUS
  <2>1. /\ mq = <<>> /\ batch = <<>> /\ sending = <<>> /\ stored = <<>> /\ backlog = <<>>
        /\ hand = NoItem /\ number = 0 /\ reader = "lock"
        /\ \A c \in Conns : inbox[c] = NoText
    BY DEF Init, DaemonInit, CollectorInit
  <2>2. Waiting = {} /\ Received = {} /\ InHand = {}
    BY <2>1, NothingIsOrdered DEF Waiting, Received, InHand, MsgOf, IsMessage, NoItem
  <2>3. Coming = {} /\ inbox[Own].kind # "batch" /\ InboxOrder
    BY <2>1, DeliveryAssumption DEF Coming, InboxOrder, NoText, DeliveryAssumption
  <2>4. DaemonOrder
    BY <2>1, <2>2, NothingIsOrdered DEF DaemonOrder, Before
  <2>5. ComingOrder
    BY <2>2, <2>3 DEF ComingOrder, Before
  <2>6. ReceivedOrder
    BY <2>1, <2>2, NothingIsOrdered DEF ReceivedOrder, Before
  <2>7. NewOrKnown
    BY <2>1, <2>3 DEF NewOrKnown
  <2> QED BY <2>4, <2>5, <2>6, <2>7 DEF OrderInv
<1>2. TypeOK /\ TypeInv /\ OrderInv /\ [Next]_vars => OrderInv'
  <2> SUFFICES ASSUME TypeOK, TypeInv, OrderInv, [Next]_vars
               PROVE  OrderInv'
    OBVIOUS
  <2>1. DaemonOrder /\ ComingOrder /\ (~blurred => ReceivedOrder /\ NewOrKnown)
    BY DEF OrderInv
  <2>2. DaemonOrder'
    BY <2>1, StepsOfBoth, DaemonOrderStep DEF TypeInv
  <2>3. ComingOrder'
    BY <2>1, ComingOrderStep
  <2>4. ~blurred' => ReceivedOrder' /\ NewOrKnown'
    BY <2>1, ReceivedOrderStep
  <2> QED BY <2>2, <2>3, <2>4 DEF OrderInv
<1>3. OrderInv => StoredInOrderOnce
  BY DEF OrderInv, ReceivedOrder, InOrder, StoredInOrderOnce
<1> QED BY <1>1, <1>2, <1>3, InvariantHolds, PTL DEF Spec
=============================================================================
