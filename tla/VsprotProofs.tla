---------------------------- MODULE VsprotProofs ----------------------------
(***************************************************************************)
(* Proofs about Vsprot, for all values of its constants: types, and that   *)
(* read() returns whole messages in order as long as nothing is lost.      *)
(***************************************************************************)
EXTENDS Vsprot, SequenceTheorems, TLAPS

\* What a thread sends from write_buffer_ consists of units.
LEMMA ContentsTypes ==
  ASSUME TypeOK, NEW n \in 0 .. Len(frames), NEW first \in Nat, NEW last \in Nat, first <= last,
         NEW piece \in Contents(n, first, last)
  PROVE  piece \in Seq(Unit)
<1>1. \A m \in 0 .. Len(frames) : Piece(m, first, last) \in Seq(Unit)
  BY DEF Piece, Unit
<1>2. Rubbish(first, last) \in Seq(Unit)
  BY DEF Rubbish, Unit
<1>3. Len(frames) \in Nat
  BY DEF TypeOK
<1> QED BY <1>1, <1>2, <1>3 DEF Contents

\* The length of a frame that is being written is a positive number.
LEMMA FrameLenTypes ==
  ASSUME TypeOK, NEW n \in 1 .. Len(frames)
  PROVE  FrameLen(n) \in Nat /\ FrameLen(n) > HeaderLen
BY SMTT(30) DEF TypeOK, FrameLen, HeaderLen

\* Parts of sequences are sequences.
LEMMA SubSeqTypes ==
  ASSUME NEW S, NEW s \in Seq(S), NEW i \in Nat \ {0}, NEW j \in Nat, j <= Len(s)
  PROVE  SubSeq(s, i, j) \in Seq(S)
OBVIOUS

LEMMA AppendTypes ==
  ASSUME NEW S, NEW s \in Seq(S), NEW e \in S
  PROVE  Append(s, e) \in Seq(S)
OBVIOUS

LEMMA SeqGrows ==
  ASSUME NEW S, NEW T, S \subseteq T, NEW s \in Seq(S)
  PROVE  s \in Seq(T)
OBVIOUS

\* A frame in read_buffer_ has the size of a frame that was written; its data,
\* and what follows, are units.
LEMMA ReadFrameTypes ==
  ASSUME TypeOK, ReadFrame
  PROVE  /\ SizeIn(read_buffer) \in Nat \ {0}
         /\ received' \in Seq(Seq(Unit)) /\ read_buffer' \in Seq(Unit)
<1> DEFINE size == SizeIn(read_buffer)
           data == SubSeq(read_buffer, HeaderLen + 1, HeaderLen + size)
           rest == Rest(read_buffer)
<1>1. /\ Len(read_buffer) \in Nat /\ Len(read_buffer) >= HeaderLen
      /\ read_buffer[HeaderLen].frame # 0
      /\ Len(read_buffer) >= size + HeaderLen
  BY DEF ReadFrame, HasFrame, StartsWithHeader, TypeOK, HeaderLen
<1>2. read_buffer[HeaderLen].frame \in 1 .. Len(frames)
  <2>1. read_buffer[HeaderLen] \in Unit
    BY <1>1 DEF TypeOK, HeaderLen
  <2> QED BY <1>1, <2>1 DEF TypeOK, Unit
<1>3. size \in Nat \ {0}
  BY <1>2 DEF SizeIn, TypeOK
<1>4. data \in Seq(Unit) /\ rest \in Seq(Unit)
  BY <1>1, <1>3, SubSeqTypes, SMTT(30) DEF Rest, TypeOK, HeaderLen
<1>5. received' = Append(received, data) /\ read_buffer' \in {<<>>, rest}
  BY DEF ReadFrame
<1>6. Append(received, data) \in Seq(Seq(Unit))
  BY <1>4, AppendTypes DEF TypeOK
<1>7. <<>> \in Seq(Unit)
  OBVIOUS
<1> HIDE DEF size, data, rest
<1>8. received' \in Seq(Seq(Unit))
  BY <1>5, <1>6, Zenon
<1>9. read_buffer' \in Seq(Unit)
  BY <1>4, <1>5, <1>7, Zenon
<1> QED BY <1>3, <1>8, <1>9 DEF size

LEMMA WriteEndsTypes ==
  ASSUME TypeOK, NEW ws \in SUBSET Writers, WriteEnds(ws), UNCHANGED frames
  PROVE  /\ writing' \in [Writers -> 0 .. Len(frames)] /\ sent' \in [Writers -> Nat]
         /\ (\A v \in Writers : writing[v] # 0 => sent[v] < FrameLen(writing[v]))'
<1>1. writing' \in [Writers -> 0 .. Len(frames)] /\ sent' \in [Writers -> Nat]
  BY DEF TypeOK, WriteEnds
<1>2. ASSUME NEW v \in Writers, writing'[v] # 0
      PROVE  sent'[v] < FrameLen(writing[v])'
  <2>1. writing'[v] = writing[v] /\ sent'[v] = sent[v] /\ writing[v] # 0
    BY <1>2 DEF WriteEnds
  <2> QED BY <2>1 DEF TypeOK, FrameLen
<1> QED BY <1>1, <1>2

\* Every variable keeps its type, and no more is sent than a frame holds.
THEOREM TypeCorrect == Spec => []TypeOK
<1>1. Init => TypeOK
  <2> SUFFICES ASSUME Init PROVE TypeOK
    OBVIOUS
  <2>1. \A S : <<>> \in Seq(S)
    OBVIOUS
  <2>2. stream \in BOOLEAN /\ flawed \in BOOLEAN /\ calm \in BOOLEAN
    BY Zenon DEF Init
  <2>3. 1 \in 1 .. Len(ReadBufs) /\ MaxFaults \in Nat /\ MaxWrites \in Nat
    BY VsprotAssumption DEF VsprotAssumption
  <2> QED BY <2>1, <2>2, <2>3 DEF Init, TypeOK
<1>2. TypeOK /\ [Next]_vars => TypeOK'
  <2> SUFFICES ASSUME TypeOK, [Next]_vars PROVE TypeOK'
    OBVIOUS
  <2>1. ASSUME NEW w \in Writers, WriteBegins(w)
        PROVE  TypeOK'
    <3>1. PICK size \in SizesOf[Len(frames) + 1] : frames' = Append(frames, size)
      BY <2>1 DEF WriteBegins
    <3>2. Len(frames) \in Nat /\ Len(frames) < MaxWrites /\ size \in Nat \ {0}
      <4>1. Len(frames) \in Nat /\ Len(frames) < MaxWrites /\ MaxWrites \in Nat
        BY <2>1, VsprotAssumption DEF WriteBegins, TypeOK, VsprotAssumption
      <4>2. Len(frames) + 1 \in 1 .. MaxWrites
        BY <4>1
      <4> QED BY <3>1, <4>1, <4>2, VsprotAssumption DEF VsprotAssumption
    <3>3. /\ frames' \in Seq(Nat \ {0}) /\ Len(frames') = Len(frames) + 1
          /\ \A n \in 1 .. Len(frames) : frames'[n] = frames[n]
          /\ frames'[Len(frames) + 1] = size
      BY <3>1, <3>2 DEF TypeOK
    <3>4. writing' \in [Writers -> 0 .. Len(frames')] /\ intact' \in 0 .. Len(frames')
      BY <2>1, <3>2, <3>3 DEF WriteBegins, TypeOK
    <3>5. flawed' \in BOOLEAN /\ calm' \in BOOLEAN
      BY <2>1, Zenon DEF WriteBegins, TypeOK
    <3>6. ASSUME NEW v \in Writers, writing'[v] # 0
          PROVE  sent'[v] < FrameLen(writing[v])'
      <4>0. sent' = [sent EXCEPT ![w] = 0] /\ sent \in [Writers -> Nat]
        BY <2>1 DEF WriteBegins, TypeOK
      <4>1. CASE v = w
        <5>1. writing'[v] = Len(frames) + 1
          <6>1. writing' = [writing EXCEPT ![w] = Len(frames')]
            BY <2>1 DEF WriteBegins
          <6>2. writing \in [Writers -> 0 .. Len(frames)]
            BY DEF TypeOK
          <6> QED BY <3>3, <4>1, <6>1, <6>2
        <5>2. sent'[v] = 0
          BY <4>0, <4>1
        <5> QED BY <5>1, <5>2, <3>2, <3>3 DEF FrameLen, HeaderLen
      <4>2. CASE v # w
        <5>1. writing'[v] = writing[v] /\ writing[v] \in 1 .. Len(frames)
          <6>1. writing' = [writing EXCEPT ![w] = Len(frames')]
            BY <2>1 DEF WriteBegins
          <6>2. writing \in [Writers -> 0 .. Len(frames)]
            BY DEF TypeOK
          <6>3. writing'[v] = writing[v]
            BY <4>2, <6>1, <6>2
          <6>4. writing[v] # 0 /\ writing[v] \in 0 .. Len(frames)
            BY <3>6, <6>2, <6>3
          <6> QED BY <3>2, <6>3, <6>4
        <5>2. sent'[v] = sent[v]
          BY <4>0, <4>2
        <5> QED BY <5>1, <5>2, <3>3, <3>6 DEF FrameLen, TypeOK
      <4> QED BY <4>1, <4>2
    <3>7. Unit \subseteq Unit'
      BY <3>2, <3>3 DEF Unit
    <3>8. UNCHANGED <<net, read_buffer, received>>
      BY <2>1 DEF WriteBegins, reader
    <3>9. /\ net' \in Seq(Unit') /\ read_buffer' \in Seq(Unit')
          /\ received' \in Seq(Seq(Unit'))
      <4>1. Seq(Unit) \subseteq Seq(Unit')
        BY <3>7, SeqGrows
      <4> QED BY <3>7, <3>8, <4>1, SeqGrows DEF TypeOK
    <3>10. UNCHANGED <<stream, buf, faults>> /\ sent' \in [Writers -> Nat]
      BY <2>1 DEF WriteBegins, reader, TypeOK
    <3>11. Len(frames') <= MaxWrites
      BY <3>2, <3>3, VsprotAssumption DEF VsprotAssumption
    <3> QED BY <3>3, <3>4, <3>5, <3>6, <3>9, <3>10, <3>11 DEF TypeOK
  <2>2. ASSUME NEW w \in Writers, Send(w)
        PROVE  TypeOK'
    <3> DEFINE n == writing[w]
               last == SmallerOf(sent[w] + MTU, FrameLen(n))
    <3>1. /\ n \in 1 .. Len(frames) /\ sent[w] \in Nat /\ sent[w] < FrameLen(n)
          /\ FrameLen(n) \in Nat
      BY <2>2, FrameLenTypes DEF Send, TypeOK
    <3>2. last \in Nat /\ sent[w] < last /\ last <= FrameLen(n)
      BY <3>1, VsprotAssumption DEF SmallerOf, VsprotAssumption
    <3>3. net' \in Seq(Unit)
      <4>1. PICK piece \in Contents(n, sent[w] + 1, last) : net' = net \o piece
        BY <2>2 DEF Send
      <4>2. piece \in Seq(Unit)
        <5>1. n \in 0 .. Len(frames) /\ sent[w] + 1 \in Nat /\ sent[w] + 1 <= last
          BY <3>1, <3>2
        <5> QED BY <3>2, <4>1, <5>1, ContentsTypes
      <4> QED BY <4>1, <4>2 DEF TypeOK
    <3>4. CASE last = FrameLen(n) /\ WriteEnds({w})
      <4>1. frames' = frames
        BY <2>2 DEF Send
      <4> QED BY <2>2, <3>3, <3>4, <4>1, WriteEndsTypes DEF Send, TypeOK, Unit, reader
    <3>5. CASE last # FrameLen(n) /\ sent' = [sent EXCEPT ![w] = last] /\ UNCHANGED writing
      <4>1. frames' = frames
        BY <2>2 DEF Send
      <4>2. sent' \in [Writers -> Nat]
        BY <3>2, <3>5 DEF TypeOK
      <4>3. ASSUME NEW v \in Writers, writing'[v] # 0
            PROVE  sent'[v] < FrameLen(writing[v])'
        <5>1. v = w => sent'[v] = last
          BY <3>5 DEF TypeOK
        <5>2. v # w => sent'[v] = sent[v]
          BY <3>5 DEF TypeOK
        <5>3. FrameLen(writing[v])' = FrameLen(writing[v])
          BY <3>5, <4>1 DEF FrameLen
        <5>4. v # w => sent[v] < FrameLen(writing[v])
          BY <3>5, <4>3 DEF TypeOK
        <5> QED BY <3>1, <3>2, <3>5, <5>1, <5>2, <5>3, <5>4
      <4> QED BY <2>2, <3>3, <3>5, <4>1, <4>2, <4>3 DEF Send, TypeOK, Unit, reader
    <3> QED BY <2>2, <3>4, <3>5 DEF Send
  <2>3. ASSUME NEW w \in Writers, WriteCut(w)
        PROVE  TypeOK'
    <3>1. frames' = frames
      BY <2>3 DEF WriteCut
    <3>2. flawed' \in BOOLEAN
      BY <2>3, Zenon DEF WriteCut, TypeOK
    <3>3. faults' \in 0 .. MaxFaults
      BY <2>3, VsprotAssumption, SMTT(30) DEF WriteCut, Fault, TypeOK, VsprotAssumption
    <3>4. WriteEnds({w}) /\ intact' = 0
      BY <2>3 DEF WriteCut
    <3>5. UNCHANGED <<stream, net, read_buffer, received, buf, calm>>
      BY <2>3 DEF WriteCut, reader
    <3> QED BY <3>1, <3>2, <3>3, <3>4, <3>5, WriteEndsTypes, SMTT(30) DEF TypeOK, Unit
  <2>4. CASE Loses
    <3>1. frames' = frames
      BY <2>4 DEF Loses
    <3>2. faults' \in 0 .. MaxFaults
      BY <2>4, VsprotAssumption DEF Loses, Fault, TypeOK, VsprotAssumption
    <3>3. flawed' \in BOOLEAN /\ intact' = 0
      BY <2>4, Zenon DEF Loses
    <3>4. UNCHANGED <<stream, read_buffer, received, buf, calm>>
      BY <2>4 DEF Loses, reader
    <3>5. CASE net' = <<>> /\ WriteEnds(Writers)
      BY <3>1, <3>2, <3>3, <3>4, <3>5, WriteEndsTypes DEF TypeOK, Unit
    <3>6. ASSUME NEW k \in 1 .. Len(net), net' = SubSeq(net, k + 1, Len(net)),
                 UNCHANGED <<writing, sent>>
          PROVE  TypeOK'
      <4>1. net' \in Seq(Unit)
        BY <3>6, SubSeqTypes DEF TypeOK
      <4>2. \A v \in Writers : FrameLen(writing[v])' = FrameLen(writing[v])
        BY <3>1, <3>6 DEF FrameLen
      <4>3. (\A v \in Writers : writing[v] # 0 => sent[v] < FrameLen(writing[v]))'
        BY <3>6, <4>2 DEF TypeOK
      <4>4. Unit' = Unit
        BY <3>1 DEF Unit
      <4> QED BY <3>1, <3>2, <3>3, <3>4, <3>6, <4>1, <4>3, <4>4 DEF TypeOK
    <3> QED BY <2>4, <3>5, <3>6 DEF Loses
  <2>5. CASE ReadFrame
    <3>1. Len(ReadBufs) \in Nat /\ 1 \in 1 .. Len(ReadBufs)
      BY VsprotAssumption DEF VsprotAssumption
    <3>2. buf' = 1
      BY <2>5 DEF ReadFrame
    <3>3. UNCHANGED <<stream, frames, writing, sent, net, faults, flawed, calm, intact>>
      BY <2>5 DEF ReadFrame, sender
    <3>4. received' \in Seq(Seq(Unit)) /\ read_buffer' \in Seq(Unit)
      BY <2>5, ReadFrameTypes
    <3> QED BY <3>1, <3>2, <3>3, <3>4 DEF TypeOK, Unit, FrameLen
  <2>6. CASE Overflow
    BY <2>6, VsprotAssumption, SMTT(30) DEF Overflow, TypeOK, Unit, sender, FrameLen, VsprotAssumption
  <2>7. CASE Receive
    <3>1. PICK k \in 1 .. Len(net) : /\ read_buffer' = read_buffer \o SubSeq(net, 1, k)
                                     /\ net' = SubSeq(net, k + 1, Len(net))
      BY <2>7 DEF Receive
    <3>2. SubSeq(net, 1, k) \in Seq(Unit) /\ net' \in Seq(Unit)
      <4>1. net \in Seq(Unit) /\ Len(net) \in Nat
        BY DEF TypeOK
      <4>2. SubSeq(net, 1, k) \in Seq(Unit)
        BY <4>1, SubSeqTypes
      <4>3. SubSeq(net, k + 1, Len(net)) \in Seq(Unit)
        BY <4>1, SubSeqTypes
      <4> QED BY <3>1, <4>2, <4>3
    <3>3. read_buffer' \in Seq(Unit)
      BY <3>1, <3>2 DEF TypeOK
    <3>4. UNCHANGED <<stream, frames, writing, sent, buf, received, faults, flawed, calm, intact>>
      BY <2>7 DEF Receive, sender
    <3> QED BY <3>2, <3>3, <3>4 DEF TypeOK, Unit, FrameLen
  <2>8. CASE ReadTimesOut
    <3>1. calm' \in BOOLEAN
      BY <2>8, Zenon DEF ReadTimesOut, Idle
    <3> QED BY <2>8, <3>1 DEF ReadTimesOut, TypeOK, Unit, sender, FrameLen
  <2>9. CASE UNCHANGED vars
    BY <2>9 DEF vars, sender, reader, TypeOK, Unit, FrameLen
  <2> QED BY <2>1, <2>2, <2>3, <2>4, <2>5, <2>6, <2>7, <2>8, <2>9 DEF Next, Reads
<1> QED BY <1>1, <1>2, PTL DEF Spec

----------------------------------------------------------------------------
(* What has been sent and not yet been returned, and what is still to come *)

Sizes == Seq(Nat \ {0})
Pending == read_buffer \o net

\* How many units of its frame follow a unit u.
Left(f, u) == f[u.frame] + HeaderLen - u.place

\* v was sent d units after u.
Linked(f, u, v, d) ==
  IF d <= Left(f, u) THEN v.frame = u.frame /\ v.place = u.place + d ELSE v.frame > u.frame

UnitOf(f, u) == u.frame \in 1 .. Len(f) /\ u.place \in 1 .. f[u.frame] + HeaderLen

\* The units of s were sent one after the other.
Chain(f, s) ==
  /\ \A i \in 1 .. Len(s) : UnitOf(f, s[i])
  /\ \A i, j \in 1 .. Len(s) : i < j => Linked(f, s[i], s[j], j - i)

\* Next to be sent is what follows the k-th unit of frame n.
Joined(f, s, n, k) ==
  \A i \in 1 .. Len(s) :
    IF s[i].frame = n THEN s[i].place + (Len(s) - i) = k
    ELSE s[i].frame < n /\ Len(s) - i >= Left(f, s[i])

\* p holds what lies between the k-th and the last unit of frame n.
PieceOf(f, p, n, k, last) ==
  /\ k < last /\ last <= f[n] + HeaderLen
  /\ Len(p) = last - k
  /\ \A i \in 1 .. Len(p) : p[i].frame = n /\ p[i].place = k + i

\* s begins with b, and b with a whole frame with that much data.
WholeFrame(f, s, b, size) ==
  /\ Len(b) <= Len(s) /\ \A i \in 1 .. Len(b) : b[i] = s[i]
  /\ StartsWithHeader(b)
  /\ size = f[b[HeaderLen].frame] /\ Len(b) >= size + HeaderLen

\* The data of the frame that b begins with.
DataOf(b, size) == SubSeq(b, HeaderLen + 1, HeaderLen + size)

\* s without its first k units.
Without(s, k) == SubSeq(s, k + 1, Len(s))

MessageOf(f, text) ==
  /\ text # <<>> /\ text[1].frame \in 1 .. Len(f)
  /\ Len(text) = f[text[1].frame]
  /\ \A i \in 1 .. Len(text) :
       text[i].frame = text[1].frame /\ text[i].place = HeaderLen + i

\* r are messages, the older first, and older than all of s and than frame n.
Heard(f, s, r, n) ==
  /\ \A i \in 1 .. Len(r) : MessageOf(f, r[i]) /\ r[i][1].frame < n
  /\ \A i, j \in 1 .. Len(r) : i < j => r[i][1].frame < r[j][1].frame
  /\ \A i \in 1 .. Len(r), j \in 1 .. Len(s) : r[i][1].frame < s[j].frame

\* The frame to be sent next: the one being written, or the next one.
Current == IF Idle THEN Len(frames) + 1 ELSE Len(frames)

\* At most one thread writes, and it writes the newest frame.
OneWrites ==
  /\ \A v, w \in Writers : writing[v] # 0 /\ writing[w] # 0 => v = w
  /\ \A w \in Writers : writing[w] # 0 => writing[w] = Len(frames)

Sound ==
  /\ OneWrites
  /\ Chain(frames, Pending)
  /\ Heard(frames, Pending, received, Current)
  /\ Idle => Joined(frames, Pending, Len(frames) + 1, 0)
  /\ \A w \in Writers : writing[w] # 0 => Joined(frames, Pending, Len(frames), sent[w])

\* The size of a frame that exists is a number.
LEMMA SizeTypes ==
  ASSUME NEW f \in Sizes, NEW n \in 1 .. Len(f)
  PROVE  f[n] \in Nat \ {0}
BY DEF Sizes

\* Taking units away from the front keeps all of this.
LEMMA SuffixSound ==
  ASSUME NEW U, NEW f, NEW s \in Seq(U), NEW k \in 0 .. Len(s)
  PROVE  /\ Chain(f, s) => Chain(f, Without(s, k))
         /\ \A n, m : Joined(f, s, n, m) => Joined(f, Without(s, k), n, m)
         /\ \A r, n : Heard(f, s, r, n) => Heard(f, Without(s, k), r, n)
<1> DEFINE t == Without(s, k)
<1>1. /\ Len(s) \in Nat /\ Len(t) = Len(s) - k /\ Len(t) \in Nat
      /\ \A i \in 1 .. Len(t) : i + k \in 1 .. Len(s) /\ t[i] = s[i + k]
  BY SMTT(30) DEF Without
<1> HIDE DEF t
<1>2. ASSUME Chain(f, s) PROVE Chain(f, t)
  <2>1. \A i \in 1 .. Len(t) : UnitOf(f, t[i])
    BY <1>1, <1>2 DEF Chain
  <2>2. ASSUME NEW i \in 1 .. Len(t), NEW j \in 1 .. Len(t), i < j
        PROVE  Linked(f, t[i], t[j], j - i)
    <3>1. Linked(f, s[i + k], s[j + k], (j + k) - (i + k))
      BY <1>1, <1>2, <2>2 DEF Chain
    <3>2. (j + k) - (i + k) = j - i
      BY <1>1
    <3> QED BY <1>1, <3>1, <3>2
  <2> QED BY <2>1, <2>2 DEF Chain
<1>3. ASSUME NEW n, NEW m, Joined(f, s, n, m) PROVE Joined(f, t, n, m)
  <2> SUFFICES ASSUME NEW i \in 1 .. Len(t)
               PROVE  IF t[i].frame = n THEN t[i].place + (Len(t) - i) = m
                      ELSE t[i].frame < n /\ Len(t) - i >= Left(f, t[i])
    BY DEF Joined
  <2>1. IF s[i + k].frame = n THEN s[i + k].place + (Len(s) - (i + k)) = m
        ELSE s[i + k].frame < n /\ Len(s) - (i + k) >= Left(f, s[i + k])
    BY <1>1, <1>3 DEF Joined
  <2>2. Len(s) - (i + k) = Len(t) - i
    BY <1>1
  <2> QED BY <1>1, <2>1, <2>2
<1>4. ASSUME NEW r, NEW n, Heard(f, s, r, n) PROVE Heard(f, t, r, n)
  BY <1>1, <1>4 DEF Heard
<1> QED BY <1>2, <1>3, <1>4 DEF t

\* A new frame changes nothing for those before it.
LEMMA GrowSound ==
  ASSUME NEW f \in Sizes, NEW size \in Nat \ {0}, NEW g, g = Append(f, size),
         NEW U, NEW s \in Seq(U), Chain(f, s)
  PROVE  /\ g \in Sizes /\ Len(g) = Len(f) + 1 /\ Chain(g, s)
         /\ Joined(f, s, Len(f) + 1, 0) => Joined(g, s, Len(g), 0)
         /\ \A r, n : Heard(f, s, r, n) => Heard(g, s, r, n)
<1>1. /\ g \in Sizes /\ Len(f) \in Nat /\ Len(g) = Len(f) + 1
      /\ \A n \in 1 .. Len(f) : g[n] = f[n] /\ n \in 1 .. Len(g)
  BY DEF Sizes
<1>2. \A u : u.frame \in 1 .. Len(f) => Left(g, u) = Left(f, u)
  BY <1>1 DEF Left
<1>3. \A i \in 1 .. Len(s) : s[i].frame \in 1 .. Len(f)
  BY DEF Chain, UnitOf
<1>4. Chain(g, s)
  <2>1. \A i \in 1 .. Len(s) : UnitOf(g, s[i])
    BY <1>1 DEF Chain, UnitOf
  <2>2. ASSUME NEW i \in 1 .. Len(s), NEW j \in 1 .. Len(s), i < j
        PROVE  Linked(g, s[i], s[j], j - i)
    <3>1. Linked(f, s[i], s[j], j - i)
      BY <2>2 DEF Chain
    <3> QED BY <1>2, <1>3, <3>1 DEF Linked
  <2> QED BY <2>1, <2>2 DEF Chain
<1>5. ASSUME Joined(f, s, Len(f) + 1, 0) PROVE Joined(g, s, Len(g), 0)
  BY <1>1, <1>2, <1>3, <1>5 DEF Joined
<1>6. ASSUME NEW r, NEW n, Heard(f, s, r, n) PROVE Heard(g, s, r, n)
  <2>1. ASSUME NEW text, MessageOf(f, text) PROVE MessageOf(g, text)
    BY <1>1, <2>1 DEF MessageOf
  <2> QED BY <1>6, <2>1 DEF Heard
<1> QED BY <1>1, <1>4, <1>5, <1>6

\* The next piece of the newest frame continues the chain; when it is the last
\* one the frame is complete.
LEMMA PieceSound ==
  ASSUME NEW U, NEW f \in Sizes, Len(f) > 0, NEW s \in Seq(U), NEW k \in Nat, NEW last \in Nat,
         NEW p \in Seq(U), PieceOf(f, p, Len(f), k, last),
         Chain(f, s), Joined(f, s, Len(f), k)
  PROVE  /\ Chain(f, s \o p)
         /\ last = f[Len(f)] + HeaderLen => Joined(f, s \o p, Len(f) + 1, 0)
         /\ last < f[Len(f)] + HeaderLen => Joined(f, s \o p, Len(f), last)
         /\ \A r : Heard(f, s, r, Len(f)) => Heard(f, s \o p, r, Len(f))
<1> DEFINE t == s \o p
           n == Len(f)
<1>0. n \in Nat \ {0} /\ HeaderLen = 2 /\ Len(p) = last - k /\ k < last
  BY DEF Sizes, HeaderLen, PieceOf
<1>1. /\ n \in Nat \ {0} /\ f[n] \in Nat \ {0} /\ Len(s) \in Nat /\ HeaderLen = 2
      /\ Len(t) = Len(s) + (last - k) /\ k < last /\ last <= f[n] + 2
  <2>1. n \in 1 .. Len(f)
    BY <1>0
  <2>2. f[n] \in Nat \ {0}
    BY <2>1, SizeTypes
  <2>3. Len(t) = Len(s) + Len(p) /\ Len(s) \in Nat
    OBVIOUS
  <2> QED BY <1>0, <2>2, <2>3 DEF PieceOf
<1>n. n \in Nat /\ n >= 1
  BY <1>0
<1>t. Len(s) \in Nat /\ Len(t) = Len(s) + (last - k) /\ k < last
  BY <1>1
<1>f. f[n] \in Nat /\ last <= f[n] + 2 /\ HeaderLen = 2
  BY <1>1
<1>2. \A i \in 1 .. Len(t) : IF i <= Len(s) THEN t[i] = s[i] ELSE t[i] = p[i - Len(s)]
  BY <1>1
<1>3. \A i \in 1 .. Len(t) :
        i > Len(s) => t[i].frame = n /\ t[i].place = k + (i - Len(s))
  <2> SUFFICES ASSUME NEW i \in 1 .. Len(t), i > Len(s)
               PROVE  t[i].frame = n /\ t[i].place = k + (i - Len(s))
    OBVIOUS
  <2>1. i - Len(s) \in 1 .. Len(p) /\ t[i] = p[i - Len(s)]
    BY <1>0, <1>1, <1>2, SMTT(30)
  <2> QED BY <2>1 DEF PieceOf
<1>4. \A i \in 1 .. Len(s) :
        /\ t[i] = s[i] /\ s[i].frame \in 1 .. n /\ s[i].place \in Nat
        /\ s[i].place >= 1 /\ f[s[i].frame] \in Nat
        /\ Left(f, s[i]) \in Nat /\ Left(f, s[i]) = f[s[i].frame] + 2 - s[i].place
  <2> SUFFICES ASSUME NEW i \in 1 .. Len(s)
               PROVE  /\ t[i] = s[i] /\ s[i].frame \in 1 .. n /\ s[i].place \in Nat
                      /\ s[i].place >= 1 /\ f[s[i].frame] \in Nat
                      /\ Left(f, s[i]) \in Nat
                      /\ Left(f, s[i]) = f[s[i].frame] + 2 - s[i].place
    OBVIOUS
  <2>1. UnitOf(f, s[i])
    BY DEF Chain
  <2>2. s[i].frame \in 1 .. n /\ f[s[i].frame] \in Nat
    BY <2>1, SizeTypes DEF UnitOf
  <2>3. t[i] = s[i]
    BY <1>1, <1>2
  <2> HIDE DEF t, n
  <2>4. s[i].place \in 1 .. f[s[i].frame] + 2
    BY <1>1, <2>1 DEF UnitOf
  <2>5. Left(f, s[i]) = f[s[i].frame] + 2 - s[i].place
    BY <1>1 DEF Left
  <2>6. s[i].place \in Nat /\ s[i].place >= 1 /\ Left(f, s[i]) \in Nat
    BY <2>2, <2>4, <2>5, SMTT(30)
  <2> QED BY <2>2, <2>3, <2>5, <2>6
<1>5. \A i \in 1 .. Len(s) :
        IF s[i].frame = n THEN s[i].place = k - (Len(s) - i)
        ELSE s[i].frame < n /\ Len(s) - i >= Left(f, s[i])
  <2> SUFFICES ASSUME NEW i \in 1 .. Len(s), s[i].frame = n
               PROVE  s[i].place = k - (Len(s) - i)
    BY DEF Joined
  <2>1. s[i].place + (Len(s) - i) = k /\ s[i].place \in Nat
    BY <1>4 DEF Joined
  <2>2. Len(s) \in Nat
    OBVIOUS
  <2> HIDE DEF t, n
  <2> QED BY <2>1, <2>2
<1> HIDE DEF t, n
<1>6. Chain(f, t)
  <2>1. \A i \in 1 .. Len(t) : UnitOf(f, t[i])
    <3> SUFFICES ASSUME NEW i \in 1 .. Len(t) PROVE UnitOf(f, t[i])
      OBVIOUS
    <3>1. CASE i <= Len(s)
      <4>1. i \in 1 .. Len(s)
        BY <1>t, <3>1
      <4>2. t[i] = s[i]
        BY <1>4, <4>1
      <4> QED BY <4>1, <4>2 DEF Chain
    <3>2. CASE i > Len(s)
      <4>1. t[i].frame = n /\ t[i].place = k + (i - Len(s))
        BY <1>3, <3>2
      <4>2. k + (i - Len(s)) \in 1 .. f[n] + HeaderLen
        BY <1>1, <3>2, SMTT(30)
      <4> QED BY <1>1, <4>1, <4>2 DEF UnitOf, n
    <3> QED BY <1>1, <3>1, <3>2
  <2>2. ASSUME NEW i \in 1 .. Len(t), NEW j \in 1 .. Len(t), i < j
        PROVE  Linked(f, t[i], t[j], j - i)
    <3>1. CASE j <= Len(s)
      <4>1. i \in 1 .. Len(s) /\ j \in 1 .. Len(s)
        BY <1>1, <2>2, <3>1
      <4> QED BY <1>4, <2>2, <4>1 DEF Chain
    <3>2. CASE i <= Len(s) /\ j > Len(s)
      <4>1. t[j].frame = n /\ t[j].place = k + (j - Len(s))
        BY <1>3, <3>2
      <4>0. i \in 1 .. Len(s)
        BY <1>1, <3>2
      <4>2. i \in 1 .. Len(s) /\ t[i] = s[i]
        BY <1>4, <4>0
      <4>3. CASE s[i].frame = n
        <5>1. s[i].place = k - (Len(s) - i) /\ Left(f, s[i]) = f[n] + 2 - s[i].place
          BY <1>4, <1>5, <4>2, <4>3
        <5>2. t[j].place = k + (j - Len(s))
          BY <4>1
        <5>3. j - i <= Left(f, s[i]) /\ t[j].place = s[i].place + (j - i)
          <6>1. Left(f, s[i]) = f[n] + 2 - (k - (Len(s) - i))
            BY <5>1
          <6>2. j - Len(s) <= last - k
            BY <1>t, <3>2
          <6>3. j - i <= Left(f, s[i])
            BY <1>t, <1>f, <3>2, <4>0, <6>1, <6>2, SMTT(30)
          <6>4. t[j].place = s[i].place + (j - i)
            BY <1>t, <3>2, <4>0, <5>1, <5>2
          <6> QED BY <6>3, <6>4
        <5> QED BY <4>1, <4>2, <4>3, <5>3 DEF Linked
      <4>4. CASE s[i].frame # n
        <5>1. s[i].frame < n /\ Len(s) - i >= Left(f, s[i]) /\ Left(f, s[i]) \in Nat
          BY <1>4, <1>5, <4>2, <4>4
        <5>2. ~(j - i <= Left(f, s[i]))
          BY <1>1, <3>2, <4>2, <5>1
        <5>3. t[j].frame > t[i].frame
          BY <1>1, <1>4, <4>1, <4>2, <5>1
        <5> QED BY <4>2, <5>2, <5>3 DEF Linked
      <4> QED BY <4>3, <4>4
    <3>3. CASE i > Len(s)
      <4>1. /\ t[i].frame = n /\ t[i].place = k + (i - Len(s))
            /\ t[j].frame = n /\ t[j].place = k + (j - Len(s))
        BY <1>1, <1>3, <2>2, <3>3, SMTT(30)
      <4>2. j - i <= Left(f, t[i])
        <5>1. Left(f, t[i]) = f[n] + 2 - (k + (i - Len(s)))
          BY <1>1, <4>1 DEF Left
        <5> QED BY <1>1, <3>3, <5>1, SMTT(30)
      <4> QED BY <1>1, <4>1, <4>2 DEF Linked
    <3> QED BY <1>1, <2>2, <3>1, <3>2, <3>3
  <2> QED BY <2>1, <2>2 DEF Chain
<1>7. ASSUME last = f[n] + HeaderLen PROVE Joined(f, t, n + 1, 0)
  <2> SUFFICES ASSUME NEW i \in 1 .. Len(t)
               PROVE  /\ t[i].frame # n + 1 /\ t[i].frame < n + 1
                      /\ Len(t) - i >= Left(f, t[i])
    BY DEF Joined
  <2>1. CASE i > Len(s)
    <3>1. t[i].frame = n /\ t[i].place = k + (i - Len(s))
      BY <1>3, <2>1
    <3>2. Left(f, t[i]) = f[n] + 2 - (k + (i - Len(s)))
      BY <1>1, <3>1 DEF Left
    <3>3. Len(t) - i >= Left(f, t[i])
      <4>1. Left(f, t[i]) = last - (k + (i - Len(s)))
        BY <1>f, <1>7, <3>2, SMTT(30)
      <4> QED BY <1>t, <2>1, <4>1
    <3> QED BY <1>1, <3>1, <3>3
  <2>2. CASE i <= Len(s)
    <3>1. i \in 1 .. Len(s) /\ t[i] = s[i] /\ s[i].frame \in 1 .. n /\ s[i].place \in Nat
      <4>1. i \in 1 .. Len(s)
        BY <1>t, <2>2
      <4> QED BY <1>4, <4>1
    <3>2. CASE s[i].frame = n
      <4>1. s[i].place = k - (Len(s) - i) /\ Left(f, s[i]) = f[n] + 2 - s[i].place
        BY <1>4, <1>5, <3>1, <3>2
      <4>2. i \in 1 .. Len(s)
        BY <3>1
      <4>3. Left(f, s[i]) = Len(t) - i
        <5>1. Left(f, s[i]) = last - (k - (Len(s) - i))
          BY <1>f, <1>7, <4>1
        <5> QED BY <1>t, <4>2, <5>1
      <4>4. Len(t) - i >= Left(f, t[i])
        BY <1>1, <3>1, <4>2, <4>3
      <4>5. s[i].frame < n + 1 /\ s[i].frame # n + 1
        <5>1. s[i].frame \in 1 .. n
          BY <3>1
        <5> QED BY <1>n, <5>1
      <4> QED BY <3>1, <4>4, <4>5
    <3>3. CASE s[i].frame # n
      <4>1. Len(s) - i >= Left(f, s[i]) /\ Left(f, s[i]) \in Nat
        BY <1>4, <1>5, <3>1, <3>3
      <4>2. Len(t) - i >= Left(f, s[i])
        BY <1>1, <3>1, <4>1
      <4>3. s[i].frame < n + 1 /\ s[i].frame # n + 1
        <5>1. s[i].frame \in 1 .. n
          BY <3>1
        <5> QED BY <1>n, <5>1
      <4> QED BY <3>1, <4>2, <4>3
    <3> QED BY <3>2, <3>3
  <2> QED BY <1>1, <2>1, <2>2
<1>8. ASSUME last < f[n] + HeaderLen PROVE Joined(f, t, n, last)
  <2> SUFFICES ASSUME NEW i \in 1 .. Len(t)
               PROVE  IF t[i].frame = n THEN t[i].place + (Len(t) - i) = last
                      ELSE t[i].frame < n /\ Len(t) - i >= Left(f, t[i])
    BY DEF Joined
  <2>1. CASE i > Len(s)
    <3>1. t[i].frame = n /\ t[i].place = k + (i - Len(s))
      BY <1>3, <2>1
    <3> QED BY <1>1, <3>1
  <2>2. CASE i <= Len(s)
    <3>1. i \in 1 .. Len(s) /\ t[i] = s[i] /\ s[i].frame \in 1 .. n /\ s[i].place \in Nat
      <4>1. i \in 1 .. Len(s)
        BY <1>t, <2>2
      <4> QED BY <1>4, <4>1
    <3>2. CASE s[i].frame = n
      <4>1. s[i].place = k - (Len(s) - i) /\ i \in 1 .. Len(s)
        BY <1>5, <3>1, <3>2
      <4>2. s[i].place + (Len(t) - i) = last
        BY <1>1, <4>1
      <4> QED BY <3>1, <3>2, <4>2
    <3>3. CASE s[i].frame # n
      <4>1. s[i].frame < n /\ Len(s) - i >= Left(f, s[i]) /\ Left(f, s[i]) \in Nat
        BY <1>4, <1>5, <3>1, <3>3
      <4>2. Len(t) - i >= Left(f, s[i])
        BY <1>1, <3>1, <4>1
      <4> QED BY <3>1, <3>3, <4>1, <4>2
    <3> QED BY <3>2, <3>3
  <2> QED BY <1>1, <2>1, <2>2
<1>9. ASSUME NEW r, Heard(f, s, r, n) PROVE Heard(f, t, r, n)
  <2>1. ASSUME NEW i \in 1 .. Len(r), NEW j \in 1 .. Len(t)
        PROVE  r[i][1].frame < t[j].frame
    <3>1. CASE j <= Len(s)
      <4>1. j \in 1 .. Len(s)
        BY <1>t, <3>1
      <4>2. t[j] = s[j]
        BY <1>4, <4>1
      <4> QED BY <1>9, <4>1, <4>2 DEF Heard
    <3>2. CASE j > Len(s)
      BY <1>3, <1>9, <3>2 DEF Heard
    <3> QED BY <1>1, <3>1, <3>2
  <2> QED BY <1>9, <2>1 DEF Heard
<1> QED BY <1>6, <1>7, <1>8, <1>9 DEF t, n

\* What a header announces is one message, and newer frames follow it.
LEMMA DataSound ==
  ASSUME NEW U, NEW f \in Sizes, NEW s \in Seq(U), NEW b \in Seq(U), Chain(f, s),
         NEW size, WholeFrame(f, s, b, size)
  PROVE  /\ size \in Nat \ {0} /\ MessageOf(f, DataOf(b, size))
         /\ \A j \in 1 .. Len(s) : j > size + HeaderLen => s[j].frame > DataOf(b, size)[1].frame
         /\ \A j \in 1 .. size + HeaderLen :
              j <= Len(s) /\ s[j].frame = DataOf(b, size)[1].frame /\ s[j].place = j
<1> DEFINE data == DataOf(b, size)
<1> HIDE DEF data
<1>1. /\ HeaderLen = 2 /\ Len(b) \in Nat /\ Len(s) \in Nat /\ Len(b) >= 2
      /\ Len(b) <= Len(s) /\ \A i \in 1 .. Len(b) : b[i] = s[i]
  BY DEF HeaderLen, StartsWithHeader, WholeFrame
<1>2. b[1] = s[1] /\ b[2] = s[2] /\ s[1].place = 1 /\ s[2].place = 2
  BY <1>1 DEF StartsWithHeader, WholeFrame
<1>3. UnitOf(f, s[1]) /\ Linked(f, s[1], s[2], 1)
  BY <1>1 DEF Chain
<1>4. s[1].frame \in 1 .. Len(f) /\ f[s[1].frame] \in Nat \ {0}
  BY <1>3, SizeTypes DEF UnitOf
<1>5. Left(f, s[1]) = f[s[1].frame] + 1
  BY <1>1, <1>2, <1>4 DEF Left
<1>6. s[2].frame = s[1].frame /\ size = f[s[1].frame] /\ size \in Nat \ {0}
  BY <1>1, <1>2, <1>3, <1>4, <1>5 DEF Linked, WholeFrame
<1>6a. Len(b) >= size + 2
  BY <1>1 DEF WholeFrame
<1>7. ASSUME NEW j \in 1 .. Len(s), j > 1
      PROVE  /\ j <= size + 2 => s[j].frame = s[1].frame /\ s[j].place = j
             /\ j > size + 2 => s[j].frame > s[1].frame
  <2>1. Linked(f, s[1], s[j], j - 1)
    BY <1>1, <1>7 DEF Chain
  <2>2. Left(f, s[1]) = size + 1 /\ s[1].place = 1
    BY <1>2, <1>5, <1>6
  <2>3. j - 1 <= Left(f, s[1]) <=> j <= size + 2
    BY <1>1, <1>6, <2>2
  <2>4. s[1].place + (j - 1) = j
    BY <1>1, <2>2
  <2>5. CASE j <= size + 2
    <3>1. s[j].frame = s[1].frame /\ s[j].place = s[1].place + (j - 1)
      BY <2>1, <2>3, <2>5 DEF Linked
    <3>2. s[j].place = j
      BY <2>4, <3>1
    <3>3. ~(j > size + 2)
      BY <1>1, <1>6, <2>5
    <3> QED BY <3>1, <3>2, <3>3
  <2>6. CASE ~(j <= size + 2)
    <3>1. s[j].frame > s[1].frame
      BY <2>1, <2>3, <2>6 DEF Linked
    <3> QED BY <2>6, <3>1
  <2> QED BY <2>5, <2>6
<1>8. Len(data) = size /\ \A i \in 1 .. size : data[i] = s[i + 2] /\ i + 2 \in 1 .. Len(s)
  <2>1. Len(data) = size /\ \A i \in 1 .. size : data[i] = b[i + 2] /\ i + 2 \in 1 .. Len(b)
    BY <1>1, <1>6, <1>6a DEF data, DataOf
  <2>2. ASSUME NEW i \in 1 .. size
        PROVE  data[i] = s[i + 2] /\ i + 2 \in 1 .. Len(s)
    <3>1. data[i] = b[i + 2] /\ i + 2 \in 1 .. Len(b)
      BY <2>1
    <3>2. b[i + 2] = s[i + 2]
      BY <1>1, <3>1
    <3>3. i + 2 \in 1 .. Len(s)
      BY <1>1, <3>1
    <3> QED BY <3>1, <3>2, <3>3
  <2> QED BY <2>1, <2>2
<1>9. \A i \in 1 .. size : data[i].frame = s[1].frame /\ data[i].place = 2 + i
  <2> SUFFICES ASSUME NEW i \in 1 .. size
               PROVE  data[i].frame = s[1].frame /\ data[i].place = 2 + i
    OBVIOUS
  <2>1. data[i] = s[i + 2] /\ i + 2 \in 1 .. Len(s)
    BY <1>8
  <2>2. i + 2 > 1 /\ i + 2 <= size + 2 /\ i + 2 = 2 + i
    BY <1>6
  <2> QED BY <1>7, <2>1, <2>2
<1>10. data[1].frame = s[1].frame /\ data # <<>>
  <2>1. 1 \in 1 .. size /\ Len(data) = size /\ size # 0
    <3>1. 1 \in 1 .. size /\ size # 0
      BY <1>6
    <3>2. Len(data) = size
      BY <1>8
    <3> QED BY <3>1, <3>2
  <2>2. data # <<>>
    BY <2>1
  <2> QED BY <1>9, <2>1, <2>2
<1>11. MessageOf(f, data)
  BY <1>1, <1>4, <1>6, <1>8, <1>9, <1>10 DEF MessageOf
<1>12. ASSUME NEW j \in 1 .. size + HeaderLen
       PROVE  j <= Len(s) /\ s[j].frame = data[1].frame /\ s[j].place = j
  <2>1. j \in 1 .. Len(s)
    BY <1>1, <1>6, <1>6a
  <2> QED BY <1>1, <1>2, <1>6, <1>7, <1>10, <2>1
<1>13. \A j \in 1 .. Len(s) : j > size + HeaderLen => s[j].frame > data[1].frame
  BY <1>1, <1>6, <1>7, <1>10
<1> QED BY <1>6, <1>11, <1>12, <1>13 DEF data

\* What was read from the transport only moves.
LEMMA PartsMeet ==
  ASSUME NEW U, NEW b \in Seq(U), NEW s \in Seq(U), NEW k \in 1 .. Len(s)
  PROVE  (b \o SubSeq(s, 1, k)) \o SubSeq(s, k + 1, Len(s)) = b \o s
<1> DEFINE u == SubSeq(s, 1, k)
           v == SubSeq(s, k + 1, Len(s))
<1>1. Len(s) \in Nat /\ k \in Nat /\ k <= Len(s) /\ k >= 1
  OBVIOUS
<1>2. /\ u \in Seq(U) /\ Len(u) = k /\ \A i \in 1 .. k : u[i] = s[i]
      /\ v \in Seq(U) /\ Len(v) = Len(s) - k /\ \A i \in 1 .. Len(s) - k : v[i] = s[i + k]
  BY <1>1
<1> HIDE DEF u, v
<1>3. /\ u \o v \in Seq(U) /\ Len(u \o v) = k + (Len(s) - k)
      /\ \A i \in 1 .. k + (Len(s) - k) : (u \o v)[i] = IF i <= k THEN u[i] ELSE v[i - k]
  <2>1. /\ u \o v \in Seq(U) /\ Len(u \o v) = Len(u) + Len(v)
        /\ \A i \in 1 .. Len(u) + Len(v) :
             (u \o v)[i] = IF i <= Len(u) THEN u[i] ELSE v[i - Len(u)]
    <3>1. u \in Seq(U) /\ v \in Seq(U)
      BY <1>2
    <3> QED BY <3>1, ConcatProperties, Zenon
  <2> QED BY <1>2, <2>1, Zenon
<1>4. k + (Len(s) - k) = Len(s)
  BY <1>1
<1>5. ASSUME NEW i \in 1 .. Len(s) PROVE (u \o v)[i] = s[i]
  <2>1. CASE i <= k
    BY <1>1, <1>2, <1>3, <1>4, <2>1
  <2>2. CASE ~(i <= k)
    <3>1. i - k \in 1 .. Len(s) - k /\ (i - k) + k = i
      BY <1>1, <2>2
    <3> QED BY <1>2, <1>3, <1>4, <2>2, <3>1
  <2> QED BY <2>1, <2>2
<1>6. u \o v = s
  BY <1>3, <1>4, <1>5, SeqEqual
<1>7. (b \o u) \o v = b \o (u \o v)
  <2>1. u \in Seq(U) /\ v \in Seq(U)
    BY <1>2
  <2> QED BY <2>1, ConcatAssociative, SMTT(40)
<1> QED BY <1>6, <1>7 DEF u, v

\* What remains in read_buffer_ is the end of what was there.
LEMMA EndsMeet ==
  ASSUME NEW U, NEW b \in Seq(U), NEW s \in Seq(U), NEW k \in 0 .. Len(b)
  PROVE  Without(b, k) \o s = Without(b \o s, k)
<1>1. Len(b) \in Nat /\ Len(s) \in Nat /\ k \in Nat /\ k <= Len(b)
  OBVIOUS
<1>2. /\ b \o s \in Seq(U) /\ Len(b \o s) = Len(b) + Len(s)
      /\ \A i \in 1 .. Len(b) + Len(s) :
           (b \o s)[i] = IF i <= Len(b) THEN b[i] ELSE s[i - Len(b)]
  BY ConcatProperties
<1>3. /\ Without(b, k) \in Seq(U) /\ Len(Without(b, k)) = Len(b) - k
      /\ \A i \in 1 .. Len(b) - k : Without(b, k)[i] = b[i + k]
  BY <1>1 DEF Without
<1>4. /\ Without(b \o s, k) \in Seq(U) /\ Len(Without(b \o s, k)) = Len(b) + Len(s) - k
      /\ \A i \in 1 .. Len(b) + Len(s) - k : Without(b \o s, k)[i] = (b \o s)[i + k]
  <2> DEFINE c == b \o s
  <2>1. c \in Seq(U) /\ Len(c) = Len(b) + Len(s)
    BY <1>2
  <2> HIDE DEF c
  <2>2. /\ Without(c, k) \in Seq(U) /\ Len(Without(c, k)) = Len(b) + Len(s) - k
        /\ \A i \in 1 .. Len(b) + Len(s) - k : Without(c, k)[i] = c[i + k]
    BY <1>1, <2>1 DEF Without
  <2> QED BY <2>2 DEF c
<1>5. /\ Without(b, k) \o s \in Seq(U)
      /\ Len(Without(b, k) \o s) = Len(b) - k + Len(s)
      /\ \A i \in 1 .. Len(b) - k + Len(s) :
           (Without(b, k) \o s)[i] =
             IF i <= Len(b) - k THEN Without(b, k)[i] ELSE s[i - (Len(b) - k)]
  <2> DEFINE c == Without(b, k)
  <2>1. /\ c \o s \in Seq(U) /\ Len(c \o s) = Len(c) + Len(s)
        /\ \A i \in 1 .. Len(c) + Len(s) :
             (c \o s)[i] = IF i <= Len(c) THEN c[i] ELSE s[i - Len(c)]
    <3>1. c \in Seq(U)
      BY <1>3
    <3> HIDE DEF c
    <3> QED BY <3>1, ConcatProperties, Zenon
  <2> QED BY <1>3, <2>1, Zenon
<1>6. ASSUME NEW i \in 1 .. Len(b) - k + Len(s)
      PROVE  (Without(b, k) \o s)[i] = Without(b \o s, k)[i]
  <2>1. i \in 1 .. Len(b) + Len(s) - k /\ i + k \in 1 .. Len(b) + Len(s)
    BY <1>1
  <2>2. Without(b \o s, k)[i] = IF i + k <= Len(b) THEN b[i + k] ELSE s[i + k - Len(b)]
    BY <1>2, <1>4, <2>1
  <2>3. CASE i <= Len(b) - k
    <3>1. i \in 1 .. Len(b) - k /\ i + k <= Len(b)
      BY <1>1, <2>3
    <3> QED BY <1>3, <1>5, <2>2, <2>3, <3>1
  <2>4. CASE ~(i <= Len(b) - k)
    <3>1. ~(i + k <= Len(b)) /\ i + k - Len(b) = i - (Len(b) - k)
      BY <1>1, <2>4
    <3> QED BY <1>5, <2>2, <2>4, <3>1
  <2> QED BY <2>3, <2>4
<1>7. Len(Without(b, k) \o s) = Len(Without(b \o s, k))
  BY <1>1, <1>4, <1>5
<1> QED BY <1>4, <1>5, <1>6, <1>7, SeqEqual

\* A message is older than a frame, and so than any newer one.
LEMMA HeardLater ==
  ASSUME NEW f \in Sizes, NEW s, NEW r, NEW n \in Nat, Heard(f, s, r, n)
  PROVE  Heard(f, s, r, n + 1)
<1>1. ASSUME NEW i \in 1 .. Len(r) PROVE r[i][1].frame < n + 1
  <2>1. r[i][1].frame \in 1 .. Len(f) /\ r[i][1].frame < n
    BY DEF Heard, MessageOf
  <2>2. Len(f) \in Nat
    BY DEF Sizes
  <2> QED BY <2>1, <2>2
<1> QED BY <1>1 DEF Heard

LEMMA PendingTypes ==
  ASSUME TypeOK
  PROVE  Pending \in Seq(Unit) /\ frames \in Sizes /\ Len(frames) \in Nat
BY DEF TypeOK, Pending, Sizes

\* The reader takes units away, or moves them; the writer sees nothing of it.
LEMMA ShrinksSound ==
  ASSUME TypeOK, Sound, NEW k \in 0 .. Len(Pending),
         Pending' = Without(Pending, k),
         UNCHANGED <<frames, writing, sent, received>>
  PROVE  Sound'
<1>1. Pending \in Seq(Unit)
  BY PendingTypes
<1>2. /\ Chain(frames, Pending')
      /\ \A n, m : Joined(frames, Pending, n, m) => Joined(frames, Pending', n, m)
      /\ \A r, n : Heard(frames, Pending, r, n) => Heard(frames, Pending', r, n)
  <2>1. Chain(frames, Pending)
    BY DEF Sound
  <2>2. /\ Chain(frames, Without(Pending, k))
        /\ \A n, m : Joined(frames, Pending, n, m) => Joined(frames, Without(Pending, k), n, m)
        /\ \A r, n : Heard(frames, Pending, r, n) => Heard(frames, Without(Pending, k), r, n)
    BY <1>1, <2>1, SuffixSound, Zenon
  <2> QED BY <2>2, Zenon
<1>3. Idle' = Idle /\ Current' = Current /\ (OneWrites <=> OneWrites')
  BY DEF Idle, Current, OneWrites
<1> QED BY <1>2, <1>3 DEF Sound

\* When the only thread that writes has finished nothing is left to be sent.
LEMMA EndsSound ==
  ASSUME TypeOK, OneWrites, NEW w \in Writers, writing[w] # 0, WriteEnds({w}), UNCHANGED frames,
         Chain(frames, Pending'), Joined(frames, Pending', Len(frames) + 1, 0),
         Heard(frames, Pending', received, Len(frames)), UNCHANGED received
  PROVE  Sound'
<1>1. \A v \in Writers : writing'[v] = 0
  BY DEF WriteEnds, OneWrites
<1>2. Idle' /\ OneWrites' /\ Current' = Len(frames) + 1
  BY <1>1 DEF Idle, OneWrites, Current
<1>3. Heard(frames, Pending', received, Len(frames) + 1)
  BY PendingTypes, HeardLater
<1> QED BY <1>1, <1>2, <1>3 DEF Sound

----------------------------------------------------------------------------

\* As long as nothing is lost or cut and one thread writes at a time, what
\* read() returns is what was written, in order and none twice.
THEOREM DeliveredWhole == Spec => []WholeInOrder
<1>1. Init => Sound
  <2> SUFFICES ASSUME Init PROVE Sound
    OBVIOUS
  <2>1. /\ frames = <<>> /\ received = <<>> /\ \A w \in Writers : writing[w] = 0
        /\ Pending = <<>>
    BY DEF Init, Pending
  <2>2. Len(Pending) = 0 /\ Len(received) = 0
    BY <2>1
  <2> QED BY <2>1, <2>2 DEF Sound, OneWrites, Chain, Joined, Heard, Idle
<1>2. TypeOK /\ (~flawed => Sound) /\ [Next]_vars => (~flawed => Sound)'
  <2> SUFFICES ASSUME TypeOK, ~flawed => Sound, [Next]_vars, ~flawed' PROVE Sound'
    OBVIOUS
  <2>0. ~flawed /\ Sound
    <3>1. ~flawed
      BY Zenon DEF Next, vars, Reads, WriteBegins, Send, WriteCut, Loses, ReadFrame, Overflow,
                   Receive, ReadTimesOut
    <3> QED BY <3>1
  <2>t. Pending \in Seq(Unit) /\ frames \in Sizes /\ Len(frames) \in Nat /\ Len(Pending) \in Nat
    BY PendingTypes
  <2>1. ASSUME NEW w \in Writers, WriteBegins(w)
        PROVE  Sound'
    <3>1. Idle
      BY <2>1, Zenon DEF WriteBegins
    <3>2. PICK size \in SizesOf[Len(frames) + 1] : frames' = Append(frames, size)
      BY <2>1 DEF WriteBegins
    <3>3. size \in Nat \ {0}
      <4>1. Len(frames) + 1 \in 1 .. MaxWrites
        BY <2>1, <2>t, VsprotAssumption DEF WriteBegins, VsprotAssumption
      <4> QED BY <3>2, <4>1, VsprotAssumption DEF VsprotAssumption
    <3>4. Pending' = Pending /\ received' = received
      BY <2>1 DEF WriteBegins, reader, Pending
    <3>5. /\ Len(frames') = Len(frames) + 1 /\ Chain(frames', Pending)
          /\ Joined(frames, Pending, Len(frames) + 1, 0) => Joined(frames', Pending, Len(frames'), 0)
          /\ \A r, n : Heard(frames, Pending, r, n) => Heard(frames', Pending, r, n)
      BY <2>0, <2>t, <3>2, <3>3, GrowSound DEF Sound
    <3>6. Joined(frames', Pending, Len(frames'), 0)
      BY <2>0, <3>1, <3>5 DEF Sound
    <3>7. /\ writing'[w] = Len(frames') /\ sent'[w] = 0
          /\ \A v \in Writers : v # w => writing'[v] = 0
      BY <2>1, <3>1 DEF WriteBegins, Idle, TypeOK
    <3>8. Len(frames') # 0
      BY <2>t, <3>5
    <3>9. ~Idle' /\ OneWrites' /\ Current' = Len(frames')
      BY <3>7, <3>8 DEF Idle, OneWrites, Current
    <3>10. Heard(frames', Pending, received, Len(frames'))
      BY <2>0, <3>1, <3>5 DEF Sound, Current
    <3> QED BY <3>4, <3>5, <3>6, <3>7, <3>9, <3>10 DEF Sound
  <2>2. ASSUME NEW w \in Writers, Send(w)
        PROVE  Sound'
    <3> DEFINE n == Len(frames)
               last == SmallerOf(sent[w] + MTU, FrameLen(n))
               piece == Piece(n, sent[w] + 1, last)
    <3>1. writing[w] # 0 /\ writing[w] = n /\ OneWrites /\ n \in 1 .. Len(frames) /\ n > 0
      <4>1. writing[w] # 0
        BY <2>2 DEF Send
      <4>2. writing[w] = n
        BY <2>0, <4>1 DEF Sound, OneWrites
      <4> QED BY <2>0, <2>t, <4>1, <4>2 DEF Sound
    <3>2. sent[w] \in Nat /\ sent[w] < FrameLen(n) /\ FrameLen(n) \in Nat
      BY <3>1, FrameLenTypes DEF TypeOK
    <3>3. /\ last \in Nat /\ sent[w] < last /\ last <= FrameLen(n)
          /\ last # FrameLen(n) => last < FrameLen(n)
      BY <3>2, VsprotAssumption DEF SmallerOf, VsprotAssumption
    <3>4. net' = net \o piece /\ UNCHANGED <<frames, read_buffer, received>>
      BY <2>2, <3>1 DEF Send, Contents, reader
    <3>5. piece \in Seq(Unit)
      <4>1. sent[w] + 1 \in Nat /\ sent[w] + 1 <= last /\ n \in 0 .. Len(frames)
        BY <3>1, <3>2, <3>3
      <4>2. piece \in Contents(n, sent[w] + 1, last)
        BY DEF Contents
      <4> HIDE DEF piece, last
      <4> QED BY <3>3, <4>1, <4>2, ContentsTypes
    <3>6. PieceOf(frames, piece, n, sent[w], last)
      <4>1. Len(piece) = last - sent[w]
        BY <3>2, <3>3 DEF Piece
      <4>2. \A i \in 1 .. Len(piece) : piece[i].frame = n /\ piece[i].place = sent[w] + i
        <5> SUFFICES ASSUME NEW i \in 1 .. Len(piece)
                     PROVE  piece[i].frame = n /\ piece[i].place = sent[w] + i
          OBVIOUS
        <5>1. i \in 1 .. last - (sent[w] + 1) + 1 /\ i \in Nat
          BY <3>2, <3>3, <4>1
        <5>2. piece[i].frame = n /\ piece[i].place = sent[w] + 1 + i - 1
          BY <5>1 DEF Piece
        <5>3. sent[w] + 1 + i - 1 = sent[w] + i
          BY <3>2, <5>1
        <5> QED BY <5>2, <5>3
      <4> HIDE DEF piece, last
      <4> QED BY <3>3, <4>1, <4>2 DEF PieceOf, FrameLen
    <3>7. Pending' = Pending \o piece
      <4> HIDE DEF piece
      <4>1. read_buffer \in Seq(Unit) /\ net \in Seq(Unit)
        BY DEF TypeOK
      <4>2. (read_buffer \o net) \o piece = read_buffer \o (net \o piece)
        BY <3>5, <4>1, ConcatAssociative
      <4> QED BY <3>4, <4>2 DEF Pending
    <3>8. Joined(frames, Pending, n, sent[w]) /\ Chain(frames, Pending)
          /\ Heard(frames, Pending, received, n)
      <4>1. ~Idle
        BY <3>1 DEF Idle
      <4> QED BY <2>0, <3>1, <4>1 DEF Sound, Current
    <3> HIDE DEF piece, last
    <3>9. /\ Chain(frames, Pending')
          /\ last = FrameLen(n) => Joined(frames, Pending', n + 1, 0)
          /\ last < FrameLen(n) => Joined(frames, Pending', n, last)
          /\ Heard(frames, Pending', received, n)
      BY <2>t, <3>1, <3>2, <3>3, <3>5, <3>6, <3>7, <3>8, PieceSound DEF FrameLen
    <3>10. CASE last = FrameLen(n) /\ WriteEnds({w})
      BY <3>1, <3>4, <3>9, <3>10, EndsSound
    <3>11. CASE last # FrameLen(n) /\ sent' = [sent EXCEPT ![w] = last] /\ UNCHANGED writing
      <4>1. sent'[w] = last
        BY <3>11 DEF TypeOK
      <4>2. ~Idle' /\ OneWrites' /\ Current' = n
        BY <3>1, <3>4, <3>11 DEF Idle, OneWrites, Current
      <4>3. \A v \in Writers : writing'[v] # 0 => v = w
        BY <3>1, <3>11 DEF OneWrites
      <4> QED BY <3>3, <3>4, <3>9, <3>11, <4>1, <4>2, <4>3 DEF Sound
    <3> QED BY <2>2, <3>1, <3>10, <3>11 DEF Send, last
  <2>3. ASSUME NEW w \in Writers, WriteCut(w)
        PROVE  Sound'
    <3>1. writing[w] # 0 /\ WriteEnds({w}) /\ UNCHANGED <<frames, net, read_buffer, received>>
      BY <2>3 DEF WriteCut, reader
    <3>2. sent[w] = 0
      <4>1. ~(sent[w] > 0)
        BY <2>3, Zenon DEF WriteCut
      <4>2. sent[w] \in Nat
        BY DEF TypeOK
      <4> QED BY <4>1, <4>2
    <3>3. Pending' = Pending
      BY <3>1 DEF Pending
    <3>4. /\ OneWrites /\ Chain(frames, Pending) /\ Joined(frames, Pending, Len(frames), 0)
          /\ Heard(frames, Pending, received, Len(frames))
      <4>1. ~Idle
        BY <3>1 DEF Idle
      <4> QED BY <2>0, <3>1, <3>2, <4>1 DEF Sound, Current
    <3>5. Joined(frames, Pending, Len(frames) + 1, 0)
      <4> SUFFICES ASSUME NEW i \in 1 .. Len(Pending)
                   PROVE  /\ Pending[i].frame # Len(frames) + 1
                          /\ Pending[i].frame < Len(frames) + 1
                          /\ Len(Pending) - i >= Left(frames, Pending[i])
        BY DEF Joined
      <4>1. Pending[i].frame \in 1 .. Len(frames) /\ Pending[i].place \in Nat \ {0}
        <5>1. UnitOf(frames, Pending[i])
          BY <3>4 DEF Chain
        <5>2. Pending[i].frame \in 1 .. Len(frames)
          BY <5>1 DEF UnitOf
        <5>3. frames[Pending[i].frame] \in Nat
          BY <2>t, <5>2, SizeTypes
        <5> QED BY <5>1, <5>2, <5>3 DEF UnitOf, HeaderLen
      <4>2. Pending[i].frame # Len(frames)
        <5>1. Pending[i].place + (Len(Pending) - i) # 0
          <6>1. Pending[i].place \in Nat \ {0}
            BY <4>1
          <6> QED BY <2>t, <6>1
        <5> QED BY <3>4, <5>1 DEF Joined
      <4>3. Pending[i].frame < Len(frames) /\ Len(Pending) - i >= Left(frames, Pending[i])
        BY <3>4, <4>2 DEF Joined
      <4>4. Pending[i].frame < Len(frames) + 1 /\ Pending[i].frame # Len(frames) + 1
        <5>1. Pending[i].frame \in 1 .. Len(frames)
          BY <4>1
        <5> QED BY <2>t, <5>1
      <4> QED BY <4>3, <4>4
    <3> QED BY <3>1, <3>3, <3>4, <3>5, EndsSound
  <2>4. CASE Loses
    BY <2>4, Zenon DEF Loses
  <2>5. CASE ReadFrame
    <3> DEFINE size == SizeIn(read_buffer)
               data == DataOf(read_buffer, size)
               k == size + HeaderLen
               rest == Without(read_buffer, k)
    <3>1. /\ StartsWithHeader(read_buffer) /\ Len(read_buffer) >= k
          /\ received' = Append(received, data)
          /\ UNCHANGED <<frames, writing, sent, net>>
      BY <2>5 DEF ReadFrame, HasFrame, sender, DataOf
    <3>2. read_buffer \in Seq(Unit) /\ net \in Seq(Unit) /\ Len(read_buffer) \in Nat
      BY DEF TypeOK
    <3>3. WholeFrame(frames, Pending, read_buffer, size)
      <4>1. /\ Len(read_buffer) <= Len(Pending)
            /\ \A i \in 1 .. Len(read_buffer) : read_buffer[i] = Pending[i]
        BY <3>2 DEF Pending
      <4> QED BY <3>1, <4>1 DEF WholeFrame, SizeIn
    <3>4. /\ size \in Nat \ {0} /\ MessageOf(frames, data)
          /\ \A j \in 1 .. Len(Pending) : j > k => Pending[j].frame > data[1].frame
          /\ \A j \in 1 .. k : j <= Len(Pending) /\ Pending[j].frame = data[1].frame
                               /\ Pending[j].place = j
      <4> HIDE DEF size
      <4>1. Chain(frames, Pending)
        BY <2>0 DEF Sound
      <4>2. /\ size \in Nat \ {0} /\ MessageOf(frames, data)
            /\ \A j \in 1 .. Len(Pending) : j > size + HeaderLen => Pending[j].frame > data[1].frame
            /\ \A j \in 1 .. size + HeaderLen :
                 j <= Len(Pending) /\ Pending[j].frame = data[1].frame /\ Pending[j].place = j
        BY <2>t, <3>2, <3>3, <4>1, DataSound, SMTT(20)
      <4> QED BY <4>2 DEF k
    <3>5. k \in Nat /\ k >= 1 /\ k <= Len(read_buffer)
      BY <3>1, <3>4 DEF HeaderLen
    <3> HIDE DEF k, size, data
    <3>6. PICK m \in k .. Len(Pending) : Pending' = Without(Pending, m)
      <4>1. read_buffer' = rest \/ read_buffer' = <<>>
        BY <2>5 DEF ReadFrame, Rest, Without, k, size
      <4>2. CASE read_buffer' = rest
        <5>1. Pending' = Without(Pending, k)
          <6>1. Pending' = rest \o net
            BY <3>1, <4>2 DEF Pending
          <6>2. k \in 0 .. Len(read_buffer)
            BY <3>2, <3>5
          <6> QED BY <3>2, <6>1, <6>2, EndsMeet DEF Pending
        <5>2. k \in k .. Len(Pending)
          BY <3>2, <3>5 DEF Pending
        <5> QED BY <5>1, <5>2
      <4>3. CASE read_buffer' = <<>>
        <5>1. Pending' = Without(Pending, Len(read_buffer))
          <6>1. Pending' = <<>> \o net
            BY <3>1, <4>3 DEF Pending
          <6>2. Without(read_buffer, Len(read_buffer)) = <<>> /\ Len(read_buffer) \in 0 .. Len(read_buffer)
            BY <3>2 DEF Without
          <6> QED BY <3>2, <6>1, <6>2, EndsMeet DEF Pending
        <5>2. Len(read_buffer) \in k .. Len(Pending)
          BY <3>2, <3>5 DEF Pending
        <5> QED BY <5>1, <5>2
      <4> QED BY <4>1, <4>2, <4>3
    <3>7. m \in 0 .. Len(Pending) /\ m \in Nat /\ m >= k
      BY <2>t, <3>5, <3>6
    <3>8. /\ Chain(frames, Pending')
          /\ \A n, l : Joined(frames, Pending, n, l) => Joined(frames, Pending', n, l)
          /\ \A r, n : Heard(frames, Pending, r, n) => Heard(frames, Pending', r, n)
      <4>1. Chain(frames, Pending)
        BY <2>0 DEF Sound
      <4>2. /\ Chain(frames, Without(Pending, m))
            /\ \A n, l : Joined(frames, Pending, n, l) => Joined(frames, Without(Pending, m), n, l)
            /\ \A r, n : Heard(frames, Pending, r, n) => Heard(frames, Without(Pending, m), r, n)
        BY <2>t, <3>7, <4>1, SuffixSound, Zenon
      <4> QED BY <3>6, <4>2, Zenon
    <3>9. Idle' = Idle /\ Current' = Current /\ OneWrites'
      BY <2>0, <3>1 DEF Idle, Current, OneWrites, Sound
    <3>10. data[1].frame \in 1 .. Len(frames) /\ data[1].frame = Pending[1].frame
           /\ 1 \in 1 .. Len(Pending) /\ Pending[1].place = 1
      BY <2>t, <3>4, <3>5 DEF MessageOf
    <3>11. data[1].frame < Current
      <4>1. CASE Idle
        BY <2>t, <3>10, <4>1 DEF Current
      <4>2. CASE ~Idle
        <5>1. PICK w \in Writers : writing[w] # 0
          BY <4>2 DEF Idle
        <5>2. Joined(frames, Pending, Len(frames), sent[w]) /\ writing[w] = Len(frames)
          BY <2>0, <5>1 DEF Sound, OneWrites
        <5>3. sent[w] \in Nat /\ sent[w] < frames[Len(frames)] + HeaderLen
          BY <5>1, <5>2 DEF TypeOK, FrameLen
        <5>4. data[1].frame # Len(frames)
          <6> SUFFICES ASSUME data[1].frame = Len(frames) PROVE FALSE
            OBVIOUS
          <6>1. Pending[1].place + (Len(Pending) - 1) = sent[w]
            BY <3>10, <5>2 DEF Joined
          <6>2. Len(Pending) = sent[w]
            BY <2>t, <3>10, <5>3, <6>1
          <6>3. size = frames[Len(frames)]
            <7>1. HeaderLen \in 1 .. k /\ Pending[HeaderLen] = read_buffer[HeaderLen]
              BY <3>3, <3>4, <3>5 DEF HeaderLen, WholeFrame, k, StartsWithHeader
            <7>2. Pending[HeaderLen].frame = data[1].frame
              BY <3>4, <7>1
            <7> QED BY <7>1, <7>2 DEF size, SizeIn
          <6>4. Len(Pending) >= size + HeaderLen
            BY <2>t, <3>3, <3>4, <3>7 DEF k, HeaderLen
          <6> QED BY <2>t, <3>4, <5>3, <6>2, <6>3, <6>4 DEF HeaderLen
        <5> QED BY <2>t, <3>10, <4>2, <5>4 DEF Current
      <4> QED BY <4>1, <4>2
    <3>12. Heard(frames, Pending', received', Current)
      <4>1. Heard(frames, Pending', received, Current)
        BY <2>0, <3>8 DEF Sound
      <4>2. Len(received) \in Nat /\ Len(received') = Len(received) + 1
            /\ received'[Len(received) + 1] = data
            /\ \A i \in 1 .. Len(received) : received'[i] = received[i]
        <5>1. received \in Seq(Seq(Unit)) /\ received' = Append(received, data)
          BY <3>1 DEF TypeOK
        <5> QED BY <5>1
      <4>3. \A i \in 1 .. Len(received) : received[i][1].frame < data[1].frame
        BY <2>0, <3>10 DEF Sound, Heard
      <4>4. ASSUME NEW j \in 1 .. Len(Pending') PROVE data[1].frame < Pending'[j].frame
        <5>1. m + j \in 1 .. Len(Pending) /\ m + j > k /\ Pending'[j] = Pending[m + j]
          BY <2>t, <3>5, <3>6, <3>7 DEF Without
        <5>2. Pending[m + j].frame > data[1].frame /\ Pending[m + j].frame \in Nat
          <6>1. UnitOf(frames, Pending[m + j])
            BY <2>0, <5>1 DEF Sound, Chain
          <6> QED BY <2>t, <3>4, <5>1, <6>1 DEF UnitOf
        <5> QED BY <3>10, <5>1, <5>2
      <4>5. ASSUME NEW i \in 1 .. Len(received') PROVE i \in 1 .. Len(received) \/ i = Len(received) + 1
        BY <4>2
      <4>6. ASSUME NEW i \in 1 .. Len(received')
            PROVE  MessageOf(frames, received'[i]) /\ received'[i][1].frame < Current
        BY <3>4, <3>11, <4>1, <4>2, <4>5 DEF Heard
      <4>7. ASSUME NEW i \in 1 .. Len(received'), NEW j \in 1 .. Len(received'), i < j
            PROVE  received'[i][1].frame < received'[j][1].frame
        <5>1. i \in 1 .. Len(received)
          BY <4>2, <4>7
        <5>2. CASE j \in 1 .. Len(received)
          BY <4>1, <4>2, <4>7, <5>1, <5>2 DEF Heard
        <5>3. CASE j = Len(received) + 1
          BY <4>2, <4>3, <5>1, <5>3
        <5> QED BY <4>5, <5>2, <5>3
      <4>8. ASSUME NEW i \in 1 .. Len(received'), NEW j \in 1 .. Len(Pending')
            PROVE  received'[i][1].frame < Pending'[j].frame
        <5>1. CASE i \in 1 .. Len(received)
          BY <4>1, <4>2, <5>1 DEF Heard
        <5>2. CASE i = Len(received) + 1
          BY <4>2, <4>4, <5>2
        <5> QED BY <4>5, <5>1, <5>2
      <4> QED BY <4>6, <4>7, <4>8 DEF Heard
    <3> QED BY <2>0, <3>1, <3>8, <3>9, <3>12 DEF Sound
  <2>6. CASE Overflow
    <3>1. UNCHANGED <<frames, writing, sent, net, read_buffer, received>>
      BY <2>6 DEF Overflow, sender
    <3>2. Pending' = Without(Pending, 0) /\ 0 \in 0 .. Len(Pending)
      BY <2>t, <3>1 DEF Pending, Without
    <3> QED BY <2>0, <3>1, <3>2, ShrinksSound
  <2>7. CASE Receive
    <3>1. PICK k \in 1 .. Len(net) : /\ read_buffer' = read_buffer \o SubSeq(net, 1, k)
                                     /\ net' = SubSeq(net, k + 1, Len(net))
      BY <2>7 DEF Receive
    <3>2. UNCHANGED <<frames, writing, sent, received>>
      BY <2>7 DEF Receive, sender
    <3>3. Pending' = Pending
      <4>1. net \in Seq(Unit) /\ read_buffer \in Seq(Unit)
        BY DEF TypeOK
      <4> QED BY <3>1, <4>1, PartsMeet DEF Pending
    <3>4. Pending' = Without(Pending, 0) /\ 0 \in 0 .. Len(Pending)
      BY <2>t, <3>3 DEF Without
    <3> QED BY <2>0, <3>2, <3>4, ShrinksSound
  <2>8. CASE ReadTimesOut
    <3>1. net = <<>> /\ net' = <<>> /\ read_buffer' = <<>>
          /\ UNCHANGED <<frames, writing, sent, received>>
      BY <2>8 DEF ReadTimesOut, sender
    <3>2. Pending' = <<>>
      BY <3>1 DEF Pending
    <3>3. Without(Pending, Len(Pending)) = <<>>
      BY <2>t DEF Without
    <3>4. Pending' = Without(Pending, Len(Pending))
      BY <3>2, <3>3
    <3>5. Len(Pending) \in 0 .. Len(Pending)
      BY <2>t
    <3> QED BY <2>0, <3>1, <3>4, <3>5, ShrinksSound
  <2>9. CASE UNCHANGED vars
    <3>1. UNCHANGED <<frames, writing, sent, net, read_buffer, received>>
      BY <2>9 DEF vars, sender, reader
    <3>2. Pending' = Without(Pending, 0) /\ 0 \in 0 .. Len(Pending)
      BY <2>t, <3>1 DEF Pending, Without
    <3> QED BY <2>0, <3>1, <3>2, ShrinksSound
  <2> QED BY <2>1, <2>2, <2>3, <2>4, <2>5, <2>6, <2>7, <2>8, <2>9 DEF Next, Reads
<1>3. TypeOK /\ (~flawed => Sound) => WholeInOrder
  <2> SUFFICES ASSUME TypeOK, ~flawed, Sound PROVE WholeInOrder
    BY DEF WholeInOrder
  <2> QED BY DEF Sound, Heard, MessageOf, WholeInOrder, IsMessage
<1> QED BY <1>1, <1>2, <1>3, TypeCorrect, PTL DEF Spec
=============================================================================
