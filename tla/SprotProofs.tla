---------------------------- MODULE SprotProofs ----------------------------
(***************************************************************************)
(* Theorems about Sprot, for every set of messages, every size, every      *)
(* retry count and every budget of faults.                                 *)
(***************************************************************************)
EXTENDS Sprot, TLAPS

LOCAL INSTANCE SequencesExt      \* RemoveAt

----------------------------------------------------------------------------
(* Operators *)

\* The next sequence number is again an unsigned short.
LEMMA NextSeqType ==
  ASSUME NEW s \in 0 .. SeqLimit - 1
  PROVE  /\ NextSeq(s) \in 0 .. SeqLimit - 1
         /\ s + 1 < SeqLimit => NextSeq(s) = s + 1
  BY SprotAssumption DEF NextSeq

\* Sending adds to a channel nothing but the frame that is sent.
LEMMA SentType ==
  ASSUME NEW S, NEW channel \in Seq(S), NEW f \in S
  PROVE  Sent(channel, f) \in Seq(S)
  BY DEF Sent

\* Removing an element of a sequence leaves a sequence over the same set.
LEMMA RemoveAtType ==
  ASSUME NEW S, NEW s \in Seq(S), NEW i \in 1 .. Len(s)
  PROVE  RemoveAt(s, i) \in Seq(S)
  <1>1. SubSeq(s, 1, i - 1) \in Seq(S)
    OBVIOUS
  <1>2. SubSeq(s, i + 1, Len(s)) \in Seq(S)
    OBVIOUS
  <1> QED
    BY <1>1, <1>2 DEF RemoveAt

\* A fault of the network leaves a channel over the same set of frames, if that
\* set contains the corrupted form of each of its frames.
LEMMA FaultType ==
  ASSUME NEW S, NEW channel \in Seq(S),
         \A f \in S, s \in 0 .. SeqLimit - 1 : Corrupted(f, s) \in S
  PROVE  /\ Losses(channel) \subseteq Seq(S)
         /\ Duplications(channel) \subseteq Seq(S)
         /\ Reorderings(channel) \subseteq Seq(S)
         /\ Corruptions(channel) \subseteq Seq(S)
  <1>1. Losses(channel) \subseteq Seq(S)
    BY RemoveAtType DEF Losses
  <1>2. Duplications(channel) \subseteq Seq(S)
    BY SentType DEF Duplications
  <1>3. Reorderings(channel) \subseteq Seq(S)
    <2>1. SUFFICES ASSUME NEW i \in 1 .. Len(channel) - 1
                   PROVE  [channel EXCEPT ![i] = channel[i + 1],
                                          ![i + 1] = channel[i]] \in Seq(S)
      BY DEF Reorderings
    <2>2. channel[i] \in S /\ channel[i + 1] \in S
      OBVIOUS
    <2> QED
      BY <2>2
  <1>4. Corruptions(channel) \subseteq Seq(S)
    <2>1. SUFFICES ASSUME NEW i \in 1 .. Len(channel), NEW s \in 0 .. SeqLimit - 1
                   PROVE  [channel EXCEPT ![i] = Corrupted(channel[i], s)] \in Seq(S)
      BY DEF Corruptions
    <2>2. Corrupted(channel[i], s) \in S
      OBVIOUS
    <2> QED
      BY <2>2
  <1> QED
    BY <1>1, <1>2, <1>3, <1>4

\* Spending keeps the budgets natural numbers.
LEMMA SpendType ==
  ASSUME faults \in [FaultKinds -> Nat], NEW kind \in FaultKinds \ {"any"},
         Spend(kind)
  PROVE  faults' \in [FaultKinds -> Nat]
<1>1. "any" \in FaultKinds
  BY DEF FaultKinds
<1>2. [faults EXCEPT ![kind] = @ - 1, !["any"] = @ - 1] \in [FaultKinds -> Nat]
  BY <1>1 DEF Spend
<1> QED
  BY <1>2 DEF Spend

\* The frames the two ends build are frames.
LEMMA FramesTyped ==
  /\ \A s \in 0 .. SeqLimit - 1 : AckFrame(s) \in Frame
  /\ \A m \in Messages, k \in Nat, s \in 0 .. SeqLimit - 1 :
       DataFrame(m, k, s) \in Frame
  BY DEF AckFrame, DataFrame, Frame, DataTypes, FragmentType,
         Fragments, NoFragment

\* A fragment that does not end its group is not the last one.
LEMMA MoreFragments ==
  ASSUME NEW m \in Messages, NEW k \in Nat \ {0}, k <= FragmentsOf[m],
         NEW group \in Nat,
         ~(group % WriterAckAfter(m) = 0), FragmentType(m, k) # "LAST"
  PROVE  k + 1 <= FragmentsOf[m]
  <1>1. group % 1 = 0
    OBVIOUS
  <1>2. ~IsSingle(m)
    BY <1>1 DEF WriterAckAfter
  <1> QED
    BY <1>2, SprotAssumption DEF FragmentType, IsSingle
----------------------------------------------------------------------------
(* Types *)

\* An abandoned write_data() leaves the writer well typed, whether write() gives
\* up or starts again.
LEMMA WAbortType ==
  ASSUME WriterTypeOK, wpc # "idle", WAbort, UNCHANGED written
  PROVE  WriterTypeOK'
  BY SprotAssumption, SMTT(30) DEF WriterTypeOK, WAbort, WriteThrows, FirstFragment

\* Every step of the writing end keeps every variable well typed.
LEMMA WriterStepType ==
  ASSUME TypeOK, Writer
  PROVE  TypeOK'
  <1> USE DEF TypeOK
  <1>1. ASSUME NEW m \in Messages, WStart(m)
        PROVE  TypeOK'
    <2>1. m # None /\ FragmentsOf[m] \in Nat \ {0}
      BY SprotAssumption
    <2>2. WriterTypeOK'
      BY <1>1, <2>1, SprotAssumption DEF WStart, WriterTypeOK
    <2> QED
      BY <1>1, <2>2 DEF WStart, ReaderTypeOK, ChannelTypeOK, readerVars
  <1>2. CASE WSend
    <2>1. wmsg \in Messages /\ wpart <= FragmentsOf[wmsg]
      BY <1>2 DEF WSend, WriterTypeOK
    <2>2. DataFrame(wmsg, wpart, wseq) \in Frame
      BY <2>1, FramesTyped DEF WriterTypeOK
    <2>3. ChannelTypeOK'
      BY <1>2, <2>2, SentType DEF WSend, ChannelTypeOK
    <2>4. WriterTypeOK'
      <3>1. CASE wpc' = "wait" /\ wseq' = NextSeq(wseq) /\ UNCHANGED wpart
        <4>1. wseq' \in 0 .. SeqLimit - 1
          BY <3>1, NextSeqType DEF WriterTypeOK
        <4>2. /\ wgroup' = wgroup + 1 /\ wretry' = FrameRetries
              /\ UNCHANGED <<wmsg, wfull, written>>
          BY <1>2 DEF WSend
        <4> QED
          BY <2>1, <3>1, <4>1, <4>2, SprotAssumption DEF WriterTypeOK
      <3>2. CASE /\ ~(wgroup + 1) % WriterAckAfter(wmsg) = 0
                 /\ FragmentType(wmsg, wpart) # "LAST"
                 /\ wpart' = wpart + 1 /\ UNCHANGED <<wpc, wseq>>
        <4>1. wpart + 1 <= FragmentsOf[wmsg]
          BY <2>1, <3>2, MoreFragments DEF WriterTypeOK
        <4>2. /\ wgroup' = wgroup + 1 /\ wretry' = FrameRetries
              /\ UNCHANGED <<wmsg, wfull, written>>
          BY <1>2 DEF WSend
        <4>3. wpart' = wpart + 1 /\ UNCHANGED <<wpc, wseq>>
          BY <3>2
        <4> QED
          BY <2>1, <4>1, <4>2, <4>3, SprotAssumption DEF WriterTypeOK
      <3> QED
        BY <1>2, <3>1, <3>2 DEF WSend
    <2>5. ReaderTypeOK' /\ UNCHANGED faults
      BY <1>2 DEF WSend, ReaderTypeOK, readerVars
    <2> QED
      BY <2>3, <2>4, <2>5
  <1>3. CASE WSendFails
    <2>1. faults' \in [FaultKinds -> Nat]
      BY <1>3, SpendType DEF WSendFails, FaultKinds
    <2>2. WriterTypeOK'
      <3>1. CASE WAbort
        BY <1>3, <3>1, WAbortType DEF WSendFails
      <3>2. CASE /\ wretry > 0 /\ wretry' = wretry - 1
                 /\ UNCHANGED <<wpc, wmsg, wpart, wseq, wgroup, wfull>>
        BY <1>3, <3>2, SprotAssumption DEF WSendFails, WriterTypeOK
      <3> QED
        BY <1>3, <3>1, <3>2 DEF WSendFails
    <2> QED
      BY <1>3, <2>1, <2>2 DEF WSendFails, ReaderTypeOK, ChannelTypeOK, readerVars
  <1>4. CASE WRecv
    <2>1. WriterTypeOK'
      <3>1. CASE wpc' = "ack" /\ wseq' = NextSeq(wseq) /\ wretry' = FrameRetries
                 /\ UNCHANGED <<wmsg, wpart, wgroup, wfull>>
        <4>1. wseq' \in 0 .. SeqLimit - 1
          BY <3>1, NextSeqType DEF WriterTypeOK
        <4>2. wpc # "idle" /\ UNCHANGED written
          BY <1>4 DEF WRecv
        <4> QED
          BY <3>1, <4>1, <4>2, SprotAssumption DEF WriterTypeOK
      <3>2. CASE wretry > 0 /\ wretry' = wretry - 1
                 /\ UNCHANGED <<wpc, wmsg, wpart, wseq, wgroup, wfull>>
        BY <1>4, <3>2, SprotAssumption DEF WRecv, WriterTypeOK
      <3>3. CASE WAbort
        BY <1>4, <3>3, WAbortType DEF WRecv
      <3> QED
        BY <1>4, <3>1, <3>2, <3>3 DEF WRecv
    <2>2. ChannelTypeOK'
      BY <1>4 DEF WRecv, ChannelTypeOK
    <2> QED
      BY <1>4, <2>1, <2>2 DEF WRecv, ReaderTypeOK, readerVars
  <1>5. CASE WTimeout
    <2>1. faults' \in [FaultKinds -> Nat]
      BY <1>5, SpendType DEF WTimeout, FaultKinds
    <2>2. WriterTypeOK'
      <3>1. CASE WAbort
        BY <1>5, <3>1, WAbortType DEF WTimeout
      <3>2. CASE /\ wretry > 0 /\ wretry' = wretry - 1
                 /\ UNCHANGED <<wpc, wmsg, wpart, wseq, wgroup, wfull>>
        BY <1>5, <3>2, SprotAssumption DEF WTimeout, WriterTypeOK
      <3> QED
        BY <1>5, <3>1, <3>2 DEF WTimeout
    <2> QED
      BY <1>5, <2>1, <2>2 DEF WTimeout, ReaderTypeOK, ChannelTypeOK, readerVars
  <1>6. CASE WFrameExpires
    <2>1. faults' \in [FaultKinds -> Nat]
      BY <1>6, SpendType DEF WFrameExpires, FaultKinds
    <2> QED
      BY <1>6, <2>1, WAbortType DEF WFrameExpires, ReaderTypeOK, ChannelTypeOK, readerVars
  <1>7. CASE WCallExpires
    <2>1. faults' \in [FaultKinds -> Nat]
      BY <1>7, SpendType DEF WCallExpires, FaultKinds
    <2> QED
      BY <1>7, <2>1
      DEF WCallExpires, WriteThrows, WriterTypeOK, ReaderTypeOK, ChannelTypeOK, readerVars
  <1>8. CASE WAck
    <2>1. wmsg \in Messages /\ wpart <= FragmentsOf[wmsg]
      BY <1>8 DEF WAck, WriterTypeOK
    <2>2. ChannelTypeOK'
      BY <1>8, SentType, FramesTyped DEF WAck, ChannelTypeOK, WriterTypeOK
    <2>3. WriterTypeOK'
      <3>1. wseq' \in 0 .. SeqLimit - 1
        BY <1>8, NextSeqType DEF WAck, WriterTypeOK
      <3>2. FragmentsOf[wmsg] \in Nat
        BY <2>1, SprotAssumption
      <3>3. written' \in Seq(Messages)
        BY <1>8, <2>1 DEF WAck, WriterTypeOK
      <3> QED
        BY <1>8, <2>1, <3>1, <3>2, <3>3, SprotAssumption, SMTT(30) DEF WAck, WriterTypeOK
    <2> QED
      BY <1>8, <2>2, <2>3 DEF WAck, ReaderTypeOK, readerVars
  <1> QED
    BY <1>1, <1>2, <1>3, <1>4, <1>5, <1>6, <1>7, <1>8 DEF Writer
\* The ways in which read() ends, restarts or gives a frame up keep the reader
\* well typed.
LEMMA RestartType ==
  ASSUME ReaderTypeOK, Restart, rfull' \in 0 .. FullRetries,
         rcap' \in 1 .. Len(ReadBufs), twin' \in Seq(Fragments),
         delivered' \in Seq(Seq(Fragments))
  PROVE  ReaderTypeOK'
  <1>1. <<>> \in Seq(Fragments)
    OBVIOUS
  <1>2. 0 \in 0 .. SeqLimit - 1 /\ FrameRetries \in 0 .. FrameRetries
    BY SprotAssumption
  <1> QED
    BY <1>1, <1>2 DEF ReaderTypeOK, Restart

\* A read() that returns leaves the reader well typed.
LEMMA ReadReturnsType ==
  ASSUME ReaderTypeOK, ReadReturns, rfull' \in 0 .. FullRetries,
         twin' \in Seq(Fragments)
  PROVE  ReaderTypeOK'
  <1>1. 1 \in 1 .. Len(ReadBufs)
    BY SprotAssumption
  <1>2. delivered' \in Seq(Seq(Fragments))
    BY DEF ReadReturns, ReaderTypeOK
  <1> QED
    BY <1>1, <1>2 DEF ReaderTypeOK, ReadReturns

\* A data frame that cannot be read leaves the reader well typed.
LEMMA RAbortDataType ==
  ASSUME ReaderTypeOK, RAbortData
  PROVE  ReaderTypeOK'
  <1>1. CASE rfull = 0 /\ ReadThrows
    BY <1>1 DEF RAbortData, ReadThrows, ReaderTypeOK
  <1>2. CASE rfull > 0 /\ rfull' = rfull - 1 /\ Restart
    <2>1. rfull' \in 0 .. FullRetries
      BY <1>2, SprotAssumption DEF ReaderTypeOK
    <2>2. UNCHANGED <<rcap, twin, delivered>>
      BY DEF RAbortData
    <2> QED
      BY <1>2, <2>1, <2>2, RestartType DEF ReaderTypeOK
  <1> QED
    BY <1>1, <1>2 DEF RAbortData

\* A closing ACK that cannot be read leaves the reader well typed.
LEMMA RAbortAckType ==
  ASSUME ReaderTypeOK, RAbortAck
  PROVE  ReaderTypeOK'
  <1>1. CASE ReadThrows /\ UNCHANGED <<rcap, twin, delivered>>
    BY <1>1 DEF ReadThrows, ReaderTypeOK
  <1>2. CASE rfull > 0 /\ rfull' = rfull - 1 /\ twin' = rbuf
    <2>1. rfull' \in 0 .. FullRetries /\ twin' \in Seq(Fragments)
      BY <1>2, SprotAssumption DEF ReaderTypeOK
    <2>2. CASE ReadReturns
      BY <2>1, <2>2, ReadReturnsType
    <2>3. CASE Restart /\ UNCHANGED <<rcap, delivered>>
      BY <2>1, <2>3, RestartType DEF ReaderTypeOK
    <2> QED
      BY <1>2, <2>2, <2>3 DEF RAbortAck, ReadThrows
  <1> QED
    BY <1>1, <1>2 DEF RAbortAck

\* A frame that will be tried again keeps the reader well typed.
LEMMA RetryType ==
  ASSUME ReaderTypeOK, rretry > 0, rretry' = rretry - 1,
         UNCHANGED <<rpc, rseq, rgroup, rmulti, rlast, rprev, rbuf, rfull,
                     rcap, twin, delivered>>
  PROVE  ReaderTypeOK'
  BY SprotAssumption DEF ReaderTypeOK

\* A data frame that is taken leaves the reader well typed.
LEMMA AcceptDataType ==
  ASSUME ReaderTypeOK, NEW f \in Frame, f.type \in DataTypes,
         f.data \in Fragments, AcceptData(f)
  PROVE  ReaderTypeOK'
  <1> DEFINE repeats == f.type = rprev
             content == IF f.type = "LAST" /\ repeats THEN rbuf
                        ELSE Append(rbuf, f.data)
  <1>1. CASE /\ rgroup' = rgroup + 1
             /\ UNCHANGED <<rpc, rseq, rmulti, rlast, rprev, rbuf, rretry, rfull,
                            rcap, twin, delivered>>
    BY <1>1 DEF ReaderTypeOK
  <1>2. CASE Overflow
    BY <1>2 DEF Overflow, ReadThrows, ReaderTypeOK
  <1>3. CASE /\ rgroup' = rgroup + 1
             /\ rmulti' = (rmulti \/ f.type = "FIRST")
             /\ rlast' = (rlast \/ f.type = "LAST")
             /\ rprev' = f.type
             /\ rbuf' = content
             /\ \/ rpc' = "sack" /\ rseq' = NextSeq(rseq)
                \/ UNCHANGED <<rpc, rseq>>
             /\ UNCHANGED <<rretry, rfull, rcap, twin, delivered>>
    <2>1. content \in Seq(Fragments)
      BY DEF ReaderTypeOK
    <2>2. rseq' \in 0 .. SeqLimit - 1 /\ rpc' \in {"idle", "data", "sack", "ack"}
      BY <1>3, NextSeqType DEF ReaderTypeOK
    <2> QED
      BY <1>3, <2>1, <2>2 DEF ReaderTypeOK
  <1> QED
    BY <1>1, <1>2, <1>3 DEF AcceptData
\* What a frame in a channel is, by its type.
LEMMA FrameFacts ==
  ASSUME NEW f \in Frame
  PROVE  /\ f.type \in DataTypes => f.data \in Fragments
         /\ f.type \in DataTypes \cup {"ACK"}
         /\ \A s \in 0 .. SeqLimit - 1 : Corrupted(f, s) \in Frame
  BY DEF Frame, DataTypes, Corrupted

\* Every step of the reading end keeps every variable well typed.
LEMMA ReaderStepType ==
  ASSUME TypeOK, Reader
  PROVE  TypeOK'
  <1> USE DEF TypeOK
  <1>1. CASE RStart
    <2>1. FullRetries \in 0 .. FullRetries
      BY SprotAssumption
    <2>2. ReaderTypeOK'
      BY <1>1, <2>1, RestartType DEF RStart, ReaderTypeOK
    <2> QED
      BY <1>1, <2>2 DEF RStart, WriterTypeOK, ChannelTypeOK, writerVars
  <1>2. CASE RRecvData
    <2>1. Head(toR) \in Frame /\ ChannelTypeOK'
      BY <1>2 DEF RRecvData, ChannelTypeOK
    <2>2. ReaderTypeOK'
      <3>1. CASE Head(toR).type \in DataTypes /\ AcceptData(Head(toR))
        BY <2>1, <3>1, FrameFacts, AcceptDataType
      <3>2. CASE RAbortData
        BY <3>2, RAbortDataType
      <3>3. CASE RRetryFrame(RAbortData)
        BY <3>2, <3>3, RetryType DEF RRetryFrame
      <3> QED
        BY <1>2, <3>1, <3>2, <3>3 DEF RRecvData
    <2> QED
      BY <1>2, <2>1, <2>2 DEF RRecvData, WriterTypeOK, writerVars
  <1>3. CASE RSendAck
    <2>1. rseq' \in 0 .. SeqLimit - 1
      BY <1>3, NextSeqType DEF RSendAck, ReaderTypeOK
    <2>2. ReaderTypeOK'
      BY <1>3, <2>1 DEF RSendAck, ReaderTypeOK
    <2>3. ChannelTypeOK'
      BY <1>3, SentType, FramesTyped DEF RSendAck, ReaderTypeOK, ChannelTypeOK
    <2> QED
      BY <1>3, <2>2, <2>3 DEF RSendAck, WriterTypeOK, writerVars
  <1>4. CASE RSendAckFails
    <2>1. faults' \in [FaultKinds -> Nat]
      BY <1>4, SpendType DEF RSendAckFails, FaultKinds
    <2>2. ReaderTypeOK'
      <3>1. CASE ReadThrows
        BY <1>4, <3>1 DEF RSendAckFails, ReadThrows, ReaderTypeOK
      <3>2. CASE /\ rretry > 0 /\ rretry' = rretry - 1
                 /\ UNCHANGED <<rpc, rseq, rgroup, rmulti, rlast, rprev, rbuf, rfull>>
        BY <1>4, <3>2, RetryType DEF RSendAckFails
      <3> QED
        BY <1>4, <3>1, <3>2 DEF RSendAckFails
    <2> QED
      BY <1>4, <2>1, <2>2 DEF RSendAckFails, WriterTypeOK, ChannelTypeOK, writerVars
  <1>5. CASE RRecvAck
    <2>1. ChannelTypeOK'
      BY <1>5 DEF RRecvAck, ChannelTypeOK
    <2>2. ReaderTypeOK'
      <3>1. CASE CompleteRead
        <4>1. <<>> \in Seq(Fragments)
          OBVIOUS
        <4> QED
          BY <3>1, <4>1, RestartType, ReadReturnsType DEF CompleteRead, ReaderTypeOK
      <3>2. CASE /\ rpc' = "data" /\ rseq' = NextSeq(rseq)
                 /\ UNCHANGED <<rgroup, rmulti, rlast, rprev, rbuf, rretry, rfull,
                                rcap, twin, delivered>>
        <4>1. rseq' \in 0 .. SeqLimit - 1
          BY <3>2, NextSeqType DEF ReaderTypeOK
        <4> QED
          BY <3>2, <4>1 DEF ReaderTypeOK
      <3>3. CASE RAbortAck
        BY <3>3, RAbortAckType
      <3>4. CASE RRetryFrame(RAbortAck)
        BY <3>3, <3>4, RetryType DEF RRetryFrame
      <3> QED
        BY <1>5, <3>1, <3>2, <3>3, <3>4 DEF RRecvAck
    <2> QED
      BY <1>5, <2>1, <2>2 DEF RRecvAck, WriterTypeOK, writerVars
  <1>6. CASE RTimeout
    <2>1. faults' \in [FaultKinds -> Nat]
      BY <1>6, SpendType DEF RTimeout, FaultKinds
    <2>2. ReaderTypeOK'
      BY <1>6, RetryType, RAbortDataType, RAbortAckType DEF RTimeout, RRetryFrame
    <2> QED
      BY <1>6, <2>1, <2>2 DEF RTimeout, WriterTypeOK, ChannelTypeOK, writerVars
  <1>7. CASE RExpires
    <2>1. faults' \in [FaultKinds -> Nat]
      BY <1>7, SpendType DEF RExpires, FaultKinds
    <2> QED
      BY <1>7, <2>1
      DEF RExpires, ReadThrows, ReaderTypeOK, WriterTypeOK, ChannelTypeOK, writerVars
  <1> QED
    BY <1>1, <1>2, <1>3, <1>4, <1>5, <1>6, <1>7 DEF Reader

\* Faults of the network and restarts keep every variable well typed.
LEMMA EnvironmentStepType ==
  ASSUME TypeOK, NetworkFault \/ WCrash \/ RCrash
  PROVE  TypeOK'
  <1> USE DEF TypeOK
  <1>1. CASE NetworkFault
    <2>1. \A f \in Frame, s \in 0 .. SeqLimit - 1 : Corrupted(f, s) \in Frame
      BY FrameFacts
    <2>2. /\ Losses(toR) \subseteq Seq(Frame) /\ Losses(toW) \subseteq Seq(Frame)
          /\ Duplications(toR) \subseteq Seq(Frame)
          /\ Duplications(toW) \subseteq Seq(Frame)
          /\ Reorderings(toR) \subseteq Seq(Frame)
          /\ Reorderings(toW) \subseteq Seq(Frame)
          /\ Corruptions(toR) \subseteq Seq(Frame)
          /\ Corruptions(toW) \subseteq Seq(Frame)
      BY <2>1, FaultType DEF ChannelTypeOK
    <2>3. ChannelTypeOK'
      BY <1>1, <2>2 DEF NetworkFault, Strike, ChannelTypeOK
    <2>4. faults' \in [FaultKinds -> Nat]
      BY <1>1, SpendType DEF NetworkFault, Strike, FaultKinds
    <2> QED
      BY <1>1, <2>3, <2>4
      DEF NetworkFault, WriterTypeOK, ReaderTypeOK, writerVars, readerVars
  <1>2. CASE WCrash
    <2>1. faults' \in [FaultKinds -> Nat]
      BY <1>2, SpendType DEF WCrash, FaultKinds
    <2>2. WriterTypeOK'
      BY <1>2, SprotAssumption DEF WCrash, WriterTypeOK
    <2>3. ChannelTypeOK'
      BY <1>2 DEF WCrash, ChannelTypeOK
    <2> QED
      BY <1>2, <2>1, <2>2, <2>3 DEF WCrash, ReaderTypeOK, readerVars
  <1>3. CASE RCrash
    <2>1. faults' \in [FaultKinds -> Nat]
      BY <1>3, SpendType DEF RCrash, FaultKinds
    <2>2. /\ FullRetries \in 0 .. FullRetries /\ 1 \in 1 .. Len(ReadBufs)
          /\ <<>> \in Seq(Fragments)
      BY SprotAssumption
    <2>3. ReaderTypeOK'
      BY <1>3, <2>2, RestartType DEF RCrash, ReaderTypeOK
    <2>4. ChannelTypeOK'
      BY <1>3 DEF RCrash, ChannelTypeOK
    <2> QED
      BY <1>3, <2>1, <2>3, <2>4 DEF RCrash, WriterTypeOK, writerVars
  <1> QED
    BY <1>1, <1>2, <1>3

\* Whatever the network and the clocks do, every variable keeps its type and a
\* write() in progress stands at one of the fragments of its message.
THEOREM TypeCorrect == Spec => []TypeOK
  <1>1. Init => TypeOK
    <2>1. /\ 1 \in 1 .. Len(ReadBufs)
          /\ FullRetries \in 0 .. FullRetries /\ FrameRetries \in 0 .. FrameRetries
          /\ 0 \in 0 .. SeqLimit - 1
      BY SprotAssumption
    <2>2. Init => ChannelTypeOK /\ faults \in [FaultKinds -> Nat]
      BY SprotAssumption DEF Init, ChannelTypeOK
    <2>3. Init => WriterTypeOK
      BY <2>1 DEF Init, WriterTypeOK
    <2>4. Init => ReaderTypeOK
      <3>1. <<>> \in Seq(Fragments) /\ <<>> \in Seq(Seq(Fragments))
        OBVIOUS
      <3> SUFFICES ASSUME Init PROVE ReaderTypeOK
        OBVIOUS
      <3>2. rmulti \in BOOLEAN /\ rlast \in BOOLEAN
        BY Zenon DEF Init
      <3>3. /\ rpc \in {"idle", "data", "sack", "ack"} /\ rseq \in 0 .. SeqLimit - 1
            /\ rgroup \in Nat /\ rprev \in DataTypes \cup {"UNDEF"}
            /\ rretry \in 0 .. FrameRetries /\ rfull \in 0 .. FullRetries
            /\ rcap \in 1 .. Len(ReadBufs)
        BY <2>1 DEF Init
      <3>4. /\ rbuf \in Seq(Fragments) /\ twin \in Seq(Fragments)
            /\ delivered \in Seq(Seq(Fragments))
        BY <3>1 DEF Init
      <3> QED
        BY <3>2, <3>3, <3>4 DEF ReaderTypeOK
    <2> QED
      BY <2>2, <2>3, <2>4 DEF TypeOK
  <1>2. TypeOK /\ [Next]_vars => TypeOK'
    <2>1. CASE UNCHANGED vars
      BY <2>1 DEF TypeOK, ChannelTypeOK, WriterTypeOK, ReaderTypeOK, vars,
                  writerVars, readerVars
    <2> QED
      BY <2>1, WriterStepType, ReaderStepType, EnvironmentStepType DEF Next
  <1> QED
    BY <1>1, <1>2, PTL DEF Spec
----------------------------------------------------------------------------
(* Sequence numbers.  SeqClass is not inductive by itself: it needs SeqBound, *)
(* which keeps every number below the wrap.                                   *)

SeqInv == TypeOK /\ SeqClass /\ SeqBound

\* A number that does not wrap passes to the next residue.
LEMMA NextClass ==
  ASSUME NEW s \in 0 .. SeqLimit - 1, s + 1 < SeqLimit
  PROVE  /\ NextSeq(s) = s + 1
         /\ s % 3 = 0 => NextSeq(s) % 3 = 1
         /\ s % 3 = 1 => NextSeq(s) % 3 = 2
         /\ s % 3 = 2 => NextSeq(s) % 3 = 0
  BY SprotAssumption DEF NextSeq

\* The numbers of a write in progress are below the wrap.
LEMMA WriterBelowWrap ==
  ASSUME NoWrap, TypeOK, SeqBound, wpc # "idle"
  PROVE  /\ wmsg \in Messages
         /\ wpc = "send" => wseq + 3 < SeqLimit
         /\ wpc = "wait" => wseq + 2 < SeqLimit
         /\ wpc = "ack"  => wseq + 1 < SeqLimit
  <1>1. /\ wmsg \in Messages /\ wpart \in Nat \ {0}
        /\ wpart <= FragmentsOf[wmsg] /\ wseq \in 0 .. SeqLimit - 1
    BY DEF TypeOK, WriterTypeOK
  <1>2. FragmentsOf[wmsg] \in Nat /\ SeqLimit \in Nat
    BY <1>1, SprotAssumption
  <1>3. 3 * FragmentsOf[wmsg] < SeqLimit
    BY <1>1 DEF NoWrap
  <1> QED
    BY <1>1, <1>2, <1>3 DEF SeqBound

\* Faults of the network cannot turn a frame into a sound one of another role.
LEMMA CorruptedClass ==
  /\ \A f \in ToReader, s \in 0 .. SeqLimit - 1 : Corrupted(f, s) \in ToReader
  /\ \A f \in ToWriter, s \in 0 .. SeqLimit - 1 : Corrupted(f, s) \in ToWriter
  <1>1. \A f \in Frame, s \in 0 .. SeqLimit - 1 :
          Corrupted(f, s) \in Frame /\ ~Corrupted(f, s).sound
    BY FrameFacts DEF Corrupted, Frame
  <1> QED
    BY <1>1 DEF ToReader, ToWriter

\* An abandoned write_data() starts the numbers again or leaves write().
LEMMA WAbortClass ==
  ASSUME WAbort
  PROVE  /\ wpc' \in {"idle", "send"}
         /\ wpc' = "send" => wseq' = 0 /\ wpart' = 1
  BY DEF WAbort, WriteThrows, FirstFragment

\* Every step of the writing end keeps the numbers in their classes.
LEMMA WriterStepClass ==
  ASSUME NoWrap, SeqInv, Writer
  PROVE  SeqClass' /\ SeqBound'
  <1> USE DEF SeqInv, SeqClass
  <1> DEFINE ReaderSame == UNCHANGED <<rpc, rseq>>
  <1>a. WriterClass' /\ SeqBound' /\ ChannelClass' /\ ReaderSame
        => SeqClass' /\ SeqBound'
    BY DEF ReaderClass
  <1>1. ASSUME NEW m \in Messages, WStart(m)
        PROVE  SeqClass' /\ SeqBound'
    BY <1>1 DEF WStart, WriterClass, ReaderClass, SeqBound, ChannelClass, readerVars
  <1>2. CASE WSend
    <2>1. /\ wmsg \in Messages /\ wseq + 3 < SeqLimit /\ wseq \in 0 .. SeqLimit - 1
          /\ wpart \in Nat \ {0} /\ wpc = "send"
      BY <1>2, WriterBelowWrap DEF WSend, TypeOK, WriterTypeOK
    <2>2. wseq % 3 = 0 /\ NextSeq(wseq) % 3 = 1 /\ NextSeq(wseq) = wseq + 1
      BY <2>1, NextClass, SprotAssumption DEF WriterClass
    <2>3. DataFrame(wmsg, wpart, wseq) \in ToReader
      <3>1. DataFrame(wmsg, wpart, wseq) \in Frame
        BY <2>1, FramesTyped
      <3>2. /\ DataFrame(wmsg, wpart, wseq).seq = wseq
            /\ DataFrame(wmsg, wpart, wseq).type # "ACK"
        BY DEF DataFrame, FragmentType
      <3> QED
        BY <2>1, <2>2, <3>1, <3>2 DEF ToReader
    <2>4. ChannelClass'
      BY <1>2, <2>3, SentType DEF WSend, ChannelClass
    <2>5. ReaderSame
      BY <1>2 DEF WSend, readerVars
    <2>6. \/ wpc' = "wait" /\ wseq' = NextSeq(wseq) /\ wpart' = wpart
          \/ wpc' = "send" /\ wseq' = wseq /\ wpart' = wpart + 1
      BY <1>2 DEF WSend
    <2>7. WriterClass'
      BY <2>2, <2>6 DEF WriterClass
    <2>8. SeqBound'
      BY <2>1, <2>2, <2>5, <2>6 DEF SeqBound
    <2> QED
      BY <1>a, <2>4, <2>5, <2>7, <2>8
  <1>3. ASSUME WAbort, UNCHANGED readerVars, ChannelClass'
        PROVE  SeqClass' /\ SeqBound'
    <2>1. WriterClass'
      BY <1>3, WAbortClass DEF WriterClass
    <2>2. SeqBound'
      BY <1>3, WAbortClass DEF SeqBound, readerVars
    <2> QED
      BY <1>a, <1>3, <2>1, <2>2 DEF readerVars
  <1>4. ASSUME UNCHANGED <<wpc, wseq, wpart, readerVars>>, ChannelClass'
        PROVE  SeqClass' /\ SeqBound'
    BY <1>4 DEF WriterClass, ReaderClass, SeqBound, readerVars
  <1>5. CASE WSendFails
    BY <1>3, <1>4, <1>5 DEF WSendFails, ChannelClass
  <1>6. CASE WRecv
    <2>1. ChannelClass'
      BY <1>6 DEF WRecv, ChannelClass
    <2>2. UNCHANGED readerVars /\ wpc = "wait"
      BY <1>6 DEF WRecv
    <2>3. CASE wpc' = "ack" /\ wseq' = NextSeq(wseq) /\ UNCHANGED wpart
      <3>1. wseq + 2 < SeqLimit /\ wseq \in 0 .. SeqLimit - 1 /\ wpart \in Nat \ {0}
        BY <2>2, WriterBelowWrap DEF TypeOK, WriterTypeOK
      <3>2. wseq' % 3 = 2 /\ wseq' = wseq + 1
        BY <2>2, <2>3, <3>1, NextClass, SprotAssumption DEF WriterClass
      <3>3. WriterClass'
        BY <2>3, <3>2 DEF WriterClass
      <3>4. SeqBound'
        BY <2>2, <2>3, <3>1, <3>2 DEF SeqBound, readerVars
      <3> QED
        BY <1>a, <2>1, <2>2, <3>3, <3>4 DEF readerVars
    <2> QED
      BY <1>3, <1>4, <1>6, <2>1, <2>2, <2>3 DEF WRecv
  <1>7. CASE WTimeout
    BY <1>3, <1>4, <1>7 DEF WTimeout, ChannelClass
  <1>8. CASE WFrameExpires
    BY <1>3, <1>8 DEF WFrameExpires, ChannelClass
  <1>9. CASE WCallExpires
    BY <1>9 DEF WCallExpires, WriteThrows, ChannelClass, WriterClass, ReaderClass,
                SeqBound, readerVars
  <1>10. CASE WAck
    <2>1. /\ wseq + 1 < SeqLimit /\ wseq \in 0 .. SeqLimit - 1
          /\ wpart \in Nat \ {0} /\ wpc = "ack"
      BY <1>10, WriterBelowWrap DEF WAck, TypeOK, WriterTypeOK
    <2>2. wseq % 3 = 2 /\ NextSeq(wseq) % 3 = 0 /\ NextSeq(wseq) = wseq + 1
      BY <2>1, NextClass, SprotAssumption DEF WriterClass
    <2>3. AckFrame(wseq) \in ToReader
      <3>1. AckFrame(wseq) \in Frame
        BY <2>1, FramesTyped
      <3> QED
        BY <2>1, <2>2, <3>1 DEF ToReader, AckFrame, DataTypes
    <2>4. ChannelClass'
      BY <1>10, <2>3, SentType DEF WAck, ChannelClass
    <2>5. ReaderSame
      BY <1>10 DEF WAck, readerVars
    <2>6. /\ wseq' = NextSeq(wseq)
          /\ wpc' = "idle" \/ (wpc' = "send" /\ wpart' = wpart + 1)
      BY <1>10 DEF WAck
    <2>7. WriterClass'
      BY <2>2, <2>6 DEF WriterClass
    <2>8. SeqBound'
      BY <2>1, <2>2, <2>5, <2>6 DEF SeqBound
    <2> QED
      BY <1>a, <2>4, <2>5, <2>7, <2>8
  <1> QED
    BY <1>1, <1>2, <1>5, <1>6, <1>7, <1>8, <1>9, <1>10 DEF Writer
\* A full retry expects the number 0; a call that ends expects none.
LEMMA REndsClass ==
  ASSUME Restart \/ ReadThrows \/ ReadReturns
  PROVE  rpc' = "idle" \/ (rpc' = "data" /\ rseq' = 0)
  BY DEF Restart, ReadThrows, ReadReturns

\* Every step of the reading end keeps the numbers in their classes.
LEMMA ReaderStepClass ==
  ASSUME SeqInv, Reader
  PROVE  SeqClass' /\ SeqBound'
  <1> USE DEF SeqInv, SeqClass
  <1> DEFINE WriterSame == UNCHANGED <<wpc, wseq, wpart>>
  <1>a. /\ Reader => WriterSame
        /\ Reader => \/ UNCHANGED <<toR, toW>>
                     \/ toR # <<>> /\ toR' = Tail(toR) /\ UNCHANGED toW
                     \/ RSendAck
    BY DEF Reader, RStart, RRecvData, RSendAck, RSendAckFails, RRecvAck, RTimeout,
           RExpires, writerVars
  <1>b. ASSUME WriterSame, ChannelClass', ReaderClass',
               rpc' = "sack" => rseq' + 2 < SeqLimit,
               rpc' = "ack" => rseq' + 1 < SeqLimit
        PROVE  SeqClass' /\ SeqBound'
    BY <1>b DEF WriterClass, SeqBound
  <1>c. ~RSendAck => ChannelClass'
    BY <1>a DEF ChannelClass
  <1>1. ASSUME rpc' = "idle" \/ (rpc' = "data" /\ rseq' = 0), ~RSendAck
        PROVE  SeqClass' /\ SeqBound'
    <2>1. ReaderClass'
      BY <1>1 DEF ReaderClass
    <2> QED
      BY <1>a, <1>b, <1>c, <1>1, <2>1
  <1>2. ASSUME UNCHANGED <<rpc, rseq>>, ~RSendAck
        PROVE  SeqClass' /\ SeqBound'
    <2>1. ReaderClass'
      BY <1>2 DEF ReaderClass
    <2> QED
      BY <1>a, <1>b, <1>c, <1>2, <2>1 DEF SeqBound
  <1>3. CASE RStart
    BY <1>1, <1>3, REndsClass DEF RStart, RSendAck
  <1>4. CASE RRecvData
    <2>1. Head(toR) \in ToReader /\ rpc = "data"
      BY <1>4 DEF RRecvData, ChannelClass
    <2>2. ~RSendAck
      BY <1>4 DEF RRecvData, RSendAck
    <2>3. CASE RAbortData
      BY <1>1, <2>2, <2>3, REndsClass DEF RAbortData
    <2>4. CASE RRetryFrame(RAbortData)
      BY <1>2, <2>2, <2>3, <2>4 DEF RRetryFrame
    <2>5. ASSUME Head(toR).seq = rseq, Head(toR).sound, Head(toR).type \in DataTypes,
                 AcceptData(Head(toR))
          PROVE  SeqClass' /\ SeqBound'
      <3>1. CASE Overflow
        BY <1>1, <2>2, <3>1, REndsClass DEF Overflow
      <3>2. CASE UNCHANGED <<rpc, rseq>>
        BY <1>2, <2>2, <3>2
      <3>3. CASE rpc' = "sack" /\ rseq' = NextSeq(rseq)
        <4>1. rseq % 3 = 0 /\ rseq + 3 < SeqLimit /\ rseq \in 0 .. SeqLimit - 1
          BY <2>1, <2>5 DEF ToReader, TypeOK, ReaderTypeOK
        <4>2. rseq' = rseq + 1 /\ rseq' % 3 = 1
          <5>1. rseq + 1 < SeqLimit
            BY <4>1, SprotAssumption
          <5>2. NextSeq(rseq) = rseq + 1 /\ NextSeq(rseq) % 3 = 1
            BY <4>1, <5>1, NextClass
          <5> QED
            BY <3>3, <5>2
        <4>3. ReaderClass'
          BY <3>3, <4>2 DEF ReaderClass
        <4>4. rseq' + 2 < SeqLimit
          BY <4>1, <4>2, SprotAssumption
        <4> QED
          BY <1>a, <1>b, <1>c, <2>2, <3>3, <4>3, <4>4
      <3> QED
        BY <2>5, <3>1, <3>2, <3>3 DEF AcceptData
    <2> QED
      BY <1>4, <2>3, <2>4, <2>5 DEF RRecvData
  <1>5. CASE RSendAck
    <2>1. /\ rpc = "sack" /\ rseq \in 0 .. SeqLimit - 1 /\ rseq + 2 < SeqLimit
          /\ rseq % 3 = 1
      BY <1>5 DEF RSendAck, TypeOK, ReaderTypeOK, ReaderClass, SeqBound
    <2>2. AckFrame(rseq) \in ToWriter
      <3>1. AckFrame(rseq) \in Frame
        BY <2>1, FramesTyped
      <3> QED
        BY <2>1, <3>1 DEF ToWriter, AckFrame
    <2>3. ChannelClass'
      BY <1>5, <2>2, SentType DEF RSendAck, ChannelClass
    <2>4. rpc' = "ack" /\ rseq' = rseq + 1 /\ rseq' % 3 = 2
      BY <1>5, <2>1, NextClass, SprotAssumption DEF RSendAck
    <2>5. ReaderClass'
      BY <2>4 DEF ReaderClass
    <2>6. rseq' + 1 < SeqLimit
      BY <2>1, <2>4, SprotAssumption
    <2> QED
      BY <1>a, <1>b, <2>3, <2>4, <2>5, <2>6
  <1>6. CASE RSendAckFails
    BY <1>1, <1>2, <1>6, REndsClass DEF RSendAckFails, RSendAck, Spend
  <1>7. CASE RRecvAck
    <2>1. rpc = "ack" /\ ~RSendAck
      BY <1>7 DEF RRecvAck, RSendAck
    <2>2. CASE CompleteRead
      BY <1>1, <2>1, <2>2, REndsClass DEF CompleteRead
    <2>3. CASE rpc' = "data" /\ rseq' = NextSeq(rseq)
      <3>1. rseq \in 0 .. SeqLimit - 1 /\ rseq + 1 < SeqLimit /\ rseq % 3 = 2
        BY <2>1 DEF TypeOK, ReaderTypeOK, ReaderClass, SeqBound
      <3>2. rseq' % 3 = 0
        BY <2>3, <3>1, NextClass
      <3>3. ReaderClass'
        BY <2>3, <3>2 DEF ReaderClass
      <3> QED
        BY <1>a, <1>b, <1>c, <2>1, <2>3, <3>3
    <2>4. CASE RAbortAck
      BY <1>1, <2>1, <2>4, REndsClass DEF RAbortAck
    <2>5. CASE RRetryFrame(RAbortAck)
      BY <1>2, <2>1, <2>4, <2>5 DEF RRetryFrame
    <2> QED
      BY <1>7, <2>2, <2>3, <2>4, <2>5 DEF RRecvAck
  <1>8. CASE RTimeout
    <2>1. ~RSendAck
      BY <1>8 DEF RTimeout, RSendAck
    <2>2. RRetryFrame(RAbortData) => SeqClass' /\ SeqBound'
      BY <1>1, <1>2, <2>1, REndsClass DEF RRetryFrame, RAbortData
    <2>3. RRetryFrame(RAbortAck) => SeqClass' /\ SeqBound'
      BY <1>1, <1>2, <2>1, REndsClass DEF RRetryFrame, RAbortAck
    <2> QED
      BY <1>8, <2>2, <2>3 DEF RTimeout
  <1>9. CASE RExpires
    BY <1>1, <1>9, REndsClass DEF RExpires, RSendAck, ReadThrows
  <1> QED
    BY <1>3, <1>4, <1>5, <1>6, <1>7, <1>8, <1>9 DEF Reader

\* Faults and restarts keep the numbers in their classes.
LEMMA EnvironmentStepClass ==
  ASSUME SeqInv, NetworkFault \/ WCrash \/ RCrash
  PROVE  SeqClass' /\ SeqBound'
  <1> USE DEF SeqInv, SeqClass
  <1>1. CASE NetworkFault
    <2>1. /\ \A f \in ToReader, s \in 0 .. SeqLimit - 1 : Corrupted(f, s) \in ToReader
          /\ \A f \in ToWriter, s \in 0 .. SeqLimit - 1 : Corrupted(f, s) \in ToWriter
      BY CorruptedClass
    <2>2. /\ Losses(toR) \subseteq Seq(ToReader)
          /\ Duplications(toR) \subseteq Seq(ToReader)
          /\ Reorderings(toR) \subseteq Seq(ToReader)
          /\ Corruptions(toR) \subseteq Seq(ToReader)
      BY <2>1, FaultType DEF ChannelClass
    <2>3. /\ Losses(toW) \subseteq Seq(ToWriter)
          /\ Duplications(toW) \subseteq Seq(ToWriter)
          /\ Reorderings(toW) \subseteq Seq(ToWriter)
          /\ Corruptions(toW) \subseteq Seq(ToWriter)
      BY <2>1, FaultType DEF ChannelClass
    <2>4. ChannelClass'
      BY <1>1, <2>2, <2>3 DEF NetworkFault, Strike, ChannelClass
    <2> QED
      BY <1>1, <2>4 DEF NetworkFault, WriterClass, ReaderClass, SeqBound,
                        writerVars, readerVars
  <1>2. CASE WCrash
    BY <1>2 DEF WCrash, ChannelClass, WriterClass, ReaderClass, SeqBound, readerVars
  <1>3. CASE RCrash
    <2>1. rpc' = "data" /\ rseq' = 0
      BY <1>3 DEF RCrash, Restart
    <2> QED
      BY <1>3, <2>1 DEF RCrash, ChannelClass, WriterClass, ReaderClass, SeqBound, writerVars
  <1> QED
    BY <1>1, <1>2, <1>3

\* The invariant that makes the classes of the numbers inductive.
LEMMA SequenceBounds ==
  ASSUME NoWrap
  PROVE  Spec => []SeqInv
  <1>1. Init => SeqClass /\ SeqBound
    BY DEF Init, SeqClass, SeqBound, ChannelClass, WriterClass, ReaderClass
  <1>2. TypeOK /\ SeqClass /\ SeqBound /\ [Next]_vars => SeqClass' /\ SeqBound'
    <2> SUFFICES ASSUME SeqInv, [Next]_vars
                 PROVE  SeqClass' /\ SeqBound'
      BY DEF SeqInv
    <2>1. CASE UNCHANGED vars
      BY <2>1 DEF SeqInv, SeqClass, SeqBound, ChannelClass, WriterClass, ReaderClass,
                  vars, writerVars, readerVars
    <2> QED
      BY <2>1, WriterStepClass, ReaderStepClass, EnvironmentStepClass DEF Next
  <1>3. Spec => []TypeOK
    BY TypeCorrect
  <1> QED
    BY <1>1, <1>2, <1>3, PTL DEF Spec, SeqInv

\* If no message is long enough to exhaust the sequence numbers, a frame whose
\* number is the expected one is of the expected type, under every fault: lost,
\* repeated, reordered and corrupted datagrams, early timeouts, failing writes
\* and restarts of either end.
THEOREM SequenceClasses ==
  ASSUME NoWrap
  PROVE  Spec => []SeqClass
  <1>1. Spec => []SeqInv
    BY SequenceBounds
  <1>2. SeqInv => SeqClass
    BY DEF SeqInv
  <1> QED
    BY <1>1, <1>2, PTL

----------------------------------------------------------------------------
(* What a message looks like that was put together under any faults. *)

\* The type of a sound data frame is the role of its fragment.
Honest == {f \in Frame : f.sound /\ f.type \in DataTypes => f.type = Role(f.data)}

\* What the caller's buffer holds: nothing, or one fragment, or a message that
\* began with a first fragment and has not ended, unless it just did.
BufferFramed ==
  /\ rmulti => rbuf # <<>> /\ Role(rbuf[1]) = "FIRST"
  /\ rmulti /\ rlast => Role(rbuf[Len(rbuf)]) = "LAST"
  /\ \A i \in 1 .. Len(rbuf) : Role(rbuf[i]) = "LAST" => rlast /\ i = Len(rbuf)
  /\ rprev = "LAST" => rlast

ReaderFramed ==
  /\ rpc = "data" => BufferFramed /\ ~rlast /\ (~rmulti => rbuf = <<>>)
  /\ rpc \in {"sack", "ack"} =>
       BufferFramed /\ rbuf # <<>> /\ (~rmulti => Len(rbuf) = 1)

FramedInv == toR \in Seq(Honest) /\ ReaderFramed /\ WellFramed

\* The frames of the writer are honest, and no fault makes one a liar.
LEMMA HonestFrames ==
  /\ \A m \in Messages, k \in Nat, s \in 0 .. SeqLimit - 1 :
       DataFrame(m, k, s) \in Honest
  /\ \A s \in 0 .. SeqLimit - 1 : AckFrame(s) \in Honest
  /\ \A f \in Honest, s \in 0 .. SeqLimit - 1 : Corrupted(f, s) \in Honest
<1>1. ASSUME NEW m \in Messages, NEW k \in Nat, NEW s \in 0 .. SeqLimit - 1
      PROVE  DataFrame(m, k, s) \in Honest
  <2>1. DataFrame(m, k, s) \in Frame
    BY FramesTyped
  <2>2. DataFrame(m, k, s).type = Role(DataFrame(m, k, s).data)
    BY DEF DataFrame, Role
  <2> QED BY <2>1, <2>2 DEF Honest
<1>2. ASSUME NEW s \in 0 .. SeqLimit - 1 PROVE AckFrame(s) \in Honest
  <2>1. AckFrame(s) \in Frame
    BY FramesTyped
  <2>2. AckFrame(s).type \notin DataTypes
    BY DEF AckFrame, DataTypes
  <2> QED BY <2>1, <2>2 DEF Honest
<1>3. ASSUME NEW f \in Honest, NEW s \in 0 .. SeqLimit - 1
      PROVE  Corrupted(f, s) \in Honest
  <2>1. f \in Frame
    BY DEF Honest
  <2>2. Corrupted(f, s) \in Frame
    BY <2>1, FrameFacts
  <2>3. ~Corrupted(f, s).sound
    BY <2>1 DEF Corrupted, Frame
  <2> QED BY <2>2, <2>3 DEF Honest
<1> QED BY <1>1, <1>2, <1>3

\* The steps that are not the reader's put honest frames into the channel.
LEMMA OthersFramed ==
  ASSUME TypeOK, FramedInv, Writer \/ NetworkFault \/ WCrash
  PROVE  FramedInv'
<1>1. ASSUME UNCHANGED readerVars, toR' \in Seq(Honest) PROVE FramedInv'
  BY <1>1 DEF FramedInv, ReaderFramed, BufferFramed, WellFramed, readerVars
<1>2. CASE NetworkFault
  <2>1. /\ Losses(toR) \subseteq Seq(Honest)
        /\ Duplications(toR) \subseteq Seq(Honest)
        /\ Reorderings(toR) \subseteq Seq(Honest)
        /\ Corruptions(toR) \subseteq Seq(Honest)
    BY HonestFrames, FaultType DEF FramedInv
  <2>2. toR' \in Seq(Honest)
    BY <1>2, <2>1 DEF NetworkFault, Strike, FramedInv
  <2> QED BY <1>1, <1>2, <2>2 DEF NetworkFault
<1>3. CASE WCrash
  BY <1>1, <1>3 DEF WCrash, FramedInv
<1>4. CASE WSend
  <2>1. wmsg \in Messages /\ wpart \in Nat /\ wseq \in 0 .. SeqLimit - 1
    BY <1>4 DEF WSend, TypeOK, WriterTypeOK
  <2>2. toR' \in Seq(Honest)
    BY <1>4, <2>1, HonestFrames, SentType DEF WSend, FramedInv
  <2> QED BY <1>1, <1>4, <2>2 DEF WSend
<1>5. CASE WAck
  <2>1. wseq \in 0 .. SeqLimit - 1
    BY DEF TypeOK, WriterTypeOK
  <2>2. toR' \in Seq(Honest)
    BY <1>5, <2>1, HonestFrames, SentType DEF WAck, FramedInv
  <2> QED BY <1>1, <1>5, <2>2 DEF WAck
<1>6. ASSUME \/ \E m \in Messages : WStart(m)
             \/ WSendFails \/ WRecv \/ WTimeout \/ WFrameExpires \/ WCallExpires
      PROVE  UNCHANGED <<toR, readerVars>>
  BY <1>6 DEF WStart, WSendFails, WRecv, WTimeout, WFrameExpires, WCallExpires
<1> QED BY <1>1, <1>2, <1>3, <1>4, <1>5, <1>6 DEF Writer, FramedInv

\* A reader that begins again, or that ends without returning anything, holds
\* nothing that could be wrong.
LEMMA BeginsFramed ==
  ASSUME FramedInv, Restart \/ ReadThrows, UNCHANGED delivered
  PROVE  ReaderFramed' /\ WellFramed'
<1>1. WellFramed'
  BY DEF FramedInv, WellFramed
<1>2. CASE Restart
  <2>1. rpc' = "data" /\ rbuf' = <<>> /\ rprev' = "UNDEF" /\ ~rmulti' /\ ~rlast'
    BY <1>2, Zenon DEF Restart
  <2> QED BY <2>1, <1>1 DEF ReaderFramed, BufferFramed
<1>3. CASE ReadThrows
  BY <1>1, <1>3 DEF ReadThrows, ReaderFramed
<1> QED BY <1>2, <1>3

\* What is returned is framed, if the message is complete.
LEMMA ReturnsFramed ==
  ASSUME TypeOK, FramedInv, rpc = "ack", ReadReturns, MessageComplete
  PROVE  ReaderFramed' /\ WellFramed'
<1>1. rbuf \in Seq(Fragments) /\ delivered \in Seq(Seq(Fragments))
  BY DEF TypeOK, ReaderTypeOK
<1>2. BufferFramed /\ rbuf # <<>> /\ (~rmulti => Len(rbuf) = 1)
  BY DEF FramedInv, ReaderFramed
<1>3. Framed(rbuf)
  <2>1. Len(rbuf) > 1 => rmulti /\ rlast
    <3>1. Len(rbuf) = 1 => ~(Len(rbuf) > 1)
      OBVIOUS
    <3> QED BY <1>2, <3>1, Zenon DEF MessageComplete
  <2>2. Len(rbuf) > 1 => Role(rbuf[1]) = "FIRST" /\ Role(rbuf[Len(rbuf)]) = "LAST"
    BY <1>2, <2>1 DEF BufferFramed
  <2>3. ASSUME NEW i \in 1 .. Len(rbuf) - 1 PROVE Role(rbuf[i]) # "LAST"
    <3>1. i \in 1 .. Len(rbuf) /\ i # Len(rbuf)
      BY <1>1
    <3> QED BY <1>2, <3>1 DEF BufferFramed
  <2> QED BY <1>2, <2>2, <2>3 DEF Framed
<1>4. rpc' = "idle" /\ delivered' = Append(delivered, rbuf)
  BY DEF ReadReturns
<1>5. WellFramed'
  <2>1. ASSUME NEW i \in 1 .. Len(delivered') PROVE Framed(delivered'[i])
    <3>1. (i \in 1 .. Len(delivered) /\ delivered'[i] = delivered[i]) \/ delivered'[i] = rbuf
      BY <1>1, <1>4
    <3> QED BY <1>3, <3>1 DEF FramedInv, WellFramed
  <2> QED BY <2>1 DEF WellFramed
<1> QED BY <1>4, <1>5 DEF ReaderFramed

\* A frame that is accepted is added where it belongs.
LEMMA AcceptFramed ==
  ASSUME TypeOK, FramedInv, rpc = "data", NEW f \in Honest,
         f.sound, f.type \in DataTypes, AcceptData(f)
  PROVE  ReaderFramed' /\ WellFramed'
<1>1. /\ rbuf \in Seq(Fragments) /\ f.data \in Fragments /\ f.type = Role(f.data)
  BY FrameFacts DEF TypeOK, ReaderTypeOK, Honest
<1>2. BufferFramed /\ ~rlast /\ (~rmulti => rbuf = <<>>) /\ rprev # "LAST"
  BY DEF FramedInv, ReaderFramed, BufferFramed
<1> DEFINE multi == rmulti \/ f.type = "FIRST"
<1>3. ASSUME UNCHANGED <<rpc, rmulti, rlast, rprev, rbuf, delivered>>
      PROVE  ReaderFramed' /\ WellFramed'
  BY <1>3 DEF FramedInv, ReaderFramed, BufferFramed, WellFramed
<1>4. CASE Overflow
  BY <1>4, BeginsFramed DEF Overflow
<1>5. ASSUME rmulti' = multi, rlast' = (rlast \/ f.type = "LAST"), rprev' = f.type,
             rbuf' = Append(rbuf, f.data), UNCHANGED delivered,
             rpc' = "sack" \/ (rpc' = "data" /\ f.type # "LAST" /\ multi)
      PROVE  ReaderFramed' /\ WellFramed'
  <2>1. /\ Len(rbuf') = Len(rbuf) + 1 /\ rbuf'[Len(rbuf')] = f.data /\ rbuf' # <<>>
        /\ \A i \in 1 .. Len(rbuf) : rbuf'[i] = rbuf[i]
        /\ rbuf = <<>> => Len(rbuf') = 1 /\ rbuf'[1] = f.data
        /\ rbuf # <<>> => rbuf'[1] = rbuf[1]
    BY <1>1, <1>5
  <2>2. rmulti' => Role(rbuf'[1]) = "FIRST"
    <3>1. CASE rmulti
      BY <1>2, <2>1, <3>1 DEF BufferFramed
    <3>2. CASE ~rmulti
      <4>1. rbuf'[1] = f.data
        BY <1>2, <2>1, <3>2
      <4> QED BY <1>1, <1>5, <3>2, <4>1, Zenon
    <3> QED BY <3>1, <3>2
  <2>3. ~rmulti' => Len(rbuf') = 1
    <3>1. ~rmulti' => ~rmulti
      BY <1>5, Zenon
    <3> QED BY <1>2, <2>1, <3>1
  <2>4. rlast' => f.type = "LAST"
    BY <1>2, <1>5, Zenon
  <2>5. f.type = "LAST" => rlast'
    BY <1>5, Zenon
  <2>6. ASSUME NEW i \in 1 .. Len(rbuf'), Role(rbuf'[i]) = "LAST"
        PROVE  rlast' /\ i = Len(rbuf')
    <3>1. i \in 1 .. Len(rbuf) => Role(rbuf[i]) = "LAST"
      BY <2>1, <2>6
    <3>2. i \notin 1 .. Len(rbuf)
      BY <1>2, <3>1 DEF BufferFramed
    <3>3. Len(rbuf) \in Nat
      BY <1>1
    <3>4. i = Len(rbuf')
      BY <2>1, <3>2, <3>3
    <3> QED BY <1>1, <2>1, <2>5, <2>6, <3>4
  <2>7. BufferFramed'
    BY <1>1, <1>5, <2>1, <2>2, <2>4, <2>5, <2>6 DEF BufferFramed
  <2>8. rpc' = "data" => ~rlast' /\ rmulti'
    <3>1. rpc' = "data" => f.type # "LAST" /\ multi
      BY <1>5
    <3> QED BY <1>5, <2>4, <3>1, Zenon
  <2>9. ReaderFramed'
    BY <2>1, <2>3, <2>7, <2>8 DEF ReaderFramed
  <2> QED BY <1>5, <2>9 DEF FramedInv, WellFramed
<1>6. ~(f.type = "LAST" /\ f.type = rprev)
  BY <1>2
<1>7. \/ UNCHANGED <<rpc, rmulti, rlast, rprev, rbuf, delivered>>
      \/ Overflow
      \/ /\ rmulti' = multi /\ rlast' = (rlast \/ f.type = "LAST") /\ rprev' = f.type
         /\ rbuf' = Append(rbuf, f.data) /\ UNCHANGED delivered
         /\ rpc' = "sack" \/ (rpc' = "data" /\ f.type # "LAST" /\ multi)
  BY <1>6, Zenon DEF AcceptData
<1> QED BY <1>3, <1>4, <1>5, <1>7

\* The closing ACK completes a message that has ended, or announces the next
\* group of one that has not: no other frame has its number.
LEMMA ClosingFramed ==
  ASSUME NoWrap, SeqInv, FramedInv, RRecvAck
  PROVE  ReaderFramed' /\ WellFramed'
<1>1. rpc = "ack" /\ TypeOK /\ Head(toR) \in ToReader
  BY DEF RRecvAck, SeqInv, SeqClass, ChannelClass
<1>2. BufferFramed /\ rbuf # <<>> /\ (~rmulti => Len(rbuf) = 1)
  BY <1>1 DEF FramedInv, ReaderFramed
<1>3. ASSUME rprev = "LAST", rmulti PROVE MessageComplete
  BY <1>2, <1>3, Zenon DEF BufferFramed, MessageComplete
<1>4. CASE RAbortAck
  <2>1. CASE rprev = "LAST" /\ rmulti /\ ReadReturns
    BY <1>1, <1>3, <2>1, ReturnsFramed
  <2> QED BY <1>4, <2>1, BeginsFramed DEF RAbortAck
<1>5. CASE RRetryFrame(RAbortAck)
  <2>1. CASE UNCHANGED <<rpc, rmulti, rlast, rprev, rbuf, delivered>>
    BY <2>1 DEF FramedInv, ReaderFramed, BufferFramed, WellFramed
  <2> QED BY <1>4, <1>5, <2>1 DEF RRetryFrame
<1>6. CASE MessageComplete /\ CompleteRead
  BY <1>1, <1>6, BeginsFramed, ReturnsFramed DEF CompleteRead
<1>7. ASSUME Head(toR).seq = rseq, Head(toR).sound,
             ~(Head(toR).type = "ACK" /\ MessageComplete), rpc' = "data",
             UNCHANGED <<rmulti, rlast, rprev, rbuf, delivered>>
      PROVE  ReaderFramed' /\ WellFramed'
  <2>1. rseq % 3 = 2
    BY <1>1 DEF SeqInv, SeqClass, ReaderClass
  <2>2. Head(toR).type \notin DataTypes
    BY <1>1, <1>7, <2>1 DEF ToReader
  <2>3. Head(toR).type = "ACK"
    BY <1>1, <2>2, FrameFacts DEF ToReader
  <2>4. rmulti /\ ~rlast
    BY <1>7, <2>3, Zenon DEF MessageComplete
  <2>5. BufferFramed' /\ ~rlast' /\ rmulti'
    BY <1>2, <1>7, <2>4 DEF BufferFramed
  <2>6. ReaderFramed'
    BY <1>7, <2>5 DEF ReaderFramed
  <2> QED BY <1>7, <2>6 DEF FramedInv, WellFramed
<1> QED BY <1>4, <1>5, <1>6, <1>7, Zenon DEF RRecvAck

\* Every step of the reading end keeps what it holds framed.
LEMMA ReaderStepFramed ==
  ASSUME NoWrap, SeqInv, FramedInv, Reader \/ RCrash
  PROVE  FramedInv'
<1>0. TypeOK
  BY DEF SeqInv
<1>1. toR' \in Seq(Honest)
  <2>1. toR' = toR \/ (toR # <<>> /\ toR' = Tail(toR)) \/ toR' = <<>>
    <3>1. Reader => toR' = toR \/ (toR # <<>> /\ toR' = Tail(toR))
      BY DEF Reader, RStart, RRecvData, RSendAck, RSendAckFails, RRecvAck, RTimeout,
             RExpires
    <3>2. RCrash => toR' = <<>>
      BY DEF RCrash
    <3> QED BY <3>1, <3>2
  <2>2. toR \in Seq(Honest) /\ <<>> \in Seq(Honest)
    BY DEF FramedInv
  <2>3. toR # <<>> => Tail(toR) \in Seq(Honest)
    BY <2>2
  <2> QED BY <2>1, <2>2, <2>3
<1> SUFFICES ReaderFramed' /\ WellFramed'
  BY <1>1 DEF FramedInv
<1>2. ASSUME UNCHANGED <<rpc, rmulti, rlast, rprev, rbuf, delivered>>
      PROVE  ReaderFramed' /\ WellFramed'
  BY <1>2 DEF FramedInv, ReaderFramed, BufferFramed, WellFramed
<1>3. CASE RAbortData
  BY <1>3, BeginsFramed DEF RAbortData
<1>4. CASE RStart \/ RExpires \/ RCrash
  BY <1>4, BeginsFramed DEF RStart, RExpires, RCrash
<1>5. CASE RSendAck
  BY <1>5 DEF RSendAck, FramedInv, ReaderFramed, BufferFramed, WellFramed
<1>6. CASE RSendAckFails
  BY <1>2, <1>6, BeginsFramed DEF RSendAckFails
<1>7. CASE RRecvData
  <2>1. Head(toR) \in Honest /\ rpc = "data"
    BY <1>7 DEF RRecvData, FramedInv
  <2>2. CASE RRetryFrame(RAbortData)
    BY <1>2, <1>3, <2>2 DEF RRetryFrame
  <2>3. CASE Head(toR).sound /\ Head(toR).type \in DataTypes /\ AcceptData(Head(toR))
    BY <1>0, <2>1, <2>3, AcceptFramed
  <2> QED BY <1>3, <1>7, <2>2, <2>3 DEF RRecvData
<1>8. CASE RTimeout
  <2>1. CASE rpc = "data" /\ RRetryFrame(RAbortData)
    BY <1>2, <1>3, <2>1 DEF RRetryFrame
  <2>2. CASE rpc = "ack" /\ RRetryFrame(RAbortAck)
    <3>1. ASSUME rprev = "LAST", rmulti PROVE MessageComplete
      BY <2>2, <3>1, Zenon DEF FramedInv, ReaderFramed, BufferFramed, MessageComplete
    <3>2. CASE RAbortAck
      <4>1. CASE rprev = "LAST" /\ rmulti /\ ReadReturns
        BY <1>0, <2>2, <3>1, <4>1, ReturnsFramed
      <4> QED BY <3>2, <4>1, BeginsFramed DEF RAbortAck
    <3> QED BY <1>2, <2>2, <3>2 DEF RRetryFrame
  <2> QED BY <1>8, <2>1, <2>2 DEF RTimeout
<1>9. CASE RRecvAck
  BY <1>9, ClosingFramed
<1> QED BY <1>4, <1>5, <1>6, <1>7, <1>8, <1>9 DEF Reader

LEMMA FramedAlways ==
  ASSUME NoWrap
  PROVE  Spec => []FramedInv
<1>1. Init => FramedInv
  <2> SUFFICES ASSUME Init PROVE FramedInv
    OBVIOUS
  <2>1. toR = <<>> /\ rpc = "idle" /\ delivered = <<>>
    BY DEF Init
  <2> QED BY <2>1 DEF FramedInv, ReaderFramed, WellFramed
<1>2. SeqInv /\ FramedInv /\ [Next]_vars => FramedInv'
  <2> SUFFICES ASSUME SeqInv, FramedInv, [Next]_vars PROVE FramedInv'
    OBVIOUS
  <2>1. CASE UNCHANGED vars
    BY <2>1 DEF FramedInv, ReaderFramed, BufferFramed, WellFramed, vars, readerVars
  <2> QED BY <2>1, OthersFramed, ReaderStepFramed DEF Next, SeqInv
<1>3. Spec => []SeqInv
  BY SequenceBounds
<1> QED BY <1>1, <1>2, <1>3, PTL DEF Spec

\* If no message exhausts the sequence numbers, no number of faults of any kind
\* makes read() return a message that is left open or runs on into the next.
THEOREM NothingRunsOn ==
  ASSUME NoWrap
  PROVE  Spec => []WellFramed
<1>1. FramedInv => WellFramed
  BY DEF FramedInv
<1> QED BY <1>1, FramedAlways, PTL

----------------------------------------------------------------------------
(* Both ends in step.  When nothing goes wrong, the reader is always at one of *)
(* nine points relative to the writer, which LockInv lists; from there every   *)
(* datagram is the one its receiver expects.                                   *)

\* A buffer that is too small for a message overflows with the last frame of a
\* group only.
Fits(m, room) ==
  \/ FragmentsOf[m] <= room
  \/ FragmentsOf[m] = room + 1
  \/ (room + 1) % AckAfter = 0

\* The network and the processes do what they should, a socket holds a group and
\* a closing ACK, and the buffers of the reader fit.
Undisturbed ==
  /\ Faults["any"] = 0
  /\ SocketBuf > AckAfter
  /\ \A m \in Messages, i \in 1 .. Len(ReadBufs) : Fits(m, ReadBufs[i])

\* The number of the group being sent, the fragments sent so far, and those of
\* them in earlier groups.
PrevSeq(s) == IF s = 0 THEN SeqLimit - 1 ELSE s - 1
GroupSeq == IF wpc = "send" THEN wseq ELSE PrevSeq(wseq)
SentParts == IF wpc = "send" THEN wpart - 1 ELSE wpart
Base == SentParts - wgroup

\* Where a write in progress stands in its group.
WriterGroup ==
  /\ wgroup <= SentParts /\ Base % AckAfter = 0
  /\ wpc = "send" => wgroup < WriterAckAfter(wmsg)
  /\ wpc \in {"wait", "ack"} =>
       /\ wgroup \in 1 .. WriterAckAfter(wmsg)
       /\ wgroup = WriterAckAfter(wmsg) \/ wpart = FragmentsOf[wmsg]
  /\ wpc \in {"send", "wait"} /\ Base = 0 => GroupSeq = 0

\* The reader has nothing of a message.
Blank ==
  /\ rseq = 0 /\ rgroup = 0 /\ rbuf = <<>> /\ rprev = "UNDEF"
  /\ ~rmulti /\ ~rlast

Fresh == rpc = "idle" \/ (rpc = "data" /\ Blank)

\* The reader has the first c fragments of message m.
Holds(m, c) ==
  /\ rbuf = [k \in 1 .. c |-> <<m, k>>]
  /\ c <= ReadBufs[rcap]
  /\ rprev = FragmentType(m, c)
  /\ rmulti <=> ~IsSingle(m)
  /\ rlast <=> FragmentType(m, c) = "LAST"

Level == Len(written) = Len(delivered)
Silent == toR = <<>> /\ toW = <<>>

\* On their way are `shut' closing ACKs and then the fragments sent after c.
Carries(shut, c) ==
  /\ toW = <<>>
  /\ Len(toR) = shut + (SentParts - c)
  /\ \A i \in 1 .. SentParts - c :
       toR[shut + i] = DataFrame(wmsg, c + i, GroupSeq)

Shutting == toR # <<>> /\ toR[1] = AckFrame(rseq)

\* Nothing is being written.
Quiet == wpc = "idle" /\ Silent /\ Fresh /\ Level

\* The reader dropped the whole group when its buffer overflowed.
Stranded == wpc = "wait" /\ Silent /\ Fresh /\ Level

\* Nothing of the message has been read yet.
Coming ==
  /\ wpc \in {"send", "wait"} /\ Base = 0 /\ Carries(0, 0)
  /\ Fresh /\ Level

\* The reader is in the middle of a group.
Reading ==
  /\ wpc \in {"send", "wait"} /\ ~IsSingle(wmsg)
  /\ Len(rbuf) \in 1 .. SentParts /\ Base <= Len(rbuf)
  /\ Len(rbuf) < FragmentsOf[wmsg]
  /\ wpc = "wait" => toR # <<>>
  /\ Holds(wmsg, Len(rbuf)) /\ Carries(0, Len(rbuf))
  /\ rpc = "data" /\ rseq = GroupSeq /\ rgroup = Len(rbuf) - Base
  /\ Level

\* The reader has the group, and its ACK is to be sent, is on its way, or was
\* received.
Answering ==
  /\ wpc = "wait" /\ Silent /\ Holds(wmsg, wpart)
  /\ rpc = "sack" /\ rseq = wseq /\ Level

Answered ==
  /\ wpc = "wait" /\ toR = <<>> /\ toW = <<AckFrame(wseq)>> /\ Holds(wmsg, wpart)
  /\ rpc = "ack" /\ rgroup = 0 /\ rseq = NextSeq(wseq) /\ Level

Closing ==
  /\ wpc = "ack" /\ Silent /\ Holds(wmsg, wpart)
  /\ rpc = "ack" /\ rgroup = 0 /\ rseq = wseq /\ Level

\* The closing ACK is on its way, before the next group of the message, or at
\* the end of the message, perhaps with the next message behind it.
Following ==
  /\ wpc \in {"send", "wait"} /\ ~IsSingle(wmsg)
  /\ Base \in 1 .. FragmentsOf[wmsg] - 1
  /\ Shutting /\ Holds(wmsg, Base) /\ Carries(1, Base)
  /\ rpc = "ack" /\ rgroup = 0 /\ NextSeq(rseq) = GroupSeq /\ Level

LastWritten == written[Len(written)]

Finished ==
  /\ rpc = "ack" /\ Len(written) = Len(delivered) + 1
  /\ Holds(LastWritten, FragmentsOf[LastWritten]) /\ Shutting
  /\ \/ wpc = "idle" /\ toW = <<>> /\ Len(toR) = 1
     \/ wpc \in {"send", "wait"} /\ Base = 0 /\ Carries(1, 0)

Faithful == \A i \in 1 .. Len(delivered) : delivered[i] = Whole(written[i])

InStep ==
  \/ Quiet \/ Stranded \/ Coming \/ Reading \/ Answering \/ Answered
  \/ Closing \/ Following \/ Finished

LockInv ==
  /\ faults["any"] = 0 /\ twin = <<>> /\ Faithful
  /\ wpc = "idle" => wgroup = 0
  /\ wpc # "idle" => WriterGroup
  /\ InStep

\* A read() that returns what the first write() not yet read was given.
Obtains ==
  /\ Len(written) = Len(delivered) + 1
  /\ delivered' = Append(delivered, Whole(written[Len(delivered) + 1]))
  /\ UNCHANGED written

\* A write() that is told its message was written, everything before it read.
Accepts ==
  /\ Len(written) = Len(delivered)
  /\ \E m \in Messages : written' = Append(written, m)
  /\ UNCHANGED delivered

LEMMA Divides ==
  ASSUME NEW K \in Nat \ {0}, NEW x \in Nat, x % K = 0
  PROVE  \E q \in Int : x = K * q
  OBVIOUS

\* Groups end where the number of frames is a multiple of ack_after_.
LEMMA Remainders ==
  ASSUME NEW K \in Nat \ {0}, NEW x \in Nat, x % K = 0
  PROVE  /\ (x + K) % K = 0
         /\ \A g \in 1 .. K : (x + g) % K = 0 => g = K
<1>1. PICK q \in Int : x = K * q
  BY Divides
<1>2. q >= 0
  <2>1. q <= -1 => K * q <= -K
    OBVIOUS
  <2> QED BY <1>1, <2>1
<1>3. (x + K) % K = 0
  <2>1. x + K = K * (q + 1) /\ q + 1 \in Nat
    BY <1>1, <1>2
  <2>2. \A n \in Nat : (K * n) % K = 0
    OBVIOUS
  <2> QED BY <2>1, <2>2
<1>4. ASSUME NEW g \in 1 .. K, (x + g) % K = 0 PROVE g = K
  <2>1. x + g \in Nat
    OBVIOUS
  <2>2. PICK p \in Int : x + g = K * p
    BY <1>4, <2>1, Divides
  <2> DEFINE d == p - q
  <2>3. K * d = g /\ d \in Int
    BY <1>1, <2>2
  <2>4. d >= 2 => K * d >= 2 * K
    BY <2>3
  <2>5. d <= 0 => K * d <= 0
    BY <2>3
  <2>6. d = 1
    <3> HIDE DEF d
    <3> QED BY <2>3, <2>4, <2>5
  <2> QED BY <2>3, <2>6
<1> QED BY <1>3, <1>4

\* A group of at most K frames ends at the K-th.
LEMMA GroupEnds ==
  ASSUME NEW K \in Nat \ {0}, NEW g \in 1 .. K
  PROVE  g % K = 0 <=> g = K
  OBVIOUS

\* The number before the next one.
LEMMA PrevNext ==
  ASSUME NEW s \in 0 .. SeqLimit - 1
  PROVE  PrevSeq(NextSeq(s)) = s /\ NextSeq(PrevSeq(s)) = s
  BY SprotAssumption DEF PrevSeq, NextSeq

\* Without faults none strikes.
LEMMA NoFault ==
  ASSUME faults["any"] = 0
  PROVE  \A kind : ~Spend(kind)
  BY DEF Spend

\* The numbers of a write in progress.
LEMMA WriterNumbers ==
  ASSUME TypeOK, wpc # "idle"
  PROVE  /\ wpc \in {"send", "wait", "ack"} /\ wmsg \in Messages
         /\ FragmentsOf[wmsg] \in Nat \ {0} /\ wpart \in 1 .. FragmentsOf[wmsg]
         /\ wgroup \in Nat /\ wseq \in 0 .. SeqLimit - 1
         /\ SentParts \in 0 .. FragmentsOf[wmsg]
         /\ wpc = "send" => SentParts < FragmentsOf[wmsg]
         /\ WriterAckAfter(wmsg) \in 1 .. AckAfter
         /\ ~IsSingle(wmsg) => WriterAckAfter(wmsg) = AckAfter
         /\ AckAfter \in Nat \ {0}
<1>1. /\ wpc \in {"send", "wait", "ack"} /\ wmsg \in Messages
      /\ wpart \in Nat \ {0} /\ wpart <= FragmentsOf[wmsg]
      /\ wgroup \in Nat /\ wseq \in 0 .. SeqLimit - 1
  BY DEF TypeOK, WriterTypeOK
<1>2. FragmentsOf[wmsg] \in Nat \ {0} /\ AckAfter \in Nat \ {0}
  BY <1>1, SprotAssumption
<1>3. /\ SentParts \in 0 .. FragmentsOf[wmsg]
      /\ wpc = "send" => SentParts < FragmentsOf[wmsg]
  BY <1>1, <1>2 DEF SentParts
<1>4. /\ WriterAckAfter(wmsg) \in 1 .. AckAfter
      /\ ~IsSingle(wmsg) => WriterAckAfter(wmsg) = AckAfter
  BY <1>2 DEF WriterAckAfter
<1> QED BY <1>1, <1>2, <1>3, <1>4

\* The type of a fragment, by its place.
LEMMA Roles ==
  ASSUME NEW m \in Messages, NEW k \in 1 .. FragmentsOf[m]
  PROVE  /\ FragmentType(m, k) \in DataTypes
         /\ IsSingle(m) => FragmentType(m, k) = "SINGLE" /\ k = 1
         /\ ~IsSingle(m) =>
              /\ FragmentType(m, k) = "LAST" <=> k = FragmentsOf[m]
              /\ FragmentType(m, k) = "FIRST" <=> k = 1
  BY SprotAssumption DEF FragmentType, DataTypes, IsSingle

\* A step that leaves the writer alone leaves the numbers of its group; one that
\* leaves the channels alone too leaves what is on its way.
LEMMA WriterSame ==
  ASSUME UNCHANGED <<wpc, wmsg, wpart, wseq, wgroup>>
  PROVE  /\ SentParts' = SentParts /\ Base' = Base /\ GroupSeq' = GroupSeq
         /\ WriterGroup => WriterGroup'
         /\ UNCHANGED <<toR, toW>> =>
              /\ Silent => Silent'
              /\ \A shut, c : Carries(shut, c) => Carries(shut, c)'
<1>1. SentParts' = SentParts /\ GroupSeq' = GroupSeq
  BY DEF SentParts, GroupSeq
<1>2. Base' = Base
  BY <1>1 DEF Base
<1> QED BY <1>1, <1>2 DEF WriterGroup, Silent, Carries

\* What the reader holds does not change with the writer.
LEMMA ReaderSame ==
  ASSUME UNCHANGED readerVars
  PROVE  /\ Fresh => Fresh'
         /\ \A m, c : Holds(m, c) => Holds(m, c)'
  BY DEF readerVars, Fresh, Blank, Holds

\* A write() that begins finds the reader waiting, or the last closing ACK on
\* its way.
LEMMA StartInStep ==
  ASSUME Undisturbed, TypeOK, LockInv, NEW m \in Messages, WStart(m)
  PROVE  LockInv'
<1>1. /\ wpc = "idle" /\ wgroup = 0 /\ wgroup' = 0 /\ wpc' = "send" /\ wpart' = 1
      /\ wseq' = 0 /\ wmsg' = m
      /\ UNCHANGED <<toR, toW, written, faults, rpc, rseq, delivered, twin>>
      /\ UNCHANGED readerVars
  BY DEF WStart, LockInv, readerVars
<1>2. SentParts' = 0 /\ Base' = 0 /\ GroupSeq' = 0
  BY <1>1 DEF SentParts, Base, GroupSeq
<1>3. WriterGroup'
  <2>1. TypeOK => WriterAckAfter(m) > 0 /\ 0 % AckAfter = 0
    BY SprotAssumption DEF WriterAckAfter
  <2> QED BY <1>1, <1>2, <2>1 DEF WriterGroup
<1>4. \A shut : toW = <<>> /\ Len(toR) = shut => Carries(shut, 0)'
  BY <1>1, <1>2 DEF Carries
<1>5. CASE Quiet
  <2>1. Carries(0, 0)'
    BY <1>4, <1>5 DEF Quiet, Silent
  <2>2. Fresh' /\ Level'
    BY <1>1, <1>5, ReaderSame DEF Quiet, Level
  <2>3. Coming'
    BY <1>1, <1>2, <2>1, <2>2 DEF Coming
  <2> QED BY <1>1, <1>3, <2>3 DEF LockInv, InStep, Faithful
<1>6. CASE Finished
  <2>1. Carries(1, 0)'
    BY <1>1, <1>4, <1>6 DEF Finished
  <2>2. LastWritten' = LastWritten /\ (Shutting => Shutting')
    BY <1>1 DEF LastWritten, Shutting
  <2>3. Finished'
    BY <1>1, <1>2, <1>6, <2>1, <2>2, ReaderSame DEF Finished
  <2> QED BY <1>1, <1>3, <2>3 DEF LockInv, InStep, Faithful
<1>7. Quiet \/ Finished
  BY <1>1 DEF LockInv, InStep, Stranded, Coming, Reading, Answering, Answered, Closing,
     Following
<1> QED BY <1>5, <1>6, <1>7

\* A frame that is sent finds room in the socket and joins what is on its way.
LEMMA SendFacts ==
  ASSUME Undisturbed, TypeOK, WriterGroup, WSend
  PROVE  /\ wpc = "send" /\ wpc' \in {"send", "wait"}
         /\ SentParts' = SentParts + 1 /\ Base' = Base /\ GroupSeq' = GroupSeq
         /\ WriterGroup'
         /\ \A shut \in 0 .. 1, c \in Base .. SentParts :
              Carries(shut, c) =>
                /\ Carries(shut, c)' /\ toR' # <<>>
                /\ toR # <<>> => toR'[1] = toR[1]
<1> DEFINE f == DataFrame(wmsg, wpart, wseq)
           ends == \/ (wgroup + 1) % WriterAckAfter(wmsg) = 0
                   \/ FragmentType(wmsg, wpart) = "LAST"
<1>1. /\ wpc = "send" /\ toR' = Sent(toR, f) /\ wgroup' = wgroup + 1
      /\ UNCHANGED <<toW, wmsg>>
      /\ \/ ends /\ wpc' = "wait" /\ wseq' = NextSeq(wseq) /\ wpart' = wpart
         \/ ~ends /\ wpc' = "send" /\ wseq' = wseq /\ wpart' = wpart + 1
  BY DEF WSend
<1>2. /\ wmsg \in Messages /\ FragmentsOf[wmsg] \in Nat \ {0}
      /\ wpart \in 1 .. FragmentsOf[wmsg] /\ wgroup \in Nat
      /\ wseq \in 0 .. SeqLimit - 1 /\ WriterAckAfter(wmsg) \in 1 .. AckAfter
      /\ AckAfter \in Nat \ {0}
  BY <1>1, WriterNumbers
<1>3. /\ SentParts = wpart - 1 /\ SentParts' = wpart /\ GroupSeq = wseq
      /\ GroupSeq' = wseq
  BY <1>1, <1>2, PrevNext DEF SentParts, GroupSeq
<1>4. Base' = Base /\ Base = wpart - 1 - wgroup /\ Base \in Nat
  BY <1>1, <1>2, <1>3 DEF Base, WriterGroup
<1>5. /\ wgroup + 1 \in 1 .. WriterAckAfter(wmsg)
      /\ wgroup + 1 <= wpart
      /\ ends <=> \/ wgroup + 1 = WriterAckAfter(wmsg)
                  \/ FragmentType(wmsg, wpart) = "LAST"
  <2>1. wgroup < WriterAckAfter(wmsg)
    BY <1>1 DEF WriterGroup
  <2>2. wgroup + 1 \in 1 .. WriterAckAfter(wmsg)
    BY <1>2, <2>1
  <2>3. WriterAckAfter(wmsg) \in Nat \ {0}
    BY <1>2
  <2>4. (wgroup + 1) % WriterAckAfter(wmsg) = 0 <=> wgroup + 1 = WriterAckAfter(wmsg)
    BY <2>2, <2>3, GroupEnds
  <2>5. wgroup + 1 <= wpart
    BY <1>2, <1>4
  <2> QED BY <2>2, <2>4, <2>5
<1> HIDE DEF ends, f
<1>6. FragmentType(wmsg, wpart) = "LAST" => wpart = FragmentsOf[wmsg]
  BY <1>2, Roles
<1>7. WriterGroup'
  <2>1. wgroup' <= SentParts' /\ Base' % AckAfter = 0
    BY <1>1, <1>3, <1>4, <1>5 DEF WriterGroup
  <2>2. WriterAckAfter(wmsg)' = WriterAckAfter(wmsg)
    BY <1>1 DEF WriterAckAfter, IsSingle
  <2>3. Base' = 0 => GroupSeq' = 0
    BY <1>1, <1>3, <1>4 DEF WriterGroup
  <2>4. CASE ends /\ wpc' = "wait" /\ wpart' = wpart
    BY <1>1, <1>5, <1>6, <2>1, <2>2, <2>3, <2>4 DEF WriterGroup
  <2>5. CASE ~ends /\ wpc' = "send"
    <3>1. wgroup' < WriterAckAfter(wmsg)
      BY <1>1, <1>2, <1>5, <2>5
    <3> QED BY <2>1, <2>2, <2>3, <2>5, <3>1 DEF WriterGroup
  <2> QED BY <1>1, <2>4, <2>5
<1>8. ASSUME NEW shut \in 0 .. 1, NEW c \in Base .. SentParts, Carries(shut, c)
      PROVE  /\ Carries(shut, c)' /\ toR' # <<>>
             /\ toR # <<>> => toR'[1] = toR[1]
  <2>1. /\ toR \in Seq(Frame) /\ toW = <<>> /\ Len(toR) = shut + (SentParts - c)
        /\ \A i \in 1 .. SentParts - c :
             toR[shut + i] = DataFrame(wmsg, c + i, GroupSeq)
    BY <1>8 DEF Carries, TypeOK, ChannelTypeOK
  <2>2. Len(toR) < SocketBuf
    <3>1. SentParts - c \in 0 .. wgroup
      BY <1>2, <1>3, <1>4
    <3>2. wgroup + 1 <= AckAfter
      BY <1>2, <1>5
    <3>3. Len(toR) <= AckAfter
      BY <1>2, <2>1, <3>1, <3>2
    <3>4. SocketBuf > AckAfter /\ SocketBuf \in Nat
      BY SprotAssumption DEF Undisturbed
    <3> QED BY <1>2, <2>1, <3>3, <3>4
  <2>3. f \in Frame
    BY <1>2, FramesTyped DEF f
  <2>4. toR' = Append(toR, f)
    BY <1>1, <2>2 DEF Sent
  <2>5. /\ Len(toR') = Len(toR) + 1 /\ toR'[Len(toR) + 1] = f
        /\ \A i \in 1 .. Len(toR) : toR'[i] = toR[i]
        /\ toR' # <<>>
    BY <2>1, <2>3, <2>4
  <2>6. Len(toR') = shut + (SentParts' - c)
    BY <1>2, <1>3, <2>1, <2>5
  <2>7. ASSUME NEW i \in 1 .. SentParts' - c
        PROVE  toR'[shut + i] = DataFrame(wmsg', c + i, GroupSeq')
    <3>1. CASE i \in 1 .. SentParts - c
      <4>1. shut + i \in 1 .. Len(toR)
        BY <1>2, <1>3, <2>1, <3>1
      <4> QED BY <1>1, <1>3, <2>1, <2>5, <3>1, <4>1
    <3>2. CASE i = SentParts' - c
      <4>1. shut + i = Len(toR) + 1 /\ c + i = wpart
        BY <1>2, <1>3, <1>4, <2>1, <3>2
      <4> QED BY <1>1, <1>3, <2>5, <4>1 DEF f
    <3>3. i \in 1 .. SentParts - c \/ i = SentParts' - c
      BY <1>2, <1>3, <1>4
    <3> QED BY <3>1, <3>2, <3>3
  <2>8. toR # <<>> => toR'[1] = toR[1]
    BY <2>1, <2>5
  <2> QED BY <1>1, <2>1, <2>5, <2>6, <2>7, <2>8 DEF Carries
<1>9. SentParts' = SentParts + 1
  BY <1>2, <1>3
<1> QED BY <1>1, <1>3, <1>4, <1>7, <1>8, <1>9

\* Sending a fragment.
LEMMA SendInStep ==
  ASSUME Undisturbed, TypeOK, LockInv, WSend
  PROVE  LockInv'
<1>1. /\ wpc = "send" /\ wpc' \in {"send", "wait"}
      /\ UNCHANGED <<toW, wmsg, written, faults, rpc, rseq, rgroup, rbuf,
                     delivered, twin>>
      /\ UNCHANGED readerVars
  BY DEF WSend, readerVars
<1>2. WriterGroup
  BY <1>1 DEF LockInv
<1>3. /\ SentParts' = SentParts + 1 /\ Base' = Base /\ GroupSeq' = GroupSeq
      /\ WriterGroup'
      /\ \A shut \in 0 .. 1, c \in Base .. SentParts :
           Carries(shut, c) =>
             /\ Carries(shut, c)' /\ toR' # <<>>
             /\ toR # <<>> => toR'[1] = toR[1]
  BY <1>2, SendFacts
<1>4. SentParts \in Nat /\ Base \in Nat /\ Base <= SentParts
  <2>1. SentParts \in Nat /\ wgroup \in Nat
    BY <1>1, WriterNumbers
  <2> QED BY <1>2, <2>1 DEF Base, WriterGroup
<1>5. Level => Level'
  BY <1>1 DEF Level
<1>6. ASSUME Coming PROVE InStep'
  <2>1. Carries(0, 0)'
    BY <1>3, <1>4, <1>6 DEF Coming
  <2>2. Coming'
    BY <1>1, <1>3, <1>5, <1>6, <2>1, ReaderSame DEF Coming
  <2> QED BY <2>2 DEF InStep
<1>7. ASSUME Reading PROVE InStep'
  <2>1. Len(rbuf) \in Base .. SentParts /\ Len(rbuf) \in 1 .. SentParts'
    BY <1>3, <1>4, <1>7 DEF Reading
  <2>2. Carries(0, Len(rbuf))' /\ toR' # <<>>
    BY <1>1, <1>3, <1>7, <2>1 DEF Reading
  <2>3. Holds(wmsg, Len(rbuf))'
    BY <1>1, <1>7, ReaderSame DEF Reading
  <2>4. ~IsSingle(wmsg)'
    BY <1>1, <1>7 DEF Reading, IsSingle
  <2>5. Reading'
    BY <1>1, <1>3, <1>5, <1>7, <2>1, <2>2, <2>3, <2>4 DEF Reading
  <2> QED BY <2>5 DEF InStep
<1>8. ASSUME Following PROVE InStep'
  <2>1. /\ Carries(1, Base)' /\ toR' # <<>> /\ (toR # <<>> => toR'[1] = toR[1])
    BY <1>3, <1>4, <1>8 DEF Following
  <2>2. Shutting'
    BY <1>1, <1>8, <2>1 DEF Following, Shutting
  <2>3. Holds(wmsg, Base)'
    BY <1>1, <1>3, <1>8, ReaderSame DEF Following
  <2>4. ~IsSingle(wmsg)'
    BY <1>1, <1>8 DEF Following, IsSingle
  <2>5. NextSeq(rseq)' = NextSeq(rseq)
    BY <1>1 DEF NextSeq
  <2>6. Following'
    BY <1>1, <1>3, <1>5, <1>8, <2>1, <2>2, <2>3, <2>4, <2>5 DEF Following
  <2> QED BY <2>6 DEF InStep
<1>9. ASSUME Finished PROVE InStep'
  <2>1. Base = 0 /\ Carries(1, 0)
    BY <1>1, <1>9 DEF Finished
  <2>2. /\ Carries(1, 0)' /\ toR' # <<>> /\ (toR # <<>> => toR'[1] = toR[1])
    BY <1>3, <1>4, <2>1
  <2>3. Shutting'
    BY <1>1, <1>9, <2>2 DEF Finished, Shutting
  <2>4. LastWritten' = LastWritten
    BY <1>1 DEF LastWritten
  <2>5. Holds(LastWritten, FragmentsOf[LastWritten])'
    BY <1>1, <1>9, <2>4, ReaderSame DEF Finished
  <2>6. Finished'
    BY <1>1, <1>3, <1>9, <2>1, <2>2, <2>3, <2>5 DEF Finished
  <2> QED BY <2>6 DEF InStep
<1>10. InStep'
  BY <1>1, <1>6, <1>7, <1>8, <1>9 DEF LockInv, InStep, Quiet, Stranded, Answering,
     Answered, Closing
<1>11. faults["any"]' = 0 /\ twin' = <<>> /\ Faithful'
  BY <1>1 DEF LockInv, Faithful
<1> QED BY <1>1, <1>3, <1>10, <1>11 DEF LockInv

\* The reader's ACK is the one the writer waits for.
LEMMA RecvInStep ==
  ASSUME TypeOK, LockInv, WRecv
  PROVE  LockInv'
<1>1. /\ wpc = "wait" /\ toW # <<>> /\ toW' = Tail(toW)
      /\ UNCHANGED <<toR, written, faults, twin, delivered, rpc, rgroup, rseq>>
      /\ UNCHANGED readerVars
  BY DEF WRecv, readerVars
<1>2. Answered
  BY <1>1 DEF LockInv, InStep, Quiet, Stranded, Coming, Reading, Answering, Answered,
     Closing, Following, Finished, Silent, Carries
<1>3. Head(toW) = AckFrame(wseq) /\ Tail(toW) = <<>> /\ toR = <<>>
  BY <1>2 DEF Answered
<1>4. wpc' = "ack" /\ wseq' = NextSeq(wseq) /\ UNCHANGED <<wmsg, wpart, wgroup>>
  BY <1>3 DEF WRecv, AckFrame
<1>5. Holds(wmsg, wpart)'
  BY <1>1, <1>2, <1>4, ReaderSame DEF Answered
<1>6. Closing'
  BY <1>1, <1>2, <1>3, <1>4, <1>5 DEF Answered, Closing, Silent, Level
<1>7. WriterGroup'
  <2>1. SentParts' = SentParts /\ Base' = Base
    BY <1>1, <1>4 DEF SentParts, Base
  <2>2. WriterAckAfter(wmsg)' = WriterAckAfter(wmsg)
    BY <1>4 DEF WriterAckAfter, IsSingle
  <2> QED BY <1>1, <1>4, <2>1, <2>2 DEF LockInv, WriterGroup
<1> QED BY <1>1, <1>4, <1>6, <1>7 DEF LockInv, InStep, Faithful

\* Closing a group.
LEMMA AckInStep ==
  ASSUME Undisturbed, TypeOK, LockInv, WAck
  PROVE  LockInv' /\ (UNCHANGED <<written, delivered>> \/ Accepts)
<1>1. /\ wpc = "ack" /\ toR' = Sent(toR, AckFrame(wseq)) /\ wseq' = NextSeq(wseq)
      /\ wgroup' = 0
      /\ UNCHANGED <<toW, faults, rpc, rgroup, rseq, rbuf, twin, delivered>>
      /\ UNCHANGED readerVars
  BY DEF WAck, readerVars
<1>2. Closing
  BY <1>1 DEF LockInv, InStep, Quiet, Stranded, Coming, Reading, Answering, Answered,
     Following, Finished
<1>3. /\ toR' = <<AckFrame(rseq)>> /\ toW' = <<>> /\ Holds(wmsg, wpart)
      /\ rpc = "ack" /\ rgroup = 0 /\ rseq = wseq /\ Len(written) = Len(delivered)
  <2>1. SocketBuf > 0
    BY SprotAssumption DEF Undisturbed
  <2> QED BY <1>1, <1>2, <2>1 DEF Closing, Silent, Sent, Level
<1>4. Shutting' /\ Len(toR') = 1
  <2>1. AckFrame(rseq)' = AckFrame(rseq)
    BY <1>1 DEF AckFrame
  <2> HIDE DEF AckFrame
  <2>2. toR' # <<>> /\ toR'[1] = AckFrame(rseq) /\ Len(toR') = 1
    BY <1>3
  <2> QED BY <2>1, <2>2 DEF Shutting
<1>5. /\ wmsg \in Messages /\ FragmentsOf[wmsg] \in Nat \ {0}
      /\ wpart \in 1 .. FragmentsOf[wmsg] /\ wgroup \in Nat
      /\ WriterAckAfter(wmsg) \in 1 .. AckAfter
      /\ (~IsSingle(wmsg) => WriterAckAfter(wmsg) = AckAfter)
      /\ AckAfter \in Nat \ {0}
      /\ written \in Seq(Messages) /\ delivered \in Seq(Seq(Fragments))
  BY <1>1, WriterNumbers DEF TypeOK, WriterTypeOK, ReaderTypeOK
<1>6. CASE wpart = FragmentsOf[wmsg]
  <2>1. wpc' = "idle" /\ written' = Append(written, wmsg)
    BY <1>5, <1>6 DEF WAck
  <2>2. /\ Len(written') = Len(written) + 1 /\ written'[Len(written) + 1] = wmsg
        /\ \A i \in 1 .. Len(written) : written'[i] = written[i]
    BY <1>5, <2>1
  <2>3. LastWritten' = wmsg
    BY <2>2 DEF LastWritten
  <2>4. Holds(wmsg, FragmentsOf[wmsg])
    BY <1>3, <1>6
  <2>5. Holds(LastWritten, FragmentsOf[LastWritten])'
    BY <1>1, <2>3, <2>4 DEF readerVars, Holds
  <2>6. Finished'
    BY <1>1, <1>3, <1>4, <2>1, <2>2, <2>5 DEF Finished
  <2>7. Faithful'
    BY <1>1, <1>3, <1>5, <2>2 DEF LockInv, Faithful
  <2>8. Accepts
    BY <1>1, <1>3, <1>5, <2>1 DEF Accepts
  <2> QED BY <1>1, <2>1, <2>6, <2>7, <2>8 DEF LockInv, InStep
<1>7. CASE wpart < FragmentsOf[wmsg]
  <2>1. wpc' = "send" /\ wpart' = wpart + 1 /\ UNCHANGED <<wmsg, written>>
    BY <1>5, <1>7 DEF WAck
  <2>2. SentParts' = wpart /\ Base' = wpart /\ GroupSeq' = wseq'
    BY <1>1, <1>5, <2>1 DEF SentParts, Base, GroupSeq
  <2>3. ~IsSingle(wmsg) /\ wgroup = AckAfter
    <3>1. ~IsSingle(wmsg)
      BY <1>5, <1>7 DEF IsSingle
    <3>2. wgroup = WriterAckAfter(wmsg)
      BY <1>1, <1>5, <1>7 DEF LockInv, WriterGroup
    <3> QED BY <1>5, <3>1, <3>2
  <2>4. wpart % AckAfter = 0
    <3>1. Base \in Nat /\ Base % AckAfter = 0 /\ wpart = Base + AckAfter
      BY <1>1, <1>5, <2>3 DEF LockInv, WriterGroup, Base, SentParts
    <3> QED BY <1>5, <3>1, Remainders
  <2>5. WriterGroup'
    <3>1. WriterAckAfter(wmsg)' > 0
      BY <1>5, <2>1 DEF WriterAckAfter, IsSingle
    <3> QED BY <1>1, <1>5, <2>1, <2>2, <2>4, <3>1 DEF WriterGroup
  <2>6. Carries(1, Base)'
    BY <1>1, <1>3, <1>4, <1>5, <2>2 DEF Carries
  <2>7. Holds(wmsg, Base)'
    BY <1>1, <1>3, <2>1, <2>2 DEF readerVars, Holds
  <2>8. NextSeq(rseq)' = GroupSeq'
    BY <1>1, <1>3, <2>2 DEF NextSeq
  <2>9. ~IsSingle(wmsg)' /\ Base' \in 1 .. FragmentsOf[wmsg'] - 1
    BY <1>5, <1>7, <2>1, <2>2, <2>3 DEF IsSingle
  <2>10. Following'
    BY <1>1, <1>3, <1>4, <2>1, <2>6, <2>7, <2>8, <2>9 DEF Following, Level
  <2>11. Faithful'
    BY <1>1, <2>1 DEF LockInv, Faithful
  <2> QED BY <1>1, <2>1, <2>5, <2>10, <2>11 DEF LockInv, InStep
<1> QED BY <1>5, <1>6, <1>7

\* The writer's timeout strikes only when the reader dropped the group.
LEMMA TimeoutInStep ==
  ASSUME TypeOK, LockInv, WTimeout
  PROVE  LockInv'
<1>1. /\ wpc = "wait" /\ toW = <<>> /\ toR = <<>> /\ rpc # "sack"
      /\ UNCHANGED <<toR, toW, faults, written, twin, delivered>>
      /\ UNCHANGED readerVars
  <2>1. ~Spend("early")
    BY NoFault DEF LockInv
  <2> QED BY <2>1 DEF WTimeout, ReaderSilent, readerVars
<1>2. /\ SentParts > 0 /\ SentParts \in Nat /\ Base \in Nat /\ Base < SentParts
      /\ AckAfter \in Nat \ {0} /\ WriterGroup
  <2>1. WriterGroup /\ wgroup \in Nat \ {0}
    BY <1>1, WriterNumbers DEF LockInv, WriterGroup
  <2>2. SentParts = wpart /\ wpart \in Nat \ {0} /\ AckAfter \in Nat \ {0}
    BY <1>1, WriterNumbers DEF SentParts
  <2> QED BY <2>1, <2>2 DEF WriterGroup, Base
<1>3. Stranded
  <2>1. Len(toR) = 0
    BY <1>1
  <2>2. ~Coming
    BY <1>2, <2>1 DEF Coming, Carries
  <2>3. ~Following
    BY <1>1 DEF Following, Shutting
  <2>4. ~Finished
    BY <1>1 DEF Finished, Shutting
  <2> QED BY <1>1, <2>2, <2>3, <2>4 DEF LockInv, InStep, Quiet, Reading, Answering, Answered,
     Closing
<1>4. Fresh' /\ Level' /\ Silent' /\ faults["any"]' = 0 /\ twin' = <<>> /\ Faithful'
  BY <1>1, <1>3, ReaderSame DEF Stranded, Level, Silent, LockInv, Faithful
<1>5. CASE UNCHANGED <<wpc, wmsg, wpart, wseq, wgroup>>
  <2>1. WriterGroup'
    BY <1>2, <1>5, WriterSame
  <2> QED BY <1>1, <1>4, <1>5, <2>1 DEF LockInv, InStep, Stranded
<1>6. CASE WAbort
  <2>1. wgroup' = 0 /\ (WriteThrows \/ FirstFragment)
    BY <1>6 DEF WAbort
  <2>2. CASE WriteThrows
    <3>1. wpc' = "idle"
      BY <2>2 DEF WriteThrows
    <3> QED BY <1>4, <2>1, <3>1 DEF LockInv, InStep, Quiet
  <2>3. CASE FirstFragment
    <3>1. wpc' = "send" /\ wpart' = 1 /\ wseq' = 0 /\ wmsg' = wmsg
      BY <2>3 DEF FirstFragment
    <3>2. SentParts' = 0 /\ Base' = 0 /\ GroupSeq' = 0
      BY <2>1, <3>1 DEF SentParts, Base, GroupSeq
    <3>3. WriterGroup'
      <4>1. WriterAckAfter(wmsg') > 0 /\ 0 % AckAfter = 0
        BY <1>2 DEF WriterAckAfter
      <4> QED BY <2>1, <3>1, <3>2, <4>1 DEF WriterGroup
    <3>4. Carries(0, 0)'
      BY <1>4, <3>2 DEF Carries, Silent
    <3> QED BY <1>4, <3>1, <3>2, <3>3, <3>4 DEF LockInv, InStep, Coming
  <2> QED BY <2>1, <2>2, <2>3
<1> QED BY <1>5, <1>6 DEF WTimeout

\* A call of read() that begins, or begins anew, has nothing yet.
LEMMA FreshStep ==
  ASSUME LockInv, Fresh, Fresh', rpc # "ack",
         UNCHANGED <<toR, toW, writerVars, faults, twin, delivered>>
  PROVE  LockInv'
<1>1. UNCHANGED <<wpc, wmsg, wpart, wseq, wgroup, written>>
  BY DEF writerVars
<1>2. SentParts' = SentParts /\ Base' = Base /\ (WriterGroup => WriterGroup')
  BY <1>1, WriterSame
<1>3. (Silent => Silent') /\ (Carries(0, 0) => Carries(0, 0)')
  BY <1>1, WriterSame
<1>4. Level => Level'
  BY <1>1 DEF Level
<1>5. Quiet \/ Stranded \/ Coming
  <2>1. rpc \in {"idle", "data"} /\ (rpc = "data" => rbuf = <<>>)
    BY DEF Fresh, Blank
  <2>2. ~Reading
    BY <2>1 DEF Reading
  <2> QED BY <2>1, <2>2 DEF LockInv, InStep, Answering, Answered, Closing, Following, Finished
<1>6. InStep'
  <2>1. Quiet => Quiet'
    BY <1>1, <1>3, <1>4 DEF Quiet
  <2>2. Stranded => Stranded'
    BY <1>1, <1>3, <1>4 DEF Stranded
  <2>3. Coming => Coming'
    BY <1>1, <1>2, <1>3, <1>4 DEF Coming
  <2> QED BY <1>5, <2>1, <2>2, <2>3 DEF InStep
<1>7. faults["any"]' = 0 /\ twin' = <<>> /\ Faithful'
  BY <1>1 DEF LockInv, Faithful
<1> QED BY <1>1, <1>2, <1>6, <1>7 DEF LockInv

LEMMA ReadStartInStep ==
  ASSUME LockInv, RStart
  PROVE  LockInv'
<1>1. Fresh /\ Fresh' /\ rpc # "ack"
  BY DEF RStart, Restart, Fresh, Blank
<1>2. UNCHANGED <<toR, toW, writerVars, faults, twin, delivered>>
  BY DEF RStart
<1> QED BY <1>1, <1>2, FreshStep

\* The reader's timeout strikes only where it waits for a message to begin.
LEMMA ReadTimeoutInStep ==
  ASSUME TypeOK, LockInv, RTimeout
  PROVE  LockInv' /\ UNCHANGED delivered
<1>1. /\ WriterSilent /\ UNCHANGED <<toR, toW, writerVars, faults>>
      /\ rpc \in {"data", "ack"}
  <2>1. ~Spend("early")
    BY NoFault DEF LockInv
  <2> QED BY <2>1 DEF RTimeout
<1>2. /\ toR = <<>> /\ Len(toR) = 0
      /\ wpc = "idle" \/ (wpc = "wait" /\ toW = <<>>)
  BY <1>1 DEF WriterSilent
<1>3. ~Coming /\ ~Reading /\ ~Answering /\ ~Answered /\ ~Closing /\ ~Following /\ ~Finished
  <2>1. ~Coming
    <3>1. wpc = "wait" => SentParts \in Nat /\ SentParts > 0
      BY WriterNumbers DEF SentParts
    <3> QED BY <1>2, <3>1 DEF Coming, Carries
  <2>2. ~Reading /\ ~Following /\ ~Finished
    BY <1>2 DEF Reading, Following, Finished, Shutting
  <2>3. ~Answering /\ ~Answered /\ ~Closing
    BY <1>1, <1>2 DEF Answering, Answered, Closing
  <2> QED BY <2>1, <2>2, <2>3
<1>4. Fresh /\ rpc = "data" /\ Blank
  BY <1>1, <1>3 DEF LockInv, InStep, Quiet, Stranded, Fresh
<1>5. RRetryFrame(RAbortData)
  BY <1>4 DEF RTimeout
<1>6. Fresh' /\ UNCHANGED <<twin, delivered>>
  <2>1. CASE RAbortData
    BY <2>1 DEF RAbortData, ReadThrows, Restart, Fresh, Blank
  <2>2. CASE UNCHANGED <<rpc, rseq, rgroup, rmulti, rlast, rprev, rbuf, rfull, rcap,
                         twin, delivered>>
    BY <1>4, <2>2 DEF Fresh, Blank
  <2> QED BY <1>5, <2>1, <2>2 DEF RRetryFrame
<1> QED BY <1>1, <1>4, <1>6, FreshStep

\* Acknowledging a group.
LEMMA AnswerInStep ==
  ASSUME Undisturbed, LockInv, RSendAck
  PROVE  LockInv'
<1>1. /\ rpc = "sack" /\ toW' = Sent(toW, AckFrame(rseq)) /\ rpc' = "ack"
      /\ rgroup' = 0 /\ rseq' = NextSeq(rseq)
      /\ UNCHANGED <<toR, wpc, wmsg, wpart, wseq, wgroup, written, rmulti, rlast, rprev,
                     rbuf, rcap, twin, delivered, faults>>
  BY DEF RSendAck, writerVars
<1>2. Answering
  BY <1>1 DEF LockInv, InStep, Quiet, Stranded, Coming, Reading, Answered, Closing,
     Following, Finished, Fresh
<1>3. toR' = <<>> /\ toW' = <<AckFrame(rseq)>> /\ rseq = wseq
  <2>1. SocketBuf > 0
    BY SprotAssumption DEF Undisturbed
  <2> QED BY <1>1, <1>2, <2>1 DEF Answering, Silent, Sent
<1>4. AckFrame(wseq)' = AckFrame(rseq) /\ NextSeq(wseq)' = NextSeq(rseq)
  BY <1>1, <1>3 DEF AckFrame, NextSeq
<1>5. Holds(wmsg, wpart)'
  BY <1>1, <1>2 DEF Answering, Holds
<1>6. Answered'
  BY <1>1, <1>2, <1>3, <1>4, <1>5 DEF Answering, Answered, Level
<1>7. WriterGroup'
  BY <1>1, <1>2, WriterSame DEF LockInv, Answering
<1> QED BY <1>1, <1>6, <1>7 DEF LockInv, InStep, Faithful

\* The frame at the head of a channel is taken.
LEMMA HeadTaken ==
  ASSUME TypeOK, toR # <<>>, toR' = Tail(toR), UNCHANGED <<toW, writerVars>>,
         wpc # "idle"
  PROVE  /\ Carries(1, Base) => Carries(0, Base)'
         /\ Carries(1, 0) => Carries(0, 0)'
         /\ \A c \in 0 .. SentParts : Carries(0, c) =>
              /\ c < SentParts /\ Head(toR) = DataFrame(wmsg, c + 1, GroupSeq)
              /\ Carries(0, c + 1)'
<1>1. /\ SentParts \in Nat /\ Base \in Int /\ toR \in Seq(Frame)
      /\ UNCHANGED <<wpc, wmsg, wpart, wseq, wgroup>>
  <2>1. SentParts \in Nat /\ wgroup \in Nat
    BY WriterNumbers
  <2> QED BY <2>1 DEF Base, TypeOK, ChannelTypeOK, writerVars
<1>2. SentParts' = SentParts /\ Base' = Base /\ GroupSeq' = GroupSeq /\ wmsg' = wmsg
  BY <1>1, WriterSame
<1>3. /\ Len(toR) \in Nat /\ Len(toR) > 0 /\ Head(toR) = toR[1]
      /\ Len(toR') = Len(toR) - 1
      /\ \A i \in 1 .. Len(toR) - 1 : toR'[i] = toR[i + 1]
  BY <1>1
<1>4. ASSUME NEW c \in Int, Carries(1, c)
      PROVE  Carries(0, c)'
  <2>1. /\ toW = <<>> /\ Len(toR) = 1 + (SentParts - c)
        /\ \A i \in 1 .. SentParts - c :
             toR[1 + i] = DataFrame(wmsg, c + i, GroupSeq)
    BY <1>4 DEF Carries
  <2>2. ASSUME NEW i \in 1 .. SentParts - c
        PROVE  toR'[0 + i] = DataFrame(wmsg, c + i, GroupSeq)
    BY <1>1, <1>3, <2>1
  <2> QED BY <1>1, <1>2, <1>3, <2>1, <2>2 DEF Carries
<1>5. ASSUME NEW c \in 0 .. SentParts, Carries(0, c)
      PROVE  /\ c < SentParts /\ Head(toR) = DataFrame(wmsg, c + 1, GroupSeq)
             /\ Carries(0, c + 1)'
  <2>1. /\ toW = <<>> /\ Len(toR) = 0 + (SentParts - c)
        /\ \A i \in 1 .. SentParts - c :
             toR[0 + i] = DataFrame(wmsg, c + i, GroupSeq)
    BY <1>5 DEF Carries
  <2>2. c < SentParts
    BY <1>1, <1>3, <2>1
  <2>3. Head(toR) = DataFrame(wmsg, c + 1, GroupSeq)
    BY <1>1, <1>3, <2>1, <2>2
  <2>4. ASSUME NEW i \in 1 .. SentParts - (c + 1)
        PROVE  toR'[0 + i] = DataFrame(wmsg, (c + 1) + i, GroupSeq)
    <3>1. toR'[i] = toR[i + 1] /\ i + 1 \in 1 .. SentParts - c
      BY <1>1, <1>3, <2>1
    <3>2. c + (i + 1) = (c + 1) + i /\ 0 + i = i /\ 0 + (i + 1) = i + 1
      BY <1>1
    <3> QED BY <2>1, <3>1, <3>2
  <2> QED BY <1>1, <1>2, <1>3, <2>1, <2>2, <2>3, <2>4 DEF Carries
<1>6. (Carries(1, Base) => Carries(0, Base)') /\ (Carries(1, 0) => Carries(0, 0)')
  BY <1>1, <1>2, <1>4
<1> QED BY <1>5, <1>6

\* The closing ACK of a group, which ends the message after its last group.
LEMMA ClosedInStep ==
  ASSUME TypeOK, LockInv, RRecvAck
  PROVE  LockInv' /\ (UNCHANGED delivered \/ Obtains)
<1>1. /\ rpc = "ack" /\ toR # <<>> /\ toR' = Tail(toR)
      /\ UNCHANGED <<toW, writerVars, faults>>
      /\ UNCHANGED <<wpc, wmsg, wpart, wseq, wgroup, written>>
  BY DEF RRecvAck, writerVars
<1>2. Following \/ Finished
  BY <1>1 DEF LockInv, InStep, Quiet, Stranded, Coming, Reading, Answering, Answered, Closing,
     Fresh, Silent
<1>3. Head(toR) = AckFrame(rseq)
  BY <1>1, <1>2 DEF Following, Finished, Shutting, TypeOK, ChannelTypeOK
<1>4. /\ SentParts' = SentParts /\ Base' = Base /\ GroupSeq' = GroupSeq
      /\ WriterGroup => WriterGroup'
  BY <1>1, WriterSame
<1>5. CASE Following
  <2>1. /\ wpc \in {"send", "wait"} /\ ~IsSingle(wmsg) /\ Base \in 1 .. FragmentsOf[wmsg] - 1
        /\ Holds(wmsg, Base) /\ Carries(1, Base) /\ rgroup = 0
        /\ NextSeq(rseq) = GroupSeq /\ Level
    BY <1>5 DEF Following
  <2>2. /\ wmsg \in Messages /\ FragmentsOf[wmsg] \in Nat \ {0} /\ SentParts \in Nat
        /\ wgroup \in Nat /\ WriterGroup /\ (wpc = "wait" => wgroup > 0)
    <3>1. wpc = "wait" => wgroup \in 1 .. WriterAckAfter(wmsg)
      BY <2>1 DEF LockInv, WriterGroup
    <3> QED BY <2>1, <3>1, WriterNumbers DEF LockInv
  <2>3. Base <= SentParts /\ (wpc = "wait" => Base < SentParts)
    BY <2>1, <2>2 DEF Base, WriterGroup
  <2>4. ~MessageComplete
    <3>1. Base \in 1 .. FragmentsOf[wmsg] /\ Base # FragmentsOf[wmsg]
      BY <2>1, <2>2
    <3>2. FragmentType(wmsg, Base) # "LAST"
      BY <2>1, <2>2, <3>1, Roles
    <3> QED BY <2>1, <3>2 DEF Holds, MessageComplete
  <2>5. /\ rpc' = "data" /\ rseq' = NextSeq(rseq)
        /\ UNCHANGED <<rgroup, rmulti, rlast, rprev, rbuf, rcap, twin, delivered>>
    BY <1>3, <2>4 DEF RRecvAck, AckFrame
  <2>6. Carries(0, Base)'
    BY <1>1, <2>1, HeadTaken
  <2>7. Len(rbuf) = Base
    <3>1. rbuf = [k \in 1 .. Base |-> <<wmsg, k>>] /\ Base \in Nat
      BY <2>1 DEF Holds
    <3> QED BY <3>1
  <2>8. Len(rbuf)' = Base /\ Carries(0, Len(rbuf))' /\ Holds(wmsg, Len(rbuf))'
    <3>1. Len(rbuf)' = Base
      BY <2>5, <2>7
    <3>2. Carries(0, Len(rbuf))'
      BY <1>4, <2>6, <3>1
    <3>3. Holds(wmsg, Len(rbuf))'
      BY <1>1, <2>1, <2>5, <3>1 DEF Holds
    <3> QED BY <3>1, <3>2, <3>3
  <2>9. wpc = "wait" => toR' # <<>>
    <3>1. Len(toR') = SentParts - Base
      BY <1>4, <2>1, <2>2, <2>6 DEF Carries
    <3>2. wpc = "wait" => Len(toR') # 0
      BY <2>1, <2>2, <2>3, <3>1
    <3>3. toR' = <<>> => Len(toR') = 0
      OBVIOUS
    <3> QED BY <3>2, <3>3
  <2>10. Reading'
    <3>1. ~IsSingle(wmsg)' /\ Level'
      BY <1>1, <2>1, <2>5 DEF IsSingle, Level
    <3>2. /\ Len(rbuf)' \in 1 .. SentParts' /\ Base' <= Len(rbuf)'
          /\ Len(rbuf)' < FragmentsOf[wmsg']
      BY <1>1, <1>4, <2>1, <2>2, <2>3, <2>8
    <3>3. rseq' = GroupSeq' /\ rgroup' = Len(rbuf)' - Base'
      BY <1>4, <2>1, <2>5, <2>8
    <3> QED BY <1>1, <2>1, <2>5, <2>8, <2>9, <3>1, <3>2, <3>3 DEF Reading
  <2> QED BY <1>1, <1>4, <2>1, <2>2, <2>5, <2>10 DEF LockInv, InStep, Faithful
<1>6. CASE Finished
  <2> DEFINE m == LastWritten
  <2>1. /\ Len(written) = Len(delivered) + 1 /\ Holds(m, FragmentsOf[m])
        /\ \/ wpc = "idle" /\ toW = <<>> /\ Len(toR) = 1
           \/ wpc \in {"send", "wait"} /\ Base = 0 /\ Carries(1, 0)
    BY <1>6 DEF Finished
  <2>2. /\ written \in Seq(Messages) /\ delivered \in Seq(Seq(Fragments))
        /\ rbuf \in Seq(Fragments) /\ toR \in Seq(Frame)
    BY DEF TypeOK, WriterTypeOK, ReaderTypeOK, ChannelTypeOK
  <2>3. m \in Messages /\ m = written[Len(delivered) + 1]
    BY <2>1, <2>2 DEF LastWritten
  <2>4. FragmentsOf[m] \in Nat \ {0}
    BY <2>3, SprotAssumption
  <2> HIDE DEF m
  <2>5. rbuf = Whole(m) /\ rbuf # <<>>
    <3>1. rbuf = Whole(m)
      BY <2>1 DEF Holds, Whole
    <3>2. Len(rbuf) = FragmentsOf[m]
      BY <2>4, <3>1 DEF Whole
    <3> QED BY <2>4, <3>1, <3>2
  <2>6. MessageComplete
    <3>1. FragmentsOf[m] \in 1 .. FragmentsOf[m]
      BY <2>4
    <3>2. IsSingle(m) \/ FragmentType(m, FragmentsOf[m]) = "LAST"
      BY <2>3, <3>1, Roles
    <3> QED BY <2>1, <3>2 DEF Holds, MessageComplete
  <2>7. CompleteRead
    BY <1>3, <2>6 DEF RRecvAck, AckFrame
  <2>8. /\ twin' = <<>> /\ rpc' = "idle" /\ delivered' = Append(delivered, rbuf)
    BY <2>5, <2>7 DEF CompleteRead, ReadReturns, LockInv
  <2>9. /\ Len(delivered') = Len(delivered) + 1
        /\ delivered'[Len(delivered) + 1] = rbuf
        /\ \A i \in 1 .. Len(delivered) : delivered'[i] = delivered[i]
    BY <2>2, <2>8
  <2>10. Faithful' /\ Level' /\ Fresh'
    <3>1. Level' /\ Fresh'
      BY <1>1, <2>1, <2>8, <2>9 DEF Level, Fresh
    <3>2. ASSUME NEW i \in 1 .. Len(delivered')
          PROVE  delivered'[i] = Whole(written[i])
      <4>1. i \in 1 .. Len(delivered) \/ i = Len(delivered) + 1
        BY <2>2, <2>9
      <4> QED BY <2>3, <2>5, <2>9, <4>1 DEF LockInv, Faithful
    <3> QED BY <1>1, <3>1, <3>2 DEF Faithful, Whole
  <2>11. Obtains
    BY <1>1, <2>1, <2>3, <2>5, <2>8 DEF Obtains, m
  <2>12. CASE wpc = "idle" /\ toW = <<>> /\ Len(toR) = 1
    <3>1. toR' = <<>>
      BY <1>1, <2>2, <2>12
    <3>2. Quiet'
      BY <1>1, <2>10, <2>12, <3>1 DEF Quiet, Silent
    <3> QED BY <1>1, <2>8, <2>10, <2>11, <2>12, <3>2 DEF LockInv, InStep
  <2>13. CASE wpc \in {"send", "wait"} /\ Base = 0 /\ Carries(1, 0)
    <3>1. Carries(0, 0)'
      BY <1>1, <2>13, HeadTaken
    <3>2. Coming'
      BY <1>1, <1>4, <2>10, <2>13, <3>1 DEF Coming
    <3> QED BY <1>1, <1>4, <2>8, <2>10, <2>11, <2>13, <3>2 DEF LockInv, InStep
  <2> QED BY <2>1, <2>12, <2>13
<1> QED BY <1>2, <1>5, <1>6

\* A channel without a frame is empty.
LEMMA EmptyChannel ==
  ASSUME NEW S, NEW q \in Seq(S), Len(q) = 0
  PROVE  q = <<>>
  OBVIOUS

\* What appending gives, element by element.
LEMMA AppendIs ==
  ASSUME NEW S, NEW q \in Seq(S), NEW x \in S, NEW r \in Seq(S),
         Len(r) = Len(q) + 1, r[Len(q) + 1] = x,
         \A k \in 1 .. Len(q) : r[k] = q[k]
  PROVE  Append(q, x) = r
  OBVIOUS

\* What the reader finds when it takes the next frame of a message of which it
\* has c fragments: the group ends for it where it ended for the writer.
LEMMA NextFragment ==
  ASSUME TypeOK, LockInv, RRecvData
  PROVE  \E c \in Nat :
           /\ wpc \in {"send", "wait"} /\ Base <= c /\ c < SentParts
           /\ SentParts <= FragmentsOf[wmsg] /\ SentParts \in Nat /\ Base \in Nat
           /\ Head(toR) = DataFrame(wmsg, c + 1, GroupSeq) /\ Carries(0, c + 1)'
           /\ rseq = GroupSeq /\ rgroup = c - Base /\ c <= ReadBufs[rcap]
           /\ rbuf = [k \in 1 .. c |-> <<wmsg, k>>]
           /\ rprev = IF c = 0 THEN "UNDEF" ELSE FragmentType(wmsg, c)
           /\ c > 0 => ~IsSingle(wmsg)
           /\ rmulti <=> c > 0
           /\ ~rlast /\ Level
<1>1. /\ rpc = "data" /\ toR # <<>> /\ toR' = Tail(toR)
      /\ UNCHANGED <<toW, writerVars>>
  BY DEF RRecvData
<1>2. Coming \/ Reading
  BY <1>1 DEF LockInv, InStep, Quiet, Stranded, Answering, Answered, Closing, Following,
     Finished, Silent
<1>3. /\ wpc \in {"send", "wait"} /\ wpc # "idle" /\ WriterGroup
      /\ wmsg \in Messages /\ SentParts \in 0 .. FragmentsOf[wmsg]
      /\ FragmentsOf[wmsg] \in Nat \ {0} /\ wgroup \in Nat
  <2>1. wpc \in {"send", "wait"} /\ wpc # "idle"
    BY <1>2 DEF Coming, Reading
  <2> QED BY <2>1, WriterNumbers DEF LockInv
<1>4. Base \in Nat /\ Base <= SentParts
  BY <1>3 DEF WriterGroup, Base
<1>5. \A c \in 0 .. SentParts : Carries(0, c) =>
        /\ c < SentParts /\ Head(toR) = DataFrame(wmsg, c + 1, GroupSeq)
        /\ Carries(0, c + 1)'
  BY <1>1, <1>3, HeadTaken
<1>6. CASE Coming
  <2>1. /\ Blank /\ Base = 0 /\ GroupSeq = 0 /\ Carries(0, 0) /\ Level
    BY <1>1, <1>3, <1>6 DEF Coming, Fresh, WriterGroup
  <2>2. rbuf = [k \in 1 .. 0 |-> <<wmsg, k>>]
    BY <2>1 DEF Blank
  <2>3. ReadBufs[rcap] \in Nat
    BY SprotAssumption DEF TypeOK, ReaderTypeOK
  <2>4. /\ 0 < SentParts /\ Head(toR) = DataFrame(wmsg, 0 + 1, GroupSeq)
        /\ Carries(0, 0 + 1)'
    BY <1>3, <1>5, <2>1
  <2>5. /\ rseq = GroupSeq /\ rgroup = 0 - Base /\ 0 <= ReadBufs[rcap]
        /\ rprev = "UNDEF" /\ ~rmulti /\ ~rlast
    BY <2>1, <2>3 DEF Blank
  <2> WITNESS 0 \in Nat
  <2> QED BY <1>3, <1>4, <2>1, <2>2, <2>4, <2>5
<1>7. CASE Reading
  <2> PICK d \in Nat : d = Len(rbuf)
    BY <1>3, <1>7 DEF Reading
  <2>1. /\ d \in 1 .. SentParts /\ Base <= d /\ d < FragmentsOf[wmsg] /\ d \in Nat
        /\ Holds(wmsg, d) /\ Carries(0, d) /\ ~IsSingle(wmsg)
        /\ rseq = GroupSeq /\ rgroup = d - Base /\ Level
    BY <1>3, <1>7 DEF Reading
  <2>2. /\ d < SentParts /\ Head(toR) = DataFrame(wmsg, d + 1, GroupSeq)
        /\ Carries(0, d + 1)'
    BY <1>3, <1>5, <2>1
  <2>3. FragmentType(wmsg, d) # "LAST"
    <3>1. d \in 1 .. FragmentsOf[wmsg] /\ d # FragmentsOf[wmsg]
      BY <1>3, <2>1
    <3> QED BY <1>3, <2>1, <3>1, Roles
  <2>4. /\ rbuf = [k \in 1 .. d |-> <<wmsg, k>>] /\ d <= ReadBufs[rcap]
        /\ rprev = FragmentType(wmsg, d) /\ rmulti /\ ~rlast
    BY <2>1, <2>3 DEF Holds
  <2>5. d # 0 /\ d > 0
    BY <1>3, <2>1
  <2> WITNESS d \in Nat
  <2> QED BY <1>3, <1>4, <2>1, <2>2, <2>4, <2>5
<1> QED BY <1>2, <1>6, <1>7

\* What arrives is a data frame with the number the reader expects.
LEMMA ExpectedData ==
  ASSUME TypeOK, LockInv, RRecvData
  PROVE  Head(toR).type # "ACK" /\ Head(toR).sound /\ Head(toR).seq = rseq
<1>1. PICK c \in Nat : Head(toR) = DataFrame(wmsg, c + 1, GroupSeq) /\ rseq = GroupSeq
  BY NextFragment
<1> QED BY <1>1 DEF DataFrame, FragmentType

\* Receiving a fragment.
LEMMA DataInStep ==
  ASSUME Undisturbed, TypeOK, LockInv, RRecvData
  PROVE  LockInv'
<1>1. PICK c \in Nat :
        /\ wpc \in {"send", "wait"} /\ Base <= c /\ c < SentParts
        /\ SentParts <= FragmentsOf[wmsg] /\ SentParts \in Nat /\ Base \in Nat
        /\ Head(toR) = DataFrame(wmsg, c + 1, GroupSeq) /\ Carries(0, c + 1)'
        /\ rseq = GroupSeq /\ rgroup = c - Base /\ c <= ReadBufs[rcap]
        /\ rbuf = [k \in 1 .. c |-> <<wmsg, k>>]
        /\ rprev = IF c = 0 THEN "UNDEF" ELSE FragmentType(wmsg, c)
        /\ c > 0 => ~IsSingle(wmsg)
        /\ rmulti <=> c > 0
        /\ ~rlast /\ Level
  BY NextFragment
<1>2. /\ UNCHANGED <<toW, wpc, wmsg, wpart, wseq, wgroup, written, faults>>
      /\ toR' = Tail(toR) /\ rpc = "data"
  BY DEF RRecvData, writerVars
<1>3. /\ wmsg \in Messages /\ FragmentsOf[wmsg] \in Nat \ {0} /\ AckAfter \in Nat \ {0}
      /\ wgroup \in Nat /\ wseq \in 0 .. SeqLimit - 1 /\ wpart \in 1 .. FragmentsOf[wmsg]
      /\ WriterAckAfter(wmsg) \in 1 .. AckAfter
      /\ (~IsSingle(wmsg) => WriterAckAfter(wmsg) = AckAfter)
      /\ WriterGroup /\ twin = <<>> /\ faults["any"] = 0 /\ Faithful
  <2>1. wpc # "idle"
    BY <1>1
  <2> QED BY <2>1, WriterNumbers DEF LockInv
<1>4. SentParts' = SentParts /\ Base' = Base /\ GroupSeq' = GroupSeq /\ WriterGroup'
  BY <1>2, <1>3, WriterSame
<1> DEFINE T == FragmentType(wmsg, c + 1)
           g == c + 1 - Base
           isLast == c + 1 = FragmentsOf[wmsg]
<1>5. /\ Head(toR).type = T /\ Head(toR).seq = rseq /\ Head(toR).sound
      /\ Head(toR).data = <<wmsg, c + 1>> /\ T \in DataTypes
      /\ IsSingle(wmsg) => T = "SINGLE" /\ c + 1 = 1 /\ isLast
      /\ ~IsSingle(wmsg) => /\ T = "LAST" <=> isLast
                            /\ T = "FIRST" <=> c + 1 = 1
  <2>1. c + 1 \in 1 .. FragmentsOf[wmsg]
    BY <1>1, <1>3
  <2>2. /\ T \in DataTypes
        /\ IsSingle(wmsg) => T = "SINGLE" /\ c + 1 = 1
        /\ ~IsSingle(wmsg) => /\ T = "LAST" <=> isLast
                              /\ T = "FIRST" <=> c + 1 = 1
    BY <1>3, <2>1, Roles
  <2>3. IsSingle(wmsg) => isLast
    BY <2>2 DEF IsSingle
  <2> HIDE DEF T, isLast
  <2> QED BY <1>1, <2>2, <2>3 DEF DataFrame, T
<1>6. T # "ACK"
  BY <1>5 DEF DataTypes
<1>7. AcceptData(Head(toR))
  <2> HIDE DEF T
  <2> QED BY <1>5, <1>6 DEF RRecvData
<1>8. g \in 1 .. AckAfter /\ rgroup + 1 = g
  <2>1. SentParts - Base = wgroup
    BY <1>1, <1>3 DEF Base
  <2>2. wgroup <= AckAfter
    BY <1>1, <1>3 DEF WriterGroup
  <2> QED BY <1>1, <1>3, <2>1, <2>2
<1>9. (g = AckAfter \/ isLast) <=> (wpc = "wait" /\ SentParts = c + 1)
  <2>1. SentParts - Base = wgroup /\ (wpc = "wait" => SentParts = wpart)
    BY <1>1, <1>3 DEF Base, SentParts
  <2>2. wpc = "send" => SentParts < FragmentsOf[wmsg] /\ wgroup < AckAfter
    <3>1. wpc = "send" => wgroup < WriterAckAfter(wmsg)
      BY <1>3 DEF WriterGroup
    <3> QED BY <1>1, <1>3, <3>1, WriterNumbers
  <2>3. wpc = "wait" => wgroup <= AckAfter
    BY <1>3 DEF WriterGroup
  <2>4. wpc = "wait" => wgroup = WriterAckAfter(wmsg) \/ wpart = FragmentsOf[wmsg]
    BY <1>3 DEF WriterGroup
  <2>5. g = AckAfter \/ isLast => wpc = "wait" /\ SentParts = c + 1
    BY <1>1, <1>3, <2>1, <2>2, <2>3
  <2>6. wpc = "wait" /\ SentParts = c + 1 => g = AckAfter \/ isLast
    <3>1. IsSingle(wmsg) => isLast
      BY <1>5
    <3> QED BY <1>1, <1>3, <2>1, <2>4, <3>1
  <2> QED BY <2>5, <2>6
<1>10. g % AckAfter = 0 <=> g = AckAfter
  BY <1>3, <1>8, GroupEnds
<1> DEFINE E == g = AckAfter \/ isLast
           more == [k \in 1 .. c + 1 |-> <<wmsg, k>>]
<1>11. Len(toR') = SentParts - (c + 1) /\ toW' = <<>>
  BY <1>1, <1>4 DEF Carries
<1>12. Tail(toR) \in Seq(Frame)
  BY DEF TypeOK, ChannelTypeOK, RRecvData
<1>13. ~(T = "FIRST" /\ T = rprev) /\ ~(T = "LAST" /\ T = rprev)
  <2>1. c = 0 => rprev = "UNDEF" /\ rprev # T
    BY <1>1, <1>5 DEF DataTypes
  <2>2. c > 0 /\ T = rprev => T # "FIRST"
    BY <1>1, <1>5
  <2>3. c > 0 => rprev # "LAST"
    <3>1. c > 0 => c \in 1 .. FragmentsOf[wmsg] /\ c # FragmentsOf[wmsg]
      BY <1>1, <1>3
    <3> QED BY <1>1, <1>3, <3>1, Roles
  <2> HIDE DEF T
  <2> QED BY <2>1, <2>2, <2>3
<1>14. /\ Append(rbuf, <<wmsg, c + 1>>) = more /\ Len(more) = c + 1
       /\ more # <<>>
  <2>1. /\ rbuf \in Seq(Fragments) /\ Len(rbuf) = c
        /\ \A k \in 1 .. c : rbuf[k] = <<wmsg, k>>
    BY <1>1 DEF TypeOK, ReaderTypeOK
  <2>2. <<wmsg, c + 1>> \in Fragments
    BY <1>3 DEF Fragments
  <2>3. Len(more) = c + 1 /\ more \in Seq(Fragments)
    BY <1>3 DEF Fragments
  <2>4. \A k \in 1 .. c : more[k] = rbuf[k]
    BY <2>1
  <2>5. more[c + 1] = <<wmsg, c + 1>> /\ more # <<>>
    <3>1. c + 1 \in 1 .. c + 1
      OBVIOUS
    <3>2. more[c + 1] = <<wmsg, c + 1>>
      BY <3>1
    <3> HIDE DEF more
    <3> QED BY <2>3, <3>2
  <2> HIDE DEF more
  <2> QED BY <2>1, <2>2, <2>3, <2>4, <2>5, AppendIs
<1>15. (rmulti \/ T = "FIRST") <=> ~IsSingle(wmsg)
  <2>1. c > 0 => rmulti /\ ~IsSingle(wmsg)
    BY <1>1
  <2>2. c = 0 => ~rmulti /\ (T = "FIRST" <=> ~IsSingle(wmsg))
    BY <1>1, <1>5
  <2>3. c = 0 \/ c > 0
    BY <1>1
  <2> HIDE DEF T
  <2> QED BY <2>1, <2>2, <2>3
<1>16. ((rgroup + 1) % AckAfter = 0 \/ T = "LAST" \/ ~(rmulti \/ T = "FIRST")) <=> E
  <2>1. IsSingle(wmsg) => isLast /\ T # "LAST"
    BY <1>5
  <2>2. ~IsSingle(wmsg) => (T = "LAST" <=> isLast)
    BY <1>5
  <2> HIDE DEF T, isLast, g
  <2>3. E <=> (rgroup + 1) % AckAfter = 0 \/ isLast
    BY <1>8, <1>10
  <2> HIDE DEF E
  <2> QED BY <1>15, <2>1, <2>2, <2>3
<1>17. \/ c + 1 > ReadBufs[rcap] /\ Overflow
       \/ /\ c + 1 <= ReadBufs[rcap]
          /\ rgroup' = g /\ (rmulti' <=> ~IsSingle(wmsg)) /\ (rlast' <=> T = "LAST")
          /\ rprev' = T /\ rbuf' = more
          /\ \/ E /\ rpc' = "sack" /\ rseq' = NextSeq(rseq)
             \/ ~E /\ rpc' = "data" /\ rseq' = rseq
          /\ UNCHANGED <<rcap, twin, delivered>>
  <2> DEFINE content == IF Head(toR).type = "LAST" /\ Head(toR).type = rprev THEN rbuf
                        ELSE Append(rbuf, Head(toR).data)
  <2>1. content = more /\ Len(content) = c + 1
    <3> HIDE DEF T, more
    <3> QED BY <1>5, <1>13, <1>14
  <2>2. \/ Len(content) > ReadBufs[rcap] /\ Overflow
        \/ /\ Len(content) <= ReadBufs[rcap]
           /\ rgroup' = rgroup + 1 /\ rmulti' = (rmulti \/ T = "FIRST")
           /\ rlast' = (rlast \/ T = "LAST")
           /\ rprev' = T /\ rbuf' = content
           /\ \/ /\ \/ (rgroup + 1) % AckAfter = 0
                    \/ T = "LAST"
                    \/ ~(rmulti \/ T = "FIRST")
                 /\ rpc' = "sack" /\ rseq' = NextSeq(rseq)
              \/ /\ ~ \/ (rgroup + 1) % AckAfter = 0
                      \/ T = "LAST"
                      \/ ~(rmulti \/ T = "FIRST")
                 /\ rpc' = rpc /\ rseq' = rseq
           /\ UNCHANGED <<rcap, twin, delivered>>
    <3> HIDE DEF T
    <3> QED BY <1>5, <1>7, <1>13 DEF AcceptData
  <2> HIDE DEF content, T, g, E, more
  <2>3. CASE Len(content) > ReadBufs[rcap] /\ Overflow
    BY <2>1, <2>3
  <2>4. CASE ~(Len(content) > ReadBufs[rcap] /\ Overflow)
    BY <1>1, <1>2, <1>8, <1>15, <1>16, <2>1, <2>2, <2>4
  <2> QED BY <2>3, <2>4
<1>18. CASE c + 1 > ReadBufs[rcap] /\ Overflow
  <2>1. /\ rpc' = "idle" /\ UNCHANGED <<twin, delivered>>
    BY <1>18 DEF Overflow, ReadThrows
  <2>2. c = ReadBufs[rcap] /\ Fits(wmsg, ReadBufs[rcap])
    <3>1. ReadBufs[rcap] \in Nat /\ rcap \in 1 .. Len(ReadBufs)
      BY SprotAssumption DEF TypeOK, ReaderTypeOK
    <3> QED BY <1>1, <1>3, <1>18, <3>1 DEF Undisturbed
  <2>3. E
    <3>1. CASE (c + 1) % AckAfter = 0
      <4>1. Base % AckAfter = 0
        BY <1>3 DEF WriterGroup
      <4>2. c + 1 = Base + g
        BY <1>1
      <4> HIDE DEF g
      <4>3. (Base + g) % AckAfter = 0
        BY <3>1, <4>2
      <4>4. Base \in Nat /\ g \in 1 .. AckAfter /\ AckAfter \in Nat \ {0}
        BY <1>1, <1>3, <1>8
      <4>5. g = AckAfter
        BY <4>1, <4>3, <4>4, Remainders
      <4> QED BY <4>5
    <3>2. CASE FragmentsOf[wmsg] = c + 1
      BY <3>2
    <3>3. ~(FragmentsOf[wmsg] <= c)
      BY <1>1, <1>3
    <3> QED BY <2>2, <3>1, <3>2, <3>3 DEF Fits
  <2>4. wpc = "wait" /\ SentParts = c + 1
    BY <1>9, <2>3
  <2>5. toR' = <<>>
    <3>1. toR' \in Seq(Frame)
      BY <1>2, <1>12
    <3>2. Len(toR') = 0
      BY <1>11, <2>4
    <3> QED BY <3>1, <3>2, EmptyChannel
  <2>6. Stranded'
    BY <1>1, <1>2, <1>11, <2>1, <2>4, <2>5 DEF Stranded, Silent, Fresh, Level
  <2> QED BY <1>2, <1>3, <1>4, <2>1, <2>4, <2>6 DEF LockInv, InStep, Faithful
<1>19. ASSUME c + 1 <= ReadBufs[rcap],
              rgroup' = g, rmulti' <=> ~IsSingle(wmsg), rlast' <=> T = "LAST",
              rprev' = T, rbuf' = more, UNCHANGED <<rcap, twin, delivered>>,
              \/ E /\ rpc' = "sack" /\ rseq' = NextSeq(rseq)
              \/ ~E /\ rpc' = "data" /\ rseq' = rseq
       PROVE  LockInv'
  <2>1. Holds(wmsg, c + 1)' /\ Level'
    <3>1. IsSingle(wmsg)' <=> IsSingle(wmsg)
      BY <1>2 DEF IsSingle
    <3> QED BY <1>1, <1>2, <1>19, <3>1 DEF Holds, Level, FragmentType
  <2>2. CASE E /\ rpc' = "sack" /\ rseq' = NextSeq(rseq)
    <3>1. wpc = "wait" /\ SentParts = c + 1
      BY <1>9, <2>2
    <3>2. wpart = c + 1 /\ GroupSeq = PrevSeq(wseq)
      BY <3>1 DEF SentParts, GroupSeq
    <3>3. rseq' = wseq
      BY <1>1, <1>3, <2>2, <3>2, PrevNext
    <3>4. toR' = <<>>
      <4>1. toR' \in Seq(Frame)
        BY <1>2, <1>12
      <4>2. Len(toR') = 0
        BY <1>11, <3>1
      <4> QED BY <4>1, <4>2, EmptyChannel
    <3>5. Holds(wmsg, wpart)'
      BY <1>2, <2>1, <3>2
    <3>6. Answering'
      BY <1>2, <1>11, <2>1, <2>2, <3>1, <3>3, <3>4, <3>5 DEF Answering, Silent
    <3> QED BY <1>2, <1>3, <1>4, <1>19, <3>1, <3>6 DEF LockInv, InStep, Faithful
  <2>3. CASE ~E /\ rpc' = "data" /\ rseq' = rseq
    <3>1. ~(wpc = "wait" /\ SentParts = c + 1) /\ ~isLast
      BY <1>9, <2>3
    <3>2. ~IsSingle(wmsg)
      BY <1>5, <3>1
    <3>3. wpc' = "wait" => toR' # <<>>
      <4>1. wpc = "wait" => Len(toR') # 0
        BY <1>1, <1>11, <3>1
      <4>2. toR' = <<>> => Len(toR') = 0
        OBVIOUS
      <4> QED BY <1>2, <4>1, <4>2
    <3>4. Len(rbuf)' = c + 1
      BY <1>14, <1>19
    <3>5. Holds(wmsg, Len(rbuf))' /\ Carries(0, Len(rbuf))'
      BY <1>1, <2>1, <3>4
    <3>6. /\ Len(rbuf)' \in 1 .. SentParts' /\ Base' <= Len(rbuf)'
          /\ Len(rbuf)' < FragmentsOf[wmsg']
      BY <1>1, <1>2, <1>3, <1>4, <3>1, <3>4
    <3>7. rseq' = GroupSeq' /\ rgroup' = Len(rbuf)' - Base' /\ ~IsSingle(wmsg)'
      BY <1>1, <1>2, <1>4, <1>19, <2>3, <3>2, <3>4 DEF IsSingle
    <3>8. Reading'
      BY <1>1, <1>2, <2>1, <2>3, <3>3, <3>5, <3>6, <3>7 DEF Reading
    <3> QED BY <1>1, <1>2, <1>3, <1>4, <1>19, <3>8 DEF LockInv, InStep, Faithful
  <2> QED BY <1>19, <2>2, <2>3
<1> HIDE DEF T, g, E, more, isLast
<1> QED BY <1>17, <1>18, <1>19

\* No step leaves the nine points; only the two ends of a message change what
\* was written and what was returned.
LEMMA NextInStep ==
  ASSUME Undisturbed, TypeOK, LockInv, Next
  PROVE  LockInv' /\ (UNCHANGED <<written, delivered>> \/ Accepts \/ Obtains)
<1>1. \A kind : ~Spend(kind)
  BY NoFault DEF LockInv
<1>2. ASSUME NEW m \in Messages, WStart(m)
      PROVE  LockInv' /\ UNCHANGED <<written, delivered>>
  BY <1>2, StartInStep DEF WStart, readerVars
<1>3. CASE WSend
  BY <1>3, SendInStep DEF WSend, readerVars
<1>4. CASE WRecv
  BY <1>4, RecvInStep DEF WRecv, readerVars
<1>5. CASE WTimeout
  BY <1>5, TimeoutInStep DEF WTimeout, readerVars
<1>6. CASE WAck
  BY <1>6, AckInStep
<1>7. CASE RStart
  BY <1>7, ReadStartInStep DEF RStart, writerVars
<1>8. CASE RRecvData
  <2>1. LockInv' /\ written' = written
    BY <1>8, DataInStep DEF RRecvData, writerVars
  <2>2. Head(toR).type # "ACK" /\ Head(toR).sound /\ Head(toR).seq = rseq
    BY <1>8, ExpectedData
  <2>3. UNCHANGED delivered
    BY <1>8, <2>2 DEF RRecvData, AcceptData, Overflow
  <2> QED BY <2>1, <2>3
<1>9. CASE RSendAck
  BY <1>9, AnswerInStep DEF RSendAck, writerVars
<1>10. CASE RRecvAck
  <2>1. UNCHANGED written
    BY <1>10 DEF RRecvAck, writerVars
  <2> QED BY <1>10, <2>1, ClosedInStep
<1>11. CASE RTimeout
  <2>1. UNCHANGED written
    BY <1>11 DEF RTimeout, writerVars
  <2> QED BY <1>11, <2>1, ReadTimeoutInStep
<1>12. /\ ~WSendFails /\ ~WFrameExpires /\ ~WCallExpires /\ ~RSendAckFails /\ ~RExpires
       /\ ~NetworkFault /\ ~WCrash /\ ~RCrash
  BY <1>1 DEF WSendFails, WFrameExpires, WCallExpires, RSendAckFails, RExpires,
     NetworkFault, Strike, WCrash, RCrash
<1> QED BY <1>2, <1>3, <1>4, <1>5, <1>6, <1>7, <1>8, <1>9, <1>10, <1>11, <1>12
    DEF Next, Writer, Reader

LEMMA StutterInStep ==
  ASSUME LockInv, UNCHANGED vars
  PROVE  LockInv'
<1>1. /\ UNCHANGED <<toR, toW, writerVars, readerVars, faults>>
      /\ UNCHANGED <<wpc, wmsg, wpart, wseq, wgroup, written>>
      /\ UNCHANGED <<rpc, rseq, rgroup, rmulti, rlast, rprev, rbuf, rcap, twin, delivered>>
  BY DEF vars, writerVars, readerVars
<1>2. /\ SentParts' = SentParts /\ Base' = Base /\ GroupSeq' = GroupSeq
      /\ WriterGroup => WriterGroup'
  BY <1>1, WriterSame
<1>3. InStep'
  BY <1>1, <1>2 DEF LockInv, InStep, Quiet, Stranded, Coming, Reading, Answering, Answered,
     Closing, Following, Finished, Silent, Fresh, Blank, Level, Holds, Carries, Shutting,
     LastWritten
<1> QED BY <1>1, <1>2, <1>3 DEF LockInv, Faithful

LEMMA InitInStep ==
  ASSUME Undisturbed, Init
  PROVE  LockInv
  BY DEF Undisturbed, Init, LockInv, Faithful, InStep, Quiet, Silent, Fresh, Level

\* Undisturbed, the two ends never lose each other: whatever the messages, the
\* group length, the limits and the buffers, each receive of sprot.cpp finds the
\* frame it expects, and a full retry follows a Buffer_Overflow only.
THEOREM InStepAlways ==
  ASSUME Undisturbed
  PROVE  Spec => []LockInv
<1>1. Init => LockInv
  BY InitInStep
<1>2. TypeOK /\ LockInv /\ [Next]_vars => LockInv'
  BY NextInStep, StutterInStep
<1> QED BY <1>1, <1>2, TypeCorrect, PTL DEF Spec

\* A socket that holds a group and a closing ACK never has to drop a datagram:
\* the reader's never holds more, the writer's never more than one.
THEOREM SocketNeverOverflows ==
  ASSUME Undisturbed
  PROVE  Spec => []SocketSuffices
<1>1. TypeOK /\ LockInv => SocketSuffices
  <2> SUFFICES ASSUME TypeOK, LockInv
               PROVE  Len(toR) <= AckAfter + 1 /\ Len(toW) <= 1
    BY DEF SocketSuffices
  <2>1. AckAfter \in Nat \ {0}
    BY SprotAssumption
  <2>2. wpc # "idle" => /\ SentParts \in Nat /\ Base \in Nat /\ SentParts - Base \in 0 .. AckAfter
    <3>1. CASE wpc # "idle"
      <4>1. /\ WriterGroup /\ SentParts \in Nat /\ wgroup \in Nat
            /\ WriterAckAfter(wmsg) \in 1 .. AckAfter
            /\ wpc \in {"send", "wait", "ack"}
        BY <3>1, WriterNumbers DEF LockInv
      <4> QED BY <2>1, <4>1 DEF WriterGroup, Base
    <3> QED BY <3>1
  <2>3. CASE Quiet \/ Stranded \/ Answering \/ Closing \/ Answered
    <3>1. toR = <<>> /\ (toW = <<>> \/ toW = <<AckFrame(wseq)>>)
      BY <2>3 DEF Quiet, Stranded, Answering, Closing, Answered, Silent
    <3>2. Len(toR) = 0 /\ Len(toW) <= 1
      BY <3>1
    <3> QED BY <2>1, <3>2
  <2>4. CASE Coming
    BY <2>1, <2>2, <2>4 DEF Coming, Carries
  <2>5. CASE Reading
    BY <2>1, <2>2, <2>5 DEF Reading, Carries
  <2>6. CASE Following
    BY <2>1, <2>2, <2>6 DEF Following, Carries
  <2>7. CASE Finished
    <3>1. toW = <<>> /\ (Len(toR) = 1 \/ (wpc # "idle" /\ Base = 0 /\ Carries(1, 0)))
      BY <2>7 DEF Finished, Carries
    <3>2. Base = 0 /\ Carries(1, 0) => Len(toR) = 1 + (SentParts - 0)
      BY DEF Carries
    <3>3. Len(toW) = 0
      BY <3>1
    <3> QED BY <2>1, <2>2, <3>1, <3>2, <3>3
  <2> QED BY <2>3, <2>4, <2>5, <2>6, <2>7 DEF LockInv, InStep
<1> QED BY <1>1, TypeCorrect, InStepAlways, PTL

\* Undisturbed and with buffers that fit, every read() returns one whole message.
THEOREM WholeMessages ==
  ASSUME Undisturbed
  PROVE  Spec => []DeliveredWhole
<1>1. TypeOK /\ LockInv => DeliveredWhole
  <2> SUFFICES ASSUME TypeOK, LockInv, NEW i \in 1 .. Len(delivered)
               PROVE  \E m \in Messages : delivered[i] = Whole(m)
    BY DEF DeliveredWhole
  <2>1. Len(delivered) <= Len(written)
    <3>1. written \in Seq(Messages) /\ delivered \in Seq(Seq(Fragments))
      BY DEF TypeOK, WriterTypeOK, ReaderTypeOK
    <3> QED BY <3>1 DEF LockInv, InStep, Quiet, Stranded, Coming, Reading, Answering, Answered,
            Closing, Following, Finished, Level
  <2>2. written[i] \in Messages
    BY <2>1 DEF TypeOK, WriterTypeOK, ReaderTypeOK
  <2> QED BY <2>2 DEF LockInv, Faithful
<1> QED BY <1>1, TypeCorrect, InStepAlways, PTL

\* What one more message adds to the messages shown whole.
LEMMA ShownAppend ==
  ASSUME NEW w \in Seq(Messages), NEW m \in Messages
  PROVE  [i \in 1 .. Len(Append(w, m)) |-> Whole(Append(w, m)[i])]
           = Append([i \in 1 .. Len(w) |-> Whole(w[i])], Whole(m))
<1> DEFINE q == [i \in 1 .. Len(w) |-> Whole(w[i])]
           r == [i \in 1 .. Len(Append(w, m)) |-> Whole(Append(w, m)[i])]
           S == {Whole(n) : n \in Messages}
<1>1. /\ Len(Append(w, m)) = Len(w) + 1 /\ Append(w, m)[Len(w) + 1] = m
      /\ \A i \in 1 .. Len(w) : Append(w, m)[i] = w[i] /\ w[i] \in Messages
  OBVIOUS
<1>2. q \in Seq(S) /\ Len(q) = Len(w) /\ Whole(m) \in S
  BY <1>1
<1>3. r \in Seq(S) /\ Len(r) = Len(w) + 1
  BY <1>1
<1>4. /\ \A k \in 1 .. Len(w) : r[k] = Whole(w[k]) /\ q[k] = Whole(w[k])
      /\ r[Len(w) + 1] = Whole(m)
  BY <1>1
<1> HIDE DEF q, r, S
<1>5. Append(q, Whole(m)) = r
  BY <1>2, <1>3, <1>4, AppendIs
<1> QED BY <1>5 DEF q, r

\* Undisturbed, the protocol is the channel of Channel.tla, but for its promise
\* that what was written is read at last: a write() succeeds when everything
\* before it was read, a read() returns the oldest message not yet returned.
THEOREM ImplementsChannel ==
  ASSUME Undisturbed
  PROVE  Spec => C!Safety
<1> DEFINE shown == [i \in 1 .. Len(written) |-> Whole(written[i])]
<1>1. Init => C!Init
  BY DEF Init, C!Init
<1>2. ASSUME TypeOK, LockInv, [Next]_vars
      PROVE  [C!Next]_(C!vars)
  <2>1. UNCHANGED <<written, delivered>> \/ Accepts \/ Obtains
    <3>1. CASE Next
      BY <1>2, <3>1, NextInStep
    <3>2. CASE UNCHANGED vars
      BY <3>2 DEF vars, writerVars, readerVars
    <3> QED BY <1>2, <3>1, <3>2
  <2>2. written \in Seq(Messages) /\ delivered \in Seq(Seq(Fragments)) /\ Len(shown) = Len(written)
    BY <1>2 DEF TypeOK, WriterTypeOK, ReaderTypeOK
  <2>3. CASE UNCHANGED <<written, delivered>>
    BY <2>3 DEF C!vars, Whole
  <2>4. CASE Accepts
    <3>1. PICK m \in Messages : written' = Append(written, m)
      BY <2>4 DEF Accepts
    <3>2. shown' = Append(shown, Whole(m))
      BY <2>2, <3>1, ShownAppend
    <3>3. C!Write(Whole(m))
      BY <2>2, <2>4, <3>2 DEF Accepts, C!Write
    <3> QED BY <3>3 DEF C!Next
  <2>5. CASE Obtains
    <3>1. shown[Len(delivered) + 1] = Whole(written[Len(delivered) + 1])
      BY <2>2, <2>5 DEF Obtains
    <3>2. shown' = shown
      BY <2>5 DEF Obtains, Whole
    <3>3. C!Read
      BY <2>2, <2>5, <3>1, <3>2 DEF Obtains, C!Read
    <3> QED BY <3>3 DEF C!Next
  <2> QED BY <2>1, <2>3, <2>4, <2>5
<1> QED BY <1>1, <1>2, TypeCorrect, InStepAlways, PTL DEF Spec, C!Safety

----------------------------------------------------------------------------
(* Messages of one frame.  The frames on their way to the reader stand in the  *)
(* order of the write() calls they belong to, and the closing ACK is the last  *)
(* of its call: `call' numbers them.  What the reader has in hand, and what it *)
(* has returned, comes from earlier calls, each at another place.              *)

\* Messages fit one frame, and nothing but repetition, reordering and the death
\* of a process is ruled out.
SingleFrames ==
  /\ \A m \in Messages : IsSingle(m)
  /\ Faults["dup"] = 0 /\ Faults["reorder"] = 0 /\ Faults["crash"] = 0

\* The message of the n-th successful call, or of the one still trying.
Nth(n) == IF n <= Len(written) THEN written[n] ELSE wmsg

Calls == IF wmsg = None THEN Len(written) ELSE Len(written) + 1

IsAck(f) == f.sound /\ f.type = "ACK"
IsData(f) == f.sound /\ f.type # "ACK"

Numbered(call) ==
  /\ call \in [1 .. Len(toR) -> 1 .. Calls]
  /\ \A i \in 1 .. Len(toR) :
       /\ IsAck(toR[i]) => call[i] <= Len(written)
       /\ IsData(toR[i]) => toR[i].data = <<Nth(call[i]), 1>>
  /\ \A i, j \in 1 .. Len(toR) : i < j =>
       /\ call[i] <= call[j]
       /\ IsAck(toR[i]) => call[i] < call[j]

Placed(place) ==
  /\ place \in [1 .. Len(delivered) -> 1 .. Len(written)]
  /\ \A j \in 1 .. Len(delivered) :
       /\ delivered[j] = Whole(written[place[j]])
       /\ \A i \in 1 .. j - 1 : place[i] < place[j]

InHand == rpc \in {"sack", "ack"}

Ordered(call, place, cur) ==
  /\ Numbered(call) /\ Placed(place)
  /\ \A k \in 1 .. Len(delivered), i \in 1 .. Len(toR) : place[k] < call[i]
  /\ cur \in 0 .. Calls
  /\ InHand => /\ cur > 0 /\ rbuf = <<<<Nth(cur), 1>>>>
               /\ \A k \in 1 .. Len(delivered) : place[k] < cur
               /\ \A i \in 1 .. Len(toR) : cur <= call[i]

OrderInv ==
  /\ faults["dup"] = 0 /\ faults["reorder"] = 0 /\ faults["crash"] = 0
  /\ ~rmulti /\ (rpc = "data" => rprev = "UNDEF" /\ rbuf = <<>>)
  /\ \E call \in [1 .. Len(toR) -> 1 .. Calls],
        place \in [1 .. Len(delivered) -> 1 .. Len(written)], cur \in 0 .. Calls :
          Ordered(call, place, cur)

Orderly == \E call, place, cur : Ordered(call, place, cur)

LEMMA OrderlyBounds ==
  Orderly <=> \E call \in [1 .. Len(toR) -> 1 .. Calls],
                 place \in [1 .. Len(delivered) -> 1 .. Len(written)], cur \in 0 .. Calls :
                   Ordered(call, place, cur)
  BY ZenonT(30) DEF Orderly, Ordered, Numbered, Placed

LEMMA OrderlyBoundsNext ==
  Orderly' <=> (\E call \in [1 .. Len(toR) -> 1 .. Calls],
                  place \in [1 .. Len(delivered) -> 1 .. Len(written)], cur \in 0 .. Calls :
                    Ordered(call, place, cur))'
  BY ZenonT(30) DEF Orderly, Ordered, Numbered, Placed

\* What remains of a channel is numbered as it was: h tells where each frame
\* was, and a frame that was not left alone is no longer sound.
LEMMA NumberedRest ==
  ASSUME TypeOK, UNCHANGED <<wmsg, written>>,
         NEW CONSTANT call, Numbered(call), NEW CONSTANT n \in Nat, Len(toR') = n,
         NEW CONSTANT h \in [1 .. n -> 1 .. Len(toR)],
         \A i, j \in 1 .. n : i < j => h[i] < h[j],
         \A i \in 1 .. n : toR'[i] = toR[h[i]] \/ ~toR'[i].sound
  PROVE  Numbered([i \in 1 .. n |-> call[h[i]]])'
<1> DEFINE rest == [i \in 1 .. n |-> call[h[i]]]
<1>1. Calls' = Calls /\ \A k : Nth(k)' = Nth(k)
  BY DEF Calls, Nth
<1>2. /\ call \in [1 .. Len(toR) -> 1 .. Calls]
      /\ \A i \in 1 .. Len(toR) :
           /\ IsAck(toR[i]) => call[i] <= Len(written)
           /\ IsData(toR[i]) => toR[i].data = <<Nth(call[i]), 1>>
      /\ \A i, j \in 1 .. Len(toR) : i < j =>
           /\ call[i] <= call[j]
           /\ IsAck(toR[i]) => call[i] < call[j]
  BY DEF Numbered
<1>3. rest \in [1 .. n -> 1 .. Calls]
  BY <1>2
<1>4. ASSUME NEW i \in 1 .. n
      PROVE  /\ IsAck(toR'[i]) => rest[i] <= Len(written) /\ IsAck(toR[h[i]])
             /\ IsData(toR'[i]) => toR'[i].data = <<Nth(rest[i]), 1>>
  <2>1. h[i] \in 1 .. Len(toR) /\ rest[i] = call[h[i]]
    OBVIOUS
  <2>2. CASE ~toR'[i].sound
    BY <2>2 DEF IsAck, IsData
  <2>3. CASE toR'[i] = toR[h[i]]
    BY <1>2, <2>1, <2>3
  <2> QED BY <2>2, <2>3
<1>5. ASSUME NEW i \in 1 .. n, NEW j \in 1 .. n, i < j
      PROVE  rest[i] <= rest[j] /\ (IsAck(toR'[i]) => rest[i] < rest[j])
  <2>1. h[i] \in 1 .. Len(toR) /\ h[j] \in 1 .. Len(toR) /\ h[i] < h[j]
    BY <1>5
  <2>2. rest[i] = call[h[i]] /\ rest[j] = call[h[j]]
    OBVIOUS
  <2> QED BY <1>2, <1>4, <2>1, <2>2
<1> HIDE DEF rest
<1>6. Numbered(rest)'
  BY <1>1, <1>3, <1>4, <1>5 DEF Numbered, IsAck, IsData
<1> QED BY <1>6 DEF rest

\* Where the frames of a channel stood that lost one.
LEMMA RemovedFrom ==
  ASSUME NEW S, NEW q \in Seq(S), NEW n \in 1 .. Len(q)
  PROVE  \E h \in [1 .. Len(RemoveAt(q, n)) -> 1 .. Len(q)] :
           /\ \A i, j \in 1 .. Len(RemoveAt(q, n)) : i < j => h[i] < h[j]
           /\ \A i \in 1 .. Len(RemoveAt(q, n)) : RemoveAt(q, n)[i] = q[h[i]]
<1> DEFINE a == SubSeq(q, 1, n - 1)
           b == SubSeq(q, n + 1, Len(q))
           h == [i \in 1 .. Len(q) - 1 |-> IF i < n THEN i ELSE i + 1]
<1>1. /\ a \in Seq(S) /\ Len(a) = n - 1 /\ \A i \in 1 .. n - 1 : a[i] = q[i]
      /\ b \in Seq(S) /\ Len(b) = Len(q) - n
      /\ \A i \in 1 .. Len(q) - n : b[i] = q[n + i]
  OBVIOUS
<1> HIDE DEF a, b
<1>2. RemoveAt(q, n) = a \o b
  BY DEF RemoveAt, a, b
<1>3. /\ Len(a \o b) = Len(q) - 1
      /\ \A i \in 1 .. Len(q) - 1 : (a \o b)[i] = IF i < n THEN q[i] ELSE q[i + 1]
  <2>1. Len(a \o b) = Len(q) - 1
    BY <1>1
  <2>2. ASSUME NEW i \in 1 .. Len(q) - 1
        PROVE  (a \o b)[i] = IF i < n THEN q[i] ELSE q[i + 1]
    <3>1. CASE i < n
      BY <1>1, <3>1
    <3>2. CASE ~(i < n)
      <4>1. i - (n - 1) \in 1 .. Len(q) - n /\ n + (i - (n - 1)) = i + 1
        BY <3>2
      <4>2. (a \o b)[i] = b[i - (n - 1)]
        BY <1>1, <3>2
      <4> QED BY <1>1, <3>2, <4>1, <4>2
    <3> QED BY <3>1, <3>2
  <2> QED BY <2>1, <2>2
<1>4. h \in [1 .. Len(q) - 1 -> 1 .. Len(q)]
  OBVIOUS
<1>5. /\ \A i, j \in 1 .. Len(q) - 1 : i < j => h[i] < h[j]
      /\ \A i \in 1 .. Len(q) - 1 : (a \o b)[i] = q[h[i]]
  BY <1>3
<1>6. Len(RemoveAt(q, n)) = Len(q) - 1
  BY <1>2, <1>3
<1>7. \A i \in 1 .. Len(q) - 1 : RemoveAt(q, n)[i] = q[h[i]]
  BY <1>2, <1>5
<1> HIDE DEF h
<1> QED BY <1>4, <1>5, <1>6, <1>7

\* When the channel only loses frames or their soundness, and the reader keeps
\* what it has in hand or drops it, nothing is out of order.
LEMMA OrderlyRest ==
  ASSUME TypeOK, Orderly, UNCHANGED <<wmsg, written, delivered>>, NEW CONSTANT n \in Nat, Len(toR') = n,
         InHand' => InHand /\ rbuf' = rbuf,
         NEW CONSTANT h \in [1 .. n -> 1 .. Len(toR)],
         \A i, j \in 1 .. n : i < j => h[i] < h[j],
         \A i \in 1 .. n : toR'[i] = toR[h[i]] \/ ~toR'[i].sound
  PROVE  Orderly'
<1>1. PICK call, place, cur : Ordered(call, place, cur)
  BY DEF Orderly
<1> DEFINE rest == [i \in 1 .. n |-> call[h[i]]]
<1>2. Numbered(rest)'
  BY <1>1, NumberedRest DEF Ordered
<1>3. Placed(place)'
  BY <1>1 DEF Ordered, Placed, Whole
<1>4. Calls' = Calls /\ \A k : Nth(k)' = Nth(k)
  BY DEF Calls, Nth
<1>5. \A i \in 1 .. n : h[i] \in 1 .. Len(toR) /\ rest[i] = call[h[i]]
  OBVIOUS
<1> HIDE DEF rest
<1>6. Ordered(rest, place, cur)'
  BY <1>1, <1>2, <1>3, <1>4, <1>5 DEF Ordered
<1> QED BY <1>6 DEF Orderly

\* A new write() numbers nothing anew.
LEMMA OrderlyStart ==
  ASSUME TypeOK, Orderly, NEW m \in Messages, WStart(m)
  PROVE  Orderly'
<1>1. PICK call, place, cur : Ordered(call, place, cur)
  BY DEF Orderly
<1>2. /\ wmsg \in {None, m} /\ wmsg' = m /\ m # None
      /\ UNCHANGED <<toR, written, rpc, rbuf, delivered>>
      /\ Len(written) \in Nat
  BY SprotAssumption DEF WStart, readerVars, TypeOK, WriterTypeOK
<1>3. Calls <= Calls' /\ Calls \in Nat /\ Calls' \in Nat
  BY <1>2 DEF Calls
<1>4. \A k \in 0 .. Calls : Nth(k)' = Nth(k)
  BY <1>2 DEF Calls, Nth
<1>5. Numbered(call)'
  <2>1. /\ call \in [1 .. Len(toR) -> 1 .. Calls]
        /\ \A i \in 1 .. Len(toR) :
             /\ IsAck(toR[i]) => call[i] <= Len(written)
             /\ IsData(toR[i]) => toR[i].data = <<Nth(call[i]), 1>>
        /\ \A i, j \in 1 .. Len(toR) : i < j =>
             /\ call[i] <= call[j]
             /\ IsAck(toR[i]) => call[i] < call[j]
    BY <1>1 DEF Ordered, Numbered
  <2>2. call \in [1 .. Len(toR) -> 1 .. Calls']
    BY <1>3, <2>1
  <2>3. \A i \in 1 .. Len(toR) : Nth(call[i])' = Nth(call[i])
    BY <1>3, <1>4, <2>1
  <2> QED BY <1>2, <2>1, <2>2, <2>3 DEF Numbered, IsAck, IsData
<1>6. Placed(place)'
  BY <1>1, <1>2 DEF Ordered, Placed, Whole
<1>7. InHand' <=> InHand
  BY <1>2 DEF InHand
<1>8. cur \in 0 .. Calls' /\ Nth(cur)' = Nth(cur)
  BY <1>1, <1>3, <1>4 DEF Ordered
<1>9. Ordered(call, place, cur)'
  BY <1>1, <1>2, <1>5, <1>6, <1>7, <1>8 DEF Ordered
<1> QED BY <1>9 DEF Orderly

\* A frame that is sent belongs to the latest call.
LEMMA NumberedMore ==
  ASSUME TypeOK, NEW CONSTANT call, Numbered(call),
         NEW CONSTANT n \in Nat, Len(toR) = n, NEW CONSTANT top \in Nat \ {0},
         NEW f, toR' = Append(toR, f), f \in Frame,
         Calls <= top, top = Calls', Len(written) <= Len(written'),
         \A k \in 1 .. Calls : Nth(k)' = Nth(k),
         IsAck(f) => top <= Len(written'),
         IsData(f) => f.data = <<Nth(top)', 1>>,
         Len(written) < top
  PROVE  Numbered([i \in 1 .. n + 1 |-> IF i = n + 1 THEN top ELSE call[i]])'
<1> DEFINE more == [i \in 1 .. n + 1 |-> IF i = n + 1 THEN top ELSE call[i]]
<1>1. /\ Len(toR') = n + 1 /\ toR'[n + 1] = f
      /\ \A i \in 1 .. n : toR'[i] = toR[i]
  BY DEF TypeOK, ChannelTypeOK
<1>2. /\ call \in [1 .. n -> 1 .. Calls] /\ Calls \in Nat
      /\ Len(written) \in Nat
  <2>1. Len(written) \in Nat
    BY DEF TypeOK, WriterTypeOK
  <2> QED BY <2>1 DEF Numbered, Calls
<1>3. /\ \A i \in 1 .. n :
           /\ IsAck(toR[i]) => call[i] <= Len(written)
           /\ IsData(toR[i]) => toR[i].data = <<Nth(call[i]), 1>>
      /\ \A i, j \in 1 .. n : i < j =>
           /\ call[i] <= call[j]
           /\ IsAck(toR[i]) => call[i] < call[j]
  BY DEF Numbered
<1>4. more \in [1 .. n + 1 -> 1 .. top]
  BY <1>2
<1>5. more[n + 1] = top /\ \A i \in 1 .. n : more[i] = call[i] /\ call[i] <= top
  BY <1>2
<1> HIDE DEF more
<1>6. ASSUME NEW i \in 1 .. n + 1
      PROVE  /\ IsAck(toR'[i]) => more[i] <= Len(written')
             /\ IsData(toR'[i]) => toR'[i].data = <<Nth(more[i])', 1>>
  <2>1. CASE i = n + 1
    BY <1>1, <1>5, <2>1
  <2>2. CASE i \in 1 .. n
    <3>1. toR'[i] = toR[i] /\ more[i] = call[i] /\ call[i] \in 1 .. Calls
      BY <1>1, <1>2, <1>5, <2>2
    <3>2. Nth(call[i])' = Nth(call[i])
      BY <3>1
    <3>3. IsAck(toR[i]) => call[i] <= Len(written)
      BY <1>3, <2>2
    <3>4. Len(written') \in Int
      BY DEF TypeOK, WriterTypeOK
    <3>5. IsAck(toR[i]) => call[i] <= Len(written')
      BY <1>2, <3>1, <3>3
    <3> QED BY <1>3, <2>2, <3>1, <3>2, <3>5
  <2> QED BY <2>1, <2>2
<1>7. ASSUME NEW i \in 1 .. n + 1, NEW j \in 1 .. n + 1, i < j
      PROVE  more[i] <= more[j] /\ (IsAck(toR'[i]) => more[i] < more[j])
  <2>1. i \in 1 .. n /\ (j = n + 1 \/ j \in 1 .. n)
    BY <1>7
  <2>2. CASE j = n + 1
    BY <1>1, <1>2, <1>3, <1>5, <2>1, <2>2
  <2>3. CASE j \in 1 .. n
    BY <1>1, <1>3, <1>5, <1>7, <2>1, <2>3
  <2> QED BY <2>1, <2>2, <2>3
<1>8. Numbered(more)'
  BY <1>1, <1>4, <1>6, <1>7 DEF Numbered, IsAck, IsData
<1> QED BY <1>8 DEF more

\* Sending for the latest call.
LEMMA OrderlyMore ==
  ASSUME TypeOK, Orderly, UNCHANGED <<rpc, rbuf, delivered>>,
         NEW CONSTANT n \in Nat, Len(toR) = n, NEW CONSTANT top \in Nat \ {0},
         NEW f, toR' = Append(toR, f), f \in Frame,
         Calls <= top, top = Calls', Len(written) <= Len(written'),
         Len(written') \in Nat,
         \A k \in 1 .. Calls : Nth(k)' = Nth(k),
         \A k \in 1 .. Len(written) : written'[k] = written[k],
         IsAck(f) => top <= Len(written'),
         IsData(f) => f.data = <<Nth(top)', 1>>,
         Len(written) < top
  PROVE  Orderly'
<1>1. PICK call, place, cur : Ordered(call, place, cur)
  BY DEF Orderly
<1> DEFINE more == [i \in 1 .. n + 1 |-> IF i = n + 1 THEN top ELSE call[i]]
<1>2. Numbered(more)'
  BY <1>1, NumberedMore DEF Ordered
<1>3. Len(written) \in Nat /\ Len(toR') = n + 1 /\ Calls \in Nat /\ InHand' = InHand
  BY DEF TypeOK, WriterTypeOK, ChannelTypeOK, Calls, InHand
<1>4. /\ place \in [1 .. Len(delivered) -> 1 .. Len(written)]
      /\ \A j \in 1 .. Len(delivered) :
           /\ delivered[j] = Whole(written[place[j]])
           /\ \A i \in 1 .. j - 1 : place[i] < place[j]
      /\ \A k \in 1 .. Len(delivered), i \in 1 .. n : place[k] < call[i]
      /\ cur \in 0 .. Calls
      /\ InHand => /\ cur > 0 /\ rbuf = <<<<Nth(cur), 1>>>>
                   /\ \A k \in 1 .. Len(delivered) : place[k] < cur
                   /\ \A i \in 1 .. n : cur <= call[i]
  BY <1>1 DEF Ordered, Placed
<1>5. Placed(place)'
  <2>1. place \in [1 .. Len(delivered) -> 1 .. Len(written')]
    BY <1>3, <1>4
  <2>2. \A j \in 1 .. Len(delivered) : written'[place[j]] = written[place[j]]
    BY <1>4
  <2>3. ASSUME NEW j \in 1 .. Len(delivered)
        PROVE  /\ delivered[j] = Whole(written'[place[j]])
               /\ \A i \in 1 .. j - 1 : place[i] < place[j]
    BY <1>4, <2>2
  <2> QED BY <2>1, <2>3 DEF Placed, Whole
<1>6. ASSUME NEW i \in 1 .. n + 1
      PROVE  /\ \A k \in 1 .. Len(delivered) : place[k] < more[i]
             /\ InHand => cur <= more[i]
  <2>1. CASE i = n + 1
    <3>1. more[i] = top
      BY <2>1
    <3>2. \A k \in 1 .. Len(delivered) : place[k] \in 1 .. Len(written)
      BY <1>4
    <3>3. cur <= top
      BY <1>3, <1>4
    <3> HIDE DEF more
    <3> QED BY <1>3, <3>1, <3>2, <3>3
  <2>2. CASE i \in 1 .. n
    <3>1. more[i] = call[i]
      BY <2>2
    <3> HIDE DEF more
    <3> QED BY <1>4, <2>2, <3>1
  <2> QED BY <2>1, <2>2
<1>7. cur \in 0 .. Calls' /\ (cur > 0 => Nth(cur)' = Nth(cur))
  BY <1>3, <1>4
<1> HIDE DEF more
<1>8. Ordered(more, place, cur)'
  BY <1>2, <1>3, <1>4, <1>5, <1>6, <1>7 DEF Ordered
<1> QED BY <1>8 DEF Orderly

\* A step that leaves the channel alone.
LEMMA OrderlySame ==
  ASSUME TypeOK, Orderly, UNCHANGED <<toR, wmsg, written, delivered>>,
         InHand' => InHand /\ rbuf' = rbuf
  PROVE  Orderly'
<1>1. PICK n \in Nat : n = Len(toR)
  BY DEF TypeOK, ChannelTypeOK
<1> DEFINE h == [i \in 1 .. n |-> i]
<1>2. /\ h \in [1 .. n -> 1 .. Len(toR)] /\ Len(toR') = n
      /\ \A i, j \in 1 .. n : i < j => h[i] < h[j]
      /\ \A i \in 1 .. n : toR'[i] = toR[h[i]] \/ ~toR'[i].sound
  BY <1>1
<1> HIDE DEF h
<1> QED BY <1>2, OrderlyRest

\* A closing ACK that the socket drops: the call has succeeded all the same.
LEMMA OrderlyDropped ==
  ASSUME TypeOK, Orderly, UNCHANGED <<toR, rpc, rbuf, delivered>>,
         Calls' = Calls, Len(written') \in Nat, Len(written) <= Len(written'),
         \A k \in 1 .. Calls : Nth(k)' = Nth(k),
         \A k \in 1 .. Len(written) : written'[k] = written[k]
  PROVE  Orderly'
<1>1. PICK call, place, cur : Ordered(call, place, cur)
  BY DEF Orderly
<1>2. Len(written) \in Nat /\ InHand' = InHand /\ Calls \in Nat
  BY DEF TypeOK, WriterTypeOK, InHand, Calls
<1>3. /\ call \in [1 .. Len(toR) -> 1 .. Calls]
      /\ \A i \in 1 .. Len(toR) :
           /\ IsAck(toR[i]) => call[i] <= Len(written)
           /\ IsData(toR[i]) => toR[i].data = <<Nth(call[i]), 1>>
      /\ \A i, j \in 1 .. Len(toR) : i < j =>
           /\ call[i] <= call[j]
           /\ IsAck(toR[i]) => call[i] < call[j]
  BY <1>1 DEF Ordered, Numbered
<1>4. Numbered(call)'
  <2>1. \A i \in 1 .. Len(toR) : call[i] \in 1 .. Calls /\ Nth(call[i])' = Nth(call[i])
    BY <1>3
  <2>2. \A i \in 1 .. Len(toR) : IsAck(toR[i]) => call[i] <= Len(written')
    BY <1>2, <1>3, <2>1
  <2> QED BY <1>3, <2>1, <2>2 DEF Numbered, IsAck, IsData
<1>5. /\ place \in [1 .. Len(delivered) -> 1 .. Len(written)]
      /\ \A j \in 1 .. Len(delivered) :
           /\ delivered[j] = Whole(written[place[j]])
           /\ \A i \in 1 .. j - 1 : place[i] < place[j]
  BY <1>1 DEF Ordered, Placed
<1>6. Placed(place)'
  <2>1. place \in [1 .. Len(delivered) -> 1 .. Len(written')]
    BY <1>2, <1>5
  <2>2. ASSUME NEW j \in 1 .. Len(delivered)
        PROVE  /\ delivered[j] = Whole(written'[place[j]])
               /\ \A i \in 1 .. j - 1 : place[i] < place[j]
    BY <1>5
  <2> QED BY <2>1, <2>2 DEF Placed, Whole
<1>7. cur \in 0 .. Calls /\ (cur > 0 => Nth(cur)' = Nth(cur))
  BY <1>1, <1>2 DEF Ordered
<1>8. Ordered(call, place, cur)'
  BY <1>1, <1>2, <1>4, <1>6, <1>7 DEF Ordered
<1> QED BY <1>8 DEF Orderly

\* The tail of a channel.
LEMMA TailOf ==
  ASSUME TypeOK, toR # <<>>, toR' = Tail(toR)
  PROVE  \E n \in Nat :
           /\ Len(toR') = n /\ Len(toR) = n + 1 /\ Head(toR) = toR[1]
           /\ \A i \in 1 .. n : toR'[i] = toR[i + 1]
<1>1. /\ toR \in Seq(Frame) /\ Len(toR) \in Nat /\ Len(toR) > 0
  BY DEF TypeOK, ChannelTypeOK
<1>2. /\ Head(toR) = toR[1] /\ Len(toR') = Len(toR) - 1
      /\ \A i \in 1 .. Len(toR) - 1 : toR'[i] = toR[i + 1]
  BY <1>1
<1> WITNESS Len(toR) - 1 \in Nat
<1> QED BY <1>1, <1>2

\* A frame that is read and forgotten.
LEMMA OrderlyTail ==
  ASSUME TypeOK, Orderly, UNCHANGED <<wmsg, written, delivered>>,
         toR # <<>>, toR' = Tail(toR), InHand' => InHand /\ rbuf' = rbuf
  PROVE  Orderly'
<1>1. PICK n \in Nat : /\ Len(toR') = n /\ Len(toR) = n + 1
                       /\ \A i \in 1 .. n : toR'[i] = toR[i + 1]
  BY TailOf
<1> DEFINE h == [i \in 1 .. n |-> i + 1]
<1>2. /\ h \in [1 .. n -> 1 .. Len(toR)]
      /\ \A i, j \in 1 .. n : i < j => h[i] < h[j]
      /\ \A i \in 1 .. n : toR'[i] = toR[h[i]] \/ ~toR'[i].sound
  BY <1>1
<1> HIDE DEF h
<1> QED BY <1>1, <1>2, OrderlyRest, SMTT(30)

\* A frame that is read and kept.
LEMMA OrderlyTake ==
  ASSUME TypeOK, Orderly, UNCHANGED <<wmsg, written, delivered>>,
         toR # <<>>, toR' = Tail(toR), IsData(Head(toR)), rbuf' = <<Head(toR).data>>
  PROVE  Orderly'
<1>1. PICK n \in Nat : /\ Len(toR') = n /\ Len(toR) = n + 1 /\ Head(toR) = toR[1]
                       /\ \A i \in 1 .. n : toR'[i] = toR[i + 1]
  BY TailOf
<1>2. PICK call, place, cur : Ordered(call, place, cur)
  BY DEF Orderly
<1> DEFINE h == [i \in 1 .. n |-> i + 1]
           rest == [i \in 1 .. n |-> call[h[i]]]
<1>3. /\ h \in [1 .. n -> 1 .. Len(toR)]
      /\ \A i, j \in 1 .. n : i < j => h[i] < h[j]
      /\ \A i \in 1 .. n : toR'[i] = toR[h[i]] \/ ~toR'[i].sound
  BY <1>1
<1>4. Numbered(rest)'
  <2> HIDE DEF h
  <2> QED BY <1>1, <1>2, <1>3, NumberedRest DEF Ordered
<1>5. /\ call \in [1 .. n + 1 -> 1 .. Calls]
      /\ toR[1].data = <<Nth(call[1]), 1>>
      /\ \A i \in 1 .. n + 1 : 1 < i => call[1] <= call[i]
      /\ \A k \in 1 .. Len(delivered), i \in 1 .. n + 1 : place[k] < call[i]
  BY <1>1, <1>2 DEF Ordered, Numbered
<1>6. Placed(place)'
  BY <1>2 DEF Ordered, Placed, Whole
<1>7. Calls' = Calls /\ Nth(call[1])' = Nth(call[1]) /\ Calls \in Nat
  BY DEF Calls, Nth, TypeOK, WriterTypeOK
<1>8. \A i \in 1 .. n : rest[i] = call[i + 1] /\ i + 1 \in 1 .. n + 1 /\ 1 < i + 1
  OBVIOUS
<1>9. call[1] \in 1 .. Calls /\ 1 \in 1 .. n + 1
  BY <1>5
<1> DEFINE c1 == call[1]
<1>10. /\ c1 \in 0 .. Calls' /\ c1 > 0 /\ rbuf' = <<<<Nth(c1)', 1>>>>
       /\ \A k \in 1 .. Len(delivered) : place[k] < c1
       /\ \A i \in 1 .. n : c1 <= rest[i]
       /\ \A k \in 1 .. Len(delivered), i \in 1 .. n : place[k] < rest[i]
  <2> HIDE DEF rest
  <2> QED BY <1>1, <1>5, <1>7, <1>8, <1>9, SMTT(30)
<1> HIDE DEF rest, c1
<1>11. Ordered(rest, place, c1)'
  BY <1>1, <1>4, <1>6, <1>10 DEF Ordered
<1> QED BY <1>11 DEF Orderly

\* What is returned stands where no earlier return stood, before all that is to
\* come.
LEMMA OrderlyReturn ==
  ASSUME SingleFrames, TypeOK, Orderly, UNCHANGED <<wmsg, written>>, InHand, ~InHand',
         toR # <<>>, toR' = Tail(toR), IsAck(Head(toR)),
         delivered' = Append(delivered, rbuf)
  PROVE  Orderly'
<1>1. PICK n \in Nat : /\ Len(toR') = n /\ Len(toR) = n + 1 /\ Head(toR) = toR[1]
                       /\ \A i \in 1 .. n : toR'[i] = toR[i + 1]
  BY TailOf
<1>2. PICK call, place, cur : Ordered(call, place, cur)
  BY DEF Orderly
<1>3. PICK d \in Nat : d = Len(delivered)
  BY DEF TypeOK, ReaderTypeOK
<1> DEFINE h == [i \in 1 .. n |-> i + 1]
           rest == [i \in 1 .. n |-> call[h[i]]]
           more == [k \in 1 .. d + 1 |-> IF k = d + 1 THEN cur ELSE place[k]]
<1>4. Numbered(rest)'
  <2>1. /\ h \in [1 .. n -> 1 .. Len(toR)]
        /\ \A i, j \in 1 .. n : i < j => h[i] < h[j]
        /\ \A i \in 1 .. n : toR'[i] = toR[h[i]] \/ ~toR'[i].sound
    BY <1>1
  <2> HIDE DEF h
  <2> QED BY <1>1, <1>2, <2>1, NumberedRest DEF Ordered
<1>5. /\ call \in [1 .. n + 1 -> 1 .. Calls] /\ call[1] <= Len(written)
      /\ \A i \in 1 .. n + 1 : 1 < i => call[1] < call[i]
      /\ cur \in 1 .. Calls /\ rbuf = <<<<Nth(cur), 1>>>> /\ cur <= call[1]
      /\ \A k \in 1 .. d : place[k] < cur
      /\ place \in [1 .. d -> 1 .. Len(written)]
      /\ \A j \in 1 .. d : /\ delivered[j] = Whole(written[place[j]])
                           /\ \A i \in 1 .. j - 1 : place[i] < place[j]
      /\ Calls \in Nat /\ Len(written) \in Nat
  <2>1. Calls \in Nat /\ Len(written) \in Nat
    BY DEF Calls, TypeOK, WriterTypeOK
  <2>2. /\ call \in [1 .. n + 1 -> 1 .. Calls] /\ call[1] <= Len(written)
        /\ \A i \in 1 .. n + 1 : 1 < i => call[1] < call[i]
    <3>1. 1 \in 1 .. n + 1 /\ IsAck(toR[1])
      BY <1>1
    <3>2. /\ call \in [1 .. n + 1 -> 1 .. Calls]
          /\ \A i \in 1 .. n + 1 : IsAck(toR[i]) => call[i] <= Len(written)
          /\ \A i, j \in 1 .. n + 1 : i < j => (IsAck(toR[i]) => call[i] < call[j])
      BY <1>1, <1>2 DEF Ordered, Numbered
    <3> QED BY <3>1, <3>2
  <2>3. /\ cur \in 0 .. Calls /\ cur > 0 /\ rbuf = <<<<Nth(cur), 1>>>>
        /\ \A i \in 1 .. n + 1 : cur <= call[i]
        /\ \A k \in 1 .. d : place[k] < cur
    BY <1>1, <1>2, <1>3 DEF Ordered
  <2>4. /\ place \in [1 .. d -> 1 .. Len(written)]
        /\ \A j \in 1 .. d : /\ delivered[j] = Whole(written[place[j]])
                             /\ \A i \in 1 .. j - 1 : place[i] < place[j]
    BY <1>2, <1>3 DEF Ordered, Placed
  <2> QED BY <2>1, <2>2, <2>3, <2>4
<1>6. cur \in 1 .. Len(written)
  BY <1>5
<1>7. rbuf = Whole(written[cur])
  <2>1. Nth(cur) = written[cur] /\ written[cur] \in Messages
    BY <1>6 DEF Nth, TypeOK, WriterTypeOK
  <2>2. FragmentsOf[written[cur]] = 1
    BY <2>1 DEF SingleFrames, IsSingle
  <2> QED BY <1>5, <2>1, <2>2 DEF Whole
<1>8. /\ Len(delivered') = d + 1 /\ delivered'[d + 1] = rbuf
      /\ \A j \in 1 .. d : delivered'[j] = delivered[j]
  BY <1>3 DEF TypeOK, ReaderTypeOK
<1>9. /\ more \in [1 .. d + 1 -> 1 .. Len(written)]
      /\ more[d + 1] = cur /\ \A k \in 1 .. d : more[k] = place[k]
  BY <1>5, <1>6
<1>10. \A i \in 1 .. n : rest[i] = call[i + 1] /\ i + 1 \in 1 .. n + 1 /\ 1 < i + 1
  OBVIOUS
<1> HIDE DEF more, rest
<1>11. Placed(more)'
  <2>1. ASSUME NEW j \in 1 .. d + 1
        PROVE  /\ delivered'[j] = Whole(written[more[j]])
               /\ \A i \in 1 .. j - 1 : more[i] < more[j]
    <3>1. CASE j = d + 1
      <4>1. delivered'[j] = Whole(written[more[j]])
        BY <1>7, <1>8, <1>9, <3>1
      <4>2. \A i \in 1 .. j - 1 : i \in 1 .. d /\ more[i] = place[i] /\ place[i] < cur
        BY <1>5, <1>9, <3>1
      <4> QED BY <1>9, <3>1, <4>1, <4>2
    <3>2. CASE j \in 1 .. d
      <4>1. more[j] = place[j] /\ delivered'[j] = delivered[j]
        BY <1>8, <1>9, <3>2
      <4>2. delivered[j] = Whole(written[place[j]])
        BY <1>5, <3>2
      <4>3. \A i \in 1 .. j - 1 : i \in 1 .. d /\ place[i] < place[j]
        BY <1>5, <3>2
      <4> QED BY <1>9, <4>1, <4>2, <4>3
    <3>3. j = d + 1 \/ j \in 1 .. d
      OBVIOUS
    <3> QED BY <3>1, <3>2, <3>3
  <2>2. more \in [1 .. Len(delivered') -> 1 .. Len(written')]
    BY <1>8, <1>9
  <2>3. ASSUME NEW j \in 1 .. Len(delivered')
        PROVE  /\ delivered'[j] = Whole(written'[more[j]])
               /\ \A i \in 1 .. j - 1 : more[i] < more[j]
    BY <1>8, <2>1
  <2> QED BY <2>2, <2>3 DEF Placed, Whole
<1>12. ASSUME NEW k \in 1 .. d + 1, NEW i \in 1 .. n
       PROVE  more[k] < rest[i]
  <2>1. call[1] < call[i + 1] /\ call[i + 1] \in Int /\ call[1] \in Int
    BY <1>5, <1>10
  <2>2. more[k] <= cur /\ more[k] \in Int
    BY <1>5, <1>9, SMTT(30)
  <2> QED BY <1>5, <1>10, <2>1, <2>2, SMTT(30)
<1>13. Calls' = Calls
  BY DEF Calls
<1>14. Ordered(rest, more, cur)'
  BY <1>1, <1>4, <1>5, <1>8, <1>11, <1>12, <1>13 DEF Ordered
<1> QED BY <1>14 DEF Orderly

\* A budget that is used up stays so.
LEMMA SpentStays ==
  ASSUME TypeOK, NEW k \in FaultKinds, faults[k] = 0, k # "any", Next
  PROVE  faults'[k] = 0
<1>1. UNCHANGED faults \/ \E kind \in FaultKinds \ {"any"} : Spend(kind)
  <2>1. /\ "early" \in FaultKinds \ {"any"} /\ "expire" \in FaultKinds \ {"any"}
        /\ "ioerror" \in FaultKinds \ {"any"} /\ "crash" \in FaultKinds \ {"any"}
        /\ "loss" \in FaultKinds \ {"any"} /\ "dup" \in FaultKinds \ {"any"}
        /\ "reorder" \in FaultKinds \ {"any"} /\ "corrupt" \in FaultKinds \ {"any"}
    BY DEF FaultKinds
  <2>2. ASSUME NEW m \in Messages, WStart(m) PROVE UNCHANGED faults
    BY <2>2 DEF WStart
  <2>3. CASE WSend \/ WRecv \/ WAck \/ RStart \/ RRecvData \/ RSendAck \/ RRecvAck
    BY <2>3 DEF WSend, WRecv, WAck, RStart, RRecvData, RSendAck, RRecvAck
  <2>4. CASE \/ WSendFails \/ WTimeout \/ WFrameExpires \/ WCallExpires \/ RSendAckFails
             \/ RTimeout \/ RExpires \/ WCrash \/ RCrash
    BY <2>1, <2>4 DEF WSendFails, WTimeout, WFrameExpires, WCallExpires, RSendAckFails,
       RTimeout, RExpires, WCrash, RCrash
  <2>5. CASE NetworkFault
    BY <2>1, <2>5 DEF NetworkFault, Strike
  <2> QED BY <2>2, <2>3, <2>4, <2>5 DEF Next, Writer, Reader
<1>2. ASSUME NEW kind \in FaultKinds \ {"any"}, Spend(kind) PROVE faults'[k] = 0
  <2>1. faults \in [FaultKinds -> Nat] /\ kind # k
    BY <1>2 DEF TypeOK, Spend
  <2> QED BY <1>2, <2>1 DEF Spend
<1> QED BY <1>1, <1>2

\* The writer and the network.
LEMMA OthersOrderly ==
  ASSUME SingleFrames, TypeOK, OrderInv, Writer \/ NetworkFault
  PROVE  Orderly'
<1>1. Orderly
  BY OrderlyBounds DEF OrderInv
<1>2. ASSUME UNCHANGED <<toR, wmsg, written, readerVars>> PROVE Orderly'
  BY <1>1, <1>2, OrderlySame DEF readerVars, InHand
<1>3. ASSUME NEW m \in Messages, WStart(m) PROVE Orderly'
  BY <1>1, <1>3, OrderlyStart
<1>4. CASE WSendFails \/ WRecv \/ WTimeout \/ WFrameExpires \/ WCallExpires
  <2>1. UNCHANGED <<toR, written, readerVars>>
    BY <1>4 DEF WSendFails, WRecv, WTimeout, WFrameExpires, WCallExpires
  <2>2. UNCHANGED wmsg
    <3>1. WAbort => UNCHANGED wmsg
      BY DEF WAbort, WriteThrows, FirstFragment
    <3> QED BY <1>4, <3>1 DEF WSendFails, WRecv, WTimeout, WFrameExpires, WCallExpires,
            WriteThrows
  <2> QED BY <1>2, <2>1, <2>2
<1>5. /\ Len(toR) \in Nat /\ Len(written) \in Nat /\ toR \in Seq(Frame)
      /\ written \in Seq(Messages)
  BY DEF TypeOK, ChannelTypeOK, WriterTypeOK
<1>6. wpc # "idle" =>
        /\ wmsg \in Messages /\ wmsg # None /\ wpart = 1 /\ FragmentsOf[wmsg] = 1
        /\ wseq \in 0 .. SeqLimit - 1 /\ Calls = Len(written) + 1
  <2>1. wpc # "idle" => wmsg \in Messages /\ wpart \in 1 .. FragmentsOf[wmsg]
                        /\ wseq \in 0 .. SeqLimit - 1
    BY WriterNumbers
  <2>2. wpc # "idle" => FragmentsOf[wmsg] = 1
    BY <2>1 DEF SingleFrames, IsSingle
  <2>3. wpc # "idle" => wmsg # None
    BY <2>1, SprotAssumption
  <2> QED BY <2>1, <2>2, <2>3 DEF Calls
<1>7. CASE WSend
  <2> DEFINE f == DataFrame(wmsg, wpart, wseq)
  <2>1. /\ wpc = "send" /\ toR' = Sent(toR, f)
        /\ UNCHANGED <<wmsg, written, readerVars>>
        /\ UNCHANGED <<rpc, rbuf, delivered>>
    BY <1>7 DEF WSend, readerVars
  <2>2. f \in Frame /\ ~IsAck(f) /\ f.data = <<wmsg, 1>>
    <3>1. f \in Frame
      BY <1>6, <2>1, FramesTyped
    <3>2. f.type # "ACK"
      BY DEF DataFrame, FragmentType
    <3>3. f.data = <<wmsg, 1>>
      BY <1>6, <2>1 DEF DataFrame
    <3> QED BY <3>1, <3>2, <3>3 DEF IsAck
  <2>3. PICK n \in Nat, top \in Nat \ {0} : n = Len(toR) /\ top = Len(written) + 1
    BY <1>5
  <2>4. /\ Calls' = top /\ Calls = top /\ Nth(top)' = wmsg
        /\ \A k \in 1 .. Calls : Nth(k)' = Nth(k)
    <3>1. Calls' = Calls /\ Calls = top
      BY <1>6, <2>1, <2>3 DEF Calls
    <3>2. Nth(top)' = wmsg /\ \A k : Nth(k)' = Nth(k)
      BY <1>5, <2>1, <2>3 DEF Nth
    <3> QED BY <3>1, <3>2
  <2> HIDE DEF f
  <2>5. CASE toR' = toR
    BY <1>2, <2>1, <2>5
  <2>6. CASE toR' = Append(toR, f)
    <3>1. Calls <= top /\ Len(written) < top /\ Len(written) <= Len(written') /\ Len(written') \in Nat
      BY <1>5, <2>1, <2>3, <2>4
    <3> QED BY <1>1, <2>1, <2>2, <2>3, <2>4, <2>6, <3>1, OrderlyMore
  <2> QED BY <2>1, <2>5, <2>6 DEF Sent
<1>8. CASE WAck
  <2> DEFINE f == AckFrame(wseq)
  <2>1. /\ wpc = "ack" /\ toR' = Sent(toR, f) /\ UNCHANGED readerVars
        /\ wmsg' = None /\ written' = Append(written, wmsg)
        /\ UNCHANGED <<rpc, rbuf, delivered>>
    <3>1. wpc = "ack" /\ ~(wpart < FragmentsOf[wmsg])
      BY <1>6, <1>8 DEF WAck
    <3> QED BY <1>8, <3>1 DEF WAck, readerVars
  <2>2. f \in Frame /\ ~IsData(f)
    <3>1. f \in Frame
      BY <1>6, <2>1, FramesTyped
    <3>2. f.type = "ACK"
      BY DEF AckFrame
    <3> QED BY <3>1, <3>2 DEF IsData
  <2>3. PICK n \in Nat, top \in Nat \ {0} : n = Len(toR) /\ top = Len(written) + 1
    BY <1>5
  <2>4. /\ Len(written') = top /\ written'[top] = wmsg
        /\ \A k \in 1 .. Len(written) : written'[k] = written[k]
    BY <1>5, <1>6, <2>1, <2>3
  <2>5. Calls' = top /\ Calls = top
    BY <1>6, <2>1, <2>3, <2>4 DEF Calls
  <2>6. \A k \in 1 .. Calls : Nth(k)' = Nth(k)
    <3>1. ASSUME NEW k \in 1 .. top PROVE Nth(k)' = Nth(k)
      <4>1. k <= Len(written') /\ (k \in 1 .. Len(written) \/ k = Len(written) + 1)
        BY <1>5, <2>3, <2>4
      <4>2. CASE k \in 1 .. Len(written)
        BY <2>4, <4>1, <4>2 DEF Nth
      <4>3. CASE k = Len(written) + 1
        <5>1. ~(k <= Len(written))
          BY <1>5, <4>3
        <5> QED BY <2>3, <2>4, <4>1, <4>3, <5>1 DEF Nth
      <4> QED BY <4>1, <4>2, <4>3
    <3> QED BY <2>5, <3>1
  <2>7. CASE toR' = Append(toR, f)
    <3>1. /\ Calls <= top /\ Len(written) < top /\ Len(written) <= Len(written')
          /\ Len(written') \in Nat
      BY <1>5, <2>3, <2>4, <2>5
    <3>2. top <= Len(written')
      BY <2>3, <2>4
    <3> HIDE DEF f
    <3> QED BY <1>1, <2>1, <2>2, <2>3, <2>4, <2>5, <2>6, <2>7, <3>1, <3>2, OrderlyMore
  <2>8. CASE toR' = toR
    BY <1>1, <1>5, <2>1, <2>3, <2>4, <2>5, <2>6, <2>8, OrderlyDropped
  <2> HIDE DEF f
  <2> QED BY <2>1, <2>7, <2>8 DEF Sent
<1>9. CASE NetworkFault
  <2>1. UNCHANGED <<wmsg, written, readerVars, delivered, rpc, rbuf>>
    BY <1>9 DEF NetworkFault, writerVars, readerVars
  <2>2. CASE toR' = toR
    BY <1>2, <2>1, <2>2
  <2>3. CASE toR' \in Losses(toR)
    <3>1. PICK i \in 1 .. Len(toR) : toR' = RemoveAt(toR, i)
      BY <2>3 DEF Losses
    <3>2. PICK h \in [1 .. Len(RemoveAt(toR, i)) -> 1 .. Len(toR)] :
            /\ \A j, k \in 1 .. Len(RemoveAt(toR, i)) : j < k => h[j] < h[k]
            /\ \A j \in 1 .. Len(RemoveAt(toR, i)) : RemoveAt(toR, i)[j] = toR[h[j]]
      BY <1>5, RemovedFrom
    <3>3. PICK n \in Nat : n = Len(RemoveAt(toR, i))
      BY <1>5, RemoveAtType
    <3> QED BY <1>1, <2>1, <3>1, <3>2, <3>3, OrderlyRest DEF InHand
  <2>4. CASE toR' \in Corruptions(toR)
    <3>1. PICK i \in 1 .. Len(toR), s \in 0 .. SeqLimit - 1 :
            toR' = [toR EXCEPT ![i] = Corrupted(toR[i], s)]
      BY <2>4 DEF Corruptions
    <3>2. PICK n \in Nat : n = Len(toR)
      BY <1>5
    <3> DEFINE h == [j \in 1 .. n |-> j]
    <3>3. /\ h \in [1 .. n -> 1 .. Len(toR)]
          /\ \A j, k \in 1 .. n : j < k => h[j] < h[k]
      BY <3>2
    <3>4. ~Corrupted(toR[i], s).sound
      <4>1. toR[i] \in Frame
        BY <1>5
      <4> QED BY <4>1 DEF Corrupted, Frame
    <3>5. /\ Len(toR') = n
          /\ \A j \in 1 .. n : toR'[j] = toR[h[j]] \/ ~toR'[j].sound
      <4>1. /\ Len(toR') = n
            /\ \A j \in 1 .. n : toR'[j] = IF j = i THEN Corrupted(toR[i], s) ELSE toR[j]
        BY <1>5, <3>1, <3>2
      <4> QED BY <3>4, <4>1
    <3> HIDE DEF h
    <3> QED BY <1>1, <2>1, <3>3, <3>5, OrderlyRest DEF InHand
  <2>5. ~Spend("dup") /\ ~Spend("reorder")
    BY DEF OrderInv, Spend
  <2> QED BY <1>9, <2>2, <2>3, <2>4, <2>5 DEF NetworkFault, Strike
<1> QED BY <1>3, <1>4, <1>7, <1>8, <1>9 DEF Writer

\* What the reader collects: never a message of several frames, and nothing of a
\* call before.
Collects == ~rmulti /\ (rpc = "data" => rprev = "UNDEF" /\ rbuf = <<>>)

\* A read() that begins anew, or ends without anything.
LEMMA DropsAll ==
  ASSUME Collects, Restart \/ ReadThrows
  PROVE  Collects' /\ ~InHand'
<1>1. CASE Restart
  <2>1. rpc' = "data" /\ ~rmulti' /\ rprev' = "UNDEF" /\ rbuf' = <<>>
    BY <1>1, Zenon DEF Restart
  <2> QED BY <2>1 DEF Collects, InHand
<1>2. CASE ReadThrows
  <2>1. rpc' = "idle" /\ (rmulti' <=> rmulti)
    BY <1>2, Zenon DEF ReadThrows
  <2> QED BY <2>1 DEF Collects, InHand
<1> QED BY <1>1, <1>2

\* A closing ACK that does not come: nothing is returned.
LEMMA DropsUnclosed ==
  ASSUME Collects, rpc = "ack", RRetryFrame(RAbortAck) \/ RAbortAck
  PROVE  Collects' /\ UNCHANGED delivered /\ (InHand' => InHand /\ rbuf' = rbuf)
<1>1. CASE RAbortAck
  <2>1. ~(rprev = "LAST" /\ rmulti)
    BY DEF Collects
  <2>2. (Restart \/ ReadThrows) /\ UNCHANGED delivered
    BY <1>1, <2>1, Zenon DEF RAbortAck
  <2> QED BY <2>2, DropsAll
<1>2. CASE UNCHANGED <<rpc, rmulti, rprev, rbuf, delivered>>
  BY <1>2, Zenon DEF Collects, InHand
<1> QED BY <1>1, <1>2 DEF RRetryFrame

LEMMA DropsData ==
  ASSUME Collects, rpc = "data", RRetryFrame(RAbortData) \/ RAbortData
  PROVE  Collects' /\ UNCHANGED delivered /\ (InHand' => InHand /\ rbuf' = rbuf)
<1>1. CASE RAbortData
  <2>1. (Restart \/ ReadThrows) /\ UNCHANGED delivered
    BY <1>1, Zenon DEF RAbortData
  <2> QED BY <2>1, DropsAll
<1>2. CASE UNCHANGED <<rpc, rmulti, rprev, rbuf, delivered>>
  BY <1>2, Zenon DEF Collects, InHand
<1> QED BY <1>1, <1>2 DEF RRetryFrame

\* A frame that belongs to a call has the message of that call.
LEMMA NumberedType ==
  ASSUME SingleFrames, TypeOK, toR \in Seq(Honest), Orderly, toR # <<>>,
         IsData(Head(toR))
  PROVE  Head(toR).type = "SINGLE"
<1>1. PICK call, place, cur : Ordered(call, place, cur)
  BY DEF Orderly
<1>2. /\ Head(toR) = toR[1] /\ 1 \in 1 .. Len(toR) /\ toR[1] \in Honest
  OBVIOUS
<1>3. /\ call[1] \in 1 .. Calls /\ toR[1].data = <<Nth(call[1]), 1>>
  BY <1>1, <1>2 DEF Ordered, Numbered
<1>4. Nth(call[1]) \in Messages
  <2>1. written \in Seq(Messages) /\ wmsg \in Messages \cup {None}
    BY DEF TypeOK, WriterTypeOK
  <2>2. call[1] \in 1 .. Len(written) \/ (call[1] = Len(written) + 1 /\ wmsg # None)
    BY <1>3, <2>1 DEF Calls
  <2> QED BY <2>1, <2>2 DEF Nth
<1>5. toR[1].type = Role(toR[1].data)
  <2>1. toR[1] \in Frame
    BY <1>2 DEF Honest
  <2>2. toR[1].type \in DataTypes
    BY <1>2, <2>1, FrameFacts DEF IsData
  <2> QED BY <1>2, <2>2 DEF Honest, IsData
<1>6. Role(toR[1].data) = FragmentType(Nth(call[1]), 1)
  BY <1>3 DEF Role
<1>7. IsSingle(Nth(call[1])) /\ FragmentsOf[Nth(call[1])] \in Nat \ {0}
  BY <1>4, SprotAssumption DEF SingleFrames
<1>8. FragmentType(Nth(call[1]), 1) = "SINGLE"
  <2>1. 1 \in 1 .. FragmentsOf[Nth(call[1])]
    BY <1>7
  <2> QED BY <1>4, <1>7, <2>1, Roles
<1> QED BY <1>2, <1>5, <1>6, <1>8

\* The reader.
LEMMA ReaderOrderly ==
  ASSUME SingleFrames, NoWrap, SeqInv, toR \in Seq(Honest), Collects, Orderly, Reader
  PROVE  Collects' /\ Orderly'
<1>0. TypeOK
  BY DEF SeqInv
<1>1. UNCHANGED <<wmsg, written, writerVars>>
  BY DEF Reader, RStart, RRecvData, RSendAck, RSendAckFails, RRecvAck, RTimeout, RExpires,
     writerVars
<1>2. ASSUME UNCHANGED delivered, InHand' => InHand /\ rbuf' = rbuf,
             toR' = toR \/ (toR # <<>> /\ toR' = Tail(toR))
      PROVE  Orderly'
  BY <1>0, <1>1, <1>2, OrderlySame, OrderlyTail
<1>3. CASE RStart \/ RExpires
  <2>1. (Restart \/ ReadThrows) /\ UNCHANGED <<delivered, toR>>
    BY <1>3 DEF RStart, RExpires
  <2> QED BY <1>2, <2>1, DropsAll
<1>4. CASE RSendAck
  <2>1. /\ rpc = "sack" /\ rpc' = "ack" /\ UNCHANGED <<toR, rmulti, rprev, rbuf, delivered>>
    BY <1>4 DEF RSendAck
  <2>2. Collects'
    BY <2>1, Zenon DEF Collects
  <2> QED BY <1>2, <2>1, <2>2 DEF InHand
<1>5. CASE RSendAckFails
  <2>1. UNCHANGED <<toR, delivered>> /\ (ReadThrows \/ UNCHANGED <<rpc, rmulti, rprev, rbuf>>)
    BY <1>5 DEF RSendAckFails
  <2>2. CASE ReadThrows
    BY <1>2, <2>1, <2>2, DropsAll
  <2>3. CASE UNCHANGED <<rpc, rmulti, rprev, rbuf>>
    <3>1. Collects' /\ (InHand' => InHand /\ rbuf' = rbuf)
      BY <2>3, Zenon DEF Collects, InHand
    <3> QED BY <1>2, <2>1, <3>1
  <2> QED BY <2>1, <2>2, <2>3
<1>6. CASE RTimeout
  <2>1. \/ rpc = "data" /\ RRetryFrame(RAbortData)
        \/ rpc = "ack" /\ RRetryFrame(RAbortAck)
    BY <1>6 DEF RTimeout
  <2>2. Collects' /\ UNCHANGED delivered /\ (InHand' => InHand /\ rbuf' = rbuf)
    BY <2>1, DropsData, DropsUnclosed
  <2> QED BY <1>2, <1>6, <2>2 DEF RTimeout
<1>7. CASE RRecvAck
  <2> DEFINE f == Head(toR)
  <2>1. /\ rpc = "ack" /\ toR # <<>> /\ toR' = Tail(toR) /\ f = toR[1] /\ 1 \in 1 .. Len(toR)
    BY <1>0, <1>7 DEF RRecvAck, TypeOK, ChannelTypeOK
  <2>2. f.seq = rseq /\ f.sound => f.type = "ACK"
    <3>1. f \in ToReader /\ rseq % 3 = 2
      BY <2>1 DEF SeqInv, SeqClass, ChannelClass, ReaderClass
    <3>2. f \in Frame /\ (f.sound /\ f.type \in DataTypes => f.seq % 3 = 0)
      BY <3>1 DEF ToReader
    <3>3. f.type \in DataTypes \cup {"ACK"}
      BY <3>2, FrameFacts
    <3> HIDE DEF f
    <3> QED BY <3>1, <3>2, <3>3
  <2>3. MessageComplete
    BY DEF Collects, MessageComplete
  <2> HIDE DEF f
  <2>4. \/ f.seq = rseq /\ f.sound /\ CompleteRead
        \/ RRetryFrame(RAbortAck)
        \/ RAbortAck
    BY <1>7, <2>2, <2>3 DEF RRecvAck, f
  <2>5. CASE RRetryFrame(RAbortAck) \/ RAbortAck
    <3>1. Collects' /\ UNCHANGED delivered /\ (InHand' => InHand /\ rbuf' = rbuf)
      BY <2>1, <2>5, DropsUnclosed
    <3> QED BY <1>2, <2>1, <3>1
  <2>6. CASE CompleteRead /\ ~ReadReturns
    <3>1. Restart /\ UNCHANGED delivered
      BY <2>6 DEF CompleteRead
    <3> QED BY <1>2, <2>1, <3>1, DropsAll
  <2>7. CASE f.seq = rseq /\ f.sound /\ ReadReturns
    <3>1. /\ rpc' = "idle" /\ delivered' = Append(delivered, rbuf) /\ (rmulti' <=> rmulti)
      BY <2>7, Zenon DEF ReadReturns
    <3>2. InHand /\ ~InHand'
      BY <2>1, <3>1 DEF InHand
    <3>3. IsAck(f)
      BY <2>2, <2>7 DEF IsAck
    <3>4. Collects'
      BY <3>1 DEF Collects
    <3> QED BY <1>0, <1>1, <2>1, <3>1, <3>2, <3>3, <3>4, OrderlyReturn DEF f
  <2> QED BY <2>4, <2>5, <2>6, <2>7
<1>8. CASE RRecvData
  <2> DEFINE f == Head(toR)
  <2>1. /\ rpc = "data" /\ toR # <<>> /\ toR' = Tail(toR)
    BY <1>8 DEF RRecvData
  <2>2. \/ RRetryFrame(RAbortData) \/ RAbortData
        \/ f.sound /\ f.type \in DataTypes /\ AcceptData(f)
    BY <1>8 DEF RRecvData
  <2>3. CASE RRetryFrame(RAbortData) \/ RAbortData
    <3>1. Collects' /\ UNCHANGED delivered /\ (InHand' => InHand /\ rbuf' = rbuf)
      BY <2>1, <2>3, DropsData
    <3> QED BY <1>2, <2>1, <3>1
  <2>4. CASE f.sound /\ f.type \in DataTypes /\ AcceptData(f)
    <3>1. IsData(f)
      BY <2>4 DEF IsData, DataTypes
    <3>2. f.type = "SINGLE"
      BY <1>0, <2>1, <3>1, NumberedType
    <3>3. ~rmulti /\ rprev = "UNDEF" /\ rbuf = <<>>
      BY <2>1 DEF Collects
    <3> HIDE DEF f
    <3>4. \/ Overflow
          \/ /\ (rmulti' <=> FALSE) /\ rbuf' = Append(rbuf, f.data)
             /\ rpc' = "sack" /\ UNCHANGED delivered
      BY <2>4, <3>2, <3>3 DEF AcceptData
    <3>5. CASE Overflow
      <4>1. ReadThrows /\ UNCHANGED delivered
        BY <3>5 DEF Overflow
      <4> QED BY <1>2, <2>1, <4>1, DropsAll
    <3>6. CASE ~rmulti' /\ rbuf' = Append(rbuf, f.data) /\ rpc' = "sack"
               /\ UNCHANGED delivered
      <4>1. rbuf' = <<f.data>>
        BY <3>3, <3>6
      <4>2. Collects'
        BY <3>6 DEF Collects
      <4>3. Orderly'
        BY <1>0, <1>1, <2>1, <3>1, <3>6, <4>1, OrderlyTake DEF f
      <4> QED BY <4>2, <4>3
    <3> QED BY <3>4, <3>5, <3>6
  <2> QED BY <2>2, <2>3, <2>4
<1> QED BY <1>3, <1>4, <1>5, <1>6, <1>7, <1>8 DEF Reader

LEMMA OrderAlways ==
  ASSUME SingleFrames, NoWrap
  PROVE  Spec => []OrderInv
<1>1. Init => OrderInv
  <2> SUFFICES ASSUME Init PROVE OrderInv
    OBVIOUS
  <2>1. /\ faults["dup"] = 0 /\ faults["reorder"] = 0 /\ faults["crash"] = 0
        /\ toR = <<>> /\ delivered = <<>> /\ written = <<>> /\ rpc = "idle"
        /\ wmsg = None
    BY DEF Init, SingleFrames
  <2>2. ~rmulti
    BY Zenon DEF Init
  <2>3. Ordered(<<>>, <<>>, 0)
    <3>1. Len(toR) = 0 /\ Len(delivered) = 0 /\ Len(written) = 0 /\ Calls = 0
      BY <2>1 DEF Calls
    <3>2. <<>> \in [1 .. 0 -> 1 .. 0]
      OBVIOUS
    <3> QED BY <2>1, <3>1, <3>2 DEF Ordered, Numbered, Placed, InHand
  <2>4. Orderly
    BY <2>3 DEF Orderly
  <2> QED BY <2>1, <2>2, <2>4, OrderlyBounds DEF OrderInv
<1>2. SeqInv /\ FramedInv /\ OrderInv /\ [Next]_vars => OrderInv'
  <2> SUFFICES ASSUME SeqInv, FramedInv, OrderInv, [Next]_vars PROVE OrderInv'
    OBVIOUS
  <2>1. TypeOK /\ toR \in Seq(Honest) /\ Orderly /\ Collects
    BY OrderlyBounds DEF SeqInv, FramedInv, OrderInv, Collects
  <2>2. CASE UNCHANGED vars
    <3>1. /\ UNCHANGED <<toR, wmsg, written, delivered, rbuf, rpc, rmulti, rprev, faults>>
      BY <2>2 DEF vars, writerVars, readerVars
    <3>2. Orderly' /\ Collects'
      BY <2>1, <3>1, OrderlySame DEF InHand, Collects
    <3>3. faults'["dup"] = 0 /\ faults'["reorder"] = 0 /\ faults'["crash"] = 0
      BY <3>1 DEF OrderInv
    <3> QED BY <3>2, <3>3, OrderlyBoundsNext DEF OrderInv, Collects
  <2>3. CASE Next
    <3>1. faults'["dup"] = 0 /\ faults'["reorder"] = 0 /\ faults'["crash"] = 0
      BY <2>1, <2>3, SpentStays DEF OrderInv, FaultKinds
    <3>2. ~WCrash /\ ~RCrash
      BY DEF OrderInv, Spend, WCrash, RCrash
    <3>3. CASE Reader
      <4>1. Orderly' /\ Collects'
        BY <2>1, <3>3, ReaderOrderly
      <4> QED BY <3>1, <4>1, OrderlyBoundsNext DEF OrderInv, Collects
    <3>4. CASE Writer \/ NetworkFault
      <4>1. UNCHANGED readerVars
        BY <3>4 DEF Writer, WStart, WSend, WSendFails, WRecv, WTimeout, WFrameExpires,
           WCallExpires, WAck, NetworkFault
      <4>2. Collects'
        BY <2>1, <4>1 DEF readerVars, Collects
      <4>3. Orderly'
        BY <2>1, <3>4, OthersOrderly
      <4> QED BY <3>1, <4>2, <4>3, OrderlyBoundsNext DEF OrderInv, Collects
    <3> QED BY <2>3, <3>2, <3>3, <3>4 DEF Next
  <2> QED BY <2>2, <2>3
<1> QED BY <1>1, <1>2, SequenceBounds, FramedAlways, PTL DEF Spec

\* Messages of one frame are returned in the order of the successful write()
\* calls and each at most once, over any number of datagrams lost or corrupted,
\* errors of the socket, early timeouts and expired calls.
THEOREM NoneTwice ==
  ASSUME SingleFrames, NoWrap
  PROVE  Spec => []InOrderAtMostOnce
<1>1. OrderInv => InOrderAtMostOnce
  BY DEF OrderInv, Ordered, Placed, InOrderAtMostOnce
<1> QED BY <1>1, OrderAlways, PTL
=============================================================================
