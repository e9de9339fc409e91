------------------------------- MODULE Sprot -------------------------------
(***************************************************************************)
(* sprot::Protocol (src/sprot/sprot.cpp): the stop-and-wait protocol that  *)
(* carries every message of fplog over a datagram transport.  One endpoint *)
(* only writes and the other only reads, as the processes of fplog do.     *)
(*                                                                         *)
(* A message is cut into fragments of one MTU.  All data frames of a group *)
(* of AckAfter frames carry the same sequence number s; the reader answers *)
(* the group with an ACK numbered s+1, the writer answers that one with an *)
(* ACK numbered s+2, and the next group is numbered s+3.  Both ends count  *)
(* from 0 at every call and at every full retry.                           *)
(*                                                                         *)
(* One step is one transport operation together with the computation up to *)
(* the next one.  The 500 ms transport timeout fires freely when the peer  *)
(* has nothing left to say; before that it costs one unit of the "early"   *)
(* budget.  Everything else the environment can do wrong costs a unit of   *)
(* the budget that bears its name.                                         *)
(***************************************************************************)
EXTENDS Integers, Sequences, FiniteSets

LOCAL INSTANCE SequencesExt      \* RemoveAt

CONSTANTS
  Messages,        \* contents the application may write
  FragmentsOf,     \* [Messages -> number of MTU-sized fragments]
  AckAfter,        \* ack_after_, 4 in the code
  FrameRetries,    \* retry_count, 5 in the code
  FullRetries,     \* full_retries, 100 in the code
  SeqLimit,        \* sequence_num_ is an unsigned short: 2^16 in the code
  ReadBufs,        \* capacities, in fragments, the reading loop tries in turn
  SocketBuf,       \* datagrams a socket holds before it drops new ones
  MaxWrites,       \* bound: successful writes
  Faults           \* bound: how often each kind of fault may strike

None == "none"

\* "any" is the budget of all kinds together.
FaultKinds == {"loss", "dup", "reorder", "corrupt", "early", "expire",
               "ioerror", "crash", "any"}

ASSUME SprotAssumption ==
  /\ FragmentsOf \in [Messages -> Nat \ {0}]
  /\ AckAfter \in Nat \ {0}
  /\ FrameRetries \in Nat
  /\ FullRetries \in Nat
  /\ SeqLimit \in Nat \ {0}
  /\ ReadBufs \in Seq(Nat) /\ ReadBufs # <<>>
  /\ SocketBuf \in Nat
  /\ MaxWrites \in Nat
  /\ Faults \in [FaultKinds -> Nat]
  /\ None \notin Messages

VARIABLES
  toR, toW,        \* datagrams on their way to, or in the socket of, each end
  wpc,             \* where write() stands
  wmsg,            \* the message being written or waiting to be retried
  wpart,           \* index of the fragment write_data() is sending
  wseq,            \* the writer's sequence_num_
  wgroup,          \* the writer's frame_num_
  wretry, wfull,   \* the writer's retry_count and full_retries
  rpc,             \* where read() stands
  rseq,            \* the reader's sequence_num_
  rgroup,          \* read()'s local frame_num
  rmulti, rlast,   \* read()'s multipart and last
  rprev,           \* type of prev_frame
  rbuf,            \* the fragments copied into the caller's buffer
  rretry, rfull,   \* read()'s retry_count and full_retries
  rcap,            \* index in ReadBufs of the buffer the caller passes
  twin,            \* evil_twin_, <<>> when twin_size_ is 0
  written,         \* history: messages whose write() returned normally
  delivered,       \* history: what each read() returned
  faults           \* what is left of each fault budget

writerVars == <<wpc, wmsg, wpart, wseq, wgroup, wretry, wfull, written>>
readerVars == <<rpc, rseq, rgroup, rmulti, rlast, rprev, rbuf, rretry, rfull,
                rcap, twin, delivered>>
vars == <<toR, toW, writerVars, readerVars, faults>>

----------------------------------------------------------------------------
(* Frames and fragments *)

DataTypes  == {"SINGLE", "FIRST", "LAST"}
NoFragment == <<>>

Fragments == Messages \X Nat

\* `sound' is what the CRC tells: a corrupted frame is not sound.
Frame ==
  [type : DataTypes, seq : 0 .. SeqLimit - 1, data : Fragments, sound : BOOLEAN]
  \cup
  [type : {"ACK"}, seq : 0 .. SeqLimit - 1, data : {NoFragment}, sound : BOOLEAN]

NextSeq(s) == IF s + 1 = SeqLimit THEN 0 ELSE s + 1

AckFrame(s) == [type |-> "ACK", seq |-> s, data |-> NoFragment, sound |-> TRUE]

IsSingle(m) == FragmentsOf[m] = 1

FragmentType(m, k) ==
  IF k = FragmentsOf[m] /\ ~IsSingle(m) THEN "LAST"
  ELSE IF k = 1 /\ ~IsSingle(m) THEN "FIRST" ELSE "SINGLE"

DataFrame(m, k, s) ==
  [type |-> FragmentType(m, k), seq |-> s, data |-> <<m, k>>, sound |-> TRUE]

\* A message as the reader should see it.
Whole(m) == [k \in 1 .. FragmentsOf[m] |-> <<m, k>>]

\* Mutant: the writer waits for an ACK at the end of a message only.
WriterAckAfterWholeMessage(m) == FragmentsOf[m]

\* write() of a message that fits one frame asks for an ACK of every frame.
WriterAckAfter(m) == IF IsSingle(m) THEN 1 ELSE AckAfter

\* A datagram that finds the socket full is dropped silently.
Sent(channel, f) ==
  IF Len(channel) < SocketBuf THEN Append(channel, f) ELSE channel

Spend(kind) ==
  /\ faults[kind] > 0 /\ faults["any"] > 0
  /\ faults' = [faults EXCEPT ![kind] = @ - 1, !["any"] = @ - 1]

----------------------------------------------------------------------------
(* The writing end *)

\* The message in the writer's hands after an exception leaves write(): the
\* callers of write() keep it and try again.
WriteThrows == wpc' = "idle" /\ UNCHANGED <<wmsg, wpart, wseq, wretry, wfull>>

FirstFragment ==
  /\ wpc' = "send"
  /\ wpart' = 1
  /\ wseq' = 0
  /\ wretry' = FrameRetries
  /\ UNCHANGED wmsg

\* write() is called with a message of the caller's choice, or again with the
\* one that failed.
WStart(m) ==
  /\ wpc = "idle"
  /\ wmsg \in {None, m}
  /\ Len(written) < MaxWrites
  /\ wmsg' = m
  /\ wpc' = "send"
  /\ wpart' = 1
  /\ wseq' = 0
  /\ wretry' = FrameRetries
  /\ wfull' = FullRetries
  /\ UNCHANGED <<toR, toW, wgroup, written, readerVars, faults>>

\* An exception leaves write_data().  write() passes it on when the message is
\* a single frame, and starts the whole message again while it may otherwise.
WAbort ==
  /\ wgroup' = 0
  /\ \/ (IsSingle(wmsg) \/ wfull = 0) /\ WriteThrows
     \/ /\ ~IsSingle(wmsg) /\ wfull > 0
        /\ wfull' = wfull - 1
        /\ FirstFragment

\* write_data() sends its frame and decides whether the group ends here.
WSend ==
  LET group == wgroup + 1
      ends  == \/ group % WriterAckAfter(wmsg) = 0
               \/ FragmentType(wmsg, wpart) = "LAST"
  IN /\ wpc = "send"
     /\ toR' = Sent(toR, DataFrame(wmsg, wpart, wseq))
     /\ wgroup' = group
     /\ wretry' = FrameRetries
     /\ \/ ends /\ wpc' = "wait" /\ wseq' = NextSeq(wseq) /\ UNCHANGED wpart
        \/ ~ends /\ wpart' = wpart + 1 /\ UNCHANGED <<wpc, wseq>>
     /\ UNCHANGED <<toW, wmsg, wfull, written, readerVars, faults>>

\* write_frame() throws: the frame is tried again retry_count times.
WSendFails ==
  /\ wpc \in {"send", "ack"}
  /\ Spend("ioerror")
  /\ \/ /\ wretry > 0
        /\ wretry' = wretry - 1
        /\ UNCHANGED <<wpc, wmsg, wpart, wseq, wgroup, wfull>>
     \/ wretry = 0 /\ WAbort
  /\ UNCHANGED <<toR, toW, written, readerVars>>

\* write_data() reads the reader's ACK.
WRecv ==
  /\ wpc = "wait" /\ toW # <<>>
  /\ toW' = Tail(toW)
  /\ LET f == Head(toW)
     IN \/ /\ f.seq = wseq /\ f.sound /\ f.type = "ACK"
           /\ wpc' = "ack"
           /\ wseq' = NextSeq(wseq)
           /\ wretry' = FrameRetries
           /\ UNCHANGED <<wmsg, wpart, wgroup, wfull>>
        \/ /\ f.seq = wseq /\ ~f.sound /\ wretry > 0
           /\ wretry' = wretry - 1
           /\ UNCHANGED <<wpc, wmsg, wpart, wseq, wgroup, wfull>>
        \/ /\ \/ f.seq # wseq
              \/ ~f.sound /\ wretry = 0
              \/ f.sound /\ f.type # "ACK"
           /\ WAbort
  /\ UNCHANGED <<toR, written, readerVars, faults>>

\* The reader has nothing left to say: it is waiting for us.
ReaderSilent == toW = <<>> /\ toR = <<>> /\ rpc # "sack"

\* The transport reports a Timeout after 500 ms.  For a message of several
\* frames that is also write_data()'s own limit, so the group fails at once.
WTimeout ==
  /\ wpc = "wait"
  /\ \/ ReaderSilent /\ UNCHANGED faults
     \/ Spend("early")
  /\ \/ /\ IsSingle(wmsg) /\ wretry > 0
        /\ wretry' = wretry - 1
        /\ UNCHANGED <<wpc, wmsg, wpart, wseq, wgroup, wfull>>
     \/ (~IsSingle(wmsg) \/ wretry = 0) /\ WAbort
  /\ UNCHANGED <<toR, toW, written, readerVars>>

\* check_time_out() of write_data() throws.
WFrameExpires ==
  /\ wpc \in {"send", "wait", "ack"}
  /\ Spend("expire")
  /\ WAbort
  /\ UNCHANGED <<toR, toW, written, readerVars>>

\* check_time_out() of write() throws between two fragments; the time does not
\* come back, so every full retry fails the same way, and frame_num_ keeps the
\* count it had.
WCallExpires ==
  /\ wpc = "send" /\ ~IsSingle(wmsg) /\ wretry = FrameRetries
  /\ Spend("expire")
  /\ WriteThrows
  /\ UNCHANGED <<toR, toW, wgroup, written, readerVars>>

\* Mutant: the loop over the fragments runs once too often.
WAckPastTheEnd ==
  /\ wpc = "ack"
  /\ toR' = Sent(toR, AckFrame(wseq))
  /\ wseq' = NextSeq(wseq)
  /\ wgroup' = 0
  /\ \/ /\ wpart > FragmentsOf[wmsg]
        /\ wpc' = "idle"
        /\ wmsg' = None
        /\ written' = Append(written, wmsg)
        /\ UNCHANGED <<wpart, wretry>>
     \/ /\ wpart <= FragmentsOf[wmsg]
        /\ wpc' = "send"
        /\ wpart' = wpart + 1
        /\ wretry' = FrameRetries
        /\ UNCHANGED <<wmsg, written>>
  /\ UNCHANGED <<toW, wfull, readerVars, faults>>

\* write_data() sends the closing ACK of a group.
WAck ==
  /\ wpc = "ack"
  /\ toR' = Sent(toR, AckFrame(wseq))
  /\ wseq' = NextSeq(wseq)
  /\ wgroup' = 0
  /\ \/ /\ wpart = FragmentsOf[wmsg]
        /\ wpc' = "idle"
        /\ wmsg' = None
        /\ written' = Append(written, wmsg)
        /\ UNCHANGED <<wpart, wretry>>
     \/ /\ wpart < FragmentsOf[wmsg]
        /\ wpc' = "send"
        /\ wpart' = wpart + 1
        /\ wretry' = FrameRetries
        /\ UNCHANGED <<wmsg, written>>
  /\ UNCHANGED <<toW, wfull, readerVars, faults>>

----------------------------------------------------------------------------
(* The reading end *)

\* Mutant: a full retry keeps the sequence number of the failed attempt.
RestartKeepsSeq ==
  /\ rpc' = "data"
  /\ UNCHANGED rseq
  /\ rgroup' = 0
  /\ rmulti' = FALSE
  /\ rlast' = FALSE
  /\ rprev' = "UNDEF"
  /\ rbuf' = <<>>
  /\ rretry' = FrameRetries

\* Mutant: a full retry keeps the data of the failed attempt.
RestartKeepsData ==
  /\ rpc' = "data"
  /\ rseq' = 0
  /\ rgroup' = 0
  /\ rmulti' = FALSE
  /\ rlast' = FALSE
  /\ rprev' = "UNDEF"
  /\ UNCHANGED rbuf
  /\ rretry' = FrameRetries

\* full_read_retry: the call forgets all it has received.
Restart ==
  /\ rpc' = "data"
  /\ rseq' = 0
  /\ rgroup' = 0
  /\ rmulti' = FALSE
  /\ rlast' = FALSE
  /\ rprev' = "UNDEF"
  /\ rbuf' = <<>>
  /\ rretry' = FrameRetries

\* An exception leaves read().
ReadThrows ==
  /\ rpc' = "idle"
  /\ UNCHANGED <<rseq, rgroup, rmulti, rlast, rprev, rbuf, rretry, rfull>>

RStart ==
  /\ rpc = "idle"
  /\ Restart
  /\ rfull' = FullRetries
  /\ UNCHANGED <<toR, toW, writerVars, rcap, twin, delivered, faults>>

\* read() returns what it has copied; the caller goes back to its usual buffer.
ReadReturns ==
  /\ rpc' = "idle"
  /\ delivered' = Append(delivered, rbuf)
  /\ rcap' = 1
  /\ UNCHANGED <<rseq, rgroup, rmulti, rlast, rprev, rbuf, rretry>>

\* A data frame could not be read: a full retry while there are any left.
RAbortData ==
  /\ \/ rfull = 0 /\ ReadThrows
     \/ rfull > 0 /\ rfull' = rfull - 1 /\ Restart
  /\ UNCHANGED <<rcap, twin, delivered>>

\* Mutant: a message of one frame is returned as well when its closing ACK
\* does not come (the call commented out in read()).
RAbortAckReturns ==
  \/ /\ rfull = 0 /\ ReadThrows
     /\ UNCHANGED <<rcap, twin, delivered>>
  \/ /\ rfull > 0
     /\ rfull' = rfull - 1
     /\ twin' = rbuf
     /\ ReadReturns

\* The closing ACK could not be read.  What was received becomes the twin the
\* next delivery is compared with; after the last frame of a message of several
\* frames it is also returned.
RAbortAck ==
  \/ /\ rfull = 0 /\ ReadThrows
     /\ UNCHANGED <<rcap, twin, delivered>>
  \/ /\ rfull > 0
     /\ rfull' = rfull - 1
     /\ twin' = rbuf
     /\ \/ rprev = "LAST" /\ rmulti /\ ReadReturns
        \/ ~(rprev = "LAST" /\ rmulti) /\ Restart /\ UNCHANGED <<rcap, delivered>>

\* An exception other than Wrong_Sequence inside frame_read().
RRetryFrame(abort) ==
  \/ /\ rfull > 0 /\ rretry > 0
     /\ rretry' = rretry - 1
     /\ UNCHANGED <<rpc, rseq, rgroup, rmulti, rlast, rprev, rbuf, rfull,
                    rcap, twin, delivered>>
  \/ (rfull = 0 \/ rretry = 0) /\ abort

\* Mutant: the caller tries again with the same buffer.
OverflowKeepsBuffer ==
  /\ ReadThrows
  /\ UNCHANGED <<rcap, twin, delivered>>

\* Mutant: read() returns what fits instead of throwing.
OverflowTruncates ==
  /\ ReadReturns
  /\ UNCHANGED <<rfull, twin>>

\* The caller of read() answers Buffer_Overflow with a larger buffer.
Overflow ==
  /\ ReadThrows
  /\ rcap' = IF rcap < Len(ReadBufs) THEN rcap + 1 ELSE rcap
  /\ UNCHANGED <<twin, delivered>>

\* A data frame with the expected number has arrived.
AcceptData(f) ==
  LET multi   == rmulti \/ f.type = "FIRST"
      group   == rgroup + 1
      repeats == f.type = rprev
      content == IF f.type = "LAST" /\ repeats THEN rbuf
                 ELSE Append(rbuf, f.data)
      ends    == group % AckAfter = 0 \/ f.type = "LAST" \/ ~multi
  IN \/ /\ f.type = "FIRST" /\ repeats          \* counted, otherwise ignored
        /\ rgroup' = group
        /\ UNCHANGED <<rpc, rseq, rmulti, rlast, rprev, rbuf, rretry, rfull,
                       rcap, twin, delivered>>
     \/ /\ ~(f.type = "FIRST" /\ repeats)
        /\ Len(content) > ReadBufs[rcap]
        /\ Overflow
     \/ /\ ~(f.type = "FIRST" /\ repeats)
        /\ Len(content) <= ReadBufs[rcap]
        /\ rgroup' = group
        /\ rmulti' = multi
        /\ rlast' = (rlast \/ f.type = "LAST")
        /\ rprev' = f.type
        /\ rbuf' = content
        /\ \/ ends /\ rpc' = "sack" /\ rseq' = NextSeq(rseq)
           \/ ~ends /\ UNCHANGED <<rpc, rseq>>
        /\ UNCHANGED <<rretry, rfull, rcap, twin, delivered>>

RRecvData ==
  /\ rpc = "data" /\ toR # <<>>
  /\ toR' = Tail(toR)
  /\ LET f == Head(toR)
     IN \/ f.seq = rseq /\ f.sound /\ f.type \in DataTypes /\ AcceptData(f)
        \/ f.seq = rseq /\ ~f.sound /\ RRetryFrame(RAbortData)
        \/ (f.seq # rseq \/ (f.sound /\ f.type = "ACK")) /\ RAbortData
  /\ UNCHANGED <<toW, writerVars, faults>>

\* Mutant: the number is not advanced after the ACK.
RSendAckSameSeq ==
  /\ rpc = "sack"
  /\ toW' = Sent(toW, AckFrame(rseq))
  /\ rpc' = "ack"
  /\ rgroup' = 0
  /\ UNCHANGED <<toR, writerVars, rseq, rmulti, rlast, rprev, rbuf, rretry,
                 rfull, rcap, twin, delivered, faults>>

\* read() acknowledges the group.
RSendAck ==
  /\ rpc = "sack"
  /\ toW' = Sent(toW, AckFrame(rseq))
  /\ rpc' = "ack"
  /\ rgroup' = 0
  /\ rseq' = NextSeq(rseq)
  /\ UNCHANGED <<toR, writerVars, rmulti, rlast, rprev, rbuf, rretry, rfull,
                 rcap, twin, delivered, faults>>

RSendAckFails ==
  /\ rpc = "sack"
  /\ Spend("ioerror")
  /\ \/ /\ rretry > 0
        /\ rretry' = rretry - 1
        /\ UNCHANGED <<rpc, rseq, rgroup, rmulti, rlast, rprev, rbuf, rfull>>
     \/ rretry = 0 /\ ReadThrows
  /\ UNCHANGED <<toR, toW, writerVars, rcap, twin, delivered>>

\* Mutant: after a message that was not completed, the next one is dropped
\* whatever it is.
CompleteReadDropsNext ==
  /\ twin' = <<>>
  /\ \/ twin # <<>> /\ Restart /\ UNCHANGED <<rcap, delivered>>
     \/ twin = <<>> /\ ReadReturns
  /\ UNCHANGED rfull

\* The message is complete unless it is the twin of the last incomplete one.
CompleteRead ==
  /\ twin' = <<>>
  /\ \/ twin = rbuf /\ Restart /\ UNCHANGED <<rcap, delivered>>
     \/ twin # rbuf /\ ReadReturns
  /\ UNCHANGED rfull

\* Of a message of several frames, the closing ACK after the last one.
MessageComplete == rmulti => rlast

RRecvAck ==
  /\ rpc = "ack" /\ toR # <<>>
  /\ toR' = Tail(toR)
  /\ LET f == Head(toR)
     IN \/ f.seq = rseq /\ f.sound /\ f.type = "ACK" /\ MessageComplete
           /\ CompleteRead
        \/ /\ f.seq = rseq /\ f.sound
           /\ ~(f.type = "ACK" /\ MessageComplete)
           /\ rpc' = "data"
           /\ rseq' = NextSeq(rseq)
           /\ UNCHANGED <<rgroup, rmulti, rlast, rprev, rbuf, rretry, rfull,
                          rcap, twin, delivered>>
        \/ f.seq = rseq /\ ~f.sound /\ RRetryFrame(RAbortAck)
        \/ f.seq # rseq /\ RAbortAck
  /\ UNCHANGED <<toW, writerVars, faults>>

\* The writer has nothing left to say: it is waiting for us, or for a message.
WriterSilent ==
  toR = <<>> /\ (wpc = "idle" \/ (wpc = "wait" /\ toW = <<>>))

RTimeout ==
  /\ \/ WriterSilent /\ UNCHANGED faults
     \/ Spend("early")
  /\ \/ rpc = "data" /\ RRetryFrame(RAbortData)
     \/ rpc = "ack" /\ RRetryFrame(RAbortAck)
  /\ UNCHANGED <<toR, toW, writerVars>>

\* check_time_out() of read() throws: the caller's timeout has passed.
RExpires ==
  /\ rpc \in {"data", "sack", "ack"}
  /\ Spend("expire")
  /\ ReadThrows
  /\ UNCHANGED <<toR, toW, writerVars, rcap, twin, delivered>>

----------------------------------------------------------------------------
(* The environment *)

\* What one fault of the network makes of the datagrams of a channel.
Losses(channel) == {RemoveAt(channel, i) : i \in 1 .. Len(channel)}

Duplications(channel) == {Sent(channel, channel[i]) : i \in 1 .. Len(channel)}

Reorderings(channel) ==
  {[channel EXCEPT ![i] = channel[i + 1], ![i + 1] = channel[i]] :
     i \in 1 .. Len(channel) - 1}

Corrupted(f, s) == [f EXCEPT !.seq = s, !.sound = FALSE]

Corruptions(channel) ==
  {[channel EXCEPT ![i] = Corrupted(channel[i], s)] :
     i \in 1 .. Len(channel), s \in 0 .. SeqLimit - 1}

Strike(kind, fromR, fromW) ==
  /\ Spend(kind)
  /\ \/ toR' \in fromR /\ UNCHANGED toW
     \/ toW' \in fromW /\ UNCHANGED toR

NetworkFault ==
  /\ \/ Strike("loss", Losses(toR), Losses(toW))
     \/ Strike("dup", Duplications(toR), Duplications(toW))
     \/ Strike("reorder", Reorderings(toR), Reorderings(toW))
     \/ Strike("corrupt", Corruptions(toR), Corruptions(toW))
  /\ UNCHANGED <<writerVars, readerVars>>

\* The writing process dies and is started again: its Protocol object, its
\* socket and the message in its hands are gone.
WCrash ==
  /\ Spend("crash")
  /\ wpc' = "idle" /\ wmsg' = None /\ wpart' = 1 /\ wseq' = 0 /\ wgroup' = 0
  /\ wretry' = FrameRetries /\ wfull' = FullRetries
  /\ toW' = <<>>
  /\ UNCHANGED <<toR, written, readerVars>>

RCrash ==
  /\ Spend("crash")
  /\ Restart
  /\ rfull' = FullRetries /\ rcap' = 1 /\ twin' = <<>>
  /\ toR' = <<>>
  /\ UNCHANGED <<toW, writerVars, delivered>>

----------------------------------------------------------------------------

Init ==
  /\ toR = <<>> /\ toW = <<>>
  /\ wpc = "idle" /\ wmsg = None /\ wpart = 1 /\ wseq = 0 /\ wgroup = 0
  /\ wretry = FrameRetries /\ wfull = FullRetries
  /\ rpc = "idle" /\ rseq = 0 /\ rgroup = 0 /\ rmulti = FALSE /\ rlast = FALSE
  /\ rprev = "UNDEF" /\ rbuf = <<>> /\ rretry = FrameRetries
  /\ rfull = FullRetries /\ rcap = 1 /\ twin = <<>>
  /\ written = <<>> /\ delivered = <<>>
  /\ faults = Faults

Writer == \/ \E m \in Messages : WStart(m)
          \/ WSend \/ WSendFails \/ WRecv \/ WTimeout
          \/ WFrameExpires \/ WCallExpires \/ WAck

Reader == \/ RStart \/ RRecvData \/ RSendAck \/ RSendAckFails
          \/ RRecvAck \/ RTimeout \/ RExpires

Next == Writer \/ Reader \/ NetworkFault \/ WCrash \/ RCrash

Fairness == WF_vars(Writer) /\ WF_vars(Reader)

Spec == Init /\ [][Next]_vars
FairSpec == Spec /\ Fairness

----------------------------------------------------------------------------
(* Properties *)

ChannelTypeOK == toR \in Seq(Frame) /\ toW \in Seq(Frame)

WriterTypeOK ==
  /\ wpc \in {"idle", "send", "wait", "ack"}
  /\ wmsg \in Messages \cup {None}
  /\ wpart \in Nat \ {0}
  /\ wpc # "idle" => wmsg # None /\ wpart <= FragmentsOf[wmsg]
  /\ wseq \in 0 .. SeqLimit - 1
  /\ wgroup \in Nat
  /\ wretry \in 0 .. FrameRetries
  /\ wfull \in 0 .. FullRetries
  /\ written \in Seq(Messages)

ReaderTypeOK ==
  /\ rpc \in {"idle", "data", "sack", "ack"}
  /\ rseq \in 0 .. SeqLimit - 1
  /\ rgroup \in Nat
  /\ rmulti \in BOOLEAN
  /\ rlast \in BOOLEAN
  /\ rprev \in DataTypes \cup {"UNDEF"}
  /\ rbuf \in Seq(Fragments)
  /\ rretry \in 0 .. FrameRetries
  /\ rfull \in 0 .. FullRetries
  /\ rcap \in 1 .. Len(ReadBufs)
  /\ twin \in Seq(Fragments)
  /\ delivered \in Seq(Seq(Fragments))

\* Every variable keeps its type; a write() in progress has a message and
\* stands at one of its fragments.
TypeOK ==
  /\ ChannelTypeOK
  /\ WriterTypeOK
  /\ ReaderTypeOK
  /\ faults \in [FaultKinds -> Nat]

\* The longest message does not exhaust the sequence numbers.
NoWrap == \A m \in Messages : 3 * FragmentsOf[m] < SeqLimit

\* The frames that may be on their way to the reader, and to the writer.
ToReader ==
  {f \in Frame : f.sound =>
     /\ f.type \in DataTypes => f.seq % 3 = 0 /\ f.seq + 3 < SeqLimit
     /\ f.type = "ACK"       => f.seq % 3 = 2 /\ f.seq + 1 < SeqLimit}

ToWriter == {f \in Frame : f.sound => f.type = "ACK" /\ f.seq % 3 = 1}

ChannelClass == toR \in Seq(ToReader) /\ toW \in Seq(ToWriter)

WriterClass ==
  /\ wpc = "send" => wseq % 3 = 0
  /\ wpc = "wait" => wseq % 3 = 1
  /\ wpc = "ack"  => wseq % 3 = 2

ReaderClass ==
  /\ rpc = "data" => rseq % 3 = 0
  /\ rpc = "sack" => rseq % 3 = 1
  /\ rpc = "ack"  => rseq % 3 = 2

\* As long as the numbers do not wrap, their residue modulo 3 is the role of
\* the frame: a data frame, the reader's ACK or the writer's.  So a frame that
\* passes the sequence check of make_frame() always has the type its receiver
\* expects, and the branches of read() and write_data() for an unexpected type
\* are never taken.
SeqClass == ChannelClass /\ WriterClass /\ ReaderClass

\* The writer uses three numbers for each fragment at most, and the reader is
\* never ahead of a frame of the writer by more than two.
SeqBound ==
  /\ wpc = "send" => wseq <= 3 * (wpart - 1)
  /\ wpc = "wait" => wseq <= 3 * (wpart - 1) + 1
  /\ wpc = "ack"  => wseq <= 3 * (wpart - 1) + 2
  /\ rpc = "sack" => rseq + 2 < SeqLimit
  /\ rpc = "ack"  => rseq + 1 < SeqLimit

\* Every read() returns exactly what one write() was given (the comparison of
\* written and read items in spipc_test.cpp).
DeliveredWhole ==
  \A i \in 1 .. Len(delivered) : \E m \in Messages : delivered[i] = Whole(m)

\* Messages of one frame each are returned in the order of the successful
\* write() calls, each at most once, however often either end tried again.
InOrderAtMostOnce ==
  \E place \in [1 .. Len(delivered) -> 1 .. Len(written)] :
    \A j \in 1 .. Len(delivered) :
      /\ delivered[j] = Whole(written[place[j]])
      /\ \A i \in 1 .. j - 1 : place[i] < place[j]

Spent(kind) == Faults[kind] - faults[kind]

\* A datagram that is lost, the closing ACK included, costs one message at most,
\* and only the one it belongs to: neither the twin nor the retries of either
\* end take the next one with it, unless that has the same content.
OneLossOneMessage ==
  /\ Spent("any") = Spent("loss") /\ Spent("loss") <= 1
  /\ \A i \in 1 .. Len(written) - 1 : written[i] # written[i + 1]
  /\ toR = <<>>
  => Len(written) <= Len(delivered) + Spent("loss")

\* The role a fragment has in its message.
Role(x) == FragmentType(x[1], x[2])

Framed(data) ==
  /\ data # <<>>
  /\ Len(data) > 1 => /\ Role(data[1]) = "FIRST"
                      /\ Role(data[Len(data)]) = "LAST"
  /\ \A i \in 1 .. Len(data) - 1 : Role(data[i]) # "LAST"

\* Whatever was lost, repeated, reordered or restarted, what read() returns is
\* one fragment, or begins with the first fragment of a message and stops at
\* the first end of a message: it is never left open, nor runs on into the next.
WellFramed == \A i \in 1 .. Len(delivered) : Framed(delivered[i])

\* The reader never needs room for more than one group and one closing ACK.
SocketSuffices == Len(toR) <= AckAfter + 1 /\ Len(toW) <= 1

\* A write() that has begun is, in the end, successful.
WritesComplete == wpc # "idle" ~> wpc = "idle" /\ wmsg = None

C == INSTANCE Channel WITH
       Payload <- {Whole(m) : m \in Messages},
       written <- [i \in 1 .. Len(written) |-> Whole(written[i])]

Implements == C!Spec
=============================================================================
