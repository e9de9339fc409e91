------------------------------- MODULE Vsprot -------------------------------
(***************************************************************************)
(* vsprot::Protocol in src/sprot/sprot.cpp, which fplogd and fpcollect may *)
(* use in place of sprot.  It has no ACKs: write() sends a frame, which is *)
(* a header with the size and the data, in pieces of at most MTU bytes,    *)
(* and read() collects what arrives until it holds a whole frame.          *)
(*                                                                         *)
(* Bytes are put together in units.  The first two units of a frame are    *)
(* its header, the second of them holds the size.  A unit is known by the  *)
(* number of its frame and its place in it.  Data never looks like a       *)
(* header.                                                                 *)
(*                                                                         *)
(* One end writes, from several threads that share write_buffer_ without a *)
(* mutex; one thread at the other end reads.  Between them is a            *)
(* UDT_Transport, which is a stream, or a Socket_Transport, which keeps    *)
(* datagrams apart.                                                        *)
(***************************************************************************)
EXTENDS Integers, Sequences

CONSTANTS
  Writers,         \* threads
  SizesOf,         \* units of data the n-th message may have: a set
  MTU,             \* units in a piece
  ReadBufs,        \* units in the buffers the reader uses, one after the other
  MaxWrites,       \* bound: writes that begin
  MaxFaults        \* bound: faults of the network, and writes that are cut

ASSUME VsprotAssumption ==
  /\ \A n \in 1 .. MaxWrites : SizesOf[n] \subseteq Nat \ {0}
  /\ MTU \in Nat /\ MTU >= 2       \* a datagram holds the header
  /\ ReadBufs \in Seq(Nat) /\ ReadBufs # <<>>
  /\ \A n \in 1 .. MaxWrites : \A size \in SizesOf[n] : size <= ReadBufs[Len(ReadBufs)]
  /\ MaxWrites \in Nat /\ MaxFaults \in Nat

VARIABLES
  stream,          \* the transport is a stream
  frames,          \* history: the sizes of the messages written, by number
  writing,         \* the frame each thread is writing, or 0
  sent,            \* how much of it has been sent: ptr
  net,             \* units on their way
  read_buffer,     \* read_buffer_
  buf,             \* which buffer the reader uses
  received,        \* what read() has returned
  faults,
  flawed,          \* history: units were lost, a write cut or write_buffer_ shared
  calm,            \* history: read() timed out after the last write() ended, and
                   \*   none has begun since
  intact           \* history: the frame written in calm that nothing has disturbed

sender == <<frames, writing, sent>>
reader == <<read_buffer, buf, received>>
vars == <<stream, sender, net, reader, faults, flawed, calm, intact>>

HeaderLen == 2
FrameLen(n) == frames[n] + HeaderLen

\* A datagram ends with the unit that has ends; a stream has no such marks.
Unit == [frame : 0 .. Len(frames), place : Nat, ends : BOOLEAN]

Piece(n, first, last) ==
  [i \in 1 .. last - first + 1 |->
     [frame |-> n, place |-> first + i - 1,
      ends |-> ~stream /\ i = last - first + 1]]

\* What a thread finds in a buffer that was freed under it.
Rubbish(first, last) ==
  [i \in 1 .. last - first + 1 |->
     [frame |-> 0, place |-> 0, ends |-> ~stream /\ i = last - first + 1]]

Idle == \A w \in Writers : writing[w] = 0
SmallerOf(i, j) == IF i < j THEN i ELSE j

----------------------------------------------------------------------------
(* write() *)

\* The frame is put into write_buffer_; a thread that still sends from it goes
\* on with whatever is there now.
WriteBegins(w) ==
  /\ writing[w] = 0 /\ Len(frames) < MaxWrites
  /\ \E size \in SizesOf[Len(frames) + 1] : frames' = Append(frames, size)
  /\ writing' = [writing EXCEPT ![w] = Len(frames')]
  /\ sent' = [sent EXCEPT ![w] = 0]
  /\ flawed' = (flawed \/ ~Idle)
  /\ calm' = FALSE
  /\ intact' = IF calm /\ Idle THEN Len(frames') ELSE 0
  /\ UNCHANGED <<stream, net, reader, faults>>

\* What lies in write_buffer_ between two places, for a thread that writes
\* frame n: its own data if no other write has begun since; otherwise perhaps
\* that of the newest frame, as far as it reaches, or anything.
Contents(n, first, last) ==
  {Piece(n, first, last)} \cup
  (IF n = Len(frames) THEN {}
   ELSE {Rubbish(first, last)} \cup
        (IF last <= FrameLen(Len(frames)) THEN {Piece(Len(frames), first, last)} ELSE {}))

WriteEnds(ws) ==
  /\ writing' = [w \in Writers |-> IF w \in ws THEN 0 ELSE writing[w]]
  /\ sent' = [w \in Writers |-> IF w \in ws THEN 0 ELSE sent[w]]

\* Mutant: every piece is as large as MTU.
SendFullPieces(w) ==
  LET n == writing[w]
      last == sent[w] + MTU
  IN /\ n # 0
     /\ \E piece \in Contents(n, sent[w] + 1, last) : net' = net \o piece
     /\ IF last = FrameLen(n) THEN WriteEnds({w})
        ELSE sent' = [sent EXCEPT ![w] = last] /\ UNCHANGED writing
     /\ UNCHANGED <<stream, frames, reader, faults, flawed, calm, intact>>

\* The transport takes the whole piece.  (If a stream takes less the rest
\* follows, and a reader cannot tell.)
Send(w) ==
  LET n == writing[w]
      last == SmallerOf(sent[w] + MTU, FrameLen(n))
  IN /\ n # 0
     /\ \E piece \in Contents(n, sent[w] + 1, last) : net' = net \o piece
     /\ IF last = FrameLen(n) THEN WriteEnds({w})
        ELSE sent' = [sent EXCEPT ![w] = last] /\ UNCHANGED writing
     /\ UNCHANGED <<stream, frames, reader, faults, flawed, calm, intact>>

Fault == faults < MaxFaults /\ faults' = faults + 1

\* The time is up between two pieces, or the transport throws.
WriteCut(w) ==
  /\ writing[w] # 0 /\ Fault
  /\ WriteEnds({w})
  /\ flawed' = (flawed \/ sent[w] > 0)
  /\ intact' = 0
  /\ UNCHANGED <<stream, frames, net, reader, calm>>

----------------------------------------------------------------------------
(* The transport *)

\* How many units the next read of the transport returns.
Chunk(k) ==
  IF stream THEN k \in 1 .. SmallerOf(MTU, Len(net))
  ELSE k \in 1 .. Len(net) /\ net[k].ends /\ \A i \in 1 .. k - 1 : ~net[i].ends

\* A datagram is lost, or a connection breaks and takes with it what is on its
\* way; the write that meets it throws.
Loses ==
  /\ net # <<>> /\ Fault
  /\ IF stream
     THEN net' = <<>> /\ WriteEnds(Writers)
     ELSE /\ \E k \in 1 .. Len(net) : Chunk(k) /\ net' = SubSeq(net, k + 1, Len(net))
          /\ UNCHANGED <<writing, sent>>
  /\ flawed' = TRUE /\ intact' = 0
  /\ UNCHANGED <<stream, frames, reader, calm>>

----------------------------------------------------------------------------
(* read() *)

\* Mutant: the header is not compared.
StartsAnyhow(b) == Len(b) >= HeaderLen /\ b[HeaderLen].frame # 0

StartsWithHeader(b) ==
  /\ Len(b) >= HeaderLen
  /\ \A i \in 1 .. HeaderLen : b[i].frame # 0 /\ b[i].place = i

\* The size is in the last unit of the header.
SizeIn(b) == frames[b[HeaderLen].frame]

\* read_frame(): a whole frame lies at the start of read_buffer_.
HasFrame(b) ==
  StartsWithHeader(b) /\ Len(b) >= SizeIn(b) + HeaderLen

Rest(b) == SubSeq(b, SizeIn(b) + HeaderLen + 1, Len(b))

\* What is left is thrown away if it is long enough and starts with no header.
ReadFrame ==
  /\ HasFrame(read_buffer) /\ SizeIn(read_buffer) <= ReadBufs[buf]
  /\ received' = Append(received,
       SubSeq(read_buffer, HeaderLen + 1, HeaderLen + SizeIn(read_buffer)))
  /\ read_buffer' = LET rest == Rest(read_buffer)
                    IN IF Len(rest) >= HeaderLen /\ ~StartsWithHeader(rest) THEN <<>> ELSE rest
  /\ buf' = 1
  /\ UNCHANGED <<stream, sender, net, faults, flawed, calm, intact>>

\* Buffer_Overflow: the frame stays, the caller comes back with a larger buffer.
Overflow ==
  /\ HasFrame(read_buffer) /\ SizeIn(read_buffer) > ReadBufs[buf]
  /\ buf < Len(ReadBufs)
  /\ buf' = buf + 1
  /\ UNCHANGED <<stream, sender, net, read_buffer, received, faults, flawed, calm, intact>>

\* internal_read()
Receive ==
  /\ ~HasFrame(read_buffer)
  /\ \E k \in 1 .. Len(net) :
       /\ Chunk(k)
       /\ read_buffer' = read_buffer \o SubSeq(net, 1, k)
       /\ net' = SubSeq(net, k + 1, Len(net))
  /\ UNCHANGED <<stream, sender, buf, received, faults, flawed, calm, intact>>

\* Mutant: the timeout leaves read_buffer_ alone.
ReadTimesOutQuietly ==
  /\ ~HasFrame(read_buffer) /\ net = <<>>
  /\ calm' = Idle
  /\ UNCHANGED <<stream, sender, net, reader, faults, flawed, intact>>

\* internal_read(): the transport throws Timeout, read_buffer_ is emptied.
ReadTimesOut ==
  /\ ~HasFrame(read_buffer) /\ net = <<>>
  /\ read_buffer' = <<>>
  /\ calm' = Idle
  /\ intact' = IF read_buffer = <<>> THEN intact ELSE 0
  /\ UNCHANGED <<stream, sender, net, buf, received, faults, flawed>>

----------------------------------------------------------------------------

Init ==
  /\ stream \in BOOLEAN
  /\ frames = <<>>
  /\ writing = [w \in Writers |-> 0] /\ sent = [w \in Writers |-> 0]
  /\ net = <<>> /\ read_buffer = <<>> /\ buf = 1 /\ received = <<>>
  /\ faults = 0 /\ flawed = FALSE /\ calm = TRUE /\ intact = 0

Reads == ReadFrame \/ Overflow \/ Receive \/ ReadTimesOut

Next ==
  \/ \E w \in Writers : WriteBegins(w) \/ Send(w) \/ WriteCut(w)
  \/ Loses
  \/ Reads

\* The reader loops, a write that has begun goes on.
Spec == Init /\ [][Next]_vars /\ WF_vars(Reads) /\ \A w \in Writers : WF_vars(Send(w))

----------------------------------------------------------------------------
(* Properties *)

\* Every variable keeps its type, and no more is sent than a frame holds.
TypeOK ==
  /\ stream \in BOOLEAN
  /\ frames \in Seq(Nat \ {0}) /\ Len(frames) <= MaxWrites
  /\ writing \in [Writers -> 0 .. Len(frames)] /\ sent \in [Writers -> Nat]
  /\ net \in Seq(Unit) /\ read_buffer \in Seq(Unit) /\ received \in Seq(Seq(Unit))
  /\ buf \in 1 .. Len(ReadBufs)
  /\ faults \in 0 .. MaxFaults
  /\ flawed \in BOOLEAN /\ calm \in BOOLEAN
  /\ intact \in 0 .. Len(frames)
  /\ \A w \in Writers : writing[w] # 0 => sent[w] < FrameLen(writing[w])

IsMessage(text) ==
  /\ text # <<>>
  /\ Len(text) = frames[text[1].frame]
  /\ \A i \in 1 .. Len(text) :
       text[i].frame = text[1].frame /\ text[i].place = HeaderLen + i

\* While nothing is lost, no write is cut and no two threads write at a time,
\* read() returns messages as they were written, in order and none twice,
\* though a timeout of the transport may throw away any part of a frame.
WholeInOrder ==
  ~flawed =>
    /\ \A i \in 1 .. Len(received) : IsMessage(received[i])
    /\ \A i, j \in 1 .. Len(received) :
         i < j => received[i][1].frame < received[j][1].frame

Received(n) == \E i \in 1 .. Len(received) : received[i] # <<>> /\ received[i][1].frame = n

\* Whatever happened before, and whatever was left in read_buffer_: once a read
\* has timed out, the next message is received, unless it is disturbed itself.
Recovers ==
  \A n \in 1 .. MaxWrites : intact = n ~> Received(n) \/ intact # n
=============================================================================
