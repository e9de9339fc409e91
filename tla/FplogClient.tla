----------------------------- MODULE FplogClient -----------------------------
(***************************************************************************)
(* The client library, Fplog_Impl in src/fplog/fplog.cpp.  The threads of  *)
(* the application call initlog(), write() and shutdownlog(); a thread of  *)
(* the library, mq_reader(), sends what asynchronous writes have queued.   *)
(*                                                                         *)
(* g_api_mutex serialises the calls.  mutex_ guards the queue: initlog()   *)
(* and write() hold it throughout, mq_reader() only to take a message, and *)
(* shutdownlog() not while it waits for mq_reader().                       *)
(*                                                                         *)
(* A message is its sequence number.  The queue (QueueController) and the  *)
(* protocol (Sprot) are abstracted to what they may do to messages.        *)
(***************************************************************************)
EXTENDS Naturals, Sequences, FiniteSets, Thinning

CONSTANTS
  Inits,           \* how initlog() may go, a subset of InitOutcomes
  SyncRetries,     \* send_retries of a synchronous write
  QueueLimit,      \* messages in the queue before an emergency is possible
  MaxNumber,       \* bound: messages that pass the filters
  MaxLives,        \* bound: Fplog_Impl objects, one after another
  MaxOutages,      \* bound: how often the daemon stops reading
  MaxFaults        \* bound: writes that go wrong though the daemon reads

\* "refused": connect() throws; "foreign": the caller gives a transport of its
\* own; "nameless": there is no appname.
InitOutcomes == {"connected", "refused", "foreign", "nameless"}

ASSUME ClientAssumption ==
  /\ Inits \subseteq InitOutcomes
  /\ SyncRetries \in Nat \ {0}
  /\ QueueLimit \in Nat
  /\ MaxNumber \in Nat /\ MaxLives \in Nat
  /\ MaxOutages \in Nat /\ MaxFaults \in Nat

VARIABLES
  api,             \* where the call is that holds g_api_mutex
  tries,           \* send_retries
  exists,          \* g_fplog_impl is not null
  setup,           \* "bare": no transport_; "half": transport_ but protocol_ is
                   \*   not initialised; "inited": both
  async,           \* async_logging_
  number,          \* the last sequence number drawn
  mq,              \* mq_
  reader,          \* where mq_reader() is
  hand,            \* the message in its hands, None if there is none
  crashed,         \* an uninitialised pointer brought the application down
  up,              \* the daemon reads
  sent,            \* history: what the daemon has read
  gone,            \* history: messages written successfully and not read
  late,            \* history: writes that failed though they were read
  switched,        \* history: synchronous writes began with messages queued
  lives, outages, faults

call == <<api, tries>>
impl == <<exists, setup, async, switched, lives>>
world == <<sent, gone, late, faults>>
daemon == <<up, outages>>
vars == <<call, impl, number, mq, reader, hand, crashed, world, daemon>>

None == 0
Numbers == 1 .. MaxNumber

Stopping == api = "stopping"     \* stopping_
MutexFree == api # "write"       \* nobody is in write() for long
Elements(q) == {q[i] : i \in 1 .. Len(q)}

\* The messages the library has accepted and not yet disposed of.
Pending ==
  (Elements(mq) \cup {hand} \cup IF api = "write" THEN {number} ELSE {}) \ {None}

----------------------------------------------------------------------------
(* The protocol: one write of message n *)

Delivered(n) == sent' = Append(sent, n)

Fault == up /\ faults < MaxFaults /\ faults' = faults + 1

\* The write returns.  A message may be lost all the same, when the daemon's
\* read() gives up between the two ACKs.
WriteOk(n) ==
  \/ up /\ Delivered(n) /\ UNCHANGED <<gone, late, faults>>
  \/ Fault /\ gone' = gone \cup {n} /\ UNCHANGED <<sent, late>>

\* The write throws; the message may have arrived.
WriteFails(n) ==
  \/ ~up /\ UNCHANGED world
  \/ Fault /\ UNCHANGED <<sent, gone, late>>
  \/ Fault /\ Delivered(n) /\ late' = late + 1 /\ UNCHANGED gone

\* protocol_ is used before anything was assigned to it.
WildWrite ==
  /\ setup # "inited"
  /\ crashed' = TRUE
  /\ UNCHANGED <<call, impl, number, mq, reader, hand, world, daemon>>

----------------------------------------------------------------------------
(* initlog() *)

\* A repeated call changes the kind of logging and nothing else.
InitLog(how, kind) ==
  /\ api = "free" /\ ~crashed
  /\ exists \/ lives < MaxLives
  /\ exists' = TRUE
  /\ lives' = IF exists THEN lives ELSE lives + 1
  /\ async' = kind
  /\ reader' = IF reader = "none" THEN "loop" ELSE reader
  /\ setup' = IF setup = "inited" \/ how = "nameless" THEN setup
              ELSE IF how = "connected" THEN "inited" ELSE "half"
  /\ switched' = (switched \/ (~kind /\ Pending # {}))
  /\ UNCHANGED <<call, number, mq, hand, crashed, world, daemon>>

----------------------------------------------------------------------------
(* write() *)

\* Mutant: the newest message goes to the front.
EnqueueFirst(n) == mq' = <<n>> \o mq

\* push(): an emergency may first remove any of the messages that wait.
Enqueue(n) ==
  \/ mq' = Append(mq, n)
  \/ /\ Len(mq) > QueueLimit
     /\ \E kept \in Thinned(mq) : mq' = Append(kept, n)

Writing ==
  /\ api = "free" /\ exists /\ ~crashed
  /\ number < MaxNumber
  /\ number' = number + 1

WriteAsync ==
  /\ Writing /\ async
  /\ Enqueue(number')
  /\ UNCHANGED <<call, impl, reader, hand, crashed, world, daemon>>

WriteSync ==
  /\ Writing /\ ~async
  /\ api' = "write" /\ tries' = SyncRetries
  /\ UNCHANGED <<impl, mq, reader, hand, crashed, world, daemon>>

\* Mutant: a message that was written is written again.
SyncSucceedsKeeps ==
  /\ tries' = tries - 1
  /\ api' = IF tries' = 0 THEN "free" ELSE "write"

SyncSucceeds == api' = "free" /\ tries' = 0

\* After the last retry the message is dropped without a word.
SyncFails ==
  /\ tries' = tries - 1
  /\ api' = IF tries' = 0 THEN "free" ELSE "write"

SyncTry ==
  /\ api = "write" /\ ~crashed
  /\ \/ WildWrite
     \/ /\ setup = "inited"
        /\ \/ WriteOk(number) /\ SyncSucceeds
           \/ WriteFails(number) /\ SyncFails
        /\ UNCHANGED <<impl, number, mq, reader, hand, crashed, daemon>>

----------------------------------------------------------------------------
(* shutdownlog() *)

ShutdownBegins ==
  /\ api = "free" /\ exists /\ ~crashed
  /\ api' = "stopping"
  /\ UNCHANGED <<tries, impl, number, mq, reader, hand, crashed, world, daemon>>

\* The reader has left its loop.  What protocol_ points to is deleted; without
\* a successful initlog() that is any place in memory, or nothing.
ShutdownEnds ==
  /\ Stopping /\ ~crashed
  /\ reader = "ended"
  /\ crashed' \in (IF setup = "inited" THEN {FALSE} ELSE BOOLEAN)
  /\ api' = "free"
  /\ exists' = FALSE /\ setup' = "bare" /\ async' = TRUE
  /\ mq' = <<>> /\ reader' = "none"
  /\ UNCHANGED <<tries, number, hand, switched, lives, world, daemon>>

----------------------------------------------------------------------------
(* mq_reader() *)

\* while (!stopping_)
ReaderLoop ==
  /\ reader = "loop" /\ ~crashed
  /\ reader' = IF Stopping THEN "ended" ELSE "take"
  /\ UNCHANGED <<call, impl, number, mq, hand, crashed, world, daemon>>

\* Mutant: messages are taken before there is a transport.
ReaderTakeAtOnce ==
  /\ reader = "take" /\ MutexFree /\ ~crashed
  /\ IF mq # <<>>
     THEN hand' = Head(mq) /\ mq' = Tail(mq)
     ELSE UNCHANGED <<hand, mq>>
  /\ reader' = "retry"
  /\ UNCHANGED <<call, impl, number, crashed, world, daemon>>

ReaderTake ==
  /\ reader = "take" /\ MutexFree /\ ~crashed
  /\ IF mq # <<>> /\ setup # "bare"
     THEN hand' = Head(mq) /\ mq' = Tail(mq)
     ELSE UNCHANGED <<hand, mq>>
  /\ reader' = "retry"
  /\ UNCHANGED <<call, impl, number, crashed, world, daemon>>

\* Mutant: the reader writes although it has found no message.
ReaderRetryEmpty ==
  /\ reader = "retry" /\ ~crashed
  /\ reader' = IF Stopping THEN "ended" ELSE "write"
  /\ hand' = IF Stopping THEN None ELSE hand
  /\ UNCHANGED <<call, impl, number, mq, crashed, world, daemon>>

\* Mutant: the reader looks at stopping_ only between two messages.
ReaderRetryStubborn ==
  /\ reader = "retry" /\ ~crashed
  /\ reader' = IF hand = None THEN "loop" ELSE "write"
  /\ UNCHANGED <<call, impl, number, mq, hand, crashed, world, daemon>>

\* The label retry.  On the way out the message in hand is freed.
ReaderRetry ==
  /\ reader = "retry" /\ ~crashed
  /\ reader' = IF Stopping THEN "ended" ELSE IF hand = None THEN "loop" ELSE "write"
  /\ hand' = IF Stopping THEN None ELSE hand
  /\ UNCHANGED <<call, impl, number, mq, crashed, world, daemon>>

ReaderSent == hand' = None /\ reader' = "loop"

\* Mutant: a message whose write failed is given up.
ReaderGivesUp == hand' = None /\ reader' = "loop"

\* Mutant: a failed write ends the thread.
ReaderEnds == UNCHANGED hand /\ reader' = "ended"

ReaderFailed == UNCHANGED hand /\ reader' = "retry"

ReaderWrite ==
  /\ reader = "write" /\ ~crashed
  /\ \/ WildWrite
     \/ /\ setup = "inited"
        /\ \/ WriteOk(hand) /\ ReaderSent
           \/ WriteFails(hand) /\ ReaderFailed
        /\ UNCHANGED <<call, impl, number, mq, crashed, daemon>>

----------------------------------------------------------------------------
(* The daemon *)

DaemonStops ==
  /\ up /\ outages < MaxOutages
  /\ up' = FALSE /\ outages' = outages + 1
  /\ UNCHANGED <<call, impl, number, mq, reader, hand, crashed, world>>

DaemonStarts ==
  /\ ~up /\ up' = TRUE
  /\ UNCHANGED <<outages, call, impl, number, mq, reader, hand, crashed, world>>

----------------------------------------------------------------------------

Init ==
  /\ api = "free" /\ tries = 0
  /\ exists = FALSE /\ setup = "bare" /\ async = TRUE
  /\ number = 0 /\ mq = <<>> /\ reader = "none" /\ hand = None
  /\ crashed = FALSE
  /\ up \in BOOLEAN
  /\ sent = <<>> /\ gone = {} /\ late = 0 /\ switched = FALSE
  /\ lives = 0 /\ outages = 0 /\ faults = 0

Application ==
  \/ \E how \in Inits, kind \in BOOLEAN : InitLog(how, kind)
  \/ WriteAsync \/ WriteSync \/ ShutdownBegins

\* What the call in progress does by itself.
Continue == SyncTry \/ ShutdownEnds

Reader == ReaderLoop \/ ReaderTake \/ ReaderRetry \/ ReaderWrite

Next == Application \/ Continue \/ Reader \/ DaemonStops \/ DaemonStarts

Fairness == WF_vars(Continue) /\ WF_vars(Reader)

Spec == Init /\ [][Next]_vars /\ Fairness

----------------------------------------------------------------------------
(* Properties *)

\* Every variable keeps its type; a write in progress, of the reader or of a
\* caller, has a message and may be tried; and there is a reader exactly while
\* there is an implementation.
TypeOK ==
  /\ api \in {"free", "write", "stopping"}
  /\ tries \in 0 .. SyncRetries
  /\ exists \in BOOLEAN /\ async \in BOOLEAN
  /\ setup \in {"bare", "half", "inited"}
  /\ number \in 0 .. MaxNumber
  /\ mq \in Seq(Numbers)
  /\ reader \in {"none", "loop", "take", "retry", "write", "ended"}
  /\ hand \in 0 .. MaxNumber
  /\ crashed \in BOOLEAN /\ up \in BOOLEAN /\ switched \in BOOLEAN
  /\ sent \in Seq(Numbers) /\ gone \subseteq Numbers
  /\ late \in Nat /\ faults \in Nat /\ outages \in Nat /\ lives \in Nat
  /\ reader = "write" => hand # None
  /\ api = "write" => number # None /\ tries # 0
  /\ exists <=> reader # "none"

\* The daemon reads the messages in the order in which they were logged,
\* whatever fails and is repeated, and across shutdowns: the reader holds on
\* to a message until it is sent.  Only when synchronous logging is turned on
\* while messages wait may a new message overtake them.
InOrder ==
  ~switched => \A i, j \in 1 .. Len(sent) : i < j => sent[i] <= sent[j]

\* A message is read twice only if a write failed though it was read.
NoNeedlessRepeat == Len(sent) <= Cardinality(Elements(sent)) + late

\* A message the library has accepted disappears only by being sent (and
\* perhaps lost by the protocol), in an emergency of the queue, at shutdown, or
\* when a synchronous write has failed as often as it may.
LossesAreKnown ==
  [][\A n \in Pending : n \notin Pending' =>
       \/ n \in Elements(sent') \cup gone'
       \/ Stopping
       \/ n \in Elements(mq) /\ number' > number /\ Len(mq) > QueueLimit
       \/ api = "write" /\ n = number /\ tries = 1]_vars

\* As long as there is no transport the reader leaves the queue alone: an
\* application that logs asynchronously before its initlog() succeeds is safe,
\* even after a shutdown that left messages behind.
NoWriteBeforeTransport ==
  [][api = "free" /\ setup = "bare" => crashed' = crashed]_vars

\* Every call returns, even while the daemon reads nothing: shutdownlog() does
\* not wait for messages that cannot be sent, and a write() gives up.
ApiReturns == (api # "free") ~> (api = "free" \/ crashed)

\* If the daemon reads from some time on, every message in the queue leaves it.
QueueDrains ==
  (<>[]up) => \A n \in Numbers :
    (n \in Pending /\ setup = "inited") ~> (n \notin Pending \/ crashed)

\* shutdownlog() frees "all associated resources" (fplog.h) and nothing else.
ShutdownIsSafe == [][Stopping => crashed' = crashed]_vars
=============================================================================
