------------------------------- MODULE Fplogd -------------------------------
(***************************************************************************)
(* The daemon, Impl in src/fplogd/fplogd.cpp.  Its listeners, one thread   *)
(* for each application, put what they read into a queue; the thread       *)
(* mq_reader() makes batches of it and writes them to fpcollect, or to the *)
(* emergency log when they cannot be written.                              *)
(*                                                                         *)
(* mutex_ guards the queue and should_stop_.  mq_reader() holds it while   *)
(* it moves messages to the batch (reader = "fill"), one after another.    *)
(*                                                                         *)
(* This module gives the steps of the daemon.  What becomes of a write is  *)
(* up to Delivery, which composes it with fpcollect.                       *)
(***************************************************************************)
EXTENDS Integers, Sequences, FiniteSets, Thinning

CONSTANTS
  Listeners,       \* the registered channels, with a thread for each
  MessageOf,       \* the n-th message: its length, whether it may be JSON or not,
                   \*   and whether there is a '%' in it
  BatchSize,       \* batch_size_ once start() has run
  LargeLen,        \* length of a message that is sent on its own: 150 * BatchSize
  HostLen,         \* by how much append_hostname() lengthens a message
  ErrorRoom,       \* how much of a batch an error message has room for
  MaxSize,         \* max_queue_size
  Retries,         \* retries and retries_error
  FlushAfter,      \* idle passes before an incomplete batch is sent
  FreedLens,       \* what strnlen() may find in a string that was deleted
  MaxNumber        \* bound: messages the applications send

ASSUME DaemonAssumption ==
  /\ IsFiniteSet(Listeners)
  /\ \A n \in 1 .. MaxNumber :
       MessageOf[n] \in [len : Nat, json : SUBSET BOOLEAN, percent : BOOLEAN]
  /\ BatchSize \in Nat \ {0}
  /\ LargeLen \in Nat /\ HostLen \in Nat /\ ErrorRoom \in Nat /\ MaxSize \in Nat
  /\ Retries \in Nat
  /\ FlushAfter \in Nat \ {0}
  /\ FreedLens \subseteq Nat
  /\ MaxNumber \in Nat

VARIABLES
  phase,           \* how far main() has come
  listener,        \* where each ipc_listener() is
  mq, mq_size,     \* mq_, and the size it counts
  reader,          \* where mq_reader() is
  batch,           \* batch; here and in sending a message is its number
  flush,           \* batch_flush_counter
  sending,         \* the messages in *str, the batch that is being written, or
                   \*   in error_str
  tries,           \* retries, or retries_error
  logged,          \* history: messages whose text is in the emergency log
  number,          \* history: messages pushed
  wild             \* history: a deleted string was measured

input == <<listener, number>>
queue == <<mq, mq_size>>
output == <<reader, batch, flush, sending, tries, logged>>
daemon == <<phase, input, queue, output, wild>>

\* "fresh": static objects exist; "wired": set_log_transport() has been called;
\* "stopping": should_stop_ is set; "dead": the process ended before its time.
Phases == {"fresh", "wired", "running", "stopping", "stopped", "dead"}

Stopping == phase = "stopping"
MutexFree == reader # "fill"
BatchLimit == IF phase \in {"fresh", "wired"} THEN 0 ELSE BatchSize  \* batch_size_

\* Messages are numbered in the order of their pushes; hosts counts how often
\* the name of the host was appended.
Message == [num : Nat, len : Nat, json : BOOLEAN, hosts : {0, 1}]

Length(m) == m.len + m.hosts * HostLen
Bytes(q) == Total([i \in 1 .. Len(q) |-> Length(q[i])])
Nums(q) == {q[i].num : i \in 1 .. Len(q)}
Elements(s) == {s[i] : i \in 1 .. Len(s)}

----------------------------------------------------------------------------
(* main(), start() and stop() *)

SetLogTransport ==
  /\ phase = "fresh" /\ MutexFree
  /\ phase' = "wired"
  /\ UNCHANGED <<input, queue, output, wild>>

Start ==
  /\ phase = "wired" /\ MutexFree
  /\ phase' = "running"
  /\ listener' = [l \in Listeners |-> "connect"]
  /\ UNCHANGED <<number, queue, output, wild>>

StopBegins ==
  /\ phase = "running" /\ MutexFree
  /\ phase' = "stopping"
  /\ UNCHANGED <<input, queue, output, wild>>

\* After the threads have been joined, what is still queued is deleted.
StopEnds ==
  /\ Stopping
  /\ reader = "ended" /\ \A l \in Listeners : listener[l] = "ended"
  /\ phase' = "stopped"
  /\ mq' = <<>> /\ mq_size' = mq_size - Bytes(mq)
  /\ UNCHANGED <<input, output, wild>>

\* The process and its memory are gone.
Die ==
  /\ phase' = "dead"
  /\ listener' = [l \in Listeners |-> "ended"]
  /\ mq' = <<>> /\ mq_size' = 0
  /\ reader' = "ended" /\ batch' = <<>> /\ sending' = <<>>
  /\ flush' = 0 /\ tries' = 0
  /\ UNCHANGED <<number, logged>>

\* cause_of_death(): stop() has taken more than 13 seconds.
Suicide == Stopping /\ Die /\ UNCHANGED wild

----------------------------------------------------------------------------
(* ipc_listener() *)

\* At the end of its loop a listener looks at should_stop_.
AtLoopEnd(l) ==
  listener' = [listener EXCEPT ![l] = IF Stopping THEN "ended" ELSE "read"]

Connect(l) ==
  /\ listener[l] = "connect"
  /\ listener' = [listener EXCEPT ![l] = "read"]
  /\ UNCHANGED <<phase, number, queue, output, wild>>

\* Nobody catches what connect() throws when both ports are taken.
ConnectFails(l) == listener[l] = "connect" /\ Die /\ UNCHANGED wild

Pushers == {l \in Listeners : listener[l] = "push"}

\* read() has returned, so the application knows its message was read.
Accept(l) ==
  /\ listener[l] = "read"
  /\ number + Cardinality(Pushers) < MaxNumber
  /\ listener' = [listener EXCEPT ![l] = "push"]
  /\ UNCHANGED <<phase, number, queue, output, wild>>

AtLeastZero(n) == IF n < 0 THEN 0 ELSE n

\* push(): above the limit an emergency may first remove messages.  (Whether
\* there are algorithms to do so is a matter of QueueController.)
Enqueue(m) ==
  \/ mq' = Append(mq, m) /\ mq_size' = mq_size + m.len
  \/ /\ mq_size > MaxSize
     /\ \E kept \in Thinned(mq) :
          /\ mq' = Append(kept, m)
          /\ mq_size' = AtLeastZero(mq_size - (Bytes(mq) - Bytes(kept))) + m.len

Push(l) ==
  /\ listener[l] = "push" /\ MutexFree
  /\ number' = number + 1
  /\ \E json \in MessageOf[number + 1].json :
       Enqueue([num |-> number + 1, len |-> MessageOf[number + 1].len,
                json |-> json, hosts |-> 0])
  /\ AtLoopEnd(l)
  /\ UNCHANGED <<phase, output, wild>>

\* The emergency meets a string that is no JSON, and nobody catches what the
\* Message made of it throws.
PushThrows(l) ==
  /\ listener[l] = "push" /\ MutexFree
  /\ mq_size > MaxSize /\ \E i \in 1 .. Len(mq) : ~mq[i].json
  /\ Die /\ UNCHANGED wild

\* A timeout of read(), or Buffer_Overflow, when the daemon is to stop.
ListenerEnds(l) ==
  /\ listener[l] = "read" /\ MutexFree /\ Stopping
  /\ AtLoopEnd(l)
  /\ UNCHANGED <<phase, number, queue, output, wild>>

\* read() throws anything else, and the listener reports it to fpcollect.
ListenerFails(l) ==
  /\ listener[l] = "read"
  /\ listener' = [listener EXCEPT ![l] = "report"]
  /\ UNCHANGED <<phase, number, queue, output, wild>>

\* The report is written, or goes to the emergency log: all the same to the
\* messages of the applications.  (should_stop_ is read under the mutex, but it
\* does not change while mq_reader() holds that.)
ReportDone(l) ==
  /\ listener[l] = "report"
  /\ AtLoopEnd(l)
  /\ UNCHANGED <<phase, number, queue, output, wild>>

----------------------------------------------------------------------------
(* mq_reader(): making a batch *)

\* The batch in the making is not sent when the daemon is to stop.
Lock ==
  /\ reader = "lock"
  /\ reader' = IF Stopping THEN "ended" ELSE "fill"
  /\ batch' = IF Stopping THEN <<>> ELSE batch
  /\ UNCHANGED <<phase, input, queue, flush, sending, tries, logged, wild>>

\* The batch becomes one string, and what it was made of is deleted.
Send(b) ==
  /\ sending' = b /\ batch' = <<>> /\ flush' = 0
  /\ tries' = Retries
  /\ reader' = "write"
  /\ UNCHANGED logged

Filling == reader = "fill" /\ mq # <<>> /\ Len(batch) < BatchLimit

WithHost(m) == [m EXCEPT !.hosts = @ + 1]
IsLarge(m) == Length(m) >= LargeLen

\* Not JSON: the string is deleted before pop() measures it, which counts
\* anything or ends the process.
FillJunk ==
  /\ Filling /\ ~Head(mq).json
  /\ wild' = TRUE
  /\ \/ Die
     \/ /\ mq' = Tail(mq)
        /\ \E n \in FreedLens : mq_size' = mq_size - n
        /\ UNCHANGED <<phase, input, output>>

FillSmallAs(m) ==
  /\ Filling /\ m.json /\ ~IsLarge(m)
  /\ mq' = Tail(mq)
  /\ UNCHANGED <<phase, input, reader, flush, sending, tries, logged, wild>>

\* Mutant: what leaves the queue is not subtracted.
FillSmallUncounted ==
  /\ FillSmallAs(WithHost(Head(mq)))
  /\ batch' = Append(batch, Head(mq).num)
  /\ UNCHANGED mq_size

FillSmall ==
  /\ FillSmallAs(WithHost(Head(mq)))
  /\ batch' = Append(batch, Head(mq).num)
  /\ mq_size' = mq_size - Length(WithHost(Head(mq)))

\* Mutants: the large message takes the place of the batch in the making; it
\* does not let the batch go.
FillLargeForgets ==
  LET m == WithHost(Head(mq))
  IN /\ Filling /\ m.json /\ IsLarge(m)
     /\ mq' = Tail(mq) /\ mq_size' = mq_size - Length(m) /\ Send(<<m.num>>)
     /\ UNCHANGED <<phase, input, wild>>

FillLargeWaits ==
  LET m == WithHost(Head(mq))
  IN /\ Filling /\ m.json /\ IsLarge(m)
     /\ IF batch = <<>>
        THEN mq' = Tail(mq) /\ mq_size' = mq_size - Length(m) /\ Send(<<m.num>>)
        ELSE mq' = [mq EXCEPT ![1] = m] /\ UNCHANGED <<mq_size, output>>
     /\ UNCHANGED <<phase, input, wild>>

\* A large message makes a batch of its own.  If one is in the making that one
\* is sent first, and the message stays in the queue, with its hostname.
FillLarge ==
  LET m == WithHost(Head(mq))
  IN /\ Filling /\ m.json /\ IsLarge(m)
     /\ IF batch = <<>>
        THEN mq' = Tail(mq) /\ mq_size' = mq_size - Length(m) /\ Send(<<m.num>>)
        ELSE mq' = [mq EXCEPT ![1] = m] /\ UNCHANGED mq_size /\ Send(batch)
     /\ UNCHANGED <<phase, input, wild>>

\* Mutant: the counter of the idle passes starts anew with each of them.
FillEndsForgets ==
  /\ reader = "fill" /\ ~Filling
  /\ LET idle == IF batch = <<>> THEN flush ELSE flush + 1
     IN IF Len(batch) < BatchLimit /\ idle < FlushAfter
        THEN /\ flush' = 0 /\ reader' = "lock"
             /\ UNCHANGED <<batch, sending, tries, logged>>
        ELSE Send(batch)
  /\ UNCHANGED <<phase, input, queue, wild>>

\* The queue is empty or the batch complete.  An incomplete batch waits for
\* more; before start() every batch is complete, and empty.
FillEnds ==
  /\ reader = "fill" /\ ~Filling
  /\ LET idle == IF batch = <<>> THEN flush ELSE flush + 1
     IN IF Len(batch) < BatchLimit /\ idle < FlushAfter
        THEN /\ flush' = idle /\ reader' = "lock"
             /\ UNCHANGED <<batch, sending, tries, logged>>
        ELSE Send(batch)
  /\ UNCHANGED <<phase, input, queue, wild>>

----------------------------------------------------------------------------
(* mq_reader(): writing it *)

Done == reader' = "lock" /\ sending' = <<>> /\ tries' = 0

\* write() of the batch, or then of the error message, has returned.
Written ==
  /\ reader \in {"write", "error"}
  /\ Done
  /\ UNCHANGED <<phase, input, queue, batch, flush, logged, wild>>

\* Mutant: the retries are not counted.
BatchFailsForEver ==
  /\ reader = "write" /\ UNCHANGED daemon

\* The batch is printed into a buffer of 2 KB: the first k messages fit.
FitsError(b, k) ==
  Total([i \in 1 .. k |-> MessageOf[b[i]].len + HostLen]) <= ErrorRoom

Beginning(b) ==
  {SubSeq(b, 1, k) : k \in {j \in 0 .. Len(b) :
     FitsError(b, j) /\ \A i \in j + 1 .. Len(b) : ~FitsError(b, i)}}

\* It is itself the format of the printing, which has no arguments.  With a '%'
\* in it anything may be left of it.
IsFormat(b) == \E n \in Elements(b) : MessageOf[n].percent

ErrorBodies(b) == IF IsFormat(b) THEN Thinned(b) ELSE Beginning(b)

\* write() of the batch has thrown.  After the last retry an error message
\* with what it could hold of the batch is written instead, unless the
\* printing ends the process.
BatchFails ==
  /\ reader = "write"
  /\ \/ /\ tries > 0 /\ tries' = tries - 1
        /\ UNCHANGED <<phase, input, queue, reader, batch, flush, sending, logged>>
     \/ /\ tries = 0 /\ tries' = Retries
        /\ reader' = "error" /\ sending' \in ErrorBodies(sending)
        /\ UNCHANGED <<phase, input, queue, batch, flush, logged>>
     \/ tries = 0 /\ IsFormat(sending) /\ Die
  /\ UNCHANGED wild

\* write() of the error message has thrown.  After the last retry that same
\* message goes to the emergency log, if it can be opened.
ErrorFails(opens) ==
  /\ reader = "error"
  /\ IF tries > 0 THEN tries' = tries - 1 /\ UNCHANGED <<reader, sending, logged>>
     ELSE Done /\ logged' = IF opens THEN logged \cup Elements(sending) ELSE logged
  /\ UNCHANGED <<phase, input, queue, batch, flush, wild>>

----------------------------------------------------------------------------

DaemonInit ==
  /\ phase = "fresh"
  /\ listener = [l \in Listeners |-> "none"]
  /\ mq = <<>> /\ mq_size = 0
  /\ reader = "lock" /\ batch = <<>> /\ flush = 0 /\ sending = <<>> /\ tries = 0
  /\ logged = {} /\ number = 0 /\ wild = FALSE

\* What the thread mq_reader() does by itself, and a listener.
ReaderAlone == Lock \/ FillJunk \/ FillSmall \/ FillLarge \/ FillEnds
ListenerAlone(l) == Connect(l) \/ ListenerEnds(l) \/ Push(l) \/ PushThrows(l)

\* mq_size is the subject of a property of its own.
DaemonType ==
  /\ phase \in Phases
  /\ listener \in [Listeners -> {"none", "connect", "read", "push", "report", "ended"}]
  /\ mq \in Seq(Message) /\ batch \in Seq(Nat) /\ sending \in Seq(Nat)
  /\ reader \in {"lock", "fill", "write", "error", "ended"}
  /\ flush \in 0 .. FlushAfter - 1
  /\ tries \in 0 .. Retries
  /\ logged \subseteq Nat /\ number \in Nat /\ wild \in BOOLEAN
=============================================================================
