------------------------------ MODULE Delivery ------------------------------
(***************************************************************************)
(* The way of a message from fplogd's listeners to the storage: a daemon   *)
(* (Fplogd) and a collector (Fpcollect) joined by a protocol, and another  *)
(* daemon that sends to the same collector.                                *)
(*                                                                         *)
(* A write of the protocol does what Sprot shows it to do: it returns and  *)
(* the text has been read, or lost when read() gave up between the ACKs,   *)
(* or read without its first part; it throws and the text has not been     *)
(* read, or has been read all the same.                                    *)
(***************************************************************************)
EXTENDS Fplogd, Fpcollect

CONSTANTS
  Own,             \* the connection of the daemon
  MaxFaults        \* bound: faults, reports, texts of other daemons, outages of
                   \*   the storage and new starts of the collector, together

ASSUME DeliveryAssumption == Own \in Conns /\ MaxFaults \in Nat

VARIABLES
  faults,
  blurred          \* history: a repetition came, or may come, that fpcollect
                   \*   has no way to recognise

vars == <<daemon, collector, faults, blurred>>

Fault == faults < MaxFaults /\ faults' = faults + 1

BatchText == [kind |-> "batch", body |-> sending]
ErrorText == [BatchText EXCEPT !.kind = "error"]
Report == [kind |-> "other", body |-> <<>>]

\* The last text was a batch that may come once more.  If the collector forgets
\* it now, it will not know it again.
Blur ==
  blurred' = \/ blurred
             \/ /\ old' # old /\ old.body # <<>>
                /\ \/ reader = "write" /\ old = BatchText
                   \/ \E c \in Conns : inbox[c] = old

\* The daemon moves alone, or the collector does.
DaemonOnly == UNCHANGED <<collector, faults, blurred>>
CollectorOnly == Blur /\ UNCHANGED <<daemon, faults>>

----------------------------------------------------------------------------
(* Writes of the daemon *)

Unreachable == phase = "fresh" \/ link[Own] = "ended"
Connected == phase # "fresh" /\ Reads(Own)

WriteReturns(text) ==
  /\ Connected
  /\ \/ Receive(Own, text) /\ UNCHANGED faults
     \/ Receive(Own, Junk) /\ Fault
     \/ UNCHANGED collector /\ Fault
  /\ UNCHANGED blurred

\* A listener that is busy is waited for; to give up too early is a fault.
WriteThrows(text) ==
  /\ \/ Unreachable /\ UNCHANGED <<collector, faults>>
     \/ ~Unreachable /\ Fault /\ (UNCHANGED collector \/ Receive(Own, text))
  /\ UNCHANGED blurred

WriteBatch ==
  /\ reader = "write"
  /\ \/ Written /\ WriteReturns(BatchText)
     \/ BatchFails /\ WriteThrows(BatchText)

\* The emergency log may fail to open.
WriteError ==
  /\ reader = "error"
  /\ \/ Written /\ WriteReturns(ErrorText)
     \/ ErrorFails(TRUE) /\ WriteThrows(ErrorText)
     \/ tries = 0 /\ ErrorFails(FALSE) /\ Fault /\ UNCHANGED <<collector, blurred>>

WriteReport(l) ==
  ReportDone(l) /\ (WriteReturns(Report) \/ WriteThrows(Report))

----------------------------------------------------------------------------
(* Next-state relation *)

ReaderStep == (ReaderAlone /\ DaemonOnly) \/ WriteBatch \/ WriteError

ListenerStep(l) == (ListenerAlone(l) /\ DaemonOnly) \/ WriteReport(l)

DaemonMain == (SetLogTransport \/ Start \/ StopEnds) /\ DaemonOnly

DaemonMoves ==
  \/ (StopBegins \/ Suicide) /\ DaemonOnly
  \/ \E l \in Listeners : Accept(l) /\ DaemonOnly
  \/ /\ \E l \in Listeners : ListenerFails(l) \/ ConnectFails(l)
     /\ Fault /\ UNCHANGED <<collector, blurred>>

LinkStep(c) ==
  (TakeText(c) \/ DropText(c) \/ ChokeOnText(c) \/ LinkEnds(c)) /\ CollectorOnly

StorerStep == Storer /\ CollectorOnly

CollectorEnds == CollectorStopEnds /\ CollectorOnly

CollectorMoves ==
  \/ (CollectorStopBegins \/ CollectorSuicide \/ StorageRecovers) /\ CollectorOnly
  \/ /\ CollectorStarts \/ StorageFails
     /\ Fault /\ UNCHANGED <<daemon, blurred>>
  \/ StoreItemLate /\ Fault /\ blurred' = TRUE /\ UNCHANGED daemon

OtherDaemonSends ==
  /\ \E c \in Conns \ {Own} : Receive(c, Report)
  /\ Fault /\ UNCHANGED <<daemon, blurred>>

Init ==
  DaemonInit /\ CollectorInit /\ faults = 0 /\ blurred = FALSE

Next ==
  \/ DaemonMain \/ ReaderStep \/ DaemonMoves
  \/ \E l \in Listeners : ListenerStep(l)
  \/ \E c \in Conns : LinkStep(c)
  \/ StorerStep \/ CollectorEnds \/ CollectorMoves
  \/ OtherDaemonSends

\* Threads go on by themselves, and so does a stop() that has begun;
\* applications, operators and the watchdog need not act.
Fairness ==
  /\ WF_vars(ReaderStep) /\ WF_vars(StorerStep)
  /\ \A l \in Listeners : WF_vars(ListenerStep(l))
  /\ \A c \in Conns : WF_vars(LinkStep(c))
  /\ WF_vars(DaemonMain) /\ WF_vars(CollectorEnds)

Spec == Init /\ [][Next]_vars /\ Fairness

----------------------------------------------------------------------------
(* Properties *)

\* Every variable keeps its type.  A message of the queue has the name of the
\* host at most once: if it is large and met a batch in the making.
TypeOK ==
  /\ DaemonType /\ CollectorType
  /\ faults \in 0 .. MaxFaults /\ blurred \in BOOLEAN

IsMessage(item) == item.kind = "message"

\* The messages of the daemon are stored in the order in which it queued them,
\* none of them twice, though batches are written again after a late answer:
\* unless another text reached the collector, or the collector started anew,
\* between two copies of one batch, or the storage threw what it had stored.
StoredInOrderOnce ==
  ~blurred => \A i, j \in 1 .. Len(stored) :
    i < j /\ IsMessage(stored[i]) /\ IsMessage(stored[j])
      => stored[i].nums[1] < stored[j].nums[1]

NumsIn(q) == UNION {Elements(q[i].nums) : i \in 1 .. Len(q)}

InDaemon == Nums(mq) \cup Elements(batch) \cup Elements(sending)
InCollector ==
  NumsIn(backlog) \cup Elements(hand.nums) \cup UNION {Elements(inbox[c].body) : c \in Conns}
Known == InDaemon \cup InCollector \cup NumsIn(stored) \cup logged

\* The emergencies: a listener of either program pushes to a queue above its
\* limit.
DaemonEmergency == number' > number /\ mq_size > MaxSize
CollectorEmergency(c) ==
  /\ inbox[c] # NoText /\ inbox'[c] = NoText
  /\ Len(backlog \o Items(inbox[c])) > BacklogLimit + 1

\* How message n may get lost in the daemon: with a batch in the making or with
\* the queue at a stop, with the process, in an emergency, or as no JSON.
LostInDaemon(n) ==
  \/ n \in Elements(batch) /\ Stopping /\ reader = "lock" /\ reader' = "ended"
  \/ n \in Nums(mq) /\ (phase' = "stopped" \/ DaemonEmergency)
  \/ n \in InDaemon /\ phase # "dead" /\ phase' = "dead"
  \/ reader = "fill" /\ mq # <<>> /\ Head(mq).num = n /\ ~Head(mq).json

\* On the way: by a fault of the protocol or of the emergency log, or because
\* the error message cannot hold the batch.
LostInWrite(n) ==
  /\ n \in Elements(sending)
  /\ \/ faults' > faults
     \/ /\ reader = "write" /\ reader' = "error"
        /\ IsFormat(sending) \/ ~FitsError(sending, Len(sending))

\* In the collector: at its stop or with its process, in an emergency, or with a
\* repetition of what was in its queue before.
LostInCollector(n) ==
  \/ n \in InCollector /\ life # "off" /\ life' = "off"
  \/ \E c \in Conns :
       \/ CollectorEmergency(c) /\ n \in NumsIn(backlog \o Items(inbox[c]))
       \/ inbox[c] = old /\ inbox'[c] = NoText /\ n \in Elements(old.body)

\* A message that was pushed is lost only for a reason that applies to it where
\* it is: while the collector is down, or another message is being lost, the
\* daemon keeps what it has.
LossesAreKnown ==
  [][\A n \in Known \ Known' :
       LostInDaemon(n) \/ LostInWrite(n) \/ LostInCollector(n)]_vars

\* The queue counts less than it holds, as append_hostname() lengthens what is
\* counted already: it never throws a message away before its limit is really
\* exceeded, unless a message was no JSON.
CountNeverAbove == ~wild => mq_size <= Bytes(mq)

\* Every message in the daemon or in the collector gets out: it is stored,
\* logged or lost, if the storage works from some time on.
NothingGetsStuck ==
  (<>[]~failing) =>
    \A n \in 1 .. MaxNumber :
      (n \in InDaemon \cup InCollector) ~> (n \notin InDaemon \cup InCollector)

\* stop() of the daemon returns by itself, however its writes fail; stop() of
\* the collector does if the storage works from some time on.
StopReturns ==
  /\ Stopping ~> ~Stopping
  /\ (<>[]~failing) => (life = "stopping" ~> life # "stopping")
=============================================================================
