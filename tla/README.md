# A verification development for fplog

fplog carries log messages from applications to a collector:

    application -- fplog client library        src/fplog
         |   sprot over UDP on the same host   src/sprot, src/spipc
       fplogd                                  src/fplogd
         |   sprot or vsprot over UDP or UDT
      fpcollect                                src/fpcollect
         |
      MongoDB or the console

This directory holds TLA+ modules of its core, the TLC configurations that
check them on small instances, and proofs for all instances.
`tlc -config X.cfg M` runs a check (`PROJECT.json` says which module M a
configuration belongs to), and `tlapm XProofs.tla` checks the proofs.

## Inventory

| Component | State | Operations | What is hard | What makes it correct |
|---|---|---|---|---|
| `sprot::Protocol` (`src/sprot/sprot.cpp`) | `sequence_num_`, `frame_num_`, `ack_after_`, the twin; the locals of `read()` and `write()` | `read`, `write`, `write_data`, `make_frame` | lost, repeated, reordered, corrupted datagrams; three levels of retries; timeouts of the transport, the frame and the call; buffers that are too small | whole messages, none twice, in order, none lost after a successful write, no call stuck for ever |
| `Queue_Controller` | the queue, its size in bytes, limit, timer, two algorithms | `push`, `pop`, `apply_config`, `change_params`, `change_algo` | the emergency removes messages by age and priority; the counted size and the queue must agree; the configuration changes meanwhile | size exact, order kept, limit honoured, important messages spared, nothing removed early or in excess |
| `Shared_Sequence_Number` | the number in shared memory, an interprocess mutex | constructor, `read`, destructor | processes interleave and die with the mutex locked; waiters unlock it in their place | no number twice, the mutex comes back |
| client library, `Fplog_Impl` in `src/fplog/fplog.cpp` | the queue, the filters of each thread, `stopping_`, transport and protocol | `initlog`, `openlog`, `write`, `shutdownlog`, thread `mq_reader` | the reader thread against the API, stop while a message is in its hands | every message that passed the filters is written once, in order, until shutdown |
| `Priority_Filter` and the Lua and Chai filters | the set of priorities, an interpreter | `should_pass`, `add_all_above`, `add_all_below` | names that contain one another | as documented in `fplog.h` |
| fplogd | the queue, the listeners, the batch | `ipc_listener`, `mq_reader`, `start`, `stop` | several threads on one protocol and one queue, batches, large messages, retries, the emergency log, a thread that runs before `start` | what was accepted is sent or in the emergency log, and does not wait for ever; `stop` returns |
| fpcollect | the queue, the last text, the storage | `fplogd_listener`, `mq_reader`, `start`, `stop` | repetitions from retries, several daemons, a storage that fails | every message is stored once, in order; `stop` returns |
| `Socket_Transport`, `IPC` (`src/spipc`) | the socket, the two ports of a UID | `connect`, `read`, `write` | two processes race for the ports | two ends with different ports; only the peer is heard |
| `vsprot::Protocol` | the read buffer, the write buffer | `read`, `write` | frames in a stream with holes, several writers on one buffer | no frame is cut or glued; after a fault the next frame is received |
| `UDT_Transport`, Mongo storage, factories, configuration, watchdog, `fpylog` | little of their own | | | |
| libjson, Lua, ChaiScript, OpenSSL, UDT, date | third-party code | | | |

Components call one another directly. They share state in three places: the
mutex around the queue of each program, the mutex of a `Protocol` object, and
the shared memory of the sequence number. Everything else is datagrams.
`PROJECT.json` lists the components, and the hazards line by line.

## Plan

1. `Channel`, `Sprot`: the protocol and what it promises. **Done**, with
   `SprotProofs`: types, the roles of the sequence numbers, the framing of messages,
   the lockstep of both ends, the refinement, and order under losses.
2. `QueueController`: the queue. **Done**, with `QueueControllerProofs`: all of its
   properties, and that a push does to a queue what the others assume.
3. `SequenceNumbers`, `SharedSequence`: the sequence number. **Done**, with
   `SharedSequenceProofs`: mutual exclusion, uniqueness and the refinement.
4. `FplogClient`: API threads, `mq_reader`, shutdown, over an abstract protocol
   and queue. **Done**, with `FplogClientProofs`: types, order, losses, no
   needless repetition, and that nothing is written before there is a transport.
5. `Fplogd` and `Fpcollect`, composed as `Delivery`: batches, retries, the
   emergency log, the recognition of repetitions, the storage, the watchdog.
   **Done**, with `DeliveryProofs`: types, losses and the counted size; and
   `DeliveryOrderProofs`: order and uniqueness in the storage.
6. `Vsprot`: frames in a stream with holes. **Done**, with `VsprotProofs`: types,
   and whole messages in order.
7. Left to prove: order of messages of several frames over losses (a read that
   begins in the middle of a message returns a part of it, see the findings, so the
   property to prove is weaker than `InOrderAtMostOnce`).
8. Left to model: the two ports of a UID in `Socket_Transport`, and the filters
   of the application's threads.

## Modules

### Sprot

One endpoint writes and one reads, as in every process of fplog, so each of the
members that both functions use belongs to one of them: `wseq` and `rseq` are
`sequence_num_` of the two objects, `wgroup` is `frame_num_`, `rgroup` the
local `frame_num`. A message is a model value with a number of fragments of one
MTU; a frame carries its fragment, and whether its CRC is right. A single step
is one operation of the transport and what follows it up to the next one:

| code | action |
|---|---|
| `write()`, `write_data()` 449-472 | `WStart`, `WSend`, `WSendFails` |
| `write_data()` 474-524, reading the ACK | `WRecv`, `WTimeout` |
| `write_data()` 526-548, the closing ACK | `WAck`, `WSendFails` |
| `check_time_out()` of `write_data()`, `write()` | `WFrameExpires`, `WCallExpires` |
| `catch` in `write()` 374-380 | `WAbort` |
| `read()` 151-224, a data frame and its ACK | `RRecvData`, `RSendAck`, `RSendAckFails` |
| `read()` 226-298, the closing ACK | `RRecvAck`, `CompleteRead`, `RAbortAck` |
| `full_read_retry` | `Restart` |
| the loop around `read()`, fplogd.cpp 577-613 | `RStart`, `ReadReturns`, `Overflow` |

The callers of `write()` keep a message whose write failed and try again. The
transport's timeout of 500 ms fires whenever the peer has nothing left to say
(`ReaderSilent`, `WriterSilent`); an earlier one, like every other fault, costs
a unit of a budget in `faults`. `faults["any"]` bounds them all together, so
that a run can allow any two faults without choosing their kinds.

`Channel` is the specification without protocol: writes and reads alternate, and
what is read is what was written. Its `Safety` is that much; its `Spec` adds that
what was written is read at last. `Implements` says that `Sprot` refines `Spec`.

`WellFramed` says which of the messages that `read()` returns are impossible under
any faults: a part of several fragments begins with a first one and ends with a
last one, and no fragment follows a last one.

### QueueController

The owners of the queue lock a mutex of theirs around every operation, so an
operation is one action. A message is its length, its priority and the number of
its push. `Process` is `process_queue()` of the four algorithms: a `Walk` over the
queue, `Turned` round for the algorithms that begin with the newest message, that
removes while the size is at the limit or above, with or without a filter by
priority. An algorithm is a record that keeps
the limit it was built for. `alive` becomes FALSE when the code dereferences a
null algorithm or lets an exception out; a run stops there, and at its bounds,
which is why its configurations do not check deadlock. `over` is a history
variable that measures how long the queue has been above its limit.

### SharedSequence

A step is one access to the semaphore (boost's named mutex) or to the shared
memory. `TimeOut` is `goto relock` after 5 seconds: it unlocks the mutex in
place of its owner. The histories `leaked` and `stolen` count the owners that
died and those unlocks; a waiter *rushes* when it unlocks a mutex nobody has
lost, which `MaxRushes` bounds. `Crash` frees neither the semaphore nor the
memory. `SequenceNumbers` is the abstraction: a number is reserved, and later
handed out at most once.

### FplogClient

The threads of the application are one actor, because `g_api_mutex` serialises
their calls; the thread `mq_reader` is the other, and the daemon, which reads or
does not, the third.

| code | action |
|---|---|
| `initlog()` 486-522 | `InitLog(how, kind)`: connected, refused by `connect()`, with a foreign transport, without a name |
| `write()` 541-566 | `WriteAsync`, `WriteSync` |
| the retries of a synchronous write 568-585 | `SyncTry` |
| `shutdownlog()`, `~Fplog_Impl()` | `ShutdownBegins` sets `stopping_`, `ShutdownEnds` comes after the join |
| `mq_reader()` 689 / 692-702 / 706-709 / 714 | `ReaderLoop`, `ReaderTake`, `ReaderRetry`, `ReaderWrite` |

`api` is the place of the call that holds `g_api_mutex`; since only the
destructor sets `stopping_`, `api = "stopping"` is that flag. `mutex_` needs no
variable: it matters only that `ReaderTake` waits for a synchronous write.
`setup = "half"` is the state in which `transport_` is set and `protocol_` is
not initialised; using that pointer sets `crashed`, after which nothing happens,
and deleting it may do the same.

The protocol is abstracted to what `Sprot` shows a write to do: it returns and
the message has been read, or (when `read()` gives up between its two ACKs) has
not; it throws and the message has not been read, or has. The queue is abstracted to what
`QueueController` shows a push to do: it appends, and an emergency may first
remove any messages and keeps the rest in order (`Thinning`, which the daemon
and the collector use as well). An emergency is possible when `QueueLimit` messages are
exceeded, for any reason of size and time. A message that does not pass the
filters changes nothing and is not an action.

### Fplogd, Fpcollect, Delivery

`Fplogd` has the steps of the daemon and `Fpcollect` those of the collector.
Neither has a next-state relation of its own: `Delivery` joins them, and a write
of one is a read of the other.

| code of fplogd.cpp | action |
|---|---|
| `main()`, `start()` | `SetLogTransport`, `Start` |
| `stop()`; the watchdog | `StopBegins`, `StopEnds`; `Suicide` |
| `ipc_listener()` 571 / 583 / 585-594 | `Connect`, `ConnectFails` / `Accept` / `Push`, `PushThrows` |
| 602-613, 641-648, the look at `should_stop_` | `ListenerEnds` |
| 614-639, an error of IPC is reported | `ListenerFails`, then `WriteReport` |
| `mq_reader()` 715-718 | `Lock` |
| 720-759, one message | `FillJunk`, `FillSmall`, `FillLarge` |
| 762-797, the batch waits or becomes a string | `FillEnds`, `Send` |
| 797-862, write and retries | `WriteBatch` (`Written`, `BatchFails`) |
| 818-856, the error message and the emergency log | `WriteError` (`Written`, `ErrorFails`) |

| code of fpcollect.cpp | action |
|---|---|
| `start()`, `stop()`, the watchdog | `CollectorStarts`, `CollectorStopBegins`, `CollectorStopEnds`, `CollectorSuicide` |
| `fplogd_listener()` 403 | `Receive`, a part of the writes of the daemons |
| 405-413, a repetition, or a part of one | `DropText` |
| 415-435, a new text; one that is no JSON | `TakeText`; `ChokeOnText` |
| 443-456 | `LinkEnds` |
| `mq_reader()` 502-511 / 534-538 / 526-545 | `TakeItem` / `Idle` / `StoreItem`, `StoreItemLate` |

The listeners lock `mutex_` for one step at a time, `mq_reader()` of the daemon
for as long as it fills a batch: `MutexFree` is `reader # "fill"`. A message of the
daemon is its number, its length, whether it is JSON and how often the name of
the host was appended; in a batch only the number matters. `MessageOf` gives the
n-th message its length, whether it may be JSON or not, and whether there is a '%' in it. `mq_reader()` runs
from the construction of a static object on, when `batch_size_` is still zero:
`BatchLimit` is 0 until `Start`, so the reader makes empty batches.

A message that is no JSON is deleted before `pop()` measures it: `FillJunk` takes
any length from `FreedLens`, or ends the process. It ends it as well when the walk of
an emergency meets such a message in the queue (`PushThrows`): nobody catches what
`Message()` throws there (Queue_Controller.cpp:237, called at fplogd.cpp:587).

When a batch could not be written the daemon prints it into an error message, through
a buffer of 2 KB and as a printf format (fplogd.cpp:820, fplog.cpp:71-72). So an error
message holds only the messages at the beginning of the batch that fit (`Beginning`,
`ErrorRoom`); if there is a '%' among them anything may be left of the batch, or the
process ends (`ErrorBodies`, `BatchFails`). The same string is what goes to the
emergency log after the retries of the error message.

A text is a batch, such an error message, another text, or no JSON; a
text that `sprot` truncated, or frames that `vsprot` glued, are the last.
`old_str.find(new_str)` finds a whole repetition of a batch, and it finds what is left of a
repetition that lost its first part: such a text is dropped or ends the collector
(`MayBePartOfOld`, `ChokeOnText`). A new batch is never a part of the last text, since it
carries the time at which it was made.

A write returns and the text has been read, or not, or in part; or it throws and
has been read or not. All but the first and, with an unreachable collector, the
last cost a unit of `faults`, as do reports, texts of other daemons, a storage that
fails and a new collector. `blurred` is a history variable: it is set when
the collector forgets a batch (because another text came, or because it was
restarted) that may come once more, or when the storage threw what it had
stored. `StoredInOrderOnce` promises nothing then; that another text comes
between two copies of a batch is what `old_str` cannot see.

### Vsprot

The bytes of a frame are put together in units, of which the header has two: the
second holds the size. A unit is known by its frame and place, which is how
`StartsWithHeader` decides. `WriteBegins` is 793-823 and `Send` one turn of the
loop 840-852; `Receive` and `ReadTimesOut` are `internal_read()`, `ReadFrame` and
`Overflow` are `read_frame()`, with its caller that comes back with a larger
buffer. `stream` says whether a UDT connection, which breaks as a whole, or a
socket, which loses one datagram, is below. Two threads of fplogd write through
one object: a second `write()` frees `write_buffer_` under the first, which then
sends what is there now, or rubbish (`Contents`). `flawed`, `calm` and `intact` are
history variables: something was lost; the reader has timed out since the last
write; the frame that was begun after that and disturbed by nothing.

## Checks

| run | instance | shows |
|---|---|---|
| `sprot_small_buffer` | messages of 1, 2, 3 fragments, 3 writes, no fault, groups of 2, the listener's buffers (1, 3, 6 fragments), numbers modulo 5 | refinement of `Channel`, also over overflows at the end of a group and the wrap-around; a socket of AckAfter + 1 datagrams is enough; every write succeeds |
| `sprot_single_lossy` | two messages of one frame, 3 writes, one loss, one early timeout, one expired call | in order, at most once; a lost datagram alone costs one message at most |
| `sprot_any_faults` | messages of 1 and 2 frames, any two faults of eight kinds | roles of the numbers, returned messages are framed, no write is stuck |
| `sprot_overflow_truncates` | one message of 3 fragments, groups of 4, no fault | **violated**: the last fragment alone is returned |
| `queue_emergency` | 5 pushes of four kinds, one change of the configuration out of all combinations | exact size, order, limit, priorities, no removal too early or too much |
| `seq_crashes` | 3 processes, 2 crashes | mutual exclusion, no number twice, the mutex comes back, the refinement |
| `client_delivery` | 3 messages, 2 lives, 1 outage, 2 faulty writes, 2 retries, limit 1 | order; only a late answer repeats a message; every loss has a reason; nothing is written before there is a transport; calls return; the queue drains |
| `client_failed_init` | 1 life, initlog fails or not | **violated**: shutdownlog() is not safe after a failed initlog() |
| `seq_stolen_lock` | 2 processes, one hasty wait | **violated**: a number is drawn twice |
| `delivery` | 2 small messages, batches of 2, of which an error message holds one, 1 retry, 2 idle passes, any message in the daemon's queue above its limit, 2 in the collector's, 2 faults, a second daemon | stored in order and once unless blurred |
| `delivery_ends` | a small or broken message and a large one with a '%', an error message that has room for neither, 1 retry, 2 idle passes, 1 in the collector's queue, 1 fault | types; the queue's size errs to one side; every loss has a reason that applies to the message; nothing stays inside for ever; both programs can be stopped |
| `vsprot_recovers` | 2 writers, 3 messages of 1 or 2 units, pieces of 2 units, 1 fault, either transport | whole and in order without faults; after one, a timeout is enough |

Bounds. Groups of two frames instead of four, one retry instead of 5 (of a
frame) and of 100 (of a message) keep each loop with a first, a repeated and a
last turn; a message of three fragments has a first, an inner and a last
frame and spans two groups. Two faults are enough for each kind to strike twice
and for any two to combine. Five pushes reach an emergency in which some
messages are spared, some are removed and one arrives. Two crashes allow the
owner and then its successor to die. Three messages of the client give one in
the reader's hands, one that waits and one that overtakes them or causes an
emergency; two retries of a synchronous write stand for 12, as the first and the
last. In `delivery` two messages fill a batch, or make two; with two faults a
batch can arrive late and be forgotten, or an error message be needed after
both retries, which cannot hold both messages (`ErrorRoom` is 3, two messages with
their hostnames have 4). `FlushAfter` is 2, so that a batch waits for a pass with its
counter at 1, and may be in the making at a stop. With `MaxSize` at 0 one queued
message makes an emergency possible. `delivery_ends` has its large message, which
has a '%', meet a batch in the making. There `ErrorRoom` is 1, so that not even the
small message fits an error message (2 with its hostname), and `BacklogLimit` is 0, so
that its two messages can make an emergency in the collector. With one of the reasons
left out of `LossesAreKnown` (the daemon, the write, the collector, the batch in the
making) the run fails: each of them happens. Its liveness needs the whole graph, so it has
one fault and one connection. In `vsprot_recovers` three messages give one that is damaged, one whose units are
taken for the rest of the first, and one that must be received; a message of
two units takes two pieces, one of one unit takes two as well, the second short.
The bounds are the constants `MaxWrites`, `Faults`, `MaxPushes`,
`MaxChanges`, `MaxWait`, `MaxNumber`, `MaxCrashes`, `MaxRushes`, `MaxLives`,
`MaxOutages`, `MaxFaults`; `Retries`, `FlushAfter`, `MaxSize`, `BacklogLimit` and
`BatchSize` are parameters of the code, given small values.

Fairness. `Sprot` assumes weak fairness of the writer and of the reader: each is
a thread in a loop whose every wait is bounded by the transport's timeout.
`SharedSequence` assumes it of every process that has begun an operation, for
the same reason (5 seconds); it does not assume that processes begin
operations, die or end. `FplogClient` assumes weak fairness of the reader and of
the call in progress, which are threads whose waits end (400 ms for a write,
10 ms for a sleep); it does not assume that applications call, or that the
daemon ever reads: `QueueDrains` has that as its hypothesis. Applications make
finitely many calls, so the reader is not kept from `mutex_` for ever. `Delivery`
assumes it of each thread (`ReaderStep`, `StorerStep`, each listener) and of a `stop()`
that has begun: every wait of theirs is a sleep, a mutex held for a step, or a
read or write with a timeout. It does not assume that applications send,
that anybody stops a program or starts one, that the watchdog strikes, or that
the storage recovers. A transport whose `read()` does not come back, as
`UDT_Transport` while it waits for a connection, is outside of this assumption. `Vsprot`
assumes it of the reader and of a write that has begun. The runs
of the client stop when the process has crashed, or at the bounds of the
calls, and those of `Delivery` and `Vsprot` when both programs have stopped or
at the bounds, so they do not check deadlock. The queue has no thread of its own, and no
liveness.

Findings. The three violated runs are disagreements of the code with its own
tests and comments, quoted in `PROJECT.json`:

- after `Buffer_Overflow` in the middle of a group, the rest of the message is
  read and acknowledged as if it were the message;
- a waiter of 5 seconds unlocks the mutex of a living owner;
- a failed `initlog()` leaves a pointer that `shutdownlog()` deletes.

More of the kind was met while modelling, is part of the models as a
fault or an outcome, and has no run of its own:

- a `read()` that times out between the two ACKs (sprot.cpp:118) loses a message
  whose `write()` succeeds;
- when the first frame of a message of two frames is lost, the reader returns
  the last fragment alone and the write succeeds;
- with two faults (the writer dies after a DATA_FIRST and the DATA_FIRST of its next
  message is lost; or a datagram is repeated and others are reordered) fragments of
  two messages may be joined, because a read() compares the types and numbers of
  frames and nothing that belongs to the message (sprot.cpp:178, 374);
  `WellFramed` is what remains true;
- a change of `max_queue_size` by `apply_config` does not reach the algorithms,
  which keep the limit they were built with (Queue_Controller.h:51, 71); `LimitKept`
  therefore speaks of fresh limits only, and of a fallback that spares no priority,
  since one that does may leave more than the limit;
- `mq_size_` of the daemon drifts below the real size (`CountNeverAbove` says
  that it does not drift the other way), and a message that is no JSON is measured
  after it was deleted (fplogd.cpp:731);
- the error message for a batch that could not be written holds 2 KB of it at most, and
  takes the batch for a printf format (fplogd.cpp:820, fplog.cpp:71-72): of a batch of
  30 messages most are lost from the storage and from the emergency log. `LossesAreKnown`
  lists that as a reason of its own (`LostInWrite`);
- a stop throws away the batch in the making (fplogd.cpp:717) and the queue;
- a text that is no JSON ends the collector (fpcollect.cpp:415), a listener
  that finds both ports taken ends the daemon (fplogd.cpp:571), and so does an emergency
  that meets a message that is no JSON (fplogd.cpp:587);
- over several faults a lost datagram may cost more messages than one: a call that
  expires or answers early leaves an ACK behind that acknowledges the next message, and
  when full retries are few, two losses may cost three messages. `OneLossOneMessage`
  therefore speaks of one loss and no other fault, and of successive messages that
  differ, since a reader knows a repetition by its content.

## Proofs

`SprotProofs`, for any messages, buffers, numbers of retries and faults:

- `TypeCorrect`: `Spec => []TypeOK`. `TypeOK` is inductive: beside the types, it
  says that a write in progress has a message and stands at one of its
  fragments, which `WSend` and `WAck` need.
- `SequenceClasses`: if no message is long enough to wrap the numbers
  (`NoWrap`), `Spec => []SeqClass`: data frames have numbers divisible by 3, the
  reader's ACKs leave 1, the writer's 2. `SeqClass` alone is not inductive, as a
  number at the limit would wrap and change its class; `SeqBound` adds that the
  writer has used at most three numbers per fragment and that the reader is
  at most two ahead of a frame it received.
- `NothingRunsOn`: under the same assumption `Spec => []WellFramed`, with faults of
  any kind and number. The invariant `FramedInv` says that a sound data frame has the
  type of its fragment (`Honest`), and what the caller's buffer may hold while a
  message is put together (`BufferFramed`). `SeqClass` is needed: it is why an
  ACK is never taken for data.
- `InStepAlways`: `Spec => []LockInv` when nothing goes wrong (`Undisturbed`: no
  faults, sockets that hold a group and a closing ACK, buffers that fit). `LockInv`
  lists the nine points at which the reader can be relative to the writer, from
  `Quiet` over `Coming`, `Reading`, `Answering`, `Answered`, `Closing` to `Following`
  (the next group is on its way) or `Finished` (the next message may be), and
  `Stranded`, after an overflow that dropped a whole group. Each says exactly
  which frames are on their way and which number and how many fragments either end
  has; one lemma for each action shows at which point it arrives. A buffer *fits* a
  message (`Fits`) if it holds all its fragments, or all but one, or if it overflows
  with the last frame of a group; otherwise a restarted `read()` finds the rest of a
  group in its socket, which is the violated run. With the listener's buffers of 1, 3
  and 6 fragments and groups of 4 that covers messages of one and two fragments only;
  with groups of 2, as in `sprot_small_buffer`, all three lengths.
- `SocketNeverOverflows`, `WholeMessages` and `ImplementsChannel` follow from it.
  The latter is `Spec => C!Safety`: the only steps that change `written` or `delivered` are
  a `write()` that is told of a success when all before it was read (`Accepts`) and a
  `read()` that returns the oldest message not yet returned (`Obtains`); all others stutter.
- `NoneTwice`: `Spec => []InOrderAtMostOnce` for messages of one frame (`SingleFrames`),
  over any number of losses, corruptions, errors of the socket, early timeouts and expired
  calls, none of which `LockInv` survives; repetitions, reorderings and the death of a
  process are excluded, because with two repetitions, two deaths, or a reordering after
  early timeouts TLC finds the property violated.
  `OrderInv` numbers every frame on its way by the call of `write()` it
  belongs to. The numbers never decrease, and grow after a closing ACK, so a
  frame that the reader takes next is of a later call than all it has returned:
  many copies of a frame may be on their way, but a reader that has returned the
  message has seen its closing ACK, and that came after all of them.

`QueueControllerProofs`, for any messages, priorities, limits and changes of the
configuration:

- `QueueTypeCorrect`, `SizeAlwaysExact`, `ArrivalOrderKept`: together they are inductive
  with `NumbersDrawn` (no number is above the count of the pushes) and `TimerTrue` (a
  timer that runs has not measured more than `over`). `TypeOK` needs the exact size:
  without it a size could fall below zero. `WalkInv` follows a walk: what is kept is a
  choice of indices (`Chosen`), what was left out was rightly removed (`Rightly`), the
  last of it had to be (`Needed`), and bytes are neither lost nor invented. `Processed` says
  the same of `Process`, turned round or not.
- `LimitAlwaysKept`, `PriorityAlwaysProtected`, `AlwaysStopsAtLimit`, `NeverHasty`: the
  properties of a push, from what its one or two walks did (`EmergencyCases`).
- `PushOnlyThins`: a push leaves a `Thinned` queue before its message. `FplogClient`,
  `Fplogd` and `Fpcollect` assume it of their queues, so this closes that gap.

`SharedSequenceProofs`, for any finite set of processes:

- `TypeCorrect`, with the invariant `OpInv` that says which operation a process
  at a given place is in.
- `RushesLetOneMoreIn`: each hasty wait lets at most one more process in, over any
  number of crashes. Two facts make it so: what is there balances (`LockCount`:
  semaphore + owners + dead owners = 1 + foreign unlocks), and foreign unlocks outnumber
  dead owners by no more than the hasty waits that were used (`RushCount`).
- `Exclusive`: with `MaxRushes = 0`, foreign unlocks never outnumber dead owners,
  so the count leaves room for one owner.
- `NumbersUnique`: an owner between `load` and `store` holds the number in
  memory; a process that has stored holds a number below it, different from all
  that were issued and from those of the other processes (`NumberInv`).
- `Refinement`: `Spec => Implements`; `Store` is `Reserve`, `Return` is `Issue`,
  all other steps stutter.

`FplogClientProofs`, for any number of messages, lives, outages and faults, any
limit of the queue and any number of retries:

- `TypeCorrect`, as above; `TypeOK` is inductive because it says that a write in
  progress has a message and a try left.
- `MessagesInOrder`: the invariant `OrderInv` says that the messages sent, the
  one in hand and those in the queue are sorted in this order, that none is newer
  than the last number drawn, and that nothing waits while logging is
  synchronous. `InOrder` alone says nothing of what is still to be sent.
  `EnqueueChooses` reduces an emergency to an increasing choice of indices.
- `HandIsInvariant`: the reader has a message only around its write, and only if
  there is a transport. `SafeBeforeTransport` and `LossesExplained` follow, the
  latter by a walk through the actions that can remove a message.

- `RepeatsExplained`: `NoNeedlessRepeat` compares the number of messages read with the
  number of different ones, and is not inductive: a message that was read late
  is written again. `Counted` adds to the first number the messages in
  flight that were read before, for each of which a late answer has been
  counted and not yet used; `Fresh` says that nothing that waits was read or is being
  written, and that the reader and a synchronous write never have the same
  message. `WriteCounts` does the arithmetic of one write.

`DeliveryProofs`, for any daemons, messages, limits, retries and faults:

- `TypeCorrect`. `StepsOfBoth` splits each step of `Next` into one of the daemon
  and one of the collector, so that `DaemonStep` and `CollectorStep` prove each
  invariant in its own program. `TypeOK` says that a queued message has its hostname
  at most once, which needs `HostsOnce`: the one that has it is the first,
  and the batch it met is gone. `SendingFree`, `HandFree`, `InboxFree` and
  `OffIsClean` say which thread may hold a message at which place, `DeadIsClean` that
  a process that ended has none, and does nothing;
  `PushersCounted` that a listener about to push has a number left.
- `LossesExplained`: `DaemonKeeps` follows what is queued or in a batch,
  `SendingKept` what is being written, across to the collector or the emergency
  log, and `CollectorKeeps` from there to the storage. A reason must apply to the
  message where it is (`LostInDaemon`, `LostInWrite`, `LostInCollector`): that the
  collector is down explains only the losses of what was in the collector when it
  went down, an emergency only those of its own queue, and a write only those of its
  batch. `ErrorBodyFacts` says what an error message keeps of a batch, and that it keeps
  all of it if there is room for it and no '%' in it.
- `CountIsNeverAbove`: with the type invariant, each place where the daemon takes bytes
  out of the queue subtracts at least as many from `mq_size_`: as many, or more, for
  a message to which the hostname was appended after it had been counted.

`DeliveryOrderProofs`, over the same:

- `StoredInOrder`: `Spec => []StoredInOrderOnce`, by the invariant `OrderInv`.
  `StoredInOrderOnce` speaks of the storage alone; the invariant puts all that is on
  its way there into one order. `DaemonOrder`: the batch being written is older than
  the one in the making, and that is older than the queue. `ComingOrder`: what the
  collector has, or has in its inbox, is older than what still waits in the
  daemon. `ReceivedOrder`: storage, hand and queue of the collector are one sorted sequence.
  `NewOrKnown` is the heart: a batch in the inbox is the last text, or newer
  than everything received, and the batch being written is the last text, or will
  be the next one, or is newer than everything received. So a second copy is
  either recognised or is no copy. The last two hold only until `blurred`. An
  emergency leaves a part of a queue (`PartOf`), and a part of an ordered queue
  is ordered.

`VsprotProofs`, for any writers, messages, buffers and faults, over either
transport:

- `TypeCorrect`, as above.
- `DeliveredWhole`: `Spec => []WholeInOrder`, by the invariant `Sound` about the
  units in `read_buffer_` and on their way (`Pending`). Any two of them were
  sent that far apart, or belong to different frames in order (`Chain`): a
  statement about pairs, so it needs no induction. The last of them joins
  what is sent next (`Joined`), and what was received is older than all (`Heard`).
  `WholeInOrder` alone says nothing of the units on their way. A timeout
  may throw away any prefix of `Pending`, which keeps all three.

`ThinningProofs` has what the programs use of an emergency, that what is left are
elements of the queue in their order, and the arithmetic of sizes: `Total` of a
sequence under `Append`, `Tail`, `Reverse` and a choice of indices, and that it exists. The
library's induction theorems cannot be used, so `Induction` and `Recursion` are
proved from `Least`: a set of numbers that is not empty has a least element.
A set of counterexamples thus does what an operator parameter would have.

Constants are constrained only by the assumptions `SprotAssumption`, `QueueAssumption`,
`SequenceAssumption`, `ClientAssumption`, `DaemonAssumption`, `CollectorAssumption`,
`DeliveryAssumption` and `VsprotAssumption`, which TLC evaluates in the runs.

Theorems that hold only of some instances have that as their hypothesis (`NoWrap`,
`Undisturbed`, `SingleFrames`, `MaxRushes = 0`); for each a passing run has such an
instance.

Only model-checked: liveness (`WritesComplete`, `LockComesBack`, `ApiReturns`,
`QueueDrains`, `NothingGetsStuck`, `StopReturns`, `Recovers`) and the fairness that
`Implements` of `Sprot` adds to `C!Safety`, which are out of the prover's reach. So is
`OneLossOneMessage` of `Sprot`, which is about a single fault. Every other
safety property of the passing runs is stated by a theorem; `Implements` of `Sprot` as
its safety part.

## Not modelled

The rest of the plan above, and for good: the formatting of messages, JSON, the
interpreters of the Lua and Chai filters, the MongoDB driver, UDT, the
configuration files, the Python bindings, the build. Most of the
repository's lines are vendored libraries (OpenSSL, UDT, Lua, ChaiScript, libjson,
date), so the models stand for a small share of all lines, and for most of
those in `src/sprot`, `src/fplogd`, `src/fpcollect` and the queue, the sequence number
and the threads of `src/fplog`.

- `Sprot`: two writers on one object (its mutex serialises them), an endpoint
  that both reads and writes, and messages of length zero are left out.
- `SharedSequence`: errors of the operating system and the overflow of a 64-bit
  number are.
- `FplogClient`: the filters and facilities of the threads, the test mode and
  `wait_until_queues_are_empty`, which only tests use, are.
- `Fplogd`, `Fpcollect`: `overload_prevention()`, which only sleeps until the stop,
  the performance monitor, and a connection that fails at the start.
- `Vsprot`: a frame of 100 MB or more, after which the buffer is emptied, data that
  looks like a header, and `validate_read_buffer()`, which nobody calls.
- `Socket_Transport`: the choice between the two ports of a UID, which each process
  of the repository makes once, and the filter on the sender.
