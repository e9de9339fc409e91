--------------------------- MODULE QueueController ---------------------------
(***************************************************************************)
(* Queue_Controller (src/fplog/Queue_Controller.cpp): the message queue of *)
(* the fplog library, of fplogd and of fpcollect.  It counts the bytes it  *)
(* holds.  A push that finds it above its limit for longer than the        *)
(* emergency timeout first lets an algorithm throw messages away, and then *)
(* a fallback algorithm if that was not enough.                            *)
(*                                                                         *)
(* The owners call every operation under a mutex of theirs, so one         *)
(* operation is one step.  Time is counted in ticks since timer_start_.    *)
(***************************************************************************)
EXTENDS Integers, SequencesExt, Thinning     \* Reverse, ToSet, Front

CONSTANTS
  Kinds,           \* what may be pushed: records [len, prio]
  Configs,         \* parameters apply_config() may be given
  SizeLimit,       \* max_size_ and emergency_time_trigger_ of the constructor
  TimeTrigger,
  MaxPushes,       \* bound: push() calls
  MaxChanges,      \* bound: changes of the configuration
  MaxWait          \* bound: the ticks a timer tells apart

NotGiven == -1                  \* a parameter that is absent

\* A priority is its place in Priority_Filter::construct_numeric(): emergency
\* is 1, debug is 8.  A message without a priority has 0.
Priorities == 0 .. 8
Warning    == 5
Malformed  == 9                  \* the message is not JSON

AlgoNames == {"remove_oldest", "remove_newest",
              "remove_oldest_below_prio", "remove_newest_below_prio"}

\* "misspelt" stands for a name that only contains one of those, as
\* "Remove_Oldest" does, and "unknown" for one that does not.
NamesGiven == AlgoNames \cup {"misspelt", "unknown", "absent"}

\* A priority that is no Prio constant counts as none, that is 0.
Config == [max_queue_size : Nat \cup {NotGiven},
           emergency_timeout : Nat \cup {NotGiven},
           emergency_algo : NamesGiven,
           emergency_fallback_algo : NamesGiven,
           emergency_prio : Priorities]

ASSUME QueueAssumption ==
  /\ Kinds \subseteq [len : Nat, prio : Priorities \cup {Malformed}]
  /\ Configs \subseteq Config
  /\ SizeLimit \in Nat /\ TimeTrigger \in Nat
  /\ MaxPushes \in Nat /\ MaxChanges \in Nat /\ MaxWait \in Nat

VARIABLES
  mq,              \* mq_, each message with the number of its push
  mq_size,         \* mq_size_
  max_size,        \* max_size_
  trigger,         \* emergency_time_trigger_
  timer,           \* ticks since timer_start_, Unset when that is 0
  algo, fallback,  \* algo_ and algo_fallback_, NoAlgo for a null pointer
  alive,           \* FALSE once the process has been brought down
  pushed,          \* how many messages have been pushed
  changes,         \* how often the configuration has changed
  over             \* history: ticks the queue has been above max_size

config == <<max_size, trigger, algo, fallback, changes>>
vars == <<mq, mq_size, timer, alive, pushed, over, config>>

Unset == -1
NoAlgo == [order |-> "none", below |-> 0, max |-> 0]

Message == [len : Nat, prio : Priorities \cup {Malformed}, num : Nat]
Algo == [order : {"oldest", "newest"}, below : Priorities, max : Nat]

\* The bytes a queue holds.
Bytes(q) == Total([i \in 1 .. Len(q) |-> q[i].len])

Min2(a, b) == IF a < b THEN a ELSE b

\* The history of how long the queue has been above its limit.
Watch(passed) ==
  over' = IF mq_size' > max_size' THEN Min2(over + passed, MaxWait) ELSE 0

\* pop() leaves a timer running that the next push would stop.  If the limit
\* is changed in between, there is no telling what the timer has measured.
WatchChange ==
  over' = IF mq_size' > max_size' /\ timer # Unset THEN MaxWait ELSE 0

----------------------------------------------------------------------------
(* The algorithms *)

\* Priority 0 as the limit makes an algorithm of any message its prey.
Removable(a, m) == a.below = 0 \/ m.prio > a.below

\* Mutant: the priority is not looked at.
VisitUnfiltered(a, walk, m) ==
  IF walk.size < a.max THEN [walk EXCEPT !.kept = Append(@, m)]
  ELSE [walk EXCEPT !.size = @ - m.len]

\* Mutant: the walk does not stop at the limit.
VisitToTheEnd(a, walk, m) ==
  IF Removable(a, m) THEN [walk EXCEPT !.size = @ - m.len]
  ELSE [walk EXCEPT !.kept = Append(@, m)]

\* One message of the walk.  Only the algorithms with a priority parse it, and
\* an exception ends the walk.
Visit(a, walk, m) ==
  IF walk.threw \/ walk.size < a.max
  THEN [walk EXCEPT !.kept = Append(@, m)]
  ELSE IF a.below # 0 /\ m.prio = Malformed THEN [walk EXCEPT !.threw = TRUE]
  ELSE IF Removable(a, m) THEN [walk EXCEPT !.size = @ - m.len]
  ELSE [walk EXCEPT !.kept = Append(@, m)]

AtLeastZero(n) == IF n < 0 THEN 0 ELSE n

\* A walk through a queue: what it has done with the first n messages.
Walk(a, towards, size) ==
  LET walk[n \in 0 .. Len(towards)] ==
        IF n = 0 THEN [size |-> size, kept |-> <<>>, threw |-> FALSE]
        ELSE Visit(a, walk[n - 1], towards[n])
  IN  walk[Len(towards)]

\* The queue as a walk meets it, and what a walk has kept as a queue.
Turned(a, q) == IF a.order = "oldest" THEN q ELSE Reverse(q)

\* Mutant: the queue is left turned round.
ProcessLeavesReversed(a, q, size) ==
  LET walk == Walk(a, Turned(a, q), size)
  IN [queue |-> walk.kept, size |-> AtLeastZero(walk.size), threw |-> walk.threw]

\* process_queue(): walk from the oldest or from the newest message, removing
\* while the size has not fallen below the limit.
Process(a, q, size) ==
  LET walk == Walk(a, Turned(a, q), size)
  IN [queue |-> Turned(a, walk.kept), size |-> AtLeastZero(walk.size),
      threw |-> walk.threw]

----------------------------------------------------------------------------
(* The queue *)

\* Mutant: a timer once started is not stopped.
SinceNeverReset(size, t) ==
  IF t = Unset THEN IF size > max_size THEN 0 ELSE Unset ELSE t

\* state_of_emergency(): the timer runs from the first push that found the
\* queue above its limit.
Since(size, t) ==
  IF size <= max_size THEN Unset ELSE IF t = Unset THEN 0 ELSE t

IsEmergency(size, t) == size > max_size /\ Since(size, t) >= trigger

\* Mutant: the new message is not counted.
StoreUncounted(m, q, size, t) ==
  /\ mq' = Append(q, m)
  /\ mq_size' = size
  /\ timer' = t
  /\ pushed' = pushed + 1
  /\ UNCHANGED <<alive, config>>

Store(m, q, size, t) ==
  /\ mq' = Append(q, m)
  /\ mq_size' = size + m.len
  /\ timer' = t
  /\ pushed' = pushed + 1
  /\ UNCHANGED <<alive, config>>

\* A null pointer is dereferenced, or an exception reaches the end of a thread.
Crash == alive' = FALSE /\ UNCHANGED <<mq, mq_size, timer, pushed, config>>

\* Mutant: there is no fallback.
RelieveWithoutFallback(m, first, t) ==
  Store(m, first.queue, first.size, Since(first.size, t))

\* The second half of handle_emergency(): after the algorithm.
Relieve(m, first, t) ==
  \/ /\ ~IsEmergency(first.size, t)
     /\ Store(m, first.queue, first.size, Since(first.size, t))
  \/ /\ IsEmergency(first.size, t)
     /\ LET second == Process(fallback, first.queue, first.size)
        IN \/ (fallback = NoAlgo \/ second.threw) /\ Crash
           \/ /\ fallback # NoAlgo /\ ~second.threw
              /\ Store(m, second.queue, second.size, t)

PushMessage(m) ==
  LET t == Since(mq_size, timer)
      first == Process(algo, mq, mq_size)
  IN \/ ~IsEmergency(mq_size, timer) /\ Store(m, mq, mq_size, t)
     \/ /\ IsEmergency(mq_size, timer)
        /\ \/ (algo = NoAlgo \/ first.threw) /\ Crash
           \/ algo # NoAlgo /\ ~first.threw /\ Relieve(m, first, t)

Push(k) ==
  /\ alive /\ pushed < MaxPushes
  /\ PushMessage([len |-> k.len, prio |-> k.prio, num |-> pushed + 1])
  /\ Watch(0)

\* Mutant: a message that leaves by pop() stays counted.
PopUncounted ==
  /\ alive /\ mq # <<>>
  /\ mq' = Tail(mq)
  /\ UNCHANGED <<mq_size, timer, alive, pushed, config>>
  /\ Watch(0)

Pop ==
  /\ alive /\ mq # <<>>
  /\ mq' = Tail(mq)
  /\ mq_size' = mq_size - Head(mq).len
  /\ UNCHANGED <<timer, alive, pushed, config>>
  /\ Watch(0)

----------------------------------------------------------------------------
(* The configuration *)

MakeAlgo(name, prio, max) ==
  CASE name = "remove_oldest" -> [order |-> "oldest", below |-> 0, max |-> max]
    [] name = "remove_newest" -> [order |-> "newest", below |-> 0, max |-> max]
    [] name = "remove_oldest_below_prio" /\ prio # 0 ->
         [order |-> "oldest", below |-> prio, max |-> max]
    [] name = "remove_newest_below_prio" /\ prio # 0 ->
         [order |-> "newest", below |-> prio, max |-> max]
    [] OTHER -> NoAlgo

Changing ==
  /\ alive /\ changes < MaxChanges
  /\ changes' = changes + 1

Given(value, current) == IF value = NotGiven THEN current ELSE value

\* apply_config(): the parameters come in the order of their names, so no
\* priority is known yet when a name is looked at.  An algorithm is built for
\* the limit of the moment and keeps it.
ApplyConfig(c) ==
  LET Named(name, current) ==
        IF name \in {"absent", "unknown"} THEN current
        ELSE MakeAlgo(name, c.emergency_prio, max_size')
  IN /\ Changing
     /\ max_size' = Given(c.max_queue_size, max_size)
     /\ trigger' = Given(c.emergency_timeout, trigger)
     /\ algo' = Named(c.emergency_algo, algo)
     /\ fallback' = Named(c.emergency_fallback_algo, fallback)
     /\ UNCHANGED <<mq, mq_size, timer, alive, pushed>>
     /\ WatchChange

\* change_params() and change_algo(), which only tests call.
ChangeParams(c) ==
  /\ Changing
  /\ NotGiven \notin {c.max_queue_size, c.emergency_timeout}
  /\ max_size' = c.max_queue_size
  /\ trigger' = c.emergency_timeout
  /\ UNCHANGED <<mq, mq_size, timer, alive, pushed, algo, fallback>>
  /\ WatchChange

ChangeAlgo(name, prio, order) ==
  /\ Changing
  /\ algo' = MakeAlgo(name, prio, max_size)
  /\ fallback' = [order |-> order, below |-> 0, max |-> max_size]
  /\ UNCHANGED <<mq, mq_size, timer, alive, pushed, max_size, trigger>>
  /\ WatchChange

Tick ==
  /\ alive
  /\ timer' = IF timer = Unset THEN Unset ELSE Min2(timer + 1, MaxWait)
  /\ UNCHANGED <<mq, mq_size, alive, pushed, config>>
  /\ Watch(1)

----------------------------------------------------------------------------

Init ==
  /\ mq = <<>> /\ mq_size = 0 /\ max_size = SizeLimit /\ trigger = TimeTrigger
  /\ timer = Unset
  /\ algo = [order |-> "oldest", below |-> Warning, max |-> SizeLimit]
  /\ fallback = [order |-> "oldest", below |-> 0, max |-> SizeLimit]
  /\ alive = TRUE /\ pushed = 0 /\ changes = 0 /\ over = 0

Next ==
  \/ \E k \in Kinds : Push(k)
  \/ Pop
  \/ \E c \in Configs : ApplyConfig(c) \/ ChangeParams(c)
  \/ \E name \in AlgoNames, order \in {"oldest", "newest"} :
       ChangeAlgo(name, Warning, order)
  \/ Tick

Spec == Init /\ [][Next]_vars

----------------------------------------------------------------------------
(* Properties *)

\* Every variable keeps its type; the size, an int, never becomes negative.
TypeOK ==
  /\ mq \in Seq(Message)
  /\ mq_size \in Nat
  /\ max_size \in Nat /\ trigger \in Nat
  /\ timer \in 0 .. MaxWait \cup {Unset}
  /\ algo \in Algo \cup {NoAlgo} /\ fallback \in Algo \cup {NoAlgo}
  /\ alive \in BOOLEAN
  /\ pushed \in 0 .. MaxPushes /\ changes \in 0 .. MaxChanges
  /\ over \in 0 .. MaxWait

\* mq_size_ is the number of bytes in the queue, whatever the algorithms throw
\* away: as long as nobody edits a message in the queue, nothing is counted
\* twice or forgotten, and the count never has to be forced up to zero.
SizeIsExact == mq_size = Bytes(mq)

\* Messages stay in the order of their arrival, each at most once: the
\* algorithms that walk from the newest message put the rest back as it was.
ArrivalOrder == \A i, j \in 1 .. Len(mq) : i < j => mq[i].num < mq[j].num

\* A push during an emergency: what it threw away, and what it kept of before.
Removed == ToSet(mq) \ ToSet(mq')
Kept == Front(mq')
Emergency == pushed' > pushed /\ Removed # {}

\* The limit both algorithms were built for is the one in force.
LimitsFresh == algo.max = max_size /\ fallback.max = max_size

\* After a push the queue holds max_queue_size bytes and that message at most,
\* or has been above the limit for less than the timeout, unless the limit was
\* changed behind the algorithms' backs, or the fallback spares messages, too.
LimitKept ==
  [][LimitsFresh /\ fallback.below = 0 /\ pushed' > pushed /\ timer' >= trigger
       => Bytes(Kept) <= max_size]_vars

\* A message of the priority to keep, or above, is thrown away only when no
\* message below that priority is left.
PriorityProtected ==
  [][LimitsFresh /\ Emergency /\ (\E m \in Removed : ~Removable(algo, m))
       => \A m \in ToSet(Kept) : ~Removable(algo, m)]_vars

\* An emergency removes no more than it must: without the last message it
\* removed the queue would still be at its limit.
StopsAtLimit ==
  [][LimitsFresh /\ Emergency
       => \E m \in Removed : Bytes(Kept) + m.len >= max_size]_vars

\* Messages are thrown away only when the queue has been above its limit for
\* the whole timeout, however it shrank and grew before; only a change of the
\* limit while the timer is running can cut the wait short.
NoHastyRemoval == [][Emergency => over >= trigger]_vars
=============================================================================
