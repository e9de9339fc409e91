-------------------------- MODULE MCQueueController --------------------------
(* Constants of QueueController for TLC. *)
EXTENDS QueueController

\* Short and long messages, to be kept (error) and not (notice).
TwoKinds == {[len |-> 1, prio |-> 6], [len |-> 2, prio |-> 4]}
ThreeKinds == TwoKinds \cup {[len |-> 2, prio |-> 6]}
FourKinds == ThreeKinds \cup {[len |-> 1, prio |-> Malformed]}

\* What fplogd.ini and fpcollect.ini give, and variations of it.
Ini == [max_queue_size |-> 2, emergency_timeout |-> 1,
        emergency_algo |-> "remove_newest_below_prio",
        emergency_fallback_algo |-> "remove_newest", emergency_prio |-> Warning]

OnlySize == [max_queue_size |-> 1, emergency_timeout |-> NotGiven,
             emergency_algo |-> "absent", emergency_fallback_algo |-> "absent",
             emergency_prio |-> 0]

NoPrio == [Ini EXCEPT !.emergency_prio = 0]

Documented == {Ini, OnlySize, [Ini EXCEPT !.emergency_algo = "remove_oldest"]}
Sparing == [Ini EXCEPT !.emergency_fallback_algo = "remove_oldest_below_prio"]
AnyConfig == Documented \cup {NoPrio, Sparing}
=============================================================================
