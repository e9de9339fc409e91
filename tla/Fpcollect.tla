----------------------------- MODULE Fpcollect -----------------------------
(***************************************************************************)
(* The collector, Impl in src/fpcollect/fpcollect.cpp.  A listener for     *)
(* each daemon puts the messages of the batches it reads into a queue; the *)
(* thread mq_reader() writes them to the storage.  A text that is the same *)
(* as the last one is taken for a repetition and dropped.                  *)
(*                                                                         *)
(* mutex_ is held for one step at a time, so it needs no variable.         *)
(* Delivery composes this module with the daemon that sends the texts.     *)
(***************************************************************************)
EXTENDS Naturals, Sequences, Thinning

CONSTANTS
  Conns,           \* the connections of fpcollect.ini, one for each daemon
  BacklogLimit     \* messages in the queue before an emergency is possible

ASSUME CollectorAssumption == BacklogLimit \in Nat

VARIABLES
  life,            \* "off", "running", or "stopping": should_stop_ is set
  link,            \* where each fplogd_listener() is
  inbox,           \* its buf, between read() and the lock
  old,             \* old_str, one for all listeners
  backlog,         \* mq_
  storer,          \* where mq_reader() is
  hand,            \* the message in its hands, if any
  stored,          \* what is in the storage
  failing          \* the storage throws

threads == <<life, link, inbox, old, backlog, storer, hand>>
storage == <<stored, failing>>
collector == <<threads, storage>>

\* A text is a batch, the error message that holds what it can of a batch that
\* could not be written, anything else ("other"), or no JSON at all ("junk"):
\* one that lacks its first part.  Its body is the numbers of the messages that
\* can be read from it.
Text == [kind : {"none", "batch", "error", "other", "junk"}, body : Seq(Nat)]
NoText == [kind |-> "none", body |-> <<>>]
Junk == [kind |-> "junk", body |-> <<>>]

\* What is queued and stored: a message of a batch, or a whole text.
Item == [kind : {"none", "message", "error", "other"}, nums : Seq(Nat)]
NoItem == [kind |-> "none", nums |-> <<>>]

Items(text) ==
  IF text.kind = "batch"
  THEN [i \in 1 .. Len(text.body) |-> [kind |-> "message", nums |-> <<text.body[i]>>]]
  ELSE <<[kind |-> text.kind, nums |-> text.body]>>

----------------------------------------------------------------------------
(* start(), stop() and the end of the process *)

Cleared ==
  /\ link' = [c \in Conns |-> "ended"]
  /\ inbox' = [c \in Conns |-> NoText]
  /\ old' = NoText /\ backlog' = <<>>
  /\ storer' = "ended" /\ hand' = NoItem

CollectorStarts ==
  /\ life = "off"
  /\ life' = "running"
  /\ link' = [c \in Conns |-> "read"]
  /\ storer' = "take"
  /\ UNCHANGED <<inbox, old, backlog, hand, storage>>

CollectorStopBegins ==
  /\ life = "running"
  /\ life' = "stopping"
  /\ UNCHANGED <<link, inbox, old, backlog, storer, hand, storage>>

\* The storing thread is joined first, then the listeners; what they have
\* queued since is deleted.
CollectorStopEnds ==
  /\ life = "stopping"
  /\ storer = "ended" /\ \A c \in Conns : link[c] = "ended"
  /\ life' = "off" /\ Cleared
  /\ UNCHANGED storage

CollectorDies ==
  /\ life' = "off" /\ Cleared
  /\ UNCHANGED storage

\* cause_of_death(): stop() has taken more than 13 seconds.
CollectorSuicide == life = "stopping" /\ CollectorDies

----------------------------------------------------------------------------
(* fplogd_listener() *)

Reads(c) == life # "off" /\ link[c] = "read"

Receive(c, text) ==
  /\ Reads(c)
  /\ link' = [link EXCEPT ![c] = "got"]
  /\ inbox' = [inbox EXCEPT ![c] = text]
  /\ UNCHANGED <<life, old, backlog, storer, hand, storage>>

\* Every text carries the time at which it was made.  The same text comes twice
\* when a batch, or error message, is retried.  One without messages is mostly
\* a new one, and nothing but its time would be dropped.
IsRepetition(text) ==
  text = old /\ text.kind \in {"batch", "error"} /\ text.body # <<>>

\* old_str is searched for the text, so a repetition without its first part is
\* found too.
MayBePartOfOld(text) == text.kind = "junk" /\ old # NoText

\* The push() calls for one text.  Each may find an emergency.
Enter(items) ==
  \/ backlog' = backlog \o items
  \/ /\ items # <<>> /\ Len(backlog \o items) > BacklogLimit + 1
     /\ \E kept \in Thinned(backlog \o SubSeq(items, 1, Len(items) - 1)) :
          backlog' = Append(kept, items[Len(items)])

HandsFree(c, place) ==
  /\ link' = [link EXCEPT ![c] = place]
  /\ inbox' = [inbox EXCEPT ![c] = NoText]

\* Mutant: old_str is not assigned.
TakeTextUnnoticed(c) ==
  /\ link[c] = "got" /\ inbox[c].kind # "junk" /\ ~IsRepetition(inbox[c])
  /\ Enter(Items(inbox[c]))
  /\ UNCHANGED old
  /\ HandsFree(c, IF life = "stopping" THEN "ended" ELSE "read")
  /\ UNCHANGED <<life, storer, hand, storage>>

TakeText(c) ==
  /\ link[c] = "got" /\ inbox[c].kind # "junk" /\ ~IsRepetition(inbox[c])
  /\ Enter(Items(inbox[c]))
  /\ old' = inbox[c]
  /\ HandsFree(c, IF life = "stopping" THEN "ended" ELSE "read")
  /\ UNCHANGED <<life, storer, hand, storage>>

\* continue, past the look at should_stop_.
DropText(c) ==
  /\ link[c] = "got" /\ (IsRepetition(inbox[c]) \/ MayBePartOfOld(inbox[c]))
  /\ HandsFree(c, "read")
  /\ UNCHANGED <<life, old, backlog, storer, hand, storage>>

\* Nobody catches what Message() throws of a text that is no JSON, and no part
\* of the last text.
ChokeOnText(c) == link[c] = "got" /\ inbox[c].kind = "junk" /\ CollectorDies

\* read() has thrown, and the collector is to stop.
LinkEnds(c) ==
  /\ life = "stopping" /\ link[c] = "read"
  /\ link' = [link EXCEPT ![c] = "ended"]
  /\ UNCHANGED <<life, inbox, old, backlog, storer, hand, storage>>

----------------------------------------------------------------------------
(* mq_reader() *)

TakeItem ==
  /\ storer = "take"
  /\ IF backlog = <<>> THEN storer' = "idle" /\ UNCHANGED <<backlog, hand>>
     ELSE hand' = Head(backlog) /\ backlog' = Tail(backlog) /\ storer' = "store"
  /\ UNCHANGED <<life, link, inbox, old, storage>>

\* There was nothing to take a moment ago: should_stop_ is read without the
\* mutex.
Idle ==
  /\ storer = "idle"
  /\ storer' = IF life = "stopping" THEN "ended" ELSE "take"
  /\ UNCHANGED <<life, link, inbox, old, backlog, hand, storage>>

\* A write that throws is tried again, for ever, and changes nothing.
StoreItem ==
  /\ storer = "store" /\ ~failing
  /\ stored' = Append(stored, hand)
  /\ hand' = NoItem /\ storer' = "take"
  /\ UNCHANGED <<life, link, inbox, old, backlog, failing>>

\* A write that throws although the message has been stored.
StoreItemLate ==
  /\ storer = "store" /\ ~failing
  /\ stored' = Append(stored, hand)
  /\ UNCHANGED <<threads, failing>>

StorageFails ==
  /\ ~failing /\ failing' = TRUE
  /\ UNCHANGED <<threads, stored>>

StorageRecovers ==
  /\ failing /\ failing' = FALSE
  /\ UNCHANGED <<threads, stored>>

----------------------------------------------------------------------------

CollectorInit ==
  /\ life = "running"
  /\ link = [c \in Conns |-> "read"] /\ inbox = [c \in Conns |-> NoText]
  /\ old = NoText /\ backlog = <<>> /\ storer = "take" /\ hand = NoItem
  /\ stored = <<>> /\ failing = FALSE

Storer == TakeItem \/ Idle \/ StoreItem

CollectorType ==
  /\ life \in {"off", "running", "stopping"}
  /\ link \in [Conns -> {"read", "got", "ended"}]
  /\ inbox \in [Conns -> Text] /\ old \in Text
  /\ backlog \in Seq(Item) /\ hand \in Item /\ stored \in Seq(Item)
  /\ storer \in {"take", "idle", "store", "ended"}
  /\ failing \in BOOLEAN
=============================================================================
