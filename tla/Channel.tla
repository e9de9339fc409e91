------------------------------ MODULE Channel ------------------------------
(***************************************************************************)
(* What spipc::IPC promises its two users when the network neither loses   *)
(* nor delays anything: the reader obtains the messages the writer was     *)
(* told were written, whole, once each and in the order of the writes, and *)
(* at most one of them is still on its way.                                *)
(***************************************************************************)
EXTENDS Naturals, Sequences

CONSTANT Payload          \* what one write() carries

VARIABLES written,        \* payloads whose write() returned normally
          delivered       \* what the read() calls returned

vars == <<written, delivered>>

Init ==
  /\ written = <<>>
  /\ delivered = <<>>

Write(p) ==
  /\ Len(written) = Len(delivered)
  /\ written' = Append(written, p)
  /\ UNCHANGED delivered

Read ==
  /\ Len(delivered) < Len(written)
  /\ delivered' = Append(delivered, written[Len(delivered) + 1])
  /\ UNCHANGED written

Next == Read \/ \E p \in Payload : Write(p)

\* Without the promise that what was written is read at last.
Safety == Init /\ [][Next]_vars

Spec == Safety /\ WF_vars(Read)
=============================================================================
