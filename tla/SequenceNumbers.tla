-------------------------- MODULE SequenceNumbers --------------------------
(***************************************************************************)
(* What the sequence numbers of fplog promise: each is handed out at most  *)
(* once, in whatever process, and none before it has been reserved.  A     *)
(* number reserved by a process that dies is never handed out.             *)
(***************************************************************************)
EXTENDS Naturals, Sequences

VARIABLES next,           \* the numbers below it are reserved
          issued          \* the numbers handed out, in that order

vars == <<next, issued>>

Init == next = 0 /\ issued = <<>>

Reserve == next' = next + 1 /\ UNCHANGED issued

Issue(n) ==
  /\ n < next
  /\ \A i \in 1 .. Len(issued) : issued[i] # n
  /\ issued' = Append(issued, n)
  /\ UNCHANGED next

Next == Reserve \/ \E n \in 0 .. next : Issue(n)

Spec == Init /\ [][Next]_vars
=============================================================================
