------------------------------ MODULE MCSprot ------------------------------
(* Constants of Sprot for TLC. *)
EXTENDS Sprot

CONSTANTS a1, b1, c2, d3      \* messages, the digit is the number of fragments

Sizes == [m \in Messages |-> CASE m \in {a1, b1} -> 1
                               [] m = c2 -> 2
                               [] m = d3 -> 3]

\* Buffers of the reading loop, in fragments: one that holds every message, and
\* those of fplogd's listener (2047, 4095 and 8191 bytes, 1221 to a fragment).
LargeBuf == <<8>>
ListenerBufs == <<1, 3, 6>>

NoFaults == [k \in FaultKinds |-> 0]
Lossy == [NoFaults EXCEPT !["any"] = 3, !["loss"] = 1, !["early"] = 1,
                          !["expire"] = 1]
AnyTwo == [k \in FaultKinds |-> 2]
=============================================================================
