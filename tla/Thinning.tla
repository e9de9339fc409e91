------------------------------ MODULE Thinning ------------------------------
(***************************************************************************)
(* What the modules with a queue have in common: how its bytes are counted,*)
(* and what an emergency of Queue_Controller may leave of it, when the     *)
(* lengths and priorities that decide are left out.                        *)
(***************************************************************************)
EXTENDS Naturals, Sequences

\* The sum of a sequence of lengths.
Total(lens) ==
  LET sum[n \in 0 .. Len(lens)] == IF n = 0 THEN 0 ELSE sum[n - 1] + lens[n]
  IN  sum[Len(lens)]

\* The ways to choose k of n messages in their order.
Picks(k, n) ==
  {f \in [1 .. k -> 1 .. n] : \A i, j \in 1 .. k : i < j => f[i] < f[j]}

Thinned(q) ==
  UNION {{[i \in 1 .. k |-> q[f[i]]] : f \in Picks(k, Len(q))} : k \in 0 .. Len(q)}
=============================================================================
