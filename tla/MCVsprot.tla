------------------------------ MODULE MCVsprot ------------------------------
(* Constants of Vsprot for TLC. *)
EXTENDS Vsprot

\* The reader begins with a buffer too small for the larger message.
SmallThenLarger == <<{1}, {2}, {1, 2}>>
TwoBufs == <<1, 2>>
=============================================================================
