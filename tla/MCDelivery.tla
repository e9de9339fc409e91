----------------------------- MODULE MCDelivery -----------------------------
(* Constants of Delivery for TLC. *)
EXTENDS Delivery

\* A message for a batch, one that may be no JSON, and a large one with a '%'.
Small == [len |-> 1, json |-> {TRUE}, percent |-> FALSE]
Broken == [len |-> 1, json |-> BOOLEAN, percent |-> FALSE]
Large == [len |-> 3, json |-> {TRUE}, percent |-> TRUE]

TwoSmall == <<Small, Small>>
AllKinds == <<Broken, Large>>
=============================================================================
