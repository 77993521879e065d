------------------------------ MODULE MCQuoting ------------------------------
(* Quoting on a small instance: prices and rates. *)
EXTENDS Quoting, TLC

\* A product whose cost is in the other currency: 9.00.
MCProducts == {[cost |-> 900, foreign |-> TRUE, moq |-> 1]}

\* Cost and 5.5 percent for one piece, from two on a tier below the floor.
MCForms ==
  {[margin |-> 550, floor |-> 1000, tiers |-> {[min |-> 2, price |-> 996]}]}

\* 0.01, at which the tier and the floor are the same amount.
MCTables == {[fwd |-> 1, bwd |-> 0]}

\* The server's date is ahead of the UTC date.
MCSkews == {-1}
==============================================================================
