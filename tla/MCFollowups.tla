----------------------------- MODULE MCFollowups -----------------------------
(* Followups on small instances. *)
EXTENDS Followups, TLC
==============================================================================
