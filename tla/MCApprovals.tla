----------------------------- MODULE MCApprovals -----------------------------
(* Approvals on small instances: rows and workers are model values. *)
EXTENDS Approvals, TLC

Symmetry == Permutations(Quotations)
WorkerSymmetry == Permutations(Workers)
=============================================================================
