--------------------------- MODULE ApprovalContract ---------------------------
(***************************************************************************)
(* What the approval queue promises about one parked action, with nothing  *)
(* said about requests, reads or writes: it is decided once, and it is      *)
(* performed by the decision to approve it, or by an attempt at that        *)
(* decision whose outcome was lost (so: at least once, never after the      *)
(* decision, never after a rejection).                                      *)
(***************************************************************************)
EXTENDS Naturals

CONSTANT Actions

VARIABLES decision, performed

contractVars == <<decision, performed>>

Init ==
  /\ decision = [a \in Actions |-> "absent"]
  /\ performed = [a \in Actions |-> 0]

Raise(a) ==
  /\ decision[a] = "absent"
  /\ decision' = [decision EXCEPT ![a] = "pending"]
  /\ UNCHANGED performed

Approve(a) ==
  /\ decision[a] = "pending"
  /\ decision' = [decision EXCEPT ![a] = "approved"]
  /\ performed' = [performed EXCEPT ![a] = @ + 1]

LoseOutcome(a) ==
  /\ decision[a] = "pending"
  /\ performed' = [performed EXCEPT ![a] = @ + 1]
  /\ UNCHANGED decision

Reject(a) ==
  /\ decision[a] = "pending"
  /\ decision' = [decision EXCEPT ![a] = "rejected"]
  /\ UNCHANGED performed

Next == \E a \in Actions : Raise(a) \/ Approve(a) \/ LoseOutcome(a) \/ Reject(a)

Spec == Init /\ [][Next]_contractVars
=============================================================================
