---------------------------- MODULE AgentContract ----------------------------
(***************************************************************************)
(* What a run of the operating graph promises: a customer who wrote in a   *)
(* conversation gets one answer, or a person is asked for, and never an    *)
(* answer after a person has been asked for.                               *)
(***************************************************************************)
CONSTANT Runs

VARIABLE outcome  \* of each run

\* attached: the run has a conversation; effect: what it did to the customer: nothing,
\* an answer, or a parked approval; review: requires_human_review.
Outcome == [attached: BOOLEAN, effect: {"none", "sent", "parked"}, review: BOOLEAN,
            result: {"closed", "open", "failed"}]

Untouched(a) == [attached |-> a, effect |-> "none", review |-> FALSE, result |-> "open"]

Init == outcome = [x \in Runs |-> [Untouched(FALSE) EXCEPT !.result = "closed"]]

Open(x) ==
  /\ outcome[x].result # "open"
  /\ \E a \in BOOLEAN : outcome' = [outcome EXCEPT ![x] = Untouched(a)]

Idle(x) == outcome[x].result = "open" /\ outcome[x].effect = "none"

Send(x) ==
  /\ Idle(x) /\ outcome[x].attached /\ ~outcome[x].review
  /\ outcome' = [outcome EXCEPT ![x].effect = "sent"]

\* A person is asked for; with a conversation, Park has to follow.
Ask(x) == Idle(x) /\ outcome' = [outcome EXCEPT ![x].review = TRUE]

Park(x) ==
  /\ Idle(x) /\ outcome[x].attached
  /\ outcome' = [outcome EXCEPT ![x].effect = "parked", ![x].review = TRUE]

Close(x) ==
  LET o == outcome[x] IN
  /\ o.result = "open"
  /\ o.attached => o.effect # "none" /\ (o.review <=> o.effect = "parked")
  /\ outcome' = [outcome EXCEPT ![x].result = "closed"]

Fail(x) ==
  /\ outcome[x].result = "open"
  /\ outcome' = [outcome EXCEPT ![x].result = "failed"]

Next == \E x \in Runs : Open(x) \/ Send(x) \/ Ask(x) \/ Park(x) \/ Close(x) \/ Fail(x)

Spec == Init /\ [][Next]_outcome
==============================================================================
