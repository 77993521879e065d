------------------------- MODULE ApprovalsDuplicates -------------------------
(***************************************************************************)
(* How often an approved action can leave the process, for any finite set  *)
(* of concurrent requests: DuplicatesBounded, PendingMeansUnexecuted and   *)
(* NeverReopened hold of Approvals.  The argument is one lemma, RowSteps:  *)
(* whatever the handler, a step does one of six things to the approval     *)
(* rows.  The invariant counts, for a decided row, the approvals still in  *)
(* flight: each of them may perform the action once more.                  *)
(***************************************************************************)
EXTENDS ApprovalsProofs

\* The requests that read row a as pending and are about to carry it out.
InFlight(a) == {w \in Workers : request[w].op = "approve" /\ request[w].appr = a}

\* Row a has been approved or rejected.
Decided(a) == approval[a].status \in {"approved", "rejected"}

\* What a step may do to row a.
Kept(a) ==
  /\ approval'[a].status = approval[a].status
  /\ approval'[a].executed = approval[a].executed
  /\ performed'[a] = performed[a]
  /\ lost'[a] = lost[a]

\* Nothing happens to it,
Quiet(a) == Kept(a) /\ InFlight(a)' \subseteq InFlight(a)

\* a request reads it,
ReadBy(a) == Kept(a) /\ approval[a].status = "pending"

\* it enters the queue,
Raised(a) ==
  /\ approval[a].status = "absent"
  /\ approval'[a].status = "pending"
  /\ ~approval'[a].executed
  /\ performed'[a] = performed[a] /\ lost'[a] = lost[a]
  /\ InFlight(a)' \subseteq InFlight(a)

\* worker w approves and performs it,
ApprovedBy(w, a) ==
  /\ w \in InFlight(a)
  /\ approval'[a].status = "approved"
  /\ approval'[a].executed
  /\ performed'[a] = performed[a] + 1 /\ lost'[a] = lost[a]
  /\ InFlight(a)' \subseteq InFlight(a) \ {w}

\* rejects it,
RejectedBy(w, a) ==
  /\ request[w].op = "reject" /\ request[w].appr = a
  /\ approval'[a].status = "rejected"
  /\ approval'[a].executed = approval[a].executed
  /\ performed'[a] = performed[a] /\ lost'[a] = lost[a]
  /\ InFlight(a)' \subseteq InFlight(a)

\* or performs it in a transaction that is lost.
LostBy(w, a) ==
  /\ w \in InFlight(a)
  /\ approval'[a].status = approval[a].status
  /\ approval'[a].executed = approval[a].executed
  /\ performed'[a] = performed[a] + 1 /\ lost'[a] = lost[a] + 1
  /\ InFlight(a)' \subseteq InFlight(a) \ {w}

\* At most one row changes, in one of five ways.
RowStep(w) ==
  \/ \A b \in ApprovalIds : Quiet(b)
  \/ \E a \in ApprovalIds :
       /\ ReadBy(a) \/ Raised(a) \/ ApprovedBy(w, a) \/ RejectedBy(w, a) \/ LostBy(w, a)
       /\ \A b \in ApprovalIds \ {a} : Quiet(b)

\* A request that ends is in flight for no row any more.
LEMMA EndFlights ==
  ASSUME TypeOK, NEW w \in Workers, End(w)
  PROVE  \A a \in ApprovalIds : InFlight(a)' \subseteq InFlight(a) \ {w}
  BY DEF End, InFlight, TypeOK, Idle

\* Only the operation "approve" puts a request in flight, and only for its row.
LEMMA BeginFlights ==
  ASSUME TypeOK, NEW w \in Workers, NEW op, NEW c, NEW b, NEW q, NEW risky,
         Begin(w, op, c, b, q, risky)
  PROVE  \A a \in ApprovalIds :
           op # "approve" \/ a # b => InFlight(a)' \subseteq InFlight(a)
  BY DEF Begin, InFlight, TypeOK

\* A handler that reads, or that writes other tables only.
LEMMA UntouchedRows ==
  ASSUME NEW w \in Workers, UNCHANGED <<approval, performed, lost>>,
         \A a \in ApprovalIds : InFlight(a)' \subseteq InFlight(a)
  PROVE  RowStep(w)
  BY DEF RowStep, Quiet, Kept

\* Parking fills one absent row and leaves the others alone.
LEMMA ParkRows ==
  ASSUME TypeOK, NEW w \in Workers, NEW type, Park(w, type), End(w),
         UNCHANGED <<performed, lost>>
  PROVE  RowStep(w)
  <1>1. PICK a \in ApprovalIds :
          /\ approval[a].status = "absent"
          /\ approval' = [approval EXCEPT ![a] =
                            [type |-> type, conv |-> request[w].conv,
                             quote |-> request[w].quote, status |-> "pending",
                             executed |-> FALSE,
                             suggestion |-> IF type = "quotation_send"
                                            THEN request[w].seen.text ELSE "draft",
                             content |-> IF type = "message_send" THEN "draft" ELSE NoText]]
    BY DEF Park
  <1>2. Raised(a)
    BY <1>1, EndFlights DEF Raised, TypeOK
  <1>3. \A b \in ApprovalIds \ {a} : Quiet(b)
    BY <1>1, EndFlights DEF Quiet, Kept, TypeOK
  <1>4. QED
    BY <1>2, <1>3 DEF RowStep

\* An approval that commits decides and performs the one row it read.
LEMMA ApprovedRows ==
  ASSUME TypeOK, RequestOK, NEW w \in Workers, request[w].op = "approve", Approved(w)
  PROVE  RowStep(w)
  <1>1. PICK a \in ApprovalIds : a = request[w].appr
    BY DEF RequestOK
  <1>2. End(w) /\ w \in InFlight(a)
    BY <1>1 DEF Approved, InFlight
  <1>3. approval[a] \in ApprovalRow
    BY <1>1 DEF TypeOK
  <1>4. approval'[a].status = "approved" /\ approval'[a].executed
    <2>1. approval'[a] = [approval[a] EXCEPT !.status = "approved", !.executed = TRUE]
      BY <1>1 DEF Approved, TypeOK
    <2>2. QED
      BY <1>3, <2>1 DEF ApprovalRow
  <1>5. ApprovedBy(w, a)
    BY <1>1, <1>2, <1>4, EndFlights DEF ApprovedBy, Approved, Performed, TypeOK
  <1>6. \A b \in ApprovalIds \ {a} : Quiet(b)
    BY <1>1, <1>2, EndFlights DEF Quiet, Kept, Approved, Performed, TypeOK
  <1>7. QED
    BY <1>1, <1>5, <1>6 DEF RowStep

\* A rejection decides one row and performs nothing.
LEMMA RejectRows ==
  ASSUME TypeOK, RequestOK, NEW w \in Workers, Reject(w)
  PROVE  RowStep(w)
  <1>1. PICK a \in ApprovalIds : a = request[w].appr /\ End(w)
    BY DEF Reject, RequestOK
  <1>2. approval[a] \in ApprovalRow
    BY <1>1 DEF TypeOK
  <1>3. /\ approval'[a].status = "rejected"
        /\ approval'[a].executed = approval[a].executed
    <2>1. PICK reason \in BOOLEAN :
            approval' = [approval EXCEPT ![a].status = "rejected",
                           ![a].content = IF reason THEN request[w].seen.content ELSE @,
                           ![a].quote = IF reason THEN request[w].quote ELSE @]
      BY <1>1 DEF Reject
    <2>2. approval'[a] = [approval[a] EXCEPT !.status = "rejected",
                            !.content = IF reason THEN request[w].seen.content ELSE @,
                            !.quote = IF reason THEN request[w].quote ELSE @]
      BY <2>1 DEF TypeOK
    <2>3. QED
      BY <1>2, <2>2 DEF ApprovalRow
  <1>4. RejectedBy(w, a)
    BY <1>1, <1>3, EndFlights DEF RejectedBy, Reject, TypeOK, history
  <1>5. \A b \in ApprovalIds \ {a} : Quiet(b)
    BY <1>1, EndFlights DEF Quiet, Kept, Reject, TypeOK, history
  <1>6. QED
    BY <1>1, <1>4, <1>5 DEF RowStep

\* An edit of the texts touches neither status nor execution.
LEMMA PatchRows ==
  ASSUME TypeOK, RequestOK, NEW w \in Workers, PatchApproval(w)
  PROVE  RowStep(w)
  <1>1. PICK a \in ApprovalIds : a = request[w].appr /\ End(w)
    BY DEF PatchApproval, RequestOK
  <1>2. approval[a] \in ApprovalRow
    BY <1>1 DEF TypeOK
  <1>3. /\ approval'[a].status = approval[a].status
        /\ approval'[a].executed = approval[a].executed
    <2>1. PICK s \in Text, c \in Text \cup {NoText}, q \in Quotations \cup {NoId} :
            LET b == request[w].appr IN
            approval' = [approval EXCEPT ![b].suggestion = s, ![b].content = c, ![b].quote = q]
      BY PatchedRow
    <2>2. approval'[a] = [approval[a] EXCEPT !.suggestion = s, !.content = c, !.quote = q]
      BY <1>1, <2>1 DEF TypeOK
    <2>3. QED
      BY <1>2, <2>2 DEF ApprovalRow
  <1>4. \A b \in ApprovalIds : Quiet(b)
    BY <1>1, <1>3, EndFlights DEF Quiet, Kept, PatchApproval, TypeOK, history
  <1>5. QED
    BY <1>4 DEF RowStep

\* A lost transaction performs the action and leaves the row as it was.
LEMMA CrashRows ==
  ASSUME TypeOK, RequestOK, NEW w \in Workers, CrashAfterEffect(w)
  PROVE  RowStep(w)
  <1>1. PICK a \in ApprovalIds : a = request[w].appr /\ End(w) /\ w \in InFlight(a)
    BY DEF CrashAfterEffect, RequestOK, InFlight
  <1>2. LostBy(w, a)
    BY <1>1, EndFlights DEF LostBy, CrashAfterEffect, Performed, TypeOK, rows
  <1>3. \A b \in ApprovalIds \ {a} : Quiet(b)
    BY <1>1, EndFlights DEF Quiet, Kept, CrashAfterEffect, Performed, TypeOK, rows
  <1>4. QED
    BY <1>1, <1>2, <1>3 DEF RowStep

\* Reading a row for a decision requires it to be pending.
LEMMA DecisionRows ==
  ASSUME TypeOK, NEW w \in Workers, NEW op, BeginDecision(w, op)
  PROVE  RowStep(w)
  <1>1. PICK a \in ApprovalIds : approval[a].status = "pending" /\ ReadForDecision(w, op, a)
    BY DEF BeginDecision
  <1>2. UNCHANGED <<approval, performed, lost>>
    BY <1>1 DEF ReadForDecision, Begin, rows, history
  <1>3. \A b \in ApprovalIds \ {a} : InFlight(b)' \subseteq InFlight(b)
    BY <1>1, BeginFlights DEF ReadForDecision
  <1>4. ReadBy(a)
    BY <1>1, <1>2 DEF ReadBy, Kept
  <1>5. \A b \in ApprovalIds \ {a} : Quiet(b)
    BY <1>2, <1>3 DEF Quiet, Kept
  <1>6. QED
    BY <1>4, <1>5 DEF RowStep

\* Every step of the system, whichever the handler.
LEMMA RowSteps ==
  ASSUME TypeOK, RequestOK, Next
  PROVE  \E w \in Workers : RowStep(w)
  <1>1. PICK w \in Workers :
          Agent(w) \/ Seller(w) \/ Queue(w) \/ Abort(w) \/ CrashAfterEffect(w)
    BY DEF Next
  <1>2. CASE Agent(w)
    <2>1. CASE BeginSendMessage(w) \/ BeginRequestHandoff(w) \/ BeginGeneratePi(w)
      <3>1. PICK op \in {"send_message", "request_handoff", "generate_pi"} :
              \E c, b, q, risky : Begin(w, op, c, b, q, risky)
        BY <2>1 DEF BeginSendMessage, BeginRequestHandoff, BeginGeneratePi
      <3>2. QED
        BY <3>1, BeginFlights, UntouchedRows DEF Begin, rows, history
    <2>2. CASE SendAutomatically(w)
      BY <2>2, EndFlights, UntouchedRows DEF SendAutomatically, rows, history
    <2>3. CASE ParkMessage(w) \/ RequestHandoff(w) \/ GeneratePi(w)
      BY <2>3, ParkRows DEF ParkMessage, RequestHandoff, GeneratePi, history
    <2>4. CASE CalcQuote(w)
      BY <2>4, UntouchedRows DEF CalcQuote, InFlight, history
    <2>5. QED
      BY <1>2, <2>1, <2>2, <2>3, <2>4 DEF Agent
  <1>3. CASE Seller(w)
    <2>1. CASE BeginSendQuotation(w) \/ BeginCreateMessage(w)
      <3>1. PICK op \in {"send_quotation", "create_message"} :
              \E c, b, q, risky : Begin(w, op, c, b, q, risky)
        BY <2>1 DEF BeginSendQuotation, BeginCreateMessage
      <3>2. QED
        BY <3>1, BeginFlights, UntouchedRows DEF Begin, rows, history
    <2>2. CASE SendQuotation(w) \/ CreateMessage(w)
      BY <2>2, EndFlights, UntouchedRows DEF SendQuotation, CreateMessage, rows, history
    <2>3. CASE ParkQuotation(w)
      BY <2>3, ParkRows DEF ParkQuotation, history
    <2>4. CASE \/ PatchQuotation(w) \/ SetTakeover(w) \/ PatchInquiry(w)
               \/ UpdateNotification(w)
      BY <2>4, UntouchedRows
      DEF PatchQuotation, SetTakeover, PatchInquiry, UpdateNotification, InFlight, history
    <2>5. QED
      BY <1>3, <2>1, <2>2, <2>3, <2>4 DEF Seller
  <1>4. CASE Queue(w)
    BY <1>4, DecisionRows, ApprovedRows, RejectRows, PatchRows
    DEF Queue, ApproveMessage, ApproveQuotation, ApprovePi, ApproveHandoff
  <1>5. CASE Abort(w)
    BY <1>5, EndFlights, UntouchedRows DEF Abort, rows, history
  <1>6. CASE CrashAfterEffect(w)
    BY <1>6, CrashRows
  <1>7. QED
    BY <1>1, <1>2, <1>3, <1>4, <1>5, <1>6

------------------------------------------------------------------------------
\* An undecided row has been performed only by lost transactions; a decided one
\* can be performed once more by each approval still in flight.
FlightInv ==
  \A a \in ApprovalIds :
    /\ ~Decided(a) => ~approval[a].executed /\ performed[a] = lost[a]
    /\ Decided(a) =>
         performed[a] + Cardinality(InFlight(a)) <= Cardinality(Workers) + lost[a]

\* Sets of requests are finite, and losing a member makes them smaller.
LEMMA FlightCount ==
  ASSUME NEW a \in ApprovalIds
  PROVE  /\ Cardinality(Workers) \in Nat
         /\ Cardinality(InFlight(a)) \in Nat
         /\ Cardinality(InFlight(a)) <= Cardinality(Workers)
         /\ Cardinality(InFlight(a)') \in Nat
         /\ Cardinality(InFlight(a)') <= Cardinality(Workers)
         /\ InFlight(a)' \subseteq InFlight(a)
              => Cardinality(InFlight(a)') <= Cardinality(InFlight(a))
         /\ \A w \in InFlight(a) :
              InFlight(a)' \subseteq InFlight(a) \ {w}
                => Cardinality(InFlight(a)') <= Cardinality(InFlight(a)) - 1
  <1>1. InFlight(a) \subseteq Workers /\ InFlight(a)' \subseteq Workers
    BY DEF InFlight
  <1>2. IsFiniteSet(InFlight(a)) /\ IsFiniteSet(InFlight(a)')
    BY <1>1, WorkersAssumption, FS_Subset
  <1>3. /\ Cardinality(Workers) \in Nat
        /\ Cardinality(InFlight(a)) \in Nat
        /\ Cardinality(InFlight(a)') \in Nat
    BY <1>2, WorkersAssumption, FS_CardinalityType
  <1>4. /\ Cardinality(InFlight(a)) <= Cardinality(Workers)
        /\ Cardinality(InFlight(a)') <= Cardinality(Workers)
    BY <1>1, WorkersAssumption, FS_Subset
  <1>5. InFlight(a)' \subseteq InFlight(a)
          => Cardinality(InFlight(a)') <= Cardinality(InFlight(a))
    BY <1>2, FS_Subset
  <1>6. ASSUME NEW w \in InFlight(a), InFlight(a)' \subseteq InFlight(a) \ {w}
        PROVE  Cardinality(InFlight(a)') <= Cardinality(InFlight(a)) - 1
    <2>1. /\ IsFiniteSet(InFlight(a) \ {w})
          /\ Cardinality(InFlight(a) \ {w}) = Cardinality(InFlight(a)) - 1
      BY <1>2, <1>6, FS_RemoveElement
    <2>2. QED
      BY <1>6, <2>1, FS_Subset
  <1>7. QED
    BY <1>3, <1>4, <1>5, <1>6

\* The invariant survives each of the six things a step may do to a row.
LEMMA FlightStep ==
  ASSUME TypeOK, FlightInv, NEW w \in Workers, RowStep(w)
  PROVE  FlightInv'
  <1> SUFFICES ASSUME NEW a \in ApprovalIds
               PROVE  /\ ~Decided(a)' => ~approval'[a].executed /\ performed'[a] = lost'[a]
                      /\ Decided(a)' =>
                           performed'[a] + Cardinality(InFlight(a)')
                             <= Cardinality(Workers) + lost'[a]
    BY DEF FlightInv
  <1>1. /\ ~Decided(a) => ~approval[a].executed /\ performed[a] = lost[a]
        /\ Decided(a) =>
             performed[a] + Cardinality(InFlight(a)) <= Cardinality(Workers) + lost[a]
    BY DEF FlightInv
  <1>2. /\ Cardinality(Workers) \in Nat
        /\ Cardinality(InFlight(a)) \in Nat
        /\ Cardinality(InFlight(a)) <= Cardinality(Workers)
        /\ Cardinality(InFlight(a)') \in Nat
        /\ Cardinality(InFlight(a)') <= Cardinality(Workers)
    BY FlightCount
  <1>3. performed[a] \in Nat /\ lost[a] \in Nat
    BY DEF TypeOK
  <1>4. CASE Quiet(a)
    <2>1. Cardinality(InFlight(a)') <= Cardinality(InFlight(a))
      BY <1>4, FlightCount DEF Quiet
    <2>2. QED
      BY <1>1, <1>2, <1>3, <1>4, <2>1 DEF Quiet, Kept, Decided
  <1>5. CASE ReadBy(a)
    BY <1>1, <1>5 DEF ReadBy, Kept, Decided
  <1>6. CASE Raised(a)
    BY <1>1, <1>6 DEF Raised, Decided
  <1>7. CASE ApprovedBy(w, a)
    <2>1. Cardinality(InFlight(a)') <= Cardinality(InFlight(a)) - 1
      BY <1>7, FlightCount DEF ApprovedBy
    <2>2. QED
      BY <1>1, <1>2, <1>3, <1>7, <2>1 DEF ApprovedBy, Decided
  <1>8. CASE RejectedBy(w, a)
    <2>1. Cardinality(InFlight(a)') <= Cardinality(InFlight(a))
      BY <1>8, FlightCount DEF RejectedBy
    <2>2. QED
      BY <1>1, <1>2, <1>3, <1>8, <2>1 DEF RejectedBy, Decided
  <1>9. CASE LostBy(w, a)
    <2>1. Cardinality(InFlight(a)') <= Cardinality(InFlight(a)) - 1
      BY <1>9, FlightCount DEF LostBy
    <2>2. QED
      BY <1>1, <1>2, <1>3, <1>9, <2>1 DEF LostBy, Decided
  <1>10. QED
    BY <1>4, <1>5, <1>6, <1>7, <1>8, <1>9 DEF RowStep

\* The count of performances and of requests in flight is an invariant of every
\* interleaving: it is what bounds the duplicates.
THEOREM FlightsCounted == Spec => []FlightInv
  <1>1. Init => FlightInv
    BY DEF Init, FlightInv, Decided, NoApproval
  <1>2. TypeOK /\ RequestOK /\ FlightInv /\ [Next]_vars => FlightInv'
    <2>1. ASSUME FlightInv, UNCHANGED vars
          PROVE  FlightInv'
      BY <2>1 DEF FlightInv, Decided, InFlight, vars
    <2>2. QED
      BY <2>1, RowSteps, FlightStep
  <1>3. QED
    BY <1>1, <1>2, TypeCorrect, PTL DEF Spec

\* Whoever reads "pending" in the queue knows that no committed request has
\* performed the action, with any number of requests in progress.
THEOREM PendingIsUnexecuted == Spec => []PendingMeansUnexecuted
  <1>1. FlightInv => PendingMeansUnexecuted
    BY DEF FlightInv, PendingMeansUnexecuted, Decided
  <1>2. QED
    BY <1>1, FlightsCounted, PTL

\* An action leaves at most once per concurrent request, plus its lost attempts.
THEOREM DuplicatesAreBounded == Spec => []DuplicatesBounded
  <1>1. TypeOK /\ FlightInv => DuplicatesBounded
    <2> SUFFICES ASSUME TypeOK, FlightInv, NEW a \in ApprovalIds
                 PROVE  performed[a] <= Cardinality(Workers) + lost[a]
      BY DEF DuplicatesBounded
    <2>1. /\ Cardinality(Workers) \in Nat /\ Cardinality(InFlight(a)) \in Nat
          /\ performed[a] \in Nat /\ lost[a] \in Nat
      BY FlightCount DEF TypeOK
    <2>2. CASE Decided(a)
      BY <2>1, <2>2 DEF FlightInv
    <2>3. CASE ~Decided(a)
      BY <2>1, <2>3 DEF FlightInv
    <2>4. QED
      BY <2>2, <2>3
  <1>2. QED
    BY <1>1, TypeCorrect, FlightsCounted, PTL

\* No handler, however stale what it read, puts a decided row back in the queue.
THEOREM DecisionsAreFinal == Spec => NeverReopened
  <1>1. TypeOK /\ RequestOK /\ [Next]_vars =>
          \A a \in ApprovalIds : approval[a].status \in {"approved", "rejected"}
            => approval'[a].status \in {"approved", "rejected"}
    <2>1. CASE UNCHANGED vars
      BY <2>1 DEF vars
    <2>2. ASSUME NEW w \in Workers, RowStep(w), NEW a \in ApprovalIds,
                 approval[a].status \in {"approved", "rejected"}
          PROVE  approval'[a].status \in {"approved", "rejected"}
      BY <2>2 DEF RowStep, Quiet, Kept, ReadBy, Raised, ApprovedBy, RejectedBy, LostBy
    <2>3. QED
      BY <2>1, <2>2, RowSteps
  <1>2. QED
    BY <1>1, TypeCorrect, PTL DEF Spec, NeverReopened
=============================================================================
