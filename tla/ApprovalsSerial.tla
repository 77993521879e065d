--------------------------- MODULE ApprovalsSerial ---------------------------
(***************************************************************************)
(* Approvals when requests are handled one at a time (Workers has one      *)
(* member), with transactions that are lost after their effect.  What a    *)
(* handler read is then still true when it writes, so each approval is      *)
(* performed once per decision, the queue implements ApprovalContract, and  *)
(* what goes on the wire matches the committed state.                      *)
(***************************************************************************)
EXTENDS ApprovalsDuplicates

\* The one handler in progress works on rows that are as it read them.
Fresh(w) ==
  LET r == request[w] IN
  /\ r.op # "idle" => r.seen = SeenNow(r.conv, r.appr, r.quote)
  /\ r.op \in {"approve", "reject", "patch"} => /\ approval[r.appr].status = "pending"
                                                 /\ approval[r.appr].quote = r.quote
  /\ r.op = "create_message" => takeover[r.conv]

\* Every request in progress is fresh.
SerialInv == \A w \in Workers : Fresh(w)

\* A handler begins on current rows,
LEMMA BeginFresh ==
  ASSUME TypeOK, NEW w \in Workers, NEW op \in Operations, NEW c, NEW a, NEW q, NEW risky,
         Begin(w, op, c, a, q, risky),
         op \in {"approve", "reject", "patch"} => /\ approval[a].status = "pending"
                                                  /\ approval[a].quote = q,
         op = "create_message" => takeover[c]
  PROVE  Fresh(w)'
  <1>1. request'[w] = [op |-> op, conv |-> c, appr |-> a, quote |-> q,
                       risky |-> risky, seen |-> SeenNow(c, a, q)]
    BY DEF Begin, TypeOK
  <1>2. UNCHANGED rows
    BY DEF Begin
  <1>3. SeenNow(c, a, q)' = SeenNow(c, a, q)
    BY <1>2 DEF SeenNow, rows
  <1>4. QED
    BY <1>1, <1>2, <1>3 DEF Fresh, rows

\* and one that has ended works on none.
LEMMA EndFresh ==
  ASSUME TypeOK, NEW w \in Workers, End(w)
  PROVE  Fresh(w)'
  BY DEF End, TypeOK, Fresh, Idle

\* an idle one neither.
LEMMA IdleFresh ==
  ASSUME NEW w \in Workers, request[w].op = "idle", UNCHANGED request
  PROVE  Fresh(w)'
  BY DEF Fresh

\* Whatever the step of the worker, it leaves it fresh.
LEMMA StepFresh ==
  ASSUME TypeOK, RequestOK, NEW w \in Workers,
         Agent(w) \/ Seller(w) \/ Queue(w) \/ Abort(w) \/ CrashAfterEffect(w)
  PROVE  Fresh(w)'
  <1>1. CASE Agent(w)
    <2>1. CASE BeginSendMessage(w) \/ BeginRequestHandoff(w) \/ BeginGeneratePi(w)
      BY <2>1, BeginFresh
      DEF BeginSendMessage, BeginRequestHandoff, BeginGeneratePi, Operations
    <2>2. CASE \/ SendAutomatically(w) \/ ParkMessage(w) \/ RequestHandoff(w) \/ GeneratePi(w)
      BY <2>2, EndFresh DEF SendAutomatically, ParkMessage, RequestHandoff, GeneratePi
    <2>3. CASE CalcQuote(w)
      BY <2>3, IdleFresh DEF CalcQuote
    <2>4. QED
      BY <1>1, <2>1, <2>2, <2>3 DEF Agent
  <1>2. CASE Seller(w)
    <2>1. CASE BeginSendQuotation(w)
      BY <2>1, BeginFresh DEF BeginSendQuotation, Operations
    <2>2. CASE BeginCreateMessage(w)
      BY <2>2, BeginFresh DEF BeginCreateMessage, Operations
    <2>3. CASE SendQuotation(w) \/ ParkQuotation(w) \/ CreateMessage(w)
      BY <2>3, EndFresh DEF SendQuotation, ParkQuotation, CreateMessage
    <2>4. CASE \/ PatchQuotation(w) \/ SetTakeover(w) \/ PatchInquiry(w)
               \/ UpdateNotification(w)
      BY <2>4, IdleFresh DEF PatchQuotation, SetTakeover, PatchInquiry, UpdateNotification
    <2>5. QED
      BY <1>2, <2>1, <2>2, <2>3, <2>4 DEF Seller
  <1>3. CASE Queue(w)
    <2>1. ASSUME NEW op \in {"approve", "reject", "patch"}, BeginDecision(w, op)
          PROVE  Fresh(w)'
      <3>1. PICK a \in ApprovalIds :
              approval[a].status = "pending" /\ ReadForDecision(w, op, a)
        BY <2>1 DEF BeginDecision
      <3>2. op \in Operations /\ op # "create_message"
        BY DEF Operations
      <3>3. QED
        BY <3>1, <3>2, BeginFresh DEF ReadForDecision
    <2>2. CASE \/ ApproveMessage(w) \/ ApproveQuotation(w) \/ ApprovePi(w) \/ ApproveHandoff(w)
               \/ Reject(w) \/ PatchApproval(w)
      BY <2>2, EndFresh
      DEF ApproveMessage, ApproveQuotation, ApprovePi, ApproveHandoff, Approved,
          Reject, PatchApproval
    <2>3. QED
      BY <1>3, <2>1, <2>2 DEF Queue
  <1>4. CASE Abort(w) \/ CrashAfterEffect(w)
    BY <1>4, EndFresh DEF Abort, CrashAfterEffect
  <1>5. QED
    BY <1>1, <1>2, <1>3, <1>4

\* With one worker, what a handler read is still true when it writes.
THEOREM ReadsStayTrue ==
  ASSUME NEW only, Workers = {only}
  PROVE  Spec => []SerialInv
  <1>1. Init => SerialInv
    BY DEF Init, SerialInv, Fresh, Idle
  <1>2. TypeOK /\ RequestOK /\ SerialInv /\ [Next]_vars => SerialInv'
    <2>1. ASSUME SerialInv, UNCHANGED vars
          PROVE  SerialInv'
      BY <2>1 DEF SerialInv, Fresh, SeenNow, vars
    <2>2. ASSUME TypeOK, RequestOK, Next
          PROVE  SerialInv'
      BY <2>2, StepFresh DEF Next, SerialInv
    <2>3. QED
      BY <2>1, <2>2
  <1>3. QED
    BY <1>1, <1>2, TypeCorrect, PTL DEF Spec

------------------------------------------------------------------------------
\* With one worker, only a pending row is decided or performed.
LEMMA OnlyPending ==
  ASSUME RequestOK, SerialInv, NEW w \in Workers, NEW a \in ApprovalIds,
         ApprovedBy(w, a) \/ RejectedBy(w, a) \/ LostBy(w, a)
  PROVE  approval[a].status = "pending"
  BY DEF SerialInv, Fresh, ApprovedBy, RejectedBy, LostBy, InFlight

\* An approved action was performed exactly once more than it was lost, and the
\* row says executed exactly when it was approved.
THEOREM PerformedExactlyOnce ==
  ASSUME NEW only, Workers = {only}
  PROVE  Spec => []PerformedOnce
  <1>1. Init => PerformedOnce
    BY DEF Init, PerformedOnce, NoApproval
  <1>2. /\ TypeOK /\ RequestOK /\ SerialInv /\ PerformedOnce /\ [Next]_vars
        => PerformedOnce'
    <2> SUFFICES ASSUME TypeOK, RequestOK, SerialInv, PerformedOnce, [Next]_vars
                 PROVE  PerformedOnce'
      OBVIOUS
    <2>1. CASE UNCHANGED vars
      BY <2>1 DEF vars, PerformedOnce
    <2>2. ASSUME NEW w \in Workers, RowStep(w)
          PROVE  PerformedOnce'
      <3> SUFFICES ASSUME NEW a \in ApprovalIds
                   PROVE  /\ approval'[a].executed <=> approval'[a].status = "approved"
                          /\ performed'[a] =
                               lost'[a] + (IF approval'[a].status = "approved" THEN 1 ELSE 0)
        BY DEF PerformedOnce
      <3>1. /\ approval[a].executed <=> approval[a].status = "approved"
            /\ performed[a] = lost[a] + (IF approval[a].status = "approved" THEN 1 ELSE 0)
            /\ performed[a] \in Nat /\ lost[a] \in Nat
        BY DEF PerformedOnce, TypeOK
      <3>2. CASE Quiet(a) \/ ReadBy(a)
        BY <3>1, <3>2 DEF Quiet, ReadBy, Kept
      <3>3. CASE Raised(a)
        BY <3>1, <3>3 DEF Raised
      <3>4. CASE ApprovedBy(w, a)
        BY <3>1, <3>4, OnlyPending DEF ApprovedBy
      <3>5. CASE RejectedBy(w, a)
        BY <3>1, <3>5, OnlyPending DEF RejectedBy
      <3>6. CASE LostBy(w, a)
        BY <3>1, <3>6, OnlyPending DEF LostBy
      <3>7. QED
        BY <2>2, <3>2, <3>3, <3>4, <3>5, <3>6 DEF RowStep
    <2>3. QED
      BY <2>1, <2>2, RowSteps
  <1>3. QED
    BY <1>1, <1>2, TypeCorrect, ReadsStayTrue, PTL DEF Spec

\* The queue implements its contract: a step of Approvals raises, approves,
\* loses or rejects one action, or is invisible.
THEOREM QueueKeepsContract ==
  ASSUME NEW only, Workers = {only}
  PROVE  Spec => ContractKept
  <1>1. Init => Contract!Init
    BY DEF Init, Contract!Init, NoApproval
  <1>2. /\ TypeOK /\ TypeOK' /\ RequestOK /\ SerialInv /\ [Next]_vars
        => [Contract!Next]_(Contract!contractVars)
    <2> SUFFICES ASSUME TypeOK, TypeOK', RequestOK, SerialInv, [Next]_vars
                 PROVE  Contract!Next \/ UNCHANGED Contract!contractVars
      OBVIOUS
    <2> DEFINE decision == [a \in ApprovalIds |-> approval[a].status]
    <2>1. CASE UNCHANGED vars
      BY <2>1 DEF vars, Contract!contractVars
    <2>2. ASSUME NEW w \in Workers, RowStep(w)
          PROVE  Contract!Next \/ UNCHANGED Contract!contractVars
      <3>1. performed \in [ApprovalIds -> Nat] /\ performed' \in [ApprovalIds -> Nat]
        BY DEF TypeOK
      <3>2. CASE \A b \in ApprovalIds : Quiet(b)
        <4>1. decision' = decision /\ performed' = performed
          BY <3>1, <3>2 DEF Quiet, Kept
        <4>2. QED
          BY <4>1 DEF Contract!contractVars
      <3>3. ASSUME NEW a \in ApprovalIds, \A b \in ApprovalIds \ {a} : Quiet(b),
                   \/ ReadBy(a) \/ Raised(a)
                   \/ ApprovedBy(w, a) \/ RejectedBy(w, a) \/ LostBy(w, a)
            PROVE  Contract!Next \/ UNCHANGED Contract!contractVars
        <4>1. /\ decision' = [decision EXCEPT ![a] = approval'[a].status]
              /\ performed' = [performed EXCEPT ![a] = performed'[a]]
          BY <3>1, <3>3 DEF Quiet, Kept
        <4>2. CASE ReadBy(a)
          <5>1. decision' = decision /\ performed' = performed
            BY <3>1, <4>1, <4>2 DEF ReadBy, Kept
          <5>2. QED
            BY <5>1 DEF Contract!contractVars
        <4>3. CASE Raised(a)
          <5>1. Contract!Raise(a)
            BY <3>1, <4>1, <4>3 DEF Raised, Contract!Raise
          <5>2. QED
            BY <5>1 DEF Contract!Next
        <4>4. CASE ApprovedBy(w, a)
          <5>1. Contract!Approve(a)
            BY <3>1, <4>1, <4>4, OnlyPending DEF ApprovedBy, Contract!Approve
          <5>2. QED
            BY <5>1 DEF Contract!Next
        <4>5. CASE RejectedBy(w, a)
          <5>1. Contract!Reject(a)
            BY <3>1, <4>1, <4>5, OnlyPending DEF RejectedBy, Contract!Reject
          <5>2. QED
            BY <5>1 DEF Contract!Next
        <4>6. CASE LostBy(w, a)
          <5>1. Contract!LoseOutcome(a)
            BY <3>1, <4>1, <4>6, OnlyPending DEF LostBy, Contract!LoseOutcome
          <5>2. QED
            BY <5>1 DEF Contract!Next
        <4>7. QED
          BY <3>3, <4>2, <4>3, <4>4, <4>5, <4>6
      <3>4. QED
        BY <2>2, <3>2, <3>3 DEF RowStep
    <2>3. QED
      BY <2>1, <2>2, RowSteps
  <1>3. QED
    BY <1>1, <1>2, TypeCorrect, ReadsStayTrue, PTL DEF Spec, ContractKept, Contract!Spec

------------------------------------------------------------------------------
\* What one step puts on the wire matches the state it meets.
WireInv ==
  /\ SpeakerMatchesTakeover
  /\ FloorQuotationNeedsApproval

\* A step that sends nothing.
LEMMA SilentWire ==
  ASSUME wire' = Silent
  PROVE  WireInv'
  BY DEF Silent, WireInv, SpeakerMatchesTakeover, FloorQuotationNeedsApproval

\* A fresh handler sends.
LEMMA FreshWire ==
  ASSUME TypeOK, RequestOK, SerialInv, NEW w \in Workers,
         NEW cause \in {"auto", "approval", "quotation", "human"}, Transmit(w, cause),
         request[w].op # "idle",
         cause = "auto" => request[w].op = "send_message" /\ ~Guarded(request[w]),
         cause = "human" => request[w].op = "create_message",
         cause = "quotation" => request[w].op = "send_quotation" /\ ~request[w].seen.hitsFloor
  PROVE  WireInv'
  <1> DEFINE r == request[w]
  <1>1. r.seen = SeenNow(r.conv, r.appr, r.quote)
    BY DEF SerialInv, Fresh
  <1>2. /\ wire'.cause = cause
        /\ wire'.takeover = takeover[r.conv]
        /\ wire'.risky = r.risky
        /\ wire'.hitsFloor = IF r.quote = NoId THEN FALSE ELSE quotation[r.quote].hitsFloor
    BY DEF Transmit
  <1>3. cause = "auto" => ~wire'.takeover /\ ~wire'.risky
    <2>1. cause = "auto" => ~r.seen.takeover /\ ~r.risky
      BY DEF Guarded
    <2>2. cause = "auto" => r.conv \in Conversations /\ r.conv # NoId
      BY NoIdAssumption DEF RequestOK
    <2>3. cause = "auto" => r.seen.takeover = takeover[r.conv]
      BY <1>1, <2>2 DEF SeenNow
    <2>4. QED
      BY <1>2, <2>1, <2>3
  <1>4. cause = "human" => wire'.takeover
    <2>1. ASSUME cause = "human"
          PROVE  takeover[r.conv]
      BY <2>1 DEF SerialInv, Fresh
    <2>2. QED
      BY <1>2, <2>1, Zenon
  <1>5. cause = "quotation" => ~wire'.hitsFloor
    BY <1>1, <1>2 DEF SeenNow
  <1>6. wire'.cause = cause
    BY <1>2
  <1> HIDE DEF r
  <1>7. SpeakerMatchesTakeover'
    BY <1>3, <1>4, <1>6 DEF SpeakerMatchesTakeover
  <1>8. QED
    BY <1>5, <1>6, <1>7 DEF WireInv, FloorQuotationNeedsApproval

\* Whatever the step, what it puts on the wire matches the state it met.
LEMMA StepWire ==
  ASSUME TypeOK, RequestOK, SerialInv, WireInv, NEW w \in Workers,
         Agent(w) \/ Seller(w) \/ Queue(w) \/ Abort(w) \/ CrashAfterEffect(w)
  PROVE  WireInv'
  <1>1. CASE Agent(w)
    <2>1. CASE SendAutomatically(w)
      BY <2>1, FreshWire DEF SendAutomatically
    <2>2. CASE \/ BeginSendMessage(w) \/ ParkMessage(w)
               \/ BeginRequestHandoff(w) \/ RequestHandoff(w)
               \/ BeginGeneratePi(w) \/ GeneratePi(w) \/ CalcQuote(w)
      BY <2>2, SilentWire
      DEF BeginSendMessage, ParkMessage, BeginRequestHandoff, RequestHandoff,
          BeginGeneratePi, GeneratePi, CalcQuote, Begin
    <2>3. QED
      BY <1>1, <2>1, <2>2 DEF Agent
  <1>2. CASE Seller(w)
    <2>1. CASE SendQuotation(w)
      BY <2>1, FreshWire DEF SendQuotation
    <2>2. CASE CreateMessage(w)
      BY <2>2, FreshWire DEF CreateMessage
    <2>3. CASE \/ PatchQuotation(w) \/ BeginSendQuotation(w) \/ ParkQuotation(w)
               \/ BeginCreateMessage(w) \/ SetTakeover(w) \/ PatchInquiry(w)
               \/ UpdateNotification(w)
      BY <2>3, SilentWire
      DEF PatchQuotation, BeginSendQuotation, ParkQuotation, BeginCreateMessage,
          SetTakeover, PatchInquiry, UpdateNotification, Begin
    <2>4. QED
      BY <1>2, <2>1, <2>2, <2>3 DEF Seller
  <1>3. CASE Queue(w)
    <2>1. CASE ApproveMessage(w) \/ ApproveQuotation(w)
      BY <2>1, FreshWire DEF ApproveMessage, ApproveQuotation
    <2>2. CASE \/ \E op \in {"approve", "reject", "patch"} : BeginDecision(w, op)
               \/ ApprovePi(w) \/ ApproveHandoff(w) \/ Reject(w) \/ PatchApproval(w)
      BY <2>2, SilentWire
      DEF BeginDecision, ReadForDecision, ApprovePi, ApproveHandoff, Reject,
          PatchApproval, Begin
    <2>3. QED
      BY <1>3, <2>1, <2>2 DEF Queue
  <1>4. CASE Abort(w)
    BY <1>4, SilentWire DEF Abort
  <1>5. CASE CrashAfterEffect(w)
    BY <1>5, SilentWire, FreshWire DEF CrashAfterEffect
  <1>6. QED
    BY <1>1, <1>2, <1>3, <1>4, <1>5

\* The AI never speaks into a takeover or with guarded text, the seller only
\* speaks during one, and no quotation below the floor leaves outside the queue.
THEOREM WireMatchesState ==
  ASSUME NEW only, Workers = {only}
  PROVE  Spec => [](SpeakerMatchesTakeover /\ FloorQuotationNeedsApproval)
  <1>1. Init => WireInv
    BY DEF Init, Silent, WireInv, SpeakerMatchesTakeover, FloorQuotationNeedsApproval
  <1>2. TypeOK /\ RequestOK /\ SerialInv /\ WireInv /\ [Next]_vars => WireInv'
    <2>1. ASSUME WireInv, UNCHANGED vars
          PROVE  WireInv'
      BY <2>1 DEF WireInv, SpeakerMatchesTakeover, FloorQuotationNeedsApproval,
                  vars
    <2>2. QED
      BY <2>1, StepWire DEF Next
  <1>3. WireInv => SpeakerMatchesTakeover /\ FloorQuotationNeedsApproval
    BY DEF WireInv
  <1>4. QED
    BY <1>1, <1>2, <1>3, TypeCorrect, ReadsStayTrue, PTL DEF Spec

\* With one worker, a quotation flagged below the floor leaves only through the queue.
THEOREM FloorThroughQueue ==
  ASSUME NEW only, Workers = {only}
  PROVE  Spec => []FloorQuotationNeedsApproval
  BY WireMatchesState, PTL

------------------------------------------------------------------------------
(* The text on record *)

\* A row that is not approved, or whose record is the text it sent, keeps the record,
\* and so do the rows left alone.
LEMMA RowOnRecord ==
  ASSUME RecordMatchesSent, NEW a \in ApprovalIds,
         approval'[a].status = "approved" /\ approval'[a].type = "message_send"
           => sent'[a] = OnRecord(approval'[a]),
         \A b \in ApprovalIds \ {a} : approval'[b] = approval[b] /\ sent'[b] = sent[b]
  PROVE  RecordMatchesSent'
  BY DEF RecordMatchesSent, OnRecord

\* A parked action is on record before it is sent.
LEMMA ParkOnRecord ==
  ASSUME TypeOK, RecordMatchesSent, NEW w \in Workers, NEW type, Park(w, type), UNCHANGED sent
  PROVE  RecordMatchesSent'
  <1>1. PICK a \in ApprovalIds :
          approval' = [approval EXCEPT ![a] =
                         [type |-> type, conv |-> request[w].conv, quote |-> request[w].quote,
                          status |-> "pending", executed |-> FALSE,
                          suggestion |-> IF type = "quotation_send"
                                         THEN request[w].seen.text ELSE "draft",
                          content |-> IF type = "message_send" THEN "draft" ELSE NoText]]
    BY DEF Park
  <1>2. approval'[a].status = "pending"
    BY <1>1 DEF TypeOK
  <1>3. \A b \in ApprovalIds \ {a} : approval'[b] = approval[b]
    BY <1>1 DEF TypeOK
  <1>4. QED
    BY <1>2, <1>3, RowOnRecord

\* An approval sends the texts of the row as it stands, and leaves them there.
LEMMA ApprovedOnRecord ==
  ASSUME TypeOK, RequestOK, SerialInv, RecordMatchesSent, NEW w \in Workers,
         request[w].op = "approve", Approved(w)
  PROVE  RecordMatchesSent'
  <1> DEFINE r == request[w]
             a == request[w].appr
  <1>1. a \in ApprovalIds /\ a # NoId
    BY NoIdAssumption DEF RequestOK
  <1>2. r.seen.suggestion = approval[a].suggestion /\ r.seen.content = approval[a].content
    <2>1. r.seen = SeenNow(r.conv, a, r.quote)
      BY DEF SerialInv, Fresh
    <2>2. QED
      BY <1>1, <2>1 DEF SeenNow
  <1>3. /\ approval'[a].suggestion = approval[a].suggestion
        /\ approval'[a].content = approval[a].content
        /\ approval'[a].type = approval[a].type
    <2>1. approval'[a] = [approval[a] EXCEPT !.status = "approved", !.executed = TRUE]
      BY <1>1 DEF Approved, TypeOK
    <2>2. approval[a] \in ApprovalRow
      BY <1>1 DEF TypeOK
    <2>3. QED
      BY <2>1, <2>2 DEF ApprovalRow
  <1>4. sent'[a] = Outgoing(r.seen, approval[a].type)
    BY <1>1 DEF Approved, Performed, TypeOK
  <1>5. approval'[a].type = "message_send" => sent'[a] = OnRecord(approval'[a])
    BY <1>2, <1>3, <1>4 DEF Outgoing, OnRecord
  <1>6. \A b \in ApprovalIds \ {a} : approval'[b] = approval[b] /\ sent'[b] = sent[b]
    BY <1>1 DEF Approved, Performed, TypeOK
  <1> HIDE DEF r, a
  <1>7. QED
    BY <1>1, <1>5, <1>6, RowOnRecord

\* A rejected row was pending, and is not approved by it; an edited one stays pending.
LEMMA OthersOnRecord ==
  ASSUME TypeOK, RequestOK, SerialInv, RecordMatchesSent, NEW w \in Workers,
         Reject(w) \/ PatchApproval(w)
  PROVE  RecordMatchesSent'
  <1> DEFINE a == request[w].appr
  <1>1. a \in ApprovalIds /\ approval[a].status = "pending" /\ approval[a] \in ApprovalRow
    BY DEF RequestOK, SerialInv, Fresh, Reject, PatchApproval, TypeOK
  <1>2. UNCHANGED sent
    BY DEF Reject, PatchApproval, history
  <1>3. \A b \in ApprovalIds \ {a} : approval'[b] = approval[b]
    <2>1. CASE Reject(w)
      BY <1>1, <2>1 DEF Reject, TypeOK
    <2>2. CASE PatchApproval(w)
      BY <1>1, <2>2 DEF PatchApproval, TypeOK
    <2>3. QED
      BY <2>1, <2>2
  <1>4. approval'[a].status # "approved"
    <2>1. CASE Reject(w)
      <3>1. PICK reason \in BOOLEAN :
              approval' = [approval EXCEPT ![a].status = "rejected",
                             ![a].content = IF reason THEN request[w].seen.content ELSE @,
                             ![a].quote = IF reason THEN request[w].quote ELSE @]
        BY <2>1 DEF Reject
      <3>2. approval'[a] = [approval[a] EXCEPT !.status = "rejected",
                              !.content = IF reason THEN request[w].seen.content ELSE @,
                              !.quote = IF reason THEN request[w].quote ELSE @]
        BY <1>1, <3>1 DEF TypeOK
      <3>3. QED
        BY <1>1, <3>2 DEF ApprovalRow
    <2>2. CASE PatchApproval(w)
      <3>1. PICK s \in Text, c \in Text \cup {NoText}, q \in Quotations \cup {NoId} :
              LET b == request[w].appr IN
              approval' = [approval EXCEPT ![b].suggestion = s, ![b].content = c, ![b].quote = q]
        BY <2>2, PatchedRow
      <3>2. approval'[a] = [approval[a] EXCEPT !.suggestion = s, !.content = c, !.quote = q]
        BY <1>1, <3>1 DEF TypeOK
      <3>3. QED
        BY <1>1, <3>2 DEF ApprovalRow
    <2>3. QED
      BY <2>1, <2>2
  <1> HIDE DEF a
  <1>5. QED
    BY <1>1, <1>2, <1>3, <1>4, RowOnRecord

\* A lost attempt was made while its row was pending.
LEMMA LostOnRecord ==
  ASSUME TypeOK, RequestOK, SerialInv, RecordMatchesSent, NEW w \in Workers, CrashAfterEffect(w)
  PROVE  RecordMatchesSent'
  <1> DEFINE a == request[w].appr
  <1>1. a \in ApprovalIds /\ approval[a].status = "pending" /\ UNCHANGED approval
    BY DEF CrashAfterEffect, RequestOK, SerialInv, Fresh, rows
  <1>2. \A b \in ApprovalIds \ {a} : sent'[b] = sent[b]
    BY <1>1 DEF CrashAfterEffect, Performed, TypeOK
  <1> HIDE DEF a
  <1>3. QED
    BY <1>1, <1>2, RowOnRecord

\* Whatever the step, the record tells what was sent.
LEMMA StepOnRecord ==
  ASSUME TypeOK, RequestOK, SerialInv, RecordMatchesSent, NEW w \in Workers,
         Agent(w) \/ Seller(w) \/ Queue(w) \/ Abort(w) \/ CrashAfterEffect(w)
  PROVE  RecordMatchesSent'
  <1>1. CASE UNCHANGED <<approval, sent>>
    BY <1>1 DEF RecordMatchesSent
  <1>2. CASE Agent(w)
    <2>1. CASE ParkMessage(w) \/ RequestHandoff(w) \/ GeneratePi(w)
      BY <2>1, ParkOnRecord DEF ParkMessage, RequestHandoff, GeneratePi, history
    <2>2. CASE \/ BeginSendMessage(w) \/ SendAutomatically(w) \/ BeginRequestHandoff(w)
               \/ BeginGeneratePi(w) \/ CalcQuote(w)
      BY <1>1, <2>2
      DEF BeginSendMessage, SendAutomatically, BeginRequestHandoff, BeginGeneratePi, CalcQuote,
          Begin, rows, history
    <2>3. QED
      BY <1>2, <2>1, <2>2 DEF Agent
  <1>3. CASE Seller(w)
    <2>1. CASE ParkQuotation(w)
      BY <2>1, ParkOnRecord DEF ParkQuotation, history
    <2>2. CASE \/ PatchQuotation(w) \/ BeginSendQuotation(w) \/ SendQuotation(w)
               \/ BeginCreateMessage(w) \/ CreateMessage(w) \/ SetTakeover(w)
               \/ PatchInquiry(w) \/ UpdateNotification(w)
      BY <1>1, <2>2
      DEF PatchQuotation, BeginSendQuotation, SendQuotation, BeginCreateMessage, CreateMessage,
          SetTakeover, PatchInquiry, UpdateNotification, Begin, rows, history
    <2>3. QED
      BY <1>3, <2>1, <2>2 DEF Seller
  <1>4. CASE Queue(w)
    <2>1. CASE \E op \in {"approve", "reject", "patch"} : BeginDecision(w, op)
      BY <1>1, <2>1 DEF BeginDecision, ReadForDecision, Begin, rows, history
    <2>2. CASE ApproveMessage(w) \/ ApproveQuotation(w) \/ ApprovePi(w) \/ ApproveHandoff(w)
      BY <2>2, ApprovedOnRecord
      DEF ApproveMessage, ApproveQuotation, ApprovePi, ApproveHandoff
    <2>3. CASE Reject(w) \/ PatchApproval(w)
      BY <2>3, OthersOnRecord
    <2>4. QED
      BY <1>4, <2>1, <2>2, <2>3 DEF Queue
  <1>5. CASE Abort(w)
    BY <1>1, <1>5 DEF Abort, rows, history
  <1>6. CASE CrashAfterEffect(w)
    BY <1>6, LostOnRecord
  <1>7. QED
    BY <1>2, <1>3, <1>4, <1>5, <1>6

\* With one worker, the row of an approved message holds the text that the customer
\* got last, whatever was edited before and however many attempts were lost.
THEOREM RecordedTextIsSent ==
  ASSUME NEW only, Workers = {only}
  PROVE  Spec => []RecordMatchesSent
  <1>1. Init => RecordMatchesSent
    BY DEF Init, RecordMatchesSent, NoApproval
  <1>2. TypeOK /\ RequestOK /\ SerialInv /\ RecordMatchesSent /\ [Next]_vars => RecordMatchesSent'
    <2>1. ASSUME RecordMatchesSent, UNCHANGED vars
          PROVE  RecordMatchesSent'
      BY <2>1 DEF RecordMatchesSent, vars
    <2>2. QED
      BY <2>1, StepOnRecord DEF Next
  <1>3. QED
    BY <1>1, <1>2, TypeCorrect, ReadsStayTrue, PTL DEF Spec

------------------------------------------------------------------------------
(* The formal PI *)

\* A decided row names what was performed for good: no handler edits it again.
ExecutedStay ==
  \A a \in ApprovalIds :
    approval[a].executed => /\ approval'[a].executed
                            /\ approval'[a].type = approval[a].type
                            /\ approval'[a].quote = approval[a].quote

\* Only a row that is not executed is changed,
LEMMA OneRowStays ==
  ASSUME TypeOK, NEW a \in ApprovalIds, ~approval[a].executed,
         \A b \in ApprovalIds \ {a} : approval'[b] = approval[b]
  PROVE  ExecutedStay
  BY DEF ExecutedStay

\* when an action is parked, in a row that did not exist,
LEMMA ParkStays ==
  ASSUME TypeOK, PerformedOnce, NEW w \in Workers, NEW type, Park(w, type)
  PROVE  ExecutedStay
  <1>1. PICK a \in ApprovalIds :
          /\ approval[a].status = "absent"
          /\ approval' = [approval EXCEPT ![a] =
                            [type |-> type, conv |-> request[w].conv, quote |-> request[w].quote,
                             status |-> "pending", executed |-> FALSE,
                             suggestion |-> IF type = "quotation_send"
                                            THEN request[w].seen.text ELSE "draft",
                             content |-> IF type = "message_send" THEN "draft" ELSE NoText]]
    BY DEF Park
  <1>2. ~approval[a].executed
    BY <1>1 DEF PerformedOnce
  <1>3. \A b \in ApprovalIds \ {a} : approval'[b] = approval[b]
    BY <1>1 DEF TypeOK
  <1>4. QED
    BY <1>2, <1>3, OneRowStays

\* and when a request decides or edits the pending row it has read.
LEMMA DecisionStays ==
  ASSUME TypeOK, RequestOK, SerialInv, PerformedOnce, NEW w \in Workers,
         Approved(w) \/ Reject(w) \/ PatchApproval(w),
         request[w].op \in {"approve", "reject", "patch"}
  PROVE  ExecutedStay
  <1> DEFINE a == request[w].appr
  <1>1. a \in ApprovalIds /\ approval[a].status = "pending"
    BY DEF RequestOK, SerialInv, Fresh
  <1>2. ~approval[a].executed
    BY <1>1 DEF PerformedOnce
  <1>3. \A b \in ApprovalIds \ {a} : approval'[b] = approval[b]
    <2>1. CASE Approved(w)
      BY <1>1, <2>1 DEF Approved, TypeOK
    <2>2. CASE Reject(w)
      BY <1>1, <2>2 DEF Reject, TypeOK
    <2>3. CASE PatchApproval(w)
      BY <1>1, <2>3 DEF PatchApproval, TypeOK
    <2>4. QED
      BY <2>1, <2>2, <2>3
  <1> HIDE DEF a
  <1>4. QED
    BY <1>1, <1>2, <1>3, OneRowStays

\* No step marks a quotation as a PI that was none.
NoNewPi == \A q \in Quotations : quotation'[q].isPi => quotation[q].isPi

\* Marking a quotation sent makes it no PI.
LEMMA SentIsNoPi ==
  ASSUME TypeOK, NEW q, NEW s, quotation' = [quotation EXCEPT ![q].status = s]
  PROVE  NoNewPi
  BY DEF NoNewPi, TypeOK, QuotationRow

\* Where the approvals in the queue name the quotations they did, and no quotation is made a
\* PI, each PI keeps its approval.
LEMMA PiStays ==
  ASSUME PiNeedsApproval, ExecutedStay, NoNewPi
  PROVE  PiNeedsApproval'
  BY DEF PiNeedsApproval, ExecutedStay, NoNewPi

\* The approval that makes the document is of its type and names its quotation.
LEMMA ApprovePiKeeps ==
  ASSUME TypeOK, RequestOK, SerialInv, PerformedOnce, PiNeedsApproval, NEW w \in Workers,
         ApprovePi(w)
  PROVE  PiNeedsApproval'
  <1> DEFINE r == request[w]
  <1>1. /\ r.op = "approve" /\ r.appr \in ApprovalIds
        /\ approval[r.appr].type = "pi_generate" /\ approval[r.appr].quote = r.quote
    BY DEF ApprovePi, RequestOK, SerialInv, Fresh
  <1>2. /\ approval'[r.appr].type = "pi_generate" /\ approval'[r.appr].quote = r.quote
        /\ approval'[r.appr].executed
    BY <1>1 DEF ApprovePi, Approved, TypeOK, ApprovalRow
  <1>3. \A q \in Quotations : q # r.quote => quotation'[q] = quotation[q]
    BY DEF ApprovePi, TypeOK
  <1>4. ExecutedStay
    BY <1>1, DecisionStays DEF ApprovePi
  <1> HIDE DEF r
  <1>5. ASSUME NEW q \in Quotations, quotation'[q].isPi
        PROVE  \E a \in ApprovalIds : /\ approval'[a].type = "pi_generate"
                                      /\ approval'[a].quote = q
                                      /\ approval'[a].executed
    <2>1. CASE q = r.quote
      BY <1>1, <1>2, <2>1
    <2>2. CASE q # r.quote
      BY <1>3, <1>4, <1>5, <2>2 DEF PiNeedsApproval, ExecutedStay
    <2>3. QED
      BY <2>1, <2>2
  <1>6. QED
    BY <1>5 DEF PiNeedsApproval

\* Whatever the step, every PI has its approval.
LEMMA StepPi ==
  ASSUME TypeOK, RequestOK, SerialInv, PerformedOnce, PiNeedsApproval, NEW w \in Workers,
         Agent(w) \/ Seller(w) \/ Queue(w) \/ Abort(w) \/ CrashAfterEffect(w)
  PROVE  PiNeedsApproval'
  <1>1. CASE UNCHANGED <<approval, quotation>>
    BY <1>1 DEF PiNeedsApproval
  <1>2. ASSUME UNCHANGED approval, NoNewPi
        PROVE  PiNeedsApproval'
    BY <1>2, PiStays DEF ExecutedStay
  <1>3. CASE Agent(w)
    <2>1. CASE \/ BeginSendMessage(w) \/ SendAutomatically(w)
               \/ BeginRequestHandoff(w) \/ BeginGeneratePi(w)
      BY <1>1, <2>1
      DEF BeginSendMessage, SendAutomatically, BeginRequestHandoff, BeginGeneratePi, Begin, rows
    <2>2. CASE ParkMessage(w) \/ RequestHandoff(w) \/ GeneratePi(w)
      <3>1. ExecutedStay
        BY <2>2, ParkStays DEF ParkMessage, RequestHandoff, GeneratePi
      <3>2. NoNewPi
        BY <2>2 DEF ParkMessage, RequestHandoff, GeneratePi, NoNewPi
      <3>3. QED
        BY <3>1, <3>2, PiStays
    <2>3. CASE CalcQuote(w)
      <3>1. PICK q \in Quotations, c \in Conversations, floor \in BOOLEAN :
              quotation' = [quotation EXCEPT ![q] = [NoQuotation EXCEPT !.conv = c,
                                                                        !.hitsFloor = floor]]
        BY <2>3 DEF CalcQuote
      <3>2. ~[NoQuotation EXCEPT !.conv = c, !.hitsFloor = floor].isPi
        BY DEF NoQuotation
      <3>3. NoNewPi
        BY <3>1, <3>2 DEF NoNewPi, TypeOK
      <3>4. QED
        BY <1>2, <2>3, <3>3 DEF CalcQuote
    <2>4. QED
      BY <1>3, <2>1, <2>2, <2>3 DEF Agent
  <1>4. CASE Seller(w)
    <2>1. CASE \/ BeginSendQuotation(w) \/ BeginCreateMessage(w) \/ CreateMessage(w)
               \/ SetTakeover(w) \/ PatchInquiry(w) \/ UpdateNotification(w)
      BY <1>1, <2>1
      DEF BeginSendQuotation, BeginCreateMessage, CreateMessage, SetTakeover, PatchInquiry,
          UpdateNotification, Begin, rows
    <2>2. CASE PatchQuotation(w)
      <3>1. PICK q \in Quotations, floor \in BOOLEAN, s \in {"draft", "sent"}, t \in Text :
              quotation' = [quotation EXCEPT ![q].hitsFloor = floor, ![q].status = s, ![q].text = t]
        BY <2>2 DEF PatchQuotation
      <3>2. quotation'[q].isPi = quotation[q].isPi
        BY <3>1 DEF TypeOK, QuotationRow
      <3>3. \A p \in Quotations : p # q => quotation'[p] = quotation[p]
        BY <3>1 DEF TypeOK
      <3>4. NoNewPi
        BY <3>2, <3>3 DEF NoNewPi
      <3>5. QED
        BY <1>2, <2>2, <3>4 DEF PatchQuotation
    <2>3. CASE SendQuotation(w)
      <3>1. NoNewPi
        BY <2>3, SentIsNoPi DEF SendQuotation
      <3>2. QED
        BY <1>2, <2>3, <3>1 DEF SendQuotation
    <2>4. CASE ParkQuotation(w)
      <3>1. ExecutedStay /\ NoNewPi
        BY <2>4, ParkStays DEF ParkQuotation, NoNewPi
      <3>2. QED
        BY <3>1, PiStays
    <2>5. QED
      BY <1>4, <2>1, <2>2, <2>3, <2>4 DEF Seller
  <1>5. CASE Queue(w)
    <2>1. CASE \E op \in {"approve", "reject", "patch"} : BeginDecision(w, op)
      BY <1>1, <2>1 DEF BeginDecision, ReadForDecision, Begin, rows
    <2>2. CASE ApproveMessage(w) \/ ApproveQuotation(w) \/ ApproveHandoff(w)
      <3>1. ExecutedStay
        BY <2>2, DecisionStays DEF ApproveMessage, ApproveQuotation, ApproveHandoff
      <3>2. NoNewPi
        BY <2>2, SentIsNoPi DEF ApproveMessage, ApproveQuotation, ApproveHandoff, NoNewPi
      <3>3. QED
        BY <3>1, <3>2, PiStays
    <2>3. CASE ApprovePi(w)
      BY <2>3, ApprovePiKeeps
    <2>4. CASE Reject(w) \/ PatchApproval(w)
      <3>1. ExecutedStay
        BY <2>4, DecisionStays DEF Reject, PatchApproval
      <3>2. NoNewPi
        BY <2>4 DEF Reject, PatchApproval, NoNewPi
      <3>3. QED
        BY <3>1, <3>2, PiStays
    <2>5. QED
      BY <1>5, <2>1, <2>2, <2>3, <2>4 DEF Queue
  <1>6. CASE Abort(w) \/ CrashAfterEffect(w)
    BY <1>1, <1>6 DEF Abort, CrashAfterEffect, rows
  <1>7. QED
    BY <1>3, <1>4, <1>5, <1>6

\* With one worker, a quotation is a formal PI only after the approval that names it.
THEOREM PiAfterApproval ==
  ASSUME NEW only, Workers = {only}
  PROVE  Spec => []PiNeedsApproval
  <1>1. Init => PiNeedsApproval
    BY DEF Init, PiNeedsApproval, NoQuotation
  <1>2. /\ TypeOK /\ RequestOK /\ SerialInv /\ PerformedOnce /\ PiNeedsApproval /\ [Next]_vars
        => PiNeedsApproval'
    <2>1. ASSUME PiNeedsApproval, UNCHANGED vars
          PROVE  PiNeedsApproval'
      BY <2>1 DEF PiNeedsApproval, vars
    <2>2. QED
      BY <2>1, StepPi DEF Next
  <1>3. QED
    BY <1>1, <1>2, TypeCorrect, ReadsStayTrue, PerformedExactlyOnce, PTL DEF Spec
=============================================================================
