--------------------------- MODULE ApprovalsProofs ---------------------------
(***************************************************************************)
(* Theorems about Approvals for every set of conversations, approvals,     *)
(* quotations and workers.                                                 *)
(***************************************************************************)
EXTENDS Approvals, FiniteSetTheorems, TLAPS

\* Every handler in progress holds the keys of the rows it works on.
RequestOK ==
  \A w \in Workers :
    /\ request[w].op \in {"send_message", "request_handoff", "generate_pi", "send_quotation",
                          "approve", "create_message"} => request[w].conv \in Conversations
    /\ request[w].op \in {"approve", "reject", "patch"} => request[w].appr \in ApprovalIds
    /\ request[w].op \in {"generate_pi", "send_quotation"} => request[w].quote \in Quotations

\* The columns a handler reads have the types of the table.
LEMMA SeenNowType ==
  ASSUME TypeOK,
         NEW c \in Conversations \cup {NoId}, NEW a \in ApprovalIds \cup {NoId},
         NEW q \in Quotations \cup {NoId}
  PROVE  SeenNow(c, a, q) \in Snapshot
  BY DEF TypeOK, SeenNow, Snapshot, ApprovalRow, QuotationRow, InquiryStatus, Text

\* Reading rows changes nothing but the worker's own state.
LEMMA BeginType ==
  ASSUME TypeOK, NEW w \in Workers, NEW op \in Operations,
         NEW c \in Conversations \cup {NoId}, NEW a \in ApprovalIds \cup {NoId},
         NEW q \in Quotations \cup {NoId}, NEW risky \in BOOLEAN,
         Begin(w, op, c, a, q, risky)
  PROVE  TypeOK'
  <1>1. SeenNow(c, a, q) \in Snapshot
    BY SeenNowType
  <1>2. request' \in [Workers -> Request]
    BY <1>1 DEF Begin, TypeOK, Request
  <1>3. QED
    BY <1>2 DEF Begin, TypeOK, rows, history

\* A worker that is done is idle.
LEMMA EndType ==
  ASSUME TypeOK, NoIdAssumption, NEW w \in Workers, End(w)
  PROVE  request' \in [Workers -> Request]
  BY DEF TypeOK, End, Idle, Request, Nothing, Snapshot, Operations, InquiryStatus, Text

\* What goes on the wire is a message.
LEMMA TransmitType ==
  ASSUME TypeOK, NEW w \in Workers, request[w].conv \in Conversations,
         NEW cause \in {"auto", "approval", "quotation", "human"}, Transmit(w, cause)
  PROVE  wire' \in Message
  BY DEF TypeOK, Transmit, Message, Request, QuotationRow

\* Parking an action writes rows of the table's types.
LEMMA ParkType ==
  ASSUME TypeOK, NEW w \in Workers, NEW type \in ApprovalTypes, Park(w, type)
  PROVE  /\ takeover' \in [Conversations -> BOOLEAN]
         /\ approval' \in [ApprovalIds -> ApprovalRow]
         /\ notice' \in [ApprovalIds -> NoticeStatus \cup {"none"}]
  <1>1. request[w] \in Request
    BY DEF TypeOK
  <1>2. PICK a \in ApprovalIds :
          /\ approval' = [approval EXCEPT ![a] =
                            [type |-> type, conv |-> request[w].conv,
                             quote |-> request[w].quote, status |-> "pending",
                             executed |-> FALSE,
                             suggestion |-> IF type = "quotation_send"
                                            THEN request[w].seen.text ELSE "draft",
                             content |-> IF type = "message_send" THEN "draft" ELSE NoText]]
          /\ notice' = [notice EXCEPT ![a] = "unread"]
    BY DEF Park
  <1> DEFINE s == IF type = "quotation_send" THEN request[w].seen.text ELSE "draft"
             c == IF type = "message_send" THEN "draft" ELSE NoText
  <1>3. [type |-> type, conv |-> request[w].conv, quote |-> request[w].quote,
         status |-> "pending", executed |-> FALSE,
         suggestion |-> s, content |-> c] \in ApprovalRow
    <2>1. s \in Text /\ c \in Text \cup {NoText}
      BY <1>1 DEF Request, Snapshot, Text
    <2> HIDE DEF s, c
    <2>2. QED
      BY <1>1, <2>1 DEF Request, ApprovalRow, ApprovalStatus
  <1>4. approval' \in [ApprovalIds -> ApprovalRow]
    BY <1>2, <1>3 DEF TypeOK
  <1>5. notice' \in [ApprovalIds -> NoticeStatus \cup {"none"}]
    BY <1>2 DEF TypeOK, NoticeStatus
  <1>6. takeover' \in [Conversations -> BOOLEAN]
    <2>1. request[w].seen.takeover \in BOOLEAN
      BY <1>1 DEF Request, Snapshot
    <2>2. \A current \in BOOLEAN : Put(request[w].seen.takeover, TRUE, current) \in BOOLEAN
      BY DEF Put
    <2>3. QED
      BY <2>2 DEF Park, TypeOK
  <1>7. QED
    BY <1>4, <1>5, <1>6

\* So does marking the inquiry.
LEMMA MarkType ==
  ASSUME TypeOK, NEW w \in Workers, MarkPendingApproval(w)
  PROVE  inquiry' \in [Conversations -> InquiryStatus]
  BY DEF TypeOK, MarkPendingApproval, Put, InquiryStatus

\* And marking a quotation as sent.
LEMMA MarkSentType ==
  ASSUME TypeOK, NEW w \in Workers, NEW q,
         quotation' = [quotation EXCEPT ![q].status = Put(request[w].seen.quoteStatus, "sent", @)]
  PROVE  quotation' \in [Quotations -> QuotationRow]
  <1> DEFINE s == Put(request[w].seen.quoteStatus, "sent", quotation[q].status)
             row == [quotation[q] EXCEPT !.status = s]
  <1>1. CASE q \in Quotations
    <2>1. quotation[q] \in QuotationRow
      BY <1>1 DEF TypeOK
    <2>2. s \in {"draft", "sent"}
      BY <2>1 DEF QuotationRow, Put
    <2>3. quotation' = [quotation EXCEPT ![q] = row]
      BY <1>1 DEF TypeOK, QuotationRow
    <2> HIDE DEF s
    <2>4. row \in QuotationRow
      BY <2>1, <2>2 DEF QuotationRow
    <2> HIDE DEF row
    <2>5. QED
      BY <2>3, <2>4 DEF TypeOK
  <1>2. CASE q \notin Quotations
    BY <1>2 DEF TypeOK
  <1>3. QED
    BY <1>1, <1>2

\* A worker that is done holds no keys, the others keep theirs.
LEMMA EndKeys ==
  ASSUME TypeOK, RequestOK, NEW w \in Workers, End(w)
  PROVE  RequestOK'
  <1> SUFFICES ASSUME NEW v \in Workers
               PROVE  request'[v] = Idle \/ request'[v] = request[v]
    BY DEF RequestOK, Idle
  <1> QED
    BY DEF End, TypeOK

\* Steps of the agent preserve the typing.
LEMMA AgentType ==
  ASSUME TypeOK, RequestOK, NoIdAssumption, NEW w \in Workers, Agent(w)
  PROVE  TypeOK' /\ RequestOK'
  <1>1. CASE BeginSendMessage(w)
    <2>1. PICK c \in Conversations, risky \in BOOLEAN :
            Begin(w, "send_message", c, NoId, NoId, risky)
      BY <1>1 DEF BeginSendMessage
    <2>2. TypeOK'
      BY <2>1, BeginType DEF Operations
    <2>3. RequestOK'
      BY <2>1 DEF Begin, RequestOK, TypeOK
    <2>4. QED
      BY <2>2, <2>3
  <1>2. CASE SendAutomatically(w)
    <2>1. request' \in [Workers -> Request] /\ RequestOK'
      BY <1>2, EndType, EndKeys DEF SendAutomatically
    <2>2. wire' \in Message
      BY <1>2, TransmitType DEF SendAutomatically, RequestOK
    <2>3. QED
      BY <1>2, <2>1, <2>2 DEF SendAutomatically, TypeOK, rows, history
  <1>3. CASE ParkMessage(w)
    BY <1>3, EndType, EndKeys, ParkType, MarkType
    DEF ParkMessage, TypeOK, ApprovalTypes, history
  <1>4. CASE BeginRequestHandoff(w)
    <2>1. PICK c \in Conversations : Begin(w, "request_handoff", c, NoId, NoId, FALSE)
      BY <1>4 DEF BeginRequestHandoff
    <2>2. TypeOK'
      BY <2>1, BeginType DEF Operations
    <2>3. RequestOK'
      BY <2>1 DEF Begin, RequestOK, TypeOK
    <2>4. QED
      BY <2>2, <2>3
  <1>5. CASE RequestHandoff(w)
    BY <1>5, EndType, EndKeys, ParkType, MarkType
    DEF RequestHandoff, TypeOK, ApprovalTypes, history
  <1>6. CASE BeginGeneratePi(w)
    <2>1. PICK q \in Quotations :
            /\ quotation[q].conv # NoId
            /\ Begin(w, "generate_pi", quotation[q].conv, NoId, q, FALSE)
      BY <1>6 DEF BeginGeneratePi
    <2>2. quotation[q].conv \in Conversations
      BY <2>1 DEF TypeOK, QuotationRow
    <2>3. TypeOK'
      BY <2>1, <2>2, BeginType DEF Operations
    <2>4. RequestOK'
      BY <2>1, <2>2 DEF Begin, RequestOK, TypeOK
    <2>5. QED
      BY <2>3, <2>4
  <1>7. CASE GeneratePi(w)
    BY <1>7, EndType, EndKeys, ParkType DEF GeneratePi, TypeOK, ApprovalTypes, history
  <1>8. CASE CalcQuote(w)
    <2>1. PICK q \in Quotations, c \in Conversations, floor \in BOOLEAN :
            quotation' = [quotation EXCEPT ![q] = [NoQuotation EXCEPT !.conv = c,
                                                                      !.hitsFloor = floor]]
      BY <1>8 DEF CalcQuote
    <2>2. [NoQuotation EXCEPT !.conv = c, !.hitsFloor = floor] \in QuotationRow
      BY DEF NoQuotation, QuotationRow, Text
    <2>3. quotation' \in [Quotations -> QuotationRow]
      BY <2>1, <2>2 DEF TypeOK
    <2>4. QED
      BY <1>8, <2>3 DEF CalcQuote, TypeOK, RequestOK, history
  <1>9. QED
    BY <1>1, <1>2, <1>3, <1>4, <1>5, <1>6, <1>7, <1>8 DEF Agent

\* So do the seller's.
LEMMA SellerType ==
  ASSUME TypeOK, RequestOK, NoIdAssumption, NEW w \in Workers, Seller(w)
  PROVE  TypeOK' /\ RequestOK'
  <1>1. CASE PatchQuotation(w)
    <2>1. PICK q \in Quotations, floor \in BOOLEAN, s \in {"draft", "sent"}, t \in Text :
            quotation' = [quotation EXCEPT ![q].hitsFloor = floor, ![q].status = s,
                                           ![q].text = t]
      BY <1>1 DEF PatchQuotation
    <2>2. [quotation[q] EXCEPT !.hitsFloor = floor, !.status = s, !.text = t] \in QuotationRow
      <3>1. quotation[q] \in QuotationRow
        BY DEF TypeOK
      <3>2. QED
        BY <3>1 DEF QuotationRow
    <2>3. quotation' = [quotation EXCEPT
                          ![q] = [quotation[q] EXCEPT !.hitsFloor = floor, !.status = s, !.text = t]]
      BY <2>1 DEF TypeOK, QuotationRow
    <2>4. quotation' \in [Quotations -> QuotationRow]
      BY <2>2, <2>3 DEF TypeOK
    <2>5. QED
      BY <1>1, <2>4 DEF PatchQuotation, TypeOK, RequestOK, history
  <1>2. CASE BeginSendQuotation(w)
    <2>1. PICK q \in Quotations :
            /\ quotation[q].conv # NoId
            /\ Begin(w, "send_quotation", quotation[q].conv, NoId, q, FALSE)
      BY <1>2 DEF BeginSendQuotation
    <2>2. quotation[q].conv \in Conversations
      BY <2>1 DEF TypeOK, QuotationRow
    <2>3. TypeOK'
      BY <2>1, <2>2, BeginType DEF Operations
    <2>4. RequestOK'
      BY <2>1, <2>2 DEF Begin, RequestOK, TypeOK
    <2>5. QED
      BY <2>3, <2>4
  <1>3. CASE SendQuotation(w)
    <2>1. request' \in [Workers -> Request] /\ RequestOK'
      BY <1>3, EndType, EndKeys DEF SendQuotation
    <2>2. wire' \in Message
      BY <1>3, TransmitType DEF SendQuotation, RequestOK
    <2>3. quotation' \in [Quotations -> QuotationRow]
      BY <1>3, MarkSentType DEF SendQuotation
    <2>4. QED
      BY <1>3, <2>1, <2>2, <2>3 DEF SendQuotation, TypeOK, history
  <1>4. CASE ParkQuotation(w)
    BY <1>4, EndType, EndKeys, ParkType, MarkType
    DEF ParkQuotation, TypeOK, ApprovalTypes, history
  <1>5. CASE BeginCreateMessage(w)
    <2>1. PICK c \in Conversations : Begin(w, "create_message", c, NoId, NoId, FALSE)
      BY <1>5 DEF BeginCreateMessage
    <2>2. TypeOK'
      BY <2>1, BeginType DEF Operations
    <2>3. RequestOK'
      BY <2>1 DEF Begin, RequestOK, TypeOK
    <2>4. QED
      BY <2>2, <2>3
  <1>6. CASE CreateMessage(w)
    <2>1. request' \in [Workers -> Request] /\ RequestOK'
      BY <1>6, EndType, EndKeys DEF CreateMessage
    <2>2. wire' \in Message
      BY <1>6, TransmitType DEF CreateMessage, RequestOK
    <2>3. QED
      BY <1>6, <2>1, <2>2 DEF CreateMessage, TypeOK, rows, history
  <1>7. CASE SetTakeover(w)
    BY <1>7 DEF SetTakeover, TypeOK, RequestOK, history
  <1>8. CASE PatchInquiry(w)
    BY <1>8 DEF PatchInquiry, TypeOK, RequestOK, history
  <1>9. CASE UpdateNotification(w)
    BY <1>9 DEF UpdateNotification, TypeOK, RequestOK, history
  <1>10. QED
    BY <1>1, <1>2, <1>3, <1>4, <1>5, <1>6, <1>7, <1>8, <1>9 DEF Seller

\* Reading a row of the queue keeps the typing.
LEMMA DecisionType ==
  ASSUME TypeOK, RequestOK, NoIdAssumption, NEW w \in Workers,
         NEW op \in {"approve", "reject", "patch"}, BeginDecision(w, op)
  PROVE  TypeOK' /\ RequestOK'
  <1>1. PICK a \in ApprovalIds : ReadForDecision(w, op, a)
    BY DEF BeginDecision
  <1> DEFINE c == IF op = "approve" THEN ApprovalConversation(a) ELSE NoId
             q == approval[a].quote
  <1>2. /\ Begin(w, op, c, a, q, FALSE)
        /\ op = "approve" => c # NoId
    BY <1>1 DEF ReadForDecision
  <1>3. q \in Quotations \cup {NoId}
    BY DEF TypeOK, ApprovalRow
  <1>4. c \in Conversations \cup {NoId}
    BY <1>3 DEF ApprovalConversation, TypeOK, ApprovalRow, QuotationRow
  <1> HIDE DEF c, q
  <1>5. TypeOK'
    <2>1. op \in Operations /\ a \in ApprovalIds \cup {NoId} /\ FALSE \in BOOLEAN
      BY DEF Operations
    <2>2. QED
      BY <1>2, <1>3, <1>4, <2>1, BeginType
  <1>6. RequestOK'
    BY <1>2, <1>3, <1>4 DEF Begin, RequestOK, TypeOK
  <1>7. QED
    BY <1>5, <1>6

\* The history of a performance is of its types.
LEMMA PerformedType ==
  ASSUME TypeOK, RequestOK, NEW w \in Workers, Performed(w), request[w].op = "approve"
  PROVE  /\ performed' \in [ApprovalIds -> Nat]
         /\ sent' \in [ApprovalIds -> Text \cup {NoText}]
  <1> DEFINE a == request[w].appr
             out == Outgoing(request[w].seen, approval[a].type)
  <1>1. a \in ApprovalIds
    BY DEF RequestOK
  <1>2. out \in Text \cup {NoText}
    <2>1. request[w].seen \in Snapshot
      BY DEF TypeOK, Request
    <2>2. /\ request[w].seen.text \in Text /\ request[w].seen.suggestion \in Text
          /\ request[w].seen.content \in Text \cup {NoText}
      BY <2>1 DEF Snapshot
    <2>3. QED
      BY <2>2 DEF Outgoing
  <1>3. sent' = [sent EXCEPT ![a] = out]
    BY DEF Performed
  <1> HIDE DEF out
  <1>4. QED
    BY <1>1, <1>2, <1>3 DEF Performed, TypeOK

\* Carrying out an approval writes rows of the table's types.
LEMMA ApprovedType ==
  ASSUME TypeOK, RequestOK, NoIdAssumption, NEW w \in Workers, Approved(w),
         request[w].op = "approve"
  PROVE  /\ approval' \in [ApprovalIds -> ApprovalRow]
         /\ notice' \in [ApprovalIds -> NoticeStatus \cup {"none"}]
         /\ performed' \in [ApprovalIds -> Nat]
         /\ lost' \in [ApprovalIds -> Nat]
         /\ sent' \in [ApprovalIds -> Text \cup {NoText}]
         /\ request' \in [Workers -> Request]
         /\ RequestOK'
  <1> DEFINE a == request[w].appr
  <1>1. a \in ApprovalIds
    BY DEF RequestOK
  <1>2. [approval[a] EXCEPT !.status = "approved", !.executed = TRUE] \in ApprovalRow
    <2>1. approval[a] \in ApprovalRow
      BY <1>1 DEF TypeOK
    <2>2. QED
      BY <2>1 DEF ApprovalRow, ApprovalStatus
  <1>3. approval' = [approval EXCEPT
                       ![a] = [approval[a] EXCEPT !.status = "approved", !.executed = TRUE]]
    BY <1>1 DEF Approved, TypeOK, ApprovalRow
  <1>4. approval' \in [ApprovalIds -> ApprovalRow]
    BY <1>2, <1>3 DEF TypeOK
  <1>5. notice' \in [ApprovalIds -> NoticeStatus \cup {"none"}]
    BY <1>1 DEF Approved, TypeOK, NoticeStatus
  <1>6. /\ performed' \in [ApprovalIds -> Nat] /\ lost' \in [ApprovalIds -> Nat]
        /\ sent' \in [ApprovalIds -> Text \cup {NoText}]
    BY PerformedType DEF Approved, TypeOK
  <1>7. request' \in [Workers -> Request] /\ RequestOK'
    BY EndType, EndKeys DEF Approved
  <1>8. QED
    BY <1>4, <1>5, <1>6, <1>7

\* So does rejecting one,
LEMMA RejectType ==
  ASSUME TypeOK, RequestOK, NoIdAssumption, NEW w \in Workers, Reject(w)
  PROVE  TypeOK' /\ RequestOK'
  <1> DEFINE r == request[w]
             a == request[w].appr
  <1>1. a \in ApprovalIds /\ r \in Request
    BY DEF Reject, RequestOK, TypeOK
  <1>2. PICK reason \in BOOLEAN :
          approval' = [approval EXCEPT ![a].status = "rejected",
                         ![a].content = IF reason THEN r.seen.content ELSE @,
                         ![a].quote = IF reason THEN r.quote ELSE @]
    BY DEF Reject
  <1> DEFINE row == [approval[a] EXCEPT !.status = "rejected",
                       !.content = IF reason THEN r.seen.content ELSE @,
                       !.quote = IF reason THEN r.quote ELSE @]
  <1>3. row \in ApprovalRow
    <2>1. approval[a] \in ApprovalRow
      BY <1>1 DEF TypeOK
    <2>2. r.seen.content \in Text \cup {NoText} /\ r.quote \in Quotations \cup {NoId}
      BY <1>1 DEF Request, Snapshot
    <2> DEFINE p == IF reason THEN r.seen.content ELSE approval[a].content
               q == IF reason THEN r.quote ELSE approval[a].quote
    <2>3. p \in Text \cup {NoText} /\ q \in Quotations \cup {NoId}
      BY <2>1, <2>2 DEF ApprovalRow
    <2>4. row = [approval[a] EXCEPT !.status = "rejected", !.content = p, !.quote = q]
      BY <2>1 DEF ApprovalRow
    <2> HIDE DEF p, q, row
    <2>5. QED
      BY <2>1, <2>3, <2>4 DEF ApprovalRow, ApprovalStatus
  <1>4. approval' = [approval EXCEPT ![a] = row]
    BY <1>1, <1>2 DEF TypeOK, ApprovalRow
  <1>5. approval' \in [ApprovalIds -> ApprovalRow]
    BY <1>3, <1>4 DEF TypeOK
  <1>6. notice' \in [ApprovalIds -> NoticeStatus \cup {"none"}]
    BY <1>1 DEF Reject, TypeOK, NoticeStatus
  <1>7. request' \in [Workers -> Request] /\ RequestOK'
    BY EndType, EndKeys DEF Reject
  <1>8. QED
    BY <1>5, <1>6, <1>7 DEF Reject, TypeOK, history

\* and editing one: three columns of the row it read get values of their types.
LEMMA PatchedRow ==
  ASSUME TypeOK, RequestOK, NEW w \in Workers, PatchApproval(w)
  PROVE  \E s \in Text, c \in Text \cup {NoText}, q \in Quotations \cup {NoId} :
           LET a == request[w].appr IN
           approval' = [approval EXCEPT ![a].suggestion = s, ![a].content = c, ![a].quote = q]
  <1> DEFINE a == request[w].appr
  <1>1. approval[a] \in ApprovalRow
    BY DEF PatchApproval, RequestOK, TypeOK
  <1>2. PICK s \in Suggestions(approval[a].type), payload \in BOOLEAN,
             c \in Contents(approval[a].type), q \in Quotations \cup {NoId} :
          /\ (q = NoId) = (request[w].quote = NoId)
          /\ approval' = [approval EXCEPT
                            ![a].suggestion = Put(request[w].seen.suggestion, s, @),
                            ![a].content = IF payload THEN c ELSE @,
                            ![a].quote = IF payload THEN q ELSE @]
    BY Zenon DEF PatchApproval
  <1>3. s \in Text /\ c \in Text \cup {NoText}
    BY DEF Suggestions, Contents, Text
  <1> DEFINE sugg == Put(request[w].seen.suggestion, s, approval[a].suggestion)
             cont == IF payload THEN c ELSE approval[a].content
             key == IF payload THEN q ELSE approval[a].quote
  <1>4. sugg \in Text
    BY <1>1, <1>3 DEF ApprovalRow, Put
  <1>5. cont \in Text \cup {NoText} /\ key \in Quotations \cup {NoId}
    BY <1>1, <1>3 DEF ApprovalRow
  <1>6. approval' = [approval EXCEPT ![a].suggestion = sugg, ![a].content = cont, ![a].quote = key]
    <2>1. a \in ApprovalIds
      BY DEF PatchApproval, RequestOK
    <2>2. QED
      BY <1>1, <1>2, <2>1 DEF TypeOK, ApprovalRow
  <1> HIDE DEF sugg, cont, key
  <1>7. QED
    BY <1>4, <1>5, <1>6

\* So the row stays a row.
LEMMA PatchType ==
  ASSUME TypeOK, RequestOK, NEW w \in Workers, NoIdAssumption, PatchApproval(w)
  PROVE  TypeOK' /\ RequestOK'
  <1> DEFINE a == request[w].appr
  <1>1. a \in ApprovalIds
    BY DEF PatchApproval, RequestOK
  <1>2. PICK s \in Text, c \in Text \cup {NoText}, q \in Quotations \cup {NoId} :
          approval' = [approval EXCEPT ![a].suggestion = s, ![a].content = c, ![a].quote = q]
    BY PatchedRow
  <1> DEFINE row == [approval[a] EXCEPT !.suggestion = s, !.content = c, !.quote = q]
  <1>3. row \in ApprovalRow
    <2>1. approval[a] \in ApprovalRow
      BY <1>1 DEF TypeOK
    <2>2. QED
      BY <2>1 DEF ApprovalRow
  <1>4. approval' = [approval EXCEPT ![a] = row]
    BY <1>1, <1>2 DEF TypeOK, ApprovalRow
  <1>5. approval' \in [ApprovalIds -> ApprovalRow]
    BY <1>3, <1>4 DEF TypeOK
  <1>6. request' \in [Workers -> Request] /\ RequestOK'
    BY EndType, EndKeys DEF PatchApproval
  <1>7. QED
    BY <1>5, <1>6 DEF PatchApproval, TypeOK, history

\* Steps of the approval queue preserve the typing.
LEMMA QueueType ==
  ASSUME TypeOK, RequestOK, NoIdAssumption, NEW w \in Workers, Queue(w)
  PROVE  TypeOK' /\ RequestOK'
  <1>1. CASE \E op \in {"approve", "reject", "patch"} : BeginDecision(w, op)
    BY <1>1, DecisionType
  <1>2. CASE ApproveMessage(w)
    <2>1. request[w] \in Request /\ request[w].conv \in Conversations
      BY <1>2 DEF ApproveMessage, RequestOK, TypeOK
    <2>2. wire' \in Message
      BY <1>2, <2>1, TransmitType DEF ApproveMessage
    <2>3. takeover' \in [Conversations -> BOOLEAN]
      <3>1. \A current \in BOOLEAN : Put(request[w].seen.takeover, FALSE, current) \in BOOLEAN
        BY DEF Put
      <3>2. QED
        BY <1>2, <3>1 DEF ApproveMessage, TypeOK
    <2>4. inquiry' \in [Conversations -> InquiryStatus]
      BY <1>2 DEF ApproveMessage, Put, TypeOK, InquiryStatus
    <2>5. QED
      BY <1>2, <2>2, <2>3, <2>4, ApprovedType DEF ApproveMessage, TypeOK
  <1>3. CASE ApproveQuotation(w)
    <2>1. wire' \in Message
      BY <1>3, TransmitType DEF ApproveQuotation, RequestOK
    <2>2. quotation' \in [Quotations -> QuotationRow]
      BY <1>3, MarkSentType DEF ApproveQuotation
    <2>3. QED
      BY <1>3, <2>1, <2>2, ApprovedType DEF ApproveQuotation, TypeOK
  <1>4. CASE ApprovePi(w)
    <2> DEFINE q == request[w].quote
    <2>1. PICK t \in {request[w].seen.text, quotation[q].text} :
            quotation' = [quotation EXCEPT ![q].isPi = TRUE, ![q].text = t]
      BY <1>4 DEF ApprovePi
    <2>2. quotation' \in [Quotations -> QuotationRow]
      <3>1. CASE q \in Quotations
        <4>1. quotation[q] \in QuotationRow
          BY <3>1 DEF TypeOK
        <4>2. t \in Text
          BY <4>1 DEF TypeOK, Request, Snapshot, QuotationRow
        <4>3. [quotation[q] EXCEPT !.isPi = TRUE, !.text = t] \in QuotationRow
          BY <4>1, <4>2 DEF QuotationRow
        <4>4. quotation' = [quotation EXCEPT ![q] = [quotation[q] EXCEPT !.isPi = TRUE, !.text = t]]
          BY <2>1, <3>1 DEF TypeOK, QuotationRow
        <4>5. QED
          BY <4>3, <4>4 DEF TypeOK
      <3>2. CASE q \notin Quotations
        BY <2>1, <3>2 DEF TypeOK
      <3>3. QED
        BY <3>1, <3>2
    <2>3. QED
      BY <1>4, <2>2, ApprovedType DEF ApprovePi, TypeOK
  <1>5. CASE ApproveHandoff(w)
    BY <1>5, ApprovedType DEF ApproveHandoff, TypeOK
  <1>6. CASE Reject(w)
    BY <1>6, RejectType
  <1>7. CASE PatchApproval(w)
    BY <1>7, PatchType
  <1>8. QED
    BY <1>1, <1>2, <1>3, <1>4, <1>5, <1>6, <1>7 DEF Queue

\* Type correctness: whatever the interleaving of requests, every column of
\* every table, and every request's snapshot, stays within its declared values.
THEOREM TypeCorrect == Spec => [](TypeOK /\ RequestOK)
  <1>1. Init => TypeOK /\ RequestOK
    <2> SUFFICES ASSUME Init PROVE TypeOK /\ RequestOK
      OBVIOUS
    <2>1. Idle \in Request
      BY DEF Idle, Request, Nothing, Snapshot, Operations, InquiryStatus, Text
    <2>2. NoApproval \in ApprovalRow /\ NoQuotation \in QuotationRow
      BY DEF NoApproval, ApprovalRow, ApprovalTypes, ApprovalStatus, Text,
             NoQuotation, QuotationRow
    <2>3. TypeOK
      BY <2>1, <2>2 DEF Init, TypeOK, InquiryStatus
    <2>4. RequestOK
      BY DEF Init, RequestOK, Idle
    <2>5. QED
      BY <2>3, <2>4
  <1>2. TypeOK /\ RequestOK /\ [Next]_vars => (TypeOK /\ RequestOK)'
    <2> SUFFICES ASSUME TypeOK, RequestOK, [Next]_vars
                 PROVE  TypeOK' /\ RequestOK'
      OBVIOUS
    <2>1. CASE UNCHANGED vars
      BY <2>1 DEF vars, TypeOK, RequestOK
    <2>2. ASSUME NEW w \in Workers, Abort(w)
          PROVE  TypeOK' /\ RequestOK'
      BY <2>2, EndType, EndKeys, NoIdAssumption DEF Abort, TypeOK, rows, history
    <2>3. ASSUME NEW w \in Workers, CrashAfterEffect(w)
          PROVE  TypeOK' /\ RequestOK'
      <3>1. request[w].appr \in ApprovalIds /\ request[w].conv \in Conversations
        BY <2>3 DEF CrashAfterEffect, RequestOK
      <3>2. request' \in [Workers -> Request] /\ RequestOK'
        BY <2>3, EndType, EndKeys, NoIdAssumption DEF CrashAfterEffect
      <3>3. wire' \in Message \cup {Silent}
        BY <2>3, <3>1, TransmitType DEF CrashAfterEffect
      <3>4. /\ performed' \in [ApprovalIds -> Nat] /\ lost' \in [ApprovalIds -> Nat]
            /\ sent' \in [ApprovalIds -> Text \cup {NoText}]
        BY <2>3, <3>1, PerformedType DEF CrashAfterEffect, TypeOK
      <3>5. QED
        BY <2>3, <3>2, <3>3, <3>4 DEF CrashAfterEffect, TypeOK, rows
    <2>4. QED
      BY <2>1, <2>2, <2>3, AgentType, SellerType, QueueType, NoIdAssumption DEF Next
  <1>3. QED
    BY <1>1, <1>2, PTL DEF Spec
=============================================================================
