------------------------------ MODULE Approvals ------------------------------
(***************************************************************************)
(* The guarded path by which anything leaves the workbench for a customer: *)
(* the outbound guardrail, human takeover, the approval queue with its      *)
(* notifications, the approval executor and the quotations they act on.    *)
(*                                                                         *)
(* Every HTTP request and agent tool call is one database transaction run  *)
(* by a thread of the pool (a worker).  database.py opens the session with *)
(* autoflush off on SQLite and takes no row lock: the SELECTs of a handler *)
(* see the last commit, its first flush takes the one write lock, and the  *)
(* lock is held to the end.  So a request is two steps: Begin reads rows   *)
(* and passes the handler's guards, Finish (under the lock) performs the   *)
(* external send and applies all the handler's writes at once, on top of   *)
(* whatever was committed since Begin.  SQLAlchemy emits an UPDATE only    *)
(* for a column whose new value differs from the one that was READ: Put.   *)
(***************************************************************************)
EXTENDS Naturals, FiniteSets

CONSTANTS
  Conversations,  \* conversations, each with the one inquiry it was opened for
  ApprovalIds,    \* primary keys of the approval table (bounds the rows)
  Quotations,     \* primary keys of the quotation table (bounds the rows)
  Workers,        \* requests that may be in progress at the same time
  MaxLost,        \* bound: sends per approval whose transaction never commits
  Edits,          \* what a person may make of a text
  NoId            \* null foreign key

ASSUME MaxLostAssumption == MaxLost \in Nat
ASSUME NoIdAssumption == NoId \notin Conversations \cup ApprovalIds \cup Quotations
ASSUME EditsAssumption == "none" \notin Edits
ASSUME WorkersAssumption == IsFiniteSet(Workers)

VARIABLES
  takeover,   \* Conversation.is_human_takeover
  inquiry,    \* Inquiry.status of the conversation's inquiry
  approval,   \* Approval rows
  notice,     \* Notification.status of the row notify_approval_requested adds
  quotation,  \* Quotation rows
  request,    \* what each worker is doing
  performed,  \* history: times the side effect of an approval left the process
  lost,       \* history: those of them whose transaction was rolled back
  sent,       \* history: the text each approval last sent, if any
  wire        \* the message handed to the channel by this very step, if any

rows == <<takeover, inquiry, approval, notice, quotation>>
history == <<performed, lost, sent>>
vars == <<takeover, inquiry, approval, notice, quotation, request, performed, lost, sent, wire>>

------------------------------------------------------------------------------
ApprovalTypes == {"message_send", "quotation_send", "pi_generate", "handoff"}
ApprovalStatus == {"absent", "pending", "approved", "rejected"}
InquiryStatus == {"new", "pending_approval", "responded"}
NoticeStatus == {"unread", "read", "archived"}
\* A text: as first written, or as a person has edited it since.
Text == {"draft"} \cup Edits
NoText == "none"

\* suggestion: what the queue shows; content: payload.content, read for messages
\* only (of an approval that sends no text both are left as they are).
ApprovalRow == [type: ApprovalTypes, conv: Conversations \cup {NoId},
                quote: Quotations \cup {NoId}, status: ApprovalStatus,
                executed: BOOLEAN, suggestion: Text, content: Text \cup {NoText}]

\* text: what _quote_message makes of the row, its terms.message or its total.
QuotationRow == [conv: Conversations \cup {NoId}, hitsFloor: BOOLEAN,
                 status: {"draft", "sent"}, isPi: BOOLEAN, text: Text]

NoApproval == [type |-> "handoff", conv |-> NoId, quote |-> NoId, status |-> "absent",
               executed |-> FALSE, suggestion |-> "draft", content |-> NoText]
NoQuotation == [conv |-> NoId, hitsFloor |-> FALSE, status |-> "draft", isPi |-> FALSE,
                text |-> "draft"]

\* What a handler keeps in its identity map from its SELECTs.
Snapshot == [takeover: BOOLEAN, inquiry: InquiryStatus,
             suggestion: Text, content: Text \cup {NoText},
             hitsFloor: BOOLEAN, quoteStatus: {"draft", "sent"}, text: Text]
Nothing == [takeover |-> FALSE, inquiry |-> "new",
            suggestion |-> "draft", content |-> NoText,
            hitsFloor |-> FALSE, quoteStatus |-> "draft", text |-> "draft"]

Operations == {"idle", "send_message", "request_handoff", "generate_pi", "send_quotation",
               "approve", "reject", "patch", "create_message"}
Request == [op: Operations, conv: Conversations \cup {NoId}, appr: ApprovalIds \cup {NoId},
            quote: Quotations \cup {NoId}, risky: BOOLEAN, seen: Snapshot]
Idle == [op |-> "idle", conv |-> NoId, appr |-> NoId, quote |-> NoId,
         risky |-> FALSE, seen |-> Nothing]

\* A message on the wire: why it was sent, and the committed state it met.
Message == [cause: {"auto", "approval", "quotation", "human"}, takeover: BOOLEAN,
            risky: BOOLEAN, hitsFloor: BOOLEAN]
Silent == [cause |-> "none"]

TypeOK ==
  /\ takeover \in [Conversations -> BOOLEAN]
  /\ inquiry \in [Conversations -> InquiryStatus]
  /\ approval \in [ApprovalIds -> ApprovalRow]
  /\ notice \in [ApprovalIds -> NoticeStatus \cup {"none"}]
  /\ quotation \in [Quotations -> QuotationRow]
  /\ request \in [Workers -> Request]
  /\ performed \in [ApprovalIds -> Nat]
  /\ lost \in [ApprovalIds -> Nat]
  /\ sent \in [ApprovalIds -> Text \cup {NoText}]
  /\ wire \in Message \cup {Silent}

Init ==
  /\ takeover = [c \in Conversations |-> FALSE]
  /\ inquiry = [c \in Conversations |-> "new"]
  /\ approval = [a \in ApprovalIds |-> NoApproval]
  /\ notice = [a \in ApprovalIds |-> "none"]
  /\ quotation = [q \in Quotations |-> NoQuotation]
  /\ request = [w \in Workers |-> Idle]
  /\ performed = [a \in ApprovalIds |-> 0]
  /\ lost = [a \in ApprovalIds |-> 0]
  /\ sent = [a \in ApprovalIds |-> NoText]
  /\ wire = Silent

------------------------------------------------------------------------------
(* Transactions *)

\* The column after a flush: written only if the value differs from the one read.
Put(seen, new, current) == IF new = seen THEN current ELSE new

SeenNow(c, a, q) ==
  [takeover |-> IF c = NoId THEN FALSE ELSE takeover[c],
   inquiry |-> IF c = NoId THEN "new" ELSE inquiry[c],
   suggestion |-> IF a = NoId THEN "draft" ELSE approval[a].suggestion,
   content |-> IF a = NoId THEN NoText ELSE approval[a].content,
   hitsFloor |-> IF q = NoId THEN FALSE ELSE quotation[q].hitsFloor,
   quoteStatus |-> IF q = NoId THEN "draft" ELSE quotation[q].status,
   text |-> IF q = NoId THEN "draft" ELSE quotation[q].text]

Begin(w, op, c, a, q, risky) ==
  /\ request[w].op = "idle"
  /\ request' = [request EXCEPT ![w] = [op |-> op, conv |-> c, appr |-> a, quote |-> q,
                                        risky |-> risky, seen |-> SeenNow(c, a, q)]]
  /\ wire' = Silent
  /\ UNCHANGED <<rows, history>>

End(w) == request' = [request EXCEPT ![w] = Idle]

\* Mutant of Outgoing: the executor prefers the suggestion to payload.content.
OutgoingSuggestion(seen, type) ==
  CASE type = "message_send" -> seen.suggestion
    [] type = "quotation_send" -> seen.text
    [] OTHER -> NoText

\* The text an approval sends: a message's payload.content, or the suggestion if
\* that is missing; of a quotation what the row says now.
Outgoing(seen, type) ==
  CASE type = "message_send" -> IF seen.content = NoText THEN seen.suggestion ELSE seen.content
    [] type = "quotation_send" -> seen.text
    [] OTHER -> NoText

\* A message put on the wire by worker w.
Transmit(w, cause) ==
  LET r == request[w] IN
  wire' = [cause |-> cause, takeover |-> takeover[r.conv], risky |-> r.risky,
           hitsFloor |-> IF r.quote = NoId THEN FALSE ELSE quotation[r.quote].hitsFloor]

\* The approval row, its notification, and the switch to takeover that every
\* code path that parks an action performs together.  A message is parked with its
\* text twice, a quotation with the text it has now.
Park(w, type) ==
  LET r == request[w] IN
  /\ \E a \in ApprovalIds :
       /\ approval[a].status = "absent"
       /\ approval' = [approval EXCEPT ![a] =
                         [type |-> type, conv |-> r.conv, quote |-> r.quote,
                          status |-> "pending", executed |-> FALSE,
                          suggestion |-> IF type = "quotation_send" THEN r.seen.text ELSE "draft",
                          content |-> IF type = "message_send" THEN "draft" ELSE NoText]]
       /\ notice' = [notice EXCEPT ![a] = "unread"]
  /\ takeover' = [takeover EXCEPT ![r.conv] = Put(r.seen.takeover, TRUE, @)]

MarkPendingApproval(w) ==
  LET r == request[w] IN
  inquiry' = [inquiry EXCEPT ![r.conv] = Put(r.seen.inquiry, "pending_approval", @)]

------------------------------------------------------------------------------
(* The agent's outbound tool: services/outbound.send_message *)

\* risky: the text hits a keyword, floor-price or large-amount rule.
BeginSendMessage(w) ==
  \E c \in Conversations, risky \in BOOLEAN :
    Begin(w, "send_message", c, NoId, NoId, risky)

\* Mutant of Guarded: the takeover reason is forgotten.
GuardedByText(r) == r.risky

\* The union of the guardrail reasons, on what the handler read.
Guarded(r) == r.seen.takeover \/ r.risky

SendAutomatically(w) ==
  /\ request[w].op = "send_message"
  /\ ~Guarded(request[w])
  /\ Transmit(w, "auto")
  /\ End(w)
  /\ UNCHANGED <<rows, history>>

ParkMessage(w) ==
  /\ request[w].op = "send_message"
  /\ Guarded(request[w])
  /\ Park(w, "message_send")
  /\ MarkPendingApproval(w)
  /\ End(w)
  /\ wire' = Silent
  /\ UNCHANGED <<quotation, history>>

------------------------------------------------------------------------------
(* approvals.request_handoff and agent_tools.generate_pi *)

BeginRequestHandoff(w) ==
  \E c \in Conversations : Begin(w, "request_handoff", c, NoId, NoId, FALSE)

RequestHandoff(w) ==
  /\ request[w].op = "request_handoff"
  /\ Park(w, "handoff")
  /\ MarkPendingApproval(w)
  /\ End(w)
  /\ wire' = Silent
  /\ UNCHANGED <<quotation, history>>

BeginGeneratePi(w) ==
  \E q \in Quotations :
    /\ quotation[q].conv # NoId
    /\ Begin(w, "generate_pi", quotation[q].conv, NoId, q, FALSE)

\* Mutant of GeneratePi: the document is made before anyone approves.
GeneratePiAtOnce(w) ==
  /\ request[w].op = "generate_pi"
  /\ Park(w, "pi_generate")
  /\ quotation' = [quotation EXCEPT ![request[w].quote].isPi = TRUE]
  /\ End(w)
  /\ wire' = Silent
  /\ UNCHANGED <<inquiry, history>>

\* Unlike the other two, this one leaves the inquiry's status alone.
GeneratePi(w) ==
  /\ request[w].op = "generate_pi"
  /\ Park(w, "pi_generate")
  /\ End(w)
  /\ wire' = Silent
  /\ UNCHANGED <<inquiry, quotation, history>>

------------------------------------------------------------------------------
(* Quotations: agent_tools.calc_quote, PATCH and POST send *)

CalcQuote(w) ==
  /\ request[w].op = "idle"
  /\ \E q \in Quotations, c \in Conversations, floor \in BOOLEAN :
       /\ quotation[q].conv = NoId
       /\ quotation' = [quotation EXCEPT ![q] = [NoQuotation EXCEPT !.conv = c, !.hitsFloor = floor]]
  /\ wire' = Silent
  /\ UNCHANGED <<takeover, inquiry, approval, notice, request, history>>

\* The seller may set the floor flag and the status to anything, in any state, and
\* edit the terms, the items or the total, of which the text is made.
PatchQuotation(w) ==
  /\ request[w].op = "idle"
  /\ \E q \in Quotations, floor \in BOOLEAN, s \in {"draft", "sent"}, t \in Text :
       /\ quotation[q].conv # NoId
       /\ quotation' = [quotation EXCEPT ![q].hitsFloor = floor, ![q].status = s, ![q].text = t]
  /\ wire' = Silent
  /\ UNCHANGED <<takeover, inquiry, approval, notice, request, history>>

BeginSendQuotation(w) ==
  \E q \in Quotations :
    /\ quotation[q].conv # NoId
    /\ Begin(w, "send_quotation", quotation[q].conv, NoId, q, FALSE)

\* Mutant of SendQuotation: the floor flag is not looked at.
SendQuotationUnchecked(w) ==
  LET r == request[w] IN
  /\ r.op = "send_quotation"
  /\ quotation' = [quotation EXCEPT ![r.quote].status = Put(r.seen.quoteStatus, "sent", @)]
  /\ Transmit(w, "quotation")
  /\ End(w)
  /\ UNCHANGED <<takeover, inquiry, approval, notice, history>>

SendQuotation(w) ==
  LET r == request[w] IN
  /\ r.op = "send_quotation"
  /\ ~r.seen.hitsFloor
  /\ quotation' = [quotation EXCEPT ![r.quote].status = Put(r.seen.quoteStatus, "sent", @)]
  /\ Transmit(w, "quotation")
  /\ End(w)
  /\ UNCHANGED <<takeover, inquiry, approval, notice, history>>

\* The router turns PermissionError into an approval request.
ParkQuotation(w) ==
  /\ request[w].op = "send_quotation"
  /\ request[w].seen.hitsFloor
  /\ Park(w, "quotation_send")
  /\ MarkPendingApproval(w)
  /\ End(w)
  /\ wire' = Silent
  /\ UNCHANGED <<quotation, history>>

------------------------------------------------------------------------------
(* The approval queue: approvals.py and the executor approval_execution.py *)

\* The conversation approve reads: the quotation's, or the approval's own.  NoId
\* if the payload was edited to a quotation that does not exist (LookupError).
ApprovalConversation(a) ==
  IF approval[a].quote = NoId THEN approval[a].conv ELSE quotation[approval[a].quote].conv

\* Only approve goes on to read the conversation.
ReadForDecision(w, op, a) ==
  /\ op = "approve" => ApprovalConversation(a) # NoId
  /\ Begin(w, op, IF op = "approve" THEN ApprovalConversation(a) ELSE NoId,
           a, approval[a].quote, FALSE)

\* Mutant of BeginDecision: _require_pending_approval only refuses missing rows.
BeginDecisionOnAny(w, op) ==
  \E a \in ApprovalIds : approval[a].status # "absent" /\ ReadForDecision(w, op, a)

\* Mutant of BeginDecision: a rejected row may still be decided.
BeginDecisionUnlessApproved(w, op) ==
  \E a \in ApprovalIds :
    approval[a].status \in {"pending", "rejected"} /\ ReadForDecision(w, op, a)

\* _require_pending_approval, on the row as read: anything else is 404 or 409.
BeginDecision(w, op) ==
  \E a \in ApprovalIds : approval[a].status = "pending" /\ ReadForDecision(w, op, a)

\* The history of a performance by worker w.
Performed(w) ==
  LET a == request[w].appr IN
  /\ performed' = [performed EXCEPT ![a] = @ + 1]
  /\ sent' = [sent EXCEPT ![a] = Outgoing(request[w].seen, approval[a].type)]

\* Mutant of Approved: the row is left pending.
ApprovedStillPending(w) ==
  LET a == request[w].appr IN
  /\ approval' = [approval EXCEPT ![a].executed = TRUE]
  /\ notice' = [notice EXCEPT ![a] = IF @ = "unread" THEN "read" ELSE @]
  /\ Performed(w)
  /\ End(w)
  /\ UNCHANGED lost

\* status, executed, the unread notification marked read, commit.  The id of
\* the row is all the UPDATE matches on: no guard on the status it had.
Approved(w) ==
  LET a == request[w].appr IN
  /\ approval' = [approval EXCEPT ![a].status = "approved", ![a].executed = TRUE]
  /\ notice' = [notice EXCEPT ![a] = IF @ = "unread" THEN "read" ELSE @]
  /\ Performed(w)
  /\ End(w)
  /\ UNCHANGED lost

\* Sends the text it read, gives the conversation back to the AI and marks
\* the inquiry answered, whatever else is pending on that conversation.
ApproveMessage(w) ==
  LET r == request[w] IN
  /\ r.op = "approve" /\ approval[r.appr].type = "message_send"
  /\ takeover' = [takeover EXCEPT ![r.conv] = Put(r.seen.takeover, FALSE, @)]
  /\ inquiry' = [inquiry EXCEPT ![r.conv] = Put(r.seen.inquiry, "responded", @)]
  /\ Transmit(w, "approval")
  /\ Approved(w)
  /\ UNCHANGED quotation

ApproveQuotation(w) ==
  LET r == request[w] IN
  /\ r.op = "approve" /\ approval[r.appr].type = "quotation_send"
  /\ quotation' = [quotation EXCEPT ![r.quote].status = Put(r.seen.quoteStatus, "sent", @)]
  /\ Transmit(w, "approval")
  /\ Approved(w)
  /\ UNCHANGED <<takeover, inquiry>>

\* The document is put into the terms as read, which are written back whole, with
\* the text they hold (if the text is the total, it stays as it is).
ApprovePi(w) ==
  LET r == request[w] IN
  /\ r.op = "approve" /\ approval[r.appr].type = "pi_generate"
  /\ \E t \in {r.seen.text, quotation[r.quote].text} :
       quotation' = [quotation EXCEPT ![r.quote].isPi = TRUE, ![r.quote].text = t]
  /\ wire' = Silent
  /\ Approved(w)
  /\ UNCHANGED <<takeover, inquiry>>

ApproveHandoff(w) ==
  /\ request[w].op = "approve" /\ approval[request[w].appr].type = "handoff"
  /\ wire' = Silent
  /\ Approved(w)
  /\ UNCHANGED <<takeover, inquiry, quotation>>

\* executed := False is the value that was read, so no UPDATE carries it; a
\* reason rewrites the whole payload from the one that was read.
Reject(w) ==
  LET r == request[w] IN
  /\ r.op = "reject"
  /\ \E reason \in BOOLEAN :
       approval' = [approval EXCEPT ![r.appr].status = "rejected",
                                    ![r.appr].content = IF reason THEN r.seen.content ELSE @,
                                    ![r.appr].quote = IF reason THEN r.quote ELSE @]
  /\ notice' = [notice EXCEPT ![r.appr] = IF @ = "unread" THEN "read" ELSE @]
  /\ End(w)
  /\ wire' = Silent
  /\ UNCHANGED <<takeover, inquiry, quotation, history>>

\* Mutant of PatchApproval: an edit puts the row back into the queue.
PatchApprovalReopens(w) ==
  LET r == request[w] IN
  /\ r.op = "patch"
  /\ \E s \in Text :
       approval' = [approval EXCEPT ![r.appr].suggestion = s, ![r.appr].status = "pending"]
  /\ End(w)
  /\ wire' = Silent
  /\ UNCHANGED <<takeover, inquiry, notice, quotation, history>>

\* What a person may make of the two texts of an approval.
Suggestions(type) == IF type \in {"message_send", "quotation_send"} THEN Text ELSE {"draft"}
Contents(type) == IF type = "message_send" THEN Text \cup {NoText} ELSE {NoText}

\* The suggestion is a column of its own.  The payload is one JSON column: content
\* and quotation_id are merged over the copy that was read and written back together.
PatchApproval(w) ==
  LET r == request[w]
      type == approval[r.appr].type
  IN
  /\ r.op = "patch"
  /\ \E s \in Suggestions(type), payload \in BOOLEAN, c \in Contents(type),
        q \in Quotations \cup {NoId} :
       /\ (q = NoId) = (r.quote = NoId)
       /\ approval' = [approval EXCEPT
            ![r.appr].suggestion = Put(r.seen.suggestion, s, @),
            ![r.appr].content = IF payload THEN c ELSE @,
            ![r.appr].quote = IF payload THEN q ELSE @]
  /\ End(w)
  /\ wire' = Silent
  /\ UNCHANGED <<takeover, inquiry, notice, quotation, history>>

------------------------------------------------------------------------------
(* The seller's own actions: routers/conversations, inquiries, notifications *)

BeginCreateMessage(w) ==
  \E c \in Conversations :
    /\ takeover[c]
    /\ Begin(w, "create_message", c, NoId, NoId, FALSE)

CreateMessage(w) ==
  /\ request[w].op = "create_message"
  /\ Transmit(w, "human")
  /\ End(w)
  /\ UNCHANGED <<rows, history>>

\* The four handlers that only overwrite one column are atomic: where Put
\* drops the write, the request is as if it had run when it read the row.
SetTakeover(w) ==
  /\ request[w].op = "idle"
  /\ \E c \in Conversations, on \in BOOLEAN : takeover' = [takeover EXCEPT ![c] = on]
  /\ wire' = Silent
  /\ UNCHANGED <<inquiry, approval, notice, quotation, request, history>>

PatchInquiry(w) ==
  /\ request[w].op = "idle"
  /\ \E c \in Conversations, s \in InquiryStatus : inquiry' = [inquiry EXCEPT ![c] = s]
  /\ wire' = Silent
  /\ UNCHANGED <<takeover, approval, notice, quotation, request, history>>

\* Mutant of UpdateNotification: the status is not validated.
UpdateNotificationUnchecked(w) ==
  /\ request[w].op = "idle"
  /\ \E a \in ApprovalIds, s \in NoticeStatus \cup {"done"} :
       /\ notice[a] # "none"
       /\ notice' = [notice EXCEPT ![a] = s]
  /\ wire' = Silent
  /\ UNCHANGED <<takeover, inquiry, approval, quotation, request, history>>

UpdateNotification(w) ==
  /\ request[w].op = "idle"
  /\ \E a \in ApprovalIds, s \in NoticeStatus :
       /\ notice[a] # "none"
       /\ notice' = [notice EXCEPT ![a] = s]
  /\ wire' = Silent
  /\ UNCHANGED <<takeover, inquiry, approval, quotation, request, history>>

------------------------------------------------------------------------------
(* Failure of a request *)

\* "database is locked", a dropped process or a failed commit before anything
\* left: the session is closed, which rolls back.
Abort(w) ==
  /\ request[w].op # "idle"
  /\ End(w)
  /\ wire' = Silent
  /\ UNCHANGED <<rows, history>>

\* deliver_message (or the PI file writer) has run and the commit never happens.
CrashAfterEffect(w) ==
  LET r == request[w]
      a == r.appr
  IN
  /\ r.op = "approve" /\ approval[a].type # "handoff"
  /\ lost[a] < MaxLost
  /\ Performed(w)
  /\ lost' = [lost EXCEPT ![a] = @ + 1]
  /\ IF approval[a].type = "pi_generate" THEN wire' = Silent ELSE Transmit(w, "approval")
  /\ End(w)
  /\ UNCHANGED rows

------------------------------------------------------------------------------
Agent(w) ==
  \/ BeginSendMessage(w) \/ SendAutomatically(w) \/ ParkMessage(w)
  \/ BeginRequestHandoff(w) \/ RequestHandoff(w)
  \/ BeginGeneratePi(w) \/ GeneratePi(w) \/ CalcQuote(w)

Seller(w) ==
  \/ PatchQuotation(w) \/ BeginSendQuotation(w) \/ SendQuotation(w) \/ ParkQuotation(w)
  \/ BeginCreateMessage(w) \/ CreateMessage(w)
  \/ SetTakeover(w) \/ PatchInquiry(w) \/ UpdateNotification(w)

Queue(w) ==
  \/ \E op \in {"approve", "reject", "patch"} : BeginDecision(w, op)
  \/ ApproveMessage(w) \/ ApproveQuotation(w) \/ ApprovePi(w) \/ ApproveHandoff(w)
  \/ Reject(w) \/ PatchApproval(w)

Next == \E w \in Workers : Agent(w) \/ Seller(w) \/ Queue(w) \/ Abort(w) \/ CrashAfterEffect(w)

Spec == Init /\ [][Next]_vars

------------------------------------------------------------------------------
(* Properties of any number of concurrent requests *)

\* A parked action is never performed while its row still says pending, except
\* by a request whose transaction was lost: whoever reads "pending" in the
\* queue knows that no committed request has sent it (approvals.py,
\* _require_pending_approval is the only gate).
PendingMeansUnexecuted ==
  \A a \in ApprovalIds :
    approval[a].status \in {"absent", "pending"} =>
      ~approval[a].executed /\ performed[a] = lost[a]

\* Duplicates are bounded: an approved message leaves at most once per request
\* that can have read the row as pending before the first decision committed,
\* plus once per lost transaction.  It can not be re-sent forever.
DuplicatesBounded ==
  \A a \in ApprovalIds : performed[a] <= Cardinality(Workers) + lost[a]

\* A decided approval never becomes pending again, and its row is never reused.
NeverReopened ==
  [][\A a \in ApprovalIds :
       approval[a].status \in {"approved", "rejected"}
         => approval'[a].status \in {"approved", "rejected"}]_vars

(* Properties of requests handled one at a time (one worker), crashes included *)

\* The row tells the truth: executed exactly when approved, and an approved
\* action was performed exactly once more than it was lost.
PerformedOnce ==
  \A a \in ApprovalIds :
    /\ approval[a].executed <=> approval[a].status = "approved"
    /\ performed[a] = lost[a] + (IF approval[a].status = "approved" THEN 1 ELSE 0)

\* The AI speaks on its own only outside takeover and never with risky text;
\* the seller speaks only during takeover.
SpeakerMatchesTakeover ==
  /\ wire.cause = "auto" => ~wire.takeover /\ ~wire.risky
  /\ wire.cause = "human" => wire.takeover

\* A quotation flagged as below the floor leaves only through the queue.
FloorQuotationNeedsApproval == wire.cause = "quotation" => ~wire.hitsFloor

\* The text of the record: payload.content, or the suggestion if that is missing.
OnRecord(row) == IF row.content = NoText THEN row.suggestion ELSE row.content

\* skills/approval-guardrails/SKILL.md:53: the payload of an approval and what became
\* of it stay on record.  The text in the row of an approved message is the one the
\* customer got last, whatever edits came before it and however many attempts at it
\* were lost.
RecordMatchesSent ==
  \A a \in ApprovalIds :
    approval[a].status = "approved" /\ approval[a].type = "message_send"
      => sent[a] = OnRecord(approval[a])

\* A quotation is a formal PI only if a pi_generate approval naming it was
\* carried out (skills/quotation-pi-draft: approval first, document after).
PiNeedsApproval ==
  \A q \in Quotations :
    quotation[q].isPi =>
      \E a \in ApprovalIds : /\ approval[a].type = "pi_generate"
                             /\ approval[a].quote = q
                             /\ approval[a].executed

\* The queue keeps its contract (ApprovalContract): decided once, performed by the
\* approval or by a lost attempt at it, never after a decision.
Contract == INSTANCE ApprovalContract WITH
  Actions <- ApprovalIds,
  decision <- [a \in ApprovalIds |-> approval[a].status],
  performed <- performed

ContractKept == Contract!Spec

(* A claim of the repository that the code does not keep *)

\* skills/approval-guardrails/SKILL.md:47 "after a rejection it stays unexecuted".
RejectedStaysUnexecuted ==
  \A a \in ApprovalIds : approval[a].status = "rejected" => ~approval[a].executed
=============================================================================
