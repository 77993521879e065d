------------------------------- MODULE Delivery -------------------------------
(***************************************************************************)
(* What happens to a message once a handler hands it to a channel: the     *)
(* delivery_attempt row (channel_delivery, delivery_attempts), its retries *)
(* by the seller and by the scheduled worker, the receipts the provider    *)
(* posts back (channel_receipts), and the erasure of the customer          *)
(* (data_privacy) that is to put an end to all of it.                      *)
(*                                                                         *)
(* A request reads rows (Begin...), may talk to the channel (Send...), and *)
(* commits.  The session writes an UPDATE only for the columns whose new   *)
(* value differs from the one read; SQLite gives the write lock to the     *)
(* first flush and keeps it to the end, so a new message is sent under the *)
(* lock and the first retry of a request is not.  What a request sent      *)
(* stays sent when its transaction is lost.                                *)
(***************************************************************************)
EXTENDS Naturals, FiniteSets

CONSTANTS
  Attempts,    \* delivery_attempt rows, all to messages of one customer
  Emails,      \* those on the email channel; the others are on WhatsApp
  Handlers,    \* threads serving delivery, retry, receipt and erasure requests
  Crons,       \* threads running the scheduled worker (may be the same)
  MaxCopies,   \* bound: copies of one message the channel accepts
  MaxCount,    \* bound: attempt_count (the code has no limit)
  MaxReceipts, \* bound: receipts the provider posts, repetitions included
  MaxLost      \* bound: requests whose transaction does not commit

ASSUME EmailsAssumption == Emails \subseteq Attempts
ASSUME MaxCopiesAssumption == MaxCopies \in Nat \ {0}
ASSUME MaxCountAssumption == MaxCount \in Nat \ {0}
ASSUME MaxReceiptsAssumption == MaxReceipts \in Nat
ASSUME MaxLostAssumption == MaxLost \in Nat

Workers == Handlers \cup Crons

VARIABLES
  row,      \* the table delivery_attempt
  erased,   \* Customer.deleted_at is set
  request,  \* what each worker is doing
  copies,   \* history: copies of the message the channel has accepted
  fate,     \* what became of each copy, as the provider knows it
  acked,    \* history: copies whose acceptance was committed as "sent"
  orphans,  \* history: copies accepted by requests that were rolled back
  posted,   \* history: number of receipts posted
  lost      \* history: number of requests that were rolled back

vars == <<row, erased, request, copies, fate, acked, orphans, posted, lost>>

------------------------------------------------------------------------------
\* "local" stands for queued (payload-only client), recorded (site form) and
\* skipped (no recipient): nothing left.  "delivered" stands for read, too.
Status == {"absent", "local", "sent", "failed", "delivered", "erased"}
\* next_retry_at: NULL, in the future, or passed.
Due == {"none", "later", "now"}
Copy == 1..MaxCopies

\* provider: the provider_message_id (0: NULL); external: external_id is not
\* erased; address: the payload names a recipient.
Row == [status: Status, due: Due, count: Nat, provider: 0..MaxCopies,
        external: BOOLEAN, address: BOOLEAN]
Absent == [status |-> "absent", due |-> "none", count |-> 0, provider |-> 0,
           external |-> FALSE, address |-> FALSE]

\* A row as a request is about to write it: "fresh" is utcnow() plus the delay.
Dirty == [status: Status, due: Due \cup {"fresh"}, count: Nat, provider: 0..MaxCopies,
          external: BOOLEAN, address: BOOLEAN]

Request == [op: {"idle", "deliver", "retry", "receipt", "erase"}, todo: SUBSET Attempts,
            read: [Attempts -> Row], new: [Attempts -> Dirty],
            accepted: SUBSET (Attempts \X Copy), unsure: SUBSET (Attempts \X Copy)]

NoRows == [a \in Attempts |-> Absent]
Idle == [op |-> "idle", todo |-> {}, read |-> NoRows, new |-> NoRows,
         accepted |-> {}, unsure |-> {}]

TypeOK ==
  /\ row \in [Attempts -> Row]
  /\ erased \in BOOLEAN
  /\ request \in [Workers -> Request]
  /\ copies \in [Attempts -> 0..MaxCopies]
  /\ fate \in [Attempts -> [Copy -> {"open", "delivered", "failed"}]]
  /\ acked \subseteq Attempts \X Copy
  /\ orphans \subseteq Attempts \X Copy
  /\ posted \in 0..MaxReceipts
  /\ lost \in 0..MaxLost

Init ==
  /\ row = NoRows
  /\ erased = FALSE
  /\ request = [w \in Workers |-> Idle]
  /\ copies = [a \in Attempts |-> 0]
  /\ fate = [a \in Attempts |-> [n \in Copy |-> "open"]]
  /\ acked = {}
  /\ orphans = {}
  /\ posted = 0
  /\ lost = 0

------------------------------------------------------------------------------
(* Transactions *)

\* The rows of S enter the identity map of worker w's session.
Begin(w, op, S, todo) ==
  /\ request[w].op = "idle"
  /\ LET seen == [a \in Attempts |-> IF a \in S THEN row[a] ELSE Absent] IN
     request' = [request EXCEPT ![w] = [op |-> op, todo |-> todo, read |-> seen,
                                        new |-> seen, accepted |-> {}, unsure |-> {}]]
  /\ UNCHANGED <<row, erased, copies, fate, acked, orphans, posted, lost>>

Put(seen, new, current) == IF new = seen THEN current ELSE new

PutRow(seen, new, current) ==
  [status |-> Put(seen.status, new.status, current.status),
   due |-> IF new.due = "fresh" THEN "later" ELSE Put(seen.due, new.due, current.due),
   count |-> Put(seen.count, new.count, current.count),
   provider |-> Put(seen.provider, new.provider, current.provider),
   external |-> Put(seen.external, new.external, current.external),
   address |-> Put(seen.address, new.address, current.address)]

\* The attempts a request has a new result for.
Written(w) == {a \in Attempts : request[w].new[a] # request[w].read[a]}

\* A delivery flushes its message before it sends; a retry flushes each result
\* before the next send.  The others flush and commit in one go.
HoldsLock(w) ==
  \/ request[w].op = "deliver" /\ Written(w) # {}
  \/ request[w].op = "retry" /\ Cardinality(Written(w)) > 1

LockFree(w) == \A v \in Workers \ {w} : ~HoldsLock(v)

Commit(w) ==
  LET r == request[w] IN
  /\ r.op # "idle" /\ r.todo = {}
  /\ LockFree(w)
  /\ row' = [a \in Attempts |-> PutRow(r.read[a], r.new[a], row[a])]
  /\ erased' = (erased \/ r.op = "erase")
  /\ acked' = acked \cup r.accepted
  /\ request' = [request EXCEPT ![w] = Idle]
  /\ UNCHANGED <<copies, fate, orphans, posted, lost>>

\* An exception, "database is locked" or a dropped process, at any point.
Rollback(w) ==
  /\ request[w].op # "idle"
  /\ lost < MaxLost
  /\ lost' = lost + 1
  /\ orphans' = orphans \cup request[w].accepted \cup request[w].unsure
  /\ request' = [request EXCEPT ![w] = Idle]
  /\ UNCHANGED <<row, erased, copies, fate, acked, posted>>

------------------------------------------------------------------------------
(* The channel client: send_with_delivery_client and its exception handler *)

\* "sent": accepted.  "failed": refused.  "unsure": the copy was accepted and the
\* client raised (a timeout), which the code records as failed.
Outcomes(a) == {"local", "failed"} \cup
               IF copies[a] < MaxCopies THEN {"sent", "unsure"} ELSE {}

\* An SMTP provider id is the external id, the same for every copy.
ProviderId(a, n) == IF a \in Emails THEN 1 ELSE n

\* Mutant of Result: the status is copied as the client's exception names it.
ResultRaw(a, seen, outcome) ==
  [seen EXCEPT !.status = outcome,
               !.due = IF outcome = "failed" THEN "fresh" ELSE "none",
               !.count = @ + 1,
               !.provider = IF outcome = "sent" THEN ProviderId(a, copies[a] + 1) ELSE 0]

\* Mutant of Result: attempt_count is set to 1 by every result.
ResultUncounted(a, seen, outcome) ==
  [seen EXCEPT !.status = IF outcome = "unsure" THEN "failed" ELSE outcome,
               !.due = IF outcome \in {"failed", "unsure"} THEN "fresh" ELSE "none",
               !.count = 1,
               !.provider = IF outcome = "sent" THEN ProviderId(a, copies[a] + 1) ELSE 0]

\* The columns written from a client result (record_delivery_attempt and
\* _apply_retry_result): attempt_count is one more than the value read.
Result(a, seen, outcome) ==
  [seen EXCEPT !.status = IF outcome = "unsure" THEN "failed" ELSE outcome,
               !.due = IF outcome \in {"failed", "unsure"} THEN "fresh" ELSE "none",
               !.count = @ + 1,
               !.provider = IF outcome = "sent" THEN ProviderId(a, copies[a] + 1) ELSE 0]

\* Worker w calls the client for attempt a, on the row as read.
Transmit(w, a, seen, outcome) ==
  LET r == request[w]
      copy == {<<a, copies[a] + 1>>}
  IN
  /\ request' = [request EXCEPT ![w] =
       [r EXCEPT !.todo = @ \ {a},
                 !.new[a] = Result(a, seen, outcome),
                 !.accepted = IF outcome = "sent" THEN @ \cup copy ELSE @,
                 !.unsure = IF outcome = "unsure" THEN @ \cup copy ELSE @]]
  /\ copies' = [copies EXCEPT ![a] = IF outcome \in {"sent", "unsure"} THEN @ + 1 ELSE @]
  /\ UNCHANGED <<row, erased, fate, acked, orphans, posted, lost>>

------------------------------------------------------------------------------
(* Delivering a new message *)

BeginDeliver(w) ==
  \E a \in Attempts :
    /\ row[a].status = "absent"
    /\ \A v \in Workers :
         request[v].op = "deliver" => a \notin request[v].todo /\ request[v].new[a] = Absent
    /\ Begin(w, "deliver", {a}, {a})

\* Mutant of SendFirst: the erased customer still has an address.
SendFirstToErased(w) ==
  \E a \in request[w].todo :
    /\ request[w].op = "deliver"
    /\ LockFree(w)
    /\ \E outcome \in Outcomes(a) :
         Transmit(w, a, [Absent EXCEPT !.external = TRUE, !.address = TRUE], outcome)

\* An erased customer has no address left: the attempt is recorded as skipped.
SendFirst(w) ==
  \E a \in request[w].todo :
    /\ request[w].op = "deliver"
    /\ LockFree(w)
    /\ \E outcome \in IF erased THEN {"local"} ELSE Outcomes(a) :
         Transmit(w, a, [Absent EXCEPT !.external = TRUE, !.address = ~erased], outcome)

(* Retries *)

\* Mutant of BeginRetry: the status of the attempt is not looked at.
BeginRetryAny(w) ==
  \E a \in Attempts :
    /\ row[a].status # "absent" /\ row[a].count < MaxCount
    /\ Begin(w, "retry", {a}, {a})

\* POST delivery-attempts/{id}/retry: any failed attempt, due or not.
BeginRetry(w) ==
  \E a \in Attempts :
    /\ row[a].status = "failed" /\ row[a].count < MaxCount
    /\ Begin(w, "retry", {a}, {a})

DueAttempts ==
  {a \in Attempts : row[a].status = "failed" /\ row[a].due = "now" /\ row[a].count < MaxCount}

\* run_due_delivery_retries: every due attempt, one after the other, one commit.
BeginRun(w) == DueAttempts # {} /\ Begin(w, "retry", DueAttempts, DueAttempts)

\* The payload that was read is sent; one without a recipient is not accepted.
SendRetry(w) ==
  \E a \in request[w].todo :
    /\ request[w].op = "retry"
    /\ Written(w) # {} => LockFree(w)
    /\ LET seen == request[w].read[a] IN
       \E outcome \in IF seen.address THEN Outcomes(a) ELSE {"local", "failed"} :
         Transmit(w, a, seen, outcome)

------------------------------------------------------------------------------
(* Receipts: sync_channel_receipts, one receipt per request *)

\* What the provider may report of copy n: receipts are repeated and reordered.
Reports(a, n) == IF n > copies[a] THEN {}
                 ELSE {"sent"} \cup (IF fate[a][n] = "open" THEN {} ELSE {fate[a][n]})

\* _find_attempt: the provider's id, or the external id that only email carries.
\* A receipt that matches no row is acknowledged and dropped.
Matches(a, n) ==
  /\ row[a].status # "absent"
  /\ row[a].provider = ProviderId(a, n) \/ (a \in Emails /\ row[a].external)

\* Mutant of Received: a failure receipt schedules no retry.
ReceivedUnscheduled(seen, status) == [seen EXCEPT !.status = status, !.due = "none"]

\* _apply_receipt: whatever the row said before, it now says what the receipt says.
Received(seen, status) ==
  [seen EXCEPT !.status = status, !.due = IF status = "failed" THEN "fresh" ELSE "none"]

BeginReceipt(w) ==
  /\ request[w].op = "idle"
  /\ posted < MaxReceipts
  /\ posted' = posted + 1
  /\ \E a \in Attempts, n \in Copy :
       /\ Matches(a, n)
       /\ \E status \in Reports(a, n) :
            LET seen == [NoRows EXCEPT ![a] = row[a]] IN
            request' = [request EXCEPT ![w] =
              [Idle EXCEPT !.op = "receipt", !.read = seen,
                           !.new = [seen EXCEPT ![a] = Received(row[a], status)]]]
  /\ UNCHANGED <<row, erased, copies, fate, acked, orphans, lost>>

------------------------------------------------------------------------------
(* Erasure of the customer: data_privacy, the attempts of all his messages *)

\* Mutant of EraseRow: the external id is kept.
EraseRowKeepsIds(seen) == [seen EXCEPT !.status = "erased", !.due = "none", !.address = FALSE]

EraseRow(seen) == [seen EXCEPT !.status = "erased", !.due = "none", !.provider = 0,
                               !.external = FALSE, !.address = FALSE]

BeginErase(w) ==
  /\ request[w].op = "idle"
  /\ ~erased
  /\ LET known == {a \in Attempts : row[a].status # "absent"}
         seen == [a \in Attempts |-> IF a \in known THEN row[a] ELSE Absent]
     IN request' = [request EXCEPT ![w] =
          [Idle EXCEPT !.op = "erase", !.read = seen,
                       !.new = [a \in Attempts |->
                                  IF a \in known THEN EraseRow(seen[a]) ELSE Absent]]]
  /\ UNCHANGED <<row, erased, copies, fate, acked, orphans, posted, lost>>

------------------------------------------------------------------------------
(* The environment: time and the provider *)

\* Five minutes pass: a scheduled retry is due.
Tick(a) ==
  /\ row[a].due = "later"
  /\ row' = [row EXCEPT ![a].due = "now"]
  /\ UNCHANGED <<erased, request, copies, fate, acked, orphans, posted, lost>>

Settle(a) ==
  /\ \E n \in 1..copies[a], f \in {"delivered", "failed"} :
       fate[a][n] = "open" /\ fate' = [fate EXCEPT ![a][n] = f]
  /\ UNCHANGED <<row, erased, request, copies, acked, orphans, posted, lost>>

------------------------------------------------------------------------------
Handler(w) == BeginDeliver(w) \/ BeginRetry(w) \/ BeginReceipt(w) \/ BeginErase(w)

Progress(w) == SendFirst(w) \/ SendRetry(w) \/ Commit(w)

Next ==
  \/ \E w \in Handlers : Handler(w)
  \/ \E w \in Crons : BeginRun(w)
  \/ \E w \in Workers : Progress(w) \/ Rollback(w)
  \/ \E a \in Attempts : Tick(a) \/ Settle(a)

Spec == Init /\ [][Next]_vars

\* The cron job is invoked for ever (docs/PRODUCTION_RUNBOOK.md), requests run to
\* their end, time passes.
FairSpec ==
  /\ Spec
  /\ \A w \in Crons : WF_vars(BeginRun(w))
  /\ \A w \in Workers : WF_vars(Progress(w))
  /\ \A a \in Attempts : WF_vars(Tick(a))

------------------------------------------------------------------------------
(* Properties of requests handled one at a time, lost transactions included *)

\* docs/IMPLEMENTATION_AUDIT.md:95: a failed delivery is scheduled for a retry, a
\* success clears the schedule.  A failed row without a date is never retried.
FailedIsScheduled == \A a \in Attempts : row[a].status = "failed" <=> row[a].due # "none"

\* Every copy the channel accepted is counted by attempt_count, or was sent by a
\* request whose transaction was lost.
CopiesAreCounted ==
  \A a \in Attempts :
    (\A w \in Workers : request[w].op = "idle") =>
      copies[a] <= row[a].count + Cardinality({o \in orphans : o[1] = a})

\* A copy recorded as sent is followed by another one only after the provider
\* gave up on it: on that very copy for WhatsApp, on some copy for email, whose
\* receipts all carry the same id.
ResendNeedsBounce ==
  \A a \in Attempts, n \in Copy :
    <<a, n>> \in acked /\ n < copies[a] =>
      \E m \in 1..copies[a] : fate[a][m] = "failed" /\ (a \in Emails \/ m = n)

\* data_privacy.py:8: after an erasure nothing more goes out,
ErasureStopsOutbound == [][erased => UNCHANGED copies]_vars

\* and no retry or receipt brings an erased row back to life.
ErasedStaysErased ==
  [][\A a \in Attempts : row[a].status = "erased" => row'[a] = row[a]]_vars

(* Under fairness *)

\* A failed attempt is tried again, settled by a receipt, or erased.
FailedIsRetried ==
  \A a \in Attempts : \A n \in 1..MaxCount - 1 :
    (row[a].status = "failed" /\ row[a].count = n)
      ~> (row[a].status # "failed" \/ row[a].count # n)
===============================================================================
