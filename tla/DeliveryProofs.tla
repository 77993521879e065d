---------------------------- MODULE DeliveryProofs ----------------------------
(***************************************************************************)
(* Theorems about Delivery: types for any number of handlers and scheduled *)
(* runs; then, for requests handled one at a time (one thread serves all), *)
(* what the retries, the receipts and the erasure make of the copies that  *)
(* the channel accepted.                                                   *)
(***************************************************************************)
EXTENDS Delivery, FiniteSetTheorems, TLAPS

\* A row of the table: rows that do not exist are blank, erased ones are cleared,
\* and the failed ones, no others, have a date for the next retry.
RowOK(x) ==
  /\ x.status = "absent" => x = Absent
  /\ x.status = "erased" => x.provider = 0 /\ ~x.external /\ ~x.address
  /\ x.status = "failed" <=> x.due # "none"

\* Nobody but the clock has touched a row since it was read as old.
Ticked(old, x) == x = old \/ (old.due = "later" /\ x = [old EXCEPT !.due = "now"])

\* A new row as the client's result leaves it.
IsResult(old, new) ==
  /\ new.status \in {"local", "sent", "failed"}
  /\ new.due = IF new.status = "failed" THEN "fresh" ELSE "none"
  /\ new.count = old.count + 1

\* What the request of w has to do with the row of attempt a: nothing,
Spare(w, a) ==
  LET r == request[w] IN
  /\ r.read[a] = Absent /\ r.new[a] = Absent /\ a \notin r.todo
  /\ r.op = "erase" => row[a] = Absent

\* it will insert the row, or is about to,
InDelivery(w, a) ==
  LET r == request[w] IN
  /\ r.op = "deliver" /\ r.read[a] = Absent /\ row[a] = Absent
  /\ \/ a \in r.todo /\ r.new[a] = Absent
     \/ a \notin r.todo /\ IsResult(Absent, r.new[a]) /\ r.new[a].address = ~erased

\* it tries the attempt again, or is about to,
InRetry(w, a) ==
  LET r == request[w] IN
  /\ r.op = "retry" /\ r.read[a].status = "failed" /\ Ticked(r.read[a], row[a])
  /\ \/ a \in r.todo /\ r.new[a] = r.read[a]
     \/ a \notin r.todo /\ IsResult(r.read[a], r.new[a]) /\ r.new[a].address = r.read[a].address

\* it applies a receipt,
InReceipt(w, a) ==
  LET r == request[w] IN
  /\ r.op = "receipt" /\ r.read[a].status \notin {"absent", "erased"}
  /\ Ticked(r.read[a], row[a]) /\ a \notin r.todo
  /\ \E status \in {"sent", "delivered", "failed"} : r.new[a] = Received(r.read[a], status)

\* it erases the row.
InErase(w, a) ==
  LET r == request[w] IN
  /\ r.op = "erase" /\ ~erased /\ r.read[a].status # "absent"
  /\ Ticked(r.read[a], row[a]) /\ a \notin r.todo
  /\ r.new[a] = EraseRow(r.read[a])

Work(w) ==
  request[w].op # "idle" =>
    \A a \in Attempts : \/ Spare(w, a) \/ InDelivery(w, a) \/ InRetry(w, a)
                        \/ InReceipt(w, a) \/ InErase(w, a)

\* Copies accepted and not committed yet: the last ones of their message.
Pending(w) == request[w].accepted \cup request[w].unsure
PendingOK(w) ==
  \A a \in Attempts, n \in Copy :
    /\ <<a, n>> \in Pending(w) =>
         /\ n = copies[a] /\ <<a, n>> \notin orphans
         /\ request[w].op \in {"deliver", "retry"} /\ a \notin request[w].todo
         /\ request[w].new[a].count = row[a].count + 1
    /\ <<a, n>> \in request[w].accepted =>
         request[w].new[a].status = "sent" /\ request[w].new[a].provider = ProviderId(a, n)

\* All that was ever accepted is in the count, pending, or lost.
Orphaned(a) == {o \in orphans : o[1] = a}
CountedOK(w) ==
  \A a \in Attempts :
    copies[a] <= row[a].count + Cardinality(Orphaned(a))
                   + (IF \E n \in Copy : <<a, n>> \in Pending(w) THEN 1 ELSE 0)

\* The provider gave up on copy n of attempt a, as far as its ids can tell.
Bounced(a, n) == \E m \in 1..copies[a] : fate[a][m] = "failed" /\ (a \in Emails \/ m = n)

\* A copy recorded as sent is the last one, and its row says so, until it bounces;
\* a receipt that makes a row a failed one reports such a bounce.
AckedOK(w) ==
  \A a \in Attempts, n \in Copy :
    <<a, n>> \in acked =>
      \/ Bounced(a, n)
      \/ /\ n = copies[a] /\ row[a].status \in {"sent", "delivered", "erased"}
         /\ row[a].status # "erased" => row[a].provider = ProviderId(a, n)
         /\ request[w].op = "receipt" => request[w].new[a].status # "failed"

\* Histories name copies that were accepted.
NumbersOK ==
  \A a \in Attempts, n \in Copy : <<a, n>> \in orphans \cup acked => n <= copies[a]

\* An erased customer has no address left, in no row.
ErasedOK ==
  \A a \in Attempts : /\ row[a].status = "erased" => erased
                      /\ erased => ~row[a].address

SInv(w) ==
  /\ TypeOK
  /\ \A a \in Attempts : RowOK(row[a])
  /\ request[w].op = "idle" => Pending(w) = {}
  /\ Work(w) /\ PendingOK(w) /\ CountedOK(w) /\ AckedOK(w) /\ NumbersOK /\ ErasedOK

------------------------------------------------------------------------------
(* Rows *)

LEMMA AbsentOK ==
  /\ Absent \in Row /\ Absent \in Dirty /\ RowOK(Absent)
  /\ Absent.status = "absent" /\ Absent.due = "none" /\ Absent.count = 0
  /\ Absent.provider = 0 /\ ~Absent.external /\ ~Absent.address
  /\ NoRows \in [Attempts -> Row] /\ NoRows \in [Attempts -> Dirty]
  <1>1. MaxCopies \in Nat
    BY MaxCopiesAssumption
  <1>2. 0 \in 0..MaxCopies
    BY <1>1
  <1>3. Absent \in Row /\ Absent \in Dirty
    BY <1>2 DEF Absent, Row, Dirty, Status, Due
  <1>4. RowOK(Absent)
    BY DEF Absent, RowOK
  <1>5. QED
    BY <1>3, <1>4 DEF Absent, NoRows

LEMMA RowIsDirty ==
  ASSUME NEW x \in Row
  PROVE  x \in Dirty /\ x.due # "fresh"
  BY DEF Row, Dirty, Due

LEMMA PutRowType ==
  ASSUME NEW old \in Row, NEW new \in Dirty, NEW x \in Row
  PROVE  PutRow(old, new, x) \in Row
  <1>1. /\ Put(old.status, new.status, x.status) \in Status
        /\ (IF new.due = "fresh" THEN "later" ELSE Put(old.due, new.due, x.due)) \in Due
        /\ Put(old.count, new.count, x.count) \in Nat
        /\ Put(old.provider, new.provider, x.provider) \in 0..MaxCopies
        /\ Put(old.external, new.external, x.external) \in BOOLEAN
        /\ Put(old.address, new.address, x.address) \in BOOLEAN
    BY DEF Put, Row, Dirty, Due
  <1>2. QED
    BY <1>1 DEF PutRow, Row

LEMMA PutNothing ==
  ASSUME NEW old \in Row, NEW x \in Row
  PROVE  PutRow(old, old, x) = x
  BY DEF PutRow, Put, Row, Due

\* Written over a row that only the clock has touched, the new columns are the row's.
LEMMA PutTicked ==
  ASSUME NEW old \in Row, NEW new \in Dirty, NEW x \in Row, Ticked(old, x)
  PROVE  LET p == PutRow(old, new, x) IN
         /\ p.status = new.status /\ p.count = new.count /\ p.provider = new.provider
         /\ p.external = new.external /\ p.address = new.address
         /\ new.due = "fresh" => p.due = "later"
         /\ new.due = "none" => p.due = "none"
  <1>1. /\ x.status = old.status /\ x.count = old.count /\ x.provider = old.provider
        /\ x.external = old.external /\ x.address = old.address
        /\ old.due = "none" => x.due = "none"
    BY DEF Ticked, Row
  <1>2. QED
    BY <1>1 DEF PutRow, Put

\* The columns that Result writes.
LEMMA ResultOK ==
  ASSUME NEW a \in Attempts, NEW seen \in Row, copies[a] \in 0..MaxCopies,
         NEW outcome \in {"local", "failed", "sent", "unsure"},
         outcome \in {"sent", "unsure"} => copies[a] < MaxCopies
  PROVE  LET new == Result(a, seen, outcome) IN
         /\ new \in Dirty /\ IsResult(seen, new)
         /\ new.address = seen.address
         /\ outcome = "sent" => /\ new.status = "sent"
                                /\ new.provider = ProviderId(a, copies[a] + 1)
  <1> DEFINE status == IF outcome = "unsure" THEN "failed" ELSE outcome
             due == IF outcome \in {"failed", "unsure"} THEN "fresh" ELSE "none"
             provider == IF outcome = "sent" THEN ProviderId(a, copies[a] + 1) ELSE 0
             new == [seen EXCEPT !.status = status, !.due = due, !.count = @ + 1,
                                 !.provider = provider]
  <1>1. provider \in 0..MaxCopies
    BY MaxCopiesAssumption DEF ProviderId
  <1>2. /\ status \in {"local", "sent", "failed"} /\ status \in Status
        /\ due = IF status = "failed" THEN "fresh" ELSE "none"
        /\ due \in Due \cup {"fresh"}
        /\ outcome = "sent" => status = "sent"
    BY DEF Status, Due
  <1>3. outcome = "sent" => provider = ProviderId(a, copies[a] + 1)
    OBVIOUS
  <1>4. Result(a, seen, outcome) = new
    BY DEF Result
  <1> HIDE DEF status, due, provider
  <1>5. /\ new \in Dirty /\ new.status = status /\ new.due = due /\ new.count = seen.count + 1
        /\ new.provider = provider /\ new.address = seen.address
    <2>1. seen.count \in Nat /\ seen.count + 1 \in Nat
      BY DEF Row
    <2>2. /\ new.status = status /\ new.due = due /\ new.count = seen.count + 1
          /\ new.provider = provider /\ new.external = seen.external
          /\ new.address = seen.address
      BY DEF Row
    <2>3. status \in Status /\ due \in Due \cup {"fresh"} /\ provider \in 0..MaxCopies
      BY <1>1, <1>2
    <2>4. new \in Dirty
      BY <2>1, <2>3 DEF Row, Dirty
    <2>5. QED
      BY <2>2, <2>4
  <1> HIDE DEF new
  <1>6. IsResult(seen, new)
    BY <1>2, <1>5 DEF IsResult
  <1>7. QED
    BY <1>2, <1>3, <1>4, <1>5, <1>6

LEMMA ReceivedOK ==
  ASSUME NEW seen \in Row, NEW status \in {"sent", "delivered", "failed"}
  PROVE  LET new == Received(seen, status) IN
         /\ new \in Dirty /\ new.status = status
         /\ new.due = IF status = "failed" THEN "fresh" ELSE "none"
         /\ new.count = seen.count /\ new.provider = seen.provider
         /\ new.external = seen.external /\ new.address = seen.address
  BY DEF Received, Row, Dirty, Status, Due

LEMMA EraseRowOK ==
  ASSUME NEW seen \in Row
  PROVE  LET new == EraseRow(seen) IN
         /\ new \in Dirty /\ new.status = "erased" /\ new.due = "none"
         /\ new.count = seen.count /\ new.provider = 0 /\ ~new.external /\ ~new.address
  <1>1. 0 \in 0..MaxCopies
    BY MaxCopiesAssumption
  <1>2. QED
    BY <1>1 DEF EraseRow, Row, Dirty, Status, Due

------------------------------------------------------------------------------
(* Types, for any number of requests *)

\* A step of one request that leaves the histories of the provider alone.
LEMMA TypeOfRequest ==
  ASSUME TypeOK, NEW w \in Workers, NEW q \in Request,
         request' = [request EXCEPT ![w] = q],
         row' = row, erased' = erased, copies' \in [Attempts -> 0..MaxCopies], fate' = fate,
         acked' = acked, orphans' = orphans, posted' \in 0..MaxReceipts, lost' = lost
  PROVE  TypeOK'
  BY DEF TypeOK

LEMMA BeginType ==
  ASSUME TypeOK, NEW w \in Workers, NEW op \in {"deliver", "retry"},
         NEW S \in SUBSET Attempts, Begin(w, op, S, S)
  PROVE  /\ TypeOK'
         /\ LET q == request'[w] IN
            /\ q.op = op /\ q.todo = S /\ q.accepted = {} /\ q.unsure = {}
            /\ q.read = [a \in Attempts |-> IF a \in S THEN row[a] ELSE Absent]
            /\ q.new = q.read
         /\ UNCHANGED <<row, erased, copies, fate, acked, orphans, posted, lost>>
         /\ request[w].op = "idle"
  <1> DEFINE seen == [a \in Attempts |-> IF a \in S THEN row[a] ELSE Absent]
             q == [op |-> op, todo |-> S, read |-> seen, new |-> seen,
                   accepted |-> {}, unsure |-> {}]
  <1>1. seen \in [Attempts -> Row] /\ seen \in [Attempts -> Dirty]
    BY AbsentOK, RowIsDirty DEF TypeOK
  <1>2. /\ request' = [request EXCEPT ![w] = q] /\ request'[w] = q
        /\ UNCHANGED <<row, erased, copies, fate, acked, orphans, posted, lost>>
        /\ request[w].op = "idle"
    BY DEF Begin, TypeOK
  <1> HIDE DEF seen
  <1>3. q \in Request
    BY <1>1 DEF Request
  <1>4. TypeOK'
    BY <1>2, <1>3, TypeOfRequest DEF TypeOK
  <1>5. QED
    BY <1>2, <1>4 DEF seen

LEMMA TransmitType ==
  ASSUME TypeOK, NEW w \in Workers, NEW a \in Attempts, NEW seen \in Row,
         NEW outcome \in {"local", "failed", "sent", "unsure"},
         outcome \in {"sent", "unsure"} => copies[a] < MaxCopies,
         Transmit(w, a, seen, outcome)
  PROVE  LET r == request[w]
             q == request'[w]
             copy == {<<a, copies[a] + 1>>} IN
         /\ TypeOK'
         /\ q.op = r.op /\ q.read = r.read /\ q.todo = r.todo \ {a}
         /\ q.new = [r.new EXCEPT ![a] = Result(a, seen, outcome)]
         /\ q.accepted = IF outcome = "sent" THEN r.accepted \cup copy ELSE r.accepted
         /\ q.unsure = IF outcome = "unsure" THEN r.unsure \cup copy ELSE r.unsure
         /\ copies' = [copies EXCEPT ![a] = IF outcome \in {"sent", "unsure"}
                                            THEN @ + 1 ELSE @]
         /\ UNCHANGED <<row, erased, fate, acked, orphans, posted, lost>>
  <1> DEFINE r == request[w]
             copy == {<<a, copies[a] + 1>>}
             new == Result(a, seen, outcome)
             n == [r.new EXCEPT ![a] = new]
             acc == IF outcome = "sent" THEN r.accepted \cup copy ELSE r.accepted
             uns == IF outcome = "unsure" THEN r.unsure \cup copy ELSE r.unsure
             q == [r EXCEPT !.todo = @ \ {a}, !.new = n, !.accepted = acc, !.unsure = uns]
  <1>1. /\ r \in Request /\ request \in [Workers -> Request]
        /\ copies \in [Attempts -> 0..MaxCopies] /\ copies[a] \in 0..MaxCopies
        /\ MaxCopies \in Nat
    BY MaxCopiesAssumption DEF TypeOK
  <1>2. request' = [request EXCEPT ![w] =
          [r EXCEPT !.todo = @ \ {a}, !.new[a] = new,
                    !.accepted = IF outcome = "sent" THEN @ \cup copy ELSE @,
                    !.unsure = IF outcome = "unsure" THEN @ \cup copy ELSE @]]
    BY DEF Transmit
  <1>3. /\ copies' = [copies EXCEPT ![a] = IF outcome \in {"sent", "unsure"} THEN @ + 1 ELSE @]
        /\ UNCHANGED <<row, erased, fate, acked, orphans, posted, lost>>
    BY DEF Transmit
  <1>4. new \in Dirty
    BY <1>1, ResultOK
  <1> HIDE DEF new
  <1>5. n \in [Attempts -> Dirty]
    BY <1>1, <1>4 DEF Request
  <1>6. outcome \in {"sent", "unsure"} => copies[a] + 1 \in Copy /\ copies[a] + 1 \in 0..MaxCopies
    BY <1>1 DEF Copy
  <1>7. acc \subseteq Attempts \X Copy /\ uns \subseteq Attempts \X Copy
    <2>1. outcome \in {"sent", "unsure"} => copy \subseteq Attempts \X Copy
      BY <1>6
    <2>2. r.accepted \subseteq Attempts \X Copy /\ r.unsure \subseteq Attempts \X Copy
      BY <1>1 DEF Request
    <2> HIDE DEF copy, r
    <2>3. QED
      BY <2>1, <2>2
  <1>8. request' = [request EXCEPT ![w] = q] /\ request'[w] = q
    BY <1>1, <1>2
  <1> HIDE DEF n, acc, uns
  <1>9. /\ q.op = r.op /\ q.read = r.read /\ q.todo = r.todo \ {a} /\ q.new = n
        /\ q.accepted = acc /\ q.unsure = uns
    BY <1>1 DEF Request
  <1>10. q \in Request
    BY <1>1, <1>5, <1>7, <1>9 DEF Request
  <1>11. copies' \in [Attempts -> 0..MaxCopies]
    BY <1>1, <1>3, <1>6
  <1> HIDE DEF q
  <1>12. TypeOK'
    BY <1>3, <1>8, <1>10, <1>11, TypeOfRequest DEF TypeOK
  <1>13. QED
    BY <1>3, <1>8, <1>9, <1>12 DEF n, acc, uns, new

LEMMA ReceiptType ==
  ASSUME TypeOK, NEW w \in Workers, BeginReceipt(w)
  PROVE  /\ TypeOK'
         /\ \E a \in Attempts, n \in Copy, status \in {"sent", "delivered", "failed"} :
              LET q == request'[w] IN
              /\ Matches(a, n) /\ status \in Reports(a, n)
              /\ q.op = "receipt" /\ q.todo = {} /\ q.accepted = {} /\ q.unsure = {}
              /\ q.read = [NoRows EXCEPT ![a] = row[a]]
              /\ q.new = [NoRows EXCEPT ![a] = Received(row[a], status)]
         /\ UNCHANGED <<row, erased, copies, fate, acked, orphans, lost>>
         /\ request[w].op = "idle"
  <1>1. PICK a \in Attempts, n \in Copy : \E status \in Reports(a, n) :
          /\ Matches(a, n)
          /\ LET seen == [NoRows EXCEPT ![a] = row[a]] IN
             request' = [request EXCEPT ![w] =
               [Idle EXCEPT !.op = "receipt", !.read = seen,
                            !.new = [seen EXCEPT ![a] = Received(row[a], status)]]]
    BY DEF BeginReceipt
  <1>2. PICK status \in Reports(a, n) :
          /\ Matches(a, n)
          /\ LET seen == [NoRows EXCEPT ![a] = row[a]] IN
             request' = [request EXCEPT ![w] =
               [Idle EXCEPT !.op = "receipt", !.read = seen,
                            !.new = [seen EXCEPT ![a] = Received(row[a], status)]]]
    BY <1>1
  <1> DEFINE seen == [NoRows EXCEPT ![a] = row[a]]
             new == [seen EXCEPT ![a] = Received(row[a], status)]
             q == [Idle EXCEPT !.op = "receipt", !.read = seen, !.new = new]
  <1>3. status \in {"sent", "delivered", "failed"}
    <2>1. fate[a][n] \in {"open", "delivered", "failed"}
      BY DEF TypeOK
    <2>2. QED
      BY <2>1 DEF Reports
  <1>4. /\ row[a] \in Row /\ Received(row[a], status) \in Dirty
        /\ request \in [Workers -> Request]
    BY <1>3, ReceivedOK DEF TypeOK
  <1>5. /\ NoRows \in [Attempts -> Row] /\ NoRows \in [Attempts -> Dirty]
        /\ seen \in [Attempts -> Row]
    BY <1>4, AbsentOK
  <1>6. new = [NoRows EXCEPT ![a] = Received(row[a], status)] /\ new \in [Attempts -> Dirty]
    BY <1>4, <1>5
  <1>7. request' = [request EXCEPT ![w] = q] /\ request'[w] = q
    BY <1>2, <1>4
  <1> HIDE DEF seen, new
  <1>8. /\ q.op = "receipt" /\ q.todo = {} /\ q.accepted = {} /\ q.unsure = {}
        /\ q.read = seen /\ q.new = new
    BY DEF Idle
  <1>9. q \in Request
    BY <1>5, <1>6, AbsentOK DEF Idle, Request
  <1>10. /\ UNCHANGED <<row, erased, copies, fate, acked, orphans, lost>>
         /\ request[w].op = "idle" /\ posted' \in 0..MaxReceipts
    BY MaxReceiptsAssumption DEF BeginReceipt, TypeOK
  <1> HIDE DEF q
  <1>11. TypeOK'
    BY <1>7, <1>9, <1>10, TypeOfRequest DEF TypeOK
  <1> DEFINE p == request'[w]
  <1>12. /\ Matches(a, n) /\ status \in Reports(a, n)
         /\ p.op = "receipt" /\ p.todo = {} /\ p.accepted = {} /\ p.unsure = {}
         /\ p.read = [NoRows EXCEPT ![a] = row[a]]
         /\ p.new = [NoRows EXCEPT ![a] = Received(row[a], status)]
    BY <1>2, <1>6, <1>7, <1>8 DEF seen
  <1> HIDE DEF p
  <1>13. \E b \in Attempts, m \in Copy, s \in {"sent", "delivered", "failed"} :
           /\ Matches(b, m) /\ s \in Reports(b, m)
           /\ p.op = "receipt" /\ p.todo = {} /\ p.accepted = {} /\ p.unsure = {}
           /\ p.read = [NoRows EXCEPT ![b] = row[b]]
           /\ p.new = [NoRows EXCEPT ![b] = Received(row[b], s)]
    BY <1>3, <1>12
  <1>14. QED
    BY <1>10, <1>11, <1>13 DEF p

LEMMA EraseType ==
  ASSUME TypeOK, NEW w \in Workers, BeginErase(w)
  PROVE  /\ TypeOK'
         /\ LET q == request'[w] IN
            /\ q.op = "erase" /\ q.todo = {} /\ q.accepted = {} /\ q.unsure = {}
            /\ \A a \in Attempts :
                 IF row[a].status # "absent"
                 THEN q.read[a] = row[a] /\ q.new[a] = EraseRow(row[a])
                 ELSE q.read[a] = Absent /\ q.new[a] = Absent
         /\ UNCHANGED <<row, erased, copies, fate, acked, orphans, posted, lost>>
         /\ request[w].op = "idle" /\ ~erased
  <1> DEFINE known == {a \in Attempts : row[a].status # "absent"}
             seen == [a \in Attempts |-> IF a \in known THEN row[a] ELSE Absent]
             new == [a \in Attempts |-> IF a \in known THEN EraseRow(seen[a]) ELSE Absent]
             q == [Idle EXCEPT !.op = "erase", !.read = seen, !.new = new]
  <1>1. /\ request' = [request EXCEPT ![w] = q] /\ request'[w] = q
        /\ UNCHANGED <<row, erased, copies, fate, acked, orphans, posted, lost>>
        /\ request[w].op = "idle" /\ ~erased
    BY DEF BeginErase, TypeOK
  <1>2. seen \in [Attempts -> Row] /\ new \in [Attempts -> Dirty]
    <2>1. ASSUME NEW a \in Attempts
          PROVE  /\ row[a] \in Row /\ EraseRow(row[a]) \in Dirty
                 /\ Absent \in Row /\ Absent \in Dirty
      BY AbsentOK, EraseRowOK DEF TypeOK
    <2>2. QED
      BY <2>1
  <1>3. \A a \in Attempts : IF row[a].status # "absent"
                            THEN seen[a] = row[a] /\ new[a] = EraseRow(row[a])
                            ELSE seen[a] = Absent /\ new[a] = Absent
    OBVIOUS
  <1> HIDE DEF seen, new
  <1>4. /\ q.op = "erase" /\ q.todo = {} /\ q.accepted = {} /\ q.unsure = {}
        /\ q.read = seen /\ q.new = new
    BY DEF Idle
  <1>5. q \in Request
    BY <1>2, AbsentOK DEF Idle, Request
  <1> HIDE DEF q
  <1>6. TypeOK'
    BY <1>1, <1>5, TypeOfRequest DEF TypeOK
  <1>7. QED
    BY <1>1, <1>3, <1>4, <1>6

LEMMA IdleOK ==
  /\ Idle \in Request /\ Idle.op = "idle" /\ Idle.todo = {}
  /\ Idle.accepted = {} /\ Idle.unsure = {}
  BY AbsentOK DEF Idle, Request

LEMMA CommitType ==
  ASSUME TypeOK, NEW w \in Workers, Commit(w)
  PROVE  TypeOK'
  <1>1. /\ request' = [request EXCEPT ![w] = Idle]
        /\ row' = [a \in Attempts |-> PutRow(request[w].read[a], request[w].new[a], row[a])]
        /\ acked' = acked \cup request[w].accepted
        /\ erased' = (erased \/ request[w].op = "erase")
        /\ UNCHANGED <<copies, fate, orphans, posted, lost>>
    BY DEF Commit
  <1>2. \A a \in Attempts : PutRow(request[w].read[a], request[w].new[a], row[a]) \in Row
    BY PutRowType DEF TypeOK, Request
  <1>3. row' \in [Attempts -> Row]
    BY <1>1, <1>2
  <1>4. acked' \subseteq Attempts \X Copy
    BY <1>1 DEF TypeOK, Request
  <1>5. erased' \in BOOLEAN
    BY <1>1 DEF TypeOK
  <1>6. request' \in [Workers -> Request]
    BY <1>1, IdleOK DEF TypeOK
  <1>7. QED
    BY <1>1, <1>3, <1>4, <1>5, <1>6 DEF TypeOK

LEMMA RollbackType ==
  ASSUME TypeOK, NEW w \in Workers, Rollback(w)
  PROVE  TypeOK'
  <1>1. request' \in [Workers -> Request]
    BY IdleOK DEF Rollback, TypeOK
  <1>2. orphans' \subseteq Attempts \X Copy
    BY DEF Rollback, TypeOK, Request
  <1>3. lost' \in 0..MaxLost
    BY MaxLostAssumption DEF Rollback, TypeOK
  <1>4. QED
    BY <1>1, <1>2, <1>3 DEF Rollback, TypeOK

LEMMA TickType ==
  ASSUME TypeOK, NEW a \in Attempts, Tick(a)
  PROVE  TypeOK'
  <1>1. row' = [row EXCEPT ![a].due = "now"] /\ row \in [Attempts -> Row]
    BY DEF Tick, TypeOK
  <1>2. [row[a] EXCEPT !.due = "now"] \in Row
    BY <1>1 DEF Row, Due
  <1>3. row' \in [Attempts -> Row]
    BY <1>1, <1>2
  <1>4. QED
    BY <1>3 DEF Tick, TypeOK

LEMMA SettleType ==
  ASSUME TypeOK, NEW a \in Attempts, Settle(a)
  PROVE  /\ TypeOK'
         /\ \A b \in Attempts, m \in Copy : fate[b][m] = "failed" => fate'[b][m] = "failed"
  <1>1. PICK n \in 1..copies[a], f \in {"delivered", "failed"} :
          fate[a][n] = "open" /\ fate' = [fate EXCEPT ![a][n] = f]
    BY DEF Settle
  <1>2. /\ fate \in [Attempts -> [Copy -> {"open", "delivered", "failed"}]]
        /\ copies[a] \in 0..MaxCopies /\ MaxCopies \in Nat
    BY MaxCopiesAssumption DEF TypeOK
  <1>3. n \in Copy
    BY <1>2 DEF Copy
  <1>4. fate' \in [Attempts -> [Copy -> {"open", "delivered", "failed"}]]
    BY <1>1, <1>2, <1>3
  <1>5. \A b \in Attempts, m \in Copy : fate[b][m] = "failed" => fate'[b][m] = "failed"
    BY <1>1, <1>2, <1>3
  <1>6. QED
    BY <1>4, <1>5 DEF Settle, TypeOK

LEMMA SendFirstType ==
  ASSUME TypeOK, NEW w \in Workers, SendFirst(w)
  PROVE  \E a \in request[w].todo, outcome \in {"local", "failed", "sent", "unsure"} :
           LET seen == [Absent EXCEPT !.external = TRUE, !.address = ~erased] IN
           /\ request[w].op = "deliver" /\ a \in Attempts
           /\ seen \in Row /\ seen.count = 0 /\ seen.address = ~erased
           /\ outcome \in {"sent", "unsure"} => copies[a] < MaxCopies /\ ~erased
           /\ Transmit(w, a, seen, outcome)
  <1>1. PICK a \in request[w].todo :
          /\ request[w].op = "deliver"
          /\ \E outcome \in IF erased THEN {"local"} ELSE Outcomes(a) :
               Transmit(w, a, [Absent EXCEPT !.external = TRUE, !.address = ~erased], outcome)
    BY DEF SendFirst
  <1>2. PICK outcome \in IF erased THEN {"local"} ELSE Outcomes(a) :
          Transmit(w, a, [Absent EXCEPT !.external = TRUE, !.address = ~erased], outcome)
    BY <1>1
  <1>3. /\ outcome \in {"local", "failed", "sent", "unsure"}
        /\ outcome \in {"sent", "unsure"} => copies[a] < MaxCopies /\ ~erased
    BY DEF Outcomes
  <1>4. a \in Attempts /\ erased \in BOOLEAN
    BY DEF TypeOK, Request
  <1> DEFINE seen == [Absent EXCEPT !.external = TRUE, !.address = ~erased]
  <1>5. seen \in Row /\ seen.count = 0 /\ seen.address = ~erased
    <2>1. 0 \in 0..MaxCopies
      BY MaxCopiesAssumption
    <2>2. QED
      BY <1>4, <2>1 DEF Absent, Row, Status, Due
  <1> HIDE DEF seen
  <1>6. QED
    BY <1>1, <1>2, <1>3, <1>4, <1>5 DEF seen

LEMMA SendRetryType ==
  ASSUME TypeOK, NEW w \in Workers, SendRetry(w)
  PROVE  \E a \in request[w].todo, outcome \in {"local", "failed", "sent", "unsure"} :
           LET seen == request[w].read[a] IN
           /\ request[w].op = "retry" /\ a \in Attempts
           /\ seen \in Row
           /\ outcome \in {"sent", "unsure"} => copies[a] < MaxCopies /\ seen.address
           /\ Transmit(w, a, seen, outcome)
  <1>1. PICK a \in request[w].todo :
          /\ request[w].op = "retry"
          /\ LET seen == request[w].read[a] IN
             \E outcome \in IF seen.address THEN Outcomes(a) ELSE {"local", "failed"} :
               Transmit(w, a, seen, outcome)
    BY DEF SendRetry
  <1> DEFINE seen == request[w].read[a]
  <1>2. PICK outcome \in IF seen.address THEN Outcomes(a) ELSE {"local", "failed"} :
          Transmit(w, a, seen, outcome)
    BY <1>1
  <1>3. /\ outcome \in {"local", "failed", "sent", "unsure"}
        /\ outcome \in {"sent", "unsure"} => copies[a] < MaxCopies /\ seen.address
    BY DEF Outcomes
  <1>4. a \in Attempts /\ seen \in Row
    BY DEF TypeOK, Request
  <1>5. QED
    BY <1>1, <1>2, <1>3, <1>4

LEMMA BeginDeliverType ==
  ASSUME TypeOK, NEW w \in Workers, BeginDeliver(w)
  PROVE  \E a \in Attempts : row[a].status = "absent" /\ Begin(w, "deliver", {a}, {a})
  BY DEF BeginDeliver

LEMMA BeginRetryType ==
  ASSUME TypeOK, NEW w \in Workers, BeginRetry(w) \/ BeginRun(w)
  PROVE  \E S \in SUBSET Attempts : /\ \A a \in S : row[a].status = "failed"
                                    /\ Begin(w, "retry", S, S)
  <1>1. CASE BeginRetry(w)
    <2>1. PICK a \in Attempts : row[a].status = "failed" /\ Begin(w, "retry", {a}, {a})
      BY <1>1 DEF BeginRetry
    <2>2. {a} \in SUBSET Attempts /\ \A b \in {a} : row[b].status = "failed"
      BY <2>1
    <2>3. QED
      BY <2>1, <2>2
  <1>2. CASE BeginRun(w)
    <2>1. DueAttempts \in SUBSET Attempts /\ \A a \in DueAttempts : row[a].status = "failed"
      BY DEF DueAttempts
    <2>2. Begin(w, "retry", DueAttempts, DueAttempts)
      BY <1>2 DEF BeginRun
    <2>3. QED
      BY <2>1, <2>2
  <1>3. QED
    BY <1>1, <1>2

LEMMA TypeStep == TypeOK /\ [Next]_vars => TypeOK'
  <1> SUFFICES ASSUME TypeOK, [Next]_vars PROVE TypeOK'
    OBVIOUS
  <1>1. Handlers \subseteq Workers /\ Crons \subseteq Workers
    BY DEF Workers
  <1>2. ASSUME NEW w \in Workers, BeginDeliver(w) PROVE TypeOK'
    <2>1. PICK a \in Attempts : Begin(w, "deliver", {a}, {a})
      BY <1>2, BeginDeliverType
    <2>2. {a} \in SUBSET Attempts
      OBVIOUS
    <2>3. QED
      BY <2>1, <2>2, BeginType
  <1>3. ASSUME NEW w \in Workers, BeginRetry(w) \/ BeginRun(w) PROVE TypeOK'
    <2>1. PICK S \in SUBSET Attempts : Begin(w, "retry", S, S)
      BY <1>3, BeginRetryType
    <2>2. QED
      BY <2>1, BeginType
  <1>4. ASSUME NEW w \in Workers, BeginReceipt(w) \/ BeginErase(w) PROVE TypeOK'
    BY <1>4, ReceiptType, EraseType
  <1>5. ASSUME NEW w \in Workers, SendFirst(w) PROVE TypeOK'
    BY <1>5, SendFirstType, TransmitType
  <1>6. ASSUME NEW w \in Workers, SendRetry(w) PROVE TypeOK'
    BY <1>6, SendRetryType, TransmitType
  <1>7. ASSUME NEW w \in Workers, Commit(w) \/ Rollback(w) PROVE TypeOK'
    BY <1>7, CommitType, RollbackType
  <1>8. ASSUME NEW a \in Attempts, Tick(a) \/ Settle(a) PROVE TypeOK'
    BY <1>8, TickType, SettleType
  <1>9. CASE UNCHANGED vars
    BY <1>9 DEF vars, TypeOK
  <1>10. QED
    BY <1>1, <1>2, <1>3, <1>4, <1>5, <1>6, <1>7, <1>8, <1>9 DEF Next, Handler, Progress

LEMMA InitType == Init => TypeOK
  <1> SUFFICES ASSUME Init PROVE TypeOK
    OBVIOUS
  <1>1. 0 \in 0..MaxCopies /\ 0 \in 0..MaxReceipts /\ 0 \in 0..MaxLost
    BY MaxCopiesAssumption, MaxReceiptsAssumption, MaxLostAssumption
  <1>2. QED
    BY <1>1, AbsentOK, IdleOK DEF Init, TypeOK

\* Whatever any number of deliveries, retries, receipts and erasures write over
\* each other's rows, every row stays one, with a whole number of attempts
\* (services/channel_delivery.py, delivery_attempts.py, channel_receipts.py).
THEOREM TypeCorrect == Spec => []TypeOK
  BY InitType, TypeStep, PTL DEF Spec

------------------------------------------------------------------------------
(* Requests handled one at a time *)

\* Beginning a request changes no table: what it intends is all there is to show.
LEMMA BeginKeeps ==
  ASSUME NEW w \in Workers, SInv(w), TypeOK',
         request[w].op = "idle", request'[w].op # "idle",
         request'[w].accepted = {}, request'[w].unsure = {},
         UNCHANGED <<row, erased, copies, fate, acked, orphans>>, Work(w)',
         request'[w].op = "receipt" => \A a \in Attempts, n \in Copy :
           <<a, n>> \in acked /\ request'[w].new[a].status = "failed" => Bounced(a, n)
  PROVE  SInv(w)'
  <1>1. Pending(w)' = {} /\ Pending(w) = {} /\ request'[w].accepted = {}
    BY DEF SInv, Pending
  <1>2. /\ row' = row /\ erased' = erased /\ copies' = copies /\ fate' = fate
        /\ acked' = acked /\ orphans' = orphans
    OBVIOUS
  <1>3. \A a \in Attempts : RowOK(row'[a])
    BY <1>2 DEF SInv
  <1>4. PendingOK(w)'
    BY <1>1 DEF PendingOK
  <1>5. CountedOK(w)'
    BY <1>1, <1>2 DEF SInv, CountedOK, Orphaned
  <1>6. AckedOK(w)'
    <2>1. ASSUME NEW a \in Attempts, NEW n \in Copy, <<a, n>> \in acked, ~Bounced(a, n)
          PROVE  /\ n = copies[a] /\ row[a].status \in {"sent", "delivered", "erased"}
                 /\ row[a].status # "erased" => row[a].provider = ProviderId(a, n)
                 /\ request'[w].op = "receipt" => request'[w].new[a].status # "failed"
      BY <2>1 DEF SInv, AckedOK
    <2>2. QED
      BY <1>2, <2>1 DEF AckedOK, Bounced
  <1>7. NumbersOK' /\ ErasedOK'
    BY <1>2 DEF SInv, NumbersOK, ErasedOK
  <1>8. QED
    BY <1>1, <1>3, <1>4, <1>5, <1>6, <1>7 DEF SInv

LEMMA SerialDeliver ==
  ASSUME NEW w \in Workers, SInv(w), BeginDeliver(w)
  PROVE  SInv(w)'
  <1>1. PICK a \in Attempts : row[a].status = "absent" /\ Begin(w, "deliver", {a}, {a})
    BY BeginDeliverType DEF SInv
  <1>2. {a} \in SUBSET Attempts /\ row[a] = Absent
    BY <1>1 DEF SInv, RowOK
  <1> DEFINE q == request'[w]
  <1>3. /\ TypeOK'
        /\ q.op = "deliver" /\ q.todo = {a} /\ q.accepted = {} /\ q.unsure = {}
        /\ q.read = [b \in Attempts |-> IF b \in {a} THEN row[b] ELSE Absent]
        /\ q.new = q.read
        /\ UNCHANGED <<row, erased, copies, fate, acked, orphans, posted, lost>>
        /\ request[w].op = "idle"
    BY <1>1, <1>2, BeginType DEF SInv
  <1> HIDE DEF q
  <1>4. ASSUME NEW b \in Attempts
        PROVE  q.read[b] = Absent /\ q.new[b] = Absent
    BY <1>2, <1>3
  <1>5. Work(w)'
    <2>1. ASSUME NEW b \in Attempts
          PROVE  Spare(w, b)' \/ InDelivery(w, b)'
      BY <1>2, <1>3, <1>4 DEF Spare, InDelivery, q
    <2>2. QED
      BY <2>1 DEF Work
  <1>6. QED
    BY <1>3, <1>5, BeginKeeps DEF q

LEMMA SerialRetry ==
  ASSUME NEW w \in Workers, SInv(w), BeginRetry(w) \/ BeginRun(w)
  PROVE  SInv(w)'
  <1>1. PICK S \in SUBSET Attempts : /\ \A a \in S : row[a].status = "failed"
                                     /\ Begin(w, "retry", S, S)
    BY BeginRetryType DEF SInv
  <1> DEFINE q == request'[w]
  <1>2. /\ TypeOK'
        /\ q.op = "retry" /\ q.todo = S /\ q.accepted = {} /\ q.unsure = {}
        /\ q.read = [b \in Attempts |-> IF b \in S THEN row[b] ELSE Absent]
        /\ q.new = q.read
        /\ UNCHANGED <<row, erased, copies, fate, acked, orphans, posted, lost>>
        /\ request[w].op = "idle"
    BY <1>1, BeginType DEF SInv
  <1> HIDE DEF q
  <1>3. Work(w)'
    <2>1. ASSUME NEW b \in Attempts
          PROVE  Spare(w, b)' \/ InRetry(w, b)'
      <3>1. CASE b \in S
        <4>1. q.read[b] = row[b] /\ q.new[b] = row[b] /\ row[b].status = "failed"
          BY <1>1, <1>2, <3>1
        <4>2. QED
          BY <1>2, <3>1, <4>1 DEF InRetry, Ticked, q
      <3>2. CASE b \notin S
        <4>1. q.read[b] = Absent /\ q.new[b] = Absent
          BY <1>2, <3>2
        <4>2. QED
          BY <1>2, <3>2, <4>1 DEF Spare, q
      <3>3. QED
        BY <3>1, <3>2
    <2>2. QED
      BY <2>1 DEF Work
  <1>4. QED
    BY <1>2, <1>3, BeginKeeps DEF q

LEMMA SerialReceipt ==
  ASSUME NEW w \in Workers, SInv(w), BeginReceipt(w)
  PROVE  SInv(w)'
  <1> DEFINE q == request'[w]
  <1>1. PICK a \in Attempts, n \in Copy, status \in {"sent", "delivered", "failed"} :
          /\ Matches(a, n) /\ status \in Reports(a, n)
          /\ q.op = "receipt" /\ q.todo = {} /\ q.accepted = {} /\ q.unsure = {}
          /\ q.read = [NoRows EXCEPT ![a] = row[a]]
          /\ q.new = [NoRows EXCEPT ![a] = Received(row[a], status)]
    BY ReceiptType DEF SInv
  <1>2. /\ TypeOK'
        /\ UNCHANGED <<row, erased, copies, fate, acked, orphans, lost>>
        /\ request[w].op = "idle"
    BY ReceiptType DEF SInv
  <1> HIDE DEF q
  <1>3. /\ q.read[a] = row[a] /\ q.new[a] = Received(row[a], status)
        /\ \A b \in Attempts \ {a} : q.read[b] = Absent /\ q.new[b] = Absent
    BY <1>1 DEF NoRows
  <1>4. row[a] \in Row /\ RowOK(row[a]) /\ copies[a] \in 0..MaxCopies /\ MaxCopies \in Nat
    BY MaxCopiesAssumption DEF SInv, TypeOK
  <1>5. n \in Nat /\ n >= 1 /\ ProviderId(a, n) # 0
    BY <1>4 DEF Copy, ProviderId
  <1>6. row[a].status \notin {"absent", "erased"}
    BY <1>1, <1>4, <1>5 DEF Matches, RowOK
  <1>7. Work(w)'
    <2>1. ASSUME NEW b \in Attempts
          PROVE  Spare(w, b)' \/ InReceipt(w, b)'
      <3>1. CASE b = a
        BY <1>1, <1>2, <1>3, <1>6, <3>1 DEF InReceipt, Ticked, q
      <3>2. CASE b # a
        BY <1>1, <1>3, <3>2 DEF Spare, q
      <3>3. QED
        BY <3>1, <3>2
    <2>2. QED
      BY <2>1 DEF Work
  <1>8. ASSUME NEW b \in Attempts, NEW m \in Copy, <<b, m>> \in acked,
               q.new[b].status = "failed"
        PROVE  Bounced(b, m)
    <2>1. b = a
      BY <1>3, <1>8, AbsentOK
    <2>2. status = "failed"
      BY <1>3, <1>4, <1>8, <2>1, ReceivedOK
    <2>3. fate[a][n] = "failed" /\ n \in 1..copies[a]
      <3>1. ~(n > copies[a])
        BY <1>1 DEF Reports
      <3>2. fate[a][n] = "failed"
        BY <1>1, <2>2, <3>1 DEF Reports
      <3>3. QED
        BY <1>4, <1>5, <3>1, <3>2
    <2>4. CASE a \in Emails
      BY <2>1, <2>3, <2>4 DEF Bounced
    <2>5. CASE a \notin Emails
      <3>1. row[a].provider = n
        BY <1>1, <2>5 DEF Matches, ProviderId
      <3>2. CASE Bounced(a, m)
        BY <2>1, <3>2
      <3>3. CASE ~Bounced(a, m)
        <4>1. row[a].provider = ProviderId(a, m)
          BY <1>6, <1>8, <2>1, <3>3 DEF SInv, AckedOK
        <4>2. n = m
          BY <2>5, <3>1, <4>1 DEF ProviderId
        <4>3. QED
          BY <2>1, <2>3, <4>2 DEF Bounced
      <3>4. QED
        BY <3>2, <3>3
    <2>6. QED
      BY <2>4, <2>5
  <1>9. q.op # "idle"
    BY <1>1
  <1>10. QED
    BY <1>1, <1>2, <1>7, <1>8, <1>9, BeginKeeps DEF q

LEMMA SerialErase ==
  ASSUME NEW w \in Workers, SInv(w), BeginErase(w)
  PROVE  SInv(w)'
  <1> DEFINE q == request'[w]
  <1>1. /\ TypeOK'
        /\ q.op = "erase" /\ q.todo = {} /\ q.accepted = {} /\ q.unsure = {}
        /\ \A a \in Attempts :
             IF row[a].status # "absent"
             THEN q.read[a] = row[a] /\ q.new[a] = EraseRow(row[a])
             ELSE q.read[a] = Absent /\ q.new[a] = Absent
        /\ UNCHANGED <<row, erased, copies, fate, acked, orphans, posted, lost>>
        /\ request[w].op = "idle" /\ ~erased
    BY EraseType DEF SInv
  <1> HIDE DEF q
  <1>2. Work(w)'
    <2>1. ASSUME NEW b \in Attempts
          PROVE  Spare(w, b)' \/ InErase(w, b)'
      <3>1. CASE row[b].status # "absent"
        BY <1>1, <3>1 DEF InErase, Ticked, q
      <3>2. CASE row[b].status = "absent"
        <4>1. row[b] = Absent
          BY <3>2 DEF SInv, RowOK
        <4>2. QED
          BY <1>1, <3>2, <4>1 DEF Spare, q
      <3>3. QED
        BY <3>1, <3>2
    <2>2. QED
      BY <2>1 DEF Work
  <1>3. QED
    BY <1>1, <1>2, BeginKeeps DEF q

\* What is known of the row of an attempt that is about to be transmitted.
LEMMA TodoRow ==
  ASSUME NEW w \in Workers, SInv(w), NEW a \in request[w].todo,
         request[w].op \in {"deliver", "retry"}
  PROVE  /\ a \in Attempts
         /\ request[w].op = "deliver" => InDelivery(w, a)
         /\ request[w].op = "retry" => InRetry(w, a)
         /\ row[a].status \in {"absent", "failed"} /\ row[a].count = request[w].read[a].count
         /\ row[a].address = request[w].read[a].address
         /\ \A n \in Copy : <<a, n>> \notin Pending(w) /\ (<<a, n>> \in acked => Bounced(a, n))
  <1>1. a \in Attempts /\ request[w].read[a] \in Row
    BY DEF SInv, TypeOK, Request
  <1>2. \/ request[w].op = "deliver" /\ InDelivery(w, a)
        \/ request[w].op = "retry" /\ InRetry(w, a)
    BY <1>1 DEF SInv, Work, Spare, InDelivery, InRetry, InReceipt, InErase
  <1>3. /\ row[a].status \in {"absent", "failed"}
        /\ row[a].count = request[w].read[a].count
        /\ row[a].address = request[w].read[a].address
    <2>1. CASE InDelivery(w, a)
      BY <2>1, AbsentOK DEF InDelivery
    <2>2. CASE InRetry(w, a)
      BY <1>1, <2>2 DEF InRetry, Ticked, Row
    <2>3. QED
      BY <1>2, <2>1, <2>2
  <1>4. \A n \in Copy : <<a, n>> \notin Pending(w)
    BY <1>1 DEF SInv, PendingOK
  <1>5. \A n \in Copy : <<a, n>> \in acked => Bounced(a, n)
    BY <1>1, <1>3 DEF SInv, AckedOK
  <1>6. QED
    BY <1>1, <1>2, <1>3, <1>4, <1>5

LEMMA BouncedGrows ==
  ASSUME NEW a \in Attempts, NEW n, Bounced(a, n), copies[a] \in Nat,
         copies'[a] \in Nat, copies'[a] >= copies[a],
         \A m \in 1..copies[a] : fate[a][m] = "failed" => fate'[a][m] = "failed"
  PROVE  Bounced(a, n)'
  <1>1. PICK m \in 1..copies[a] : fate[a][m] = "failed" /\ (a \in Emails \/ m = n)
    BY DEF Bounced
  <1>2. m \in 1..copies'[a] /\ fate'[a][m] = "failed"
    BY <1>1
  <1>3. QED
    BY <1>1, <1>2 DEF Bounced

LEMMA OrphanedFinite ==
  ASSUME TypeOK, NEW a \in Attempts
  PROVE  IsFiniteSet(Orphaned(a)) /\ Cardinality(Orphaned(a)) \in Nat
  <1>1. IsFiniteSet(Copy)
    BY MaxCopiesAssumption, FS_Interval DEF Copy
  <1>2. IsFiniteSet({a} \X Copy)
    BY <1>1, FS_Singleton, FS_Product
  <1>3. Orphaned(a) \subseteq {a} \X Copy
    BY DEF Orphaned, TypeOK
  <1>4. IsFiniteSet(Orphaned(a))
    BY <1>2, <1>3, FS_Subset
  <1>5. QED
    BY <1>4, FS_CardinalityType

\* A call of the client: one more copy at most, for a row that nothing was
\* recorded as sent for, or that bounced.
LEMMA TransmitKeeps ==
  ASSUME NEW w \in Workers, SInv(w), request[w].op \in {"deliver", "retry"},
         NEW a \in request[w].todo, NEW seen \in Row,
         seen.count = request[w].read[a].count,
         request[w].op = "deliver" => seen.address = ~erased,
         request[w].op = "retry" => seen.address = request[w].read[a].address,
         NEW outcome \in {"local", "failed", "sent", "unsure"},
         outcome \in {"sent", "unsure"} => copies[a] < MaxCopies,
         Transmit(w, a, seen, outcome)
  PROVE  SInv(w)'
  <1> DEFINE r == request[w]
             q == request'[w]
             copy == {<<a, copies[a] + 1>>}
             new == Result(a, seen, outcome)
             went == outcome \in {"sent", "unsure"}
  <1>1. /\ a \in Attempts
        /\ r.op = "deliver" => InDelivery(w, a)
        /\ r.op = "retry" => InRetry(w, a)
        /\ row[a].status \in {"absent", "failed"} /\ row[a].count = r.read[a].count
        /\ \A n \in Copy : <<a, n>> \notin Pending(w) /\ (<<a, n>> \in acked => Bounced(a, n))
    BY TodoRow
  <1>2. /\ TypeOK'
        /\ q.op = r.op /\ q.read = r.read /\ q.todo = r.todo \ {a}
        /\ q.new = [r.new EXCEPT ![a] = new]
        /\ q.accepted = IF outcome = "sent" THEN r.accepted \cup copy ELSE r.accepted
        /\ q.unsure = IF outcome = "unsure" THEN r.unsure \cup copy ELSE r.unsure
        /\ copies' = [copies EXCEPT ![a] = IF outcome \in {"sent", "unsure"}
                                           THEN @ + 1 ELSE @]
        /\ UNCHANGED <<row, erased, fate, acked, orphans, posted, lost>>
    BY <1>1, TransmitType DEF SInv
  <1>3. /\ copies \in [Attempts -> 0..MaxCopies] /\ MaxCopies \in Nat
        /\ r.new \in [Attempts -> Dirty] /\ r.todo \subseteq Attempts
        /\ row \in [Attempts -> Row] /\ copies[a] \in 0..MaxCopies
    BY MaxCopiesAssumption DEF SInv, TypeOK, Request
  <1>4. /\ IsResult(seen, new) /\ new.address = seen.address
        /\ outcome = "sent" => new.status = "sent" /\ new.provider = ProviderId(a, copies[a] + 1)
    BY <1>1, <1>3, ResultOK
  <1> HIDE DEF new
  <1>5. q.new[a] = new /\ \A b \in Attempts \ {a} : q.new[b] = r.new[b]
    BY <1>1, <1>2, <1>3
  <1>6. /\ copies'[a] = IF went THEN copies[a] + 1 ELSE copies[a]
        /\ \A b \in Attempts \ {a} : copies'[b] = copies[b]
    BY <1>1, <1>2, <1>3
  <1>7. Pending(w)' = IF went THEN Pending(w) \cup copy ELSE Pending(w)
    BY <1>2 DEF Pending
  <1>8. IsResult(r.read[a], new)
    BY <1>4 DEF IsResult
  <1>9. new.count = row[a].count + 1
    BY <1>1, <1>8 DEF IsResult
  <1> HIDE DEF q, r, went, copy
  <1>10. Work(w)'
    <2>1. ASSUME NEW b \in Attempts, b # a
          PROVE  (Spare(w, b) \/ InDelivery(w, b) \/ InRetry(w, b) \/ InReceipt(w, b)
                    \/ InErase(w, b))'
      <3>1. Spare(w, b) \/ InDelivery(w, b) \/ InRetry(w, b) \/ InReceipt(w, b) \/ InErase(w, b)
        BY DEF SInv, Work
      <3>2. /\ q.op = r.op /\ q.read[b] = r.read[b] /\ q.new[b] = r.new[b]
            /\ b \in q.todo <=> b \in r.todo
            /\ row' = row /\ erased' = erased
        BY <1>2, <1>5, <2>1
      <3>3. CASE Spare(w, b)
        BY <3>2, <3>3 DEF Spare, q, r
      <3>4. CASE InDelivery(w, b)
        BY <3>2, <3>4 DEF InDelivery, q, r
      <3>5. CASE InRetry(w, b)
        BY <3>2, <3>5 DEF InRetry, q, r
      <3>6. CASE InReceipt(w, b) \/ InErase(w, b)
        BY <3>6 DEF InReceipt, InErase
      <3>7. QED
        BY <3>1, <3>3, <3>4, <3>5, <3>6
    <2>2. CASE r.op = "deliver"
      <3>1. r.read[a] = Absent /\ row[a] = Absent /\ a \notin q.todo /\ row' = row /\ erased' = erased
        BY <1>1, <1>2, <2>2 DEF InDelivery, r
      <3>2. new.address = ~erased
        BY <1>4, <2>2 DEF r
      <3>3. InDelivery(w, a)'
        BY <1>2, <1>5, <1>8, <2>2, <3>1, <3>2 DEF InDelivery, q
      <3>4. QED
        BY <2>1, <3>3 DEF Work
    <2>3. CASE r.op = "retry"
      <3>1. r.read[a].status = "failed" /\ Ticked(r.read[a], row[a]) /\ a \notin q.todo /\ row' = row
        BY <1>1, <1>2, <2>3 DEF InRetry, r
      <3>2. new.address = r.read[a].address
        BY <1>4, <2>3 DEF r
      <3>3. InRetry(w, a)'
        BY <1>2, <1>5, <1>8, <2>3, <3>1, <3>2 DEF InRetry, q
      <3>4. QED
        BY <2>1, <3>3 DEF Work
    <2>4. QED
      BY <2>2, <2>3 DEF r
  <1>11. PendingOK(w)'
    <2>1. ASSUME NEW b \in Attempts, NEW n \in Copy, <<b, n>> \in Pending(w)'
          PROVE  /\ n = copies'[b] /\ <<b, n>> \notin orphans
                 /\ b \notin q.todo /\ q.new[b].count = row[b].count + 1
                 /\ <<b, n>> \in q.accepted
                      => q.new[b].status = "sent" /\ q.new[b].provider = ProviderId(b, n)
      <3>1. CASE b = a
        <4>1. <<b, n>> \in copy /\ went
          BY <1>1, <1>7, <2>1, <3>1
        <4>2. n = copies[a] + 1
          BY <3>1, <4>1 DEF copy
        <4>3. <<a, n>> \notin orphans
          <5>1. <<a, n>> \in orphans => n <= copies[a]
            BY <1>1 DEF SInv, NumbersOK
          <5>2. QED
            BY <1>3, <4>2, <5>1
        <4>4. <<b, n>> \in q.accepted => outcome = "sent"
          BY <1>1, <1>2, <3>1 DEF Pending, r
        <4>5. QED
          BY <1>2, <1>4, <1>5, <1>6, <1>9, <3>1, <4>1, <4>2, <4>3, <4>4
      <3>2. CASE b # a
        <4>1. <<b, n>> \in Pending(w) /\ (<<b, n>> \in q.accepted => <<b, n>> \in r.accepted)
          BY <1>2, <1>7, <2>1, <3>2 DEF copy
        <4>2. /\ n = copies[b] /\ <<b, n>> \notin orphans
              /\ b \notin r.todo /\ r.new[b].count = row[b].count + 1
              /\ <<b, n>> \in r.accepted
                   => r.new[b].status = "sent" /\ r.new[b].provider = ProviderId(b, n)
          BY <4>1 DEF SInv, PendingOK, r
        <4>3. QED
          BY <1>2, <1>5, <1>6, <3>2, <4>1, <4>2
      <3>3. QED
        BY <3>1, <3>2
    <2>2. \A b \in Attempts, n \in Copy : <<b, n>> \in q.accepted => <<b, n>> \in Pending(w)'
      BY DEF Pending, q
    <2>3. q.op \in {"deliver", "retry"} /\ orphans' = orphans /\ row' = row
      BY <1>2 DEF r
    <2>4. ASSUME NEW b \in Attempts, NEW n \in Copy
          PROVE  /\ <<b, n>> \in Pending(w)' =>
                      /\ n = copies'[b] /\ <<b, n>> \notin orphans'
                      /\ q.op \in {"deliver", "retry"} /\ b \notin q.todo
                      /\ q.new[b].count = row'[b].count + 1
                 /\ <<b, n>> \in q.accepted =>
                      q.new[b].status = "sent" /\ q.new[b].provider = ProviderId(b, n)
      BY <2>1, <2>2, <2>3
    <2>5. QED
      BY <2>4 DEF PendingOK, q
  <1>12. CountedOK(w)'
    <2>1. ASSUME NEW b \in Attempts
          PROVE  copies'[b] <= row[b].count + Cardinality(Orphaned(b))
                   + (IF \E n \in Copy : <<b, n>> \in Pending(w)' THEN 1 ELSE 0)
      <3> DEFINE o == Cardinality(Orphaned(b))
                 p == IF \E n \in Copy : <<b, n>> \in Pending(w) THEN 1 ELSE 0
                 p1 == IF \E n \in Copy : <<b, n>> \in Pending(w)' THEN 1 ELSE 0
      <3>1. copies[b] <= row[b].count + o + p
        BY DEF SInv, CountedOK
      <3>2. o \in Nat /\ row[b].count \in Nat /\ copies[b] \in Nat
        BY <1>3, OrphanedFinite DEF SInv, Row
      <3>3. CASE b # a
        <4>1. \A n \in Copy : <<b, n>> \in Pending(w)' <=> <<b, n>> \in Pending(w)
          BY <1>7, <3>3 DEF copy
        <4>2. p1 = p /\ copies'[b] = copies[b]
          BY <1>6, <3>3, <4>1
        <4> HIDE DEF o, p, p1
        <4>3. QED
          BY <3>1, <4>2 DEF o, p1
      <3>4. CASE b = a
        <4>1. p = 0
          BY <1>1, <3>4
        <4>2. went => p1 = 1
          <5>1. went => copies[a] + 1 \in Copy
            BY <1>3 DEF went, Copy
          <5>2. went => <<a, copies[a] + 1>> \in Pending(w)'
            BY <1>7 DEF copy
          <5>3. QED
            BY <3>4, <5>1, <5>2
        <4>3. p1 \in {0, 1}
          OBVIOUS
        <4> HIDE DEF o, p, p1
        <4>4. copies'[b] <= row[b].count + o + p1
          BY <1>6, <3>1, <3>2, <3>4, <4>1, <4>2, <4>3
        <4>5. QED
          BY <4>4 DEF o, p1
      <3>5. QED
        BY <3>3, <3>4
    <2>2. QED
      BY <1>2, <2>1 DEF CountedOK, Orphaned
  <1>13. \A b \in Attempts : /\ copies[b] \in Nat /\ copies'[b] \in Nat /\ copies'[b] >= copies[b]
                             /\ fate' = fate
    BY <1>2, <1>3, <1>6
  <1>14. AckedOK(w)'
    <2>1. ASSUME NEW b \in Attempts, NEW n \in Copy, <<b, n>> \in acked
          PROVE  \/ Bounced(b, n)'
                 \/ /\ n = copies'[b] /\ row[b].status \in {"sent", "delivered", "erased"}
                    /\ row[b].status # "erased" => row[b].provider = ProviderId(b, n)
      <3>1. CASE Bounced(b, n)
        BY <1>13, <3>1, BouncedGrows
      <3>2. CASE ~Bounced(b, n)
        <4>1. b # a
          BY <1>1, <2>1, <3>2
        <4>2. QED
          BY <1>6, <2>1, <3>2, <4>1 DEF SInv, AckedOK
      <3>3. QED
        BY <3>1, <3>2
    <2>2. q.op # "receipt" /\ row' = row /\ acked' = acked
      BY <1>2 DEF r
    <2>3. QED
      BY <2>1, <2>2 DEF AckedOK, q
  <1>15. NumbersOK' /\ ErasedOK'
    <2>1. ASSUME NEW b \in Attempts, NEW n \in Copy, <<b, n>> \in orphans \cup acked
          PROVE  n <= copies'[b]
      <3>1. n <= copies[b] /\ n \in Nat
        BY <1>3, <2>1 DEF SInv, NumbersOK, Copy
      <3>2. QED
        BY <1>13, <3>1
    <2>2. row' = row /\ erased' = erased /\ orphans' = orphans /\ acked' = acked
      BY <1>2
    <2>3. QED
      BY <2>1, <2>2 DEF SInv, NumbersOK, ErasedOK
  <1>16. QED
    BY <1>2, <1>10, <1>11, <1>12, <1>14, <1>15 DEF SInv, q, r

LEMMA SerialSendFirst ==
  ASSUME NEW w \in Workers, SInv(w), SendFirst(w)
  PROVE  SInv(w)' /\ (erased => copies' = copies)
  <1>1. PICK a \in request[w].todo, outcome \in {"local", "failed", "sent", "unsure"} :
          LET seen == [Absent EXCEPT !.external = TRUE, !.address = ~erased] IN
          /\ request[w].op = "deliver" /\ a \in Attempts
          /\ seen \in Row /\ seen.count = 0 /\ seen.address = ~erased
          /\ outcome \in {"sent", "unsure"} => copies[a] < MaxCopies /\ ~erased
          /\ Transmit(w, a, seen, outcome)
    BY SendFirstType DEF SInv
  <1> DEFINE seen == [Absent EXCEPT !.external = TRUE, !.address = ~erased]
  <1>2. /\ seen \in Row /\ seen.count = 0 /\ seen.address = ~erased
        /\ Transmit(w, a, seen, outcome) /\ request[w].op = "deliver"
        /\ outcome \in {"sent", "unsure"} => copies[a] < MaxCopies /\ ~erased
    BY <1>1
  <1> HIDE DEF seen
  <1>3. request[w].read[a].count = 0
    BY <1>2, TodoRow, AbsentOK DEF InDelivery
  <1>4. SInv(w)'
    BY <1>2, <1>3, TransmitKeeps
  <1>5. erased => copies' = copies
    <2>1. copies' = [copies EXCEPT ![a] = IF outcome \in {"sent", "unsure"} THEN @ + 1 ELSE @]
      BY <1>2 DEF Transmit
    <2>2. QED
      BY <1>2, <2>1 DEF SInv, TypeOK
  <1>6. QED
    BY <1>4, <1>5

LEMMA SerialSendRetry ==
  ASSUME NEW w \in Workers, SInv(w), SendRetry(w)
  PROVE  SInv(w)' /\ (erased => copies' = copies)
  <1>1. PICK a \in request[w].todo, outcome \in {"local", "failed", "sent", "unsure"} :
          LET seen == request[w].read[a] IN
          /\ request[w].op = "retry" /\ a \in Attempts
          /\ seen \in Row
          /\ outcome \in {"sent", "unsure"} => copies[a] < MaxCopies /\ seen.address
          /\ Transmit(w, a, seen, outcome)
    BY SendRetryType DEF SInv
  <1>2. SInv(w)'
    BY <1>1, TransmitKeeps
  <1>3. erased => ~request[w].read[a].address
    BY <1>1, TodoRow DEF SInv, ErasedOK
  <1>4. erased => copies' = copies
    <2>1. copies' = [copies EXCEPT ![a] = IF outcome \in {"sent", "unsure"} THEN @ + 1 ELSE @]
      BY <1>1 DEF Transmit
    <2>2. QED
      BY <1>1, <1>3, <2>1 DEF SInv, TypeOK
  <1>5. QED
    BY <1>2, <1>4

\* The row that a commit leaves.
LEMMA CommitRow ==
  ASSUME NEW w \in Workers, SInv(w), Commit(w), NEW a \in Attempts
  PROVE  LET r == request[w] IN
         /\ row'[a] \in Row /\ row[a] \in Row /\ RowOK(row'[a])
         /\ row[a].status = "erased" => row'[a] = row[a]
         /\ row'[a].status = "erased" => erased'
         /\ erased' => ~row'[a].address
         /\ \/ Spare(w, a) /\ row'[a] = row[a]
            \/ /\ InDelivery(w, a) \/ InRetry(w, a)
               /\ row'[a].status = r.new[a].status /\ row'[a].provider = r.new[a].provider
               /\ row'[a].count = r.new[a].count /\ row'[a].count = row[a].count + 1
               /\ row[a].status \in {"absent", "failed"}
            \/ /\ InReceipt(w, a) /\ row'[a].status = r.new[a].status
               /\ row'[a].status \in {"sent", "delivered", "failed"}
               /\ row'[a].provider = row[a].provider /\ row'[a].count = row[a].count
            \/ InErase(w, a) /\ row'[a].status = "erased" /\ row'[a].count = row[a].count
  <1> DEFINE r == request[w]
             old == r.read[a]
             new == r.new[a]
             p == PutRow(old, new, row[a])
  <1>1. /\ row' = [b \in Attempts |-> PutRow(r.read[b], r.new[b], row[b])]
        /\ erased' = (erased \/ r.op = "erase")
        /\ r.op # "idle" /\ r.todo = {}
    BY DEF Commit
  <1>2. row'[a] = p
    BY <1>1
  <1>3. /\ old \in Row /\ new \in Dirty /\ row[a] \in Row /\ RowOK(row[a])
        /\ row[a].status = "erased" => erased
        /\ erased => ~row[a].address
    BY DEF SInv, TypeOK, Request, ErasedOK
  <1>4. p \in Row
    BY <1>3, PutRowType
  <1> HIDE DEF p
  <1>5. Ticked(old, row[a]) =>
          /\ p.status = new.status /\ p.count = new.count /\ p.provider = new.provider
          /\ p.external = new.external /\ p.address = new.address
          /\ new.due = "fresh" => p.due = "later"
          /\ new.due = "none" => p.due = "none"
          /\ row[a].status = old.status /\ row[a].count = old.count
          /\ row[a].provider = old.provider /\ row[a].address = old.address
    <2>1. ASSUME Ticked(old, row[a])
          PROVE  /\ row[a].status = old.status /\ row[a].count = old.count
                 /\ row[a].provider = old.provider /\ row[a].address = old.address
      BY <1>3, <2>1 DEF Ticked, Row
    <2>2. QED
      BY <1>3, <2>1, PutTicked DEF p
  <1>6. Spare(w, a) \/ InDelivery(w, a) \/ InRetry(w, a) \/ InReceipt(w, a) \/ InErase(w, a)
    BY <1>1 DEF SInv, Work
  <1>7. CASE Spare(w, a)
    <2>1. p = row[a]
      BY <1>3, <1>7, AbsentOK, PutNothing DEF Spare, p
    <2>2. r.op = "erase" => ~row[a].address
      BY <1>7, AbsentOK DEF Spare
    <2>3. QED
      BY <1>1, <1>2, <1>3, <1>4, <1>7, <2>1, <2>2
  <1>8. CASE InDelivery(w, a)
    <2>1. /\ old = Absent /\ row[a] = Absent /\ IsResult(Absent, new) /\ new.address = ~erased
          /\ r.op # "erase"
      BY <1>1, <1>8 DEF InDelivery
    <2>2. Ticked(old, row[a])
      BY <2>1 DEF Ticked
    <2>3. /\ p.status \in {"local", "sent", "failed"} /\ p.status = new.status
          /\ p.due = IF p.status = "failed" THEN "later" ELSE "none"
          /\ p.count = new.count /\ p.count = row[a].count + 1 /\ p.provider = new.provider
          /\ p.address = ~erased
      BY <1>5, <2>1, <2>2 DEF IsResult
    <2>4. RowOK(p)
      BY <2>3 DEF RowOK
    <2>5. row[a].status = "absent"
      BY <2>1, AbsentOK
    <2> HIDE DEF r, old, new
    <2>6. QED
      BY <1>1, <1>2, <1>3, <1>4, <1>8, <2>1, <2>3, <2>4, <2>5 DEF r, new
  <1>9. CASE InRetry(w, a)
    <2>1. /\ old.status = "failed" /\ Ticked(old, row[a]) /\ IsResult(old, new)
          /\ new.address = old.address /\ r.op # "erase"
      BY <1>1, <1>9 DEF InRetry
    <2>2. /\ p.status \in {"local", "sent", "failed"} /\ p.status = new.status
          /\ p.due = IF p.status = "failed" THEN "later" ELSE "none"
          /\ p.count = new.count /\ p.count = row[a].count + 1 /\ p.provider = new.provider
          /\ p.address = row[a].address /\ row[a].status = "failed"
      BY <1>5, <2>1 DEF IsResult
    <2>3. RowOK(p)
      BY <2>2 DEF RowOK
    <2> HIDE DEF r, old, new
    <2>4. QED
      BY <1>1, <1>2, <1>3, <1>4, <1>9, <2>1, <2>2, <2>3 DEF r, new
  <1>10. CASE InReceipt(w, a)
    <2>1. /\ old.status \notin {"absent", "erased"} /\ Ticked(old, row[a]) /\ r.op # "erase"
      BY <1>10 DEF InReceipt
    <2>2. PICK status \in {"sent", "delivered", "failed"} : new = Received(old, status)
      BY <1>10 DEF InReceipt
    <2>3. /\ new.status = status
          /\ new.due = IF status = "failed" THEN "fresh" ELSE "none"
          /\ new.count = old.count /\ new.provider = old.provider
          /\ new.external = old.external /\ new.address = old.address
      BY <1>3, <2>2, ReceivedOK
    <2>4. /\ p.status \in {"sent", "delivered", "failed"} /\ p.status = new.status
          /\ p.due = IF p.status = "failed" THEN "later" ELSE "none"
          /\ p.count = row[a].count /\ p.provider = row[a].provider
          /\ p.address = row[a].address /\ row[a].status # "erased"
      BY <1>5, <2>1, <2>3
    <2>5. RowOK(p)
      BY <2>4 DEF RowOK
    <2> HIDE DEF r, old, new
    <2>6. QED
      BY <1>1, <1>2, <1>3, <1>4, <1>10, <2>1, <2>4, <2>5 DEF r, new
  <1>11. CASE InErase(w, a)
    <2>1. Ticked(old, row[a]) /\ r.op = "erase" /\ ~erased /\ new = EraseRow(old)
      BY <1>11 DEF InErase
    <2>2. /\ new.status = "erased" /\ new.due = "none"
          /\ new.count = old.count /\ new.provider = 0 /\ ~new.external /\ ~new.address
      BY <1>3, <2>1, EraseRowOK
    <2>3. /\ p.status = "erased" /\ p.due = "none" /\ p.count = row[a].count
          /\ p.provider = 0 /\ ~p.external /\ ~p.address
      BY <1>5, <2>1, <2>2
    <2>4. RowOK(p)
      BY <2>3 DEF RowOK
    <2> HIDE DEF r, old, new
    <2>5. QED
      BY <1>1, <1>2, <1>3, <1>4, <1>11, <2>1, <2>3, <2>4 DEF r
  <1>12. QED
    BY <1>6, <1>7, <1>8, <1>9, <1>10, <1>11

LEMMA SerialCommit ==
  ASSUME NEW w \in Workers, SInv(w), Commit(w)
  PROVE  SInv(w)'
  <1> DEFINE r == request[w]
  <1>1. /\ request'[w] = Idle /\ r.op # "idle" /\ r.todo = {}
        /\ acked' = acked \cup r.accepted
        /\ UNCHANGED <<copies, fate, orphans, posted, lost>>
    BY DEF Commit, SInv, TypeOK
  <1>2. TypeOK'
    BY CommitType DEF SInv
  <1>3. /\ Pending(w)' = {} /\ request'[w].op = "idle" /\ request'[w].accepted = {}
    BY <1>1, IdleOK DEF Pending
  <1>4. Work(w)' /\ PendingOK(w)'
    BY <1>3 DEF Work, PendingOK
  <1>5. \A a \in Attempts : RowOK(row'[a])
    BY CommitRow
  <1>6. CountedOK(w)'
    <2>1. ASSUME NEW a \in Attempts
          PROVE  copies[a] <= row'[a].count + Cardinality(Orphaned(a)) + 0
      <3> DEFINE o == Cardinality(Orphaned(a))
                 p == IF \E n \in Copy : <<a, n>> \in Pending(w) THEN 1 ELSE 0
      <3>1. copies[a] <= row[a].count + o + p
        BY DEF SInv, CountedOK
      <3>2. /\ o \in Nat /\ row[a].count \in Nat /\ copies[a] \in Nat
            /\ row'[a].count \in Nat
        BY <1>2, OrphanedFinite, MaxCopiesAssumption DEF SInv, TypeOK, Row
      <3>3. row'[a].count = row[a].count + 1 \/ row'[a].count = row[a].count
        BY CommitRow
      <3>4. p = 1 => row'[a].count = row[a].count + 1
        <4>1. SUFFICES ASSUME p = 1 PROVE row'[a].count = row[a].count + 1
          OBVIOUS
        <4>2. PICK n \in Copy : <<a, n>> \in Pending(w)
          BY <4>1
        <4>3. /\ r.op \in {"deliver", "retry"} /\ r.new[a].count = row[a].count + 1
          BY <4>2 DEF SInv, PendingOK
        <4>4. ~Spare(w, a)
          BY <3>2, <4>3, AbsentOK DEF Spare
        <4>5. QED
          BY <4>3, <4>4, CommitRow DEF InReceipt, InErase
      <3>5. p \in {0, 1}
        OBVIOUS
      <3> HIDE DEF o, p
      <3>6. copies[a] <= row'[a].count + o + 0
        BY <3>1, <3>2, <3>3, <3>4, <3>5
      <3>7. QED
        BY <3>6 DEF o
    <2>2. QED
      BY <1>1, <1>3, <2>1 DEF CountedOK, Orphaned
  <1>7. ASSUME NEW a \in Attempts, NEW n \in Copy, <<a, n>> \in r.accepted
        PROVE  /\ n = copies[a] /\ row'[a].status = "sent"
               /\ row'[a].provider = ProviderId(a, n)
    <2>1. /\ n = copies[a] /\ r.op \in {"deliver", "retry"} /\ r.new[a].count = row[a].count + 1
          /\ r.new[a].status = "sent" /\ r.new[a].provider = ProviderId(a, n)
      BY <1>7 DEF SInv, PendingOK, Pending
    <2>2. row[a].count \in Nat
      BY DEF SInv, TypeOK, Row
    <2>3. ~Spare(w, a)
      BY <2>1, <2>2, AbsentOK DEF Spare
    <2>4. QED
      BY <2>1, <2>3, CommitRow DEF InReceipt, InErase
  <1>8. ASSUME NEW a \in Attempts, NEW n \in Copy, <<a, n>> \in acked, ~Bounced(a, n)
        PROVE  /\ n = copies[a] /\ row'[a].status \in {"sent", "delivered", "erased"}
               /\ row'[a].status # "erased" => row'[a].provider = ProviderId(a, n)
    <2>1. /\ n = copies[a] /\ row[a].status \in {"sent", "delivered", "erased"}
          /\ row[a].status # "erased" => row[a].provider = ProviderId(a, n)
          /\ r.op = "receipt" => r.new[a].status # "failed"
      BY <1>8 DEF SInv, AckedOK
    <2>2. row[a].status = "erased" => row'[a] = row[a]
      BY CommitRow
    <2>3. CASE Spare(w, a) /\ row'[a] = row[a]
      BY <2>1, <2>3
    <2>4. CASE /\ InReceipt(w, a) /\ row'[a].status = r.new[a].status
               /\ row'[a].status \in {"sent", "delivered", "failed"}
               /\ row'[a].provider = row[a].provider
      BY <2>1, <2>2, <2>4 DEF InReceipt
    <2>5. CASE row'[a].status = "erased"
      BY <2>1, <2>5
    <2>6. QED
      BY <2>1, <2>3, <2>4, <2>5, CommitRow
  <1>9. AckedOK(w)'
    <2>1. ASSUME NEW a \in Attempts, NEW n \in Copy, <<a, n>> \in acked', ~Bounced(a, n)
          PROVE  /\ n = copies[a] /\ row'[a].status \in {"sent", "delivered", "erased"}
                 /\ row'[a].status # "erased" => row'[a].provider = ProviderId(a, n)
      BY <1>1, <1>7, <1>8, <2>1
    <2>2. QED
      BY <1>1, <1>3, <2>1 DEF AckedOK, Bounced
  <1>10. NumbersOK'
    <2>1. ASSUME NEW a \in Attempts, NEW n \in Copy, <<a, n>> \in orphans \cup acked'
          PROVE  n <= copies[a]
      <3>1. CASE <<a, n>> \in r.accepted
        BY <1>7, <3>1 DEF SInv, TypeOK, Copy
      <3>2. CASE <<a, n>> \in orphans \cup acked
        BY <3>2 DEF SInv, NumbersOK
      <3>3. QED
        BY <1>1, <2>1, <3>1, <3>2
    <2>2. QED
      BY <1>1, <2>1 DEF NumbersOK
  <1>11. ErasedOK'
    BY CommitRow DEF ErasedOK
  <1>12. QED
    BY <1>2, <1>3, <1>4, <1>5, <1>6, <1>9, <1>10, <1>11 DEF SInv

\* A transaction is lost: what it sent moves from the pending to the orphans.
LEMMA SerialRollback ==
  ASSUME NEW w \in Workers, SInv(w), Rollback(w)
  PROVE  SInv(w)'
  <1> DEFINE r == request[w]
  <1>1. /\ request'[w] = Idle /\ orphans' = orphans \cup Pending(w)
        /\ UNCHANGED <<row, erased, copies, fate, acked, posted>>
    BY DEF Rollback, Pending, SInv, TypeOK
  <1>2. TypeOK'
    BY RollbackType DEF SInv
  <1>3. /\ Pending(w)' = {} /\ request'[w].op = "idle" /\ request'[w].accepted = {}
    BY <1>1, IdleOK DEF Pending
  <1>4. Work(w)' /\ PendingOK(w)'
    BY <1>3 DEF Work, PendingOK
  <1>5. CountedOK(w)'
    <2>1. ASSUME NEW a \in Attempts
          PROVE  copies[a] <= row[a].count + Cardinality(Orphaned(a)') + 0
      <3>1. copies[a] <= row[a].count + Cardinality(Orphaned(a))
                           + (IF \E n \in Copy : <<a, n>> \in Pending(w) THEN 1 ELSE 0)
        BY DEF SInv, CountedOK
      <3>2. /\ IsFiniteSet(Orphaned(a)) /\ Cardinality(Orphaned(a)) \in Nat
            /\ row[a].count \in Nat /\ copies[a] \in Nat
        BY OrphanedFinite, MaxCopiesAssumption DEF SInv, TypeOK, Row
      <3>3. Pending(w) \subseteq Attempts \X Copy
        BY DEF Pending, SInv, TypeOK, Request
      <3>4. CASE \E n \in Copy : <<a, n>> \in Pending(w)
        <4>1. PICK n \in Copy : <<a, n>> \in Pending(w)
          BY <3>4
        <4>2. n = copies[a] /\ <<a, n>> \notin orphans
          BY <4>1 DEF SInv, PendingOK
        <4>3. \A m \in Copy : <<a, m>> \in Pending(w) => m = n
          BY <4>2 DEF SInv, PendingOK
        <4>4. Orphaned(a)' = Orphaned(a) \cup {<<a, n>>}
          BY <1>1, <3>3, <4>1, <4>3 DEF Orphaned
        <4>5. <<a, n>> \notin Orphaned(a)
          BY <4>2 DEF Orphaned
        <4>6. Cardinality(Orphaned(a)') = Cardinality(Orphaned(a)) + 1
          BY <3>2, <4>4, <4>5, FS_AddElement
        <4>7. QED
          BY <3>1, <3>2, <3>4, <4>6
      <3>5. CASE ~\E n \in Copy : <<a, n>> \in Pending(w)
        <4>1. Orphaned(a)' = Orphaned(a)
          BY <1>1, <3>3, <3>5 DEF Orphaned
        <4>2. QED
          BY <3>1, <3>2, <3>5, <4>1
      <3>6. QED
        BY <3>4, <3>5
    <2>2. QED
      BY <1>1, <1>3, <2>1 DEF CountedOK
  <1>6. AckedOK(w)'
    BY <1>1, <1>3 DEF SInv, AckedOK, Bounced
  <1>7. NumbersOK'
    <2>1. ASSUME NEW a \in Attempts, NEW n \in Copy, <<a, n>> \in orphans' \cup acked
          PROVE  n <= copies[a]
      <3>1. CASE <<a, n>> \in Pending(w)
        <4>1. n = copies[a]
          BY <3>1 DEF SInv, PendingOK
        <4>2. QED
          BY <4>1 DEF SInv, TypeOK, Copy
      <3>2. CASE <<a, n>> \in orphans \cup acked
        BY <3>2 DEF SInv, NumbersOK
      <3>3. QED
        BY <1>1, <2>1, <3>1, <3>2
    <2>2. QED
      BY <1>1, <2>1 DEF NumbersOK
  <1>8. ErasedOK' /\ \A a \in Attempts : RowOK(row'[a])
    BY <1>1 DEF SInv, ErasedOK
  <1>9. QED
    BY <1>2, <1>3, <1>4, <1>5, <1>6, <1>7, <1>8 DEF SInv

LEMMA SerialTick ==
  ASSUME NEW w \in Workers, SInv(w), NEW a \in Attempts, Tick(a)
  PROVE  SInv(w)' /\ row[a].status # "erased" /\ \A b \in Attempts \ {a} : row'[b] = row[b]
  <1> DEFINE x == [row[a] EXCEPT !.due = "now"]
  <1>1. /\ row[a].due = "later" /\ row[a] \in Row /\ RowOK(row[a]) /\ row'[a] = x
        /\ \A b \in Attempts \ {a} : row'[b] = row[b]
        /\ UNCHANGED <<erased, request, copies, fate, acked, orphans, posted, lost>>
    BY DEF Tick, SInv, TypeOK
  <1>2. /\ x.status = row[a].status /\ x.count = row[a].count /\ x.provider = row[a].provider
        /\ x.external = row[a].external /\ x.address = row[a].address /\ x.due = "now"
    BY <1>1 DEF Row
  <1>3. row[a].status = "failed" /\ row[a] # Absent
    BY <1>1, AbsentOK DEF RowOK
  <1>4. TypeOK'
    BY TickType DEF SInv
  <1>5. \A old \in Row : Ticked(old, row[a]) => Ticked(old, x)
    <2>1. SUFFICES ASSUME NEW old \in Row, Ticked(old, row[a])
                   PROVE  Ticked(old, x)
      OBVIOUS
    <2>2. row[a] = old
      BY <1>1, <2>1 DEF Ticked, Row
    <2>3. QED
      BY <1>1, <2>2 DEF Ticked
  <1> HIDE DEF x
  <1>6. \A b \in Attempts : /\ row'[b].status = row[b].status /\ row'[b].count = row[b].count
                            /\ row'[b].provider = row[b].provider
                            /\ row'[b].address = row[b].address
    BY <1>1, <1>2
  <1>7. \A b \in Attempts : RowOK(row'[b])
    <2>1. RowOK(x)
      BY <1>1, <1>2, <1>3 DEF RowOK
    <2>2. QED
      BY <1>1, <2>1 DEF SInv
  <1>8. Work(w)'
    <2>1. ASSUME NEW b \in Attempts, request[w].op # "idle"
          PROVE  (Spare(w, b) \/ InDelivery(w, b) \/ InRetry(w, b) \/ InReceipt(w, b)
                    \/ InErase(w, b))'
      <3>1. /\ request' = request /\ erased' = erased /\ request[w].read[b] \in Row
            /\ Spare(w, b) \/ InDelivery(w, b) \/ InRetry(w, b) \/ InReceipt(w, b)
                 \/ InErase(w, b)
        BY <1>1, <2>1 DEF SInv, Work, TypeOK, Request
      <3>2. row[b] = Absent => row'[b] = Absent
        BY <1>1, <1>3
      <3>3. Ticked(request[w].read[b], row[b]) => Ticked(request[w].read[b], row'[b])
        BY <1>1, <1>5, <3>1
      <3>4. CASE Spare(w, b)
        BY <3>1, <3>2, <3>4 DEF Spare
      <3>5. CASE InDelivery(w, b)
        BY <3>1, <3>2, <3>5 DEF InDelivery
      <3>6. CASE InRetry(w, b)
        BY <3>1, <3>3, <3>6 DEF InRetry
      <3>7. CASE InReceipt(w, b)
        BY <3>1, <3>3, <3>7 DEF InReceipt
      <3>8. CASE InErase(w, b)
        BY <3>1, <3>3, <3>8 DEF InErase
      <3>9. QED
        BY <3>1, <3>4, <3>5, <3>6, <3>7, <3>8
    <2>2. QED
      BY <1>1, <2>1 DEF Work
  <1>9. /\ Pending(w)' = Pending(w) /\ request' = request /\ erased' = erased
        /\ copies' = copies /\ fate' = fate /\ acked' = acked /\ orphans' = orphans
    BY <1>1 DEF Pending
  <1>10. PendingOK(w)' /\ CountedOK(w)'
    BY <1>6, <1>9 DEF SInv, PendingOK, CountedOK, Orphaned
  <1>11. AckedOK(w)'
    BY <1>6, <1>9 DEF SInv, AckedOK, Bounced
  <1>12. NumbersOK' /\ ErasedOK'
    BY <1>6, <1>9 DEF SInv, NumbersOK, ErasedOK
  <1>13. (request[w].op = "idle" => Pending(w) = {})'
    BY <1>9 DEF SInv
  <1>14. QED
    BY <1>1, <1>3, <1>4, <1>7, <1>8, <1>10, <1>11, <1>12, <1>13 DEF SInv

LEMMA SerialSettle ==
  ASSUME NEW w \in Workers, SInv(w), NEW a \in Attempts, Settle(a)
  PROVE  SInv(w)'
  <1>1. /\ UNCHANGED <<row, erased, request, copies, acked, orphans, posted, lost>>
        /\ TypeOK'
        /\ \A b \in Attempts, m \in Copy : fate[b][m] = "failed" => fate'[b][m] = "failed"
    BY SettleType DEF Settle, SInv
  <1>2. \A b \in Attempts : copies[b] \in Nat /\ 1..copies[b] \subseteq Copy
    BY MaxCopiesAssumption DEF SInv, TypeOK, Copy
  <1>3. AckedOK(w)'
    <2>1. ASSUME NEW b \in Attempts, NEW n \in Copy, Bounced(b, n)
          PROVE  Bounced(b, n)'
      BY <1>1, <1>2, <2>1, BouncedGrows
    <2>2. QED
      BY <1>1, <2>1 DEF SInv, AckedOK
  <1>4. Pending(w)' = Pending(w)
    BY <1>1 DEF Pending
  <1>5. Work(w)'
    BY <1>1 DEF SInv, Work, Spare, InDelivery, InRetry, InReceipt, InErase
  <1>6. PendingOK(w)' /\ CountedOK(w)' /\ NumbersOK' /\ ErasedOK'
    BY <1>1, <1>4 DEF SInv, PendingOK, CountedOK, Orphaned, NumbersOK, ErasedOK
  <1>7. QED
    BY <1>1, <1>3, <1>4, <1>5, <1>6 DEF SInv

LEMMA SerialStep ==
  ASSUME NEW w, Workers = {w}, SInv(w), [Next]_vars
  PROVE  SInv(w)'
  <1>1. w \in Workers /\ Handlers \subseteq {w} /\ Crons \subseteq {w}
    BY DEF Workers
  <1>2. CASE Handler(w)
    BY <1>1, <1>2, SerialDeliver, SerialRetry, SerialReceipt, SerialErase DEF Handler
  <1>3. CASE BeginRun(w)
    BY <1>1, <1>3, SerialRetry
  <1>4. CASE Progress(w)
    BY <1>1, <1>4, SerialSendFirst, SerialSendRetry, SerialCommit DEF Progress
  <1>5. CASE Rollback(w)
    BY <1>1, <1>5, SerialRollback
  <1>6. ASSUME NEW a \in Attempts, Tick(a) \/ Settle(a) PROVE SInv(w)'
    BY <1>1, <1>6, SerialTick, SerialSettle
  <1>7. CASE UNCHANGED vars
    <2>1. /\ row' = row /\ erased' = erased /\ request' = request /\ copies' = copies
          /\ fate' = fate /\ acked' = acked /\ orphans' = orphans /\ TypeOK'
      BY <1>7, TypeStep DEF vars, SInv
    <2>2. Work(w)'
      BY <2>1 DEF SInv, Work, Spare, InDelivery, InRetry, InReceipt, InErase
    <2>3. Pending(w)' = Pending(w)
      BY <2>1 DEF Pending
    <2>4. PendingOK(w)' /\ CountedOK(w)' /\ NumbersOK' /\ ErasedOK' /\ AckedOK(w)'
      BY <2>1, <2>3 DEF SInv, PendingOK, CountedOK, Orphaned, NumbersOK, ErasedOK, AckedOK, Bounced
    <2>5. QED
      BY <2>1, <2>2, <2>3, <2>4 DEF SInv
  <1>8. QED
    BY <1>1, <1>2, <1>3, <1>4, <1>5, <1>6, <1>7 DEF Next

LEMMA InitSInv ==
  ASSUME NEW w, Workers = {w}, Init
  PROVE  SInv(w)
  <1>1. w \in Workers /\ TypeOK
    BY InitType
  <1>2. /\ request[w] = Idle /\ orphans = {} /\ acked = {} /\ erased = FALSE
        /\ \A a \in Attempts : row[a] = Absent /\ copies[a] = 0
    BY <1>1 DEF Init, NoRows
  <1>3. Pending(w) = {} /\ request[w].op = "idle" /\ request[w].accepted = {}
    BY <1>2, IdleOK DEF Pending
  <1>4. Work(w) /\ PendingOK(w)
    BY <1>3 DEF Work, PendingOK
  <1>5. CountedOK(w)
    BY <1>1, <1>2, <1>3, AbsentOK, OrphanedFinite DEF CountedOK
  <1>6. AckedOK(w) /\ NumbersOK /\ ErasedOK
    BY <1>2, AbsentOK DEF AckedOK, NumbersOK, ErasedOK
  <1>7. QED
    BY <1>1, <1>2, <1>3, <1>4, <1>5, <1>6, AbsentOK DEF SInv

\* With one request at a time, SInv always holds: what the request makes of each row it
\* has read, and where every copy that the channel accepted is accounted for.
THEOREM SerialInductive ==
  ASSUME NEW CONSTANT w, Workers = {w}
  PROVE  Spec => []SInv(w)
  <1>1. Init => SInv(w)
    BY InitSInv
  <1>2. SInv(w) /\ [Next]_vars => SInv(w)'
    BY SerialStep
  <1>3. QED
    BY <1>1, <1>2, PTL DEF Spec

\* One request at a time: an attempt has a date for its next retry exactly while it
\* is failed, whatever a client, a receipt or an erasure made of it before
\* (delivery_attempts.py, _apply_retry_result; channel_receipts.py, _apply_receipt).
THEOREM FailedHasDate ==
  ASSUME NEW CONSTANT w, Workers = {w}
  PROVE  Spec => []FailedIsScheduled
  <1>1. SInv(w) => FailedIsScheduled
    BY DEF SInv, RowOK, FailedIsScheduled
  <1>2. QED
    BY <1>1, SerialInductive, PTL

\* One request at a time: no copy that the channel accepted is missing from
\* attempt_count, unless its transaction was lost.
THEOREM CopiesCounted ==
  ASSUME NEW CONSTANT w, Workers = {w}
  PROVE  Spec => []CopiesAreCounted
  <1>1. SInv(w) => CopiesAreCounted
    <2> SUFFICES ASSUME SInv(w), NEW a \in Attempts, \A v \in Workers : request[v].op = "idle"
                 PROVE  copies[a] <= row[a].count + Cardinality({o \in orphans : o[1] = a})
      BY DEF CopiesAreCounted
    <2>1. Pending(w) = {}
      BY DEF SInv
    <2>2. copies[a] <= row[a].count + Cardinality(Orphaned(a)) + 0
      BY <2>1 DEF SInv, CountedOK
    <2>3. row[a].count \in Nat /\ Cardinality(Orphaned(a)) \in Nat
      BY OrphanedFinite DEF SInv, TypeOK, Row
    <2> DEFINE o == Cardinality(Orphaned(a))
    <2>4. copies[a] <= row[a].count + o
      BY <2>2, <2>3
    <2>5. QED
      BY <2>4 DEF Orphaned
  <1>2. QED
    BY <1>1, SerialInductive, PTL

\* One request at a time: what was recorded as sent is sent again only after the
\* provider reported a failure of it (of some copy, for email).
THEOREM ResentAfterBounce ==
  ASSUME NEW CONSTANT w, Workers = {w}
  PROVE  Spec => []ResendNeedsBounce
  <1>1. SInv(w) => ResendNeedsBounce
    <2> SUFFICES ASSUME SInv(w), NEW a \in Attempts, NEW n \in Copy,
                        <<a, n>> \in acked, n < copies[a]
                 PROVE  Bounced(a, n)
      BY DEF ResendNeedsBounce, Bounced
    <2>1. n \in Nat /\ copies[a] \in Nat
      BY MaxCopiesAssumption DEF SInv, TypeOK, Copy
    <2>2. n # copies[a]
      BY <2>1
    <2>3. QED
      BY <2>2 DEF SInv, AckedOK
  <1>2. QED
    BY <1>1, SerialInductive, PTL

\* One request at a time: once the erasure is committed the channel accepts no
\* copy of anything any more (data_privacy.py, erase_customer).
THEOREM NothingAfterErasure ==
  ASSUME NEW CONSTANT w, Workers = {w}
  PROVE  Spec => ErasureStopsOutbound
  <1>1. SInv(w) /\ [Next]_vars => [erased => UNCHANGED copies]_vars
    <2> SUFFICES ASSUME SInv(w), [Next]_vars, erased PROVE copies' = copies
      OBVIOUS
    <2>1. w \in Workers /\ Handlers \subseteq {w} /\ Crons \subseteq {w}
      BY DEF Workers
    <2>2. CASE SendFirst(w) \/ SendRetry(w)
      BY <2>1, <2>2, SerialSendFirst, SerialSendRetry
    <2>3. CASE copies' = copies
      BY <2>3
    <2>4. QED
      BY <2>1, <2>2, <2>3
         DEF Next, vars, Handler, BeginDeliver, BeginRetry, BeginRun, Begin, BeginReceipt,
             BeginErase, Progress, Commit, Rollback, Tick, Settle
  <1>2. QED
    BY <1>1, SerialInductive, PTL DEF Spec, ErasureStopsOutbound

\* One request at a time: no delivery, retry or receipt writes to an erased row.
THEOREM ErasedForGood ==
  ASSUME NEW CONSTANT w, Workers = {w}
  PROVE  Spec => ErasedStaysErased
  <1>1. SInv(w) /\ [Next]_vars =>
          [\A a \in Attempts : row[a].status = "erased" => row'[a] = row[a]]_vars
    <2> SUFFICES ASSUME SInv(w), [Next]_vars, NEW a \in Attempts, row[a].status = "erased"
                 PROVE  row'[a] = row[a]
      OBVIOUS
    <2>1. w \in Workers /\ Handlers \subseteq {w} /\ Crons \subseteq {w}
      BY DEF Workers
    <2>2. CASE Commit(w)
      BY <2>1, <2>2, CommitRow
    <2>3. ASSUME NEW b \in Attempts, Tick(b) PROVE row'[a] = row[a]
      BY <2>1, <2>3, SerialTick
    <2>4. CASE row' = row
      BY <2>4
    <2>5. QED
      BY <2>1, <2>2, <2>3, <2>4
         DEF Next, vars, Handler, BeginDeliver, BeginRetry, BeginRun, Begin, BeginReceipt,
             BeginErase, Progress, SendFirst, SendRetry, Transmit, Rollback, Settle
  <1>2. QED
    BY <1>1, SerialInductive, PTL DEF Spec, ErasedStaysErased
===============================================================================
