------------------------------- MODULE Inbound -------------------------------
(***************************************************************************)
(* Inbound messages: mail fetched from a seller's mailbox by the scheduled *)
(* worker or by hand (email_polling), and webhooks (routers/webhooks),     *)
(* stored by channel_gateway.ingest_inbound_message; with the edit of a    *)
(* customer (crm) and the erasure (data_privacy), which decide who is      *)
(* recognised as the sender of the next message.                           *)
(*                                                                         *)
(* A poll fetches a batch, then looks each mail up and stores it, flags    *)
(* the mails on the server, and commits; reads take no lock, the first     *)
(* write takes the lock of the database until the end.  Sellers and their  *)
(* channel accounts exist.  An inquiry and its conversation are stored     *)
(* with each message and are not told apart from it here.                  *)
(***************************************************************************)
EXTENDS Naturals, Sequences, FiniteSets, SequencesExt

CONSTANTS
  Sellers,
  Polled,        \* sellers whose connected email channel has poll_enabled
  Emails,        \* lower-case email addresses
  Phones,
  Mails,         \* what may arrive in a mailbox, a subset of Item
  Posts,         \* what a webhook may be called with, a subset of Item
  Profiles,      \* what PATCH /customers may be called with: the fields it gives
  Limit,         \* mails fetched by a poll
  Marks,         \* whether fetching a mail flags it as seen, a subset of BOOLEAN
  Workers,       \* requests that may be in progress at the same time
  MaxCustomers,  \* bound: rows of the customer table
  MaxMessages,   \* bound: rows of the message table
  MaxEdits,      \* bound: edits of a customer's profile
  MaxCrashes     \* bound: requests lost, and restarts of the server

None == "none"

\* id: Message-ID, X-Mailer-ID or the provider's id, if there is one; malformed:
\* a mail whose date or text cannot be decoded; to: the sellers who receive it.
Item == [name: STRING, id: STRING, email: Emails \cup {None}, phone: Phones \cup {None},
         malformed: BOOLEAN, to: SUBSET Sellers]

ASSUME SellersAssumption == Sellers # {}

\* The name stands for all there is in a mail; the headers of two copies differ:
\* without an id they are not the same mail.
ASSUME ItemsAssumption ==
  /\ Mails \cup Posts \subseteq Item
  /\ \A m, n \in Mails : m.name = n.name => m = n
  /\ \A p \in Posts : p.id # None /\ ~p.malformed
  /\ \A m \in Mails : m.id = None => \A s, t \in m.to : s = t
Profile == [email: Emails \cup {None}, phone: Phones \cup {None},
            channels: SUBSET (Emails \cup Phones)]

\* A PATCH gives some of the columns of a profile.
ASSUME ProfilesAssumption ==
  \A d \in Profiles : \E p \in Profile :
    /\ DOMAIN d \subseteq {"email", "phone", "channels"}
    /\ \A field \in DOMAIN d : d[field] = p[field]
ASSUME PolledAssumption == Polled \subseteq Sellers
ASSUME LimitAssumption == Limit \in Nat \ {0}
ASSUME MarksAssumption == Marks \subseteq BOOLEAN
ASSUME BoundsAssumption ==
  {MaxCustomers, MaxMessages, MaxEdits, MaxCrashes} \subseteq Nat

VARIABLES
  mailbox,  \* the mails of each seller, in the order of their uids
  seen,     \* those flagged \Seen on the server
  db,       \* the tables customer and message
  request,  \* what each worker is doing
  epoch,    \* how often the server was started again
  crashes,  \* history: requests lost
  edits,    \* history: profiles edited
  dropped,  \* history: <<seller, mail>> flagged by a poll that did not store it
  caught    \* history: customers whose erasure met another request that works on them

vars == <<mailbox, seen, db, request, epoch, crashes, edits, dropped, caught>>

------------------------------------------------------------------------------
\* typed: the email was typed by a person in PATCH /customers.
Customer == [seller: Sellers, email: Emails \cup {None}, phone: Phones \cup {None},
             channels: SUBSET (Emails \cup Phones), erased: BOOLEAN, typed: BOOLEAN]

\* key: channel_message_id; customer: an index of the customer table.
Message == [seller: Sellers, item: Mails \cup Posts, key: [id: STRING, epoch: Nat],
            customer: 1..MaxCustomers, erased: BOOLEAN]

Tables == [customer: Seq(Customer), message: Seq(Message)]

\* held: the customer found for the item at hand (0 for none), or the one that is
\* edited or erased, with the columns and the messages as read; rows: the tables as
\* this transaction sees them, once it has written.
Request == [op: {"idle", "worker", "manual", "post", "edit", "erase"}, seller: Sellers,
            todo: Seq(Mails \cup Posts), done: Seq(Mails), flagged: SUBSET Mails,
            stage: {"look", "store", "commit"}, held: 0..MaxCustomers,
            email: Emails \cup {None}, phone: Phones \cup {None},
            channels: SUBSET (Emails \cup Phones), messages: SUBSET (1..MaxMessages),
            locked: BOOLEAN, rows: Tables]

NoRows == [customer |-> <<>>, message |-> <<>>]
Idle == [op |-> "idle", seller |-> CHOOSE s \in Sellers : TRUE, todo |-> <<>>,
         done |-> <<>>, flagged |-> {}, stage |-> "look", held |-> 0,
         email |-> None, phone |-> None, channels |-> {}, messages |-> {},
         locked |-> FALSE, rows |-> NoRows]

TypeOK ==
  /\ mailbox \in [Sellers -> Seq(Mails)]
  /\ seen \in [Sellers -> SUBSET Mails]
  /\ db \in Tables /\ Len(db.customer) <= MaxCustomers /\ Len(db.message) <= MaxMessages
  /\ request \in [Workers -> Request]
  /\ {epoch, crashes} \subseteq 0..MaxCrashes /\ edits \in 0..MaxEdits
  /\ dropped \subseteq Sellers \X Mails
  /\ caught \subseteq 1..MaxCustomers

Init ==
  /\ mailbox = [s \in Sellers |-> <<>>]
  /\ seen = [s \in Sellers |-> {}]
  /\ db = NoRows
  /\ request = [w \in Workers |-> Idle]
  /\ epoch = 0 /\ crashes = 0 /\ edits = 0
  /\ dropped = {} /\ caught = {}

------------------------------------------------------------------------------
(* What the code looks up *)

\* Without an id, a hash of the mail, which differs from one process to the next.
MessageKey(item) ==
  IF item.id = None THEN [id |-> item.name, epoch |-> epoch + 1]
  ELSE [id |-> item.id, epoch |-> 0]

\* Mutant of Known: a second message of a sender counts as a duplicate.
KnownSender(rows, item) ==
  \E i \in DOMAIN rows.message :
    ~rows.message[i].erased /\ rows.message[i].item.email = item.email

\* The message table is searched for the key over all sellers.
Known(rows, item) ==
  \E i \in DOMAIN rows.message :
    ~rows.message[i].erased /\ rows.message[i].key = MessageKey(item)

\* Mutant of WithEmail: customers of any seller.
AnyWithEmail(rows, s, e) == {k \in DOMAIN rows.customer : e # None /\ rows.customer[k].email = e}

WithEmail(rows, s, e) ==
  {k \in DOMAIN rows.customer :
     e # None /\ rows.customer[k].seller = s /\ rows.customer[k].email = e}

WithPhone(rows, s, p) ==
  {k \in DOMAIN rows.customer :
     p # None /\ rows.customer[k].seller = s /\ rows.customer[k].phone = p}

\* Mutant of Senders: customers are only looked for by phone.
SendersByPhone(rows, s, item) ==
  WithPhone(rows, s, item.phone)

\* Whom find_or_create_customer may take for the sender: by email, then by phone.
Senders(rows, s, item) ==
  IF WithEmail(rows, s, item.email) # {} THEN WithEmail(rows, s, item.email)
  ELSE WithPhone(rows, s, item.phone)

Contact(item) == {item.email, item.phone} \ {None}

\* The messages of a customer, by their conversations.
Messages(rows, k) == {i \in DOMAIN rows.message : rows.message[i].customer = k}

------------------------------------------------------------------------------
(* Transactions *)

LockFree(w) == \A v \in Workers \ {w} : ~request[v].locked

\* The column after a flush: written only if the value differs from the one read.
Put(read, new, current) == IF new = read THEN current ELSE new

Rows(w) == IF request[w].locked THEN request[w].rows ELSE db

Stored(rows, s, item) ==
  \E i \in DOMAIN rows.message : rows.message[i].seller = s /\ rows.message[i].item = item

\* A request has read the customer and will write to it, or has done so already.
WorksOn(v, k) ==
  LET r == request[v] IN
  \/ r.held = k /\ r.op # "erase"
  \/ r.locked /\ \/ r.rows.customer[k] # db.customer[k]
                 \/ Messages(r.rows, k) # Messages(db, k)

\* Customer k is read while somebody is erasing it.
Catch(k) ==
  IF \E v \in Workers : request[v].op = "erase" /\ request[v].held = k
  THEN caught \cup {k} ELSE caught

\* What the poll of w has flagged and is not going to store.
Loss(w, handled, rows) ==
  {<<request[w].seller, m>> : m \in
     {x \in request[w].flagged \ handled : ~Stored(rows, request[w].seller, x)}}

Abandon(workers) ==
  /\ request' = [w \in Workers |-> IF w \in workers THEN Idle ELSE request[w]]
  /\ dropped' = dropped \cup UNION {Loss(w, {}, db) : w \in workers}

\* The audit row is flushed (the lock) and everything is committed.  A poll cut
\* short leaves behind what the fetch has flagged.
Commit(w) ==
  LET r == request[w] IN
  /\ r.op # "idle"
  /\ r.stage = "commit" \/ (r.op = "post" /\ r.todo = <<>>)
  /\ LockFree(w)
  /\ db' = Rows(w)
  /\ dropped' = dropped \cup Loss(w, Range(r.done), Rows(w))
  /\ request' = [request EXCEPT ![w] = Idle]
  /\ UNCHANGED <<mailbox, seen, epoch, crashes, edits, caught>>

\* "database is locked", a server that does not answer, a connection that breaks.
Rollback(w) ==
  /\ request[w].op # "idle"
  /\ crashes < MaxCrashes
  /\ crashes' = crashes + 1
  /\ Abandon({w})
  /\ UNCHANGED <<mailbox, seen, db, epoch, edits, caught>>

Restart ==
  /\ crashes < MaxCrashes
  /\ crashes' = crashes + 1
  /\ epoch' = epoch + 1
  /\ Abandon({w \in Workers : request[w].op # "idle"})
  /\ UNCHANGED <<mailbox, seen, db, edits, caught>>

------------------------------------------------------------------------------
(* Requests *)

Arrive(s) ==
  /\ \E m \in Mails \ Range(mailbox[s]) :
       s \in m.to /\ mailbox' = [mailbox EXCEPT ![s] = Append(@, m)]
  /\ UNCHANGED <<seen, db, request, epoch, crashes, edits, dropped, caught>>

Unseen(s) == {i \in DOMAIN mailbox[s] : mailbox[s][i] \notin seen[s]}

\* At most Limit uids of unseen mails, in their order.
Uids(s) == {u \in UNION {[1..n -> Unseen(s)] : n \in 0..Limit} :
              \A i, j \in DOMAIN u : i < j => u[i] < u[j]}

\* Mutant of FirstUnseen: the newest mails instead of the oldest.
LastUnseen(s) ==
  {u \in Uids(s) : \A i \in Unseen(s) \ Range(u) :
                     Len(u) = Limit /\ \A j \in DOMAIN u : i < u[j]}

\* The one batch that leaves no older mail out.
FirstUnseen(s) ==
  {u \in Uids(s) : \A i \in Unseen(s) \ Range(u) :
                     Len(u) = Limit /\ \A j \in DOMAIN u : u[j] < i}

\* The worker polls what is enabled; poll-email polls whatever it is asked to.
BeginPoll(w, op, s) ==
  /\ request[w].op = "idle"
  /\ op = "worker" => s \in Polled
  /\ Unseen(s) # {}
  /\ \E uids \in FirstUnseen(s), marks \in Marks :
       LET batch == [i \in DOMAIN uids |-> mailbox[s][uids[i]]]
           flagged == IF marks THEN Range(batch) ELSE {}
       IN
       /\ seen' = [seen EXCEPT ![s] = @ \cup flagged]
       /\ request' = [request EXCEPT ![w] = [Idle EXCEPT !.op = op, !.seller = s,
                        !.todo = batch, !.flagged = flagged]]
  /\ UNCHANGED <<mailbox, db, epoch, crashes, edits, dropped, caught>>

BeginPost(w, s) ==
  /\ request[w].op = "idle"
  /\ \E p \in Posts :
       /\ s \in p.to
       /\ request' = [request EXCEPT ![w] = [Idle EXCEPT !.op = "post", !.seller = s,
                                                         !.todo = <<p>>]]
  /\ UNCHANGED <<mailbox, seen, db, epoch, crashes, edits, dropped, caught>>

AtItem(w, stage) ==
  /\ request[w].op # "idle" /\ request[w].todo # <<>> /\ request[w].stage = stage

Item1(w) == Head(request[w].todo)

\* The acknowledged list of a poll; a webhook keeps none.
Finished(r) == IF r.op = "post" THEN r.done ELSE Append(r.done, Head(r.todo))

\* normalize_raw_email raises: the worker goes on and commits what it has, the
\* manual poll is rolled back; in neither is anything acknowledged.
Choke(w) ==
  /\ AtItem(w, "look") /\ Item1(w).malformed
  /\ IF request[w].op = "worker"
     THEN /\ request' = [request EXCEPT ![w].stage = "commit"]
          /\ UNCHANGED dropped
     ELSE Abandon({w})
  /\ UNCHANGED <<mailbox, seen, db, epoch, crashes, edits, caught>>

\* The message and the sender are looked up, or the message is a duplicate.
Look(w) ==
  LET r == request[w]
      candidates == Senders(Rows(w), r.seller, Item1(w))
  IN
  /\ AtItem(w, "look") /\ ~Item1(w).malformed
  /\ IF Known(Rows(w), Item1(w))
     THEN /\ request' = [request EXCEPT ![w].todo = Tail(@), ![w].done = Finished(r)]
          /\ UNCHANGED caught
     ELSE \E k \in IF candidates = {} THEN {0} ELSE candidates :
            /\ request' = [request EXCEPT ![w].stage = "store", ![w].held = k,
                 ![w].channels = IF k = 0 THEN {} ELSE Rows(w).customer[k].channels]
            /\ caught' = Catch(k)
  /\ UNCHANGED <<mailbox, seen, db, epoch, crashes, edits, dropped>>

\* Mutant of NewCustomer: two columns are mixed up.
NewCustomerSwapped(s, item) ==
  [seller |-> s, email |-> item.phone, phone |-> item.email, channels |-> Contact(item),
   erased |-> FALSE, typed |-> FALSE]

NewCustomer(s, item) ==
  [seller |-> s, email |-> item.email, phone |-> item.phone, channels |-> Contact(item),
   erased |-> FALSE, typed |-> FALSE]

\* The contact is added to the channels read; an UPDATE only if that changed them.
Merge(row, read, item) ==
  IF Contact(item) \subseteq read THEN row
  ELSE [row EXCEPT !.channels = read \cup Contact(item)]

\* The rows of one message, and of its sender if none was found.
Insert(rows, r, item) ==
  LET customers == IF r.held = 0 THEN Append(rows.customer, NewCustomer(r.seller, item))
                   ELSE [rows.customer EXCEPT ![r.held] = Merge(@, r.channels, item)]
  IN [customer |-> customers,
      message |-> Append(rows.message,
        [seller |-> r.seller, item |-> item, key |-> MessageKey(item), erased |-> FALSE,
         customer |-> IF r.held = 0 THEN Len(customers) ELSE r.held])]

\* Mutant of Clash: channel_message_id is not declared unique.
ClashNever(w) == FALSE

\* uq_message_channel_message_id: another request has stored it meanwhile.
Clash(w) == Known(Rows(w), Item1(w))

Store(w) ==
  LET r == request[w] IN
  /\ AtItem(w, "store") /\ LockFree(w) /\ ~Clash(w)
  /\ Len(Rows(w).message) < MaxMessages
  /\ r.held = 0 => Len(Rows(w).customer) < MaxCustomers
  /\ request' = [request EXCEPT ![w] =
       [r EXCEPT !.locked = TRUE, !.rows = Insert(Rows(w), r, Item1(w)), !.stage = "look",
                 !.todo = Tail(@), !.done = Finished(r), !.held = 0, !.channels = {}]]
  /\ UNCHANGED <<mailbox, seen, db, epoch, crashes, edits, dropped, caught>>

\* IntegrityError: the session cannot be used any more and the request is lost.
Conflict(w) ==
  /\ AtItem(w, "store") /\ LockFree(w) /\ Clash(w)
  /\ Abandon({w})
  /\ UNCHANGED <<mailbox, seen, db, epoch, crashes, edits, caught>>

Acknowledged(done, n) == {done[i] : i \in 1..n}

\* The flags are set one by one; where that fails the worker commits its rows and
\* the manual poll answers 422.
Acknowledge(w) ==
  LET r == request[w] IN
  /\ r.op \in {"worker", "manual"} /\ r.todo = <<>> /\ r.stage = "look"
  /\ \E n \in 0..Len(r.done) :
       /\ n < Len(r.done) => crashes < MaxCrashes
       /\ crashes' = IF n < Len(r.done) THEN crashes + 1 ELSE crashes
       /\ seen' = [seen EXCEPT ![r.seller] = @ \cup Acknowledged(r.done, n)]
       /\ LET flagged == r.flagged \cup Acknowledged(r.done, n) IN
          IF n < Len(r.done) /\ r.op = "manual"
          THEN /\ request' = [request EXCEPT ![w] = Idle]
               /\ dropped' = dropped \cup {<<r.seller, m>> : m \in
                               {x \in flagged : ~Stored(db, r.seller, x)}}
          ELSE /\ request' = [request EXCEPT ![w].stage = "commit", ![w].flagged = flagged]
               /\ UNCHANGED dropped
  /\ UNCHANGED <<mailbox, db, epoch, edits, caught>>

------------------------------------------------------------------------------
(* Customers: read first, written and committed at the end *)

\* The row is read, with what else the handler needs of it.
BeginOn(w, op, k) ==
  LET row == db.customer[k] IN
  /\ request[w].op = "idle" /\ ~row.erased
  /\ request' = [request EXCEPT ![w] = [Idle EXCEPT !.op = op, !.seller = row.seller,
       !.stage = "store", !.held = k, !.email = row.email, !.phone = row.phone,
       !.channels = row.channels, !.messages = IF op = "erase" THEN Messages(db, k) ELSE {}]]
  /\ UNCHANGED <<mailbox, seen, db, epoch, crashes, dropped>>

\* PATCH /customers.
BeginEdit(w) ==
  /\ edits < MaxEdits /\ edits' = edits + 1
  /\ \E k \in DOMAIN db.customer : BeginOn(w, "edit", k) /\ caught' = Catch(k)

\* A field that is not given keeps the value read.
Given(data, field, read) == IF field \in DOMAIN data THEN data[field] ELSE read

\* The email is stored as typed (None also stands for one in capitals, which no
\* lookup finds).
Edit(row, r, data) ==
  [row EXCEPT !.email = Put(r.email, Given(data, "email", r.email), @),
              !.phone = Put(r.phone, Given(data, "phone", r.phone), @),
              !.channels = Put(r.channels, Given(data, "channels", r.channels), @),
              !.typed = @ \/ Given(data, "email", r.email) # r.email]

EditCustomer(w) ==
  LET r == request[w] IN
  /\ r.op = "edit" /\ LockFree(w)
  /\ \E data \in Profiles : db' = [db EXCEPT !.customer[r.held] = Edit(@, r, data)]
  /\ request' = [request EXCEPT ![w] = Idle]
  /\ UNCHANGED <<mailbox, seen, epoch, crashes, edits, dropped, caught>>

\* DELETE /customers.
BeginErase(w) ==
  /\ \E k \in DOMAIN db.customer :
       /\ BeginOn(w, "erase", k)
       /\ caught' = IF \E v \in Workers : WorksOn(v, k) THEN caught \cup {k} ELSE caught
  /\ UNCHANGED edits

\* Mutant of Forget: the phone is kept.
ForgetEmail(row, r) ==
  [row EXCEPT !.email = Put(r.email, None, @), !.channels = Put(r.channels, {}, @),
              !.erased = TRUE]

Forget(row, r) ==
  [row EXCEPT !.email = Put(r.email, None, @), !.phone = Put(r.phone, None, @),
              !.channels = Put(r.channels, {}, @), !.erased = TRUE]

\* With their inquiries and conversations.
EraseMessages(messages, read) ==
  [i \in DOMAIN messages |-> [messages[i] EXCEPT !.erased = @ \/ i \in read]]

\* What was not there when the rows were read stays.
EraseCustomer(w) ==
  LET r == request[w] IN
  /\ r.op = "erase" /\ LockFree(w)
  /\ db' = [customer |-> [db.customer EXCEPT ![r.held] = Forget(@, r)],
            message |-> EraseMessages(db.message, r.messages)]
  /\ request' = [request EXCEPT ![w] = Idle]
  /\ UNCHANGED <<mailbox, seen, epoch, crashes, edits, dropped, caught>>

------------------------------------------------------------------------------
Run(w) ==
  \/ Choke(w) \/ Look(w) \/ Store(w) \/ Conflict(w) \/ Acknowledge(w) \/ Commit(w)
  \/ EditCustomer(w) \/ EraseCustomer(w)

Next ==
  \/ \E s \in Sellers : Arrive(s)
  \/ \E w \in Workers :
       \/ \E s \in Sellers : BeginPost(w, s) \/ BeginPoll(w, "worker", s)
                                             \/ BeginPoll(w, "manual", s)
       \/ BeginEdit(w) \/ BeginErase(w) \/ Run(w) \/ Rollback(w)
  \/ Restart

Spec == Init /\ [][Next]_vars

\* docs/PRODUCTION_RUNBOOK.md:34: the scheduler is called for ever; requests end.
FairSpec ==
  /\ Spec
  /\ \A w \in Workers :
       /\ \A s \in Sellers : SF_vars(BeginPoll(w, "worker", s))
       /\ WF_vars(Run(w))

------------------------------------------------------------------------------
(* Properties *)

Live(s) == {i \in DOMAIN db.message : db.message[i].seller = s /\ ~db.message[i].erased}

\* docs/WAVE2_SUBMISSION.md:58: inbound messages are idempotent.  However often
\* polls and webhooks bring an item, and whichever of them meet, a seller has one
\* live message for it; a mail without an id has one for each start of the server.
IngestedOnce ==
  \A s \in Sellers : \A i, j \in Live(s) :
    db.message[i].item = db.message[j].item /\ i # j
      => db.message[i].item.id = None /\ db.message[i].key # db.message[j].key

\* A row stands for the item: its own, or one with the same id, of any seller.
StoodFor(m) ==
  \E i \in DOMAIN db.message :
    db.message[i].item = m \/ (m.id # None /\ db.message[i].item.id = m.id)

\* A mail flagged as seen is stored, or is in the hands of a poll that still runs,
\* or was in those of a poll that was lost or cut short.  (That the row may be
\* another seller's is channel_gateway.py:133.)
SeenIsStored ==
  \A s \in Sellers : \A m \in seen[s] :
    \/ StoodFor(m)
    \/ <<s, m>> \in dropped
    \/ \E w \in Workers : request[w].seller = s /\ m \in request[w].flagged

\* An inquiry never lands with a customer of another seller.
CustomerIsOfSeller ==
  \A i \in DOMAIN db.message : db.customer[db.message[i].customer].seller = db.message[i].seller

\* Nothing makes customers unique, but only first messages that are handled at the
\* same moment can each create one for an email (unless a person types one twice).
CustomersBounded ==
  \A s \in Sellers, e \in Emails :
    Cardinality({k \in WithEmail(db, s, e) : ~db.customer[k].typed}) <= Cardinality(Workers)

\* services/data_privacy.py:8: after an erasure that met no other request working on
\* the customer, nothing that is received or edited, then or later, brings an address
\* or a message back to that row.
ErasedIsForgotten ==
  \A k \in DOMAIN db.customer :
    db.customer[k].erased /\ k \notin caught =>
      /\ db.customer[k].email = None /\ db.customer[k].phone = None
      /\ db.customer[k].channels = {}
      /\ \A i \in Messages(db, k) : db.message[i].erased

\* The mail is well-formed and no malformed one arrived before it.
Clean(s, m) ==
  \E j \in DOMAIN mailbox[s] :
    mailbox[s][j] = m /\ \A i \in 1..j : ~mailbox[s][i].malformed

\* The bounds of the model are reached.
TablesFull ==
  \E w \in Workers :
    Len(Rows(w).message) = MaxMessages \/ Len(Rows(w).customer) = MaxCustomers

\* A clean mail of a polled mailbox is stored in the end, unless a poll that had
\* flagged it was lost; a malformed one behind it keeps it unseen, not unstored.
CleanMailIsStored ==
  \A s \in Polled, m \in Mails :
    Clean(s, m) ~> StoodFor(m) \/ <<s, m>> \in dropped \/ TablesFull
==============================================================================
