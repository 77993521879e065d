----------------------------- MODULE InboundProofs -----------------------------
(***************************************************************************)
(* Theorems about Inbound, for any number of requests in progress: what is *)
(* true of the tables and of every request, whoever meets whom.            *)
(***************************************************************************)
EXTENDS Inbound, FiniteSetTheorems, SequenceTheorems, TLAPS

\* The tables that a request sees where t is committed.
Sight(r, t) == IF r.locked THEN r.rows ELSE t

\* Tables that went through any steps: no row is gone, an index keeps its seller
\* and a message its item.
Grown(old, new) ==
  /\ Len(old.customer) <= Len(new.customer) /\ Len(old.message) <= Len(new.message)
  /\ \A k \in DOMAIN old.customer : new.customer[k].seller = old.customer[k].seller
  /\ \A i \in DOMAIN old.message : new.message[i].item = old.message[i].item

\* Nobody was erased on the way.
NobodyErased(old, new) ==
  \A k \in DOMAIN old.customer : new.customer[k].erased = old.customer[k].erased

\* Tables in order.  A message has the customer of an index and of the same seller;
\* its key is its item's; no two live messages have the same key.
Referred(t) ==
  \A i \in DOMAIN t.message :
    /\ t.message[i].customer \in DOMAIN t.customer
    /\ t.customer[t.message[i].customer].seller = t.message[i].seller
Keyed(t) ==
  \A i \in DOMAIN t.message :
    LET m == t.message[i] IN
    IF m.item.id = None THEN m.key.id = m.item.name /\ m.key.epoch > 0 /\ m.item \in Mails
                        ELSE m.key = [id |-> m.item.id, epoch |-> 0]
Unique(t) ==
  \A i, j \in DOMAIN t.message :
    ~t.message[i].erased /\ ~t.message[j].erased /\ i # j => t.message[i].key # t.message[j].key

\* Nothing is left of an erased customer, unless it is noted as one whose erasure met
\* another request that works on it.
Forgotten(t, noted) ==
  \A k \in DOMAIN t.customer :
    t.customer[k].erased /\ k \notin noted =>
      /\ t.customer[k].email = None /\ t.customer[k].phone = None
      /\ t.customer[k].channels = {}
      /\ \A i \in DOMAIN t.message : t.message[i].customer = k => t.message[i].erased

TablesOK(t, noted) ==
  /\ t \in Tables /\ Len(t.customer) <= MaxCustomers /\ Len(t.message) <= MaxMessages
  /\ Referred(t) /\ Keyed(t) /\ Unique(t) /\ Forgotten(t, noted)

\* A row of t stands for the mail m.
Stands(t, m) ==
  \E i \in DOMAIN t.message :
    t.message[i].item = m \/ (m.id # None /\ t.message[i].item.id = m.id)

\* The customer that a request holds is one of the seller's, erased only if that was
\* noted or two erase it.
HeldOK(r, t, noted) ==
  r.held # 0 => /\ r.held \in DOMAIN Sight(r, t).customer
                /\ Sight(r, t).customer[r.held].seller = r.seller
                /\ r.op # "erase" /\ Sight(r, t).customer[r.held].erased => r.held \in noted

\* What a request has written is a whole that continues the tables as they still are.
RowsOK(r, t, noted) ==
  r.locked => TablesOK(r.rows, noted) /\ Grown(t, r.rows) /\ NobodyErased(t, r.rows)

\* What a poll has done with has a row that stands for it.
DoneOK(r, t) == \A i \in DOMAIN r.done : Stands(Sight(r, t), r.done[i])

\* An edit or an erasure holds a customer until it is over, and writes at its end only.
PersonOK(r) ==
  r.op \in {"edit", "erase"} => r.held # 0 /\ r.todo = <<>> /\ r.flagged = {} /\ ~r.locked

\* A request, where t is committed and the mails in flags are seen.
RequestOK(r, t, flags, noted) ==
  /\ r.op = "idle" => r = Idle
  /\ r.stage # "store" => r.held = 0
  /\ r.op \in {"worker", "manual"} => \A i \in DOMAIN r.todo : r.todo[i] \in Mails
  /\ r.flagged \subseteq flags[r.seller]
  /\ PersonOK(r) /\ HeldOK(r, t, noted) /\ RowsOK(r, t, noted) /\ DoneOK(r, t)

OneLock == \A v, w \in Workers : request[v].locked /\ request[w].locked => v = w

SeenOK ==
  \A s \in Sellers : \A m \in seen[s] :
    \/ Stands(db, m)
    \/ <<s, m>> \in dropped
    \/ \E w \in Workers : request[w].seller = s /\ m \in request[w].flagged

IInv ==
  /\ TypeOK /\ TablesOK(db, caught)
  /\ \A w \in Workers : RequestOK(request[w], db, seen, caught)
  /\ OneLock /\ SeenOK
  /\ epoch <= crashes

\* The customer that r erases has the columns and the messages read, or has lost them.
AsRead(r, t) ==
  /\ t.customer[r.held].email \in {r.email, None}
  /\ t.customer[r.held].phone \in {r.phone, None}
  /\ t.customer[r.held].channels \in {r.channels, {}}
  /\ Messages(t, r.held) \subseteq r.messages

\* The request q has nothing to do with customer k, but for erasing it too.
LeavesAlone(q, t, k) ==
  /\ q.op # "erase" => q.held # k
  /\ q.locked => q.rows.customer[k] = t.customer[k] /\ Messages(q.rows, k) = Messages(t, k)

\* An erasure that was not noted.
Unnoticed(r, noted) == r.op = "erase" /\ r.held \notin noted

\* No request works on the customer of an erasure that was not noted.
Erasures ==
  \A w \in Workers : Unnoticed(request[w], caught) =>
    /\ AsRead(request[w], db)
    /\ \A v \in Workers : LeavesAlone(request[v], db, request[w].held)

------------------------------------------------------------------------------
(* Types *)

LEMMA Constants ==
  /\ MaxCustomers \in Nat /\ MaxMessages \in Nat /\ MaxEdits \in Nat /\ MaxCrashes \in Nat
  /\ Limit \in Nat /\ Limit > 0
  BY BoundsAssumption, LimitAssumption

LEMMA ItemFields ==
  ASSUME NEW m \in Mails \cup Posts
  PROVE  /\ m.name \in STRING /\ m.id \in STRING
         /\ m.email \in Emails \cup {None} /\ m.phone \in Phones \cup {None}
         /\ m.id = None => m \in Mails
  BY ItemsAssumption DEF Item

LEMMA EmptyRows ==
  /\ NoRows \in Tables /\ Len(NoRows.customer) = 0 /\ Len(NoRows.message) = 0
  /\ DOMAIN NoRows.customer = {} /\ DOMAIN NoRows.message = {}
  /\ TablesOK(NoRows, {})
  <1>1. /\ NoRows.customer = <<>> /\ NoRows.message = <<>> /\ NoRows \in Tables
    BY DEF NoRows, Tables
  <1>2. DOMAIN NoRows.customer = {} /\ DOMAIN NoRows.message = {}
    BY <1>1
  <1>3. QED
    BY <1>1, <1>2, Constants DEF TablesOK, Referred, Keyed, Unique, Forgotten

LEMMA IdleOK ==
  /\ Idle \in Request /\ Idle.op = "idle" /\ Idle.todo = <<>> /\ Idle.done = <<>>
  /\ Idle.flagged = {} /\ Idle.stage = "look" /\ Idle.held = 0 /\ ~Idle.locked
  /\ Idle.seller \in Sellers /\ Idle.channels = {} /\ Idle.rows = NoRows
  /\ Idle.email = None /\ Idle.phone = None /\ Idle.messages = {}
  /\ DOMAIN Idle.done = {}
  <1>1. (CHOOSE s \in Sellers : TRUE) \in Sellers
    BY SellersAssumption
  <1>2. <<>> \in Seq(Mails \cup Posts) /\ <<>> \in Seq(Mails) /\ 0 \in 0..MaxCustomers
    BY Constants
  <1>3. DOMAIN <<>> = {}
    OBVIOUS
  <1>4. QED
    BY <1>1, <1>2, <1>3, EmptyRows DEF Idle, Request

LEMMA IdleRequestOK ==
  ASSUME NEW t, NEW flags, NEW noted
  PROVE  RequestOK(Idle, t, flags, noted)
  BY IdleOK DEF RequestOK, PersonOK, HeldOK, RowsOK, DoneOK

LEMMA TablesFields ==
  ASSUME NEW t \in Tables
  PROVE  /\ t.customer \in Seq(Customer) /\ t.message \in Seq(Message)
         /\ Len(t.customer) \in Nat /\ Len(t.message) \in Nat
         /\ DOMAIN t.customer = 1..Len(t.customer)
         /\ DOMAIN t.message = 1..Len(t.message)
         /\ \A k \in DOMAIN t.customer : t.customer[k] \in Customer
         /\ \A i \in DOMAIN t.message : t.message[i] \in Message
         /\ t = [customer |-> t.customer, message |-> t.message]
  BY DEF Tables

LEMMA RequestFields ==
  ASSUME NEW r \in Request
  PROVE  /\ r.op \in {"idle", "worker", "manual", "post", "edit", "erase"}
         /\ r.seller \in Sellers
         /\ r.email \in Emails \cup {None} /\ r.phone \in Phones \cup {None}
         /\ r.messages \in SUBSET (1..MaxMessages)
         /\ r.todo \in Seq(Mails \cup Posts) /\ r.done \in Seq(Mails)
         /\ r.flagged \in SUBSET Mails /\ r.stage \in {"look", "store", "commit"}
         /\ r.held \in 0..MaxCustomers /\ r.channels \in SUBSET (Emails \cup Phones)
         /\ r.locked \in BOOLEAN /\ r.rows \in Tables
  BY DEF Request

------------------------------------------------------------------------------
(* Tables *)

LEMMA GrownSame ==
  ASSUME NEW t \in Tables
  PROVE  Grown(t, t) /\ NobodyErased(t, t)
  BY TablesFields DEF Grown, NobodyErased

LEMMA GrownTransitive ==
  ASSUME NEW a \in Tables, NEW b \in Tables, NEW c \in Tables, Grown(a, b), Grown(b, c)
  PROVE  Grown(a, c)
  BY TablesFields DEF Grown

LEMMA NobodyErasedTransitive ==
  ASSUME NEW a \in Tables, NEW b \in Tables, NEW c \in Tables, Grown(a, b),
         NobodyErased(a, b), NobodyErased(b, c)
  PROVE  NobodyErased(a, c)
  BY TablesFields DEF Grown, NobodyErased

LEMMA StandsGrown ==
  ASSUME NEW a \in Tables, NEW b \in Tables, Grown(a, b), NEW m, Stands(a, m)
  PROVE  Stands(b, m)
  BY TablesFields DEF Grown, Stands

LEMMA StoredStands ==
  ASSUME NEW t, NEW s, NEW m, Stored(t, s, m)
  PROVE  Stands(t, m)
  BY DEF Stored, Stands

\* A duplicate is of the item itself or of one with the same id.
LEMMA KnownStands ==
  ASSUME NEW t, NEW noted, TablesOK(t, noted), NEW item \in Mails \cup Posts, Known(t, item), epoch \in Nat
  PROVE  Stands(t, item)
  <1>1. PICK i \in DOMAIN t.message : t.message[i].key = MessageKey(item)
    BY DEF Known
  <1> DEFINE m == t.message[i]
  <1>2. m \in Message /\ m.item \in Mails \cup Posts
    BY <1>1, TablesFields DEF TablesOK, Message
  <1>3. IF m.item.id = None THEN m.key.id = m.item.name /\ m.key.epoch > 0 /\ m.item \in Mails
                            ELSE m.key = [id |-> m.item.id, epoch |-> 0]
    BY <1>1 DEF TablesOK, Keyed
  <1>4. CASE item.id = None
    <2>1. item \in Mails /\ m.key.id = item.name /\ m.key.epoch = epoch + 1
      BY <1>1, <1>4, ItemFields DEF MessageKey
    <2>2. m.item.id = None
      BY <1>3, <2>1
    <2>3. m.item = item
      BY <1>3, <2>1, <2>2, ItemsAssumption
    <2>4. QED
      BY <2>3 DEF Stands
  <1>5. CASE item.id # None
    <2>1. m.key.id = item.id /\ m.key.epoch = 0
      BY <1>1, <1>5 DEF MessageKey
    <2>2. m.item.id # None /\ m.item.id = item.id
      BY <1>3, <2>1
    <2>3. QED
      BY <1>5, <2>2 DEF Stands
  <1>6. QED
    BY <1>4, <1>5

\* The customers that may be taken for the sender exist, are of the seller, and are
\* not erased unless that was noted.
LEMMA SendersOK ==
  ASSUME NEW t, NEW noted, TablesOK(t, noted), NEW s, NEW item, NEW k \in Senders(t, s, item)
  PROVE  /\ k \in DOMAIN t.customer /\ t.customer[k].seller = s
         /\ t.customer[k].erased => k \in noted
  BY DEF Senders, WithEmail, WithPhone, TablesOK, Forgotten

LEMMA KeyOK ==
  ASSUME NEW item \in Mails \cup Posts, epoch \in Nat
  PROVE  /\ MessageKey(item) \in [id: STRING, epoch: Nat]
         /\ IF item.id = None
            THEN /\ MessageKey(item).id = item.name /\ MessageKey(item).epoch > 0
                 /\ item \in Mails
            ELSE MessageKey(item) = [id |-> item.id, epoch |-> 0]
  BY ItemFields DEF MessageKey

LEMMA ContactOK ==
  ASSUME NEW item \in Mails \cup Posts
  PROVE  Contact(item) \subseteq Emails \cup Phones
  BY ItemFields DEF Contact

LEMMA NewCustomerOK ==
  ASSUME NEW s \in Sellers, NEW item \in Mails \cup Posts
  PROVE  LET c == NewCustomer(s, item) IN
         /\ c \in Customer /\ c.seller = s /\ c.email = item.email /\ ~c.erased /\ ~c.typed
  BY ItemFields, ContactOK DEF NewCustomer, Customer

LEMMA MergeOK ==
  ASSUME NEW row \in Customer, NEW read \in SUBSET (Emails \cup Phones),
         NEW item \in Mails \cup Posts
  PROVE  LET c == Merge(row, read, item) IN
         /\ c \in Customer /\ c.seller = row.seller /\ c.email = row.email
         /\ c.phone = row.phone /\ c.erased = row.erased /\ c.typed = row.typed
  BY ContactOK DEF Merge, Customer

\* The rows of one message: a message more, and a customer more or one merged into.
LEMMA InsertShape ==
  ASSUME NEW t, NEW noted, TablesOK(t, noted), NEW r \in Request, NEW item \in Mails \cup Posts, epoch \in Nat,
         r.held # 0 => r.held \in DOMAIN t.customer,
         r.held = 0 => Len(t.customer) < MaxCustomers, Len(t.message) < MaxMessages
  PROVE  LET new == Insert(t, r, item)
             n == Len(t.message) + 1
             c == Len(t.customer) + 1 IN
         /\ new \in Tables
         /\ Len(new.message) = n /\ n <= MaxMessages
         /\ \A i \in DOMAIN t.message : new.message[i] = t.message[i]
         /\ new.message[n].seller = r.seller /\ new.message[n].item = item
         /\ new.message[n].key = MessageKey(item) /\ ~new.message[n].erased
         /\ new.message[n].customer = IF r.held = 0 THEN c ELSE r.held
         /\ Len(new.customer) = IF r.held = 0 THEN c ELSE Len(t.customer)
         /\ Len(new.customer) <= MaxCustomers
         /\ \A k \in DOMAIN t.customer :
              /\ new.customer[k].seller = t.customer[k].seller
              /\ new.customer[k].email = t.customer[k].email
              /\ new.customer[k].phone = t.customer[k].phone
              /\ new.customer[k].erased = t.customer[k].erased
              /\ new.customer[k].typed = t.customer[k].typed
              /\ k # r.held => new.customer[k] = t.customer[k]
         /\ r.held = 0 => new.customer[c] = NewCustomer(r.seller, item)
  <1> DEFINE n == Len(t.message) + 1
             c == Len(t.customer) + 1
             customers == IF r.held = 0 THEN Append(t.customer, NewCustomer(r.seller, item))
                          ELSE [t.customer EXCEPT ![r.held] = Merge(@, r.channels, item)]
             m == [seller |-> r.seller, item |-> item, key |-> MessageKey(item),
                   erased |-> FALSE,
                   customer |-> IF r.held = 0 THEN Len(customers) ELSE r.held]
             new == [customer |-> customers, message |-> Append(t.message, m)]
  <1>1. Insert(t, r, item) = new
    BY DEF Insert
  <1>2. /\ t \in Tables /\ t.customer \in Seq(Customer) /\ t.message \in Seq(Message)
        /\ Len(t.customer) \in Nat /\ Len(t.message) \in Nat
        /\ DOMAIN t.customer = 1..Len(t.customer) /\ DOMAIN t.message = 1..Len(t.message)
        /\ Len(t.customer) <= MaxCustomers
    BY TablesFields DEF TablesOK
  <1>3. r.held = 0 =>
          /\ customers \in Seq(Customer) /\ Len(customers) = c /\ c <= MaxCustomers
          /\ \A k \in DOMAIN t.customer : customers[k] = t.customer[k]
          /\ customers[c] = NewCustomer(r.seller, item)
    <2>1. NewCustomer(r.seller, item) \in Customer
      BY NewCustomerOK, RequestFields
    <2>2. QED
      BY <1>2, <2>1, Constants
  <1>4. r.held # 0 =>
          /\ customers \in Seq(Customer) /\ Len(customers) = Len(t.customer)
          /\ \A k \in DOMAIN t.customer :
               customers[k] = IF k = r.held THEN Merge(t.customer[k], r.channels, item)
                                            ELSE t.customer[k]
    <2> SUFFICES ASSUME r.held # 0 PROVE
          /\ customers \in Seq(Customer) /\ Len(customers) = Len(t.customer)
          /\ \A k \in DOMAIN t.customer :
               customers[k] = IF k = r.held THEN Merge(t.customer[k], r.channels, item)
                                            ELSE t.customer[k]
      OBVIOUS
    <2>1. Merge(t.customer[r.held], r.channels, item) \in Customer
      BY <1>2, MergeOK, RequestFields, TablesFields
    <2>2. QED
      BY <1>2, <2>1
  <1>5. \A k \in DOMAIN t.customer :
          /\ customers[k].seller = t.customer[k].seller
          /\ customers[k].email = t.customer[k].email
          /\ customers[k].phone = t.customer[k].phone
          /\ customers[k].erased = t.customer[k].erased
          /\ customers[k].typed = t.customer[k].typed
          /\ k # r.held => customers[k] = t.customer[k]
    <2> TAKE k \in DOMAIN t.customer
    <2>1. t.customer[k] \in Customer /\ k # 0
      BY <1>2, TablesFields
    <2>2. CASE k # r.held
      <3>1. customers[k] = t.customer[k]
        BY <1>3, <1>4, <2>2
      <3> HIDE DEF customers
      <3>2. QED
        BY <2>2, <3>1
    <2>3. CASE k = r.held
      <3>1. customers[k] = Merge(t.customer[k], r.channels, item)
        BY <1>4, <2>1, <2>3
      <3> HIDE DEF customers
      <3>2. QED
        BY <2>1, <2>3, <3>1, MergeOK, RequestFields
    <2>4. QED
      BY <2>2, <2>3
  <1> HIDE DEF customers
  <1>6. m \in Message
    <2>1. /\ r.seller \in Sellers /\ MessageKey(item) \in [id: STRING, epoch: Nat]
          /\ (IF r.held = 0 THEN Len(customers) ELSE r.held) \in 1..MaxCustomers
      BY <1>2, <1>3, KeyOK, RequestFields, Constants
    <2>2. QED
      BY <2>1 DEF Message
  <1>7. /\ m.seller = r.seller /\ m.item = item /\ m.key = MessageKey(item) /\ ~m.erased
        /\ m.customer = IF r.held = 0 THEN c ELSE r.held
    BY <1>3
  <1> HIDE DEF m
  <1>8. /\ new.customer = customers /\ new.message = Append(t.message, m)
        /\ new.message \in Seq(Message) /\ Len(new.message) = n /\ new.message[n] = m
        /\ \A i \in DOMAIN t.message : new.message[i] = t.message[i]
        /\ new \in Tables /\ n <= MaxMessages
    BY <1>2, <1>3, <1>4, <1>6, Constants DEF Tables
  <1> HIDE DEF new
  <1>9. QED
    BY <1>1, <1>2, <1>3, <1>4, <1>5, <1>7, <1>8

\* Storing a message that is not known keeps the tables in order.
LEMMA InsertOK ==
  ASSUME NEW t, NEW noted, TablesOK(t, noted), NEW r \in Request, NEW item \in Mails \cup Posts, epoch \in Nat,
         ~Known(t, item),
         r.held # 0 => /\ r.held \in DOMAIN t.customer
                       /\ t.customer[r.held].seller = r.seller
                       /\ t.customer[r.held].erased => r.held \in noted,
         r.held = 0 => Len(t.customer) < MaxCustomers, Len(t.message) < MaxMessages
  PROVE  LET new == Insert(t, r, item) IN
         TablesOK(new, noted) /\ Grown(t, new) /\ NobodyErased(t, new) /\ Stands(new, item)
  <1> DEFINE n == Len(t.message) + 1
             c == Len(t.customer) + 1
             new == Insert(t, r, item)
  <1>1. /\ new \in Tables
        /\ Len(new.message) = n /\ n <= MaxMessages
        /\ \A i \in DOMAIN t.message : new.message[i] = t.message[i]
        /\ new.message[n].seller = r.seller /\ new.message[n].item = item
        /\ new.message[n].key = MessageKey(item) /\ ~new.message[n].erased
        /\ new.message[n].customer = IF r.held = 0 THEN c ELSE r.held
        /\ Len(new.customer) = IF r.held = 0 THEN c ELSE Len(t.customer)
        /\ Len(new.customer) <= MaxCustomers
        /\ r.held = 0 => new.customer[c] = NewCustomer(r.seller, item)
    BY InsertShape
  <1>2. \A k \in DOMAIN t.customer :
          /\ new.customer[k].seller = t.customer[k].seller
          /\ new.customer[k].email = t.customer[k].email
          /\ new.customer[k].phone = t.customer[k].phone
          /\ new.customer[k].erased = t.customer[k].erased
          /\ k # r.held => new.customer[k] = t.customer[k]
    BY InsertShape
  <1> HIDE DEF new
  <1>3. /\ t \in Tables /\ Len(t.customer) \in Nat /\ Len(t.message) \in Nat
        /\ DOMAIN t.customer = 1..Len(t.customer) /\ DOMAIN t.message = 1..Len(t.message)
        /\ Referred(t) /\ Keyed(t) /\ Unique(t) /\ Forgotten(t, noted)
    BY TablesFields DEF TablesOK
  <1>4. /\ DOMAIN new.customer = 1..Len(new.customer)
        /\ DOMAIN new.message = DOMAIN t.message \cup {n} /\ n \notin DOMAIN t.message
        /\ DOMAIN new.customer = IF r.held = 0 THEN DOMAIN t.customer \cup {c}
                                 ELSE DOMAIN t.customer
        /\ c \notin DOMAIN t.customer
    <2>1. /\ DOMAIN new.customer = 1..Len(new.customer)
          /\ DOMAIN new.message = 1..Len(new.message)
      BY <1>1, TablesFields
    <2>2. \A j \in Nat : 1..(j + 1) = (1..j) \cup {j + 1} /\ j + 1 \notin 1..j
      OBVIOUS
    <2>3. DOMAIN new.message = DOMAIN t.message \cup {n} /\ n \notin DOMAIN t.message
      BY <1>1, <1>3, <2>1, <2>2
    <2>4. c \notin DOMAIN t.customer /\ 1..c = DOMAIN t.customer \cup {c}
      BY <1>3, <2>2
    <2>5. QED
      BY <1>1, <1>3, <2>1, <2>3, <2>4
  <1>5. r.held = 0 => /\ ~new.customer[c].erased /\ new.customer[c].seller = r.seller
    BY <1>1, NewCustomerOK, RequestFields
  <1>6. Referred(new)
    <2> SUFFICES ASSUME NEW i \in DOMAIN new.message
                 PROVE  /\ new.message[i].customer \in DOMAIN new.customer
                        /\ new.customer[new.message[i].customer].seller = new.message[i].seller
      BY DEF Referred
    <2>1. CASE i \in DOMAIN t.message
      <3>1. new.message[i] = t.message[i]
        BY <1>1, <2>1
      <3>2. /\ t.message[i].customer \in DOMAIN t.customer
            /\ t.customer[t.message[i].customer].seller = t.message[i].seller
        BY <1>3, <2>1 DEF Referred
      <3>3. QED
        BY <1>2, <1>4, <3>1, <3>2
    <2>2. CASE i = n
      BY <1>1, <1>2, <1>4, <1>5, <2>2
    <2>3. QED
      BY <1>4, <2>1, <2>2
  <1>7. Keyed(new)
    <2> DEFINE Good(m) == IF m.item.id = None
                          THEN m.key.id = m.item.name /\ m.key.epoch > 0 /\ m.item \in Mails
                          ELSE m.key = [id |-> m.item.id, epoch |-> 0]
    <2> SUFFICES ASSUME NEW i \in DOMAIN new.message PROVE Good(new.message[i])
      BY DEF Keyed
    <2>1. CASE i \in DOMAIN t.message
      BY <1>1, <1>3, <2>1 DEF Keyed
    <2>2. CASE i = n
      BY <1>1, <2>2, KeyOK
    <2>3. QED
      BY <1>4, <2>1, <2>2
  <1>8. Unique(new)
    <2> SUFFICES ASSUME NEW i \in DOMAIN new.message, NEW j \in DOMAIN new.message,
                        ~new.message[i].erased, ~new.message[j].erased, i # j
                 PROVE  new.message[i].key # new.message[j].key
      BY DEF Unique
    <2>1. \A h \in DOMAIN t.message :
            ~new.message[h].erased => new.message[h].key # MessageKey(item)
      BY <1>1 DEF Known
    <2>2. CASE i \in DOMAIN t.message /\ j \in DOMAIN t.message
      <3>1. new.message[i] = t.message[i] /\ new.message[j] = t.message[j]
        BY <1>1, <2>2
      <3>2. QED
        BY <1>3, <2>2, <3>1 DEF Unique
    <2>3. CASE i = n \/ j = n
      BY <1>1, <1>4, <2>1, <2>3
    <2>4. QED
      BY <1>4, <2>2, <2>3
  <1>9. Forgotten(new, noted)
    <2> SUFFICES ASSUME NEW k \in DOMAIN new.customer, new.customer[k].erased, k \notin noted
                 PROVE  /\ new.customer[k].email = None /\ new.customer[k].phone = None
                        /\ new.customer[k].channels = {}
                        /\ \A i \in DOMAIN new.message :
                             new.message[i].customer = k => new.message[i].erased
      BY DEF Forgotten
    <2>1. k \in DOMAIN t.customer /\ t.customer[k].erased
      BY <1>2, <1>4, <1>5
    <2>2. k # r.held /\ new.customer[k] = t.customer[k]
      BY <1>2, <2>1
    <2>3. k # new.message[n].customer
      BY <1>1, <1>4, <2>1, <2>2
    <2>4. QED
      BY <1>1, <1>3, <1>4, <2>1, <2>2, <2>3 DEF Forgotten
  <1>10. TablesOK(new, noted)
    BY <1>1, <1>6, <1>7, <1>8, <1>9 DEF TablesOK
  <1>11. Grown(t, new) /\ NobodyErased(t, new)
    BY <1>1, <1>2, <1>3 DEF Grown, NobodyErased
  <1>12. Stands(new, item)
    BY <1>1, <1>4 DEF Stands
  <1>13. QED
    BY <1>10, <1>11, <1>12 DEF new

\* What was noted once stays noted.
LEMMA NotedMore ==
  ASSUME NEW t, NEW noted, TablesOK(t, noted), NEW more, noted \subseteq more
  PROVE  TablesOK(t, more)
  BY DEF TablesOK, Forgotten

\* The columns that an edit may write.
LEMMA EditRow ==
  ASSUME NEW row \in Customer, NEW r \in Request, NEW data \in Profiles
  PROVE  LET new == Edit(row, r, data) IN
         /\ new \in Customer /\ new.seller = row.seller /\ new.erased = row.erased
         /\ new.typed \/ (new.email = row.email /\ ~row.typed)
  <1> DEFINE e == Put(r.email, Given(data, "email", r.email), row.email)
             p == Put(r.phone, Given(data, "phone", r.phone), row.phone)
             c == Put(r.channels, Given(data, "channels", r.channels), row.channels)
             y == row.typed \/ Given(data, "email", r.email) # r.email
  <1>1. /\ e \in Emails \cup {None} /\ p \in Phones \cup {None}
        /\ c \in SUBSET (Emails \cup Phones) /\ y \in BOOLEAN
    <2>1. PICK x \in Profile :
            /\ DOMAIN data \subseteq {"email", "phone", "channels"}
            /\ \A field \in DOMAIN data : data[field] = x[field]
      BY ProfilesAssumption
    <2>2. /\ x.email \in Emails \cup {None} /\ x.phone \in Phones \cup {None}
          /\ x.channels \in SUBSET (Emails \cup Phones)
      BY DEF Profile
    <2>3. /\ Given(data, "email", r.email) \in Emails \cup {None}
          /\ Given(data, "phone", r.phone) \in Phones \cup {None}
          /\ Given(data, "channels", r.channels) \in SUBSET (Emails \cup Phones)
      BY <2>1, <2>2, RequestFields DEF Given
    <2>4. /\ row.email \in Emails \cup {None} /\ row.phone \in Phones \cup {None}
          /\ row.channels \in SUBSET (Emails \cup Phones) /\ row.typed \in BOOLEAN
      BY DEF Customer
    <2>5. QED
      BY <2>3, <2>4 DEF Put
  <1>2. y \/ (e = row.email /\ ~row.typed)
    BY DEF Put
  <1>3. Edit(row, r, data) = [[[[row EXCEPT !.email = e] EXCEPT !.phone = p]
                                   EXCEPT !.channels = c] EXCEPT !.typed = y]
    BY DEF Edit, Customer
  <1> HIDE DEF e, p, c, y
  <1>4. QED
    BY <1>1, <1>2, <1>3 DEF Customer

\* A customer is edited.
LEMMA EditOK ==
  ASSUME NEW t, NEW noted, TablesOK(t, noted), NEW k \in DOMAIN t.customer,
         NEW row \in Customer, row.seller = t.customer[k].seller,
         row.erased = t.customer[k].erased, row.erased => k \in noted
  PROVE  LET new == [t EXCEPT !.customer[k] = row] IN
         /\ TablesOK(new, noted) /\ Grown(t, new) /\ NobodyErased(t, new)
         /\ Len(new.customer) = Len(t.customer)
         /\ \A j \in DOMAIN t.customer : j # k => new.customer[j] = t.customer[j]
         /\ new.customer[k] = row /\ new.message = t.message
  <1> DEFINE customers == [t.customer EXCEPT ![k] = row]
             new == [t EXCEPT !.customer[k] = row]
  <1>1. /\ t \in Tables /\ t.customer \in Seq(Customer) /\ t.message \in Seq(Message)
        /\ DOMAIN t.customer = 1..Len(t.customer) /\ t.customer[k] \in Customer
        /\ t = [customer |-> t.customer, message |-> t.message]
    BY TablesFields DEF TablesOK
  <1>2. new.customer = customers /\ new.message = t.message
        /\ new = [customer |-> customers, message |-> t.message]
    <2>1. new = [t EXCEPT !.customer = customers]
      OBVIOUS
    <2> HIDE DEF new, customers
    <2>2. QED
      BY <1>1, <2>1
  <1> HIDE DEF new
  <1>3. /\ customers \in Seq(Customer) /\ Len(customers) = Len(t.customer)
        /\ DOMAIN customers = DOMAIN t.customer
        /\ customers[k] = row /\ \A j \in DOMAIN t.customer : j # k => customers[j] = t.customer[j]
    BY <1>1
  <1> HIDE DEF customers
  <1>4. new \in Tables
    BY <1>1, <1>2, <1>3 DEF Tables
  <1>5. \A j \in DOMAIN t.customer : /\ customers[j].seller = t.customer[j].seller
                                    /\ customers[j].erased = t.customer[j].erased
    BY <1>3
  <1>6. TablesOK(new, noted)
    <2>1. Referred(new)
      BY <1>2, <1>3, <1>5 DEF TablesOK, Referred
    <2>2. Keyed(new) /\ Unique(new)
      BY <1>2 DEF TablesOK, Keyed, Unique
    <2>3. Forgotten(new, noted)
      <3> SUFFICES ASSUME NEW j \in DOMAIN new.customer, new.customer[j].erased, j \notin noted
                   PROVE  /\ new.customer[j].email = None /\ new.customer[j].phone = None
                          /\ new.customer[j].channels = {}
                          /\ \A i \in DOMAIN new.message :
                               new.message[i].customer = j => new.message[i].erased
        BY DEF Forgotten
      <3>1. j \in DOMAIN t.customer /\ new.customer[j] = t.customer[j]
        BY <1>2, <1>3
      <3>2. QED
        BY <1>2, <3>1 DEF TablesOK, Forgotten
    <2>4. QED
      BY <1>2, <1>3, <1>4, <2>1, <2>2, <2>3 DEF TablesOK
  <1>7. Grown(t, new) /\ NobodyErased(t, new)
    BY <1>1, <1>2, <1>3, <1>5, TablesFields DEF Grown, NobodyErased
  <1>8. QED
    BY <1>2, <1>3, <1>6, <1>7 DEF new

\* The columns that an erasure writes.
LEMMA ForgetRow ==
  ASSUME NEW row \in Customer, NEW r \in Request
  PROVE  LET new == Forget(row, r) IN
         /\ new \in Customer /\ new.seller = row.seller /\ new.erased /\ new.typed = row.typed
         /\ new.email \in {row.email, None} /\ new.phone \in {row.phone, None}
         /\ new.channels \in {row.channels, {}}
         /\ row.email \in {r.email, None} => new.email = None
         /\ row.phone \in {r.phone, None} => new.phone = None
         /\ row.channels \in {r.channels, {}} => new.channels = {}
  <1> DEFINE e == Put(r.email, None, row.email)
             p == Put(r.phone, None, row.phone)
             c == Put(r.channels, {}, row.channels)
  <1>1. /\ e \in {row.email, None}
        /\ row.email \in {r.email, None} => e = None
    BY DEF Put
  <1>2. /\ p \in {row.phone, None}
        /\ row.phone \in {r.phone, None} => p = None
    BY DEF Put
  <1>3. /\ c \in {row.channels, {}}
        /\ row.channels \in {r.channels, {}} => c = {}
    BY DEF Put
  <1>4. Forget(row, r) = [[[[row EXCEPT !.email = e] EXCEPT !.phone = p]
                                EXCEPT !.channels = c] EXCEPT !.erased = TRUE]
    BY DEF Forget, Customer
  <1>5. /\ e \in Emails \cup {None} /\ p \in Phones \cup {None}
        /\ c \in SUBSET (Emails \cup Phones)
    BY <1>1, <1>2, <1>3 DEF Customer
  <1> HIDE DEF e, p, c
  <1> DEFINE new == Forget(row, r)
  <1>6. /\ new \in Customer /\ new.seller = row.seller /\ new.erased /\ new.typed = row.typed
        /\ new.email = e /\ new.phone = p /\ new.channels = c
    BY <1>4, <1>5 DEF Customer
  <1> HIDE DEF new
  <1>7. QED
    BY <1>1, <1>2, <1>3, <1>6 DEF new

\* A customer is erased, with the messages that were read.
LEMMA EraseOK ==
  ASSUME NEW t, NEW noted, TablesOK(t, noted), NEW r \in Request, r.held \in DOMAIN t.customer,
         r.held \notin noted => AsRead(r, t)
  PROVE  LET new == [customer |-> [t.customer EXCEPT ![r.held] = Forget(@, r)],
                     message |-> EraseMessages(t.message, r.messages)] IN
         /\ TablesOK(new, noted) /\ Grown(t, new)
         /\ Len(new.customer) = Len(t.customer)
         /\ \A j \in DOMAIN t.customer : j # r.held => new.customer[j] = t.customer[j]
         /\ new.customer[r.held] = Forget(t.customer[r.held], r)
         /\ \A j : Messages(new, j) = Messages(t, j)
  <1> DEFINE k == r.held
             row == Forget(t.customer[k], r)
             customers == [t.customer EXCEPT ![k] = row]
             messages == EraseMessages(t.message, r.messages)
             new == [customer |-> customers, message |-> messages]
  <1>1. /\ t \in Tables /\ t.customer \in Seq(Customer) /\ t.message \in Seq(Message)
        /\ DOMAIN t.customer = 1..Len(t.customer) /\ t.customer[k] \in Customer
        /\ DOMAIN t.message = 1..Len(t.message) /\ Len(t.message) \in Nat
        /\ \A i \in DOMAIN t.message : t.message[i] \in Message
    BY TablesFields DEF TablesOK
  <1>2. /\ row \in Customer /\ row.seller = t.customer[k].seller /\ row.erased
        /\ k \notin noted => row.email = None /\ row.phone = None /\ row.channels = {}
    BY <1>1, ForgetRow DEF AsRead
  <1> HIDE DEF row
  <1>3. /\ customers \in Seq(Customer) /\ Len(customers) = Len(t.customer)
        /\ DOMAIN customers = DOMAIN t.customer
        /\ customers[k] = row /\ \A j \in DOMAIN t.customer : j # k => customers[j] = t.customer[j]
    BY <1>1, <1>2
  <1> HIDE DEF customers
  <1>4. /\ DOMAIN messages = DOMAIN t.message
        /\ \A i \in DOMAIN t.message :
             /\ messages[i] \in Message
             /\ messages[i].seller = t.message[i].seller /\ messages[i].item = t.message[i].item
             /\ messages[i].key = t.message[i].key
             /\ messages[i].customer = t.message[i].customer
             /\ messages[i].erased = (t.message[i].erased \/ i \in r.messages)
    BY <1>1 DEF EraseMessages, Message
  <1>5. messages \in Seq(Message) /\ Len(messages) = Len(t.message)
    <2>1. messages \in [1..Len(t.message) -> Message]
      BY <1>1, <1>4 DEF EraseMessages
    <2> HIDE DEF messages
    <2>2. QED
      BY <1>1, <2>1
  <1> HIDE DEF messages
  <1>6. new.customer = customers /\ new.message = messages /\ new \in Tables
    BY <1>3, <1>5 DEF Tables
  <1> HIDE DEF new
  <1>7. Referred(new) /\ Keyed(new) /\ Unique(new)
    <2>1. Referred(new)
      BY <1>2, <1>3, <1>4, <1>6 DEF TablesOK, Referred
    <2>2. Keyed(new)
      BY <1>4, <1>6 DEF TablesOK, Keyed
    <2>3. Unique(new)
      <3> SUFFICES ASSUME NEW i \in DOMAIN new.message, NEW j \in DOMAIN new.message,
                          ~new.message[i].erased, ~new.message[j].erased, i # j
                   PROVE  new.message[i].key # new.message[j].key
        BY DEF Unique
      <3>1. ~t.message[i].erased /\ ~t.message[j].erased
        BY <1>4, <1>6
      <3>2. t.message[i].key # t.message[j].key
        BY <1>4, <1>6, <3>1 DEF TablesOK, Unique
      <3>3. QED
        BY <1>4, <1>6, <3>2
    <2>4. QED
      BY <2>1, <2>2, <2>3
  <1>8. Forgotten(new, noted)
    <2> SUFFICES ASSUME NEW j \in DOMAIN new.customer, new.customer[j].erased, j \notin noted
                 PROVE  /\ new.customer[j].email = None /\ new.customer[j].phone = None
                        /\ new.customer[j].channels = {}
                        /\ \A i \in DOMAIN new.message :
                             new.message[i].customer = j => new.message[i].erased
      BY DEF Forgotten
    <2>1. CASE j = k
      <3>1. new.customer[j] = row
        BY <1>3, <1>6, <2>1
      <3>2. Messages(t, k) \subseteq r.messages
        BY <2>1 DEF AsRead
      <3>3. \A i \in DOMAIN new.message : new.message[i].customer = j => new.message[i].erased
        BY <1>4, <1>6, <2>1, <3>2 DEF Messages
      <3>4. QED
        BY <1>2, <2>1, <3>1, <3>3
    <2>2. CASE j # k
      <3>1. j \in DOMAIN t.customer /\ new.customer[j] = t.customer[j]
        BY <1>3, <1>6, <2>2
      <3>2. /\ t.customer[j].email = None /\ t.customer[j].phone = None
            /\ t.customer[j].channels = {}
            /\ \A i \in DOMAIN t.message : t.message[i].customer = j => t.message[i].erased
        BY <3>1 DEF TablesOK, Forgotten
      <3>3. QED
        BY <1>4, <1>6, <3>1, <3>2
    <2>3. QED
      BY <2>1, <2>2
  <1>9. TablesOK(new, noted)
    BY <1>3, <1>5, <1>6, <1>7, <1>8 DEF TablesOK, Referred, Keyed, Unique
  <1>10. Grown(t, new)
    BY <1>1, <1>2, <1>3, <1>4, <1>5, <1>6, TablesFields DEF Grown
  <1>11. \A j : Messages(new, j) = Messages(t, j)
    BY <1>4, <1>6 DEF Messages
  <1>12. QED
    BY <1>2, <1>3, <1>6, <1>9, <1>10, <1>11 DEF row, customers, messages, new

------------------------------------------------------------------------------
(* Requests *)

\* A request stands still while more mails are flagged and more is noted.
LEMMA RequestStays ==
  ASSUME NEW r \in Request, NEW t, NEW flags, NEW noted, RequestOK(r, t, flags, noted),
         NEW flags1, flags[r.seller] \subseteq flags1[r.seller],
         NEW more, noted \subseteq more
  PROVE  RequestOK(r, t, flags1, more)
  <1>1. HeldOK(r, t, more)
    BY DEF RequestOK, HeldOK
  <1>2. RowsOK(r, t, more)
    BY NotedMore DEF RequestOK, RowsOK
  <1>3. QED
    BY <1>1, <1>2 DEF RequestOK

\* The tables change under a request that has not written.
LEMMA RequestUnder ==
  ASSUME NEW r \in Request, NEW t \in Tables, NEW flags, NEW noted,
         RequestOK(r, t, flags, noted), ~r.locked,
         NEW t1 \in Tables, Grown(t, t1), NEW more,
         (r.op # "erase" /\ r.held # 0 /\ t1.customer[r.held].erased) => r.held \in more
  PROVE  RequestOK(r, t1, flags, more)
  <1>1. HeldOK(r, t1, more)
    <2> SUFFICES ASSUME r.held # 0
                 PROVE  /\ r.held \in DOMAIN t1.customer
                        /\ t1.customer[r.held].seller = r.seller
      BY DEF HeldOK, Sight
    <2>1. r.held \in DOMAIN t.customer /\ t.customer[r.held].seller = r.seller
      BY DEF RequestOK, HeldOK, Sight
    <2>2. QED
      BY <2>1, TablesFields DEF Grown
  <1>2. RowsOK(r, t1, more)
    BY DEF RowsOK
  <1>3. DoneOK(r, t1)
    BY StandsGrown DEF RequestOK, DoneOK, Sight
  <1>4. QED
    BY <1>1, <1>2, <1>3 DEF RequestOK

\* The tables that a request sees are in order.
LEMMA SightOK ==
  ASSUME IInv, NEW w \in Workers
  PROVE  LET t == Rows(w) IN
         /\ t = Sight(request[w], db) /\ TablesOK(t, caught) /\ t \in Tables
         /\ Grown(db, t) /\ NobodyErased(db, t)
         /\ request[w] \in Request /\ epoch \in Nat /\ db \in Tables
  <1>1. /\ request[w] \in Request /\ epoch \in Nat /\ db \in Tables
        /\ RowsOK(request[w], db, caught) /\ TablesOK(db, caught)
    BY Constants DEF IInv, TypeOK, RequestOK
  <1>2. Rows(w) = Sight(request[w], db)
    BY DEF Rows, Sight
  <1>3. CASE request[w].locked
    BY <1>1, <1>2, <1>3 DEF Sight, RowsOK, TablesOK
  <1>4. CASE ~request[w].locked
    BY <1>1, <1>2, <1>4, GrownSame DEF Sight
  <1>5. QED
    BY <1>1, <1>2, <1>3, <1>4

\* A step of one request that commits nothing.
LEMMA StepOfRequest ==
  ASSUME IInv, NEW w \in Workers, NEW q \in Request, request' = [request EXCEPT ![w] = q],
         mailbox' = mailbox, db' = db, epoch' = epoch, edits' \in 0..MaxEdits,
         caught \subseteq caught', caught' \subseteq 1..MaxCustomers,
         crashes' \in 0..MaxCrashes, epoch <= crashes', dropped' \subseteq Sellers \X Mails,
         seen' \in [Sellers -> SUBSET Mails], \A s \in Sellers : seen[s] \subseteq seen'[s],
         q.locked => request[w].locked \/ LockFree(w),
         RequestOK(q, db, seen', caught'), SeenOK'
  PROVE  IInv'
  <1>1. request'[w] = q /\ \A v \in Workers \ {w} : request'[v] = request[v]
    BY DEF IInv, TypeOK
  <1>2. TypeOK'
    BY DEF IInv, TypeOK
  <1>3. TablesOK(db', caught')
    BY NotedMore DEF IInv
  <1>4. \A v \in Workers : RequestOK(request'[v], db', seen', caught')
    <2> SUFFICES ASSUME NEW v \in Workers PROVE RequestOK(request'[v], db, seen', caught')
      OBVIOUS
    <2>1. CASE v = w
      BY <1>1, <2>1
    <2>2. CASE v # w
      <3>1. request[v] \in Request /\ request[v].seller \in Sellers
        BY RequestFields DEF IInv, TypeOK
      <3>2. RequestOK(request[v], db, seen, caught)
        BY DEF IInv
      <3>3. seen[request[v].seller] \subseteq seen'[request[v].seller]
        BY <3>1
      <3>4. RequestOK(request[v], db, seen', caught')
        BY <3>1, <3>2, <3>3, RequestStays
      <3>5. QED
        BY <1>1, <2>2, <3>4
    <2>3. QED
      BY <2>1, <2>2
  <1>5. OneLock'
    BY <1>1 DEF IInv, OneLock, LockFree
  <1>6. QED
    BY <1>2, <1>3, <1>4, <1>5 DEF IInv

\* A mail that was accounted for still is where the request of w flags no fewer.
LEMMA SeenStays ==
  ASSUME IInv, NEW w \in Workers, NEW q \in Request, request' = [request EXCEPT ![w] = q],
         db' = db, dropped \subseteq dropped', seen' = seen,
         q.seller = request[w].seller, request[w].flagged \subseteq q.flagged
  PROVE  SeenOK'
  <1>1. request'[w] = q /\ \A v \in Workers \ {w} : request'[v] = request[v]
    BY DEF IInv, TypeOK
  <1>2. \A v \in Workers : /\ request'[v].seller = request[v].seller
                           /\ request[v].flagged \subseteq request'[v].flagged
    BY <1>1
  <1> SUFFICES ASSUME NEW s \in Sellers, NEW m \in seen[s]
               PROVE  \/ Stands(db, m)
                      \/ <<s, m>> \in dropped'
                      \/ \E v \in Workers : request'[v].seller = s /\ m \in request'[v].flagged
    BY DEF SeenOK
  <1>3. \/ Stands(db, m)
        \/ <<s, m>> \in dropped
        \/ \E v \in Workers : request[v].seller = s /\ m \in request[v].flagged
    BY DEF IInv, SeenOK
  <1>4. QED
    BY <1>2, <1>3

\* A request starts: nothing was flagged before.
LEMMA SeenBegins ==
  ASSUME IInv, NEW w \in Workers, NEW q \in Request, request' = [request EXCEPT ![w] = q],
         db' = db, dropped' = dropped, request[w].op = "idle",
         seen' = [seen EXCEPT ![q.seller] = @ \cup q.flagged]
  PROVE  SeenOK'
  <1>1. request'[w] = q /\ \A v \in Workers \ {w} : request'[v] = request[v]
    BY DEF IInv, TypeOK
  <1>2. request[w].flagged = {}
    BY IdleOK DEF IInv, RequestOK
  <1>3. q.seller \in Sellers
    BY RequestFields
  <1> SUFFICES ASSUME NEW s \in Sellers, NEW m \in seen'[s]
               PROVE  \/ Stands(db, m)
                      \/ <<s, m>> \in dropped
                      \/ \E v \in Workers : request'[v].seller = s /\ m \in request'[v].flagged
    BY DEF SeenOK
  <1>4. CASE m \in seen[s]
    <2>1. \/ Stands(db, m)
          \/ <<s, m>> \in dropped
          \/ \E v \in Workers : request[v].seller = s /\ m \in request[v].flagged
      BY <1>4 DEF IInv, SeenOK
    <2>2. QED
      BY <1>1, <1>2, <2>1
  <1>5. CASE m \notin seen[s]
    <2>1. s = q.seller /\ m \in q.flagged
      BY <1>3, <1>5 DEF IInv, TypeOK
    <2>2. QED
      BY <1>1, <2>1
  <1>6. QED
    BY <1>4, <1>5

------------------------------------------------------------------------------
(* The steps *)

LEMMA InitInv == Init => IInv
  <1> SUFFICES ASSUME Init PROVE IInv
    OBVIOUS
  <1>1. db = NoRows /\ \A w \in Workers : request[w] = Idle
    BY DEF Init
  <1>2. TypeOK
    BY IdleOK, EmptyRows, Constants DEF Init, TypeOK
  <1>3. TablesOK(db, caught)
    BY EmptyRows DEF Init
  <1>4. \A w \in Workers : RequestOK(request[w], db, seen, caught)
    BY <1>1, IdleRequestOK
  <1>5. OneLock /\ SeenOK /\ epoch <= crashes
    BY <1>1, IdleOK DEF Init, OneLock, SeenOK
  <1>6. QED
    BY <1>2, <1>3, <1>4, <1>5 DEF IInv

LEMMA ArriveStep ==
  ASSUME IInv, NEW s \in Sellers, Arrive(s)
  PROVE  IInv'
  <1>1. mailbox' \in [Sellers -> Seq(Mails)]
    BY DEF Arrive, IInv, TypeOK
  <1>2. UNCHANGED <<seen, db, request, epoch, crashes, edits, dropped, caught>>
    BY DEF Arrive
  <1>3. QED
    BY <1>1, <1>2 DEF IInv, TypeOK, OneLock, SeenOK

LEMMA BeginPostStep ==
  ASSUME IInv, NEW w \in Workers, NEW s \in Sellers, BeginPost(w, s)
  PROVE  IInv'
  <1>1. PICK p \in Posts :
          request' = [request EXCEPT ![w] = [Idle EXCEPT !.op = "post", !.seller = s,
                                                         !.todo = <<p>>]]
    BY DEF BeginPost
  <1> DEFINE q == [Idle EXCEPT !.op = "post", !.seller = s, !.todo = <<p>>]
  <1>2. /\ q.op = "post" /\ q.seller = s /\ q.todo = <<p>> /\ q.done = <<>>
        /\ q.flagged = {} /\ q.stage = "look" /\ q.held = 0 /\ ~q.locked
        /\ DOMAIN q.done = {} /\ q \in Request
    <2>1. <<p>> \in Seq(Mails \cup Posts)
      OBVIOUS
    <2>2. QED
      BY <2>1, IdleOK DEF Request
  <1>3. /\ UNCHANGED <<mailbox, seen, db, epoch, crashes, edits, dropped, caught>>
        /\ request[w].op = "idle" /\ request' = [request EXCEPT ![w] = q]
    BY <1>1 DEF BeginPost
  <1> HIDE DEF q
  <1>4. RequestOK(q, db, seen', caught)
    BY <1>2 DEF RequestOK, PersonOK, HeldOK, RowsOK, DoneOK
  <1>5. seen' = [seen EXCEPT ![q.seller] = @ \cup q.flagged]
    BY <1>2, <1>3 DEF IInv, TypeOK
  <1>6. SeenOK'
    BY <1>2, <1>3, <1>5, SeenBegins
  <1>7. QED
    BY <1>2, <1>3, <1>4, <1>6, StepOfRequest DEF IInv, TypeOK

\* Requests that are over leave their mails stored or noted.
LEMMA SeenEnds ==
  ASSUME IInv, db' \in Tables, Grown(db, db'), dropped \subseteq dropped',
         \A v \in Workers :
           \/ request'[v] = request[v]
           \/ \A m \in request[v].flagged : Stands(db', m) \/ <<request[v].seller, m>> \in dropped',
         \A s \in Sellers : \A m \in seen'[s] \ seen[s] : Stands(db', m) \/ <<s, m>> \in dropped'
  PROVE  SeenOK'
  <1> SUFFICES ASSUME NEW s \in Sellers, NEW m \in seen'[s]
               PROVE  \/ Stands(db', m)
                      \/ <<s, m>> \in dropped'
                      \/ \E v \in Workers : request'[v].seller = s /\ m \in request'[v].flagged
    BY DEF SeenOK
  <1>1. CASE m \notin seen[s]
    BY <1>1
  <1>2. CASE m \in seen[s]
    <2>1. \/ Stands(db, m)
          \/ <<s, m>> \in dropped
          \/ \E v \in Workers : request[v].seller = s /\ m \in request[v].flagged
      BY <1>2 DEF IInv, SeenOK
    <2>2. CASE Stands(db, m)
      <3>1. db \in Tables
        BY DEF IInv, TypeOK
      <3>2. QED
        BY <2>2, <3>1, StandsGrown
    <2>3. ASSUME NEW v \in Workers, request[v].seller = s, m \in request[v].flagged
          PROVE  \/ Stands(db', m)
                 \/ <<s, m>> \in dropped'
                 \/ request'[v].seller = s /\ m \in request'[v].flagged
      <3>1. CASE request'[v] = request[v]
        BY <2>3, <3>1
      <3>2. CASE request'[v] # request[v]
        BY <2>3, <3>2
      <3>3. QED
        BY <3>1, <3>2
    <2>4. QED
      BY <2>1, <2>2, <2>3
  <1>3. QED
    BY <1>1, <1>2

\* The tables change while nobody else has written to them, or requests are over.
LEMMA StepOfTables ==
  ASSUME IInv, request' \in [Workers -> Request],
         TablesOK(db', caught'), Grown(db, db'), caught \subseteq caught',
         caught' \subseteq 1..MaxCustomers,
         \A v \in Workers :
           \/ request'[v] = Idle
           \/ /\ request'[v] = request[v] /\ ~request[v].locked
              /\ (request[v].op # "erase" /\ request[v].held # 0
                    /\ db'.customer[request[v].held].erased) => request[v].held \in caught',
         mailbox' = mailbox, seen' = seen, {epoch', crashes'} \subseteq 0..MaxCrashes, epoch' <= crashes',
         edits' \in 0..MaxEdits, dropped' \subseteq Sellers \X Mails, SeenOK'
  PROVE  IInv'
  <1>1. TypeOK'
    BY DEF IInv, TypeOK, TablesOK
  <1>2. \A v \in Workers : RequestOK(request'[v], db', seen', caught')
    <2> TAKE v \in Workers
    <2>1. CASE request'[v] = Idle
      BY <2>1, IdleRequestOK
    <2>2. CASE request'[v] # Idle
      <3>1. /\ request'[v] = request[v] /\ ~request[v].locked
            /\ (request[v].op # "erase" /\ request[v].held # 0
                  /\ db'.customer[request[v].held].erased) => request[v].held \in caught'
        BY <2>2
      <3>2. /\ request[v] \in Request /\ db \in Tables /\ db' \in Tables
            /\ RequestOK(request[v], db, seen, caught)
        BY DEF IInv, TypeOK, TablesOK
      <3>3. RequestOK(request[v], db', seen, caught')
        BY <3>1, <3>2, RequestUnder
      <3>4. QED
        BY <3>1, <3>3
    <2>3. QED
      BY <2>1, <2>2
  <1>3. OneLock'
    <2>1. \A v \in Workers : ~request'[v].locked
      BY IdleOK
    <2>2. QED
      BY <2>1 DEF OneLock
  <1>4. QED
    BY <1>1, <1>2, <1>3 DEF IInv

\* A batch is one of the mailbox.
LEMMA BatchOK ==
  ASSUME TypeOK, NEW s \in Sellers, NEW uids \in FirstUnseen(s)
  PROVE  LET batch == [i \in DOMAIN uids |-> mailbox[s][uids[i]]] IN
         /\ batch \in Seq(Mails) /\ batch \in Seq(Mails \cup Posts)
         /\ Range(batch) \subseteq Mails
         /\ \A i \in DOMAIN batch : batch[i] \in Mails
  <1> DEFINE batch == [i \in DOMAIN uids |-> mailbox[s][uids[i]]]
  <1>1. PICK n \in 0..Limit : uids \in [1..n -> Unseen(s)]
    BY DEF FirstUnseen, Uids
  <1>2. \A i \in 1..n : mailbox[s][uids[i]] \in Mails
    BY <1>1 DEF Unseen, TypeOK
  <1>3. batch \in [1..n -> Mails]
    BY <1>1, <1>2
  <1> HIDE DEF batch
  <1>4. n \in Nat
    BY <1>1, Constants
  <1>5. batch \in Seq(Mails) /\ batch \in Seq(Mails \cup Posts)
    BY <1>3, <1>4, IsASeq
  <1>6. Range(batch) \subseteq Mails /\ \A i \in DOMAIN batch : batch[i] \in Mails
    BY <1>3 DEF Range
  <1>7. QED
    BY <1>5, <1>6 DEF batch

LEMMA BeginPollStep ==
  ASSUME IInv, NEW w \in Workers, NEW op \in {"worker", "manual"}, NEW s \in Sellers,
         BeginPoll(w, op, s)
  PROVE  IInv'
  <1>1. PICK uids \in FirstUnseen(s), marks \in Marks :
          LET batch == [i \in DOMAIN uids |-> mailbox[s][uids[i]]]
              flagged == IF marks THEN Range(batch) ELSE {}
          IN
          /\ seen' = [seen EXCEPT ![s] = @ \cup flagged]
          /\ request' = [request EXCEPT ![w] = [Idle EXCEPT !.op = op, !.seller = s,
                           !.todo = batch, !.flagged = flagged]]
    BY DEF BeginPoll
  <1> DEFINE batch == [i \in DOMAIN uids |-> mailbox[s][uids[i]]]
             flagged == IF marks THEN Range(batch) ELSE {}
             q == [Idle EXCEPT !.op = op, !.seller = s, !.todo = batch, !.flagged = flagged]
  <1>2. /\ batch \in Seq(Mails \cup Posts) /\ flagged \in SUBSET Mails
        /\ \A i \in DOMAIN batch : batch[i] \in Mails
    BY BatchOK DEF IInv
  <1>3. /\ UNCHANGED <<mailbox, db, epoch, crashes, edits, dropped, caught>>
        /\ request[w].op = "idle" /\ request' = [request EXCEPT ![w] = q]
        /\ seen' = [seen EXCEPT ![s] = @ \cup flagged]
    BY <1>1 DEF BeginPoll
  <1> HIDE DEF batch, flagged
  <1>4. /\ q.op = op /\ q.seller = s /\ q.todo = batch /\ q.done = <<>>
        /\ q.flagged = flagged /\ q.stage = "look" /\ q.held = 0 /\ ~q.locked
        /\ DOMAIN q.done = {} /\ q \in Request
    BY <1>2, IdleOK DEF Request
  <1> HIDE DEF q
  <1>5. /\ seen' \in [Sellers -> SUBSET Mails] /\ flagged \subseteq seen'[s]
        /\ \A x \in Sellers : seen[x] \subseteq seen'[x]
    BY <1>2, <1>3 DEF IInv, TypeOK
  <1>6. RequestOK(q, db, seen', caught)
    BY <1>2, <1>4, <1>5 DEF RequestOK, PersonOK, HeldOK, RowsOK, DoneOK
  <1>7. SeenOK'
    BY <1>3, <1>4, SeenBegins
  <1>8. QED
    BY <1>3, <1>4, <1>5, <1>6, <1>7, StepOfRequest DEF IInv, TypeOK

\* What a poll leaves behind is noted.
LEMMA LossOK ==
  ASSUME TypeOK, NEW w \in Workers, NEW handled, NEW t
  PROVE  /\ Loss(w, handled, t) \subseteq Sellers \X Mails
         /\ \A m \in request[w].flagged \ handled :
              Stands(t, m) \/ <<request[w].seller, m>> \in Loss(w, handled, t)
  <1>1. request[w].seller \in Sellers /\ request[w].flagged \subseteq Mails
    BY RequestFields DEF TypeOK
  <1>2. QED
    BY <1>1, StoredStands DEF Loss

LEMMA AbandonStep ==
  ASSUME IInv, NEW S \in SUBSET Workers, Abandon(S),
         mailbox' = mailbox, seen' = seen, db' = db, edits' = edits, caught' = caught,
         {epoch', crashes'} \subseteq 0..MaxCrashes, epoch' <= crashes'
  PROVE  IInv'
  <1>1. /\ request' = [w \in Workers |-> IF w \in S THEN Idle ELSE request[w]]
        /\ dropped' = dropped \cup UNION {Loss(w, {}, db) : w \in S}
    BY DEF Abandon
  <1>2. /\ request \in [Workers -> Request] /\ request' \in [Workers -> Request] /\ db \in Tables
        /\ TypeOK
    BY <1>1, IdleOK DEF IInv, TypeOK
  <1>3. dropped \subseteq dropped' /\ dropped' \subseteq Sellers \X Mails
    BY <1>1, LossOK DEF IInv, TypeOK
  <1>4. SeenOK'
    <2>1. \A v \in Workers :
           \/ request'[v] = request[v]
           \/ \A m \in request[v].flagged : Stands(db', m) \/ <<request[v].seller, m>> \in dropped'
      <3> TAKE v \in Workers
      <3>1. CASE v \notin S
        BY <1>1, <3>1
      <3>2. CASE v \in S
        <4>1. Loss(v, {}, db) \subseteq dropped'
          BY <1>1, <3>2
        <4>2. QED
          BY <1>2, <4>1, LossOK
      <3>3. QED
        BY <3>1, <3>2
    <2>2. Grown(db, db')
      BY <1>2, GrownSame
    <2>3. QED
      BY <1>2, <1>3, <2>1, <2>2, SeenEnds
  <1>5. TypeOK'
    BY <1>2, <1>3 DEF IInv, TypeOK
  <1>6. \A v \in Workers : RequestOK(request'[v], db', seen', caught')
    BY <1>1, IdleRequestOK DEF IInv
  <1>7. OneLock'
    BY <1>1, IdleOK DEF IInv, OneLock
  <1>8. QED
    BY <1>4, <1>5, <1>6, <1>7 DEF IInv

LEMMA RollbackStep ==
  ASSUME IInv, NEW w \in Workers, Rollback(w)
  PROVE  IInv'
  BY AbandonStep, Constants DEF Rollback, IInv, TypeOK

LEMMA RestartStep ==
  ASSUME IInv, Restart
  PROVE  IInv'
  <1>1. {w \in Workers : request[w].op # "idle"} \in SUBSET Workers
    OBVIOUS
  <1>2. {epoch', crashes'} \subseteq 0..MaxCrashes /\ epoch' <= crashes'
    <2>1. epoch \in 0..MaxCrashes /\ crashes \in 0..MaxCrashes /\ MaxCrashes \in Nat
      BY Constants DEF IInv, TypeOK
    <2>2. crashes < MaxCrashes /\ crashes' = crashes + 1 /\ epoch' = epoch + 1
      BY DEF Restart
    <2>3. epoch <= crashes
      BY DEF IInv
    <2>4. QED
      BY <2>1, <2>2, <2>3
  <1>3. QED
    BY <1>1, <1>2, AbandonStep DEF Restart

\* The item at hand of a request that runs, and what is left without it.
LEMMA ItemAtHand ==
  ASSUME IInv, NEW w \in Workers, NEW stage, AtItem(w, stage)
  PROVE  LET r == request[w] IN
         /\ r \in Request /\ RequestOK(r, db, seen, caught)
         /\ Item1(w) \in Mails \cup Posts /\ r.stage = stage
         /\ Tail(r.todo) \in Seq(Mails \cup Posts)
         /\ r.op \in {"worker", "manual"} => \A i \in DOMAIN Tail(r.todo) : Tail(r.todo)[i] \in Mails
         /\ Finished(r) \in Seq(Mails) /\ r.op \in {"worker", "manual", "post"}
         /\ \A i \in DOMAIN Finished(r) :
              \/ Finished(r)[i] = Item1(w)
              \/ \E j \in DOMAIN r.done : Finished(r)[i] = r.done[j]
  <1> DEFINE r == request[w]
  <1>1. /\ r \in Request /\ RequestOK(r, db, seen, caught) /\ r.op # "idle" /\ r.todo # <<>>
        /\ r.stage = stage /\ Item1(w) = Head(r.todo)
    BY DEF IInv, TypeOK, AtItem, Item1
  <1>2. /\ r.op \in {"worker", "manual"} => \A i \in DOMAIN r.todo : r.todo[i] \in Mails
        /\ r.op \in {"worker", "manual", "post"}
        /\ r.todo \in Seq(Mails \cup Posts) /\ r.done \in Seq(Mails)
    BY <1>1, RequestFields DEF RequestOK, PersonOK
  <1> HIDE DEF r
  <1>3. /\ Head(r.todo) \in Mails \cup Posts /\ Tail(r.todo) \in Seq(Mails \cup Posts)
        /\ 1 \in DOMAIN r.todo /\ Head(r.todo) = r.todo[1]
        /\ \A i \in DOMAIN Tail(r.todo) : i + 1 \in DOMAIN r.todo /\ Tail(r.todo)[i] = r.todo[i + 1]
    BY <1>1, <1>2
  <1>4. CASE r.op = "post"
    BY <1>1, <1>2, <1>3, <1>4 DEF r, Finished
  <1>5. CASE r.op \in {"worker", "manual"}
    <2>1. Head(r.todo) \in Mails /\ Finished(r) = Append(r.done, Head(r.todo))
      BY <1>2, <1>3, <1>5 DEF Finished
    <2>2. \A i \in DOMAIN Finished(r) :
            \/ Finished(r)[i] = Head(r.todo)
            \/ i \in DOMAIN r.done /\ Finished(r)[i] = r.done[i]
      BY <1>2, <2>1
    <2>3. QED
      BY <1>1, <1>2, <1>3, <2>1, <2>2 DEF r
  <1>6. QED
    BY <1>2, <1>4, <1>5

LEMMA ChokeStep ==
  ASSUME IInv, NEW w \in Workers, Choke(w)
  PROVE  IInv'
  <1> DEFINE r == request[w]
             q == [r EXCEPT !.stage = "commit"]
  <1>1. UNCHANGED <<mailbox, seen, db, epoch, crashes, edits, caught>> /\ AtItem(w, "look")
    BY DEF Choke
  <1>2. CASE r.op # "worker"
    <2>1. Abandon({w})
      BY <1>2 DEF Choke
    <2>2. QED
      BY <1>1, <2>1, AbandonStep DEF IInv, TypeOK
  <1>3. CASE r.op = "worker"
    <2>1. /\ request' = [request EXCEPT ![w] = q] /\ dropped' = dropped
      BY <1>3 DEF Choke
    <2>2. r \in Request /\ RequestOK(r, db, seen, caught) /\ r.stage = "look"
      BY <1>1, ItemAtHand
    <2> HIDE DEF r
    <2>3. /\ q \in Request /\ q.stage = "commit" /\ q.op = r.op /\ q.todo = r.todo
          /\ q.seller = r.seller /\ q.done = r.done /\ q.flagged = r.flagged /\ q.held = r.held
          /\ q.locked = r.locked /\ q.rows = r.rows
      BY <2>2 DEF Request
    <2> HIDE DEF q
    <2>4. RequestOK(q, db, seen', caught)
      BY <1>1, <1>3, <2>2, <2>3 DEF RequestOK, PersonOK, HeldOK, RowsOK, DoneOK, Sight
    <2>5. SeenOK'
      BY <1>1, <2>1, <2>3, SeenStays DEF r
    <2>6. QED
      BY <1>1, <2>1, <2>3, <2>4, <2>5, StepOfRequest DEF IInv, TypeOK, r
  <1>4. QED
    BY <1>2, <1>3

\* Only a customer is noted.
LEMMA CatchOK ==
  ASSUME IInv, NEW k \in 0..MaxCustomers
  PROVE  caught \subseteq Catch(k) /\ Catch(k) \subseteq 1..MaxCustomers
  <1>1. \A v \in Workers : request[v].op = "erase" => request[v].held # 0
    BY DEF IInv, RequestOK, PersonOK
  <1>2. caught \subseteq 1..MaxCustomers
    BY DEF IInv, TypeOK
  <1>3. QED
    BY <1>1, <1>2, Constants DEF Catch

LEMMA LookStep ==
  ASSUME IInv, NEW w \in Workers, Look(w)
  PROVE  IInv'
  <1> DEFINE r == request[w]
             t == Rows(w)
             item == Item1(w)
             candidates == Senders(t, r.seller, item)
  <1>1. UNCHANGED <<mailbox, seen, db, epoch, crashes, edits, dropped>>
        /\ AtItem(w, "look")
    BY DEF Look
  <1>2. /\ r \in Request /\ RequestOK(r, db, seen, caught) /\ r.stage = "look"
        /\ item \in Mails \cup Posts /\ Tail(r.todo) \in Seq(Mails \cup Posts)
        /\ r.op \in {"worker", "manual"} => \A i \in DOMAIN Tail(r.todo) : Tail(r.todo)[i] \in Mails
        /\ Finished(r) \in Seq(Mails) /\ r.op \in {"worker", "manual", "post"}
        /\ \A i \in DOMAIN Finished(r) :
             \/ Finished(r)[i] = item
             \/ \E j \in DOMAIN r.done : Finished(r)[i] = r.done[j]
    BY <1>1, ItemAtHand
  <1>3. t = Sight(r, db) /\ TablesOK(t, caught) /\ t \in Tables /\ epoch \in Nat
    BY SightOK
  <1>4. CASE Known(t, item)
    <2> DEFINE q == [r EXCEPT !.todo = Tail(@), !.done = Finished(r)]
    <2>1. request' = [request EXCEPT ![w] = q] /\ caught' = caught
      BY <1>4 DEF Look
    <2>2. Stands(t, item)
      BY <1>2, <1>3, <1>4, KnownStands
    <2> HIDE DEF r, t, item, candidates
    <2>3. /\ q \in Request /\ q.stage = r.stage /\ q.op = r.op /\ q.todo = Tail(r.todo)
          /\ q.seller = r.seller /\ q.done = Finished(r) /\ q.flagged = r.flagged
          /\ q.held = r.held /\ q.locked = r.locked /\ q.rows = r.rows
      BY <1>2 DEF Request
    <2> HIDE DEF q
    <2>4. DoneOK(q, db)
      <3>1. Sight(q, db) = t
        BY <1>3, <2>3 DEF Sight
      <3>2. \A j \in DOMAIN r.done : Stands(t, r.done[j])
        BY <1>2, <1>3 DEF RequestOK, DoneOK
      <3>3. QED
        BY <1>2, <2>2, <2>3, <3>1, <3>2 DEF DoneOK
    <2>5. RequestOK(q, db, seen', caught)
      BY <1>1, <1>2, <2>3, <2>4 DEF RequestOK, PersonOK, HeldOK, RowsOK, Sight
    <2>6. SeenOK'
      BY <1>1, <2>1, <2>3, SeenStays DEF r
    <2>7. QED
      BY <1>1, <2>1, <2>3, <2>5, <2>6, StepOfRequest DEF IInv, TypeOK, r
  <1>5. CASE ~Known(t, item)
    <2>1. PICK k \in IF candidates = {} THEN {0} ELSE candidates :
            /\ request' = [request EXCEPT ![w].stage = "store", ![w].held = k,
                 ![w].channels = IF k = 0 THEN {} ELSE t.customer[k].channels]
            /\ caught' = Catch(k)
      BY <1>5 DEF Look
    <2> DEFINE channels == IF k = 0 THEN {} ELSE t.customer[k].channels
               q == [r EXCEPT !.stage = "store", !.held = k, !.channels = channels]
    <2>2. request' = [request EXCEPT ![w] = q]
      BY <2>1
    <2>3. k # 0 => /\ k \in DOMAIN t.customer /\ t.customer[k].seller = r.seller
                   /\ t.customer[k].erased => k \in caught
      <3>1. k # 0 => k \in candidates
        BY <2>1
      <3> HIDE DEF r, t, item
      <3>2. QED
        BY <1>3, <3>1, SendersOK
    <2> HIDE DEF r, t, item, candidates
    <2>4. k \in 0..MaxCustomers /\ channels \in SUBSET (Emails \cup Phones)
      <3>1. CASE k = 0
        BY <3>1, Constants
      <3>2. CASE k # 0
        <4>1. /\ t.customer[k] \in Customer /\ k \in 1..Len(t.customer)
              /\ Len(t.customer) \in Nat /\ Len(t.customer) <= MaxCustomers
          BY <1>3, <2>3, <3>2, TablesFields DEF TablesOK
        <4>2. QED
          BY <3>2, <4>1, Constants DEF Customer
      <3>3. QED
        BY <3>1, <3>2
    <2>11. caught \subseteq caught' /\ caught' \subseteq 1..MaxCustomers
      BY <2>1, <2>4, CatchOK
    <2> HIDE DEF channels
    <2>5. /\ q \in Request /\ q.stage = "store" /\ q.op = r.op /\ q.todo = r.todo
          /\ q.seller = r.seller /\ q.done = r.done /\ q.flagged = r.flagged
          /\ q.held = k /\ q.locked = r.locked /\ q.rows = r.rows
      BY <1>2, <2>4 DEF Request
    <2> HIDE DEF q
    <2>6. HeldOK(q, db, caught)
      BY <1>3, <2>3, <2>5 DEF HeldOK, Sight
    <2>7. RequestOK(q, db, seen', caught)
      BY <1>1, <1>2, <2>5, <2>6 DEF RequestOK, PersonOK, RowsOK, DoneOK, Sight
    <2>8. RequestOK(q, db, seen', caught')
      BY <2>5, <2>7, <2>11, RequestStays
    <2>9. SeenOK'
      BY <1>1, <2>2, <2>5, SeenStays DEF r
    <2>10. QED
      BY <1>1, <2>2, <2>5, <2>8, <2>9, <2>11, StepOfRequest DEF IInv, TypeOK, r
  <1>6. QED
    BY <1>4, <1>5

LEMMA StoreStep ==
  ASSUME IInv, NEW w \in Workers, Store(w)
  PROVE  IInv'
  <1> DEFINE r == request[w]
             t == Rows(w)
             item == Item1(w)
             new == Insert(t, r, item)
             q == [r EXCEPT !.locked = TRUE, !.rows = new, !.stage = "look",
                            !.todo = Tail(@), !.done = Finished(r), !.held = 0, !.channels = {}]
  <1>1. /\ UNCHANGED <<mailbox, seen, db, epoch, crashes, edits, dropped, caught>>
        /\ AtItem(w, "store") /\ LockFree(w) /\ ~Known(t, item)
        /\ Len(t.message) < MaxMessages
        /\ r.held = 0 => Len(t.customer) < MaxCustomers
        /\ request' = [request EXCEPT ![w] = q]
    BY DEF Store, Clash
  <1>2. /\ r \in Request /\ RequestOK(r, db, seen, caught) /\ r.stage = "store"
        /\ item \in Mails \cup Posts /\ Tail(r.todo) \in Seq(Mails \cup Posts)
        /\ r.op \in {"worker", "manual"} => \A i \in DOMAIN Tail(r.todo) : Tail(r.todo)[i] \in Mails
        /\ Finished(r) \in Seq(Mails) /\ r.op \in {"worker", "manual", "post"}
        /\ \A i \in DOMAIN Finished(r) :
             \/ Finished(r)[i] = item
             \/ \E j \in DOMAIN r.done : Finished(r)[i] = r.done[j]
    BY <1>1, ItemAtHand
  <1>3. /\ t = Sight(r, db) /\ TablesOK(t, caught) /\ t \in Tables /\ epoch \in Nat
        /\ Grown(db, t) /\ NobodyErased(db, t) /\ db \in Tables
    BY SightOK
  <1>4. TablesOK(new, caught) /\ Grown(t, new) /\ NobodyErased(t, new) /\ Stands(new, item)
    <2>1. r.held # 0 => /\ r.held \in DOMAIN t.customer
                        /\ t.customer[r.held].seller = r.seller
                        /\ t.customer[r.held].erased => r.held \in caught
      BY <1>2, <1>3 DEF RequestOK, HeldOK
    <2> HIDE DEF r, t, item, new
    <2>2. /\ TablesOK(Insert(t, r, item), caught) /\ Grown(t, Insert(t, r, item))
          /\ NobodyErased(t, Insert(t, r, item)) /\ Stands(Insert(t, r, item), item)
      <3>1. /\ TablesOK(t, caught) /\ r \in Request /\ item \in Mails \cup Posts /\ epoch \in Nat
            /\ ~Known(t, item)
            /\ r.held = 0 => Len(t.customer) < MaxCustomers
            /\ Len(t.message) < MaxMessages
        BY <1>1, <1>2, <1>3
      <3> HIDE <1>1, <1>2, <1>3
      <3>2. QED
        BY <2>1, <3>1, InsertOK
    <2>3. QED
      BY <2>2 DEF new
  <1> HIDE DEF r, t, item, new
  <1>5. new \in Tables
    BY <1>4 DEF TablesOK
  <1>6. /\ q \in Request /\ q.stage = "look" /\ q.op = r.op /\ q.todo = Tail(r.todo)
        /\ q.seller = r.seller /\ q.done = Finished(r) /\ q.flagged = r.flagged
        /\ q.held = 0 /\ q.locked /\ q.rows = new
    <2>1. 0 \in 0..MaxCustomers
      BY Constants
    <2>2. QED
      BY <1>2, <1>5, <2>1 DEF Request
  <1> HIDE DEF q
  <1>7. RowsOK(q, db, caught)
    BY <1>3, <1>4, <1>5, <1>6, GrownTransitive, NobodyErasedTransitive DEF RowsOK
  <1>8. DoneOK(q, db)
    <2>1. Sight(q, db) = new
      BY <1>6 DEF Sight
    <2>2. \A j \in DOMAIN r.done : Stands(new, r.done[j])
      BY <1>2, <1>3, <1>4, <1>5, StandsGrown DEF RequestOK, DoneOK
    <2>3. QED
      BY <1>2, <1>4, <1>6, <2>1, <2>2 DEF DoneOK
  <1>9. RequestOK(q, db, seen', caught)
    BY <1>1, <1>2, <1>6, <1>7, <1>8 DEF RequestOK, PersonOK, HeldOK
  <1>10. SeenOK'
    BY <1>1, <1>6, SeenStays DEF r
  <1>11. QED
    BY <1>1, <1>6, <1>9, <1>10, StepOfRequest DEF IInv, TypeOK

LEMMA ConflictStep ==
  ASSUME IInv, NEW w \in Workers, Conflict(w)
  PROVE  IInv'
  BY AbandonStep DEF Conflict, IInv, TypeOK

LEMMA AcknowledgedOK ==
  ASSUME NEW done \in Seq(Mails), NEW n \in 0..Len(done)
  PROVE  /\ Acknowledged(done, n) \subseteq Mails
         /\ \A m \in Acknowledged(done, n) : \E i \in DOMAIN done : done[i] = m
  BY DEF Acknowledged

LEMMA AcknowledgeStep ==
  ASSUME IInv, NEW w \in Workers, Acknowledge(w)
  PROVE  IInv'
  <1> DEFINE r == request[w]
  <1>1. PICK n \in 0..Len(r.done) :
       /\ n < Len(r.done) => crashes < MaxCrashes
       /\ crashes' = IF n < Len(r.done) THEN crashes + 1 ELSE crashes
       /\ seen' = [seen EXCEPT ![r.seller] = @ \cup Acknowledged(r.done, n)]
       /\ LET flagged == r.flagged \cup Acknowledged(r.done, n) IN
          IF n < Len(r.done) /\ r.op = "manual"
          THEN /\ request' = [request EXCEPT ![w] = Idle]
               /\ dropped' = dropped \cup {<<r.seller, m>> : m \in
                               {x \in flagged : ~Stored(db, r.seller, x)}}
          ELSE /\ request' = [request EXCEPT ![w].stage = "commit", ![w].flagged = flagged]
               /\ UNCHANGED dropped
    BY DEF Acknowledge
  <1> DEFINE more == Acknowledged(r.done, n)
             flagged == r.flagged \cup more
             q == [r EXCEPT !.stage = "commit", !.flagged = flagged]
  <1>2. /\ UNCHANGED <<mailbox, db, epoch, edits, caught>> /\ r.stage = "look"
        /\ r \in Request /\ RequestOK(r, db, seen, caught) /\ db \in Tables
        /\ r.seller \in Sellers /\ r.flagged \subseteq Mails /\ r.op # "idle"
    BY RequestFields DEF Acknowledge, IInv, TypeOK
  <1>3. more \subseteq Mails
    BY <1>2, AcknowledgedOK, RequestFields
  <1>4. crashes' \in 0..MaxCrashes /\ epoch <= crashes'
    BY <1>1, Constants DEF IInv, TypeOK
  <1>5. seen' = [seen EXCEPT ![r.seller] = @ \cup more]
    BY <1>1
  <1>6. CASE n < Len(r.done) /\ r.op = "manual"
    <2>1. /\ request' = [request EXCEPT ![w] = Idle]
          /\ dropped' = dropped \cup {<<r.seller, m>> : m \in
                               {x \in flagged : ~Stored(db, r.seller, x)}}
      BY <1>1, <1>6
    <2> HIDE DEF r, more
    <2>2. /\ seen' \in [Sellers -> SUBSET Mails]
          /\ \A s \in Sellers : /\ seen[s] \subseteq seen'[s]
                                /\ \A m \in seen'[s] \ seen[s] : s = r.seller /\ m \in more
      BY <1>2, <1>3, <1>5 DEF IInv, TypeOK
    <2>3. \A m \in flagged : Stands(db, m) \/ <<r.seller, m>> \in dropped'
      BY <2>1, StoredStands
    <2>4. dropped \subseteq dropped' /\ dropped' \subseteq Sellers \X Mails
      BY <1>2, <1>3, <2>1 DEF IInv, TypeOK
    <2>5. SeenOK'
      <3>1. \A v \in Workers : v # w => request'[v] = request[v]
        BY <2>1 DEF IInv, TypeOK
      <3>2. \A v \in Workers :
              \/ request'[v] = request[v]
              \/ \A m \in request[v].flagged :
                   Stands(db', m) \/ <<request[v].seller, m>> \in dropped'
        BY <1>2, <2>3, <3>1 DEF r
      <3>3. \A s \in Sellers : \A m \in seen'[s] \ seen[s] :
              Stands(db', m) \/ <<s, m>> \in dropped'
        BY <1>2, <2>2, <2>3
      <3>4. Grown(db, db') /\ db' \in Tables
        BY <1>2, GrownSame
      <3>5. QED
        BY <2>4, <3>2, <3>3, <3>4, SeenEnds
    <2>6. edits' \in 0..MaxEdits /\ caught \subseteq caught' /\ caught' \subseteq 1..MaxCustomers
      BY <1>2 DEF IInv, TypeOK
    <2>7. RequestOK(Idle, db, seen', caught')
      BY IdleRequestOK
    <2>8. QED
      BY <1>2, <1>4, <2>1, <2>2, <2>4, <2>5, <2>6, <2>7, IdleOK, StepOfRequest
  <1>7. CASE ~(n < Len(r.done) /\ r.op = "manual")
    <2>1. request' = [request EXCEPT ![w] = q] /\ dropped' = dropped
      BY <1>1, <1>7
    <2> HIDE DEF r, more
    <2>2. /\ seen' \in [Sellers -> SUBSET Mails]
          /\ \A s \in Sellers : /\ seen[s] \subseteq seen'[s]
                                /\ \A m \in seen'[s] \ seen[s] : s = r.seller /\ m \in more
      BY <1>2, <1>3, <1>5 DEF IInv, TypeOK
    <2>3. /\ q \in Request /\ q.stage = "commit" /\ q.op = r.op /\ q.todo = r.todo
          /\ q.seller = r.seller /\ q.done = r.done /\ q.flagged = flagged
          /\ q.held = r.held /\ q.locked = r.locked /\ q.rows = r.rows
      <3>1. flagged \in SUBSET Mails
        BY <1>2, <1>3
      <3>2. QED
        BY <1>2, <3>1 DEF Request
    <2> HIDE DEF q
    <2>4. q.flagged \subseteq seen'[q.seller]
      <3>1. r.flagged \subseteq seen[r.seller] /\ seen \in [Sellers -> SUBSET Mails]
        BY <1>2 DEF RequestOK, IInv, TypeOK
      <3>2. QED
        BY <1>2, <1>5, <2>3, <3>1
    <2>5. RequestOK(q, db, seen', caught)
      BY <1>2, <2>3, <2>4 DEF RequestOK, PersonOK, HeldOK, RowsOK, DoneOK, Sight
    <2>6. SeenOK'
      <3>1. request'[w] = q /\ \A v \in Workers \ {w} : request'[v] = request[v]
        BY <2>1 DEF IInv, TypeOK
      <3> SUFFICES ASSUME NEW s \in Sellers, NEW m \in seen'[s]
                   PROVE  \/ Stands(db, m)
                          \/ <<s, m>> \in dropped
                          \/ \E v \in Workers : request'[v].seller = s
                                                /\ m \in request'[v].flagged
        BY <1>2, <2>1 DEF SeenOK
      <3>2. CASE m \in seen[s]
        <4>1. \/ Stands(db, m)
              \/ <<s, m>> \in dropped
              \/ \E v \in Workers : request[v].seller = s /\ m \in request[v].flagged
          BY <3>2 DEF IInv, SeenOK
        <4>2. \A v \in Workers : /\ request'[v].seller = request[v].seller
                                 /\ request[v].flagged \subseteq request'[v].flagged
          BY <2>3, <3>1 DEF r
        <4>3. QED
          BY <4>1, <4>2
      <3>3. CASE m \notin seen[s]
        <4>1. s = q.seller /\ m \in q.flagged
          BY <2>2, <2>3, <3>3
        <4>2. QED
          BY <3>1, <4>1
      <3>4. QED
        BY <3>2, <3>3
    <2>7. QED
      BY <1>2, <1>4, <2>1, <2>2, <2>3, <2>5, <2>6, StepOfRequest DEF IInv, TypeOK, r
  <1>8. QED
    BY <1>6, <1>7

LEMMA CommitStep ==
  ASSUME IInv, NEW w \in Workers, Commit(w)
  PROVE  IInv'
  <1> DEFINE r == request[w]
             t == Rows(w)
  <1>1. /\ db' = t /\ dropped' = dropped \cup Loss(w, Range(r.done), t)
        /\ request' = [request EXCEPT ![w] = Idle] /\ LockFree(w)
        /\ UNCHANGED <<mailbox, seen, epoch, crashes, edits, caught>>
    BY DEF Commit
  <1>2. /\ TablesOK(t, caught) /\ t \in Tables /\ Grown(db, t) /\ NobodyErased(db, t)
        /\ t = Sight(r, db) /\ RequestOK(r, db, seen, caught) /\ r.done \in Seq(Mails)
    BY SightOK, RequestFields DEF IInv
  <1> HIDE DEF t
  <1>3. /\ request' \in [Workers -> Request] /\ request'[w] = Idle
        /\ \A v \in Workers \ {w} : request'[v] = request[v]
    BY <1>1, IdleOK DEF IInv, TypeOK
  <1>4. \A v \in Workers :
          \/ request'[v] = Idle
          \/ /\ request'[v] = request[v] /\ ~request[v].locked
             /\ (request[v].op # "erase" /\ request[v].held # 0
                   /\ db'.customer[request[v].held].erased) => request[v].held \in caught'
    <2> SUFFICES ASSUME NEW v \in Workers \ {w}
                 PROVE  /\ ~request[v].locked
                        /\ (request[v].op # "erase" /\ request[v].held # 0
                              /\ t.customer[request[v].held].erased)
                             => request[v].held \in caught
      BY <1>1, <1>3
    <2>1. ~request[v].locked
      BY <1>1 DEF LockFree
    <2>2. HeldOK(request[v], db, caught)
      BY DEF IInv, RequestOK
    <2>3. QED
      BY <1>2, <2>1, <2>2 DEF HeldOK, Sight, NobodyErased
  <1>5. dropped \subseteq dropped' /\ dropped' \subseteq Sellers \X Mails
    BY <1>1, LossOK DEF IInv, TypeOK
  <1>6. \A m \in r.flagged : Stands(t, m) \/ <<r.seller, m>> \in dropped'
    <2> TAKE m \in r.flagged
    <2>1. CASE m \in Range(r.done)
      BY <1>2, <2>1 DEF RequestOK, DoneOK, Range
    <2>2. CASE m \notin Range(r.done)
      BY <1>1, <2>2, LossOK DEF IInv
    <2>3. QED
      BY <2>1, <2>2
  <1>7. SeenOK'
    <2>1. \A v \in Workers :
            \/ request'[v] = request[v]
            \/ \A m \in request[v].flagged :
                 Stands(db', m) \/ <<request[v].seller, m>> \in dropped'
      BY <1>1, <1>3, <1>6
    <2>2. \A s \in Sellers : \A m \in seen'[s] \ seen[s] :
            Stands(db', m) \/ <<s, m>> \in dropped'
      BY <1>1
    <2>3. QED
      BY <1>1, <1>2, <1>5, <2>1, <2>2, SeenEnds
  <1>8. {epoch', crashes'} \subseteq 0..MaxCrashes /\ epoch' <= crashes' /\ edits' \in 0..MaxEdits
        /\ caught' \subseteq 1..MaxCustomers
    BY <1>1 DEF IInv, TypeOK
  <1>9. QED
    BY <1>1, <1>2, <1>3, <1>4, <1>5, <1>7, <1>8, StepOfTables

\* A person's request starts: it holds a customer that is not erased.
LEMMA BeginOnStep ==
  ASSUME IInv, NEW w \in Workers, NEW op \in {"edit", "erase"}, NEW k \in DOMAIN db.customer,
         BeginOn(w, op, k), edits' \in 0..MaxEdits,
         caught \subseteq caught', caught' \subseteq 1..MaxCustomers
  PROVE  IInv'
  <1> DEFINE row == db.customer[k]
             messages == IF op = "erase" THEN Messages(db, k) ELSE {}
             q == [Idle EXCEPT !.op = op, !.seller = row.seller, !.stage = "store",
                     !.held = k, !.email = row.email, !.phone = row.phone,
                     !.channels = row.channels, !.messages = messages]
  <1>1. /\ request[w].op = "idle" /\ ~row.erased /\ request' = [request EXCEPT ![w] = q]
        /\ UNCHANGED <<mailbox, seen, db, epoch, crashes, dropped>>
    BY DEF BeginOn
  <1>2. /\ row \in Customer /\ k \in 1..MaxCustomers /\ messages \in SUBSET (1..MaxMessages)
    <2>1. /\ row \in Customer /\ DOMAIN db.customer = 1..Len(db.customer)
          /\ DOMAIN db.message = 1..Len(db.message)
          /\ Len(db.customer) \in Nat /\ Len(db.message) \in Nat
          /\ Len(db.customer) <= MaxCustomers /\ Len(db.message) <= MaxMessages
      BY TablesFields DEF IInv, TypeOK
    <2>2. k \in 1..MaxCustomers /\ DOMAIN db.message \subseteq 1..MaxMessages
      BY <2>1, Constants
    <2>3. QED
      BY <2>1, <2>2 DEF Messages
  <1> HIDE DEF messages
  <1>3. /\ q.op = op /\ q.seller = row.seller /\ q.todo = <<>> /\ q.done = <<>>
        /\ q.flagged = {} /\ q.stage = "store" /\ q.held = k /\ ~q.locked
        /\ DOMAIN q.done = {} /\ DOMAIN q.todo = {} /\ q \in Request
    <2>1. /\ row.seller \in Sellers /\ row.email \in Emails \cup {None}
          /\ row.phone \in Phones \cup {None} /\ row.channels \in SUBSET (Emails \cup Phones)
          /\ k \in 0..MaxCustomers
      BY <1>2, Constants DEF Customer
    <2> HIDE DEF row
    <2>2. q \in Request
      BY <1>2, <2>1, IdleOK DEF Request
    <2>3. /\ q.op = op /\ q.seller = row.seller /\ q.todo = <<>> /\ q.done = <<>>
          /\ q.flagged = {} /\ q.stage = "store" /\ q.held = k /\ ~q.locked
      BY IdleOK DEF Request
    <2>4. DOMAIN <<>> = {}
      OBVIOUS
    <2>5. QED
      BY <2>2, <2>3, <2>4
  <1> HIDE DEF q
  <1>4. RequestOK(q, db, seen', caught')
    BY <1>1, <1>2, <1>3, Constants DEF RequestOK, PersonOK, HeldOK, RowsOK, DoneOK, Sight
  <1>5. SeenOK'
    <2>1. seen' = [seen EXCEPT ![q.seller] = @ \cup q.flagged]
      BY <1>1, <1>3 DEF IInv, TypeOK
    <2>2. QED
      BY <1>1, <1>3, <2>1, SeenBegins
  <1>6. QED
    BY <1>1, <1>3, <1>4, <1>5, StepOfRequest DEF IInv, TypeOK

LEMMA BeginEditStep ==
  ASSUME IInv, NEW w \in Workers, BeginEdit(w)
  PROVE  IInv'
  <1>1. PICK k \in DOMAIN db.customer : BeginOn(w, "edit", k) /\ caught' = Catch(k)
    BY DEF BeginEdit
  <1>2. edits' \in 0..MaxEdits
    BY Constants DEF BeginEdit, IInv, TypeOK
  <1>3. k \in 0..MaxCustomers
    BY TablesFields, Constants DEF IInv, TypeOK
  <1>4. QED
    BY <1>1, <1>2, <1>3, CatchOK, BeginOnStep

LEMMA BeginEraseStep ==
  ASSUME IInv, NEW w \in Workers, BeginErase(w)
  PROVE  IInv'
  <1>1. PICK k \in DOMAIN db.customer :
          /\ BeginOn(w, "erase", k)
          /\ caught' = IF \E v \in Workers : WorksOn(v, k) THEN caught \cup {k} ELSE caught
    BY DEF BeginErase
  <1>2. edits' \in 0..MaxEdits /\ caught \subseteq 1..MaxCustomers
    BY DEF BeginErase, IInv, TypeOK
  <1>3. k \in 1..MaxCustomers
    BY TablesFields, Constants DEF IInv, TypeOK
  <1>4. QED
    BY <1>1, <1>2, <1>3, BeginOnStep

\* A person's request that ends alone in the database.
LEMMA PersonAtEnd ==
  ASSUME IInv, NEW w \in Workers, request[w].op \in {"edit", "erase"}, LockFree(w)
  PROVE  LET r == request[w] IN
         /\ r \in Request /\ r.held \in DOMAIN db.customer
         /\ db.customer[r.held] \in Customer
         /\ r.op = "edit" /\ db.customer[r.held].erased => r.held \in caught
         /\ r.flagged = {}
         /\ \A v \in Workers : ~request[v].locked
  <1>1. request[w] \in Request /\ RequestOK(request[w], db, seen, caught) /\ db \in Tables
    BY DEF IInv, TypeOK
  <1>2. request[w].held # 0 /\ request[w].flagged = {} /\ ~request[w].locked
    BY <1>1 DEF RequestOK, PersonOK
  <1>3. /\ request[w].held \in DOMAIN db.customer
        /\ request[w].op = "edit" /\ db.customer[request[w].held].erased
             => request[w].held \in caught
    BY <1>1, <1>2 DEF RequestOK, HeldOK, Sight
  <1>4. QED
    BY <1>1, <1>2, <1>3, TablesFields DEF LockFree

\* A person's request has written and is over.
LEMMA PersonStep ==
  ASSUME IInv, NEW w \in Workers, request[w].op \in {"edit", "erase"}, LockFree(w),
         request' = [request EXCEPT ![w] = Idle],
         UNCHANGED <<mailbox, seen, epoch, crashes, edits, dropped, caught>>,
         TablesOK(db', caught), Grown(db, db'),
         \A j \in DOMAIN db.customer :
           j # request[w].held => db'.customer[j].erased = db.customer[j].erased,
         \A v \in Workers \ {w} :
           request[v].op # "erase" /\ request[v].held = request[w].held
             /\ db'.customer[request[v].held].erased => request[v].held \in caught
  PROVE  IInv'
  <1>1. /\ request' \in [Workers -> Request] /\ request'[w] = Idle
        /\ \A v \in Workers \ {w} : request'[v] = request[v]
    BY IdleOK DEF IInv, TypeOK
  <1>2. request[w].flagged = {} /\ \A v \in Workers : ~request[v].locked
    BY PersonAtEnd
  <1>3. \A v \in Workers :
          \/ request'[v] = Idle
          \/ /\ request'[v] = request[v] /\ ~request[v].locked
             /\ (request[v].op # "erase" /\ request[v].held # 0
                   /\ db'.customer[request[v].held].erased) => request[v].held \in caught'
    <2> SUFFICES ASSUME NEW v \in Workers \ {w}, request[v].op # "erase", request[v].held # 0,
                        db'.customer[request[v].held].erased
                 PROVE  request[v].held \in caught
      BY <1>1, <1>2
    <2>1. CASE request[v].held = request[w].held
      BY <2>1
    <2>2. CASE request[v].held # request[w].held
      <3>1. HeldOK(request[v], db, caught)
        BY DEF IInv, RequestOK
      <3>2. QED
        BY <1>2, <2>2, <3>1 DEF HeldOK, Sight
    <2>3. QED
      BY <2>1, <2>2
  <1>4. SeenOK'
    <2>1. db' \in Tables
      BY DEF TablesOK
    <2>2. \A v \in Workers :
            \/ request'[v] = request[v]
            \/ \A m \in request[v].flagged :
                 Stands(db', m) \/ <<request[v].seller, m>> \in dropped'
      BY <1>1, <1>2
    <2>3. \A s \in Sellers : seen'[s] \ seen[s] = {}
      OBVIOUS
    <2>4. QED
      BY <2>1, <2>2, <2>3, SeenEnds
  <1>5. QED
    BY <1>1, <1>3, <1>4, StepOfTables DEF IInv, TypeOK

LEMMA EditStep ==
  ASSUME IInv, NEW w \in Workers, EditCustomer(w)
  PROVE  IInv'
  <1> DEFINE r == request[w]
             k == r.held
  <1>1. PICK data \in Profiles : db' = [db EXCEPT !.customer[k] = Edit(@, r, data)]
    BY DEF EditCustomer
  <1>2. /\ UNCHANGED <<mailbox, seen, epoch, crashes, edits, dropped, caught>>
        /\ r.op = "edit" /\ LockFree(w) /\ request' = [request EXCEPT ![w] = Idle]
    BY DEF EditCustomer
  <1>3. /\ r \in Request /\ k \in DOMAIN db.customer /\ db.customer[k] \in Customer
        /\ db.customer[k].erased => k \in caught
    BY <1>2, PersonAtEnd
  <1> DEFINE row == Edit(db.customer[k], r, data)
  <1>4. row \in Customer /\ row.seller = db.customer[k].seller /\ row.erased = db.customer[k].erased
    BY <1>3, EditRow
  <1>5. db' = [db EXCEPT !.customer[k] = row]
    BY <1>1
  <1> HIDE DEF row, r
  <1>6. TablesOK(db', caught) /\ Grown(db, db') /\ NobodyErased(db, db')
    BY <1>3, <1>4, <1>5, EditOK DEF IInv
  <1>7. \A j \in DOMAIN db.customer : db'.customer[j].erased = db.customer[j].erased
    BY <1>6 DEF NobodyErased
  <1>8. QED
    BY <1>2, <1>3, <1>6, <1>7, PersonStep DEF r

LEMMA EraseStep ==
  ASSUME IInv, Erasures, NEW w \in Workers, EraseCustomer(w)
  PROVE  IInv'
  <1> DEFINE r == request[w]
             k == r.held
  <1>1. /\ UNCHANGED <<mailbox, seen, epoch, crashes, edits, dropped, caught>>
        /\ r.op = "erase" /\ LockFree(w) /\ request' = [request EXCEPT ![w] = Idle]
        /\ db' = [customer |-> [db.customer EXCEPT ![k] = Forget(@, r)],
                  message |-> EraseMessages(db.message, r.messages)]
    BY DEF EraseCustomer
  <1>2. r \in Request /\ k \in DOMAIN db.customer
    BY <1>1, PersonAtEnd
  <1>3. k \notin caught => AsRead(r, db)
    BY <1>1 DEF Erasures, Unnoticed
  <1>4. \A v \in Workers : request[v].op # "erase" /\ request[v].held = k => k \in caught
    BY <1>1 DEF Erasures, Unnoticed, LeavesAlone
  <1> HIDE DEF r
  <1>5. /\ TablesOK(db', caught) /\ Grown(db, db')
        /\ \A j \in DOMAIN db.customer : j # k => db'.customer[j] = db.customer[j]
    BY <1>1, <1>2, <1>3, EraseOK DEF IInv
  <1>6. QED
    BY <1>1, <1>4, <1>5, PersonStep DEF r

------------------------------------------------------------------------------
(* Erasures that were not noted *)

LEMMA ErasedThere ==
  ASSUME IInv, NEW u \in Workers, request[u].op = "erase"
  PROVE  request[u].held \in DOMAIN db.customer /\ request[u].held # 0 /\ ~request[u].locked
  BY DEF IInv, RequestOK, PersonOK, HeldOK, Sight

\* Nothing is committed, and what changes keeps away from the customers.
LEMMA ErasuresKept ==
  ASSUME IInv, Erasures, db' = db, caught \subseteq caught',
         \A v \in Workers :
           \/ request'[v] = request[v]
           \/ /\ request'[v].op # "erase"
              /\ \A u \in Workers : Unnoticed(request[u], caught') =>
                   LeavesAlone(request'[v], db, request[u].held)
  PROVE  Erasures'
  <1> SUFFICES ASSUME NEW w \in Workers, Unnoticed(request'[w], caught')
               PROVE  /\ AsRead(request'[w], db)
                      /\ \A v \in Workers : LeavesAlone(request'[v], db, request'[w].held)
    BY DEF Erasures
  <1>1. request'[w] = request[w] /\ Unnoticed(request[w], caught') /\ Unnoticed(request[w], caught)
    BY DEF Unnoticed
  <1>2. /\ AsRead(request[w], db)
        /\ \A v \in Workers : LeavesAlone(request[v], db, request[w].held)
    BY <1>1 DEF Erasures
  <1>3. QED
    BY <1>1, <1>2

\* A request that goes on with what it had.
LEMMA ErasuresGoOn ==
  ASSUME IInv, Erasures, db' = db, caught' = caught, NEW w \in Workers, NEW q,
         request' = [request EXCEPT ![w] = q], q.op = request[w].op, q.op # "erase",
         q.held = request[w].held, q.locked = request[w].locked, q.rows = request[w].rows
  PROVE  Erasures'
  <1>1. request'[w] = q /\ \A v \in Workers \ {w} : request'[v] = request[v]
    BY DEF IInv, TypeOK
  <1>2. \A u \in Workers : Unnoticed(request[u], caught) => LeavesAlone(q, db, request[u].held)
    BY DEF Erasures, LeavesAlone
  <1>3. QED
    BY <1>1, <1>2, ErasuresKept

\* Requests that start or are over hold nobody.
LEMMA ErasuresNew ==
  ASSUME IInv, Erasures, db' = db, caught' = caught,
         \A v \in Workers :
           \/ request'[v] = request[v]
           \/ request'[v].op # "erase" /\ request'[v].held = 0 /\ ~request'[v].locked
  PROVE  Erasures'
  <1>1. \A v \in Workers :
           \/ request'[v] = request[v]
           \/ /\ request'[v].op # "erase"
              /\ \A u \in Workers : Unnoticed(request[u], caught') =>
                   LeavesAlone(request'[v], db, request[u].held)
    BY ErasedThere DEF Unnoticed, LeavesAlone
  <1>2. QED
    BY <1>1, ErasuresKept

LEMMA ErasuresAbandoned ==
  ASSUME IInv, Erasures, db' = db, caught' = caught, NEW S \in SUBSET Workers, Abandon(S)
  PROVE  Erasures'
  <1>1. \A v \in Workers : request'[v] = IF v \in S THEN Idle ELSE request[v]
    BY DEF Abandon
  <1>2. QED
    BY <1>1, IdleOK, ErasuresNew

\* A request commits: of the customers that others erase no more is there than before.
LEMMA ErasuresUnder ==
  ASSUME IInv, Erasures, NEW w \in Workers, request' = [request EXCEPT ![w] = Idle],
         caught' = caught, LockFree(w),
         \A u \in Workers \ {w} : Unnoticed(request[u], caught) =>
           LET k == request[u].held IN
           /\ db'.customer[k].email \in {db.customer[k].email, None}
           /\ db'.customer[k].phone \in {db.customer[k].phone, None}
           /\ db'.customer[k].channels \in {db.customer[k].channels, {}}
           /\ Messages(db', k) \subseteq Messages(db, k)
  PROVE  Erasures'
  <1>1. request'[w] = Idle /\ \A v \in Workers \ {w} : request'[v] = request[v]
    BY DEF IInv, TypeOK
  <1> SUFFICES ASSUME NEW u \in Workers, Unnoticed(request'[u], caught)
               PROVE  /\ AsRead(request'[u], db')
                      /\ \A v \in Workers : LeavesAlone(request'[v], db', request'[u].held)
    BY DEF Erasures
  <1>2. u # w /\ request'[u] = request[u]
    BY <1>1, IdleOK DEF Unnoticed
  <1>3. /\ Unnoticed(request[u], caught) /\ AsRead(request[u], db)
        /\ \A v \in Workers : LeavesAlone(request[v], db, request[u].held)
    BY <1>2 DEF Erasures
  <1>4. AsRead(request[u], db')
    BY <1>2, <1>3 DEF AsRead
  <1>5. request[u].held # 0
    BY <1>3, ErasedThere DEF Unnoticed
  <1>6. \A v \in Workers : LeavesAlone(request'[v], db', request[u].held)
    BY <1>1, <1>3, <1>5, IdleOK DEF LeavesAlone, LockFree
  <1>7. QED
    BY <1>2, <1>4, <1>6

LEMMA BeginPostErasures ==
  ASSUME IInv, Erasures, NEW w \in Workers, NEW s \in Sellers, BeginPost(w, s)
  PROVE  Erasures'
  <1>1. PICK p \in Posts :
          request' = [request EXCEPT ![w] = [Idle EXCEPT !.op = "post", !.seller = s,
                                                         !.todo = <<p>>]]
    BY DEF BeginPost
  <1> DEFINE q == [Idle EXCEPT !.op = "post", !.seller = s, !.todo = <<p>>]
  <1>2. q.op = "post" /\ q.held = 0 /\ ~q.locked
    BY IdleOK DEF Request
  <1> HIDE DEF q
  <1>3. request' = [request EXCEPT ![w] = q] /\ db' = db /\ caught' = caught
    BY <1>1 DEF BeginPost, q
  <1>4. \A v \in Workers : request'[v] = IF v = w THEN q ELSE request[v]
    BY <1>3 DEF IInv, TypeOK
  <1>5. QED
    BY <1>2, <1>3, <1>4, ErasuresNew

LEMMA BeginPollErasures ==
  ASSUME IInv, Erasures, NEW w \in Workers, NEW op \in {"worker", "manual"}, NEW s \in Sellers,
         BeginPoll(w, op, s)
  PROVE  Erasures'
  <1>1. PICK batch, flagged :
          request' = [request EXCEPT ![w] = [Idle EXCEPT !.op = op, !.seller = s,
                           !.todo = batch, !.flagged = flagged]]
    BY DEF BeginPoll
  <1> DEFINE q == [Idle EXCEPT !.op = op, !.seller = s, !.todo = batch, !.flagged = flagged]
  <1>2. q.op = op /\ q.held = 0 /\ ~q.locked
    BY IdleOK DEF Request
  <1> HIDE DEF q
  <1>3. request' = [request EXCEPT ![w] = q] /\ db' = db /\ caught' = caught
    BY <1>1 DEF BeginPoll, q
  <1>4. \A v \in Workers : request'[v] = IF v = w THEN q ELSE request[v]
    BY <1>3 DEF IInv, TypeOK
  <1>5. QED
    BY <1>2, <1>3, <1>4, ErasuresNew

\* A person's request as it starts.
LEMMA BeginOnShape ==
  ASSUME IInv, NEW w \in Workers, NEW op \in {"edit", "erase"}, NEW k, BeginOn(w, op, k)
  PROVE  /\ db' = db /\ \A v \in Workers \ {w} : request'[v] = request[v]
         /\ request'[w].op = op /\ request'[w].held = k /\ ~request'[w].locked
         /\ request'[w].email = db.customer[k].email /\ request'[w].phone = db.customer[k].phone
         /\ request'[w].channels = db.customer[k].channels
         /\ op = "erase" => request'[w].messages = Messages(db, k)
  <1> DEFINE row == db.customer[k]
             messages == IF op = "erase" THEN Messages(db, k) ELSE {}
             q == [Idle EXCEPT !.op = op, !.seller = row.seller, !.stage = "store",
                     !.held = k, !.email = row.email, !.phone = row.phone,
                     !.channels = row.channels, !.messages = messages]
  <1>1. request' = [request EXCEPT ![w] = q] /\ db' = db
    BY DEF BeginOn
  <1>2. op = "erase" => messages = Messages(db, k)
    OBVIOUS
  <1> HIDE DEF messages
  <1>3. /\ q.op = op /\ q.held = k /\ ~q.locked /\ q.email = row.email /\ q.phone = row.phone
        /\ q.channels = row.channels /\ q.messages = messages
    BY IdleOK DEF Request
  <1> HIDE DEF q
  <1>4. request'[w] = q /\ \A v \in Workers \ {w} : request'[v] = request[v]
    BY <1>1 DEF IInv, TypeOK
  <1>5. QED
    BY <1>1, <1>2, <1>3, <1>4

LEMMA BeginEditErasures ==
  ASSUME IInv, Erasures, NEW w \in Workers, BeginEdit(w)
  PROVE  Erasures'
  <1>1. PICK k \in DOMAIN db.customer : BeginOn(w, "edit", k) /\ caught' = Catch(k)
    BY DEF BeginEdit
  <1>2. /\ db' = db /\ \A v \in Workers \ {w} : request'[v] = request[v]
        /\ request'[w].op = "edit" /\ request'[w].held = k /\ ~request'[w].locked
    BY <1>1, BeginOnShape
  <1>3. /\ caught \subseteq caught'
        /\ \A u \in Workers : Unnoticed(request[u], caught') => request[u].held # k
    BY <1>1 DEF Catch, Unnoticed
  <1>4. \A u \in Workers :
          Unnoticed(request[u], caught') => LeavesAlone(request'[w], db, request[u].held)
    BY <1>2, <1>3 DEF LeavesAlone
  <1>5. QED
    BY <1>2, <1>3, <1>4, ErasuresKept

LEMMA BeginEraseErasures ==
  ASSUME IInv, Erasures, NEW w \in Workers, BeginErase(w)
  PROVE  Erasures'
  <1>1. PICK k \in DOMAIN db.customer :
          /\ BeginOn(w, "erase", k)
          /\ caught' = IF \E v \in Workers : WorksOn(v, k) THEN caught \cup {k} ELSE caught
    BY DEF BeginErase
  <1>2. /\ db' = db /\ \A v \in Workers \ {w} : request'[v] = request[v]
        /\ request'[w].op = "erase" /\ request'[w].held = k /\ ~request'[w].locked
        /\ AsRead(request'[w], db)
    BY <1>1, BeginOnShape DEF AsRead
  <1> SUFFICES ASSUME NEW u \in Workers, Unnoticed(request'[u], caught')
               PROVE  /\ AsRead(request'[u], db)
                      /\ \A v \in Workers : LeavesAlone(request'[v], db, request'[u].held)
    BY <1>2 DEF Erasures
  <1>3. CASE u = w
    <2>1. \A v \in Workers : ~WorksOn(v, k)
      BY <1>1, <1>2, <1>3 DEF Unnoticed
    <2>2. \A v \in Workers : LeavesAlone(request[v], db, k)
      BY <2>1 DEF WorksOn, LeavesAlone
    <2>3. LeavesAlone(request'[w], db, k)
      BY <1>2 DEF LeavesAlone
    <2>4. QED
      BY <1>2, <1>3, <2>2, <2>3
  <1>4. CASE u # w
    <2>1. request'[u] = request[u] /\ Unnoticed(request[u], caught)
      BY <1>1, <1>2, <1>4 DEF Unnoticed
    <2>2. /\ AsRead(request[u], db)
          /\ \A v \in Workers : LeavesAlone(request[v], db, request[u].held)
      BY <2>1 DEF Erasures
    <2>3. LeavesAlone(request'[w], db, request[u].held)
      BY <1>2 DEF LeavesAlone
    <2>4. QED
      BY <1>2, <2>1, <2>2, <2>3
  <1>5. QED
    BY <1>3, <1>4

LEMMA ChokeErasures ==
  ASSUME IInv, Erasures, NEW w \in Workers, Choke(w)
  PROVE  Erasures'
  <1>1. db' = db /\ caught' = caught
    BY DEF Choke
  <1>2. CASE request[w].op # "worker"
    BY <1>1, <1>2, ErasuresAbandoned DEF Choke
  <1>3. CASE request[w].op = "worker"
    <2> DEFINE q == [request[w] EXCEPT !.stage = "commit"]
    <2>1. request' = [request EXCEPT ![w] = q]
      BY <1>3 DEF Choke
    <2>2. /\ q.op = request[w].op /\ q.held = request[w].held /\ q.locked = request[w].locked
          /\ q.rows = request[w].rows
      BY DEF IInv, TypeOK, Request
    <2> HIDE DEF q
    <2>3. QED
      BY <1>1, <1>3, <2>1, <2>2, ErasuresGoOn
  <1>4. QED
    BY <1>2, <1>3

LEMMA AcknowledgeErasures ==
  ASSUME IInv, Erasures, NEW w \in Workers, Acknowledge(w)
  PROVE  Erasures'
  <1>1. db' = db /\ caught' = caught /\ request[w].op # "erase"
    BY DEF Acknowledge
  <1>2. PICK flagged : \/ request' = [request EXCEPT ![w] = Idle]
                       \/ request' = [request EXCEPT ![w].stage = "commit",
                                                     ![w].flagged = flagged]
    BY DEF Acknowledge
  <1> DEFINE q == [request[w] EXCEPT !.stage = "commit", !.flagged = flagged]
  <1>3. request' = [request EXCEPT ![w] = Idle] \/ request' = [request EXCEPT ![w] = q]
    BY <1>2
  <1>4. /\ q.op = request[w].op /\ q.held = request[w].held /\ q.locked = request[w].locked
        /\ q.rows = request[w].rows
    BY DEF IInv, TypeOK, Request
  <1> HIDE DEF q
  <1>5. CASE request' = [request EXCEPT ![w] = Idle]
    <2>1. \A v \in Workers : IF v = w THEN request'[v] = Idle ELSE request'[v] = request[v]
      BY <1>5 DEF IInv, TypeOK
    <2>2. QED
      BY <1>1, <2>1, IdleOK, ErasuresNew
  <1>6. QED
    BY <1>1, <1>3, <1>4, <1>5, ErasuresGoOn

\* Whoever finds a customer that is being erased is noted.
LEMMA LookErasures ==
  ASSUME IInv, Erasures, NEW w \in Workers, Look(w)
  PROVE  Erasures'
  <1> DEFINE r == request[w]
             t == Rows(w)
             item == Item1(w)
             candidates == Senders(t, r.seller, item)
  <1>1. db' = db /\ r \in Request /\ request \in [Workers -> Request] /\ AtItem(w, "look")
    BY DEF Look, IInv, TypeOK
  <1>2. r.op # "erase"
    BY <1>1, ItemAtHand
  <1>3. CASE Known(t, item)
    <2> DEFINE q == [r EXCEPT !.todo = Tail(@), !.done = Finished(r)]
    <2>1. request' = [request EXCEPT ![w] = q] /\ caught' = caught
      BY <1>3 DEF Look
    <2>2. q.op = r.op /\ q.held = r.held /\ q.locked = r.locked /\ q.rows = r.rows
      BY <1>1 DEF Request
    <2> HIDE DEF q
    <2>3. QED
      BY <1>1, <1>2, <2>1, <2>2, ErasuresGoOn
  <1>4. CASE ~Known(t, item)
    <2>1. PICK k \in IF candidates = {} THEN {0} ELSE candidates :
            /\ request' = [request EXCEPT ![w].stage = "store", ![w].held = k,
                 ![w].channels = IF k = 0 THEN {} ELSE t.customer[k].channels]
            /\ caught' = Catch(k)
      BY <1>4 DEF Look
    <2> DEFINE channels == IF k = 0 THEN {} ELSE t.customer[k].channels
               q == [r EXCEPT !.stage = "store", !.held = k, !.channels = channels]
    <2>2. request' = [request EXCEPT ![w] = q]
      BY <2>1
    <2>3. q.op = r.op /\ q.held = k /\ q.locked = r.locked /\ q.rows = r.rows
      BY <1>1 DEF Request
    <2> HIDE DEF q
    <2>4. /\ caught \subseteq caught'
          /\ \A u \in Workers : Unnoticed(request[u], caught') =>
               request[u].held # k /\ Unnoticed(request[u], caught)
      BY <2>1 DEF Catch, Unnoticed
    <2>5. \A u \in Workers :
            Unnoticed(request[u], caught') => LeavesAlone(q, db, request[u].held)
      BY <2>3, <2>4 DEF Erasures, LeavesAlone
    <2>6. \A v \in Workers : request'[v] = IF v = w THEN q ELSE request[v]
      BY <1>1, <2>2
    <2>7. QED
      BY <1>1, <1>2, <2>3, <2>4, <2>5, <2>6, ErasuresKept
  <1>5. QED
    BY <1>3, <1>4

\* What a request stores is of the customer it holds or of a new one.
LEMMA StoreErasures ==
  ASSUME IInv, Erasures, NEW w \in Workers, Store(w)
  PROVE  Erasures'
  <1> DEFINE r == request[w]
             t == Rows(w)
             item == Item1(w)
             new == Insert(t, r, item)
             q == [r EXCEPT !.locked = TRUE, !.rows = new, !.stage = "look",
                            !.todo = Tail(@), !.done = Finished(r), !.held = 0, !.channels = {}]
  <1>1. /\ db' = db /\ caught' = caught /\ AtItem(w, "store")
        /\ Len(t.message) < MaxMessages
        /\ r.held = 0 => Len(t.customer) < MaxCustomers
        /\ request' = [request EXCEPT ![w] = q]
    BY DEF Store
  <1>2. /\ r \in Request /\ RequestOK(r, db, seen, caught)
        /\ item \in Mails \cup Posts /\ r.op # "erase"
    BY <1>1, ItemAtHand
  <1>3. /\ t = Sight(r, db) /\ TablesOK(t, caught) /\ t \in Tables /\ epoch \in Nat
        /\ Grown(db, t) /\ db \in Tables
    BY SightOK
  <1>4. r.held # 0 => r.held \in DOMAIN t.customer
    BY <1>2, <1>3 DEF RequestOK, HeldOK
  <1>5. ASSUME NEW k \in DOMAIN t.customer, k # r.held, k # 0
        PROVE  new.customer[k] = t.customer[k] /\ Messages(new, k) = Messages(t, k)
    <2> DEFINE n == Len(t.message) + 1
               c == Len(t.customer) + 1
    <2> HIDE DEF r, t, item
    <2>1. /\ new \in Tables /\ Len(new.message) = n
          /\ \A i \in DOMAIN t.message : new.message[i] = t.message[i]
          /\ new.message[n].customer = IF r.held = 0 THEN c ELSE r.held
          /\ \A j \in DOMAIN t.customer : j # r.held => new.customer[j] = t.customer[j]
      BY <1>1, <1>2, <1>3, <1>4, InsertShape
    <2> HIDE DEF new
    <2>2. /\ Len(t.customer) \in Nat /\ Len(t.message) \in Nat
          /\ DOMAIN t.customer = 1..Len(t.customer) /\ DOMAIN t.message = 1..Len(t.message)
          /\ DOMAIN new.message = 1..Len(new.message)
      BY <1>3, <2>1, TablesFields
    <2>3. DOMAIN new.message = DOMAIN t.message \cup {n}
      BY <2>1, <2>2
    <2>4. new.message[n].customer # k
      BY <1>5, <2>1, <2>2
    <2>5. Messages(new, k) = Messages(t, k)
      BY <2>1, <2>3, <2>4 DEF Messages
    <2>6. QED
      BY <1>5, <2>1, <2>5
  <1> HIDE DEF r, t, item, new
  <1>6. q.op = r.op /\ q.held = 0 /\ q.locked /\ q.rows = new
    BY <1>2 DEF Request
  <1> HIDE DEF q
  <1>7. ASSUME NEW u \in Workers, Unnoticed(request[u], caught)
        PROVE  LeavesAlone(q, db, request[u].held)
    <2> DEFINE k == request[u].held
    <2>1. k \in DOMAIN db.customer /\ k # 0
      BY <1>7, ErasedThere DEF Unnoticed
    <2>2. LeavesAlone(r, db, k)
      BY <1>7 DEF Erasures, r
    <2> HIDE DEF k
    <2>3. t.customer[k] = db.customer[k] /\ Messages(t, k) = Messages(db, k)
      BY <1>3, <2>2 DEF LeavesAlone, Sight
    <2>4. k \in DOMAIN t.customer /\ k # r.held
      BY <1>2, <1>3, <2>1, <2>2, TablesFields DEF LeavesAlone, Grown
    <2>5. new.customer[k] = t.customer[k] /\ Messages(new, k) = Messages(t, k)
      BY <1>5, <2>1, <2>4
    <2>6. QED
      BY <1>6, <2>1, <2>3, <2>5 DEF LeavesAlone, k
  <1>8. \A v \in Workers : request'[v] = IF v = w THEN q ELSE request[v]
    BY <1>1 DEF IInv, TypeOK
  <1>9. QED
    BY <1>1, <1>2, <1>6, <1>7, <1>8, ErasuresKept

LEMMA CommitErasures ==
  ASSUME IInv, Erasures, NEW w \in Workers, Commit(w)
  PROVE  Erasures'
  <1>1. /\ db' = Rows(w) /\ caught' = caught /\ LockFree(w)
        /\ request' = [request EXCEPT ![w] = Idle]
    BY DEF Commit
  <1>2. ASSUME NEW u \in Workers \ {w}, Unnoticed(request[u], caught)
        PROVE  LET k == request[u].held IN
               db'.customer[k] = db.customer[k] /\ Messages(db', k) = Messages(db, k)
    <2>1. LeavesAlone(request[w], db, request[u].held)
      BY <1>2 DEF Erasures
    <2>2. QED
      BY <1>1, <2>1 DEF LeavesAlone, Rows
  <1>3. QED
    BY <1>1, <1>2, ErasuresUnder

LEMMA EditErasures ==
  ASSUME IInv, Erasures, NEW w \in Workers, EditCustomer(w)
  PROVE  Erasures'
  <1> DEFINE r == request[w]
  <1>1. PICK data \in Profiles : db' = [db EXCEPT !.customer[r.held] = Edit(@, r, data)]
    BY DEF EditCustomer
  <1>2. /\ r.op = "edit" /\ caught' = caught /\ LockFree(w)
        /\ request' = [request EXCEPT ![w] = Idle]
    BY DEF EditCustomer
  <1> DEFINE row == Edit(db.customer[r.held], r, data)
  <1>3. db' = [db EXCEPT !.customer[r.held] = row]
    BY <1>1
  <1>4. /\ r \in Request /\ r.held \in DOMAIN db.customer /\ db.customer[r.held] \in Customer
        /\ db.customer[r.held].erased => r.held \in caught
    BY <1>2, PersonAtEnd
  <1>5. row \in Customer /\ row.seller = db.customer[r.held].seller
        /\ row.erased = db.customer[r.held].erased
    BY <1>4, EditRow
  <1>6. \A u \in Workers : Unnoticed(request[u], caught) =>
          request[u].held # r.held /\ request[u].held \in DOMAIN db.customer
    BY <1>2, ErasedThere DEF Erasures, LeavesAlone, Unnoticed
  <1> HIDE DEF row, r
  <1>7. /\ \A j \in DOMAIN db.customer : j # r.held => db'.customer[j] = db.customer[j]
        /\ db'.message = db.message
    BY <1>3, <1>4, <1>5, EditOK DEF IInv
  <1>8. \A j : Messages(db', j) = Messages(db, j)
    BY <1>7 DEF Messages
  <1>9. QED
    BY <1>2, <1>6, <1>7, <1>8, ErasuresUnder DEF r

LEMMA EraseErasures ==
  ASSUME IInv, Erasures, NEW w \in Workers, EraseCustomer(w)
  PROVE  Erasures'
  <1> DEFINE r == request[w]
  <1>1. /\ r.op = "erase" /\ caught' = caught /\ LockFree(w)
        /\ request' = [request EXCEPT ![w] = Idle]
        /\ db' = [customer |-> [db.customer EXCEPT ![r.held] = Forget(@, r)],
                  message |-> EraseMessages(db.message, r.messages)]
    BY DEF EraseCustomer
  <1>2. /\ r \in Request /\ r.held \in DOMAIN db.customer /\ db.customer[r.held] \in Customer
    BY <1>1, PersonAtEnd
  <1>3. r.held \notin caught => AsRead(r, db)
    BY <1>1 DEF Erasures, Unnoticed
  <1> HIDE DEF r
  <1>4. /\ \A j \in DOMAIN db.customer : j # r.held => db'.customer[j] = db.customer[j]
        /\ db'.customer[r.held] = Forget(db.customer[r.held], r)
        /\ \A j : Messages(db', j) = Messages(db, j)
    BY <1>1, <1>2, <1>3, EraseOK DEF IInv
  <1>5. \A j \in DOMAIN db.customer :
          /\ db'.customer[j].email \in {db.customer[j].email, None}
          /\ db'.customer[j].phone \in {db.customer[j].phone, None}
          /\ db'.customer[j].channels \in {db.customer[j].channels, {}}
    BY <1>2, <1>4, ForgetRow
  <1>6. \A u \in Workers : Unnoticed(request[u], caught) => request[u].held \in DOMAIN db.customer
    BY ErasedThere DEF Unnoticed
  <1>7. QED
    BY <1>1, <1>4, <1>5, <1>6, ErasuresUnder DEF r

LEMMA StepErasures == IInv /\ Erasures /\ [Next]_vars => Erasures'
  <1> SUFFICES ASSUME IInv, Erasures, [Next]_vars PROVE Erasures'
    OBVIOUS
  <1>1. CASE UNCHANGED vars
    BY <1>1, ErasuresNew DEF vars
  <1>2. ASSUME NEW s \in Sellers, Arrive(s) PROVE Erasures'
    BY <1>2, ErasuresNew DEF Arrive
  <1>3. ASSUME NEW w \in Workers, NEW s \in Sellers, BeginPost(w, s) PROVE Erasures'
    BY <1>3, BeginPostErasures
  <1>4. ASSUME NEW w \in Workers, NEW s \in Sellers,
               BeginPoll(w, "worker", s) \/ BeginPoll(w, "manual", s)
        PROVE  Erasures'
    BY <1>4, BeginPollErasures
  <1>5. ASSUME NEW w \in Workers, Run(w) PROVE Erasures'
    <2>1. CASE Conflict(w)
      BY <2>1, ErasuresAbandoned DEF Conflict
    <2>2. CASE ~Conflict(w)
      BY <1>5, <2>2, ChokeErasures, LookErasures, StoreErasures, AcknowledgeErasures,
         CommitErasures, EditErasures, EraseErasures DEF Run
    <2>3. QED
      BY <2>1, <2>2
  <1>6. ASSUME NEW w \in Workers, BeginEdit(w) \/ BeginErase(w) \/ Rollback(w) PROVE Erasures'
    <2>1. CASE Rollback(w)
      BY <2>1, ErasuresAbandoned DEF Rollback
    <2>2. QED
      BY <1>6, <2>1, BeginEditErasures, BeginEraseErasures
  <1>7. CASE Restart
    <2>1. {w \in Workers : request[w].op # "idle"} \in SUBSET Workers
      OBVIOUS
    <2>2. QED
      BY <1>7, <2>1, ErasuresAbandoned DEF Restart
  <1>8. QED
    BY <1>1, <1>2, <1>3, <1>4, <1>5, <1>6, <1>7 DEF Next

LEMMA InitErasures == Init => Erasures
  BY IdleOK DEF Init, Erasures, Unnoticed

LEMMA StepInv == IInv /\ Erasures /\ [Next]_vars => IInv'
  <1> SUFFICES ASSUME IInv, Erasures, [Next]_vars PROVE IInv'
    OBVIOUS
  <1>1. CASE UNCHANGED vars
    BY <1>1 DEF vars, IInv, TypeOK, OneLock, SeenOK
  <1>2. ASSUME NEW s \in Sellers, Arrive(s) PROVE IInv'
    BY <1>2, ArriveStep
  <1>3. ASSUME NEW w \in Workers, NEW s \in Sellers, BeginPost(w, s) PROVE IInv'
    BY <1>3, BeginPostStep
  <1>4. ASSUME NEW w \in Workers, NEW s \in Sellers,
               BeginPoll(w, "worker", s) \/ BeginPoll(w, "manual", s)
        PROVE  IInv'
    BY <1>4, BeginPollStep
  <1>5. ASSUME NEW w \in Workers, Run(w) PROVE IInv'
    BY <1>5, ChokeStep, LookStep, StoreStep, ConflictStep, AcknowledgeStep, CommitStep,
       EditStep, EraseStep DEF Run
  <1>6. ASSUME NEW w \in Workers, BeginEdit(w) \/ BeginErase(w) \/ Rollback(w) PROVE IInv'
    BY <1>6, BeginEditStep, BeginEraseStep, RollbackStep
  <1>7. CASE Restart
    BY <1>7, RestartStep
  <1>8. QED
    BY <1>1, <1>2, <1>3, <1>4, <1>5, <1>6, <1>7 DEF Next

\* What the proofs rest on holds in every state: tables and requests are in order, and
\* what others do to a customer that is being erased is noted.
THEOREM Inductive == Spec => [](IInv /\ Erasures)
  <1>1. Init => IInv /\ Erasures
    BY InitInv, InitErasures
  <1>2. IInv /\ Erasures /\ [Next]_vars => IInv' /\ Erasures'
    BY StepInv, StepErasures
  <1>3. QED
    BY <1>1, <1>2, PTL DEF Spec

\* Every variable keeps its type (email_polling, channel_gateway, data_privacy).
THEOREM TypeCorrect == Spec => []TypeOK
  <1>1. IInv => TypeOK
    BY DEF IInv
  <1>2. QED
    BY <1>1, Inductive, PTL

\* An inbound message never lands with a customer of another seller
\* (services/channel_gateway.py, find_or_create_customer).
THEOREM OfTheSeller == Spec => []CustomerIsOfSeller
  <1>1. IInv => CustomerIsOfSeller
    BY DEF IInv, TablesOK, Referred, CustomerIsOfSeller
  <1>2. QED
    BY <1>1, Inductive, PTL

\* However often and by how many at once an item is brought, a seller has one live
\* message for it, but for mail without an id, which has one for each start of the
\* server (services/channel_gateway.py, ingest_inbound_message).
THEOREM StoredOnce == Spec => []IngestedOnce
  <1>1. IInv => IngestedOnce
    <2> SUFFICES ASSUME IInv, NEW s \in Sellers, NEW i \in Live(s), NEW j \in Live(s),
                        db.message[i].item = db.message[j].item, i # j
                 PROVE  /\ db.message[i].item.id = None
                        /\ db.message[i].key # db.message[j].key
      BY DEF IngestedOnce
    <2>1. /\ i \in DOMAIN db.message /\ j \in DOMAIN db.message
          /\ ~db.message[i].erased /\ ~db.message[j].erased
      BY DEF Live
    <2>2. db.message[i].key # db.message[j].key
      BY <2>1 DEF IInv, TablesOK, Unique
    <2>3. db.message[i].item.id = None
      BY <2>1, <2>2 DEF IInv, TablesOK, Keyed
    <2>4. QED
      BY <2>2, <2>3
  <1>2. QED
    BY <1>1, Inductive, PTL

\* After an erasure that met no other request working on the customer, no addresses or
\* messages are left in or come back to the row: its rows are read first and written
\* later, and whatever is stored or edited in between is noted (services/data_privacy.py).
THEOREM StaysForgotten == Spec => []ErasedIsForgotten
  <1>1. IInv => ErasedIsForgotten
    BY DEF IInv, TablesOK, Forgotten, ErasedIsForgotten, Messages
  <1>2. QED
    BY <1>1, Inductive, PTL

\* A mail that is flagged as seen is stored, or a poll that runs has it, or the poll
\* that had it was lost or cut short (services/email_polling.py).
THEOREM NoMailForgotten == Spec => []SeenIsStored
  <1>1. IInv => SeenIsStored
    BY DEF IInv, SeenOK, SeenIsStored, Stands, StoodFor
  <1>2. QED
    BY <1>1, Inductive, PTL

------------------------------------------------------------------------------
(* How many customers a seller can have for one email *)

\* Customers of s with the email e that nobody typed.
Own(t, s, e) == {k \in WithEmail(t, s, e) : ~t.customer[k].typed}

\* A request that has found no customer for the item at hand, which is from e.
AboutToCreate(r, s, e) ==
  /\ r.op # "idle" /\ r.stage = "store" /\ r.held = 0 /\ r.seller = s
  /\ r.todo # <<>> /\ Head(r.todo).email = e

\* A request that is about to create such a customer, or has and did not commit it yet.
Creates(r, t, s, e) ==
  AboutToCreate(r, s, e) \/ (r.locked /\ Own(r.rows, s, e) # Own(t, s, e))

Creating(s, e) == {w \in Workers : Creates(request[w], db, s, e)}

\* A transaction adds one at most: it finds what it has itself created.
AddsOne(r, t, s, e) ==
  r.locked =>
    /\ Own(t, s, e) \subseteq Own(r.rows, s, e)
    /\ Cardinality(Own(r.rows, s, e)) <= Cardinality(Own(t, s, e)) + 1
    /\ AboutToCreate(r, s, e) => Own(r.rows, s, e) = {}

\* A request joins those that create only while there is no such customer: with those
\* that have committed theirs they never are more than all requests.
Created(s, e) ==
  /\ Cardinality(Own(db, s, e)) + Cardinality(Creating(s, e)) <= Cardinality(Workers)
  /\ \A w \in Workers : AddsOne(request[w], db, s, e)

CInv == \A s \in Sellers, e \in Emails : Created(s, e)

LEMMA OwnFinite ==
  ASSUME NEW t \in Tables, NEW s, NEW e
  PROVE  /\ IsFiniteSet(Own(t, s, e)) /\ Cardinality(Own(t, s, e)) \in Nat
         /\ Own(t, s, e) \subseteq DOMAIN t.customer
  <1>1. Own(t, s, e) \subseteq DOMAIN t.customer
    BY DEF Own, WithEmail
  <1>2. IsFiniteSet(DOMAIN t.customer)
    <2>1. DOMAIN t.customer = 1..Len(t.customer) /\ Len(t.customer) \in Int
      BY TablesFields
    <2>2. QED
      BY <2>1, FS_Interval
  <1>3. IsFiniteSet(Own(t, s, e))
    BY <1>1, <1>2, FS_Subset
  <1>4. QED
    BY <1>1, <1>3, FS_CardinalityType

LEMMA OneMore ==
  ASSUME NEW S, IsFiniteSet(S), NEW x
  PROVE  IsFiniteSet(S \cup {x}) /\ Cardinality(S \cup {x}) <= Cardinality(S) + 1
  <1>1. Cardinality(S) \in Nat
    BY FS_CardinalityType
  <1>2. QED
    BY <1>1, FS_AddElement

LEMMA CreatingFinite ==
  ASSUME IsFiniteSet(Workers), NEW S \in SUBSET Workers
  PROVE  /\ IsFiniteSet(S) /\ Cardinality(S) \in Nat /\ Cardinality(Workers) \in Nat
         /\ Cardinality(S) <= Cardinality(Workers)
         /\ \A T \in SUBSET S : Cardinality(T) \in Nat /\ Cardinality(T) <= Cardinality(S)
  <1>1. IsFiniteSet(S) /\ Cardinality(S) <= Cardinality(Workers)
    BY FS_Subset
  <1>2. QED
    BY <1>1, FS_Subset, FS_CardinalityType

\* Nothing is committed, and a request creates only if it did before or there is no
\* such customer yet.
LEMMA CreatedKept ==
  ASSUME IsFiniteSet(Workers), IInv, NEW s \in Sellers, NEW e \in Emails, Created(s, e),
         db' = db,
         \A v \in Workers :
           /\ AddsOne(request'[v], db, s, e)
           /\ Creates(request'[v], db, s, e) =>
                Creates(request[v], db, s, e) \/ Own(db, s, e) = {}
  PROVE  Created(s, e)'
  <1> DEFINE new == {w \in Workers : Creates(request'[w], db, s, e)}
  <1>1. Creating(s, e)' = new
    BY DEF Creating
  <1>2. db \in Tables /\ Creating(s, e) \subseteq Workers /\ new \subseteq Workers
    BY DEF IInv, TypeOK, Creating
  <1>3. CASE Own(db, s, e) = {}
    <2>1. Cardinality(Own(db, s, e)) = 0
      BY <1>3, FS_EmptySet
    <2> HIDE DEF new
    <2>2. QED
      BY <1>1, <1>2, <2>1, CreatingFinite DEF Created
  <1>4. CASE Own(db, s, e) # {}
    <2>1. new \subseteq Creating(s, e)
      BY <1>4 DEF Creating
    <2> HIDE DEF new
    <2>2. /\ Cardinality(new) <= Cardinality(Creating(s, e)) /\ Cardinality(new) \in Nat
          /\ Cardinality(Creating(s, e)) \in Nat /\ Cardinality(Workers) \in Nat
          /\ Cardinality(Own(db, s, e)) \in Nat
      BY <1>2, <2>1, CreatingFinite, OwnFinite
    <2>3. Cardinality(Own(db, s, e)) + Cardinality(new) <= Cardinality(Workers)
      BY <2>2 DEF Created
    <2>4. QED
      BY <1>1, <2>3 DEF Created
  <1>5. QED
    BY <1>3, <1>4

\* Nobody creates who did not before.
LEMMA CalmStep ==
  ASSUME IsFiniteSet(Workers), IInv, CInv, db' = db,
         \A v \in Workers :
           \/ request'[v] = request[v]
           \/ /\ request'[v].stage # "store" \/ request'[v].held # 0
              /\ request'[v].locked => request[v].locked /\ request'[v].rows = request[v].rows
  PROVE  CInv'
  <1> SUFFICES ASSUME NEW s \in Sellers, NEW e \in Emails PROVE Created(s, e)'
    BY DEF CInv
  <1>1. Created(s, e)
    BY DEF CInv
  <1>2. \A v \in Workers :
           /\ AddsOne(request'[v], db, s, e)
           /\ Creates(request'[v], db, s, e) => Creates(request[v], db, s, e)
    <2> TAKE v \in Workers
    <2>1. AddsOne(request[v], db, s, e)
      BY <1>1 DEF Created
    <2>2. CASE request'[v] = request[v]
      BY <2>1, <2>2
    <2>3. CASE request'[v] # request[v]
      <3>1. ~AboutToCreate(request'[v], s, e)
        BY <2>3 DEF AboutToCreate
      <3>2. QED
        BY <2>1, <2>3, <3>1 DEF AddsOne, Creates
    <2>4. QED
      BY <2>2, <2>3
  <1>3. QED
    BY <1>1, <1>2, CreatedKept

LEMMA IdleSteps ==
  ASSUME IsFiniteSet(Workers), IInv, CInv, db' = db, NEW S \in SUBSET Workers, Abandon(S)
  PROVE  CInv'
  <1>1. \A v \in Workers : request'[v] = IF v \in S THEN Idle ELSE request[v]
    BY DEF Abandon
  <1>2. QED
    BY <1>1, IdleOK, CalmStep

LEMMA BeginPostCreated ==
  ASSUME IsFiniteSet(Workers), IInv, CInv, NEW w \in Workers, NEW s \in Sellers, BeginPost(w, s)
  PROVE  CInv'
  <1>1. PICK p \in Posts :
          request' = [request EXCEPT ![w] = [Idle EXCEPT !.op = "post", !.seller = s,
                                                         !.todo = <<p>>]]
    BY DEF BeginPost
  <1> DEFINE q == [Idle EXCEPT !.op = "post", !.seller = s, !.todo = <<p>>]
  <1>2. q.stage = "look" /\ ~q.locked
    BY IdleOK DEF Request
  <1> HIDE DEF q
  <1>3. request' = [request EXCEPT ![w] = q] /\ db' = db
    BY <1>1 DEF BeginPost, q
  <1>4. \A v \in Workers : request'[v] = IF v = w THEN q ELSE request[v]
    BY <1>3 DEF IInv, TypeOK
  <1>5. QED
    BY <1>2, <1>3, <1>4, CalmStep

LEMMA BeginPollCreated ==
  ASSUME IsFiniteSet(Workers), IInv, CInv, NEW w \in Workers, NEW op, NEW s \in Sellers,
         BeginPoll(w, op, s)
  PROVE  CInv'
  <1>1. PICK batch, flagged :
          request' = [request EXCEPT ![w] = [Idle EXCEPT !.op = op, !.seller = s,
                           !.todo = batch, !.flagged = flagged]]
    BY DEF BeginPoll
  <1> DEFINE q == [Idle EXCEPT !.op = op, !.seller = s, !.todo = batch, !.flagged = flagged]
  <1>2. q.stage = "look" /\ ~q.locked
    BY IdleOK DEF Request
  <1> HIDE DEF q
  <1>3. request' = [request EXCEPT ![w] = q] /\ db' = db
    BY <1>1 DEF BeginPoll, q
  <1>4. \A v \in Workers : request'[v] = IF v = w THEN q ELSE request[v]
    BY <1>3 DEF IInv, TypeOK
  <1>5. QED
    BY <1>2, <1>3, <1>4, CalmStep

LEMMA ChokeCreated ==
  ASSUME IsFiniteSet(Workers), IInv, CInv, NEW w \in Workers, Choke(w)
  PROVE  CInv'
  <1>1. db' = db
    BY DEF Choke
  <1>2. CASE request[w].op # "worker"
    BY <1>1, <1>2, IdleSteps DEF Choke
  <1>3. CASE request[w].op = "worker"
    <2>1. request' = [request EXCEPT ![w].stage = "commit"]
      BY <1>3 DEF Choke
    <2>2. \A v \in Workers : IF v = w THEN request'[v] = [request[w] EXCEPT !.stage = "commit"]
                                      ELSE request'[v] = request[v]
      BY <2>1 DEF IInv, TypeOK
    <2>3. /\ request'[w].stage = "commit" /\ request'[w].locked = request[w].locked
          /\ request'[w].rows = request[w].rows
      BY <2>2 DEF IInv, TypeOK, Request
    <2>4. QED
      BY <1>1, <2>2, <2>3, CalmStep
  <1>4. QED
    BY <1>2, <1>3

LEMMA AcknowledgeCreated ==
  ASSUME IsFiniteSet(Workers), IInv, CInv, NEW w \in Workers, Acknowledge(w)
  PROVE  CInv'
  <1>1. db' = db
    BY DEF Acknowledge
  <1>2. PICK flagged : \/ request' = [request EXCEPT ![w] = Idle]
                       \/ request' = [request EXCEPT ![w].stage = "commit",
                                                     ![w].flagged = flagged]
    BY DEF Acknowledge
  <1> DEFINE q == [request[w] EXCEPT !.stage = "commit", !.flagged = flagged]
  <1>3. request' = [request EXCEPT ![w] = Idle] \/ request' = [request EXCEPT ![w] = q]
    BY <1>2
  <1>4. q.stage = "commit" /\ q.locked = request[w].locked /\ q.rows = request[w].rows
    BY DEF IInv, TypeOK, Request
  <1> HIDE DEF q
  <1>5. \A v \in Workers : IF v = w THEN request'[v] \in {Idle, q} ELSE request'[v] = request[v]
    BY <1>3 DEF IInv, TypeOK
  <1>6. QED
    BY <1>1, <1>4, <1>5, IdleOK, CalmStep

\* A customer is only created where none was found.
LEMMA LookCreated ==
  ASSUME IsFiniteSet(Workers), IInv, CInv, NEW w \in Workers, Look(w)
  PROVE  CInv'
  <1> DEFINE r == request[w]
             t == Rows(w)
             item == Item1(w)
             candidates == Senders(t, r.seller, item)
  <1>1. db' = db /\ r \in Request /\ r.stage = "look" /\ request \in [Workers -> Request]
    BY DEF Look, AtItem, IInv, TypeOK
  <1>2. CASE Known(t, item)
    <2> DEFINE q == [r EXCEPT !.todo = Tail(@), !.done = Finished(r)]
    <2>1. request' = [request EXCEPT ![w] = q]
      BY <1>2 DEF Look
    <2>2. q.stage = "look" /\ q.locked = r.locked /\ q.rows = r.rows
      BY <1>1 DEF Request
    <2> HIDE DEF q
    <2>3. \A v \in Workers : request'[v] = IF v = w THEN q ELSE request[v]
      BY <1>1, <2>1
    <2>4. QED
      BY <1>1, <2>2, <2>3, CalmStep
  <1>3. CASE ~Known(t, item)
    <2>1. PICK k \in IF candidates = {} THEN {0} ELSE candidates :
            /\ caught' = Catch(k)
            /\ request' = [request EXCEPT ![w].stage = "store", ![w].held = k,
                 ![w].channels = IF k = 0 THEN {} ELSE t.customer[k].channels]
      BY <1>3 DEF Look
    <2> DEFINE channels == IF k = 0 THEN {} ELSE t.customer[k].channels
               q == [r EXCEPT !.stage = "store", !.held = k, !.channels = channels]
    <2>2. request' = [request EXCEPT ![w] = q]
      BY <2>1
    <2>3. /\ q.held = k /\ q.seller = r.seller /\ q.todo = r.todo /\ q.locked = r.locked
          /\ q.rows = r.rows
      BY <1>1 DEF Request
    <2> HIDE DEF q
    <2>4. \A v \in Workers : request'[v] = IF v = w THEN q ELSE request[v]
      BY <1>1, <2>2
    <2> SUFFICES ASSUME NEW s \in Sellers, NEW e \in Emails PROVE Created(s, e)'
      BY DEF CInv
    <2>5. Created(s, e) /\ AddsOne(r, db, s, e)
      BY DEF CInv, Created
    <2>6. /\ t = IF r.locked THEN r.rows ELSE db
          /\ t \in Tables /\ db \in Tables /\ DOMAIN t.customer = 1..Len(t.customer)
      BY SightOK, TablesFields DEF Rows
    <2>7. AboutToCreate(q, s, e) => Own(t, s, e) = {}
      <3> SUFFICES ASSUME AboutToCreate(q, s, e) PROVE Own(t, s, e) = {}
        OBVIOUS
      <3>1. q.held = 0 /\ r.seller = s /\ item.email = e
        BY <2>3 DEF AboutToCreate, Item1
      <3>2. candidates = {}
        <4>1. candidates # {} => k \in candidates
          BY <2>1
        <4>2. candidates \subseteq DOMAIN t.customer
          BY DEF Senders, WithEmail, WithPhone
        <4>3. 0 \notin 1..Len(t.customer)
          BY <2>6, TablesFields
        <4>4. QED
          BY <2>3, <2>6, <3>1, <4>1, <4>2, <4>3
      <3>3. WithEmail(t, s, e) = {}
        BY <3>1, <3>2 DEF Senders
      <3>4. QED
        BY <3>3 DEF Own
    <2>8. AddsOne(q, db, s, e)
      BY <2>3, <2>5, <2>6, <2>7 DEF AddsOne
    <2>9. Creates(q, db, s, e) => Creates(r, db, s, e) \/ Own(db, s, e) = {}
      BY <2>3, <2>5, <2>6, <2>7 DEF Creates, AddsOne
    <2>10. \A v \in Workers :
             /\ AddsOne(request'[v], db, s, e)
             /\ Creates(request'[v], db, s, e) =>
                  Creates(request[v], db, s, e) \/ Own(db, s, e) = {}
      <3> TAKE v \in Workers
      <3>1. CASE v = w
        BY <2>4, <2>8, <2>9, <3>1
      <3>2. CASE v # w
        BY <2>4, <2>5, <3>2 DEF Created
      <3>3. QED
        BY <3>1, <3>2
    <2>11. QED
      BY <1>1, <2>5, <2>10, CreatedKept
  <1>4. QED
    BY <1>2, <1>3

\* The customers of an email after a message is stored.
LEMMA InsertOwn ==
  ASSUME NEW t, NEW noted, TablesOK(t, noted), NEW r \in Request, NEW item \in Mails \cup Posts,
         epoch \in Nat,
         r.held # 0 => r.held \in DOMAIN t.customer,
         r.held = 0 => Len(t.customer) < MaxCustomers, Len(t.message) < MaxMessages,
         NEW s, NEW e
  PROVE  LET new == Insert(t, r, item) IN
         IF r.held = 0 /\ r.seller = s /\ item.email = e
         THEN Own(new, s, e) \subseteq Own(t, s, e) \cup {Len(t.customer) + 1}
              /\ Own(t, s, e) \subseteq Own(new, s, e)
         ELSE Own(new, s, e) = Own(t, s, e)
  <1> DEFINE new == Insert(t, r, item)
             c == Len(t.customer) + 1
  <1>1. /\ new \in Tables
        /\ Len(new.customer) = IF r.held = 0 THEN c ELSE Len(t.customer)
        /\ r.held = 0 => new.customer[c] = NewCustomer(r.seller, item)
    BY InsertShape
  <1>2. \A k \in DOMAIN t.customer :
          /\ new.customer[k].seller = t.customer[k].seller
          /\ new.customer[k].email = t.customer[k].email
          /\ new.customer[k].typed = t.customer[k].typed
    BY InsertShape
  <1> HIDE DEF new
  <1>3. /\ DOMAIN t.customer = 1..Len(t.customer) /\ Len(t.customer) \in Nat
        /\ DOMAIN new.customer = 1..Len(new.customer)
    BY <1>1, TablesFields DEF TablesOK
  <1>4. DOMAIN new.customer = IF r.held = 0 THEN DOMAIN t.customer \cup {c} ELSE DOMAIN t.customer
    <2>1. \A j \in Nat : 1..(j + 1) = (1..j) \cup {j + 1}
      OBVIOUS
    <2>2. 1..c = DOMAIN t.customer \cup {c}
      BY <1>3, <2>1
    <2>3. QED
      BY <1>1, <1>3, <2>2
  <1>5. r.held = 0 => new.customer[c].seller = r.seller /\ new.customer[c].email = item.email
    BY <1>1, NewCustomerOK, RequestFields
  <1>6. c \notin DOMAIN t.customer
    BY <1>3
  <1> HIDE DEF c
  <1>7. \A k \in DOMAIN t.customer : k \in Own(new, s, e) <=> k \in Own(t, s, e)
    BY <1>2, <1>4 DEF Own, WithEmail
  <1>8. Own(t, s, e) \subseteq DOMAIN t.customer /\ Own(new, s, e) \subseteq DOMAIN new.customer
    BY DEF Own, WithEmail
  <1>9. r.held = 0 /\ c \in Own(new, s, e) => r.seller = s /\ item.email = e
    BY <1>5 DEF Own, WithEmail
  <1>10. Own(t, s, e) \subseteq Own(new, s, e)
    BY <1>4, <1>7, <1>8
  <1>11. Own(new, s, e) \subseteq Own(t, s, e) \cup {c}
    BY <1>4, <1>7, <1>8
  <1>12. c \in Own(new, s, e) => r.held = 0 /\ r.seller = s /\ item.email = e
    BY <1>4, <1>6, <1>8, <1>9
  <1>13. ~(r.held = 0 /\ r.seller = s /\ item.email = e) => Own(new, s, e) = Own(t, s, e)
    BY <1>10, <1>11, <1>12
  <1>14. QED
    BY <1>10, <1>11, <1>13 DEF new, c

LEMMA StoreCreated ==
  ASSUME IsFiniteSet(Workers), IInv, CInv, NEW w \in Workers, Store(w)
  PROVE  CInv'
  <1> DEFINE r == request[w]
             t == Rows(w)
             item == Item1(w)
             new == Insert(t, r, item)
             q == [r EXCEPT !.locked = TRUE, !.rows = new, !.stage = "look",
                            !.todo = Tail(@), !.done = Finished(r), !.held = 0, !.channels = {}]
  <1>1. /\ db' = db /\ AtItem(w, "store") /\ ~Known(t, item)
        /\ Len(t.message) < MaxMessages
        /\ r.held = 0 => Len(t.customer) < MaxCustomers
        /\ request' = [request EXCEPT ![w] = q]
    BY DEF Store, Clash
  <1>2. /\ r \in Request /\ RequestOK(r, db, seen, caught) /\ r.stage = "store"
        /\ item \in Mails \cup Posts /\ r.op # "idle" /\ r.todo # <<>> /\ item = Head(r.todo)
    BY <1>1, ItemAtHand DEF AtItem, Item1
  <1>3. /\ t = Sight(r, db) /\ TablesOK(t, caught) /\ t \in Tables /\ epoch \in Nat
        /\ db \in Tables
    BY SightOK
  <1>4. r.held # 0 => r.held \in DOMAIN t.customer
    BY <1>2, <1>3 DEF RequestOK, HeldOK
  <1>5. q.stage = "look" /\ q.locked /\ q.rows = new
    BY <1>2 DEF Request
  <1>6. \A v \in Workers : request'[v] = IF v = w THEN q ELSE request[v]
    BY <1>1 DEF IInv, TypeOK
  <1> HIDE DEF q, t, item
  <1> SUFFICES ASSUME NEW s \in Sellers, NEW e \in Emails PROVE Created(s, e)'
    BY DEF CInv
  <1>7. Created(s, e) /\ AddsOne(r, db, s, e)
    BY DEF CInv, Created
  <1> HIDE DEF r, new
  <1>8. IF r.held = 0 /\ r.seller = s /\ item.email = e
        THEN Own(new, s, e) \subseteq Own(t, s, e) \cup {Len(t.customer) + 1}
             /\ Own(t, s, e) \subseteq Own(new, s, e)
        ELSE Own(new, s, e) = Own(t, s, e)
    <2>1. Len(t.message) < MaxMessages /\ (r.held = 0 => Len(t.customer) < MaxCustomers)
      BY <1>1
    <2> HIDE <1>1
    <2>2. QED
      BY <1>2, <1>3, <1>4, <2>1, InsertOwn DEF new
  <1>9. /\ Cardinality(Own(t, s, e)) \in Nat /\ IsFiniteSet(Own(t, s, e))
        /\ Cardinality(Own(db, s, e)) \in Nat
    BY <1>3, OwnFinite
  <1>10. Own(t, s, e) = IF r.locked THEN Own(r.rows, s, e) ELSE Own(db, s, e)
    BY <1>3 DEF Sight
  <1>11. CASE r.held = 0 /\ r.seller = s /\ item.email = e
    <2>1. AboutToCreate(r, s, e)
      BY <1>2, <1>11 DEF AboutToCreate
    <2>2. Cardinality(Own(new, s, e)) <= Cardinality(Own(t, s, e)) + 1
      <3>1. /\ IsFiniteSet(Own(t, s, e) \cup {Len(t.customer) + 1})
            /\ Cardinality(Own(t, s, e) \cup {Len(t.customer) + 1})
                 <= Cardinality(Own(t, s, e)) + 1
        BY <1>9, OneMore
      <3>2. /\ Cardinality(Own(new, s, e))
                 <= Cardinality(Own(t, s, e) \cup {Len(t.customer) + 1})
            /\ IsFiniteSet(Own(new, s, e))
        BY <1>8, <1>11, <3>1, FS_Subset
      <3>3. /\ Cardinality(Own(new, s, e)) \in Nat
            /\ Cardinality(Own(t, s, e) \cup {Len(t.customer) + 1}) \in Nat
        BY <3>1, <3>2, FS_CardinalityType
      <3>4. QED
        BY <1>9, <3>1, <3>2, <3>3
    <2>3. AddsOne(q, db, s, e)
      <3>1. ~AboutToCreate(q, s, e)
        BY <1>5 DEF AboutToCreate
      <3>2. Own(db, s, e) \subseteq Own(new, s, e)
        BY <1>7, <1>8, <1>10, <1>11 DEF AddsOne
      <3>3. r.locked => Cardinality(Own(t, s, e)) = 0
        BY <1>7, <1>10, <2>1, FS_EmptySet DEF AddsOne
      <3>4. Cardinality(Own(new, s, e)) <= Cardinality(Own(db, s, e)) + 1
        <4>1. CASE r.locked
          <5>1. Cardinality(Own(new, s, e)) <= 1 /\ Cardinality(Own(new, s, e)) \in Nat
            <6>1. new \in Tables
              BY <1>1, <1>2, <1>3, <1>4, InsertShape DEF new
            <6>2. QED
              BY <2>2, <3>3, <4>1, <6>1, OwnFinite
          <5>2. QED
            BY <1>9, <5>1
        <4>2. CASE ~r.locked
          <5>1. Own(t, s, e) = Own(db, s, e)
            BY <1>10, <4>2
          <5>2. QED
            BY <2>2, <5>1
        <4>3. QED
          BY <4>1, <4>2
      <3>5. QED
        BY <1>5, <3>1, <3>2, <3>4 DEF AddsOne
    <2>4. \A v \in Workers :
            /\ AddsOne(request'[v], db, s, e)
            /\ Creates(request'[v], db, s, e) => Creates(request[v], db, s, e)
      <3> TAKE v \in Workers
      <3>1. CASE v = w
        BY <1>6, <2>1, <2>3, <3>1 DEF Creates, r
      <3>2. CASE v # w
        BY <1>6, <1>7, <3>2 DEF Created
      <3>3. QED
        BY <3>1, <3>2
    <2>5. QED
      BY <1>1, <1>7, <2>4, CreatedKept
  <1>12. CASE ~(r.held = 0 /\ r.seller = s /\ item.email = e)
    <2>1. Own(new, s, e) = Own(t, s, e)
      BY <1>8, <1>12
    <2>2. ~AboutToCreate(q, s, e)
      BY <1>5 DEF AboutToCreate
    <2>3. AddsOne(q, db, s, e)
      BY <1>5, <1>7, <1>9, <1>10, <2>1, <2>2 DEF AddsOne
    <2>4. Creates(q, db, s, e) => Creates(r, db, s, e)
      BY <1>5, <1>10, <2>1, <2>2 DEF Creates
    <2>5. \A v \in Workers :
            /\ AddsOne(request'[v], db, s, e)
            /\ Creates(request'[v], db, s, e) => Creates(request[v], db, s, e)
      <3> TAKE v \in Workers
      <3>1. CASE v = w
        BY <1>6, <2>3, <2>4, <3>1 DEF r
      <3>2. CASE v # w
        BY <1>6, <1>7, <3>2 DEF Created
      <3>3. QED
        BY <3>1, <3>2
    <2>6. QED
      BY <1>1, <1>7, <2>5, CreatedKept
  <1>13. QED
    BY <1>11, <1>12

LEMMA CommitCreated ==
  ASSUME IsFiniteSet(Workers), IInv, CInv, NEW w \in Workers, Commit(w)
  PROVE  CInv'
  <1> DEFINE r == request[w]
             t == Rows(w)
  <1>1. /\ db' = t /\ request' = [request EXCEPT ![w] = Idle] /\ LockFree(w)
        /\ t = IF r.locked THEN r.rows ELSE db
    BY DEF Commit, Rows
  <1>2. \A v \in Workers : request'[v] = IF v = w THEN Idle ELSE request[v]
    BY <1>1 DEF IInv, TypeOK
  <1>3. t \in Tables /\ db \in Tables
    BY SightOK
  <1> HIDE DEF t
  <1> SUFFICES ASSUME NEW s \in Sellers, NEW e \in Emails PROVE Created(s, e)'
    BY DEF CInv
  <1> DEFINE new == {v \in Workers : Creates(request'[v], t, s, e)}
  <1>4. Created(s, e) /\ AddsOne(r, db, s, e)
    BY DEF CInv, Created
  <1>5. Creating(s, e)' = new /\ Own(db, s, e)' = Own(t, s, e)
    BY <1>1 DEF Creating, Own, WithEmail
  <1>6. \A v \in Workers \ {w} : ~request'[v].locked /\ request'[v] = request[v]
    BY <1>1, <1>2 DEF LockFree
  <1>7. ~request'[w].locked /\ request'[w].op = "idle"
    BY <1>2, IdleOK
  <1>8. \A v \in Workers : AddsOne(request'[v], t, s, e)
    BY <1>6, <1>7 DEF AddsOne
  <1>9. new \subseteq Creating(s, e) \ {w}
    BY <1>6, <1>7 DEF Creating, Creates, AboutToCreate
  <1> HIDE DEF new
  <1>10. /\ Cardinality(Own(t, s, e)) \in Nat /\ Cardinality(Own(db, s, e)) \in Nat
         /\ Creating(s, e) \in SUBSET Workers /\ Cardinality(Creating(s, e)) \in Nat
         /\ IsFiniteSet(Creating(s, e)) /\ Cardinality(Workers) \in Nat
    <2>1. Creating(s, e) \in SUBSET Workers
      BY DEF Creating
    <2>2. QED
      BY <1>3, <2>1, OwnFinite, CreatingFinite
  <1>11. Cardinality(new) \in Nat /\ Cardinality(new) <= Cardinality(Creating(s, e))
    BY <1>9, <1>10, CreatingFinite
  <1>12. CASE Own(t, s, e) = Own(db, s, e)
    <2>1. Cardinality(Own(t, s, e)) + Cardinality(new) <= Cardinality(Workers)
      BY <1>4, <1>10, <1>11, <1>12 DEF Created
    <2>2. QED
      BY <1>1, <1>5, <1>8, <2>1 DEF Created
  <1>13. CASE Own(t, s, e) # Own(db, s, e)
    <2>1. r.locked /\ t = r.rows
      BY <1>1, <1>13
    <2>2. w \in Creating(s, e)
      BY <1>13, <2>1 DEF Creating, Creates
    <2>3. /\ Cardinality(Creating(s, e) \ {w}) = Cardinality(Creating(s, e)) - 1
          /\ IsFiniteSet(Creating(s, e) \ {w})
      BY <1>10, <2>2, FS_RemoveElement
    <2>4. Cardinality(new) <= Cardinality(Creating(s, e)) - 1
      BY <1>9, <2>3, FS_Subset
    <2>5. Cardinality(Own(t, s, e)) <= Cardinality(Own(db, s, e)) + 1
      BY <1>4, <2>1 DEF AddsOne
    <2>6. Cardinality(Own(t, s, e)) + Cardinality(new) <= Cardinality(Workers)
      BY <1>4, <1>10, <1>11, <2>4, <2>5 DEF Created
    <2>7. QED
      BY <1>1, <1>5, <1>8, <2>6 DEF Created
  <1>14. QED
    BY <1>12, <1>13

\* A person's request makes no customer one that nobody typed.
LEMMA FewerOwn ==
  ASSUME IsFiniteSet(Workers), IInv, CInv, db' \in Tables,
         \A v \in Workers : ~request[v].locked /\ request'[v] \in {request[v], Idle},
         NEW k, Len(db'.customer) = Len(db.customer),
         \A j \in DOMAIN db.customer : j # k => db'.customer[j] = db.customer[j],
         \/ db'.customer[k].typed
         \/ db'.customer[k].email = None
         \/ /\ db'.customer[k].email = db.customer[k].email
            /\ db'.customer[k].seller = db.customer[k].seller /\ ~db.customer[k].typed
  PROVE  CInv'
  <1> SUFFICES ASSUME NEW s \in Sellers, NEW e \in Emails PROVE Created(s, e)'
    BY DEF CInv
  <1>1. Created(s, e) /\ db \in Tables
    BY DEF CInv, IInv, TypeOK
  <1> DEFINE own == Own(db', s, e)
             new == {v \in Workers : Creates(request'[v], db', s, e)}
  <1>2. Own(db, s, e)' = own /\ Creating(s, e)' = new
    BY DEF Own, WithEmail, Creating
  <1>3. DOMAIN db'.customer = DOMAIN db.customer
    BY <1>1, TablesFields
  <1>4. own \subseteq Own(db, s, e)
    <2> SUFFICES ASSUME NEW j \in own PROVE j \in Own(db, s, e)
      OBVIOUS
    <2>1. /\ j \in DOMAIN db.customer /\ e # None /\ db'.customer[j].seller = s
          /\ db'.customer[j].email = e /\ ~db'.customer[j].typed
      BY <1>3 DEF Own, WithEmail
    <2>2. CASE j # k
      BY <2>1, <2>2 DEF Own, WithEmail
    <2>3. CASE j = k
      BY <2>1, <2>3 DEF Own, WithEmail
    <2>4. QED
      BY <2>2, <2>3
  <1>5. new \subseteq Creating(s, e)
    BY IdleOK DEF Creating, Creates, AboutToCreate
  <1>6. \A v \in Workers : AddsOne(request'[v], db', s, e)
    BY IdleOK DEF AddsOne
  <1> HIDE DEF own, new
  <1>7. Cardinality(own) <= Cardinality(Own(db, s, e)) /\ Cardinality(own) \in Nat
    <2>1. IsFiniteSet(Own(db, s, e))
      BY <1>1, OwnFinite
    <2>2. QED
      BY <1>4, <2>1, FS_Subset, FS_CardinalityType
  <1>8. /\ Cardinality(Own(db, s, e)) \in Nat /\ Cardinality(Creating(s, e)) \in Nat
        /\ Cardinality(Workers) \in Nat
        /\ Cardinality(new) \in Nat /\ Cardinality(new) <= Cardinality(Creating(s, e))
    <2>1. Creating(s, e) \in SUBSET Workers
      BY DEF Creating
    <2>2. QED
      BY <1>1, <1>5, <2>1, OwnFinite, CreatingFinite
  <1>9. Cardinality(own) + Cardinality(new) <= Cardinality(Workers)
    BY <1>1, <1>7, <1>8 DEF Created
  <1>10. QED
    BY <1>2, <1>6, <1>9 DEF Created

\* A request that begins on a customer is not about to create one.
LEMMA BeginOnCreated ==
  ASSUME IsFiniteSet(Workers), IInv, CInv, NEW w \in Workers, NEW op \in {"edit", "erase"},
         NEW k \in DOMAIN db.customer, BeginOn(w, op, k)
  PROVE  CInv'
  <1>1. k # 0
    BY TablesFields DEF IInv, TypeOK
  <1>2. /\ db' = db /\ \A v \in Workers \ {w} : request'[v] = request[v]
        /\ request'[w].held = k /\ ~request'[w].locked
    BY BeginOnShape
  <1>3. QED
    BY <1>1, <1>2, CalmStep

LEMMA EditCreated ==
  ASSUME IsFiniteSet(Workers), IInv, CInv, NEW w \in Workers, EditCustomer(w)
  PROVE  CInv'
  <1> DEFINE r == request[w]
             k == r.held
  <1>1. PICK data \in Profiles : db' = [db EXCEPT !.customer[k] = Edit(@, r, data)]
    BY DEF EditCustomer
  <1>2. r.op = "edit" /\ LockFree(w) /\ request' = [request EXCEPT ![w] = Idle]
    BY DEF EditCustomer
  <1> DEFINE row == Edit(db.customer[k], r, data)
  <1>3. db' = [db EXCEPT !.customer[k] = row]
    BY <1>1
  <1>4. /\ r \in Request /\ k \in DOMAIN db.customer /\ db.customer[k] \in Customer
        /\ db.customer[k].erased => k \in caught
        /\ \A v \in Workers : ~request[v].locked
    BY <1>2, PersonAtEnd
  <1>5. /\ row \in Customer /\ row.seller = db.customer[k].seller
        /\ row.erased = db.customer[k].erased
        /\ row.typed \/ (row.email = db.customer[k].email /\ ~db.customer[k].typed)
    BY <1>4, EditRow
  <1>6. \A v \in Workers : request'[v] \in {request[v], Idle}
    BY <1>2 DEF IInv, TypeOK
  <1> HIDE DEF row, r
  <1>7. /\ TablesOK(db', caught) /\ Len(db'.customer) = Len(db.customer)
        /\ \A j \in DOMAIN db.customer : j # k => db'.customer[j] = db.customer[j]
        /\ db'.customer[k] = row
    BY <1>3, <1>4, <1>5, EditOK DEF IInv
  <1>8. db' \in Tables
    BY <1>7 DEF TablesOK
  <1>9. QED
    BY <1>4, <1>5, <1>6, <1>7, <1>8, FewerOwn

LEMMA EraseCreated ==
  ASSUME IsFiniteSet(Workers), IInv, Erasures, CInv, NEW w \in Workers, EraseCustomer(w)
  PROVE  CInv'
  <1> DEFINE r == request[w]
             k == r.held
  <1>1. /\ r.op = "erase" /\ LockFree(w) /\ request' = [request EXCEPT ![w] = Idle]
        /\ db' = [customer |-> [db.customer EXCEPT ![k] = Forget(@, r)],
                  message |-> EraseMessages(db.message, r.messages)]
    BY DEF EraseCustomer
  <1>2. /\ r \in Request /\ k \in DOMAIN db.customer /\ db.customer[k] \in Customer
        /\ \A v \in Workers : ~request[v].locked
    BY <1>1, PersonAtEnd
  <1>3. k \notin caught => AsRead(r, db)
    BY <1>1 DEF Erasures, Unnoticed
  <1>4. \A v \in Workers : request'[v] \in {request[v], Idle}
    BY <1>1 DEF IInv, TypeOK
  <1> HIDE DEF r
  <1>5. /\ TablesOK(db', caught) /\ Len(db'.customer) = Len(db.customer)
        /\ \A j \in DOMAIN db.customer : j # k => db'.customer[j] = db.customer[j]
        /\ db'.customer[k] = Forget(db.customer[k], r)
    BY <1>1, <1>2, <1>3, EraseOK DEF IInv
  <1>6. db' \in Tables
    BY <1>5 DEF TablesOK
  <1>7. \/ db'.customer[k].typed
        \/ db'.customer[k].email = None
        \/ /\ db'.customer[k].email = db.customer[k].email
           /\ db'.customer[k].seller = db.customer[k].seller /\ ~db.customer[k].typed
    BY <1>2, <1>5, ForgetRow DEF Customer
  <1>8. QED
    BY <1>2, <1>4, <1>5, <1>6, <1>7, FewerOwn

LEMMA StepCreated ==
  ASSUME IsFiniteSet(Workers), IInv, Erasures, CInv, [Next]_vars
  PROVE  CInv'
  <1>1. CASE UNCHANGED vars
    BY <1>1, CalmStep DEF vars
  <1>2. ASSUME NEW s \in Sellers, Arrive(s) PROVE CInv'
    BY <1>2, CalmStep DEF Arrive
  <1>3. ASSUME NEW w \in Workers, NEW s \in Sellers, BeginPost(w, s) PROVE CInv'
    BY <1>3, BeginPostCreated
  <1>4. ASSUME NEW w \in Workers, NEW s \in Sellers,
               BeginPoll(w, "worker", s) \/ BeginPoll(w, "manual", s)
        PROVE  CInv'
    BY <1>4, BeginPollCreated
  <1>5. ASSUME NEW w \in Workers, Run(w) PROVE CInv'
    <2>1. CASE Conflict(w)
      BY <2>1, IdleSteps DEF Conflict
    <2>2. CASE ~Conflict(w)
      BY <1>5, <2>2, ChokeCreated, LookCreated, StoreCreated, AcknowledgeCreated, CommitCreated,
         EditCreated, EraseCreated DEF Run
    <2>3. QED
      BY <2>1, <2>2
  <1>6. ASSUME NEW w \in Workers, BeginEdit(w) \/ BeginErase(w) \/ Rollback(w) PROVE CInv'
    <2>1. CASE Rollback(w)
      BY <2>1, IdleSteps DEF Rollback
    <2>2. CASE BeginEdit(w)
      BY <2>2, BeginOnCreated DEF BeginEdit
    <2>3. CASE BeginErase(w)
      BY <2>3, BeginOnCreated DEF BeginErase
    <2>4. QED
      BY <1>6, <2>1, <2>2, <2>3
  <1>7. CASE Restart
    <2>1. {w \in Workers : request[w].op # "idle"} \in SUBSET Workers
      OBVIOUS
    <2>2. QED
      BY <1>7, <2>1, IdleSteps DEF Restart
  <1>8. QED
    BY <1>1, <1>2, <1>3, <1>4, <1>5, <1>6, <1>7 DEF Next

LEMMA InitCreated ==
  ASSUME IsFiniteSet(Workers), Init
  PROVE  CInv
  <1>1. db = NoRows /\ \A w \in Workers : request[w] = Idle
    BY DEF Init
  <1> SUFFICES ASSUME NEW s \in Sellers, NEW e \in Emails PROVE Created(s, e)
    BY DEF CInv
  <1>2. Own(db, s, e) = {} /\ Creating(s, e) = {}
    BY <1>1, EmptyRows, IdleOK DEF Own, WithEmail, Creating, Creates, AboutToCreate
  <1>3. Cardinality({}) = 0 /\ Cardinality(Workers) \in Nat
    BY FS_EmptySet, FS_CardinalityType
  <1>4. Cardinality(Own(db, s, e)) + Cardinality(Creating(s, e)) <= Cardinality(Workers)
    BY <1>2, <1>3
  <1>5. \A w \in Workers : AddsOne(request[w], db, s, e)
    BY <1>1, IdleOK DEF AddsOne
  <1>6. QED
    BY <1>4, <1>5 DEF Created

\* A seller has at most as many customers for one email, other than typed ones, as
\* there are requests at the same time: only first messages that are handled at once
\* can each create one (services/channel_gateway.py, find_or_create_customer).
THEOREM NoMoreThanAtOnce ==
  ASSUME IsFiniteSet(Workers)
  PROVE  Spec => []CustomersBounded
  <1>1. Init => IInv /\ Erasures /\ CInv
    BY InitInv, InitErasures, InitCreated
  <1>2. IInv /\ Erasures /\ CInv /\ [Next]_vars => IInv' /\ Erasures' /\ CInv'
    BY StepInv, StepErasures, StepCreated
  <1>3. IInv /\ CInv => CustomersBounded
    <2> SUFFICES ASSUME IInv, CInv, NEW s \in Sellers, NEW e \in Emails
                 PROVE  Cardinality(Own(db, s, e)) <= Cardinality(Workers)
      BY DEF CustomersBounded, Own
    <2>1. Creating(s, e) \in SUBSET Workers /\ db \in Tables
      BY DEF Creating, IInv, TypeOK
    <2>2. /\ Cardinality(Creating(s, e)) \in Nat /\ Cardinality(Workers) \in Nat
          /\ Cardinality(Own(db, s, e)) \in Nat
      BY <2>1, CreatingFinite, OwnFinite
    <2>3. QED
      BY <2>2 DEF CInv, Created
  <1>4. QED
    BY <1>1, <1>2, <1>3, PTL DEF Spec
================================================================================
