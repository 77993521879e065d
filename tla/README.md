# Closer (成交官): a TLA+ model

Closer is a workbench for export sellers: inquiries come in over a site form, email
and WhatsApp, an agent drafts answers and quotations, and a guardrail decides what
may leave on its own and what a human has to approve first. The program is a FastAPI
application over SQLAlchemy; `src/app` is what this directory models. The browser
client, the scripts and the demo data are left out.

## The system

| Part | State it keeps | Operations | Hard because |
|---|---|---|---|
| Approvals and guardrails (`services/approvals`, `approval_execution`, `outbound`, `notifications`) | `approval`, `notification`, the takeover flag, the inquiry's status | send or park, hand off, approve, reject, edit | decisions race, the send precedes the commit |
| Quotations (`services/quotations`, `agent_tools`) | `quotation`: status, floor flag, PI flag | draft, edit, send, request a PI | the floor flag guards a send that happens later |
| Conversations, inquiries (`routers/`) | takeover flag, status | take over, release, write, patch | a flag read by handlers already in progress |
| Delivery and retries (`services/channel_delivery`, `delivery_attempts`) | `delivery_attempt` | deliver, retry one, retry those due | at-least-once sends, unknown outcomes |
| Channel receipts (`services/channel_receipts`) | the same row | apply a receipt | repeated, late and reordered receipts |
| Follow-ups (`services/followups`) | `followup_task` | create, run those due | several tasks in one transaction |
| Scheduled worker (`services/workers`, `ops_scheduler`) | none of its own | follow-ups, retries, rate refresh, email polls | one transaction for four jobs with side effects |
| Erasure (`services/data_privacy`) | every row of a customer | erase | handlers that still hold the old rows |
| Inbound (`services/channel_gateway`, `email_polling`) | customer, inquiry, conversation, message | ingest, poll, acknowledge | mail acknowledged before the commit, deduplication |
| Pricing and rates (`catalog_domain/pricing`, `quote_engine`, `exchange_rates`) | rule, versions, cached rates | quote, edit, refresh, confirm | confirming rates nobody saw, expiry, floors |
| Agent graph (`agent/`) | the graph's state | eight steps | every path must send, park or hand off |

What makes each part correct: an approved action leaves once and a rejected one
never; nothing goes out into a takeover, or below the floor, without a human; a
failed send is tried again and a successful one is not; a follow-up stops when it
should and does not exceed its attempts; an erased customer hears nothing more; no
inbound message is lost or ingested twice, and none lands with another seller's
customer; a quotation uses confirmed, current rates, and its floor flag agrees with its
prices; the agent ends every run with one answer, one parked approval, or an error its
caller sees.

They interact through the database only. The agent's tools and the HTTP handlers
call `outbound.send_message` or park an `approval`; `approvals.approve_approval`
calls the executor; every send goes through `channel_delivery.deliver_message`, which
writes the `delivery_attempt` that the worker and the receipts work on; the worker's
follow-ups call `send_message` again; erasure rewrites all of these rows.

### How a request runs

`database.py` opens one session per request, on SQLite, with autoflush off. A handler's
SELECTs take no lock and fill the session's identity map; its first flush takes the
database's one write lock, which it holds to the end; a flush emits an UPDATE for the
columns whose value differs from the one *read*. So the modules share one shape: a
`Begin...` step copies the rows a handler reads into its request record, later steps
decide on that copy, and the last one writes with `Put(seen, new, current)`, which
leaves the column alone when the handler did not change it. What a handler sends
before its commit stays sent when the commit fails. Several requests run in the thread
pool (`Workers`); a run with one worker asks what the handlers guarantee by
themselves, a run with more asks what is left of it when they interleave.

## The modules

**`Approvals`** is the guarded path out. `takeover`, `inquiry`, `approval`, `notice`
and `quotation` are the columns of the rows of those tables that some guard reads;
`request[w]` is what worker w read and is about to do. `BeginSendMessage` and
`SendAutomatically`/`ParkMessage` are `send_message` on either side of its guardrail
(the text rules are one Boolean, `risky`); `RequestHandoff`, `GeneratePi` and
`ParkQuotation` are the other ways into the queue; `BeginDecision` is
`_require_pending_approval`; the four `Approve...` actions are the executor's
branches, each with everything `approve_approval` writes; `CrashAfterEffect` is the
send whose transaction is lost. The history variables `performed` and `lost` count the
performances of each approval and those no row knows of, `sent` the text each approval
sent last; `wire` is the message, if any, that the last step handed to a channel, with
the state it met. A text is as written, or as a person has edited it (`Edits`). An
approval has up to two, the `suggestion` that the queue shows and the `content` of its
payload, which `PatchApproval` edits apart from each other; a quotation has its own,
which `PatchQuotation` edits. `Outgoing` is what is sent of them.

**`ApprovalContract`** is what a parked action is promised: decided once; performed by
its approval, or by an attempt whose outcome was lost; never after a decision.
`Approvals` implements it when requests run one at a time.

**`Delivery`** follows one row per message. `SendFirst` is the channel client called
for a new message, `SendRetry` the same for a failed one, each with the four outcomes a
client has: nothing left (`local`), refused (`failed`), accepted (`sent`), and accepted
with an exception on the way back (`unsure`), which the code takes for a failure.
`Reports` is what the provider may say of the copies it accepted, in any order and more
than once; `Received` overwrites the row as `_apply_receipt` does. `HoldsLock` says
which requests hold the write lock between two of their steps: a new message is flushed
before it is sent, a retry only after. `EraseRow` is `_erase_delivery_attempts`.

**`Followups`** has the tasks of one customer's conversations. `BeginRun` reads the due
tasks, `Load` the conversation of the next one (the object an earlier task has read, or
the row once more, as the identity map is weak), and then the task is halted, refused,
parked or sent. `Refuse` is the
`ValueError` of `send_message` for a message of white space: nobody catches it, and
`Undo` rolls the whole run back. `Ingest` opens a conversation per inbound message, as
`ingest_inbound_message` does, so `replied`, which records that the customer has
written, is no column of the task. A task is `late` when the conversation's own first
message carries a timestamp ahead of the server's clock: the one case in which
`_customer_replied_after` finds anything.

**`Inbound`** brings messages in. A poll fetches the first `Limit` unseen mails
(`FirstUnseen`, the one batch of `Uids` that leaves no older mail out), then for each
mail looks up the message and the sender (`Look`) and writes the rows (`Store`), flags
the mails on the server one by one (`Acknowledge`), and `Commit`s when its caller does;
a webhook or a form is a batch of one. `Choke` is a mail that cannot be decoded: the
worker commits what it has, a poll by hand is rolled back, and neither acknowledges
anything. `Rows` is what a transaction sees: the committed tables, or its own once it
has written and holds the lock. `Conflict` is the unique constraint on
`channel_message_id`. `MessageKey` is the provider's id, or a hash that changes with
every start of the server (`Restart`). `Marks` says whether fetching a mail may already
flag it, as `RFC822` does on servers that do not treat it as a peek. The edit and the
erasure of a customer decide who is recognised next; each reads (`BeginEdit`,
`BeginErase`) and writes at its end (`EditCustomer`, `EraseCustomer`), the erasure just
the messages it had read. That an erasure reads all its rows in one step is a
simplification; the code reads table after table. The history variables `dropped` (mail
flagged by a poll that did not store it) and `caught` (a customer whose erasure met
another request working on that customer) name the exceptions the properties allow.

**`QuoteEngine`** is the arithmetic of one quotation: amounts in cents, rates as
fractions, `Decimal` rounding half up. `MarginPercent` is the rounding of the margin to
two decimals. **`Quoting`** extends it with the rules and their template column, the one
JSON object that holds logistics, static rates, the provider's settings and the cache:
a refresh and a confirmation copy it, change the cache and write it back whole; a PUT
replaces it by what the client sends (`Submissions`: what the page showed, with other
values, or a template without the keys a client does not know). `Reached` is
the first `RefreshLimit` rules by key, among which a run of the worker looks for those
that are due. `Resolve` is
`resolve_exchange_rate`: an unusable cache refuses the conversion, even beside a static
table that has the rate. `CalcQuote` drafts. `vouched` records the terms a person has
confirmed.

**`Matching`** is `product_matching` on sets of words, its scores scaled to integers.
**`AgentGraph`** extends it with the graph: one action per node, plus `Commit` of the
caller. `Decisions` is one decision for the rules (`RuleBased`) and any decision for a
remote provider; `Apply` is `apply_policy_decision`. The run's `read` is the takeover
flag as its session loaded the conversation: at the first node if the inquiry had to be
looked up, and then or again (`Load`; the identity map is weak) before the flush of
`SendMessage` or `RequestHandoff`, with a gap between the two. `Lock` is the first
flush; from the drafted quotation to the commit the run holds the database's lock,
through its requests to the provider. `Other` stands for every other writer:
`SetTakeover` and `Shelve` (a product off the catalog, or on it again) are those that
matter to a run. `held` records that a person has held the conversation since the run
began. **`AgentContract`** is what a run promises: one answer, or one parked approval,
never an answer after a person was asked for.

The `MC...` modules extend these for TLC. `ApprovalsProofs`, `ApprovalsDuplicates`,
`ApprovalsSerial`, `DeliveryProofs`, `FollowupsProofs`, `InboundProofs`, `QuotingProofs`
and `AgentGraphProofs` hold the proofs.

## What TLC checks

| Run | Instance | Shows |
|---|---|---|
| `Approvals_serial` | 1 worker, 1 conversation, 1 approval, 2 quotations, 2 lost sends, 1 other text | `PerformedOnce`, `SpeakerMatchesTakeover`, `FloorQuotationNeedsApproval`, `RecordMatchesSent`, `PiNeedsApproval`, `ContractKept` |
| `Approvals_concurrent` | 3 workers, 1 approval | `PendingMeansUnexecuted`, `DuplicatesBounded`, `NeverReopened` |
| `Delivery_serial` | 1 worker, an email and a WhatsApp attempt, 2 copies, 3 attempts, 2 receipts, 1 rollback | `FailedIsScheduled`, `CopiesAreCounted`, `ResendNeedsBounce`, `ErasureStopsOutbound`, `ErasedStaysErased` |
| `Delivery_retried` | a handler and the scheduled worker, 1 attempt | `FailedIsRetried` |
| `Followups_serial` | 1 worker, 2 tasks, 2 conversations, 2 attempts, 1 rollback | `FollowupsBounded`, `NothingAfterTheEnd`, `FollowupEnds` |
| `Followups_concurrent` | 2 workers, 1 task of 3 attempts | `NeverResumed`, `FollowupEnds` |
| `Inbound_serial` | 1 worker, 2 sellers, 3 mails (one without an id, one malformed), a form, 1 lost request or restart | `SeenIsStored`, `CustomerIsOfSeller`, `CleanMailIsStored` |
| `Inbound_concurrent` | 2 workers, 2 mails, a form, 1 edit, erasures, 1 lost request or restart | `IngestedOnce`, `CustomersBounded`, `ErasedIsForgotten` |
| `Quoting` | 2 workers, 1 rule, 2 days, 2 versions | `RateWasConfirmed`, `FlagAgrees`, `ExpiredIsRefreshed` |
| `AgentGraph` | 1 run against all other writers, 2 inquiries, 1 conversation, 2 products, 3 profiles | `HeldIsNotAnswered`, `SentIsRecorded`, `PolicyKept`, `ContractKept`, `RunEnds` |

Every property has a mutant of a modelled definition that breaks it; the mutants stand
next to the definitions they change, marked as such.

Why the bounds are enough. One request at a time decides one approval, and rows of the
queue meet in the columns that `SetTakeover` and `PatchInquiry` write anyway; two
quotations let an edit of the payload name another one than was parked, and two lost
sends are a repeated loss; three workers let two approvals and a rejection of one row
overlap, which is every pair of decisions plus a bystander. Two copies are a send and a
resend, three attempts leave one to spare after the second, two channels differ in how a
receipt finds its row. Two tasks share a conversation or do not; two attempts are a
first and a last one. A batch of two puts a mail before a malformed one or behind it;
two sellers are what deduplication and recognition can confuse; a form with email and
phone is what finds a customer by the one when the other was edited away. One other text
is enough, as the code never compares texts. One rule is always among those a run of the
worker reaches (`RefreshLimit` is 1); what overlaps is what a rule has to survive, and
two rules under two workers are more than TLC can enumerate. Two days let a cache expire
and be replaced (`Ttl` is 1), with the server's date ahead of UTC; the prices are those
where a tier, or cost and margin, come out a cent on either side of the floor. One run
of the graph meets every write of others between its steps; two runs at a time exceed
what TLC can enumerate, and are covered by the proofs. The rows are independent of each
other apart from what they share by their keys. Each counter the code leaves unbounded
has its named bound: `MaxLost` and `MaxCrashes` (transactions lost), `MaxCopies`,
`MaxCount`, `MaxReceipts`, `MaxCustomers`, `MaxMessages`, `MaxEdits`, `MaxDay`,
`MaxVersion`, `MaxQuotes`. Deadlock is not checked in `Delivery`, `Followups` and
`Inbound`: once every bound is reached, or everything is erased, there is nothing left
to do.

### Where the code does not do what is said

Two runs are expected to find a violation of what a document or a test says.

* `Approvals_race`: a rejected action is said to stay unexecuted
  (`skills/approval-guardrails/SKILL.md:47`). A rejection that read the row before an
  approval committed overwrites its status: rejected, executed, and sent.
* `Followups_reply`: follow-ups are said to stop when the customer has replied
  (`tests/test_followups.py:90`). The reply is ingested into a conversation of its own.

### What the models make visible

Behaviour of the code that the properties have to make room for, and that a reader
should know; no run reports these.

* `send_message` reads the takeover before its flush: a takeover that commits in between
  does not stop that one message. Nor does an edit that commits between the reads of an
  approval and its send change what is sent. A retry likewise sends a payload it read
  before an erasure, and overlapping receipts can leave an attempt failed without a
  date.
* The queue shows the suggestion of an approval; what is sent is `payload.content`, or
  the text made of the quotation at that moment (`Outgoing`). After an edit of the
  suggestion alone, or of the quotation, they differ, though the client's button says
  that the suggestion is sent (`frontend/src/App.jsx:753`).
* A follow-up with a blank message makes every run of the worker fail.
* A mail that a poll flagged is lost if the transaction is (`dropped`): the flags are set
  before the caller's commit, and a poll by hand that fails half way through the flags
  rolls the rows back. A malformed mail keeps what arrives after it waiting.
* A message that two sellers receive is stored for one of them only: the search for the
  key is not limited to a seller.
* A webhook of WhatsApp that carries several messages stores the first.
* An erasure writes the rows it had read: a message that is committed in between stays,
  though `docs/IMPLEMENTATION_AUDIT.md:74` says that the messages are erased. A request
  that had found the customer before writes the addresses back (`caught` is both); a
  mail without an id is ingested again after a restart.
* A refresh writes the whole template as read and so undoes a PUT that came in between;
  a PUT with the page's template can bring an older cache back. A confirmation confirms
  whatever the row holds then, shown or not, expired or not. A refresh makes a rule
  whose static rates worked refuse conversions until somebody confirms.
* `run_due_pricing_rule_exchange_rate_refreshes` takes the first rules by id, due or not,
  up to its limit (20, at most 100). A rule behind them is never refreshed by the worker
  (`Reached`), though `docs/IMPLEMENTATION_AUDIT.md:111` has the worker refresh what is
  expired.
* The expiry is counted from the UTC date and compared with the server's date (`Skews`).
* A price a fraction below the floor is not flagged if both round to the same cent of
  the quotation's currency; `FlagAgrees` says how far it can be off.
* `calc_quote` does not look at the product's status: a product taken off the catalog
  after the match is quoted.
* A run of the graph whose inquiry is not its conversation's sends, and then raises.

### Fairness

`docs/PRODUCTION_RUNBOOK.md:34` has the scheduler called by cron, so a run that has
something to do is begun in the end (`WF` of `BeginRun` in `Followups`; `SF` of the
worker's `BeginPoll` and `BeginDueRefresh`, which a request by hand on the same worker
slot disables for a moment). Follow-ups and retries come before refreshes and polls in
the same request (`workers.py:43`), so that this also assumes that those before do not
raise every time: a blank follow-up does (above). The fairness of `BeginDueRefresh` is
given for each rule, but the action is possible only for the rules a run reaches, and a
rule that expired without being reached is not promised anything. A request is a thread
that runs to its end (`WF` of `Progress`, `Run`, `Finish` or `Fail`, and of the graph's
`Step`, whose waits for a provider and for the lock have timeouts); another writer
commits (`WF` of `OtherEnds`); and time passes (`WF` of `Tick`). `ExpiredIsRefreshed`
also needs a provider that does not fail a rule for ever (`SF` of `FinishRefresh`, rule
by rule). Nothing is assumed of sellers or customers. Rollbacks and receipts are
bounded, and that bound is an assumption, and a real one: a receipt of failure that came
again every five minutes would postpone the retry for ever.

## What is proved

The theorems hold for every value of the constants: any number of conversations,
approvals, tasks, attempts, mails, quotations, products and runs, any bound on lost
transactions. Every safety property that a run checks is also a theorem. Those checked
in a run of one worker are proved for one worker (`Workers = {w}`), as nothing else is
claimed of them: with more workers several of them are false ("What the models make
visible" says how). The others are proved for any set of workers (where something is
counted, any finite one).

`ApprovalsProofs` proves `TypeCorrect`, that every step keeps `TypeOK` together with
`RequestOK` (a handler holds the keys of the rows it works on). One lemma per group of
actions; the rest builds on it.

`ApprovalsDuplicates` is about any number of concurrent requests. `RowSteps` shows that
a step changes at most one approval and in one of five ways: a request reads it, it is
raised, approved, rejected, or performed by a transaction that is lost. From that, the
inductive invariant `FlightInv`: an undecided row has been performed only by lost
transactions, and for a decided one the performances, plus the approvals still in
flight, stay within the number of workers plus the losses. The strengthening is needed
because `DuplicatesBounded` alone says nothing of the approvals that have read the row
and not yet written. `PendingIsUnexecuted`, `DuplicatesAreBounded` and `DecisionsAreFinal`
follow.

`ApprovalsSerial` assumes one worker. `ReadsStayTrue` is the invariant that makes the
difference: what the handler in progress read is still so. With it,
`PerformedExactlyOnce`; `WireMatchesState`, who may speak and what may leave past the
queue, of which `FloorThroughQueue` is a part; `RecordedTextIsSent`, for which the row
must still be as the approval read it, and must not be edited once decided;
`PiAfterApproval`, which needs that an executed approval keeps its type and its
quotation (`ExecutedStay`) and that only `ApprovePi` makes a PI (`NoNewPi`); and
`QueueKeepsContract`, the refinement of `ApprovalContract`: each step of the queue is a
step of the contract or invisible to it.

`DeliveryProofs` has `TypeCorrect` for any number of handlers and scheduled runs; the rest
is about one. None of its properties is inductive: they speak of rows and of what the
channel has, while a copy leaves before its row is written. `SInv` bridges that. `Work`
says what the request makes of each row, in one of five ways (`Spare`, `InDelivery`,
`InRetry`, `InReceipt`, `InErase`), and that nobody but the clock has touched a row since
it was read; `PendingOK`, that a copy not yet committed is the last of its message;
`CountedOK`, that every copy accepted is in the count, pending, or lost; `AckedOK`, that
a copy recorded as sent is the last one until a failure is reported for it; `ErasedOK`,
that an erased customer has no address in any row. `FailedHasDate`, `CopiesCounted`,
`ResentAfterBounce`, `NothingAfterErasure` and `ErasedForGood` follow.

`FollowupsProofs` proves for any number of overlapping runs, with `IInv`, that no run
makes an ended task active (`StaysEnded`): a run writes a status only where it changed
the one it had read (`Edit`), and it changes it into an ending. The locks are part of
it, since whoever has sent holds one (`OneLock`). For one worker `SInv` adds that what
was sent is what the row and the run in progress count (`Counted`), and that the rows
(`AsRead`) and the conversations in the session (`SeenOK`) are still as they were
read: from that, `SentWithinLimit` and `SentOnlyWhenFree`.

`InboundProofs` is about any number of requests in progress. Its `IInv` says of the
tables, the committed ones and those a transaction has written, that they are in order
(`Referred`, `Keyed`, `Unique`, `Forgotten`), and of every request that it holds a
customer of its seller, that what it wrote continues the tables as they are now
(`RowsOK`; true because of `OneLock`), and that each mail it is done with has a row
(`DoneOK`). `Erasures` says of an erasure in progress that met no other request
(`Unnoticed`) that the row and the messages it has read are still all there is of the
customer (`AsRead`), and that every other request leaves the customer alone
(`LeavesAlone`); `Forgotten` needs it when the erasure writes. `OfTheSeller`,
`StoredOnce`, `StaysForgotten` and `NoMailForgotten` are read off the two.
`NoMoreThanAtOnce` needs a count: `Created` adds to the customers a seller has for an
email the requests that have found none, or have created one and not committed it. A
request joins the latter only while there is none of the former, and leaves for each one
it creates, so that the sum never exceeds the number of workers.

`AgentGraphProofs` is about any number of concurrent runs of the graph, where TLC has
one. `StepMoves` shows that every step of a run is one of seven (`Thinks`, `Sends`,
`Parks`, `Leaves`, `Records`, `Commits`, `Fails`), whatever the provider decides. The
inductive invariant `IInv` says of each run where it stands (`Placed`: what it has done
is what its node says, and it holds the lock as long as an answer on the wire is not
recorded) and what it has read (`Watched`: a takeover as loaded is no later than the one
a person made). The three properties say nothing of a run's node, of the lock or of
what was read, so none of them is inductive. `NoAnswerIntoTakeover` and
`AnswersAreRecorded` follow, and `RunsKeepContract`, the refinement of `AgentContract`,
in which each of the seven moves is a step of the contract or invisible to it.
`PolicyIsKept` is for any catalog and any traits of an inquiry. `PolicyKept` looks at
runs that have answered; `Obeys` says at each node what the earlier ones must have left
behind for it: the matches are those of this inquiry, the product quoted is the first
of them, a quotation below the floor is on its way to a person, an inquiry of grade C
does not get past the rules. It rests on two facts about data: the first match fits
best, whatever the order of equal ones (`FirstIsBest`), and spam or a competitor
without a known company is of grade C (`SpamIsC`).

`QuotingProofs` is about any number of rules, quotations and overlapping requests, and
any rate a source may send. `RatesAreConfirmed` is `RateWasConfirmed`. By itself that
is not inductive: a quotation takes its rate from a rule, and a rule gets its template
from a request that may have read it long before. So `ConfirmedInv` says of every rule,
and of every template on its way into one, that a cache that claims to be confirmed has
been confirmed with the rates it holds; `Shape` adds the types of what carries a cache.
A refresh writes a cache that is not confirmed, and what a confirmation or an update
writes is either what the rule holds or what a person has sent (`RefreshEnds`,
`WriteEnds`). `FloorToTheCent` is arithmetic: from the bounds of rounding half up
(`HalfUpBounds`, `Rounded`), the floor flag of a quotation is right when raised and, when
not, overlooks at most a cent of its currency. `TypeCorrect` adds the amounts (`Sized`):
a price is a number because the eligible tiers, which are finitely many, have a last one
(`LastTier`, by induction on strict subsets). `FlagsAgree` is `FlagAgrees`: `Flagged`
says that `calc_quote` hands `HitsFloor` the unit price of the quotation's own row, and
`FloorToTheCent` does the rest.

The assumptions are the modules' own: the bounds are numbers, at least one where zero
makes no sense (the attempts, a batch, the matches, a version); the null key is no row,
no template and no run; `Other` is no run and `Missing` no inquiry; the keys of rules
are numbers; no text is called "none"; an edit of a customer gives columns of the
profile; a conversation belongs to an inquiry; there is a seller, and no two mails have
one name; the products, the words of a text and the tiers of a form are finite sets;
signals are no words. Where something is counted, the set of workers is finite.

Only model-checked: the liveness properties (`FailedIsRetried`, `FollowupEnds`,
`CleanMailIsStored`, `ExpiredIsRefreshed`, `RunEnds`), which the prover does not handle.

## What is not modelled, and the plan

Abstracted: the text rules of the guardrail (one Boolean), how a signal is read off a
text, formatting, audit log entries (never read back), a WhatsApp answer without an id,
the order in which a run takes its due rows, the inquiry and conversation rows of an
inbound message (stored with it), third currencies, quotations of several items, the
words a remote provider is sent and how its answer is parsed. Not modelled: reports and
queries (readiness, alerts, dashboard, exports), knowledge search and storage, sealing of
credentials, authentication, imports and settings (single-row edits that no guard
of the modelled code reads while they change), demo data, the browser client. The edit
of a quotation's items, and the erasure of approvals, notifications and quotations, are
the operations of modelled parts that are missing.

Next, in this order:

1. `Erasure` of approvals and quotations against decisions in progress, in `Approvals`.
2. The scheduled worker's four jobs in one transaction, composing `Followups`,
   `Delivery`, `Quoting` and `Inbound`.
3. Theorems: a bound by the number of overlapping requests on what `CopiesAreCounted` and
   `FollowupsBounded` bound for one, and the halves of the liveness properties that are
   safety: that a poll which acknowledged a mail cannot fetch it again.
