------------------------------ MODULE Followups ------------------------------
(***************************************************************************)
(* Follow-up tasks (services/followups): messages the scheduled worker     *)
(* sends to a customer who does not answer, until the conversation is      *)
(* closed, taken over or answered, or the attempts are used up; with what  *)
(* decides their fate: inbound messages (channel_gateway), takeover and    *)
(* release (routers/conversations) and erasure (data_privacy).  All the    *)
(* conversations are those of one customer.                                *)
(*                                                                         *)
(* A run reads the due tasks (Begin), then for each of them the            *)
(* conversation (Load) and decides; every task is committed at the end, in *)
(* one transaction.  The first flush takes the write lock and keeps it;    *)
(* an UPDATE carries the columns whose value differs from the one read.    *)
(***************************************************************************)
EXTENDS Naturals, FiniteSets

CONSTANTS
  Conversations,  \* primary keys of the conversation table (bounds the rows)
  Tasks,          \* primary keys of the followup_task table (bounds the rows)
  Texts,          \* what the follow-up message is, a subset of TextKinds
  MaxAttempts,    \* schedule.max_attempts
  Workers,        \* requests that may be in progress at the same time
  MaxCrashes,     \* bound: requests whose transaction does not commit
  None            \* no task, no conversation

\* plain: no guardrail reason; risky: parked by send_message; blank: only white
\* space, which create_followup accepts and send_message refuses.
TextKinds == {"plain", "risky", "blank"}

ASSUME TextsAssumption == Texts \subseteq TextKinds
ASSUME MaxAttemptsAssumption == MaxAttempts \in Nat \ {0}
ASSUME MaxCrashesAssumption == MaxCrashes \in Nat
ASSUME NoneAssumption == None \notin Tasks \cup Conversations

VARIABLES
  conv,     \* the table conversation
  task,     \* the table followup_task
  request,  \* what each worker is doing
  sent,     \* history: follow-ups sent for a task, those rolled back not counted
  replied,  \* history: the customer wrote since the task last sent (or began)
  crashes   \* history: number of requests that were rolled back

vars == <<conv, task, request, sent, replied, crashes>>

------------------------------------------------------------------------------
Conversation == [status: {"absent", "open", "erased"}, takeover: BOOLEAN]
NoConversation == [status |-> "absent", takeover |-> FALSE]

\* late: the conversation's only customer message bears a channel timestamp that
\* is not before the creation of the task (a sender's clock ahead of the server's).
Task == [conv: Conversations \cup {None}, text: TextKinds, late: BOOLEAN,
         status: {"absent", "active", "paused", "stopped", "completed"},
         attempt: 0..MaxAttempts, due: {"none", "later", "now"}]
NoTask == [conv |-> None, text |-> "plain", late |-> FALSE, status |-> "absent",
           attempt |-> 0, due |-> "none"]

\* seen: the conversations in the identity map; at: the task being run.
Request == [op: {"idle", "run", "erase"}, todo: SUBSET Tasks, at: Tasks \cup {None},
            read: [Tasks -> Task], new: [Tasks -> Task],
            seen: [Conversations -> Conversation \cup {NoConversation}],
            parked: SUBSET Conversations, delivered: SUBSET Tasks, locked: BOOLEAN]
Idle == [op |-> "idle", todo |-> {}, at |-> None, read |-> [t \in Tasks |-> NoTask],
         new |-> [t \in Tasks |-> NoTask],
         seen |-> [c \in Conversations |-> NoConversation],
         parked |-> {}, delivered |-> {}, locked |-> FALSE]

TypeOK ==
  /\ conv \in [Conversations -> Conversation]
  /\ task \in [Tasks -> Task]
  /\ request \in [Workers -> Request]
  /\ sent \in [Tasks -> Nat]
  /\ replied \in [Tasks -> BOOLEAN]
  /\ crashes \in 0..MaxCrashes

Init ==
  /\ conv = [c \in Conversations |-> NoConversation]
  /\ task = [t \in Tasks |-> NoTask]
  /\ request = [w \in Workers |-> Idle]
  /\ sent = [t \in Tasks |-> 0]
  /\ replied = [t \in Tasks |-> FALSE]
  /\ crashes = 0

------------------------------------------------------------------------------
(* Transactions *)

\* Mutant of Put: an UPDATE carries every column of the row.
PutAlways(seen, new, current) == new

Put(seen, new, current) == IF new = seen THEN current ELSE new

PutTask(seen, new, current) ==
  [current EXCEPT !.status = Put(seen.status, new.status, @),
                  !.attempt = Put(seen.attempt, new.attempt, @),
                  !.due = Put(seen.due, new.due, @)]

LockFree(w) == \A v \in Workers \ {w} : ~request[v].locked

Quiet(w) == request[w].op = "idle" /\ LockFree(w)

\* Both rows of a parked message and those of the erased conversations.
Commit(w) ==
  LET r == request[w] IN
  /\ r.op # "idle" /\ r.todo = {} /\ r.at = None
  /\ LockFree(w)
  /\ task' = [t \in Tasks |-> PutTask(r.read[t], r.new[t], task[t])]
  /\ conv' = [c \in Conversations |->
                IF r.op = "erase" /\ r.seen[c] # NoConversation
                THEN [status |-> "erased", takeover |-> Put(r.seen[c].takeover, FALSE,
                                                            conv[c].takeover)]
                ELSE IF c \in r.parked THEN [conv[c] EXCEPT !.takeover = TRUE] ELSE conv[c]]
  /\ request' = [request EXCEPT ![w] = Idle]
  /\ UNCHANGED <<sent, replied, crashes>>

\* The session is closed without a commit: what was sent is not remembered.
Undo(w) ==
  /\ request' = [request EXCEPT ![w] = Idle]
  /\ sent' = [t \in Tasks |-> IF t \in request[w].delivered THEN sent[t] - 1 ELSE sent[t]]
  /\ UNCHANGED <<conv, task, replied>>

\* "database is locked" or a dropped process.
Rollback(w) ==
  /\ request[w].op # "idle"
  /\ crashes < MaxCrashes
  /\ crashes' = crashes + 1
  /\ Undo(w)

------------------------------------------------------------------------------
(* One run of the worker: run_due_followups *)

DueTasks == {t \in Tasks : task[t].status = "active" /\ task[t].due = "now"}

BeginRun(w) ==
  /\ request[w].op = "idle"
  /\ DueTasks # {}
  /\ request' = [request EXCEPT ![w] =
       [Idle EXCEPT !.op = "run", !.todo = DueTasks, !.read = task, !.new = task]]
  /\ UNCHANGED <<conv, task, sent, replied, crashes>>

\* The row as the transaction reads it, with what it has itself written.
Row(r, c) == IF c \in r.parked THEN [conv[c] EXCEPT !.takeover = TRUE] ELSE conv[c]

\* session.get: the object that an earlier task has read, while somebody holds it, or
\* the row once more (the identity map is weak).
Load(w) ==
  LET r == request[w] IN
  /\ r.op = "run" /\ r.at = None
  /\ \E t \in r.todo :
       LET c == task[t].conv IN
       \E read \in {Row(r, c), r.seen[c]} \ {NoConversation} :
         request' = [request EXCEPT ![w].at = t, ![w].todo = @ \ {t}, ![w].seen[c] = read]
  /\ UNCHANGED <<conv, task, sent, replied, crashes>>

\* The conversation of the task being run, as the session holds it.
Held(r) == r.seen[r.read[r.at].conv]

\* _customer_replied_after: a customer message of this conversation that is not
\* before the last activity of the task.
RepliedAfter(r) == r.read[r.at].late

\* Mutant of Blocked: the takeover of the conversation is not looked at.
BlockedIfClosed(r) ==
  IF Held(r).status # "open" \/ RepliedAfter(r) THEN "stopped" ELSE "no"

\* conversation_closed, human_takeover_active, customer_replied, in this order.
Blocked(r) ==
  IF Held(r).status # "open" THEN "stopped"
  ELSE IF Held(r).takeover THEN "paused"
  ELSE IF RepliedAfter(r) THEN "stopped"
  ELSE "no"

\* The task keeps its attempts and its date.
Halt(w) ==
  LET r == request[w] IN
  /\ r.op = "run" /\ r.at # None
  /\ Blocked(r) # "no"
  /\ request' = [request EXCEPT ![w].at = None, ![w].new[r.at].status = Blocked(r)]
  /\ UNCHANGED <<conv, task, sent, replied, crashes>>

\* send_message raises ValueError, which nobody catches: the run is lost, with
\* what it did for the other tasks, and with the jobs that were to come after.
Refuse(w) ==
  LET r == request[w] IN
  /\ r.op = "run" /\ r.at # None
  /\ Blocked(r) = "no" /\ r.read[r.at].text = "blank"
  /\ Undo(w)
  /\ UNCHANGED crashes

\* send_message parks the text and puts the conversation under takeover.
Park(w) ==
  LET r == request[w]
      c == r.read[r.at].conv
  IN
  /\ r.op = "run" /\ r.at # None
  /\ Blocked(r) = "no" /\ r.read[r.at].text = "risky"
  /\ LockFree(w)
  /\ request' = [request EXCEPT ![w].at = None, ![w].locked = TRUE,
                                ![w].new[r.at].status = "paused",
                                ![w].seen[c].takeover = TRUE,
                                ![w].parked = @ \cup {c}]
  /\ UNCHANGED <<conv, task, sent, replied, crashes>>

\* Mutant of Advance: the task is completed one attempt too late.
AdvanceTooFar(row) ==
  IF row.attempt + 1 > MaxAttempts
  THEN [row EXCEPT !.attempt = @ + 1, !.status = "completed", !.due = "none"]
  ELSE [row EXCEPT !.attempt = @ + 1, !.due = "later"]

\* Mutant of Advance: a task that is not done yet gets no new date.
AdvanceUndated(row) ==
  IF row.attempt + 1 >= MaxAttempts
  THEN [row EXCEPT !.attempt = @ + 1, !.status = "completed", !.due = "none"]
  ELSE [row EXCEPT !.attempt = @ + 1, !.due = "none"]

\* The row after a follow-up was sent.
Advance(row) ==
  IF row.attempt + 1 >= MaxAttempts
  THEN [row EXCEPT !.attempt = @ + 1, !.status = "completed", !.due = "none"]
  ELSE [row EXCEPT !.attempt = @ + 1, !.due = "later"]

\* The message is flushed (the lock), delivered, and the task advanced.
Send(w) ==
  LET r == request[w] IN
  /\ r.op = "run" /\ r.at # None
  /\ Blocked(r) = "no" /\ r.read[r.at].text = "plain"
  /\ LockFree(w)
  /\ request' = [request EXCEPT ![w].at = None, ![w].locked = TRUE,
                                ![w].new[r.at] = Advance(@),
                                ![w].delivered = @ \cup {r.at}]
  /\ sent' = [sent EXCEPT ![r.at] = @ + 1]
  /\ replied' = [replied EXCEPT ![r.at] = FALSE]
  /\ UNCHANGED <<conv, task, crashes>>

------------------------------------------------------------------------------
(* Everybody else *)

\* ingest_inbound_message: whoever writes, an inquiry and a conversation of
\* their own are opened for the message.
Ingest(w) ==
  /\ Quiet(w)
  /\ \E c \in Conversations :
       /\ conv[c].status = "absent"
       /\ conv' = [conv EXCEPT ![c].status = "open"]
  /\ replied' = [t \in Tasks |-> task[t].status # "absent"]
  /\ UNCHANGED <<task, request, sent, crashes>>

Resolvable(c) == conv[c].status # "absent"

\* create_followup asks for the inquiry and a conversation, in whatever state.
CreateFollowup(w) ==
  /\ Quiet(w)
  /\ \E t \in Tasks, c \in Conversations, text \in Texts, late \in BOOLEAN :
       /\ task[t].status = "absent" /\ Resolvable(c)
       /\ task' = [task EXCEPT ![t] = [conv |-> c, text |-> text, late |-> late,
                                       status |-> "active", attempt |-> 0, due |-> "later"]]
  /\ UNCHANGED <<conv, request, sent, replied, crashes>>

SetTakeover(w) ==
  /\ Quiet(w)
  /\ \E c \in Conversations, on \in BOOLEAN :
       conv[c].status # "absent" /\ conv' = [conv EXCEPT ![c].takeover = on]
  /\ UNCHANGED <<task, request, sent, replied, crashes>>

EraseTask(row) == [row EXCEPT !.status = "stopped", !.attempt = 0, !.due = "none"]

\* Erasure reads the customer's conversations and tasks, and rewrites them.
BeginErase(w) ==
  /\ request[w].op = "idle"
  /\ \E c \in Conversations : conv[c].status = "open"
  /\ request' = [request EXCEPT ![w] =
       [Idle EXCEPT !.op = "erase", !.seen = conv, !.read = task,
                    !.new = [t \in Tasks |-> IF task[t].status = "absent" THEN NoTask
                                             ELSE EraseTask(task[t])]]]
  /\ UNCHANGED <<conv, task, sent, replied, crashes>>

\* An hour passes.
Tick(t) ==
  /\ task[t].due = "later"
  /\ task' = [task EXCEPT ![t].due = "now"]
  /\ UNCHANGED <<conv, request, sent, replied, crashes>>

------------------------------------------------------------------------------
Run(w) == Load(w) \/ Halt(w) \/ Refuse(w) \/ Park(w) \/ Send(w) \/ Commit(w)

Others(w) == Ingest(w) \/ CreateFollowup(w) \/ SetTakeover(w) \/ BeginErase(w)

Next ==
  \/ \E w \in Workers : BeginRun(w) \/ Run(w) \/ Rollback(w) \/ Others(w)
  \/ \E t \in Tasks : Tick(t)

Spec == Init /\ [][Next]_vars

\* The scheduler is called for ever, requests run to their end, time passes.
FairSpec ==
  /\ Spec
  /\ \A w \in Workers : WF_vars(BeginRun(w)) /\ WF_vars(Run(w))
  /\ \A t \in Tasks : WF_vars(Tick(t))

------------------------------------------------------------------------------
(* Properties of requests handled one at a time, lost transactions included *)

\* A customer gets at most max_attempts follow-ups of one task from runs that
\* committed, and a task that says it has n attempts behind it has sent them.
FollowupsBounded ==
  \A t \in Tasks :
    /\ sent[t] <= MaxAttempts
    /\ (\A w \in Workers : request[w].op = "idle") /\ task[t].status # "stopped"
         => sent[t] = task[t].attempt

\* skills/delivery-followup/SKILL.md:53: a follow-up only leaves into an open
\* conversation that is not under takeover, for a task that is still active.
NothingAfterTheEnd ==
  [][\A t \in Tasks : sent'[t] > sent[t] =>
       /\ task[t].status = "active"
       /\ conv[task[t].conv].status = "open"
       /\ ~conv[task[t].conv].takeover]_vars

\* docs/IMPLEMENTATION_AUDIT.md:43: a follow-up is paused, stopped or completed
\* in the end, if none is in the way that no run can get past.
FollowupEnds ==
  \A t \in Tasks :
    task[t].status = "active"
      ~> \/ task[t].status # "active"
         \/ \E u \in Tasks : task[u].status = "active" /\ task[u].text = "blank"

(* A property of any number of concurrent requests *)

\* A task that was paused, stopped or completed is not taken up again, however
\* old the row is that a slower run writes back.
NeverResumed ==
  [][\A t \in Tasks :
       task[t].status \in {"paused", "stopped", "completed"}
         => task'[t].status \in {"paused", "stopped", "completed"}]_vars

(* A claim of the repository that the code does not keep *)

\* tests/test_followups.py:90: follow-ups stop when the customer has replied.
ReplyStopsFollowups == [][\A t \in Tasks : sent'[t] > sent[t] => ~replied[t]]_vars
==============================================================================
