--------------------------- MODULE FollowupsProofs ---------------------------
(***************************************************************************)
(* Theorems about Followups: for any number of conversations, tasks and    *)
(* concurrent requests where nothing else is said, and for requests        *)
(* handled one at a time (Workers has one member) in the last part.        *)
(***************************************************************************)
EXTENDS Followups, TLAPS

Ended == {"paused", "stopped", "completed"}

\* A row of the table: absent rows are blank, an active task has attempts left.
RowOK(row) ==
  /\ row \in Task
  /\ row.status = "absent" => row = NoTask
  /\ row.status # "absent" => row.conv \in Conversations
  /\ row.status = "active" => row.attempt < MaxAttempts

\* What a request may do to a row it has read.
Edit(old, new) ==
  /\ new \in Task
  /\ old.status = "absent" => new = old
  /\ new.status # old.status => new.status \in Ended
  /\ new.attempt # old.attempt => new.attempt < MaxAttempts \/ new.status # old.status

\* A request that runs tasks: those still to come are as read, one that was sent is
\* one attempt further, and whoever has sent anything holds the lock.
RequestOK(w) ==
  LET r == request[w] IN
  /\ \A t \in Tasks : /\ RowOK(r.read[t]) /\ Edit(r.read[t], r.new[t])
                      /\ r.read[t].status # "absent" => task[t].status # "absent"
  /\ r.op # "run" => r.todo = {} /\ r.at = None /\ r.delivered = {}
  /\ \A t \in Tasks : t \in r.todo \/ t = r.at
       => r.read[t].status = "active" /\ r.new[t] = r.read[t] /\ t \notin r.delivered
  /\ r.op = "run" => \A t \in Tasks :
       r.new[t].attempt = r.read[t].attempt + (IF t \in r.delivered THEN 1 ELSE 0)
  /\ r.at \notin r.todo
  /\ r.delivered # {} => r.locked

\* The database has one write lock.
OneLock == \A v, w \in Workers : request[v].locked /\ request[w].locked => v = w

\* What has been sent and may still be undone has been counted.
SentOK == \A w \in Workers : \A t \in request[w].delivered : sent[t] > 0

IInv ==
  /\ TypeOK
  /\ \A t \in Tasks : RowOK(task[t])
  /\ \A w \in Workers : RequestOK(w)
  /\ OneLock
  /\ SentOK

------------------------------------------------------------------------------
(* Rows *)

LEMMA NoTaskOK == RowOK(NoTask) /\ NoTask \in Task
  BY MaxAttemptsAssumption, NoneAssumption DEF RowOK, NoTask, Task, TextKinds

LEMMA SameEdit ==
  ASSUME NEW row, RowOK(row)
  PROVE  Edit(row, row)
  BY DEF RowOK, Edit

\* Columns are written one by one, on top of whatever the row has become.
LEMMA PutTaskOK ==
  ASSUME NEW old, RowOK(old), NEW new, Edit(old, new), NEW row, RowOK(row),
         old.status # "absent" => row.status # "absent"
  PROVE  LET p == PutTask(old, new, row) IN
         /\ RowOK(p)
         /\ p.conv = row.conv
         /\ p.status = Put(old.status, new.status, row.status)
         /\ p.attempt = Put(old.attempt, new.attempt, row.attempt)
         /\ p.due = Put(old.due, new.due, row.due)
         /\ row.status # "absent" => p.status # "absent"
         /\ row.status \in Ended => p.status \in Ended
  <1> DEFINE p == PutTask(old, new, row)
  <1>1. old \in Task /\ new \in Task /\ row \in Task
    BY DEF RowOK, Edit
  <1>2. /\ p \in Task
        /\ p.conv = row.conv
        /\ p.status = Put(old.status, new.status, row.status)
        /\ p.attempt = Put(old.attempt, new.attempt, row.attempt)
        /\ p.due = Put(old.due, new.due, row.due)
    BY <1>1 DEF PutTask, Put, Task
  <1>3. new = old => p = row
    BY <1>1 DEF PutTask, Put, Task
  <1> HIDE DEF p
  <1>4. /\ RowOK(p)
        /\ row.status # "absent" => p.status # "absent"
        /\ row.status \in Ended => p.status \in Ended
    <2>1. CASE new = old
      BY <1>3, <2>1
    <2>2. CASE new # old /\ new.status = old.status
      <3>1. p.status = row.status /\ row.status # "absent" /\ row.conv \in Conversations
        BY <1>2, <2>2 DEF Put, Edit, RowOK
      <3>2. p.status = "active" => p.attempt < MaxAttempts
        BY <1>2, <2>2, <3>1 DEF Put, Edit, RowOK
      <3>3. QED
        BY <1>2, <3>1, <3>2 DEF RowOK
    <2>3. CASE new.status # old.status
      <3>1. p.status \in Ended /\ row.conv \in Conversations
        BY <1>2, <2>3 DEF Put, Edit, RowOK
      <3>2. p.status # "absent" /\ p.status # "active"
        BY <3>1 DEF Ended
      <3>3. QED
        BY <1>2, <3>1, <3>2 DEF RowOK
    <2>4. QED
      BY <2>1, <2>2, <2>3
  <1>5. QED
    BY <1>2, <1>4 DEF p

------------------------------------------------------------------------------
(* Steps *)

\* A request of somebody else does not notice, as long as no row disappears.
LEMMA OthersOK ==
  ASSUME NEW v \in Workers, RequestOK(v), request'[v] = request[v],
         \A t \in Tasks : task[t].status # "absent" => task'[t].status # "absent"
  PROVE  RequestOK(v)'
  BY DEF RequestOK

LEMMA IdleOK ==
  ASSUME NEW w \in Workers, request'[w] = Idle
  PROVE  RequestOK(w)' /\ Idle \in Request
  <1>1. Idle \in Request
    BY NoTaskOK DEF Idle, Request, Conversation, NoConversation
  <1>2. /\ Idle.read = [t \in Tasks |-> NoTask] /\ Idle.new = [t \in Tasks |-> NoTask]
        /\ Idle.op = "idle" /\ Idle.todo = {} /\ Idle.at = None /\ Idle.delivered = {}
    BY DEF Idle
  <1>3. QED
    BY <1>1, <1>2, NoTaskOK, SameEdit, NoneAssumption DEF RequestOK, NoTask

\* What is left to show of a step of one request.
LEMMA StepKeeps ==
  ASSUME IInv, NEW w \in Workers, NEW q \in Request,
         request' = [request EXCEPT ![w] = q], RequestOK(w)',
         q.locked => request[w].locked \/ LockFree(w),
         \A t \in Tasks : /\ RowOK(task'[t])
                          /\ task[t].status # "absent" => task'[t].status # "absent",
         task' \in [Tasks -> Task], conv' \in [Conversations -> Conversation],
         sent' \in [Tasks -> Nat], replied' \in [Tasks -> BOOLEAN], crashes' \in 0..MaxCrashes,
         \A t \in Tasks : sent'[t] >= sent[t] \/ t \in request[w].delivered,
         \A t \in q.delivered : sent'[t] > 0
  PROVE  IInv'
  <1>1. /\ request \in [Workers -> Request]
        /\ request'[w] = q /\ \A v \in Workers \ {w} : request'[v] = request[v]
    BY DEF IInv, TypeOK
  <1>2. TypeOK'
    BY DEF IInv, TypeOK
  <1>3. \A v \in Workers : RequestOK(v)'
    BY <1>1, OthersOK DEF IInv
  <1>4. OneLock'
    BY <1>1 DEF IInv, OneLock, LockFree
  <1>5. ASSUME NEW v \in Workers, NEW t \in request'[v].delivered
        PROVE  sent'[t] > 0
    <2>1. CASE v = w
      BY <1>1, <1>5, <2>1
    <2>2. CASE v # w
      <3>1. t \in request[v].delivered /\ request[v].locked /\ t \in Tasks
        BY <1>1, <1>5, <2>2 DEF IInv, RequestOK, Request
      <3>2. t \notin request[w].delivered
        BY <2>2, <3>1 DEF IInv, RequestOK, OneLock
      <3>3. sent[t] > 0 /\ sent[t] \in Nat /\ sent'[t] \in Nat
        BY <3>1 DEF IInv, SentOK, TypeOK
      <3>4. QED
        BY <3>1, <3>2, <3>3
    <2>3. QED
      BY <2>1, <2>2
  <1>6. QED
    BY <1>2, <1>3, <1>4, <1>5 DEF IInv, SentOK

\* A request that changes nothing but itself, and sends nothing.
LEMMA QuietKeeps ==
  ASSUME IInv, NEW w \in Workers, NEW q \in Request,
         request' = [request EXCEPT ![w] = q], RequestOK(w)',
         q.locked => request[w].locked \/ LockFree(w),
         q.delivered \subseteq request[w].delivered,
         UNCHANGED <<conv, task, sent, replied, crashes>>
  PROVE  IInv'
  <1>1. /\ conv \in [Conversations -> Conversation] /\ task \in [Tasks -> Task]
        /\ sent \in [Tasks -> Nat] /\ replied \in [Tasks -> BOOLEAN]
        /\ crashes \in 0..MaxCrashes /\ request[w].delivered \subseteq Tasks
        /\ \A t \in Tasks : RowOK(task[t])
    BY DEF IInv, TypeOK, Request
  <1>2. /\ conv' = conv /\ task' = task /\ sent' = sent /\ replied' = replied
        /\ crashes' = crashes
    OBVIOUS
  <1>3. \A t \in q.delivered : sent'[t] > 0
    BY <1>2 DEF IInv, SentOK
  <1>4. \A t \in Tasks : sent'[t] >= sent[t]
    BY <1>1, <1>2
  <1>5. \A t \in Tasks : /\ RowOK(task'[t])
                         /\ task[t].status # "absent" => task'[t].status # "absent"
    BY <1>1, <1>2
  <1>6. QED
    BY <1>1, <1>2, <1>3, <1>4, <1>5, StepKeeps

\* A session is closed, or a request fails: what it sent is forgotten.
LEMMA UndoKeeps ==
  ASSUME IInv, NEW w \in Workers, Undo(w), crashes' \in 0..MaxCrashes
  PROVE  IInv'
  <1> DEFINE d == request[w].delivered
  <1>1. request'[w] = Idle /\ request' = [request EXCEPT ![w] = Idle]
    BY DEF Undo, IInv, TypeOK
  <1>2. sent' = [t \in Tasks |-> IF t \in d THEN sent[t] - 1 ELSE sent[t]]
    BY DEF Undo
  <1>3. \A t \in Tasks : sent[t] \in Nat /\ (t \in d => sent[t] > 0)
    BY DEF IInv, SentOK, TypeOK
  <1> HIDE DEF d
  <1>4. /\ sent' \in [Tasks -> Nat]
        /\ \A t \in Tasks : sent'[t] >= sent[t] \/ t \in d
    BY <1>2, <1>3
  <1>5. RequestOK(w)' /\ Idle \in Request /\ ~Idle.locked /\ Idle.delivered = {}
    BY <1>1, IdleOK DEF Idle
  <1>6. UNCHANGED <<conv, task, replied>>
    BY DEF Undo
  <1>7. QED
    BY <1>1, <1>4, <1>5, <1>6, StepKeeps DEF IInv, TypeOK, d

LEMMA BeginRunKeeps ==
  ASSUME IInv, NEW w \in Workers, BeginRun(w)
  PROVE  IInv'
  <1> DEFINE q == [Idle EXCEPT !.op = "run", !.todo = DueTasks, !.read = task, !.new = task]
  <1>1. /\ q.op = "run" /\ q.todo = DueTasks /\ q.read = task /\ q.new = task
        /\ q.at = None /\ q.delivered = {} /\ ~q.locked
    BY DEF Idle
  <1>2. q \in Request
    BY IdleOK DEF Idle, Request, DueTasks, IInv, TypeOK, NoConversation, Conversation
  <1>3. request' = [request EXCEPT ![w] = q] /\ request'[w] = q
    BY DEF BeginRun, IInv, TypeOK
  <1>4. UNCHANGED <<conv, task, sent, replied, crashes>>
    BY DEF BeginRun
  <1> HIDE DEF q
  <1>5. RequestOK(w)'
    <2>1. \A t \in Tasks : RowOK(task[t]) /\ Edit(task[t], task[t]) /\ task[t].attempt \in Nat
      BY SameEdit DEF IInv, RowOK, Task
    <2>2. \A t \in DueTasks : task[t].status = "active"
      BY DEF DueTasks
    <2>3. None \notin Tasks
      BY NoneAssumption
    <2>4. None \notin DueTasks
      BY <2>3 DEF DueTasks
    <2>5. QED
      BY <1>1, <1>3, <1>4, <2>1, <2>2, <2>3, <2>4 DEF RequestOK
  <1>6. QED
    BY <1>1, <1>2, <1>3, <1>4, <1>5, QuietKeeps

\* The conversation is read into the session, or is there.
LEMMA LoadKeeps ==
  ASSUME IInv, NEW w \in Workers, Load(w)
  PROVE  IInv'
  <1> DEFINE r == request[w]
  <1>1. /\ r \in Request /\ RequestOK(w) /\ r.op = "run" /\ r.at = None
        /\ UNCHANGED <<conv, task, sent, replied, crashes>>
        /\ request \in [Workers -> Request] /\ conv \in [Conversations -> Conversation]
    BY DEF Load, IInv, TypeOK
  <1>2. PICK t \in r.todo :
          LET c == task[t].conv IN
          \E read \in {Row(r, c), r.seen[c]} \ {NoConversation} :
            request' = [request EXCEPT ![w].at = t, ![w].todo = @ \ {t}, ![w].seen[c] = read]
    BY DEF Load
  <1> DEFINE c == task[t].conv
  <1>11. PICK read \in {Row(r, c), r.seen[c]} :
           request' = [request EXCEPT ![w].at = t, ![w].todo = @ \ {t}, ![w].seen[c] = read]
    BY <1>2
  <1> DEFINE s == [r.seen EXCEPT ![c] = read]
             q == [r EXCEPT !.at = t, !.todo = @ \ {t}, !.seen = s]
  <1>3. t \in Tasks /\ t # None /\ r.todo \subseteq Tasks
    BY <1>1, <1>2, NoneAssumption DEF Request
  <1>4. c \in Conversations
    BY <1>1, <1>2, <1>3 DEF RequestOK, IInv, RowOK
  <1>5. s \in [Conversations -> Conversation \cup {NoConversation}]
    <2>1. read \in Conversation \cup {NoConversation}
      BY <1>1, <1>4, <1>11 DEF Request, Row, Conversation
    <2>2. QED
      BY <1>1, <1>4, <2>1 DEF Request
  <1>6. request' = [request EXCEPT ![w] = q]
    BY <1>1, <1>4, <1>11 DEF Request
  <1> HIDE DEF s, c
  <1>7. /\ q.op = r.op /\ q.todo = r.todo \ {t} /\ q.at = t /\ q.read = r.read /\ q.new = r.new
        /\ q.delivered = r.delivered /\ q.locked = r.locked
    BY <1>1 DEF Request
  <1>8. q \in Request
    BY <1>1, <1>3, <1>5 DEF Request
  <1> HIDE DEF q
  <1>9. RequestOK(w)'
    <2>1. request'[w] = q
      BY <1>1, <1>6
    <2>2. QED
      BY <1>1, <1>2, <1>3, <1>7, <2>1 DEF RequestOK
  <1>10. QED
    BY <1>1, <1>6, <1>7, <1>8, <1>9, QuietKeeps

\* What is to be shown of a request between two tasks of a run.
LEMMA BetweenTasksOK ==
  ASSUME NEW w \in Workers, NEW q, request'[w] = q, task' = task,
         q.op = "run", q.at = None, q.todo \subseteq Tasks, q.delivered # {} => q.locked,
         \A u \in Tasks :
           /\ RowOK(q.read[u]) /\ Edit(q.read[u], q.new[u])
           /\ q.read[u].status # "absent" => task[u].status # "absent"
           /\ q.new[u].attempt = q.read[u].attempt + (IF u \in q.delivered THEN 1 ELSE 0)
           /\ u \in q.todo => /\ q.read[u].status = "active" /\ q.new[u] = q.read[u]
                              /\ u \notin q.delivered
  PROVE  RequestOK(w)'
  <1>1. None \notin Tasks
    BY NoneAssumption
  <1>2. QED
    BY <1>1 DEF RequestOK

\* What Halt and Park have in common: the status of the task being run changes.
LEMMA EndedOK ==
  ASSUME IInv, NEW w \in Workers, request[w].op = "run", request[w].at # None,
         NEW status \in {"paused", "stopped"}, NEW q,
         q.op = "run", q.todo = request[w].todo, q.at = None, q.read = request[w].read,
         q.new = [request[w].new EXCEPT ![request[w].at].status = status],
         q.delivered = request[w].delivered, q.locked \in {request[w].locked, TRUE},
         request'[w] = q, task' = task
  PROVE  RequestOK(w)' /\ q.new \in [Tasks -> Task]
  <1> DEFINE r == request[w]
             t == r.at
  <1>1. /\ r \in Request /\ RequestOK(w) /\ t \in Tasks
        /\ r.new \in [Tasks -> Task]
    BY DEF IInv, TypeOK, Request
  <1>2. /\ r.read[t] \in Task /\ r.read[t].status = "active" /\ r.new[t] = r.read[t]
        /\ t \notin r.delivered /\ t \notin r.todo
    BY <1>1 DEF RequestOK, RowOK
  <1>3. /\ q.new[t] = [r.new[t] EXCEPT !.status = status]
        /\ \A u \in Tasks \ {t} : q.new[u] = r.new[u]
    BY <1>1
  <1>4. /\ q.new[t] \in Task /\ q.new[t].status = status /\ q.new[t].attempt = r.read[t].attempt
    BY <1>2, <1>3 DEF Task
  <1>5. Edit(r.read[t], q.new[t])
    BY <1>2, <1>4 DEF Edit, Ended
  <1>6. q.new \in [Tasks -> Task]
    BY <1>1, <1>4
  <1>7. ASSUME NEW u \in Tasks
        PROVE  /\ RowOK(r.read[u]) /\ Edit(r.read[u], q.new[u])
               /\ r.read[u].status # "absent" => task[u].status # "absent"
               /\ q.new[u].attempt = r.read[u].attempt + (IF u \in r.delivered THEN 1 ELSE 0)
               /\ u \in r.todo => /\ r.read[u].status = "active" /\ q.new[u] = r.read[u]
                                  /\ u \notin r.delivered
    <2>1. CASE u = t
      <3>1. r.read[t].attempt \in Nat
        BY <1>2 DEF Task
      <3>2. QED
        BY <1>1, <1>2, <1>4, <1>5, <2>1, <3>1 DEF RequestOK
    <2>2. CASE u # t
      BY <1>1, <1>3, <2>2 DEF RequestOK
    <2>3. QED
      BY <2>1, <2>2
  <1>8. /\ q.todo \subseteq Tasks
        /\ q.delivered # {} => q.locked
    BY <1>1 DEF Request, RequestOK
  <1>9. /\ q.todo = r.todo /\ q.read = r.read /\ q.delivered = r.delivered
        /\ q.op = "run" /\ q.at = None /\ request'[w] = q /\ task' = task
    OBVIOUS
  <1>10. RequestOK(w)'
    <2>1. \A u \in Tasks :
           /\ RowOK(q.read[u]) /\ Edit(q.read[u], q.new[u])
           /\ q.read[u].status # "absent" => task[u].status # "absent"
           /\ q.new[u].attempt = q.read[u].attempt + (IF u \in q.delivered THEN 1 ELSE 0)
           /\ u \in q.todo => /\ q.read[u].status = "active" /\ q.new[u] = q.read[u]
                              /\ u \notin q.delivered
      BY <1>7
    <2> HIDE DEF r, t
    <2>2. QED
      BY <1>8, <1>9, <2>1, BetweenTasksOK
  <1>11. QED
    BY <1>6, <1>10

LEMMA HaltKeeps ==
  ASSUME IInv, NEW w \in Workers, Halt(w)
  PROVE  IInv'
  <1> DEFINE r == request[w]
             status == Blocked(r)
             n == [r.new EXCEPT ![r.at].status = status]
             q == [r EXCEPT !.at = None, !.new = n]
  <1>1. /\ r \in Request /\ r.op = "run" /\ r.at # None /\ status \in {"paused", "stopped"}
        /\ UNCHANGED <<conv, task, sent, replied, crashes>>
        /\ request \in [Workers -> Request]
        /\ request' = [request EXCEPT ![w].at = None, ![w].new[r.at].status = status]
    BY DEF Halt, Blocked, IInv, TypeOK
  <1> HIDE DEF status
  <1>2. request' = [request EXCEPT ![w] = q] /\ request'[w] = q
    BY <1>1 DEF Request
  <1>3. /\ q.op = "run" /\ q.todo = r.todo /\ q.at = None /\ q.read = r.read /\ q.new = n
        /\ q.delivered = r.delivered /\ q.locked = r.locked
    BY <1>1 DEF Request
  <1>4. RequestOK(w)' /\ q.new \in [Tasks -> Task]
    BY <1>1, <1>2, <1>3, EndedOK
  <1>5. q \in Request
    BY <1>1, <1>3, <1>4 DEF Request
  <1>6. QED
    BY <1>1, <1>2, <1>3, <1>4, <1>5, QuietKeeps

LEMMA ParkKeeps ==
  ASSUME IInv, NEW w \in Workers, Park(w)
  PROVE  IInv'
  <1> DEFINE r == request[w]
             c == r.read[r.at].conv
             n == [r.new EXCEPT ![r.at].status = "paused"]
             s == [r.seen EXCEPT ![c].takeover = TRUE]
             q == [r EXCEPT !.at = None, !.locked = TRUE, !.new = n, !.seen = s,
                            !.parked = @ \cup {c}]
  <1>1. /\ r \in Request /\ r.op = "run" /\ r.at # None /\ LockFree(w)
        /\ UNCHANGED <<conv, task, sent, replied, crashes>>
        /\ request \in [Workers -> Request]
        /\ request' = [request EXCEPT ![w].at = None, ![w].locked = TRUE,
                                      ![w].new[r.at].status = "paused",
                                      ![w].seen[c].takeover = TRUE,
                                      ![w].parked = @ \cup {c}]
        /\ Blocked(r) = "no" /\ RequestOK(w)
    BY DEF Park, IInv, TypeOK
  <1>2. c \in Conversations
    BY <1>1 DEF RequestOK, RowOK, Request
  <1>3. r.seen[c] \in Conversation
    BY <1>1, <1>2 DEF Request, Blocked, Held, NoConversation
  <1>4. s \in [Conversations -> Conversation \cup {NoConversation}]
    <2>1. [r.seen[c] EXCEPT !.takeover = TRUE] \in Conversation
      BY <1>3 DEF Conversation
    <2>2. QED
      BY <1>1, <1>2, <2>1 DEF Request
  <1> HIDE DEF c
  <1>5. request' = [request EXCEPT ![w] = q] /\ request'[w] = q
    BY <1>1 DEF Request
  <1> HIDE DEF s
  <1>6. /\ q.op = "run" /\ q.todo = r.todo /\ q.at = None /\ q.read = r.read /\ q.new = n
        /\ q.delivered = r.delivered /\ q.locked = TRUE
    BY <1>1 DEF Request
  <1>7. RequestOK(w)' /\ q.new \in [Tasks -> Task]
    BY <1>1, <1>5, <1>6, EndedOK
  <1>8. q \in Request
    BY <1>1, <1>2, <1>4, <1>6, <1>7 DEF Request
  <1>9. QED
    BY <1>1, <1>5, <1>6, <1>7, <1>8, QuietKeeps

\* One attempt more, and no attempt left means completed.
LEMMA AdvanceOK ==
  ASSUME NEW row \in Task, RowOK(row), row.status = "active"
  PROVE  /\ Advance(row) \in Task /\ Edit(row, Advance(row))
         /\ Advance(row).attempt = row.attempt + 1
         /\ Advance(row).status \in {"active", "completed"}
         /\ Advance(row).status = "active" => row.attempt + 1 < MaxAttempts
  <1> DEFINE done == [row EXCEPT !.attempt = @ + 1, !.status = "completed", !.due = "none"]
             more == [row EXCEPT !.attempt = @ + 1, !.due = "later"]
  <1>1. row.attempt \in Nat /\ MaxAttempts \in Nat /\ row.attempt < MaxAttempts
    BY MaxAttemptsAssumption DEF RowOK, Task
  <1>2. /\ done \in Task /\ done.attempt = row.attempt + 1 /\ done.status = "completed"
        /\ more \in Task /\ more.attempt = row.attempt + 1 /\ more.status = "active"
    <2>1. row.attempt + 1 \in 0..MaxAttempts
      BY <1>1
    <2>2. done \in Task /\ done.attempt = row.attempt + 1 /\ done.status = "completed"
      BY <2>1 DEF Task
    <2>3. more \in Task /\ more.attempt = row.attempt + 1 /\ more.status = "active"
      BY <2>1 DEF Task
    <2>4. QED
      BY <2>2, <2>3
  <1>3. Advance(row) = IF row.attempt + 1 >= MaxAttempts THEN done ELSE more
    BY DEF Advance
  <1> HIDE DEF done, more
  <1>4. CASE row.attempt + 1 >= MaxAttempts
    BY <1>1, <1>2, <1>3, <1>4 DEF Edit, Ended
  <1>5. CASE row.attempt + 1 < MaxAttempts
    BY <1>1, <1>2, <1>3, <1>5 DEF Edit, Ended
  <1>6. QED
    BY <1>1, <1>4, <1>5

LEMMA SendKeeps ==
  ASSUME IInv, NEW w \in Workers, Send(w)
  PROVE  IInv'
  <1> DEFINE r == request[w]
             t == r.at
             n == [r.new EXCEPT ![t] = Advance(@)]
             q == [r EXCEPT !.at = None, !.locked = TRUE, !.new = n,
                            !.delivered = @ \cup {t}]
  <1>1. /\ r \in Request /\ r.op = "run" /\ t # None /\ t \in Tasks /\ LockFree(w)
        /\ UNCHANGED <<conv, task, crashes>>
        /\ request \in [Workers -> Request]
        /\ request' = [request EXCEPT ![w].at = None, ![w].locked = TRUE,
                                      ![w].new[r.at] = Advance(@),
                                      ![w].delivered = @ \cup {r.at}]
        /\ sent' = [sent EXCEPT ![t] = @ + 1] /\ sent \in [Tasks -> Nat]
        /\ replied' = [replied EXCEPT ![t] = FALSE] /\ replied \in [Tasks -> BOOLEAN]
        /\ RequestOK(w) /\ None \notin Tasks
    BY NoneAssumption DEF Send, IInv, TypeOK, Request
  <1>2. /\ RowOK(r.read[t]) /\ r.read[t] \in Task /\ r.read[t].status = "active"
        /\ r.new[t] = r.read[t] /\ t \notin r.delivered /\ t \notin r.todo
    BY <1>1 DEF RequestOK, RowOK
  <1>3. /\ n \in [Tasks -> Task] /\ n[t] = Advance(r.read[t])
        /\ \A u \in Tasks \ {t} : n[u] = r.new[u]
    BY <1>1, <1>2, AdvanceOK DEF Request
  <1>4. request' = [request EXCEPT ![w] = q] /\ request'[w] = q
    BY <1>1 DEF Request
  <1> HIDE DEF n
  <1>5. /\ q.op = "run" /\ q.todo = r.todo /\ q.at = None /\ q.read = r.read /\ q.new = n
        /\ q.delivered = r.delivered \cup {t} /\ q.locked = TRUE
    BY <1>1 DEF Request
  <1>6. q \in Request
    BY <1>1, <1>3, <1>5 DEF Request
  <1> HIDE DEF q
  <1>7. ASSUME NEW u \in Tasks
        PROVE  /\ RowOK(r.read[u]) /\ Edit(r.read[u], n[u])
               /\ r.read[u].status # "absent" => task[u].status # "absent"
               /\ n[u].attempt = r.read[u].attempt
                                   + (IF u \in r.delivered \cup {t} THEN 1 ELSE 0)
               /\ u \in r.todo => /\ r.read[u].status = "active" /\ n[u] = r.read[u]
                                  /\ u \notin r.delivered \cup {t}
    <2>1. CASE u = t
      BY <1>1, <1>2, <1>3, <2>1, AdvanceOK DEF RequestOK
    <2>2. CASE u # t
      BY <1>1, <1>3, <2>2 DEF RequestOK
    <2>3. QED
      BY <2>1, <2>2
  <1>8. r.todo \subseteq Tasks /\ r.delivered \subseteq Tasks
    BY <1>1 DEF Request
  <1>9. RequestOK(w)'
    <2>1. /\ q.todo \subseteq Tasks /\ task' = task
          /\ q.delivered # {} => q.locked
      BY <1>1, <1>5, <1>8
    <2>2. QED
      BY <1>4, <1>5, <1>7, <2>1, BetweenTasksOK
  <1>10. /\ sent' \in [Tasks -> Nat] /\ \A u \in Tasks : sent'[u] >= sent[u]
         /\ sent'[t] > 0
    BY <1>1
  <1>11. \A u \in q.delivered : sent'[u] > 0
    <2>1. \A u \in r.delivered : sent[u] > 0 /\ sent[u] \in Nat /\ sent'[u] \in Nat
      BY <1>1, <1>8, <1>10 DEF IInv, SentOK
    <2>2. QED
      BY <1>5, <1>8, <1>10, <2>1
  <1>12. replied' \in [Tasks -> BOOLEAN] /\ conv' \in [Conversations -> Conversation]
         /\ task' \in [Tasks -> Task] /\ crashes' \in 0..MaxCrashes
    BY <1>1 DEF IInv, TypeOK
  <1>13. \A u \in Tasks : /\ RowOK(task'[u])
                          /\ task[u].status # "absent" => task'[u].status # "absent"
    BY <1>1 DEF IInv
  <1>14. QED
    BY <1>1, <1>4, <1>6, <1>9, <1>10, <1>11, <1>12, <1>13, StepKeeps

\* The rows that a commit writes, for every task.
LEMMA CommitRows ==
  ASSUME IInv, NEW w \in Workers, Commit(w), NEW t \in Tasks
  PROVE  /\ RowOK(task'[t]) /\ task'[t] \in Task
         /\ task'[t].conv = task[t].conv
         /\ task'[t].status = Put(request[w].read[t].status, request[w].new[t].status,
                                  task[t].status)
         /\ task'[t].attempt = Put(request[w].read[t].attempt, request[w].new[t].attempt,
                                   task[t].attempt)
         /\ task'[t].due = Put(request[w].read[t].due, request[w].new[t].due, task[t].due)
         /\ task[t].status # "absent" => task'[t].status # "absent"
         /\ task[t].status \in Ended => task'[t].status \in Ended
  <1> DEFINE old == request[w].read[t]
             new == request[w].new[t]
  <1>1. task'[t] = PutTask(old, new, task[t])
    BY DEF Commit
  <1>2. /\ RowOK(old) /\ Edit(old, new) /\ RowOK(task[t])
        /\ old.status # "absent" => task[t].status # "absent"
    BY DEF IInv, RequestOK
  <1> HIDE DEF old, new
  <1>3. LET p == PutTask(old, new, task[t]) IN
        /\ RowOK(p)
        /\ p.conv = task[t].conv
        /\ p.status = Put(old.status, new.status, task[t].status)
        /\ p.attempt = Put(old.attempt, new.attempt, task[t].attempt)
        /\ p.due = Put(old.due, new.due, task[t].due)
        /\ task[t].status # "absent" => p.status # "absent"
        /\ task[t].status \in Ended => p.status \in Ended
    BY <1>2, PutTaskOK
  <1>4. QED
    BY <1>1, <1>3 DEF RowOK, old, new

LEMMA CommitKeeps ==
  ASSUME IInv, NEW w \in Workers, Commit(w)
  PROVE  IInv'
  <1> DEFINE r == request[w]
  <1>1. /\ request' = [request EXCEPT ![w] = Idle] /\ request'[w] = Idle
        /\ UNCHANGED <<sent, replied, crashes>> /\ DOMAIN task' = Tasks
        /\ task' = [t \in Tasks |-> task'[t]]
    BY DEF Commit, IInv, TypeOK
  <1>2. task' \in [Tasks -> Task]
    BY <1>1, CommitRows
  <1>3. conv' \in [Conversations -> Conversation]
    <2>1. conv' = [c \in Conversations |->
                IF r.op = "erase" /\ r.seen[c] # NoConversation
                THEN [status |-> "erased", takeover |-> Put(r.seen[c].takeover, FALSE,
                                                            conv[c].takeover)]
                ELSE IF c \in r.parked THEN [conv[c] EXCEPT !.takeover = TRUE] ELSE conv[c]]
      BY DEF Commit
    <2>2. conv \in [Conversations -> Conversation]
      BY DEF IInv, TypeOK
    <2>3. ASSUME NEW c \in Conversations
          PROVE  /\ [conv[c] EXCEPT !.takeover = TRUE] \in Conversation
                 /\ [status |-> "erased", takeover |-> Put(r.seen[c].takeover, FALSE,
                                                           conv[c].takeover)] \in Conversation
      BY <2>2 DEF Conversation, Put
    <2>4. QED
      BY <2>1, <2>2, <2>3
  <1>4. RequestOK(w)' /\ Idle \in Request /\ ~Idle.locked /\ Idle.delivered = {}
    BY <1>1, IdleOK DEF Idle
  <1>5. /\ sent' \in [Tasks -> Nat] /\ \A t \in Tasks : sent'[t] >= sent[t]
        /\ replied' \in [Tasks -> BOOLEAN] /\ crashes' \in 0..MaxCrashes
    BY <1>1 DEF IInv, TypeOK
  <1>6. QED
    BY <1>1, <1>2, <1>3, <1>4, <1>5, CommitRows, StepKeeps

\* A step that leaves every request as it is, and every row in its place.
LEMMA TableStepKeeps ==
  ASSUME IInv, request' = request, sent' = sent, crashes' = crashes,
         task' \in [Tasks -> Task], conv' \in [Conversations -> Conversation],
         replied' \in [Tasks -> BOOLEAN],
         \A t \in Tasks : /\ RowOK(task'[t])
                          /\ task[t].status # "absent" => task'[t].status # "absent"
  PROVE  IInv'
  <1>1. \A v \in Workers : RequestOK(v)'
    BY OthersOK DEF IInv
  <1>2. TypeOK'
    BY DEF IInv, TypeOK
  <1>3. QED
    BY <1>1, <1>2 DEF IInv, OneLock, SentOK

LEMMA IngestKeeps ==
  ASSUME IInv, NEW w \in Workers, Ingest(w)
  PROVE  IInv'
  <1>1. /\ conv \in [Conversations -> Conversation] /\ task \in [Tasks -> Task]
        /\ \A t \in Tasks : RowOK(task[t])
    BY DEF IInv, TypeOK
  <1>2. PICK c \in Conversations : conv' = [conv EXCEPT ![c].status = "open"]
    BY DEF Ingest
  <1>3. [conv[c] EXCEPT !.status = "open"] \in Conversation
    BY <1>1 DEF Conversation
  <1>4. conv' \in [Conversations -> Conversation]
    BY <1>1, <1>2, <1>3
  <1>5. /\ replied' \in [Tasks -> BOOLEAN]
        /\ UNCHANGED <<task, request, sent, crashes>>
    BY DEF Ingest
  <1>6. QED
    BY <1>1, <1>4, <1>5, TableStepKeeps

LEMMA CreateKeeps ==
  ASSUME IInv, NEW w \in Workers, CreateFollowup(w)
  PROVE  IInv'
  <1>1. PICK t \in Tasks, c \in Conversations, text \in Texts, late \in BOOLEAN :
          /\ task[t].status = "absent"
          /\ task' = [task EXCEPT ![t] = [conv |-> c, text |-> text, late |-> late,
                                          status |-> "active", attempt |-> 0, due |-> "later"]]
    BY DEF CreateFollowup
  <1>2. /\ UNCHANGED <<conv, request, sent, replied, crashes>>
        /\ task \in [Tasks -> Task] /\ conv \in [Conversations -> Conversation]
        /\ replied \in [Tasks -> BOOLEAN] /\ \A u \in Tasks : RowOK(task[u])
    BY DEF CreateFollowup, IInv, TypeOK
  <1> DEFINE row == [conv |-> c, text |-> text, late |-> late,
                     status |-> "active", attempt |-> 0, due |-> "later"]
  <1>3. row \in Task /\ RowOK(row) /\ row.status # "absent"
    BY TextsAssumption, MaxAttemptsAssumption DEF Task, RowOK
  <1> HIDE DEF row
  <1>4. task' = [task EXCEPT ![t] = row]
    BY <1>1 DEF row
  <1>5. QED
    BY <1>2, <1>3, <1>4, TableStepKeeps

LEMMA SetTakeoverKeeps ==
  ASSUME IInv, NEW w \in Workers, SetTakeover(w)
  PROVE  IInv'
  <1>1. PICK c \in Conversations, on \in BOOLEAN : conv' = [conv EXCEPT ![c].takeover = on]
    BY DEF SetTakeover
  <1>2. /\ UNCHANGED <<task, request, sent, replied, crashes>>
        /\ task \in [Tasks -> Task] /\ conv \in [Conversations -> Conversation]
        /\ replied \in [Tasks -> BOOLEAN] /\ \A u \in Tasks : RowOK(task[u])
    BY DEF SetTakeover, IInv, TypeOK
  <1>3. [conv[c] EXCEPT !.takeover = on] \in Conversation
    BY <1>2 DEF Conversation
  <1>4. conv' \in [Conversations -> Conversation]
    BY <1>1, <1>2, <1>3
  <1>5. QED
    BY <1>2, <1>4, TableStepKeeps

LEMMA TickKeeps ==
  ASSUME IInv, NEW t \in Tasks, Tick(t)
  PROVE  IInv'
  <1>1. /\ task[t].due = "later" /\ task' = [task EXCEPT ![t].due = "now"]
        /\ UNCHANGED <<conv, request, sent, replied, crashes>>
        /\ task \in [Tasks -> Task] /\ conv \in [Conversations -> Conversation]
        /\ replied \in [Tasks -> BOOLEAN] /\ \A u \in Tasks : RowOK(task[u])
    BY DEF Tick, IInv, TypeOK
  <1> DEFINE row == [task[t] EXCEPT !.due = "now"]
  <1>2. task[t].status # "absent"
    BY <1>1 DEF RowOK, NoTask
  <1>3. /\ row \in Task /\ row.conv = task[t].conv /\ row.status = task[t].status
        /\ row.attempt = task[t].attempt
    BY <1>1 DEF Task
  <1> HIDE DEF row
  <1>4. RowOK(row) /\ row.status # "absent"
    BY <1>1, <1>2, <1>3 DEF RowOK
  <1>5. task' = [task EXCEPT ![t] = row]
    BY <1>1 DEF row
  <1>6. QED
    BY <1>1, <1>3, <1>4, <1>5, TableStepKeeps

LEMMA BeginEraseKeeps ==
  ASSUME IInv, NEW w \in Workers, BeginErase(w)
  PROVE  IInv'
  <1> DEFINE n == [t \in Tasks |-> IF task[t].status = "absent" THEN NoTask
                                   ELSE EraseTask(task[t])]
             q == [Idle EXCEPT !.op = "erase", !.seen = conv, !.read = task, !.new = n]
  <1>1. /\ UNCHANGED <<conv, task, sent, replied, crashes>>
        /\ request' = [request EXCEPT ![w] = q] /\ request'[w] = q
        /\ task \in [Tasks -> Task] /\ conv \in [Conversations -> Conversation]
        /\ \A u \in Tasks : RowOK(task[u])
    BY DEF BeginErase, IInv, TypeOK
  <1>2. ASSUME NEW t \in Tasks
        PROVE  n[t] \in Task /\ Edit(task[t], n[t])
    <2>1. CASE task[t].status = "absent"
      BY <1>1, <2>1, NoTaskOK DEF RowOK, Edit
    <2>2. CASE task[t].status # "absent"
      <3>1. n[t] = EraseTask(task[t]) /\ task[t] \in Task /\ 0 \in 0..MaxAttempts
            /\ 0 < MaxAttempts
        BY <1>1, <2>2, MaxAttemptsAssumption
      <3> HIDE DEF n
      <3>2. n[t] \in Task /\ n[t].status = "stopped" /\ n[t].attempt = 0
        BY <3>1 DEF EraseTask, Task
      <3>3. QED
        BY <2>2, <3>1, <3>2 DEF Edit, Ended
    <2>3. QED
      BY <2>1, <2>2
  <1>3. n \in [Tasks -> Task]
    BY <1>2
  <1> HIDE DEF n
  <1>4. /\ q.op = "erase" /\ q.todo = {} /\ q.at = None /\ q.read = task /\ q.new = n
        /\ q.delivered = {} /\ q.locked = FALSE
    BY DEF Idle
  <1>5. q \in Request
    BY <1>1, <1>3, NoTaskOK DEF Idle, Request
  <1> HIDE DEF q
  <1>6. RequestOK(w)'
    BY <1>1, <1>2, <1>4, NoneAssumption DEF RequestOK
  <1>7. QED
    BY <1>1, <1>4, <1>5, <1>6, QuietKeeps

LEMMA RollbackKeeps ==
  ASSUME IInv, NEW w \in Workers, Rollback(w)
  PROVE  IInv'
  <1>1. crashes' \in 0..MaxCrashes
    BY MaxCrashesAssumption DEF Rollback, IInv, TypeOK
  <1>2. QED
    BY <1>1, UndoKeeps DEF Rollback

LEMMA RefuseKeeps ==
  ASSUME IInv, NEW w \in Workers, Refuse(w)
  PROVE  IInv'
  <1>1. crashes' \in 0..MaxCrashes
    BY DEF Refuse, IInv, TypeOK
  <1>2. QED
    BY <1>1, UndoKeeps DEF Refuse

------------------------------------------------------------------------------
(* Any number of concurrent requests *)

LEMMA InitIInv == Init => IInv
  <1> SUFFICES ASSUME Init PROVE IInv
    OBVIOUS
  <1>1. /\ NoTask \in Task /\ RowOK(NoTask) /\ Idle \in Request
        /\ Idle.read = [t \in Tasks |-> NoTask] /\ Idle.new = [t \in Tasks |-> NoTask]
        /\ Idle.op = "idle" /\ Idle.todo = {} /\ Idle.at = None /\ Idle.delivered = {}
        /\ ~Idle.locked
    <2>1. Idle \in Request
      BY NoTaskOK DEF Idle, Request, Conversation, NoConversation
    <2>2. QED
      BY <2>1, NoTaskOK DEF Idle
  <1>2. TypeOK
    BY <1>1, MaxCrashesAssumption DEF Init, TypeOK, Conversation, NoConversation
  <1>3. \A t \in Tasks : RowOK(task[t])
    BY <1>1 DEF Init
  <1>4. ASSUME NEW w \in Workers
        PROVE  RequestOK(w) /\ ~request[w].locked /\ request[w].delivered = {}
    <2>1. request[w] = Idle /\ None \notin Tasks /\ NoTask.status = "absent"
      BY NoneAssumption DEF Init, NoTask
    <2>2. QED
      BY <1>1, <2>1, SameEdit DEF RequestOK
  <1>5. QED
    BY <1>2, <1>3, <1>4 DEF IInv, OneLock, SentOK

LEMMA IInvStep == IInv /\ [Next]_vars => IInv'
  <1> SUFFICES ASSUME IInv, [Next]_vars PROVE IInv'
    OBVIOUS
  <1>1. ASSUME NEW w \in Workers, BeginRun(w) PROVE IInv'
    BY <1>1, BeginRunKeeps
  <1>2. ASSUME NEW w \in Workers, Run(w) PROVE IInv'
    BY <1>2, LoadKeeps, HaltKeeps, RefuseKeeps, ParkKeeps, SendKeeps, CommitKeeps DEF Run
  <1>3. ASSUME NEW w \in Workers, Rollback(w) PROVE IInv'
    BY <1>3, RollbackKeeps
  <1>4. ASSUME NEW w \in Workers, Others(w) PROVE IInv'
    BY <1>4, IngestKeeps, CreateKeeps, SetTakeoverKeeps, BeginEraseKeeps DEF Others
  <1>5. ASSUME NEW t \in Tasks, Tick(t) PROVE IInv'
    BY <1>5, TickKeeps
  <1>6. CASE UNCHANGED vars
    <2>1. /\ conv' = conv /\ task' = task /\ request' = request /\ sent' = sent
          /\ replied' = replied /\ crashes' = crashes
      BY <1>6 DEF vars
    <2>2. QED
      BY <2>1, TableStepKeeps DEF IInv, TypeOK
  <1>7. QED
    BY <1>1, <1>2, <1>3, <1>4, <1>5, <1>6 DEF Next

\* However many runs and erasures overlap, IInv always holds: rows in order, requests
\* that write only what they may, and one of them at most that has sent anything.
THEOREM Inductive == Spec => []IInv
  BY InitIInv, IInvStep, PTL DEF Spec

\* Every state has the types of TypeOK: no task is ever given more attempts than
\* max_attempts, whatever is written back on top of what, by however many requests
\* (services/followups.py, run_due_followups; services/data_privacy.py).
THEOREM TypeCorrect == Spec => []TypeOK
  <1>1. IInv => TypeOK
    BY DEF IInv
  <1>2. QED
    BY <1>1, Inductive, PTL

\* No step takes an ended task up again, with any number of runs and erasures that
\* write back rows they read long ago: run_due_followups only ever moves a task from
\* active to an ended status, and the UPDATE leaves an unchanged status alone.
LEMMA NoStepResumes ==
  ASSUME IInv, [Next]_vars, NEW t \in Tasks, task[t].status \in Ended
  PROVE  task'[t].status \in Ended
  <1>1. CASE task' = task
    BY <1>1
  <1>2. ASSUME NEW w \in Workers, Commit(w) PROVE task'[t].status \in Ended
    BY <1>2, CommitRows
  <1>3. ASSUME NEW w \in Workers, CreateFollowup(w) PROVE task'[t].status \in Ended
    <2>1. PICK u, row : /\ u \in Tasks /\ task[u].status = "absent"
                          /\ task' = [task EXCEPT ![u] = row]
      BY <1>3 DEF CreateFollowup
    <2>2. u # t /\ task \in [Tasks -> Task]
      BY <2>1 DEF Ended, IInv, TypeOK
    <2>3. QED
      BY <2>1, <2>2
  <1>4. ASSUME NEW u \in Tasks, Tick(u) PROVE task'[t].status \in Ended
    <2>1. task' = [task EXCEPT ![u].due = "now"] /\ task \in [Tasks -> Task]
      BY <1>4 DEF Tick, IInv, TypeOK
    <2>2. task'[t].status = task[t].status
      BY <2>1 DEF Task
    <2>3. QED
      BY <2>2
  <1>5. QED
    BY <1>1, <1>2, <1>3, <1>4
       DEF Next, vars, BeginRun, Run, Load, Halt, Refuse, Park, Send, Undo, Rollback,
           Others, Ingest, SetTakeover, BeginErase

\* A task that was paused, stopped or completed stays ended, for any number of workers.
THEOREM StaysEnded == Spec => NeverResumed
  <1>1. IInv /\ [Next]_vars =>
          [\A t \in Tasks :
             task[t].status \in {"paused", "stopped", "completed"}
               => task'[t].status \in {"paused", "stopped", "completed"}]_vars
    BY NoStepResumes DEF Ended
  <1>2. QED
    BY <1>1, Inductive, PTL DEF Spec, NeverResumed

------------------------------------------------------------------------------
(* Requests handled one at a time: Workers has one member *)

\* What has been sent for a task that was not stopped is what its row says, with
\* what the request has sent and not committed yet.
Counted(w) ==
  \A t \in Tasks :
    /\ sent[t] <= MaxAttempts
    /\ task[t].status # "stopped"
         => sent[t] = task[t].attempt + (IF t \in request[w].delivered THEN 1 ELSE 0)

\* Nobody but the clock has touched the rows a request has read.
Ticked(old, row) == row = old \/ (old.due = "later" /\ row = [old EXCEPT !.due = "now"])

AsRead(w) == request[w].op # "idle" => \A t \in Tasks : Ticked(request[w].read[t], task[t])

\* The conversations of the session are those of the table, but for the takeover
\* of a parked message, which is only in the session.
SeenOK(w) ==
  request[w].op = "run" => \A c \in Conversations :
    \/ request[w].seen[c] = NoConversation
    \/ /\ request[w].seen[c].status = conv[c].status
       /\ \/ request[w].seen[c].takeover = conv[c].takeover
          \/ c \in request[w].parked /\ request[w].seen[c].takeover

\* A run ends active tasks only, an erasure stops all of them.
Fates(w) ==
  LET r == request[w] IN
  /\ r.op = "run" => \A t \in Tasks : r.new[t].status # r.read[t].status
                                        => r.read[t].status = "active"
  /\ r.op = "erase" => \A t \in Tasks : r.new[t].status \in {"absent", "stopped"}

SInv(w) == IInv /\ Counted(w) /\ AsRead(w) /\ SeenOK(w) /\ Fates(w)

LEMMA TickedSame ==
  ASSUME NEW old \in Task, NEW row, Ticked(old, row)
  PROVE  /\ row.conv = old.conv /\ row.status = old.status /\ row.attempt = old.attempt
  BY DEF Ticked, Task

\* The task that a run is at is active in the table too, with the same attempts.
LEMMA AtIsActive ==
  ASSUME NEW w \in Workers, SInv(w), request[w].op = "run", request[w].at # None
  PROVE  LET r == request[w] IN
         /\ r.at \in Tasks /\ r.at \notin r.delivered
         /\ r.read[r.at].status = "active" /\ task[r.at].status = "active"
         /\ task[r.at].conv = r.read[r.at].conv /\ task[r.at].conv \in Conversations
         /\ task[r.at].attempt < MaxAttempts
  <1> DEFINE r == request[w]
             t == r.at
  <1>1. t \in Tasks /\ r \in Request /\ RequestOK(w)
    BY DEF SInv, IInv, TypeOK, Request
  <1>2. r.read[t].status = "active" /\ r.read[t] \in Task /\ t \notin r.delivered
    BY <1>1 DEF RequestOK, RowOK
  <1>3. Ticked(r.read[t], task[t])
    BY <1>1 DEF SInv, AsRead
  <1>4. task[t].status = "active" /\ task[t].conv = r.read[t].conv
    BY <1>2, <1>3, TickedSame
  <1>5. RowOK(task[t])
    BY <1>1 DEF SInv, IInv
  <1>6. QED
    BY <1>1, <1>2, <1>4, <1>5 DEF RowOK

\* When the conversation of the task is found open and not under takeover in the
\* session, it is so in the table.
LEMMA FreeIsOpen ==
  ASSUME NEW w \in Workers, SInv(w), request[w].op = "run", request[w].at # None,
         Blocked(request[w]) = "no"
  PROVE  LET c == task[request[w].at].conv IN conv[c].status = "open" /\ ~conv[c].takeover
  <1> DEFINE r == request[w]
             c == task[r.at].conv
  <1>1. c \in Conversations /\ Held(r) = r.seen[c]
    BY AtIsActive DEF Held
  <1>2. r.seen[c].status = "open" /\ ~r.seen[c].takeover
    BY <1>1 DEF Blocked
  <1>3. r.seen[c] # NoConversation
    BY <1>2 DEF NoConversation
  <1>4. \/ r.seen[c].takeover = conv[c].takeover
        \/ r.seen[c].takeover
    BY <1>1, <1>3 DEF SInv, SeenOK
  <1>5. r.seen[c].status = conv[c].status
    BY <1>1, <1>3 DEF SInv, SeenOK
  <1>6. QED
    BY <1>2, <1>4, <1>5

LEMMA SerialLoad ==
  ASSUME NEW w \in Workers, SInv(w), Load(w)
  PROVE  SInv(w)'
  <1> DEFINE r == request[w]
             q == request'[w]
  <1>1. IInv'
    BY LoadKeeps DEF SInv
  <1>2. PICK t \in r.todo :
          LET c == task[t].conv IN
          \E read \in {Row(r, c), r.seen[c]} \ {NoConversation} :
            request' = [request EXCEPT ![w].at = t, ![w].todo = @ \ {t}, ![w].seen[c] = read]
    BY DEF Load
  <1>3. /\ request \in [Workers -> Request] /\ r \in Request /\ r.op = "run"
        /\ UNCHANGED <<conv, task, sent>>
    BY DEF Load, SInv, IInv, TypeOK
  <1> DEFINE c == task[t].conv
  <1>9. PICK read \in {Row(r, c), r.seen[c]} :
          request' = [request EXCEPT ![w].at = t, ![w].todo = @ \ {t}, ![w].seen[c] = read]
    BY <1>2
  <1> DEFINE s == [r.seen EXCEPT ![c] = read]
  <1>4. request'[w] = [r EXCEPT !.at = t, !.todo = @ \ {t}, !.seen = s]
    BY <1>3, <1>9 DEF Request
  <1> HIDE DEF s
  <1>5. /\ q.op = r.op /\ q.read = r.read /\ q.new = r.new
        /\ q.delivered = r.delivered /\ q.parked = r.parked /\ q.seen = s
    BY <1>3, <1>4 DEF Request
  <1>6. SeenOK(w)'
    <2>1. \A d \in Conversations : s[d] = r.seen[d] \/ s[d] = Row(r, d)
      BY <1>3, <1>9 DEF Request, s
    <2>2. \A d \in Conversations :
            /\ Row(r, d).status = conv[d].status
            /\ Row(r, d).takeover = conv[d].takeover \/ (d \in r.parked /\ Row(r, d).takeover)
      BY DEF Row, SInv, IInv, TypeOK, Conversation
    <2>3. \A d \in Conversations :
            \/ r.seen[d] = NoConversation
            \/ /\ r.seen[d].status = conv[d].status
               /\ r.seen[d].takeover = conv[d].takeover \/ (d \in r.parked /\ r.seen[d].takeover)
      BY <1>3 DEF SInv, SeenOK
    <2> HIDE DEF q
    <2>4. \A d \in Conversations :
            \/ s[d] = NoConversation
            \/ /\ s[d].status = conv[d].status
               /\ s[d].takeover = conv[d].takeover \/ (d \in r.parked /\ s[d].takeover)
      BY <2>1, <2>2, <2>3
    <2>5. QED
      BY <1>3, <1>5, <2>4 DEF SeenOK, q
  <1>7. Counted(w)' /\ AsRead(w)' /\ Fates(w)'
    BY <1>3, <1>5 DEF SInv, Counted, AsRead, Fates
  <1>8. QED
    BY <1>1, <1>6, <1>7 DEF SInv

LEMMA SerialHalt ==
  ASSUME NEW w \in Workers, SInv(w), Halt(w)
  PROVE  SInv(w)'
  <1> DEFINE r == request[w]
             q == request'[w]
             n == [r.new EXCEPT ![r.at].status = Blocked(r)]
  <1>1. IInv'
    BY HaltKeeps DEF SInv
  <1>2. /\ request \in [Workers -> Request] /\ r \in Request /\ r.op = "run" /\ r.at # None
        /\ UNCHANGED <<conv, task, sent>>
        /\ request' = [request EXCEPT ![w].at = None, ![w].new[r.at].status = Blocked(r)]
    BY DEF Halt, SInv, IInv, TypeOK
  <1>3. request'[w] = [r EXCEPT !.at = None, !.new = n]
    BY <1>2 DEF Request
  <1>4. \A t \in Tasks \ {r.at} : n[t] = r.new[t]
    BY <1>2 DEF Request
  <1> HIDE DEF n
  <1>5. /\ q.op = r.op /\ q.read = r.read /\ q.new = n
        /\ q.delivered = r.delivered /\ q.parked = r.parked /\ q.seen = r.seen
    BY <1>2, <1>3 DEF Request
  <1>6. r.read[r.at].status = "active"
    BY <1>2, AtIsActive
  <1>7. Counted(w)' /\ AsRead(w)' /\ SeenOK(w)'
    BY <1>2, <1>5 DEF SInv, Counted, AsRead, SeenOK
  <1>8. Fates(w)'
    BY <1>2, <1>4, <1>5, <1>6 DEF SInv, Fates
  <1>9. QED
    BY <1>1, <1>7, <1>8 DEF SInv

LEMMA SerialPark ==
  ASSUME NEW w \in Workers, SInv(w), Park(w)
  PROVE  SInv(w)'
  <1> DEFINE r == request[w]
             q == request'[w]
             c == r.read[r.at].conv
             n == [r.new EXCEPT ![r.at].status = "paused"]
             s == [r.seen EXCEPT ![c].takeover = TRUE]
  <1>1. IInv'
    BY ParkKeeps DEF SInv
  <1>2. /\ request \in [Workers -> Request] /\ r \in Request /\ r.op = "run" /\ r.at # None
        /\ UNCHANGED <<conv, task, sent>> /\ Blocked(r) = "no"
        /\ request' = [request EXCEPT ![w].at = None, ![w].locked = TRUE,
                                      ![w].new[r.at].status = "paused",
                                      ![w].seen[c].takeover = TRUE,
                                      ![w].parked = @ \cup {c}]
    BY DEF Park, SInv, IInv, TypeOK
  <1>3. request'[w] = [r EXCEPT !.at = None, !.locked = TRUE, !.new = n, !.seen = s,
                                !.parked = @ \cup {c}]
    BY <1>2 DEF Request
  <1>4. \A t \in Tasks \ {r.at} : n[t] = r.new[t]
    BY <1>2 DEF Request
  <1>5. c \in Conversations /\ r.read[r.at].status = "active"
    BY <1>2, AtIsActive
  <1>6. r.seen[c] \in Conversation
    BY <1>2, <1>5 DEF Request, Blocked, Held, NoConversation
  <1>7. s[c].status = r.seen[c].status /\ s[c].takeover = TRUE
    BY <1>2, <1>5, <1>6 DEF Request, Conversation
  <1>8. \A d \in Conversations \ {c} : s[d] = r.seen[d]
    BY <1>2 DEF Request
  <1>9. conv[c].status = r.seen[c].status
    <2>1. r.seen[c].status = "open"
      BY <1>2 DEF Blocked, Held
    <2>2. r.seen[c] # NoConversation
      BY <2>1 DEF NoConversation
    <2>3. SeenOK(w)
      BY DEF SInv
    <2>4. QED
      BY <1>2, <1>5, <2>2, <2>3 DEF SeenOK
  <1> HIDE DEF c, n, s
  <1>10. /\ q.op = r.op /\ q.read = r.read /\ q.new = n
         /\ q.delivered = r.delivered /\ q.parked = r.parked \cup {c} /\ q.seen = s
    BY <1>2, <1>3 DEF Request
  <1>11. SeenOK(w)'
    <2>1. ASSUME NEW d \in Conversations
          PROVE  \/ s[d] = NoConversation
                 \/ /\ s[d].status = conv[d].status
                    /\ \/ s[d].takeover = conv[d].takeover
                       \/ d \in r.parked \cup {c} /\ s[d].takeover
      BY <1>2, <1>7, <1>8, <1>9 DEF SInv, SeenOK
    <2>2. QED
      BY <1>2, <1>10, <2>1 DEF SeenOK
  <1>12. Counted(w)' /\ AsRead(w)'
    BY <1>2, <1>10 DEF SInv, Counted, AsRead
  <1>13. Fates(w)'
    BY <1>2, <1>4, <1>5, <1>10 DEF SInv, Fates
  <1>14. QED
    BY <1>1, <1>11, <1>12, <1>13 DEF SInv

LEMMA SerialSend ==
  ASSUME NEW w \in Workers, SInv(w), Send(w)
  PROVE  SInv(w)'
  <1> DEFINE r == request[w]
             q == request'[w]
             t == r.at
             n == [r.new EXCEPT ![t] = Advance(@)]
  <1>1. IInv'
    BY SendKeeps DEF SInv
  <1>2. /\ request \in [Workers -> Request] /\ r \in Request /\ r.op = "run" /\ t # None
        /\ UNCHANGED <<conv, task>>
        /\ request' = [request EXCEPT ![w].at = None, ![w].locked = TRUE,
                                      ![w].new[r.at] = Advance(@),
                                      ![w].delivered = @ \cup {r.at}]
        /\ sent' = [sent EXCEPT ![t] = @ + 1] /\ sent \in [Tasks -> Nat]
    BY DEF Send, SInv, IInv, TypeOK
  <1>3. request'[w] = [r EXCEPT !.at = None, !.locked = TRUE, !.new = n,
                                !.delivered = @ \cup {t}]
    BY <1>2 DEF Request
  <1>4. \A u \in Tasks \ {t} : n[u] = r.new[u]
    BY <1>2 DEF Request
  <1> HIDE DEF n
  <1>5. /\ q.op = r.op /\ q.read = r.read /\ q.new = n /\ q.seen = r.seen
        /\ q.delivered = r.delivered \cup {t} /\ q.parked = r.parked
    BY <1>2, <1>3 DEF Request
  <1>6. /\ t \in Tasks /\ t \notin r.delivered /\ r.read[t].status = "active"
        /\ task[t].status = "active" /\ task[t].attempt < MaxAttempts
    BY <1>2, AtIsActive
  <1>7. task[t].attempt \in Nat /\ MaxAttempts \in Nat
    BY <1>6, MaxAttemptsAssumption DEF SInv, IInv, RowOK, Task
  <1>8. Counted(w)'
    <2>1. ASSUME NEW u \in Tasks
          PROVE  /\ sent'[u] <= MaxAttempts
                 /\ task[u].status # "stopped"
                      => sent'[u] = task[u].attempt
                                      + (IF u \in r.delivered \cup {t} THEN 1 ELSE 0)
      <3>1. CASE u = t
        <4>1. sent[t] = task[t].attempt + 0 /\ sent'[t] = sent[t] + 1
          BY <1>2, <1>6 DEF SInv, Counted
        <4>2. QED
          BY <1>6, <1>7, <3>1, <4>1
      <3>2. CASE u # t
        BY <1>2, <3>2 DEF SInv, Counted
      <3>3. QED
        BY <3>1, <3>2
    <2>2. QED
      BY <1>2, <1>5, <2>1 DEF Counted
  <1>9. AsRead(w)' /\ SeenOK(w)'
    BY <1>2, <1>5 DEF SInv, AsRead, SeenOK
  <1>10. Fates(w)'
    BY <1>2, <1>4, <1>5, <1>6 DEF SInv, Fates
  <1>11. QED
    BY <1>1, <1>8, <1>9, <1>10 DEF SInv

\* An idle worker: only the count is left to show.
LEMMA IdleParts ==
  ASSUME NEW w \in Workers, request'[w] = Idle
  PROVE  AsRead(w)' /\ SeenOK(w)' /\ Fates(w)' /\ request'[w].delivered = {}
  BY DEF Idle, AsRead, SeenOK, Fates

LEMMA SerialUndo ==
  ASSUME NEW w \in Workers, SInv(w), Undo(w), IInv'
  PROVE  SInv(w)'
  <1> DEFINE d == request[w].delivered
  <1>1. /\ request'[w] = Idle /\ task' = task
        /\ sent' = [t \in Tasks |-> IF t \in d THEN sent[t] - 1 ELSE sent[t]]
        /\ MaxAttempts \in Nat
    BY MaxAttemptsAssumption DEF Undo, SInv, IInv, TypeOK
  <1>2. ASSUME NEW t \in Tasks
        PROVE  /\ sent'[t] <= MaxAttempts
               /\ task[t].status # "stopped" => sent'[t] = task[t].attempt + 0
    <2>1. /\ sent[t] \in Nat /\ sent[t] <= MaxAttempts /\ task[t].attempt \in Nat
          /\ t \in d => sent[t] > 0
          /\ task[t].status # "stopped" => sent[t] = task[t].attempt + (IF t \in d THEN 1 ELSE 0)
      BY DEF SInv, IInv, TypeOK, SentOK, Counted, RowOK, Task
    <2> HIDE DEF d
    <2>2. QED
      BY <1>1, <2>1
  <1>3. Counted(w)'
    BY <1>1, <1>2, IdleParts DEF Counted
  <1>4. QED
    BY <1>1, <1>3, IdleParts DEF SInv

LEMMA SerialCommit ==
  ASSUME NEW w \in Workers, SInv(w), Commit(w)
  PROVE  SInv(w)'
  <1> DEFINE r == request[w]
  <1>1. IInv'
    BY CommitKeeps DEF SInv
  <1>2. request'[w] = Idle /\ sent' = sent /\ r.op # "idle" /\ r.op \in {"idle", "run", "erase"}
    BY DEF Commit, SInv, IInv, TypeOK, Request
  <1>3. ASSUME NEW t \in Tasks, task'[t].status # "stopped"
        PROVE  sent[t] = task'[t].attempt + 0
    <2> DEFINE old == r.read[t]
               new == r.new[t]
    <2>1. /\ task'[t].status = Put(old.status, new.status, task[t].status)
          /\ task'[t].attempt = Put(old.attempt, new.attempt, task[t].attempt)
          /\ task'[t].attempt \in Nat
      BY CommitRows DEF SInv, Task
    <2>2. /\ old \in Task /\ Ticked(old, task[t]) /\ Edit(old, new)
      BY <1>2 DEF SInv, IInv, RequestOK, RowOK, AsRead
    <2>3. old.status = task[t].status /\ old.attempt = task[t].attempt
          /\ old.attempt \in Nat
      BY <2>2, TickedSame DEF Task
    <2>4. task[t].status # "stopped"
             => sent[t] = task[t].attempt + (IF t \in r.delivered THEN 1 ELSE 0)
      BY DEF SInv, Counted
    <2>5. CASE r.op = "run"
      <3>1. new.status # old.status => old.status = "active"
        BY <2>5 DEF SInv, Fates
      <3>2. new.attempt = old.attempt + (IF t \in r.delivered THEN 1 ELSE 0)
        BY <2>5 DEF SInv, IInv, RequestOK
      <3>3. task[t].status # "stopped"
        BY <1>3, <2>1, <2>3, <3>1 DEF Put
      <3> HIDE DEF r, old, new
      <3>4. QED
        BY <2>1, <2>3, <2>4, <3>2, <3>3 DEF Put
    <2>6. CASE r.op = "erase"
      <3>1. new.status \in {"absent", "stopped"} /\ r.delivered = {}
        BY <2>6 DEF SInv, IInv, RequestOK, Fates
      <3>2. new.status = "absent"
        BY <1>3, <2>1, <2>3, <3>1 DEF Put
      <3>3. new = old
        BY <2>2, <3>2 DEF Edit, Ended
      <3>4. task[t].status # "stopped"
        BY <2>3, <3>2, <3>3
      <3> HIDE DEF r, old, new
      <3>5. QED
        BY <2>1, <2>3, <2>4, <3>1, <3>3, <3>4 DEF Put
    <2>7. QED
      BY <1>2, <2>5, <2>6
  <1>4. Counted(w)'
    BY <1>2, <1>3, IdleParts DEF SInv, Counted
  <1>5. QED
    BY <1>1, <1>2, <1>4, IdleParts DEF SInv

LEMMA SerialBeginRun ==
  ASSUME NEW w \in Workers, SInv(w), BeginRun(w)
  PROVE  SInv(w)'
  <1> DEFINE q == [Idle EXCEPT !.op = "run", !.todo = DueTasks, !.read = task, !.new = task]
  <1>1. IInv'
    BY BeginRunKeeps DEF SInv
  <1>2. /\ UNCHANGED <<conv, task, sent>> /\ request'[w] = q
        /\ request[w].delivered = {}
    BY DEF BeginRun, SInv, IInv, TypeOK, RequestOK
  <1>3. /\ q.op = "run" /\ q.read = task /\ q.new = task /\ q.delivered = {}
        /\ q.seen = [c \in Conversations |-> NoConversation]
    BY DEF Idle
  <1> HIDE DEF q
  <1>4. Counted(w)'
    BY <1>2, <1>3 DEF SInv, Counted
  <1>5. AsRead(w)' /\ SeenOK(w)' /\ Fates(w)'
    BY <1>2, <1>3 DEF AsRead, SeenOK, Fates, Ticked
  <1>6. QED
    BY <1>1, <1>4, <1>5 DEF SInv

LEMMA SerialBeginErase ==
  ASSUME NEW w \in Workers, SInv(w), BeginErase(w)
  PROVE  SInv(w)'
  <1> DEFINE n == [t \in Tasks |-> IF task[t].status = "absent" THEN NoTask
                                   ELSE EraseTask(task[t])]
             q == [Idle EXCEPT !.op = "erase", !.seen = conv, !.read = task, !.new = n]
  <1>1. IInv'
    BY BeginEraseKeeps DEF SInv
  <1>2. /\ UNCHANGED <<conv, task, sent>> /\ request'[w] = q
        /\ request[w].delivered = {} /\ task \in [Tasks -> Task]
    BY DEF BeginErase, SInv, IInv, TypeOK, RequestOK
  <1>3. \A t \in Tasks : n[t].status \in {"absent", "stopped"}
    BY <1>2 DEF NoTask, EraseTask, Task
  <1> HIDE DEF n
  <1>4. /\ q.op = "erase" /\ q.read = task /\ q.new = n /\ q.delivered = {}
    BY DEF Idle
  <1> HIDE DEF q
  <1>5. Counted(w)'
    BY <1>2, <1>4 DEF SInv, Counted
  <1>6. AsRead(w)' /\ SeenOK(w)' /\ Fates(w)'
    BY <1>2, <1>3, <1>4 DEF AsRead, SeenOK, Fates, Ticked
  <1>7. QED
    BY <1>1, <1>5, <1>6 DEF SInv

\* A request handled from beginning to end, by a worker that does nothing else.
LEMMA SerialQuick ==
  ASSUME NEW w \in Workers, SInv(w), IInv', request'[w] = request[w],
         request[w].op = "idle", sent' = sent,
         \A t \in Tasks : \/ task'[t] = task[t]
                          \/ task[t].status = "absent" /\ task'[t].attempt = 0
  PROVE  SInv(w)'
  <1>1. AsRead(w)' /\ SeenOK(w)' /\ Fates(w)'
    BY DEF AsRead, SeenOK, Fates
  <1>2. ASSUME NEW t \in Tasks, task'[t] # task[t]
        PROVE  sent[t] = 0 /\ request[w].delivered = {} /\ task'[t].attempt = 0
    <2>1. RowOK(task[t]) /\ task[t].status = "absent" /\ task'[t].attempt = 0
      BY <1>2 DEF SInv, IInv
    <2>2. task[t].attempt = 0 /\ task[t].status # "stopped"
      BY <2>1 DEF RowOK, NoTask
    <2>3. request[w].delivered = {}
      BY DEF SInv, IInv, RequestOK
    <2>4. QED
      BY <2>1, <2>2, <2>3 DEF SInv, Counted
  <1>3. Counted(w)'
    <2>1. ASSUME NEW t \in Tasks
          PROVE  /\ sent'[t] <= MaxAttempts
                 /\ task'[t].status # "stopped"
                      => sent'[t] = task'[t].attempt
                                      + (IF t \in request'[w].delivered THEN 1 ELSE 0)
      BY <1>2 DEF SInv, Counted
    <2>2. QED
      BY <2>1 DEF Counted
  <1>4. QED
    BY <1>1, <1>3 DEF SInv

LEMMA SerialOthers ==
  ASSUME NEW w \in Workers, SInv(w), Ingest(w) \/ CreateFollowup(w) \/ SetTakeover(w)
  PROVE  SInv(w)'
  <1>1. IInv'
    BY IngestKeeps, CreateKeeps, SetTakeoverKeeps DEF SInv
  <1>2. request' = request /\ sent' = sent /\ request[w].op = "idle"
    BY DEF Ingest, CreateFollowup, SetTakeover, Quiet
  <1>3. CASE task' = task
    BY <1>1, <1>2, <1>3, SerialQuick
  <1>4. CASE CreateFollowup(w)
    <2>1. PICK u \in Tasks, c \in Conversations, text \in Texts, late \in BOOLEAN :
            /\ task[u].status = "absent"
            /\ task' = [task EXCEPT ![u] = [conv |-> c, text |-> text, late |-> late,
                                            status |-> "active", attempt |-> 0,
                                            due |-> "later"]]
      BY <1>4 DEF CreateFollowup
    <2>2. task \in [Tasks -> Task]
      BY DEF SInv, IInv, TypeOK
    <2>3. \A t \in Tasks : \/ task'[t] = task[t]
                           \/ task[t].status = "absent" /\ task'[t].attempt = 0
      BY <2>1, <2>2
    <2>4. QED
      BY <1>1, <1>2, <2>3, SerialQuick
  <1>5. QED
    BY <1>3, <1>4 DEF Ingest, SetTakeover

LEMMA SerialTick ==
  ASSUME NEW w \in Workers, SInv(w), NEW t \in Tasks, Tick(t)
  PROVE  SInv(w)'
  <1>1. IInv'
    BY TickKeeps DEF SInv
  <1>2. /\ UNCHANGED <<conv, request, sent>> /\ task[t].due = "later"
        /\ task' = [task EXCEPT ![t].due = "now"] /\ task \in [Tasks -> Task]
    BY DEF Tick, SInv, IInv, TypeOK
  <1>3. /\ task'[t] = [task[t] EXCEPT !.due = "now"]
        /\ task'[t].status = task[t].status /\ task'[t].attempt = task[t].attempt
        /\ \A u \in Tasks \ {t} : task'[u] = task[u]
    BY <1>2 DEF Task
  <1>4. Counted(w)'
    BY <1>2, <1>3 DEF SInv, Counted
  <1>5. AsRead(w)'
    <2>1. ASSUME NEW u \in Tasks, request[w].op # "idle"
          PROVE  Ticked(request[w].read[u], task'[u])
      <3> DEFINE old == request[w].read[u]
      <3>1. Ticked(old, task[u]) /\ old \in Task
        BY <2>1 DEF SInv, AsRead, IInv, RequestOK, RowOK
      <3> HIDE DEF old
      <3>2. CASE u = t
        <4>1. task[t] = old
          BY <1>2, <3>1, <3>2 DEF Ticked, Task
        <4>2. QED
          BY <1>2, <1>3, <3>2, <4>1 DEF Ticked, old
      <3>3. QED
        BY <1>3, <3>1, <3>2 DEF old
    <2>2. QED
      BY <1>2, <2>1 DEF AsRead
  <1>6. SeenOK(w)' /\ Fates(w)'
    BY <1>2 DEF SInv, SeenOK, Fates
  <1>7. QED
    BY <1>1, <1>4, <1>5, <1>6 DEF SInv

LEMMA SerialStep ==
  ASSUME NEW w, Workers = {w}, SInv(w), [Next]_vars
  PROVE  SInv(w)'
  <1>1. w \in Workers
    OBVIOUS
  <1>2. CASE BeginRun(w)
    BY <1>1, <1>2, SerialBeginRun
  <1>3. CASE Run(w)
    <2>1. ASSUME Refuse(w) PROVE SInv(w)'
      BY <1>1, <2>1, RefuseKeeps, SerialUndo DEF Refuse, SInv
    <2>2. QED
      BY <1>1, <1>3, <2>1, SerialLoad, SerialHalt, SerialPark, SerialSend, SerialCommit DEF Run
  <1>4. CASE Rollback(w)
    BY <1>1, <1>4, RollbackKeeps, SerialUndo DEF Rollback, SInv
  <1>5. CASE Others(w)
    BY <1>1, <1>5, SerialOthers, SerialBeginErase DEF Others
  <1>6. ASSUME NEW t \in Tasks, Tick(t) PROVE SInv(w)'
    BY <1>1, <1>6, SerialTick
  <1>7. CASE UNCHANGED vars
    <2>1. /\ conv' = conv /\ task' = task /\ request' = request /\ sent' = sent
      BY <1>7 DEF vars
    <2>2. IInv'
      BY <1>7, IInvStep DEF SInv
    <2>3. QED
      BY <2>1, <2>2 DEF SInv, Counted, AsRead, SeenOK, Fates
  <1>8. QED
    BY <1>1, <1>2, <1>3, <1>4, <1>5, <1>6, <1>7 DEF Next

LEMMA InitSInv ==
  ASSUME NEW w, Workers = {w}, Init
  PROVE  SInv(w)
  <1>1. request[w] = Idle /\ Idle.op = "idle" /\ Idle.delivered = {}
    BY DEF Init, Idle
  <1>2. \A t \in Tasks : sent[t] = 0 /\ task[t].attempt = 0 /\ MaxAttempts \in Nat
    BY MaxAttemptsAssumption DEF Init, NoTask
  <1>3. Counted(w)
    BY <1>1, <1>2 DEF Counted
  <1>4. AsRead(w) /\ SeenOK(w) /\ Fates(w)
    BY <1>1 DEF AsRead, SeenOK, Fates
  <1>5. QED
    BY <1>3, <1>4, InitIInv DEF SInv

\* With one request at a time, SInv always holds: what was sent is what the row and the
\* run in progress count, and what the run has read is still so.
THEOREM SerialInductive ==
  ASSUME NEW CONSTANT w, Workers = {w}
  PROVE  Spec => []SInv(w)
  <1>1. Init => SInv(w)
    BY InitSInv
  <1>2. SInv(w) /\ [Next]_vars => SInv(w)'
    BY SerialStep
  <1>3. QED
    BY <1>1, <1>2, PTL DEF Spec

\* One request at a time, however many transactions are lost: a customer gets at
\* most max_attempts follow-ups of one task, and the attempt a row says is the
\* number of follow-ups sent (services/followups.py, run_due_followups).
THEOREM SentWithinLimit ==
  ASSUME NEW CONSTANT w, Workers = {w}
  PROVE  Spec => []FollowupsBounded
  <1>1. SInv(w) => FollowupsBounded
    <2> SUFFICES ASSUME SInv(w), NEW t \in Tasks
                 PROVE  /\ sent[t] <= MaxAttempts
                        /\ (\A v \in Workers : request[v].op = "idle")
                           /\ task[t].status # "stopped" => sent[t] = task[t].attempt
      BY DEF FollowupsBounded
    <2>1. /\ sent[t] <= MaxAttempts
          /\ task[t].status # "stopped"
               => sent[t] = task[t].attempt + (IF t \in request[w].delivered THEN 1 ELSE 0)
      BY DEF SInv, Counted
    <2>2. request[w].op = "idle" => request[w].delivered = {}
      BY DEF SInv, IInv, RequestOK
    <2>3. task[t].attempt \in Nat
      BY DEF SInv, IInv, RowOK, Task
    <2>4. QED
      BY <2>1, <2>2, <2>3
  <1>2. QED
    BY <1>1, SerialInductive, PTL

\* One request at a time: what the session has read of the task and of its
\* conversation when it sends is what the tables say (_run_task looks at the rows
\* of its own transaction before it calls send_message).
THEOREM SentOnlyWhenFree ==
  ASSUME NEW CONSTANT w, Workers = {w}
  PROVE  Spec => NothingAfterTheEnd
  <1>1. SInv(w) /\ [Next]_vars =>
          [\A t \in Tasks : sent'[t] > sent[t] =>
             /\ task[t].status = "active"
             /\ conv[task[t].conv].status = "open"
             /\ ~conv[task[t].conv].takeover]_vars
    <2> SUFFICES ASSUME SInv(w), [Next]_vars, NEW t \in Tasks, sent'[t] > sent[t]
                 PROVE  /\ task[t].status = "active"
                        /\ conv[task[t].conv].status = "open"
                        /\ ~conv[task[t].conv].takeover
      OBVIOUS
    <2>1. w \in Workers /\ sent \in [Tasks -> Nat]
      BY DEF SInv, IInv, TypeOK
    <2>2. CASE Send(w)
      <3>1. t = request[w].at
        BY <2>1, <2>2 DEF Send
      <3>2. /\ request[w].op = "run" /\ request[w].at # None /\ Blocked(request[w]) = "no"
        BY <2>2 DEF Send
      <3>3. QED
        BY <2>1, <3>1, <3>2, AtIsActive, FreeIsOpen
    <2>3. CASE Undo(w)
      <3>1. sent'[t] = sent[t] \/ (t \in request[w].delivered /\ sent'[t] = sent[t] - 1)
        BY <2>3 DEF Undo
      <3>2. QED
        BY <2>1, <3>1
    <2>4. CASE sent' = sent
      BY <2>1, <2>4
    <2>5. QED
      BY <2>1, <2>2, <2>3, <2>4
         DEF Next, vars, BeginRun, Run, Load, Halt, Refuse, Park, Commit, Rollback, Others,
             Ingest, CreateFollowup, SetTakeover, BeginErase, Tick
  <1>2. QED
    BY <1>1, SerialInductive, PTL DEF Spec, NothingAfterTheEnd
==============================================================================
