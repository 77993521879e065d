--------------------------- MODULE AgentGraphProofs ---------------------------
(***************************************************************************)
(* Theorems about AgentGraph for every set of inquiries, conversations,    *)
(* products and runs, and for every decision a provider may take.          *)
(***************************************************************************)
EXTENDS AgentGraph, FiniteSetTheorems, TLAPS

\* A run is given a record of its type and another node.
LEMMA GotoType ==
  ASSUME NEW x \in Runs, run \in [Runs -> Run], NEW r \in Run,
         NEW node \in Nodes \cup {"end", "raised", "lost", "committed"}, Goto(x, r, node)
  PROVE  run' \in [Runs -> Run]
  <1>1. [r EXCEPT !.node = node] \in Run
    BY DEF Run
  <1>2. QED
    BY <1>1 DEF Goto

\* Two fields of a run are written at once.
LEMMA ParkedType ==
  ASSUME NEW r \in Run, NEW effect \in {"none", "sent", "parked"}, NEW review \in BOOLEAN
  PROVE  [r EXCEPT !.effect = effect, !.review = review] \in Run
  <1>1. [r EXCEPT !.effect = effect] \in Run
    BY DEF Run
  <1>2. \A s \in Run : [s EXCEPT !.review = review] \in Run
    BY DEF Run
  <1>3. [r EXCEPT !.effect = effect, !.review = review]
          = [[r EXCEPT !.effect = effect] EXCEPT !.review = review]
    OBVIOUS
  <1>4. QED
    BY <1>1, <1>2, <1>3

LEMMA MatchedType ==
  ASSUME NEW r \in Run, NEW matches \in SUBSET Products, NEW catalog \in SUBSET Products
  PROVE  [r EXCEPT !.matches = matches, !.catalog = catalog] \in Run
  <1>1. \A s \in Run : [s EXCEPT !.matches = matches] \in Run
    BY DEF Run
  <1>2. \A s \in Run : [s EXCEPT !.catalog = catalog] \in Run
    BY DEF Run
  <1>3. [r EXCEPT !.matches = matches, !.catalog = catalog]
          = [[r EXCEPT !.matches = matches] EXCEPT !.catalog = catalog]
    OBVIOUS
  <1>4. QED
    BY <1>1, <1>2, <1>3

LEMMA DraftedType ==
  ASSUME NEW r \in Run, NEW p \in Products, NEW draft \in {"quote", "provider", "fallback"},
         NEW quote \in {"none", "ok", "floor"}
  PROVE  [[r EXCEPT !.product = p, !.draft = draft] EXCEPT !.quote = quote] \in Run
  <1>1. \A s \in Run : [s EXCEPT !.product = p] \in Run
    BY DEF Run
  <1>2. \A s \in Run : [s EXCEPT !.draft = draft] \in Run
    BY DEF Run
  <1>3. \A s \in Run : [s EXCEPT !.quote = quote] \in Run
    BY DEF Run
  <1>4. [r EXCEPT !.product = p, !.draft = draft] = [[r EXCEPT !.product = p] EXCEPT !.draft = draft]
    OBVIOUS
  <1>5. [r EXCEPT !.product = p, !.draft = draft] \in Run
    BY <1>1, <1>2, <1>4
  <1>6. QED
    BY <1>3, <1>5

LEMMA ReadType ==
  ASSUME NEW r \in Run, NEW flag \in Reads(r)
  PROVE  [r EXCEPT !.read = flag] \in Run /\ flag \in {"free", "held"}
  <1>1. flag \in {"free", "held"}
    BY DEF Reads, Flag, Run
  <1>2. QED
    BY <1>1 DEF Run

LEMMA ResolvedType ==
  ASSUME ConversationsAssumption, NEW r \in Run
  PROVE  /\ Resolved(r) \in Run /\ Resolved(r).conv = r.conv
         /\ Resolved(r).effect = r.effect /\ Resolved(r).review = r.review
         /\ Resolved(r).quote = r.quote
         /\ \/ Resolved(r).read = r.read
            \/ r.conv # None /\ Resolved(r).read = Flag(r.conv)
  <1>1. CASE r.inq = None /\ r.conv # None
    <2> DEFINE q == [r EXCEPT !.read = Flag(r.conv)]
               s == [q EXCEPT !.inq = InquiryOf[r.conv]]
    <2>1. Flag(r.conv) \in {"free", "held"} /\ InquiryOf[r.conv] \in Inquiries
      BY <1>1 DEF Flag, Run, ConversationsAssumption
    <2>2. Resolved(r) = s
      BY <1>1 DEF Resolved
    <2>3. /\ q \in Run /\ q.conv = r.conv /\ q.effect = r.effect /\ q.review = r.review
          /\ q.quote = r.quote /\ q.read = Flag(r.conv)
      BY <2>1 DEF Run
    <2> HIDE DEF q
    <2>4. /\ s \in Run /\ s.conv = q.conv /\ s.effect = q.effect /\ s.review = q.review
          /\ s.quote = q.quote /\ s.read = q.read
      BY <2>1, <2>3 DEF Run
    <2>5. QED
      BY <1>1, <2>2, <2>3, <2>4
  <1>2. QED
    BY <1>1 DEF Resolved

LEMMA ApplyType ==
  ASSUME NEW r \in Run, NEW d \in Decision
  PROVE  Apply(r, d) \in Run
  <1>1. r.review \in BOOLEAN /\ d.review \in BOOLEAN
    BY DEF Run, Decision
  <1>2. (r.review \/ d.review) \in BOOLEAN
    BY <1>1
  <1>3. (IF d.draft THEN "provider" ELSE r.draft) \in {"none", "quote", "provider", "fallback"}
    BY DEF Run
  <1>4. ASSUME NEW draft \in {"none", "quote", "provider", "fallback"}, NEW review \in BOOLEAN
        PROVE  [r EXCEPT !.draft = draft, !.review = review] \in Run
    <2>1. \A s \in Run : [s EXCEPT !.draft = draft] \in Run
      BY DEF Run
    <2>2. \A s \in Run : [s EXCEPT !.review = review] \in Run
      BY DEF Run
    <2>3. [r EXCEPT !.draft = draft, !.review = review]
            = [[r EXCEPT !.draft = draft] EXCEPT !.review = review]
      OBVIOUS
    <2>4. QED
      BY <2>1, <2>2, <2>3
  <1>5. QED
    BY <1>2, <1>3, <1>4 DEF Apply

\* Both kinds of provider decide.
LEMMA DecisionsType ==
  ASSUME NEW r \in Run
  PROVE  Decisions(r) \subseteq Decision
  <1>1. RuleBased(r) \in Decision
    BY ZenonT(30) DEF RuleBased, Decision
  <1>2. QED
    BY <1>1 DEF Decisions

LEMMA StartType ==
  ASSUME TypeOK, NoneAssumption, NEW x \in Runs, Start(x)
  PROVE  TypeOK'
  <1>1. PICK p \in {"rule_based", "remote"}, i \in Inquiries \cup {None, Missing},
             c \in Conversations \cup {None} :
          /\ run' = [run EXCEPT ![x] = Fresh(p, i, c)]
          /\ held' = [held EXCEPT ![x] = c # None /\ takeover[c]]
    BY DEF Start
  <1>2. Fresh(p, i, c) \in Run
    BY DEF Fresh, Run, Nodes, Stages
  <1>3. (c # None /\ takeover[c]) \in BOOLEAN
    BY DEF TypeOK
  <1>4. QED
    BY <1>1, <1>2, <1>3 DEF TypeOK, Start

LEMMA ReceiveType ==
  ASSUME TypeOK, ConversationsAssumption, NEW x \in Runs, ReceiveInquiry(x),
         ~End(x, "raised")
  PROVE  TypeOK'
  <1>1. Goto(x, Resolved(run[x]), "qualify") /\ UNCHANGED <<profile, active, takeover, writer, held>>
    BY DEF ReceiveInquiry
  <1>2. run' \in [Runs -> Run]
    BY <1>1, ResolvedType, GotoType DEF TypeOK, Nodes, Stages
  <1>3. QED
    BY <1>1, <1>2 DEF TypeOK

LEMMA QualifyType ==
  ASSUME TypeOK, NEW x \in Runs, QualifyInquiry(x)
  PROVE  TypeOK'
  <1>1. run[x] \in Run
    BY DEF TypeOK
  <1>2. CASE NeedHandoff(x, run[x])
    <2>1. [run[x] EXCEPT !.review = TRUE] \in Run
      BY <1>1 DEF Run
    <2>2. QED
      BY <1>2, <2>1, GotoType DEF NeedHandoff, QualifyInquiry, TypeOK, Nodes
  <1>3. CASE \E d \in Decisions([run[x] EXCEPT !.grade = Grade(profile[run[x].inq])]) :
               Goto(x, Apply([run[x] EXCEPT !.grade = Grade(profile[run[x].inq])], d),
                    IF d.review THEN "handoff" ELSE "understand")
    <2> DEFINE scored == [run[x] EXCEPT !.grade = Grade(profile[run[x].inq])]
    <2>1. scored \in Run
      BY <1>1 DEF Run, Grade
    <2>2. PICK d \in Decisions(scored) :
            Goto(x, Apply(scored, d), IF d.review THEN "handoff" ELSE "understand")
      BY <1>3
    <2>3. Apply(scored, d) \in Run
      BY <2>1, DecisionsType, ApplyType
    <2>4. QED
      BY <2>2, <2>3, GotoType DEF QualifyInquiry, TypeOK, Nodes, Stages
  <1>4. QED
    BY <1>2, <1>3 DEF QualifyInquiry

\* What is found is in the catalog.
LEMMA MatchesType ==
  ASSUME NEW text, NEW S \in SUBSET Products
  PROVE  MatchProduct(text, S) \in SUBSET Products
  BY DEF MatchProduct

LEMMA UnderstandType ==
  ASSUME TypeOK, NEW x \in Runs, UnderstandRequirement(x)
  PROVE  TypeOK'
  <1> DEFINE r == [run[x] EXCEPT !.matches = MatchProduct(profile[run[x].inq], active),
                                 !.catalog = active]
  <1>1. r \in Run
    <2>1. MatchProduct(profile[run[x].inq], active) \in SUBSET Products
      BY MatchesType DEF TypeOK
    <2>2. QED
      BY <2>1, MatchedType DEF TypeOK
  <1>2. PICK d \in Decisions(r) : Goto(x, Apply(r, d), IF d.review THEN "handoff" ELSE "quote")
    BY DEF UnderstandRequirement
  <1>3. Apply(r, d) \in Run
    BY <1>1, DecisionsType, ApplyType
  <1>4. QED
    BY <1>2, <1>3, GotoType DEF UnderstandRequirement, TypeOK, Nodes, Stages

LEMMA NeedHandoffType ==
  ASSUME NEW x \in Runs, run \in [Runs -> Run], NEW r \in Run, NeedHandoff(x, r)
  PROVE  run' \in [Runs -> Run]
  <1>1. [r EXCEPT !.review = TRUE] \in Run
    BY DEF Run
  <1>2. QED
    BY <1>1, GotoType DEF NeedHandoff, Nodes

LEMMA QuotedType ==
  ASSUME NEW x \in Runs, run \in [Runs -> Run], NEW r \in Run,
         writer \in Runs \cup {None, Other}, Quoted(x, r)
  PROVE  run' \in [Runs -> Run] /\ writer' \in Runs \cup {None, Other}
  <1>1. CASE NeedHandoff(x, r) /\ UNCHANGED writer
    BY <1>1, NeedHandoffType
  <1>2. CASE Lock(x) /\ \E p \in First(profile[r.inq], r.matches) :
               LET drafted == [r EXCEPT !.product = p, !.draft = "quote"] IN
               \/ Goto(x, [drafted EXCEPT !.quote = "ok"], "answer")
               \/ NeedHandoff(x, [drafted EXCEPT !.quote = "floor"])
    <2>1. PICK p \in First(profile[r.inq], r.matches) :
            \/ Goto(x, [[r EXCEPT !.product = p, !.draft = "quote"] EXCEPT !.quote = "ok"],
                    "answer")
            \/ NeedHandoff(x, [[r EXCEPT !.product = p, !.draft = "quote"]
                                  EXCEPT !.quote = "floor"])
      BY <1>2
    <2>2. p \in Products
      BY DEF First, Run
    <2>3. /\ [[r EXCEPT !.product = p, !.draft = "quote"] EXCEPT !.quote = "ok"] \in Run
          /\ [[r EXCEPT !.product = p, !.draft = "quote"] EXCEPT !.quote = "floor"] \in Run
      BY <2>2, DraftedType
    <2>4. run' \in [Runs -> Run]
      BY <2>1, <2>3, GotoType, NeedHandoffType DEF Nodes, Stages
    <2>5. QED
      BY <1>2, <2>4 DEF Lock
  <1>3. QED
    BY <1>1, <1>2 DEF Quoted

LEMMA QuoteType ==
  ASSUME TypeOK, NEW x \in Runs, ReplyWithQuote(x)
  PROVE  TypeOK'
  <1>1. PICK d \in Decisions(run[x]) :
          \/ d.review /\ Goto(x, Apply(run[x], d), "handoff") /\ UNCHANGED writer
          \/ Quoted(x, Apply(run[x], d))
          \/ /\ Goto(x, [Apply(run[x], d) EXCEPT
                          !.draft = IF Apply(run[x], d).draft = "none" THEN "fallback"
                                    ELSE Apply(run[x], d).draft], "answer")
             /\ UNCHANGED writer
    BY DEF ReplyWithQuote
  <1> DEFINE r == Apply(run[x], d)
  <1>2. r \in Run
    BY DecisionsType, ApplyType DEF TypeOK
  <1>3. [r EXCEPT !.draft = IF r.draft = "none" THEN "fallback" ELSE r.draft] \in Run
    BY <1>2 DEF Run
  <1>4. run' \in [Runs -> Run] /\ writer' \in Runs \cup {None, Other}
    <2> HIDE DEF r
    <2>1. QED
      BY <1>1, <1>2, <1>3, GotoType, QuotedType DEF TypeOK, Nodes, Stages, r
  <1>5. QED
    BY <1>4 DEF ReplyWithQuote, TypeOK

LEMMA AnswerType ==
  ASSUME TypeOK, NEW x \in Runs, NegotiateAndAnswer(x)
  PROVE  TypeOK'
  <1>1. PICK d \in Decisions(run[x]) :
          \/ Goto(x, Apply(run[x], d), "handoff")
          \/ Goto(x, Apply(run[x], d), "persist")
          \/ Load(x, Apply(run[x], d), "send")
    BY DEF NegotiateAndAnswer
  <1> DEFINE r == Apply(run[x], d)
  <1>2. r \in Run
    BY DecisionsType, ApplyType DEF TypeOK
  <1>3. run' \in [Runs -> Run]
    <2> HIDE DEF r
    <2>1. CASE Load(x, r, "send")
      BY <1>2, <2>1, ReadType, GotoType DEF Load, TypeOK, Nodes
    <2>2. CASE Goto(x, r, "handoff") \/ Goto(x, r, "persist")
      BY <1>2, <2>2, GotoType DEF TypeOK, Nodes
    <2>3. QED
      BY <1>1, <2>1, <2>2 DEF r
  <1>4. QED
    BY <1>3 DEF NegotiateAndAnswer, TypeOK

LEMMA SendType ==
  ASSUME TypeOK, NEW x \in Runs, SendMessage(x)
  PROVE  TypeOK'
  <1>1. run[x] \in Run
    BY DEF TypeOK
  <1>2. /\ [run[x] EXCEPT !.effect = "parked", !.review = TRUE] \in Run
        /\ [run[x] EXCEPT !.effect = "sent"] \in Run
    <2>1. [run[x] EXCEPT !.effect = "parked", !.review = TRUE] \in Run
      BY <1>1, ParkedType
    <2>2. [run[x] EXCEPT !.effect = "sent"] \in Run
      BY <1>1 DEF Run
    <2>3. QED
      BY <2>1, <2>2
  <1>3. \/ Goto(x, [run[x] EXCEPT !.effect = "parked", !.review = TRUE], "persist")
        \/ Goto(x, [run[x] EXCEPT !.effect = "sent"], "followup")
    BY DEF SendMessage
  <1>4. run' \in [Runs -> Run]
    BY <1>2, <1>3, GotoType DEF TypeOK, Nodes
  <1>5. writer' \in Runs \cup {None, Other}
    BY DEF SendMessage, Lock
  <1>6. QED
    BY <1>4, <1>5 DEF SendMessage, TypeOK

LEMMA EndType ==
  ASSUME TypeOK, NEW x \in Runs, NEW node \in {"raised", "lost"}, End(x, node)
  PROVE  TypeOK'
  <1>1. run' \in [Runs -> Run]
    BY GotoType DEF End, TypeOK
  <1>2. QED
    BY <1>1 DEF End, TypeOK

LEMMA FollowupType ==
  ASSUME TypeOK, NEW x \in Runs, ScheduleFollowup(x)
  PROVE  TypeOK'
  <1>1. CASE End(x, "raised")
    BY <1>1, EndType
  <1>2. CASE /\ Goto(x, [run[x] EXCEPT !.task = TRUE], "persist")
             /\ UNCHANGED <<profile, active, takeover, writer, held>>
    <2>1. [run[x] EXCEPT !.task = TRUE] \in Run
      <3>1. run[x] \in Run
        BY DEF TypeOK
      <3>2. QED
        BY <3>1 DEF Run
    <2>2. run' \in [Runs -> Run]
      BY <1>2, <2>1, GotoType DEF TypeOK, Nodes
    <2>3. QED
      BY <1>2, <2>2 DEF TypeOK
  <1>3. QED
    BY <1>1, <1>2 DEF ScheduleFollowup

LEMMA HandoffType ==
  ASSUME TypeOK, NEW x \in Runs, RequestHumanHandoff(x)
  PROVE  TypeOK'
  <1> DEFINE r == [run[x] EXCEPT !.review = TRUE]
  <1>1. r \in Run
    <2>1. run[x] \in Run
      BY DEF TypeOK
    <2>2. QED
      BY <2>1 DEF Run
  <1>2. Load(x, r, "park") \/ Goto(x, r, "persist")
    BY DEF RequestHumanHandoff
  <1>3. run' \in [Runs -> Run]
    <2> HIDE DEF r
    <2>1. CASE Load(x, r, "park")
      BY <1>1, <2>1, ReadType, GotoType DEF Load, TypeOK, Nodes
    <2>2. CASE Goto(x, r, "persist")
      BY <1>1, <2>2, GotoType DEF TypeOK, Nodes
    <2>3. QED
      BY <1>2, <2>1, <2>2
  <1>4. QED
    BY <1>3 DEF RequestHumanHandoff, TypeOK

LEMMA ParkType ==
  ASSUME TypeOK, NEW x \in Runs, RequestHandoff(x)
  PROVE  TypeOK'
  <1>1. [run[x] EXCEPT !.effect = "parked"] \in Run
    <2>1. run[x] \in Run
      BY DEF TypeOK
    <2>2. QED
      BY <2>1 DEF Run
  <1>2. run' \in [Runs -> Run]
    BY <1>1, GotoType DEF RequestHandoff, TypeOK, Nodes
  <1>3. writer' \in Runs \cup {None, Other}
    BY DEF RequestHandoff, Lock
  <1>4. QED
    BY <1>2, <1>3 DEF RequestHandoff, TypeOK

LEMMA PersistType ==
  ASSUME TypeOK, NEW x \in Runs, PersistMemory(x)
  PROVE  TypeOK'
  <1>1. run' \in [Runs -> Run]
    BY GotoType DEF PersistMemory, TypeOK
  <1>2. QED
    BY <1>1 DEF PersistMemory, TypeOK

LEMMA CommitType ==
  ASSUME TypeOK, NEW x \in Runs, Commit(x)
  PROVE  TypeOK'
  <1>1. run' \in [Runs -> Run]
    BY GotoType DEF Commit, TypeOK
  <1>2. takeover' \in [Conversations -> BOOLEAN]
    BY DEF Commit, TypeOK
  <1>3. QED
    BY <1>1, <1>2 DEF Commit, TypeOK

LEMMA OthersType ==
  ASSUME TypeOK,
         \/ OtherBegins \/ OtherEnds \/ (\E c \in Conversations : SetTakeover(c))
         \/ (\E p \in Products : Shelve(p))
  PROVE  TypeOK'
  <1>1. CASE OtherBegins \/ OtherEnds
    BY <1>1 DEF OtherBegins, OtherEnds, TypeOK
  <1>2. ASSUME NEW c \in Conversations, SetTakeover(c)
        PROVE  TypeOK'
    <2>1. takeover' \in [Conversations -> BOOLEAN]
      BY <1>2 DEF SetTakeover, TypeOK
    <2>2. held' \in [Runs -> BOOLEAN]
      <3>1. \A x \in Runs : (held[x] /\ (run[x].conv = c => takeover'[c])) \in BOOLEAN
        BY DEF TypeOK
      <3>2. QED
        BY <1>2, <3>1 DEF SetTakeover
    <2>3. QED
      BY <1>2, <2>1, <2>2 DEF SetTakeover, TypeOK
  <1>3. ASSUME NEW p \in Products, Shelve(p)
        PROVE  TypeOK'
    BY <1>3 DEF Shelve, TypeOK
  <1>4. QED
    BY <1>1, <1>2, <1>3

LEMMA StepType ==
  ASSUME TypeOK, NoneAssumption, ConversationsAssumption, NEW x \in Runs,
         Step(x) \/ CommitFails(x)
  PROVE  TypeOK'
  <1>1. CASE End(x, "raised") \/ CommitFails(x)
    BY <1>1, EndType DEF CommitFails
  <1>2. QED
    BY <1>1, ReceiveType, QualifyType, UnderstandType, QuoteType, AnswerType, SendType,
       FollowupType, HandoffType, ParkType, PersistType, CommitType
       DEF Step, ProviderFails, BusyFails

LEMMA NextType ==
  ASSUME TypeOK, NoneAssumption, ConversationsAssumption, [Next]_vars
  PROVE  TypeOK'
  <1>1. CASE UNCHANGED vars
    BY <1>1 DEF vars, TypeOK
  <1>2. CASE Next
    BY <1>2, StartType, StepType, OthersType DEF Next
  <1>3. QED
    BY <1>1, <1>2

LEMMA InitType ==
  ASSUME Init
  PROVE  TypeOK
  BY DEF Init, TypeOK, Fresh, Run, Nodes, Stages

\* Whatever a provider decides, every variable keeps its type.
THEOREM TypeCorrect == Spec => []TypeOK
  <1>1. TypeOK /\ [Next]_vars => TypeOK'
    BY NextType, NoneAssumption, ConversationsAssumption
  <1>2. QED
    BY <1>1, InitType, PTL DEF Spec

------------------------------------------------------------------------------
(* What a step of a run does to its conversation *)

Same(x) ==
  /\ run'[x].effect = run[x].effect /\ run'[x].review = run[x].review
  /\ run'[x].inq = run[x].inq /\ run'[x].read = run[x].read

\* It goes on, or asks for a person; in the end it is about to write.
Thinks(x) ==
  /\ run[x].node \in Stages \cup {"receive", "handoff"}
  /\ run'[x].node \in Stages \cup {"send", "handoff", "park"}
  /\ run[x].node = "handoff" => run'[x].node = "park"
  /\ run'[x].node \in {"send", "park"} => run[x].conv # None /\ run'[x].read # "unread"
  /\ run'[x].effect = run[x].effect
  /\ run'[x].review <=> run'[x].node \in {"handoff", "park"}

Sends(x) ==
  /\ run[x].node = "send" /\ run[x].conv # None /\ run'[x].node = "followup"
  /\ run'[x].effect = "sent" /\ ~run'[x].review
  /\ run'[x].read # "held" /\ run'[x].read # "unread" /\ writer' = x

Parks(x) ==
  /\ run[x].node \in {"send", "park"} /\ run[x].conv # None /\ run'[x].node = "persist"
  /\ run'[x].effect = "parked" /\ run'[x].review

\* Without a conversation there is nothing to send or to park.
Leaves(x) ==
  /\ run[x].node \in {"answer", "handoff"} /\ run[x].conv = None /\ run'[x].node = "persist"
  /\ run'[x].effect = run[x].effect /\ run'[x].review = run[x].review

Records(x) ==
  /\ run[x].node \in {"followup", "persist"} /\ Same(x) /\ writer' = writer
  /\ run'[x].node = IF run[x].node = "followup" THEN "persist" ELSE "end"

Commits(x) == run[x].node = "end" /\ run'[x].node = "committed" /\ Same(x)

Fails(x) ==
  /\ run[x].node \in Nodes \cup {"end"} /\ Same(x)
  /\ run'[x].node \in {"raised", "lost"}
  /\ run'[x].node = "raised" =>
       \/ run[x].node \in Stages \cup {"receive"}
       \/ run[x].node = "followup" /\ run[x].inq # InquiryOf[run[x].conv]
       \/ writer # x

\* The flag is what was loaded, or is stored now; the lock is free or the run's own where it is
\* taken or released, and a conversation is taken over but never given back.
Moves(x) ==
  /\ run' = [run EXCEPT ![x] = run'[x]] /\ held' = held
  /\ run'[x].conv = run[x].conv
  /\ \/ run'[x].read = run[x].read
     \/ run[x].conv # None /\ run'[x].read = Flag(run[x].conv)
  /\ writer' = writer \/ writer \in {None, x}
  /\ \A c \in Conversations : takeover[c] => takeover'[c]
  /\ \/ Thinks(x) \/ Sends(x) \/ Parks(x) \/ Leaves(x) \/ Records(x) \/ Commits(x)
     \/ Fails(x)

Placed(x) ==
  LET r == run[x] IN
  /\ r.node \in Stages \cup {"receive", "send", "handoff", "park"} => r.effect = "none"
  /\ r.node \in Stages \cup {"receive", "send"} => ~r.review
  /\ r.node \in {"handoff", "park"} => r.review
  /\ r.node \in {"send", "park"} => r.conv # None /\ r.read # "unread"
  /\ r.node = "followup" => r.effect = "sent"
  /\ r.node \in {"persist", "end"} /\ r.conv # None => r.effect # "none"
  /\ r.effect # "none" => r.conv # None /\ (r.review <=> r.effect = "parked")
  /\ r.effect = "sent" /\ r.node \in {"followup", "persist", "end"} => writer = x
  /\ r.effect = "sent" /\ r.node = "raised" => r.inq # InquiryOf[r.conv]

Watched(x) ==
  /\ held[x] => run[x].conv # None /\ takeover[run[x].conv]
  /\ run[x].read = "free" => ~held[x]
  /\ run[x].effect = "sent" => run[x].read = "free"

LEMMA GotoMoves ==
  ASSUME TypeOK, NEW x \in Runs, NEW r, NEW node, Goto(x, r, node)
  PROVE  run'[x] = [r EXCEPT !.node = node] /\ run' = [run EXCEPT ![x] = run'[x]]
  BY DEF Goto, TypeOK

LEMMA LoadMoves ==
  ASSUME TypeOK, NEW x \in Runs, NEW r \in Run, NEW node, Load(x, r, node)
  PROVE  /\ run' = [run EXCEPT ![x] = run'[x]] /\ run'[x].node = node
         /\ run'[x].conv = r.conv /\ run'[x].inq = r.inq /\ run'[x].effect = r.effect
         /\ run'[x].review = r.review /\ run'[x].read # "unread"
         /\ run'[x].read = r.read \/ run'[x].read = Flag(r.conv)
  <1>1. PICK flag \in Reads(r) : Goto(x, [r EXCEPT !.read = flag], node)
    BY DEF Load
  <1> DEFINE s == [r EXCEPT !.read = flag]
  <1>2. /\ s \in Run /\ s.conv = r.conv /\ s.inq = r.inq /\ s.effect = r.effect
        /\ s.review = r.review /\ s.read = flag
    BY ReadType DEF Run
  <1>3. flag # "unread" /\ (flag = r.read \/ flag = Flag(r.conv))
    BY DEF Reads
  <1>4. Goto(x, s, node)
    BY <1>1
  <1> HIDE DEF s
  <1>5. run'[x] = [s EXCEPT !.node = node] /\ run' = [run EXCEPT ![x] = run'[x]]
    BY <1>4, GotoMoves
  <1>6. /\ run'[x].node = node /\ run'[x].conv = s.conv /\ run'[x].inq = s.inq
        /\ run'[x].effect = s.effect /\ run'[x].review = s.review /\ run'[x].read = s.read
    BY <1>2, <1>5 DEF Run
  <1>7. QED
    BY <1>2, <1>3, <1>5, <1>6

LEMMA ApplyMoves ==
  ASSUME NEW r \in Run, NEW d \in Decision
  PROVE  /\ Apply(r, d).conv = r.conv /\ Apply(r, d).inq = r.inq /\ Apply(r, d).read = r.read
         /\ Apply(r, d).effect = r.effect /\ Apply(r, d).matches = r.matches
         /\ Apply(r, d).review <=> (r.review \/ d.review)
  BY DEF Apply, Run

LEMMA ReceiveMoves ==
  ASSUME TypeOK, ConversationsAssumption, NEW x \in Runs, Placed(x), ReceiveInquiry(x),
         ~End(x, "raised")
  PROVE  Moves(x)
  <1> DEFINE s == Resolved(run[x])
  <1>1. run[x] \in Run /\ run[x].node = "receive" /\ UNCHANGED <<takeover, writer, held>>
    BY DEF TypeOK, ReceiveInquiry
  <1>2. Goto(x, s, "qualify")
    BY DEF ReceiveInquiry
  <1>3. /\ s.conv = run[x].conv /\ s.effect = run[x].effect
        /\ s.review = run[x].review /\ s \in Run
        /\ \/ s.read = run[x].read
           \/ run[x].conv # None /\ s.read = Flag(run[x].conv)
    BY <1>1, ResolvedType
  <1> HIDE DEF s
  <1>4. run'[x] = [s EXCEPT !.node = "qualify"] /\ run' = [run EXCEPT ![x] = run'[x]]
    BY <1>2, GotoMoves
  <1>5. /\ run'[x].conv = s.conv /\ run'[x].effect = s.effect /\ run'[x].review = s.review
        /\ run'[x].read = s.read /\ run'[x].node = "qualify"
    BY <1>3, <1>4 DEF Run
  <1>6. ~run[x].review
    BY <1>1 DEF Placed
  <1>7. Thinks(x)
    BY <1>1, <1>3, <1>5, <1>6 DEF Thinks, Stages
  <1>8. QED
    BY <1>1, <1>3, <1>4, <1>5, <1>7 DEF Moves

LEMMA NeedHandoffMoves ==
  ASSUME TypeOK, NEW x \in Runs, NEW r \in Run, NeedHandoff(x, r)
  PROVE  /\ run' = [run EXCEPT ![x] = run'[x]]
         /\ run'[x].conv = r.conv /\ run'[x].read = r.read /\ run'[x].effect = r.effect
         /\ run'[x].node = "handoff" /\ run'[x].review
  <1>1. run'[x] = [[r EXCEPT !.review = TRUE] EXCEPT !.node = "handoff"]
        /\ run' = [run EXCEPT ![x] = run'[x]]
    BY GotoMoves DEF NeedHandoff
  <1>2. QED
    BY <1>1 DEF Run

\* A decision at x, after which the run goes to the node it names or to a person.
LEMMA DecisionMoves ==
  ASSUME TypeOK, NEW x \in Runs, Placed(x), run[x].node \in Stages,
         NEW r \in Run, r.conv = run[x].conv, r.read = run[x].read,
         r.effect = run[x].effect, r.review = run[x].review,
         NEW d \in Decision, NEW node \in Stages,
         Goto(x, Apply(r, d), IF d.review THEN "handoff" ELSE node),
         UNCHANGED <<takeover, held>>, writer' = writer
  PROVE  Moves(x)
  <1> DEFINE a == Apply(r, d)
             n == IF d.review THEN "handoff" ELSE node
  <1>1. run'[x] = [a EXCEPT !.node = n] /\ run' = [run EXCEPT ![x] = run'[x]]
    BY GotoMoves
  <1>2. /\ a \in Run /\ a.conv = run[x].conv /\ a.read = run[x].read
        /\ a.effect = run[x].effect /\ (a.review <=> d.review)
    BY ApplyMoves, ApplyType DEF Placed
  <1>3. (d.review => n = "handoff") /\ (~d.review => n \in Stages /\ n # "handoff")
    BY DEF Stages
  <1> HIDE DEF a, n
  <1>4. /\ run'[x].conv = a.conv /\ run'[x].read = a.read /\ run'[x].effect = a.effect
        /\ run'[x].review = a.review /\ run'[x].node = n
    BY <1>1, <1>2 DEF Run
  <1>5. Thinks(x)
    BY <1>2, <1>3, <1>4 DEF Thinks, Stages
  <1>6. QED
    BY <1>1, <1>2, <1>4, <1>5 DEF Moves

LEMMA QualifyMoves ==
  ASSUME TypeOK, NEW x \in Runs, Placed(x), QualifyInquiry(x)
  PROVE  Moves(x)
  <1>1. run[x] \in Run
    BY DEF TypeOK
  <1>2. CASE NeedHandoff(x, run[x])
    BY <1>1, <1>2, NeedHandoffMoves DEF QualifyInquiry, Moves, Thinks, Stages
  <1> DEFINE r == [run[x] EXCEPT !.grade = Grade(profile[run[x].inq])]
  <1>3. CASE \E d \in Decisions(r) :
               Goto(x, Apply(r, d), IF d.review THEN "handoff" ELSE "understand")
    <2>1. r \in Run
      BY <1>1 DEF Run, Grade
    <2>2. /\ r.conv = run[x].conv /\ r.read = run[x].read /\ r.effect = run[x].effect
          /\ r.review = run[x].review
      BY <1>1 DEF Run
    <2>3. PICK d \in Decision :
            Goto(x, Apply(r, d), IF d.review THEN "handoff" ELSE "understand")
      BY <1>3, <2>1, DecisionsType
    <2> HIDE DEF r
    <2>4. QED
      BY <2>1, <2>2, <2>3, DecisionMoves DEF QualifyInquiry, Stages
  <1>4. QED
    BY <1>2, <1>3 DEF QualifyInquiry

LEMMA UnderstandMoves ==
  ASSUME TypeOK, NEW x \in Runs, Placed(x), UnderstandRequirement(x)
  PROVE  Moves(x)
  <1> DEFINE r == [run[x] EXCEPT !.matches = MatchProduct(profile[run[x].inq], active),
                                 !.catalog = active]
  <1>1. run[x] \in Run /\ r \in Run
    BY MatchesType, MatchedType DEF TypeOK
  <1>2. /\ r.conv = run[x].conv /\ r.read = run[x].read /\ r.effect = run[x].effect
        /\ r.review = run[x].review
    BY <1>1 DEF Run
  <1>3. PICK d \in Decision : Goto(x, Apply(r, d), IF d.review THEN "handoff" ELSE "quote")
    BY <1>1, DecisionsType DEF UnderstandRequirement
  <1> HIDE DEF r
  <1>4. QED
    BY <1>1, <1>2, <1>3, DecisionMoves DEF UnderstandRequirement, Stages

LEMMA QuoteMoves ==
  ASSUME TypeOK, NoneAssumption, NEW x \in Runs, Placed(x), ReplyWithQuote(x)
  PROVE  Moves(x)
  <1>1. run[x] \in Run
    BY DEF TypeOK
  <1>2. PICK d \in Decision :
          \/ d.review /\ Goto(x, Apply(run[x], d), "handoff") /\ UNCHANGED writer
          \/ ~d.review /\ Quoted(x, Apply(run[x], d))
          \/ /\ ~d.review
             /\ Goto(x, [Apply(run[x], d) EXCEPT
                          !.draft = IF Apply(run[x], d).draft = "none" THEN "fallback"
                                    ELSE Apply(run[x], d).draft], "answer")
             /\ UNCHANGED writer
    BY <1>1, DecisionsType DEF ReplyWithQuote
  <1> DEFINE r == Apply(run[x], d)
  <1>3. /\ r \in Run /\ r.conv = run[x].conv /\ r.read = run[x].read
        /\ r.effect = run[x].effect /\ (r.review <=> d.review)
    BY <1>1, ApplyMoves, ApplyType DEF Placed, ReplyWithQuote, Stages
  <1>4. CASE d.review /\ Goto(x, r, "handoff") /\ UNCHANGED writer
    BY <1>1, <1>4, DecisionMoves DEF ReplyWithQuote, Stages
  <1>5. CASE ~d.review /\ Quoted(x, r)
    <2> HIDE DEF r
    <2>1. CASE NeedHandoff(x, r) /\ UNCHANGED writer
      BY <1>3, <2>1, NeedHandoffMoves DEF ReplyWithQuote, Moves, Thinks, Stages
    <2>2. CASE /\ Lock(x)
               /\ \E p \in First(profile[r.inq], r.matches) :
                    LET drafted == [r EXCEPT !.product = p, !.draft = "quote"] IN
                    \/ Goto(x, [drafted EXCEPT !.quote = "ok"], "answer")
                    \/ NeedHandoff(x, [drafted EXCEPT !.quote = "floor"])
      <3>1. PICK p \in Products, quote \in {"ok", "floor"} :
              LET s == [[r EXCEPT !.product = p, !.draft = "quote"] EXCEPT !.quote = quote] IN
              Goto(x, s, "answer") \/ NeedHandoff(x, s)
        BY <1>3, <2>2 DEF First, Run
      <3> DEFINE s == [[r EXCEPT !.product = p, !.draft = "quote"] EXCEPT !.quote = quote]
      <3>2. s \in Run
        BY <1>3, DraftedType
      <3>3. /\ s.conv = r.conv /\ s.read = r.read /\ s.effect = r.effect
            /\ s.review = r.review
        BY <1>3 DEF Run
      <3>4. Goto(x, s, "answer") \/ NeedHandoff(x, s)
        BY <3>1
      <3> HIDE DEF s
      <3>5. CASE NeedHandoff(x, s)
        BY <1>3, <2>2, <3>2, <3>3, <3>5, NeedHandoffMoves
           DEF ReplyWithQuote, Moves, Thinks, Stages, Lock
      <3>6. CASE Goto(x, s, "answer")
        <4>1. run'[x] = [s EXCEPT !.node = "answer"] /\ run' = [run EXCEPT ![x] = run'[x]]
          BY <3>6, GotoMoves
        <4>2. /\ run'[x].conv = s.conv /\ run'[x].read = s.read /\ run'[x].effect = s.effect
              /\ run'[x].review = s.review /\ run'[x].node = "answer"
          BY <3>2, <4>1 DEF Run
        <4>3. QED
          BY <1>3, <1>5, <2>2, <3>3, <4>1, <4>2 DEF ReplyWithQuote, Moves, Thinks, Stages, Lock
      <3>7. QED
        BY <3>4, <3>5, <3>6
    <2>3. QED
      BY <1>5, <2>1, <2>2 DEF Quoted
  <1>6. CASE /\ ~d.review /\ UNCHANGED writer
             /\ Goto(x, [r EXCEPT !.draft = IF r.draft = "none" THEN "fallback" ELSE r.draft],
                     "answer")
    <2> HIDE DEF r
    <2> DEFINE s == [r EXCEPT !.draft = IF r.draft = "none" THEN "fallback" ELSE r.draft]
    <2>1. /\ s \in Run /\ s.conv = r.conv /\ s.read = r.read /\ s.effect = r.effect
          /\ s.review = r.review
      BY <1>3 DEF Run
    <2>2. Goto(x, s, "answer")
      BY <1>6
    <2> HIDE DEF s
    <2>3. run'[x] = [s EXCEPT !.node = "answer"] /\ run' = [run EXCEPT ![x] = run'[x]]
      BY <2>2, GotoMoves
    <2>4. /\ run'[x].conv = s.conv /\ run'[x].read = s.read /\ run'[x].effect = s.effect
          /\ run'[x].review = s.review /\ run'[x].node = "answer"
      BY <2>1, <2>3 DEF Run
    <2>5. QED
      BY <1>3, <1>6, <2>1, <2>3, <2>4 DEF ReplyWithQuote, Moves, Thinks, Stages
  <1>7. QED
    BY <1>2, <1>4, <1>5, <1>6

LEMMA AnswerMoves ==
  ASSUME TypeOK, NEW x \in Runs, Placed(x), NegotiateAndAnswer(x)
  PROVE  Moves(x)
  <1>1. /\ run[x] \in Run /\ run[x].node = "answer" /\ run[x].review = FALSE
        /\ UNCHANGED <<takeover, writer, held>>
    BY DEF TypeOK, Placed, NegotiateAndAnswer, Stages, Run
  <1>2. PICK d \in Decision :
          LET r == Apply(run[x], d) IN
          \/ d.review /\ Goto(x, r, "handoff")
          \/ ~d.review /\ r.conv = None /\ Goto(x, r, "persist")
          \/ ~d.review /\ r.conv # None /\ Load(x, r, "send")
    BY <1>1, DecisionsType DEF NegotiateAndAnswer
  <1> DEFINE r == Apply(run[x], d)
  <1>3. /\ r \in Run /\ r.conv = run[x].conv /\ r.read = run[x].read /\ r.inq = run[x].inq
        /\ r.effect = run[x].effect /\ (r.review <=> d.review) /\ r.review \in BOOLEAN
    BY <1>1, ApplyMoves, ApplyType DEF Run
  <1>4. CASE d.review /\ Goto(x, r, "handoff")
    BY <1>1, <1>4, DecisionMoves DEF Stages
  <1>5. CASE ~d.review /\ r.conv = None /\ Goto(x, r, "persist")
    <2> HIDE DEF r
    <2>1. run'[x] = [r EXCEPT !.node = "persist"] /\ run' = [run EXCEPT ![x] = run'[x]]
      BY <1>5, GotoMoves
    <2>2. /\ run'[x].conv = r.conv /\ run'[x].read = r.read /\ run'[x].effect = r.effect
          /\ run'[x].review = r.review /\ run'[x].node = "persist"
      BY <1>3, <2>1 DEF Run
    <2>3. Leaves(x)
      BY <1>1, <1>3, <1>5, <2>2 DEF Leaves
    <2>4. QED
      BY <1>1, <1>3, <2>1, <2>2, <2>3 DEF Moves
  <1>6. CASE ~d.review /\ r.conv # None /\ Load(x, r, "send")
    <2> HIDE DEF r
    <2>1. /\ run' = [run EXCEPT ![x] = run'[x]] /\ run'[x].node = "send"
          /\ run'[x].conv = r.conv /\ run'[x].effect = r.effect
          /\ run'[x].review = r.review /\ run'[x].read # "unread"
          /\ run'[x].read = r.read \/ run'[x].read = Flag(r.conv)
      BY <1>3, <1>6, LoadMoves
    <2>2. Thinks(x)
      BY <1>1, <1>3, <1>6, <2>1 DEF Thinks, Stages
    <2>3. QED
      BY <1>1, <1>3, <1>6, <2>1, <2>2 DEF Moves
  <1>7. QED
    BY <1>2, <1>4, <1>5, <1>6

LEMMA SendMoves ==
  ASSUME TypeOK, NEW x \in Runs, Placed(x), SendMessage(x)
  PROVE  Moves(x)
  <1> DEFINE r == run[x]
  <1>1. /\ r \in Run /\ r.node = "send" /\ r.conv # None /\ r.read # "unread"
        /\ r.review = FALSE /\ UNCHANGED <<takeover, held>>
        /\ writer \in {None, x} /\ writer' = x
    BY DEF TypeOK, Placed, SendMessage, Lock, Run
  <1>2. \/ Goto(x, [r EXCEPT !.effect = "parked", !.review = TRUE], "persist")
        \/ r.read # "held" /\ Goto(x, [r EXCEPT !.effect = "sent"], "followup")
    BY DEF SendMessage, Guarded
  <1> HIDE DEF r
  <1>3. CASE Goto(x, [r EXCEPT !.effect = "parked", !.review = TRUE], "persist")
    <2> DEFINE s == [r EXCEPT !.effect = "parked", !.review = TRUE]
    <2>1. s \in Run
      BY <1>1, ParkedType
    <2>2. s.conv = r.conv /\ s.read = r.read /\ s.effect = "parked" /\ s.review
      BY <1>1 DEF Run
    <2>3. Goto(x, s, "persist")
      BY <1>3
    <2> HIDE DEF s
    <2>4. run'[x] = [s EXCEPT !.node = "persist"] /\ run' = [run EXCEPT ![x] = run'[x]]
      BY <2>3, GotoMoves
    <2>5. /\ run'[x].conv = s.conv /\ run'[x].read = s.read /\ run'[x].effect = "parked"
          /\ run'[x].review /\ run'[x].node = "persist"
      BY <2>1, <2>2, <2>4 DEF Run
    <2>6. Parks(x)
      BY <1>1, <2>5 DEF Parks, r
    <2>7. QED
      BY <1>1, <2>2, <2>4, <2>5, <2>6 DEF Moves, r
  <1>4. CASE r.read # "held" /\ Goto(x, [r EXCEPT !.effect = "sent"], "followup")
    <2> DEFINE s == [r EXCEPT !.effect = "sent"]
    <2>1. /\ s \in Run /\ s.conv = r.conv /\ s.read = r.read /\ s.effect = "sent"
          /\ s.review = r.review
      BY <1>1 DEF Run
    <2>2. Goto(x, s, "followup")
      BY <1>4
    <2> HIDE DEF s
    <2>3. run'[x] = [s EXCEPT !.node = "followup"] /\ run' = [run EXCEPT ![x] = run'[x]]
      BY <2>2, GotoMoves
    <2>4. /\ run'[x].conv = s.conv /\ run'[x].read = s.read /\ run'[x].effect = "sent"
          /\ run'[x].review = s.review /\ run'[x].node = "followup"
      BY <2>1, <2>3 DEF Run
    <2>5. Sends(x)
      BY <1>1, <1>4, <2>1, <2>4 DEF Sends, r
    <2>6. QED
      BY <1>1, <2>1, <2>3, <2>4, <2>5 DEF Moves, r
  <1>5. QED
    BY <1>2, <1>3, <1>4

LEMMA EndMoves ==
  ASSUME TypeOK, NEW x \in Runs, NEW node \in {"raised", "lost"}, End(x, node)
  PROVE  /\ run' = [run EXCEPT ![x] = run'[x]] /\ run'[x].node = node /\ Same(x)
         /\ run'[x].conv = run[x].conv /\ run'[x].read = run[x].read
  <1>1. run[x] \in Run
    BY DEF TypeOK
  <1>2. run'[x] = [run[x] EXCEPT !.node = node] /\ run' = [run EXCEPT ![x] = run'[x]]
    BY GotoMoves DEF End
  <1>3. QED
    BY <1>1, <1>2 DEF Same, Run

LEMMA FailMoves ==
  ASSUME TypeOK, NEW x \in Runs,
         \/ ProviderFails(x) \/ BusyFails(x) \/ CommitFails(x)
         \/ ReceiveInquiry(x) /\ End(x, "raised")
         \/ ScheduleFollowup(x) /\ run[x].inq # InquiryOf[run[x].conv]
  PROVE  Moves(x)
  <1>1. PICK node \in {"raised", "lost"} :
          /\ End(x, node) /\ run[x].node \in Nodes \cup {"end"}
          /\ node = "raised" =>
               \/ run[x].node \in Stages \cup {"receive"}
               \/ run[x].node = "followup" /\ run[x].inq # InquiryOf[run[x].conv]
               \/ writer # x
    BY DEF ProviderFails, BusyFails, Busy, CommitFails, ReceiveInquiry, ScheduleFollowup,
           Deciding, Nodes, Stages
  <1>2. Fails(x)
    BY <1>1, EndMoves DEF Fails
  <1>3. QED
    BY <1>1, <1>2, EndMoves DEF Moves, End

LEMMA FollowupMoves ==
  ASSUME TypeOK, NEW x \in Runs, ScheduleFollowup(x)
  PROVE  Moves(x)
  <1>1. run[x] \in Run
    BY DEF TypeOK
  <1>2. CASE run[x].inq = InquiryOf[run[x].conv]
    <2>1. /\ run'[x] = [[run[x] EXCEPT !.task = TRUE] EXCEPT !.node = "persist"]
          /\ run' = [run EXCEPT ![x] = run'[x]]
      BY <1>2, GotoMoves DEF ScheduleFollowup
    <2>2. /\ run'[x].conv = run[x].conv /\ run'[x].read = run[x].read /\ Same(x)
          /\ run'[x].node = "persist"
      BY <1>1, <2>1 DEF Run, Same
    <2>3. QED
      BY <1>2, <2>1, <2>2 DEF ScheduleFollowup, Moves, Records
  <1>3. QED
    BY <1>2, FailMoves

LEMMA HandoffMoves ==
  ASSUME TypeOK, NEW x \in Runs, Placed(x), RequestHumanHandoff(x)
  PROVE  Moves(x)
  <1> DEFINE r == [run[x] EXCEPT !.review = TRUE]
  <1>1. /\ run[x] \in Run /\ run[x].node = "handoff" /\ run[x].effect = "none"
        /\ run[x].review = TRUE /\ UNCHANGED <<takeover, writer, held>>
    BY DEF TypeOK, Placed, RequestHumanHandoff, Run
  <1>2. /\ r \in Run /\ r.conv = run[x].conv /\ r.read = run[x].read
        /\ r.effect = run[x].effect /\ r.review = TRUE
    BY <1>1 DEF Run
  <1>3. \/ run[x].conv # None /\ Load(x, r, "park")
        \/ run[x].conv = None /\ Goto(x, r, "persist")
    BY <1>1 DEF RequestHumanHandoff, ToPark
  <1> HIDE DEF r
  <1>4. CASE run[x].conv # None /\ Load(x, r, "park")
    <2>1. /\ run' = [run EXCEPT ![x] = run'[x]] /\ run'[x].node = "park"
          /\ run'[x].conv = r.conv /\ run'[x].effect = r.effect
          /\ run'[x].review = r.review /\ run'[x].read # "unread"
          /\ run'[x].read = r.read \/ run'[x].read = Flag(r.conv)
      BY <1>2, <1>4, LoadMoves
    <2>2. Thinks(x)
      BY <1>1, <1>2, <1>4, <2>1 DEF Thinks, Stages
    <2>3. QED
      BY <1>1, <1>2, <1>4, <2>1, <2>2 DEF Moves
  <1>5. CASE run[x].conv = None /\ Goto(x, r, "persist")
    <2>1. run'[x] = [r EXCEPT !.node = "persist"] /\ run' = [run EXCEPT ![x] = run'[x]]
      BY <1>5, GotoMoves
    <2>2. /\ run'[x].conv = r.conv /\ run'[x].read = r.read
          /\ run'[x].effect = r.effect /\ run'[x].review = TRUE /\ run'[x].node = "persist"
      BY <1>2, <2>1 DEF Run
    <2>3. Leaves(x)
      BY <1>1, <1>2, <1>5, <2>2 DEF Leaves
    <2>4. QED
      BY <1>1, <1>2, <2>1, <2>2, <2>3 DEF Moves
  <1>6. QED
    BY <1>3, <1>4, <1>5

LEMMA ParkMoves ==
  ASSUME TypeOK, NEW x \in Runs, Placed(x), RequestHandoff(x)
  PROVE  Moves(x)
  <1> DEFINE s == [run[x] EXCEPT !.effect = "parked"]
  <1>1. /\ run[x] \in Run /\ run[x].node = "park" /\ run[x].conv # None /\ run[x].review
        /\ UNCHANGED <<takeover, held>> /\ writer \in {None, x} /\ writer' = x
    BY DEF TypeOK, Placed, RequestHandoff, Lock
  <1>2. /\ s \in Run /\ s.conv = run[x].conv /\ s.read = run[x].read /\ s.effect = "parked"
        /\ s.review = run[x].review
    BY <1>1 DEF Run
  <1>3. Goto(x, s, "persist")
    BY DEF RequestHandoff
  <1> HIDE DEF s
  <1>4. run'[x] = [s EXCEPT !.node = "persist"] /\ run' = [run EXCEPT ![x] = run'[x]]
    BY <1>3, GotoMoves
  <1>5. /\ run'[x].conv = s.conv /\ run'[x].read = s.read /\ run'[x].effect = "parked"
        /\ run'[x].review = s.review /\ run'[x].node = "persist"
    BY <1>2, <1>4 DEF Run
  <1>6. Parks(x)
    BY <1>1, <1>2, <1>5 DEF Parks
  <1>7. QED
    BY <1>1, <1>2, <1>4, <1>5, <1>6 DEF Moves

LEMMA CloseMoves ==
  ASSUME TypeOK, NEW x \in Runs, PersistMemory(x) \/ Commit(x)
  PROVE  Moves(x)
  <1>1. run[x] \in Run
    BY DEF TypeOK
  <1>2. CASE PersistMemory(x)
    <2>1. run'[x] = [run[x] EXCEPT !.node = "end"] /\ run' = [run EXCEPT ![x] = run'[x]]
      BY <1>2, GotoMoves DEF PersistMemory
    <2>2. /\ run'[x].conv = run[x].conv /\ run'[x].read = run[x].read /\ Same(x)
          /\ run'[x].node = "end"
      BY <1>1, <2>1 DEF Run, Same
    <2>3. QED
      BY <1>2, <2>1, <2>2 DEF PersistMemory, Moves, Records
  <1>3. CASE Commit(x)
    <2>1. run'[x] = [run[x] EXCEPT !.node = "committed"] /\ run' = [run EXCEPT ![x] = run'[x]]
      BY <1>3, GotoMoves DEF Commit
    <2>2. /\ run'[x].conv = run[x].conv /\ run'[x].read = run[x].read /\ Same(x)
          /\ run'[x].node = "committed"
      BY <1>1, <2>1 DEF Run, Same
    <2>3. \A c \in Conversations : takeover[c] => takeover'[c]
      BY <1>3 DEF Commit, TypeOK
    <2>4. QED
      BY <1>3, <2>1, <2>2, <2>3 DEF Commit, Moves, Commits
  <1>4. QED
    BY <1>2, <1>3

\* Every step of a run is one of the seven.
LEMMA StepMoves ==
  ASSUME TypeOK, NoneAssumption, ConversationsAssumption, NEW x \in Runs, Placed(x),
         Step(x) \/ CommitFails(x)
  PROVE  Moves(x)
  BY ReceiveMoves, QualifyMoves, UnderstandMoves, QuoteMoves, AnswerMoves, SendMoves,
     FollowupMoves, HandoffMoves, ParkMoves, CloseMoves, FailMoves DEF Step

------------------------------------------------------------------------------
(* What holds between the steps *)

\* TypeOK and the three properties do not say where a run stands, whose lock it holds
\* or what it has read of the takeover; this does.
IInv == \A x \in Runs : Placed(x) /\ Watched(x)

\* The run that moves is still in its place.
LEMMA PlacedMoves ==
  ASSUME TypeOK, TypeOK', NoneAssumption, NEW x \in Runs, Placed(x), Watched(x), Moves(x)
  PROVE  Placed(x)'
  <1>1. /\ run[x] \in Run /\ run'[x] \in Run /\ x # None
        /\ run'[x].conv = run[x].conv
    BY DEF TypeOK, Moves, NoneAssumption
  <1>2. CASE Thinks(x)
    <2>1. run'[x].effect = "none"
      BY <1>2 DEF Placed, Thinks
    <2>2. QED
      BY <1>1, <1>2, <2>1 DEF Placed, Thinks, Stages
  <1>3. CASE Sends(x)
    BY <1>1, <1>3 DEF Placed, Sends, Stages
  <1>4. CASE Parks(x)
    BY <1>1, <1>4 DEF Placed, Parks, Stages
  <1>5. CASE Leaves(x)
    <2>1. run[x].effect = "none"
      BY <1>5 DEF Placed, Leaves, Stages
    <2>2. QED
      BY <1>1, <1>5, <2>1 DEF Placed, Leaves, Stages
  <1>6. CASE Records(x)
    BY <1>1, <1>6 DEF Placed, Records, Same, Stages
  <1>7. CASE Commits(x)
    BY <1>1, <1>7 DEF Placed, Commits, Same, Stages
  <1>8. CASE Fails(x)
    BY <1>1, <1>8 DEF Placed, Fails, Same, Stages, Nodes
  <1>9. QED
    BY <1>2, <1>3, <1>4, <1>5, <1>6, <1>7, <1>8 DEF Moves

\* What it has read of the takeover is still no later than what a person did.
LEMMA WatchedMoves ==
  ASSUME TypeOK, TypeOK', NoneAssumption, NEW x \in Runs, Placed(x), Watched(x), Moves(x)
  PROVE  Watched(x)'
  <1>1. /\ run[x] \in Run /\ run'[x] \in Run /\ held'[x] = held[x]
        /\ run'[x].conv = run[x].conv
    BY DEF TypeOK, Moves
  <1>2. held[x] => run[x].conv # None /\ takeover[run[x].conv] /\ takeover'[run[x].conv]
    BY <1>1 DEF Watched, Moves, Run
  <1>3. run'[x].read = "free" => ~held[x]
    <2>1. CASE run'[x].read = run[x].read
      BY <2>1 DEF Watched
    <2>2. CASE run'[x].read = Flag(run[x].conv)
      BY <1>2, <2>2 DEF Flag
    <2>3. QED
      BY <2>1, <2>2 DEF Moves
  <1>4. run'[x].effect = "sent" => run'[x].read = "free"
    <2>1. CASE Sends(x)
      BY <1>1, <2>1 DEF Sends, Run
    <2>2. CASE Thinks(x)
      BY <2>2 DEF Thinks, Placed
    <2>3. CASE Parks(x)
      BY <2>3 DEF Parks
    <2>4. CASE Leaves(x)
      BY <2>4 DEF Leaves, Placed, Stages
    <2>5. CASE Records(x) \/ Commits(x) \/ Fails(x)
      <3>1. run'[x].effect = run[x].effect /\ run'[x].read = run[x].read
        BY <2>5 DEF Records, Commits, Fails, Same
      <3>2. run[x].effect = "sent" => run[x].read = "free" /\ run[x].conv # None
        BY DEF Watched, Placed
      <3>3. QED
        BY <2>5, <3>1, <3>2
    <2>6. QED
      BY <2>1, <2>2, <2>3, <2>4, <2>5 DEF Moves
  <1>5. QED
    BY <1>1, <1>2, <1>3, <1>4 DEF Watched

\* A run that does not move, and whose lock nobody takes, is still in its place.
LEMMA OthersKeep ==
  ASSUME TypeOK, NoneAssumption, NEW y \in Runs, Placed(y), Watched(y),
         run'[y] = run[y], held'[y] => held[y], writer' = writer \/ writer # y,
         held'[y] => (takeover[run[y].conv] => takeover'[run[y].conv])
  PROVE  Placed(y)' /\ Watched(y)'
  <1>1. Placed(y)'
    BY DEF Placed
  <1>2. Watched(y)'
    BY DEF Watched
  <1>3. QED
    BY <1>1, <1>2

LEMMA StartKeeps ==
  ASSUME TypeOK, NEW x \in Runs, Start(x)
  PROVE  Placed(x)' /\ Watched(x)'
  <1>1. PICK p \in {"rule_based", "remote"}, i \in Inquiries \cup {None, Missing},
             c \in Conversations \cup {None} :
          /\ run' = [run EXCEPT ![x] = Fresh(p, i, c)]
          /\ held' = [held EXCEPT ![x] = c # None /\ takeover[c]]
    BY DEF Start
  <1>2. /\ run'[x] = Fresh(p, i, c) /\ (held'[x] <=> (c # None /\ takeover[c]))
        /\ takeover' = takeover
    BY <1>1 DEF TypeOK, Start
  <1>3. /\ run'[x].node = "receive" /\ run'[x].effect = "none" /\ run'[x].review = FALSE
        /\ run'[x].read = "unread" /\ run'[x].conv = c
    BY <1>2 DEF Fresh
  <1>4. Placed(x)'
    BY <1>3 DEF Placed, Stages
  <1>5. Watched(x)'
    BY <1>2, <1>3 DEF Watched
  <1>6. QED
    BY <1>4, <1>5

\* A person gives back a conversation: it has not been held all the time.
LEMMA TakeoverKeeps ==
  ASSUME TypeOK, IInv, NoneAssumption, NEW c \in Conversations, SetTakeover(c)
  PROVE  IInv'
  <1>1. SUFFICES ASSUME NEW y \in Runs
                 PROVE  Placed(y)' /\ Watched(y)'
    BY DEF IInv
  <1>2. held'[y] <=> held[y] /\ (run[y].conv = c => takeover'[c])
    BY DEF SetTakeover
  <1>3. held'[y] => (takeover[run[y].conv] => takeover'[run[y].conv])
    <2>1. CASE run[y].conv = c
      BY <1>2, <2>1
    <2>2. CASE run[y].conv # c
      BY <2>2 DEF SetTakeover, TypeOK
    <2>3. QED
      BY <2>1, <2>2
  <1>4. run'[y] = run[y] /\ writer # y
    BY DEF SetTakeover, NoneAssumption
  <1>5. QED
    BY <1>2, <1>3, <1>4, OthersKeep DEF IInv

LEMMA NextKeeps ==
  ASSUME TypeOK, IInv, NoneAssumption, ConversationsAssumption, [Next]_vars
  PROVE  IInv'
  <1>1. CASE UNCHANGED vars \/ OtherBegins \/ OtherEnds \/ \E p \in Products : Shelve(p)
    <2>1. ASSUME NEW y \in Runs
          PROVE  /\ run' = run /\ held' = held /\ takeover' = takeover
                 /\ writer' = writer \/ writer # y
      BY <1>1 DEF vars, OtherBegins, OtherEnds, Shelve, NoneAssumption
    <2>2. QED
      BY <2>1, OthersKeep DEF IInv
  <1>2. ASSUME NEW c \in Conversations, SetTakeover(c)
        PROVE  IInv'
    BY <1>2, TakeoverKeeps
  <1>3. ASSUME NEW x \in Runs, Start(x)
        PROVE  IInv'
    <2>1. ASSUME NEW y \in Runs \ {x}
          PROVE  run'[y] = run[y] /\ held'[y] = held[y]
      BY <1>3 DEF Start, TypeOK
    <2>2. takeover' = takeover /\ writer' = writer
      BY <1>3 DEF Start
    <2>3. QED
      BY <1>3, <2>1, <2>2, StartKeeps, OthersKeep DEF IInv
  <1>4. ASSUME NEW x \in Runs, Step(x) \/ CommitFails(x)
        PROVE  IInv'
    <2>1. Moves(x)
      BY <1>4, StepMoves DEF IInv
    <2>2. Placed(x)' /\ Watched(x)'
      BY <2>1, NextType, PlacedMoves, WatchedMoves DEF IInv
    <2>3. ASSUME NEW y \in Runs \ {x}
          PROVE  Placed(y)' /\ Watched(y)'
      <3>1. run'[y] = run[y] /\ held'[y] = held[y]
        BY <2>1 DEF Moves, TypeOK
      <3>2. writer' = writer \/ writer # y
        BY <2>1 DEF Moves, NoneAssumption
      <3>3. held[y] => run[y].conv \in Conversations
        BY DEF IInv, Watched, TypeOK, Run
      <3>4. held'[y] => (takeover[run[y].conv] => takeover'[run[y].conv])
        BY <2>1, <3>1, <3>3 DEF Moves
      <3>5. QED
        BY <3>1, <3>2, <3>4, OthersKeep DEF IInv
    <2>4. QED
      BY <2>2, <2>3 DEF IInv
  <1>5. QED
    BY <1>1, <1>2, <1>3, <1>4 DEF Next

LEMMA InitKeeps ==
  ASSUME Init
  PROVE  IInv
  <1>1. ASSUME NEW x \in Runs
        PROVE  /\ run[x].node = "committed" /\ run[x].effect = "none"
               /\ run[x].read = "unread" /\ held[x] = FALSE
    BY DEF Init, Fresh
  <1>2. QED
    BY <1>1 DEF IInv, Placed, Watched, Stages

\* Every run stands where its record says, holds the lock while its answer is not
\* recorded, and has read no older takeover than the one it answers into.
THEOREM RunsInPlace == Spec => []IInv
  <1>1. TypeOK /\ IInv /\ [Next]_vars => IInv'
    BY NextKeeps, NoneAssumption, ConversationsAssumption
  <1>2. QED
    BY <1>1, InitKeeps, TypeCorrect, PTL DEF Spec

\* A conversation that a person has held since the run began is not answered.
THEOREM NoAnswerIntoTakeover == Spec => []HeldIsNotAnswered
  <1>1. IInv => HeldIsNotAnswered
    BY DEF IInv, Watched, HeldIsNotAnswered
  <1>2. QED
    BY <1>1, RunsInPlace, PTL

\* An answer is forgotten only by a run whose inquiry is not the conversation's.
THEOREM AnswersAreRecorded == Spec => []SentIsRecorded
  <1>1. IInv => SentIsRecorded
    BY DEF IInv, Placed, SentIsRecorded
  <1>2. QED
    BY <1>1, RunsInPlace, PTL

------------------------------------------------------------------------------
(* The contract *)

\* An outcome is closed.
LEMMA OutcomeClosed ==
  ASSUME NEW a, NEW v
  PROVE  [[attached |-> a, effect |-> "none", review |-> v, result |-> "open"]
            EXCEPT !.result = "closed"]
           = [attached |-> a, effect |-> "none", review |-> v, result |-> "closed"]
  OBVIOUS

\* What a step of a run is to the contract.
LEMMA MovesKeepContract ==
  ASSUME TypeOK, TypeOK', IInv, NEW x \in Runs, Moves(x)
  PROVE  Contract!Next \/ UNCHANGED Outcomes
  <1> DEFINE o == Outcome(run[x])
             n == Outcome(run'[x])
  <1>1. run[x] \in Run /\ run'[x] \in Run /\ Placed(x) /\ run'[x].conv = run[x].conv
    BY DEF TypeOK, IInv, Moves
  <1>2. Outcomes' = [Outcomes EXCEPT ![x] = n] /\ Outcomes[x] = o
    BY DEF Moves, Outcomes, TypeOK
  <1>3. /\ o = [attached |-> o.attached, effect |-> run[x].effect, review |-> run[x].review,
                result |-> o.result]
        /\ n = [attached |-> o.attached, effect |-> run'[x].effect,
                review |-> run'[x].review, result |-> n.result]
        /\ o.attached <=> run[x].conv # None
        /\ run[x].review \in BOOLEAN /\ run'[x].review \in BOOLEAN
    BY <1>1 DEF Outcome, Run
  <1>4. /\ run[x].node \in Nodes \cup {"end"} => o.result = "open"
        /\ run'[x].node \in Nodes \cup {"end"} => n.result = "open"
        /\ run'[x].node = "committed" => n.result = "closed"
        /\ run'[x].node \in {"raised", "lost"} => n.result = "failed"
    BY DEF Outcome, Nodes, Stages
  <1>5. n = o => UNCHANGED Outcomes
    BY <1>2 DEF Outcomes
  <1> HIDE DEF o, n
  <1>6. CASE Thinks(x)
    <2>1. o.result = "open" /\ n.result = "open" /\ o.effect = "none" /\ n.effect = "none"
      BY <1>1, <1>3, <1>4, <1>6 DEF Thinks, Placed, Stages, Nodes
    <2>2. n = o \/ n = [o EXCEPT !.review = TRUE]
      <3>1. run[x].effect = "none" /\ run'[x].effect = "none"
        BY <1>1, <1>3, <1>6 DEF Thinks, Placed
      <3>2. CASE run'[x].review = FALSE
        <4>1. run[x].review = FALSE
          BY <1>1, <1>3, <1>6, <3>2 DEF Thinks, Placed
        <4>2. QED
          BY <1>3, <2>1, <3>1, <3>2, <4>1
      <3>3. CASE run'[x].review = TRUE
        BY <1>3, <2>1, <3>1, <3>3
      <3>4. QED
        BY <1>3, <3>2, <3>3
    <2>3. CASE n = [o EXCEPT !.review = TRUE]
      <3>1. Contract!Ask(x)
        BY <1>2, <2>1, <2>3 DEF Contract!Ask, Contract!Idle
      <3>2. QED
        BY <3>1 DEF Contract!Next
    <2>4. QED
      BY <1>5, <2>2, <2>3
  <1>7. CASE Sends(x)
    <2>1. o.result = "open" /\ n.result = "open" /\ o.effect = "none" /\ o.review = FALSE
      BY <1>1, <1>3, <1>4, <1>7 DEF Sends, Placed, Stages, Nodes
    <2>2. n = [o EXCEPT !.effect = "sent"] /\ o.attached
      BY <1>3, <1>7, <2>1 DEF Sends
    <2>3. Contract!Send(x)
      BY <1>2, <2>1, <2>2 DEF Contract!Send, Contract!Idle
    <2>4. QED
      BY <2>3 DEF Contract!Next
  <1>8. CASE Parks(x)
    <2>1. o.result = "open" /\ n.result = "open" /\ o.effect = "none"
      BY <1>1, <1>3, <1>4, <1>8 DEF Parks, Placed, Stages, Nodes
    <2>2. run'[x].review = TRUE /\ run'[x].effect = "parked" /\ o.attached
      BY <1>3, <1>8 DEF Parks
    <2>3. n = [o EXCEPT !.effect = "parked", !.review = TRUE]
      <3>1. o = [attached |-> o.attached, effect |-> "none", review |-> run[x].review,
                 result |-> "open"]
        BY <1>1, <1>3, <1>8, <2>1
      <3> DEFINE p == [o EXCEPT !.effect = "parked"]
      <3>2. p = [attached |-> o.attached, effect |-> "parked", review |-> run[x].review,
                 result |-> "open"]
        BY <3>1
      <3>3. [o EXCEPT !.effect = "parked", !.review = TRUE] = [p EXCEPT !.review = TRUE]
        OBVIOUS
      <3> HIDE DEF p
      <3>4. n = [attached |-> o.attached, effect |-> "parked", review |-> run'[x].review,
                 result |-> "open"]
        BY <1>3, <2>1, <2>2
      <3>5. \A w : [p EXCEPT !.review = w]
                  = [attached |-> o.attached, effect |-> "parked", review |-> w,
                     result |-> "open"]
        BY <3>2
      <3>6. n = [p EXCEPT !.review = run'[x].review]
        BY <3>4, <3>5
      <3>7. QED
        BY <2>2, <3>3, <3>6
    <2>4. Contract!Park(x)
      BY <1>2, <2>1, <2>2, <2>3 DEF Contract!Park, Contract!Idle
    <2>5. QED
      BY <2>4 DEF Contract!Next
  <1>9. CASE Leaves(x) \/ Records(x)
    <2>1. o.result = "open" /\ n.result = "open"
      BY <1>4, <1>9 DEF Leaves, Records, Stages, Nodes
    <2>2. n = o
      BY <1>3, <1>9, <2>1 DEF Leaves, Records, Same
    <2>3. QED
      BY <1>5, <2>2
  <1>10. CASE Commits(x)
    <2>1. o.result = "open" /\ n = [o EXCEPT !.result = "closed"]
      BY <1>3, <1>4, <1>10 DEF Commits, Same
    <2>2. o.attached => o.effect # "none" /\ (o.review <=> o.effect = "parked")
      BY <1>1, <1>3, <1>10 DEF Commits, Placed
    <2>3. Contract!Close(x)
      BY <1>2, <2>1, <2>2 DEF Contract!Close
    <2>4. QED
      BY <2>3 DEF Contract!Next
  <1>11. CASE Fails(x)
    <2>1. o.result = "open" /\ n = [o EXCEPT !.result = "failed"]
      BY <1>3, <1>4, <1>11 DEF Fails, Same
    <2>2. Contract!Fail(x)
      BY <1>2, <2>1 DEF Contract!Fail
    <2>3. QED
      BY <2>2 DEF Contract!Next
  <1>12. QED
    BY <1>6, <1>7, <1>8, <1>9, <1>10, <1>11 DEF Moves

LEMMA StartOpens ==
  ASSUME TypeOK, NEW x \in Runs, Start(x)
  PROVE  Contract!Open(x)
  <1>1. PICK p \in {"rule_based", "remote"}, i \in Inquiries \cup {None, Missing},
             c \in Conversations \cup {None} : run' = [run EXCEPT ![x] = Fresh(p, i, c)]
    BY DEF Start
  <1>2. Outcome(Fresh(p, i, c)) = Contract!Untouched(c # None)
    BY DEF Outcome, Fresh, Contract!Untouched
  <1>3. Outcomes' = [Outcomes EXCEPT ![x] = Contract!Untouched(c # None)]
    BY <1>1, <1>2 DEF Outcomes, TypeOK
  <1>4. Outcomes[x].result # "open"
    BY DEF Outcomes, Outcome, Start
  <1>5. (c # None) \in BOOLEAN
    OBVIOUS
  <1>6. QED
    BY <1>3, <1>4, <1>5 DEF Contract!Open

\* A run answers once or parks once, never answers after it has asked for a person, and
\* tells its caller which it did.
THEOREM RunsKeepContract == Spec => ContractKept
  <1>1. Init => Contract!Init
    <2>1. ASSUME Init, NEW x \in Runs
          PROVE  Outcome(run[x]) = [Contract!Untouched(FALSE) EXCEPT !.result = "closed"]
      <3>1. run[x].conv = None /\ run[x].effect = "none" /\ run[x].review = FALSE
            /\ run[x].node = "committed"
        BY <2>1 DEF Init, Fresh
      <3>2. (run[x].conv # None) = FALSE
        BY <3>1
      <3>3. Outcome(run[x]) = [attached |-> FALSE, effect |-> "none", review |-> FALSE,
                               result |-> "closed"]
        BY <3>1, <3>2 DEF Outcome
      <3>4. QED
        BY <3>3, OutcomeClosed, Zenon DEF Contract!Untouched
    <2>2. QED
      BY <2>1 DEF Contract!Init, Outcomes
  <1>2. TypeOK /\ IInv /\ [Next]_vars => [Contract!Next]_Outcomes
    <2>1. ASSUME TypeOK, IInv, UNCHANGED run
          PROVE  UNCHANGED Outcomes
      BY <2>1 DEF Outcomes
    <2>2. ASSUME TypeOK, IInv, NEW x \in Runs, Start(x)
          PROVE  Contract!Next
      BY <2>2, StartOpens DEF Contract!Next
    <2>3. ASSUME TypeOK, IInv, NEW x \in Runs, Step(x) \/ CommitFails(x)
          PROVE  [Contract!Next]_Outcomes
      <3>1. Next
        BY <2>3 DEF Next
      <3>2. TypeOK' /\ Moves(x)
        BY <2>3, <3>1, NextType, StepMoves, NoneAssumption, ConversationsAssumption DEF IInv
      <3>3. QED
        BY <2>3, <3>2, MovesKeepContract
    <2>4. QED
      BY <2>1, <2>2, <2>3
         DEF Next, vars, OtherBegins, OtherEnds, SetTakeover, Shelve
  <1>3. QED
    BY <1>1, <1>2, RunsInPlace, TypeCorrect, PTL
       DEF Spec, ContractKept, Contract!Spec

------------------------------------------------------------------------------
(* Scores *)

\* What a signal is worth, and what it earns at most and at least.
LEMMA PointsOf ==
  /\ Points("real_company") = 18 /\ Points("specific_quantity") = 18
  /\ Points("specific_product") = 15 /\ Points("verified_domain") = 12
  /\ Points("destination_known") = 8 /\ Points("spam_keyword") = -35
  /\ Points("possible_competitor") = -35 /\ Points("too_short") = -15
  BY DEF Points

\* Spam from nobody in particular does not earn enough for a grade but the lowest: a
\* quantity, a product and a destination are worth 41 points more than nothing.
LEMMA SpamIsC ==
  ASSUME NEW traits, {"spam_keyword", "possible_competitor"} \cap traits # {},
         {"real_company", "verified_domain"} \cap traits = {}
  PROVE  Grade(traits) = "C"
  <1> DEFINE t == Total(traits)
  <1>1. /\ Earned(traits, "real_company") = 0 /\ Earned(traits, "verified_domain") = 0
        /\ Earned(traits, "specific_quantity") \in {0, 18}
        /\ Earned(traits, "specific_product") \in {0, 15}
        /\ Earned(traits, "destination_known") \in {0, 8}
        /\ Earned(traits, "spam_keyword") \in {0, -35}
        /\ Earned(traits, "possible_competitor") \in {0, -35}
        /\ Earned(traits, "too_short") \in {0, -15}
    BY PointsOf DEF Earned
  <1>2. \/ Earned(traits, "spam_keyword") = -35
        \/ Earned(traits, "possible_competitor") = -35
    BY PointsOf DEF Earned
  <1>3. t \in Int /\ t <= 41
    BY <1>1, <1>2 DEF Total
  <1> HIDE DEF t
  <1>4. Min({100, t}) = t
    BY <1>3 DEF Min
  <1>5. Max({0, t}) \in Int /\ Max({0, t}) <= 41
    BY <1>3 DEF Max
  <1>6. Score(traits) \in Int /\ Score(traits) <= 41
    BY <1>4, <1>5 DEF Score, t
  <1>7. QED
    BY <1>6 DEF Grade

------------------------------------------------------------------------------
(* Matches *)

LEMMA FitType ==
  ASSUME ProductsAssumption, NEW text, NEW p \in Products
  PROVE  Fit(p, text) \in Nat
  <1> DEFINE query == text \cap Words
             share(f) == Weight(f) * Cardinality(Text[p].words[f] \cap query)
  <1>1. IsFiniteSet(query) /\ Cardinality(query) \in Nat
    BY FS_Subset, FS_CardinalityType DEF ProductsAssumption
  <1>2. ASSUME NEW f \in Fields
        PROVE  share(f) \in Nat
    <2>1. IsFiniteSet(Text[p].words[f] \cap query)
      BY <1>1, FS_Subset
    <2>2. Cardinality(Text[p].words[f] \cap query) \in Nat
      BY <2>1, FS_CardinalityType
    <2>3. Weight(f) \in Nat
      BY <1>2 DEF Weight, Fields
    <2>4. QED
      BY <2>2, <2>3
  <1>3. /\ share("name") \in Nat /\ share("sku") \in Nat
        /\ share("description") \in Nat /\ share("specs") \in Nat
    <2> HIDE DEF share
    <2>1. QED
      BY <1>2 DEF Fields
  <1>4. Fit(p, text) = share("name") + share("sku") + share("description") + share("specs")
                         + (IF Text[p].code \cap text # {} THEN 2 * Cardinality(query) ELSE 0)
    BY DEF Fit
  <1> HIDE DEF share, query
  <1>5. QED
    BY <1>1, <1>3, <1>4

\* The matches are in order.
LEMMA BeforeOrder ==
  ASSUME ProductsAssumption, NEW text, NEW p \in Products, NEW q \in Products
  PROVE  /\ Before(text, p, q) => Fit(p, text) >= Fit(q, text)
         /\ \A r \in Products :
              Before(text, r, p) /\ Before(text, p, q) => Before(text, r, q)
  <1>1. \A r \in Products : Fit(r, text) \in Nat /\ r \in Nat
    BY FitType DEF ProductsAssumption
  <1>2. QED
    BY <1>1 DEF Before

\* The first match is the best of the catalog, though only as many are kept as the limit
\* says: what fits better has no more before it, so it is kept as well.
LEMMA FirstIsBest ==
  ASSUME ProductsAssumption, NEW text, NEW catalog \in SUBSET Products,
         NEW p \in First(text, MatchProduct(text, catalog))
  PROVE  \A q \in catalog : Fit(q, text) <= Fit(p, text)
  <1> DEFINE found == {q \in catalog : text \cap Words # {} /\ Fit(q, text) > 0}
             Ahead(q) == {r \in found : Before(text, r, q)}
             matches == {q \in found : Cardinality(Ahead(q)) < Matches}
  <1>1. matches = MatchProduct(text, catalog)
    BY DEF MatchProduct
  <1>2. p \in matches /\ \A q \in matches \ {p} : Before(text, p, q)
    BY <1>1 DEF First
  <1>3. SUFFICES ASSUME NEW q \in catalog, Fit(q, text) > Fit(p, text)
                 PROVE  FALSE
    <2>1. p \in Products /\ Fit(p, text) \in Nat
      BY <1>2, FitType
    <2>2. \A q \in catalog : Fit(q, text) \in Nat
      BY FitType
    <2>3. QED
      BY <1>3, <2>1, <2>2
  <1>4. p \in found /\ p \in Products /\ q \in Products
    BY <1>2
  <1>5. Fit(p, text) \in Nat /\ Fit(q, text) \in Nat
    BY <1>4, FitType
  <1>6. q \in found /\ q # p
    BY <1>3, <1>4, <1>5
  <1>7. Before(text, q, p)
    BY <1>3 DEF Before
  <1>8. Ahead(q) \subseteq Ahead(p)
    BY <1>4, <1>7, BeforeOrder
  <1>9. IsFiniteSet(Ahead(p))
    BY FS_Subset DEF ProductsAssumption
  <1>10. /\ Cardinality(Ahead(q)) \in Nat /\ Cardinality(Ahead(p)) \in Nat
         /\ Cardinality(Ahead(q)) <= Cardinality(Ahead(p))
    <2> HIDE DEF Ahead
    <2>1. QED
      BY <1>8, <1>9, FS_Subset, FS_CardinalityType
  <1>11. Cardinality(Ahead(p)) < Matches
    BY <1>2
  <1>12. q \in matches
    <2> HIDE DEF Ahead
    <2>1. Matches \in Nat
      BY DEF ProductsAssumption
    <2>2. QED
      BY <1>6, <1>10, <1>11, <2>1
  <1>13. Before(text, p, q)
    BY <1>2, <1>6, <1>12
  <1>14. QED
    BY <1>3, <1>4, <1>5, <1>13, BeforeOrder

------------------------------------------------------------------------------
(* The policy *)

\* What a run's record must say of its quotation and its inquiry, the traits of which are
\* text: PolicyKept looks at runs that have answered, this at where they come from.
Obeys(r, text) ==
  /\ r.node \in {"receive", "qualify", "understand", "quote"} => r.quote = "none"
  /\ r.node = "quote" => r.matches = MatchProduct(text, r.catalog)
  /\ r.quote = "floor" => r.node \notin Stages \cup {"receive", "send"} /\ r.effect # "sent"
  /\ r.quote = "ok" => \A p \in r.catalog : Fit(p, text) <= Fit(r.product, text)
  /\ r.provider = "rule_based" /\ r.quote = "ok" => r.draft = "quote"
  /\ /\ r.provider = "rule_based" /\ r.conv # None
     /\ r.node \in {"understand", "quote", "answer", "send"} \/ r.effect = "sent"
     => Grade(text) # "C"

\* What a step that quotes nothing leaves as it was.
Alike(r, s) ==
  /\ s.provider = r.provider /\ s.conv = r.conv /\ s.inq = r.inq
  /\ s.matches = r.matches /\ s.catalog = r.catalog /\ s.product = r.product
  /\ s.quote = r.quote

\* A run that has just begun,
LEMMA EarlyObeys ==
  ASSUME NEW s, NEW text, s.node \in {"receive", "qualify"}, s.quote = "none",
         s.effect = "none"
  PROVE  Obeys(s, text)
  BY DEF Obeys

\* one that asks for a person before it has a quotation,
LEMMA AsksObeys ==
  ASSUME NEW s, NEW text, s.node = "handoff", s.quote = "none", s.effect = "none"
  PROVE  Obeys(s, text)
  BY DEF Obeys

\* and one that has done what it does for the customer.
LEMMA RestObeys ==
  ASSUME NEW r, NEW s, NEW text, Obeys(r, text), Alike(r, s),
         s.draft = r.draft \/ r.quote # "ok" \/ r.provider # "rule_based",
         s.node \in {"handoff", "park", "persist", "end", "raised", "lost", "committed"},
         s.effect = r.effect \/ s.effect # "sent"
  PROVE  Obeys(s, text)
  BY DEF Obeys, Alike, Stages

LEMMA AlikeChains ==
  ASSUME NEW r, NEW s, NEW t, Alike(r, s), Alike(s, t)
  PROVE  Alike(r, t)
  BY DEF Alike

\* The fields of a run are written one at a time.
LEMMA NodeAlike ==
  ASSUME NEW r \in Run, NEW node
  PROVE  LET s == [r EXCEPT !.node = node] IN
         /\ Alike(r, s) /\ s.node = node /\ s.draft = r.draft /\ s.effect = r.effect
  BY DEF Run, Alike

LEMMA ReviewAlike ==
  ASSUME NEW r \in Run, NEW review \in BOOLEAN
  PROVE  LET s == [r EXCEPT !.review = review] IN
         /\ s \in Run /\ Alike(r, s) /\ s.draft = r.draft /\ s.effect = r.effect
  BY DEF Run, Alike

LEMMA DraftAlike ==
  ASSUME NEW r \in Run, NEW draft \in {"none", "quote", "provider", "fallback"}
  PROVE  LET s == [r EXCEPT !.draft = draft] IN
         /\ s \in Run /\ Alike(r, s) /\ s.draft = draft /\ s.effect = r.effect
  BY DEF Run, Alike

LEMMA EffectAlike ==
  ASSUME NEW r \in Run, NEW effect \in {"sent", "parked"}
  PROVE  LET s == [r EXCEPT !.effect = effect] IN
         /\ s \in Run /\ Alike(r, s) /\ s.draft = r.draft /\ s.effect = effect
  BY DEF Run, Alike

LEMMA ParkedAlike ==
  ASSUME NEW r \in Run
  PROVE  LET s == [r EXCEPT !.effect = "parked", !.review = TRUE] IN
         /\ s \in Run /\ Alike(r, s) /\ s.draft = r.draft /\ s.effect = "parked"
  <1> DEFINE q == [r EXCEPT !.effect = "parked"]
             s == [q EXCEPT !.review = TRUE]
  <1>1. q \in Run /\ Alike(r, q) /\ q.draft = r.draft /\ q.effect = "parked"
    BY EffectAlike
  <1>2. [r EXCEPT !.effect = "parked", !.review = TRUE] = s
    OBVIOUS
  <1> HIDE DEF q
  <1>3. s \in Run /\ Alike(q, s) /\ s.draft = q.draft /\ s.effect = q.effect
    BY <1>1, ReviewAlike
  <1> HIDE DEF s
  <1>4. QED
    BY <1>1, <1>2, <1>3, AlikeChains

LEMMA ReadAlike ==
  ASSUME NEW r \in Run, NEW flag \in Reads(r)
  PROVE  LET s == [r EXCEPT !.read = flag] IN
         /\ s \in Run /\ Alike(r, s) /\ s.draft = r.draft /\ s.effect = r.effect
  BY ReadType DEF Run, Alike

\* The rules draft nothing, and ask for a person where a customer's inquiry is graded C.
LEMMA RulesDecide ==
  ASSUME NEW r \in Run, NEW d \in Decisions(r), r.provider = "rule_based"
  PROVE  /\ ~d.draft
         /\ r.node = "qualify" /\ r.grade = "C" /\ r.conv # None => d.review
  BY DEF Decisions, RuleBased

LEMMA ApplyAlike ==
  ASSUME NEW r \in Run, NEW d \in Decision
  PROVE  /\ Apply(r, d) \in Run /\ Alike(r, Apply(r, d)) /\ Apply(r, d).effect = r.effect
         /\ ~d.draft => Apply(r, d).draft = r.draft
  <1> DEFINE draft == IF d.draft THEN "provider" ELSE r.draft
             review == r.review \/ d.review
             q == [r EXCEPT !.draft = draft]
             s == [q EXCEPT !.review = review]
  <1>1. draft \in {"none", "quote", "provider", "fallback"} /\ review \in BOOLEAN
        /\ (~d.draft => draft = r.draft)
    BY DEF Run, Decision
  <1>2. Apply(r, d) = s
    BY DEF Apply
  <1> HIDE DEF draft, review
  <1>3. q \in Run /\ Alike(r, q) /\ q.draft = draft /\ q.effect = r.effect
    BY <1>1 DEF Run, Alike
  <1> HIDE DEF q
  <1>4. s \in Run /\ Alike(q, s) /\ s.draft = q.draft /\ s.effect = q.effect
    BY <1>1, <1>3, ReviewAlike
  <1> HIDE DEF s
  <1>5. QED
    BY <1>1, <1>2, <1>3, <1>4, AlikeChains

\* A decision is applied, and the run goes on.
LEMMA DecidedAlike ==
  ASSUME TypeOK, NEW x \in Runs, NEW r \in Run, NEW d \in Decisions(r),
         NEW node, Goto(x, Apply(r, d), node)
  PROVE  /\ Alike(r, run'[x]) /\ run'[x].effect = r.effect /\ run'[x].node = node
         /\ r.provider = "rule_based" => run'[x].draft = r.draft
  <1> DEFINE a == Apply(r, d)
  <1>1. d \in Decision
    BY DecisionsType
  <1>2. a \in Run /\ Alike(r, a) /\ a.effect = r.effect
        /\ (r.provider = "rule_based" => a.draft = r.draft)
    BY <1>1, ApplyAlike, RulesDecide
  <1>3. run'[x] = [a EXCEPT !.node = node]
    BY GotoMoves
  <1> HIDE DEF a
  <1>4. /\ Alike(a, run'[x]) /\ run'[x].node = node /\ run'[x].draft = a.draft
        /\ run'[x].effect = a.effect
    BY <1>2, <1>3, NodeAlike
  <1>5. QED
    BY <1>2, <1>4, AlikeChains

\* A run asks for a person.
LEMMA NeedHandoffAlike ==
  ASSUME TypeOK, NEW x \in Runs, NEW r \in Run, NeedHandoff(x, r)
  PROVE  /\ Alike(r, run'[x]) /\ run'[x].effect = r.effect /\ run'[x].node = "handoff"
         /\ run'[x].draft = r.draft
  <1> DEFINE a == [r EXCEPT !.review = TRUE]
  <1>1. a \in Run /\ Alike(r, a) /\ a.draft = r.draft /\ a.effect = r.effect
    BY ReviewAlike
  <1>2. Goto(x, a, "handoff")
    BY DEF NeedHandoff
  <1> HIDE DEF a
  <1>3. run'[x] = [a EXCEPT !.node = "handoff"]
    BY <1>2, GotoMoves
  <1>4. /\ Alike(a, run'[x]) /\ run'[x].node = "handoff" /\ run'[x].draft = a.draft
        /\ run'[x].effect = a.effect
    BY <1>1, <1>3, NodeAlike
  <1>5. QED
    BY <1>1, <1>4, AlikeChains

\* The run's record obeys the policy.
Policy(x) == Obeys(run[x], profile[run[x].inq])

LEMMA ReceiveObeys ==
  ASSUME TypeOK, ConversationsAssumption, NEW x \in Runs, Placed(x), Policy(x),
         ReceiveInquiry(x), ~End(x, "raised")
  PROVE  Policy(x)'
  <1> DEFINE s == Resolved(run[x])
  <1>1. run[x] \in Run /\ run[x].quote = "none" /\ run[x].effect = "none"
    BY DEF TypeOK, Policy, Obeys, Placed, ReceiveInquiry
  <1>2. s \in Run /\ s.quote = "none" /\ s.effect = "none"
    BY <1>1, ResolvedType
  <1>3. run'[x] = [s EXCEPT !.node = "qualify"]
    BY GotoMoves DEF ReceiveInquiry
  <1> HIDE DEF s
  <1>4. run'[x].node = "qualify" /\ run'[x].quote = "none" /\ run'[x].effect = "none"
    BY <1>2, <1>3, NodeAlike DEF Alike
  <1>5. QED
    BY <1>4, EarlyObeys DEF Policy

LEMMA QualifyObeys ==
  ASSUME TypeOK, NEW x \in Runs, Placed(x), Policy(x), QualifyInquiry(x)
  PROVE  Policy(x)'
  <1>1. run[x] \in Run /\ run[x].quote = "none" /\ run[x].effect = "none"
        /\ run[x].node = "qualify" /\ profile' = profile
    BY DEF TypeOK, Policy, Obeys, Placed, QualifyInquiry, Stages
  <1>2. CASE NeedHandoff(x, run[x])
    <2>1. run'[x].node = "handoff" /\ run'[x].quote = "none" /\ run'[x].effect = "none"
      BY <1>1, <1>2, NeedHandoffAlike DEF Alike
    <2>2. QED
      BY <2>1, AsksObeys DEF Policy
  <1> DEFINE text == profile[run[x].inq]
             r == [run[x] EXCEPT !.grade = Grade(text)]
  <1>3. CASE \E d \in Decisions(r) :
               Goto(x, Apply(r, d), IF d.review THEN "handoff" ELSE "understand")
    <2>1. r \in Run /\ r.grade = Grade(text) /\ r.node = "qualify"
          /\ Alike(run[x], r) /\ r.effect = "none"
      BY <1>1 DEF Run, Grade, Alike
    <2>2. PICK d \in Decisions(r) :
            Goto(x, Apply(r, d), IF d.review THEN "handoff" ELSE "understand")
      BY <1>3
    <2> HIDE DEF r
    <2>3. /\ Alike(r, run'[x]) /\ run'[x].effect = r.effect
          /\ run'[x].node = IF d.review THEN "handoff" ELSE "understand"
      BY <2>1, <2>2, DecidedAlike
    <2>4. run'[x].inq = run[x].inq /\ run'[x].quote = "none" /\ run'[x].effect = "none"
      BY <1>1, <2>1, <2>3 DEF Alike
    <2>5. CASE d.review
      BY <2>3, <2>4, <2>5, AsksObeys DEF Policy
    <2>6. CASE ~d.review
      <3>1. r.provider = "rule_based" /\ r.conv # None => Grade(text) # "C"
        BY <2>1, <2>6, RulesDecide
      <3>2. /\ run'[x].node = "understand" /\ run'[x].provider = r.provider
            /\ run'[x].conv = r.conv
        BY <2>3, <2>6 DEF Alike
      <3>3. Obeys(run'[x], text)
        BY <2>4, <3>1, <3>2 DEF Obeys
      <3>4. QED
        BY <1>1, <2>4, <3>3 DEF Policy
    <2>7. QED
      BY <2>5, <2>6
  <1>4. QED
    BY <1>2, <1>3 DEF QualifyInquiry

LEMMA UnderstandObeys ==
  ASSUME TypeOK, NEW x \in Runs, Placed(x), Policy(x), UnderstandRequirement(x)
  PROVE  Policy(x)'
  <1> DEFINE text == profile[run[x].inq]
             r == [run[x] EXCEPT !.matches = MatchProduct(text, active), !.catalog = active]
  <1>1. /\ run[x] \in Run /\ run[x].quote = "none" /\ run[x].effect = "none"
        /\ run[x].node = "understand" /\ profile' = profile /\ Obeys(run[x], text)
    BY DEF TypeOK, Policy, Obeys, Placed, UnderstandRequirement, Stages
  <1>2. /\ r \in Run /\ r.matches = MatchProduct(text, active) /\ r.catalog = active
        /\ r.provider = run[x].provider /\ r.conv = run[x].conv /\ r.inq = run[x].inq
        /\ r.quote = "none" /\ r.effect = "none"
    <2>1. r \in Run
      BY <1>1, MatchesType, MatchedType DEF TypeOK
    <2>2. QED
      BY <1>1, <2>1 DEF Run
  <1>3. PICK d \in Decisions(r) :
          Goto(x, Apply(r, d), IF d.review THEN "handoff" ELSE "quote")
    BY DEF UnderstandRequirement
  <1> HIDE DEF r
  <1>4. /\ Alike(r, run'[x]) /\ run'[x].effect = r.effect
        /\ run'[x].node = IF d.review THEN "handoff" ELSE "quote"
    BY <1>2, <1>3, DecidedAlike
  <1>5. run'[x].inq = run[x].inq /\ run'[x].quote = "none" /\ run'[x].effect = "none"
    BY <1>2, <1>4 DEF Alike
  <1>6. CASE d.review
    BY <1>4, <1>5, <1>6, AsksObeys DEF Policy
  <1>7. CASE ~d.review
    <2>1. /\ run'[x].node = "quote" /\ run'[x].matches = MatchProduct(text, run'[x].catalog)
          /\ run'[x].provider = run[x].provider /\ run'[x].conv = run[x].conv
      BY <1>2, <1>4, <1>7 DEF Alike
    <2>2. Obeys(run'[x], text)
      BY <1>1, <1>5, <2>1 DEF Obeys
    <2>3. QED
      BY <1>1, <1>5, <2>2 DEF Policy
  <1>8. QED
    BY <1>6, <1>7

\* The quotation is drafted: it may be below the floor, and then a person is asked.
LEMMA QuotedObeys ==
  ASSUME TypeOK, ProductsAssumption, NEW x \in Runs, NEW r \in Run, NEW text,
         r.matches = MatchProduct(text, r.catalog), r.quote = "none", r.effect = "none",
         text = profile[r.inq], Quoted(x, r),
         r.provider = "rule_based" /\ r.conv # None => Grade(text) # "C"
  PROVE  Obeys(run'[x], text) /\ run'[x].inq = r.inq
  <1>1. CASE NeedHandoff(x, r)
    <2>1. run'[x].node = "handoff" /\ run'[x].quote = "none" /\ run'[x].effect = "none"
          /\ run'[x].inq = r.inq
      BY <1>1, NeedHandoffAlike DEF Alike
    <2>2. QED
      BY <2>1, AsksObeys
  <1>2. ASSUME NEW p \in First(text, r.matches), NEW quote \in {"ok", "floor"},
               LET q == [[r EXCEPT !.product = p, !.draft = "quote"] EXCEPT !.quote = quote] IN
               \/ Goto(x, q, "answer") /\ quote = "ok"
               \/ NeedHandoff(x, q) /\ quote = "floor"
        PROVE  Obeys(run'[x], text) /\ run'[x].inq = r.inq
    <2> DEFINE q == [[r EXCEPT !.product = p, !.draft = "quote"] EXCEPT !.quote = quote]
    <2>1. r.catalog \in SUBSET Products /\ p \in Products
      BY DEF Run, First
    <2>2. q \in Run
      BY <2>1, DraftedType
    <2>3. /\ q.provider = r.provider /\ q.conv = r.conv /\ q.inq = r.inq
          /\ q.catalog = r.catalog /\ q.product = p /\ q.draft = "quote" /\ q.quote = quote
          /\ q.effect = "none"
      <3> DEFINE a == [r EXCEPT !.product = p]
                 b == [a EXCEPT !.draft = "quote"]
      <3>1. /\ a.provider = r.provider /\ a.conv = r.conv /\ a.inq = r.inq
            /\ a.catalog = r.catalog /\ a.product = p /\ a.effect = "none" /\ a \in Run
        BY <2>1 DEF Run
      <3>2. q = [b EXCEPT !.quote = quote]
        OBVIOUS
      <3> HIDE DEF a, q
      <3>3. /\ b.provider = r.provider /\ b.conv = r.conv /\ b.inq = r.inq /\ b \in Run
            /\ b.catalog = r.catalog /\ b.product = p /\ b.effect = "none" /\ b.draft = "quote"
        <4>1. b \in Run /\ Alike(a, b) /\ b.draft = "quote" /\ b.effect = a.effect
          BY <3>1, DraftAlike
        <4> HIDE DEF b
        <4>2. QED
          BY <3>1, <4>1 DEF Alike
      <3> HIDE DEF b
      <3>4. QED
        BY <3>2, <3>3 DEF Run
    <2>4. \A other \in r.catalog : Fit(other, text) <= Fit(p, text)
      BY <2>1, FirstIsBest
    <2>5. \/ Goto(x, q, "answer") /\ quote = "ok"
          \/ NeedHandoff(x, q) /\ quote = "floor"
      BY <1>2
    <2> HIDE DEF q
    <2>6. CASE Goto(x, q, "answer") /\ quote = "ok"
      <3>1. run'[x] = [q EXCEPT !.node = "answer"]
        BY <2>6, GotoMoves
      <3>2. /\ Alike(q, run'[x]) /\ run'[x].node = "answer" /\ run'[x].draft = "quote"
            /\ run'[x].effect = "none"
        <4> DEFINE s == [q EXCEPT !.node = "answer"]
        <4>1. Alike(q, s) /\ s.node = "answer" /\ s.draft = q.draft /\ s.effect = q.effect
          BY <2>2, NodeAlike
        <4> HIDE DEF s
        <4>2. QED
          BY <2>3, <3>1, <4>1 DEF s
      <3>3. QED
        BY <2>3, <2>4, <2>6, <3>2 DEF Obeys, Alike, Stages
    <2>7. CASE NeedHandoff(x, q) /\ quote = "floor"
      <3>1. /\ Alike(q, run'[x]) /\ run'[x].node = "handoff" /\ run'[x].effect = "none"
        BY <2>2, <2>3, <2>7, NeedHandoffAlike
      <3>2. QED
        BY <2>3, <2>7, <3>1 DEF Obeys, Alike, Stages
    <2>8. QED
      BY <2>5, <2>6, <2>7
  <1>3. CASE \E p \in First(profile[r.inq], r.matches) :
               LET drafted == [r EXCEPT !.product = p, !.draft = "quote"] IN
               \/ Goto(x, [drafted EXCEPT !.quote = "ok"], "answer")
               \/ NeedHandoff(x, [drafted EXCEPT !.quote = "floor"])
    BY <1>2, <1>3
  <1>4. QED
    BY <1>1, <1>3 DEF Quoted

LEMMA QuoteObeys ==
  ASSUME TypeOK, ProductsAssumption, NEW x \in Runs, Placed(x), Policy(x), ReplyWithQuote(x)
  PROVE  Policy(x)'
  <1> DEFINE text == profile[run[x].inq]
  <1>1. /\ run[x] \in Run /\ run[x].quote = "none" /\ run[x].effect = "none"
        /\ run[x].node = "quote" /\ profile' = profile /\ Obeys(run[x], text)
    BY DEF TypeOK, Policy, Obeys, Placed, ReplyWithQuote, Stages
  <1>2. PICK d \in Decisions(run[x]) :
          \/ d.review /\ Goto(x, Apply(run[x], d), "handoff")
          \/ ~d.review /\ Quoted(x, Apply(run[x], d))
          \/ Goto(x, [Apply(run[x], d) EXCEPT
                        !.draft = IF Apply(run[x], d).draft = "none" THEN "fallback"
                                  ELSE Apply(run[x], d).draft], "answer")
    BY DEF ReplyWithQuote
  <1> DEFINE r == Apply(run[x], d)
  <1>3. r \in Run /\ Alike(run[x], r) /\ r.effect = "none"
    BY <1>1, DecisionsType, ApplyAlike
  <1>4. CASE d.review /\ Goto(x, r, "handoff")
    <2>1. run'[x].node = "handoff" /\ run'[x].quote = "none" /\ run'[x].effect = "none"
      BY <1>1, <1>4, DecidedAlike DEF Alike
    <2>2. QED
      BY <2>1, AsksObeys DEF Policy
  <1>5. /\ r.matches = MatchProduct(text, r.catalog) /\ r.quote = "none"
        /\ text = profile[r.inq] /\ r.inq = run[x].inq /\ r.provider = run[x].provider
        /\ r.provider = "rule_based" /\ r.conv # None => Grade(text) # "C"
    BY <1>1, <1>3 DEF Obeys, Alike
  <1>6. CASE Quoted(x, r)
    <2> HIDE DEF r, text
    <2>1. Obeys(run'[x], text) /\ run'[x].inq = r.inq
      BY <1>3, <1>5, <1>6, QuotedObeys
    <2>2. QED
      BY <1>1, <1>5, <2>1 DEF Policy, text
  <1>7. CASE Goto(x, [r EXCEPT !.draft = IF r.draft = "none" THEN "fallback" ELSE r.draft],
                  "answer")
    <2> DEFINE draft == IF r.draft = "none" THEN "fallback" ELSE r.draft
               q == [r EXCEPT !.draft = draft]
               s == [q EXCEPT !.node = "answer"]
    <2>1. Goto(x, q, "answer")
      BY <1>7
    <2> HIDE DEF r, text
    <2>2. draft \in {"none", "quote", "provider", "fallback"}
      BY <1>3 DEF Run
    <2> HIDE DEF draft
    <2>3. q \in Run /\ Alike(r, q) /\ q.effect = "none"
      BY <1>3, <2>2, DraftAlike
    <2> HIDE DEF q
    <2>4. run'[x] = s
      BY <2>1, GotoMoves
    <2>5. Alike(q, s) /\ s.node = "answer" /\ s.effect = q.effect
      BY <2>3, NodeAlike
    <2> HIDE DEF s
    <2>6. Alike(q, run'[x]) /\ run'[x].node = "answer" /\ run'[x].effect = "none"
      BY <2>3, <2>4, <2>5
    <2>7. Obeys(run'[x], text) /\ run'[x].inq = r.inq
      BY <1>5, <2>3, <2>6 DEF Obeys, Alike
    <2>8. QED
      BY <1>1, <1>5, <2>7 DEF Policy, text
  <1>8. QED
    BY <1>2, <1>4, <1>6, <1>7

\* A node after the answer, or the end, whatever it is.
LEMMA CloseObeys ==
  ASSUME TypeOK, NEW x \in Runs, Policy(x), UNCHANGED profile, NEW r \in Run,
         Alike(run[x], r), r.draft = run[x].draft,
         r.effect = run[x].effect \/ r.effect = "parked",
         NEW node \in {"handoff", "park", "persist", "end", "raised", "lost", "committed"},
         Goto(x, r, node)
  PROVE  Policy(x)'
  <1>1. run'[x] = [r EXCEPT !.node = node]
    BY GotoMoves
  <1>2. /\ Alike(r, run'[x]) /\ run'[x].node = node /\ run'[x].draft = r.draft
        /\ run'[x].effect = r.effect
    BY <1>1, NodeAlike
  <1>3. Alike(run[x], run'[x])
    BY <1>2, AlikeChains
  <1> DEFINE text == profile[run[x].inq]
  <1>4. Obeys(run[x], text)
    BY DEF Policy
  <1> HIDE DEF text
  <1>5. Obeys(run'[x], text)
    BY <1>2, <1>3, <1>4, RestObeys
  <1>6. run'[x].inq = run[x].inq
    BY <1>3 DEF Alike
  <1>7. QED
    BY <1>5, <1>6 DEF Policy, text

\* The answer is decided,
LEMMA AnswerObeys ==
  ASSUME TypeOK, NEW x \in Runs, Placed(x), Policy(x), NegotiateAndAnswer(x)
  PROVE  Policy(x)'
  <1> DEFINE text == profile[run[x].inq]
  <1>1. /\ run[x] \in Run /\ run[x].effect = "none" /\ run[x].node = "answer"
        /\ profile' = profile /\ Obeys(run[x], text)
    BY DEF TypeOK, Policy, Placed, NegotiateAndAnswer, Stages
  <1>2. PICK d \in Decisions(run[x]) :
          LET r == Apply(run[x], d) IN
          Goto(x, r, "handoff") \/ Goto(x, r, "persist") \/ Load(x, r, "send")
    BY DEF NegotiateAndAnswer
  <1> DEFINE r == Apply(run[x], d)
  <1>3. CASE Goto(x, r, "handoff") \/ Goto(x, r, "persist")
    <2>1. /\ Alike(run[x], run'[x]) /\ run'[x].effect = "none"
          /\ run'[x].node \in {"handoff", "persist"}
          /\ run[x].provider = "rule_based" => run'[x].draft = run[x].draft
      BY <1>1, <1>3, DecidedAlike
    <2>2. Obeys(run'[x], text) /\ run'[x].inq = run[x].inq
      BY <1>1, <2>1, RestObeys DEF Alike
    <2>3. QED
      BY <1>1, <2>2 DEF Policy
  <1>4. CASE Load(x, r, "send")
    <2>1. /\ r \in Run /\ Alike(run[x], r) /\ r.effect = "none"
          /\ run[x].provider = "rule_based" => r.draft = run[x].draft
      BY <1>1, DecisionsType, ApplyAlike, RulesDecide
    <2> HIDE DEF r
    <2>2. PICK flag \in Reads(r) : Goto(x, [r EXCEPT !.read = flag], "send")
      BY <1>4 DEF Load
    <2> DEFINE q == [r EXCEPT !.read = flag]
    <2>3. q \in Run /\ Alike(r, q) /\ q.draft = r.draft /\ q.effect = "none"
      BY <2>1, ReadAlike
    <2>4. Goto(x, q, "send")
      BY <2>2
    <2> HIDE DEF q
    <2>5. run'[x] = [q EXCEPT !.node = "send"]
      BY <2>4, GotoMoves
    <2>6. /\ Alike(q, run'[x]) /\ run'[x].node = "send" /\ run'[x].draft = q.draft
          /\ run'[x].effect = "none"
      BY <2>3, <2>5, NodeAlike
    <2>7. Alike(run[x], run'[x])
      BY <2>1, <2>3, <2>6, AlikeChains
    <2>8. run[x].quote # "floor"
      BY <1>1 DEF Obeys, Stages
    <2>9. Obeys(run'[x], text) /\ run'[x].inq = run[x].inq
      BY <1>1, <2>1, <2>3, <2>6, <2>7, <2>8 DEF Obeys, Alike, Stages
    <2>10. QED
      BY <1>1, <2>9 DEF Policy
  <1>5. QED
    BY <1>2, <1>3, <1>4

\* and what is sent is what obeyed the policy before.
LEMMA SendObeys ==
  ASSUME TypeOK, NEW x \in Runs, Placed(x), Policy(x), SendMessage(x)
  PROVE  Policy(x)'
  <1> DEFINE r == run[x]
             text == profile[r.inq]
  <1>1. /\ r \in Run /\ r.effect = "none" /\ r.node = "send"
        /\ profile' = profile /\ Obeys(r, text) /\ Alike(r, r)
    BY DEF TypeOK, Policy, Placed, SendMessage, Alike
  <1>2. CASE Goto(x, [r EXCEPT !.effect = "parked", !.review = TRUE], "persist")
    <2> DEFINE q == [r EXCEPT !.effect = "parked", !.review = TRUE]
    <2>1. q \in Run /\ Alike(r, q) /\ q.draft = r.draft /\ q.effect = "parked"
      BY <1>1, ParkedAlike
    <2>2. Goto(x, q, "persist")
      BY <1>2
    <2> HIDE DEF q
    <2>3. QED
      BY <1>1, <2>1, <2>2, CloseObeys
  <1>3. CASE Goto(x, [r EXCEPT !.effect = "sent"], "followup")
    <2> DEFINE q == [r EXCEPT !.effect = "sent"]
    <2>1. q \in Run /\ Alike(r, q) /\ q.draft = r.draft /\ q.effect = "sent"
      BY <1>1, EffectAlike
    <2>2. Goto(x, q, "followup")
      BY <1>3
    <2> HIDE DEF q
    <2>3. run'[x] = [q EXCEPT !.node = "followup"]
      BY <2>2, GotoMoves
    <2>4. /\ Alike(q, run'[x]) /\ run'[x].node = "followup" /\ run'[x].draft = q.draft
          /\ run'[x].effect = "sent"
      BY <2>1, <2>3, NodeAlike
    <2>5. Alike(r, run'[x])
      BY <2>1, <2>4, AlikeChains
    <2>6. r.quote # "floor"
      BY <1>1 DEF Obeys
    <2>7. Obeys(run'[x], text) /\ run'[x].inq = r.inq
      BY <1>1, <2>1, <2>4, <2>5, <2>6 DEF Obeys, Alike, Stages
    <2>8. QED
      BY <1>1, <2>7 DEF Policy
  <1>4. QED
    BY <1>2, <1>3 DEF SendMessage

LEMMA EndObeys ==
  ASSUME TypeOK, NEW x \in Runs, Policy(x),
         \/ ProviderFails(x) \/ BusyFails(x) \/ CommitFails(x) \/ End(x, "raised")
         \/ ScheduleFollowup(x) \/ RequestHumanHandoff(x) \/ RequestHandoff(x)
         \/ PersistMemory(x) \/ Commit(x)
  PROVE  Policy(x)'
  <1> DEFINE r == run[x]
  <1>1. r \in Run /\ Alike(r, r) /\ UNCHANGED profile
    BY DEF TypeOK, Alike, ProviderFails, BusyFails, CommitFails, ScheduleFollowup, End,
           RequestHumanHandoff, RequestHandoff, PersistMemory, Commit
  <1>2. CASE \/ ProviderFails(x) \/ BusyFails(x) \/ CommitFails(x) \/ PersistMemory(x)
             \/ Commit(x)
    BY <1>1, <1>2, CloseObeys DEF ProviderFails, BusyFails, CommitFails, End, PersistMemory, Commit
  <1>3. CASE ScheduleFollowup(x)
    <2>1. CASE Goto(x, [r EXCEPT !.task = TRUE], "persist")
      <3> DEFINE q == [r EXCEPT !.task = TRUE]
      <3>1. q \in Run /\ Alike(r, q) /\ q.draft = r.draft /\ q.effect = r.effect
        BY <1>1 DEF Run, Alike
      <3>2. Goto(x, q, "persist")
        BY <2>1
      <3> HIDE DEF q
      <3>3. QED
        BY <1>1, <3>1, <3>2, CloseObeys
    <2>2. CASE End(x, "raised")
      BY <1>1, <2>2, CloseObeys DEF End
    <2>3. QED
      BY <1>3, <2>1, <2>2 DEF ScheduleFollowup
  <1>4. CASE RequestHumanHandoff(x)
    <2> DEFINE q == [r EXCEPT !.review = TRUE]
    <2>1. q \in Run /\ Alike(r, q) /\ q.draft = r.draft /\ q.effect = r.effect
      BY <1>1, ReviewAlike
    <2>2. Load(x, q, "park") \/ Goto(x, q, "persist")
      BY <1>4 DEF RequestHumanHandoff
    <2> HIDE DEF q
    <2>3. CASE Goto(x, q, "persist")
      BY <1>1, <2>1, <2>3, CloseObeys
    <2>4. CASE Load(x, q, "park")
      <3>1. PICK flag \in Reads(q) : Goto(x, [q EXCEPT !.read = flag], "park")
        BY <2>4 DEF Load
      <3> DEFINE s == [q EXCEPT !.read = flag]
      <3>2. s \in Run /\ Alike(q, s) /\ s.draft = q.draft /\ s.effect = q.effect
        BY <2>1, ReadAlike
      <3>3. Goto(x, s, "park")
        BY <3>1
      <3> HIDE DEF s
      <3>4. Alike(r, s)
        BY <2>1, <3>2, AlikeChains
      <3>5. QED
        BY <1>1, <2>1, <3>2, <3>3, <3>4, CloseObeys
    <2>5. QED
      BY <2>2, <2>3, <2>4
  <1>5. CASE RequestHandoff(x)
    <2> DEFINE q == [r EXCEPT !.effect = "parked"]
    <2>1. q \in Run /\ Alike(r, q) /\ q.draft = r.draft /\ q.effect = "parked"
      BY <1>1, EffectAlike
    <2>2. Goto(x, q, "persist")
      BY <1>5 DEF RequestHandoff
    <2> HIDE DEF q
    <2>3. QED
      BY <1>1, <2>1, <2>2, CloseObeys
  <1>6. CASE End(x, "raised")
    BY <1>1, <1>6, CloseObeys DEF End
  <1>7. QED
    BY <1>2, <1>3, <1>4, <1>5, <1>6

\* Whatever the step, every run obeys the policy.
LEMMA NextObeys ==
  ASSUME TypeOK, IInv, ConversationsAssumption, ProductsAssumption, \A x \in Runs : Policy(x),
         [Next]_vars
  PROVE  \A x \in Runs : Policy(x)'
  <1>1. SUFFICES ASSUME NEW y \in Runs
                 PROVE  Policy(y)'
    OBVIOUS
  <1>2. ASSUME run'[y] = run[y], UNCHANGED profile
        PROVE  Policy(y)'
    BY <1>2 DEF Policy
  <1>3. CASE \/ UNCHANGED vars \/ OtherBegins \/ OtherEnds
             \/ \E c \in Conversations : SetTakeover(c)
             \/ \E p \in Products : Shelve(p)
    BY <1>2, <1>3 DEF vars, OtherBegins, OtherEnds, SetTakeover, Shelve
  <1>4. ASSUME NEW x \in Runs, Start(x)
        PROVE  Policy(y)'
    <2>1. CASE x = y
      <3>1. PICK p \in {"rule_based", "remote"}, i \in Inquiries \cup {None, Missing},
                 c \in Conversations \cup {None} : run' = [run EXCEPT ![x] = Fresh(p, i, c)]
        BY <1>4 DEF Start
      <3>2. run'[y].node = "receive" /\ run'[y].quote = "none" /\ run'[y].effect = "none"
        BY <2>1, <3>1 DEF TypeOK, Fresh
      <3>3. QED
        BY <3>2, EarlyObeys DEF Policy
    <2>2. CASE x # y
      BY <1>2, <1>4, <2>2 DEF Start, TypeOK
    <2>3. QED
      BY <2>1, <2>2
  <1>5. ASSUME NEW x \in Runs, Step(x) \/ CommitFails(x)
        PROVE  Policy(y)'
    <2>1. Moves(x)
      BY <1>5, StepMoves, NoneAssumption DEF IInv
    <2>2. CASE x = y
      BY <1>5, <2>2, ReceiveObeys, QualifyObeys, UnderstandObeys, QuoteObeys, AnswerObeys,
         SendObeys, EndObeys DEF Step, IInv
    <2>3. CASE x # y
      <3>1. run'[y] = run[y]
        BY <2>1, <2>3 DEF Moves, TypeOK
      <3>2. UNCHANGED profile
        BY <1>5 DEF Step, ReceiveInquiry, QualifyInquiry, UnderstandRequirement, ReplyWithQuote,
                    NegotiateAndAnswer, SendMessage, ScheduleFollowup, RequestHumanHandoff,
                    RequestHandoff, PersistMemory, Commit, ProviderFails, BusyFails, CommitFails, End
      <3>3. QED
        BY <1>2, <3>1, <3>2
    <2>4. QED
      BY <2>2, <2>3
  <1>6. QED
    BY <1>3, <1>4, <1>5 DEF Next

\* Whoever decides, and however many products, words and codes there are, what a run sends
\* keeps the policy.
THEOREM PolicyIsKept == Spec => []PolicyKept
  <1> DEFINE Obeyed == \A x \in Runs : Policy(x)
  <1>1. Init => Obeyed
    <2>1. ASSUME Init, NEW x \in Runs
          PROVE  /\ run[x].node = "committed" /\ run[x].quote = "none"
                 /\ run[x].effect = "none"
      BY <2>1 DEF Init, Fresh
    <2>2. QED
      BY <2>1 DEF Policy, Obeys
  <1>2. TypeOK /\ IInv /\ Obeyed /\ [Next]_vars => Obeyed'
    BY NextObeys, ConversationsAssumption, ProductsAssumption
  <1>3. IInv /\ Obeyed => PolicyKept
    <2>1. ASSUME IInv, Obeyed, NEW x \in Runs, run[x].effect = "sent"
          PROVE  LET r == run[x] IN
                 /\ r.quote # "floor"
                 /\ r.quote = "ok" =>
                      \A p \in r.catalog : Fit(p, profile[r.inq]) <= Fit(r.product, profile[r.inq])
                 /\ r.provider = "rule_based" =>
                      /\ r.quote = "ok" => r.draft = "quote"
                      /\ {"spam_keyword", "possible_competitor"} \cap profile[r.inq] # {} =>
                           {"real_company", "verified_domain"} \cap profile[r.inq] # {}
      <3>1. run[x].conv # None
        BY <2>1 DEF IInv, Placed
      <3>2. Obeys(run[x], profile[run[x].inq])
        BY <2>1 DEF Policy
      <3>3. run[x].provider = "rule_based" => Grade(profile[run[x].inq]) # "C"
        BY <2>1, <3>1, <3>2 DEF Obeys
      <3>4. run[x].provider = "rule_based" =>
              ({"spam_keyword", "possible_competitor"} \cap profile[run[x].inq] # {} =>
                 {"real_company", "verified_domain"} \cap profile[run[x].inq] # {})
        BY <3>3, SpamIsC
      <3>5. QED
        BY <2>1, <3>2, <3>4 DEF Obeys
    <2>2. QED
      BY <2>1 DEF PolicyKept
  <1>4. QED
    BY <1>1, <1>2, <1>3, TypeCorrect, RunsInPlace, PTL DEF Spec
===============================================================================
