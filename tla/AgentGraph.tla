------------------------------ MODULE AgentGraph ------------------------------
(***************************************************************************)
(* The operating graph of the agent: eight nodes that score an inquiry,    *)
(* ask a decision provider at four stages, draft a quotation, answer the   *)
(* customer or ask a person, and schedule a follow-up (app/agent).         *)
(*                                                                         *)
(* A run is one transaction, which its caller commits.  Its first flush    *)
(* takes the write lock of the database, and it waits on the provider with *)
(* the lock held from the quotation on.  The conversation is loaded at the *)
(* first node if the run has to look its inquiry up, and then or again     *)
(* before the flush that answers or parks: others may write in between.    *)
(***************************************************************************)
EXTENDS Matching

CONSTANTS
  Inquiries,
  Conversations,
  InquiryOf,   \* Conversation.inquiry_id
  Profiles,    \* what inquiries may be like: a set of subsets of Traits
  Runs,        \* runs that may be in progress at the same time
  Other,       \* every request that is not a run
  Missing,     \* an id that no inquiry has
  None

\* The signals of scoring.score_inquiry_record, whether the text reads like an order,
\* and its words.
Signals == {"real_company", "verified_domain", "specific_quantity", "specific_product",
            "destination_known", "spam_keyword", "possible_competitor", "too_short"}
Traits == Signals \cup {"buying_terms"} \cup Words \cup Codes

ASSUME ConversationsAssumption == InquiryOf \in [Conversations -> Inquiries]
ASSUME ProfilesAssumption ==
  Profiles \subseteq SUBSET Traits /\ Signals \cap (Words \cup Codes) = {}
ASSUME NoneAssumption ==
  /\ None \notin Inquiries \cup Conversations \cup Runs \cup Products \cup {Other, Missing}
  /\ Other \notin Runs /\ Missing \notin Inquiries

VARIABLES
  profile,   \* the traits of each inquiry
  active,    \* the products that are active and not deleted
  takeover,  \* Conversation.is_human_takeover
  writer,    \* who holds the write lock of the database
  run,       \* CloserGraphState of each run
  held       \* history: a person has held the conversation since the run began

vars == <<profile, active, takeover, writer, run, held>>

------------------------------------------------------------------------------
Stages == {"qualify", "understand", "quote", "answer"}
Nodes == Stages \cup {"receive", "send", "followup", "handoff", "park", "persist"}

\* send, park: in send_message and request_handoff, with the conversation loaded.
\* read: the takeover flag of the conversation as loaded; matches: product_matches;
\* catalog: what was active then; product: what is quoted; effect: a message on the
\* wire, or a pending approval.
Run == [node: Nodes \cup {"end", "raised", "lost", "committed"},
        provider: {"rule_based", "remote"},
        inq: Inquiries \cup {None, Missing}, conv: Conversations \cup {None},
        read: {"unread", "free", "held"}, grade: {"none", "A", "B", "C"},
        matches: SUBSET Products, catalog: SUBSET Products,
        product: Products \cup {None}, quote: {"none", "ok", "floor"},
        draft: {"none", "quote", "provider", "fallback"},
        effect: {"none", "sent", "parked"}, task: BOOLEAN, review: BOOLEAN]

Fresh(provider, i, c) ==
  [node |-> "receive", provider |-> provider, inq |-> i, conv |-> c, read |-> "unread",
   grade |-> "none", matches |-> {}, catalog |-> {}, product |-> None,
   quote |-> "none", draft |-> "none", effect |-> "none", task |-> FALSE, review |-> FALSE]

TypeOK ==
  /\ profile \in [Inquiries -> Profiles]
  /\ active \subseteq Products
  /\ takeover \in [Conversations -> BOOLEAN]
  /\ writer \in Runs \cup {None, Other}
  /\ run \in [Runs -> Run]
  /\ held \in [Runs -> BOOLEAN]

Init ==
  /\ profile \in [Inquiries -> Profiles]
  /\ active = Products
  /\ takeover = [c \in Conversations |-> FALSE]
  /\ writer = None
  /\ run = [x \in Runs |-> [Fresh("rule_based", None, None) EXCEPT !.node = "committed"]]
  /\ held = [x \in Runs |-> FALSE]

------------------------------------------------------------------------------
(* Scoring *)

Points(signal) ==
  CASE signal \in {"real_company", "specific_quantity"} -> 18
    [] signal = "specific_product" -> 15
    [] signal = "verified_domain" -> 12
    [] signal = "destination_known" -> 8
    [] signal \in {"spam_keyword", "possible_competitor"} -> -35
    [] signal = "too_short" -> -15

Earned(traits, signal) == IF signal \in traits THEN Points(signal) ELSE 0

Total(traits) ==
  35 + Earned(traits, "real_company") + Earned(traits, "verified_domain")
     + Earned(traits, "specific_quantity") + Earned(traits, "specific_product")
     + Earned(traits, "destination_known") + Earned(traits, "spam_keyword")
     + Earned(traits, "possible_competitor") + Earned(traits, "too_short")

\* The score is kept within 0..100 after everything is added up.
Score(traits) == Max({0, Min({100, Total(traits)})})

Grade(traits) ==
  CASE Score(traits) >= 75 -> "A" [] Score(traits) \in 45..74 -> "B" [] OTHER -> "C"

------------------------------------------------------------------------------
(* Decisions *)

\* requires_human_review, should_quote, and whether there is a draft_response.
Decision == [review: BOOLEAN, quote: BOOLEAN, draft: BOOLEAN]

Quantified(r) == "specific_quantity" \in profile[r.inq]

RequiresCatalogMatch(r) ==
  profile[r.inq] \cap {"specific_product", "specific_quantity", "buying_terms"} # {}

\* Mutant of RuleBased: the grade is not looked at.
RuleBasedLenient(r) ==
  [review |-> /\ r.node = "understand" /\ r.matches = {} /\ r.conv # None
              /\ RequiresCatalogMatch(r),
   quote |-> r.node = "quote" => Quantified(r) /\ r.matches # {},
   draft |-> FALSE]

\* RuleBasedGraphDecisionProvider
RuleBased(r) ==
  [review |-> \/ r.node = "qualify" /\ r.grade = "C" /\ r.conv # None
              \/ /\ r.node = "understand" /\ r.matches = {} /\ r.conv # None
                 /\ RequiresCatalogMatch(r),
   quote |-> r.node = "quote" => Quantified(r) /\ r.matches # {},
   draft |-> FALSE]

\* A remote provider may decide anything.
Decisions(r) == IF r.provider = "rule_based" THEN {RuleBased(r)} ELSE Decision

\* apply_policy_decision
Apply(r, d) ==
  [r EXCEPT !.draft = IF d.draft THEN "provider" ELSE @, !.review = @ \/ d.review]

------------------------------------------------------------------------------
(* Nodes *)

Goto(x, r, node) == run' = [run EXCEPT ![x] = [r EXCEPT !.node = node]]

NeedHandoff(x, r) == Goto(x, [r EXCEPT !.review = TRUE], "handoff")

\* The first flush takes the lock.
Lock(x) == writer \in {None, x} /\ writer' = x

Flag(c) == IF takeover[c] THEN "held" ELSE "free"

\* What the session may take the flag for: what is stored, or what it has loaded before,
\* as long as something refers to that object.
Reads(r) == {Flag(r.conv), r.read} \ {"unread"}

\* The conversation is loaded, and the run is about to write.
Load(x, r, node) == \E flag \in Reads(r) : Goto(x, [r EXCEPT !.read = flag], node)

\* An inquiry and a conversation that are both given need not belong together.
Start(x) ==
  /\ run[x].node \in {"raised", "lost", "committed"}
  /\ \E p \in {"rule_based", "remote"}, i \in Inquiries \cup {None, Missing},
        c \in Conversations \cup {None} :
       /\ run' = [run EXCEPT ![x] = Fresh(p, i, c)]
       /\ held' = [held EXCEPT ![x] = c # None /\ takeover[c]]
  /\ UNCHANGED <<profile, active, takeover, writer>>

\* Mutant of Resolved: the conversation's own key is taken for its inquiry's.
ResolvedKey(r) ==
  IF r.inq = None /\ r.conv # None
  THEN [r EXCEPT !.read = Flag(r.conv), !.inq = r.conv] ELSE r

Resolved(r) ==
  IF r.inq = None /\ r.conv # None
  THEN [r EXCEPT !.read = Flag(r.conv), !.inq = InquiryOf[r.conv]] ELSE r

\* Failed: nothing is committed, but what is on the wire stays there.
End(x, node) ==
  /\ Goto(x, run[x], node)
  /\ writer' = IF writer = x THEN None ELSE writer
  /\ UNCHANGED <<profile, active, takeover, held>>

\* get_inquiry raises if there is no such inquiry.
ReceiveInquiry(x) ==
  /\ run[x].node = "receive"
  /\ \/ run[x].inq = Missing /\ End(x, "raised")
     \/ /\ run[x].inq # Missing /\ Goto(x, Resolved(run[x]), "qualify")
        /\ UNCHANGED <<profile, active, takeover, writer, held>>

QualifyInquiry(x) ==
  LET r == run[x] IN
  /\ r.node = "qualify"
  /\ \/ r.inq = None /\ NeedHandoff(x, r)
     \/ /\ r.inq # None
        /\ LET scored == [r EXCEPT !.grade = Grade(profile[r.inq])] IN
             \E d \in Decisions(scored) :
               Goto(x, Apply(scored, d), IF d.review THEN "handoff" ELSE "understand")
  /\ UNCHANGED <<profile, active, takeover, writer, held>>

\* The requirement is matched with the catalog.
UnderstandRequirement(x) ==
  /\ run[x].node = "understand"
  /\ LET r == [run[x] EXCEPT !.matches = MatchProduct(profile[run[x].inq], active),
                            !.catalog = active] IN
       \E d \in Decisions(r) :
         Goto(x, Apply(r, d), IF d.review THEN "handoff" ELSE "quote")
  /\ UNCHANGED <<profile, active, takeover, writer, held>>

\* calc_quote refuses, or drafts a quotation for the first match, which may have been
\* taken off the catalog meanwhile.
Quoted(x, r) ==
  \/ NeedHandoff(x, r) /\ UNCHANGED writer
  \/ /\ Lock(x)
     /\ \E p \in First(profile[r.inq], r.matches) :
          LET drafted == [r EXCEPT !.product = p, !.draft = "quote"] IN
          \/ Goto(x, [drafted EXCEPT !.quote = "ok"], "answer")
          \/ NeedHandoff(x, [drafted EXCEPT !.quote = "floor"])

ReplyWithQuote(x) ==
  /\ run[x].node = "quote"
  /\ \E d \in Decisions(run[x]) :
       LET r == Apply(run[x], d)
           quotable == d.quote /\ Quantified(r) /\ r.matches # {}
       IN
       \/ d.review /\ Goto(x, r, "handoff") /\ UNCHANGED writer
       \/ ~d.review /\ quotable /\ Quoted(x, r)
       \/ /\ ~d.review /\ ~quotable
          /\ Goto(x, [r EXCEPT !.draft = IF @ = "none" THEN "fallback" ELSE @], "answer")
          /\ UNCHANGED writer
  /\ UNCHANGED <<profile, active, takeover, held>>

\* Mutant of Guarded: the takeover is not a reason.
GuardedByText(r, risky) == risky

\* _guardrail_reasons; risky: a sensitive word or an amount in the text.
Guarded(r, risky) == risky \/ r.read = "held"

NegotiateAndAnswer(x) ==
  /\ run[x].node = "answer"
  /\ \E d \in Decisions(run[x]) :
       LET r == Apply(run[x], d) IN
       \/ d.review /\ Goto(x, r, "handoff")
       \/ ~d.review /\ r.conv = None /\ Goto(x, r, "persist")
       \/ ~d.review /\ r.conv # None /\ Load(x, r, "send")
  /\ UNCHANGED <<profile, active, takeover, writer, held>>

\* The draft is parked, or it is on the wire.
SendMessage(x) ==
  LET r == run[x] IN
  /\ r.node = "send" /\ Lock(x)
  /\ \E risky \in BOOLEAN :
       IF Guarded(r, risky)
       THEN Goto(x, [r EXCEPT !.effect = "parked", !.review = TRUE], "persist")
       ELSE Goto(x, [r EXCEPT !.effect = "sent"], "followup")
  /\ UNCHANGED <<profile, active, takeover, held>>

\* create_followup raises if the conversation is not the inquiry's.
ScheduleFollowup(x) ==
  LET r == run[x] IN
  /\ r.node = "followup"
  /\ IF r.inq = InquiryOf[r.conv]
     THEN /\ Goto(x, [r EXCEPT !.task = TRUE], "persist")
          /\ UNCHANGED <<profile, active, takeover, writer, held>>
     ELSE End(x, "raised")

\* Mutant of ToPark: a run that is marked for review already is not parked.
ToParkUnmarked(r) == r.conv # None /\ r.effect = "none" /\ ~r.review

ToPark(r) == r.conv # None /\ r.effect = "none"

RequestHumanHandoff(x) ==
  LET r == [run[x] EXCEPT !.review = TRUE] IN
  /\ run[x].node = "handoff"
  /\ IF ToPark(run[x]) THEN Load(x, r, "park") ELSE Goto(x, r, "persist")
  /\ UNCHANGED <<profile, active, takeover, writer, held>>

RequestHandoff(x) ==
  /\ run[x].node = "park" /\ Lock(x)
  /\ Goto(x, [run[x] EXCEPT !.effect = "parked"], "persist")
  /\ UNCHANGED <<profile, active, takeover, held>>

PersistMemory(x) ==
  /\ run[x].node = "persist"
  /\ Goto(x, run[x], "end")
  /\ UNCHANGED <<profile, active, takeover, writer, held>>

\* The caller commits.  A parked run has taken the conversation over; the flag is
\* written if it was not set when it was loaded.
Commit(x) ==
  LET r == run[x] IN
  /\ r.node = "end" /\ writer \in {None, x}
  /\ Goto(x, r, "committed")
  /\ takeover' = IF r.effect = "parked" /\ r.read = "free"
                 THEN [takeover EXCEPT ![r.conv] = TRUE] ELSE takeover
  /\ writer' = None
  /\ UNCHANGED <<profile, active, held>>

------------------------------------------------------------------------------
(* Failures, and people *)

\* Mutant of Deciding: the follow-up asks the provider, too.
DecidingLate == Stages \cup {"followup"}

\* The nodes that ask the decision provider.
Deciding == Stages

\* A remote provider does not answer, or its answer is not a decision.
ProviderFails(x) ==
  /\ run[x].node \in Deciding /\ run[x].provider = "remote"
  /\ End(x, "raised")

\* Mutant of Busy: a run waits for the lock as long as it takes.
BusyNever(x) == FALSE

\* The database gives up waiting for the lock.
Busy(x) ==
  /\ run[x].node \in {"quote", "send", "park", "end"} /\ writer \notin {None, x}

BusyFails(x) == Busy(x) /\ End(x, "raised")

\* The process stops, or the commit fails.
CommitFails(x) == run[x].node = "end" /\ End(x, "lost")

\* Another request writes, and commits.
OtherBegins ==
  /\ writer = None /\ writer' = Other
  /\ UNCHANGED <<profile, active, takeover, run, held>>

OtherEnds ==
  /\ writer = Other /\ writer' = None
  /\ UNCHANGED <<profile, active, takeover, run, held>>

\* That of a person who takes a conversation over, or gives it back.
SetTakeover(c) ==
  /\ writer = Other /\ writer' = None
  /\ takeover' = [takeover EXCEPT ![c] = ~@]
  /\ held' = [x \in Runs |-> held[x] /\ (run[x].conv = c => takeover'[c])]
  /\ UNCHANGED <<profile, active, run>>

\* PUT or DELETE /products: a product is taken off the catalog, or put back.
Shelve(p) ==
  /\ writer = Other /\ writer' = None
  /\ active' = IF p \in active THEN active \ {p} ELSE active \cup {p}
  /\ UNCHANGED <<profile, takeover, run, held>>

------------------------------------------------------------------------------
Step(x) ==
  \/ ReceiveInquiry(x) \/ QualifyInquiry(x) \/ UnderstandRequirement(x) \/ ReplyWithQuote(x)
  \/ NegotiateAndAnswer(x) \/ SendMessage(x) \/ ScheduleFollowup(x) \/ RequestHumanHandoff(x)
  \/ RequestHandoff(x) \/ PersistMemory(x) \/ Commit(x) \/ ProviderFails(x) \/ BusyFails(x)

Next ==
  \/ \E x \in Runs : Start(x) \/ Step(x) \/ CommitFails(x)
  \/ OtherBegins \/ OtherEnds
  \/ \E c \in Conversations : SetTakeover(c)
  \/ \E p \in Products : Shelve(p)

Spec == Init /\ [][Next]_vars

\* A run goes on until it returns or raises: the requests to a provider and the wait
\* for the lock have timeouts.
FairSpec ==
  Spec /\ WF_vars(OtherEnds) /\ \A x \in Runs : WF_vars(Step(x))

------------------------------------------------------------------------------
(* Properties *)

\* A conversation that a person has held ever since the run began is not answered,
\* though the flag may be read long before the answer.
HeldIsNotAnswered == \A x \in Runs : run[x].effect = "sent" => ~held[x]

\* A run that raises with its message on the wire, and so forgets it, was given an
\* inquiry and a conversation that do not belong together.
SentIsRecorded ==
  \A x \in Runs :
    run[x].node = "raised" /\ run[x].effect = "sent" => run[x].inq # InquiryOf[run[x].conv]

\* Whoever decides, a quotation below the floor is not what a run sends, and what is
\* quoted is the product that fitted best when the catalog was searched.  With the
\* rules the customer gets the quotation that was drafted, and spam from nobody in
\* particular is not answered, however complete the order in it is.
PolicyKept ==
  \A x \in Runs :
    LET r == run[x] IN
    r.effect = "sent" =>
      /\ r.quote # "floor"
      /\ r.quote = "ok" =>
           \A p \in r.catalog : Fit(p, profile[r.inq]) <= Fit(r.product, profile[r.inq])
      /\ r.provider = "rule_based" =>
           /\ r.quote = "ok" => r.draft = "quote"
           /\ {"spam_keyword", "possible_competitor"} \cap profile[r.inq] # {} =>
                {"real_company", "verified_domain"} \cap profile[r.inq] # {}

\* What the caller is told of a run, and the customer gets of it.
Outcome(r) ==
  [attached |-> r.conv # None, effect |-> r.effect, review |-> r.review,
   result |-> IF r.node = "committed" THEN "closed"
              ELSE IF r.node \in {"raised", "lost"} THEN "failed" ELSE "open"]

Outcomes == [x \in Runs |-> Outcome(run[x])]

Contract == INSTANCE AgentContract WITH outcome <- Outcomes

\* Every run keeps the contract: a run with a conversation sends one answer or parks
\* one approval, nothing is sent once a person has been asked for, and the caller is
\* told which of the two it was.
ContractKept == Contract!Spec

\* Every run ends, though others take the lock again and again.
RunEnds ==
  \A x \in Runs : run[x].node = "receive" ~> run[x].node \in {"raised", "lost", "committed"}
==============================================================================
