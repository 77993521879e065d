------------------------------- MODULE Quoting -------------------------------
(***************************************************************************)
(* Pricing rules, their exchange-rate caches and the quotations drafted    *)
(* from them: catalog_domain/pricing, exchange_rate_sources,               *)
(* exchange_rates, quote_engine and agent_tools.calc_quote.                *)
(*                                                                         *)
(* Everything about rates is one JSON column, logistics_template: a        *)
(* refresh and a confirmation copy the one they read and write it back     *)
(* whole, a PUT replaces it by what the client sends.  A request reads the *)
(* rule (Begin...) and writes at its end; a refresh calls the provider in  *)
(* between.  A rule and a quotation know two currencies, the rule's and    *)
(* another one, and a quotation has one item.                              *)
(***************************************************************************)
EXTENDS QuoteEngine, FiniteSets

CONSTANTS
  Rules,        \* primary keys of the pricing_rule table (bounds the rows)
  RefreshLimit, \* rules a run of the worker looks at, due or not
  Products,     \* products, a subset of ProductType
  Scopes,       \* what a rule may be for: products, and None for all of them
  Forms,        \* prices a rule may be given, a subset of FormType
  Tables,       \* static exchange_rates a rule may be given, a subset of Table
  UnitCosts,    \* logistics per unit, in cents
  Fetched,      \* what the provider may answer, in hundredths
  Ttl,          \* ttl_days
  Skews,        \* UTC date minus the server's date
  Quantities,
  Workers,      \* requests that may be in progress at the same time
  MaxDay,       \* bound: days
  MaxVersion,   \* bound: versions of a rule
  MaxQuotes,    \* bound: rows of the quotation table
  None

\* foreign: the product's currency is not the rule's.
ProductType == [cost: Nat, foreign: BOOLEAN, moq: Nat]
FormType == [margin: Nat, tiers: SUBSET [min: Nat, price: Nat], floor: Nat]

ASSUME PricesAssumption ==
  /\ Products \subseteq ProductType /\ Scopes \subseteq Products \cup {None}
  /\ Forms \subseteq FormType /\ Tables \subseteq Table
  /\ UnitCosts \subseteq Nat /\ Fetched \subseteq Nat \ {0} /\ Quantities \subseteq Nat
  /\ \A f \in Forms : IsFiniteSet(f.tiers)
ASSUME RulesAssumption == Rules \subseteq Nat /\ RefreshLimit \in Nat \ {0}
ASSUME DatesAssumption == Ttl \in Nat \ {0} /\ Skews \subseteq {-1, 0, 1}
ASSUME BoundsAssumption == {MaxDay, MaxQuotes} \subseteq Nat /\ MaxVersion \in Nat \ {0}
ASSUME NoneAssumption ==
  /\ None \notin Rules /\ None \notin Products /\ None \notin Forms
  /\ None \notin [table: Table, expires: Int, confirmed: BOOLEAN]

VARIABLES
  rule,     \* the table pricing_rule (None: no such row)
  page,     \* the cache in each rule's template as last shown to the seller
  request,  \* what each worker is doing
  quote,    \* the table quotation, a sequence
  day,      \* date.today()
  vouched   \* history: the rates a person has confirmed, with their expiry

vars == <<rule, page, request, quote, day, vouched>>

------------------------------------------------------------------------------
Cache == [table: Table, expires: Int, confirmed: BOOLEAN]

NoTable == [fwd |-> 0, bwd |-> 0]

\* The column logistics_template; auto: it has an exchange_rate_provider with
\* targets, which is not switched off.
Template == [unitCost: UnitCosts \cup {0}, static: Tables \cup {NoTable},
             auto: BOOLEAN, cache: Cache \cup {None}]
Blank == [unitCost |-> 0, static |-> NoTable, auto |-> FALSE, cache |-> None]

\* product: None for a rule of all products; version: of the last snapshot.
Row == [product: Scopes, form: Forms, template: Template,
        version: 1..MaxVersion]

ASSUME NoRowAssumption ==
  None \notin [product: Scopes, form: Forms, template: Template, version: Nat]

\* template: the one a refresh has read; the one a PUT or a confirmation is to write,
\* None if it writes none.  form: the prices of a PUT.
Request == [op: {"idle", "refresh", "confirm", "put"}, rule: Rules \cup {None},
            template: Template \cup {None}, form: Forms \cup {None}]
Idle == [op |-> "idle", rule |-> None, template |-> None, form |-> None]

\* base, floor: unit and floor price in the rule's currency; rate: from there to the
\* quotation's; cache: the cache a rate came from, if any.
Quotation == [base: Nat, floor: Nat, rate: Rate, cache: Cache \cup {None},
              day: 0..MaxDay, hits: BOOLEAN]

TypeOK ==
  /\ rule \in [Rules -> Row \cup {None}]
  /\ page \in [Rules -> Cache \cup {None}]
  /\ request \in [Workers -> Request]
  /\ quote \in [1..MaxQuotes -> Quotation \cup {None}]
  /\ day \in 0..MaxDay
  /\ vouched \subseteq [table: Table, expires: Int]

Init ==
  /\ rule = [r \in Rules |-> None]
  /\ page = [r \in Rules |-> None]
  /\ request = [w \in Workers |-> Idle]
  /\ quote = [i \in 1..MaxQuotes |-> None]
  /\ day = 0
  /\ vouched = {}

------------------------------------------------------------------------------
(* Rules *)

Terms(cache) == [table |-> cache.table, expires |-> cache.expires]

\* A person who sends a confirmed cache confirms it.
Vouch(template) ==
  IF template.cache # None /\ template.cache.confirmed
  THEN vouched \cup {Terms(template.cache)} ELSE vouched

Confirmed(cache) == IF cache = None THEN None ELSE [cache EXCEPT !.confirmed = TRUE]

\* What a client may send: the template of the page with other values in it, which
\* may say that its cache is confirmed; or one without the keys it does not know.
Submissions(r) ==
  {Blank} \cup
  {[unitCost |-> u, static |-> t, auto |-> a, cache |-> c] :
     u \in UnitCosts, t \in Tables, a \in BOOLEAN,
     c \in {page[r], Confirmed(page[r])}}

Created == {x \in Rules : rule[x] # None}

\* Version 1 is recorded with the row, whose key is greater than those there are.
CreateRule(r) ==
  /\ \A x \in Created : x < r
  /\ \E p \in Scopes, f \in Forms, t \in Submissions(r) :
       /\ rule' = [rule EXCEPT ![r] = [product |-> p, form |-> f, template |-> t,
                                       version |-> 1]]
       /\ vouched' = Vouch(t)
  /\ UNCHANGED <<page, request, quote, day>>

\* GET /pricing-rules
Show(r) ==
  /\ rule[r] # None
  /\ page' = [page EXCEPT ![r] = rule[r].template.cache]
  /\ UNCHANGED <<rule, request, quote, day, vouched>>

Begin(w, op, r, template, form) ==
  /\ request[w].op = "idle"
  /\ request' = [request EXCEPT ![w] = [op |-> op, rule |-> r, template |-> template,
                                        form |-> form]]
  /\ UNCHANGED <<rule, page, quote, day>>

\* A column is written if it differs from what was read.
Written(r, template) == IF template = rule[r].template THEN None ELSE template

\* PUT /pricing-rules with prices, and with a template or without.
BeginPut(w, r) ==
  /\ rule[r] # None /\ rule[r].version < MaxVersion
  /\ \E f \in Forms :
       \/ Begin(w, "put", r, None, f) /\ UNCHANGED vouched
       \/ \E t \in Submissions(r) : Begin(w, "put", r, Written(r, t), f) /\ vouched' = Vouch(t)

\* The person confirms whatever the row holds, expired or not.
BeginConfirm(w, r) ==
  /\ rule[r] # None /\ rule[r].template.cache # None
  /\ LET t == [rule[r].template EXCEPT !.cache = Confirmed(@)] IN
       Begin(w, "confirm", r, Written(r, t), None) /\ vouched' = Vouch(t)

\* Mutant of NeedsRefresh: only a missing cache is refreshed.
NeedsFirst(cache) == cache = None

NeedsRefresh(cache) == cache # None => cache.expires < day

\* Among the first RefreshLimit rules, which the worker takes by key.
Reached(r) ==
  /\ rule[r] # None
  /\ Cardinality({x \in Created : x < r}) < RefreshLimit

\* What the worker refreshes: it does not look at confirmed, nor at static rates;
\* whether a rule is due is looked at behind the limit.
Due(r) ==
  /\ Reached(r)
  /\ rule[r].template.auto
  /\ NeedsRefresh(rule[r].template.cache)

BeginRefresh(w, r) ==
  Begin(w, "refresh", r, rule[r].template, None) /\ UNCHANGED vouched

\* By the worker.
BeginDueRefresh(w, r) == Due(r) /\ BeginRefresh(w, r)

\* By hand, with rates or with a provider.
BeginManualRefresh(w, r) == rule[r] # None /\ BeginRefresh(w, r)

\* Mutant of NewCache: the mark of the old cache is kept.
NewCacheMarked(old, rate, skew) ==
  [table |-> [fwd |-> rate, bwd |-> 0], expires |-> day + skew + Ttl,
   confirmed |-> old # None /\ old.confirmed]

\* The provider's rates, good for Ttl days from the UTC date, not confirmed.
NewCache(old, rate, skew) ==
  [table |-> [fwd |-> rate, bwd |-> 0], expires |-> day + skew + Ttl, confirmed |-> FALSE]

\* The provider answers, and the template is written with what else was read.
FinishRefresh(w) ==
  LET q == request[w] IN
  /\ q.op = "refresh"
  /\ \E rate \in Fetched, skew \in Skews :
       rule' = [rule EXCEPT ![q.rule].template =
                  [q.template EXCEPT !.cache = NewCache(@, rate, skew)]]
  /\ request' = [request EXCEPT ![w] = Idle]
  /\ UNCHANGED <<page, quote, day, vouched>>

\* Mutant of Put: a PUT without a template clears the column.
PutAlways(template, current) == template

Put(template, current) == IF template = None THEN current ELSE template

FinishConfirm(w) ==
  LET q == request[w] IN
  /\ q.op = "confirm"
  /\ rule' = [rule EXCEPT ![q.rule].template = Put(q.template, @)]
  /\ request' = [request EXCEPT ![w] = Idle]
  /\ UNCHANGED <<page, quote, day, vouched>>

\* The next version is recorded with the row.
FinishPut(w) ==
  LET q == request[w] IN
  /\ q.op = "put"
  /\ rule[q.rule].version < MaxVersion
  /\ rule' = [rule EXCEPT ![q.rule].template = Put(q.template, @),
                          ![q.rule].form = q.form, ![q.rule].version = @ + 1]
  /\ request' = [request EXCEPT ![w] = Idle]
  /\ UNCHANGED <<page, quote, day, vouched>>

\* No answer, an answer without the currency, a rate that is not positive; or the
\* transaction does not commit.
Fail(w) ==
  /\ request[w].op # "idle"
  /\ request' = [request EXCEPT ![w] = Idle]
  /\ UNCHANGED <<rule, page, quote, day, vouched>>

------------------------------------------------------------------------------
(* Quotations *)

Usable(cache) == cache.confirmed /\ cache.expires >= day

\* [rate, cache]: the rate between the two currencies, and the cache it is from; none
\* if there is a cache that may not be used, whatever the static table says.
Resolve(template, out) ==
  LET c == template.cache
      static == {[rate |-> x, cache |-> None] : x \in TableRates(template.static, out)}
      cached == {[rate |-> x, cache |-> c] : x \in TableRates(c.table, out)}
  IN IF c = None THEN static
     ELSE IF ~Usable(c) THEN {}
     ELSE IF cached # {} THEN cached ELSE static

\* From one currency to itself no table is asked.
Conversions(template, needed, out) ==
  IF needed THEN Resolve(template, out) ELSE {[rate |-> One, cache |-> None]}

\* The product's own rule goes before a rule of all products; which of several is
\* taken is not ordered by the query.
RulesFor(p) ==
  LET own == {r \in Rules : rule[r] # None /\ rule[r].product = p} IN
  IF own # {} THEN own ELSE {r \in Rules : rule[r] # None /\ rule[r].product = None}

\* calc_quote; foreign: the quotation is in the other currency.  The cost is only
\* converted if no tier applies.
CalcQuote(i) ==
  /\ quote[i] = None
  /\ \E p \in Products, n \in Quantities, foreign \in BOOLEAN : \E r \in RulesFor(p) :
       LET t == rule[r].template
           f == rule[r].form
       IN
       /\ n >= p.moq
       /\ \E in \in Conversions(t, p.foreign /\ Eligible(f.tiers, n) = {}, FALSE),
             out \in Conversions(t, foreign, TRUE) :
            LET base == UnitPrice(f, p.cost, in.rate, t.unitCost, n) IN
            quote' = [quote EXCEPT ![i] =
              [base |-> base, floor |-> f.floor, rate |-> out.rate,
               cache |-> IF foreign THEN out.cache ELSE in.cache,
               day |-> day, hits |-> HitsFloor(base, f.floor, out.rate)]]
  /\ UNCHANGED <<rule, page, request, day, vouched>>

NewDay ==
  /\ day < MaxDay
  /\ day' = day + 1
  /\ UNCHANGED <<rule, page, request, quote, vouched>>

------------------------------------------------------------------------------
Finish(w) == FinishRefresh(w) \/ FinishConfirm(w) \/ FinishPut(w)

Next ==
  \/ \E r \in Rules : CreateRule(r) \/ Show(r)
  \/ \E w \in Workers, r \in Rules :
       BeginPut(w, r) \/ BeginConfirm(w, r) \/ BeginDueRefresh(w, r)
         \/ BeginManualRefresh(w, r)
  \/ \E w \in Workers : Finish(w) \/ Fail(w)
  \/ \E i \in 1..MaxQuotes : CalcQuote(i)
  \/ NewDay

Spec == Init /\ [][Next]_vars

\* docs/PRODUCTION_RUNBOOK.md:34: the scheduler is called for ever; the jobs before
\* the refreshes, and the provider of a rule, do not fail every time.
FairSpec ==
  /\ Spec
  /\ \A w \in Workers : WF_vars(Finish(w) \/ Fail(w))
  /\ \A r \in Rules :
       /\ SF_vars(\E w \in Workers : BeginDueRefresh(w, r))
       /\ SF_vars(\E w \in Workers : request[w].rule = r /\ FinishRefresh(w))

------------------------------------------------------------------------------
(* Properties *)

\* skills/quotation-pi-draft/SKILL.md:54: the rates of a cache that a quotation was
\* computed with had been confirmed by a person, and had not expired, whatever
\* refreshes, confirmations and updates of the rule came in between.
RateWasConfirmed ==
  \A i \in 1..MaxQuotes :
    quote[i] # None /\ quote[i].cache # None =>
      Terms(quote[i].cache) \in vouched /\ quote[i].cache.expires >= quote[i].day

\* The flag compares prices that are rounded in the quotation's currency.  It is
\* never set for a price that is not below the floor, and is exact where nothing is
\* converted; where it is missed, the floor is missed by a cent of the quotation's
\* currency at most.
FlagAgrees ==
  \A i \in 1..MaxQuotes :
    quote[i] # None =>
      LET q == quote[i] IN
      /\ q.hits => q.base < q.floor
      /\ ~q.hits => (q.floor - q.base) * q.rate.num <= q.rate.den
      /\ q.rate = One => (q.hits <=> q.base < q.floor)

Expired(r) ==
  /\ rule[r] # None /\ rule[r].template.auto
  /\ rule[r].template.cache # None => rule[r].template.cache.expires < day

\* An auto-refreshed rule whose cache has expired, and which is among those that the
\* worker gets to look at (pricing.py:193), gets rates that have not, or is no longer
\* refreshed, though every refresh may be undone by a PUT or fail.
ExpiredIsRefreshed == \A r \in Rules : Reached(r) /\ Expired(r) ~> ~Expired(r)
==============================================================================
