----------------------------- MODULE QuotingProofs -----------------------------
(***************************************************************************)
(* Theorems about Quoting for every set of rules, prices, rates and        *)
(* requests: first what holds a cache, then the amounts.                   *)
(***************************************************************************)
EXTENDS Quoting, FiniteSetTheorems, WellFoundedInduction, TLAPS

RowShape == [product: Scopes, form: Forms, template: Template, version: Nat]

\* What a request in progress holds; rules are never deleted.
Held(w) ==
  LET q == request[w] IN
  /\ q.op # "idle" => q.rule \in Rules /\ rule[q.rule] \in RowShape
  /\ q.op = "refresh" => q.template \in Template
  /\ q.op = "put" => q.form \in Forms

\* The types of what holds a cache.
Shape ==
  /\ rule \in [Rules -> RowShape \cup {None}]
  /\ page \in [Rules -> Cache \cup {None}]
  /\ request \in [Workers -> Request]
  /\ \A w \in Workers : Held(w)
  /\ quote = [i \in 1..MaxQuotes |-> quote[i]]
  /\ day \in Nat

\* A cache that says it is confirmed has been confirmed with the rates it holds.
Honest(cache) == cache # None /\ cache.confirmed => Terms(cache) \in vouched

\* RateWasConfirmed says nothing of the templates on their way into a rule: a request
\* that has read one may write it back much later.
ConfirmedInv ==
  /\ \A r \in Rules : rule[r] \in RowShape => Honest(rule[r].template.cache)
  /\ \A w \in Workers : request[w].template # None => Honest(request[w].template.cache)

------------------------------------------------------------------------------
(* Types *)

LEMMA ConfirmedType ==
  ASSUME NEW c \in Cache \cup {None}
  PROVE  Confirmed(c) \in Cache \cup {None}
  BY DEF Confirmed, Cache

LEMMA SubmissionsType ==
  ASSUME Shape, NEW r \in Rules
  PROVE  Submissions(r) \subseteq Template
  <1>1. Blank \in Template
    BY DEF Blank, Template
  <1>2. page[r] \in Cache \cup {None} /\ Confirmed(page[r]) \in Cache \cup {None}
    BY ConfirmedType DEF Shape
  <1>3. ASSUME NEW u \in UnitCosts, NEW t \in Tables, NEW a \in BOOLEAN,
               NEW c \in Cache \cup {None}
        PROVE  [unitCost |-> u, static |-> t, auto |-> a, cache |-> c] \in Template
    BY DEF Template
  <1>4. QED
    BY <1>1, <1>2, <1>3 DEF Submissions

LEMMA NewCacheType ==
  ASSUME Shape, PricesAssumption, DatesAssumption, NEW old, NEW rate \in Fetched,
         NEW skew \in Skews
  PROVE  NewCache(old, rate, skew) \in Cache /\ ~NewCache(old, rate, skew).confirmed
  <1>1. rate \in Nat /\ skew \in Int /\ Ttl \in Int /\ day \in Int
    BY DEF PricesAssumption, DatesAssumption, Shape
  <1>2. QED
    BY <1>1 DEF NewCache, Cache, Table

\* A request begins.
LEMMA BeginShape ==
  ASSUME Shape, NEW w \in Workers, NEW op \in {"refresh", "confirm", "put"}, NEW r \in Rules,
         rule[r] # None, NEW t \in Template \cup {None}, NEW f \in Forms \cup {None},
         op = "refresh" => t \in Template, op = "put" => f \in Forms, Begin(w, op, r, t, f)
  PROVE  Shape'
  <1> DEFINE q == [op |-> op, rule |-> r, template |-> t, form |-> f]
  <1>1. q \in Request
    BY DEF Request
  <1>2. request' = [request EXCEPT ![w] = q] /\ UNCHANGED <<rule, page, quote, day>>
    BY DEF Begin
  <1>3. request' \in [Workers -> Request]
    BY <1>1, <1>2 DEF Shape
  <1>4. ASSUME NEW v \in Workers
        PROVE  Held(v)'
    <2>1. CASE v = w
      <3>1. request'[v] = q /\ rule' = rule
        BY <1>2, <2>1 DEF Shape
      <3>2. rule[r] \in RowShape
        BY DEF Shape
      <3>3. QED
        BY <3>1, <3>2 DEF Held
    <2>2. CASE v # w
      BY <1>2, <2>2 DEF Held, Shape
    <2>3. QED
      BY <2>1, <2>2
  <1>5. QED
    BY <1>2, <1>3, <1>4 DEF Shape

\* A request ends, and its rule keeps its shape.
LEMMA FinishShape ==
  ASSUME Shape, NEW w \in Workers, request' = [request EXCEPT ![w] = Idle],
         NEW r \in Rules, NEW row \in RowShape, rule' = [rule EXCEPT ![r] = row],
         UNCHANGED <<page, quote, day>>
  PROVE  Shape'
  <1>1. request' \in [Workers -> Request]
    BY DEF Shape, Idle, Request
  <1>2. rule' \in [Rules -> RowShape \cup {None}]
    BY DEF Shape
  <1>3. ASSUME NEW v \in Workers
        PROVE  Held(v)'
    <2>1. CASE v = w
      <3>1. request'[v] = Idle
        BY <2>1 DEF Shape
      <3>2. QED
        BY <3>1 DEF Held, Idle
    <2>2. CASE v # w
      BY <2>2 DEF Held, Shape
    <2>3. QED
      BY <2>1, <2>2
  <1>4. QED
    BY <1>1, <1>2, <1>3 DEF Shape

LEMMA FailShape ==
  ASSUME Shape, NEW w \in Workers, Fail(w)
  PROVE  Shape'
  <1>1. request[w].rule \in Rules /\ rule[request[w].rule] \in RowShape
    BY DEF Shape, Held, Fail
  <1>2. rule' = [rule EXCEPT ![request[w].rule] = rule[request[w].rule]]
    BY <1>1 DEF Fail, Shape
  <1>3. QED
    BY <1>1, <1>2, FinishShape DEF Fail

\* What a confirmation reads and is to write.
LEMMA ConfirmTemplate ==
  ASSUME Shape, NEW r \in Rules, rule[r] # None,
         NEW t, t = [rule[r].template EXCEPT !.cache = Confirmed(@)]
  PROVE  t \in Template /\ t.cache = Confirmed(rule[r].template.cache)
  <1>1. rule[r].template \in Template
    BY DEF Shape, RowShape
  <1>2. Confirmed(rule[r].template.cache) \in Cache \cup {None}
    BY <1>1, ConfirmedType DEF Template
  <1>3. QED
    BY <1>1, <1>2 DEF Template

\* What a refresh writes.
LEMMA RefreshTemplate ==
  ASSUME Shape, PricesAssumption, DatesAssumption, NoneAssumption, NEW old \in Template,
         NEW rate \in Fetched, NEW skew \in Skews
  PROVE  LET t == [old EXCEPT !.cache = NewCache(@, rate, skew)] IN
         /\ t \in Template /\ t.cache = NewCache(old.cache, rate, skew)
  <1>1. NewCache(old.cache, rate, skew) \in Cache
    BY NewCacheType
  <1>2. QED
    BY <1>1 DEF Template

\* How a request ends: its row gets another template, prices or both, or stays.
Ends(w, template) ==
  LET q == request[w] IN
  /\ q.op # "idle"
  /\ request' = [request EXCEPT ![w] = Idle]
  /\ rule'[q.rule].template = template
  /\ UNCHANGED <<page, quote, day, vouched>>
  /\ \A r \in Rules \ {q.rule} : rule'[r] = rule[r]

LEMMA RefreshEnds ==
  ASSUME Shape, PricesAssumption, DatesAssumption, NoneAssumption, NEW w \in Workers,
         FinishRefresh(w)
  PROVE  Shape' /\ \E t \in Template : Ends(w, t) /\ ~t.cache.confirmed
  <1> DEFINE q == request[w]
  <1>1. q.op = "refresh" /\ q.template \in Template /\ q.rule \in Rules
        /\ rule[q.rule] \in RowShape
    BY DEF FinishRefresh, Shape, Held
  <1>2. PICK rate \in Fetched, skew \in Skews :
          rule' = [rule EXCEPT ![q.rule].template =
                     [q.template EXCEPT !.cache = NewCache(@, rate, skew)]]
    BY DEF FinishRefresh
  <1> DEFINE t == [q.template EXCEPT !.cache = NewCache(@, rate, skew)]
             row == [rule[q.rule] EXCEPT !.template = t]
  <1>3. t \in Template /\ t.cache = NewCache(q.template.cache, rate, skew)
    BY <1>1, RefreshTemplate
  <1>4. ~t.cache.confirmed
    BY <1>3, NewCacheType
  <1>5. rule' = [rule EXCEPT ![q.rule] = row] /\ rule'[q.rule] = row
    BY <1>1, <1>2 DEF Shape
  <1>6. row \in RowShape /\ row.template = t
    <2> HIDE DEF t
    <2>1. QED
      BY <1>1, <1>3 DEF RowShape
  <1>7. Shape'
    <2> HIDE DEF row
    <2>1. QED
      BY <1>1, <1>5, <1>6, FinishShape DEF FinishRefresh
  <1>8. Ends(w, t)
    <2> HIDE DEF row, t
    <2>1. QED
      BY <1>1, <1>5, <1>6 DEF Ends, FinishRefresh, Shape
  <1>9. QED
    BY <1>3, <1>4, <1>7, <1>8

LEMMA WriteEnds ==
  ASSUME Shape, NEW w \in Workers, FinishConfirm(w) \/ FinishPut(w) \/ Fail(w)
  PROVE  /\ Shape'
         /\ \/ Ends(w, rule[request[w].rule].template)
            \/ request[w].template # None /\ Ends(w, request[w].template)
  <1> DEFINE q == request[w]
             t == rule'[q.rule].template
  <1>1. q.op # "idle" /\ q.rule \in Rules /\ rule[q.rule] \in RowShape
        /\ q.template \in Template \cup {None} /\ (q.op = "put" => q.form \in Forms)
    BY DEF FinishConfirm, FinishPut, Fail, Shape, Held, Request
  <1>2. /\ request' = [request EXCEPT ![w] = Idle]
        /\ UNCHANGED <<page, quote, day, vouched>>
    BY DEF FinishConfirm, FinishPut, Fail
  <1>3. CASE FinishConfirm(w)
    <2> DEFINE n == Put(q.template, rule[q.rule].template)
               row == [rule[q.rule] EXCEPT !.template = n]
    <2>1. rule' = [rule EXCEPT ![q.rule] = row] /\ rule'[q.rule] = row
      BY <1>1, <1>3 DEF FinishConfirm, Shape
    <2>2. n \in Template /\ (n = rule[q.rule].template \/ (n = q.template /\ q.template # None))
      BY <1>1 DEF Put, RowShape
    <2>3. row \in RowShape /\ row.template = n
      <3> HIDE DEF n
      <3>1. QED
        BY <1>1, <2>2 DEF RowShape
    <2>4. Shape'
      <3> HIDE DEF row
      <3>1. QED
        BY <1>1, <1>2, <2>1, <2>3, FinishShape
    <2>5. Ends(w, n)
      <3> HIDE DEF row, n
      <3>1. QED
        BY <1>1, <1>2, <2>1, <2>3 DEF Ends, Shape
    <2>6. QED
      BY <2>2, <2>4, <2>5
  <1>4. CASE FinishPut(w)
    <2> DEFINE n == Put(q.template, rule[q.rule].template)
               form == [[rule[q.rule] EXCEPT !.template = n] EXCEPT !.form = q.form]
               row == [form EXCEPT !.version = rule[q.rule].version + 1]
    <2>1. rule' = [rule EXCEPT ![q.rule] = row] /\ rule'[q.rule] = row
      BY <1>1, <1>4 DEF FinishPut, Shape
    <2>2. n \in Template /\ (n = rule[q.rule].template \/ (n = q.template /\ q.template # None))
      BY <1>1 DEF Put, RowShape
    <2>3. row \in RowShape /\ row.template = n
      <3> HIDE DEF n
      <3>1. [rule[q.rule] EXCEPT !.template = n] \in RowShape
            /\ [rule[q.rule] EXCEPT !.template = n].template = n
        BY <1>1, <2>2 DEF RowShape
      <3>2. form \in RowShape /\ form.template = n
        BY <1>1, <1>4, <3>1 DEF RowShape, FinishPut
      <3> HIDE DEF form
      <3>3. rule[q.rule].version + 1 \in Nat
        BY <1>1 DEF RowShape
      <3>4. QED
        BY <3>2, <3>3 DEF RowShape
    <2>4. Shape'
      <3> HIDE DEF row
      <3>1. QED
        BY <1>1, <1>2, <2>1, <2>3, FinishShape
    <2>5. Ends(w, n)
      <3> HIDE DEF row, n
      <3>1. QED
        BY <1>1, <1>2, <2>1, <2>3 DEF Ends, Shape
    <2>6. QED
      BY <2>2, <2>4, <2>5
  <1>5. CASE Fail(w)
    BY <1>1, <1>2, <1>5, FailShape DEF Ends, Fail
  <1>6. QED
    BY <1>3, <1>4, <1>5

------------------------------------------------------------------------------
(* What has been confirmed stays so *)

\* Confirmations are not forgotten.
LEMMA HonestStays ==
  ASSUME vouched \subseteq vouched', NEW cache, Honest(cache)
  PROVE  cache # None /\ cache.confirmed => Terms(cache) \in vouched'
  BY DEF Honest

\* A template that a person has sent is vouched for.
LEMMA VouchHonest ==
  ASSUME NEW t, vouched' = Vouch(t)
  PROVE  /\ vouched \subseteq vouched'
         /\ t.cache # None /\ t.cache.confirmed => Terms(t.cache) \in vouched'
  BY DEF Vouch

\* A request begins with a template that is vouched for, or with none.
LEMMA BeginKeeps ==
  ASSUME Shape, ConfirmedInv, NEW w \in Workers, NEW op, NEW r \in Rules, NEW t, NEW f,
         Begin(w, op, r, t, f), vouched \subseteq vouched',
         t # None => (t.cache # None /\ t.cache.confirmed => Terms(t.cache) \in vouched')
  PROVE  ConfirmedInv'
  <1>1. /\ request' = [request EXCEPT ![w] = [op |-> op, rule |-> r, template |-> t, form |-> f]]
        /\ rule' = rule
    BY DEF Begin
  <1>2. ASSUME NEW s \in Rules, rule[s] \in RowShape
        PROVE  Honest(rule[s].template.cache)'
    BY <1>1, <1>2 DEF ConfirmedInv, Honest
  <1>3. ASSUME NEW v \in Workers, request'[v].template # None
        PROVE  Honest(request[v].template.cache)'
    <2>1. CASE v = w
      <3>1. request'[v].template = t
        BY <1>1, <2>1 DEF Shape
      <3>2. QED
        BY <1>3, <3>1 DEF Honest
    <2>2. CASE v # w
      <3>1. request'[v] = request[v]
        BY <1>1, <2>2 DEF Shape
      <3>2. QED
        BY <1>3, <3>1 DEF ConfirmedInv, Honest
    <2>3. QED
      BY <2>1, <2>2
  <1>4. QED
    BY <1>1, <1>2, <1>3 DEF ConfirmedInv

LEMMA PutBegins ==
  ASSUME Shape, ConfirmedInv, NEW w \in Workers, NEW r \in Rules, BeginPut(w, r)
  PROVE  Shape' /\ ConfirmedInv'
  <1>1. rule[r] # None
    BY DEF BeginPut
  <1>2. ASSUME NEW f \in Forms, Begin(w, "put", r, None, f), UNCHANGED vouched
        PROVE  Shape' /\ ConfirmedInv'
    BY <1>1, <1>2, BeginShape, BeginKeeps
  <1>3. ASSUME NEW f \in Forms, NEW t \in Submissions(r),
               Begin(w, "put", r, Written(r, t), f), vouched' = Vouch(t)
        PROVE  Shape' /\ ConfirmedInv'
    <2>1. t \in Template /\ Written(r, t) \in {t, None}
      BY SubmissionsType DEF Written
    <2>2. Shape'
      BY <1>1, <1>3, <2>1, BeginShape
    <2>3. ConfirmedInv'
      BY <1>3, <2>1, VouchHonest, BeginKeeps
    <2>4. QED
      BY <2>2, <2>3
  <1>4. QED
    BY <1>2, <1>3 DEF BeginPut

LEMMA ConfirmBegins ==
  ASSUME Shape, ConfirmedInv, NEW w \in Workers, NEW r \in Rules, BeginConfirm(w, r)
  PROVE  Shape' /\ ConfirmedInv'
  <1> DEFINE t == [rule[r].template EXCEPT !.cache = Confirmed(@)]
  <1>1. rule[r] # None /\ Begin(w, "confirm", r, Written(r, t), None) /\ vouched' = Vouch(t)
    BY DEF BeginConfirm
  <1>2. t \in Template
    BY <1>1, ConfirmTemplate
  <1> HIDE DEF t
  <1>3. Written(r, t) \in {t, None}
    BY DEF Written
  <1>4. Shape'
    BY <1>1, <1>2, <1>3, BeginShape
  <1>5. ConfirmedInv'
    BY <1>1, <1>3, VouchHonest, BeginKeeps
  <1>6. QED
    BY <1>4, <1>5

LEMMA RefreshBegins ==
  ASSUME Shape, ConfirmedInv, NEW w \in Workers, NEW r \in Rules,
         BeginDueRefresh(w, r) \/ BeginManualRefresh(w, r)
  PROVE  Shape' /\ ConfirmedInv'
  <1>1. rule[r] # None /\ Begin(w, "refresh", r, rule[r].template, None) /\ UNCHANGED vouched
    BY DEF BeginDueRefresh, BeginManualRefresh, BeginRefresh, Due, Reached
  <1>2. rule[r].template \in Template
    BY <1>1 DEF Shape, RowShape
  <1>3. Shape'
    BY <1>1, <1>2, BeginShape
  <1>4. Honest(rule[r].template.cache)
    BY <1>1 DEF ConfirmedInv, Shape
  <1>5. ConfirmedInv'
    BY <1>1, <1>4, HonestStays, BeginKeeps
  <1>6. QED
    BY <1>3, <1>5

LEMMA CreateKeeps ==
  ASSUME Shape, ConfirmedInv, NEW r \in Rules, CreateRule(r)
  PROVE  Shape' /\ ConfirmedInv'
  <1>1. PICK p \in Scopes, f \in Forms, t \in Submissions(r) :
          /\ rule' = [rule EXCEPT ![r] = [product |-> p, form |-> f, template |-> t,
                                          version |-> 1]]
          /\ vouched' = Vouch(t)
    BY DEF CreateRule
  <1> DEFINE row == [product |-> p, form |-> f, template |-> t, version |-> 1]
  <1>2. row \in RowShape /\ row.template = t
    BY SubmissionsType DEF RowShape
  <1>3. /\ rule' \in [Rules -> RowShape \cup {None}] /\ rule'[r] = row
        /\ \A s \in Rules \ {r} : rule'[s] = rule[s]
        /\ UNCHANGED <<page, request, quote, day>>
    BY <1>1, <1>2 DEF Shape, CreateRule
  <1> HIDE DEF row
  <1>4. Shape'
    BY <1>2, <1>3 DEF Shape, Held
  <1>5. ConfirmedInv'
    BY <1>1, <1>2, <1>3, VouchHonest DEF ConfirmedInv, Honest
  <1>6. QED
    BY <1>4, <1>5

\* What is written was read from the rule, vouched for, or not confirmed.
LEMMA EndKeeps ==
  ASSUME Shape, ConfirmedInv, NEW w \in Workers, NEW t, Ends(w, t),
         t.cache # None /\ t.cache.confirmed => Honest(t.cache)
  PROVE  ConfirmedInv'
  <1>1. ASSUME NEW r \in Rules, rule'[r] \in RowShape
        PROVE  Honest(rule[r].template.cache)'
    BY <1>1 DEF Ends, ConfirmedInv, Honest
  <1>2. ASSUME NEW v \in Workers, request'[v].template # None
        PROVE  Honest(request[v].template.cache)'
    <2>1. v # w
      BY <1>2 DEF Ends, Shape, Idle
    <2>2. request'[v] = request[v]
      BY <2>1 DEF Ends, Shape
    <2>3. QED
      BY <1>2, <2>2 DEF Ends, ConfirmedInv, Honest
  <1>3. QED
    BY <1>1, <1>2 DEF ConfirmedInv

LEMMA FinishKeeps ==
  ASSUME Shape, ConfirmedInv, PricesAssumption, DatesAssumption, NoneAssumption,
         NEW w \in Workers, Finish(w) \/ Fail(w)
  PROVE  Shape' /\ ConfirmedInv'
  <1>1. CASE FinishRefresh(w)
    BY <1>1, RefreshEnds, EndKeeps
  <1>2. CASE FinishConfirm(w) \/ FinishPut(w) \/ Fail(w)
    <2>1. CASE Ends(w, rule[request[w].rule].template)
      <3>1. request[w].rule \in Rules /\ rule[request[w].rule] \in RowShape
        BY <2>1 DEF Ends, Shape, Held
      <3>2. QED
        BY <1>2, <2>1, <3>1, WriteEnds, EndKeeps DEF ConfirmedInv
    <2>2. CASE request[w].template # None /\ Ends(w, request[w].template)
      BY <1>2, <2>2, WriteEnds, EndKeeps DEF ConfirmedInv
    <2>3. QED
      BY <1>2, <2>1, <2>2, WriteEnds
  <1>3. QED
    BY <1>1, <1>2 DEF Finish

------------------------------------------------------------------------------
(* Quotations *)

\* A rate from a cache is one that has been confirmed and has not expired.
LEMMA ResolvedFrom ==
  ASSUME NEW t, NEW needed, NEW out, NEW x \in Conversions(t, needed, out)
  PROVE  x.cache # None => x.cache = t.cache /\ t.cache.confirmed /\ t.cache.expires >= day
  <1>1. CASE ~needed
    BY <1>1 DEF Conversions
  <1>2. CASE x \in Resolve(t, out)
    <2> DEFINE c == t.cache
               static == {[rate |-> y, cache |-> None] : y \in TableRates(t.static, out)}
               cached == {[rate |-> y, cache |-> c] : y \in TableRates(c.table, out)}
    <2>1. /\ x \in static \/ (x \in cached /\ Usable(c))
      BY <1>2 DEF Resolve
    <2>2. x \in static => x.cache = None
      OBVIOUS
    <2>3. x \in cached => x.cache = c
      OBVIOUS
    <2>4. QED
      BY <2>1, <2>2, <2>3 DEF Usable
  <1>3. QED
    BY <1>1, <1>2 DEF Conversions

\* Row i is drafted from rule r, for quantity n of product p.
Drafts(i, p, n, foreign, r, in, out) ==
  LET t == rule[r].template
      f == rule[r].form
      base == UnitPrice(f, p.cost, in.rate, t.unitCost, n)
  IN
  /\ p \in Products /\ n \in Quantities /\ r \in RulesFor(p)
  /\ in \in Conversions(t, p.foreign /\ Eligible(f.tiers, n) = {}, FALSE)
  /\ out \in Conversions(t, foreign, TRUE)
  /\ quote' = [quote EXCEPT ![i] =
       [base |-> base, floor |-> f.floor, rate |-> out.rate,
        cache |-> IF foreign THEN out.cache ELSE in.cache,
        day |-> day, hits |-> HitsFloor(base, f.floor, out.rate)]]

LEMMA CalcDrafts ==
  ASSUME NEW i, CalcQuote(i)
  PROVE  \E p, n, foreign, r, in, out : Drafts(i, p, n, foreign, r, in, out)
  <1>1. PICK p \in Products, n \in Quantities, foreign \in BOOLEAN : \E r \in RulesFor(p) :
          LET t == rule[r].template
              f == rule[r].form
          IN
          /\ n >= p.moq
          /\ \E in \in Conversions(t, p.foreign /\ Eligible(f.tiers, n) = {}, FALSE),
                out \in Conversions(t, foreign, TRUE) :
               LET base == UnitPrice(f, p.cost, in.rate, t.unitCost, n) IN
               quote' = [quote EXCEPT ![i] =
                 [base |-> base, floor |-> f.floor, rate |-> out.rate,
                  cache |-> IF foreign THEN out.cache ELSE in.cache,
                  day |-> day, hits |-> HitsFloor(base, f.floor, out.rate)]]
    BY DEF CalcQuote
  <1>2. \E r, in, out : Drafts(i, p, n, foreign, r, in, out)
    BY <1>1 DEF Drafts
  <1>3. QED
    BY <1>2

LEMMA CalcKeeps ==
  ASSUME Shape, ConfirmedInv, RateWasConfirmed, NEW i \in 1..MaxQuotes, CalcQuote(i)
  PROVE  Shape' /\ ConfirmedInv' /\ RateWasConfirmed'
  <1>1. UNCHANGED <<rule, page, request, day, vouched>>
    BY DEF CalcQuote
  <1>2. PICK p, n, foreign, r, in, out : Drafts(i, p, n, foreign, r, in, out)
    BY CalcDrafts
  <1> DEFINE t == rule[r].template
             f == rule[r].form
             needed == p.foreign /\ Eligible(f.tiers, n) = {}
             cache == IF foreign THEN out.cache ELSE in.cache
             base == UnitPrice(f, p.cost, in.rate, t.unitCost, n)
             hits == HitsFloor(base, f.floor, out.rate)
  <1>3. /\ p \in Products /\ n \in Quantities /\ r \in RulesFor(p)
        /\ in \in Conversions(t, needed, FALSE) /\ out \in Conversions(t, foreign, TRUE)
    BY <1>2 DEF Drafts
  <1>5. r \in Rules /\ rule[r] \in RowShape
    BY <1>3 DEF RulesFor, Shape
  <1>6. Honest(t.cache)
    BY <1>5 DEF ConfirmedInv, RulesFor
  <1>7. cache # None => cache = t.cache /\ t.cache.confirmed /\ t.cache.expires >= day
    <2>1. /\ in.cache # None =>
               in.cache = t.cache /\ t.cache.confirmed /\ t.cache.expires >= day
          /\ out.cache # None =>
               out.cache = t.cache /\ t.cache.confirmed /\ t.cache.expires >= day
      <3> HIDE DEF t, needed
      <3>1. QED
        BY <1>3, ResolvedFrom
    <2>2. QED
      BY <2>1
  <1>8. cache # None => Terms(cache) \in vouched /\ cache.expires >= day
    BY <1>6, <1>7 DEF Honest
  <1> HIDE DEF cache, base, hits
  <1>9. /\ quote' = [quote EXCEPT ![i] = [base |-> base, floor |-> f.floor, rate |-> out.rate,
                                         cache |-> cache, day |-> day, hits |-> hits]]
    BY <1>2 DEF Drafts, cache, base, hits
  <1>10. Shape'
    BY <1>1, <1>9 DEF Shape, Held
  <1>11. ConfirmedInv'
    BY <1>1 DEF ConfirmedInv, Honest
  <1>12. RateWasConfirmed'
    <2>1. ASSUME NEW j \in 1..MaxQuotes, quote'[j] # None, quote'[j].cache # None
          PROVE  Terms(quote'[j].cache) \in vouched' /\ quote'[j].cache.expires >= quote'[j].day
      <3>1. CASE j = i
        <4>1. quote'[j].cache = cache /\ quote'[j].day = day
          BY <1>9, <3>1 DEF Shape
        <4>2. QED
          BY <1>1, <1>8, <2>1, <4>1
      <3>2. CASE j # i
        <4>1. quote'[j] = quote[j]
          BY <1>9, <3>2 DEF Shape
        <4>2. QED
          BY <1>1, <2>1, <4>1 DEF RateWasConfirmed
      <3>3. QED
        BY <3>1, <3>2
    <2>2. QED
      BY <2>1 DEF RateWasConfirmed
  <1>13. QED
    BY <1>10, <1>11, <1>12

\* What a step does to the quotations, if it drafts none.
LEMMA QuotesStay ==
  ASSUME RateWasConfirmed, UNCHANGED quote, vouched \subseteq vouched'
  PROVE  RateWasConfirmed'
  BY DEF RateWasConfirmed

LEMMA NextKeeps ==
  ASSUME Shape, ConfirmedInv, RateWasConfirmed, PricesAssumption, DatesAssumption,
         NoneAssumption, [Next]_vars
  PROVE  Shape' /\ ConfirmedInv' /\ RateWasConfirmed'
  <1>1. ASSUME NEW i \in 1..MaxQuotes, CalcQuote(i)
        PROVE  Shape' /\ ConfirmedInv' /\ RateWasConfirmed'
    BY <1>1, CalcKeeps
  <1>2. ASSUME NEW w \in Workers, NEW r \in Rules,
               BeginPut(w, r) \/ BeginConfirm(w, r) \/ BeginDueRefresh(w, r)
                 \/ BeginManualRefresh(w, r)
        PROVE  Shape' /\ ConfirmedInv' /\ RateWasConfirmed'
    <2>1. UNCHANGED quote /\ vouched \subseteq vouched'
      BY <1>2, VouchHonest
         DEF BeginPut, BeginConfirm, BeginDueRefresh, BeginManualRefresh, BeginRefresh, Begin
    <2>2. QED
      BY <1>2, <2>1, PutBegins, ConfirmBegins, RefreshBegins, QuotesStay
  <1>3. ASSUME NEW w \in Workers, Finish(w) \/ Fail(w)
        PROVE  Shape' /\ ConfirmedInv' /\ RateWasConfirmed'
    <2>1. UNCHANGED <<quote, vouched>>
      BY <1>3 DEF Finish, FinishRefresh, FinishConfirm, FinishPut, Fail
    <2>2. QED
      BY <1>3, <2>1, FinishKeeps, QuotesStay
  <1>4. ASSUME NEW r \in Rules, CreateRule(r)
        PROVE  Shape' /\ ConfirmedInv' /\ RateWasConfirmed'
    <2>1. UNCHANGED quote /\ vouched \subseteq vouched'
      BY <1>4, VouchHonest DEF CreateRule
    <2>2. QED
      BY <1>4, <2>1, CreateKeeps, QuotesStay
  <1>5. ASSUME NEW r \in Rules, Show(r)
        PROVE  Shape' /\ ConfirmedInv' /\ RateWasConfirmed'
    <2>1. rule[r].template.cache \in Cache \cup {None}
      BY <1>5 DEF Show, Shape, RowShape, Template
    <2>2. page' \in [Rules -> Cache \cup {None}] /\ UNCHANGED <<rule, request, quote, day, vouched>>
      BY <1>5, <2>1 DEF Show, Shape
    <2>3. QED
      BY <2>2 DEF Shape, Held, ConfirmedInv, Honest, RateWasConfirmed
  <1>6. CASE NewDay
    <2>1. day' \in Nat /\ UNCHANGED <<rule, page, request, quote, vouched>>
      BY <1>6 DEF NewDay, Shape
    <2>2. QED
      BY <2>1 DEF Shape, Held, ConfirmedInv, Honest, RateWasConfirmed
  <1>7. CASE UNCHANGED vars
    BY <1>7 DEF vars, Shape, Held, ConfirmedInv, Honest, RateWasConfirmed
  <1>8. QED
    BY <1>1, <1>2, <1>3, <1>4, <1>5, <1>6, <1>7 DEF Next

\* Whatever holds a cache has its shape, and is honest about it.
THEOREM CachesHonest == Spec => [](Shape /\ ConfirmedInv /\ RateWasConfirmed)
  <1>1. Init => Shape /\ ConfirmedInv /\ RateWasConfirmed
    <2>1. ASSUME Init
          PROVE  Shape
      BY <2>1 DEF Init, Shape, Held, Idle, Request
    <2>2. ASSUME Init
          PROVE  ConfirmedInv /\ RateWasConfirmed
      BY <2>2, NoRowAssumption
         DEF Init, ConfirmedInv, RateWasConfirmed, Idle, RowShape, NoRowAssumption
    <2>3. QED
      BY <2>1, <2>2
  <1>2. Shape /\ ConfirmedInv /\ RateWasConfirmed /\ [Next]_vars
          => Shape' /\ ConfirmedInv' /\ RateWasConfirmed'
    BY NextKeeps, PricesAssumption, DatesAssumption, NoneAssumption
  <1>3. QED
    BY <1>1, <1>2, PTL DEF Spec

\* Whatever refreshes, confirmations and updates overlap, a cached rate that prices a
\* quotation was confirmed by a person and had not expired.
THEOREM RatesAreConfirmed == Spec => []RateWasConfirmed
  BY CachesHonest, PTL

------------------------------------------------------------------------------
(* The floor *)

\* What integer division leaves over.
LEMMA DivBounds ==
  ASSUME NEW n \in Nat, NEW d \in Nat \ {0}
  PROVE  (n \div d) \in Nat /\ d * (n \div d) <= n /\ n < d * ((n \div d) + 1)
  OBVIOUS

\* Rounding half up is off by a half at most.
LEMMA HalfUpBounds ==
  ASSUME NEW n \in Nat, NEW d \in Nat \ {0}
  PROVE  /\ HalfUp(n, d) \in Nat
         /\ 2 * d * HalfUp(n, d) <= 2 * n + d
         /\ 2 * n + d < 2 * d * HalfUp(n, d) + 2 * d
  <1>1. 2 * n + d \in Nat /\ 2 * d \in Nat \ {0}
    OBVIOUS
  <1> DEFINE k == HalfUp(n, d)
  <1>2. k \in Nat /\ (2 * d) * k <= 2 * n + d /\ 2 * n + d < (2 * d) * (k + 1)
    BY <1>1, DivBounds DEF HalfUp
  <1> HIDE DEF k
  <1>3. (2 * d) * (k + 1) = 2 * d * k + 2 * d
    BY <1>2
  <1>4. QED
    BY <1>2, <1>3 DEF k

\* A whole cent apart, scaled by the rate's denominator.
LEMMA Scaled ==
  ASSUME NEW a \in Nat, NEW b \in Nat, a < b, NEW d \in Nat \ {0}
  PROVE  2 * d * a + 2 * d <= 2 * d * b
  <1>1. PICK e \in Nat : b = a + 1 + e
    <2>1. b - a - 1 \in Nat /\ b = a + 1 + (b - a - 1)
      OBVIOUS
    <2>2. QED
      BY <2>1
  <1>2. 2 * d * b = 2 * d * a + 2 * d + 2 * d * e
    BY <1>1
  <1>3. 2 * d * e >= 0
    OBVIOUS
  <1>4. QED
    BY <1>2, <1>3

\* Rounding keeps the order of two amounts that are more than a cent apart, and never turns
\* it round.
LEMMA Rounded ==
  ASSUME NEW x \in Nat, NEW y \in Nat, NEW d \in Nat \ {0}
  PROVE  /\ HalfUp(x, d) < HalfUp(y, d) => x < y
         /\ ~(HalfUp(x, d) < HalfUp(y, d)) => y - x <= d
  <1> DEFINE j == HalfUp(x, d)
             k == HalfUp(y, d)
  <1>1. /\ j \in Nat /\ 2 * d * j <= 2 * x + d /\ 2 * x + d < 2 * d * j + 2 * d
        /\ k \in Nat /\ 2 * d * k <= 2 * y + d /\ 2 * y + d < 2 * d * k + 2 * d
    BY HalfUpBounds
  <1> HIDE DEF j, k
  <1>2. ASSUME j < k
        PROVE  x < y
    <2>1. 2 * d * j + 2 * d <= 2 * d * k
      BY <1>1, <1>2, Scaled
    <2>2. 2 * d * j \in Int /\ 2 * d * k \in Int
      BY <1>1
    <2>3. QED
      BY <1>1, <2>1, <2>2
  <1>3. ASSUME ~(j < k)
        PROVE  y - x <= d
    <2>1. 2 * d * k <= 2 * d * j
      <3>1. CASE k = j
        BY <3>1, <1>1
      <3>2. CASE k < j
        <4>1. 2 * d * k + 2 * d <= 2 * d * j
          BY <1>1, <3>2, Scaled
        <4>2. QED
          BY <1>1, <4>1
      <3>3. QED
        BY <1>1, <1>3, <3>1, <3>2
    <2>2. 2 * d * j \in Int /\ 2 * d * k \in Int
      BY <1>1
    <2>3. QED
      BY <1>1, <2>1, <2>2
  <1>4. QED
    BY <1>2, <1>3 DEF j, k

\* The flag that sends a quotation to approval, HitsFloor, whatever the price, the floor and
\* the rate: raised, the unit price is below the floor; not raised, the price is short of
\* the floor by no more than a cent of the quotation's currency; without a conversion the
\* flag is exact.
THEOREM FloorToTheCent ==
  ASSUME NEW unit \in Nat, NEW floor \in Nat, NEW rate \in Rate
  PROVE  /\ HitsFloor(unit, floor, rate) => unit < floor
         /\ ~HitsFloor(unit, floor, rate) => (floor - unit) * rate.num <= rate.den
         /\ rate = One => (HitsFloor(unit, floor, rate) <=> unit < floor)
  <1> DEFINE x == unit * rate.num
             y == floor * rate.num
  <1>1. rate.num \in Nat \ {0} /\ rate.den \in Nat \ {0}
    BY DEF Rate
  <1>2. x \in Nat /\ y \in Nat /\ (floor - unit) * rate.num = y - x
    BY <1>1
  <1>3. CASE rate = One
    <2>1. rate.num = 1 /\ rate.den = 1
      BY <1>3 DEF One
    <2>2. HitsFloor(unit, floor, rate) <=> unit < floor
      BY <1>3 DEF HitsFloor, Convert
    <2>3. (floor - unit) * rate.num = floor - unit
      BY <2>1
    <2>4. QED
      BY <2>1, <2>2, <2>3
  <1>4. CASE rate # One
    <2>1. HitsFloor(unit, floor, rate) <=> HalfUp(x, rate.den) < HalfUp(y, rate.den)
      BY <1>4 DEF HitsFloor, Convert
    <2>2. x < y => unit < floor
      <3>1. SUFFICES ASSUME floor <= unit
                     PROVE  y <= x
        BY <1>2
      <3>2. PICK e \in Nat : unit = floor + e
        <4>1. unit - floor \in Nat /\ unit = floor + (unit - floor)
          BY <3>1
        <4>2. QED
          BY <4>1
      <3> DEFINE z == e * rate.num
      <3>3. z \in Nat /\ x = y + z
        BY <1>1, <3>2
      <3> HIDE DEF x, y, z
      <3>4. QED
        BY <1>2, <3>3
    <2>3. QED
      BY <1>1, <1>2, <1>4, <2>1, <2>2, Rounded
  <1>5. QED
    BY <1>3, <1>4

------------------------------------------------------------------------------
(* The amounts of a quotation *)

\* A finite set of tiers that is not empty has one that begins last: of the sets of tiers
\* that begin after a tier, one is smallest, and it is empty.
LEMMA LastTier ==
  ASSUME NEW T, IsFiniteSet(T), T # {}, \A t \in T : t.min \in Nat
  PROVE  \E t \in T : \A u \in T : u.min <= t.min
  <1> DEFINE After(t) == {u \in T : u.min > t.min}
             F == {After(t) : t \in T}
  <1>1. F \subseteq FiniteSubsetsOf(T) /\ F # {}
    <2>1. \A t \in T : After(t) \in SUBSET T
      OBVIOUS
    <2>2. FiniteSubsetsOf(T) = SUBSET T
      BY FS_FiniteSubsetsOfFinite
    <2>3. PICK t : t \in T
      OBVIOUS
    <2>4. After(t) \in F
      BY <2>3
    <2> HIDE DEF After
    <2>5. QED
      BY <2>1, <2>2, <2>4
  <1>2. PICK m \in F : \A y \in F : ~ (<<y, m>> \in StrictSubsetOrdering(T))
    BY <1>1, WFMin, FS_StrictSubsetOrderingWellFounded
  <1>3. PICK t \in T : m = After(t)
    BY <1>2
  <1>4. ASSUME NEW u \in T, u.min > t.min
        PROVE  FALSE
    <2>1. After(u) \subseteq After(t) /\ u \in After(t) /\ u \notin After(u)
      BY <1>4
    <2>2. After(u) \in F /\ After(u) \in SUBSET T /\ After(t) \in SUBSET T
      OBVIOUS
    <2> HIDE DEF After, F
    <2>3. <<After(u), After(t)>> \in StrictSubsetOrdering(T)
      BY <2>1, <2>2 DEF StrictSubsetOrdering
    <2>4. QED
      BY <1>2, <1>3, <2>2, <2>3
  <1>5. QED
    BY <1>4

\* The tier that applies is one of the rule's.
LEMMA BestTierType ==
  ASSUME NEW tiers \in SUBSET [min: Nat, price: Nat], IsFiniteSet(tiers), NEW n \in Nat,
         Eligible(tiers, n) # {}
  PROVE  BestTier(tiers, n).price \in Nat
  <1> DEFINE T == Eligible(tiers, n)
  <1>1. T \subseteq tiers
    BY DEF Eligible
  <1>2. IsFiniteSet(T)
    BY <1>1, FS_Subset
  <1>3. \A t \in T : t.min \in Nat /\ t.price \in Nat
    BY <1>1
  <1> HIDE DEF T
  <1>4. \E t \in T : \A u \in T : u.min <= t.min
    BY <1>2, <1>3, LastTier DEF T
  <1>5. BestTier(tiers, n) \in T
    BY <1>4 DEF BestTier, T
  <1>6. QED
    BY <1>3, <1>5

\* What is converted stays an amount.
LEMMA ConvertType ==
  ASSUME NEW amount \in Nat, NEW rate \in Rate
  PROVE  Convert(amount, rate) \in Nat
  <1>1. rate.num \in Nat /\ rate.den \in Nat \ {0}
    BY DEF Rate
  <1>2. amount * rate.num \in Nat
    BY <1>1
  <1>3. QED
    BY <1>1, <1>2, HalfUpBounds DEF Convert

\* Whatever the tiers, the cost and the margin, the unit price is an amount.
LEMMA UnitPriceType ==
  ASSUME NEW form \in FormType, IsFiniteSet(form.tiers), NEW cost \in Nat, NEW rate \in Rate,
         NEW unitCost \in Nat, NEW n \in Nat
  PROVE  UnitPrice(form, cost, rate, unitCost, n) \in Nat
  <1>1. form.margin \in Nat /\ form.tiers \in SUBSET [min: Nat, price: Nat]
    BY DEF FormType
  <1>2. CASE Eligible(form.tiers, n) # {}
    <2>1. BestTier(form.tiers, n).price \in Nat
      BY <1>1, <1>2, BestTierType
    <2>2. QED
      BY <1>2, <2>1 DEF UnitPrice
  <1>3. CASE Eligible(form.tiers, n) = {}
    <2> DEFINE c == Convert(cost, rate)
               m == MarginPercent(form.margin)
               cents == c * (100 + m) + 100 * unitCost
    <2>1. c \in Nat /\ m \in Nat
      BY <1>1, ConvertType, HalfUpBounds DEF MarginPercent
    <2>2. cents \in Nat
      <3> HIDE DEF c, m
      <3>1. QED
        BY <2>1
    <2>3. HalfUp(cents, 100) \in Nat
      <3> HIDE DEF cents
      <3>1. QED
        BY <2>2, HalfUpBounds
    <2>4. QED
      BY <1>3, <2>3 DEF UnitPrice
  <1>4. QED
    BY <1>2, <1>3

\* A table gives rates.
LEMMA TableRatesType ==
  ASSUME NEW table \in Table, NEW out
  PROVE  TableRates(table, out) \subseteq Rate
  BY DEF TableRates, Table, Rate, Scale

\* What a template converts with is a rate, from its cache or from none.
LEMMA ConversionsType ==
  ASSUME PricesAssumption, NEW t \in Template, NEW needed, NEW out,
         NEW x \in Conversions(t, needed, out)
  PROVE  x.rate \in Rate /\ x.cache \in Cache \cup {None}
  <1>1. CASE ~needed
    BY <1>1 DEF Conversions, One, Rate
  <1>2. CASE x \in Resolve(t, out)
    <2> DEFINE c == t.cache
               static == {[rate |-> y, cache |-> None] : y \in TableRates(t.static, out)}
               cached == {[rate |-> y, cache |-> c] : y \in TableRates(c.table, out)}
    <2>1. t.static \in Table /\ c \in Cache \cup {None}
      BY DEF Template, PricesAssumption, NoTable, Table
    <2>2. x \in static \/ (c # None /\ x \in cached)
      BY <1>2 DEF Resolve
    <2>3. CASE x \in static
      BY <2>1, <2>3, TableRatesType
    <2>4. CASE c # None /\ x \in cached
      <3>1. c.table \in Table
        BY <2>1, <2>4 DEF Cache
      <3>2. QED
        BY <2>1, <2>4, <3>1, TableRatesType
    <2>5. QED
      BY <2>2, <2>3, <2>4
  <1>3. QED
    BY <1>1, <1>2 DEF Conversions

------------------------------------------------------------------------------
(* Types, and the flag *)

\* The bounds and the amounts, which Shape leaves out.
Sized ==
  /\ \A r \in Rules : rule[r] \in RowShape => rule[r].version \in 1..MaxVersion
  /\ day <= MaxDay
  /\ quote \in [1..MaxQuotes -> Quotation \cup {None}]
  /\ vouched \subseteq [table: Table, expires: Int]

\* The flag of every quotation is the one its own amounts give.
Flagged ==
  \A i \in 1..MaxQuotes :
    quote[i] # None =>
      (quote[i].hits <=> HitsFloor(quote[i].base, quote[i].floor, quote[i].rate))

LEMMA SizedTypes ==
  ASSUME Shape, Sized, BoundsAssumption, NoRowAssumption
  PROVE  TypeOK
  <1>1. rule \in [Rules -> Row \cup {None}]
    <2>1. ASSUME NEW r \in Rules
          PROVE  rule[r] \in Row \cup {None}
      BY DEF Shape, Sized, Row, RowShape
    <2>2. QED
      BY <2>1 DEF Shape
  <1>2. day \in 0..MaxDay
    BY DEF Shape, Sized, BoundsAssumption
  <1>3. QED
    BY <1>1, <1>2 DEF Shape, Sized, TypeOK

LEMMA VouchType ==
  ASSUME Sized, NEW t \in Template, vouched' = Vouch(t)
  PROVE  vouched' \subseteq [table: Table, expires: Int]
  <1>1. t.cache # None => Terms(t.cache) \in [table: Table, expires: Int]
    BY DEF Template, Cache, Terms
  <1>2. QED
    BY <1>1 DEF Vouch, Sized

\* A request begins: at most a person vouches for a cache.
LEMMA BeginSized ==
  ASSUME Shape, Sized, NEW w \in Workers, NEW r \in Rules,
         BeginPut(w, r) \/ BeginConfirm(w, r) \/ BeginDueRefresh(w, r)
           \/ BeginManualRefresh(w, r)
  PROVE  Sized' /\ UNCHANGED quote
  <1>1. UNCHANGED <<rule, quote, day>>
    BY DEF BeginPut, BeginConfirm, BeginDueRefresh, BeginManualRefresh, BeginRefresh, Begin
  <1>2. vouched' \subseteq [table: Table, expires: Int]
    <2>1. CASE UNCHANGED vouched
      BY <2>1 DEF Sized
    <2>2. CASE BeginPut(w, r)
      BY <2>1, <2>2, SubmissionsType, VouchType DEF BeginPut
    <2>3. CASE BeginConfirm(w, r)
      BY <2>3, ConfirmTemplate, VouchType DEF BeginConfirm
    <2>4. QED
      BY <2>1, <2>2, <2>3 DEF BeginDueRefresh, BeginManualRefresh, BeginRefresh
  <1>3. QED
    BY <1>1, <1>2 DEF Sized

\* A request ends: only a PUT gives the row another version.
LEMMA FinishSized ==
  ASSUME Shape, Sized, BoundsAssumption, NEW w \in Workers, Finish(w) \/ Fail(w)
  PROVE  Sized' /\ UNCHANGED quote
  <1> DEFINE q == request[w]
             old == rule[q.rule]
  <1>1. q.rule \in Rules /\ old \in RowShape /\ old.version \in 1..MaxVersion
    BY DEF Shape, Held, Sized, Finish, FinishRefresh, FinishConfirm, FinishPut, Fail
  <1>2. UNCHANGED <<quote, day, vouched>>
    BY DEF Finish, FinishRefresh, FinishConfirm, FinishPut, Fail
  <1>3. \A r \in Rules \ {q.rule} : rule'[r] = rule[r]
    BY DEF Finish, FinishRefresh, FinishConfirm, FinishPut, Fail, Shape
  <1>4. rule'[q.rule].version \in 1..MaxVersion
    <2>1. CASE FinishRefresh(w)
      <3>1. PICK t : rule' = [rule EXCEPT ![q.rule].template = t]
        BY <2>1 DEF FinishRefresh
      <3>2. rule'[q.rule] = [old EXCEPT !.template = t]
        BY <1>1, <3>1 DEF Shape
      <3>3. QED
        BY <1>1, <3>2 DEF RowShape
    <2>2. CASE FinishConfirm(w)
      <3>1. rule'[q.rule] = [old EXCEPT !.template = Put(q.template, @)]
        BY <1>1, <2>2 DEF FinishConfirm, Shape
      <3>2. QED
        BY <1>1, <3>1 DEF RowShape
    <2>3. CASE FinishPut(w)
      <3> DEFINE row == [[old EXCEPT !.template = Put(q.template, @)] EXCEPT !.form = q.form]
      <3>1. row.version = old.version /\ row = [row EXCEPT !.version = @]
            /\ row \in [product: Scopes, form: {q.form}, template: {Put(q.template, old.template)},
                        version: Nat]
        BY <1>1 DEF RowShape
      <3>2. rule'[q.rule] = [row EXCEPT !.version = @ + 1]
        BY <1>1, <2>3 DEF FinishPut, Shape
      <3> HIDE DEF row
      <3>3. rule'[q.rule].version = old.version + 1
        BY <3>1, <3>2
      <3>4. old.version < MaxVersion
        BY <2>3 DEF FinishPut
      <3>5. QED
        BY <1>1, <3>3, <3>4 DEF BoundsAssumption
    <2>4. CASE Fail(w)
      BY <1>1, <2>4 DEF Fail
    <2>5. QED
      BY <2>1, <2>2, <2>3, <2>4 DEF Finish
  <1> HIDE DEF q, old
  <1>5. QED
    BY <1>2, <1>3, <1>4 DEF Sized

LEMMA CreateSized ==
  ASSUME Shape, Sized, BoundsAssumption, NEW r \in Rules, CreateRule(r)
  PROVE  Sized' /\ UNCHANGED quote
  <1>1. PICK p \in Scopes, f \in Forms, t \in Submissions(r) :
          /\ rule' = [rule EXCEPT ![r] = [product |-> p, form |-> f, template |-> t,
                                          version |-> 1]]
          /\ vouched' = Vouch(t)
    BY DEF CreateRule
  <1>2. UNCHANGED <<quote, day>>
    BY DEF CreateRule
  <1>3. rule'[r].version = 1 /\ 1 \in 1..MaxVersion
    BY <1>1 DEF Shape, BoundsAssumption
  <1>4. \A s \in Rules \ {r} : rule'[s] = rule[s]
    BY <1>1 DEF Shape
  <1>5. vouched' \subseteq [table: Table, expires: Int]
    BY <1>1, SubmissionsType, VouchType
  <1>6. QED
    BY <1>2, <1>3, <1>4, <1>5 DEF Sized

\* A quotation is drafted with amounts, and with the flag they give.
LEMMA CalcSized ==
  ASSUME Shape, Sized, Flagged, PricesAssumption, NEW i \in 1..MaxQuotes, CalcQuote(i)
  PROVE  Sized' /\ Flagged'
  <1>1. UNCHANGED <<rule, day, vouched>>
    BY DEF CalcQuote
  <1>2. PICK p, n, foreign, r, in, out : Drafts(i, p, n, foreign, r, in, out)
    BY CalcDrafts
  <1> DEFINE t == rule[r].template
             f == rule[r].form
             needed == p.foreign /\ Eligible(f.tiers, n) = {}
             cache == IF foreign THEN out.cache ELSE in.cache
             base == UnitPrice(f, p.cost, in.rate, t.unitCost, n)
             hits == HitsFloor(base, f.floor, out.rate)
  <1>3. /\ p \in Products /\ n \in Quantities /\ r \in RulesFor(p)
        /\ in \in Conversions(t, needed, FALSE) /\ out \in Conversions(t, foreign, TRUE)
    BY <1>2 DEF Drafts
  <1>5. r \in Rules /\ rule[r] \in RowShape
    BY <1>3 DEF RulesFor, Shape
  <1>6. /\ t \in Template /\ f \in FormType /\ IsFiniteSet(f.tiers)
        /\ t.unitCost \in Nat /\ p.cost \in Nat /\ n \in Nat
    <2>1. t \in Template /\ f \in Forms
      BY <1>5 DEF RowShape
    <2>2. f \in FormType /\ IsFiniteSet(f.tiers) /\ p \in ProductType /\ n \in Nat
      BY <1>3, <2>1 DEF PricesAssumption
    <2>3. t.unitCost \in Nat
      <3>1. t.unitCost \in UnitCosts \cup {0}
        BY <2>1 DEF Template
      <3> DEFINE u == t.unitCost
      <3>2. u \in UnitCosts => u \in Nat
        BY DEF PricesAssumption
      <3>3. u = 0 \/ u \in UnitCosts
        BY <3>1
      <3> HIDE DEF u
      <3>4. u \in Nat
        BY <3>2, <3>3
      <3>5. QED
        BY <3>4 DEF u
    <2>4. p.cost \in Nat
      BY <2>2 DEF ProductType
    <2>5. QED
      BY <2>1, <2>2, <2>3, <2>4
  <1>7. /\ in.rate \in Rate /\ in.cache \in Cache \cup {None}
        /\ out.rate \in Rate /\ out.cache \in Cache \cup {None}
    <2> HIDE DEF t, needed
    <2>1. QED
      BY <1>3, <1>6, ConversionsType
  <1>8. base \in Nat /\ f.floor \in Nat /\ cache \in Cache \cup {None} /\ hits \in BOOLEAN
    <2>1. base \in Nat
      <3> HIDE DEF t, f
      <3>1. QED
        BY <1>6, <1>7, UnitPriceType
    <2>2. f.floor \in Nat
      BY <1>6 DEF FormType
    <2>3. hits \in BOOLEAN
      BY DEF HitsFloor
    <2>4. QED
      BY <1>7, <2>1, <2>2, <2>3
  <1>9. day \in 0..MaxDay
    BY DEF Shape, Sized
  <1> DEFINE row == [base |-> base, floor |-> f.floor, rate |-> out.rate, cache |-> cache,
                     day |-> day, hits |-> hits]
  <1>10. quote' = [quote EXCEPT ![i] = row]
    BY <1>2 DEF Drafts
  <1>11. row.hits <=> HitsFloor(row.base, row.floor, row.rate)
    OBVIOUS
  <1> HIDE DEF cache, base, hits
  <1>12. row \in Quotation
    BY <1>7, <1>8, <1>9 DEF Quotation
  <1> HIDE DEF row
  <1>13. quote'[i] = row /\ \A j \in (1..MaxQuotes) \ {i} : quote'[j] = quote[j]
    BY <1>10 DEF Sized
  <1>14. quote' \in [1..MaxQuotes -> Quotation \cup {None}]
    BY <1>10, <1>12 DEF Sized
  <1>15. Flagged'
    BY <1>11, <1>13 DEF Flagged
  <1>16. QED
    BY <1>1, <1>14, <1>15 DEF Sized

\* Whatever the step, the bounds hold and the flags agree with the amounts.
LEMMA NextSized ==
  ASSUME Shape, Sized, Flagged, PricesAssumption, BoundsAssumption, [Next]_vars
  PROVE  Sized' /\ Flagged'
  <1>1. ASSUME Sized', UNCHANGED quote
        PROVE  Sized' /\ Flagged'
    BY <1>1 DEF Flagged
  <1>2. ASSUME NEW i \in 1..MaxQuotes, CalcQuote(i)
        PROVE  Sized' /\ Flagged'
    BY <1>2, CalcSized
  <1>3. ASSUME NEW w \in Workers, NEW r \in Rules,
               BeginPut(w, r) \/ BeginConfirm(w, r) \/ BeginDueRefresh(w, r)
                 \/ BeginManualRefresh(w, r)
        PROVE  Sized' /\ Flagged'
    BY <1>1, <1>3, BeginSized
  <1>4. ASSUME NEW w \in Workers, Finish(w) \/ Fail(w)
        PROVE  Sized' /\ Flagged'
    BY <1>1, <1>4, FinishSized
  <1>5. ASSUME NEW r \in Rules, CreateRule(r)
        PROVE  Sized' /\ Flagged'
    BY <1>1, <1>5, CreateSized
  <1>6. ASSUME NEW r \in Rules, Show(r)
        PROVE  Sized' /\ Flagged'
    BY <1>1, <1>6 DEF Show, Sized
  <1>7. CASE NewDay
    BY <1>1, <1>7 DEF NewDay, Sized, Shape, BoundsAssumption
  <1>8. CASE UNCHANGED vars
    BY <1>1, <1>8 DEF vars, Sized
  <1>9. QED
    BY <1>2, <1>3, <1>4, <1>5, <1>6, <1>7, <1>8 DEF Next

\* The bounds hold and the flags agree with the amounts, from the first state on.
THEOREM AmountsSized == Spec => [](Sized /\ Flagged)
  <1>1. Init => Sized /\ Flagged
    BY NoRowAssumption, BoundsAssumption
       DEF Init, Sized, Flagged, RowShape, NoRowAssumption, BoundsAssumption
  <1>2. Shape /\ Sized /\ Flagged /\ [Next]_vars => Sized' /\ Flagged'
    BY NextSized, PricesAssumption, BoundsAssumption
  <1>3. QED
    BY <1>1, <1>2, CachesHonest, PTL DEF Spec

\* Every price, rate and version of every rule and quotation stays within its type.
THEOREM TypeCorrect == Spec => []TypeOK
  <1>1. Shape /\ Sized => TypeOK
    BY SizedTypes, BoundsAssumption, NoRowAssumption
  <1>2. QED
    BY <1>1, CachesHonest, AmountsSized, PTL

\* The flag of a quotation, for as long as it stands: never raised for a price that is not
\* below the floor, exact without a conversion, and missed by a cent at most.
THEOREM FlagsAgree == Spec => []FlagAgrees
  <1>1. Sized /\ Flagged => FlagAgrees
    <2>1. ASSUME Sized, Flagged, NEW i \in 1..MaxQuotes, quote[i] # None
          PROVE  LET q == quote[i] IN
                 /\ q.hits => q.base < q.floor
                 /\ ~q.hits => (q.floor - q.base) * q.rate.num <= q.rate.den
                 /\ q.rate = One => (q.hits <=> q.base < q.floor)
      <3> DEFINE q == quote[i]
      <3>1. q.base \in Nat /\ q.floor \in Nat /\ q.rate \in Rate
        BY <2>1 DEF Sized, Quotation
      <3>2. q.hits <=> HitsFloor(q.base, q.floor, q.rate)
        BY <2>1 DEF Flagged
      <3> HIDE DEF q
      <3>3. /\ q.hits => q.base < q.floor
            /\ ~q.hits => (q.floor - q.base) * q.rate.num <= q.rate.den
            /\ q.rate = One => (q.hits <=> q.base < q.floor)
        BY <3>1, <3>2, FloorToTheCent
      <3>4. QED
        BY <3>3 DEF q
    <2>2. QED
      BY <2>1 DEF FlagAgrees
  <1>2. QED
    BY <1>1, AmountsSized, PTL
================================================================================
