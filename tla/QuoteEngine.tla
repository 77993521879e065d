----------------------------- MODULE QuoteEngine -----------------------------
(***************************************************************************)
(* The arithmetic of a quotation (services/quote_engine, exchange_rates):  *)
(* tier or cost-plus-margin price, logistics, conversion, rounding, and    *)
(* the comparison with the floor price.  Amounts are cents; a rate is a    *)
(* fraction; rounding is half up, as Decimal.quantize does it for amounts  *)
(* that are not negative.                                                  *)
(***************************************************************************)
EXTENDS Integers

\* A rate of a table, in hundredths; 0 where the table has none.
Scale == 100
Table == [fwd: Nat, bwd: Nat]
Rate == [num: Nat \ {0}, den: Nat \ {0}]

One == [num |-> 1, den |-> 1]

\* n / d rounded half up.
HalfUp(n, d) == (2 * n + d) \div (2 * d)

\* The rate a table gives from the rule's currency to the other one (out) or back:
\* the direct entry, else the inverse of the other; a set of at most one rate.
TableRates(table, out) ==
  LET direct == IF out THEN table.fwd ELSE table.bwd
      other == IF out THEN table.bwd ELSE table.fwd
  IN IF direct # 0 THEN {[num |-> direct, den |-> Scale]}
     ELSE IF other # 0 THEN {[num |-> Scale, den |-> other]} ELSE {}

Convert(amount, rate) == IF rate = One THEN amount ELSE HalfUp(amount * rate.num, rate.den)

\* A tier is [min, price]; min_qty is unique in a rule.
Eligible(tiers, quantity) == {t \in tiers : t.min <= quantity}

BestTier(tiers, quantity) ==
  CHOOSE t \in Eligible(tiers, quantity) : \A u \in Eligible(tiers, quantity) : u.min <= t.min

\* margin_rate has four decimals in its column, of which the engine keeps two.
MarginPercent(margin) == HalfUp(margin, 100)

\* The unit price in the rule's currency: the tier's price, else the cost (converted
\* at rate) and the margin; plus the logistics of the unit.
UnitPrice(form, cost, rate, unitCost, quantity) ==
  IF Eligible(form.tiers, quantity) # {}
  THEN BestTier(form.tiers, quantity).price + unitCost
  ELSE HalfUp(Convert(cost, rate) * (100 + MarginPercent(form.margin)) + 100 * unitCost, 100)

\* Mutant of HitsFloor: the floor is compared as it is in the rule.
HitsFloorRaw(unit, floor, rate) == Convert(unit, rate) < floor

\* Both are converted before they are compared.
HitsFloor(unit, floor, rate) == Convert(unit, rate) < Convert(floor, rate)
==============================================================================
