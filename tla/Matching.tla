------------------------------- MODULE Matching -------------------------------
(***************************************************************************)
(* product_matching: the active products of a seller that share words with *)
(* a requirement, the best first.  Scores are scaled by 2 and by the       *)
(* number of the requirement's words, which keeps them whole and in order. *)
(***************************************************************************)
EXTENDS Integers, FiniteSetsExt

CONSTANTS
  Products,  \* primary keys of the product table
  Words,
  Codes,     \* SKUs, where they stand in a text letter by letter
  Text,      \* the columns of each product
  Matches    \* the limit

Fields == {"name", "sku", "description", "specs"}

ASSUME ProductsAssumption ==
  /\ Products \subseteq Nat /\ IsFiniteSet(Products)
  /\ Words \cap Codes = {} /\ IsFiniteSet(Words) /\ Matches \in Nat \ {0}
  /\ Text \in [Products -> [words: [Fields -> SUBSET Words], code: SUBSET Codes]]

Weight(f) ==
  CASE f \in {"name", "sku"} -> 4 [] f = "specs" -> 3 [] f = "description" -> 2

\* _score_product; text: the words and codes of the requirement.
Fit(p, text) ==
  LET query == text \cap Words
      share(f) == Weight(f) * Cardinality(Text[p].words[f] \cap query)
  IN share("name") + share("sku") + share("description") + share("specs")
       + (IF Text[p].code \cap text # {} THEN 2 * Cardinality(query) ELSE 0)

\* The order of the list: by score, then by key, downwards.
Before(text, p, q) ==
  Fit(p, text) > Fit(q, text) \/ (Fit(p, text) = Fit(q, text) /\ p > q)

First(text, matches) == {p \in matches : \A q \in matches \ {p} : Before(text, p, q)}

\* match_product: without words it raises, which its caller takes for no match.
MatchProduct(text, active) ==
  LET found == {p \in active : text \cap Words # {} /\ Fit(p, text) > 0} IN
  {p \in found : Cardinality({q \in found : Before(text, q, p)}) < Matches}
==============================================================================
