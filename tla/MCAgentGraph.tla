----------------------------- MODULE MCAgentGraph -----------------------------
(* AgentGraph on a small instance. *)
EXTENDS AgentGraph, TLC
CONSTANTS i1, i2, c1

\* One conversation; a run may be given the other inquiry with it.
MCInquiryOf == c1 :> i1

\* An order of a lamp from a known company, one that is marked as spam and names an
\* SKU, and a few words.
MCProfiles ==
  {{"real_company", "verified_domain", "specific_quantity", "specific_product",
    "destination_known", "led", "lamp"},
   {"specific_quantity", "specific_product", "destination_known", "spam_keyword",
    "lamp", "cable", "L-1"},
   {"too_short", "buying_terms", "hello"}}

\* Two lamps, of which one has the SKU and the other has more of the words in its name.
MCText ==
  LET words(n, d) == [name |-> n, sku |-> {}, description |-> d, specs |-> {}] IN
  [p \in Products |->
     IF p = 1 THEN [words |-> words({"lamp"}, {"led"}), code |-> {"L-1"}]
     ELSE [words |-> words({"led", "lamp"}, {}), code |-> {}]]
==============================================================================
