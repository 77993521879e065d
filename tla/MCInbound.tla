------------------------------ MODULE MCInbound ------------------------------
(* Inbound on small instances: what the messages are. *)
EXTENDS Inbound, TLC

Mail(name, id, malformed, to) ==
  [name |-> name, id |-> id, email |-> "a", phone |-> None, malformed |-> malformed,
   to |-> to]

\* A mail to two sellers, one without an id, and one that cannot be decoded.
MCMails == {Mail("m1", "i1", FALSE, Sellers), Mail("m2", None, FALSE, {1}),
            Mail("m3", "i3", TRUE, {1})}

MCCleanMails == {m \in MCMails : ~m.malformed}

\* A site form, which names both the email and the phone of a sender.
MCForms == {[name |-> "p1", id |-> "j1", email |-> "a", phone |-> "p",
             malformed |-> FALSE, to |-> {1}]}

\* The email is cleared, the phone is cleared with the channels, or both are typed.
MCProfiles == {[email |-> None], [phone |-> None, channels |-> {}],
               [email |-> "a", phone |-> "p"]}

Symmetry == Permutations(Workers)
==============================================================================
