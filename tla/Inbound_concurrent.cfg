CHECK_DEADLOCK FALSE
SYMMETRY Symmetry
SPECIFICATION Spec
CONSTANTS
  Sellers = {1}
  Polled = {1}
  Emails = {"a"}
  Phones = {"p"}
  Mails <- MCCleanMails
  Posts <- MCForms
  Profiles <- MCProfiles
  Limit = 2
  Marks = {FALSE}
  Workers = {w1, w2}
  MaxCustomers = 3
  MaxMessages = 3
  MaxEdits = 1
  MaxCrashes = 1
INVARIANTS
  IngestedOnce
  CustomersBounded
  ErasedIsForgotten
