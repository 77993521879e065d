CHECK_DEADLOCK FALSE
SPECIFICATION FairSpec
CONSTANTS
  Sellers = {1, 2}
  Polled = {1}
  Emails = {"a"}
  Phones = {"p"}
  Mails <- MCMails
  Posts <- MCForms
  Profiles <- MCProfiles
  Limit = 2
  Marks = {FALSE, TRUE}
  Workers = {w1}
  MaxCustomers = 2
  MaxMessages = 3
  MaxEdits = 0
  MaxCrashes = 1
INVARIANTS
  TypeOK
  SeenIsStored
  CustomerIsOfSeller
PROPERTIES
  CleanMailIsStored
