SPECIFICATION FairSpec
CONSTANTS
  Rules = {1}
  RefreshLimit = 1
  Products <- MCProducts
  Scopes = {None}
  Forms <- MCForms
  Tables <- MCTables
  UnitCosts = {0}
  Fetched = {90}
  Ttl = 1
  Skews <- MCSkews
  Quantities = {1, 2}
  Workers = {w1, w2}
  MaxDay = 1
  MaxVersion = 2
  MaxQuotes = 1
  None = None
INVARIANTS
  TypeOK
  RateWasConfirmed
  FlagAgrees
PROPERTIES
  ExpiredIsRefreshed
