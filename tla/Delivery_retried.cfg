CHECK_DEADLOCK FALSE
SPECIFICATION FairSpec
CONSTANTS
  Attempts = {a1}
  Emails = {}
  Handlers = {h}
  Crons = {k}
  MaxCopies = 2
  MaxCount = 3
  MaxReceipts = 3
  MaxLost = 1
PROPERTY
  FailedIsRetried
