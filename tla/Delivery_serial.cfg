CHECK_DEADLOCK FALSE
SPECIFICATION Spec
CONSTANTS
  Attempts = {a1, a2}
  Emails = {a1}
  Handlers = {w1}
  Crons = {w1}
  MaxCopies = 2
  MaxCount = 3
  MaxReceipts = 2
  MaxLost = 1
INVARIANTS
  TypeOK
  FailedIsScheduled
  CopiesAreCounted
  ResendNeedsBounce
PROPERTIES
  ErasureStopsOutbound
  ErasedStaysErased
