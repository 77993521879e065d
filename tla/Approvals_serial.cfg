SPECIFICATION Spec
CONSTANTS
  Conversations = {c1}
  ApprovalIds = {a1}
  Quotations = {q1, q2}
  Workers = {w1}
  MaxLost = 2
  Edits = {"edited"}
  NoId = NoId
SYMMETRY Symmetry
INVARIANTS
  TypeOK
  PerformedOnce
  SpeakerMatchesTakeover
  FloorQuotationNeedsApproval
  RecordMatchesSent
  PiNeedsApproval
PROPERTY
  ContractKept
