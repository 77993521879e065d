SPECIFICATION Spec
CONSTANTS
  Conversations = {c1}
  ApprovalIds = {a1}
  Quotations = {}
  Workers = {w1, w2, w3}
  MaxLost = 1
  Edits = {}
  NoId = NoId
SYMMETRY WorkerSymmetry
INVARIANTS
  PendingMeansUnexecuted
  DuplicatesBounded
PROPERTY
  NeverReopened
