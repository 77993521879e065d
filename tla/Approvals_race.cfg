SPECIFICATION Spec
CONSTANTS
  Conversations = {c1}
  ApprovalIds = {a1}
  Quotations = {}
  Workers = {w1, w2}
  MaxLost = 0
  Edits = {"edited"}
  NoId = NoId
INVARIANT
  RejectedStaysUnexecuted
