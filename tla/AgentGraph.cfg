SPECIFICATION FairSpec
CONSTANTS
  i1 = i1
  i2 = i2
  c1 = c1
  Inquiries = {i1, i2}
  Conversations = {c1}
  InquiryOf <- MCInquiryOf
  Profiles <- MCProfiles
  Runs = {x1}
  Products = {1, 2}
  Words = {"led", "lamp", "cable", "hello"}
  Codes = {"L-1"}
  Text <- MCText
  Matches = 1
  Other = Other
  Missing = Missing
  None = None
INVARIANTS
  TypeOK
  HeldIsNotAnswered
  SentIsRecorded
  PolicyKept
PROPERTIES
  ContractKept
  RunEnds
