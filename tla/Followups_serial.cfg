CHECK_DEADLOCK FALSE
SPECIFICATION FairSpec
CONSTANTS
  Conversations = {c1, c2}
  Tasks = {t1, t2}
  Texts = {"plain", "risky", "blank"}
  MaxAttempts = 2
  Workers = {w1}
  MaxCrashes = 1
  None = None
INVARIANTS
  TypeOK
  FollowupsBounded
PROPERTIES
  NothingAfterTheEnd
  FollowupEnds
