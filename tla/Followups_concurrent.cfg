CHECK_DEADLOCK FALSE
SPECIFICATION FairSpec
CONSTANTS
  Conversations = {c1}
  Tasks = {t1}
  Texts = {"plain", "risky", "blank"}
  MaxAttempts = 3
  Workers = {w1, w2}
  MaxCrashes = 1
  None = None
PROPERTIES
  NeverResumed
  FollowupEnds
