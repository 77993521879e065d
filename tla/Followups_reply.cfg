CHECK_DEADLOCK FALSE
SPECIFICATION Spec
CONSTANTS
  Conversations = {c1, c2}
  Tasks = {t1}
  Texts = {"plain", "risky", "blank"}
  MaxAttempts = 2
  Workers = {w1}
  MaxCrashes = 1
  None = None
PROPERTY
  ReplyStopsFollowups
