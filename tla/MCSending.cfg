SPECIFICATION Spec
CONSTANTS
  Plans <- MCPlans
  QuietPlans <- MCQuietPlans
  Ring = 3
  QueueCap = 2
  PendCap = 2
  MaxSock = 2
  ALLOWED_LOGIN_ATTEMPT = 3
  MAX_RETRY_COUNT = 3
INVARIANTS StreamWhole SentInOrder NobodyForgotten MessageIsItsOrder
PROPERTY ActiveFinishes
CHECK_DEADLOCK FALSE
