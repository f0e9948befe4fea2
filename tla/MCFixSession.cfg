SPECIFICATION Spec
CONSTANTS
  Kinds = {"App", "Logon", "Logout", "LogoutDone", "TestRequest"}
  MaxSeq = 4
  MaxAhead = 2
  MaxOut = 2
  QueueCap = 1
  MAX_RESEND_ATTEMPT = 1
  ALLOWED_LOGIN_ATTEMPT = 1
INVARIANTS TypeOK StoreInOrder NotStuckOnPending SkipsOnlyBehindSession LoginBudget ResendCoversGap
