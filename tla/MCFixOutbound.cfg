SPECIFICATION Spec
CONSTANTS
  Kinds = {"App", "Logon"}
  MaxSeq = 2
  MaxAhead = 2
  MaxOut = 3
  QueueCap = 1
  MAX_RESEND_ATTEMPT = 1
  ALLOWED_LOGIN_ATTEMPT = 2
INVARIANT OutboundFresh
