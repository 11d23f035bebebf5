SPECIFICATION FairSpec
CONSTANTS
  q1 = q1
  q2 = q2
  a = a
  b = b
  none = none
  idle = idle
  working = working
  failed = failed
  unanswered = unanswered
  abandoned = abandoned
  Requests = {q1, q2}
  Threads = {a, b}
  None = none
  Idle = idle
  Working = working
  Failed = failed
  NoAnswer = unanswered
  Cancelled = abandoned
CHECK_DEADLOCK FALSE
INVARIANTS ViewerGetsItsAnswer AcceptedAnswerIsDelivered
PROPERTY RequestsEnd
