SPECIFICATION FairSpec
CONSTANTS
  a = a
  b = b
  x = x
  y = y
  z = z
  ros1 = ros1
  none = none
  Threads = {a, b}
  Offers = {x, y, z}
  NoH264 = {z}
  MaxFrames = 1
  None = none
  Ros = ros1
CHECK_DEADLOCK FALSE
INVARIANTS TypeOK AnswerIsForOffer
PROPERTIES ImplementsNegotiation FramesHeldBack NegotiationEnds
