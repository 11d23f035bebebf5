SPECIFICATION Spec
CONSTANTS
  r1 = r1
  alice = alice
  bob = bob
  t1 = t1
  t2 = t2
  t3 = t3
  nobody = nobody
  Robots = {r1}
  Operators = {alice, bob}
  Driving = {"forward"}
  Tasks = {t1, t2, t3}
  TTL = 2
  MaxSid = 3
  Nobody = nobody
  Serialized = TRUE
  Prompt = FALSE
  Faults = TRUE
SYMMETRY OperatorSymmetry
INVARIANTS WritesHitOwnSession EndedIsNotLive
PROPERTY ImplementsControlLock
