SPECIFICATION FairSpec
CONSTANTS
  r1 = r1
  alice = alice
  bob = bob
  t1 = t1
  t2 = t2
  t3 = t3
  nobody = nobody
  Robots = {r1}
  Operators = {alice, bob}
  Driving = {"forward"}
  Tasks = {t1, t2}
  TTL = 2
  MaxSid = 1
  Nobody = nobody
  Serialized = FALSE
  Prompt = TRUE
  Faults = TRUE
INVARIANTS TypeOK AuditConsistent
PROPERTIES ActiveDriverKeepsLock StopNeverRefused LockReclaimed
