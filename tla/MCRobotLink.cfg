SPECIFICATION FairSpec
CONSTANTS
  cmd = cmd
  offer = offer
  Topics = {cmd, offer}
  UnhealthyAfter = 2
  MaxCrashes = 1
  MaxDrops = 2
  MaxRestarts = 2
CHECK_DEADLOCK FALSE
INVARIANTS TypeOK SubscribedWhenUp SeenOnline FlagTellsTheTruth
PROPERTIES EndedSessionIsOffline DeadIsOffline LinkRecovers
