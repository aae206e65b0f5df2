SPECIFICATION FairSpec
CONSTANTS
  MAX_UNAUTH_CLIENTS = 2
  MAX_UNAUTH_PER_IP = 1
  Listeners = 2
  Conns = {"c1", "c2", "c3", "c4"}
  Addr <- MCAddr
  MaxFailures = 1
INVARIANTS LimitHolds Tracked
PROPERTIES SlotsRecycled
CHECK_DEADLOCK FALSE
