SPECIFICATION Spec
CONSTANTS
  AUTH_TIMEOUT = 3
  DEFAULT_KEEPALIVE_LIMIT = 3
  KEX_REKEY_TIMEOUT = 20
  Settings <- MCSettings
  Delay = 1
  MaxTime = 11
  MaxTraffic = 1
INVARIANT IdleDetected
CHECK_DEADLOCK FALSE
