SPECIFICATION FairSpec
CONSTANTS
  Keys <- MCKeys
  RsaKeys <- MCRsaKeys
  Settings <- MCSettings
  LongUsers = {"long"}
  MAX_PUBKEY_QUERIES = 2
  Requests <- MCRequests
  MaxRequests = 5
INVARIANTS AuthExact GuessesBounded
 
CHECK_DEADLOCK FALSE
