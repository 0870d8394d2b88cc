SPECIFICATION FairSpec
CONSTANTS
  MaxReconnect = 1
  MaxLate = 2
INVARIANT CredentialsWork
CHECK_DEADLOCK FALSE
