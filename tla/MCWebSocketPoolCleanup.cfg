SPECIFICATION FairSpec
CONSTANTS
  first = first
  again = again
  other = other
  alice = alice
  bob = bob
  None = None
  Sockets = {first, again, other}
  Clients = {alice, bob}
  ClientOf <- MCClientOf
  WS_POOL_MAX_SIZE = 1
PROPERTY
  DueConnectionsAreRemoved
CHECK_DEADLOCK FALSE
