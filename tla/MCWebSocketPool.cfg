SPECIFICATION Spec
CONSTANTS
  first = first
  again = again
  other = other
  alice = alice
  bob = bob
  None = None
  Sockets = {first, again, other}
  Clients = {alice, bob}
  ClientOf <- MCClientOf
  WS_POOL_MAX_SIZE = 1
INVARIANTS
  TypeOK
  PoolClientIsKnown
  EntryHasADisconnector
PROPERTY
  FrozenForever
CHECK_DEADLOCK FALSE
