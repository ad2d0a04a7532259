CONSTANTS
  Node = {n1, n2, n3}
  Stub = Stub
  NULL = NULL
SPECIFICATION FairSpec
INVARIANTS ListInv ReturnedIsPrivate
PROPERTIES ImplementsFifo EveryNodeIsDelivered
