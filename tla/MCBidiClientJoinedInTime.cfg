SPECIFICATION Spec
CONSTANTS
  ServerLeg = serverLeg
  ClientLeg = clientLeg
  Posts <- BothLegs
  MaxMessages = 2
  MaxSends = 1
INVARIANTS JoinedInTime

