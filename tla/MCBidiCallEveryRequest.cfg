SPECIFICATION CallSpec
CONSTANTS
  ServerLeg = serverLeg
  ClientLeg = clientLeg
  Posts <- BothLegs
  NoLeg = NoLeg
  MaxMessages = 1
  MaxSends = 1
INVARIANTS EveryRequestReceived
