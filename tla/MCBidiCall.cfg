SPECIFICATION FairCallSpec
CONSTANTS
  ServerLeg = serverLeg
  ClientLeg = clientLeg
  Posts <- BothLegs
  NoLeg = NoLeg
  MaxMessages = 1
  MaxSends = 0
INVARIANTS CallTypeOK SuccessIsAgreed
PROPERTIES SessionReleased OkIsDelivered
