SPECIFICATION FairSpec
CONSTANTS
  ServerLeg = serverLeg
  ClientLeg = clientLeg
  Posts <- BothLegs
  MaxMessages = 3
  MaxSends = 2
INVARIANTS TypeOK EachMessageOnce SuccessIsComplete
PROPERTIES QuietAfterEnd FailureEndsCall CallSettles
