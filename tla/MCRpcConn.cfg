SPECIFICATION FairSpec
CONSTANTS
  Kinds <- Every
  Capacity = 1
  MaxMessages = 2
  MaxReplies = 2
INVARIANTS TypeOK InOrder NoGap EndIsComplete ResponseWellFormed HandlerHasRequest
PROPERTIES ImplementsStream CallEnds ReaderEnds
