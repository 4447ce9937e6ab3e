SPECIFICATION FairSpec
CONSTANTS
  Magic = 7
  Messages <- SomeMessages
  MaxFrames = 3
  ReadSize = 3
INVARIANTS TypeOK FramesInOrder EndIsWhole
PROPERTIES EveryFrameDispatched
