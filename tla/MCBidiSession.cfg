CONSTANTS
  Server = Server
  ClientLegs = {c1}
  NoLeg = NoLeg
  HandlerPanics = TRUE
SPECIFICATION FairSpec
CHECK_DEADLOCK FALSE
INVARIANTS TypeOK SettledBeforeReleased WaitingLegHasWaker
PROPERTIES ImplementsJoin AbortReleasesLeg UnjoinedSessionEnds ClientEndReleases LegsReleased
