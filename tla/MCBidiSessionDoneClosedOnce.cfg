CONSTANTS
  Server = Server
  ClientLegs = {c1}
  NoLeg = NoLeg
  HandlerPanics = FALSE
SPECIFICATION Spec
INVARIANT DoneClosedOnce
