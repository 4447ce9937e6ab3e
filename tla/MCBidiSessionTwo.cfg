CONSTANTS
  Server = Server
  ClientLegs = {c1, c2}
  NoLeg = NoLeg
  HandlerPanics = FALSE
SPECIFICATION Spec
SYMMETRY LegSymmetry
INVARIANTS ClientLegClosedOnce OutcomesAccounted LegNotAbandoned
PROPERTY NoWriteAfterReturn
