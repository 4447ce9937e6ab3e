CONSTANTS
  Kinds = {"clientStream"}
  Capacity = 2
  MaxMessages = 1
  MaxReplies = 2
SPECIFICATION Spec
INVARIANT EofMeansHalfClose
