CONSTANTS
  UserKits = {1}
  NumSlots = 2
  Blocks = {1, 2, 3}
  MaxSlices = 2
  None = None
  MaxMoves = 2
SPECIFICATION Spec
INVARIANTS WaitIsGuarantee
