CONSTANTS
  UserKits = {1}
  NumSlots = 2
  Blocks = {1, 2, 3, 4}
  MaxSlices = 2
  None = None
  MaxMoves = 3
SPECIFICATION Spec
INVARIANTS PadsOutliveVoices NothingLost CommitHasOwner
