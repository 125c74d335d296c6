\* Two tracks, loops of one or two units, three moves of any kind in any order;
\* memory may be short, and one handshake may be given up.
CONSTANTS
  NumTracks = 2
  Cap = 2
  MaxBeats = 1
  Ramp = 2
  Bufs = {1, 2, 3}
  Moves = {"rec", "play", "stop", "track", "all", "load"}
  MaxMoves = 3
  Faults = {"late", "nomem"}
  MaxLate = 1
SPECIFICATION FairSpec
INVARIANTS BuffersOutliveBlock FilledHoldsTake DecodesInStep
PROPERTIES CancelWins ComesToRest
