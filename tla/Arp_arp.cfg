\* Two players over two keys, both knobs turned, a list of one and a table of two,
\* so that both overflow.
CONSTANTS
  Players = {p1, p2}
  Keys = {1, 2}
  TopNote = 2
  Octave = 1
  Octaves = 2
  MaxHeld = 1
  MaxPending = 2
  ArpTicks = 2
  GateTicks = {1, 2}
  MaxBurst = 1
  Knobs = {"mode", "hold"}
  MaxPresses = 2
  MaxTurns = 4
SYMMETRY PlayerSymmetry
SPECIFICATION ArpSpec
INVARIANTS NoHungVoice OwnedIsDown
CHECK_DEADLOCK FALSE
