\* Two tracks over two notes and two parameters, one of the engine and one of
\* its own; a table of two note-offs fills.
CONSTANTS
  NumTracks = 2
  Patterns = {A, B}
  Notes = {n1, n2}
  Gates = {2}
  MaxOffs = 2
  Pids = {fixed, engine}
  EnginePids = {engine}
  Values = {0, 1}
  Default = 0
  Sheets <- MCSheets
  None = None
  engine = engine
SYMMETRY Alike
SPECIFICATION Spec
INVARIANTS NoHungNote BarStartsTogether LocksRestored
CHECK_DEADLOCK FALSE
