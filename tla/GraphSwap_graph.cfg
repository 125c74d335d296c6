\* The switch task binds and unbinds the graph, another edits it, at once or in turn,
\* and the audio task may pause anywhere.
CONSTANTS
  sw = sw
  ble = ble
  Editors = {ble}
  Binder = sw
  None = None
  GainSteps = 2
  Faults = {"stall"}
  MaxOps = 4
SPECIFICATION FairSpec
INVARIANTS WalksValidPlan BuffersOutliveCall EditLeavesPlan
PROPERTIES HandoffSpec EditEnds
CHECK_DEADLOCK FALSE
