\* Three engine types of which one is not built, one plain writer and the
\* preset task, every fault; the audio task may even stop for good. SeqMod 4
\* lets the block counter wrap.
CONSTANTS
  Types = {sub, fm, modular}
  Built = {sub, fm}
  Boot = sub
  Writers = {midi}
  Loads = {fm}
  None = None
  SeqMod = 4
  MuteSteps = 1
  Faults = {"stall", "init", "memory"}
  MaxWrites = 2
  sub = sub
  fm = fm
  modular = modular
  midi = midi
SPECIFICATION ControlFairSpec
INVARIANTS UsedStaysValid SettledConsistently ParamNamesEngine
PROPERTIES TimeoutKeepsEngine HandoffSpec SwitchEnds RequestServed
