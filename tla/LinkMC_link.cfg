\* One parameter, one note and two engines; any two of a turn of the panel, a write
\* and an engine's change, or one move of any kind and one fault, so that the link is
\* lost with anything on its way, a report finds no buffer, or a queue of one is full.
CONSTANTS
  Params = {"cutoff"}
  Values = {"low", "high"}
  NoValue = NoValue
  Engines = {"fm", "sub"}
  Notes = {60}
  CmdDepth = 1
  ListRetries = 3
  RequestRetries = 1
  Defaults <- MCDefaults
  FirstEngine = "fm"
  Budgets <- MCBudgets
SPECIFICATION FairSpec
INVARIANTS ChangeNotForgotten NoNoteLeftOn
PROPERTIES Synchronises
CHECK_DEADLOCK FALSE
