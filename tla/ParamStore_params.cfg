\* Two tasks register engine parameters and a third sets a fixed and an engine
\* parameter; a store of two slots overflows.
CONSTANTS
  None = None
  ble = ble
  preset = preset
  eng_switch = eng_switch
  Fixed <- MCFixed
  Layout <- MCLayout
  NotFinite = NotFinite
  NumSlots = 2
  Registrars = {eng_switch, ble}
  Setters = {preset}
  SetIds = {"volume", "e0"}
  Values = {0, 3, NotFinite}
  MaxSets = 2
  MaxBinds = 3
SPECIFICATION Spec
INVARIANTS IndexExact ValueInRange
PROPERTIES FixedChangeBySet
CHECK_DEADLOCK FALSE
