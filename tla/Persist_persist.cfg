\* One editor, two settings of which one is the route the sampler borrows, one
\* failing write a session, and power loss at any step.
CONSTANTS
  Editors = {ui}
  Ids = {route, volume}
  Route = route
  Nudged = {volume}
  Values = {off, mon}
  Off = off
  Mon = mon
  None = None
  Settle = 2
  Defer = 3
  Faults = {"nvs"}
  ui = ui
  route = route
  volume = volume
  off = off
  mon = mon
SPECIFICATION FairSpec
INVARIANTS OnlyChosenStored EditKept
PROPERTIES SavedWhenLeft
