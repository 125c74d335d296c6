\* One task plays, tunes and panics; two entries for three keys, a strum clock
\* with room for one tone.
SPECIFICATION ChordSpec
CONSTANTS
  Keys = {"C", "E", "B"}
  Pitches <- MCPitches
  Settings = {"triad", "wide", "all", "off", "mono", "post", "strum"}
  Enabled <- MCEnabled
  Pre <- MCPre
  Mono <- MCMono
  Strummed <- MCStrummed
  RestrikeAll <- MCRestrikeAll
  ArpOn <- MCArpOn
  Tones <- MCTones
  KeyNote <- MCKeyNote
  NumKeys = 2
  NumPending = 1
  Players = {"usb"}
  Tuners = {"usb"}
  Tunings <- MCTunings
  Panics = {"usb"}
  MaxOps = 5
INVARIANTS RefExact SoundIsHeld PendingIsCurrent
CHECK_DEADLOCK FALSE
