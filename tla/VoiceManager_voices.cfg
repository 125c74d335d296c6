\* Two keys, the pedal and the panics on two voices with a unison of one or
\* two, a ring of two slots that fills and wraps, and one engine switch that
\* completes or is aborted.
CONSTANTS
  Notes = {n1, n2}
  NumVoices = 2
  MaxUnison = 2
  QueueLen = 2
  CounterMod = 4
  HoldBlocks = 2
  EventTypes = {"NoteOn", "NoteOff", "AllNotesOff", "AllSoundOff", "SustainOn", "SustainOff"}
  MaxEvents = 4
  MaxSwitches = 1
  n1 = n1
  n2 = n2
SPECIFICATION VoicesSpec
INVARIANTS RingIsQueue NoStuckNote
PROPERTIES StealsLast
