------------------------------ MODULE SeqPlayMC ------------------------------
(* Playback for TLC. Three sheets: notes, with steps that fire a tick early  *)
(* or later than the next one's nominal tick; parameter locks, on a grid of  *)
(* one tick; and both on time.                                               *)
EXTENDS SeqPlay, TLC

CONSTANT engine    \* a parameter of the engine's

NoteSheet == [ticks |-> 2, lens |-> {1, 2}, offsets |-> {-1, 3}, ratchets |-> {1, 2},
              notes |-> Notes, locks |-> {}, moves |-> {"length"}, most |-> 1]
LockSheet == [ticks |-> 1, lens |-> {1}, offsets |-> {0}, ratchets |-> {1},
              notes |-> {}, locks |-> Pids, moves |-> {"knob", "engine", "song"}, most |-> 2]
BothSheet == [ticks |-> 2, lens |-> {1}, offsets |-> {0}, ratchets |-> {2},
              notes |-> Notes, locks |-> {engine}, moves |-> {"knob", "engine"}, most |-> 1]
MCSheets  == {NoteSheet, LockSheet, BothSheet}

\* Patterns are alike but for their lengths, which start with any value.
Alike == Permutations(Patterns) \cup Permutations(Notes)

=============================================================================
