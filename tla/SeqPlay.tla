-------------------------------- MODULE SeqPlay --------------------------------
(***************************************************************************)
(* Sequencer playback, components/seqarp/seq_play.cpp: tracks with their    *)
(* own length firing steps on a shared tick, the note-offs    *)
(* they owe, ratchets, slides, parameter locks, and the bar at whose end a  *)
(* queued pattern or the song chain takes over.                             *)
(*                                                                         *)
(* All of it runs on the clock task. A tick is one step for the note-offs   *)
(* and the bar, and then one per track and fired step, between which other  *)
(* tasks turn knobs, edit lengths, switch engines and edit the graph; both   *)
(* register parameters anew, the last not all of them. Ticks are counted     *)
(* from now: a note-off, a track's next step and its nominal tick are so    *)
(* many ticks away, where the code keeps absolute ones beside s_tick.       *)
(*                                                                         *)
(* Abstracted: what a step says (any note, gate, slide, ratchet and locks    *)
(* its sheet has, since steps are shifted at any time; what the players and  *)
(* other tasks do meanwhile is the sheet's too), conditions and chances (a   *)
(* step may be silent), drum lanes (silent here), velocity, scale; micro-    *)
(* timing, swing and humanise (any offset of Offsets); the song chain        *)
(* (at a bar's end it stays or moves anywhere); which step is next and the  *)
(* lengths of all tracks but the first, which measures the bar; one         *)
(* division; SEQ_TRACK_LOCKS, which a step's locks never exceed. The registry *)
(* does not move between a lock's check and its write (module ParamStore).  *)
(***************************************************************************)
EXTENDS Integers, Sequences, FiniteSets

CONSTANTS
  NumTracks,    \* SEQ_TRACKS
  Patterns,     \* SEQ_PATTERNS
  Notes,
  Gates,        \* gate lengths, in ticks
  MaxOffs,      \* kMaxPendingOffs
  Pids,         \* parameters
  EnginePids,   \* the 0x02xx range: engine parameters, or the graph's
  Values, Default,
  Sheets,       \* what the steps may say, and what is done meanwhile
  None

Tracks == 1 .. NumTracks

ASSUME SizeAssumption == /\ NumTracks \in Nat \ {0}
                         /\ MaxOffs \in Nat \ {0}
                         /\ Gates \subseteq Nat \ {0}
ASSUME LockAssumption == EnginePids \subseteq Pids /\ Default \in Values
(* step_offset() keeps a step after the previous one's nominal tick. How     *)
(* late one may be it leaves open: swing, micro-timing and humanise add up   *)
(* to more than a step.                                                      *)
ASSUME SheetAssumption ==
  \A s \in Sheets : /\ s.ticks \in Nat \ {0}
                    /\ s.lens \subseteq Nat \ {0}
                    /\ s.offsets \subseteq {o \in Int : o >= 1 - s.ticks}
                    /\ s.ratchets \subseteq Nat \ {0}
                    /\ s.notes \subseteq Notes /\ s.locks \subseteq Pids
                    /\ s.most \in Nat
ASSUME NoneAssumption == None \notin Patterns

VARIABLES
  s_running, s_pattern, s_queued, s_pattern_tick,
  song,         \* seq.song
  sheet,        \* the one of Sheets being played, which never changes
  s_trk,        \* per track: base, next, held, last, ratchet in flight
  s_off,        \* the table of note-offs
  lock,         \* locks a track holds, by parameter
  value, generation,   \* the parameter store
  length,       \* of every pattern, the length of its first track
  at,           \* the track the clock task is at in its tick, 0 for none
  sounding,     \* notes on in the voice manager
  \* history
  player,       \* what the players left each parameter at
  fought,       \* parameters turned while locked
  shared,       \* parameters locked by two tracks at once
  dropped,      \* locked ones that kept their value as the registry moved
  switched,     \* the pattern changed at this tick's bar
  fired,        \* and the patterns of the steps each track fired since
  moves

StepTicks == sheet.ticks      \* ticks of a step
Lens      == sheet.lens       \* track lengths, in steps
Offsets   == sheet.offsets    \* where a step may fire, from its nominal tick
Ratchets  == sheet.ratchets   \* hits of a step, 1 for none
Moves     == sheet.moves      \* "knob", "length", "engine", "song"
MaxMoves  == sheet.most       \* bound: how many of them

transport == <<s_running, s_pattern, s_queued, s_pattern_tick>>
store     == <<value, generation>>
past      == <<player, fought, shared, dropped, switched, fired>>
vars      == <<transport, song, sheet, s_trk, s_off, lock, store, length, at, sounding,
               past, moves>>

NoRatchet == [left |-> 0, next |-> 0, every |-> 0, note |-> None]
Fresh == [base |-> 0, next |-> 0, held |-> FALSE, last |-> None, rat |-> NoRatchet]
Free  == [note |-> None, track |-> 0, left |-> 0]
NoLock == [gen |-> 0, base |-> None]

Init ==
  /\ s_running = FALSE /\ s_pattern \in Patterns
  /\ s_queued = None
  /\ s_pattern_tick = 0
  /\ song = FALSE /\ sheet \in Sheets
  /\ s_trk = [t \in Tracks |-> Fresh]
  /\ s_off = [i \in 1 .. MaxOffs |-> Free]
  /\ lock = [t \in Tracks |-> [p \in Pids |-> NoLock]]
  /\ value = [p \in Pids |-> Default] /\ generation = 1
  /\ length \in [Patterns -> Lens]
  /\ at = 0
  /\ sounding = {}
  /\ player = value /\ fought = {} /\ shared = {} /\ dropped = {}
  /\ switched = FALSE /\ fired = [t \in Tracks |-> <<>>]
  /\ moves = 0

-----------------------------------------------------------------------------
(* Notes. *)

Owed(off)        == {off[i].note : i \in {j \in DOMAIN off : off[j] # Free}}
Slots(off, t)    == {i \in DOMAIN off : off[i] # Free /\ off[i].track = t}
Without(off, S)  == [i \in DOMAIN off |-> IF i \in S THEN Free ELSE off[i]]
NotesAt(off, S)  == {off[i].note : i \in S}
Empty(off)       == {i \in DOMAIN off : off[i] = Free}

\* Mutation: a full table forgets the note-off.
UnscheduledLeak(off, note) == {}

(* schedule_off(): a note the table has no room for is released at once. *)
Unscheduled(off, note) == IF Empty(off) = {} THEN {note} ELSE {}

Scheduled(off, t, note, gate) ==
  IF Empty(off) = {} THEN off
  ELSE LET i == CHOOSE j \in Empty(off) : \A k \in Empty(off) : j <= k
       IN [off EXCEPT ![i] = [note |-> note, track |-> t, left |-> gate]]

(* trigger_note(): a slide keeps the track's notes for one tick more, any    *)
(* other note flushes them first.                                            *)
Slides(t, note, slide) == slide /\ s_trk[t].held /\ s_trk[t].last # note

Triggered(t, note, gate, slide) ==
  LET mine == Slots(s_off, t)
      kept == IF Slides(t, note, slide)
              THEN [i \in DOMAIN s_off |->
                      IF i \in mine THEN [s_off[i] EXCEPT !.left = 1] ELSE s_off[i]]
              ELSE Without(s_off, mine)
      on   == (IF Slides(t, note, slide) THEN sounding
               ELSE sounding \ NotesAt(s_off, mine)) \cup {note}
  IN /\ s_off' = Scheduled(kept, t, note, gate)
     /\ sounding' = on \ Unscheduled(kept, note)

-----------------------------------------------------------------------------
(* Parameter locks. *)

\* Mutation: any engine switch ends every lock.
ValidByGen(l, p) == l # NoLock /\ l.gen = generation

(* lock_still_valid(): only the engine's ids change their meaning. *)
Valid(l, p) == l # NoLock /\ (p \in EnginePids => l.gen = generation)

(* apply_locks() for a step that carries the locks S. *)
Captured(t, S) == {p \in DOMAIN S : ~Valid(lock[t][p], p)}

ApplyLocks(t, S) ==
  /\ value' = [p \in Pids |->
                 IF p \in DOMAIN S THEN S[p]
                 ELSE IF Valid(lock[t][p], p) THEN lock[t][p].base ELSE value[p]]
  /\ lock' = [lock EXCEPT ![t] = [p \in Pids |->
                 IF p \in Captured(t, S) THEN [gen |-> generation, base |-> value[p]]
                 ELSE IF p \in DOMAIN S THEN @[p] ELSE NoLock]]
  /\ shared' = shared \cup {p \in Captured(t, S) :
                              \E u \in Tracks \ {t} : Valid(lock[u][p], p)}

(* release_locks() for every track in turn: the last one writes last. *)
Holders(p) == {t \in Tracks : Valid(lock[t][p], p)}

ReleaseLocks ==
  /\ value' = [p \in Pids |->
                 IF Holders(p) = {} THEN value[p]
                 ELSE lock[CHOOSE t \in Holders(p) : \A u \in Holders(p) : u <= t][p].base]
  /\ lock' = [t \in Tracks |-> [p \in Pids |-> NoLock]]

-----------------------------------------------------------------------------
(* Patterns and the transport, all on the clock task. *)

\* Mutation: the next step keeps its tick.
RewoundLate(trk) == [trk EXCEPT !.base = 0, !.held = FALSE, !.rat = NoRatchet]

(* reset_track() with and without rewinding. *)
Rewound(trk) == [trk EXCEPT !.base = 0, !.next = 0, !.held = FALSE, !.rat = NoRatchet]
Resumed(trk) == [trk EXCEPT !.held = FALSE, !.rat = NoRatchet]

(* switch_pattern(), over the tracks as this tick has left them. *)
SwitchPattern(p, trk) ==
  IF p = s_pattern
  THEN /\ s_trk' = trk
       /\ UNCHANGED <<s_pattern, value, lock>>
  ELSE /\ s_pattern' = p
       /\ s_trk' = [t \in Tracks |-> Rewound(trk[t])]
       /\ ReleaseLocks

(* seq_play_start(), from a stop: a rewind puts the song at its head. *)
Start(rewind) ==
  /\ ~s_running /\ at = 0
  /\ s_running' = TRUE
  /\ IF rewind
       THEN \E p \in IF song THEN Patterns ELSE {s_pattern} :
              /\ s_pattern' = p
              /\ s_pattern_tick' = 0
              /\ s_trk' = [t \in Tracks |-> Rewound(s_trk[t])]
       ELSE /\ s_trk' = [t \in Tracks |-> Resumed(s_trk[t])]
            /\ UNCHANGED <<s_pattern, s_pattern_tick>>
  /\ UNCHANGED <<sheet, s_queued, song, s_off, lock, store, length, at, sounding,
                 player, fought, shared, dropped, switched, fired, moves>>

(* seq_play_stop(): every note-off now, every lock released. *)
Stop ==
  /\ s_running /\ at = 0
  /\ s_running' = FALSE
  /\ s_off' = [i \in DOMAIN s_off |-> Free]
  /\ sounding' = sounding \ Owed(s_off)
  /\ s_trk' = [t \in Tracks |-> [s_trk[t] EXCEPT !.rat = NoRatchet]]
  /\ ReleaseLocks
  /\ switched' = FALSE /\ fired' = [t \in Tracks |-> <<>>]
  /\ UNCHANGED <<sheet, s_pattern, s_queued, s_pattern_tick, song, generation, length,
                 at, player, fought, shared, dropped, moves>>

(* seq_play_select_pattern(): at once when stopped, else at the bar's end. *)
Select(p) ==
  /\ at = 0
  /\ IF s_running
       THEN s_queued' = p /\ UNCHANGED <<s_pattern, s_trk, value, lock>>
       ELSE s_queued' = None /\ SwitchPattern(p, s_trk)
  /\ UNCHANGED <<sheet, s_running, s_pattern_tick, song, s_off, generation, length, at,
                 sounding, player, fought, shared, dropped, switched, fired, moves>>

-----------------------------------------------------------------------------
(* seq_play_tick(). *)

Span(p) == length[p] * StepTicks

BarOver == s_pattern_tick + 1 >= Span(s_pattern)

(* One tick nearer to everything; ticks are counted from now. *)
Nearer(trk) == [trk EXCEPT !.base = @ - 1, !.next = @ - 1,
                  !.rat = IF trk.rat.left = 0 THEN @
                          ELSE [trk.rat EXCEPT !.next = trk.rat.next - 1]]

DueSlots == {i \in DOMAIN s_off : s_off[i] # Free /\ s_off[i].left <= 1}

(* tick_offs() also takes a track whose note ends for holding none. *)
Ticked == [t \in Tracks |->
             [Nearer(s_trk[t]) EXCEPT
                !.held = @ /\ \A i \in DueSlots : s_off[i].track # t]]

(* pattern_boundary(): the song chain moves on, or a queued pattern lands. *)
Boundary ==
  \/ /\ song
     /\ \E p \in Patterns : SwitchPattern(p, Ticked)
     /\ UNCHANGED s_queued
  \/ /\ s_queued # None
     /\ SwitchPattern(s_queued, Ticked)
     /\ s_queued' = None
  \/ /\ s_queued = None
     /\ SwitchPattern(s_pattern, Ticked)
     /\ UNCHANGED s_queued

(* Note-offs, and the bar before this tick's steps. *)
TickStart ==
  /\ at = 0 /\ s_running
  /\ at' = 1
  /\ sounding' = sounding \ NotesAt(s_off, DueSlots)
  /\ s_off' = [i \in DOMAIN s_off |->
                 IF s_off[i] = Free \/ i \in DueSlots THEN Free
                 ELSE [s_off[i] EXCEPT !.left = @ - 1]]
  /\ IF BarOver
       THEN s_pattern_tick' = 0 /\ Boundary
       ELSE /\ s_pattern_tick' = s_pattern_tick + 1
            /\ s_trk' = Ticked
            /\ UNCHANGED <<s_pattern, s_queued, value, lock>>
  /\ switched' = (s_pattern' # s_pattern)
  /\ fired' = [t \in Tracks |-> <<>>]
  /\ UNCHANGED <<sheet, s_running, song, generation, length, player, fought, shared,
                 dropped, moves>>

(* A step's locks: any values for any of the sheet's parameters. *)
Carried == UNION {[S -> Values] : S \in SUBSET sheet.locks}

(* The track's next step, a division on, shifted by its own offset. *)
Moved(trk, off) == [trk EXCEPT !.base = @ + StepTicks,
                      !.next = trk.base + StepTicks + off]

(* A hit a ratchet owes comes before the track's steps. *)
Owing == at > 0 /\ s_trk[at].rat.left > 0 /\ s_trk[at].rat.next <= 0
Due   == at > 0 /\ ~Owing /\ s_trk[at].next <= 0

(* tick_ratchets(): one hit, on the note of the step in flight. *)
Ratchet ==
  LET rat == s_trk[at].rat
  IN /\ Owing
     /\ Triggered(at, rat.note, IF rat.every > 1 THEN rat.every - 1 ELSE 1, FALSE)
     /\ s_trk' = [s_trk EXCEPT ![at] = [@ EXCEPT
                     !.last = rat.note, !.held = TRUE,
                     !.rat = IF rat.left = 1 THEN NoRatchet
                             ELSE [rat EXCEPT !.left = rat.left - 1,
                                              !.next = rat.next + rat.every]]]
     /\ UNCHANGED <<sheet, transport, song, lock, store, length, at, past, moves>>

FiredNow == fired' = IF switched THEN [fired EXCEPT ![at] = Append(@, s_pattern)]
                     ELSE fired

(* fire_step() for a step that stays silent: its locks apply all the same, *)
FireSilent ==
  /\ Due
  /\ \E S \in Carried : ApplyLocks(at, S)
  /\ \E off \in Offsets :
       s_trk' = [s_trk EXCEPT ![at] = Moved([@ EXCEPT !.rat = NoRatchet], off)]
  /\ FiredNow
  /\ UNCHANGED <<sheet, transport, song, s_off, generation, length, at, sounding,
                 player, fought, dropped, switched, moves>>

(* and for one that plays, perhaps starting a ratchet of its own. *)
FirePlay ==
  /\ Due
  /\ \E S \in Carried : ApplyLocks(at, S)
  /\ \E note \in sheet.notes, gate \in Gates, slide \in BOOLEAN, hits \in Ratchets,
        off \in Offsets :
       LET every == IF StepTicks \div hits < 1 THEN 1 ELSE StepTicks \div hits
           rat   == IF hits = 1 THEN NoRatchet
                    ELSE [left |-> hits - 1, next |-> every, every |-> every, note |-> note]
       IN /\ Triggered(at, note, gate, slide)
          /\ s_trk' = [s_trk EXCEPT ![at] =
                         Moved([@ EXCEPT !.rat = rat, !.last = note, !.held = TRUE], off)]
  /\ FiredNow
  /\ UNCHANGED <<sheet, transport, song, generation, length, at, player, fought,
                 dropped, switched, moves>>

NextTrack ==
  /\ at > 0 /\ ~Owing /\ ~Due
  /\ at' = IF at = NumTracks THEN 0 ELSE at + 1
  /\ UNCHANGED <<sheet, transport, song, s_trk, s_off, lock, store, length, sounding,
                 past, moves>>

-----------------------------------------------------------------------------
(* Other tasks. *)

(* A knob, whether or not a lock has the parameter. *)
Knob(p, v) ==
  /\ "knob" \in Moves /\ moves < MaxMoves /\ moves' = moves + 1
  /\ v # value[p]
  /\ value' = [value EXCEPT ![p] = v]
  /\ player' = [player EXCEPT ![p] = v]
  /\ fought' = IF Holders(p) # {} THEN fought \cup {p} ELSE fought
  /\ dropped' = IF Holders(p) # {} THEN dropped ELSE dropped \ {p}
  /\ UNCHANGED <<sheet, transport, song, s_trk, s_off, lock, generation, length, at,
                 sounding, shared, switched, fired>>

(* The length of a first track: seq.steps, the app, a loaded sequence. *)
SetLength(p, len) ==
  /\ "length" \in Moves /\ moves < MaxMoves /\ moves' = moves + 1
  /\ length[p] # len
  /\ length' = [length EXCEPT ![p] = len]
  /\ UNCHANGED <<sheet, transport, song, s_trk, s_off, lock, store, at, sounding,
                 player, fought, shared, dropped, switched, fired>>

(* The parameters S are registered anew, which moves the generation of the  *)
(* whole store: all of the engine's at a switch, at an edit of the graph     *)
(* those of the nodes whose kind changed, and none of these at a             *)
(* registration elsewhere. What is not in S keeps its value.                 *)
Reregister(S) ==
  /\ "engine" \in Moves /\ moves < MaxMoves /\ moves' = moves + 1
  /\ generation' = generation + 1
  /\ value' = [p \in Pids |-> IF p \in S THEN Default ELSE value[p]]
  /\ player' = [p \in Pids |-> IF p \in S THEN Default ELSE player[p]]
  /\ dropped' = (dropped \cup {p \in EnginePids : Holders(p) # {}}) \ S
  /\ UNCHANGED <<sheet, transport, song, s_trk, s_off, lock, length, at, sounding,
                 fought, shared, switched, fired>>

SetSong ==
  /\ "song" \in Moves /\ moves < MaxMoves /\ moves' = moves + 1
  /\ song' = ~song
  /\ UNCHANGED <<sheet, transport, s_trk, s_off, lock, store, length, at, sounding, past>>

-----------------------------------------------------------------------------
Next == \/ \E rewind \in BOOLEAN : Start(rewind)
        \/ Stop
        \/ \E p \in Patterns : Select(p)
        \/ TickStart \/ Ratchet \/ FireSilent \/ FirePlay \/ NextTrack
        \/ \E p \in sheet.locks, v \in Values : Knob(p, v)
        \/ \E p \in Patterns, len \in Lens : SetLength(p, len)
        \/ \E S \in SUBSET EnginePids : Reregister(S)
        \/ SetSong

Spec == Init /\ [][Next]_vars

-----------------------------------------------------------------------------
Off == [note : Notes, track : Tracks, left : Nat \ {0}]

(* Every variable has its type; the bar's tick is within the longest bar.    *)
TypeOK ==
  /\ s_running \in BOOLEAN /\ song \in BOOLEAN /\ sheet \in Sheets
  /\ s_pattern \in Patterns /\ s_queued \in Patterns \cup {None}
  /\ \E len \in Lens : s_pattern_tick \in 0 .. len * StepTicks - 1
  /\ \A t \in Tracks :
       /\ s_trk[t].next \in Int /\ s_trk[t].base \in Int
       /\ s_trk[t].held \in BOOLEAN
       /\ s_trk[t].last \in Notes \cup {None}
       /\ s_trk[t].rat = NoRatchet \/
          (s_trk[t].rat.left \in Nat \ {0} /\ s_trk[t].rat.note \in Notes)
  /\ s_off \in [1 .. MaxOffs -> Off \cup {Free}]
  /\ lock \in [Tracks -> [Pids -> [gen : 1 .. generation, base : Values] \cup {NoLock}]]
  /\ value \in [Pids -> Values] /\ generation \in Nat \ {0}
  /\ length \in [Patterns -> Lens]
  /\ at \in 0 .. NumTracks
  /\ sounding \subseteq Notes
  /\ player \in [Pids -> Values]
  /\ fought \subseteq Pids /\ shared \subseteq Pids /\ dropped \subseteq Pids
  /\ switched \in BOOLEAN
  /\ fired \in [Tracks -> Seq(Patterns)]
  /\ moves \in 0 .. MaxMoves

(* "A stuck note is the one failure mode a sequencer must never have":       *)
(* whatever steps, ratchets and slides follow one another, whichever tracks  *)
(* play the same note, however full the table is and whenever the pattern    *)
(* changes, a note that sounds is owed a note-off; and none sounds stopped.  *)
NoHungNote == /\ TypeOK
              /\ sounding \subseteq Owed(s_off)
              /\ ~s_running => sounding = {}

(* A parameter no step locks is where the players left it, across steps,     *)
(* pattern changes, stops and engine switches. Not kept for a parameter      *)
(* somebody turned while it was locked, or two tracks locked together, or    *)
(* that was locked and kept its value while the registry moved, until it is  *)
(* turned or registered anew (README, "What the code does not keep").        *)
LocksRestored == \A p \in Pids \ (fought \cup shared \cup dropped) :
                   Holders(p) = {} => value[p] = player[p]

(* The tick a bar ends on belongs to the pattern it brings in: on that tick  *)
(* every track fires one step of the new pattern and none of the old one.    *)
BarStartsTogether ==
  at = 0 /\ switched => \A t \in Tracks : fired[t] = <<s_pattern>>

=============================================================================
