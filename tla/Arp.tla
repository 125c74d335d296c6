---------------------------------- MODULE Arp ----------------------------------
(***************************************************************************)
(* The arpeggiator of components/seqarp/seqarp.cpp: the note tap that takes *)
(* keys from the router, the map of note-ons it took, the latch, and the    *)
(* clock task that plays the list and owes every note a note-off.           *)
(*                                                                         *)
(* Keys come from several input tasks. note_tap() reads the parameters      *)
(* before it takes the lock, and the router plays what the tap let past     *)
(* after the lock is released, so these are steps of their own. The clock   *)
(* task polls the parameters for edges at most every 20 ms; arp.mode and    *)
(* arp.hold move at any time from any task.                                 *)
(*                                                                         *)
(* Abstracted: the order of the list, since any note of it may be played     *)
(* next, in any octave; velocities, chord mode (module Chord), the recorder,  *)
(* the gate (any of GateTicks at each step), the division (one for a run)     *)
(* and a MIDI start, which fires a step off the grid. The clock's source is   *)
(* any number of ticks per wake.                                             *)
(***************************************************************************)
EXTENDS Naturals, Sequences, FiniteSets

CONSTANTS
  Players,      \* input tasks that deliver keys: USB, serial, BLE
  Keys,         \* note numbers the players press
  TopNote,      \* 127
  Octave,       \* 12
  Octaves,      \* arp.octaves
  MaxHeld,      \* kMaxHeld
  MaxPending,   \* kMaxPending
  ArpTicks,     \* ticks of the arp's division
  GateTicks,    \* gate lengths in ticks
  MaxBurst,     \* kMaxBurst
  Knobs,        \* which of "mode" and "hold" somebody turns
  MaxPresses,   \* bound: keys pressed
  MaxTurns      \* bound: parameter writes

ASSUME ListAssumption == /\ Octave \in Nat \ {0}
                         /\ Octaves \in Nat \ {0}
                         /\ MaxHeld \in Nat \ {0}
                         /\ MaxPending \in Nat \ {0}
                         /\ MaxBurst \in Nat \ {0}
                         /\ MaxPresses \in Nat /\ MaxTurns \in Nat
ASSUME KeyAssumption == TopNote \in Nat /\ Keys \subseteq 0 .. TopNote
(* cur_gate_ticks() keeps a gate within its step. *)
ASSUME GateAssumption == ArpTicks \in Nat \ {0} /\ GateTicks \subseteq 1 .. ArpTicks

Midi == 0 .. TopNote

VARIABLES
  arp_mode, arp_hold,   \* the parameters; a mode is on or off
  s_held, s_down,       \* the notes of the list, and those whose key is down
  s_owned,              \* notes whose note-on was taken
  s_arp_mode_prev, s_arp_hold_prev,
  kick,                 \* kFlagKick in s_flags
  s_pend,               \* note-offs owed, with the ticks left
  s_arp_tick_in_step,
  clk,                  \* where the clock task is
  seen,                 \* mode and hold as poll_edges() read them
  kicked, burst,        \* kick flag and ticks this wake took
  tone,                 \* the note arp_step() is about to play
  hand,                 \* where each player's call is
  keys,                 \* keys down
  voices,             \* notes on in the voice manager
  \* history
  direct,               \* <<player, key>> down and played past the arp
  swallowed,            \* notes on whose note-off was taken for the list
  presses, turns

knobs  == <<arp_mode, arp_hold>>
list   == <<s_held, s_down, s_owned>>
edges  == <<s_arp_mode_prev, s_arp_hold_prev>>
owed   == <<s_pend, s_arp_tick_in_step>>
task   == <<clk, seen, kicked, burst, tone>>
memory == <<direct, swallowed>>
bounds == <<presses, turns>>
arpVars == <<knobs, list, edges, kick, owed, task, hand, keys, voices, memory,
             bounds>>

Idle == [at |-> "idle"]

ArpInit ==
  /\ arp_mode = FALSE /\ arp_hold = FALSE
  /\ s_held = {} /\ s_down = {} /\ s_owned = {}
  /\ s_arp_mode_prev = FALSE /\ s_arp_hold_prev = FALSE
  /\ kick = FALSE
  /\ s_pend = <<>> /\ s_arp_tick_in_step = 0
  /\ clk = "wait" /\ seen = [mode |-> FALSE, hold |-> FALSE]
  /\ kicked = FALSE /\ burst = 0 /\ tone = 0
  /\ hand = [p \in Players |-> Idle]
  /\ keys = [p \in Players |-> {}]
  /\ voices = {}
  /\ direct = {} /\ swallowed = {}
  /\ presses = 0 /\ turns = 0

-----------------------------------------------------------------------------
(* The parameters, written by any task. *)

TurnMode ==
  /\ "mode" \in Knobs /\ turns < MaxTurns
  /\ turns' = turns + 1
  /\ arp_mode' = ~arp_mode
  /\ UNCHANGED <<arp_hold, list, edges, kick, owed, task, hand, keys, voices,
                 memory, presses>>

TurnHold ==
  /\ "hold" \in Knobs /\ turns < MaxTurns
  /\ turns' = turns + 1
  /\ arp_hold' = ~arp_hold
  /\ UNCHANGED <<arp_mode, list, edges, kick, owed, task, hand, keys, voices,
                 memory, presses>>

-----------------------------------------------------------------------------
(* note_tap(), and what the router does with its answer. *)

(* A note that ends is off, whoever left it on. *)
Silenced(S) == voices' = voices \ S /\ swallowed' = swallowed \ S

(* A key goes down; the tap reads the parameters without the lock. *)
Press(p, n) ==
  /\ hand[p] = Idle
  /\ n \notin keys[p]
  /\ presses < MaxPresses
  /\ presses' = presses + 1
  /\ keys' = [keys EXCEPT ![p] = @ \cup {n}]
  /\ hand' = [hand EXCEPT ![p] = [at |-> "tap_on", note |-> n,
                                   arp |-> arp_mode, hold |-> arp_hold]]
  /\ UNCHANGED <<knobs, list, edges, kick, owed, task, voices, memory, turns>>

(* Under the lock: with the latch on and every key up, a new key starts the  *)
(* list afresh.                                                              *)
Afresh(h) == h.hold /\ s_held # {} /\ s_down = {}

HeldFor(h)  == IF Afresh(h) THEN {} ELSE s_held
OwnedFor(h) == IF Afresh(h) THEN s_owned \ s_held ELSE s_owned

Room(h) == h.note \in HeldFor(h) \/ Cardinality(HeldFor(h)) < MaxHeld

(* The arp takes the key, which the list may name already. *)
TapOnTaken(p) ==
  LET h == hand[p]
  IN /\ h.at = "tap_on" /\ h.arp /\ Room(h)
     /\ s_held' = HeldFor(h) \cup {h.note}
     /\ s_down' = s_down \cup {h.note}
     /\ s_owned' = OwnedFor(h) \cup {h.note}
     /\ hand' = [hand EXCEPT ![p] = IF HeldFor(h) = {} THEN [at |-> "kick"] ELSE Idle]
     /\ UNCHANGED <<knobs, edges, kick, owed, task, keys, voices, memory, bounds>>

(* The arp is off or its list is full: the key plays as if there were none. *)
TapOnPast(p) ==
  LET h == hand[p]
  IN /\ h.at = "tap_on" /\ ~(h.arp /\ Room(h))
     /\ IF h.arp
          THEN s_held' = HeldFor(h) /\ s_owned' = OwnedFor(h)
          ELSE UNCHANGED <<s_held, s_owned>>
     /\ hand' = [hand EXCEPT ![p] = [at |-> "play_on", note |-> h.note]]
     /\ direct' = direct \cup {<<p, h.note>>}
     /\ UNCHANGED <<knobs, s_down, edges, kick, owed, task, keys, voices, swallowed,
                    bounds>>

(* The first key of a list wakes the clock task. *)
Kick(p) ==
  /\ hand[p].at = "kick"
  /\ kick' = TRUE
  /\ hand' = [hand EXCEPT ![p] = Idle]
  /\ UNCHANGED <<knobs, list, edges, owed, task, keys, voices, memory, bounds>>

PlayOn(p) ==
  /\ hand[p].at = "play_on"
  /\ voices' = voices \cup {hand[p].note}
  /\ hand' = [hand EXCEPT ![p] = Idle]
  /\ UNCHANGED <<knobs, list, edges, kick, owed, task, keys, memory, bounds>>

(* A key comes up; whether it is latched is read without the lock. *)
Release(p, n) ==
  /\ hand[p] = Idle
  /\ n \in keys[p]
  /\ keys' = [keys EXCEPT ![p] = @ \ {n}]
  /\ hand' = [hand EXCEPT ![p] = [at |-> "tap_off", note |-> n,
                                   latch |-> arp_hold /\ arp_mode]]
  /\ UNCHANGED <<knobs, list, edges, kick, owed, task, voices, memory, bounds>>

(* A note-off is taken for a note the arp owns, whichever key it is of. A     *)
(* latched note stays in the list and owned.                                 *)
TapOffTaken(p) ==
  LET h == hand[p]
  IN /\ h.at = "tap_off" /\ h.note \in s_owned
     /\ s_down' = s_down \ {h.note}
     /\ IF h.latch /\ h.note \in s_held
          THEN UNCHANGED <<s_held, s_owned>>
          ELSE s_held' = s_held \ {h.note} /\ s_owned' = s_owned \ {h.note}
     /\ hand' = [hand EXCEPT ![p] = Idle]
     /\ direct' = direct \ {<<p, h.note>>}
     /\ swallowed' = IF <<p, h.note>> \in direct
                     THEN swallowed \cup ({h.note} \cap voices) ELSE swallowed
     /\ UNCHANGED <<knobs, edges, kick, owed, task, keys, voices, bounds>>

TapOffPast(p) ==
  /\ hand[p].at = "tap_off" /\ hand[p].note \notin s_owned
  /\ hand' = [hand EXCEPT ![p] = [at |-> "play_off", note |-> @.note]]
  /\ direct' = direct \ {<<p, hand[p].note>>}
  /\ UNCHANGED <<knobs, list, edges, kick, owed, task, keys, voices, swallowed,
                 bounds>>

PlayOff(p) ==
  /\ hand[p].at = "play_off"
  /\ Silenced({hand[p].note})
  /\ hand' = [hand EXCEPT ![p] = Idle]
  /\ UNCHANGED <<knobs, list, edges, kick, owed, task, keys, direct, bounds>>

-----------------------------------------------------------------------------
(* The clock task, seq_clk. *)

Ended(pend) == {pend[i].note : i \in 1 .. Len(pend)}

(* A wake takes the flags; it polls when there was one, *)
WakePoll ==
  /\ clk = "wait"
  /\ clk' = "poll"
  /\ kicked' = kick
  /\ kick' = FALSE
  /\ UNCHANGED <<knobs, list, edges, owed, seen, burst, tone, hand, keys,
                 voices, memory, bounds>>

(* or 20 ms after the last poll, and otherwise goes on. *)
WakeQuick ==
  /\ clk = "wait" /\ ~kick
  /\ clk' = "serve"
  /\ UNCHANGED <<knobs, list, edges, kick, owed, seen, kicked, burst, tone,
                 hand, keys, voices, memory, bounds>>

(* poll_edges() reads the parameters, *)
PollRead ==
  /\ clk = "poll"
  /\ clk' = "edges"
  /\ seen' = [mode |-> arp_mode, hold |-> arp_hold]
  /\ UNCHANGED <<knobs, list, edges, kick, owed, kicked, burst, tone, hand, keys,
                 voices, memory, bounds>>

ArpWentOff  == s_arp_mode_prev /\ ~seen.mode
HoldWentOff == s_arp_hold_prev /\ ~seen.hold

(* The list and the map after the edges: latched notes' offs have passed, so *)
(* they are settled now; keys still down stay owned.                         *)
HeldAfter == IF ArpWentOff THEN {} ELSE IF HoldWentOff THEN s_down ELSE s_held
DownAfter == IF ArpWentOff THEN {} ELSE s_down

\* Mutation: latched notes stay owned when the latch or the arp goes off.
LatchedStay == {}

Latched == s_held \ s_down

OwnedAfter == IF ArpWentOff \/ HoldWentOff THEN s_owned \ Latched ELSE s_owned

(* and under the lock applies the edges, then flushes the note-offs. *)
PollEdges ==
  /\ clk = "edges"
  /\ clk' = "serve"
  /\ s_held' = HeldAfter
  /\ s_down' = DownAfter
  /\ s_owned' = OwnedAfter
  /\ s_arp_mode_prev' = seen.mode
  /\ s_arp_hold_prev' = seen.hold
  /\ IF ArpWentOff
       THEN s_pend' = <<>> /\ Silenced(Ended(s_pend))
       ELSE UNCHANGED <<s_pend, voices, swallowed>>
  /\ UNCHANGED <<knobs, kick, s_arp_tick_in_step, seen, kicked, burst, tone,
                 hand, keys, direct, bounds>>

(* The watchdog: a dead external clock flushes what it would have ended. *)
Stall ==
  /\ clk = "serve"
  /\ s_pend # <<>>
  /\ s_pend' = <<>>
  /\ Silenced(Ended(s_pend))
  /\ UNCHANGED <<knobs, list, edges, kick, s_arp_tick_in_step, task, hand, keys,
                 direct, bounds>>

(* The first key plays at once unless the sequencer runs. *)
KickStep ==
  /\ clk = "serve" /\ kicked
  /\ arp_mode
  /\ clk' = "step"
  /\ s_arp_tick_in_step' = 0
  /\ UNCHANGED <<knobs, list, edges, kick, s_pend, seen, kicked, burst, tone,
                 hand, keys, voices, memory, bounds>>

TakeTicks ==
  /\ clk = "serve"
  /\ clk' = "ticks"
  /\ kicked' = FALSE
  /\ burst' \in 0 .. MaxBurst
  /\ UNCHANGED <<knobs, list, edges, kick, owed, seen, tone, hand, keys,
                 voices, memory, bounds>>

Ending  == {i \in 1 .. Len(s_pend) : s_pend[i].ticks <= 1}
Lasting == (1 .. Len(s_pend)) \ Ending

(* The places of the table that are kept, in their order. *)
InOrder(S) ==
  {f \in UNION {[1 .. n -> S] : n \in 0 .. MaxPending} :
     /\ \A i, j \in DOMAIN f : i < j => f[i] < f[j]
     /\ \A i \in S : \E j \in DOMAIN f : f[j] = i}

(* process_tick(): note-offs first, then perhaps a step. *)
Tick ==
  /\ clk = "ticks" /\ burst > 0
  /\ burst' = burst - 1
  /\ Silenced({s_pend[i].note : i \in Ending})
  /\ \E f \in InOrder(Lasting) :
       s_pend' = [i \in DOMAIN f |-> [note  |-> s_pend[f[i]].note,
                                      ticks |-> s_pend[f[i]].ticks - 1]]
  /\ IF s_arp_tick_in_step + 1 >= ArpTicks
       THEN /\ s_arp_tick_in_step' = 0
            /\ clk' = IF arp_mode THEN "step" ELSE "ticks"
       ELSE /\ s_arp_tick_in_step' = s_arp_tick_in_step + 1
            /\ UNCHANGED clk
  /\ UNCHANGED <<knobs, list, edges, kick, seen, kicked, tone, hand, keys, direct,
                 bounds>>

Sleep ==
  /\ clk = "ticks" /\ burst = 0
  /\ clk' = "wait"
  /\ UNCHANGED <<knobs, list, edges, kick, owed, seen, kicked, burst, tone, hand,
                 keys, voices, memory, bounds>>

StepDone == /\ clk' = IF kicked THEN "serve" ELSE "ticks"
            /\ kicked' = FALSE

(* A note and its octaves, taken down by octaves until under the top note. *)
Spread(n) ==
  {m \in Midi : \E o \in 0 .. Octaves - 1 : \E i \in 0 .. o :
     /\ m = n + Octave * (o - i)
     /\ i = 0 \/ m + Octave > TopNote}

(* arp_step() copies the list under the lock and picks its next note, *)
StepRead ==
  /\ clk = "step"
  /\ IF s_held = {}
       THEN StepDone /\ UNCHANGED tone
       ELSE /\ \E n \in s_held : tone' \in Spread(n)
            /\ clk' = "emit"
            /\ UNCHANGED kicked
  /\ UNCHANGED <<knobs, list, edges, kick, owed, seen, burst, hand, keys,
                 voices, memory, bounds>>

\* Mutation: a full table forgets its oldest note-off.
EvictedNone == {}

(* pend_push(): a full table releases its oldest note now. *)
Evicted == IF Len(s_pend) = MaxPending THEN {s_pend[1].note} ELSE {}

(* and plays it, owing its note-off. *)
StepPlay ==
  /\ clk = "emit"
  /\ voices' = (voices \cup {tone}) \ Evicted
  /\ swallowed' = swallowed \ Evicted
  /\ \E g \in GateTicks :
       s_pend' = Append(IF Len(s_pend) = MaxPending THEN Tail(s_pend) ELSE s_pend,
                        [note |-> tone, ticks |-> g])
  /\ StepDone
  /\ UNCHANGED <<knobs, list, edges, kick, s_arp_tick_in_step, seen, burst, tone,
                 hand, keys, direct, bounds>>

-----------------------------------------------------------------------------
Player(p) == \/ \E n \in Keys : Press(p, n) \/ Release(p, n)
             \/ TapOnTaken(p) \/ TapOnPast(p) \/ Kick(p) \/ PlayOn(p)
             \/ TapOffTaken(p) \/ TapOffPast(p) \/ PlayOff(p)

Clock == \/ WakePoll \/ WakeQuick \/ PollRead \/ PollEdges
         \/ Stall \/ KickStep \/ TakeTicks \/ Tick \/ Sleep
         \/ StepRead \/ StepPlay

ArpNext == TurnMode \/ TurnHold \/ (\E p \in Players : Player(p)) \/ Clock

ArpSpec == ArpInit /\ [][ArpNext]_arpVars

-----------------------------------------------------------------------------
Call == {Idle, [at |-> "kick"]}
          \cup [at : {"tap_on"}, note : Keys, arp : BOOLEAN, hold : BOOLEAN]
          \cup [at : {"tap_off"}, note : Keys, latch : BOOLEAN]
          \cup [at : {"play_on", "play_off"}, note : Keys]

(* Every variable has its type, the list never outgrows its array, the table *)
(* of note-offs never its own.                                               *)
ArpTypeOK ==
  /\ arp_mode \in BOOLEAN /\ arp_hold \in BOOLEAN
  /\ s_held \subseteq Keys /\ Cardinality(s_held) <= MaxHeld
  /\ s_down \subseteq s_held
  /\ s_owned \subseteq Keys
  /\ s_arp_mode_prev \in BOOLEAN /\ s_arp_hold_prev \in BOOLEAN
  /\ kick \in BOOLEAN
  /\ s_pend \in Seq([note : Midi, ticks : 1 .. ArpTicks])
  /\ Len(s_pend) <= MaxPending
  /\ s_arp_tick_in_step \in 0 .. ArpTicks
  /\ clk \in {"wait", "poll", "edges", "serve", "ticks", "step", "emit"}
  /\ seen \in [mode : BOOLEAN, hold : BOOLEAN]
  /\ kicked \in BOOLEAN /\ burst \in 0 .. MaxBurst /\ tone \in Midi
  /\ hand \in [Players -> Call]
  /\ keys \in [Players -> SUBSET Keys]
  /\ voices \subseteq Midi
  /\ direct \subseteq Players \X Keys /\ swallowed \subseteq voices
  /\ presses \in 0 .. MaxPresses /\ turns \in 0 .. MaxTurns

(* Somebody still has a hand on n, or is telling the router about it. *)
Attended(n) == \E p \in Players : \/ n \in keys[p]
                                  \/ hand[p].at \notin {"idle", "kick"} /\ hand[p].note = n

(* However keys, knobs and steps interleave, a note sounds only while its    *)
(* key is down or the clock task owes its note-off: "toggling the arp        *)
(* mid-hold can never hang a voice". NoVoiceHangs excepts no note;           *)
(* NoHungVoice excepts those whose note-on was played past the arp and whose *)
(* note-off was taken for a note of the same number in its list.             *)
Accounted(n) == Attended(n) \/ n \in Ended(s_pend)
NoVoiceHangs == \A n \in voices : Accounted(n)
NoHungVoice  == ArpTypeOK /\ \A n \in voices \ swallowed : Accounted(n)

(* The map never claims the note-off of a key that will be played past the   *)
(* arp: a note it owns is in the list, or its key is still down since the    *)
(* arp went off. A stale claim would swallow the note-off of a later note.   *)
OwnedIsDown == \A n \in s_owned : n \in s_held \/ Attended(n)

=============================================================================
