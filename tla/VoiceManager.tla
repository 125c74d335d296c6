---------------------------- MODULE VoiceManager ----------------------------
(***************************************************************************)
(* The voice manager of components/synth_core/synth_voice.cpp: the ring of *)
(* note events from the control tasks to the audio task, the drain at the  *)
(* head of every block, voice allocation with retrigger, unison and        *)
(* stealing, the sustain pedal, and what happens to events while no engine *)
(* is bound.                                                               *)
(*                                                                         *)
(* Producers push under a critical section, so a push is one step whoever  *)
(* makes it. The audio task takes no lock: its drain is one step per       *)
(* event, between loading the head and storing the tail. The switch task's *)
(* detach and bind are here only as far as they touch the voices;          *)
(* EngineSwitch models the protocol that makes them safe.                  *)
(*                                                                         *)
(* Abstracted: the block's note slot for the effects, velocity, glide,     *)
(* bend, detune and pan; a voice's level (the quietest of the releasing    *)
(* voices may be any of them) and when a voice stops being busy (any time). *)
(***************************************************************************)
EXTENDS Naturals, Sequences, FiniteSets, SequencesExt

CONSTANTS
  Notes,        \* note numbers
  NumVoices,    \* SYNTH_VOICES
  MaxUnison,    \* kMaxUnison
  QueueLen,     \* kQueueLen, slots of the ring
  CounterMod,   \* head and tail count modulo this (2^32 in the code)
  HoldBlocks,   \* kUnboundHoldBlocks
  EventTypes,   \* the kinds of event pushed
  MaxEvents,    \* bound: events pushed
  MaxSwitches   \* engine switches that begin without a rendered block between them

AllTypes == {"NoteOn", "NoteOff", "AllNotesOff", "AllSoundOff",
             "SustainOn", "SustainOff"}

ASSUME SizeAssumption == /\ Notes # {}
                         /\ NumVoices \in Nat \ {0}
                         /\ MaxUnison \in Nat \ {0}
                         /\ MaxEvents \in Nat
                         /\ MaxSwitches \in Nat
(* The hold, 750 blocks in the code, outlasts a run of aborted switches with *)
(* no rendered block between them: each of them sees at most two blocks. How *)
(* many switches there are in all is not bounded.                            *)
ASSUME HoldAssumption == HoldBlocks \in Nat /\ HoldBlocks >= 2 * MaxSwitches
ASSUME RingAssumption == /\ QueueLen \in Nat \ {0}
                         /\ CounterMod \in Nat
                         /\ CounterMod > QueueLen
                         /\ CounterMod % QueueLen = 0
ASSUME EventAssumption == EventTypes \subseteq AllTypes

Voices == 1 .. NumVoices
Keyed  == {"NoteOn", "NoteOff"}
Event  == [type : EventTypes \cap Keyed, note : Notes]
            \cup [type : EventTypes \ Keyed]

VARIABLES
  \* the ring
  s_events, s_evt_head, s_evt_tail, s_evt_dropped,
  \* the pool
  s_voices,      \* active, gate, held and note of every voice
  older,         \* which voice has the lower note-on number (Voice::order)
  s_sustain,
  s_unison,      \* the unison parameter
  \* the binding
  s_engine,      \* "bound", "leaving" (detached, voices kept), "gone"
  passed,        \* render calls finished since the detach, up to 2
  s_unbound_blocks,
  switches,      \* engine switches since a block was last rendered
  \* the audio task
  blk,           \* "idle", "null", "drain", "render"
  cursor, limit, \* the drain's local tail and head
  \* history
  sent,          \* accepted events nobody has consumed yet
  keys, pedal,   \* keys and pedal as their players left them
  pushes

ring    == <<s_events, s_evt_head, s_evt_tail, s_evt_dropped>>
pool    == <<s_voices, older, s_sustain>>
binding == <<s_engine, passed, s_unbound_blocks, switches>>
task    == <<blk, cursor, limit>>
history == <<sent, keys, pedal, pushes>>
voicesVars == <<ring, pool, s_unison, binding, task, history>>

ANote == CHOOSE n \in Notes : TRUE
Fresh == [active |-> FALSE, gate |-> FALSE, held |-> FALSE, note |-> ANote]
Reset == [v \in Voices |-> Fresh]
InOrder == {vs \in Voices \X Voices : vs[1] < vs[2]}

VoicesInit ==
  /\ s_events = [i \in 0 .. QueueLen - 1 |-> [type |-> "none"]]
  /\ s_evt_head = 0 /\ s_evt_tail = 0
  /\ s_evt_dropped = FALSE
  /\ s_voices = Reset
  /\ older = InOrder
  /\ s_sustain = FALSE
  /\ s_unison = 1
  /\ s_engine = "bound" /\ passed = 0
  /\ s_unbound_blocks = 0
  /\ switches = 0
  /\ blk = "idle"
  /\ cursor = 0 /\ limit = 0
  /\ sent = <<>>
  /\ keys = {} /\ pedal = FALSE
  /\ pushes = 0

-----------------------------------------------------------------------------
(* Producers: push_event(). A full ring drops the event. *)

Used(head, tail) == (head + CounterMod - tail) % CounterMod
After(counter)   == (counter + 1) % CounterMod
Slot(counter)    == counter % QueueLen

PlayedKeys(e) == CASE e.type = "NoteOn"  -> keys \cup {e.note}
                   [] e.type = "NoteOff" -> keys \ {e.note}
                   [] e.type \in {"AllNotesOff", "AllSoundOff"} -> {}
                   [] OTHER -> keys

PlayedPedal(e) == CASE e.type = "SustainOn"  -> TRUE
                    [] e.type = "SustainOff" -> FALSE
                    [] OTHER -> pedal

Full == Used(s_evt_head, s_evt_tail) >= QueueLen

Push(e) ==
  /\ pushes < MaxEvents
  /\ pushes' = pushes + 1
  /\ keys' = PlayedKeys(e)
  /\ pedal' = PlayedPedal(e)
  /\ IF Full
       THEN /\ s_evt_dropped' = TRUE
            /\ UNCHANGED <<s_events, s_evt_head, sent>>
       ELSE /\ s_events' = [s_events EXCEPT ![Slot(s_evt_head)] = e]
            /\ s_evt_head' = After(s_evt_head)
            /\ sent' = Append(sent, e)
            /\ UNCHANGED s_evt_dropped
  /\ UNCHANGED <<s_evt_tail, pool, s_unison, binding, task>>

(* Any control task moves common.unison. *)
SetUnison(n) ==
  /\ s_unison # n
  /\ s_unison' = n
  /\ UNCHANGED <<ring, pool, binding, task, history>>

-----------------------------------------------------------------------------
(* The audio task. *)

(* voice_manager_render() loads the engine; with one it starts the drain. *)
BlockBegin ==
  /\ blk = "idle"
  /\ IF s_engine = "bound"
       THEN /\ blk' = "drain"
            /\ s_unbound_blocks' = 0
            /\ switches' = 0
            /\ cursor' = s_evt_tail
            /\ limit' = s_evt_head
       ELSE /\ blk' = "null"
            /\ UNCHANGED <<s_unbound_blocks, switches, cursor, limit>>
  /\ UNCHANGED <<ring, pool, s_unison, s_engine, passed, history>>

(* s_render_seq as the detach sees it, which waits for two boundaries. *)
Boundary == IF passed < 2 THEN passed + 1 ELSE 2

(* No engine: hold the ring for a while, then discard it. *)
NullBlock ==
  /\ blk = "null"
  /\ blk' = "idle"
  /\ passed' = Boundary
  /\ IF s_unbound_blocks < HoldBlocks
       THEN /\ s_unbound_blocks' = s_unbound_blocks + 1
            /\ UNCHANGED <<s_evt_tail, sent>>
       ELSE /\ s_evt_tail' = s_evt_head
            /\ sent' = <<>>
            /\ UNCHANGED s_unbound_blocks
  /\ UNCHANGED <<s_events, s_evt_head, s_evt_dropped, pool, s_unison, s_engine,
                 switches, cursor, limit, keys, pedal, pushes>>

Gated(v) == s_voices[v].active /\ s_voices[v].gate

(* pick_voice(): the first idle voice, else the quietest releasing one, else *)
(* the oldest, among those the note has not taken yet.                       *)
First(V)     == CHOOSE v \in V : \A u \in V : v <= u
Oldest(free) == CHOOSE v \in free : \A u \in free \ {v} : <<v, u>> \in older

Pick(free) ==
  LET idle      == {v \in free : ~s_voices[v].active}
      releasing == {v \in free : s_voices[v].active /\ ~s_voices[v].gate}
  IN IF idle # {} THEN {First(idle)}
     ELSE IF releasing # {} THEN releasing
     ELSE {Oldest(free)}

\* Mutation: steals before it looks for an idle voice.
PickOldest(taken) == {Oldest(Voices \ taken)}

PickFrom(taken) == Pick(Voices \ taken)

(* ev_note_on(): voices still held on this note are struck again in place,   *)
(* in pool order, then voices are picked until the unison stack is full.     *)
StackSize == IF s_unison < NumVoices THEN s_unison ELSE NumVoices

Again(note) == {v \in Voices : Gated(v) /\ s_voices[v].note = note}

Struck(note) ==
  {s \in [1 .. StackSize -> Voices] :
     \A k \in 1 .. StackSize :
       LET taken == {s[j] : j \in 1 .. k - 1}
           left  == Again(note) \ taken
       IN s[k] \in IF left # {} THEN {First(left)} ELSE PickFrom(taken)}

(* The voices of s start in its order, after all others. *)
Aged(s) == {vs \in Voices \X Voices :
              IF vs[2] \in Range(s)
              THEN \/ vs[1] \notin Range(s)
                   \/ \E i, j \in DOMAIN s : i < j /\ s[i] = vs[1] /\ s[j] = vs[2]
              ELSE vs[1] \notin Range(s) /\ vs \in older}

NoteOn(note) ==
  \E s \in Struck(note) :
    /\ s_voices' = [v \in Voices |->
                      IF v \in Range(s)
                      THEN [active |-> TRUE, gate |-> TRUE, held |-> FALSE, note |-> note]
                      ELSE s_voices[v]]
    /\ older' = Aged(s)
    /\ UNCHANGED s_sustain

(* Letting keys go: under the pedal a gated voice is only marked. *)
LetGo(V) ==
  /\ s_voices' = [v \in Voices |->
                    IF v \notin V THEN s_voices[v]
                    ELSE IF s_sustain THEN [s_voices[v] EXCEPT !.held = TRUE]
                    ELSE [s_voices[v] EXCEPT !.gate = FALSE, !.held = FALSE]]
  /\ UNCHANGED <<older, s_sustain>>

AllSoundOff ==
  /\ s_voices' = [v \in Voices |-> [s_voices[v] EXCEPT
                     !.active = FALSE, !.gate = FALSE, !.held = FALSE]]
  /\ UNCHANGED <<older, s_sustain>>

PedalDown == s_sustain' = TRUE /\ UNCHANGED <<s_voices, older>>

\* Mutation: lifts the pedal and lets nothing go.
PedalUpForgets == s_sustain' = FALSE /\ UNCHANGED <<s_voices, older>>

PedalUp ==
  /\ s_sustain' = FALSE
  /\ s_voices' = [v \in Voices |->
                    IF s_voices[v].active /\ s_voices[v].held
                    THEN [s_voices[v] EXCEPT !.gate = FALSE, !.held = FALSE]
                    ELSE s_voices[v]]
  /\ UNCHANGED older

Apply(e) ==
  \/ e.type = "NoteOn" /\ NoteOn(e.note)
  \/ e.type = "NoteOff" /\ LetGo(Again(e.note))
  \/ e.type = "AllNotesOff" /\ LetGo({v \in Voices : Gated(v)})
  \/ e.type = "AllSoundOff" /\ AllSoundOff
  \/ e.type = "SustainOn" /\ PedalDown
  \/ e.type = "SustainOff" /\ PedalUp

(* drain_events(), one event. *)
DrainOne ==
  /\ blk = "drain"
  /\ cursor # limit
  /\ LET e == s_events[Slot(cursor)]
     IN Apply(e)
  /\ cursor' = After(cursor)
  /\ sent' = Tail(sent)
  /\ UNCHANGED <<ring, s_unison, binding, blk, limit, keys, pedal, pushes>>

\* Mutation: discards what arrived during the drain.
DrainEndTooFar ==
  /\ blk = "drain"
  /\ cursor = limit
  /\ s_evt_tail' = s_evt_head
  /\ blk' = "render"
  /\ UNCHANGED <<s_events, s_evt_head, s_evt_dropped, pool, s_unison, binding,
                 cursor, limit, history>>

DrainEnd ==
  /\ blk = "drain"
  /\ cursor = limit
  /\ s_evt_tail' = cursor
  /\ blk' = "render"
  /\ UNCHANGED <<s_events, s_evt_head, s_evt_dropped, pool, s_unison, binding,
                 cursor, limit, history>>

(* The voices have rendered; those the engine is done with go idle. *)
BlockEnd ==
  /\ blk = "render"
  /\ blk' = "idle"
  /\ \E done \in SUBSET {v \in Voices : s_voices[v].active} :
       s_voices' = [v \in Voices |->
                      IF v \in done THEN [s_voices[v] EXCEPT !.active = FALSE]
                      ELSE s_voices[v]]
  /\ passed' = Boundary
  /\ UNCHANGED <<ring, older, s_sustain, s_unison, s_engine, s_unbound_blocks, switches,
                 cursor, limit, history>>

-----------------------------------------------------------------------------
(* The switch task. *)

(* detach: the pointer is withdrawn, *)
Detach ==
  /\ s_engine = "bound"
  /\ switches < MaxSwitches
  /\ switches' = switches + 1
  /\ s_engine' = "leaving"
  /\ passed' = 0
  /\ UNCHANGED <<s_unbound_blocks, ring, pool, s_unison, task, history>>

(* and after two block boundaries the voices are cleared, *)
ClearVoices ==
  /\ s_engine = "leaving"
  /\ passed = 2
  /\ s_engine' = "gone"
  /\ s_voices' = Reset
  /\ older' = InOrder
  /\ UNCHANGED <<s_sustain, s_unbound_blocks, passed, switches, ring, s_unison,
                 task, history>>

(* or, out of time before two boundaries passed, the engine is kept. *)
KeepEngine ==
  /\ s_engine = "leaving"
  /\ passed < 2
  /\ s_engine' = "bound"
  /\ UNCHANGED <<s_unbound_blocks, passed, switches, ring, pool, s_unison, task,
                 history>>

(* set_engine(). *)
SetEngine ==
  /\ s_engine = "gone"
  /\ s_engine' = "bound"
  /\ s_voices' = Reset
  /\ older' = InOrder
  /\ s_sustain' = FALSE
  /\ UNCHANGED <<s_unbound_blocks, passed, switches, ring, s_unison, task, history>>

-----------------------------------------------------------------------------

Audio == BlockBegin \/ NullBlock \/ DrainOne \/ DrainEnd \/ BlockEnd

Control == \/ \E e \in Event : Push(e)
           \/ \E n \in 1 .. MaxUnison : SetUnison(n)
           \/ Detach \/ ClearVoices \/ KeepEngine \/ SetEngine

VoicesNext == Audio \/ Control

VoicesSpec == VoicesInit /\ [][VoicesNext]_voicesVars

-----------------------------------------------------------------------------
(* Properties. *)

VoicesTypeOK ==
  /\ s_events \in [0 .. QueueLen - 1 -> Event \cup {[type |-> "none"]}]
  /\ s_evt_head \in 0 .. CounterMod - 1
  /\ s_evt_tail \in 0 .. CounterMod - 1
  /\ s_evt_dropped \in BOOLEAN
  /\ s_voices \in [Voices -> [active : BOOLEAN, gate : BOOLEAN, held : BOOLEAN,
                              note : Notes]]
  /\ older \subseteq Voices \X Voices
  /\ s_sustain \in BOOLEAN
  /\ s_unison \in 1 .. MaxUnison
  /\ s_engine \in {"bound", "leaving", "gone"}
  /\ passed \in 0 .. 2
  /\ s_unbound_blocks \in 0 .. HoldBlocks
  /\ switches \in 0 .. MaxSwitches
  /\ blk \in {"idle", "null", "drain", "render"}
  /\ cursor \in 0 .. CounterMod - 1
  /\ limit \in 0 .. CounterMod - 1
  /\ sent \in Seq(Event)
  /\ keys \in SUBSET Notes
  /\ pedal \in BOOLEAN
  /\ pushes \in 0 .. MaxEvents

(* What the audio task has still to apply is exactly what was accepted and   *)
(* not applied or discarded yet, in order: no event is applied twice, lost   *)
(* in the wrap of a counter, or overtaken.                                   *)
NextToRead == IF blk = "drain" THEN cursor ELSE s_evt_tail

RingIsQueue ==
  /\ VoicesTypeOK
  /\ Len(sent) = Used(s_evt_head, NextToRead)
  /\ \A i \in 1 .. Len(sent) :
       sent[i] = s_events[Slot((NextToRead + i - 1) % CounterMod)]

(* No stuck note: once everything pushed has been applied, a voice that is   *)
(* still gated belongs to a key that is down, or is one the pedal holds.     *)
(* It holds across engine switches, aborted ones and discarded rings; only a *)
(* full ring, which the code reports, may lose a release.                    *)
NoStuckNote ==
  sent = <<>> /\ ~s_evt_dropped /\ s_engine = "bound" =>
    \A v \in Voices : Gated(v) =>
      \/ s_voices[v].note \in keys
      \/ s_voices[v].held /\ s_sustain /\ pedal

(* Stealing: a note takes a voice another key still gates only when no voice *)
(* is idle or releasing any more.                                            *)
StealsLast ==
  [][\A v \in Voices :
       /\ blk = "drain" /\ Gated(v) /\ s_voices'[v].gate
       /\ s_voices'[v].note # s_voices[v].note
       => \A u \in Voices : s_voices'[u].active /\ s_voices'[u].gate]_voicesVars

=============================================================================
