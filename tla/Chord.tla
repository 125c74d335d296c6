------------------------------- MODULE Chord --------------------------------
(***************************************************************************)
(* Chord mode: components/chord/chord.cpp. A key becomes a chord, the      *)
(* chord's tones are remembered per key and reference counted per note,    *)
(* tones may be strummed later by a task of their own, and a setting that  *)
(* changes re-voices what is held.                                         *)
(*                                                                         *)
(* Every task builds a list of notes inside s_lock and plays it after      *)
(* leaving, one midi_play_note() at a time. So a critical section is one   *)
(* step, and every note played is one step. What is played lands in the    *)
(* voice manager, or in the arpeggiator for a note on the pre-arp route    *)
(* while the arpeggiator is engaged - unless the sequencer's clock task    *)
(* plays it, whose own notes the arpeggiator never takes (note_tap()).     *)
(*                                                                         *)
(* Abstracted: what build_chord() computes (a constant: the tones of a key *)
(* under a setting, ascending and distinct), velocities, and the strum     *)
(* clock (a tone that waits falls due at any time; the random direction    *)
(* lets tones of a chord fall due in any order).                           *)
(***************************************************************************)
EXTENDS Naturals, Sequences, FiniteSets, SequencesExt

CONSTANTS
  Keys, Pitches,
  Settings,        \* the settings the chord.* parameters may hold
  Enabled(_),      \* chord.enable, by setting
  Pre(_),          \* chord.route is pre-arp
  Mono(_),         \* chord.keys is mono
  Strummed(_),     \* chord.strum > 0
  RestrikeAll(_),  \* chord.restrike is all
  Tones(_, _),     \* build_chord(): tones of a key, by setting
  KeyNote(_),      \* the note a key is without chord mode
  ArpOn(_),        \* is the arpeggiator engaged (arp.mode, no hold)?
  NumKeys,         \* kMaxKeys
  NumPending,      \* kMaxPending
  Players,         \* tasks that deliver keys; "clock" is the sequencer's
  Tuners,          \* tasks that write chord.* parameters
  Tunings,         \* <<from, to>>: the changes of setting they make
  Panics,          \* tasks that deliver CC 120 / CC 123
  MaxOps           \* bound: keys, writes and panics started

Distinct(tones) == \A i, j \in DOMAIN tones : i # j => tones[i] # tones[j]

ASSUME ToneAssumption ==
  \A s \in Settings, k \in Keys :
    /\ Tones(s, k) \in Seq(Pitches) /\ Distinct(Tones(s, k))
    /\ KeyNote(k) \in Pitches
ASSUME RouteAssumption == \A s \in Settings : Pre(s) \in BOOLEAN
ASSUME TaskAssumption == "strum" \notin Players \cup Tuners \cup Panics
ASSUME TableAssumption == NumKeys \in Nat \ {0} /\ NumPending \in Nat

Tasks == Players \cup Tuners \cup Panics \cup {"strum"}
Entries == 1 .. NumKeys

VARIABLES
  setting,   \* the values of the chord parameters
  s_held,    \* slot -> the key held there
  s_ref,     \* note -> references
  s_pend,    \* tones waiting on the strum clock
  pc, arg,   \* each task's place and locals
  out,       \* each task's notes collected and not yet played
  sounding,  \* downstream: <<note, path>> that were started and not stopped
  pressed,   \* <<task, key>>: the keys each player holds down
  plain,     \* keys without an entry that play as plain notes
  miscounted,  \* history: notes a stale re-voice or a panic counted wrong
  ops

chordVars == <<setting, s_held, s_ref, s_pend, pc, arg, out, sounding, pressed, plain,
               miscounted, ops>>

Empty == [used |-> FALSE]
NoArg == [slot |-> 0]

ChordInit ==
  /\ setting \in Settings
  /\ s_held = [i \in Entries |-> Empty]
  /\ s_ref = [n \in Pitches |-> 0]
  /\ s_pend = {}
  /\ pc = [t \in Tasks |-> "idle"]
  /\ arg = [t \in Tasks |-> NoArg]
  /\ out = [t \in Tasks |-> <<>>]
  /\ sounding = {}
  /\ pressed = {}
  /\ plain = {}
  /\ miscounted = {}
  /\ ops = 0

-----------------------------------------------------------------------------
(* References and emission lists. *)

Item(n, on, pre) == [note |-> n, on |-> on, pre |-> pre]
Offs(notes, pre) == [i \in DOMAIN notes |-> Item(notes[i], FALSE, pre)]
Ons(notes, pre)  == [i \in DOMAIN notes |-> Item(notes[i], TRUE, pre)]

(* The tones of an entry at some of its positions. *)
At(tones, bits) == {tones[i] : i \in bits}

(* Those of a set, in the order of the entry. *)
Listed(tones, S) ==
  LET bits   == {i \in DOMAIN tones : tones[i] \in S}
      Nth(k) == CHOOSE i \in bits : Cardinality({j \in bits : j <= i}) = k
  IN [k \in 1 .. Cardinality(bits) |-> tones[Nth(k)]]

(* ref_release() and ref_add() for each of a set of notes: the counts that   *)
(* result, and the notes that thereby stop or start.                         *)
Dropped(ref, S) == [n \in Pitches |-> IF n \in S /\ ref[n] > 0
                                      THEN ref[n] - 1 ELSE ref[n]]

\* Mutation: a tone that sounds already takes no reference.
AddedOnce(ref, S) == [n \in Pitches |-> IF n \in S /\ ref[n] = 0 THEN 1 ELSE ref[n]]

Added(ref, S) == [n \in Pitches |-> IF n \in S THEN ref[n] + 1 ELSE ref[n]]

\* Mutation: stops a tone whoever else holds it.
StoppingAll(ref, S) == S

Stopping(ref, S) == {n \in S : ref[n] = 1}
Starting(ref, S) == {n \in S : ref[n] = 0}

\* Mutation: leaves the entry's waiting tones behind.
WithoutNone(slot) == s_pend

Without(slot) == {p \in s_pend : p.slot # slot}

UsedEntries == {i \in Entries : s_held[i].used}

(* The held keys that have sounded a note. *)
Holders(n) == {i \in UsedEntries : n \in At(s_held[i].tones, s_held[i].emitted)}

(* A task may enter its next critical section once it has played its list. *)
Ready(t) == out[t] = <<>>

(* release_entry() of a used slot, as a whole critical section of task t. *)
ReleaseEntry(t, slot) ==
  LET h == s_held[slot]
      notes == At(h.tones, h.emitted)
  IN /\ s_pend' = Without(slot)
     /\ s_ref' = Dropped(s_ref, notes)
     /\ out' = [out EXCEPT ![t] = Offs(Listed(h.tones, Stopping(s_ref, notes)), h.pre)]
     /\ s_held' = [s_held EXCEPT ![slot] = Empty]

FirstOf(S) == CHOOSE i \in S : \A j \in S : i <= j
HasEntry(k) == \E i \in UsedEntries : s_held[i].key = k
FindKey(k, pre) == {i \in UsedEntries : s_held[i].key = k /\ s_held[i].pre = pre}

(* note_tap(): the arpeggiator takes a new note it is offered, and a release *)
(* of a note it owns.                                                        *)
Offered(t, pre) == pre /\ ArpOn(setting) /\ t # "clock"
Tapped(t, n, pre) == Offered(t, pre) /\ <<n, "arp">> \in sounding

(* flush(): the next note of a task's list. *)
Play(t) ==
  /\ out[t] # <<>>
  /\ LET e == Head(out[t])
     IN IF e.on
        THEN sounding' = sounding \cup
               {<<e.note, IF Offered(t, e.pre) THEN "arp" ELSE "voice">>}
        ELSE sounding' = sounding \
               {<<e.note, IF Tapped(t, e.note, e.pre) THEN "arp" ELSE "voice">>}
  /\ out' = [out EXCEPT ![t] = Tail(@)]
  /\ UNCHANGED <<setting, s_held, s_ref, s_pend, pc, arg, pressed, plain, ops,
                 miscounted>>

Start(t, to) ==
  /\ pc[t] = "idle"
  /\ Ready(t)
  /\ ops < MaxOps
  /\ ops' = ops + 1
  /\ pc' = [pc EXCEPT ![t] = to]

-----------------------------------------------------------------------------
(* chord_key_on() *)

(* Does the hook make a chord of a key? A keyboard's key reaches the post-arp *)
(* call only when the arpeggiator leaves it alone.                            *)
Expands(t) == Enabled(setting) /\ (Pre(setting) \/ ~Offered(t, TRUE))

(* The parameters are read and the chord built before the lock is taken. A    *)
(* key that chord mode does not want plays as the note it is.                 *)
KeyOnBuild(t, k) ==
  /\ pressed' = pressed \cup {<<t, k>>}
  /\ \/ /\ Expands(t)
        /\ Start(t, IF Mono(setting) THEN "mono" ELSE "insert")
        /\ arg' = [arg EXCEPT ![t] =
                     [key |-> k, tones |-> Tones(setting, k), pre |-> Pre(setting),
                      strum |-> Strummed(setting)]]
        /\ UNCHANGED <<plain, out>>
     \/ /\ ~Expands(t)
        /\ Start(t, "idle")
        /\ plain' = IF HasEntry(k) THEN plain ELSE plain \cup {k}
        /\ out' = [out EXCEPT ![t] = <<Item(KeyNote(k), TRUE, TRUE)>>]
        /\ UNCHANGED arg
  /\ UNCHANGED <<setting, s_held, s_ref, s_pend, sounding, miscounted>>

(* release_others(key): one entry at a time, played in between. *)
MonoRelease(t) ==
  /\ pc[t] = "mono"
  /\ Ready(t)
  /\ LET others == {i \in UsedEntries : s_held[i].key # arg[t].key}
     IN IF others = {}
        THEN /\ pc' = [pc EXCEPT ![t] = "insert"]
             /\ UNCHANGED <<s_held, s_ref, s_pend, out>>
        ELSE /\ ReleaseEntry(t, FirstOf(others))
             /\ UNCHANGED pc
  /\ UNCHANGED <<setting, arg, sounding, pressed, plain, ops, miscounted>>

SameKey(a)         == FindKey(a.key, a.pre)
FreeSlots(again) == (Entries \ UsedEntries) \cup again
Room(left)       == NumPending - Cardinality(left)

(* The critical section: release the key's old entry, take a slot, count and *)
(* collect the tones that sound now, leave the others to the strum clock for *)
(* as long as that has room.                                                 *)
Insert(t) ==
  /\ pc[t] = "insert"
  /\ Ready(t)
  /\ pc' = [pc EXCEPT ![t] = "idle"]
  /\ LET a     == arg[t]
         again == SameKey(a)
         h     == s_held[FirstOf(again)]
         old   == IF again = {} THEN {} ELSE At(h.tones, h.emitted)
         ref   == Dropped(s_ref, old)
         offs  == IF again = {} THEN <<>>
                  ELSE Offs(Listed(h.tones, Stopping(s_ref, old)), a.pre)
         left  == {p \in s_pend : p.slot \notin again}
         free  == FreeSlots(again)
         all   == DOMAIN a.tones
         room  == Room(left)
     IN \/ /\ free = {}
           /\ plain' = IF HasEntry(a.key) THEN plain ELSE plain \cup {a.key}
           /\ out' = [out EXCEPT ![t] = <<Item(KeyNote(a.key), TRUE, a.pre)>>]
           /\ UNCHANGED <<s_held, s_ref, s_pend>>
        \/ /\ free # {}
           /\ plain' = plain \ {a.key}
           /\ \E now \in SUBSET all :
                /\ IF a.strum /\ all # {}
                     THEN LET more == Cardinality(all) - 1
                          IN Cardinality(now) = 1 + (IF more > room THEN more - room ELSE 0)
                     ELSE now = all
                /\ LET slot  == FirstOf(free)
                       notes == At(a.tones, now)
                   IN /\ s_held' = [i \in Entries |->
                           IF i = slot THEN [used |-> TRUE, key |-> a.key, pre |-> a.pre,
                                             tones |-> a.tones, emitted |-> now]
                           ELSE IF i \in again THEN Empty
                           ELSE s_held[i]]
                      /\ s_ref' = Added(ref, notes)
                      /\ out' = [out EXCEPT ![t] =
                           offs \o Ons(Listed(a.tones, Starting(ref, notes)), a.pre)]
                      /\ s_pend' = left \cup {[slot |-> slot, key |-> a.key, bit |-> i,
                                               note |-> a.tones[i], pre |-> a.pre] :
                                                i \in all \ now}
  /\ UNCHANGED <<setting, arg, sounding, pressed, ops, miscounted>>

(* chord_key_off(), answered from the table: asked before the arpeggiator, *)
(* and after it for a note the arpeggiator does not own.                   *)
KeyOff(t, k, pre) ==
  /\ <<t, k>> \in pressed
  /\ FindKey(k, pre) # {}
  /\ pre \/ (FindKey(k, TRUE) = {} /\ ~Tapped(t, KeyNote(k), TRUE))
  /\ Start(t, "idle")
  /\ pressed' = pressed \ {<<t, k>>}
  /\ plain' = plain \ {k}
  /\ ReleaseEntry(t, FirstOf(FindKey(k, pre)))
  /\ UNCHANGED <<setting, arg, sounding, miscounted>>

(* A key the table does not know is released as a plain note. *)
PlainOff(t, k) ==
  /\ <<t, k>> \in pressed
  /\ FindKey(k, TRUE) = {}
  /\ FindKey(k, FALSE) = {} \/ Tapped(t, KeyNote(k), TRUE)
  /\ Start(t, "idle")
  /\ pressed' = pressed \ {<<t, k>>}
  /\ plain' = plain \ {k}
  /\ out' = [out EXCEPT ![t] = <<Item(KeyNote(k), FALSE, TRUE)>>]
  /\ UNCHANGED <<setting, s_held, s_ref, s_pend, arg, sounding, miscounted>>

-----------------------------------------------------------------------------
(* strum_task(): every tone that is due, unless its key is gone. *)

Strum ==
  /\ Ready("strum")
  /\ \E due \in (SUBSET s_pend) \ {{}} :
       LET on     == {p \in due : s_held[p.slot].used /\ s_held[p.slot].key = p.key}
           notes  == {p.note : p \in on}
           starts == SetToSeq({n \in notes : s_ref[n] = 0})
       IN /\ s_pend' = s_pend \ due
          /\ s_held' = [i \in Entries |->
               IF \E p \in on : p.slot = i
               THEN [s_held[i] EXCEPT !.emitted = @ \cup {p.bit : p \in {q \in on : q.slot = i}}]
               ELSE s_held[i]]
          /\ s_ref' = [n \in Pitches |-> s_ref[n] + Cardinality({p \in on : p.note = n})]
          /\ out' = [out EXCEPT !["strum"] =
               [i \in DOMAIN starts |->
                  Item(starts[i], TRUE, (CHOOSE p \in on : p.note = starts[i]).pre)]]
  /\ UNCHANGED <<setting, pc, arg, sounding, pressed, plain, ops, miscounted>>

-----------------------------------------------------------------------------
(* A parameter write re-voices every held key, on the task that wrote it. *)

Tune(t, s) ==
  /\ <<setting, s>> \in Tunings
  /\ setting' = s
  /\ Start(t, "snapshot")
  /\ arg' = [arg EXCEPT ![t] = [slot |-> 1]]
  /\ UNCHANGED <<s_held, s_ref, s_pend, out, sounding, pressed, plain, miscounted>>

NextSlot(t, slot) ==
  IF slot < NumKeys
  THEN /\ pc' = [pc EXCEPT ![t] = "snapshot"]
       /\ arg' = [arg EXCEPT ![t] = [slot |-> slot + 1]]
  ELSE /\ pc' = [pc EXCEPT ![t] = "idle"]
       /\ arg' = [arg EXCEPT ![t] = NoArg]

(* revoice_entry(), first half: copy the entry, leave the lock, build. *)
Snapshot(t) ==
  /\ pc[t] = "snapshot"
  /\ Ready(t)
  /\ LET slot == arg[t].slot
         h    == s_held[slot]
     IN IF h.used
        THEN /\ pc' = [pc EXCEPT ![t] = "revoice"]
             /\ arg' = [arg EXCEPT ![t] =
                  [slot |-> slot, key |-> h.key, pre |-> h.pre, old |-> h.tones,
                   oldEmitted |-> h.emitted,
                   tones |-> IF Enabled(setting) THEN Tones(setting, h.key)
                             ELSE <<KeyNote(h.key)>>]]
        ELSE NextSlot(t, slot)
  /\ UNCHANGED <<setting, s_held, s_ref, s_pend, out, sounding, pressed, plain,
                 ops, miscounted>>

(* Second half: back in the lock, the entry is only checked for its key. *)
Revoice(t) ==
  /\ pc[t] = "revoice"
  /\ LET a    == arg[t]
         h    == s_held[a.slot]
         all  == RestrikeAll(setting)
         had  == At(a.old, a.oldEmitted)
         new  == At(a.tones, DOMAIN a.tones)
         gone == IF all THEN had ELSE had \ new
         came == IF all THEN new ELSE new \ had
         ref  == Dropped(s_ref, gone)
     IN /\ IF ~h.used \/ h.key # a.key \/ a.tones = a.old
             THEN UNCHANGED <<s_held, s_ref, s_pend, out, miscounted>>
             ELSE /\ s_pend' = Without(a.slot)
                  /\ s_ref' = Added(ref, came)
                  /\ s_held' = [s_held EXCEPT ![a.slot] =
                                  [h EXCEPT !.tones = a.tones, !.emitted = DOMAIN a.tones]]
                  /\ out' = [out EXCEPT ![t] =
                       Offs(Listed(a.old, Stopping(s_ref, gone)), a.pre)
                         \o Ons(Listed(a.tones, Starting(ref, came)), a.pre)]
                  /\ miscounted' = LET has == At(h.tones, h.emitted)
                                   IN miscounted \cup (had \ has) \cup (has \ had)
        /\ NextSlot(t, a.slot)
  /\ UNCHANGED <<setting, sounding, pressed, plain, ops>>

-----------------------------------------------------------------------------
(* CC 120 / CC 123: the voices are told first, then chord_all_off(). *)

Panic(t) ==
  /\ Start(t, "forget")
  /\ sounding' = {x \in sounding : x[2] # "voice"}
  /\ plain' = {}
  /\ UNCHANGED <<setting, s_held, s_ref, s_pend, arg, out, pressed, miscounted>>

AllOffPending(t) ==
  /\ pc[t] = "forget"
  /\ pc' = [pc EXCEPT ![t] = "release"]
  /\ s_pend' = {}
  /\ UNCHANGED <<setting, s_held, s_ref, arg, out, sounding, pressed, plain,
                 ops, miscounted>>

AllOffRelease(t) ==
  /\ pc[t] = "release"
  /\ Ready(t)
  /\ IF UsedEntries = {}
       THEN pc' = [pc EXCEPT ![t] = "zero"] /\ UNCHANGED <<s_held, s_ref, s_pend, out>>
       ELSE ReleaseEntry(t, FirstOf(UsedEntries)) /\ UNCHANGED pc
  /\ UNCHANGED <<setting, arg, sounding, pressed, plain, ops, miscounted>>

AllOffZero(t) ==
  /\ pc[t] = "zero"
  /\ pc' = [pc EXCEPT ![t] = "idle"]
  /\ s_ref' = [n \in Pitches |-> 0]
  /\ miscounted' = {n \in Pitches : Holders(n) # {}}
  /\ UNCHANGED <<setting, s_held, s_pend, arg, out, sounding, pressed, plain, ops>>

-----------------------------------------------------------------------------

KeyStep(t) == MonoRelease(t) \/ Insert(t)
TuneStep(t) == Snapshot(t) \/ Revoice(t)
PanicStep(t) == AllOffPending(t) \/ AllOffRelease(t) \/ AllOffZero(t)

Input == \/ \E t \in Players, k \in Keys :
              \/ KeyOnBuild(t, k) \/ PlainOff(t, k)
              \/ \E pre \in BOOLEAN : KeyOff(t, k, pre)
         \/ \E t \in Tuners, s \in Settings : Tune(t, s)
         \/ \E t \in Panics : Panic(t)

Work(t) == Play(t) \/ KeyStep(t) \/ TuneStep(t) \/ PanicStep(t)

ChordNext == Input \/ Strum \/ \E t \in Tasks : Work(t)

ChordSpec == ChordInit /\ [][ChordNext]_chordVars

-----------------------------------------------------------------------------
(* Properties. *)

Entry == [used : {TRUE}, key : Keys, pre : BOOLEAN, tones : Seq(Pitches),
          emitted : SUBSET Nat]
Emission == [note : Pitches, on : BOOLEAN, pre : BOOLEAN]

ChordTypeOK ==
  /\ setting \in Settings
  /\ s_held \in [Entries -> {Empty} \cup Entry]
  /\ \A i \in UsedEntries : s_held[i].emitted \subseteq DOMAIN s_held[i].tones
  /\ s_ref \in [Pitches -> Nat]
  /\ s_pend \subseteq [slot : Entries, key : Keys, bit : Nat, note : Pitches, pre : BOOLEAN]
  /\ Cardinality(s_pend) <= NumPending
  /\ out \in [Tasks -> Seq(Emission)]
  /\ sounding \subseteq Pitches \X {"voice", "arp"}
  /\ pressed \subseteq Players \X Keys
  /\ plain \subseteq Keys
  /\ miscounted \subseteq Pitches

(* The references of a note are exactly the held keys that have sounded it:   *)
(* no key takes one reference and gives back two. Not claimed for a note that *)
(* a re-voice counted as its stale copy of the entry has it, or that a panic  *)
(* zeroed under a key pressed meanwhile, until a panic zeroes it again.       *)
RefExact ==
  ChordTypeOK /\ \A n \in Pitches \ miscounted : s_ref[n] = Cardinality(Holders(n))

(* A tone that waits on the strum clock belongs to the chord its key holds   *)
(* now, and has not sounded: a stray note of an older chord never arrives.   *)
PendingIsCurrent ==
  \A p \in s_pend :
    /\ s_held[p.slot].used
    /\ s_held[p.slot].key = p.key
    /\ p.bit \in DOMAIN s_held[p.slot].tones \ s_held[p.slot].emitted
    /\ s_held[p.slot].tones[p.bit] = p.note

(* Nobody is in the middle of anything. *)
Quiet == \A t \in Tasks : pc[t] = "idle" /\ out[t] = <<>>

(* The notes that keys held down have a claim on. *)
Wanted == {n \in Pitches : Holders(n) # {}} \cup {KeyNote(k) : k \in plain}

(* A note-off releases what its key started and only that: releasing C does  *)
(* not cut a G that E is still holding, and nothing sounds that no key holds. *)
(* Not claimed with a strum, whose task may play a tone after the release     *)
(* that cancels it (README, "What the code does not keep").                   *)
SoundIsHeld ==
  Quiet /\ ~Strummed(setting) => {x[1] : x \in sounding} = Wanted
=============================================================================
