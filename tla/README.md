# osynth, a TLA+ verification project

osynth is an ESP32 groovebox: synthesizer engines, a drum machine, a sampler,
an arpeggiator, a step sequencer, chord mode, a looper and effects, in C++ on
FreeRTOS, with a Qt application that controls it over BLE. Around the
floating-point code that makes the sound there is a concurrent program: one
audio task that may never block, some fifteen control tasks, and between them
lock-free pointers, rings, counters, short critical sections and a good many
waits with deadlines. This project models that program. `src/` below is the
repository.

The first rule of the code is that **the audio task takes no lock and is never
waited for without a deadline**. Most of what can go wrong follows from it, and
most of the properties here are about it.

## Inventory

### Tasks

| task | made by | what it does |
|---|---|---|
| audio, audio_voi | `audio_io.cpp` | render a block, paced by the DMA; voices and buses may run on two cores, a block apart |
| eng_switch | `engines.cpp` | replaces the engine when `engine.type` is written |
| seq_clk | `seqarp.cpp` | the clock: arpeggiator and sequencer, internal or slaved |
| chord_str | `chord.cpp` | plays strummed tones when they fall due |
| midi_ser, usb, usb_hd/usb_hc | `midi_serial.c`, `usb_dev.c`, `usb_host_midi.c` | deliver MIDI |
| ble_cmd | `ctrl_proto.cpp` | executes the application's commands |
| preset | `presets.cpp` | loads and stores patches |
| drum_ctl, smp_ctl | `drums.cpp`, `sampler.cpp` | load kits, record pads |
| loop_ctl, loop_io | `looper.cpp`, `loop_stream.cpp` | own the looper's memory and its card |
| persist | `persist.cpp` | writes settings to NVS when they have settled |

### Components

| component | state | operations | what makes it correct | modelled |
|---|---|---|---|---|
| engine switch (`engines.cpp`) | requested and active type, the parameter | request, mute, detach, init, allocate, publish, roll back | no block uses a freed pool or removed parameters; every request ends, in the new engine or in the old one | `EngineSwitch` |
| voice manager (`synth_voice.cpp`) | event ring, voices, ages, pedal, engine pointer, block counter | push, drain, allocate, steal, release, detach, bind | no event lost or applied twice; no stuck note; a held key is the last to be stolen | `VoiceManager`, `EngineSwitch` |
| parameter store (`synth_params.cpp`) | slots, index, values | add, removeRange, set, get | an id finds its own slot; no slot leaks; a value stays in its range | `ParamStore` |
| chord mode (`chord.cpp`) | held keys with their tones, a count per note, waiting tones | key on/off, strum, re-voice, panic | a release ends exactly what its key started | `Chord` |
| modular engine (`graph_*.cpp`) | two plan slots, live and pending pointer, buffers | edit, bind, unbind, adopt | no block walks a plan that is being changed; an edit ends in its plan | `GraphSwap` |
| graph compiler (`graph_compile.cpp`) | none (pure) | compile a patch to a plan | order respects the wires; two live buffers never share memory | no |
| arpeggiator (`seqarp.cpp`) | held list, owned map, owed note-offs, latch | note tap, poll, tick, step, flush | no hung voice, whatever is toggled in mid-hold | `Arp` |
| sequencer playback (`seq_play.cpp`) | position per track, owed note-offs, ratchets, locks | tick, step, pattern and song change, start, stop | no hung note; bars start together; locked parameters come back | `SeqPlay` |
| sequence data (`seq_model.cpp`) | patterns | clamping setters, serialisation | what is read back is what was written | lengths only |
| clock and transport (`seqarp.cpp`) | tick phase, external clocks, transport flags | slave, catch up, start, stop, continue | one tick per clock; bounded catch-up | as `Arp` and `SeqPlay` see it |
| MIDI router (`midi.c`) | running status, NRPN latch | route a note past chord mode and arpeggiator | a note-off takes the path of its note-on | inside `Chord`, `Arp` |
| presets (`presets.cpp`) | sets, track state, snapshots | load, store, morph | values land on the engine they were stored for | the load's wait |
| drums and sampler (`drums.cpp`, `sampler.cpp`, `engine_sampler.cpp`) | bound kit and its generation, pads, the pool, undo stash, recorder, borrowed input route | bind kit, record, commit, erase, undo, copy, duplicate | no voice reads a freed block; no block is lost; undo restores; a take ends; what was borrowed is given back | `Sampler`; the borrowed route, in `Persist` |
| looper (`looper.cpp`) | transport, tracks and their buffers, mailbox, events, count-in, the mode's shadow | record, play, stop, count in, pad, shrink, clear, load; stream, export | no buffer is freed under the audio task; what is marked filled can be played; a cancelled count-in does not record | `Looper`, with the set in PSRAM |
| audio pipeline (`audio_io.cpp`) | block slots, credits | voice stage and bus stage | block N's buses see block N's voices | no |
| persisted settings (`persist.cpp`) | shadow, dirty flag, timers | mark, settle, flush | every edit gets to flash, within the deferral limit; a boot restores only what was chosen | `Persist` |
| control protocol, BLE (`ctrl_proto.cpp`, `ble_ctrl.cpp`) | dirty set, announced engine, subscription, command queue | commands, notifications, connect, lose the client | the application hears of every change; no key of a client that is gone sounds on | `Link`; save and reboot, in `Persist` |
| application (`synthcontroller.cpp`) | a copy of every parameter, discovery, paced writes, retries, held keys | discover, write, retry, play | the copy comes to agree with the synth | its side of `Link` |
| USB and host MIDI | endpoints, claims | attach, detach, transfer | input of a lost device is released | no |
| engines, effects and DSP | signal state | render | numerical | `init`/`deinit` only |
| codec drivers, local UI, boot, host port | | | | boot's result only |

`PROJECT.json` has the same list with source files and the reason for each part
left out.

### How they interact

A key comes from an input task through `midi_route_note()`: chord mode may
replace it by a chord, the arpeggiator's tap may take it, and what is left is
pushed on the voice manager's ring. The audio task drains the ring at the head
of a block. The clock task plays notes through the same router. Control tasks
write parameters with `ParamStore::set()`, which stores and then calls
listeners in the writer's own context: one listener wakes the switch task,
another makes chord mode re-voice what is held, a third marks the parameter for the
application, a fourth leaves a flag for `loop_ctl`. The switch task replaces engine,
voice pool and the `0x02xx` parameters while all the rest goes on. The application sends
writes, reads and notes over BLE to a queue that the protocol task empties, and hears back
what has changed since the last flush. A take goes from the audio task, which captures it, to
`smp_ctl`, which cuts it into pads that the audio task plays by raw pointer.

### What is hard

* one pointer read once a block, and memory freed behind it (engine, graph);
* waits that poll the audio task's counter and give up after a deadline;
* a list decided inside a lock and played outside it (chord, arpeggiator);
* settings read before the lock, or moved between a note-on and its note-off;
* a mark cleared between two steps of a write that may fail, or be cut by a power loss;
* a mailbox of one command, and events that come back after the next command has gone;
* two copies of the same settings over a link that drops, refuses and runs out of buffers;
* bounded tables that overflow: ring, voices, held keys, owed note-offs, slots;
* blocks of samples under voices that ring for seconds, while hits go on arriving;
* counters that wrap; notifications that coalesce; steps of a roll-back that fail.

`PROJECT.json` lists these hazards line by line with the properties that watch them.

## Modules

```
Handoff ------------- what every lock-free replacement promises
  ^          ^
  | refines  | refines
EngineSwitch GraphSwap          VoiceManager  ParamStore
                                (ParamStoreMC)
Chord (ChordMC)   Arp (ArpMC)   SeqPlay (SeqPlayMC)   Persist
Looper            Link (LinkMC)     Sampler

theorems: EngineSwitch_proof (with Handoff), GraphSwap_proof, Persist_proof,
          SynthCore_proof (ParamStore, Chord, VoiceManager), SeqArp_proof (SeqPlay, Arp),
          Looper_proof, Sampler_proof, Link_proof
```

An atomic action is what the code makes atomic: a critical section, an atomic
access, a note played, or a stretch of a task's own computation between two of
these. Names of variables and operations are the source's.

**`Handoff`** is abstract: a resource is offered through one pointer, the audio
task picks it up for the length of a block, and control code reclaims only what
is neither offered nor in use.

**`EngineSwitch`** is `eng_switch` with its half of the voice manager. `pc`
walks `switch_to()` statement by statement: revert an unknown type, mute, wait
for the ramp, exchange `s_engine`, read `s_render_seq`, poll for two boundaries,
free, `deinit`, `init`, allocate, publish, commit, unmute; with the way back
when the detach times out or a step fails. The audio task is `BlockBegin`
(loads the pointer) and `BlockEnd` (counts the block). `WriteStore` and
`WriteListen` are the two halves of `ParamStore::set()`. The preset task is there
because it writes the parameter, polls for the outcome and then applies values. `history` tells what a run has met:
whether a store and a listener of two writers crossed, whether a step failed, and whether the
last switch to detach could not bind its old engine again (`"unrestored"`, set where that very step fails and
taken back by the next detach). It is what lets one run ask both what every fault leaves intact and
what is served when none happens.

**`VoiceManager`** is the ring (`Push`, `DrainOne`, `DrainEnd`), the whole of
note-on with retrigger, unison and stealing, note-off, pedal and panics, and
what happens to all this when the engine goes and comes back (`s_engine`): the ring is
kept for the hold time, then discarded. Which voice is older than which is a relation
(`older`), as nothing else of the note-on numbers matters. `HoldAssumption` says that the
hold outlasts the blocks that a run of switches without a rendered block between them
passes without an engine, two for each: 750 blocks stand for 375 such switches. `switches` counts
these and starts again with every block that is rendered, as the code's own counter does; how many
switches there are in all is not bounded.

**`ParamStore`** is slots, index and lock. `add()` is several steps because
readers take no lock; `set()` is lookup, clamp, store.

**`Chord`** is every critical section of `chord.cpp` as one step and every note
played as another. What a chord consists of is a constant operator. `miscounted` is history: the
notes a re-voice counted as a stale copy of its entry has them, or a panic zeroed under a
key pressed meanwhile; they are what `RefExact` excepts, and in the run there are none, as one task
presses, tunes and panics. `ChordMC`
gives two keys that share a tone and settings that differ in one switch each.

**`GraphSwap`** is `publish`, `retire`, `hand_over` with its two ways of giving up,
and `render_init`/`render_deinit` as the binder calls them, against a render
call that has hooks, a duck, a claim, a store and a walk. Any number of tasks edit and one
binds and unbinds, with no lock between them, as in the code, and the audio task may pause
anywhere. Two operations that overlap, or a hand-over that takes a paused block for an absent one,
do spoil plans in the code; `disturbed` is history and says when, and that it
is over: as soon as a task that has had the graph to itself from the beginning of its operation
(`alone`) has its own empty plan taken, or binds the graph anew.

**`Arp`** separates the tap's reading of parameters, the tap itself and the
router's playing of what the tap let past, for every player; and on the clock
task the poll's reading, its edges, ticks, the reading of the list and the note
played. The list is two sets, its notes (`s_held`) and those of them whose key is down
(`s_down`), since any of its notes may be the next. `direct` and `swallowed` are history: who
plays past the arpeggiator, and which of these notes had their note-off taken for the list.

**`SeqPlay`** is a tick (note-offs, bar, pattern), then a step per track and
fired step, with knobs, lengths, the song chain and `Reregister` in between. The last is any
registration of parameters of the engine's range, all of them at an engine switch, some at an
edit of the graph: each moves the one generation of the store, by which locks are judged, and
gives a fresh value only to what it registers. `dropped` is history: what was locked
then and kept its value. Ticks are counted from now, so that a pattern may play for ever
in finitely many states.

`SeqPlayMC` gives three sheets of music (`Sheets`), and a run starts with any of them:
a sheet fixes the grid, the lengths, the steps and what is moved meanwhile.

**`Looper`** has one action for a critical stretch of each of its tasks. The player is
`Write` and `Notify`, the halves of `ParamStore::set()`; the clock task `Beat` and `Fire`,
the decrement of the count-in and the flag after it. The audio task's block is
`BlockBegin` (takes the command, fades, may turn idle), `Segment` (loads the filled mask and the
buffer pointers), `Advance` (records, moves on, wraps, counts the block). `loop_ctl` is
everything else, with a `pc`: events first (`TakeEvents`, `PadTake`, `Mirror`,
`CompactCopy`, `CompactSwap`, `CompactFree`), then the flags it took, in the code's
order. Wherever the code waits for two boundaries, the wait is `Await`, which may be given
up. A buffer's content is how much of it, counted from the top, decodes as one take:
recording over an old take makes nothing after that point playable, which is what
`audio_close_rec()` clears the bit for.

**`Link`** is the application and the synth with the radio between them.
On the synth: the host task's callbacks (`Connect`, `Subscribe`,
`ctrl_proto_link_reset`, `Disconnected`), the queue (`Accept`, `Refuse` with its BUSY), the
protocol task (`HandleFrame`, and `flush_events()` from the engine's announcement
through taking, reading and sending the dirty set), and everyone who writes a
parameter (`SetParam`, `param_listener`). In the application: discovery with its watchdog and
the fallback after connecting, the copy of the parameters, batched and immediate writes,
what is done about each BUSY, and held keys. `LinkDrops` loses what was on its way down.
`crossed`, `lost`, `orphans` and `swung` are history and name the exceptions described below.

**`Persist`** is the life of a setting: `EditStore`, `ListenShadow` and
`ListenMark` are `ParamStore::set()` and the two halves of `param_listener()`,
`PollClean` and `PollDirty` one round of the writer task (`moved` is all that matters of
`s_dirty_seq`, so that a session may have any number of edits), the `Flush` actions
`flush()` statement by statement, for the writer task and for the command that
saves and reboots, which no lock keeps apart. `Borrow` and `GiveBack` are the sampler's `monitor_hold()`,
an edit that is not to be saved. `Restart` is a power loss at any step with the boot
after it; `flash` alone survives. `chosen` and `raced` are history: what the
player set since the boot, and whether an edit met one of the two races below.

**`Sampler`** has four tasks. A block of the audio task is `KeyOn` and `KeyArm` (a note of the
sampler engine: the pad is read, then the generation), `BeginBlock`, `LoadKit`, `Drain` (the kill of
a slot, the trigger ring, the rendering, the boundary) and `Capture` with `CaptureFull`.
`smp_ctl` commits takes (`OpenTake`), counts in, and edits; what all of these share is
`drums_slot_replace()`: `NextPad` (a block is made, the generation bumped), `Kill`, `Wait` or
`Refused`, `Store`, each for one pad of `job.todo`. `drum_ctl` is `SelectKit`, `SelectBump`, `SelectBind`, and the
player `ArmSlot`, `Press`, `Release` with `Publish`, the state stored after it was loaded. Of
all voices, one at a time is followed, which may be any of them, since voices do not
meet; its `late` says that it began while `smp_ctl` was already replacing its pad.
`before`, `lost` and `early` are history too.

Operators marked `\* Mutation:` stand beside the definition they distort. They
are what that code would be with a plausible mistake in it (a dropped guard, an
off-by-one, a missing reset), and no specification uses them: put in place of the
definition, each one makes TLC refute the property `PROJECT.json` pairs it with.

## Runs

| run | instance | shows |
|---|---|---|
| `switch` | three types of which two are built, a plain writer and the preset task, counter modulo 4, every fault | `UsedStaysValid` (pool and parameters), `SettledConsistently`, `TimeoutKeepsEngine`, the refinement `HandoffSpec`, and that a switch ends (`SwitchEnds`) though the audio task be dead; where nothing crossed or failed, once quiet the parameter names the engine (`ParamNamesEngine`), and a request is served or replaced (`RequestServed`) |
| `voices` | two keys, two voices, unison up to two, a ring of two | `RingIsQueue`, `NoStuckNote`, `StealsLast` |
| `chord` | three keys, two entries, room for one strummed tone, one task plays, tunes and panics beside the strum task | `RefExact`, `PendingIsCurrent`, `SoundIsHeld` |
| `graph` | the switch task binds and unbinds, another edits, at once or in turn; the audio task may pause anywhere | `WalksValidPlan`, `BuffersOutliveCall`, `EditLeavesPlan`, `HandoffSpec`, `EditEnds` |
| `params` | two registrars, one setter, one parameter too many for two slots | `IndexExact` (an id finds its slot, no slot leaks), `ValueInRange`, `FixedChangeBySet` |
| `arp` | two players, two keys, both knobs, a list of one and a table of two | `NoHungVoice`, `OwnedIsDown` |
| `seq` | two tracks over three sheets: steps a tick early or a step and a half late, ratchets, a table of two note-offs, a length edited in flight; two patterns, a parameter of the engine and one of its own | `NoHungNote`, `BarStartsTogether`, `LocksRestored` |
| `persist` | one editor, the sampler's route and a setting that is only nudged, writes that fail, power loss at any step | `OnlyChosenStored`, `EditKept`, `SavedWhenLeft` |
| `looper` | two tracks, loops of one or two units, three moves of any kind, memory short, one handshake given up | `BuffersOutliveBlock`, `FilledHoldsTake`, `DecodesInStep`, `CancelWins`, `ComesToRest` |
| `link` | one parameter, one key, two engines, a queue of one command; two of a panel turn, a write and an engine's change, or one move of any kind and a fault | `ChangeNotForgotten`, `NoNoteLeftOn`, `Synchronises` |
| `sampler` | the factory kit and one recordable one of two slots, a pool of four blocks, three moves of any kind | `PadsOutliveVoices`, `NothingLost`, `CommitHasOwner` |
| `late_hit` | the same with two moves | refutes `WaitIsGuarantee` |

Every module has a type invariant (`TypeOK`; `VoicesTypeOK`, `ChordTypeOK` and `ArpTypeOK` where one proof
module speaks of two). In `VoiceManager`, `Chord`, `Arp`, `SeqPlay`, `Looper`, `Link` and `Sampler` it is
the first conjunct of the first invariant of the module's run, and so proved with it; for the other
four, and for `Looper`, `Link` and `Sampler` too, it is a theorem of its own. `CHECK_DEADLOCK FALSE`
is said where the bounds on what the players do let the instance come to rest,
as the device does when nobody plays.

### Bounds, and why they are enough

*Switch.* A wait is decided by zero, one or two boundaries, so a counter modulo 4 (5 with a rest of more than
one block) shows each, and wraps. Two requests give a switch and a request that lands in the middle of it; a
search with a third, which lands in the second, found nothing over 2.6 million states. *Voices.* With two
voices and two keys a stack of two fills the pool, so that stealing, retriggering and stacks meet; four events
wrap head and tail of a ring of two and fill it; one switch with a hold of two blocks, the least assumed, is
aborted or completes. *Chord.* The third key meets a full table; two keys that share a tone are the least for
a count of two; five operations are press, change, press, change, release. *Graph.* The code has two plan
slots, which the model has too; four operations are a bind, two edits that go round both slots, and a third
edit or an unbind that overlaps or follows them. That the binder edits too (presets do, on their own task, and
bind does) is left to the theorems, which are about any number of tasks. *Params.* Two slots for three
parameters overflow; three binds recycle a slot twice under a set() in progress. *Arp.* A list of one
overflows at the second key, a table of two at the third note that is owed its note-off; with two ticks to a
step a gate is short or full; four turns switch both knobs on and off again. *Seq.* Two tracks fight over a
table of two; lengths 1 and 2 make a track wrap inside the bar and not; a step a tick early or three late
fires before or after the bar's end, and after the step that follows it is due. On the sheet of locks the grid
is one tick because locks are indifferent to time; two moves are a knob and a registration in either order, of
the locked parameter or past it. *Looper.* A loop of two units has a first, a last and a middle boundary, and
one of one wraps in every block; two tracks are one that records and one that is mixed; three buffers let the
third track's worth of memory run out. Three moves are a take, a punch-in or count-in, and what cuts it short;
a fade of two blocks meets the next command. Four moves without faults, and five of record, play and stop with
loops and fades of three, pass too. *Link.* A queue of one is full at the second command; one parameter is
enough since parameters meet only in frames, which the module writes as sets. Any two of a turn of the panel,
a write and an engine's change meet each other and the listing, with nothing lost; a move of any kind, held
keys among them, meets one loss. More moves and more losses at once are the theorems' business; TLC says of
these bounds only that the two copies come to agree. *Sampler.* A commit of two slices is the least that can
fail in its middle, and needs the pool to hold a pad, its stash and a new one: three blocks; with a fourth a
duplicate clears a kit whose stash is held, which is where `UndoRestores` has its exception. Three moves are
an operation, one that displaces its stash or undoes it, and a kit bound meanwhile or the gate of a take; two
slots let one be replaced while the other plays. A second recordable kit adds only a kit like the first:
duplication goes from the factory kit. *Persist.* A settle time of two polls and a limit of three keep the
order of the code's six and twenty, so that a change can be settled and not overdue. Edits, failing writes and
restarts are unlimited. The second setting is only ever set to the value it has (`Nudged`), which `set()`
announces like any other: it restarts the timer and marks the set, which is all that one setting can do to
another. A second editor adds nothing: `set()` of different ids meet only in the mark, and the proofs are for
any number of editors and settings. Symmetry is declared only over players, patterns and notes, which no
operator tells apart, and in runs without liveness.

### Fairness

`ControlFairSpec` assumes that the control tasks run and time passes: each of them, and
the audio task between blocks, sleeps in a delay or on a notification, so that no priority
starves another for good, and the tick interrupt goes on. Nothing is
assumed of the audio task, which may stop for good: then the detach gives up, which is one of
the failures that excuse `RequestServed`. `Sampler` has no liveness and no fairness.
In `GraphSwap` a call runs any number
of hooks, so getting past them needs strong fairness of `Duck` and `CallEnd`:
hooks are per voice and voices are finitely many. In `Persist` the writer task's
poll is fair with the output loud, so silence is never counted on, and neither are the player or
the power; a flash write may fail again and again, and `SavedWhenLeft` speaks of the runs in which
that ends. In `Looper` the audio task
renders, the clock beats, `loop_ctl` runs and a half-done `set()` is finished: the
three tasks have nothing to wait for but each other, and the player owes nothing. In
`Link` the tasks run, timers fire and a link that is gone is found gone (the supervision
timeout); no fairness is asked of people, of the radio staying up, or of a notification finding
a buffer: faults are bounded instead, which is what the three list retries of the
application count on.

## Proofs

Each theorem is about a module's `Spec`, for every value of its constants that the
module's assumptions admit (TLC evaluates these in every run).

| theorem | statement |
|---|---|
| `EngineSwitch_proof!Inductive` | `Spec => []IInv` |
| `EngineSwitch_proof!Typing` | `Spec => []TypeOK` |
| `EngineSwitch_proof!PoolSafe` | `Spec => []UsedStaysValid` |
| `EngineSwitch_proof!EndsConsistently` | `Spec => []SettledConsistently` |
| `EngineSwitch_proof!ParameterNamesEngine` | `Spec => []ParamNamesEngine` |
| `EngineSwitch_proof!TimeoutSafe` | `Spec => TimeoutKeepsEngine` |
| `EngineSwitch_proof!SwitchIsHandoff` | `Spec => HandoffSpec` |
| `EngineSwitch_proof!PoolHandedOver` | `Spec => []H!UseLive` |
| `GraphSwap_proof!Inductive` | `Spec => []IInv` |
| `GraphSwap_proof!Typing` | `Spec => []TypeOK` |
| `GraphSwap_proof!WalkSafe` | `Spec => []WalksValidPlan` |
| `GraphSwap_proof!BuffersSafe` | `Spec => []BuffersOutliveCall` |
| `GraphSwap_proof!EditsLand` | `Spec => []EditLeavesPlan` |
| `GraphSwap_proof!SwapIsHandoff` | `Spec => HandoffSpec` |
| `SynthCore_proof!Typing` | `Spec => []TypeOK` |
| `SynthCore_proof!IndexSafe` | `Spec => []IndexExact` |
| `SynthCore_proof!RangeKept` | `Spec => []ValueInRange` |
| `SynthCore_proof!FixedSafe` | `Spec => FixedChangeBySet` |
| `SynthCore_proof!ChordInductive` | `ChordSpec => []CInv` |
| `SynthCore_proof!EveryHolderCounts` | `ChordSpec => []RefExact` |
| `SynthCore_proof!NoStrayTone` | `ChordSpec => []PendingIsCurrent` |
| `SynthCore_proof!VoicesInductive` | `VoicesSpec => []VInv` |
| `SynthCore_proof!RingSafe` | `VoicesSpec => []RingIsQueue` |
| `SynthCore_proof!NothingSticks` | `VoicesSpec => []NoStuckNote` |
| `SynthCore_proof!StealingIsLast` | `VoicesSpec => StealsLast` |
| `SeqArp_proof!Inductive` | `Spec => []IInv` |
| `SeqArp_proof!NothingHangs` | `Spec => []NoHungNote` |
| `SeqArp_proof!BarsStartTogether` | `Spec => []BarStartsTogether` |
| `SeqArp_proof!LocksAreRestored` | `Spec => []LocksRestored` |
| `SeqArp_proof!ArpInductive` | `ArpSpec => []AInv` |
| `SeqArp_proof!NoVoiceHung` | `ArpSpec => []NoHungVoice` |
| `SeqArp_proof!OwnedStaysDown` | `ArpSpec => []OwnedIsDown` |
| `Persist_proof!TypeCorrect` | `Spec => []TypeOK` |
| `Persist_proof!OnlyChosen` | `Spec => []OnlyChosenStored` |
| `Persist_proof!EditsKept` | `Spec => []EditKept` |
| `Sampler_proof!Inductive` | `Spec => []IInv` |
| `Sampler_proof!Typing` | `Spec => []TypeOK` |
| `Sampler_proof!VoicesKeepPads` | `Spec => []PadsOutliveVoices` |
| `Sampler_proof!PoolIsKept` | `Spec => []NothingLost` |
| `Sampler_proof!CommitsHaveOwner` | `Spec => []CommitHasOwner` |
| `Looper_proof!Inductive` | `Spec => []IInv` |
| `Looper_proof!Typing` | `Spec => []TypeOK` |
| `Looper_proof!BlocksOwnTheirBuffers` | `Spec => []BuffersOutliveBlock` |
| `Looper_proof!FilledIsRecorded` | `Spec => []FilledHoldsTake` |
| `Looper_proof!DecodedFromTop` | `Spec => []DecodesInStep` |
| `Looper_proof!CancelledStartsNothing` | `Spec => CancelWins` |
| `Link_proof!Invariance` | `Spec => []IInv` |
| `Link_proof!Typing` | `Spec => []TypeOK` |
| `Link_proof!ChangesReach` | `Spec => []ChangeNotForgotten` |
| `Link_proof!KeysLetGo` | `Spec => []NoNoteLeftOn` |

`PoolHandedOver` says what the refinement is good for: whatever implements the handoff has,
under every pointer in use or on offer, a resource that is still there (the lemma
`HandoffKeepsLive`), and so the engine a block uses has its pool.

**The switch** (any set of engines, writers and faults, any mute length, a
counter of at least three values). `UsedStaysValid` is not inductive: after the exchange a block
may still use the old engine, and why freeing is safe then lies in the counter.
The conjunct that carries the proof is `Handshake`: while the task polls, a
block that still uses the old engine was running when the detach read the
counter, so it has not ended, so the counter **still reads what the detach
read**. The counter having moved at all, the old engine is out of use; and after
that no block can take it up, since the pointer is null (`Detached`). A single
block that ends does not bring the counter round, because `SeqMod > 2`. The other
conjuncts tie `pc` to pointer, pool, parameters and the locals of
`switch_to()` (`Locals`, `Consistent`, `Binding`). That a wrap of the counter
cannot free a pool early is so proved for the code's 2^32 too; a wrap that makes a detach
wait in vain ends in its deadline, which `switch` covers.
`ParamNamesEngine` has an invariant of its own, `NInv`: unless two writers crossed, what was asked
for last is what the parameter holds, or a listener is still to run; and while the task is
between taking the notification and unmuting, a request it has not seen has notified it
again. Without the second half the parameter could be left naming an engine nobody switches to.

**The graph** (any number of tasks that edit, at once or in turn, any length of the duck, any number
of operations, an audio task that may pause anywhere). The theorems have no hypothesis. `BuffersOutliveCall`
has no exception either: `Called` ties the buffers to the binding, which only the binder changes, and it
waits for the call to end. The others say what holds unless `disturbed`, so the invariant must say how
a disturbance ends. `LoneRetires` is the part that holds *while* the graph is disturbed: a task that has it to
itself takes over a plan only when nobody renders (else it is no longer `alone`), so once the
empty plan it offered is taken, by whichever side, no block walks or will load another, whatever
the overlap before left in the slots. That is where `HandOverKnows` takes up: it speaks of
`NextLive`, the plan the next load will find, as an adoption takes effect at the claim,
before the store to `s_live`, and between the two the control task may already be registering parameters for the
following plan; and it says for each step of the lone task what is pending, what the next load finds and what a block
may still walk. `HandoffSpec` asks for a step of the handoff, or none, wherever there is no
disturbance before or after it.

**The parameter store** (any number of slots, registrars, setters and engines, any
descriptors with bounds in order). `Owner` says that the slot being filled is in
nobody's index yet, `Setting` what a `set()` in progress may still believe of
the entry it found, `Ranged` that a value in use is within the bounds of its own
descriptor unless it is marked as strayed or has not been written. A fixed
parameter is safe because its id never leaves the index (`FixedStay`), so that a
`set()` of another id never finds its slot. That booting fills distinct slots uses the
library's bijection between a finite set and its cardinality.

**The voice manager** (any number of voices, notes and unison, a ring of any size, counters that wrap at any
multiple of it). `RingIsQueue` holds through `Queued`: what has been accepted and not applied is, position by
position, what the ring holds from the tail or the drain's cursor on. Its arithmetic is modulo `CounterMod`,
and two positions closer than the ring is long never share a slot because the ring's length divides that
(`ModMod`, `ModApart`). `NoStuckNote` then follows from what is still in the ring: a press has its key down or
a release behind it (`PressesEnd`), a gated voice too, or the pedal holds it (`VoicesEnd`). An engine switch
throws events away, and must not do so while the voices they are for may still be played on: `Held` counts the
blocks without an engine, at most two for every switch that may yet be given up since a block was rendered,
against the hold. For `StealsLast`, a note's stack is picked one voice at a time: the pick that falls on a
gated voice of another key found none idle or releasing among those left (`PickedGated`), and the ones picked
before it sound.

**Chord mode** (any number of keys, notes, settings and of tasks that play, tune and panic at once).
`RefExact` is a sum over the key table, and no step changes more than the one entry it is about, but for a
strum. `Counted` says that a note's count is the number of entries that have sounded it, and moves with that
entry (`Cardinality` with one member more or less). A strum adds a reference for each tone that falls due: as
the tones of an entry are distinct (`KeyTable`), two tones of the same note belong to two entries, and the
references added are the new holders. `KeyTable` also keeps the entries apart, one for a key and route, which
is what makes pressing a key again find the one to release. For `PendingIsCurrent`, a release and a re-voice
clear the waiting tones of their entry in the critical section that changes it (`Waiting`). What a task
carries from one section to the next (`Outside`) is only typed: none of it needs to be current, but for the
notes `miscounted` names.

**The sequencer** (any number of tracks, any sheet of steps, a table of note-offs of any size). `Kept` is the
invariant behind `NoHungNote`: what sounds is owed a note-off, and a step that finds the table full ends its
note at once. `BarStartsTogether` needs to know where every track's next step may be from inside a tick
(`Placed`, in `InTick`): a step that is due is fired before the tick ends and none is late once its track is
passed, so that on the tick a bar ends the tracks before the one at hand have fired the first step of the new
pattern and the others wait at theirs (`BarTaken`). Of a step's offset it uses only what `step_offset()`
clamps, that a step is not before the nominal tick of the one before it; how late it may be is open. That the
first free slot of the table and the last track with a lock exist needs the library's well-founded induction,
once each in a lemma (`Least`, `Greatest`). `LocksKept` says of a parameter that one track at most holds it
and keeps what the players left, or that its lock was dropped.

**The arpeggiator** (any number of players, keys and octaves, a list and a table of any size).
`InHand` is what each player's call knows between its steps, the reading of the parameters, the tap and the
router; `Settled` says that the map owns all of the list, and that what is down in the list, or owned without being in
it, has a key down or a note-off on its way to the tap, from which `OwnedIsDown` follows;
`OffOwed` says who owes each sounding note its note-off: the clock task's table, the key of a player who plays past the
arpeggiator, or a release the tap has let past.

**Persisted settings** (any number of editors and settings, any timer lengths,
any number of failures). `OnlyChosenStored` holds because shadow, snapshot and
what is stored only ever hold chosen values (`ChosenInv`), which is why the shadow is
filled by the listener and not read from the store. `EditKept` needs `KeptInv`:
outside the races only one `flush()` has a snapshot in the air, what persist
believes to be in flash is in flash except between the write and its record,
and where the snapshot and the shadow disagree the edit has been marked again.
Without NVS nothing is ever marked (`IdleInv`).

**The sampler** (any number of kits, slots and blocks, any length of a list). `NothingLost` becomes
inductive with a place for every block: `Apart` says that pads, stash, the list of an undo and
smp_ctl's hand never share one, `Covered` that what is allocated is in one of these, `Lists`
that a request names a slot once, so that a store never hits the same pad twice. `Restores` carries the
kit as it was before through a commit that stops in the middle and an undo that is half done.
While a kit is being cleared its stash is of pads that are gone, so `UndoRestores` excepts
`clear`; no undo can run then. Voices: `Hit` names those that play the block being replaced although
they are not late, and `Waited` says for each kind which boundary drops it, so that at
the store there is none. `CommitHasOwner` needs the two writers of the state in `Owned`.

**The looper** (any number of tracks, beats, buffers and moves; any number of handshakes given up).
`BuffersOutliveBlock` holds whatever goes wrong: `Memory` says that no two tracks share a
buffer, that the one loop_ctl waits to free is in no track, and that after a boundary
no block holds it either; `LetGo` is the same for the whole set, where a boundary counts only
once a block has taken the command to let go from the mailbox. `Moving` are the
flags of the transport. The other two invariants speak of what the buffers hold, and for
these loop_ctl must keep up (`InTime`: no handshake given up, no take overtaken). The conjuncts of
`Taken` say why a take fits: a track that is, or is commanded to be, recorded has `Room` for the
length the loop has or the first take's limit, and the memory taken for one that is not commanded yet
(`Grown`) also for whichever opens before it; a copy that is to replace a buffer is as good as it
(`Copied`), because no take is due on its track; a tail to pad (`Tails`) still ends where it
was cut, because the transport fades or stands. `Decoded` says that outside a fade what can be
mixed has been mixed since the top. Looking for this invariant showed two more ways to overtake,
told under *compacting* and *two takes* below. `CancelWins` follows from
`Standing`: an arm that can still fire has not been cancelled.

**The link** (any parameters, notes, engines, queue depth and retries; any number of moves and losses).
`ChangeNotForgotten` says that *something* is on its way; whether it will settle the difference
depends on what it carries and in what order it lands. `Known` therefore says of every parameter, once
the application has been greeted, that the last word on it is right. Either a write is under way and the
last one in line carries what the application shows (`Pushed`), where being refused puts a write at the head
again; or none is, and a report is still to read the value (`Coming`), or the last
one under way carries what the synth holds, or both hold the same (`Told`). That a write and a report
of one parameter are never both under way without being counted as crossed is `Parted`, for
the time from the listing on; without it neither could be said to be the last. `Taken` gives the
values a pass has read to the parameters it took. A pass that found nobody there drops
what it took, so `Alone` says that it is over before an application can have been greeted: no list is
told while it lasts. `Session` says that what is on its way down was sent in the present
connection, and `Keys`, for `NoNoteLeftOn`, that each key is held by the application, or ends
with the session, or has its release queued behind every press. Most of the proof is
about queues: which frame is the last of its kind once one is taken from the head, put
behind, or put back in front. The application remembers the last eight writes it sent
(`kSetSentHistory`) and can put back only these; the model remembers all, so the theorem speaks of
the code where no more than eight are unanswered, as the comment at `synthcontroller.cpp:1130-1132` has it.

*Only model-checked*: liveness (the prover does not handle `ENABLED` and fairness), which is `SwitchEnds`,
`RequestServed`, `EditEnds`, `SavedWhenLeft`, `ComesToRest` and `Synchronises`; and `SoundIsHeld` of chord
mode. That one is false in general, of several tasks that play (see *two tasks that play chords*) and of a key
whose own note is a tone of another key's chord (*a key whose entry mono mode released*); a theorem would have
to exclude both by hypotheses on tasks, settings and tones, which the run's instance meets. Every other safety
property of a run is a theorem.

## What the code does not keep

One run refutes what a comment of the repository says; it is the finding of
`PROJECT.json`, with the line and the comment:

* **sampler, a late hit** (`drums.cpp:841`). `drums_slot_replace()` asks for the slot to be silenced, waits
  two blocks, and stores the pad only then. The first block uses the request up before it drains the trigger
  ring; a hit drained in that block, or in the second, still finds the old pad and starts a voice on its
  block. The caller frees it, at once after an undo or a duplicate, with the next operation after an erase, a
  copy or a take, while the voice plays. `drums_priv.h:43` calls the wait "a guarantee rather than a hope", on
  the ground that the second block saw the new pointer. `drums.cpp:810-819` tells how the same gap was closed
  for a whole kit.

The same modules reach the following with other constants, or without an exception their
properties make. No passing run claims the contrary.

* *Arpeggiator, a latched key* (`seqarp.cpp:864`). A latched note stays owned after its key is up. Press the
  key again between switching the arpeggiator off and the clock's next poll: the note-on is played, its
  note-off swallowed, although `seqarp.cpp:26-29` says that a note-off is only swallowed when its note-on was
  (`swallowed` in `NoHungVoice`). `NoVoiceHangs`, with one player, two keys, a list and a table of one, both
  knobs, two presses and three turns.
* *Two tasks that play chords* (`chord.cpp:1108`). Notes are decided in the lock
  and played after it, so with two input tasks the note-off of one key overtakes the note-on
  of another key that shares its tone. The second is held and silent.
  `SoundIsHeld` with two `Players`, two keys and one setting.
* *Two tasks that edit the graph* (`graph_model.cpp:376`). `graph_model.h:37` says that the
  model belongs to one task; the BLE command task, the preset task and the switch task all use it,
  and two hand-overs overlap: one registers parameters under the plan the other has just published, or
  returns on the other's adoption and leaves the graph silent. Drop `disturbed` from `WalksValidPlan` or
  `EditLeavesPlan`. The model knows whether a plan's parameters are registered, not whether two overlapping
  edits left those of the right kind of node. The damage ends with the next edit that nothing overlaps.
* *An edit between snapshot and mark* (`persist.cpp:249-253`): `flush()` copies
  the shadow and then clears the mark of an edit the copy does not hold; it is not
  written until the next edit. Drop `Swallows(f)` from `FlushClear`.
* *A setting nudged for ever* (`persist.cpp:293`). The test for having settled comes
  before the test for being overdue, so the limit bounds only the wait for silence: a
  slider moved again within every three seconds is never written, which the
  comment at line 282 says cannot happen. `DeferBounded` with one setting, a settle
  time of two polls and a limit of five. The timer is one for all settings, so a second one,
  left alone meanwhile, is not written either: drop `Settles` from `SavedWhenLeft`.
* *Two flushes at once* (`ctrl_proto.cpp:505`): a save before a reboot that meets the writer task
  may write its older snapshot last. Drop `Overlaps(f)` from `FlushCopy`.
* *Two writers of `engine.type`* (`synth_params.cpp:171`): stores and listeners
  interleave, and the parameter may name one engine while the other is bound. Drop
  `crossed` from `ParamNamesEngine`.
* *A failed restore* (`engines.cpp:122`): nothing is bound, `s_active_type`
  goes on naming the old engine, and asking for that one again is ignored. It is the
  second case of `SettledConsistently`, which holds only while the restore that failed is the last one.
* *A preset's values on another engine* (`presets.cpp:847`): the load waits for
  the engine it asked for; a switch after the wait replaces the parameters it
  then writes. `EngineSwitch` reaches `ppc = "apply"` with `s_active_type # goal`.
* *A strummed tone after its release* (`chord.cpp:709`): decided in the lock,
  played after it, and the release in between has counted it. Drop
  `~Strummed(setting)` from `SoundIsHeld`.
* *A re-voice of an entry that moved* (`chord.cpp:820`), *a panic between whose two
  sections a key is pressed* (`chord.cpp:1143`): the count is off until the next panic (`miscounted` in `RefExact`).
  Drop it, with a tuner or a panic on another task than the player.
* *A tone shared between arpeggiator and voices* (`chord.cpp:588`): one count
  for both paths; whoever lets go last ends the note on its own path only.
* *A key held through a change of `chord.route` and pressed again*
  (`chord.cpp:1025`) gets a second entry; *a key whose entry mono mode released*
  (`chord.cpp:1128`) ends with a plain note-off that may cut a tone of the chord held now.
* *A block paused in its walk* (`graph_render.cpp:293`): after 30 ms without a
  block the hand-over takes the audio task for absent, and the slot or the parameters change under the walk.
  This too counts as `disturbed`, to the next hand-over of a task that has the graph to itself.
* *A set() across a re-registration* (`synth_params.cpp:171`) stores a value
  clamped for the old parameter in the slot of the new one. Drop `strayed` from
  `ValueInRange`.
* *Arpeggiator*: when two players hold the same note, one past the arpeggiator and
  one in its list, with `arp.hold` turned meanwhile, the one note-off is taken for
  the list (`swallowed`, again).
* *Sequencer, a lock over an edit of the graph* (`seq_play.cpp:56-59`, `204-207`). The generation is one
  for the whole store and moves at every `add()` and `removeRange()` (`synth_params.cpp:101`, `131`): an edit
  of the modular engine's graph registers the nodes that changed and leaves the values of the
  others (`graph_model.cpp:376-382`), and a lock on one of those is then dropped without being restored. The
  parameter stays at the locked value, which the next lock takes for the player's. That is the defect
  the comment at `seq_play.cpp:48-55` tells of for stable ids; for the `0x02xx` range it is still there. A registration
  anywhere else does the same. Drop `dropped` from `LocksRestored`.
* *Sequencer*: two tracks that lock one parameter leave it at the first
  one's value (`shared` in `LocksRestored`); a knob turned while its parameter
  is locked is overwritten at the release (`fought`); shortening the first
  track in mid-bar, or selecting another pattern between stop and continue,
  moves the bar's end off its steps.
* *Looper, the tail in a stop's fade* (`looper.cpp:651-653`): the comment has every
  decoder reset by a stop, but the fade of some 40 ms goes on decoding, and a tail padded in that time
  joins it in mid-pass. `TailInStep` with loops and fades of four, moves `rec`
  and `stop`.
* *Looper, the last beat* (`looper.cpp:1058`): a cancel between the clock task's
  decrement and its flag does not win; the take starts. `clk = "fire"` in `standing`.
* *Looper, play or stop over a count-in* (`looper.cpp:1076-1083`): cancelling writes the mode
  the arm came from back to `loop.mode`, and `ctl_handle_mode()` does not rewrite
  it, so the parameter names a mode that is not the one just commanded.
* *Looper, compacting under a take that is due* (`looper.cpp:999-1035`): `ctl_compact()` skips the
  track the audio task is writing when it looks. A punch-in that waits for the top, or a take
  whose command is still in the mailbox, may start on the track between the copy and the
  swap, and what it has written by then stays in the old buffer (`TakeDue`, which counts as `overtaken`).
* *Looper, two takes* (`looper.cpp:1230-1254`): while memory is grown for a first take, one commanded
  before on another track may open under the longer limit it was given; the set is then
  longer than the new take's buffer (`Outruns`, as well).
* *Looper, events that outlive what they are about*: the event that asks for a tail, or for
  playing on after a take, is handled after the set was cleared, loaded or
  replaced; a second take while the first is still open may replace its buffer or its limit
  when memory has grown meanwhile (`overtaken` in the invariants); and a command stored
  before the audio task took the last one replaces it. What a handshake given up
  may break is excused by `lates = 0`; that nothing in use is freed is not.
* *Link, a write that crosses a report* (`ctrl_proto.cpp:1658`). The application's
  own writes are not echoed, so when its write and the synth's report of another value pass each other, each side keeps
  what the other sent. Drop `crossed` from `ChangeNotForgotten`.
* *Link, a refused write that overtakes* (`synthcontroller.cpp:1128`): put back at the head of the
  queue, it lands after a later write of the same parameter that had already left, although the
  comment there means to keep the order.
* *Link, a press left in the queue* (`ctrl_proto.cpp:1746`): `ctrl_proto_link_down()`
  lets every key go on the host task while a note-on may still be queued for the protocol
  task, which then plays it, with nobody left to release it. `~s_conn => sounding = {}` with the
  move `key` and one fault. (With two presses of a key queued it is an orphan until the second has been
  played and let go.) A refused note-off leaves its note on too (`orphans`).
* *Link, an engine that went and came back* (`ctrl_proto.cpp:1669-1676`). `flush_events()` compares the
  engine with the one announced last, once a pass. When the engine changes and changes back between two
  passes with a listing told in between, the listing named the engine in between, nothing is
  announced, and the application keeps the wrong engine until the next change or connection. Drop
  `swung` from `InStep` and allow two changes of engine.
* *Link, answers lost for good* (`lost`): a BUSY that finds no buffer loses its
  write; a value read whose reply is lost is not asked again. A listing asked for by the
  last connection may reach the next one before `setConnected()` has wiped its state, and
  `s_announced_engine` stored after the send may overwrite the reset of a new client: the
  fallback after 300 ms covers both.

* *Sampler, no wait at all*: replacing a pad of a kit that was bound a moment ago does not wait
  (`drums.cpp:1108`), though its voices may still be in their block; and a counter that has not moved
  is taken for nobody rendering (`drums.cpp:697`), though voices keep their pointers over a pause of
  the audio task. Both are `"unwaited"` in `PadsOutliveVoices`.
* *Sampler, a stop taken early* (`sampler.cpp:890`): request and state are two stores; when `smp_ctl`, awake for
  something else, takes the request and ends the commit between them, the state that comes last says
  committing until the next press. Drop `early` from `CommitHasOwner`.
* *Sampler, a duplicate on a pad that was not cleared* (`sampler.cpp:1145`): where clearing a
  pad is refused and copying onto it is not, the block displaced is dropped, and the pool is smaller for good (`lost`).
* *Sampler, the gate and the state* (`sampler.cpp:440`, `774`, `885`): the audio task's store of recording, and the
  count-in's of waiting, are made from what was loaded before, so a take may run with the gate
  released; a press while a take is committed clears the length of that very take. `Sampler` reaches these states; its
  properties are about what they lead to.
* *Sampler, re-aiming in mid-take* (`sampler.cpp:845`): the slot is stored in every state, though the
  comment below it says that re-aiming mid-take is not a thing; the take goes to the new slot.

## Not modelled, and why

Signal processing (numbers, not states), drivers and codecs (register I/O), file
formats and wire formats, factory data, the Qt application beyond its copy of the
parameters, vendored libraries. Of the looper, the set streamed from the card and the
export; of the sampler, saving and loading kits, and that a pad is a structure a reader may find half
written; of the link, everything that is not parameters, engine and notes. The
hazards `PROJECT.json` lists without a property are in the plan.
Inside the modelled parts each module's head says what it abstracts: what
notes a chord has, what order an arpeggio takes, which conditions a step has, levels and
velocities. Timers are not numbers: a deadline may pass whenever its wait is pending,
except where a module says what the code's constants rule out.

## Plan

In this order, so that the most consequential behaviour comes first:

1. *Presets*: a set half written, the working state saved when left alone, a load
   beside a store.
2. *Slave clock and transport*: clock bytes late, bunched, lost over a start;
   the tick budget; flags handled in one wake (`seqarp.cpp:699-720`); the
   `seq.steps` mirror's read-modify-write against `OP_SEQ_TRACK`.
3. *Drum kit files*: saving and loading while pads are edited; the pad as a structure
   written field by field.
4. *Looper, on the card*: the streaming task's buffers, a card that is pulled, the
   export's handover.
5. *Audio pipeline*: credits and slots of the two stages.
6. *Graph compiler*: operators checked against a reference over small graphs.
7. *Proofs*: `SoundIsHeld` of `Chord` for one task, under hypotheses that keep plain notes apart from chords;
   that the modules of (1) to (4) keep what they state.

The project keeps to about a dozen runs: a new module takes the place of a run whose question
another one, or a theorem, has come to answer.

## Running it

```
tlc -config EngineSwitch_switch.cfg EngineSwitch_proof
tlapm EngineSwitch_proof.tla
```

and so for the other runs (`PROJECT.json` pairs module and cfg). The longest
runs, `voices`, `arp` and `graph`, take two to three minutes on two cores. From nothing, `Looper_proof` and
`SynthCore_proof` take about seven minutes each, `Link_proof` and `SeqArp_proof` two and a half, the other proofs
about five together.
