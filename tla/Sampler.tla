-------------------------------- MODULE Sampler -------------------------------
(***************************************************************************)
(* Pads that are recorded, erased, undone and copied while they are played:  *)
(* components/drums/drums.cpp, components/drums/sampler.cpp and the voices   *)
(* of components/engines/engine_sampler.cpp.                                 *)
(*                                                                         *)
(* Four tasks. The audio task starts voices from the pads, in the drum bus   *)
(* and in the sampler engine, and captures a take; smp_ctl commits takes and *)
(* edits pads, freeing the blocks they held; drum_ctl binds another kit; the *)
(* player's writes arrive in param_listener(). A voice keeps a raw pointer   *)
(* into a block, so smp_ctl bumps the kit's generation, asks for the slot to *)
(* be silenced and waits two render boundaries before it stores the pad.     *)
(*                                                                         *)
(* Abstracted: a block of samples is a number and a unit of the pool; of a   *)
(* generation a voice keeps whether it is still the kit's; the render        *)
(* counter is counted from where the wait read it; of all voices, of the drum *)
(* bus and of the engine, one is followed at a time, and none that plays a   *)
(* factory pad, whose data is never freed; a note or a hit may come in any   *)
(* block; erase, undo, copy and duplicate are requests smp_ctl may find      *)
(* whenever it wakes; a take is below or above the floor of a take. What     *)
(* only its own task can see is one step with what follows it; a pad is      *)
(* read, and stored, in one step.                                            *)
(* Saving, mixes, names, gains, monitoring and the audio are left out.       *)
(***************************************************************************)
EXTENDS Integers, FiniteSets, Sequences, SequencesExt

CONSTANTS
  UserKits,   \* the recordable kits
  NumSlots,   \* DRUM_SLOTS
  Blocks,     \* the pool: blocks of one unit
  MaxSlices,  \* the largest smp.slices
  None,       \* no pad, no block, no slot
  MaxMoves    \* bound: requests of the player, of every kind

Factory == 0
RomData == 0          \* a factory pad: never freed
Kits    == UserKits \cup {Factory}
Slots   == 0 .. NumSlots - 1

ASSUME KitAssumption  == UserKits \subseteq Nat \ {0}
ASSUME PoolAssumption == Blocks \subseteq Nat \ {0} /\ Blocks # {} /\ None \notin Nat
ASSUME SizeAssumption == NumSlots \in Nat \ {0} /\ MaxSlices \in 1 .. NumSlots

VARIABLES
  s_kit, s_kit_current, s_kill_voices, s_last_kit,
  s_kill_slot,
  boundaries,  \* blocks ended since wait_render_boundaries() began, up to two
  pads,        \* every kit's slots: the block behind each
  live,        \* blocks allocated from the pool
  s_undo,      \* kit, and what each slot held
  pc, job,     \* smp_ctl: where it is, and its locals
  dpc, want,   \* drum_ctl
  apc,         \* the audio task: its place in the block
  kit, key,    \* its locals: the drum bus's kit, the pad a key has found
  voice,       \* the voice followed: of the engine or the drum bus, and its pointer
  st,          \* the recorder's state as this block loaded it
  s_state, s_arm_slot, s_gate, s_stop_req, s_req_countin,
  take,        \* s_take_len: "none", "short" of the floor, "long"
  ppc, moves,  \* param_listener()
  \* history
  before,      \* the pads before the operation the stash can undo
  lost,        \* blocks nothing will free any more
  early        \* smp_ctl took a request before the state that goes with it

kits   == <<s_kit, s_kit_current, s_kill_voices, s_last_kit>>
hand   == <<s_kill_slot, boundaries>>
memory == <<pads, live, s_undo, before>>
ctl    == <<pc, job>>
dctl   == <<dpc, want>>
audio  == <<apc, kit, key, voice, st>>
rec    == <<s_state, s_arm_slot, s_gate, s_stop_req, s_req_countin, take>>
player == <<ppc, moves>>
vars   == <<kits, hand, memory, ctl, dctl, audio, rec, player, lost, early>>

NoJob   == [kind |-> "none", kit |-> Factory, from |-> Factory, slot |-> 0, data |-> None,
            todo |-> <<>>, waited |-> TRUE, refused |-> FALSE]
NoKey   == [data |-> None, late |-> "no"]
NoVoice == [of |-> "none", data |-> None, slot |-> None, current |-> FALSE, late |-> "no"]
NoUndo  == [kit |-> Factory, prev |-> <<>>]
NoPads  == [s \in Slots |-> None]

-----------------------------------------------------------------------------
(* The pool and the places a block can be in.                                *)

First    == CHOOSE b \in Blocks : TRUE
NewBlock == CHOOSE b \in Blocks \ live : TRUE
Stashed  == {s_undo.prev[s] : s \in DOMAIN s_undo.prev} \ {None}
Recorded(k) == {s \in Slots : pads[k][s] # None}

\* smp_ctl is replacing the pad of this block: the generation is bumped, or
\* the kill is on its way too. A voice that begins then has come late, one that
\* smp_ctl does not wait for counts as unwaited.
Bumped(b) == pc \in {"kill", "wait", "store"} /\ b = pads[job.kit][job.slot]
Killed(b) == pc \in {"wait", "store"} /\ b = pads[job.kit][job.slot]

Late(happens) == IF ~happens THEN "no" ELSE IF job.waited THEN "began" ELSE "unwaited"
GoOn(waited) ==
  LET late(v) == IF ~waited /\ Bumped(v.data) THEN "unwaited" ELSE v.late IN
  /\ job' = [job EXCEPT !.waited = waited]
  /\ voice' = [voice EXCEPT !.late = late(voice)] /\ key' = [key EXCEPT !.late = late(key)]

\* A recordable kit bound and a pad armed earlier, and one pad a storage had.
Init ==
  /\ s_kit \in UserKits /\ s_kit_current = s_kit /\ s_last_kit = s_kit
  /\ s_kill_voices = FALSE /\ s_kill_slot = None /\ boundaries = 2
  /\ live \in {{}, {First}}
  /\ \E k \in UserKits : pads = [i \in Kits |-> [s \in Slots |->
       IF i = Factory THEN RomData
       ELSE IF i = k /\ s = 0 /\ live # {} THEN First ELSE None]]
  /\ s_undo = NoUndo /\ before = NoPads
  /\ pc = "idle" /\ job = NoJob /\ dpc = "idle" /\ want = Factory
  /\ apc = "notes" /\ kit = Factory /\ key = NoKey /\ voice = NoVoice /\ st = "idle"
  /\ s_arm_slot = 0 /\ s_state = "armed"
  /\ s_gate = FALSE /\ s_stop_req = FALSE /\ s_req_countin = FALSE /\ take = "none"
  /\ ppc = "idle" /\ moves = 0 /\ lost = {} /\ early = FALSE

Move == moves < MaxMoves /\ moves' = moves + 1

-----------------------------------------------------------------------------
(* The audio task, one block: voice_manager_render() with the sampler engine, *)
(* drums_pre_fx(), drums_post_fx(), sampler_capture().                        *)

\* smp_note_on(): the pad is read ...
KeyOn(s) ==
  /\ apc = "notes" /\ apc' = "arm"
  /\ pads[s_kit][s] \in Blocks
  /\ key' = [data |-> pads[s_kit][s], late |-> Late(Bumped(pads[s_kit][s]))]
  /\ UNCHANGED <<kits, hand, memory, ctl, dctl, kit, voice, st, rec, player, lost, early>>

\* ... and arm_voice() reads the generation after it.
KeyArm ==
  /\ apc = "arm" /\ apc' = "begin"
  /\ voice' = [of |-> "engine", data |-> key.data, slot |-> None, current |-> TRUE,
               late |-> IF key.late = "no" THEN Late(Bumped(key.data)) ELSE key.late]
  /\ key' = NoKey
  /\ UNCHANGED <<kits, hand, memory, ctl, dctl, kit, st, rec, player, lost, early>>

\* smp_begin_block(), and smp_render() drops a voice of another generation.
BeginBlock ==
  /\ apc \in {"notes", "begin"} /\ apc' = "kit"
  /\ voice' = IF voice.of = "engine" /\ ~voice.current THEN NoVoice ELSE voice
  /\ UNCHANGED <<kits, hand, memory, ctl, dctl, kit, key, st, rec, player, lost, early>>

\* drums_pre_fx(): a kill, or the pointer having moved, clears every voice.
LoadKit ==
  /\ apc = "kit" /\ apc' = "drain"
  /\ kit' = s_kit
  /\ voice' = IF voice.of = "drum" /\ (s_kill_voices \/ s_kit # s_last_kit)
              THEN NoVoice ELSE voice
  /\ s_kill_voices' = FALSE /\ s_last_kit' = s_kit
  /\ UNCHANGED <<s_kit, s_kit_current, hand, memory, ctl, dctl, key, st, rec, player,
                 lost, early>>

\* The slot to silence, the trigger ring, the rendering, in which a voice may
\* run out, and the boundary. sampler_capture() then loads the recorder's state.
Drain ==
  /\ apc = "drain"
  /\ s_kill_slot' = None
  /\ LET kept == IF voice.of = "drum" /\ voice.slot = s_kill_slot THEN NoVoice ELSE voice
         hits == {s \in Slots : pads[kit][s] \in Blocks}
     IN \/ voice' \in {kept, NoVoice}
        \/ \E s \in hits :
             voice' = [of |-> "drum", data |-> pads[kit][s], slot |-> s, current |-> FALSE,
                       late |-> Late(Killed(pads[kit][s]))]
  /\ boundaries' = IF boundaries < 2 THEN boundaries + 1 ELSE 2
  /\ IF s_state \in {"waiting", "recording"} THEN apc' = "capture" /\ st' = s_state
                                             ELSE apc' = "notes" /\ st' = "idle"
  /\ kit' = Factory
  /\ UNCHANGED <<kits, memory, ctl, dctl, key, rec, player, lost, early>>

\* sampler_capture(): a take starts on the sound, and goes on to its ceiling.
Capture ==
  /\ apc = "capture"
  /\ \/ st = "waiting" /\ apc' = "notes" /\ UNCHANGED <<s_state, take>>
     \/ /\ s_state' = IF st = "waiting" THEN "recording" ELSE s_state
        /\ take' \in IF st = "recording" /\ take = "long" THEN {"long"} ELSE {"short", "long"}
        /\ apc' \in IF take' = "long" THEN {"notes", "full"} ELSE {"notes"}
  /\ st' = "idle"
  /\ UNCHANGED <<kits, hand, memory, ctl, dctl, kit, key, voice, s_arm_slot, s_gate,
                 s_stop_req, s_req_countin, player, lost, early>>

\* The ceiling: the request first, the state after it.
CaptureFull ==
  /\ \/ apc = "full" /\ apc' = "committing" /\ s_stop_req' = TRUE /\ UNCHANGED s_state
     \/ apc = "committing" /\ apc' = "notes" /\ s_state' = "committing" /\ UNCHANGED s_stop_req
  /\ UNCHANGED <<kits, hand, memory, ctl, dctl, kit, key, voice, st, s_arm_slot, s_gate,
                 s_req_countin, take, player, lost, early>>

Audio == \/ \E s \in Slots : KeyOn(s)
         \/ KeyArm \/ BeginBlock \/ LoadKit \/ Drain \/ Capture \/ CaptureFull

-----------------------------------------------------------------------------
(* drum_ctl: drums_kit_select(). Nothing follows its wait, whose result it    *)
(* ignores, but the mix.                                                      *)

SelectKit(k) ==
  /\ dpc = "idle" /\ k # s_kit_current /\ Move
  /\ s_kill_voices' = TRUE
  /\ want' = k /\ dpc' = "bump"
  /\ UNCHANGED <<s_kit, s_kit_current, s_last_kit, hand, memory, ctl, audio, rec, ppc,
                 lost, early>>

SelectBump ==
  /\ dpc = "bump" /\ dpc' = "bind"
  /\ voice' = [voice EXCEPT !.current = FALSE]
  /\ UNCHANGED <<kits, hand, memory, ctl, want, apc, kit, key, st, rec, player, lost,
                 early>>

SelectBind ==
  /\ dpc = "bind" /\ dpc' = "idle"
  /\ s_kit' = want /\ s_kit_current' = want /\ want' = Factory
  /\ UNCHANGED <<s_kill_voices, s_last_kit, hand, memory, ctl, audio, rec, player, lost,
                 early>>

-----------------------------------------------------------------------------
(* smp_ctl.                                                                   *)

Idle == pc = "idle"
Begin(kind, k, from, todo) ==
  job' = [NoJob EXCEPT !.kind = kind, !.kit = k, !.from = from, !.todo = todo]

\* commit_take(), up to undo_begin(): where the take goes and in how many cuts.
Writable == s_arm_slot # None /\ s_kit_current # Factory
OpenTake ==
  /\ Idle /\ s_stop_req
  /\ s_stop_req' = FALSE
  /\ s_state' = "committing"
  /\ early' = (early \/ apc = "committing" \/ ppc = "committing")
  /\ \/ ~Writable /\ pc' = "drop" /\ UNCHANGED <<job, live, s_undo, before>>
     \/ Writable /\ take # "long" /\ pc' = "short" /\ UNCHANGED <<job, live, s_undo, before>>
     \/ /\ Writable /\ take = "long" /\ pc' = "next"
        /\ \E n \in 1 .. MaxSlices :
             Begin("commit", s_kit_current, Factory,
                   [i \in 1 .. n |-> [slot |-> (s_arm_slot + i - 1) % NumSlots,
                                      src |-> None]])
        /\ live' = live \ Stashed /\ s_undo' = [NoUndo EXCEPT !.kit = s_kit_current]
        /\ before' = pads[s_kit_current]
  /\ UNCHANGED <<kits, hand, pads, dctl, audio, s_arm_slot, s_gate, s_req_countin, take,
                 player, lost>>

\* Mutation: a dropped take returns without publishing a state.
DropTakeSilent ==
  /\ pc \in {"drop", "short"} /\ pc' = "idle"
  /\ UNCHANGED <<kits, hand, memory, job, dctl, audio, rec, player, lost, early>>

DropTake ==
  /\ pc \in {"drop", "short"} /\ pc' = "idle"
  /\ s_state' = IF pc = "drop" /\ s_arm_slot = None THEN "idle" ELSE "armed"
  /\ UNCHANGED <<kits, hand, memory, job, dctl, audio, s_arm_slot, s_gate, s_stop_req,
                 s_req_countin, take, player, lost, early>>

\* run_countin(): given up when the gate is released before the beats are over ...
CountIn ==
  /\ \/ /\ Idle /\ s_req_countin
        /\ s_req_countin' = FALSE
        /\ pc' = IF s_gate THEN "countin" ELSE "idle"
     \/ /\ pc = "countin" /\ UNCHANGED s_req_countin
        /\ pc' = IF s_gate /\ s_state = "armed" THEN "counted" ELSE "idle"
  /\ UNCHANGED <<kits, hand, memory, job, dctl, audio, s_state, s_arm_slot, s_gate,
                 s_stop_req, take, player, lost, early>>

\* ... and then the recorder is opened.
CountedIn ==
  /\ pc = "counted" /\ pc' = "idle"
  /\ take' = "none" /\ s_state' = "waiting"
  /\ UNCHANGED <<kits, hand, memory, job, dctl, audio, s_arm_slot, s_gate, s_stop_req,
                 s_req_countin, player, lost, early>>

\* What sampler_erase(), sampler_undo(), sampler_copy_pad() and
\* sampler_dup_kit() begin with.
Edit ==
  /\ Idle /\ Move
  /\ pc' = "next"
  /\ \/ \E s \in Recorded(s_kit_current) :
          /\ s_kit_current # Factory
          /\ Begin("erase", s_kit_current, Factory, <<[slot |-> s, src |-> None]>>)
          /\ UNCHANGED s_undo
     \/ /\ DOMAIN s_undo.prev # {}
        /\ Begin("undo", s_undo.kit, Factory,
                 SetToSeq({[slot |-> s, src |-> s_undo.prev[s]] : s \in DOMAIN s_undo.prev}))
        /\ s_undo' = NoUndo
     \/ \E k \in Kits, s \in Slots :
          /\ s_kit_current # Factory /\ Recorded(k) # {}
          /\ Begin("copy", s_kit_current, Factory, <<[slot |-> s, src |-> None]>>)
          /\ UNCHANGED s_undo
     \/ \E k \in UserKits \ {s_kit_current} :
          /\ Cardinality(live) + Cardinality(Recorded(s_kit_current)) <= Cardinality(Blocks)
          /\ Begin("clear", k, s_kit_current,
                   SetToSeq({[slot |-> s, src |-> None] : s \in Recorded(k)}))
          /\ UNCHANGED s_undo
  /\ UNCHANGED <<kits, hand, pads, live, before, dctl, audio, rec, ppc, lost, early>>

\* Each pad: bake() or the allocation of a copy, which may fail and ends the
\* edit, or what an erase and an undo publish; then drums_slot_replace()
\* bumps the generation.
NextPad ==
  /\ pc = "next" /\ job.todo # <<>>
  /\ pc' = "kill"
  /\ voice' = [voice EXCEPT !.current = FALSE]
  /\ LET copies == job.kind \in {"commit", "copy", "dup"}
         data == IF copies THEN NewBlock ELSE Head(job.todo).src
     IN /\ copies => live # Blocks
        /\ live' = IF copies THEN live \cup {data} ELSE live
        /\ job' = [job EXCEPT !.slot = Head(job.todo).slot, !.data = data,
                              !.todo = Tail(job.todo)]
  /\ UNCHANGED <<kits, hand, pads, s_undo, before, dctl, apc, kit, key, st, rec, player,
                 lost, early>>

NoMemory ==
  /\ pc = "next" /\ job.todo # <<>> /\ job.kind \in {"commit", "copy", "dup"}
  /\ job' = [job EXCEPT !.todo = <<>>]
  /\ UNCHANGED <<kits, hand, memory, pc, dctl, audio, rec, player, lost, early>>

\* The kill and the wait, neither for a kit that is not bound.
Kill ==
  /\ pc = "kill"
  /\ IF job.kit = s_kit
     THEN s_kill_slot' = job.slot /\ boundaries' = 0 /\ pc' = "wait"
     ELSE pc' = "store" /\ UNCHANGED <<s_kill_slot, boundaries>>
  /\ GoOn(job.kit = s_kit)
  /\ UNCHANGED <<kits, memory, dctl, apc, kit, st, rec, player, lost, early>>

\* Mutation: one boundary is taken to be enough.
WaitOne ==
  /\ pc = "wait"
  /\ pc' = "store" /\ boundaries' = 2
  /\ GoOn(boundaries > 0)
  /\ UNCHANGED <<kits, s_kill_slot, memory, dctl, apc, kit, st, rec, player, lost, early>>

\* A counter that has not moved in 500 ms counts as nobody rendering.
Wait ==
  /\ pc = "wait" /\ boundaries \in {0, 2}
  /\ pc' = "store" /\ boundaries' = 2
  /\ GoOn(boundaries > 0)
  /\ UNCHANGED <<kits, s_kill_slot, memory, dctl, apc, kit, st, rec, player, lost, early>>

\* Mutation: a refused replacement keeps the block nobody will publish.
RefusedKeeps ==
  /\ pc = "wait" /\ boundaries > 0
  /\ pc' = "next" /\ boundaries' = 2
  /\ s_kill_slot' = None
  /\ job' = [job EXCEPT !.data = None, !.refused = TRUE,
                        !.todo = IF job.kind \in {"commit", "dup"} THEN <<>> ELSE job.todo]
  /\ UNCHANGED <<kits, memory, dctl, audio, rec, player, lost, early>>

\* Timed out after a boundary: nothing is stored, and the caller gives up the
\* block it had for the pad. A commit and a duplicate stop there.
Refused ==
  /\ pc = "wait" /\ boundaries > 0
  /\ pc' = "next" /\ boundaries' = 2
  /\ s_kill_slot' = None
  /\ live' = live \ {job.data}
  /\ job' = [job EXCEPT !.data = None, !.refused = TRUE,
                        !.todo = IF job.kind \in {"commit", "dup"} THEN <<>> ELSE job.todo]
  /\ UNCHANGED <<kits, pads, s_undo, before, dctl, audio, rec, player, lost, early>>

\* The store, and what the caller does with the pad it displaced: stash it,
\* for erase and copy in place of the last stash; free it; or, where a
\* duplicate copies onto what should be a cleared pad, forget it.
Record(undo, slot, old) ==
  [undo EXCEPT !.prev = [s \in DOMAIN undo.prev \cup {slot} |->
                           IF s = slot THEN old ELSE undo.prev[s]]]
Store ==
  /\ pc = "store" /\ pc' = "next"
  /\ pads' = [pads EXCEPT ![job.kit][job.slot] = job.data]
  /\ job' = [job EXCEPT !.data = None, !.waited = TRUE]
  /\ LET old == pads[job.kit][job.slot] IN
     \/ /\ job.kind = "commit"
        /\ s_undo' = Record(s_undo, job.slot, old)
        /\ UNCHANGED <<live, before, lost>>
     \/ /\ job.kind \in {"erase", "copy"}
        /\ live' = live \ Stashed
        /\ s_undo' = Record([NoUndo EXCEPT !.kit = job.kit], job.slot, old)
        /\ before' = pads[job.kit]
        /\ UNCHANGED lost
     \/ /\ job.kind \in {"undo", "clear"}
        /\ live' = live \ {old}
        /\ UNCHANGED <<s_undo, before, lost>>
     \/ /\ job.kind = "dup"
        /\ lost' = lost \cup ({old} \ {None})
        /\ UNCHANGED <<live, s_undo, before>>
  /\ UNCHANGED <<kits, hand, dctl, audio, rec, player, early>>

\* The end of an edit; that of a duplicate's clearing is where it sets out to
\* copy, the stash dropped.
EndEdit ==
  /\ pc = "next" /\ job.todo = <<>>
  /\ IF job.kind = "clear"
     THEN /\ live' = live \ Stashed /\ s_undo' = NoUndo
          /\ Begin("dup", job.kit, Factory,
                   SetToSeq({[slot |-> s, src |-> None] : s \in Recorded(job.from)}))
          /\ UNCHANGED pc
     ELSE pc' = "idle" /\ job' = NoJob /\ UNCHANGED <<live, s_undo>>
  /\ before' = IF DOMAIN s_undo'.prev = {} THEN NoPads ELSE before
  /\ IF job.kind = "commit" THEN take' = "none" /\ s_state' = "armed"
                            ELSE UNCHANGED <<take, s_state>>
  /\ UNCHANGED <<kits, hand, pads, dctl, audio, s_arm_slot, s_gate, s_stop_req,
                 s_req_countin, player, lost, early>>

SmpCtl == \/ OpenTake \/ DropTake \/ CountIn \/ CountedIn
          \/ NextPad \/ NoMemory \/ Kill \/ Wait \/ Refused \/ Store \/ EndEdit

-----------------------------------------------------------------------------
(* The player: param_listener(), which loads the state and then publishes.   *)

ArmSlot(x) ==
  /\ ppc = "idle" /\ Move
  /\ s_arm_slot' = x
  /\ ppc' = IF s_state \in {"idle", "armed"} THEN "arming" ELSE "idle"
  /\ UNCHANGED <<kits, hand, memory, ctl, dctl, audio, s_state, s_gate, s_stop_req,
                 s_req_countin, take, lost, early>>

Press ==
  /\ ppc = "idle" /\ Move
  /\ ~s_gate /\ s_gate' = TRUE
  /\ \/ s_arm_slot = None /\ UNCHANGED <<s_state, s_req_countin, take>>
     \/ s_arm_slot # None /\ s_req_countin' = TRUE /\ UNCHANGED <<s_state, take>>
     \/ s_arm_slot # None /\ take' = "none" /\ s_state' = "waiting" /\ UNCHANGED s_req_countin
  /\ UNCHANGED <<kits, hand, memory, ctl, dctl, audio, s_arm_slot, s_stop_req, ppc, lost,
                 early>>

Release ==
  /\ ppc = "idle" /\ Move
  /\ s_gate /\ s_gate' = FALSE
  /\ ppc' = CASE s_state = "recording" -> "stopping"
              [] s_state = "waiting"   -> "closing"
              [] OTHER                 -> "idle"
  /\ UNCHANGED <<kits, hand, memory, ctl, dctl, audio, s_state, s_arm_slot, s_stop_req,
                 s_req_countin, take, lost, early>>

Publish ==
  /\ ppc # "idle"
  /\ ppc' = IF ppc = "stopping" THEN "committing" ELSE "idle"
  /\ s_stop_req' = (s_stop_req \/ ppc = "stopping")
  /\ s_state' = CASE ppc = "arming"     -> IF s_arm_slot = None THEN "idle" ELSE "armed"
                  [] ppc = "closing"    -> "armed"
                  [] ppc = "committing" -> "committing"
                  [] OTHER              -> s_state
  /\ UNCHANGED <<kits, hand, memory, ctl, dctl, audio, s_arm_slot, s_gate, s_req_countin,
                 take, moves, lost, early>>

Player == \/ \E x \in Slots \cup {None} : ArmSlot(x)
          \/ Press \/ Release \/ Edit
          \/ \E k \in Kits : SelectKit(k)

Next == Audio \/ SmpCtl \/ SelectBump \/ SelectBind \/ Publish \/ Player

Spec == Init /\ [][Next]_vars

-----------------------------------------------------------------------------
(* Properties.                                                                *)

TypeOK ==
  /\ s_kit \in Kits /\ s_kit_current \in Kits /\ s_last_kit \in Kits
  /\ kit \in Kits /\ want \in Kits
  /\ s_kill_slot \in Slots \cup {None} /\ boundaries \in 0 .. 2
  /\ pads \in [Kits -> [Slots -> Blocks \cup {RomData, None}]] /\ live \subseteq Blocks
  /\ s_undo.kit \in Kits /\ DOMAIN s_undo.prev \subseteq Slots
  /\ before \in [Slots -> Blocks \cup {None}] /\ lost \subseteq Blocks
  /\ pc \in {"idle", "drop", "short", "countin", "counted", "next", "kill", "wait", "store"}
  /\ dpc \in {"idle", "bump", "bind"}
  /\ apc \in {"notes", "arm", "begin", "kit", "drain", "capture", "full", "committing"}
  /\ ppc \in {"idle", "arming", "stopping", "closing", "committing"}
  /\ s_state \in {"idle", "armed", "waiting", "recording", "committing"}
  /\ st \in {"idle", "waiting", "recording"}
  /\ s_arm_slot \in Slots \cup {None} /\ take \in {"none", "short", "long"}
  /\ s_kill_voices \in BOOLEAN /\ s_gate \in BOOLEAN /\ s_stop_req \in BOOLEAN
  /\ s_req_countin \in BOOLEAN /\ early \in BOOLEAN

\* The block a voice plays is not freed before the voice has let go of it,
\* unless the voice began in the very blocks drums_slot_replace() was waiting
\* for, or smp_ctl did not wait: the kit is not bound any more, or the counter
\* has not moved.
PadsOutliveVoices ==
  /\ TypeOK
  /\ \A v \in {voice, key} : v.late # "no" \/ v.data \in live \cup {None}

\* The same of every voice smp_ctl has waited two boundaries for, whenever it
\* began: drums_priv.h says of drums_slot_replace() that the wait "is what makes
\* step 2 a guarantee rather than a hope". It is not kept: the kill is used up in
\* the first block, and a hit in the second starts a voice on the old block.
WaitIsGuarantee == voice.late = "unwaited" \/ voice.data \in live \cup {None}

\* Every block of the pool is in one place, a pad, the stash or smp_ctl's hand;
\* only a duplicate loses one, on a pad whose clearing was refused.
Homes(b) == {<<"pad", k, s>> : k \in {i \in Kits : \E s \in Slots : pads[i][s] = b},
                               s \in {i \in Slots : \E k \in Kits : pads[k][i] = b}}
            \cup {<<"stash", s>> : s \in {i \in DOMAIN s_undo.prev : s_undo.prev[i] = b}}
            \cup {<<"todo", i>> : i \in {j \in DOMAIN job.todo : job.todo[j].src = b}}
            \cup (IF job.data = b THEN {<<"hand">>} ELSE {})
PoolExact ==
  \A b \in Blocks : LET n == Cardinality(Homes(b)) IN
    n = IF b \in live \ lost THEN 1 ELSE 0

\* What the stash holds, put back, is the kit as the last operation found it,
\* and an undo that is not refused gets there. A duplicate that clears its kit
\* leaves the stash behind, and drops it before anybody can use it.
Undone(k, prev) == [s \in Slots |-> IF s \in DOMAIN prev THEN prev[s] ELSE pads[k][s]]
Pending == [s \in {job.todo[i].slot : i \in DOMAIN job.todo} \cup
                  (IF pc = "next" THEN {} ELSE {job.slot}) |->
              IF \E i \in DOMAIN job.todo : job.todo[i].slot = s
              THEN job.todo[CHOOSE i \in DOMAIN job.todo : job.todo[i].slot = s].src
              ELSE job.data]
UndoRestores ==
  /\ DOMAIN s_undo.prev # {} /\ job.kind # "clear" => Undone(s_undo.kit, s_undo.prev) = before
  /\ job.kind = "undo" /\ ~job.refused => Undone(job.kit, Pending) = before

NothingLost == PoolExact /\ UndoRestores

\* A recorder that shows a take being committed has smp_ctl at work on it or
\* asked to be, so it does not show it for good: unless smp_ctl took the request
\* before its requester had stored the state, and the state came last.
Committing == pc \in {"drop", "short"} \/ job.kind = "commit"
CommitHasOwner == s_state = "committing" => s_stop_req \/ Committing \/ early
=============================================================================
