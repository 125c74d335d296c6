---------------------------- MODULE EngineSwitch ----------------------------
(***************************************************************************)
(* Live engine switching: components/engines/engines.cpp with the half of  *)
(* components/synth_core/synth_voice.cpp it drives (set_engine, the detach *)
(* handshake, the mute ramp) and the engine.type parameter that asks for a *)
(* switch.                                                                 *)
(*                                                                         *)
(* Tasks: the audio task (one render call per block), the eng_switch task, *)
(* any number of tasks that write engine.type (MIDI program change, BLE),  *)
(* and the preset task, which requests an engine and waits for it.         *)
(* ParamStore::set is two steps of its caller: the atomic store of the     *)
(* value, then the listener, because no lock spans the two.                *)
(***************************************************************************)
EXTENDS Naturals, FiniteSets

CONSTANTS
  Types,       \* the values of engine.type
  Built,       \* those engines_get() has an engine for
  Boot,        \* the engine bound by engines_init()
  Writers,     \* the tasks that write engine.type and walk on
  Loads,       \* the engines the preset task may be asked to load a patch for
  None,        \* null pointer, no pending value
  SeqMod,      \* s_render_seq counts modulo this (2^32 in the code)
  MuteSteps,   \* blocks the mute ramp takes (1 / kMuteStep, 8 in the code)
  Faults,      \* what may go wrong: subset of {"stall", "init", "memory"}
  MaxWrites    \* how many requests the writers and the preset task may make

ASSUME TypesAssumption  == /\ Boot \in Built
                           /\ Built \subseteq Types
                           /\ Loads \subseteq Types
                           /\ None \notin Types
                           /\ None \notin Writers
ASSUME NumberAssumption == /\ SeqMod \in Nat
                           /\ SeqMod > 2
                           /\ MuteSteps \in Nat \ {0}
                           /\ MaxWrites \in Nat
ASSUME FaultAssumption  == Faults \subseteq {"stall", "init", "memory"}

VARIABLES
  \* shared with the audio task
  s_engine,        \* the bound engine, or None
  s_pool,          \* the engine whose voice states the heap block holds, or None
  s_render_seq,    \* render calls finished
  s_mute_target,   \* 0 or MuteSteps
  s_mute_gain,     \* 0..MuteSteps
  \* the audio task
  block,           \* is a render call running?
  using,           \* the engine it loaded, or None
  \* parameters and requests
  engine_type,     \* the value of engine.type
  s_params,        \* engines with parameters in the 0x02xx range
  s_requested,
  s_active_type,
  notified,        \* eng_switch's task notification
  pending,         \* writer -> value stored whose listener has not run, or None
  writes,
  \* the preset task
  ppc, goal,
  \* the eng_switch task
  pc, want, cur, old, start,
  late,            \* has the deadline of the running wait passed?
  \* history
  history          \* "crossed": a listener was told a value no longer stored;
                   \* "failed": a step of a switch failed or timed out;
                   \* "unrestored": the last switch to detach could not bind
                   \* its old engine again either

shared  == <<s_engine, s_pool, s_render_seq, s_mute_target, s_mute_gain>>
audio   == <<block, using>>
request == <<engine_type, s_requested, notified, pending, writes>>
preset  == <<ppc, goal>>
local   == <<pc, want, cur, old, start, late>>
bound   == <<s_params, s_active_type>>
vars    == <<shared, audio, request, preset, local, bound, history>>

PresetPCs == {"idle", "check", "listen", "wait", "apply"}
SwitchPCs == {"take", "read", "refuse", "refuse_listen", "mute", "settle",
              "exchange", "start", "poll", "deadline", "free", "deinit",
              "init", "alloc", "publish", "commit", "scrub", "reinit",
              "realloc", "republish", "revert", "relisten", "unmute"}

(* engines_init(): the boot engine is registered and bound, the switch task *)
(* is parked on its notification, the audio task has not rendered yet.      *)
Init ==
  /\ s_engine = Boot
  /\ s_pool = Boot
  /\ s_render_seq = 0
  /\ s_mute_target = MuteSteps
  /\ s_mute_gain = MuteSteps
  /\ block = FALSE
  /\ using = None
  /\ engine_type = Boot
  /\ s_params = {Boot}
  /\ s_requested = None
  /\ s_active_type = Boot
  /\ notified = FALSE
  /\ pending = [w \in Writers |-> None]
  /\ writes = 0
  /\ ppc = "idle"
  /\ goal = Boot
  /\ pc = "take"
  /\ want = Boot
  /\ cur = Boot
  /\ old = None
  /\ start = 0
  /\ late = FALSE
  /\ history = {}

-----------------------------------------------------------------------------
(* The audio task: voice_manager_render(). It loads the engine once and     *)
(* works with it, and with the pool behind it, until the block is done. A   *)
(* stalled audio task simply takes no step.                                 *)

Ramp(gain, target) == IF gain < target THEN gain + 1
                      ELSE IF gain > target THEN gain - 1
                      ELSE gain

BlockBegin ==
  /\ ~block
  /\ block' = TRUE
  /\ using' = s_engine
  /\ UNCHANGED <<shared, request, preset, local, bound, history>>

BlockEnd ==
  /\ block
  /\ block' = FALSE
  /\ using' = None
  /\ s_mute_gain' = Ramp(s_mute_gain, s_mute_target)
  /\ s_render_seq' = IF s_render_seq = SeqMod - 1 THEN 0 ELSE s_render_seq + 1
  /\ UNCHANGED <<s_engine, s_pool, s_mute_target, request, preset, local, bound, history>>

-----------------------------------------------------------------------------
(* Writers of engine.type. *)

WriteStore(w, t) ==
  /\ pending[w] = None
  /\ writes < MaxWrites
  /\ writes' = writes + 1
  /\ engine_type' = t
  /\ pending' = [pending EXCEPT ![w] = t]
  /\ UNCHANGED <<s_requested, notified, shared, audio, preset, local, bound, history>>

(* A listener runs after the store, and other stores may have come between. *)
Heard(t) == history' = IF t = engine_type THEN history ELSE history \cup {"crossed"}

\* Mutation: remembers the request and wakes nobody.
WriteListenSilent(w) ==
  /\ pending[w] # None
  /\ s_requested' = pending[w]
  /\ pending' = [pending EXCEPT ![w] = None]
  /\ Heard(pending[w])
  /\ UNCHANGED <<engine_type, notified, writes, shared, audio, preset, local, bound>>

(* engine_type_listener: remember the request, wake the switch task. *)
WriteListen(w) ==
  /\ pending[w] # None
  /\ s_requested' = pending[w]
  /\ notified' = TRUE
  /\ pending' = [pending EXCEPT ![w] = None]
  /\ Heard(pending[w])
  /\ UNCHANGED <<engine_type, writes, shared, audio, preset, local, bound>>

(* The preset task: do_load() and switch_engine_wait(). *)

PresetLoad(t) ==
  /\ ppc = "idle"
  /\ writes < MaxWrites
  /\ writes' = writes + 1
  /\ ppc' = "check"
  /\ goal' = t
  /\ UNCHANGED <<engine_type, s_requested, notified, pending,
                 shared, audio, local, bound, history>>

PresetCheck ==
  /\ ppc = "check"
  /\ IF s_active_type = goal
       THEN ppc' = "apply" /\ UNCHANGED engine_type
       ELSE ppc' = "listen" /\ engine_type' = goal
  /\ UNCHANGED <<s_requested, notified, pending, writes, goal,
                 shared, audio, local, bound, history>>

PresetListen ==
  /\ ppc = "listen"
  /\ ppc' = "wait"
  /\ s_requested' = goal
  /\ notified' = TRUE
  /\ Heard(goal)
  /\ UNCHANGED <<engine_type, pending, writes, goal, shared, audio, local, bound>>

(* One poll: bound, or reverted, or out of time. *)
PresetPoll ==
  /\ ppc = "wait"
  /\ \/ s_active_type = goal /\ ppc' = "apply"
     \/ s_active_type # goal /\ engine_type # goal /\ ppc' = "idle"
     \/ s_active_type # goal /\ "stall" \in Faults /\ ppc' = "idle"
  /\ UNCHANGED <<goal, request, shared, audio, local, bound, history>>

(* apply_snapshot() has written the file's values. *)
PresetApplied ==
  /\ ppc = "apply"
  /\ ppc' = "idle"
  /\ UNCHANGED <<goal, request, shared, audio, local, bound, history>>

-----------------------------------------------------------------------------
(* The eng_switch task. *)

(* Where every step below that is not said to touch them leaves the others. *)
Apart  == UNCHANGED <<audio, preset, pending, writes>>
Others == Apart /\ UNCHANGED history

(* A step of a switch fails; in the restore that is what leaves nothing bound. *)
Fails == history' = history \cup {"failed"}
RestoreFails == history' = history \cup {"failed", "unrestored"}

Goto(from, to) == pc = from /\ pc' = to

(* Deadlines of the two waits, in ticks of a clock the tasks do not control. *)
ClockPasses ==
  /\ "stall" \in Faults
  /\ pc \in {"settle", "poll", "deadline"}
  /\ ~late
  /\ late' = TRUE
  /\ UNCHANGED <<pc, want, cur, old, start, shared, audio, request, preset, bound, history>>

TakeNotification ==
  /\ Goto("take", "read")
  /\ notified
  /\ notified' = FALSE
  /\ UNCHANGED <<want, cur, old, start, late, shared, bound,
                 engine_type, s_requested>>
  /\ Others

(* The head of switch_to(): an engine that is not built is refused. *)
ReadRequest ==
  /\ pc = "read"
  /\ want' = s_requested
  /\ cur' = s_active_type
  /\ pc' = IF s_requested = s_active_type THEN "take"
           ELSE IF s_requested \in Built THEN "mute" ELSE "refuse"
  /\ UNCHANGED <<old, start, late, shared, bound,
                 engine_type, s_requested, notified>>
  /\ Others

(* revert_param() is a ParamStore::set of the switch task's own. *)
RevertStore ==
  /\ Goto("refuse", "refuse_listen") \/ Goto("revert", "relisten")
  /\ engine_type' = cur
  /\ UNCHANGED <<want, cur, old, start, late, shared, bound,
                 s_requested, notified>>
  /\ Others

RevertListen ==
  /\ Goto("refuse_listen", "take") \/ Goto("relisten", "unmute")
  /\ s_requested' = cur
  /\ notified' = TRUE
  /\ Heard(cur)
  /\ UNCHANGED <<want, cur, old, start, late, shared, bound, engine_type>>
  /\ Apart

(* mute_and_wait(): cosmetic, so running late goes ahead. *)
Mute ==
  /\ Goto("mute", "settle")
  /\ s_mute_target' = 0
  /\ late' = FALSE
  /\ UNCHANGED <<want, cur, old, start, s_engine, s_pool, s_render_seq,
                 s_mute_gain, bound, engine_type, s_requested, notified>>
  /\ Others

Settle ==
  /\ Goto("settle", "exchange")
  /\ s_mute_gain = 0 \/ late
  /\ UNCHANGED <<want, cur, old, start, late, shared, bound,
                 engine_type, s_requested, notified>>
  /\ Others

(* voice_manager_detach_engine(). *)
DetachExchange ==
  /\ pc = "exchange"
  /\ old' = s_engine
  /\ s_engine' = None
  /\ pc' = IF s_pool = None THEN "deinit" ELSE "start"
  /\ history' = history \ {"unrestored"}
  /\ UNCHANGED <<want, cur, start, late, s_pool, s_render_seq, s_mute_target,
                 s_mute_gain, bound, engine_type, s_requested, notified>>
  /\ Apart

DetachStart ==
  /\ Goto("start", "poll")
  /\ start' = s_render_seq
  /\ late' = FALSE
  /\ UNCHANGED <<want, cur, old, shared, bound,
                 engine_type, s_requested, notified>>
  /\ Others

(* Unsigned subtraction in the width of the counter. *)
Elapsed(now, from) == IF now >= from THEN now - from ELSE now - from + SeqMod

\* Mutation: frees without waiting for a block boundary.
NoBoundary == 0

Boundaries == 2

DetachPoll ==
  /\ pc = "poll"
  /\ pc' = IF Elapsed(s_render_seq, start) < Boundaries THEN "deadline" ELSE "free"
  /\ UNCHANGED <<want, cur, old, start, late, shared, bound,
                 engine_type, s_requested, notified>>
  /\ Others

\* Mutation: gives up without putting the engine back.
DetachDeadlineNoRestore ==
  /\ pc = "deadline"
  /\ IF late THEN pc' = "revert" /\ Fails
             ELSE pc' = "poll" /\ UNCHANGED history
  /\ UNCHANGED <<want, cur, old, start, late, shared, bound,
                 engine_type, s_requested, notified>>
  /\ Apart

\* Mutation: never gives up.
DetachDeadlineForever ==
  /\ Goto("deadline", "poll")
  /\ UNCHANGED <<want, cur, old, start, late, shared, bound,
                 engine_type, s_requested, notified>>
  /\ Others

DetachDeadline ==
  /\ pc = "deadline"
  /\ IF late THEN pc' = "revert" /\ s_engine' = old /\ Fails
             ELSE pc' = "poll" /\ UNCHANGED <<s_engine, history>>
  /\ UNCHANGED <<want, cur, old, start, late, s_pool, s_render_seq,
                 s_mute_target, s_mute_gain, bound,
                 engine_type, s_requested, notified>>
  /\ Apart

DetachFree ==
  /\ Goto("free", "deinit")
  /\ s_pool' = None
  /\ UNCHANGED <<want, cur, old, start, late, s_engine, s_render_seq,
                 s_mute_target, s_mute_gain, bound,
                 engine_type, s_requested, notified>>
  /\ Others

\* Mutation: what failed is taken down and the old engine is not bound again.
DeinitOnly ==
  /\ Goto("deinit", "init") \/ Goto("scrub", "revert")
  /\ s_params' = {}
  /\ UNCHANGED <<want, cur, old, start, late, shared, s_active_type,
                 engine_type, s_requested, notified>>
  /\ Others

(* deinit() empties the whole 0x02xx range, whichever engine's it is. *)
Deinit ==
  /\ Goto("deinit", "init") \/ Goto("scrub", "reinit")
  /\ s_params' = {}
  /\ UNCHANGED <<want, cur, old, start, late, shared, s_active_type,
                 engine_type, s_requested, notified>>
  /\ Others

(* init() registers the engine's parameters. It fails when an id is taken or *)
(* the store is full, and then leaves what it did register behind.           *)
InitEngine(from, e, ok, bad, Marks) ==
  /\ pc = from
  /\ \/ s_params = {} /\ s_params' = {e} /\ pc' = ok /\ UNCHANGED history
     \/ /\ "init" \in Faults \/ s_params # {}
        /\ s_params' \in {s_params, s_params \cup {e}}
        /\ pc' = bad /\ Marks
  /\ UNCHANGED <<want, cur, old, start, late, shared, s_active_type,
                 engine_type, s_requested, notified>>
  /\ Apart

InitNext == InitEngine("init", want, "alloc", "scrub", Fails)
InitOld  == InitEngine("reinit", cur, "realloc", "revert", RestoreFails)

(* voice_manager_set_engine(): the pointer is withdrawn, the old pool freed, *)
(* a new one allocated and its voices reset, and only then is it published.  *)
AllocPool(from, e, ok, bad, Marks) ==
  /\ pc = from
  /\ s_engine' = None
  /\ \/ s_pool' = e /\ pc' = ok /\ UNCHANGED history
     \/ "memory" \in Faults /\ s_pool' = None /\ pc' = bad /\ Marks
  /\ UNCHANGED <<want, cur, old, start, late, s_render_seq, s_mute_target,
                 s_mute_gain, bound, engine_type, s_requested, notified>>
  /\ Apart

AllocNext == AllocPool("alloc", want, "publish", "scrub", Fails)
AllocOld  == AllocPool("realloc", cur, "republish", "revert", RestoreFails)

Publish ==
  /\ \/ Goto("publish", "commit") /\ s_engine' = want
     \/ Goto("republish", "revert") /\ s_engine' = cur
  /\ UNCHANGED <<want, cur, old, start, late, s_pool, s_render_seq,
                 s_mute_target, s_mute_gain, bound,
                 engine_type, s_requested, notified>>
  /\ Others

\* Mutation: forgets s_active_type.
CommitForgets ==
  /\ Goto("commit", "unmute")
  /\ UNCHANGED <<want, cur, old, start, late, shared, bound,
                 engine_type, s_requested, notified>>
  /\ Others

Commit ==
  /\ Goto("commit", "unmute")
  /\ s_active_type' = want
  /\ UNCHANGED <<want, cur, old, start, late, shared, s_params,
                 engine_type, s_requested, notified>>
  /\ Others

Unmute ==
  /\ Goto("unmute", "take")
  /\ s_mute_target' = MuteSteps
  /\ UNCHANGED <<want, cur, old, start, late, s_engine, s_pool, s_render_seq,
                 s_mute_gain, bound, engine_type, s_requested, notified>>
  /\ Others

-----------------------------------------------------------------------------

Audio == BlockBegin \/ BlockEnd

Switch == \/ TakeNotification \/ ReadRequest \/ RevertStore \/ RevertListen
          \/ Mute \/ Settle
          \/ DetachExchange \/ DetachStart \/ DetachPoll \/ DetachDeadline
          \/ DetachFree \/ Deinit \/ InitNext \/ InitOld \/ AllocNext
          \/ AllocOld \/ Publish \/ Commit \/ Unmute

Requests == \/ \E w \in Writers, t \in Types : WriteStore(w, t)
            \/ \E t \in Loads : PresetLoad(t)

Setters == \/ \E w \in Writers : WriteListen(w)
           \/ PresetCheck \/ PresetListen \/ PresetPoll \/ PresetApplied

Next == Audio \/ Switch \/ Requests \/ Setters \/ ClockPasses

Spec == Init /\ [][Next]_vars

(* The control tasks run (they sit above idle and block only on the waits    *)
(* modelled here) and time passes. Nothing is assumed of the audio task.     *)
ControlFairness == WF_vars(Switch) /\ WF_vars(Setters) /\ WF_vars(ClockPasses)
ControlFairSpec == Spec /\ ControlFairness

-----------------------------------------------------------------------------
(* Properties. *)

TypeOK ==
  /\ s_engine \in Built \cup {None}
  /\ s_pool \in Built \cup {None}
  /\ s_render_seq \in 0 .. SeqMod - 1
  /\ s_mute_target \in {0, MuteSteps}
  /\ s_mute_gain \in 0 .. MuteSteps
  /\ block \in BOOLEAN
  /\ using \in Built \cup {None}
  /\ engine_type \in Types
  /\ s_params \in SUBSET Built
  /\ s_requested \in Types \cup {None}
  /\ s_active_type \in Built
  /\ notified \in BOOLEAN
  /\ pending \in [Writers -> Types \cup {None}]
  /\ writes \in 0 .. MaxWrites
  /\ ppc \in PresetPCs
  /\ goal \in Types
  /\ pc \in SwitchPCs
  /\ want \in Types \cup {None}
  /\ cur \in Built
  /\ old \in Built \cup {None}
  /\ start \in 0 .. SeqMod - 1
  /\ late \in BOOLEAN
  /\ history \subseteq {"crossed", "failed", "unrestored"}

(* A block never renders with an engine whose voice pool has been freed or  *)
(* handed to another engine: the reason voice_manager_detach_engine() waits *)
(* for render boundaries before heap_caps_free().                           *)
PoolOutlivesBlock == using # None => s_pool = using

(* A block never reads through valuePtr()s of a range that was removed or    *)
(* re-registered: what synth_params.h asks of the callers of removeRange(). *)
ParamsOutliveBlock == using # None => using \in s_params

(* What a block works with stays valid until the block is over. *)
UsedStaysValid == PoolOutlivesBlock /\ ParamsOutliveBlock

(* A switch that is over, however it ended, left the pointer, the pool, the  *)
(* registered parameters and s_active_type in agreement, or (only when the   *)
(* last switch failed and so did its restore) nothing bound at all; and the  *)
(* mute is lifted.                                                           *)
SettledConsistently ==
  pc \in {"take", "read"} =>
    /\ s_mute_target = MuteSteps
    /\ \/ s_engine = s_active_type /\ s_pool = s_active_type /\ s_params = {s_active_type}
       \/ s_engine = None /\ s_pool = None /\ "unrestored" \in history

(* A detach that timed out keeps the engine that was bound: neither the pool *)
(* it used nor its parameters were freed or replaced before the switch was   *)
(* aborted.                                                                  *)
TimeoutKeepsEngine ==
  [][pc = "deadline" /\ pc' = "revert" =>
       /\ s_engine' = s_active_type
       /\ s_pool' = s_active_type
       /\ s_params' = {s_active_type}]_vars

(* Every switch ends, even when the audio task is dead: each wait has a      *)
(* deadline. Checked without any fairness of the audio task.                 *)
SwitchEnds == pc # "take" ~> pc = "take"

(* No task holds a stored value whose listener has not run, the switch task  *)
(* is parked, and nothing woke it.                                           *)
Quiet == /\ pc = "take" /\ ~notified
         /\ \A w \in Writers : pending[w] = None
         /\ ppc \in {"idle", "wait", "apply"}

(* Writing engine.type runs the switch protocol, and a switch that fails     *)
(* reverts the parameter: once everything is quiet the parameter names the   *)
(* active engine, unless two writes have crossed between store and listener. *)
ParamNamesEngine == Quiet => engine_type = s_active_type \/ "crossed" \in history

(* A written engine that this build has is eventually the one that renders,  *)
(* unless another is written first: the latest of several requests wins,     *)
(* however many of them the one notification swallowed. Only a step of a     *)
(* switch that fails, or two writes that cross, excuse it.                   *)
RequestServed ==
  \A t \in Built :
    engine_type = t ~> \/ engine_type # t
                       \/ s_active_type = t /\ s_engine = t
                       \/ history # {}

-----------------------------------------------------------------------------
(* The switch protocol implements the handoff of the voice pool. *)
Pools == IF s_pool = None THEN {} ELSE {s_pool}

H == INSTANCE Handoff WITH Resource <- Built, offered <- s_engine, live <- Pools

HandoffSpec == H!Spec
=============================================================================
