----------------------------- MODULE GraphSwap ------------------------------
(***************************************************************************)
(* Swapping the compiled plan of the modular engine under the audio task:  *)
(* publication and adoption in components/graph/graph_render.cpp, and the  *)
(* callers in graph_model.cpp that register and drop the parameters a plan *)
(* points at (apply, bind, unbind).                                        *)
(*                                                                         *)
(* A plan is staged in whichever of two slots is not live and offered in   *)
(* s_pending. The audio task ducks, claims it at the bottom and stores it  *)
(* to s_live; when nobody renders, the control task claims it itself.      *)
(*                                                                         *)
(* Abstracted: what a plan computes. A slot's plan is valid while it is    *)
(* whole and the parameters it has resolved are registered. s_render_seq   *)
(* is only compared with its value at the start of a wait, so a wait keeps *)
(* whether it moved. The voice manager's own detach handshake, which       *)
(* EngineSwitch models, is the guard of Detached.                          *)
(*                                                                         *)
(* Nothing in the code keeps two tasks from editing at once, or the audio   *)
(* task from stopping inside a block; both happen here. What they may spoil *)
(* is spoilt until a task next has the graph to itself (`disturbed`).       *)
(***************************************************************************)
EXTENDS Naturals

CONSTANTS
  Editors,      \* tasks that edit the graph
  Binder,       \* the eng_switch task, which binds and unbinds it
  None,         \* null pointer
  GainSteps,    \* blocks the duck takes (1 / kGainStep, 8 in the code)
  Faults,       \* subset of {"stall"}: the audio task may pause at any point
  MaxOps        \* bound: edits, binds and unbinds

ASSUME GraphAssumption == /\ GainSteps \in Nat \ {0}
                          /\ MaxOps \in Nat
                          /\ Faults \subseteq {"stall"}
                          /\ None \notin {"plan0", "plan1", "empty"}
                          /\ None \notin Editors \cup {Binder}

Controllers == Editors \cup {Binder}
Slots == {"plan0", "plan1"}          \* s_plans[2]
Plans == Slots \cup {"empty"}        \* and s_empty

VARIABLES
  s_live, s_pending,
  s_gain,       \* 0..GainSteps
  buffers,      \* has render_init() allocated the buffer pool?
  valid,        \* slots that hold a whole plan with registered parameters
  s_bound,      \* between bind() and unbind()
  attached,     \* the voice manager calls the modular engine
  \* the audio task
  apc,          \* where it is in a render call
  seen,         \* the s_pending it loaded
  using,        \* the plan it is walking, or None
  \* control tasks
  cpc, op, staged,
  moved,        \* has s_render_seq moved since the wait began?
  waited,       \* "no", "idle" (30 ms have passed), "deadline" (500 ms)
  ops,
  \* history
  alone,        \* the task whose operation, the latest, is or was the only one
                \* from its beginning on, or None
  disturbed     \* two operations overlapped, or a task took over a plan itself
                \* while the engine was called; until one that has the graph to
                \* itself has retired whatever was live

plan    == <<s_live, s_pending, valid>>
binding == <<buffers, s_bound, attached>>
audio   == <<apc, seen, using>>
wait    == <<moved, waited>>
past    == <<alone, disturbed>>
control == <<cpc, op, staged, wait, ops, past>>
vars    == <<plan, s_gain, binding, audio, control>>

AudioPCs   == {"idle", "head", "claim", "store", "load", "render", "tail"}
ControlPCs == {"idle", "retire", "start", "poll", "claim", "adopt", "gain",
               "register", "choose", "stage", "offer", "attach", "detach",
               "drop", "deinit"}

Init ==
  /\ s_live = "empty" /\ s_pending = None
  /\ s_gain = GainSteps
  /\ buffers = FALSE /\ valid = {}
  /\ s_bound = FALSE /\ attached = FALSE
  /\ apc = "idle" /\ seen = None /\ using = None
  /\ cpc = [c \in Controllers |-> "idle"]
  /\ op = [c \in Controllers |-> "edit"]
  /\ staged = [c \in Controllers |-> "empty"]
  /\ moved = [c \in Controllers |-> FALSE]
  /\ waited = [c \in Controllers |-> "no"]
  /\ ops = 0
  /\ alone = None /\ disturbed = FALSE

-----------------------------------------------------------------------------
(* The audio task, while the modular engine is bound. *)

AGoto(from, to) == apc = from /\ apc' = to

CallBegin ==
  /\ attached
  /\ AGoto("idle", "head")
  /\ UNCHANGED <<plan, s_gain, binding, seen, using, control>>

(* The per-voice hooks (note_on, note_off, voice_busy, voice_level) walk the *)
(* live plan too, before and after the block is rendered.                    *)
HookBegin ==
  /\ apc \in {"head", "tail"} /\ using = None
  /\ using' = s_live
  /\ UNCHANGED <<plan, s_gain, binding, apc, seen, control>>

HookEnd ==
  /\ apc \in {"head", "tail"} /\ using # None
  /\ using' = None
  /\ UNCHANGED <<plan, s_gain, binding, apc, seen, control>>

DuckGain == IF s_pending # None THEN (IF s_gain > 0 THEN s_gain - 1 ELSE 0)
            ELSE (IF s_gain < GainSteps THEN s_gain + 1 ELSE s_gain)

(* render_block(): the duck, *)
Duck ==
  /\ apc = "head" /\ using = None
  /\ seen' = s_pending
  /\ s_gain' = DuckGain
  /\ apc' = IF s_pending # None /\ s_gain' = 0 THEN "claim" ELSE "load"
  /\ UNCHANGED <<plan, binding, using, control>>

(* the claim at the bottom of it, a compare-and-swap, *)
AudioClaim ==
  /\ apc = "claim"
  /\ IF s_pending = seen THEN s_pending' = None /\ apc' = "store"
                         ELSE UNCHANGED s_pending /\ apc' = "load"
  /\ UNCHANGED <<s_live, valid, s_gain, binding, seen, using, control>>

AudioStore ==
  /\ AGoto("store", "load")
  /\ s_live' = seen
  /\ UNCHANGED <<s_pending, valid, s_gain, binding, seen, using, control>>

(* and the walk over whatever is live. *)
Load ==
  /\ AGoto("load", "render")
  /\ using' = s_live
  /\ moved' = [c \in Controllers |-> TRUE]
  /\ UNCHANGED <<plan, s_gain, binding, seen, cpc, op, staged, waited, ops, past>>

RenderEnd ==
  /\ AGoto("render", "tail")
  /\ using' = None
  /\ UNCHANGED <<plan, s_gain, binding, seen, control>>

CallEnd ==
  /\ AGoto("tail", "idle")
  /\ using = None
  /\ UNCHANGED <<plan, s_gain, binding, seen, using, control>>

-----------------------------------------------------------------------------
(* Control tasks. *)

CGoto(c, from, to) == cpc[c] = from /\ cpc' = [cpc EXCEPT ![c] = to]

(* No other task is in an operation. *)
Lone(c) == \A d \in Controllers \ {c} : cpc[d] = "idle"

Begin(c, what, to) ==
  /\ alone' = IF Lone(c) THEN c ELSE None
  /\ ops < MaxOps
  /\ ops' = ops + 1
  /\ CGoto(c, "idle", to)
  /\ op' = [op EXCEPT ![c] = what]

\* Mutation: changes the parameters under the plan that is live.
EditNoRetire(c) ==
  /\ s_bound
  /\ Begin(c, "edit", "register")
  /\ disturbed' = (disturbed \/ ~Lone(c))
  /\ UNCHANGED <<plan, s_gain, binding, audio, staged, wait>>

(* apply(): the candidate compiles, and the graph is bound. A candidate that *)
(* does not compile, or an edit of an unbound graph, changes nothing here.   *)
Edit(c) ==
  /\ s_bound
  /\ Begin(c, "edit", "retire")
  /\ disturbed' = (disturbed \/ ~Lone(c))
  /\ UNCHANGED <<plan, s_gain, binding, audio, staged, wait>>

(* bind(): render_init(), which leaves no plan live, and every parameter. *)
Bind(c) ==
  /\ ~s_bound
  /\ Begin(c, "bind", "choose")
  /\ disturbed' = ~Lone(c)
  /\ buffers' = TRUE
  /\ s_live' = "empty" /\ s_pending' = None
  /\ s_gain' = GainSteps
  /\ s_bound' = TRUE
  /\ UNCHANGED <<valid, attached, audio, staged, wait>>

(* The switch task withdraws the engine, waits for the block to be over, and *)
(* calls unbind().                                                           *)
Unbind(c) ==
  /\ attached
  /\ Begin(c, "unbind", "detach")
  /\ disturbed' = (disturbed \/ ~Lone(c))
  /\ attached' = FALSE
  /\ UNCHANGED <<plan, s_gain, buffers, s_bound, audio, staged, wait>>

\* Mutation: does not wait for the block.
DetachedEarly(c) ==
  /\ CGoto(c, "detach", "retire")
  /\ UNCHANGED <<plan, s_gain, binding, audio, op, staged, wait, ops, past>>

Detached(c) ==
  /\ CGoto(c, "detach", "retire")
  /\ apc = "idle"
  /\ UNCHANGED <<plan, s_gain, binding, audio, op, staged, wait, ops, past>>

(* retire() and publish() both end in hand_over(). *)
HandOver(c, p) ==
  /\ s_pending' = p
  /\ staged' = [staged EXCEPT ![c] = p]
  /\ UNCHANGED <<s_live, valid, s_gain, binding, audio, op, wait, ops, past>>

Retire(c) == CGoto(c, "retire", "start") /\ HandOver(c, "empty")
Offer(c)  == CGoto(c, "offer", "start") /\ HandOver(c, staged[c])

StartWait(c) ==
  /\ CGoto(c, "start", "poll")
  /\ moved' = [moved EXCEPT ![c] = FALSE]
  /\ waited' = [waited EXCEPT ![c] = "no"]
  /\ UNCHANGED <<plan, s_gain, binding, audio, op, staged, ops, past>>

(* Time passes: unless the audio task may stall, 30 ms without a block pass  *)
(* only when the engine is not being called.                                 *)
ClockPasses(c) ==
  /\ cpc[c] = "poll"
  /\ \/ /\ waited[c] = "no"
        /\ "stall" \in Faults \/ (~attached /\ apc = "idle")
        /\ waited' = [waited EXCEPT ![c] = "idle"]
     \/ /\ waited[c] = "idle"
        /\ "stall" \in Faults
        /\ waited' = [waited EXCEPT ![c] = "deadline"]
  /\ UNCHANGED <<plan, s_gain, binding, audio, cpc, op, staged, moved, ops, past>>

\* Mutation: an edit is over once the old plan is retired.
ReturnEarly(c) == IF staged[c] # "empty" THEN IF op[c] = "bind" THEN "attach" ELSE "idle"
                  ELSE IF op[c] = "unbind" THEN "drop"
                  ELSE "idle"

(* Where hand_over() returns to. *)
Return(c) == IF staged[c] # "empty" THEN IF op[c] = "bind" THEN "attach" ELSE "idle"
             ELSE IF op[c] = "unbind" THEN "drop"
             ELSE "register"

\* Mutation: waits for the audio task for ever.
GiveUpNever(c) == FALSE

GiveUp(c) == waited[c] = "deadline" \/ (waited[c] = "idle" /\ ~moved[c])

(* History: a lone task's hand-over of the empty plan is over. *)
Retired(c) == disturbed' = (disturbed /\ ~(alone = c /\ staged[c] = "empty"))

Poll(c) ==
  /\ \/ s_pending = None /\ CGoto(c, "poll", Return(c)) /\ Retired(c)
     \/ /\ s_pending # None
        /\ GiveUp(c)
        /\ CGoto(c, "poll", "claim")
        /\ UNCHANGED disturbed
  /\ UNCHANGED <<plan, s_gain, binding, audio, op, staged, wait, ops, alone>>

ControlClaim(c) ==
  /\ \/ /\ s_pending = staged[c]
        /\ s_pending' = None /\ CGoto(c, "claim", "adopt")
        /\ IF attached \/ apc # "idle" THEN disturbed' = TRUE /\ alone' = None
                                      ELSE UNCHANGED past
     \/ /\ s_pending # staged[c]
        /\ CGoto(c, "claim", Return(c)) /\ Retired(c)
        /\ UNCHANGED <<s_pending, alone>>
  /\ UNCHANGED <<s_live, valid, s_gain, binding, audio, op, staged, wait, ops>>

ControlAdopt(c) ==
  /\ CGoto(c, "adopt", "gain")
  /\ s_live' = staged[c]
  /\ UNCHANGED <<s_pending, valid, s_gain, binding, audio, op, staged, wait, ops, past>>

ControlGain(c) ==
  /\ CGoto(c, "gain", Return(c)) /\ Retired(c)
  /\ s_gain' = GainSteps
  /\ UNCHANGED <<plan, binding, audio, op, staged, wait, ops, alone>>

(* Slots whose kind changed are dropped and registered anew, which leaves    *)
(* every older plan with dead pointers; a cable edit drops nothing.          *)
Register(c) ==
  /\ CGoto(c, "register", "choose")
  /\ valid' \in {valid, {}}
  /\ UNCHANGED <<s_live, s_pending, s_gain, binding, audio, op, staged, wait, ops, past>>

(* publish(): the slot that is not live is overwritten, then holds the plan. *)
Choose(c) ==
  /\ CGoto(c, "choose", "stage")
  /\ LET spare == IF s_live = "plan0" THEN "plan1" ELSE "plan0"
     IN /\ staged' = [staged EXCEPT ![c] = spare]
        /\ valid' = valid \ {spare}
  /\ UNCHANGED <<s_live, s_pending, s_gain, binding, audio, op, wait, ops, past>>

Stage(c) ==
  /\ CGoto(c, "stage", "offer")
  /\ valid' = valid \cup {staged[c]}
  /\ UNCHANGED <<s_live, s_pending, s_gain, binding, audio, op, staged, wait, ops, past>>

(* The switch task binds the engine in the voice manager. *)
Attach(c) ==
  /\ CGoto(c, "attach", "idle")
  /\ attached' = TRUE
  /\ UNCHANGED <<plan, s_gain, buffers, s_bound, audio, op, staged, wait, ops, past>>

(* unbind(): every parameter goes, then the buffers. *)
Drop(c) ==
  /\ CGoto(c, "drop", "deinit")
  /\ s_bound' = FALSE
  /\ valid' = {}
  /\ UNCHANGED <<s_live, s_pending, s_gain, buffers, attached, audio, op, staged,
                 wait, ops, past>>

Deinit(c) ==
  /\ CGoto(c, "deinit", "idle")
  /\ s_live' = "empty" /\ s_pending' = None
  /\ buffers' = FALSE
  /\ UNCHANGED <<valid, s_gain, s_bound, attached, audio, op, staged, wait, ops, past>>

-----------------------------------------------------------------------------

Audio == \/ CallBegin \/ HookBegin \/ HookEnd \/ Duck \/ AudioClaim \/ AudioStore
         \/ Load \/ RenderEnd \/ CallEnd

Request(c) == \/ c \in Editors /\ Edit(c)
              \/ c = Binder /\ (Bind(c) \/ Unbind(c))

Work(c) == \/ Detached(c) \/ Retire(c) \/ Offer(c) \/ StartWait(c) \/ Poll(c)
           \/ ControlClaim(c) \/ ControlAdopt(c) \/ ControlGain(c)
           \/ Register(c) \/ Choose(c) \/ Stage(c) \/ Attach(c)
           \/ Drop(c) \/ Deinit(c)

Next == \/ Audio
        \/ \E c \in Controllers : Request(c) \/ Work(c) \/ ClockPasses(c)

Spec == Init /\ [][Next]_vars

(* The control tasks run, time passes, and the audio task, paced by the DMA, *)
(* keeps calling the engine it is bound to: the hooks of a call are finitely *)
(* many, so it gets past them to render, and past the render to return.      *)
FairSpec ==
  /\ Spec
  /\ \A c \in Controllers : WF_vars(Work(c)) /\ WF_vars(ClockPasses(c))
  /\ WF_vars(CallBegin) /\ WF_vars(HookEnd)
  /\ SF_vars(Duck) /\ SF_vars(CallEnd)
  /\ WF_vars(AudioClaim \/ AudioStore \/ Load \/ RenderEnd)

-----------------------------------------------------------------------------
(* Properties. *)

TypeOK ==
  /\ s_live \in Plans
  /\ s_pending \in Plans \cup {None}
  /\ s_gain \in 0 .. GainSteps
  /\ buffers \in BOOLEAN
  /\ valid \in SUBSET Slots
  /\ s_bound \in BOOLEAN
  /\ attached \in BOOLEAN
  /\ apc \in AudioPCs
  /\ seen \in Plans \cup {None}
  /\ using \in Plans \cup {None}
  /\ cpc \in [Controllers -> ControlPCs]
  /\ op \in [Controllers -> {"edit", "bind", "unbind"}]
  /\ staged \in [Controllers -> Plans]
  /\ moved \in [Controllers -> BOOLEAN]
  /\ waited \in [Controllers -> {"no", "idle", "deadline"}]
  /\ ops \in 0 .. MaxOps
  /\ alone \in Controllers \cup {None}
  /\ disturbed \in BOOLEAN

(* The plan a block walks is whole and its parameters are registered: after  *)
(* retire() returns no plan holds those pointers, and publish() writes only  *)
(* the slot no block reads. Two tasks that edit at once break it, and so does *)
(* a block that pauses until its plan is taken over (README, "What the code  *)
(* does not keep"), but no longer than to the next retire() of a task that   *)
(* has the graph to itself.                                                  *)
WalksValidPlan == ~disturbed /\ using \in Slots => using \in valid

(* The buffer pool outlives every render call that uses it, whoever edits    *)
(* meanwhile and wherever the audio task pauses.                             *)
BuffersOutliveCall == apc # "idle" => buffers

(* What the next load of the audio task will find.                           *)
NextLive == IF apc = "store" THEN seen ELSE s_live

(* When the last edit or bind has returned, its plan, and not the empty one  *)
(* it retired to, is rendered next: no edit ends in silence, by the same     *)
(* exception.                                                                *)
EditLeavesPlan ==
  ~disturbed /\ s_bound /\ (\A c \in Controllers : cpc[c] = "idle") =>
    alone # None /\ NextLive = staged[alone] /\ NextLive \in valid

(* Every edit, bind and unbind ends, by adoption or by the control task's    *)
(* own claim when nobody renders.                                            *)
EditEnds == \A c \in Controllers : cpc[c] # "idle" ~> cpc[c] = "idle"

(* The swap implements the handoff of plan slots. Between the audio task's   *)
(* claim and its store the plan it claimed already is the next one it loads. *)
Slot(p) == IF p \in Slots THEN p ELSE None

H == INSTANCE Handoff WITH Resource <- Slots, offered <- Slot(NextLive),
                           using <- Slot(using), live <- valid

(* Every step is one of the handoff or none, from its initial state and      *)
(* again from the moment a disturbance has ended.                            *)
HandoffSpec == /\ H!Init
               /\ [](disturbed \/ H!UseLive)
               /\ [][disturbed \/ disturbed' \/ H!Next]_(H!vars)
=============================================================================
