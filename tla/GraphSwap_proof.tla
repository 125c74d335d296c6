--------------------------- MODULE GraphSwap_proof ---------------------------
(***************************************************************************)
(* Proofs about GraphSwap for any number of tasks that edit the graph, at    *)
(* once or in turn, any length of the duck, any number of operations, and   *)
(* an audio task that may pause anywhere.                                    *)
(***************************************************************************)
EXTENDS GraphSwap, TLAPS

(* Where the task that has the graph to itself is, and the plan it stages.   *)
pcA     == IF alone = None THEN "idle" ELSE cpc[alone]
stagedA == IF alone = None THEN "empty" ELSE staged[alone]

Handing == {"start", "poll", "claim", "adopt", "gain"}
Between == {"register", "choose", "stage", "offer"}
Gone    == {"drop", "deinit"}

(* What a task has done before it gets where it is.                          *)
Program(c) ==
  /\ cpc[c] \in {"stage", "offer"} => staged[c] \in Slots
  /\ cpc[c] \in Between => op[c] # "unbind"
  /\ cpc[c] = "attach" => op[c] = "bind"
  /\ cpc[c] \in Gone \cup {"detach"} => op[c] = "unbind"
  /\ cpc[c] \in Handing /\ staged[c] \in Slots => op[c] # "unbind"
  /\ cpc[c] = "retire" => op[c] # "bind"
  /\ cpc[c] \in Handing /\ staged[c] = "empty" => op[c] # "bind"
  /\ c # Binder => op[c] = "edit"
Programs == \A c \in Controllers : Program(c)

(* A block holds a plan only while a hook or the walk runs, and what it      *)
(* claims was offered.                                                       *)
AudioKnows ==
  /\ apc \in {"idle", "claim", "store", "load"} => using = None
  /\ apc \in {"claim", "store"} => seen \in Plans

(* The engine is called between its attach and the end of its detach only,   *)
(* and then it is bound and has its buffers.                                 *)
Called ==
  /\ apc # "idle" => attached \/ cpc[Binder] = "detach"
  /\ attached \/ cpc[Binder] = "detach" => s_bound
  /\ s_bound \/ cpc[Binder] = "deinit" => buffers
  /\ cpc[Binder] \notin {"deinit", "idle"} => s_bound
  /\ cpc[Binder] = "deinit" => ~s_bound
  /\ cpc[Binder] \in Gone => ~attached
  /\ op[Binder] = "bind" /\ cpc[Binder] # "idle" => ~attached
  /\ op[Binder] = "unbind" /\ cpc[Binder] # "idle" => ~attached

(* Nobody else is in an operation beside the lone task, and without one      *)
(* nothing has happened to the graph yet, or it is disturbed.                *)
OthersIdle ==
  /\ alone # None => \A c \in Controllers : cpc[c] # "idle" => c = alone
  /\ alone = None /\ ~disturbed =>
       /\ \A c \in Controllers : cpc[c] = "idle"
       /\ ~s_bound

(* However disturbed the graph is, the lone task takes over a plan only when *)
(* nobody renders, and once the empty plan it offered is taken no block has  *)
(* or will find another.                                                     *)
LoneRetires == alone # None =>
  /\ pcA \notin {"idle", "deinit"} => s_bound
  /\ pcA \in {"adopt", "gain"} => ~attached /\ apc = "idle" /\ s_pending = None
  /\ pcA \in Handing /\ stagedA = "empty" =>
       /\ s_pending \in {"empty", None}
       /\ s_pending = None /\ pcA # "adopt" =>
            NextLive = "empty" /\ using \in {"empty", None} /\ apc # "claim"

(* Undisturbed, what a block is about to claim is what the lone task waits to *)
(* have claimed; and this is how far its hand-over has got, as the next load *)
(* will find it.                                                             *)
HandOverKnows == ~disturbed =>
  /\ apc = "claim" => seen = s_pending /\ s_pending # None /\ pcA \in {"start", "poll", "claim"}
  /\ pcA \in Handing =>
       /\ s_pending \in {stagedA, None}
       /\ stagedA \in Slots => stagedA \in valid /\ NextLive \in {"empty", stagedA}
       /\ s_pending = None /\ pcA # "adopt" => NextLive = stagedA /\ using \in {stagedA, None}
  /\ pcA \notin Handing => s_pending = None
  /\ pcA \in Between \cup Gone => NextLive = "empty" /\ using \in {"empty", None}
  /\ pcA = "offer" => stagedA \in valid
  /\ pcA = "attach" => stagedA = NextLive /\ stagedA \in Slots
  /\ pcA = "idle" /\ s_bound => stagedA = NextLive /\ stagedA \in Slots
  /\ NextLive \in Slots => NextLive \in valid

(* The inductive invariant. *)
IInv == TypeOK /\ Programs /\ AudioKnows /\ Called /\ OthersIdle /\ LoneRetires
          /\ WalksValidPlan /\ HandOverKnows

-----------------------------------------------------------------------------
(* A graph without a plan. *)
LEMMA Initial == Init => IInv
<1> SUFFICES ASSUME Init PROVE IInv
  OBVIOUS
<1>1. TypeOK
  <2>1. moved \in [Controllers -> BOOLEAN]
    BY DEF Init
  <2>2. /\ cpc \in [Controllers -> ControlPCs] /\ staged \in [Controllers -> Plans]
        /\ op \in [Controllers -> {"edit", "bind", "unbind"}]
        /\ waited \in [Controllers -> {"no", "idle", "deadline"}]
    BY DEF Init, ControlPCs, Plans
  <2>3. /\ s_bound \in BOOLEAN /\ attached \in BOOLEAN /\ buffers \in BOOLEAN
        /\ valid \in SUBSET Slots /\ disturbed \in BOOLEAN
    BY DEF Init
  <2>4. /\ s_live \in Plans /\ s_pending \in Plans \cup {None}
        /\ seen \in Plans \cup {None} /\ using \in Plans \cup {None}
        /\ s_gain \in 0 .. GainSteps /\ ops \in 0 .. MaxOps /\ apc \in AudioPCs
        /\ alone \in Controllers \cup {None}
    BY GraphAssumption DEF Init, Plans, AudioPCs
  <2> QED
    BY <2>1, <2>2, <2>3, <2>4 DEF TypeOK
<1>2. \A c \in Controllers : cpc[c] = "idle" /\ op[c] = "edit"
  BY DEF Init
<1>3. Programs
  BY <1>2 DEF Programs, Program, Handing, Between, Gone
<1>4. WalksValidPlan /\ AudioKnows
  BY GraphAssumption DEF Init, WalksValidPlan, AudioKnows, Slots
<1>5. Called
  BY <1>2 DEF Init, Called, Gone, Controllers
<1>6. OthersIdle /\ LoneRetires
  BY <1>2 DEF Init, OthersIdle, LoneRetires
<1>7. HandOverKnows
  BY DEF Init, HandOverKnows, NextLive, pcA, Slots, Handing, Between, Gone
<1> QED
  BY <1>1, <1>3, <1>4, <1>5, <1>6, <1>7 DEF IInv

-----------------------------------------------------------------------------
(* The parts of the invariant, one after the other.                          *)

(* A step is one of the audio task, a request, or one of a task at work.     *)
LEMMA StepCases ==
  ASSUME [Next]_vars
  PROVE  \/ Audio
         \/ \E c \in Editors : Edit(c)
         \/ Bind(Binder) \/ Unbind(Binder)
         \/ \E c \in Controllers : Work(c) \/ ClockPasses(c)
         \/ UNCHANGED vars
BY DEF Next, Request

(* The constants' facts. *)
LEMMA Constants ==
  /\ Binder \in Controllers /\ Editors \subseteq Controllers /\ None \notin Controllers
  /\ None \notin Plans /\ "empty" \notin Slots /\ Plans = Slots \cup {"empty"}
BY GraphAssumption DEF Controllers, Plans, Slots

(* Every variable keeps its type.                                            *)
LEMMA TypeStep ==
  ASSUME TypeOK, AudioKnows, Programs, [Next]_vars
  PROVE  TypeOK'
<1> USE GraphAssumption DEF plan, binding, audio, wait, control, past, AGoto, CGoto, HandOver,
     Begin, Return, Retired, Lone,
     TypeOK, AudioKnows, Plans, Slots, AudioPCs, ControlPCs
<1>1. CASE Audio
  <2>1. CASE CallBegin
    BY <2>1 DEF CallBegin
  <2>2. CASE HookBegin
    BY <2>2 DEF HookBegin
  <2>3. CASE HookEnd
    BY <2>3 DEF HookEnd
  <2>4. CASE Duck
    BY <2>4 DEF Duck, DuckGain
  <2>5. CASE AudioClaim
    BY <2>5 DEF AudioClaim
  <2>6. CASE AudioStore
    BY <2>6 DEF AudioStore
  <2>7. CASE Load
    BY <2>7 DEF Load
  <2>8. CASE RenderEnd
    BY <2>8 DEF RenderEnd
  <2>9. CASE CallEnd
    BY <2>9 DEF CallEnd
  <2> QED
    BY <1>1, <2>1, <2>2, <2>3, <2>4, <2>5, <2>6, <2>7, <2>8, <2>9 DEF Audio
<1>2. ASSUME NEW c \in Editors, Edit(c)
      PROVE  TypeOK'
  BY <1>2, Constants DEF Edit
<1>3. CASE Bind(Binder)
  BY <1>3, Constants DEF Bind
<1>4. CASE Unbind(Binder)
  <2>1. attached' \in BOOLEAN
    BY <1>4 DEF Unbind
  <2>2. ops' \in 0 .. MaxOps
    BY <1>4 DEF Unbind
  <2>3. alone' \in Controllers \cup {None}
    BY <1>4, Constants DEF Unbind
  <2>4. disturbed' \in BOOLEAN
    BY <1>4 DEF Unbind
  <2>5. /\ cpc' \in [Controllers -> ControlPCs]
        /\ op' \in [Controllers -> {"edit", "bind", "unbind"}]
    BY <1>4, Constants DEF Unbind
  <2> QED
    BY <1>4, <2>1, <2>5, <2>3, <2>4, <2>2 DEF Unbind
<1>5. ASSUME NEW c \in Controllers, Detached(c)
      PROVE  TypeOK'
  BY <1>5, Constants DEF Detached
<1>6. ASSUME NEW c \in Controllers, Retire(c)
      PROVE  TypeOK'
  BY <1>6, Constants DEF Retire
<1>7. ASSUME NEW c \in Controllers, Offer(c)
      PROVE  TypeOK'
  BY <1>7, Constants DEF Offer
<1>8. ASSUME NEW c \in Controllers, StartWait(c)
      PROVE  TypeOK'
  BY <1>8, Constants DEF StartWait
<1>9. ASSUME NEW c \in Controllers, Poll(c)
      PROVE  TypeOK'
  <2>1. cpc' \in [Controllers -> ControlPCs]
    BY <1>9, Constants DEF Poll
  <2>2. disturbed' \in BOOLEAN
    BY <1>9 DEF Poll
  <2> QED
    BY <1>9, <2>1, <2>2 DEF Poll
<1>10. ASSUME NEW c \in Controllers, ControlClaim(c)
      PROVE  TypeOK'
  <2>1. cpc' \in [Controllers -> ControlPCs]
    BY <1>10, Constants DEF ControlClaim
  <2>2. /\ disturbed' \in BOOLEAN /\ alone' \in Controllers \cup {None}
        /\ s_pending' \in Plans \cup {None}
    BY <1>10 DEF ControlClaim
  <2> QED
    BY <1>10, <2>1, <2>2 DEF ControlClaim
<1>11. ASSUME NEW c \in Controllers, ControlAdopt(c)
      PROVE  TypeOK'
  BY <1>11, Constants DEF ControlAdopt
<1>12. ASSUME NEW c \in Controllers, ControlGain(c)
      PROVE  TypeOK'
  BY <1>12, Constants DEF ControlGain
<1>13. ASSUME NEW c \in Controllers, Register(c)
      PROVE  TypeOK'
  BY <1>13, Constants DEF Register
<1>14. ASSUME NEW c \in Controllers, Choose(c)
      PROVE  TypeOK'
  BY <1>14, Constants DEF Choose
<1>15. ASSUME NEW c \in Controllers, Stage(c)
      PROVE  TypeOK'
  <2>1. cpc' \in [Controllers -> ControlPCs]
    BY <1>15, Constants DEF Stage
  <2>2. valid' \in SUBSET Slots
    BY <1>15 DEF Stage, Programs, Program
  <2> QED
    BY <1>15, <2>1, <2>2 DEF Stage
<1>16. ASSUME NEW c \in Controllers, Attach(c)
      PROVE  TypeOK'
  BY <1>16, Constants DEF Attach
<1>17. ASSUME NEW c \in Controllers, Drop(c)
      PROVE  TypeOK'
  <2>1. cpc' \in [Controllers -> ControlPCs]
    BY <1>17, Constants DEF Drop
  <2>2. s_bound' \in BOOLEAN /\ valid' \in SUBSET Slots
    BY <1>17 DEF Drop
  <2> QED
    BY <1>17, <2>1, <2>2 DEF Drop
<1>18. ASSUME NEW c \in Controllers, Deinit(c)
      PROVE  TypeOK'
  BY <1>18, Constants DEF Deinit
<1>19. ASSUME NEW c \in Controllers, ClockPasses(c)
      PROVE  TypeOK'
  BY <1>19, Constants DEF ClockPasses
<1>20. CASE UNCHANGED vars
  BY <1>20 DEF vars
<1> QED
  BY <1>1, <1>2, <1>3, <1>4, <1>5, <1>6, <1>7, <1>8, <1>9, <1>10, <1>11, <1>12, <1>13, <1>14,
     <1>15, <1>16, <1>17, <1>18, <1>19, <1>20, StepCases DEF Audio, Work

(* What the audio task holds.                                                *)
LEMMA AudioStep ==
  ASSUME TypeOK, AudioKnows, [Next]_vars
  PROVE  AudioKnows'
<1> USE GraphAssumption DEF plan, binding, audio, wait, control, past, AGoto, CGoto, HandOver,
     Begin, Return, Retired, Lone,
     TypeOK, AudioKnows, Plans, Slots
<1>1. CASE Audio
  BY <1>1, Constants
  DEF Audio, CallBegin, HookBegin, HookEnd, Duck, DuckGain, AudioClaim, AudioStore, Load,
      RenderEnd, CallEnd
<1>2. ASSUME NEW c \in Editors, Edit(c)
      PROVE  AudioKnows'
  BY <1>2, Constants DEF Edit
<1>3. CASE Bind(Binder) \/ Unbind(Binder)
  BY <1>3, Constants DEF Bind, Unbind
<1>4. ASSUME NEW c \in Controllers,
             \/ Retire(c) \/ Offer(c) \/ StartWait(c) \/ Poll(c)
             \/ ControlClaim(c) \/ ControlAdopt(c) \/ ControlGain(c) \/ ClockPasses(c)
      PROVE  AudioKnows'
  BY <1>4, Constants
  DEF Retire, Offer, StartWait, Poll, GiveUp, ControlClaim, ControlAdopt, ControlGain,
      ClockPasses
<1>5. ASSUME NEW c \in Controllers,
             \/ Detached(c) \/ Register(c) \/ Choose(c) \/ Stage(c)
             \/ Attach(c) \/ Drop(c) \/ Deinit(c)
      PROVE  AudioKnows'
  BY <1>5, Constants DEF Detached, Register, Choose, Stage, Attach, Drop, Deinit
<1>6. CASE UNCHANGED vars
  BY <1>6 DEF vars
<1> QED
  BY <1>1, <1>2, <1>3, <1>4, <1>5, <1>6, StepCases DEF Audio, Work

(* Every task keeps to its program.                                          *)
LEMMA ProgramStep ==
  ASSUME TypeOK, Programs, [Next]_vars
  PROVE  Programs'
<1> USE GraphAssumption DEF plan, binding, audio, wait, control, past, AGoto, CGoto, HandOver,
     Begin, Return, Retired, Lone,
     TypeOK, Programs, Program, Plans, Slots, Handing, Between, Gone
<1>1. CASE Audio
  BY <1>1, Constants
  DEF Audio, CallBegin, HookBegin, HookEnd, Duck, DuckGain, AudioClaim, AudioStore, Load,
      RenderEnd, CallEnd
<1>2. ASSUME NEW c \in Editors, Edit(c)
      PROVE  Programs'
  BY <1>2, Constants DEF Edit
<1>3. CASE Bind(Binder)
  BY <1>3, Constants DEF Bind
<1>4. CASE Unbind(Binder)
  BY <1>4, Constants DEF Unbind
<1>5. ASSUME NEW c \in Controllers, Retire(c) \/ Offer(c) \/ StartWait(c) \/ Poll(c)
      PROVE  Programs'
  BY <1>5, Constants DEF Retire, Offer, StartWait, Poll, GiveUp
<1>6. ASSUME NEW c \in Controllers,
             \/ ControlClaim(c) \/ ControlAdopt(c)
             \/ ControlGain(c) \/ ClockPasses(c)
      PROVE  Programs'
  BY <1>6, Constants DEF ControlClaim, ControlAdopt, ControlGain, ClockPasses
<1>7. ASSUME NEW c \in Controllers, Detached(c) \/ Register(c) \/ Choose(c) \/ Stage(c)
      PROVE  Programs'
  BY <1>7, Constants DEF Detached, Register, Choose, Stage
<1>8. ASSUME NEW c \in Controllers, Attach(c) \/ Drop(c) \/ Deinit(c)
      PROVE  Programs'
  BY <1>8, Constants DEF Attach, Drop, Deinit
<1>9. CASE UNCHANGED vars
  BY <1>9 DEF vars
<1> QED
  BY <1>1, <1>2, <1>3, <1>4, <1>5, <1>6, <1>7, <1>8, <1>9, StepCases DEF Audio, Work

(* The engine is called while it is bound.                                   *)
LEMMA CalledStep ==
  ASSUME TypeOK, Programs, Called, [Next]_vars
  PROVE  Called'
<1> USE GraphAssumption DEF plan, binding, audio, wait, control, past, AGoto, CGoto, HandOver,
     Begin, Return, Retired, Lone,
     TypeOK, Programs, Program, Called, Plans, Slots, Handing, Between, Gone
<1>1. CASE Audio
  BY <1>1, Constants
  DEF Audio, CallBegin, HookBegin, HookEnd, Duck, DuckGain, AudioClaim, AudioStore, Load,
      RenderEnd, CallEnd
<1>2. ASSUME NEW c \in Editors, Edit(c)
      PROVE  Called'
  BY <1>2, Constants DEF Edit
<1>3. CASE Bind(Binder)
  BY <1>3, Constants DEF Bind
<1>4. CASE Unbind(Binder)
  BY <1>4, Constants DEF Unbind
<1>5. ASSUME NEW c \in Controllers, Retire(c) \/ Offer(c) \/ StartWait(c) \/ Poll(c)
      PROVE  Called'
  BY <1>5, Constants DEF Retire, Offer, StartWait, Poll, GiveUp
<1>6. ASSUME NEW c \in Controllers,
             \/ ControlClaim(c) \/ ControlAdopt(c)
             \/ ControlGain(c) \/ ClockPasses(c)
      PROVE  Called'
  BY <1>6, Constants DEF ControlClaim, ControlAdopt, ControlGain, ClockPasses
<1>7. ASSUME NEW c \in Controllers, Detached(c) \/ Register(c) \/ Choose(c) \/ Stage(c)
      PROVE  Called'
  BY <1>7, Constants DEF Detached, Register, Choose, Stage
<1>8. ASSUME NEW c \in Controllers, Attach(c) \/ Drop(c) \/ Deinit(c)
      PROVE  Called'
  BY <1>8, Constants DEF Attach, Drop, Deinit
<1>9. CASE UNCHANGED vars
  BY <1>9 DEF vars
<1> QED
  BY <1>1, <1>2, <1>3, <1>4, <1>5, <1>6, <1>7, <1>8, <1>9, StepCases DEF Audio, Work

(* The lone task stays alone or is joined.                                   *)
LEMMA OthersStep ==
  ASSUME TypeOK, Called, OthersIdle, [Next]_vars
  PROVE  OthersIdle'
<1> USE GraphAssumption DEF plan, binding, audio, wait, control, past, AGoto, CGoto, HandOver,
     Begin, Return, Retired, Lone,
     TypeOK, Called, OthersIdle, Slots
<1>1. CASE Audio
  BY <1>1, Constants
  DEF Audio, CallBegin, HookBegin, HookEnd, Duck, DuckGain, AudioClaim, AudioStore, Load,
      RenderEnd, CallEnd
<1>2. ASSUME NEW c \in Editors, Edit(c)
      PROVE  OthersIdle'
  BY <1>2, Constants DEF Edit
<1>3. CASE Bind(Binder)
  BY <1>3, Constants DEF Bind
<1>4. CASE Unbind(Binder)
  BY <1>4, Constants DEF Unbind
<1>5. ASSUME NEW c \in Controllers, Retire(c) \/ Offer(c) \/ StartWait(c) \/ Poll(c)
      PROVE  OthersIdle'
  BY <1>5, Constants DEF Retire, Offer, StartWait, Poll, GiveUp
<1>6. ASSUME NEW c \in Controllers,
             \/ ControlClaim(c) \/ ControlAdopt(c)
             \/ ControlGain(c) \/ ClockPasses(c)
      PROVE  OthersIdle'
  BY <1>6, Constants DEF ControlClaim, ControlAdopt, ControlGain, ClockPasses
<1>7. ASSUME NEW c \in Controllers, Detached(c) \/ Register(c) \/ Choose(c) \/ Stage(c)
      PROVE  OthersIdle'
  BY <1>7, Constants DEF Detached, Register, Choose, Stage
<1>8. ASSUME NEW c \in Controllers, Attach(c) \/ Drop(c) \/ Deinit(c)
      PROVE  OthersIdle'
  BY <1>8, Constants DEF Attach, Drop, Deinit
<1>9. CASE UNCHANGED vars
  BY <1>9 DEF vars
<1> QED
  BY <1>1, <1>2, <1>3, <1>4, <1>5, <1>6, <1>7, <1>8, <1>9, StepCases DEF Audio, Work

(* The lone task's retirement holds however disturbed the graph was before.  *)
LEMMA RetireStep ==
  ASSUME IInv, [Next]_vars
  PROVE  LoneRetires'
<1> USE GraphAssumption DEF plan, binding, audio, wait, control, past, AGoto, CGoto, HandOver,
     Begin, Return, Retired, Lone,
     IInv, TypeOK, Programs, Program, AudioKnows, Called, OthersIdle, LoneRetires, NextLive,
     Slots, Plans, Handing, Between, Gone, pcA, stagedA
<1>1. CASE Audio
  BY <1>1, Constants
  DEF Audio, CallBegin, HookBegin, HookEnd, Duck, DuckGain, AudioClaim, AudioStore, Load,
      RenderEnd, CallEnd
<1>2. ASSUME NEW c \in Editors, Edit(c)
      PROVE  LoneRetires'
  BY <1>2, Constants DEF Edit
<1>3. CASE Bind(Binder)
  BY <1>3, Constants DEF Bind
<1>4. CASE Unbind(Binder)
  BY <1>4, Constants DEF Unbind
<1>5. ASSUME NEW c \in Controllers, Retire(c)
      PROVE  LoneRetires'
  BY <1>5, Constants DEF Retire
<1>6. ASSUME NEW c \in Controllers, Offer(c)
      PROVE  LoneRetires'
  BY <1>6, Constants DEF Offer
<1>7. ASSUME NEW c \in Controllers, StartWait(c)
      PROVE  LoneRetires'
  BY <1>7, Constants DEF StartWait
<1>8. ASSUME NEW c \in Controllers, Poll(c)
      PROVE  LoneRetires'
  BY <1>8, Constants DEF Poll, GiveUp
<1>9. ASSUME NEW c \in Controllers, ControlClaim(c)
      PROVE  LoneRetires'
  BY <1>9, Constants DEF ControlClaim
<1>10. ASSUME NEW c \in Controllers, ControlAdopt(c)
      PROVE  LoneRetires'
  BY <1>10, Constants DEF ControlAdopt
<1>11. ASSUME NEW c \in Controllers, ControlGain(c)
      PROVE  LoneRetires'
  BY <1>11, Constants DEF ControlGain
<1>12. ASSUME NEW c \in Controllers, ClockPasses(c)
      PROVE  LoneRetires'
  BY <1>12, Constants DEF ClockPasses
<1>13. ASSUME NEW c \in Controllers, Detached(c) \/ Register(c) \/ Choose(c) \/ Stage(c)
      PROVE  LoneRetires'
  BY <1>13, Constants DEF Detached, Register, Choose, Stage
<1>14. ASSUME NEW c \in Controllers, Attach(c) \/ Drop(c) \/ Deinit(c)
      PROVE  LoneRetires'
  BY <1>14, Constants DEF Attach, Drop, Deinit
<1>15. CASE UNCHANGED vars
  BY <1>15 DEF vars
<1> QED
  BY <1>1, <1>2, <1>3, <1>4, <1>5, <1>6, <1>7, <1>8, <1>9, <1>10, <1>11, <1>12, <1>13,
     <1>14, <1>15, StepCases DEF Audio, Work

(* An undisturbed hand-over holds, and holds again once the lone task has    *)
(* retired what was live.                                                    *)
LEMMA HandOverStep ==
  ASSUME IInv, [Next]_vars
  PROVE  WalksValidPlan' /\ HandOverKnows'
<1> USE GraphAssumption DEF plan, binding, audio, wait, control, past, AGoto, CGoto, HandOver,
     Begin, Return, Retired, Lone,
     IInv, TypeOK, Programs, Program, AudioKnows, Called, OthersIdle, LoneRetires,
     WalksValidPlan, HandOverKnows, NextLive, Slots, Plans, Handing, Between, Gone, pcA, stagedA
<1>1. CASE CallBegin \/ HookBegin \/ HookEnd \/ Duck
  BY <1>1, Constants
  DEF CallBegin, HookBegin, HookEnd, Duck, DuckGain
<1>2. CASE AudioClaim \/ AudioStore \/ Load \/ RenderEnd \/ CallEnd
  BY <1>2, Constants
  DEF AudioClaim, AudioStore, Load, RenderEnd, CallEnd
<1>3. ASSUME NEW c \in Editors, Edit(c)
      PROVE  WalksValidPlan' /\ HandOverKnows'
  BY <1>3, Constants DEF Edit
<1>4. CASE Bind(Binder)
  BY <1>4, Constants DEF Bind
<1>5. CASE Unbind(Binder)
  BY <1>5, Constants DEF Unbind
<1>6. ASSUME NEW c \in Controllers, Retire(c)
      PROVE  WalksValidPlan' /\ HandOverKnows'
  BY <1>6, Constants DEF Retire
<1>7. ASSUME NEW c \in Controllers, Offer(c)
      PROVE  WalksValidPlan' /\ HandOverKnows'
  BY <1>7, Constants DEF Offer
<1>8. ASSUME NEW c \in Controllers, StartWait(c)
      PROVE  WalksValidPlan' /\ HandOverKnows'
  BY <1>8, Constants DEF StartWait
<1>9. ASSUME NEW c \in Controllers, Poll(c)
      PROVE  WalksValidPlan' /\ HandOverKnows'
  BY <1>9, Constants DEF Poll, GiveUp
<1>10. ASSUME NEW c \in Controllers, ControlClaim(c)
      PROVE  WalksValidPlan' /\ HandOverKnows'
  BY <1>10, Constants DEF ControlClaim
<1>11. ASSUME NEW c \in Controllers, ControlAdopt(c)
      PROVE  WalksValidPlan' /\ HandOverKnows'
  BY <1>11, Constants DEF ControlAdopt
<1>12. ASSUME NEW c \in Controllers, ControlGain(c)
      PROVE  WalksValidPlan' /\ HandOverKnows'
  BY <1>12, Constants DEF ControlGain
<1>13. ASSUME NEW c \in Controllers, ClockPasses(c)
      PROVE  WalksValidPlan' /\ HandOverKnows'
  BY <1>13, Constants DEF ClockPasses
<1>14. ASSUME NEW c \in Controllers, Detached(c) \/ Register(c)
      PROVE  WalksValidPlan' /\ HandOverKnows'
  BY <1>14, Constants DEF Detached, Register
<1>15. ASSUME NEW c \in Controllers, Choose(c) \/ Stage(c)
      PROVE  WalksValidPlan' /\ HandOverKnows'
  BY <1>15, Constants DEF Choose, Stage
<1>16. ASSUME NEW c \in Controllers, Attach(c) \/ Drop(c) \/ Deinit(c)
      PROVE  WalksValidPlan' /\ HandOverKnows'
  BY <1>16, Constants DEF Attach, Drop, Deinit
<1>17. CASE UNCHANGED vars
  BY <1>17 DEF vars
<1> QED
  BY <1>1, <1>2, <1>3, <1>4, <1>5, <1>6, <1>7, <1>8, <1>9, <1>10, <1>11, <1>12, <1>13,
     <1>14, <1>15, <1>16, <1>17, StepCases DEF Audio, Work
(* Every step keeps the invariant. *)
LEMMA Step == IInv /\ [Next]_vars => IInv'
<1> SUFFICES ASSUME IInv, [Next]_vars PROVE IInv'
  OBVIOUS
<1>1. LoneRetires' /\ WalksValidPlan' /\ HandOverKnows'
  BY RetireStep, HandOverStep
<1>2. TypeOK' /\ AudioKnows' /\ Programs' /\ Called' /\ OthersIdle'
  BY TypeStep, AudioStep, ProgramStep, CalledStep, OthersStep DEF IInv
<1> QED
  BY <1>1, <1>2 DEF IInv

(* The inductive invariant holds in every reachable state.                   *)
THEOREM Inductive == Spec => []IInv
  BY Initial, Step, PTL DEF Spec

(* Every variable keeps its type.                                            *)
THEOREM Typing == Spec => []TypeOK
<1>1. IInv => TypeOK
  BY DEF IInv
<1> QED
  BY <1>1, Inductive, PTL

(* No block ever walks a plan that is being overwritten, or whose parameters *)
(* are gone, unless tasks have edited at once or a plan was taken over under *)
(* a block, and no retire() of a task with the graph to itself has followed. *)
THEOREM WalkSafe == Spec => []WalksValidPlan
<1>1. IInv => WalksValidPlan
  BY DEF IInv
<1> QED
  BY <1>1, Inductive, PTL

(* The work buffers outlive every hook and block of the modular engine,      *)
(* however many tasks edit at once and wherever the audio task pauses.       *)
THEOREM BuffersSafe == Spec => []BuffersOutliveCall
<1>1. IInv => BuffersOutliveCall
  BY DEF IInv, Called, BuffersOutliveCall
<1> QED
  BY <1>1, Inductive, PTL

(* No edit and no bind ends in the silence it passed through, by the same    *)
(* exception.                                                                *)
THEOREM EditsLand == Spec => []EditLeavesPlan
<1>1. IInv => EditLeavesPlan
  <2> SUFFICES ASSUME IInv, ~disturbed, s_bound, \A c \in Controllers : cpc[c] = "idle"
               PROVE  alone # None /\ NextLive = staged[alone] /\ NextLive \in valid
    BY DEF EditLeavesPlan
  <2>1. alone # None /\ alone \in Controllers
    BY DEF IInv, OthersIdle, TypeOK
  <2>2. pcA = "idle" /\ stagedA = staged[alone]
    BY <2>1 DEF pcA, stagedA
  <2> QED
    BY <2>1, <2>2 DEF IInv, HandOverKnows
<1> QED
  BY <1>1, Inductive, PTL

-----------------------------------------------------------------------------
(* The refinement of Handoff: what is offered is the plan the next load will *)
(* find, which an adoption replaces at its claim.                            *)
LEMMA SlotFacts == /\ None \notin Slots
                   /\ \A p \in Slots : Slot(p) = p
                   /\ Slot("empty") = None /\ Slot(None) = None
  BY GraphAssumption DEF Slot, Slots

(* The graph without a plan is the handoff with nothing offered. *)
LEMMA RefinesInit == Init => H!Init
  BY SlotFacts DEF Init, H!Init, H!Maybe, NextLive

(* What is in use or offered in an undisturbed graph is valid. *)
LEMMA RefinesUse == IInv => disturbed \/ H!UseLive
<1> SUFFICES ASSUME IInv, ~disturbed PROVE H!UseLive
  OBVIOUS
<1>1. using \in Plans \cup {None} /\ NextLive \in Plans
  BY DEF IInv, TypeOK, NextLive, AudioKnows
<1>2. (using \in Slots => using \in valid) /\ (NextLive \in Slots => NextLive \in valid)
  BY DEF IInv, WalksValidPlan, HandOverKnows
<1>3. \A p \in Plans \cup {None} : p \in Slots \/ Slot(p) = None
  BY SlotFacts DEF Plans
<1> QED
  BY <1>1, <1>2, <1>3, SlotFacts DEF H!UseLive

(* A task that takes a step in an undisturbed graph is the lone one.         *)
LEMMA OneWorks ==
  ASSUME IInv, ~disturbed, NEW c \in Controllers, cpc[c] # "idle"
  PROVE  alone = c /\ pcA = cpc[c] /\ stagedA = staged[c]
<1>1. alone = c
  BY DEF IInv, OthersIdle
<1> QED
  BY <1>1, Constants DEF pcA, stagedA

(* Every undisturbed step is one of the handoff or none. *)
LEMMA RefinesStep ==
  IInv /\ [Next]_vars => [disturbed \/ disturbed' \/ H!Next]_(H!vars)
<1> SUFFICES ASSUME IInv, [Next]_vars, ~disturbed, ~disturbed'
             PROVE  H!Next \/ UNCHANGED <<Slot(NextLive), Slot(using), valid>>
  BY DEF H!vars
<1> USE DEF plan, binding, audio, wait, control, past, AGoto, CGoto, HandOver, Begin
<1>0. NextLive \in Plans /\ using \in Plans \cup {None} /\ valid \in SUBSET Slots
  BY DEF IInv, TypeOK, NextLive, AudioKnows
<1>1. ASSUME Slot(using) = None, using' = NextLive, UNCHANGED <<NextLive, valid>>
      PROVE  H!Next \/ UNCHANGED <<Slot(NextLive), Slot(using), valid>>
  <2>1. CASE NextLive \in Slots
    BY <1>1, <2>1, SlotFacts DEF H!Next, H!Acquire
  <2>2. CASE NextLive = "empty"
    BY <1>1, <2>2, SlotFacts
  <2> QED
    BY <1>0, <2>1, <2>2 DEF Plans
<1>2. ASSUME using' = None, UNCHANGED <<NextLive, valid>>
      PROVE  H!Next \/ UNCHANGED <<Slot(NextLive), Slot(using), valid>>
  BY <1>2, SlotFacts DEF H!Next, H!Release
<1>3. ASSUME NextLive' \in valid \cup {"empty"}, UNCHANGED <<using, valid>>
      PROVE  H!Next \/ UNCHANGED <<Slot(NextLive), Slot(using), valid>>
  <2>1. CASE NextLive' = "empty"
    BY <1>3, <2>1, SlotFacts DEF H!Next, H!Withdraw
  <2>2. CASE NextLive' \in valid
    <3>1. NextLive' \in Slots /\ H!Offer(NextLive')
      BY <1>0, <1>3, <2>2, SlotFacts DEF H!Offer
    <3> QED
      BY <3>1 DEF H!Next
  <2> QED
    BY <1>3, <2>1, <2>2
<1>4. ASSUME NEW R \in SUBSET Slots, Slot(NextLive) = None, Slot(using) = None,
             UNCHANGED <<NextLive, using>>, valid' = valid \ R
      PROVE  H!Next
  <2>1. H!Reclaim(R)
    BY <1>4, SlotFacts DEF H!Reclaim
  <2> QED
    BY <2>1 DEF H!Next
<1>5. CASE HookBegin
  BY <1>1, <1>5, SlotFacts DEF HookBegin, NextLive
<1>6. CASE HookEnd
  BY <1>2, <1>6 DEF HookEnd, NextLive
<1>7. CASE AudioClaim
  <2>1. NextLive' \in {NextLive, seen} /\ (NextLive' = seen \/ UNCHANGED NextLive)
    BY <1>7 DEF AudioClaim, NextLive
  <2>2. seen \in valid \cup {"empty"}
    BY <1>7 DEF AudioClaim, IInv, AudioKnows, HandOverKnows, Handing, Plans
  <2> QED
    BY <1>3, <1>7, <2>1, <2>2 DEF AudioClaim
<1>8. CASE Load
  BY <1>1, <1>8, SlotFacts DEF Load, NextLive, IInv, AudioKnows
<1>9. CASE RenderEnd
  BY <1>2, <1>9 DEF RenderEnd, NextLive
<1>10. CASE CallBegin \/ Duck \/ AudioStore \/ CallEnd
  BY <1>10 DEF CallBegin, Duck, AudioStore, CallEnd, NextLive
<1>11. CASE Bind(Binder)
  BY <1>3, <1>11 DEF Bind, NextLive, IInv, AudioKnows, Called
<1>12. ASSUME NEW c \in Controllers, ControlAdopt(c)
       PROVE  H!Next \/ UNCHANGED <<Slot(NextLive), Slot(using), valid>>
  <2>1. alone = c /\ pcA = "adopt" /\ stagedA = staged[c]
    BY <1>12, OneWorks DEF ControlAdopt
  <2>2. apc = "idle" /\ staged[c] \in valid \cup {"empty"}
    BY <2>1, Constants DEF IInv, LoneRetires, HandOverKnows, Handing, TypeOK, Plans
  <2> QED
    BY <1>3, <1>12, <2>2 DEF ControlAdopt, NextLive
<1>13. ASSUME NEW c \in Controllers, Register(c) \/ Choose(c) \/ Drop(c)
       PROVE  H!Next \/ UNCHANGED <<Slot(NextLive), Slot(using), valid>>
  <2>1. pcA \in Between \cup Gone
    BY <1>13, OneWorks DEF Register, Choose, Drop, Between, Gone
  <2>2. Slot(NextLive) = None /\ Slot(using) = None
    BY <2>1, SlotFacts DEF IInv, HandOverKnows
  <2>3. UNCHANGED <<NextLive, using>>
    BY <1>13 DEF Register, Choose, Drop, NextLive
  <2>4. \E R \in SUBSET Slots : valid' = valid \ R
    <3>1. valid' = valid \ {} \/ valid' = valid \ Slots
             \/ valid' = valid \ {"plan0"} \/ valid' = valid \ {"plan1"}
      BY <1>0, <1>13 DEF Register, Choose, Drop
    <3> QED
      BY <3>1 DEF Slots
  <2> QED
    BY <1>4, <2>2, <2>3, <2>4
<1>14. ASSUME NEW c \in Controllers, Stage(c)
       PROVE  H!Next \/ UNCHANGED <<Slot(NextLive), Slot(using), valid>>
  <2>1. staged[c] \in Slots /\ UNCHANGED <<NextLive, using>>
    BY <1>14 DEF Stage, NextLive, IInv, Programs, Program
  <2>2. H!Provide(staged[c])
    BY <1>14, <2>1 DEF Stage, H!Provide
  <2> QED
    BY <2>1, <2>2 DEF H!Next
<1>15. ASSUME NEW c \in Controllers, Deinit(c)
       PROVE  H!Next \/ UNCHANGED <<Slot(NextLive), Slot(using), valid>>
  <2>1. c = Binder
    BY <1>15 DEF Deinit, IInv, Programs, Program, Gone
  <2>2. apc = "idle"
    BY <1>15, <2>1 DEF Deinit, IInv, Called, Gone
  <2> QED
    BY <1>3, <1>15, <2>2 DEF Deinit, NextLive
<1>16. ASSUME NEW c \in Controllers,
              \/ Edit(c) \/ Unbind(c) \/ Detached(c) \/ Retire(c)
              \/ Offer(c) \/ StartWait(c) \/ ClockPasses(c)
              \/ Poll(c) \/ ControlClaim(c) \/ ControlGain(c) \/ Attach(c)
       PROVE  UNCHANGED <<Slot(NextLive), Slot(using), valid>>
  BY <1>16 DEF Edit, Unbind, Detached, Retire, Offer, StartWait, ClockPasses, Poll,
               ControlClaim, ControlGain, Attach, NextLive
<1>17. CASE UNCHANGED vars
  BY <1>17 DEF vars, NextLive
<1> QED
  BY <1>5, <1>6, <1>7, <1>8, <1>9, <1>10, <1>11, <1>12, <1>13, <1>14, <1>15, <1>16, <1>17,
     StepCases, Constants DEF Audio, Work

(* The plan swap is a correct handoff of the two plan slots: but for steps of *)
(* a disturbed graph, control code overwrites one only when no block can     *)
(* still reach it, and what is offered or walked is valid.                   *)
THEOREM SwapIsHandoff == Spec => HandoffSpec
  BY RefinesInit, RefinesUse, RefinesStep, Inductive, PTL DEF Spec, HandoffSpec
=============================================================================
