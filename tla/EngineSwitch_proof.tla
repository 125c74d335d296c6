------------------------- MODULE EngineSwitch_proof -------------------------
(***************************************************************************)
(* Proofs about EngineSwitch for every set of engines and writers, every    *)
(* width of the block counter and every combination of faults: the switch   *)
(* protocol is memory safe, it ends in a consistent state, and it           *)
(* implements the handoff of the voice pool.                                *)
(***************************************************************************)
EXTENDS EngineSwitch, TLAPS

(* The engine everything names, or nothing bound after a failed restore. *)
Agree(e) == s_engine = e /\ s_pool = e /\ s_params = {e}
Nothing  == s_engine = None /\ s_pool = None /\ "unrestored" \in history

(* What the switch task knows at each of its steps. *)
Idle      == {"take", "read", "refuse", "refuse_listen"}
Outside   == Idle \cup {"mute", "settle", "exchange", "revert", "relisten", "unmute"}
Detaching == {"start", "poll", "deadline", "free"}
Unbound   == {"free", "deinit", "init", "alloc", "publish", "scrub", "reinit",
              "realloc", "republish"}
Freed     == Unbound \ {"free", "publish", "republish"}

Locals ==
  /\ pc \notin {"take", "read", "unmute"} => cur = s_active_type
  /\ pc \notin Idle => want \in Built

(* Outside the swap everything agrees on the active engine. *)
Consistent ==
  /\ pc \in Outside => Agree(s_active_type) \/ Nothing
  /\ pc \in Idle \cup {"mute"} => s_mute_target = MuteSteps
  /\ pc = "commit" => Agree(want)

(* While detaching the pool is still allocated but no longer published. *)
Detached ==
  pc \in Detaching => /\ s_engine = None
                      /\ s_pool = s_active_type
                      /\ s_params = {s_active_type}
                      /\ old = s_active_type

(* A block that still uses the old engine has been running since before the *)
(* counter was read, so it has not ticked: when the counter has moved, the  *)
(* old engine is out of use.                                                 *)
Handshake ==
  /\ ~block => using = None
  /\ pc \in {"poll", "deadline"} /\ using # None => s_render_seq = start
  /\ pc \in Unbound => using = None /\ s_engine = None
  /\ pc \in Freed => s_pool = None

(* What the new binding has so far. *)
Binding ==
  /\ pc \in {"init", "reinit"} => s_params = {}
  /\ pc \in {"alloc", "publish"} => s_params = {want}
  /\ pc = "publish" => s_pool = want
  /\ pc \in {"realloc", "republish"} => s_params = {cur}
  /\ pc = "republish" => s_pool = cur

(* The inductive invariant. *)
IInv == /\ TypeOK
        /\ PoolOutlivesBlock
        /\ ParamsOutliveBlock
        /\ Locals
        /\ Consistent
        /\ Detached
        /\ Handshake
        /\ Binding

USE TypesAssumption, NumberAssumption, FaultAssumption

(* The initial state: the boot engine is bound and nothing is in flight. *)
LEMMA InitIInv == Init => IInv
<1> SUFFICES ASSUME Init PROVE IInv
  OBVIOUS
<1>1. block \in BOOLEAN /\ notified \in BOOLEAN /\ late \in BOOLEAN
  BY Zenon DEF Init
<1> QED
  BY <1>1 DEF Init, IInv, TypeOK, PoolOutlivesBlock, ParamsOutliveBlock, Locals,
         Consistent, Detached, Handshake, Binding, Agree, Nothing, Idle, Outside,
         Detaching, Unbound, Freed, SwitchPCs, PresetPCs

(* Every step preserves the invariant. *)
LEMMA StepIInv == IInv /\ [Next]_vars => IInv'
<1> USE DEF IInv, TypeOK, PoolOutlivesBlock, ParamsOutliveBlock, Locals,
            Consistent, Detached, Handshake, Binding, Agree, Nothing, Idle,
            Outside, Detaching, Unbound, Freed, SwitchPCs, PresetPCs,
            shared, audio, request, preset, local, bound, Goto, Others,
            Apart, Heard
<1> SUFFICES ASSUME IInv, [Next]_vars PROVE IInv'
  OBVIOUS
<1>1. CASE BlockBegin
  BY <1>1 DEF BlockBegin
<1>2. CASE BlockEnd
  <2>1. block' \in BOOLEAN
    BY <1>2, Zenon DEF BlockEnd
  <2> QED
    BY <1>2, <2>1 DEF BlockEnd, Ramp
<1>3. CASE \E w \in Writers, t \in Types : WriteStore(w, t)
  BY <1>3 DEF WriteStore
<1>4. CASE \E w \in Writers : WriteListen(w)
  BY <1>4 DEF WriteListen
<1>5. CASE \E t \in Loads : PresetLoad(t)
  BY <1>5 DEF PresetLoad
<1>6. CASE PresetCheck \/ PresetListen \/ PresetPoll \/ PresetApplied
  <2>1. CASE PresetCheck
    BY <2>1 DEF PresetCheck
  <2>2. CASE PresetListen
    BY <2>2 DEF PresetListen
  <2>3. CASE PresetPoll
    BY <2>3 DEF PresetPoll
  <2>4. CASE PresetApplied
    BY <2>4 DEF PresetApplied
  <2> QED
    BY <1>6, <2>1, <2>2, <2>3, <2>4
<1>7. CASE ClockPasses
  BY <1>7 DEF ClockPasses
<1>8. CASE TakeNotification
  <2>1. notified' \in BOOLEAN
    BY <1>8, Zenon DEF TakeNotification
  <2> QED
    BY <1>8, <2>1 DEF TakeNotification
<1>9. CASE ReadRequest
  BY <1>9 DEF ReadRequest
<1>10. CASE RevertStore
  BY <1>10 DEF RevertStore
<1>11. CASE RevertListen
  BY <1>11 DEF RevertListen
<1>12. CASE Mute
  <2>1. late' \in BOOLEAN
    BY <1>12, Zenon DEF Mute
  <2> QED
    BY <1>12, <2>1 DEF Mute
<1>13. CASE Settle
  BY <1>13 DEF Settle
<1>14. CASE DetachExchange
  BY <1>14 DEF DetachExchange
<1>15. CASE DetachStart
  <2>1. late' \in BOOLEAN
    BY <1>15, Zenon DEF DetachStart
  <2> QED
    BY <1>15, <2>1 DEF DetachStart
<1>16. CASE DetachPoll
  BY <1>16 DEF DetachPoll, Elapsed, Boundaries
<1>17. CASE DetachDeadline
  <2>1. history' \subseteq {"crossed", "failed", "unrestored"}
    BY <1>17, Zenon DEF DetachDeadline, Fails
  <2> QED
    BY <1>17, <2>1 DEF DetachDeadline
<1>18. CASE DetachFree
  BY <1>18 DEF DetachFree
<1>19. CASE Deinit
  BY <1>19 DEF Deinit
<1>20. CASE InitNext
  <2>1. history' \subseteq {"crossed", "failed", "unrestored"}
    BY <1>20, Zenon DEF InitNext, InitEngine, Fails
  <2> QED
    BY <1>20, <2>1 DEF InitNext, InitEngine
<1>21. CASE InitOld
  <2>1. history' \subseteq {"crossed", "failed", "unrestored"}
    BY <1>21, Zenon DEF InitOld, InitEngine, RestoreFails
  <2>2. pc' = "revert" => "unrestored" \in history'
    BY <1>21 DEF InitOld, InitEngine, RestoreFails
  <2> QED
    BY <1>21, <2>1, <2>2 DEF InitOld, InitEngine
<1>22. CASE AllocNext
  <2>1. history' \subseteq {"crossed", "failed", "unrestored"}
    BY <1>22, Zenon DEF AllocNext, AllocPool, Fails
  <2> QED
    BY <1>22, <2>1 DEF AllocNext, AllocPool
<1>23. CASE AllocOld
  <2>1. history' \subseteq {"crossed", "failed", "unrestored"}
    BY <1>23, Zenon DEF AllocOld, AllocPool, RestoreFails
  <2>2. pc' = "revert" => "unrestored" \in history'
    BY <1>23 DEF AllocOld, AllocPool, RestoreFails
  <2> QED
    BY <1>23, <2>1, <2>2 DEF AllocOld, AllocPool
<1>24. CASE Publish
  BY <1>24 DEF Publish
<1>25. CASE Commit
  BY <1>25 DEF Commit
<1>26. CASE Unmute
  BY <1>26 DEF Unmute
<1>27. CASE UNCHANGED vars
  BY <1>27 DEF vars
<1> QED
  BY <1>1, <1>2, <1>3, <1>4, <1>5, <1>6, <1>7, <1>8, <1>9, <1>10, <1>11, <1>12,
     <1>13, <1>14, <1>15, <1>16, <1>17, <1>18, <1>19, <1>20, <1>21, <1>22,
     <1>23, <1>24, <1>25, <1>26, <1>27
  DEF Next, Audio, Switch, Requests, Setters

(* The switch protocol keeps its invariant for every number of engines and  *)
(* writers, whatever fails and however late the audio task is.              *)
THEOREM Inductive == Spec => []IInv
  BY InitIInv, StepIInv, PTL DEF Spec

(* Every variable keeps its type. *)
THEOREM Typing == Spec => []TypeOK
<1>1. IInv => TypeOK
  BY DEF IInv
<1> QED
  BY <1>1, Inductive, PTL

(* Memory safety of the switch: no block ever renders with a voice pool that *)
(* was freed or handed to another engine, nor with parameters that were      *)
(* removed.                                                                  *)
THEOREM PoolSafe == Spec => []UsedStaysValid
<1>1. IInv => UsedStaysValid
  BY DEF IInv, UsedStaysValid
<1> QED
  BY <1>1, Inductive, PTL

(* However a switch ends, pointer, pool, parameters and active type agree,   *)
(* or the restore failed and nothing is bound; and the mute is lifted.       *)
THEOREM EndsConsistently == Spec => []SettledConsistently
<1>1. IInv => SettledConsistently
  BY DEF IInv, Consistent, SettledConsistently, Agree, Nothing, Outside, Idle
<1> QED
  BY <1>1, Inductive, PTL

(* A detach that timed out keeps the engine that was bound, its pool and its *)
(* parameters.                                                               *)
THEOREM TimeoutSafe == Spec => TimeoutKeepsEngine
<1>1. IInv /\ [Next]_vars =>
        [pc = "deadline" /\ pc' = "revert" =>
           /\ s_engine' = s_active_type
           /\ s_pool' = s_active_type
           /\ s_params' = {s_active_type}]_vars
  <2> SUFFICES ASSUME IInv, Next, pc = "deadline", pc' = "revert"
               PROVE  /\ s_engine' = s_active_type
                      /\ s_pool' = s_active_type
                      /\ s_params' = {s_active_type}
    OBVIOUS
  <2>1. DetachDeadline
    BY DEF Next, Audio, Switch, Requests, Setters, BlockBegin, BlockEnd, WriteStore,
           WriteListen, PresetLoad, PresetCheck, PresetListen, PresetPoll,
           PresetApplied, ClockPasses, TakeNotification, ReadRequest, RevertStore,
           RevertListen, Mute, Settle, DetachExchange, DetachStart, DetachPoll,
           DetachFree, Deinit, InitNext, InitOld, InitEngine, AllocNext, AllocOld,
           AllocPool, Publish, Commit, Unmute, Goto, local
  <2> QED
    BY <2>1 DEF DetachDeadline, bound, IInv, Detached, Detaching
<1> QED
  BY <1>1, Inductive, PTL DEF Spec, TimeoutKeepsEngine

-----------------------------------------------------------------------------
(* The parameter and the engine. *)

(* Somebody has stored a value and not yet run its listener. *)
Outstanding == \/ \E w \in Writers : pending[w] # None
               \/ ppc = "listen"
               \/ pc \in {"refuse_listen", "relisten"}

(* What was asked for last; before the first request, the boot engine. *)
Asked == IF s_requested = None THEN Boot ELSE s_requested

(* The steps of a switch that may still bind the engine it read. *)
Switching == {"mute", "settle", "exchange", "start", "poll", "deadline", "free",
              "deinit", "init", "alloc", "publish", "commit"}

(* The last listener to run was told the value that is stored now, and what  *)
(* it asked for is active, is being bound, or has raised the notification    *)
(* the switch task has yet to take.                                          *)
NInv ==
  /\ s_requested = None => pc = "take" /\ ~notified /\ s_active_type = Boot
  /\ Outstanding \/ Asked = engine_type \/ "crossed" \in history
  /\ pc \in {"take", "unmute"} => notified \/ Asked = s_active_type
  /\ pc \in Switching => notified \/ s_requested = want

(* Nothing has been asked for at boot. *)
LEMMA InitNInv == Init => NInv
<1> SUFFICES ASSUME Init PROVE NInv
  OBVIOUS
<1>1. ~notified
  BY Zenon DEF Init
<1> QED
  BY <1>1 DEF Init, NInv, Asked, Switching

(* A listener leaves what was asked for equal to what is stored, or crosses. *)
LEMMA ListenerTells ==
  ASSUME TypeOK, NInv, NEW t \in Types,
         s_requested' = t, notified' = TRUE, Heard(t), 
         engine_type' = engine_type
  PROVE  /\ s_requested' # None
         /\ notified'
         /\ Asked' = engine_type' \/ "crossed" \in history'
<1>1. notified' /\ s_requested' # None
  BY TypesAssumption, Zenon
<1>2. Asked' = engine_type' \/ "crossed" \in history'
  BY TypesAssumption DEF Heard, Asked
<1> QED
  BY <1>1, <1>2

(* Every step preserves it: a store makes its listener outstanding, a        *)
(* listener raises the notification, and a switch that reverts is a listener *)
(* itself.                                                                   *)
LEMMA StepNInv == TypeOK /\ NInv /\ [Next]_vars => NInv'
<1> SUFFICES ASSUME TypeOK, NInv, [Next]_vars PROVE NInv'
  OBVIOUS
<1> USE DEF shared, audio, request, preset, local, bound, Goto, Others, Apart, Switching
<1>1. CASE Audio \/ ClockPasses
  BY <1>1 DEF Audio, BlockBegin, BlockEnd, ClockPasses, NInv, Asked, Outstanding
<1>2. CASE \E w \in Writers, t \in Types : WriteStore(w, t)
  <2>1. PICK w \in Writers, t \in Types : WriteStore(w, t)
    BY <1>2
  <2>2. pending'[w] = t /\ t # None
    BY <2>1, TypesAssumption DEF WriteStore, TypeOK
  <2>3. Outstanding'
    BY <2>2 DEF Outstanding
  <2> QED
    BY <2>1, <2>3 DEF WriteStore, NInv, Asked
<1>3. CASE \E w \in Writers : WriteListen(w)
  <2>1. PICK w \in Writers : WriteListen(w)
    BY <1>3
  <2>2. pending[w] \in Types
    BY <2>1 DEF WriteListen, TypeOK
  <2>3. /\ s_requested' # None
        /\ notified'
        /\ Asked' = engine_type' \/ "crossed" \in history'
    BY <2>1, <2>2, ListenerTells DEF WriteListen
  <2> QED
    BY <2>3 DEF NInv
<1>4. CASE \E t \in Loads : PresetLoad(t)
  BY <1>4 DEF PresetLoad, NInv, Asked, Outstanding
<1>5. CASE PresetCheck
  BY <1>5 DEF PresetCheck, NInv, Asked, Outstanding
<1>6. CASE PresetListen
  <2>1. /\ s_requested' # None
        /\ notified'
        /\ Asked' = engine_type' \/ "crossed" \in history'
    BY <1>6, ListenerTells DEF PresetListen, TypeOK
  <2> QED
    BY <2>1 DEF NInv
<1>7. CASE PresetPoll \/ PresetApplied
  BY <1>7 DEF PresetPoll, PresetApplied, NInv, Asked, Outstanding
<1>8. CASE TakeNotification
  BY <1>8 DEF TakeNotification, NInv, Asked, Outstanding
<1>9. CASE ReadRequest
  BY <1>9 DEF ReadRequest, NInv, Asked, Outstanding
<1>10. CASE RevertStore
  BY <1>10 DEF RevertStore, NInv, Outstanding
<1>11. CASE RevertListen
  <2>1. cur \in Types
    BY TypesAssumption DEF TypeOK
  <2>2. /\ s_requested' # None
        /\ notified'
        /\ Asked' = engine_type' \/ "crossed" \in history'
    BY <1>11, <2>1, ListenerTells DEF RevertListen
  <2> QED
    BY <2>2 DEF NInv
<1>12. CASE Mute \/ Settle \/ DetachExchange \/ DetachStart \/ DetachPoll \/ DetachFree \/ Deinit
  BY <1>12 DEF Mute, Settle, DetachExchange, DetachStart, DetachPoll, DetachFree, Deinit,
               NInv, Asked, Outstanding
<1>13. CASE DetachDeadline \/ InitNext \/ InitOld \/ AllocNext \/ AllocOld
  <2>1. history \subseteq history'
    BY <1>13 DEF DetachDeadline, InitNext, InitOld, AllocNext, AllocOld, InitEngine,
                 AllocPool, Fails, RestoreFails
  <2> QED
    BY <1>13, <2>1 DEF DetachDeadline, InitNext, InitOld, AllocNext, AllocOld,
                       InitEngine, AllocPool, NInv, Asked, Outstanding
<1>14. CASE Publish \/ Commit \/ Unmute
  BY <1>14 DEF Publish, Commit, Unmute, NInv, Asked, Outstanding
<1>15. CASE UNCHANGED vars
  BY <1>15 DEF vars, NInv, Asked, Outstanding
<1> QED
  BY <1>1, <1>2, <1>3, <1>4, <1>5, <1>6, <1>7, <1>8, <1>9, <1>10, <1>11, <1>12,
     <1>13, <1>14, <1>15
  DEF Next, Switch, Requests, Setters

(* Once every request has been heard and the switch task is parked,          *)
(* engine.type names the active engine, whatever failed on the way, unless   *)
(* two writes crossed between store and listener.                            *)
THEOREM ParameterNamesEngine == Spec => []ParamNamesEngine
<1>1. NInv => ParamNamesEngine
  BY DEF NInv, ParamNamesEngine, Quiet, Outstanding
<1>2. IInv => TypeOK
  BY DEF IInv
<1> QED
  BY <1>1, <1>2, InitNInv, StepNInv, Inductive, PTL DEF Spec

-----------------------------------------------------------------------------
(* Refinement. *)

(* The boot state is a handoff in which the boot engine is offered. *)
LEMMA RefinesInit == Init => H!Init
  BY DEF Init, H!Init, H!Maybe, Pools

(* Every step of the switch protocol or of the audio task is a step of the   *)
(* handoff, or changes nothing the handoff sees.                             *)
LEMMA RefinesStep == IInv /\ [Next]_vars => [H!Next]_(H!vars)
<1> USE DEF Pools, Goto, Others, Apart, shared, audio
<1> SUFFICES ASSUME IInv, [Next]_vars
             PROVE  H!Next \/ UNCHANGED <<s_engine, using, Pools>>
  BY DEF H!vars
<1>1. CASE BlockBegin
  <2>1. CASE s_engine = None
    BY <1>1, <2>1 DEF BlockBegin, IInv, Handshake
  <2>2. CASE s_engine # None
    BY <1>1, <2>2 DEF BlockBegin, IInv, Handshake, H!Next, H!Acquire
  <2> QED
    BY <2>1, <2>2
<1>2. CASE BlockEnd
  <2>1. CASE using = None
    BY <1>2, <2>1 DEF BlockEnd
  <2>2. CASE using # None
    BY <1>2, <2>2 DEF BlockEnd, H!Next, H!Release
  <2> QED
    BY <2>1, <2>2
<1>3. CASE DetachExchange
  BY <1>3 DEF DetachExchange, H!Next, H!Withdraw
<1>4. CASE DetachDeadline
  <2>1. CASE ~late
    BY <1>4, <2>1 DEF DetachDeadline
  <2>2. CASE late
    <3>1. old \in Built /\ old \in Pools /\ s_engine' = old
      BY <1>4, <2>2 DEF DetachDeadline, IInv, Detached, Detaching, TypeOK
    <3>2. H!Offer(old)
      BY <1>4, <3>1 DEF DetachDeadline, H!Offer
    <3> QED
      BY <3>1, <3>2 DEF H!Next
  <2> QED
    BY <2>1, <2>2
<1>5. CASE DetachFree
  <2>1. s_pool \in Built /\ s_engine = None /\ using = None
    BY <1>5 DEF DetachFree, IInv, Detached, Detaching, Handshake, Unbound, TypeOK
  <2>2. H!Reclaim({s_pool})
    BY <1>5, <2>1, TypesAssumption DEF DetachFree, H!Reclaim
  <2>3. {s_pool} \in SUBSET Built
    BY <2>1
  <2> QED
    BY <2>2, <2>3 DEF H!Next
<1>6. ASSUME NEW e \in Built, s_engine = None, s_pool = None, s_engine' = None,
             using' = using, s_pool' \in {e, None}
      PROVE  H!Next \/ UNCHANGED <<s_engine, using, Pools>>
  <2>1. CASE s_pool' = None
    BY <1>6, <2>1
  <2>2. CASE s_pool' = e
    BY <1>6, <2>2, TypesAssumption DEF H!Next, H!Provide
  <2> QED
    BY <1>6, <2>1, <2>2
<1>7. CASE AllocNext
  <2>1. want \in Built /\ s_pool = None /\ s_engine = None
    BY <1>7 DEF AllocNext, AllocPool, IInv, Locals, Idle, Handshake, Unbound, Freed
  <2> QED
    BY <1>6, <1>7, <2>1 DEF AllocNext, AllocPool
<1>8. CASE AllocOld
  <2>1. cur \in Built /\ s_pool = None /\ s_engine = None
    BY <1>8 DEF AllocOld, AllocPool, IInv, TypeOK, Handshake, Unbound, Freed
  <2> QED
    BY <1>6, <1>8, <2>1 DEF AllocOld, AllocPool
<1>9. CASE Publish
  <2>1. PICK e \in Built : e = s_pool /\ s_engine' = e
    BY <1>9 DEF Publish, IInv, TypeOK, Locals, Idle, Binding
  <2>2. H!Offer(e)
    BY <1>9, <2>1, TypesAssumption DEF Publish, H!Offer
  <2> QED
    BY <2>2 DEF H!Next
<1>10. CASE \/ TakeNotification \/ ReadRequest \/ RevertStore \/ RevertListen
            \/ Mute \/ Settle \/ DetachStart \/ DetachPoll \/ Deinit
            \/ InitNext \/ InitOld \/ Commit \/ Unmute
  BY <1>10 DEF TakeNotification, ReadRequest, RevertStore, RevertListen, Mute, Settle,
               DetachStart, DetachPoll, Deinit, InitNext, InitOld, InitEngine,
               Commit, Unmute
<1>11. CASE Requests \/ Setters \/ ClockPasses \/ UNCHANGED vars
  BY <1>11 DEF Requests, Setters, WriteStore, WriteListen, PresetLoad, PresetCheck,
               PresetListen, PresetPoll, PresetApplied, ClockPasses, vars
<1> QED
  BY <1>1, <1>2, <1>3, <1>4, <1>5, <1>7, <1>8, <1>9, <1>10, <1>11
  DEF Next, Audio, Switch

(* The switch protocol is a correct handoff of the voice pool: control code  *)
(* frees it only when no block can still reach it.                           *)
THEOREM SwitchIsHandoff == Spec => HandoffSpec
  BY RefinesInit, RefinesStep, Inductive, PTL DEF Spec, HandoffSpec, H!Spec

(* The promise of a handoff follows from its steps: neither the running block *)
(* nor the next one ever reaches a resource that is not live, whatever        *)
(* heap_caps_free() does in between. The two conjuncts carry each other, and   *)
(* nothing but the steps of Handoff is used.                                  *)
LEMMA HandoffKeepsLive == HandoffSpec => []H!UseLive
<1>1. H!Init => H!UseLive
  BY DEF H!Init, H!UseLive
<1>2. H!UseLive /\ [H!Next]_(H!vars) => H!UseLive'
  <2> SUFFICES ASSUME H!UseLive, [H!Next]_(H!vars) PROVE H!UseLive'
    OBVIOUS
  <2> USE DEF H!UseLive
  <2>1. CASE H!Acquire
    BY <2>1 DEF H!Acquire
  <2>2. CASE H!Release
    BY <2>2 DEF H!Release
  <2>3. CASE H!Withdraw
    BY <2>3 DEF H!Withdraw
  <2>4. ASSUME NEW r \in Built, H!Offer(r) PROVE H!UseLive'
    BY <2>4 DEF H!Offer
  <2>5. ASSUME NEW r \in Built, H!Provide(r) PROVE H!UseLive'
    BY <2>5 DEF H!Provide
  <2>6. ASSUME NEW R \in SUBSET Built, H!Reclaim(R) PROVE H!UseLive'
    BY <2>6 DEF H!Reclaim
  <2>7. CASE UNCHANGED H!vars
    BY <2>7 DEF H!vars
  <2> QED
    BY <2>1, <2>2, <2>3, <2>4, <2>5, <2>6, <2>7 DEF H!Next
<1> QED
  BY <1>1, <1>2, PTL DEF HandoffSpec, H!Spec

(* So the switch, which implements it, keeps that promise in every run.       *)
THEOREM PoolHandedOver == Spec => []H!UseLive
  BY SwitchIsHandoff, HandoffKeepsLive, PTL
=============================================================================
