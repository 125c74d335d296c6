------------------------------ MODULE Handoff ------------------------------
(***************************************************************************)
(* What every lock-free replacement in the firmware promises: control code *)
(* publishes a resource to the audio task through one atomic pointer, the  *)
(* audio task loads the pointer once per block and works on what it got,   *)
(* and control code may free or overwrite a resource only when it is       *)
(* neither published nor still in the hands of a block.                    *)
(*                                                                         *)
(* EngineSwitch (the voice pool of the bound engine) and GraphSwap (the    *)
(* compiled plan of the modular engine) are shown to implement it.         *)
(***************************************************************************)

CONSTANTS Resource,   \* engines' voice pools, compiled plans
          None        \* the null pointer

VARIABLES offered,    \* what the next block will load, or None
          using,      \* what the running block has loaded, or None
          live        \* the resources whose memory is valid

vars == <<offered, using, live>>

Maybe == Resource \cup {None}

Init == /\ offered \in Maybe
        /\ live \in SUBSET Resource
        /\ offered # None => offered \in live
        /\ using = None

-----------------------------------------------------------------------------
(* The audio task: one block at a time. *)

Acquire == /\ using = None
           /\ offered # None
           /\ using' = offered
           /\ UNCHANGED <<offered, live>>

Release == /\ using # None
           /\ using' = None
           /\ UNCHANGED <<offered, live>>

(* Control code. *)

Withdraw == /\ offered' = None
            /\ UNCHANGED <<using, live>>

Offer(r) == /\ r \in live
            /\ offered' = r
            /\ UNCHANGED <<using, live>>

Provide(r) == /\ live' = live \cup {r}
              /\ UNCHANGED <<offered, using>>

Reclaim(R) == /\ offered \notin R
              /\ using \notin R
              /\ live' = live \ R
              /\ UNCHANGED <<offered, using>>

Next == \/ Acquire
        \/ Release
        \/ Withdraw
        \/ \E r \in Resource : Offer(r) \/ Provide(r)
        \/ \E R \in SUBSET Resource : Reclaim(R)

Spec == Init /\ [][Next]_vars

-----------------------------------------------------------------------------

(* A block never works on freed or reused memory, and neither will the next. *)
UseLive == /\ using # None => using \in live
           /\ offered # None => offered \in live
=============================================================================
