---------------------------- MODULE Persist_proof ----------------------------
(***************************************************************************)
(* Proofs about Persist for every set of settings, values and editors, and *)
(* whatever the timers: the state is well typed, only chosen values reach  *)
(* the flash, and outside the two races of flush() no edit is forgotten.   *)
(***************************************************************************)
EXTENDS Persist, TLAPS

\* A flush() that has taken its snapshot and has not returned.
Flying == {"clear", "compare", "write", "record", "retry"}

(* Every value on its way from the player to the flash was chosen. *)
ChosenInv ==
  /\ OnlyChosenStored
  /\ s_ready => \A i \in Ids : s_shadow[i] \in chosen[i]
  /\ \A t \in Editors : editing[t] # None => editing[t].value \in chosen[editing[t].id]
  /\ \A f \in Flushers : pc[f] \in Flying => \A i \in Ids : pairs[f][i] \in chosen[i]

(* Without NVS nothing is marked, so no flush gets as far as its snapshot. *)
IdleInv ==
  ~s_ready => /\ ~s_dirty
              /\ \A t \in Editors : editing[t] = None
              /\ \A f \in Flushers : pc[f] \notin Flying \cup {"copy"}

(* Outside the races: one flush at a time, persist knows what is in flash,   *)
(* and what the snapshot in the air does not hold is marked again.           *)
Pending(i) == s_dirty \/ Marking(i)

KeptInv ==
  s_ready /\ ~raced =>
    /\ \A f, g \in Flushers : pc[f] \in Flying /\ pc[g] \in Flying => f = g
    /\ (\A f \in Flushers : pc[f] # "record") => s_stored = Restored(flash)
    /\ \A f \in Flushers : pc[f] = "record" => Restored(flash) = pairs[f]
    /\ \A f \in Flushers : pc[f] \in {"compare", "write", "record", "retry"} =>
         \A i \in Ids : pairs[f][i] = s_shadow[i] \/ Pending(i)

-----------------------------------------------------------------------------
(* Type correctness. *)

(* The states a boot starts from have their types. *)
LEMMA TypeInit == Init => TypeOK
  <1> SUFFICES ASSUME Init PROVE TypeOK
    OBVIOUS
  <1>1. Defaults \in Settings
    BY ValueAssumption DEF Defaults, Settings
  <1>2. pc \in [Flushers -> FlushPCs \cup {"sleep", "idle", "reboot"}]
    BY DEF Init
  <1>3. editing \in [Editors -> {None} \cup Sets] /\ pairs \in [Flushers -> Settings]
    BY <1>1 DEF Init
  <1>4. chosen \in [Ids -> SUBSET Values]
    BY ValueAssumption DEF Init
  <1>5. /\ s_route_saved = None /\ s_dirty \in BOOLEAN /\ moved \in BOOLEAN
        /\ s_ready \in BOOLEAN /\ flash = None /\ raced \in BOOLEAN
        /\ settled = 0 /\ waiting = 0
        /\ value = Defaults /\ s_shadow = Defaults /\ s_stored = Defaults
    BY DEF Init
  <1> QED BY <1>1, <1>2, <1>3, <1>4, <1>5, TimeAssumption DEF TypeOK

\* A blob in flash, or the defaults in its place, gives every setting a value.
LEMMA RestoredType ==
  ASSUME flash \in Settings \cup {None}
  PROVE  Restored(flash) \in Settings
  BY ValueAssumption DEF Restored, Defaults, Settings

\* The state a boot leaves is well typed.
LEMMA BootType ==
  ASSUME TypeOK, NEW up \in BOOLEAN, Boot(up)
  PROVE  TypeOK'
  <1>1. Restored(flash) \in Settings /\ Defaults \in Settings
    BY RestoredType, ValueAssumption DEF TypeOK, Defaults, Settings
  <1>2. \A i \in Ids : {Restored(flash)[i]} \in SUBSET Values
    BY <1>1 DEF Settings
  <1>3. chosen' \in [Ids -> SUBSET Values]
    BY <1>2 DEF Boot
  <1>4. value' \in Settings /\ s_shadow' \in Settings /\ s_stored' \in Settings
    BY <1>1 DEF Boot
  <1>5. pairs' \in [Flushers -> Settings]
    BY <1>1 DEF Boot
  <1>6. pc' \in [Flushers -> FlushPCs \cup {"sleep", "idle", "reboot"}]
    BY DEF Boot
  <1>7. editing' \in [Editors -> {None} \cup Sets]
    BY DEF Boot
  <1>8. /\ s_route_saved' = None /\ ~s_dirty' /\ ~moved' /\ s_ready' = up
        /\ flash' = flash /\ moved' \in BOOLEAN /\ settled' = 0 /\ waiting' = 0
        /\ s_dirty' \in BOOLEAN /\ raced' \in BOOLEAN
    BY DEF Boot
  <1> QED BY <1>3, <1>4, <1>5, <1>6, <1>7, <1>8, TimeAssumption DEF TypeOK

(* Every step keeps the types. *)
LEMMA TypeNext == TypeOK /\ [Next]_vars => TypeOK'
  <1> SUFFICES ASSUME TypeOK, [Next]_vars PROVE TypeOK'
    OBVIOUS
  <1> USE DEF TypeOK
  <1>1. ASSUME NEW t \in Editors, NEW i \in Ids, NEW v \in Values, EditStore(t, i, v)
        PROVE  TypeOK'
    <2>1. value' \in Settings
      BY <1>1 DEF EditStore, Settings
    <2>2. chosen' \in [Ids -> SUBSET Values]
      BY <1>1 DEF EditStore
    <2>3. editing' \in [Editors -> {None} \cup Sets]
      <3>1. [id |-> i, value |-> v, at |-> "shadow"] \in Sets
        BY DEF Sets
      <3> QED BY <1>1, <3>1 DEF EditStore
    <2> QED BY <1>1, <2>1, <2>2, <2>3 DEF EditStore, marks, nvs, timers
  <1>2. ASSUME NEW t \in Editors, ListenShadow(t)
        PROVE  TypeOK'
    <2>1. editing[t] \in Sets
      BY <1>2 DEF ListenShadow
    <2>2. s_shadow' \in Settings
      BY <1>2, <2>1 DEF ListenShadow, Settings, Sets
    <2>3. [editing[t] EXCEPT !.at = "mark"] \in Sets
      BY <2>1 DEF Sets
    <2>4. editing' \in [Editors -> {None} \cup Sets]
      BY <1>2, <2>3 DEF ListenShadow
    <2> QED BY <1>2, <2>2, <2>4 DEF ListenShadow, store, nvs, timers
  <1>3. ASSUME NEW t \in Editors, ListenMark(t)
        PROVE  TypeOK'
    BY <1>3 DEF ListenMark, store, nvs, timers
  <1>4. ASSUME Borrow PROVE TypeOK'
    BY <1>4, ValueAssumption DEF Borrow, Settings, marks, nvs, timers
  <1>5. ASSUME GiveBack PROVE TypeOK'
    BY <1>5, ValueAssumption DEF GiveBack, Settings, marks, nvs, timers
  <1>6. ASSUME PollClean PROVE TypeOK'
    BY <1>6, TimeAssumption DEF PollClean, store, marks, nvs
  <1>7. ASSUME NEW quiet \in BOOLEAN, PollDirty(quiet)
        PROVE  TypeOK'
    <2>1. settled' \in 0 .. Settle /\ waiting' \in 0 .. Defer
      BY <1>7, TimeAssumption DEF PollDirty, UpTo
    <2>2. pc' \in [Flushers -> FlushPCs \cup {"sleep", "idle", "reboot"}]
      BY <1>7 DEF PollDirty, FlushPCs
    <2> QED BY <1>7, <2>1, <2>2 DEF PollDirty, store, marks, nvs
  <1>8. ASSUME SaveCommand PROVE TypeOK'
    BY <1>8 DEF SaveCommand, FlushPCs, store, marks, nvs, timers
  <1>9. ASSUME NEW f \in Flushers, NEW from, Return(f, from)
        PROVE  /\ pc' \in [Flushers -> FlushPCs \cup {"sleep", "idle", "reboot"}]
               /\ pairs' \in [Flushers -> Settings]
               /\ settled' \in 0 .. Settle /\ waiting' \in 0 .. Defer
               /\ moved' = moved
    BY <1>9, ValueAssumption, TimeAssumption
    DEF Return, Goto, Home, Defaults, Settings
  <1>10. ASSUME NEW f \in Flushers, FlushTest(f) PROVE TypeOK'
    <2>1. CASE s_dirty
      BY <1>10, <2>1 DEF FlushTest, Goto, FlushPCs, store, marks, nvs, timers
    <2>2. CASE ~s_dirty
      BY <1>10, <2>2, <1>9 DEF FlushTest, store, marks, nvs
    <2> QED BY <2>1, <2>2
  <1>11. ASSUME NEW f \in Flushers, FlushCopy(f) PROVE TypeOK'
    BY <1>11 DEF FlushCopy, Overlaps, Goto, FlushPCs, store, marks, nvs, timers
  <1>12. ASSUME NEW f \in Flushers, FlushClear(f) PROVE TypeOK'
    BY <1>12 DEF FlushClear, Swallows, Goto, FlushPCs, store, nvs, timers
  <1>13. ASSUME NEW f \in Flushers, FlushCompare(f) PROVE TypeOK'
    <2>1. CASE pairs[f] = s_stored
      BY <1>13, <2>1, <1>9 DEF FlushCompare, store, marks, nvs
    <2>2. CASE pairs[f] # s_stored
      BY <1>13, <2>2 DEF FlushCompare, Goto, FlushPCs, store, marks, nvs, timers
    <2> QED BY <2>1, <2>2
  <1>14. ASSUME NEW f \in Flushers, FlushWrite(f) PROVE TypeOK'
    BY <1>14, TimeAssumption DEF FlushWrite, Goto, FlushPCs, store, marks, timers
  <1>15. ASSUME NEW f \in Flushers, FlushRecord(f) PROVE TypeOK'
    BY <1>15, <1>9 DEF FlushRecord, store, marks
  <1>16. ASSUME NEW f \in Flushers, FlushRetry(f) PROVE TypeOK'
    BY <1>16, <1>9 DEF FlushRetry, store, nvs
  <1>17. CASE UNCHANGED vars
    BY <1>17 DEF vars, store, marks, nvs, timers
  <1> QED
    BY <1>1, <1>2, <1>3, <1>4, <1>5, <1>6, <1>7, <1>8, <1>10, <1>11, <1>12,
       <1>13, <1>14, <1>15, <1>16, <1>17, BootType
    DEF Next, Edit, Listen, Poll, Flush, Restart

(* Every reachable state is well typed, whatever the settings and editors. *)
THEOREM TypeCorrect == Spec => []TypeOK
  BY TypeInit, TypeNext, PTL DEF Spec
-----------------------------------------------------------------------------
(* Only chosen values reach the flash. *)

(* Every step keeps what is known between operations. *)
LEMMA IdleNext == TypeOK /\ IdleInv /\ [Next]_vars => IdleInv'
  <1> SUFFICES ASSUME TypeOK, IdleInv, [Next]_vars PROVE IdleInv'
    OBVIOUS
  <1> USE DEF IdleInv, Flying
  <1>1. ASSUME NEW t \in Editors, NEW i \in Ids, NEW v \in Values, EditStore(t, i, v)
        PROVE  IdleInv'
    BY <1>1 DEF EditStore, marks, nvs, TypeOK
  <1>2. ASSUME NEW t \in Editors, ListenShadow(t) \/ ListenMark(t)
        PROVE  IdleInv'
    BY <1>2 DEF ListenShadow, ListenMark, nvs
  <1>3. CASE Borrow \/ GiveBack \/ PollClean
    BY <1>3 DEF Borrow, GiveBack, PollClean, marks, nvs
  <1>4. ASSUME NEW quiet \in BOOLEAN, PollDirty(quiet)
        PROVE  IdleInv'
    BY <1>4 DEF PollDirty, marks, nvs
  <1>5. CASE SaveCommand
    BY <1>5 DEF SaveCommand, marks, nvs, TypeOK
  <1>6. ASSUME NEW f \in Flushers, FlushTest(f) PROVE IdleInv'
    BY <1>6 DEF FlushTest, Return, Goto, Home, marks, nvs, TypeOK
  <1>7. ASSUME NEW f \in Flushers,
               \/ FlushCopy(f) \/ FlushClear(f) \/ FlushCompare(f)
               \/ FlushWrite(f) \/ FlushRecord(f) \/ FlushRetry(f)
        PROVE  IdleInv'
    <2>1. pc[f] \in Flying \cup {"copy"}
      BY <1>7 DEF FlushCopy, FlushClear, FlushCompare, FlushWrite, FlushRecord,
                  FlushRetry, Return, Goto
    <2>2. s_ready' = s_ready
      BY <1>7 DEF FlushCopy, FlushClear, FlushCompare, FlushWrite, FlushRecord,
                  FlushRetry, nvs
    <2> QED BY <2>1, <2>2
  <1>8. ASSUME NEW up \in BOOLEAN, Boot(up) PROVE IdleInv'
    <2>1. /\ ~s_dirty' /\ editing' = [t \in Editors |-> None]
          /\ pc' = [f \in Flushers |-> IF f = "task" THEN "sleep" ELSE "idle"]
      BY <1>8 DEF Boot
    <2> QED BY <2>1
  <1>9. CASE UNCHANGED vars
    BY <1>9 DEF vars, marks, nvs
  <1> QED
    BY <1>1, <1>2, <1>3, <1>4, <1>5, <1>6, <1>7, <1>8, <1>9
    DEF Next, Edit, Listen, Poll, Flush, Restart

(* Every step stores only what somebody chose. *)
LEMMA ChosenNext == TypeOK /\ IdleInv /\ ChosenInv /\ [Next]_vars => ChosenInv'
  <1> SUFFICES ASSUME TypeOK, IdleInv, ChosenInv, [Next]_vars PROVE ChosenInv'
    OBVIOUS
  <1> USE DEF ChosenInv, OnlyChosenStored, Flying
  <1>1. ASSUME NEW t \in Editors, NEW i \in Ids, NEW v \in Values, EditStore(t, i, v)
        PROVE  ChosenInv'
    <2>1. \A j \in Ids : chosen[j] \subseteq chosen'[j]
      BY <1>1 DEF EditStore, TypeOK
    <2>2. v \in chosen'[i]
      BY <1>1 DEF EditStore, TypeOK
    <2>3. UNCHANGED <<flash, s_ready, s_shadow, pc, pairs>>
      BY <1>1 DEF EditStore, nvs, marks
    <2>4. \A u \in Editors : editing'[u] # None =>
            editing'[u].value \in chosen'[editing'[u].id]
      <3> SUFFICES ASSUME NEW u \in Editors, editing'[u] # None
                   PROVE  editing'[u].value \in chosen'[editing'[u].id]
        OBVIOUS
      <3>1. CASE u = t
        <4>1. editing'[t] = [id |-> i, value |-> v, at |-> "shadow"]
          BY <1>1, <3>1 DEF EditStore, TypeOK
        <4> QED BY <3>1, <4>1, <2>2
      <3>2. CASE u # t
        <4>1. editing'[u] = editing[u]
          BY <1>1, <3>2 DEF EditStore, TypeOK
        <4>2. editing[u] \in Sets
          BY <4>1 DEF TypeOK
        <4> QED BY <4>1, <4>2, <2>1 DEF Sets
      <3> QED BY <3>1, <3>2
    <2> QED BY <2>1, <2>3, <2>4 DEF Restored
  <1>2. ASSUME NEW t \in Editors, ListenShadow(t)
        PROVE  ChosenInv'
    <2>1. editing[t] \in Sets /\ editing[t].value \in chosen[editing[t].id]
      BY <1>2 DEF ListenShadow, TypeOK
    <2>2. \A i \in Ids : s_shadow'[i] = s_shadow[i]
                         \/ (i = editing[t].id /\ s_shadow'[i] = editing[t].value)
      BY <1>2 DEF ListenShadow, TypeOK, Settings
    <2>3. editing'[t].value = editing[t].value /\ editing'[t].id = editing[t].id
      BY <1>2, <2>1 DEF ListenShadow, TypeOK, Sets
    <2>4. \A u \in Editors \ {t} : editing'[u] = editing[u]
      BY <1>2 DEF ListenShadow, TypeOK
    <2>5. UNCHANGED <<flash, s_ready, pc, pairs, chosen>>
      BY <1>2 DEF ListenShadow, nvs
    <2> QED BY <2>1, <2>2, <2>3, <2>4, <2>5 DEF Restored
  <1>3. ASSUME NEW t \in Editors, ListenMark(t)
        PROVE  ChosenInv'
    BY <1>3 DEF ListenMark, nvs, Restored, TypeOK
  <1>4. CASE Borrow \/ GiveBack \/ PollClean
    BY <1>4 DEF Borrow, GiveBack, PollClean, marks, nvs, Restored
  <1>5. ASSUME NEW quiet \in BOOLEAN, PollDirty(quiet)
        PROVE  ChosenInv'
    BY <1>5 DEF PollDirty, marks, nvs, Restored, TypeOK
  <1>6. CASE SaveCommand
    BY <1>6 DEF SaveCommand, marks, nvs, Restored, TypeOK
  <1>7. ASSUME NEW f \in Flushers, FlushTest(f) PROVE ChosenInv'
    BY <1>7 DEF FlushTest, Return, Goto, Home, marks, nvs, Restored, TypeOK
  <1>8. ASSUME NEW f \in Flushers, FlushCopy(f) PROVE ChosenInv'
    <2>1. s_ready
      BY <1>8 DEF FlushCopy, Goto, IdleInv
    <2> QED BY <1>8, <2>1 DEF FlushCopy, Goto, marks, nvs, Restored, TypeOK
  <1>9. ASSUME NEW f \in Flushers, FlushClear(f) \/ FlushCompare(f)
        PROVE  ChosenInv'
    BY <1>9 DEF FlushClear, FlushCompare, Return, Goto, Home, marks, nvs, Restored, TypeOK
  <1>10. ASSUME NEW f \in Flushers, FlushWrite(f) PROVE ChosenInv'
    <2>1. /\ pc[f] = "write"
          /\ \A g \in Flushers : pc'[g] = pc[g] \/ (g = f /\ pc'[g] \in {"record", "retry"})
          /\ flash' = flash \/ flash' = pairs[f]
          /\ UNCHANGED <<s_shadow, s_ready, editing, pairs, chosen>>
      BY <1>10 DEF FlushWrite, Goto, TypeOK, marks
    <2>2. \A i \in Ids : pairs[f][i] \in chosen[i]
      BY <2>1
    <2>3. flash' = pairs[f] => \A i \in Ids : Restored(flash')[i] \in chosen[i]
      BY <2>2, ValueAssumption DEF Restored, TypeOK, Settings
    <2> QED BY <2>1, <2>2, <2>3 DEF Restored
  <1>11. ASSUME NEW f \in Flushers, FlushRecord(f) \/ FlushRetry(f)
         PROVE  ChosenInv'
    BY <1>11 DEF FlushRecord, FlushRetry, Return, Goto, Home, marks, nvs, Restored, TypeOK
  <1>12. ASSUME NEW up \in BOOLEAN, Boot(up) PROVE ChosenInv'
    <2>1. /\ up => s_shadow' = Restored(flash)
          /\ s_ready' = up /\ flash' = flash
      BY <1>12 DEF Boot
    <2>2. chosen' = [i \in Ids |-> {Restored(flash)[i]}]
      BY <1>12 DEF Boot
    <2>3. editing' = [t \in Editors |-> None]
      BY <1>12 DEF Boot
    <2>4. pc' = [f \in Flushers |-> IF f = "task" THEN "sleep" ELSE "idle"]
      BY <1>12 DEF Boot
    <2> QED BY <2>1, <2>2, <2>3, <2>4 DEF Restored
  <1>13. CASE UNCHANGED vars
    BY <1>13 DEF vars, marks, nvs, Restored
  <1> QED
    BY <1>1, <1>2, <1>3, <1>4, <1>5, <1>6, <1>7, <1>8, <1>9, <1>10, <1>11, <1>12, <1>13
    DEF Next, Edit, Listen, Poll, Flush, Restart

(* Nothing but choices is stored at first. *)
LEMMA ChosenInit == Init => IdleInv /\ ChosenInv
  <1> SUFFICES ASSUME Init PROVE IdleInv /\ ChosenInv
    OBVIOUS
  <1>1. /\ flash = None /\ s_shadow = Defaults /\ s_ready
        /\ editing = [t \in Editors |-> None] /\ chosen = [i \in Ids |-> {Off}]
        /\ pc = [f \in Flushers |-> IF f = "task" THEN "sleep" ELSE "idle"]
    BY DEF Init
  <1> QED BY <1>1 DEF IdleInv, ChosenInv, OnlyChosenStored, Restored, Defaults, Flying

(* What a boot restores was chosen by the player, or was there at the boot   *)
(* before: a borrowed route is never made permanent.                         *)
THEOREM OnlyChosen == Spec => []OnlyChosenStored
  <1>1. Init => TypeOK /\ IdleInv /\ ChosenInv
    BY TypeInit, ChosenInit
  <1>2. TypeOK /\ IdleInv /\ ChosenInv /\ [Next]_vars => (TypeOK /\ IdleInv /\ ChosenInv)'
    BY TypeNext, IdleNext, ChosenNext
  <1>3. ChosenInv => OnlyChosenStored
    BY DEF ChosenInv
  <1> QED BY <1>1, <1>2, <1>3, PTL DEF Spec
-----------------------------------------------------------------------------
(* Outside the two races no edit is forgotten. *)

(* No edit has been made at first. *)
LEMMA KeptInit == Init => KeptInv /\ EditKept
  <1> SUFFICES ASSUME Init PROVE KeptInv /\ EditKept
    OBVIOUS
  <1>1. /\ flash = None /\ s_shadow = Defaults /\ s_stored = Defaults
        /\ pc = [f \in Flushers |-> IF f = "task" THEN "sleep" ELSE "idle"]
    BY DEF Init
  <1> QED BY <1>1 DEF KeptInv, EditKept, Restored, Flying

\* A boot starts with flash, shadow and s_stored equal and no flush() running.
LEMMA KeptBoot ==
  ASSUME NEW up \in BOOLEAN, Boot(up)
  PROVE  KeptInv' /\ EditKept'
  <1>1. /\ pc' = [f \in Flushers |-> IF f = "task" THEN "sleep" ELSE "idle"]
        /\ flash' = flash /\ s_ready' = up
        /\ up => s_shadow' = Restored(flash) /\ s_stored' = Restored(flash)
    BY DEF Boot
  <1> QED BY <1>1 DEF KeptInv, EditKept, Restored, Flying

\* A step that leaves the flash, the flushes and the snapshots alone.
LEMMA KeptElsewhere ==
  ASSUME KeptInv, EditKept,
         UNCHANGED <<nvs, pairs, raced>>,
         \A f \in Flushers : pc'[f] = pc[f] \/ (pc[f] \notin Flying /\ pc'[f] \notin Flying),
         \A i \in Ids : \/ s_shadow'[i] = s_shadow[i] /\ (Pending(i) => Pending(i)')
                        \/ Pending(i)'
  PROVE  KeptInv' /\ EditKept'
  <1> SUFFICES ASSUME s_ready', ~raced' PROVE KeptInv' /\ EditKept'
    BY DEF KeptInv, EditKept
  <1>1. s_ready /\ ~raced /\ flash' = flash /\ s_stored' = s_stored /\ pairs' = pairs
    BY DEF nvs
  <1>2. \A f \in Flushers : pc[f] \in Flying \/ pc'[f] \in Flying => pc'[f] = pc[f]
    OBVIOUS
  <1>3. KeptInv'
    BY <1>1, <1>2 DEF KeptInv, Restored, Flying
  <1>4. EditKept'
    BY <1>1, <1>2 DEF EditKept, Restored, Flying, Pending
  <1> QED BY <1>3, <1>4

\* Nobody else is in the air when f is.
LEMMA Alone ==
  ASSUME KeptInv, s_ready, ~raced, NEW f \in Flushers, pc[f] \in Flying
  PROVE  \A g \in Flushers \ {f} : pc[g] \notin Flying
  BY DEF KeptInv

(* Every step keeps every edit. *)
LEMMA KeptNext == TypeOK /\ KeptInv /\ EditKept /\ [Next]_vars => KeptInv' /\ EditKept'
  <1> SUFFICES ASSUME TypeOK, KeptInv, EditKept, [Next]_vars
               PROVE  KeptInv' /\ EditKept'
    OBVIOUS
  <1>1. ASSUME NEW t \in Editors, NEW i \in Ids, NEW v \in Values, EditStore(t, i, v)
        PROVE  KeptInv' /\ EditKept'
    <2>1. \A j \in Ids : Pending(j) => Pending(j)'
      BY <1>1 DEF EditStore, Pending, Marking, marks, TypeOK
    <2> QED BY <1>1, <2>1, KeptElsewhere DEF EditStore, marks
  <1>2. ASSUME NEW t \in Editors, ListenShadow(t)
        PROVE  KeptInv' /\ EditKept'
    <2>1. editing[t] \in Sets
      BY <1>2 DEF ListenShadow, TypeOK
    <2>2. /\ editing'[t].at = "mark" /\ editing'[t].id = editing[t].id
          /\ editing'[t] \in Sets
      BY <1>2, <2>1 DEF ListenShadow, TypeOK, Sets
    <2>3. editing'[t] # None
      BY <2>2, ValueAssumption DEF Sets
    <2>4. \A j \in Ids : Pending(j) => Pending(j)'
      BY <1>2, <2>2 DEF ListenShadow, Pending, Marking, TypeOK
    <2>5. \A j \in Ids : s_shadow'[j] = s_shadow[j] \/ Pending(j)'
      <3> SUFFICES ASSUME NEW j \in Ids, s_shadow'[j] # s_shadow[j] PROVE Pending(j)'
        OBVIOUS
      <3>1. j = editing[t].id
        BY <1>2 DEF ListenShadow, TypeOK, Settings
      <3> QED BY <3>1, <2>2, <2>3 DEF Pending, Marking
    <2> QED BY <1>2, <2>4, <2>5, KeptElsewhere DEF ListenShadow
  <1>3. ASSUME NEW t \in Editors, ListenMark(t)
        PROVE  KeptInv' /\ EditKept'
    <2>1. \A j \in Ids : Pending(j)'
      BY <1>3 DEF ListenMark, Pending
    <2> QED BY <1>3, <2>1, KeptElsewhere DEF ListenMark
  <1>4. CASE Borrow \/ GiveBack \/ PollClean
    <2>1. UNCHANGED <<marks, editing, nvs, pc, pairs, raced>>
      BY <1>4 DEF Borrow, GiveBack, PollClean
    <2>2. \A j \in Ids : Pending(j) => Pending(j)'
      BY <2>1 DEF Pending, Marking, marks
    <2> QED BY <2>1, <2>2, KeptElsewhere DEF marks
  <1>5. ASSUME (\E quiet \in BOOLEAN : PollDirty(quiet)) \/ SaveCommand
               \/ \E f \in Flushers : FlushTest(f) /\ s_dirty
        PROVE  KeptInv' /\ EditKept'
    <2>1. UNCHANGED <<marks, editing, nvs, pairs, raced>>
      BY <1>5 DEF PollDirty, SaveCommand, FlushTest
    <2>2. \A f \in Flushers : pc'[f] = pc[f] \/ (pc[f] \notin Flying /\ pc'[f] \notin Flying)
      BY <1>5 DEF PollDirty, SaveCommand, FlushTest, Goto, Flying, TypeOK
    <2>3. \A j \in Ids : Pending(j) => Pending(j)'
      BY <2>1 DEF Pending, Marking, marks
    <2> QED BY <2>1, <2>2, <2>3, KeptElsewhere DEF marks
  <1>6. ASSUME NEW f \in Flushers, FlushTest(f), ~s_dirty
        PROVE  KeptInv' /\ EditKept'
    <2> SUFFICES ASSUME s_ready', ~raced' PROVE KeptInv' /\ EditKept'
      BY DEF KeptInv, EditKept
    <2>1. /\ UNCHANGED <<marks, editing, nvs, raced>>
          /\ pc[f] = "test" /\ pc'[f] \notin Flying \cup {"copy"}
          /\ \A g \in Flushers \ {f} : pc'[g] = pc[g] /\ pairs'[g] = pairs[g]
      BY <1>6 DEF FlushTest, Return, Goto, Home, Flying, TypeOK
    <2>2. KeptInv'
      BY <2>1 DEF KeptInv, Pending, Marking, Restored, Flying, marks, nvs
    <2>3. EditKept'
      BY <2>1 DEF EditKept, Marking, Restored, Flying, marks, nvs
    <2> QED BY <2>2, <2>3
  <1>7. ASSUME NEW f \in Flushers, FlushCopy(f)
        PROVE  KeptInv' /\ EditKept'
    <2> SUFFICES ASSUME s_ready', ~raced' PROVE KeptInv' /\ EditKept'
      BY DEF KeptInv, EditKept
    <2>1. /\ UNCHANGED <<marks, editing, nvs>>
          /\ s_ready /\ ~raced /\ ~Overlaps(f)
          /\ pc[f] = "copy" /\ pc'[f] = "clear"
          /\ \A g \in Flushers \ {f} : pc'[g] = pc[g] /\ pairs'[g] = pairs[g]
      BY <1>7 DEF FlushCopy, Goto, nvs, TypeOK
    <2>2. \A g \in Flushers \ {f} : pc[g] \notin Flying
      BY <2>1 DEF Overlaps, Flying
    <2>3. \A g \in Flushers : pc[g] # "record" /\ pc'[g] # "record"
      BY <2>1, <2>2 DEF Flying
    <2>4. KeptInv'
      BY <2>1, <2>2, <2>3 DEF KeptInv, Restored, Flying, nvs
    <2>5. EditKept'
      BY <2>1, <2>2 DEF EditKept, Marking, Restored, Flying, marks, nvs
    <2> QED BY <2>4, <2>5
  <1>8. ASSUME NEW f \in Flushers, FlushClear(f)
        PROVE  KeptInv' /\ EditKept'
    <2> SUFFICES ASSUME s_ready', ~raced' PROVE KeptInv' /\ EditKept'
      BY DEF KeptInv, EditKept
    <2>1. /\ UNCHANGED <<s_shadow, editing, nvs, pairs>>
          /\ s_ready /\ ~raced /\ ~Swallows(f)
          /\ pc[f] = "clear" /\ pc'[f] = "compare"
          /\ \A g \in Flushers \ {f} : pc'[g] = pc[g]
      BY <1>8 DEF FlushClear, Goto, nvs, TypeOK
    <2>2. \A g \in Flushers \ {f} : pc[g] \notin Flying
      BY <2>1, Alone DEF Flying
    <2>3. \A i \in Ids : pairs'[f][i] = s_shadow'[i] \/ Marking(i)'
      BY <2>1 DEF Swallows, Marking
    <2>4. \A g \in Flushers : pc[g] # "record" /\ pc'[g] # "record"
      BY <2>1, <2>2 DEF Flying
    <2>5. KeptInv'
      BY <2>1, <2>2, <2>3, <2>4 DEF KeptInv, Pending, Restored, Flying, nvs
    <2>6. EditKept'
      BY <2>1, <2>3 DEF EditKept
    <2> QED BY <2>5, <2>6
  <1>9. ASSUME NEW f \in Flushers, FlushCompare(f)
        PROVE  KeptInv' /\ EditKept'
    <2> SUFFICES ASSUME s_ready', ~raced' PROVE KeptInv' /\ EditKept'
      BY DEF KeptInv, EditKept
    <2>1. /\ UNCHANGED <<marks, editing, nvs, raced>>
          /\ pc[f] = "compare"
          /\ \A g \in Flushers \ {f} : pc'[g] = pc[g] /\ pairs'[g] = pairs[g]
          /\ \/ pairs[f] = s_stored /\ pc'[f] \notin Flying
             \/ pairs'[f] = pairs[f] /\ pc'[f] = "write"
      BY <1>9 DEF FlushCompare, Return, Goto, Home, Flying, TypeOK
    <2>2. s_ready /\ ~raced
      BY <2>1 DEF nvs
    <2>3. \A g \in Flushers \ {f} : pc[g] \notin Flying
      BY <2>1, <2>2, Alone DEF Flying
    <2>4. s_stored = Restored(flash)
      BY <2>1, <2>2, <2>3 DEF KeptInv, Flying
    <2>5. \A i \in Ids : pairs[f][i] = s_shadow[i] \/ Pending(i)
      BY <2>1, <2>2 DEF KeptInv
    <2>6. \A i \in Ids : (Pending(i) <=> Pending(i)') /\ s_shadow'[i] = s_shadow[i]
      BY <2>1 DEF Pending, Marking, marks
    <2>7. KeptInv'
      BY <2>1, <2>3, <2>4, <2>5, <2>6 DEF KeptInv, Restored, Flying, nvs
    <2>8. EditKept'
      BY <2>1, <2>4, <2>5, <2>6 DEF EditKept, Pending, Restored, nvs
    <2> QED BY <2>7, <2>8
  <1>10. ASSUME NEW f \in Flushers, FlushWrite(f)
         PROVE  KeptInv' /\ EditKept'
    <2> SUFFICES ASSUME s_ready', ~raced' PROVE KeptInv' /\ EditKept'
      BY DEF KeptInv, EditKept
    <2>1. /\ UNCHANGED <<marks, editing, s_stored, s_ready, raced, pairs>>
          /\ pc[f] = "write"
          /\ \A g \in Flushers \ {f} : pc'[g] = pc[g]
          /\ \/ flash' = pairs[f] /\ pc'[f] = "record"
             \/ flash' = flash /\ pc'[f] = "retry"
      BY <1>10 DEF FlushWrite, Goto, TypeOK
    <2>2. \A g \in Flushers \ {f} : pc[g] \notin Flying
      BY <2>1, Alone DEF Flying
    <2>3. \A i \in Ids : pairs[f][i] = s_shadow[i] \/ Pending(i)
      BY <2>1 DEF KeptInv
    <2>4. \A i \in Ids : (Pending(i) <=> Pending(i)') /\ s_shadow'[i] = s_shadow[i]
      BY <2>1 DEF Pending, Marking, marks
    <2>5. flash' = pairs[f] => Restored(flash)' = pairs[f]
      BY ValueAssumption DEF Restored, TypeOK, Settings
    <2>6. CASE pc'[f] = "record"
      <3>1. KeptInv'
        BY <2>1, <2>2, <2>3, <2>4, <2>5, <2>6 DEF KeptInv, Flying
      <3>2. EditKept'
        BY <2>1, <2>3, <2>4, <2>5, <2>6 DEF EditKept, Pending
      <3> QED BY <3>1, <3>2
    <2>7. CASE pc'[f] = "retry"
      <3>1. \A g \in Flushers : pc[g] # "record"
        BY <2>1, <2>2 DEF Flying
      <3>2. KeptInv'
        BY <2>1, <2>2, <2>3, <2>4, <2>7, <3>1 DEF KeptInv, Restored, Flying
      <3>3. EditKept'
        BY <2>1, <2>3, <2>4, <2>7 DEF EditKept, Pending
      <3> QED BY <3>2, <3>3
    <2> QED BY <2>1, <2>6, <2>7
  <1>11. ASSUME NEW f \in Flushers, FlushRecord(f)
         PROVE  KeptInv' /\ EditKept'
    <2> SUFFICES ASSUME s_ready', ~raced' PROVE KeptInv' /\ EditKept'
      BY DEF KeptInv, EditKept
    <2>1. /\ UNCHANGED <<marks, editing, flash, s_ready, raced>>
          /\ pc[f] = "record" /\ s_stored' = pairs[f] /\ pc'[f] \notin Flying
          /\ \A g \in Flushers \ {f} : pc'[g] = pc[g] /\ pairs'[g] = pairs[g]
      BY <1>11 DEF FlushRecord, Return, Goto, Home, Flying, TypeOK
    <2>2. \A g \in Flushers \ {f} : pc[g] \notin Flying
      BY <2>1, Alone DEF Flying
    <2>3. Restored(flash) = pairs[f] /\ Restored(flash)' = Restored(flash)
      BY <2>1 DEF KeptInv, Restored
    <2>4. \A i \in Ids : pairs[f][i] = s_shadow[i] \/ Pending(i)
      BY <2>1 DEF KeptInv
    <2>5. \A i \in Ids : (Pending(i) <=> Pending(i)') /\ s_shadow'[i] = s_shadow[i]
      BY <2>1 DEF Pending, Marking, marks
    <2>6. KeptInv'
      BY <2>1, <2>2, <2>3 DEF KeptInv, Flying
    <2>7. EditKept'
      BY <2>3, <2>4, <2>5 DEF EditKept, Pending
    <2> QED BY <2>6, <2>7
  <1>12. ASSUME NEW f \in Flushers, FlushRetry(f)
         PROVE  KeptInv' /\ EditKept'
    <2> SUFFICES ASSUME s_ready', ~raced' PROVE KeptInv' /\ EditKept'
      BY DEF KeptInv, EditKept
    <2>1. /\ UNCHANGED <<s_shadow, editing, nvs, raced>> /\ s_dirty'
          /\ pc[f] = "retry" /\ pc'[f] \notin Flying
          /\ \A g \in Flushers \ {f} : pc'[g] = pc[g] /\ pairs'[g] = pairs[g]
      BY <1>12 DEF FlushRetry, Return, Goto, Home, Flying, TypeOK
    <2>2. s_ready /\ ~raced
      BY <2>1 DEF nvs
    <2>3. \A g \in Flushers \ {f} : pc[g] \notin Flying
      BY <2>1, <2>2, Alone DEF Flying
    <2>4. \A g \in Flushers : pc[g] # "record"
      BY <2>1, <2>3 DEF Flying
    <2>5. KeptInv'
      BY <2>1, <2>2, <2>3, <2>4 DEF KeptInv, Pending, Restored, Flying, nvs
    <2> QED BY <2>1, <2>5 DEF EditKept
  <1>13. CASE UNCHANGED vars
    <2>1. \A j \in Ids : Pending(j) => Pending(j)'
      BY <1>13 DEF Pending, Marking, vars, marks
    <2> QED BY <1>13, <2>1, KeptElsewhere DEF vars, marks
  <1> QED
    BY <1>1, <1>2, <1>3, <1>4, <1>5, <1>6, <1>7, <1>8, <1>9, <1>10, <1>11,
       <1>12, <1>13, KeptBoot
    DEF Next, Edit, Listen, Poll, Flush, Restart

(* An edit that is not in flash is marked, about to be marked, or in the     *)
(* snapshot being written, but for the two races EditKept names: with any    *)
(* number of editors and settings, power losses and failing writes.          *)
THEOREM EditsKept == Spec => []EditKept
  <1>1. Init => TypeOK /\ KeptInv /\ EditKept
    BY TypeInit, KeptInit
  <1>2. TypeOK /\ KeptInv /\ EditKept /\ [Next]_vars => (TypeOK /\ KeptInv /\ EditKept)'
    BY TypeNext, KeptNext
  <1> QED BY <1>1, <1>2, PTL DEF Spec
=============================================================================
