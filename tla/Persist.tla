------------------------------ MODULE Persist ------------------------------
(***************************************************************************)
(* Settings that survive a power cycle: components/persist/persist.cpp.    *)
(* The listener marks what was edited, the writer task (and the command    *)
(* that saves and reboots) writes it to flash, a boot reads it back. Power *)
(* may go at any moment.                                                   *)
(*                                                                         *)
(* Tasks: any number of tasks that edit settings, the persist task, the    *)
(* command task of ctrl_proto.cpp's handle_reboot(), and the sampler,      *)
(* which borrows the input route while a pad is armed. flush() is run by   *)
(* the persist task and by the command task, with no lock between them.    *)
(*                                                                         *)
(* One step copies the whole set in snapshot(): an edit that lands inside  *)
(* the copy has, id by id, the same effect before or after it.             *)
(***************************************************************************)
EXTENDS Naturals, FiniteSets

CONSTANTS
  Editors,   \* tasks that edit settings with an origin other than Internal
  Ids,       \* the persisted parameters
  Route,     \* in.route, which the sampler borrows
  Nudged,    \* bound: settings only ever set to the value they have, which
             \* set() announces like any other
  Values,    \* values a parameter may take
  Off,       \* the value of in.route the sampler replaces; also every default
  Mon,       \* the value it puts there
  None,
  Settle,    \* kSettleMs in polls (6 in the code)
  Defer,     \* kMaxDeferMs in polls (20 in the code)
  Faults     \* subset of {"nvs"}: NVS may be absent at boot, a write may fail

ASSUME ValueAssumption == /\ Route \in Ids /\ Nudged \subseteq Ids
                          /\ Off \in Values /\ Mon \in Values /\ Off # Mon
                          /\ None \notin [Ids -> Values]
                          /\ None \notin [id : Ids, value : Values, at : {"shadow", "mark"}]
ASSUME TimeAssumption  == /\ Settle \in Nat \ {0}
                          /\ Defer \in Nat
                          /\ Settle < Defer
                          /\ Faults \subseteq {"nvs"}

VARIABLES
  value,          \* the parameters in ParamStore
  s_route_saved,  \* what the sampler borrowed in.route from, or None
  editing,        \* editor -> the set() it is in: id, value, next step
  s_shadow,       \* what the player last set
  s_dirty,
  s_ready,        \* was NVS there at boot?
  flash,          \* the blob in NVS, or None before the first write
  s_stored,       \* what persist believes is in flash
  pc, pairs,      \* flusher -> where in flush() it is, its snapshot
  moved,          \* is s_dirty_seq past the persist task's last_seq?
  settled, waiting,  \* the persist task's timers, in polls
  chosen,         \* id -> values it was booted with or set to since
  raced           \* has an edit met one of the two races flush() leaves open?

store  == <<value, s_route_saved>>
marks  == <<s_shadow, s_dirty>>
timers == <<moved, settled, waiting>>
nvs    == <<flash, s_stored, s_ready>>
vars   == <<store, editing, marks, nvs, pc, pairs, timers, chosen, raced>>

Flushers == {"task", "cmd"}
FlushPCs == {"test", "copy", "clear", "compare", "write", "record", "retry"}
Home(f)  == IF f = "task" THEN "sleep" ELSE "reboot"
Settings == [Ids -> Values]
Sets     == [id : Ids, value : Values, at : {"shadow", "mark"}]

Defaults == [i \in Ids |-> Off]

(* persist_init() sets what the blob holds; the rest keeps its default. *)
Restored(blob) == IF blob = None THEN Defaults ELSE blob

Init ==
  /\ value = Defaults
  /\ s_route_saved = None
  /\ editing = [t \in Editors |-> None]
  /\ s_shadow = Defaults
  /\ s_dirty = FALSE
  /\ s_ready = TRUE
  /\ flash = None
  /\ s_stored = Defaults
  /\ pc = [f \in Flushers |-> IF f = "task" THEN "sleep" ELSE "idle"]
  /\ pairs = [f \in Flushers |-> Defaults]
  /\ moved = FALSE
  /\ settled = 0
  /\ waiting = 0
  /\ chosen = [i \in Ids |-> {Off}]
  /\ raced = FALSE

-----------------------------------------------------------------------------
(* ParamStore::set() by a player: the value, then param_listener(). *)

EditStore(t, i, v) ==
  /\ editing[t] = None
  /\ i \in Nudged => v = value[i]
  /\ value' = [value EXCEPT ![i] = v]
  /\ chosen' = [chosen EXCEPT ![i] = @ \cup {v}]
  /\ editing' = [editing EXCEPT
                   ![t] = IF s_ready THEN [id |-> i, value |-> v, at |-> "shadow"] ELSE None]
  /\ UNCHANGED <<s_route_saved, marks, nvs, pc, pairs, timers, raced>>

ListenShadow(t) ==
  /\ editing[t] # None
  /\ editing[t].at = "shadow"
  /\ s_shadow' = [s_shadow EXCEPT ![editing[t].id] = editing[t].value]
  /\ editing' = [editing EXCEPT ![t].at = "mark"]
  /\ UNCHANGED <<store, s_dirty, nvs, pc, pairs, timers, chosen, raced>>

ListenMark(t) ==
  /\ editing[t] # None
  /\ editing[t].at = "mark"
  /\ s_dirty' = TRUE
  /\ moved' = TRUE
  /\ editing' = [editing EXCEPT ![t] = None]
  /\ UNCHANGED <<store, s_shadow, nvs, pc, pairs, settled, waiting, chosen, raced>>

(* monitor_hold(): both writes are Internal, so the listener ignores them. *)
Borrow ==
  /\ s_route_saved = None
  /\ value[Route] = Off
  /\ s_route_saved' = Off
  /\ value' = [value EXCEPT ![Route] = Mon]
  /\ UNCHANGED <<editing, marks, nvs, pc, pairs, timers, chosen, raced>>

GiveBack ==
  /\ s_route_saved # None
  /\ value' = [value EXCEPT ![Route] = s_route_saved]
  /\ s_route_saved' = None
  /\ UNCHANGED <<editing, marks, nvs, pc, pairs, timers, chosen, raced>>

-----------------------------------------------------------------------------
(* The persist task: one iteration per poll. The timers stop counting where *)
(* the code no longer tells values apart.                                   *)

UpTo(limit, n) == IF n > limit THEN limit ELSE n

PollClean ==
  /\ pc["task"] = "sleep"
  /\ ~s_dirty
  /\ settled' = 0
  /\ waiting' = 0
  /\ UNCHANGED <<store, editing, marks, nvs, pc, pairs, moved, chosen, raced>>

\* Mutation: forgets to count the time a set that moves has waited, and lets
\* silence alone decide.
PollDirtyQuietOnly(quiet) ==
  /\ pc["task"] = "sleep"
  /\ s_dirty
  /\ moved' = FALSE
  /\ settled' = IF moved THEN 0 ELSE UpTo(Settle, settled + 1)
  /\ waiting' = waiting
  /\ pc' = IF settled' >= Settle /\ quiet
             THEN [pc EXCEPT !["task"] = "test"] ELSE pc
  /\ UNCHANGED <<store, editing, marks, nvs, pairs, chosen, raced>>

(* The output may be quiet or not, as it pleases: audio_io_quiet_ms(). *)
PollDirty(quiet) ==
  /\ pc["task"] = "sleep"
  /\ s_dirty
  /\ moved' = FALSE
  /\ settled' = IF moved THEN 0 ELSE UpTo(Settle, settled + 1)
  /\ waiting' = UpTo(Defer, waiting + 1)
  /\ pc' = IF settled' >= Settle /\ (quiet \/ waiting' >= Defer)
             THEN [pc EXCEPT !["task"] = "test"] ELSE pc
  /\ UNCHANGED <<store, editing, marks, nvs, pairs, chosen, raced>>

(* handle_reboot(): save, then restart, whatever the save said. *)
SaveCommand ==
  /\ pc["cmd"] = "idle"
  /\ pc' = [pc EXCEPT !["cmd"] = "test"]
  /\ UNCHANGED <<store, editing, marks, nvs, pairs, timers, chosen, raced>>

-----------------------------------------------------------------------------
(* flush() *)

Goto(f, from, to) == pc[f] = from /\ pc' = [pc EXCEPT ![f] = to]

(* The task's timers restart when its flush() returns; pairs is a local. *)
Return(f, from) ==
  /\ Goto(f, from, Home(f))
  /\ pairs' = [pairs EXCEPT ![f] = Defaults]
  /\ UNCHANGED moved
  /\ IF f = "task" THEN settled' = 0 /\ waiting' = 0 ELSE UNCHANGED <<settled, waiting>>

FlushTest(f) ==
  /\ IF s_dirty THEN Goto(f, "test", "copy") /\ UNCHANGED <<timers, pairs>>
                ELSE Return(f, "test")
  /\ UNCHANGED <<store, editing, marks, nvs, chosen, raced>>

(* Race: the other flusher has taken its snapshot and not finished with it. *)
Overlaps(f) == \E g \in Flushers \ {f} :
                 pc[g] \in {"clear", "compare", "write", "record", "retry"}

\* Mutation: the snapshot of the first versions, from the live parameters.
FlushCopyLive(f) ==
  /\ Goto(f, "copy", "clear")
  /\ pairs' = [pairs EXCEPT ![f] = value]
  /\ raced' = (raced \/ Overlaps(f))
  /\ UNCHANGED <<store, editing, marks, nvs, timers, chosen>>

FlushCopy(f) ==
  /\ Goto(f, "copy", "clear")
  /\ pairs' = [pairs EXCEPT ![f] = s_shadow]
  /\ raced' = (raced \/ Overlaps(f))
  /\ UNCHANGED <<store, editing, marks, nvs, timers, chosen>>

(* Race: an edit was marked after the snapshot, and this takes its mark. *)
Marking(i)   == \E t \in Editors : /\ editing[t] # None
                                   /\ editing[t].at = "mark" /\ editing[t].id = i
Swallows(f)  == \E i \in Ids : pairs[f][i] # s_shadow[i] /\ ~Marking(i)

FlushClear(f) ==
  /\ Goto(f, "clear", "compare")
  /\ s_dirty' = FALSE
  /\ raced' = (raced \/ Swallows(f))
  /\ UNCHANGED <<store, editing, s_shadow, nvs, pairs, timers, chosen>>

FlushCompare(f) ==
  /\ IF pairs[f] = s_stored THEN Return(f, "compare")
     ELSE Goto(f, "compare", "write") /\ UNCHANGED <<timers, pairs>>
  /\ UNCHANGED <<store, editing, marks, nvs, chosen, raced>>

(* nvs_set_blob() and nvs_commit(): all of the blob, or nothing of it. *)
FlushWrite(f) ==
  /\ \/ Goto(f, "write", "record") /\ flash' = pairs[f]
     \/ "nvs" \in Faults /\ Goto(f, "write", "retry") /\ UNCHANGED flash
  /\ UNCHANGED <<store, editing, marks, s_stored, s_ready, pairs, timers,
                 chosen, raced>>

\* Mutation: clears the mark when the write is done instead of before it.
FlushRecordClears(f) ==
  /\ Return(f, "record")
  /\ s_stored' = pairs[f]
  /\ s_dirty' = FALSE
  /\ UNCHANGED <<store, editing, s_shadow, flash, s_ready, chosen, raced>>

FlushRecord(f) ==
  /\ Return(f, "record")
  /\ s_stored' = pairs[f]
  /\ UNCHANGED <<store, editing, marks, flash, s_ready, chosen, raced>>

FlushRetry(f) ==
  /\ Return(f, "retry")
  /\ s_dirty' = TRUE
  /\ UNCHANGED <<store, editing, s_shadow, nvs, chosen, raced>>

-----------------------------------------------------------------------------
(* Power loss, or the restart the command asked for, and the next boot up to *)
(* persist_init(). Without NVS the defaults stay and nothing is saved.       *)

Boot(up) ==
  LET now == IF up THEN Restored(flash) ELSE Defaults IN
  /\ value' = now
  /\ s_route_saved' = None
  /\ editing' = [t \in Editors |-> None]
  /\ s_shadow' = now
  /\ s_dirty' = FALSE
  /\ s_ready' = up
  /\ s_stored' = now
  /\ pc' = [f \in Flushers |-> IF f = "task" THEN "sleep" ELSE "idle"]
  /\ pairs' = [f \in Flushers |-> Defaults]
  /\ moved' = FALSE
  /\ settled' = 0
  /\ waiting' = 0
  /\ chosen' = [i \in Ids |-> {Restored(flash)[i]}]
  /\ raced' = FALSE
  /\ UNCHANGED flash

Restart == Boot(TRUE) \/ ("nvs" \in Faults /\ Boot(FALSE))

-----------------------------------------------------------------------------

Flush(f) == \/ FlushTest(f) \/ FlushCopy(f) \/ FlushClear(f)
            \/ FlushCompare(f) \/ FlushWrite(f)
            \/ FlushRecord(f) \/ FlushRetry(f)

Poll(quiet) == PollClean \/ PollDirty(quiet)
Listen(t)   == ListenShadow(t) \/ ListenMark(t)
Edit        == \E t \in Editors, i \in Ids, v \in Values : EditStore(t, i, v)

Next == \/ Edit \/ Borrow \/ GiveBack \/ SaveCommand \/ Restart
        \/ \E t \in Editors : Listen(t)
        \/ \E quiet \in BOOLEAN : Poll(quiet)
        \/ \E f \in Flushers : Flush(f)

Spec == Init /\ [][Next]_vars

(* The scheduler runs every task that can run, and the poll's delay ends.    *)
(* Nothing is assumed of the player, of the power, or of silence: the poll   *)
(* that is fair is the one that finds the output loud.                       *)
Fairness == /\ WF_vars(Poll(FALSE) \/ Flush("task"))
            /\ WF_vars(Flush("cmd"))
            /\ \A t \in Editors : WF_vars(Listen(t))
FairSpec == Spec /\ Fairness

-----------------------------------------------------------------------------
(* Properties. *)

TypeOK ==
  /\ value \in Settings
  /\ s_route_saved \in {Off, None}
  /\ editing \in [Editors -> {None} \cup Sets]
  /\ s_shadow \in Settings
  /\ s_dirty \in BOOLEAN
  /\ s_ready \in BOOLEAN
  /\ flash \in Settings \cup {None}
  /\ s_stored \in Settings
  /\ pc \in [Flushers -> FlushPCs \cup {"sleep", "idle", "reboot"}]
  /\ pairs \in [Flushers -> Settings]
  /\ moved \in BOOLEAN
  /\ settled \in 0 .. Settle
  /\ waiting \in 0 .. Defer
  /\ chosen \in [Ids -> SUBSET Values]
  /\ raced \in BOOLEAN

(* What is in flash was chosen: each value is the one this session booted    *)
(* with or one the player set since. A route the sampler has borrowed never  *)
(* comes back at the next boot, however the borrow, the edits, the write and *)
(* the power loss fall.                                                      *)
OnlyChosenStored == \A i \in Ids : Restored(flash)[i] \in chosen[i]

(* An edit that is not in flash is still on its way there: marked, about to  *)
(* be marked, or in a snapshot that is being written. The two races of       *)
(* flush() are excepted: an edit marked between the snapshot and the reset   *)
(* of the mark, and two flushes at a time (README, "What the code does not   *)
(* keep").                                                                   *)
EditKept ==
  s_ready /\ ~raced =>
    \A i \in Ids : \/ s_shadow[i] = Restored(flash)[i]
                   \/ s_dirty
                   \/ Marking(i)
                   \/ \E f \in Flushers : /\ pc[f] \in {"compare", "write", "retry"}
                                          /\ pairs[f][i] = s_shadow[i]

(* A setting that is left alone reaches the flash and stays there, however   *)
(* loud the output is and though other settings move, once writes no longer  *)
(* fail. It takes that the set as a whole is left alone for kSettleMs again  *)
(* and again until it is saved: the settle timer is one for all (README,     *)
(* "What the code does not keep").                                           *)
Settles       == s_dirty => settled = Settle
LeftAlone(i)  == s_shadow'[i] = s_shadow[i]
WriteFails    == \E f \in Flushers : pc[f] = "write" /\ pc'[f] = "retry"
Saved(i)      == Restored(flash)[i] = s_shadow[i] \/ raced \/ ~s_ready

SavedWhenLeft ==
  \A i \in Ids :
    []<>Settles /\ <>[][LeftAlone(i) /\ ~WriteFails]_<<s_shadow, pc>> => <>[]Saved(i)

(* "If the synth never goes quiet, the write happens anyway after            *)
(* kMaxDeferMs": a change does not wait longer than that for its flush().    *)
DeferBounded == pc["task"] = "sleep" => waiting < Defer
=============================================================================
