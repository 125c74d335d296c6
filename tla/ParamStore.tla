----------------------------- MODULE ParamStore -----------------------------
(***************************************************************************)
(* The parameter registry, components/synth_core/synth_params.cpp: a table *)
(* of slots, a lock-free index from parameter id to slot, registration and *)
(* removal under s_mux, and set() from any task without a lock.            *)
(*                                                                         *)
(* The 0x02xx ids mean something else under every engine, so their slots   *)
(* are removed and registered again at each switch, and a part of them at  *)
(* each change of a graph node, while other tasks go on setting parameters.*)
(*                                                                         *)
(* Abstracted: names, types, curves and rounding (a descriptor is its      *)
(* bounds and default), the listeners of a set() (EngineSwitch and Chord   *)
(* model two of them), and count_, generation_.                            *)
(***************************************************************************)
EXTENDS Naturals, FiniteSets, Functions

CONSTANTS
  Fixed,        \* descriptors registered at boot for good
  Layout,       \* engine or node kind -> the range of ids it removes first,
                \* and the descriptors it then registers
  NumSlots,     \* kMaxParams
  Registrars,   \* tasks that register and remove engine parameters
  Setters,      \* tasks that call set()
  SetIds,       \* the ids they set
  Values,       \* the values they ask for
  NotFinite,    \* infinities and NaN
  None,         \* no slot, nobody
  MaxSets, MaxBinds   \* bounds: calls of set(), engines registered

Engines  == DOMAIN Layout
Descs    == Fixed \cup UNION {Layout[e].descs : e \in Engines}
FixedIds == {d.id : d \in Fixed}
RangeIds == {d.id : d \in Descs \ Fixed}
Ids      == FixedIds \cup RangeIds
Slots    == 1 .. NumSlots

ASSUME DescAssumption ==
  /\ FixedIds \cap RangeIds = {}
  /\ \A d \in Descs : d.min \in Nat /\ d.max \in Nat /\ d.def \in d.min .. d.max
  /\ \A c, d \in Fixed : c.id = d.id => c = d
  /\ \A e \in Engines : Layout[e].range \subseteq RangeIds
ASSUME StoreAssumption ==
  /\ NumSlots \in Nat
  /\ IsFiniteSet(Fixed)
  /\ Cardinality(Fixed) <= NumSlots
  /\ SetIds \subseteq Ids
  /\ Values \subseteq Nat \cup {NotFinite}
  /\ NotFinite \notin Nat
  /\ None \notin Slots \cup Registrars
  /\ MaxSets \in Nat /\ MaxBinds \in Nat

VARIABLES
  entries,   \* slot -> desc, value, used
  index,     \* id -> slot, or None
  s_mux,     \* who is inside the critical section of add(), or None
  \* registrars: where in add(), the engine, what is left to add, the slot
  rpc, engine, todo, slot,
  \* setters: where in set(), the id, the value, the entry found
  spc, id, value, found,
  \* history: the descriptor whose bounds a setter clamped to, and the slots
  \* that were given a value clamped to the bounds of another descriptor
  clamped, strayed,
  sets, binds

store     == <<entries, index, s_mux>>
registrar == <<rpc, engine, todo, slot, binds>>
setter    == <<spc, id, value, found, clamped, sets>>
vars      == <<store, registrar, setter, strayed>>

(* Boot: the fixed parameters have been added, in some order. *)
NumFixed == Cardinality(Fixed)
Order == CHOOSE f \in Bijection(1 .. NumFixed, Fixed) : TRUE
Blank == [desc |-> None, value |-> 0, used |-> FALSE]

Init ==
  /\ index = [i \in Ids |-> IF i \in FixedIds
                            THEN CHOOSE s \in 1 .. NumFixed : Order[s].id = i
                            ELSE None]
  /\ entries = [s \in Slots |->
       IF s > NumFixed THEN Blank
       ELSE [desc |-> Order[s], value |-> Order[s].def, used |-> TRUE]]
  /\ s_mux = None
  /\ rpc = [r \in Registrars |-> "idle"]
  /\ engine = [r \in Registrars |-> None]
  /\ todo = [r \in Registrars |-> {}]
  /\ slot = [r \in Registrars |-> None]
  /\ spc = [t \in Setters |-> "idle"]
  /\ id = [t \in Setters |-> None]
  /\ value = [t \in Setters |-> 0]
  /\ found = [t \in Setters |-> None]
  /\ clamped = [t \in Setters |-> None]
  /\ strayed = {}
  /\ sets = 0
  /\ binds = 0

-----------------------------------------------------------------------------
(* Registration. *)

\* Mutations: every slot is freed; ids stay in the index.
FreedAll(ids)      == [s \in Slots |-> [entries[s] EXCEPT !.used = FALSE]]
ForgottenNone(ids) == index

Freed(ids) == [s \in Slots |-> IF \E i \in ids : index[i] = s
                               THEN [entries[s] EXCEPT !.used = FALSE]
                               ELSE entries[s]]
Forgotten(ids) == [i \in Ids |-> IF i \in ids THEN None ELSE index[i]]

(* removeRange(), one critical section; then the engine's list is added. *)
RemoveRange(r, e) ==
  /\ rpc[r] = "idle"
  /\ s_mux = None
  /\ binds < MaxBinds
  /\ binds' = binds + 1
  /\ entries' = Freed(Layout[e].range)
  /\ index' = Forgotten(Layout[e].range)
  /\ engine' = [engine EXCEPT ![r] = e]
  /\ todo' = [todo EXCEPT ![r] = Layout[e].descs]
  /\ rpc' = [rpc EXCEPT ![r] = "add"]
  /\ UNCHANGED <<s_mux, slot, setter, strayed>>

Unused == {s \in Slots : ~entries[s].used}

(* add(): an id that is taken, or a store that is full, drops the parameter. *)
AddRefused(r, d) ==
  /\ rpc[r] = "add" /\ d \in todo[r]
  /\ s_mux = None
  /\ index[d.id] # None \/ Unused = {}
  /\ todo' = [todo EXCEPT ![r] = @ \ {d}]
  /\ UNCHANGED <<store, rpc, engine, slot, binds, setter, strayed>>

(* Inside the section, as tasks that take no lock see it: the descriptor, *)
(* then the value, and last the index.                                    *)
AddDesc(r, d) ==
  /\ rpc[r] = "add" /\ d \in todo[r]
  /\ s_mux = None
  /\ index[d.id] = None
  /\ s_mux' = r
  /\ \E s \in Unused :
       /\ \A u \in Unused : s <= u
       /\ slot' = [slot EXCEPT ![r] = s]
       /\ entries' = [entries EXCEPT ![s].desc = d, ![s].used = TRUE]
  /\ rpc' = [rpc EXCEPT ![r] = "value"]
  /\ todo' = [todo EXCEPT ![r] = @ \ {d}]
  /\ UNCHANGED <<index, engine, binds, setter, strayed>>

AddValue(r) ==
  /\ rpc[r] = "value"
  /\ rpc' = [rpc EXCEPT ![r] = "publish"]
  /\ entries' = [entries EXCEPT ![slot[r]].value = entries[slot[r]].desc.def]
  /\ strayed' = strayed \ {slot[r]}
  /\ UNCHANGED <<index, s_mux, engine, todo, slot, binds, setter>>

AddPublish(r) ==
  /\ rpc[r] = "publish"
  /\ rpc' = [rpc EXCEPT ![r] = "add"]
  /\ index' = [index EXCEPT ![entries[slot[r]].desc.id] = slot[r]]
  /\ s_mux' = None
  /\ UNCHANGED <<entries, engine, todo, slot, binds, setter, strayed>>

AddDone(r) ==
  /\ rpc[r] = "add" /\ todo[r] = {}
  /\ rpc' = [rpc EXCEPT ![r] = "idle"]
  /\ UNCHANGED <<store, engine, todo, slot, binds, setter, strayed>>

-----------------------------------------------------------------------------
(* set(): find the entry, clamp to its bounds, store. An id that is not     *)
(* registered is refused, and so is a value that is not finite, which the   *)
(* comparisons of the clamp would let pass.                                 *)

\* Mutation: leaves NaN to the clamp.
RefusedById(i, v) == index[i] = None

Refused(i, v) == index[i] = None \/ v = NotFinite

SetLookup(t, i, v) ==
  /\ spc[t] = "idle"
  /\ sets < MaxSets
  /\ sets' = sets + 1
  /\ IF Refused(i, v) THEN UNCHANGED <<spc, id, value, found>>
     ELSE /\ spc' = [spc EXCEPT ![t] = "clamp"]
          /\ id' = [id EXCEPT ![t] = i]
          /\ value' = [value EXCEPT ![t] = v]
          /\ found' = [found EXCEPT ![t] = index[i]]
  /\ UNCHANGED <<store, registrar, clamped, strayed>>

Clamp(v, d) == IF v = NotFinite THEN NotFinite
               ELSE IF v < d.min THEN d.min ELSE IF v > d.max THEN d.max ELSE v

SetClamp(t) ==
  /\ spc[t] = "clamp"
  /\ spc' = [spc EXCEPT ![t] = "store"]
  /\ value' = [value EXCEPT ![t] = Clamp(value[t], entries[found[t]].desc)]
  /\ clamped' = [clamped EXCEPT ![t] = entries[found[t]].desc]
  /\ UNCHANGED <<id, found, sets, store, registrar, strayed>>

SetStore(t) ==
  /\ spc[t] = "store"
  /\ spc' = [spc EXCEPT ![t] = "idle"]
  /\ entries' = [entries EXCEPT ![found[t]].value = value[t]]
  /\ strayed' = IF entries[found[t]].desc = clamped[t]
                THEN strayed \ {found[t]} ELSE strayed \cup {found[t]}
  /\ UNCHANGED <<index, s_mux, registrar, id, value, found, clamped, sets>>

-----------------------------------------------------------------------------

Register(r) == \/ \E e \in Engines : RemoveRange(r, e)
               \/ \E d \in Descs : AddRefused(r, d) \/ AddDesc(r, d)
               \/ AddValue(r) \/ AddPublish(r) \/ AddDone(r)

Set(t) == \/ \E i \in SetIds, v \in Values : SetLookup(t, i, v)
          \/ SetClamp(t) \/ SetStore(t)

Next == \/ \E r \in Registrars : Register(r)
        \/ \E t \in Setters : Set(t)

Spec == Init /\ [][Next]_vars

-----------------------------------------------------------------------------
(* Properties. *)

TypeOK ==
  /\ entries \in [Slots -> [desc : Descs \cup {None},
                            value : Nat \cup {NotFinite}, used : BOOLEAN]]
  /\ index \in [Ids -> Slots \cup {None}]
  /\ s_mux \in Registrars \cup {None}
  /\ rpc \in [Registrars -> {"idle", "add", "value", "publish"}]
  /\ engine \in [Registrars -> Engines \cup {None}]
  /\ todo \in [Registrars -> SUBSET Descs]
  /\ slot \in [Registrars -> Slots \cup {None}]
  /\ spc \in [Setters -> {"idle", "clamp", "store"}]
  /\ id \in [Setters -> Ids \cup {None}]
  /\ value \in [Setters -> Nat \cup {NotFinite}]
  /\ found \in [Setters -> Slots \cup {None}]
  /\ clamped \in [Setters -> Descs \cup {None}]
  /\ strayed \in SUBSET Slots
  /\ sets \in 0 .. MaxSets
  /\ binds \in 0 .. MaxBinds

(* An id that is registered leads to a slot in use that holds its own        *)
(* descriptor, whole: a reader that takes no lock never follows an id into   *)
(* the slot of another parameter, and no two ids share a slot.               *)
IndexLeadsHome ==
  \A i \in Ids : index[i] # None =>
    entries[index[i]].used /\ entries[index[i]].desc.id = i

(* Every slot in use belongs to a registered id or to the add() in progress: *)
(* however often engines come and go, the store never leaks a slot.          *)
NoSlotLeaks ==
  \A s \in Slots : entries[s].used =>
    (\E i \in Ids : index[i] = s) \/ (s_mux # None /\ slot[s_mux] = s)

(* The index and the slots agree, in both directions.                        *)
IndexExact == IndexLeadsHome /\ NoSlotLeaks

(* A registered parameter's value lies between its bounds, and so is never   *)
(* NaN, which would stay. The one exception is a set() whose slot is given   *)
(* to another parameter between its clamp and its store: only that leaves a  *)
(* value outside, and only until the next set() or registration.             *)
ValueInRange ==
  \A i \in Ids : index[i] # None /\ index[i] \notin strayed =>
    entries[index[i]].value \in entries[index[i]].desc.min .. entries[index[i]].desc.max

(* However engines come and go, the value of a fixed parameter changes only  *)
(* when somebody sets that parameter: mixer and effects keep their settings  *)
(* through a switch, and a set() by id lands nowhere else.                   *)
FixedChangeBySet ==
  [][\A i \in FixedIds :
       entries'[index[i]].value # entries[index[i]].value =>
         \E t \in Setters : spc[t] = "store" /\ spc'[t] = "idle" /\ id[t] = i]_vars
=============================================================================
