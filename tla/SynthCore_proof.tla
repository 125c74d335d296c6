-------------------------- MODULE SynthCore_proof --------------------------
(***************************************************************************)
(* Proofs about components/synth_core and about chord mode, which plays    *)
(* through it. The parameter store, for any number of slots, tasks and     *)
(* engines: the index and the slots agree, a value keeps to its range, and *)
(* the fixed parameters survive every engine switch. Chord mode, for any   *)
(* number of keys, notes and tasks: a note's count is the number of keys   *)
(* that hold it, but for what a stale re-voice or a panic counted wrong,   *)
(* and a tone that waits belongs to the chord its key holds now. The voice *)
(* manager, for any number of voices and notes, a ring of any size and     *)
(* counters that wrap at any multiple of it: the ring applies what was     *)
(* sent in order, no note sticks over any number of engine switches, and a *)
(* voice is stolen only when none is free.                                 *)
(***************************************************************************)
EXTENDS ParamStore, VoiceManager, Chord, Integers, FiniteSetTheorems, WellFoundedInduction, TLAPS

-----------------------------------------------------------------------------
(* A set of numbers has a least one. *)
LEMMA Least ==
  ASSUME NEW S \in SUBSET Nat, S # {}
  PROVE  \E m \in S : \A k \in S : m <= k
<1>1. PICK n \in S : TRUE
  OBVIOUS
<1> DEFINE F == 0 .. n
           R == StrictSubsetOrdering(F)
           U == {V \in SUBSET F : \E m \in S : m <= n /\ V = {j \in S : j <= m}}
<1>2. IsFiniteSet(F) /\ FiniteSubsetsOf(F) = SUBSET F
  <2>1. IsFiniteSet(F)
    BY FS_Interval
  <2> HIDE DEF F
  <2> QED
    BY <2>1, FS_FiniteSubsetsOfFinite
<1>3. IsWellFoundedOn(R, SUBSET F)
  BY <1>2, FS_StrictSubsetOrderingWellFounded
<1>4. ASSUME NEW m \in S, m <= n
      PROVE {j \in S : j <= m} \in U
  <2> DEFINE V == {j \in S : j <= m}
  <2>1. V \subseteq F
    <3> SUFFICES ASSUME NEW j \in S, j <= m PROVE j \in 0 .. n
      OBVIOUS
    <3>1. j \in Nat /\ m \in Nat /\ n \in Nat
      BY <1>1
    <3> QED BY <1>4, <3>1
  <2> QED BY <2>1, <1>4
<1>5. U \subseteq SUBSET F /\ U # {}
  <2>1. U \subseteq SUBSET F
    OBVIOUS
  <2>2. {j \in S : j <= n} \in U 
    BY <1>4
  <2> QED BY <2>1, <2>2
<1>6. PICK u \in U : \A w \in U : ~ (<<w, u>> \in R)
  <2> HIDE DEF U, R, F
  <2> QED
  BY <1>3, <1>5, WFMin
<1>7. PICK m \in S : m <= n /\ u = {j \in S : j <= m}
  OBVIOUS
<1>8. ASSUME NEW k \in S, k < m PROVE FALSE
  <2> DEFINE w == {j \in S : j <= k}
  <2>1. w \in U 
    <3>1. k <= n BY <1>7, <1>8
    <3> QED BY <3>1, <1>4
  <2>2. w \subseteq u /\ w # u
    <3>1. m \in u /\ m \notin w
      BY <1>7, <1>8
    <3>2. \A j \in w : j \in u
      BY <1>7, <1>8
    <3> QED BY <3>1, <3>2
  <2> HIDE DEF w
  <2>3. <<w, u>> \in R
    BY <2>1, <2>2, <1>5 DEF StrictSubsetOrdering
  <2> QED BY <1>6, <2>1, <2>3
<1> QED BY <1>7, <1>8

-----------------------------------------------------------------------------
(* The parameter store. *)

(* A slot in use holds a descriptor. *)
Whole == \A s \in Slots : entries[s].used => entries[s].desc \in Descs

(* The lock admits one task, and the slot it fills is nobody else's yet. *)
Owner ==
  \A r \in Registrars :
    /\ rpc[r] \in {"value", "publish"} <=> s_mux = r
    /\ s_mux = r => /\ slot[r] \in Slots
                    /\ entries[slot[r]].used
                    /\ index[entries[slot[r]].desc.id] = None
                    /\ \A i \in Ids : index[i] # slot[r]

(* The fixed parameters stay registered. *)
FixedStay == \A i \in FixedIds : index[i] \in Slots

(* What a set() in progress knows: its slot is that of a fixed parameter only *)
(* if it sets that parameter, since those never move.                         *)
Setting ==
  \A t \in Setters : spc[t] # "idle" =>
    /\ id[t] \in Ids
    /\ found[t] \in Slots
    /\ entries[found[t]].desc \in Descs
    /\ \A i \in FixedIds : index[i] = found[t] => id[t] = i
    /\ spc[t] = "clamp" => value[t] \in Nat
    /\ spc[t] = "store" => /\ clamped[t] \in Descs
                           /\ value[t] \in clamped[t].min .. clamped[t].max

(* Slots whose value is still that of their former parameter. *)
Unset == {slot[r] : r \in {q \in Registrars : rpc[q] = "value"}}

Ranged ==
  \A s \in Slots \ (strayed \cup Unset) : entries[s].used =>
    entries[s].value \in entries[s].desc.min .. entries[s].desc.max

(* The inductive invariant. *)
IInv == TypeOK /\ IndexLeadsHome /\ NoSlotLeaks /\ Whole /\ Owner /\ FixedStay
          /\ Setting /\ Ranged

-----------------------------------------------------------------------------
(* Every descriptor's id is one of the store's, an engine removes only ids    *)
(* of its own, and bounds are numbers in order.                               *)
LEMMA DescFacts ==
  /\ \A d \in Descs : d.id \in Ids /\ d.min \in Nat /\ d.max \in Nat
                      /\ d.def \in d.min .. d.max
  /\ \A e \in Engines : /\ Layout[e].descs \in SUBSET Descs
                         /\ Layout[e].range \cap FixedIds = {}
  /\ Fixed \in SUBSET Descs /\ FixedIds \in SUBSET Ids
<1>1. \A d \in Descs : d.id \in Ids
  BY DEF Ids, FixedIds, RangeIds
<1>2. \A e \in Engines : Layout[e].descs \in SUBSET Descs
  BY DEF Descs
<1>3. Fixed \in SUBSET Descs /\ FixedIds \in SUBSET Ids
  BY DEF Descs, Ids
<1> QED
  BY <1>1, <1>2, <1>3, DescAssumption

(* Booting, the fixed parameters fill the first slots, each one slot.         *)
LEMMA OrderFacts ==
  /\ NumFixed \in Nat /\ 1 .. NumFixed \in SUBSET Slots
  /\ \A s \in 1 .. NumFixed : Order[s] \in Fixed
  /\ \A i \in FixedIds : \E s \in 1 .. NumFixed : Order[s].id = i
  /\ \A s, u \in 1 .. NumFixed : Order[s].id = Order[u].id => s = u
<1>1. NumFixed \in Nat /\ ExistsBijection(1 .. NumFixed, Fixed)
  BY FS_CardinalityType, StoreAssumption DEF NumFixed
<1>2. Order \in Bijection(1 .. NumFixed, Fixed)
  BY <1>1 DEF Order, ExistsBijection
<1>3. /\ Order \in [1 .. NumFixed -> Fixed]
      /\ \A s, u \in 1 .. NumFixed : Order[s] = Order[u] => s = u
      /\ \A d \in Fixed : \E s \in 1 .. NumFixed : Order[s] = d
  BY <1>2 DEF Bijection, Injection, Surjection, IsInjective
<1>4. 1 .. NumFixed \in SUBSET Slots
  BY <1>1, StoreAssumption DEF NumFixed, Slots
<1>5. \A i \in FixedIds : \E s \in 1 .. NumFixed : Order[s].id = i
  BY <1>3 DEF FixedIds
<1>6. \A s, u \in 1 .. NumFixed : Order[s].id = Order[u].id => s = u
  BY <1>3, DescAssumption
<1> QED
  BY <1>1, <1>3, <1>4, <1>5, <1>6

(* The empty store, and the fixed parameters in it. *)
LEMMA Initial == Init => IInv
<1> SUFFICES ASSUME Init PROVE IInv
  OBVIOUS
<1>1. \A i \in FixedIds : /\ i \in Ids
                          /\ index[i] \in 1 .. NumFixed
                          /\ index[i] \in Slots
                          /\ Order[index[i]].id = i
  BY OrderFacts, DescFacts DEF Init
<1>2. \A i \in Ids : i \in FixedIds \/ index[i] = None
  BY DEF Init
<1>3. \A s \in Slots : s \in 1 .. NumFixed =>
        entries[s] = [desc |-> Order[s], value |-> Order[s].def, used |-> TRUE]
  BY OrderFacts DEF Init, Slots
<1>4. \A s \in Slots : s \notin 1 .. NumFixed => entries[s] = Blank
  BY OrderFacts, StoreAssumption DEF Init, Slots
<1>5. \A s \in Slots : s \in 1 .. NumFixed =>
         /\ Order[s] \in Descs /\ Order[s].id \in FixedIds
         /\ Order[s].def \in Order[s].min .. Order[s].max /\ Order[s].def \in Nat
  BY OrderFacts, DescFacts DEF FixedIds
<1>6. entries \in [Slots -> [desc : Descs \cup {None}, value : Nat \cup {NotFinite},
                            used : BOOLEAN]]
  BY <1>3, <1>4, <1>5 DEF Init, Blank
<1>7. index \in [Ids -> Slots \cup {None}]
  BY <1>1, <1>2 DEF Init
<1>8. TypeOK
  BY <1>6, <1>7, StoreAssumption DEF Init, TypeOK
<1>9. ASSUME NEW s \in Slots, s \in 1 .. NumFixed
       PROVE  /\ entries[s].used
              /\ entries[s].desc = Order[s] /\ entries[s].value = Order[s].def
  <2>1. entries[s] = [desc |-> Order[s], value |-> Order[s].def, used |-> TRUE]
    BY <1>3, <1>9
  <2> QED
    BY <2>1
<1>10. ASSUME NEW s \in Slots, entries[s].used PROVE s \in 1 .. NumFixed
  <2>1. s \notin 1 .. NumFixed => entries[s].used = FALSE
    BY <1>4 DEF Blank
  <2> QED
    BY <1>10, <2>1
<1>11. IndexLeadsHome
  BY <1>1, <1>2, <1>9, <1>10 DEF IndexLeadsHome
<1>12. NoSlotLeaks
  <2> SUFFICES ASSUME NEW s \in Slots, entries[s].used
               PROVE \E i \in Ids : index[i] = s
    BY DEF NoSlotLeaks
  <2>1. s \in 1 .. NumFixed /\ Order[s].id \in FixedIds
    BY <1>5, <1>10
  <2>2. index[Order[s].id] = s
    BY <1>1, <2>1, OrderFacts
  <2> QED
    BY <1>1, <2>1, <2>2
<1>13. Whole /\ Ranged
  BY <1>5, <1>9, <1>10 DEF Whole, Ranged
<1>14. Owner
  BY StoreAssumption DEF Init, Owner
<1>15. FixedStay /\ Setting
  BY <1>1 DEF Init, FixedStay, Setting
<1> QED
  BY <1>8, <1>11, <1>12, <1>13, <1>14, <1>15 DEF IInv

-----------------------------------------------------------------------------
(* Steps that fill no slot and drop no id leave the registry's facts alone.   *)
LEMMA QuietStep ==
  ASSUME IInv, UNCHANGED <<entries, index, s_mux, slot, strayed>>,
         \A r \in Registrars : rpc[r] \in {"value", "publish"} \/ rpc'[r] \in {"value", "publish"}
                                => rpc'[r] = rpc[r]
  PROVE  IndexLeadsHome' /\ NoSlotLeaks' /\ Whole' /\ Owner' /\ FixedStay' /\ Ranged'
<1>1. IndexLeadsHome' /\ NoSlotLeaks' /\ Whole' /\ FixedStay'
  BY DEF IInv, IndexLeadsHome, NoSlotLeaks, Whole, FixedStay
<1>2. Owner'
  BY DEF IInv, Owner
<1>3. Unset' = Unset
  BY DEF Unset
<1>4. Ranged'
  BY <1>3 DEF IInv, Ranged
<1> QED
  BY <1>1, <1>2, <1>4

(* An engine's range of parameters is removed. *)
LEMMA RemoveRangeStep ==
  ASSUME IInv, NEW r \in Registrars, NEW e \in Engines, RemoveRange(r, e)
  PROVE  IInv'
<1> DEFINE gone == Layout[e].range
<1>1. /\ entries \in [Slots -> [desc : Descs \cup {None},
                               value : Nat \cup {NotFinite}, used : BOOLEAN]]
      /\ index \in [Ids -> Slots \cup {None}]
      /\ rpc[r] = "idle" /\ s_mux = None
  BY DEF IInv, TypeOK, RemoveRange
<1>2. \A s \in Slots : /\ entries'[s].desc = entries[s].desc
                       /\ entries'[s].value = entries[s].value
                       /\ entries'[s].used <=>
                            entries[s].used /\ ~\E i \in gone : index[i] = s
  BY <1>1 DEF RemoveRange, Freed
<1>3. \A i \in Ids : index'[i] = IF i \in gone THEN None ELSE index[i]
  BY DEF RemoveRange, Forgotten
<1>4. gone \in SUBSET Ids /\ gone \cap FixedIds = {} /\ Layout[e].descs \in SUBSET Descs
  BY DescFacts, DescAssumption DEF Ids
<1>5. \A i, j \in Ids : index[i] # None /\ index[i] = index[j] => i = j
  BY DEF IInv, IndexLeadsHome
<1>6. TypeOK'
  <2>1. entries' \in [Slots -> [desc : Descs \cup {None},
                               value : Nat \cup {NotFinite}, used : BOOLEAN]]
    BY <1>1 DEF RemoveRange, Freed
  <2>2. index' \in [Ids -> Slots \cup {None}]
    BY <1>1 DEF RemoveRange, Forgotten
  <2> QED
    BY <2>1, <2>2, <1>4, StoreAssumption DEF IInv, TypeOK, RemoveRange, setter
<1>7. IndexLeadsHome'
  BY <1>1, <1>2, <1>3, <1>4, <1>5, StoreAssumption DEF IInv, IndexLeadsHome
<1>8. NoSlotLeaks'
  BY <1>1, <1>2, <1>3, <1>4 DEF IInv, NoSlotLeaks
<1>9. Whole' /\ FixedStay'
  BY <1>1, <1>2, <1>3, <1>4, DescFacts DEF IInv, Whole, FixedStay
<1>10. Owner'
  BY <1>1, StoreAssumption DEF IInv, Owner, RemoveRange, TypeOK
<1>11. Setting'
  BY <1>1, <1>2, <1>3, <1>4, DescFacts DEF IInv, Setting, RemoveRange, setter
<1>12. Unset' = Unset /\ strayed' = strayed
  BY <1>1 DEF Unset, RemoveRange, IInv, TypeOK
<1>13. Ranged'
  BY <1>2, <1>12 DEF IInv, Ranged
<1> QED
  BY <1>6, <1>7, <1>8, <1>9, <1>10, <1>11, <1>13 DEF IInv

(* A registration that is refused or ends changes nothing. *)
LEMMA AddIdleStep ==
  ASSUME IInv, NEW r \in Registrars,
         AddDone(r) \/ \E d \in Descs : AddRefused(r, d)
  PROVE  IInv'
<1>1. TypeOK'
  BY DEF IInv, TypeOK, AddRefused, AddDone, store, setter
<1>2. /\ UNCHANGED <<entries, index, s_mux, slot, strayed>>
      /\ \A q \in Registrars :
           rpc[q] \in {"value", "publish"} \/ rpc'[q] \in {"value", "publish"}
             => rpc'[q] = rpc[q]
  BY DEF IInv, TypeOK, AddRefused, AddDone, store
<1>3. Setting'
  BY DEF IInv, Setting, AddRefused, AddDone, store, setter
<1> QED
  BY <1>1, <1>2, <1>3, QuietStep DEF IInv

(* A free slot takes a descriptor, under the lock. *)
LEMMA AddDescStep ==
  ASSUME IInv, NEW r \in Registrars, NEW d \in Descs, AddDesc(r, d)
  PROVE  IInv'
<1>1. PICK s \in Slots : /\ ~entries[s].used
                        /\ slot' = [slot EXCEPT ![r] = s]
                        /\ entries' = [entries EXCEPT ![s].desc = d, ![s].used = TRUE]
  BY DEF AddDesc, Unused
<1>2. /\ entries \in [Slots -> [desc : Descs \cup {None},
                               value : Nat \cup {NotFinite}, used : BOOLEAN]]
      /\ index \in [Ids -> Slots \cup {None}]
      /\ slot \in [Registrars -> Slots \cup {None}]
      /\ rpc \in [Registrars -> {"idle", "add", "value", "publish"}]
      /\ s_mux = None /\ s_mux' = r /\ rpc[r] = "add"
      /\ rpc' = [rpc EXCEPT ![r] = "value"]
      /\ index' = index /\ index[d.id] = None /\ strayed' = strayed
  BY DEF IInv, TypeOK, AddDesc
<1>3. /\ entries'[s].desc = d /\ entries'[s].used
      /\ \A u \in Slots \ {s} : entries'[u] = entries[u]
  BY <1>1, <1>2
<1>4. \A i \in Ids : index[i] # s
  BY <1>1, <1>2, StoreAssumption DEF IInv, IndexLeadsHome
<1>5. slot'[r] = s /\ \A q \in Registrars \ {r} : slot'[q] = slot[q] /\ rpc'[q] = rpc[q]
  BY <1>1, <1>2
<1>6. TypeOK'
  <2>1. entries' \in [Slots -> [desc : Descs \cup {None},
                               value : Nat \cup {NotFinite}, used : BOOLEAN]]
    BY <1>1, <1>2
  <2> QED
    BY <1>1, <1>2, <2>1 DEF IInv, TypeOK, AddDesc, setter
<1>7. IndexLeadsHome'
  BY <1>2, <1>3, <1>4 DEF IInv, IndexLeadsHome
<1>8. NoSlotLeaks'
  BY <1>2, <1>3, <1>5, StoreAssumption DEF IInv, NoSlotLeaks
<1>9. Whole' /\ FixedStay'
  BY <1>2, <1>3 DEF IInv, Whole, FixedStay
<1>10. Owner'
  <2>1. \A q \in Registrars : rpc[q] \notin {"value", "publish"}
    BY <1>2, StoreAssumption DEF IInv, Owner
  <2>2. rpc'[r] = "value"
    BY <1>2
  <2> QED
    BY <1>2, <1>3, <1>4, <1>5, <2>1, <2>2 DEF Owner
<1>11. Setting'
  <2>1. UNCHANGED <<spc, id, value, found, clamped>>
    BY DEF AddDesc, setter
  <2>2. \A u \in Slots : entries[u].desc \in Descs => entries'[u].desc \in Descs
    BY <1>3
  <2> QED
    BY <1>2, <2>1, <2>2 DEF IInv, Setting
<1>12. Ranged'
  <2>1. s \in Unset' /\ Unset \in SUBSET Unset'
    BY <1>2, <1>5 DEF Unset
  <2> QED
    BY <1>2, <1>3, <2>1 DEF IInv, Ranged
<1> QED
  BY <1>6, <1>7, <1>8, <1>9, <1>10, <1>11, <1>12 DEF IInv

(* The slot takes the default value. *)
LEMMA AddValueStep ==
  ASSUME IInv, NEW r \in Registrars, AddValue(r)
  PROVE  IInv'
<1> DEFINE s == slot[r]
<1>1. /\ entries \in [Slots -> [desc : Descs \cup {None},
                               value : Nat \cup {NotFinite}, used : BOOLEAN]]
      /\ rpc \in [Registrars -> {"idle", "add", "value", "publish"}]
      /\ rpc[r] = "value" /\ rpc' = [rpc EXCEPT ![r] = "publish"]
      /\ UNCHANGED <<index, s_mux, slot>>
  BY DEF IInv, TypeOK, AddValue
<1>2. s_mux = r /\ s \in Slots /\ entries[s].used /\ entries[s].desc \in Descs
  BY <1>1 DEF IInv, Owner, Whole
<1>3. /\ entries'[s].value = entries[s].desc.def
      /\ \A u \in Slots \ {s} : entries'[u] = entries[u]
      /\ \A u \in Slots : /\ entries'[u].desc = entries[u].desc
                          /\ entries'[u].used = entries[u].used
  BY <1>1, <1>2 DEF AddValue
<1>4. entries[s].desc.def \in entries[s].desc.min .. entries[s].desc.max
      /\ entries[s].desc.def \in Nat
  BY <1>2, DescFacts
<1>5. TypeOK'
  <2>1. entries' \in [Slots -> [desc : Descs \cup {None},
                               value : Nat \cup {NotFinite}, used : BOOLEAN]]
    BY <1>1, <1>2, <1>4 DEF AddValue
  <2> QED
    BY <1>1, <2>1 DEF IInv, TypeOK, AddValue, setter
<1>6. IndexLeadsHome' /\ FixedStay'
  BY <1>1, <1>3, StoreAssumption DEF IInv, IndexLeadsHome, FixedStay, TypeOK
<1>7. NoSlotLeaks' /\ Whole'
  BY <1>1, <1>3 DEF IInv, NoSlotLeaks, Whole
<1>8. Owner'
  BY <1>1, <1>3 DEF IInv, Owner
<1>9. Setting'
  BY <1>1, <1>3 DEF IInv, Setting, AddValue, setter
<1>10. Ranged'
  <2>1. Unset \in SUBSET (Unset' \cup {s}) /\ strayed \in SUBSET (strayed' \cup {s})
    BY <1>1 DEF Unset, AddValue
  <2> QED
    BY <1>3, <1>4, <2>1 DEF IInv, Ranged
<1> QED
  BY <1>5, <1>6, <1>7, <1>8, <1>9, <1>10 DEF IInv

(* The index leads to the slot, and the lock is released. *)
LEMMA AddPublishStep ==
  ASSUME IInv, NEW r \in Registrars, AddPublish(r)
  PROVE  IInv'
<1> DEFINE s == slot[r]
           i == entries[s].desc.id
<1>1. /\ index \in [Ids -> Slots \cup {None}]
      /\ rpc \in [Registrars -> {"idle", "add", "value", "publish"}]
      /\ rpc[r] = "publish" /\ rpc' = [rpc EXCEPT ![r] = "add"]
      /\ UNCHANGED <<entries, slot, strayed>>
      /\ index' = [index EXCEPT ![i] = s] /\ s_mux' = None
  BY DEF IInv, TypeOK, AddPublish
<1>2. /\ s_mux = r /\ s \in Slots /\ entries[s].used /\ entries[s].desc \in Descs
      /\ index[i] = None /\ \A j \in Ids : index[j] # s
  BY <1>1 DEF IInv, Owner, Whole
<1>3. i \in Ids /\ i \notin FixedIds
  BY <1>2, DescFacts, StoreAssumption DEF IInv, FixedStay
<1>4. index'[i] = s /\ \A j \in Ids \ {i} : index'[j] = index[j]
  BY <1>1, <1>3
<1>5. TypeOK'
  BY <1>1, <1>2 DEF IInv, TypeOK, AddPublish, setter
<1>6. IndexLeadsHome' /\ Whole'
  BY <1>1, <1>2, <1>4 DEF IInv, IndexLeadsHome, Whole
<1>7. NoSlotLeaks'
  BY <1>1, <1>2, <1>3, <1>4, StoreAssumption DEF IInv, NoSlotLeaks
<1>8. Owner'
  BY <1>1, <1>2, StoreAssumption DEF IInv, Owner
<1>9. FixedStay'
  BY <1>3, <1>4, DescFacts DEF IInv, FixedStay
<1>10. Setting'
  BY <1>1, <1>3, <1>4, DescFacts DEF IInv, Setting, AddPublish, setter
<1>11. Ranged'
  <2>1. Unset' = Unset
    BY <1>1 DEF Unset
  <2> QED
    BY <1>1, <2>1 DEF IInv, Ranged
<1> QED
  BY <1>5, <1>6, <1>7, <1>8, <1>9, <1>10, <1>11 DEF IInv

-----------------------------------------------------------------------------
(* The steps of a set(). *)

(* The slot is looked up and its descriptor checked. *)
LEMMA SetLookupStep ==
  ASSUME IInv, NEW t \in Setters, NEW i \in SetIds, NEW v \in Values,
         SetLookup(t, i, v)
  PROVE  IInv'
<1>1. UNCHANGED <<entries, index, s_mux, slot, strayed, rpc, clamped>>
  BY DEF SetLookup, store, registrar
<1>2. i \in Ids /\ v \in Nat \cup {NotFinite}
  BY StoreAssumption
<1>3. CASE Refused(i, v)
  <2>1. UNCHANGED <<spc, id, value, found>>
    BY <1>3 DEF SetLookup
  <2>2. TypeOK'
    BY <1>1, <2>1, StoreAssumption DEF IInv, TypeOK, SetLookup, registrar
  <2>3. Setting'
    BY <1>1, <2>1 DEF IInv, Setting
  <2> QED
    BY <1>1, <2>2, <2>3, QuietStep DEF IInv
<1>4. CASE ~Refused(i, v)
  <2>1. /\ spc' = [spc EXCEPT ![t] = "clamp"] /\ id' = [id EXCEPT ![t] = i]
        /\ value' = [value EXCEPT ![t] = v] /\ found' = [found EXCEPT ![t] = index[i]]
    BY <1>4 DEF SetLookup
  <2>2. v \in Nat /\ index[i] \in Slots
    BY <1>2, <1>4 DEF Refused, IInv, TypeOK
  <2>3. TypeOK'
    BY <1>1, <1>2, <2>1, <2>2, StoreAssumption DEF IInv, TypeOK, SetLookup, registrar
  <2>4. entries[index[i]].desc \in Descs
        /\ \A j \in FixedIds : index[j] = index[i] => i = j
    BY <1>2, <2>2, DescFacts, StoreAssumption DEF IInv, IndexLeadsHome, Whole
  <2>5. Setting'
    BY <1>1, <1>2, <2>1, <2>2, <2>4 DEF IInv, Setting, TypeOK
  <2> QED
    BY <1>1, <2>3, <2>5, QuietStep DEF IInv
<1> QED
  BY <1>3, <1>4

(* Whatever number is asked for, the clamp answers one within the bounds.     *)
LEMMA ClampBounds ==
  ASSUME NEW d \in Descs, NEW v \in Nat
  PROVE  Clamp(v, d) \in d.min .. d.max /\ Clamp(v, d) \in Nat
<1>1. d.min \in Nat /\ d.max \in Nat /\ d.min <= d.max
  BY DescFacts
<1> QED
  BY <1>1, StoreAssumption DEF Clamp

(* The value is clamped to the descriptor read then. *)
LEMMA SetClampStep ==
  ASSUME IInv, NEW t \in Setters, SetClamp(t)
  PROVE  IInv'
<1> DEFINE d == entries[found[t]].desc
<1>1. UNCHANGED <<entries, index, s_mux, slot, strayed, rpc, id, found>>
  BY DEF SetClamp, store, registrar
<1>2. /\ spc[t] = "clamp" /\ spc' = [spc EXCEPT ![t] = "store"]
      /\ value' = [value EXCEPT ![t] = Clamp(value[t], d)]
      /\ clamped' = [clamped EXCEPT ![t] = d]
  BY DEF SetClamp
<1>3. d \in Descs /\ value[t] \in Nat
  BY <1>2 DEF IInv, Setting
<1>4. Clamp(value[t], d) \in d.min .. d.max /\ Clamp(value[t], d) \in Nat
  BY <1>3, ClampBounds
<1>5. TypeOK'
  BY <1>1, <1>2, <1>3, <1>4 DEF IInv, TypeOK, SetClamp, registrar
<1>6. Setting'
  BY <1>1, <1>2, <1>3, <1>4 DEF IInv, Setting, TypeOK
<1> QED
  BY <1>1, <1>5, <1>6, QuietStep DEF IInv

(* The value is stored in the slot found first. *)
LEMMA SetStoreStep ==
  ASSUME IInv, NEW t \in Setters, SetStore(t)
  PROVE  IInv'
<1> DEFINE s == found[t]
<1>1. /\ entries \in [Slots -> [desc : Descs \cup {None},
                               value : Nat \cup {NotFinite}, used : BOOLEAN]]
      /\ spc[t] = "store" /\ spc' = [spc EXCEPT ![t] = "idle"]
      /\ UNCHANGED <<index, s_mux, slot, rpc, id, value, found, clamped>>
  BY DEF IInv, TypeOK, SetStore, registrar
<1>2. /\ s \in Slots /\ clamped[t] \in Descs
      /\ value[t] \in clamped[t].min .. clamped[t].max
      /\ value[t] \in Nat \cup {NotFinite}
  BY <1>1 DEF IInv, Setting, TypeOK
<1>3. /\ entries'[s].value = value[t]
      /\ \A u \in Slots \ {s} : entries'[u] = entries[u]
      /\ \A u \in Slots : /\ entries'[u].desc = entries[u].desc
                          /\ entries'[u].used = entries[u].used
  BY <1>1, <1>2 DEF SetStore
<1>4. TypeOK'
  <2>1. entries' \in [Slots -> [desc : Descs \cup {None},
                               value : Nat \cup {NotFinite}, used : BOOLEAN]]
    BY <1>1, <1>2 DEF SetStore
  <2>2. strayed' \in SUBSET Slots
    BY <1>2 DEF SetStore, IInv, TypeOK
  <2> QED
    BY <1>1, <2>1, <2>2 DEF IInv, TypeOK, SetStore, registrar
<1>5. IndexLeadsHome' /\ FixedStay'
  BY <1>1, <1>3, StoreAssumption DEF IInv, IndexLeadsHome, FixedStay, TypeOK
<1>6. NoSlotLeaks' /\ Whole'
  BY <1>1, <1>3 DEF IInv, NoSlotLeaks, Whole
<1>7. Owner'
  BY <1>1, <1>3 DEF IInv, Owner
<1>8. Setting'
  BY <1>1, <1>3 DEF IInv, Setting, TypeOK
<1>9. Ranged'
  <2>1. Unset' = Unset
    BY <1>1 DEF Unset
  <2>2. \A u \in Slots \ {s} : u \in strayed' <=> u \in strayed
    BY DEF SetStore
  <2>3. s \notin strayed' => entries[s].desc = clamped[t]
    BY DEF SetStore
  <2> QED
    BY <1>2, <1>3, <2>1, <2>2, <2>3 DEF IInv, Ranged
<1> QED
  BY <1>4, <1>5, <1>6, <1>7, <1>8, <1>9 DEF IInv

-----------------------------------------------------------------------------
(* Every step keeps the invariant. *)
LEMMA Step == IInv /\ [Next]_vars => IInv'
<1> SUFFICES ASSUME IInv, [Next]_vars PROVE IInv'
  OBVIOUS
<1>1. CASE UNCHANGED vars
  BY <1>1 DEF IInv, TypeOK, IndexLeadsHome, NoSlotLeaks, Whole, Owner, FixedStay,
              Setting, Ranged, Unset, vars, store, registrar, setter
<1>2. ASSUME NEW r \in Registrars, Register(r) PROVE IInv'
  BY <1>2, RemoveRangeStep, AddIdleStep, AddDescStep, AddValueStep, AddPublishStep
  DEF Register
<1>3. ASSUME NEW t \in Setters, Set(t) PROVE IInv'
  BY <1>3, SetLookupStep, SetClampStep, SetStoreStep DEF Set
<1> QED
  BY <1>1, <1>2, <1>3 DEF Next

(* The inductive invariant holds in every reachable state.                    *)
THEOREM Inductive == Spec => []IInv
  BY Initial, Step, PTL DEF Spec

(* Every variable of the registry, the registrars and the setters keeps its   *)
(* type.                                                                      *)
THEOREM Typing == Spec => []TypeOK
<1>1. IInv => TypeOK
  BY DEF IInv
<1> QED
  BY <1>1, Inductive, PTL

(* A reader that follows an id without a lock always gets to that id's own    *)
(* parameter, and no engine switch ever leaks a slot.                         *)
THEOREM IndexSafe == Spec => []IndexExact
<1>1. IInv => IndexExact
  BY DEF IInv, IndexExact
<1> QED
  BY <1>1, Inductive, PTL

(* The value of a registered parameter lies within its bounds, but for one    *)
(* that a set() clamped to those of the slot's former parameter.              *)
THEOREM RangeKept == Spec => []ValueInRange
<1>1. IInv => ValueInRange
  <2> SUFFICES ASSUME IInv, NEW i \in Ids, index[i] # None, index[i] \notin strayed
               PROVE  entries[index[i]].value \in
                        entries[index[i]].desc.min .. entries[index[i]].desc.max
    BY DEF ValueInRange
  <2>1. index[i] \in Slots /\ entries[index[i]].used
    BY DEF IInv, IndexLeadsHome, TypeOK
  <2>2. index[i] \notin Unset
    BY DEF IInv, Owner, Unset
  <2> QED
    BY <2>1, <2>2 DEF IInv, Ranged
<1> QED
  BY <1>1, Inductive, PTL

(* Mixer and effects keep their settings through every engine switch: the     *)
(* value of a fixed parameter changes only when that parameter is set.        *)
THEOREM FixedSafe == Spec => FixedChangeBySet
<1>1. ASSUME IInv, [Next]_vars, NEW i \in FixedIds,
             entries'[index[i]].value # entries[index[i]].value
      PROVE  \E t \in Setters : spc[t] = "store" /\ spc'[t] = "idle" /\ id[t] = i
  <2> DEFINE s == index[i]
  <2>1. /\ entries \in [Slots -> [desc : Descs \cup {None},
                                 value : Nat \cup {NotFinite}, used : BOOLEAN]]
        /\ s \in Slots /\ i \in Ids
    BY <1>1, DescFacts DEF IInv, TypeOK, FixedStay
  <2>2. ASSUME NEW r \in Registrars, NEW e \in Engines, RemoveRange(r, e) PROVE FALSE
    BY <1>1, <2>1, <2>2 DEF RemoveRange, Freed
  <2>3. ASSUME NEW r \in Registrars, NEW d \in Descs, AddDesc(r, d) PROVE FALSE
    BY <1>1, <2>1, <2>3 DEF AddDesc, Unused
  <2>4. ASSUME NEW r \in Registrars, AddValue(r) PROVE FALSE
    <3>1. slot[r] # s
      BY <1>1, <2>1, <2>4 DEF IInv, Owner, AddValue
    <3> QED
      BY <1>1, <2>1, <2>4, <3>1 DEF AddValue
  <2>5. ASSUME NEW t \in Setters, SetStore(t)
        PROVE  spc[t] = "store" /\ spc'[t] = "idle" /\ id[t] = i
    <3>1. spc[t] = "store" /\ spc'[t] = "idle"
      BY <1>1, <2>5 DEF SetStore, IInv, TypeOK
    <3>2. found[t] = s
      BY <1>1, <2>1, <2>5 DEF SetStore
    <3> QED
      BY <1>1, <3>1, <3>2 DEF IInv, Setting
  <2>6. entries' # entries
    BY <1>1
  <2> QED
    BY <1>1, <2>2, <2>3, <2>4, <2>5, <2>6
    DEF Next, Register, Set, AddRefused, AddPublish, AddDone, SetLookup, SetClamp,
        store, vars
<1>2. IInv /\ [Next]_vars =>
        [\A i \in FixedIds : entries'[index[i]].value # entries[index[i]].value =>
           \E t \in Setters : spc[t] = "store" /\ spc'[t] = "idle" /\ id[t] = i]_vars
  BY <1>1
<1> QED
  BY <1>2, Inductive, PTL DEF Spec, FixedChangeBySet

-----------------------------------------------------------------------------
(* Chord mode. *)

(* The parts of the state that are under the lock, as invariants of their     *)
(* values: the table of held keys, *)
InUse(held) == {i \in Entries : held[i].used}
Has(held, i) == At(held[i].tones, held[i].emitted)
KeyTable(held) ==
  /\ held \in [Entries -> {Empty} \cup Entry]
  /\ \A i \in InUse(held) : /\ held[i].emitted \subseteq DOMAIN held[i].tones
                           /\ Distinct(held[i].tones)
  /\ \A i, j \in InUse(held) : held[i].key = held[j].key /\ held[i].pre = held[j].pre
                                => i = j

(* the count of each note, *)
Holding(held, n) == {i \in InUse(held) : n \in Has(held, i)}
Counted(held, ref, mis) ==
  /\ ref \in [Pitches -> Nat] /\ mis \subseteq Pitches
  /\ \A n \in Pitches \ mis : ref[n] = Cardinality(Holding(held, n))

(* and the tones that wait on the strum clock. *)
Wait == [slot : Entries, key : Keys, bit : Nat, note : Pitches, pre : BOOLEAN]
Current(held, p) ==
  /\ p.slot \in InUse(held)
  /\ held[p.slot].key = p.key /\ held[p.slot].pre = p.pre
  /\ p.bit \in DOMAIN held[p.slot].tones \ held[p.slot].emitted
  /\ held[p.slot].tones[p.bit] = p.note
Waiting(held, pend) ==
  /\ pend \subseteq Wait /\ IsFiniteSet(pend) /\ Cardinality(pend) <= NumPending
  /\ \A p \in pend : Current(held, p)

(* What a task knows outside the lock. *)
ChordTone == {s \in Seq(Pitches) : Distinct(s)}
Knows(at, a) ==
  /\ at \in {"mono", "insert"} => /\ a.key \in Keys /\ a.pre \in BOOLEAN
                                 /\ a.tones \in ChordTone
  /\ at = "snapshot" => a.slot \in Entries
  /\ at = "revoice" => /\ a.slot \in Entries /\ a.tones \in ChordTone
                       /\ a.old \in Seq(Pitches) /\ a.oldEmitted \subseteq DOMAIN a.old
                       /\ a.pre \in BOOLEAN

Outside ==
  /\ setting \in Settings
  /\ DOMAIN pc = Tasks /\ DOMAIN arg = Tasks
  /\ \A t \in Tasks : Knows(pc[t], arg[t])
  /\ sounding \subseteq Pitches \X {"voice", "arp"}
  /\ pressed \subseteq Players \X Keys /\ plain \subseteq Keys

(* What it is about to play. *)
Lists == out \in [Tasks -> Seq(Emission)]

CInv == /\ KeyTable(s_held)
        /\ Counted(s_held, s_ref, miscounted)
        /\ Waiting(s_held, s_pend)
        /\ Outside
        /\ Lists

-----------------------------------------------------------------------------
(* The first of some entries is one of them. *)
LEMMA FirstIsIn ==
  ASSUME NEW S \in SUBSET Entries, S # {}
  PROVE  FirstOf(S) \in S
<1>1. S \in SUBSET Nat
  BY DEF Entries
<1>2. \E i \in S : \A j \in S : i <= j
  BY <1>1, Least
<1> QED
  BY <1>2 DEF FirstOf

(* The entries are finitely many. *)
LEMMA EntrySets ==
  ASSUME NEW S \in SUBSET Entries
  PROVE  /\ IsFiniteSet(S) /\ Cardinality(S) \in Nat
         /\ \A i \in Entries \ S : Cardinality(S \cup {i}) = Cardinality(S) + 1
         /\ \A i \in S : Cardinality(S \ {i}) = Cardinality(S) - 1 /\ Cardinality(S) > 0
<1>1. IsFiniteSet(Entries)
  BY FS_Interval, TableAssumption DEF Entries
<1>2. IsFiniteSet(S) /\ Cardinality(S) \in Nat
  BY <1>1, FS_Subset, FS_CardinalityType
<1>3. \A i \in Entries \ S : Cardinality(S \cup {i}) = Cardinality(S) + 1
  BY <1>2, FS_AddElement
<1>4. ASSUME NEW i \in S
      PROVE  Cardinality(S \ {i}) = Cardinality(S) - 1 /\ Cardinality(S) > 0
  <2>1. Cardinality(S \ {i}) = Cardinality(S) - 1
    BY <1>2, FS_RemoveElement
  <2>2. Cardinality(S \ {i}) \in Nat
    BY <1>2, FS_Subset, FS_CardinalityType
  <2> QED
    BY <1>2, <2>1, <2>2
<1> QED
  BY <1>2, <1>3, <1>4

(* An entry is empty or it is one with a key. *)
LEMMA EntryFacts ==
  ASSUME NEW held, KeyTable(held), NEW i \in Entries
  PROVE  /\ i \notin InUse(held) => held[i] = Empty
         /\ i \in InUse(held) =>
              /\ held[i] \in Entry
              /\ held[i].key \in Keys /\ held[i].pre \in BOOLEAN
              /\ held[i].tones \in Seq(Pitches) /\ Distinct(held[i].tones)
              /\ held[i].emitted \subseteq DOMAIN held[i].tones
              /\ Has(held, i) \subseteq Pitches
<1>1. held[i] \in {Empty} \cup Entry
  BY DEF KeyTable
<1>2. CASE held[i] = Empty
  <2>1. ~held[i].used
    BY <1>2 DEF Empty
  <2> QED
    BY <1>2, <2>1 DEF InUse
<1>3. CASE held[i] \in Entry
  <2>1. held[i].used = TRUE
    BY <1>3 DEF Entry
  <2>2. i \in InUse(held)
    BY <2>1 DEF InUse
  <2>3. /\ held[i].key \in Keys /\ held[i].pre \in BOOLEAN
        /\ held[i].tones \in Seq(Pitches)
    BY <1>3 DEF Entry
  <2>4. Distinct(held[i].tones) /\ held[i].emitted \subseteq DOMAIN held[i].tones
    BY <2>2 DEF KeyTable
  <2>5. Has(held, i) \subseteq Pitches
    BY <2>3, <2>4 DEF Has, At
  <2> QED
    BY <1>3, <2>2, <2>3, <2>4, <2>5
<1> QED
  BY <1>1, <1>2, <1>3

(* One entry is replaced by another. *)
Replaces(new, held, place, e) == new = [held EXCEPT ![place] = e]

(* The key table after one entry has changed. *)
LEMMA ChangedTable ==
  ASSUME NEW held, KeyTable(held), NEW place \in Entries, NEW e \in {Empty} \cup Entry,
         e # Empty =>
           /\ e.emitted \subseteq DOMAIN e.tones /\ Distinct(e.tones)
           /\ \A i \in InUse(held) \ {place} : ~(held[i].key = e.key /\ held[i].pre = e.pre),
         NEW new, Replaces(new, held, place, e)
  PROVE  /\ KeyTable(new)
         /\ new[place] = e /\ \A i \in Entries \ {place} : new[i] = held[i]
         /\ e = Empty => InUse(new) = InUse(held) \ {place}
         /\ e # Empty => InUse(new) = InUse(held) \cup {place}
<1>1. held \in [Entries -> {Empty} \cup Entry]
  BY DEF KeyTable
<1>2. /\ new \in [Entries -> {Empty} \cup Entry]
      /\ new[place] = e /\ \A i \in Entries \ {place} : new[i] = held[i]
  BY <1>1 DEF Replaces
<1>3. e # Empty => e.used = TRUE
  BY DEF Entry
<1>4. e = Empty => e.used = FALSE
  BY DEF Empty
<1>5. /\ e = Empty => InUse(new) = InUse(held) \ {place}
      /\ e # Empty => InUse(new) = InUse(held) \cup {place}
  BY <1>2, <1>3, <1>4 DEF InUse
<1>6. KeyTable(new)
  <2>1. ASSUME NEW i \in InUse(new)
        PROVE  new[i].emitted \subseteq DOMAIN new[i].tones /\ Distinct(new[i].tones)
    BY <1>2, <1>5, <2>1 DEF KeyTable, InUse
  <2>2. ASSUME NEW i \in InUse(new), NEW j \in InUse(new),
               new[i].key = new[j].key, new[i].pre = new[j].pre
        PROVE  i = j
    BY <1>2, <1>5, <2>2 DEF KeyTable, InUse
  <2> QED
    BY <1>2, <2>1, <2>2 DEF KeyTable
<1> QED
  BY <1>2, <1>5, <1>6

(* Who holds a note after one entry has changed. *)
LEMMA ChangedHolding ==
  ASSUME NEW held, KeyTable(held), NEW new, KeyTable(new), NEW place \in Entries,
         \A i \in Entries \ {place} : new[i] = held[i], NEW n
  PROVE  /\ Holding(held, n) \in SUBSET Entries /\ Holding(new, n) \in SUBSET Entries
         /\ Holding(new, n) \ {place} = Holding(held, n) \ {place}
         /\ place \in Holding(new, n) <=> place \in InUse(new) /\ n \in Has(new, place)
         /\ place \in Holding(held, n) <=> place \in InUse(held) /\ n \in Has(held, place)
BY DEF Holding, InUse, Has

(* How the count of a note's holders moves with one entry. *)
LEMMA CountMoves ==
  ASSUME NEW A \in SUBSET Entries, NEW B \in SUBSET Entries, NEW place \in Entries,
         B \ {place} = A \ {place}
  PROVE  /\ Cardinality(A) \in Nat /\ Cardinality(B) \in Nat
         /\ (place \in A <=> place \in B) => Cardinality(B) = Cardinality(A)
         /\ place \in A /\ place \notin B =>
              Cardinality(B) = Cardinality(A) - 1 /\ Cardinality(A) > 0
         /\ place \notin A /\ place \in B => Cardinality(B) = Cardinality(A) + 1
<1>1. (place \in A <=> place \in B) => B = A
  OBVIOUS
<1>2. place \in A /\ place \notin B => B = A \ {place}
  OBVIOUS
<1>3. place \notin A /\ place \in B => B = A \cup {place}
  OBVIOUS
<1> QED
  BY <1>1, <1>2, <1>3, EntrySets

(* The counts stay right when each moves with the one entry that has changed. *)
LEMMA Recounted ==
  ASSUME NEW held, KeyTable(held), NEW new, KeyTable(new), NEW place \in Entries,
         \A i \in Entries \ {place} : new[i] = held[i],
         NEW ref, NEW mis, Counted(held, ref, mis),
         NEW ref2 \in [Pitches -> Nat], NEW mis2 \in SUBSET Pitches, mis \subseteq mis2,
         \A n \in Pitches \ mis2 :
           LET was == place \in Holding(held, n)
               is  == place \in Holding(new, n)
           IN (was => ref[n] > 0) =>
                /\ (was <=> is)  => ref2[n] = ref[n]
                /\ was /\ ~is   => ref2[n] = ref[n] - 1
                /\ ~was /\ is   => ref2[n] = ref[n] + 1
  PROVE  Counted(new, ref2, mis2)
<1>1. ASSUME NEW n \in Pitches \ mis2
      PROVE  ref2[n] = Cardinality(Holding(new, n))
  <2> DEFINE A == Holding(held, n)
             B == Holding(new, n)
  <2>1. A \in SUBSET Entries /\ B \in SUBSET Entries /\ B \ {place} = A \ {place}
    BY ChangedHolding
  <2>2. ref[n] = Cardinality(A) /\ ref[n] \in Nat
    BY <1>1 DEF Counted
  <2>3. /\ (place \in A => ref[n] > 0) =>
              /\ (place \in A <=> place \in B)      => ref2[n] = ref[n]
              /\ place \in A /\ ~(place \in B) => ref2[n] = ref[n] - 1
              /\ ~(place \in A) /\ place \in B => ref2[n] = ref[n] + 1
    BY <1>1
  <2>4. place \in A => Cardinality(A) > 0
    BY <2>1, EntrySets
  <2> HIDE DEF A, B
  <2>5. /\ (place \in A <=> place \in B) => Cardinality(B) = Cardinality(A)
        /\ place \in A /\ place \notin B => Cardinality(B) = Cardinality(A) - 1
        /\ place \notin A /\ place \in B => Cardinality(B) = Cardinality(A) + 1
    BY <2>1, CountMoves
  <2>6. ref2[n] = Cardinality(B)
    BY <2>2, <2>3, <2>4, <2>5
  <2> QED
    BY <2>6 DEF B
<1> QED
  BY <1>1 DEF Counted

(* The tones that wait for other entries. *)
Besides(pend, place) == {p \in pend : p.slot # place}

(* They are not touched. *)
LEMMA OthersWait ==
  ASSUME NEW held, KeyTable(held), NEW new, NEW place \in Entries,
         \A i \in Entries \ {place} : new[i] = held[i],
         NEW pend, Waiting(held, pend)
  PROVE  Waiting(new, Besides(pend, place))
<1> DEFINE left == {p \in pend : p.slot # place}
<1>1. IsFiniteSet(left) /\ Cardinality(left) <= NumPending
  <2>1. IsFiniteSet(left) /\ Cardinality(left) <= Cardinality(pend)
    BY FS_Subset DEF Waiting
  <2>2. Cardinality(left) \in Nat /\ Cardinality(pend) \in Nat
    BY <2>1, FS_CardinalityType DEF Waiting
  <2> HIDE DEF left
  <2> QED
    BY <2>1, <2>2, TableAssumption DEF Waiting
<1>2. ASSUME NEW p \in left PROVE Current(new, p)
  <2>1. Current(held, p) /\ p.slot \in Entries \ {place}
    BY <1>2 DEF Waiting, Current, InUse
  <2>2. new[p.slot] = held[p.slot]
    BY <2>1
  <2> QED
    BY <2>1, <2>2 DEF Current, InUse
<1> QED
  BY <1>1, <1>2 DEF Waiting, Besides

(* An entry that is released takes its counts and its waiting tones with it. *)
LEMMA Released ==
  ASSUME NEW held, KeyTable(held), NEW ref, NEW mis, Counted(held, ref, mis),
         NEW pend, Waiting(held, pend), NEW place \in InUse(held),
         NEW new, Replaces(new, held, place, Empty)
  PROVE  /\ KeyTable(new)
         /\ Counted(new, Dropped(ref, Has(held, place)), mis)
         /\ Waiting(new, Besides(pend, place))
         /\ InUse(new) = InUse(held) \ {place}
         /\ new[place] = Empty /\ \A i \in Entries \ {place} : new[i] = held[i]
<1> DEFINE ref2 == Dropped(ref, Has(held, place))
<1>1. place \in Entries
  BY DEF InUse
<1>2. /\ KeyTable(new) /\ InUse(new) = InUse(held) \ {place}
      /\ new[place] = Empty /\ \A i \in Entries \ {place} : new[i] = held[i]
  BY <1>1, ChangedTable
<1>3. ref2 \in [Pitches -> Nat]
  BY DEF Dropped, Counted
<1>4. ASSUME NEW n \in Pitches \ mis
      PROVE  /\ ~(place \in Holding(new, n))
             /\ (place \in Holding(held, n) <=> n \in Has(held, place))
             /\ ref[n] \in Nat
             /\ ref2[n] = IF n \in Has(held, place) /\ ref[n] > 0 THEN ref[n] - 1 ELSE ref[n]
  <2>1. ~(place \in Holding(new, n)) /\ (place \in Holding(held, n) <=> n \in Has(held, place))
    BY <1>2 DEF Holding
  <2> QED
    BY <2>1 DEF Dropped, Counted
<1> HIDE DEF ref2
<1>5. Counted(new, ref2, mis)
  <2>1. mis \in SUBSET Pitches
    BY DEF Counted
  <2>2. \A n \in Pitches \ mis :
           LET was == place \in Holding(held, n)
               is  == place \in Holding(new, n)
           IN (was => ref[n] > 0) =>
                /\ (was <=> is)  => ref2[n] = ref[n]
                /\ was /\ ~is   => ref2[n] = ref[n] - 1
                /\ ~was /\ is   => ref2[n] = ref[n] + 1
    BY <1>4
  <2> QED
    BY <1>1, <1>2, <1>3, <2>1, <2>2, Recounted
<1>6. Waiting(new, Besides(pend, place))
  BY <1>1, <1>2, OthersWait
<1> QED
  BY <1>2, <1>5, <1>6 DEF ref2

(* A key that enters the table is counted for the tones it sounds. *)
LEMMA Entered ==
  ASSUME NEW held, KeyTable(held), NEW ref, NEW mis, Counted(held, ref, mis),
         NEW place \in Entries, place \notin InUse(held), NEW e \in Entry,
         e.emitted \subseteq DOMAIN e.tones, Distinct(e.tones),
         \A i \in InUse(held) : ~(held[i].key = e.key /\ held[i].pre = e.pre),
         NEW new, Replaces(new, held, place, e)
  PROVE  /\ KeyTable(new)
         /\ Counted(new, Added(ref, At(e.tones, e.emitted)), mis)
         /\ InUse(new) = InUse(held) \cup {place}
         /\ new[place] = e /\ \A i \in Entries \ {place} : new[i] = held[i]
<1> DEFINE ref2 == Added(ref, At(e.tones, e.emitted))
<1>1. e # Empty
  BY DEF Entry, Empty
<1>2. /\ KeyTable(new) /\ InUse(new) = InUse(held) \cup {place}
      /\ new[place] = e /\ \A i \in Entries \ {place} : new[i] = held[i]
  BY <1>1, ChangedTable
<1>3. ref2 \in [Pitches -> Nat]
  BY DEF Added, Counted
<1>4. ASSUME NEW n \in Pitches \ mis
      PROVE  /\ ~(place \in Holding(held, n))
             /\ (place \in Holding(new, n) <=> n \in At(e.tones, e.emitted))
             /\ ref[n] \in Nat
             /\ ref2[n] = IF n \in At(e.tones, e.emitted) THEN ref[n] + 1 ELSE ref[n]
  <2>1. ~(place \in Holding(held, n)) /\ (place \in Holding(new, n) <=> n \in Has(new, place))
    BY <1>2 DEF Holding
  <2> QED
    BY <2>1, <1>2 DEF Added, Counted, Has
<1> HIDE DEF ref2
<1>5. Counted(new, ref2, mis)
  <2>1. mis \in SUBSET Pitches
    BY DEF Counted
  <2>2. \A n \in Pitches \ mis :
           LET was == place \in Holding(held, n)
               is  == place \in Holding(new, n)
           IN (was => ref[n] > 0) =>
                /\ (was <=> is)  => ref2[n] = ref[n]
                /\ was /\ ~is   => ref2[n] = ref[n] - 1
                /\ ~was /\ is   => ref2[n] = ref[n] + 1
    BY <1>4
  <2> QED
    BY <1>2, <1>3, <2>1, <2>2, Recounted
<1> QED
  BY <1>2, <1>5 DEF ref2

(* The tones of an entry as they wait for the strum clock. *)
Waits(e, place, later) ==
  {[slot |-> place, key |-> e.key, bit |-> i, note |-> e.tones[i], pre |-> e.pre] : i \in later}

(* The tones it leaves to the strum clock are its own, and there is room. *)
LEMMA LeftToStrum ==
  ASSUME NEW held, KeyTable(held), NEW new, NEW place \in Entries, place \notin InUse(held),
         \A i \in Entries \ {place} : new[i] = held[i],
         new[place] \in Entry,
         NEW pend, Waiting(held, pend),
         NEW later, later = DOMAIN new[place].tones \ new[place].emitted,
         IsFiniteSet(later), Cardinality(later) <= NumPending - Cardinality(pend)
  PROVE  Waiting(new, pend \cup Waits(new[place], place, later))
<1> DEFINE e == new[place]
           P(i) == [slot |-> place, key |-> e.key, bit |-> i, note |-> e.tones[i], pre |-> e.pre]
           more == {P(i) : i \in later}
<1>1. \A p \in pend : p.slot \in InUse(held) /\ p.slot # place
  BY DEF Waiting, Current
<1>2. Besides(pend, place) = pend
  BY <1>1 DEF Besides
<1>3. Waiting(new, pend)
  BY <1>2, OthersWait
<1>4. /\ e.used = TRUE /\ e.key \in Keys /\ e.pre \in BOOLEAN /\ e.tones \in Seq(Pitches)
  BY DEF Entry
<1>5. ASSUME NEW i \in later PROVE P(i) \in Wait /\ Current(new, P(i))
  <2>1. i \in DOMAIN e.tones /\ i \notin e.emitted /\ i \in Nat /\ e.tones[i] \in Pitches
    BY <1>4
  <2>2. place \in InUse(new)
    BY <1>4 DEF InUse
  <2>3. P(i) \in Wait
    BY <1>4, <2>1 DEF Wait
  <2> QED
    BY <2>1, <2>2, <2>3 DEF Current
<1>6. IsFiniteSet(more) /\ Cardinality(more) <= Cardinality(later)
  <2> DEFINE f == [i \in later |-> P(i)]
  <2>1. f \in Surjection(later, more)
    BY DEF Surjection
  <2> QED
    BY <2>1, FS_Surjection
<1>7. IsFiniteSet(pend) /\ Cardinality(pend) <= NumPending
  BY DEF Waiting
<1>8. IsFiniteSet(pend \cup more) /\ Cardinality(pend \cup more) <= NumPending
  <2> HIDE DEF more
  <2>1. /\ IsFiniteSet(pend \cup more) /\ IsFiniteSet(pend \cap more)
        /\ Cardinality(pend \cup more)
             = Cardinality(pend) + Cardinality(more) - Cardinality(pend \cap more)
    BY <1>6, <1>7, FS_Union, FS_Intersection
  <2>2. /\ Cardinality(pend \cup more) \in Nat /\ Cardinality(pend) \in Nat
        /\ Cardinality(more) \in Nat /\ Cardinality(pend \cap more) \in Nat
        /\ Cardinality(later) \in Nat
    BY <1>6, <1>7, <2>1, FS_CardinalityType
  <2> QED
    BY <1>6, <2>1, <2>2, TableAssumption
<1>9. \A p \in pend \cup more : p \in Wait /\ Current(new, p)
  <2>1. \A p \in pend : p \in Wait /\ Current(new, p)
    BY <1>3 DEF Waiting
  <2> HIDE DEF P
  <2> QED
    BY <1>5, <2>1
<1>10. Waiting(new, pend \cup more)
  BY <1>8, <1>9 DEF Waiting
<1> QED
  BY <1>10 DEF Waits

(* What a re-voice gives back and takes, for the notes an entry had and all that *)
(* it has then.                                                                 *)
Revoices(ref2, ref, had, all) ==
  \/ ref2 = Added(Dropped(ref, had), all)
  \/ ref2 = Added(Dropped(ref, had \ all), all \ had)

(* The entry as it then is, and the notes a stale copy of it has wrong. *)
Retoned(h, tones) == [h EXCEPT !.tones = tones, !.emitted = DOMAIN tones]
Miscounts(mis, had, has) == mis \cup (had \ has) \cup (has \ had)

(* An entry that is re-voiced counts what it sounds now, but for the notes its *)
(* stale copy has wrong.                                                       *)
LEMMA Revoiced ==
  ASSUME NEW held, KeyTable(held), NEW ref, NEW mis, Counted(held, ref, mis),
         NEW place \in InUse(held), NEW tones \in ChordTone,
         NEW new, Replaces(new, held, place, Retoned(held[place], tones)),
         NEW had \in SUBSET Pitches, NEW ref2, Revoices(ref2, ref, had, At(tones, DOMAIN tones))
  PROVE  /\ KeyTable(new) /\ Counted(new, ref2, Miscounts(mis, had, Has(held, place)))
         /\ \A i \in Entries \ {place} : new[i] = held[i]
<1> DEFINE e    == Retoned(held[place], tones)
           mis2 == Miscounts(mis, had, Has(held, place))
           has == Has(held, place)
           all == At(tones, DOMAIN tones)
<1>0. PICK gone \in SUBSET Pitches, came \in SUBSET Pitches :
        /\ (gone = had /\ came = all) \/ (gone = had \ all /\ came = all \ had)
        /\ ref2 = Added(Dropped(ref, gone), came)
  <2>1. all \in SUBSET Pitches
    BY DEF ChordTone, At
  <2> HIDE DEF all
  <2> QED
    BY <2>1 DEF Revoices, all
<1>1. place \in Entries
  BY DEF InUse
<1>2. /\ held[place] \in Entry /\ has \subseteq Pitches
      /\ tones \in Seq(Pitches) /\ Distinct(tones)
  BY <1>1, EntryFacts DEF ChordTone
<1>3. /\ e \in Entry /\ e # Empty
      /\ e.key = held[place].key /\ e.pre = held[place].pre
      /\ e.tones = tones /\ e.emitted = DOMAIN tones
      /\ Replaces(new, held, place, e)
  <2>1. DOMAIN tones \in SUBSET Nat
    BY <1>2
  <2> QED
    BY <1>2, <2>1 DEF Retoned, Entry, Empty
<1>4. \A i \in InUse(held) \ {place} : ~(held[i].key = e.key /\ held[i].pre = e.pre)
  BY <1>3 DEF KeyTable
<1> HIDE DEF e
<1>5. /\ KeyTable(new) /\ new[place] = e /\ \A i \in Entries \ {place} : new[i] = held[i]
      /\ place \in InUse(new)
  <2>1. e.emitted \subseteq DOMAIN e.tones /\ Distinct(e.tones)
    BY <1>2, <1>3
  <2> QED
    BY <1>1, <1>3, <1>4, <2>1, ChangedTable
<1>6. mis2 \in SUBSET Pitches /\ mis \subseteq mis2
  BY <1>2 DEF Counted, Miscounts
<1>7. ref2 \in [Pitches -> Nat]
  BY <1>0 DEF Added, Dropped, Counted
<1>8. ASSUME NEW n \in Pitches \ mis2
       PROVE  /\ place \in Holding(held, n) <=> n \in had
              /\ place \in Holding(new, n) <=> n \in all
              /\ ref[n] \in Nat
              /\ ref2[n] = (IF n \in gone /\ ref[n] > 0 THEN ref[n] - 1 ELSE ref[n])
                           + (IF n \in came THEN 1 ELSE 0)
  <2>1. place \in Holding(held, n) <=> n \in had
    BY DEF Holding, Miscounts
  <2>2. place \in Holding(new, n) <=> n \in all
    BY <1>3, <1>5 DEF Holding, Has
  <2>3. ref[n] \in Nat
    BY DEF Miscounts, Counted
  <2> QED
    BY <1>0, <2>1, <2>2, <2>3 DEF Added, Dropped
<1> HIDE DEF has, all, mis2
<1>9. \A n \in Pitches \ mis2 :
           LET was == place \in Holding(held, n)
               is  == place \in Holding(new, n)
           IN (was => ref[n] > 0) =>
                /\ (was <=> is)  => ref2[n] = ref[n]
                /\ was /\ ~is   => ref2[n] = ref[n] - 1
                /\ ~was /\ is   => ref2[n] = ref[n] + 1
  BY <1>0, <1>8
<1>10. Counted(new, ref2, mis2)
  BY <1>1, <1>5, <1>6, <1>7, <1>9, Recounted
<1> QED
  BY <1>5, <1>10 DEF mis2

-----------------------------------------------------------------------------
(* The table once some waiting tones have sounded. *)
Sounded(held, due) ==
  [i \in Entries |-> IF \E p \in due : p.slot = i
                     THEN [held[i] EXCEPT
                             !.emitted = @ \cup {p.bit : p \in {q \in due : q.slot = i}}]
                     ELSE held[i]]

(* Two waiting tones of an entry that are one note are one. *)
LEMMA OneWaits ==
  ASSUME NEW held, KeyTable(held), NEW pend, Waiting(held, pend),
         NEW p \in pend, NEW q \in pend, p.slot = q.slot,
         p.bit = q.bit \/ p.note = q.note
  PROVE  p = q
<1>1. Current(held, p) /\ Current(held, q) /\ p \in Wait /\ q \in Wait
  BY DEF Waiting
<1>2. p.key = q.key /\ p.pre = q.pre
  BY <1>1 DEF Current
<1>3. Distinct(held[p.slot].tones)
  BY <1>1 DEF Current, KeyTable
<1>4. p.bit = q.bit /\ p.note = q.note
  BY <1>1, <1>3 DEF Current, Distinct
<1> QED
  BY <1>1, <1>2, <1>4 DEF Wait

(* What such a tone changes in its entry. *)
LEMMA SoundedEntry ==
  ASSUME NEW held, KeyTable(held), NEW pend, Waiting(held, pend), NEW due \in SUBSET pend,
         NEW i \in Entries
  PROVE  LET new  == Sounded(held, due)
             bits == {p.bit : p \in {q \in due : q.slot = i}}
         IN /\ i \in InUse(new) <=> i \in InUse(held)
            /\ i \notin InUse(held) => new[i] = held[i]
            /\ i \in InUse(held) =>
                 /\ new[i] \in Entry /\ new[i].key = held[i].key /\ new[i].pre = held[i].pre
                 /\ new[i].tones = held[i].tones
                 /\ new[i].emitted = held[i].emitted \cup bits
                 /\ bits \subseteq DOMAIN held[i].tones
<1> DEFINE new  == Sounded(held, due)
           bits == {p.bit : p \in {q \in due : q.slot = i}}
<1>1. new[i] = IF \E p \in due : p.slot = i
               THEN [held[i] EXCEPT !.emitted = @ \cup bits] ELSE held[i]
  BY DEF Sounded
<1>2. \A p \in due : Current(held, p)
  BY DEF Waiting
<1>3. bits \subseteq DOMAIN held[i].tones
  BY <1>2 DEF Current
<1>4. ~(\E p \in due : p.slot = i) => bits = {}
  OBVIOUS
<1>5. (\E p \in due : p.slot = i) => i \in InUse(held)
  BY <1>2 DEF Current
<1> HIDE DEF new, bits
<1>6. CASE i \in InUse(held)
  <2>1. /\ held[i] \in Entry /\ held[i].tones \in Seq(Pitches)
        /\ held[i].emitted \subseteq DOMAIN held[i].tones
    BY <1>6, EntryFacts
  <2>2. DOMAIN held[i].tones \subseteq Nat
    BY <2>1
  <2>3. held[i].emitted \cup bits \in SUBSET Nat
    BY <1>3, <2>1, <2>2
  <2>4. /\ new[i] \in Entry /\ new[i].key = held[i].key /\ new[i].pre = held[i].pre
        /\ new[i].tones = held[i].tones
        /\ new[i].emitted = held[i].emitted \cup bits
    <3>1. CASE \E p \in due : p.slot = i
      <4>1. new[i] = [held[i] EXCEPT !.emitted = @ \cup bits]
        BY <1>1, <3>1
      <4> QED
        BY <2>1, <2>3, <4>1 DEF Entry
    <3>2. CASE ~\E p \in due : p.slot = i
      BY <1>1, <1>4, <2>1, <3>2
    <3> QED
      BY <3>1, <3>2
  <2>5. i \in InUse(new)
    BY <2>4 DEF InUse, Entry
  <2> QED
    BY <1>3, <1>6, <2>4, <2>5 DEF new, bits
<1>7. CASE i \notin InUse(held)
  <2>1. new[i] = held[i]
    BY <1>1, <1>5, <1>7
  <2>2. i \notin InUse(new)
    BY <1>7, <2>1 DEF InUse
  <2> QED
    BY <1>7, <2>1, <2>2 DEF new, bits
<1> QED
  BY <1>6, <1>7

(* The table stays a table. *)
LEMMA SoundedTable ==
  ASSUME NEW held, KeyTable(held), NEW pend, Waiting(held, pend), NEW due \in SUBSET pend
  PROVE  KeyTable(Sounded(held, due)) /\ InUse(Sounded(held, due)) = InUse(held)
<1> DEFINE new == Sounded(held, due)
<1>1. \A i \in Entries :
         /\ i \in InUse(new) <=> i \in InUse(held)
         /\ i \notin InUse(held) => new[i] = held[i]
         /\ i \in InUse(held) =>
              /\ new[i] \in Entry /\ new[i].key = held[i].key /\ new[i].pre = held[i].pre
              /\ new[i].tones = held[i].tones
  BY SoundedEntry
<1>2. InUse(new) = InUse(held)
  BY <1>1 DEF InUse
<1>3. new \in [Entries -> {Empty} \cup Entry]
  <2>1. \A i \in Entries : new[i] \in {Empty} \cup Entry
    BY <1>1, EntryFacts
  <2>2. new = [i \in Entries |-> new[i]]
    BY DEF Sounded
  <2> HIDE DEF new
  <2> QED
    BY <2>1, <2>2
<1>4. ASSUME NEW i \in InUse(new)
      PROVE  new[i].emitted \subseteq DOMAIN new[i].tones /\ Distinct(new[i].tones)
  <2> DEFINE bits == {p.bit : p \in {q \in due : q.slot = i}}
  <2>1. i \in InUse(held) /\ i \in Entries
    BY <1>2 DEF InUse
  <2>2. /\ held[i].emitted \subseteq DOMAIN held[i].tones /\ Distinct(held[i].tones)
    BY <2>1 DEF KeyTable
  <2>3. /\ new[i].emitted = held[i].emitted \cup bits
        /\ bits \subseteq DOMAIN held[i].tones
        /\ new[i].tones = held[i].tones
    BY <2>1, SoundedEntry
  <2> HIDE DEF new, bits
  <2> QED
    BY <2>2, <2>3
<1>5. ASSUME NEW i \in InUse(new), NEW j \in InUse(new),
             new[i].key = new[j].key, new[i].pre = new[j].pre
      PROVE  i = j
  <2> HIDE DEF new
  <2> QED
    BY <1>1, <1>2, <1>5 DEF KeyTable, InUse
<1> HIDE DEF new
<1> QED
  BY <1>2, <1>3, <1>4, <1>5 DEF KeyTable, new

(* The entries that hold a note are those that held it and, one for each tone *)
(* that sounds it, some that did not.                                         *)
LEMMA SoundedHolding ==
  ASSUME NEW held, KeyTable(held), NEW pend, Waiting(held, pend), NEW due \in SUBSET pend,
         NEW n
  PROVE  Cardinality(Holding(Sounded(held, due), n))
           = Cardinality(Holding(held, n)) + Cardinality({p \in due : p.note = n})
<1> DEFINE new == Sounded(held, due)
           S   == {p \in due : p.note = n}
           N   == {p.slot : p \in S}
<1>1. ASSUME NEW i \in Entries
      PROVE  i \in Holding(new, n) <=> i \in Holding(held, n) \/ i \in N
  <2> DEFINE bits == {p.bit : p \in {q \in due : q.slot = i}}
  <2>1. CASE i \in InUse(held)
    <3>1. /\ i \in InUse(new) /\ new[i].emitted = held[i].emitted \cup bits
          /\ new[i].tones = held[i].tones
      BY <2>1, SoundedEntry
    <3>2. Has(new, i) = Has(held, i) \cup At(held[i].tones, bits)
      BY <3>1 DEF Has, At
    <3>3. \A p \in due : Current(held, p)
      BY DEF Waiting
    <3>4. n \in At(held[i].tones, bits) <=> i \in N
      BY <3>3 DEF At, Current
    <3> HIDE DEF new, N, bits
    <3> QED
      BY <2>1, <3>1, <3>2, <3>4 DEF Holding
  <2>2. CASE i \notin InUse(held)
    <3>1. i \notin InUse(new)
      BY <2>2, SoundedEntry
    <3>2. \A p \in due : p.slot \in InUse(held)
      BY DEF Waiting, Current
    <3>3. i \notin N
      BY <2>2, <3>2
    <3> QED
      BY <2>2, <3>1, <3>3 DEF Holding
  <2> QED
    BY <2>1, <2>2
<1>2. N \subseteq Entries
  BY DEF Waiting, Current, InUse
<1>3. Holding(new, n) \in SUBSET Entries /\ Holding(held, n) \in SUBSET Entries
  BY DEF Holding, InUse
<1>4. Holding(new, n) = Holding(held, n) \cup N
  <2> HIDE DEF new, N
  <2> QED
    BY <1>1, <1>2, <1>3
<1>5. Holding(held, n) \cap N = {}
  <2> SUFFICES ASSUME NEW p \in S, p.slot \in Holding(held, n) PROVE FALSE
    OBVIOUS
  <2>1. Current(held, p) /\ p.note = n
    BY DEF Waiting
  <2>2. PICK b \in held[p.slot].emitted : held[p.slot].tones[b] = n
    BY DEF Holding, Has, At
  <2>3. /\ held[p.slot].emitted \subseteq DOMAIN held[p.slot].tones
        /\ Distinct(held[p.slot].tones)
    BY <2>1 DEF Current, KeyTable
  <2> QED
    BY <2>1, <2>2, <2>3 DEF Current, Distinct
<1>6. IsFiniteSet(S) /\ Cardinality(N) = Cardinality(S)
  <2>1. IsFiniteSet(S)
    BY FS_Subset DEF Waiting
  <2> DEFINE f == [p \in S |-> p.slot]
  <2>2. \A p, q \in S : p.slot = q.slot => p = q
    BY OneWaits
  <2>3. f \in Surjection(S, N)
    BY DEF Surjection
  <2>4. f \in Injection(S, N)
    BY <2>2 DEF Injection, IsInjective
  <2> HIDE DEF f, N, S
  <2> QED
    BY <2>1, <2>3, <2>4, FS_Surjection
<1>7. IsFiniteSet(N) /\ IsFiniteSet(Holding(held, n))
  BY <1>2, <1>3, EntrySets
<1> DEFINE H == Holding(held, n)
<1>8. Cardinality(H \cup N) = Cardinality(H) + Cardinality(N) - Cardinality(H \cap N)
  BY <1>7, FS_Union
<1>9. Cardinality(H) \in Nat /\ Cardinality(N) \in Nat /\ Cardinality(H \cap N) = 0
  BY <1>5, <1>7, FS_CardinalityType, FS_EmptySet
<1> HIDE DEF H, N, S, new
<1>10. Cardinality(H \cup N) = Cardinality(H) + Cardinality(S)
  BY <1>6, <1>8, <1>9
<1> QED
  BY <1>4, <1>10 DEF H, S, new

(* The strum clock keeps the counts, and leaves what still waits as it was. *)
LEMMA StrumKeeps ==
  ASSUME NEW held, KeyTable(held), NEW ref, NEW mis, Counted(held, ref, mis),
         NEW pend, Waiting(held, pend), NEW due \in SUBSET pend, NEW ref2,
         ref2 = [n \in Pitches |-> ref[n] + Cardinality({p \in due : p.note = n})]
  PROVE  LET new == Sounded(held, due)
         IN KeyTable(new) /\ Counted(new, ref2, mis) /\ Waiting(new, pend \ due)
<1> DEFINE new == Sounded(held, due)
<1>1. KeyTable(new) /\ InUse(new) = InUse(held)
  BY SoundedTable
<1>2. ASSUME NEW n \in Pitches
      PROVE  Cardinality({p \in due : p.note = n}) \in Nat
  BY FS_Subset, FS_CardinalityType DEF Waiting
<1>3. ref2 \in [Pitches -> Nat]
  BY <1>2 DEF Counted
<1>4. ASSUME NEW n \in Pitches \ mis
      PROVE  ref2[n] = Cardinality(Holding(new, n))
  <2>1. ref[n] = Cardinality(Holding(held, n))
    BY DEF Counted
  <2>2. ref2[n] = ref[n] + Cardinality({p \in due : p.note = n})
    OBVIOUS
  <2>3. Cardinality(Holding(new, n))
          = Cardinality(Holding(held, n)) + Cardinality({p \in due : p.note = n})
    BY SoundedHolding
  <2> HIDE DEF new
  <2> QED
    BY <2>1, <2>2, <2>3
<1>5. Counted(new, ref2, mis)
  BY <1>3, <1>4 DEF Counted
<1>6. /\ IsFiniteSet(pend \ due) /\ Cardinality(pend \ due) <= NumPending
  <2> DEFINE left == pend \ due
  <2>1. IsFiniteSet(left) /\ Cardinality(left) <= Cardinality(pend)
    BY FS_Subset DEF Waiting
  <2>2. Cardinality(left) \in Nat /\ Cardinality(pend) \in Nat
    BY <2>1, FS_CardinalityType DEF Waiting
  <2> HIDE DEF left
  <2>3. IsFiniteSet(left) /\ Cardinality(left) <= NumPending
    BY <2>1, <2>2, TableAssumption DEF Waiting
  <2> QED
    BY <2>3 DEF left
<1>7. ASSUME NEW p \in pend \ due PROVE Current(new, p)
  <2> DEFINE bits == {q.bit : q \in {r \in due : r.slot = p.slot}}
  <2>1. Current(held, p)
    BY DEF Waiting
  <2>2. p.slot \in InUse(held) /\ p.slot \in Entries
    BY <2>1 DEF Current, InUse
  <2>3. /\ new[p.slot].key = held[p.slot].key /\ new[p.slot].pre = held[p.slot].pre
        /\ new[p.slot].tones = held[p.slot].tones
        /\ new[p.slot].emitted = held[p.slot].emitted \cup bits
    BY <2>2, SoundedEntry
  <2>4. p.bit \notin bits
    <3> SUFFICES ASSUME NEW q \in due, q.slot = p.slot, q.bit = p.bit PROVE FALSE
      OBVIOUS
    <3>1. p = q
      BY OneWaits
    <3> QED
      BY <3>1
  <2> HIDE DEF new, bits
  <2> QED
    BY <1>1, <2>1, <2>2, <2>3, <2>4 DEF Current
<1>8. Waiting(new, pend \ due)
  BY <1>6, <1>7 DEF Waiting
<1> QED
  BY <1>1, <1>5, <1>8

-----------------------------------------------------------------------------
(* The steps. Each keeps the table, the counts and the waiting tones, *)
Table == KeyTable(s_held) /\ Counted(s_held, s_ref, miscounted) /\ Waiting(s_held, s_pend)

(* if it leaves them alone, *)
LEMMA SameTable ==
  Table /\ UNCHANGED <<s_held, s_ref, s_pend, miscounted>> => Table'
BY DEF Table

(* if it releases an entry, *)
LEMMA ReleaseKeeps ==
  ASSUME Table, NEW t, NEW place \in UsedEntries, ReleaseEntry(t, place), UNCHANGED miscounted
  PROVE  Table'
<1>1. place \in InUse(s_held)
  BY DEF UsedEntries, InUse
<1>2. /\ Replaces(s_held', s_held, place, Empty)
      /\ s_ref' = Dropped(s_ref, Has(s_held, place))
      /\ s_pend' = Besides(s_pend, place)
  BY DEF ReleaseEntry, Replaces, Has, Without, Besides
<1>3. KeyTable(s_held) /\ Counted(s_held, s_ref, miscounted) /\ Waiting(s_held, s_pend)
  BY DEF Table
<1>4. /\ KeyTable(s_held') /\ Counted(s_held', s_ref', miscounted)
      /\ Waiting(s_held', s_pend')
  BY <1>1, <1>2, <1>3, Released
<1> QED
  BY <1>4 DEF Table

(* if it lets some waiting tones sound, *)
LEMMA StrumTable ==
  ASSUME Table, Strum
  PROVE  Table'
<1>1. PICK due \in SUBSET s_pend :
        LET on == {p \in due : s_held[p.slot].used /\ s_held[p.slot].key = p.key}
        IN /\ s_pend' = s_pend \ due
           /\ s_held' = [i \in Entries |->
               IF \E p \in on : p.slot = i
               THEN [s_held[i] EXCEPT !.emitted = @ \cup {p.bit : p \in {q \in on : q.slot = i}}]
               ELSE s_held[i]]
           /\ s_ref' = [n \in Pitches |-> s_ref[n] + Cardinality({p \in on : p.note = n})]
  BY DEF Strum
<1>2. {p \in due : s_held[p.slot].used /\ s_held[p.slot].key = p.key} = due
  BY DEF Table, Waiting, Current, InUse
<1>3. /\ s_pend' = s_pend \ due /\ s_held' = Sounded(s_held, due)
      /\ s_ref' = [n \in Pitches |-> s_ref[n] + Cardinality({p \in due : p.note = n})]
  BY <1>1, <1>2 DEF Sounded
<1>4. KeyTable(s_held) /\ Counted(s_held, s_ref, miscounted) /\ Waiting(s_held, s_pend)
  BY DEF Table
<1>5. /\ KeyTable(s_held') /\ Counted(s_held', s_ref', miscounted)
      /\ Waiting(s_held', s_pend')
  BY <1>3, <1>4, StrumKeeps
<1>6. UNCHANGED miscounted
  BY DEF Strum
<1> QED
  BY <1>5, <1>6 DEF Table

(* and if it clears them. *)
LEMMA ClearKeeps ==
  ASSUME Table, NEW t, AllOffPending(t) \/ AllOffZero(t)
  PROVE  Table'
<1>1. Waiting(s_held, {})
  BY FS_EmptySet, TableAssumption DEF Waiting
<1>2. CASE AllOffPending(t)
  BY <1>1, <1>2 DEF AllOffPending, Table
<1>3. CASE AllOffZero(t)
  <2>1. /\ s_ref' = [n \in Pitches |-> 0] /\ miscounted' = {n \in Pitches : Holders(n) # {}}
        /\ UNCHANGED <<s_held, s_pend>>
    BY <1>3 DEF AllOffZero
  <2>2. \A n \in Pitches \ miscounted' : Holding(s_held, n) = {}
    BY <2>1 DEF Holders, Holding, UsedEntries, InUse, Has
  <2>3. Counted(s_held, s_ref', miscounted')
    BY <2>1, <2>2, FS_EmptySet DEF Counted
  <2> QED
    BY <2>1, <2>3 DEF Table
<1> QED
  BY <1>2, <1>3

(* A key leaves no more tones to the strum clock than that has room for. *)
LEMMA RoomForStrum ==
  ASSUME NEW tones \in Seq(Pitches), NEW now \in SUBSET DOMAIN tones, NEW room \in Nat,
         NEW strum,
         IF strum /\ DOMAIN tones # {}
           THEN LET more == Cardinality(DOMAIN tones) - 1
                IN Cardinality(now) = 1 + (IF more > room THEN more - room ELSE 0)
           ELSE now = DOMAIN tones
  PROVE  IsFiniteSet(DOMAIN tones \ now) /\ Cardinality(DOMAIN tones \ now) <= room
<1> DEFINE all == DOMAIN tones
<1>1. IsFiniteSet(all)
  <2>1. all = 1 .. Len(tones) /\ Len(tones) \in Nat
    OBVIOUS
  <2> HIDE DEF all
  <2> QED
    BY <2>1, FS_Interval
<1>2. CASE strum /\ all # {}
  <2>1. /\ IsFiniteSet(now) /\ Cardinality(now) \in Nat /\ Cardinality(all) \in Nat
        /\ IsFiniteSet(all \ now)
        /\ Cardinality(all \ now) = Cardinality(all) - Cardinality(all \cap now)
    BY <1>1, FS_Subset, FS_CardinalityType, FS_Difference
  <2>2. all \cap now = now
    OBVIOUS
  <2> DEFINE c == Cardinality(all)
             m == Cardinality(now)
  <2>3. m = 1 + (IF c - 1 > room THEN (c - 1) - room ELSE 0)
    BY <1>2
  <2>4. Cardinality(all \ now) = c - m /\ c \in Nat /\ m \in Nat
    BY <2>1, <2>2
  <2> HIDE DEF all, c, m
  <2>5. Cardinality(all \ now) <= room
    BY <2>3, <2>4
  <2> QED
    BY <2>1, <2>5 DEF all
<1>3. CASE ~(strum /\ all # {})
  <2>1. all \ now = {}
    BY <1>3
  <2>2. IsFiniteSet(all \ now) /\ Cardinality(all \ now) = 0
    BY <2>1, FS_EmptySet, Zenon
  <2> HIDE DEF all
  <2>3. Cardinality(all \ now) <= room
    BY <2>2
  <2> QED
    BY <2>2, <2>3 DEF all
<1> QED
  BY <1>2, <1>3

(* The entry a key makes. *)
EntryOf(a, now) ==
  [used |-> TRUE, key |-> a.key, pre |-> a.pre, tones |-> a.tones, emitted |-> now]

(* A key that enters a free entry of a table without it. *)
LEMMA EnterKeeps ==
  ASSUME NEW held, KeyTable(held), NEW ref, Counted(held, ref, miscounted),
         NEW pend, Waiting(held, pend),
         NEW a, a.key \in Keys, a.pre \in BOOLEAN, a.tones \in ChordTone,
         \A i \in InUse(held) : ~(held[i].key = a.key /\ held[i].pre = a.pre),
         NEW place \in Entries \ InUse(held), NEW now \in SUBSET DOMAIN a.tones,
         IF a.strum /\ DOMAIN a.tones # {}
           THEN LET more == Cardinality(DOMAIN a.tones) - 1
                IN Cardinality(now) = 1 + (IF more > Room(pend) THEN more - Room(pend) ELSE 0)
           ELSE now = DOMAIN a.tones,
         Replaces(s_held', held, place, EntryOf(a, now)),
         s_ref' = Added(ref, At(a.tones, now)),
         s_pend' = pend \cup Waits(EntryOf(a, now), place, DOMAIN a.tones \ now),
         UNCHANGED miscounted
  PROVE  Table'
<1> DEFINE e == EntryOf(a, now)
<1>1. a.tones \in Seq(Pitches) /\ Distinct(a.tones)
  BY DEF ChordTone
<1>2. now \in SUBSET Nat
  BY <1>1
<1>3. /\ e \in Entry /\ e.key = a.key /\ e.pre = a.pre /\ e.tones = a.tones
      /\ e.emitted = now
  BY <1>1, <1>2 DEF Entry, EntryOf
<1>4. Replaces(s_held', held, place, e)
  OBVIOUS
<1>5. s_pend' = pend \cup Waits(e, place, DOMAIN a.tones \ now)
  OBVIOUS
<1> HIDE DEF e
<1>6. /\ KeyTable(s_held') /\ Counted(s_held', s_ref', miscounted)
      /\ s_held'[place] = e /\ \A i \in Entries \ {place} : s_held'[i] = held[i]
  <2>1. \A i \in InUse(held) : ~(held[i].key = e.key /\ held[i].pre = e.pre)
    BY <1>3
  <2>2. e.emitted \subseteq DOMAIN e.tones /\ Distinct(e.tones)
    BY <1>1, <1>3
  <2>3. s_ref' = Added(ref, At(e.tones, e.emitted))
    BY <1>3
  <2>4. place \in Entries /\ place \notin InUse(held)
    OBVIOUS
  <2>5. /\ KeyTable(s_held') /\ Counted(s_held', Added(ref, At(e.tones, e.emitted)), miscounted)
        /\ s_held'[place] = e /\ \A i \in Entries \ {place} : s_held'[i] = held[i]
    BY <1>3, <1>4, <2>1, <2>2, <2>4, Entered
  <2> QED
    BY <2>3, <2>5
<1>7. /\ IsFiniteSet(pend) /\ Room(pend) \in Nat
  <2>1. IsFiniteSet(pend) /\ Cardinality(pend) <= NumPending
    BY DEF Waiting
  <2>2. Cardinality(pend) \in Nat
    BY <2>1, FS_CardinalityType
  <2> QED
    BY <2>1, <2>2, TableAssumption DEF Room
<1> DEFINE later == DOMAIN a.tones \ now
<1>8. IsFiniteSet(later) /\ Cardinality(later) <= Room(pend)
  BY <1>1, <1>7, RoomForStrum
<1>9. later = DOMAIN s_held'[place].tones \ s_held'[place].emitted
  BY <1>3, <1>6
<1>10. s_pend' = pend \cup Waits(s_held'[place], place, later)
  BY <1>6, <1>5
<1>11. s_held'[place] \in Entry
  BY <1>3, <1>6
<1> HIDE DEF later
<1>12. Waiting(s_held', s_pend')
  <2>1. Cardinality(later) <= NumPending - Cardinality(pend)
    BY <1>8 DEF Room
  <2>2. place \in Entries /\ place \notin InUse(held)
    OBVIOUS
  <2>3. IsFiniteSet(later) /\ \A i \in Entries \ {place} : s_held'[i] = held[i]
    BY <1>6, <1>8
  <2>4. Waiting(s_held', pend \cup Waits(s_held'[place], place, later))
    BY <1>9, <1>11, <2>1, <2>2, <2>3, LeftToStrum
  <2> QED
    BY <1>10, <2>4
<1> QED
  BY <1>6, <1>12 DEF Table

(* The critical section of a key that is pressed. *)
LEMMA InsertTable ==
  ASSUME CInv, NEW t \in Tasks, Insert(t)
  PROVE  Table'
<1> DEFINE a     == arg[t]
           again == SameKey(a)
           h     == s_held[FirstOf(again)]
           old   == IF again = {} THEN {} ELSE At(h.tones, h.emitted)
           ref   == Dropped(s_ref, old)
           left  == {p \in s_pend : p.slot \notin again}
           free  == FreeSlots(again)
           place  == FirstOf(free)
<1>1. KeyTable(s_held) /\ Counted(s_held, s_ref, miscounted) /\ Waiting(s_held, s_pend)
  BY DEF CInv
<1>2. a.key \in Keys /\ a.pre \in BOOLEAN /\ a.tones \in ChordTone
  BY DEF CInv, Outside, Knows, Insert
<1>3. again = {i \in InUse(s_held) : s_held[i].key = a.key /\ s_held[i].pre = a.pre}
  BY DEF SameKey, FindKey, UsedEntries, InUse
<1>4. UNCHANGED miscounted
  BY DEF Insert
<1>5. CASE free = {}
  <2>1. UNCHANGED <<s_held, s_ref, s_pend>>
    BY <1>5 DEF Insert
  <2> QED
    BY <1>1, <1>4, <2>1 DEF Table
<1>6. CASE free # {}
  <2> DEFINE all == DOMAIN a.tones
             room == Room(left)
  <2>1. PICK now \in SUBSET all :
          /\ IF a.strum /\ all # {}
               THEN LET more == Cardinality(all) - 1
                    IN Cardinality(now) = 1 + (IF more > room THEN more - room ELSE 0)
               ELSE now = all
          /\ s_held' = [i \in Entries |->
                          IF i = place THEN [used |-> TRUE, key |-> a.key, pre |-> a.pre,
                                            tones |-> a.tones, emitted |-> now]
                          ELSE IF i \in again THEN Empty
                          ELSE s_held[i]]
          /\ s_ref' = Added(ref, At(a.tones, now))
          /\ s_pend' = left \cup {[slot |-> place, key |-> a.key, bit |-> i,
                                   note |-> a.tones[i], pre |-> a.pre] : i \in all \ now}
    BY <1>6 DEF Insert
  <2>2. s_pend' = left \cup Waits(EntryOf(a, now), place, all \ now)
    BY <2>1 DEF Waits, EntryOf
  <2>3. place \in free
    <3>1. free \in SUBSET Entries
      BY <1>3 DEF FreeSlots, InUse
    <3> QED
      BY <1>6, <3>1, FirstIsIn
  <2>4. free = (Entries \ InUse(s_held)) \cup again
    BY DEF FreeSlots, UsedEntries, InUse
  <2>5. \E mid : /\ KeyTable(mid) /\ Counted(mid, ref, miscounted) /\ Waiting(mid, left)
                 /\ \A i \in InUse(mid) : ~(mid[i].key = a.key /\ mid[i].pre = a.pre)
                 /\ place \in Entries \ InUse(mid)
                 /\ Replaces(s_held', mid, place, EntryOf(a, now))
    <3>1. s_held \in [Entries -> {Empty} \cup Entry]
      BY <1>1 DEF KeyTable
    <3>2. s_held' = [i \in Entries |-> IF i = place THEN EntryOf(a, now)
                                       ELSE IF i \in again THEN Empty ELSE s_held[i]]
      BY <2>1 DEF EntryOf
    <3>3. CASE again = {}
      <4>1. ref = s_ref
        BY <1>1, <3>3 DEF Dropped, Counted
      <4>2. left = s_pend
        BY <3>3
      <4>3. \A i \in InUse(s_held) : ~(s_held[i].key = a.key /\ s_held[i].pre = a.pre)
        BY <1>3, <3>3
      <4>4. place \in Entries \ InUse(s_held)
        BY <2>3, <2>4, <3>3
      <4>5. Replaces(s_held', s_held, place, EntryOf(a, now))
        <5> HIDE DEF place, again, a
        <5> QED
          BY <3>1, <3>2, <3>3 DEF Replaces
      <4> QED
        BY <1>1, <4>1, <4>2, <4>3, <4>4, <4>5
    <3>4. CASE again # {}
      <4> DEFINE g   == FirstOf(again)
                 mid == [s_held EXCEPT ![g] = Empty]
      <4>1. again \in SUBSET Entries
        BY <1>3 DEF InUse
      <4>2. g \in again
        BY <3>4, <4>1, FirstIsIn
      <4>3. again = {g}
        BY <1>1, <1>3, <4>2 DEF KeyTable
      <4>4. g \in InUse(s_held) /\ g \in Entries
        BY <1>3, <4>1, <4>2
      <4>5. Replaces(mid, s_held, g, Empty)
        BY DEF Replaces
      <4>6. mid \in [Entries -> {Empty} \cup Entry]
        BY <3>1
      <4>7. \A i \in Entries : mid[i] = IF i = g THEN Empty ELSE s_held[i]
        BY <3>1
      <4> HIDE DEF g, mid
      <4>8. /\ KeyTable(mid) /\ Counted(mid, Dropped(s_ref, Has(s_held, g)), miscounted)
            /\ Waiting(mid, Besides(s_pend, g))
            /\ InUse(mid) = InUse(s_held) \ {g}
        BY <1>1, <4>4, <4>5, Released
      <4>9. old = Has(s_held, g)
        BY <3>4 DEF Has, g
      <4>10. left = Besides(s_pend, g)
        BY <4>3 DEF Besides
      <4>11. \A i \in InUse(mid) : ~(mid[i].key = a.key /\ mid[i].pre = a.pre)
        <5> SUFFICES ASSUME NEW i \in InUse(mid), mid[i].key = a.key, mid[i].pre = a.pre
                     PROVE  FALSE
          OBVIOUS
        <5>1. i \in InUse(s_held) /\ i # g /\ i \in Entries
          BY <4>8 DEF InUse
        <5>2. mid[i] = s_held[i]
          BY <4>7, <5>1
        <5>3. i \in again
          BY <1>3, <5>1, <5>2
        <5> QED
          BY <4>3, <5>1, <5>3
      <4>12. place \in Entries \ InUse(mid)
        BY <2>3, <2>4, <4>3, <4>4, <4>8
      <4>13. Replaces(s_held', mid, place, EntryOf(a, now))
        <5> HIDE DEF place, again, a
        <5> QED
          BY <3>2, <4>3, <4>6, <4>7 DEF Replaces
      <4> QED
        BY <4>8, <4>9, <4>10, <4>11, <4>12, <4>13
    <3> QED
      BY <3>3, <3>4
  <2>6. PICK mid : /\ KeyTable(mid) /\ Counted(mid, ref, miscounted) /\ Waiting(mid, left)
                   /\ \A i \in InUse(mid) : ~(mid[i].key = a.key /\ mid[i].pre = a.pre)
                   /\ place \in Entries \ InUse(mid)
                   /\ Replaces(s_held', mid, place, EntryOf(a, now))
    BY <2>5
  <2> HIDE DEF a, ref, left, place, again, free, old, h
  <2> QED
    BY <1>2, <1>4, <2>1, <2>2, <2>6, EnterKeeps
<1> QED
  BY <1>5, <1>6

(* A held key that is re-voiced. *)
LEMMA RevoiceTable ==
  ASSUME CInv, NEW t \in Tasks, Revoice(t)
  PROVE  Table'
<1> DEFINE a    == arg[t]
           h    == s_held[a.slot]
           had  == At(a.old, a.oldEmitted)
           has  == At(h.tones, h.emitted)
           all  == At(a.tones, DOMAIN a.tones)
           gone == IF RestrikeAll(setting) THEN had ELSE had \ all
           came == IF RestrikeAll(setting) THEN all ELSE all \ had
           e    == [h EXCEPT !.tones = a.tones, !.emitted = DOMAIN a.tones]
<1>1. KeyTable(s_held) /\ Counted(s_held, s_ref, miscounted) /\ Waiting(s_held, s_pend)
  BY DEF CInv
<1>2. /\ a.slot \in Entries /\ a.tones \in ChordTone
      /\ a.old \in Seq(Pitches) /\ a.oldEmitted \subseteq DOMAIN a.old
  BY DEF CInv, Outside, Knows, Revoice
<1>3. CASE UNCHANGED <<s_held, s_ref, s_pend, miscounted>>
  BY <1>1, <1>3 DEF Table
<1>4. CASE /\ h.used
           /\ s_pend' = Without(a.slot)
           /\ s_ref' = Added(Dropped(s_ref, gone), came)
           /\ s_held' = [s_held EXCEPT ![a.slot] = e]
           /\ miscounted' = miscounted \cup (had \ has) \cup (has \ had)
  <2>1. a.slot \in InUse(s_held)
    BY <1>2, <1>4 DEF InUse
  <2>5. had \in SUBSET Pitches
    BY <1>2 DEF At
  <2>6. Replaces(s_held', s_held, a.slot, Retoned(h, a.tones))
    BY <1>4 DEF Replaces, Retoned
  <2>7. has = Has(s_held, a.slot)
    BY DEF Has
  <2>8. (gone = had /\ came = all) \/ (gone = had \ all /\ came = all \ had)
    OBVIOUS
  <2>9. s_pend' = Besides(s_pend, a.slot)
    BY <1>4 DEF Without, Besides
  <2>10. /\ s_ref' = Added(Dropped(s_ref, gone), came)
         /\ miscounted' = miscounted \cup (had \ has) \cup (has \ had)
    BY <1>4
  <2> DEFINE place == a.slot
             tones == a.tones
  <2>11. /\ place \in Entries /\ place \in InUse(s_held) /\ tones \in ChordTone
         /\ Replaces(s_held', s_held, place, Retoned(s_held[place], tones))
         /\ miscounted' = Miscounts(miscounted, had, Has(s_held, place))
         /\ Revoices(s_ref', s_ref, had, At(tones, DOMAIN tones))
         /\ s_pend' = Besides(s_pend, place)
    BY <1>2, <2>1, <2>6, <2>7, <2>8, <2>9, <2>10 DEF Revoices, Miscounts
  <2> HIDE DEF had, place, tones
  <2>12. /\ KeyTable(s_held') /\ \A i \in Entries \ {place} : s_held'[i] = s_held[i]
         /\ Counted(s_held', s_ref', Miscounts(miscounted, had, Has(s_held, place)))
    BY <1>1, <2>5, <2>11, Revoiced
  <2>13. Waiting(s_held', s_pend')
    <3>1. Waiting(s_held', Besides(s_pend, place))
      BY <1>1, <2>11, <2>12, OthersWait
    <3> QED
      BY <2>11, <3>1
  <2> QED
    BY <2>11, <2>12, <2>13 DEF Table
<1> QED
  BY <1>3, <1>4 DEF Revoice

-----------------------------------------------------------------------------
(* The lists. *)

(* In a finite set of numbers every place is somebody's. *)
LEMMA Places ==
  ASSUME NEW S \in SUBSET Nat, IsFiniteSet(S), NEW k \in 1 .. Cardinality(S)
  PROVE  \E i \in S : Cardinality({j \in S : j <= i}) = k
<1> DEFINE Upto(i) == {j \in S : j <= i}
           f == [i \in S |-> Cardinality(Upto(i))]
           n == Cardinality(S)
<1>1. n \in Nat
  BY FS_CardinalityType
<1>2. ASSUME NEW i \in S
      PROVE  /\ IsFiniteSet(Upto(i)) /\ f[i] = Cardinality(Upto(i)) /\ f[i] \in 1 .. n
  <2>1. IsFiniteSet(Upto(i)) /\ Cardinality(Upto(i)) <= n
    BY FS_Subset
  <2>2. i \in Upto(i)
    OBVIOUS
  <2>3. Cardinality(Upto(i)) \in Nat /\ Cardinality(Upto(i)) # 0
    BY <2>1, <2>2, FS_CardinalityType, FS_EmptySet
  <2>4. f[i] = Cardinality(Upto(i))
    OBVIOUS
  <2> HIDE DEF Upto, f, n
  <2> QED
    BY <1>1, <2>1, <2>3, <2>4
<1>3. ASSUME NEW i \in S, NEW j \in S, i < j
      PROVE  f[i] # f[j]
  <2>0. i \in Nat /\ j \in Nat /\ \A m \in S : m \in Nat
    OBVIOUS
  <2>1. Upto(i) \subseteq Upto(j) /\ j \in Upto(j) /\ j \notin Upto(i)
    <3>1. \A m \in S : m <= i => m <= j
      BY <1>3, <2>0
    <3>2. j <= j /\ ~(j <= i)
      BY <1>3, <2>0
    <3> QED
      BY <3>1, <3>2
  <2> HIDE DEF Upto
  <2>2. Upto(i) # Upto(j)
    BY <2>1
  <2>3. Cardinality(Upto(i)) # Cardinality(Upto(j))
    BY <1>2, <2>1, <2>2, FS_Subset
  <2> QED
    BY <1>2, <2>3
<1>4. f \in Injection(S, 1 .. n)
  <2>1. \A i, j \in S : f[i] = f[j] => i = j
    <3> SUFFICES ASSUME NEW i \in S, NEW j \in S, f[i] = f[j], i # j PROVE FALSE
      OBVIOUS
    <3>1. i < j \/ j < i
      OBVIOUS
    <3> QED
      BY <1>3, <3>1
  <2>2. f = [i \in S |-> f[i]] /\ \A i \in S : f[i] \in 1 .. n
    BY <1>2
  <2> HIDE DEF f, n
  <2>3. f \in [S -> 1 .. n]
    BY <2>2
  <2> QED
    BY <2>1, <2>3 DEF Injection, IsInjective
<1>5. IsFiniteSet(1 .. n) /\ Cardinality(1 .. n) = n
  BY <1>1, FS_Interval
<1>6. f \in Surjection(S, 1 .. n)
  <2> HIDE DEF f
  <2> QED
    BY <1>4, <1>5, FS_Injection
<1>7. PICK i \in S : f[i] = k
  <2> HIDE DEF f
  <2> QED
    BY <1>6 DEF Surjection
<1> QED
  BY <1>2, <1>7

(* Tones of a set, listed, are tones; *)
LEMMA ListedTones ==
  ASSUME NEW tones \in Seq(Pitches), NEW S
  PROVE  Listed(tones, S) \in Seq(Pitches)
<1> DEFINE bits   == {i \in DOMAIN tones : tones[i] \in S}
           Nth(k) == CHOOSE i \in bits : Cardinality({j \in bits : j <= i}) = k
           n      == Cardinality(bits)
           q      == [k \in 1 .. n |-> tones[Nth(k)]]
<1>1. IsFiniteSet(bits) /\ bits \in SUBSET Nat
  <2>1. DOMAIN tones = 1 .. Len(tones) /\ Len(tones) \in Nat
    OBVIOUS
  <2>2. IsFiniteSet(1 .. Len(tones))
    BY <2>1, FS_Interval
  <2>3. bits \subseteq 1 .. Len(tones)
    BY <2>1
  <2>4. bits \in SUBSET Nat
    BY <2>1
  <2> HIDE DEF bits
  <2>5. IsFiniteSet(bits)
    BY <2>2, <2>3, FS_Subset
  <2> QED
    BY <2>4, <2>5
<1>2. \A i \in bits : tones[i] \in Pitches
  OBVIOUS
<1> HIDE DEF bits
<1>3. n \in Nat
  BY <1>1, FS_CardinalityType
<1>4. ASSUME NEW k \in 1 .. n PROVE tones[Nth(k)] \in Pitches
  <2>1. \E i \in bits : Cardinality({j \in bits : j <= i}) = k
    BY <1>1, Places
  <2>2. Nth(k) \in bits
    BY <2>1
  <2> QED
    BY <1>2, <2>2
<1> HIDE DEF n, Nth
<1>5. q \in Seq(Pitches)
  BY <1>3, <1>4
<1> QED
  BY <1>5 DEF q, n, Nth, bits, Listed

(* what is emitted for them is a list of emissions; *)
LEMMA Emissions ==
  ASSUME NEW notes \in Seq(Pitches), NEW pre \in BOOLEAN
  PROVE  Offs(notes, pre) \in Seq(Emission) /\ Ons(notes, pre) \in Seq(Emission)
<1>1. \A i \in DOMAIN notes, on \in BOOLEAN : Item(notes[i], on, pre) \in Emission
  BY DEF Item, Emission
<1>2. DOMAIN notes = 1 .. Len(notes) /\ Len(notes) \in Nat
  OBVIOUS
<1> DEFINE n == Len(notes)
           E == Emission
           F(i) == Item(notes[i], FALSE, pre)
           N(i) == Item(notes[i], TRUE, pre)
<1>3. \A i \in 1 .. n : F(i) \in E /\ N(i) \in E
  BY <1>1, <1>2
<1> HIDE DEF n, E, F, N
<1>4. [i \in 1 .. n |-> F(i)] \in Seq(E) /\ [i \in 1 .. n |-> N(i)] \in Seq(E)
  BY <1>2, <1>3 DEF n
<1> QED
  BY <1>2, <1>4 DEF n, E, F, N, Offs, Ons

(* so is a list of one; *)
LEMMA OneEmission ==
  ASSUME NEW n \in Pitches, NEW on \in BOOLEAN, NEW pre \in BOOLEAN
  PROVE  <<Item(n, on, pre)>> \in Seq(Emission)
<1> DEFINE E == Emission
           e == Item(n, on, pre)
<1>1. e \in E
  BY DEF Item, Emission
<1> HIDE DEF E, e
<1>2. <<e>> \in Seq(E)
  BY <1>1
<1> QED
  BY <1>2 DEF E, e

(* and a task that takes such a list leaves the others theirs. *)
LEMMA OneList ==
  ASSUME Lists, NEW t \in Tasks, NEW list \in Seq(Emission), out' = [out EXCEPT ![t] = list]
  PROVE  Lists'
<1> DEFINE E == Seq(Emission)
<1>1. list \in E /\ out \in [Tasks -> E]
  BY DEF Lists
<1> HIDE DEF E
<1>2. out' \in [Tasks -> E]
  BY <1>1
<1> QED
  BY <1>2 DEF Lists, E

-----------------------------------------------------------------------------
(* What the tasks know, step by step. *)
LEMMA OneLearns ==
  ASSUME Outside, NEW t \in Tasks, NEW at, NEW a, Knows(at, a),
         Replaces(pc', pc, t, at), Replaces(arg', arg, t, a)
  PROVE  /\ DOMAIN pc' = Tasks /\ DOMAIN arg' = Tasks
         /\ \A u \in Tasks : Knows(pc'[u], arg'[u])
<1>1. /\ DOMAIN pc = Tasks /\ DOMAIN arg = Tasks
      /\ \A u \in Tasks : Knows(pc[u], arg[u])
  BY DEF Outside
<1>2. /\ DOMAIN pc' = Tasks /\ pc'[t] = at /\ \A u \in Tasks \ {t} : pc'[u] = pc[u]
  BY <1>1 DEF Replaces
<1>3. /\ DOMAIN arg' = Tasks /\ arg'[t] = a /\ \A u \in Tasks \ {t} : arg'[u] = arg[u]
  BY <1>1 DEF Replaces
<1> QED
  BY <1>1, <1>2, <1>3

(* A task that only moves on. *)
LEMMA OneMoves ==
  ASSUME Outside, NEW t \in Tasks, NEW at, Knows(at, arg[t]),
         Replaces(pc', pc, t, at), UNCHANGED arg
  PROVE  /\ DOMAIN pc' = Tasks /\ DOMAIN arg' = Tasks
         /\ \A u \in Tasks : Knows(pc'[u], arg'[u])
<1>1. /\ DOMAIN pc = Tasks /\ DOMAIN arg = Tasks
      /\ \A u \in Tasks : Knows(pc[u], arg[u])
  BY DEF Outside
<1>2. /\ DOMAIN pc' = Tasks /\ pc'[t] = at /\ \A u \in Tasks \ {t} : pc'[u] = pc[u]
  BY <1>1 DEF Replaces
<1> QED
  BY <1>1, <1>2

(* The next entry of the table, or none. *)
LEMMA SlotsLearn ==
  ASSUME Outside, NEW t \in Tasks, NEW place \in Entries, NextSlot(t, place)
  PROVE  /\ DOMAIN pc' = Tasks /\ DOMAIN arg' = Tasks
         /\ \A u \in Tasks : Knows(pc'[u], arg'[u])
<1>1. CASE place < NumKeys
  <2>1. place + 1 \in Entries
    BY <1>1, TableAssumption DEF Entries
  <2>2. Knows("snapshot", [slot |-> place + 1])
    BY <2>1 DEF Knows
  <2>3. Replaces(pc', pc, t, "snapshot") /\ Replaces(arg', arg, t, [slot |-> place + 1])
    BY <1>1 DEF NextSlot, Replaces
  <2> QED
    BY <2>2, <2>3, OneLearns
<1>2. CASE ~(place < NumKeys)
  <2>1. Knows("idle", NoArg)
    BY DEF Knows
  <2>2. Replaces(pc', pc, t, "idle") /\ Replaces(arg', arg, t, NoArg)
    BY <1>2 DEF NextSlot, Replaces
  <2> QED
    BY <2>1, <2>2, OneLearns
<1> QED
  BY <1>1, <1>2

(* A key that is pressed. *)
LEMMA BuildLearns ==
  ASSUME Outside, NEW t \in Players, NEW k \in Keys, KeyOnBuild(t, k)
  PROVE  Outside'
<1>0. t \in Tasks
  BY DEF Tasks
<1>1. /\ pressed' = pressed \cup {<<t, k>>} /\ UNCHANGED <<setting, sounding>>
      /\ setting \in Settings /\ sounding \subseteq Pitches \X {"voice", "arp"}
      /\ pressed \subseteq Players \X Keys /\ plain \subseteq Keys
  BY DEF KeyOnBuild, Outside
<1>2. CASE Expands(t)
  <2> DEFINE at == IF Mono(setting) THEN "mono" ELSE "insert"
             a  == [key |-> k, tones |-> Tones(setting, k), pre |-> Pre(setting),
                    strum |-> Strummed(setting)]
  <2>1. Replaces(pc', pc, t, at) /\ Replaces(arg', arg, t, a) /\ UNCHANGED plain
    BY <1>2 DEF KeyOnBuild, Start, Replaces
  <2>2. a.key \in Keys /\ a.pre \in BOOLEAN /\ a.tones \in ChordTone
    BY <1>1, ToneAssumption, RouteAssumption DEF ChordTone
  <2>3. at = "mono" \/ at = "insert"
    OBVIOUS
  <2> HIDE DEF at, a
  <2>4. Knows(at, a)
    BY <2>2, <2>3 DEF Knows
  <2>5. /\ DOMAIN pc' = Tasks /\ DOMAIN arg' = Tasks
        /\ \A u \in Tasks : Knows(pc'[u], arg'[u])
    BY <1>0, <2>1, <2>4, OneLearns
  <2> QED
    BY <1>1, <2>1, <2>5 DEF Outside
<1>3. CASE ~Expands(t)
  <2>1. Replaces(pc', pc, t, "idle") /\ UNCHANGED arg /\ plain' \subseteq Keys
    BY <1>1, <1>3 DEF KeyOnBuild, Start, Replaces
  <2>2. Knows("idle", arg[t])
    BY DEF Knows
  <2>3. /\ DOMAIN pc' = Tasks /\ DOMAIN arg' = Tasks
        /\ \A u \in Tasks : Knows(pc'[u], arg'[u])
    BY <1>0, <2>1, <2>2, OneMoves
  <2> QED
    BY <1>1, <2>1, <2>3 DEF Outside
<1> QED
  BY <1>2, <1>3

(* A step of a task that leaves its locals alone. *)
LEMMA StepLearns ==
  ASSUME Outside, NEW t \in Tasks, NEW at, at \in {"idle", "release", "zero", "forget"} \/
           (pc[t] = "mono" /\ at \in {"mono", "insert"}) \/ at = pc[t],
         Replaces(pc', pc, t, at), UNCHANGED <<arg, setting>>,
         pressed' \subseteq pressed, plain' \subseteq Keys, sounding' \subseteq sounding
  PROVE  Outside'
<1>1. Knows(pc[t], arg[t])
  BY DEF Outside
<1>2. Knows(at, arg[t])
  BY <1>1 DEF Knows
<1>3. /\ DOMAIN pc' = Tasks /\ DOMAIN arg' = Tasks
      /\ \A u \in Tasks : Knows(pc'[u], arg'[u])
  BY <1>2, OneMoves
<1> QED
  BY <1>3 DEF Outside

-----------------------------------------------------------------------------
(* The invariant in its three parts. *)
LEMMA CInvParts ==
  CInv <=> Table /\ Outside /\ Lists
BY DEF CInv, Table

(* Keys. *)
LEMMA KeysKeepChords ==
  ASSUME CInv, NEW t \in Players, NEW k \in Keys,
         KeyOnBuild(t, k) \/ PlainOff(t, k) \/ \E pre \in BOOLEAN : KeyOff(t, k, pre)
  PROVE  Table' /\ Outside'
<1>0. Table /\ Outside /\ t \in Tasks /\ plain \subseteq Keys
  BY CInvParts DEF Tasks, Outside
<1>1. CASE KeyOnBuild(t, k)
  <2>1. UNCHANGED <<s_held, s_ref, s_pend, miscounted>>
    BY <1>1 DEF KeyOnBuild
  <2> QED
    BY <1>0, <1>1, <2>1, SameTable, BuildLearns
<1>2. CASE PlainOff(t, k)
  <2>1. UNCHANGED <<s_held, s_ref, s_pend, miscounted>>
    BY <1>2 DEF PlainOff
  <2>2. /\ Replaces(pc', pc, t, "idle") /\ UNCHANGED <<arg, setting, sounding>>
        /\ pressed' \subseteq pressed /\ plain' \subseteq Keys
    BY <1>0, <1>2 DEF PlainOff, Start, Replaces
  <2>3. Outside'
    BY <1>0, <2>2, StepLearns
  <2> QED
    BY <1>0, <2>1, <2>3, SameTable
<1>3. ASSUME NEW pre \in BOOLEAN, KeyOff(t, k, pre)
      PROVE  Table' /\ Outside'
  <2>1. FindKey(k, pre) \in SUBSET UsedEntries /\ FindKey(k, pre) # {}
    BY <1>3 DEF KeyOff, FindKey
  <2>2. FirstOf(FindKey(k, pre)) \in UsedEntries
    BY <2>1, FirstIsIn DEF UsedEntries
  <2>3. ReleaseEntry(t, FirstOf(FindKey(k, pre))) /\ UNCHANGED miscounted
    BY <1>3 DEF KeyOff
  <2>4. Table'
    BY <1>0, <2>2, <2>3, ReleaseKeeps
  <2>5. /\ Replaces(pc', pc, t, "idle") /\ UNCHANGED <<arg, setting, sounding>>
        /\ pressed' \subseteq pressed /\ plain' \subseteq Keys
    BY <1>0, <1>3 DEF KeyOff, Start, Replaces
  <2>6. Outside'
    BY <1>0, <2>5, StepLearns
  <2> QED
    BY <2>4, <2>6
<1> QED
  BY <1>1, <1>2, <1>3

(* A task's work. *)
LEMMA WorkKeepsChords ==
  ASSUME CInv, NEW t \in Tasks, Work(t)
  PROVE  Table' /\ Outside'
<1>0. Table /\ Outside /\ plain \subseteq Keys /\ DOMAIN pc = Tasks /\ setting \in Settings
  BY CInvParts DEF Outside
<1>1. CASE Play(t)
  <2>1. UNCHANGED <<s_held, s_ref, s_pend, miscounted, pc, arg, setting, pressed, plain>>
    BY <1>1 DEF Play
  <2>2. sounding' \subseteq Pitches \X {"voice", "arp"}
    <3>1. out[t] # <<>> /\ out[t] \in Seq(Emission)
      BY <1>1, CInvParts DEF Play, Lists
    <3> DEFINE e == Head(out[t])
    <3>2. e.note \in Pitches
      <4>1. e \in Emission
        <5> HIDE DEF Emission
        <5> QED
          BY <3>1
      <4> HIDE DEF e
      <4> QED
        BY <4>1 DEF Emission
    <3>3. sounding \subseteq Pitches \X {"voice", "arp"}
      BY <1>0 DEF Outside
    <3>4. \/ sounding' \subseteq sounding
          \/ \E path \in {"arp", "voice"} : sounding' = sounding \cup {<<e.note, path>>}
      BY <1>1 DEF Play
    <3> HIDE DEF e
    <3> QED
      BY <3>2, <3>3, <3>4
  <2>3. Outside'
    BY <1>0, <2>1, <2>2 DEF Outside
  <2> QED
    BY <1>0, <2>1, <2>3, SameTable
<1>2. CASE MonoRelease(t)
  <2> DEFINE others == {i \in UsedEntries : s_held[i].key # arg[t].key}
  <2>1. UNCHANGED <<arg, setting, sounding, pressed, plain, miscounted>> /\ pc[t] = "mono"
    BY <1>2 DEF MonoRelease
  <2>2. CASE others = {}
    <3>1. Replaces(pc', pc, t, "insert") /\ UNCHANGED <<s_held, s_ref, s_pend>>
      BY <1>2, <2>2 DEF MonoRelease, Replaces
    <3>2. Outside'
      BY <1>0, <2>1, <3>1, StepLearns
    <3> QED
      BY <1>0, <2>1, <3>1, <3>2, SameTable
  <2>3. CASE others # {}
    <3>1. ReleaseEntry(t, FirstOf(others)) /\ UNCHANGED pc
      BY <1>2, <2>3 DEF MonoRelease
    <3>2. FirstOf(others) \in UsedEntries
      BY <2>3, FirstIsIn DEF UsedEntries
    <3> HIDE DEF others
    <3>3. Table'
      BY <1>0, <2>1, <3>1, <3>2, ReleaseKeeps
    <3>4. Outside'
      BY <1>0, <2>1, <3>1 DEF Outside
    <3> QED
      BY <3>3, <3>4
  <2> QED
    BY <2>2, <2>3
<1>3. CASE Insert(t)
  <2>1. Table'
    BY <1>3, InsertTable
  <2>2. arg[t].key \in Keys
    BY <1>0, <1>3 DEF Insert, Outside, Knows
  <2>3. /\ Replaces(pc', pc, t, "idle") /\ UNCHANGED <<arg, setting, sounding, pressed>>
    BY <1>3 DEF Insert, Replaces
  <2>4. plain' \subseteq Keys
    BY <1>0, <1>3, <2>2 DEF Insert
  <2>5. Outside'
    BY <1>0, <2>3, <2>4, StepLearns
  <2> QED
    BY <2>1, <2>5
<1>4. CASE Snapshot(t)
  <2>1. UNCHANGED <<s_held, s_ref, s_pend, miscounted, setting, sounding, pressed, plain>>
    BY <1>4 DEF Snapshot
  <2> DEFINE place == arg[t].slot
             h    == s_held[place]
  <2>2. place \in Entries
    BY <1>0, <1>4 DEF Snapshot, Outside, Knows
  <2>3. /\ DOMAIN pc' = Tasks /\ DOMAIN arg' = Tasks
        /\ \A u \in Tasks : Knows(pc'[u], arg'[u])
    <3>1. CASE h.used
      <4> DEFINE a == [slot |-> place, key |-> h.key, pre |-> h.pre, old |-> h.tones,
                       oldEmitted |-> h.emitted,
                       tones |-> IF Enabled(setting) THEN Tones(setting, h.key)
                                 ELSE <<KeyNote(h.key)>>]
      <4>1. Replaces(pc', pc, t, "revoice") /\ Replaces(arg', arg, t, a)
        BY <1>4, <3>1 DEF Snapshot, Replaces
      <4>2. /\ h.key \in Keys /\ h.tones \in Seq(Pitches) /\ h.pre \in BOOLEAN
            /\ h.emitted \subseteq DOMAIN h.tones
        <5>1. place \in InUse(s_held)
          BY <2>2, <3>1 DEF InUse
        <5> QED
          BY <1>0, <2>2, <5>1, EntryFacts DEF Table
      <4>3. Tones(setting, h.key) \in ChordTone /\ <<KeyNote(h.key)>> \in ChordTone
        BY <1>0, <4>2, ToneAssumption DEF ChordTone, Distinct
      <4>4. /\ a.slot = place /\ a.tones \in ChordTone /\ a.old = h.tones
            /\ a.oldEmitted = h.emitted /\ a.pre = h.pre
        BY <4>3
      <4> HIDE DEF a, h, place
      <4>5. Knows("revoice", a)
        BY <2>2, <4>2, <4>4 DEF Knows
      <4> QED
        BY <1>0, <4>1, <4>5, OneLearns
    <3>2. CASE ~h.used
      <4>1. NextSlot(t, place)
        BY <1>4, <3>2 DEF Snapshot
      <4> QED
        BY <1>0, <2>2, <4>1, SlotsLearn
    <3> QED
      BY <3>1, <3>2
  <2>4. Outside'
    BY <1>0, <2>1, <2>3 DEF Outside
  <2> QED
    BY <1>0, <2>1, <2>4, SameTable
<1>5. CASE Revoice(t)
  <2>1. Table'
    BY <1>5, RevoiceTable
  <2>2. NextSlot(t, arg[t].slot) /\ UNCHANGED <<setting, sounding, pressed, plain>>
    BY <1>5 DEF Revoice
  <2>3. arg[t].slot \in Entries
    BY <1>0, <1>5 DEF Revoice, Outside, Knows
  <2>4. /\ DOMAIN pc' = Tasks /\ DOMAIN arg' = Tasks
        /\ \A u \in Tasks : Knows(pc'[u], arg'[u])
    BY <1>0, <2>2, <2>3, SlotsLearn
  <2>5. Outside'
    BY <1>0, <2>2, <2>4 DEF Outside
  <2> QED
    BY <2>1, <2>5
<1>6. CASE AllOffPending(t) \/ AllOffZero(t)
  <2>1. Table'
    BY <1>0, <1>6, ClearKeeps
  <2>2. /\ Replaces(pc', pc, t, "release") \/ Replaces(pc', pc, t, "idle")
        /\ UNCHANGED <<arg, setting, sounding, pressed, plain>>
    BY <1>6 DEF AllOffPending, AllOffZero, Replaces
  <2>3. Outside'
    BY <1>0, <2>2, StepLearns
  <2> QED
    BY <2>1, <2>3
<1>7. CASE AllOffRelease(t)
  <2>1. UNCHANGED <<arg, setting, sounding, pressed, plain, miscounted>>
    BY <1>7 DEF AllOffRelease
  <2>2. CASE UsedEntries = {}
    <3>1. Replaces(pc', pc, t, "zero") /\ UNCHANGED <<s_held, s_ref, s_pend>>
      BY <1>7, <2>2 DEF AllOffRelease, Replaces
    <3>2. Outside'
      BY <1>0, <2>1, <3>1, StepLearns
    <3> QED
      BY <1>0, <2>1, <3>1, <3>2, SameTable
  <2>3. CASE UsedEntries # {}
    <3>1. ReleaseEntry(t, FirstOf(UsedEntries)) /\ UNCHANGED pc
      BY <1>7, <2>3 DEF AllOffRelease
    <3>2. FirstOf(UsedEntries) \in UsedEntries
      BY <2>3, FirstIsIn DEF UsedEntries
    <3>3. Table'
      BY <1>0, <2>1, <3>1, <3>2, ReleaseKeeps
    <3>4. Outside'
      BY <1>0, <2>1, <3>1 DEF Outside
    <3> QED
      BY <3>3, <3>4
  <2> QED
    BY <2>2, <2>3
<1> QED
  BY <1>1, <1>2, <1>3, <1>4, <1>5, <1>6, <1>7 DEF Work, KeyStep, TuneStep, PanicStep

(* The strum clock, a write of a setting and a panic. *)
LEMMA OthersKeepChords ==
  ASSUME CInv,
         Strum \/ (\E t \in Tuners, s \in Settings : Tune(t, s)) \/ (\E t \in Panics : Panic(t))
  PROVE  Table' /\ Outside'
<1>0. Table /\ Outside /\ sounding \subseteq Pitches \X {"voice", "arp"}
  BY CInvParts DEF Outside
<1>1. CASE Strum
  <2>1. Table'
    BY <1>0, <1>1, StrumTable
  <2>2. Outside'
    BY <1>0, <1>1 DEF Strum, Outside
  <2> QED
    BY <2>1, <2>2
<1>2. ASSUME NEW t \in Tuners, NEW s \in Settings, Tune(t, s)
      PROVE  Table' /\ Outside'
  <2>1. /\ UNCHANGED <<s_held, s_ref, s_pend, miscounted, sounding, pressed, plain>>
        /\ setting' = s /\ Replaces(pc', pc, t, "snapshot")
        /\ Replaces(arg', arg, t, [slot |-> 1])
    BY <1>2 DEF Tune, Start, Replaces
  <2>2. Knows("snapshot", [slot |-> 1])
    BY TableAssumption DEF Knows, Entries
  <2>3. /\ DOMAIN pc' = Tasks /\ DOMAIN arg' = Tasks
        /\ \A u \in Tasks : Knows(pc'[u], arg'[u])
    <3>1. t \in Tasks
      BY DEF Tasks
    <3> QED
      BY <1>0, <2>1, <2>2, <3>1, OneLearns
  <2>4. Outside'
    BY <1>0, <2>1, <2>3 DEF Outside
  <2> QED
    BY <1>0, <2>1, <2>4, SameTable
<1>3. ASSUME NEW t \in Panics, Panic(t)
      PROVE  Table' /\ Outside'
  <2>1. /\ UNCHANGED <<s_held, s_ref, s_pend, miscounted, arg, setting, pressed>>
        /\ Replaces(pc', pc, t, "forget") /\ plain' = {} /\ sounding' \subseteq sounding
    BY <1>3 DEF Panic, Start, Replaces
  <2>2. t \in Tasks
    BY DEF Tasks
  <2>3. Outside'
    BY <1>0, <2>1, <2>2, StepLearns
  <2> QED
    BY <1>0, <2>1, <2>3, SameTable
<1> QED
  BY <1>1, <1>2, <1>3

(* Whatever a task does, its list is a list of emissions: a release, *)
LEMMA ReleaseLists ==
  ASSUME CInv, NEW t \in Tasks, NEW place \in UsedEntries, ReleaseEntry(t, place)
  PROVE  Lists'
<1> DEFINE h     == s_held[place]
           notes == At(h.tones, h.emitted)
           list  == Offs(Listed(h.tones, Stopping(s_ref, notes)), h.pre)
<1>1. h.tones \in Seq(Pitches) /\ h.pre \in BOOLEAN
  <2>1. place \in InUse(s_held) /\ place \in Entries /\ KeyTable(s_held)
    BY DEF UsedEntries, InUse, CInv
  <2> QED
    BY <2>1, EntryFacts
<1>2. list \in Seq(Emission)
  <2> HIDE DEF h, notes
  <2> QED
    BY <1>1, ListedTones, Emissions
<1>3. out' = [out EXCEPT ![t] = list] /\ Lists
  BY DEF ReleaseEntry, CInv
<1> HIDE DEF list
<1> QED
  BY <1>2, <1>3, OneList

(* the tones that fall due, *)
LEMMA StrumLists ==
  ASSUME CInv, Strum
  PROVE  Lists'
<1>1. PICK due \in SUBSET s_pend :
        LET on     == {p \in due : s_held[p.slot].used /\ s_held[p.slot].key = p.key}
            notes  == {p.note : p \in on}
            starts == SetToSeq({n \in notes : s_ref[n] = 0})
        IN out' = [out EXCEPT !["strum"] =
                     [i \in DOMAIN starts |->
                        Item(starts[i], TRUE, (CHOOSE p \in on : p.note = starts[i]).pre)]]
  BY DEF Strum
<1> DEFINE on     == {p \in due : s_held[p.slot].used /\ s_held[p.slot].key = p.key}
           notes  == {p.note : p \in on}
           S      == {n \in notes : s_ref[n] = 0}
           starts == SetToSeq(S)
           m      == Cardinality(S)
           One(n) == Item(n, TRUE, (CHOOSE p \in on : p.note = n).pre)
           E      == Emission
<1>2. \A p \in on : p.note \in Pitches /\ p.pre \in BOOLEAN
  BY DEF CInv, Waiting, Wait
<1>3. IsFiniteSet(S)
  <2>1. IsFiniteSet(on)
    BY FS_Subset DEF CInv, Waiting
  <2> DEFINE f == [p \in on |-> p.note]
  <2>2. f \in Surjection(on, notes)
    BY DEF Surjection
  <2> HIDE DEF on
  <2>3. IsFiniteSet(notes)
    BY <2>1, <2>2, FS_Surjection
  <2> QED
    BY <2>3, FS_Subset
<1>4. ASSUME NEW n \in S PROVE One(n) \in E
  <2>1. PICK q \in on : q.note = n
    OBVIOUS
  <2>2. (CHOOSE p \in on : p.note = n) \in on
    BY <2>1
  <2>3. (CHOOSE p \in on : p.note = n).pre \in BOOLEAN /\ n \in Pitches
    BY <1>2, <2>1, <2>2
  <2> QED
    BY <2>3 DEF Item, Emission
<1> HIDE DEF on, S, One, E
<1>5. starts \in [1 .. m -> S] /\ m \in Nat
  <2>1. m \in Nat /\ \E f : f \in Bijection(1 .. m, S)
    <3>1. PICK k \in Nat : ExistsBijection(1 .. k, S)
      BY <1>3, FS_NatBijection
    <3>2. Cardinality(S) = k
      BY <1>3, <3>1, FS_CountingElements
    <3> QED
      BY <3>1, <3>2 DEF ExistsBijection
  <2>2. \E f \in [1 .. m -> S] : \A i, j \in 1 .. m : f[i] = f[j] => i = j
    BY <2>1 DEF Bijection, Injection, IsInjective
  <2> QED
    BY <2>1, <2>2 DEF SetToSeq, IsInjective
<1> DEFINE list == [i \in 1 .. m |-> One(starts[i])]
<1>6. \A i \in 1 .. m : One(starts[i]) \in E
  BY <1>4, <1>5
<1>7. DOMAIN starts = 1 .. m
  BY <1>5
<1> HIDE DEF starts, m
<1>8. list \in Seq(E)
  BY <1>5, <1>6
<1>9. out' = [out EXCEPT !["strum"] = list]
  BY <1>1, <1>7 DEF on, S, starts, One
<1>10. Lists /\ "strum" \in Tasks
  BY DEF CInv, Tasks
<1> HIDE DEF list
<1> QED
  BY <1>8, <1>9, <1>10, OneList DEF E

(* a key that enters the table, *)
LEMMA InsertLists ==
  ASSUME CInv, NEW t \in Tasks, Insert(t)
  PROVE  Lists'
<1> DEFINE a     == arg[t]
           again == SameKey(a)
           h     == s_held[FirstOf(again)]
           old   == IF again = {} THEN {} ELSE At(h.tones, h.emitted)
           ref   == Dropped(s_ref, old)
           offs  == IF again = {} THEN <<>>
                    ELSE Offs(Listed(h.tones, Stopping(s_ref, old)), a.pre)
           E     == Emission
<1>1. /\ a.key \in Keys /\ a.pre \in BOOLEAN /\ a.tones \in Seq(Pitches)
      /\ setting \in Settings /\ Lists /\ KeyTable(s_held)
  BY DEF CInv, Outside, Knows, Insert, ChordTone
<1>2. offs \in Seq(E)
  <2>1. CASE again = {}
    <3>1. offs = <<>>
      BY <2>1
    <3> HIDE DEF E, offs
    <3> QED
      BY <3>1
  <2>2. CASE again # {}
    <3>1. again \in SUBSET Entries /\ again \subseteq InUse(s_held)
      BY DEF SameKey, FindKey, UsedEntries, InUse
    <3>2. FirstOf(again) \in again
      BY <2>2, <3>1, FirstIsIn
    <3>3. h.tones \in Seq(Pitches)
      BY <1>1, <3>1, <3>2, EntryFacts
    <3>4. offs = Offs(Listed(h.tones, Stopping(s_ref, old)), a.pre)
      BY <2>2
    <3> HIDE DEF h, old, a, offs
    <3> QED
      BY <1>1, <3>3, <3>4, ListedTones, Emissions DEF E
  <2> QED
    BY <2>1, <2>2
<1>3. \/ out' = [out EXCEPT ![t] = <<Item(KeyNote(a.key), TRUE, a.pre)>>]
      \/ \E notes : out' = [out EXCEPT ![t] =
                                 offs \o Ons(Listed(a.tones, Starting(ref, notes)), a.pre)]
  BY DEF Insert
<1> HIDE DEF offs, ref, a, E
<1>4. CASE out' = [out EXCEPT ![t] = <<Item(KeyNote(a.key), TRUE, a.pre)>>]
  <2> DEFINE list == <<Item(KeyNote(a.key), TRUE, a.pre)>>
  <2>1. KeyNote(a.key) \in Pitches
    BY <1>1, ToneAssumption
  <2>2. list \in Seq(Emission)
    BY <1>1, <2>1, OneEmission
  <2>3. out' = [out EXCEPT ![t] = list]
    BY <1>4
  <2> HIDE DEF list
  <2> QED
    BY <1>1, <2>2, <2>3, OneList
<1>5. ASSUME NEW notes, out' = [out EXCEPT ![t] =
                                  offs \o Ons(Listed(a.tones, Starting(ref, notes)), a.pre)]
      PROVE  Lists'
  <2> DEFINE ons  == Ons(Listed(a.tones, Starting(ref, notes)), a.pre)
             list == offs \o ons
  <2>1. ons \in Seq(E)
    BY <1>1, ListedTones, Emissions DEF E
  <2>2. out' = [out EXCEPT ![t] = list]
    BY <1>5
  <2> HIDE DEF ons
  <2>3. list \in Seq(E)
    BY <1>2, <2>1
  <2> HIDE DEF list
  <2> QED
    BY <1>1, <2>2, <2>3, OneList DEF E
<1> QED
  BY <1>3, <1>4, <1>5

(* one that is re-voiced, *)
LEMMA RevoiceLists ==
  ASSUME CInv, NEW t \in Tasks, Revoice(t)
  PROVE  Lists'
<1> DEFINE a == arg[t]
           E == Emission
<1>1. /\ a.tones \in Seq(Pitches) /\ a.old \in Seq(Pitches) /\ a.pre \in BOOLEAN /\ Lists
  BY DEF CInv, Outside, Knows, Revoice, ChordTone
<1>2. \/ out' = out
      \/ \E S, T : out' = [out EXCEPT ![t] = Offs(Listed(a.old, S), a.pre)
                                             \o Ons(Listed(a.tones, T), a.pre)]
  <2> DEFINE had  == At(a.old, a.oldEmitted)
             all  == At(a.tones, DOMAIN a.tones)
             gone == IF RestrikeAll(setting) THEN had ELSE had \ all
             came == IF RestrikeAll(setting) THEN all ELSE all \ had
             S    == Stopping(s_ref, gone)
             T    == Starting(Dropped(s_ref, gone), came)
  <2>1. out' = out \/ out' = [out EXCEPT ![t] = Offs(Listed(a.old, S), a.pre)
                                               \o Ons(Listed(a.tones, T), a.pre)]
    BY DEF Revoice
  <2> HIDE DEF S, T, a
  <2> QED
    BY <2>1
<1>3. CASE out' = out
  BY <1>1, <1>3 DEF Lists
<1> HIDE DEF a, E
<1>4. ASSUME NEW S, NEW T, out' = [out EXCEPT ![t] = Offs(Listed(a.old, S), a.pre)
                                             \o Ons(Listed(a.tones, T), a.pre)]
      PROVE  Lists'
  <2> DEFINE offs == Offs(Listed(a.old, S), a.pre)
             ons  == Ons(Listed(a.tones, T), a.pre)
             list == offs \o ons
  <2>1. offs \in Seq(E) /\ ons \in Seq(E)
    BY <1>1, ListedTones, Emissions DEF E
  <2>2. out' = [out EXCEPT ![t] = list]
    BY <1>4
  <2> HIDE DEF ons, offs
  <2>3. list \in Seq(E)
    BY <2>1
  <2> HIDE DEF list
  <2> QED
    BY <1>1, <2>2, <2>3, OneList DEF E
<1> QED
  BY <1>2, <1>3, <1>4

(* a key that is pressed or released, *)
LEMMA KeysList ==
  ASSUME CInv, NEW t \in Players, NEW k \in Keys,
         KeyOnBuild(t, k) \/ PlainOff(t, k) \/ \E pre \in BOOLEAN : KeyOff(t, k, pre)
  PROVE  Lists'
<1>1. Lists /\ t \in Tasks /\ setting \in Settings
  BY DEF CInv, Tasks, Outside
<1>2. ASSUME NEW on \in BOOLEAN,
             out' = [out EXCEPT ![t] = <<Item(KeyNote(k), on, TRUE)>>]
      PROVE  Lists'
  <2> DEFINE list == <<Item(KeyNote(k), on, TRUE)>>
  <2>1. KeyNote(k) \in Pitches
    BY <1>1, ToneAssumption
  <2>2. list \in Seq(Emission)
    BY <2>1, OneEmission
  <2>3. out' = [out EXCEPT ![t] = list]
    BY <1>2
  <2> HIDE DEF list
  <2> QED
    BY <1>1, <2>2, <2>3, OneList
<1>3. CASE KeyOnBuild(t, k)
  <2>1. out' = out \/ out' = [out EXCEPT ![t] = <<Item(KeyNote(k), TRUE, TRUE)>>]
    BY <1>3 DEF KeyOnBuild
  <2>2. CASE out' = out
    BY <1>1, <2>2 DEF Lists
  <2> QED
    BY <1>2, <2>1, <2>2
<1>4. CASE PlainOff(t, k)
  BY <1>2, <1>4 DEF PlainOff
<1>5. ASSUME NEW pre \in BOOLEAN, KeyOff(t, k, pre)
      PROVE  Lists'
  <2>1. FindKey(k, pre) \in SUBSET UsedEntries /\ FindKey(k, pre) # {}
    BY <1>5 DEF KeyOff, FindKey
  <2>2. FirstOf(FindKey(k, pre)) \in UsedEntries
    BY <2>1, FirstIsIn DEF UsedEntries
  <2>3. ReleaseEntry(t, FirstOf(FindKey(k, pre)))
    BY <1>5 DEF KeyOff
  <2> QED
    BY <1>1, <2>2, <2>3, ReleaseLists
<1> QED
  BY <1>3, <1>4, <1>5

(* and all the rest. *)
LEMMA WorkLists ==
  ASSUME CInv, NEW t \in Tasks, Work(t)
  PROVE  Lists'
<1>1. Lists
  BY DEF CInv
<1>2. CASE out' = out
  BY <1>1, <1>2 DEF Lists
<1>3. CASE Play(t)
  <2> DEFINE E    == Emission
             list == Tail(out[t])
  <2>1. out[t] # <<>> /\ out[t] \in Seq(E) /\ DOMAIN out = Tasks
    BY <1>1, <1>3 DEF Play, Lists
  <2> HIDE DEF E
  <2>2. list \in Seq(E)
    BY <2>1
  <2>3. out' = [out EXCEPT ![t] = list]
    BY <1>3, <2>1 DEF Play
  <2> HIDE DEF list
  <2> QED
    BY <1>1, <2>2, <2>3, OneList DEF E
<1>4. CASE MonoRelease(t)
  <2> DEFINE others == {i \in UsedEntries : s_held[i].key # arg[t].key}
  <2>1. CASE others = {}
    BY <1>2, <1>4, <2>1 DEF MonoRelease
  <2>2. CASE others # {}
    <3>1. ReleaseEntry(t, FirstOf(others))
      BY <1>4, <2>2 DEF MonoRelease
    <3>2. FirstOf(others) \in UsedEntries
      BY <2>2, FirstIsIn DEF UsedEntries
    <3> HIDE DEF others
    <3> QED
      BY <3>1, <3>2, ReleaseLists
  <2> QED
    BY <2>1, <2>2
<1>5. CASE Insert(t)
  BY <1>5, InsertLists
<1>6. CASE Snapshot(t)
  BY <1>2, <1>6 DEF Snapshot
<1>7. CASE Revoice(t)
  BY <1>7, RevoiceLists
<1>8. CASE AllOffPending(t) \/ AllOffZero(t)
  BY <1>2, <1>8 DEF AllOffPending, AllOffZero
<1>9. CASE AllOffRelease(t)
  <2>1. CASE UsedEntries = {}
    BY <1>2, <1>9, <2>1 DEF AllOffRelease
  <2>2. CASE UsedEntries # {}
    <3>1. ReleaseEntry(t, FirstOf(UsedEntries))
      BY <1>9, <2>2 DEF AllOffRelease
    <3>2. FirstOf(UsedEntries) \in UsedEntries
      BY <2>2, FirstIsIn DEF UsedEntries
    <3> QED
      BY <3>1, <3>2, ReleaseLists
  <2> QED
    BY <2>1, <2>2
<1> QED
  BY <1>3, <1>4, <1>5, <1>6, <1>7, <1>8, <1>9 DEF Work, KeyStep, TuneStep, PanicStep

(* So every list stays one. *)
LEMMA ChordsList ==
  CInv /\ ChordNext => Lists'
<1> SUFFICES ASSUME CInv, ChordNext PROVE Lists'
  OBVIOUS
<1>1. Lists
  BY DEF CInv
<1>2. CASE out' = out
  BY <1>1, <1>2 DEF Lists
<1>3. CASE Input
  <2>1. CASE \E t \in Players, k \in Keys :
               \/ KeyOnBuild(t, k) \/ PlainOff(t, k)
               \/ \E pre \in BOOLEAN : KeyOff(t, k, pre)
    BY <2>1, KeysList
  <2>2. CASE (\E t \in Tuners, s \in Settings : Tune(t, s)) \/ \E t \in Panics : Panic(t)
    BY <1>2, <2>2 DEF Tune, Panic
  <2> QED
    BY <1>3, <2>1, <2>2 DEF Input
<1> QED
  BY <1>3, StrumLists, WorkLists DEF ChordNext

(* The empty table. *)
LEMMA ChordStart ==
  ChordInit => CInv
<1> SUFFICES ASSUME ChordInit PROVE CInv
  OBVIOUS
<1>1. InUse(s_held) = {}
  BY DEF ChordInit, InUse, Empty
<1>2. KeyTable(s_held)
  BY <1>1 DEF KeyTable, ChordInit
<1>3. Counted(s_held, s_ref, miscounted)
  <2>1. \A n : Holding(s_held, n) = {}
    BY <1>1 DEF Holding
  <2>2. s_ref = [n \in Pitches |-> 0] /\ miscounted = {}
    BY DEF ChordInit
  <2> QED
    BY <2>1, <2>2, FS_EmptySet DEF Counted
<1>4. Waiting(s_held, s_pend)
  BY FS_EmptySet, TableAssumption DEF Waiting, ChordInit
<1>5. Outside
  BY DEF Outside, ChordInit, Knows
<1>6. Lists
  <2> HIDE DEF Emission
  <2> QED
    BY DEF Lists, ChordInit
<1> QED
  BY <1>2, <1>3, <1>4, <1>5, <1>6 DEF CInv

(* Chord mode keeps its invariant, whatever its tasks do. *)
THEOREM ChordInductive ==
  ChordSpec => []CInv
<1>1. ASSUME CInv, [ChordNext]_chordVars
      PROVE  CInv'
  <2>1. CASE ChordNext
    <3>1. Lists'
      BY <1>1, <2>1, ChordsList
    <3>2. CASE Input
      <4>1. Table' /\ Outside'
        BY <1>1, <3>2, KeysKeepChords, OthersKeepChords DEF Input
      <4> QED
        BY <3>1, <4>1 DEF CInv, Table
    <3>3. CASE Strum
      <4>1. Table' /\ Outside'
        BY <1>1, <3>3, OthersKeepChords
      <4> QED
        BY <3>1, <4>1 DEF CInv, Table
    <3>4. CASE \E t \in Tasks : Work(t)
      <4>1. Table' /\ Outside'
        BY <1>1, <3>4, WorkKeepsChords
      <4> QED
        BY <3>1, <4>1 DEF CInv, Table
    <3> QED
      BY <2>1, <3>2, <3>3, <3>4 DEF ChordNext
  <2>2. CASE UNCHANGED chordVars
    <3>1. Table'
      BY <1>1, <2>2, CInvParts, SameTable DEF chordVars
    <3>2. Outside' /\ Lists'
      BY <1>1, <2>2, CInvParts DEF Outside, Lists, chordVars
    <3> QED
      BY <3>1, <3>2 DEF CInv, Table
  <2> QED
    BY <1>1, <2>1, <2>2
<1> QED
  BY <1>1, ChordStart, PTL DEF ChordSpec

(* The references of a note are exactly the held keys that have sounded it, *)
(* but for the notes a stale re-voice or a panic counted wrong.             *)
THEOREM EveryHolderCounts ==
  ChordSpec => []RefExact
<1>1. CInv => RefExact
  <2> SUFFICES ASSUME CInv PROVE RefExact
    OBVIOUS
  <2>1. UsedEntries = InUse(s_held) /\ \A n : Holders(n) = Holding(s_held, n)
    BY DEF UsedEntries, InUse, Holders, Holding, Has
  <2>2. out \in [Tasks -> Seq(Emission)]
    BY DEF CInv, Lists
  <2>3. ChordTypeOK
    BY <2>1, <2>2 DEF CInv, Outside, KeyTable, Counted, Waiting, Wait, ChordTypeOK
  <2> QED
    BY <2>1, <2>3 DEF RefExact, CInv, Counted
<1> QED
  BY <1>1, ChordInductive, PTL

(* A tone that waits on the strum clock is one of the chord its key holds now. *)
THEOREM NoStrayTone ==
  ChordSpec => []PendingIsCurrent
<1>1. CInv => PendingIsCurrent
  BY DEF CInv, Waiting, Current, InUse, PendingIsCurrent
<1> QED
  BY <1>1, ChordInductive, PTL

-----------------------------------------------------------------------------
(* The voice manager. *)

USE SizeAssumption

(* The ring is the queue of what was accepted and not consumed. *)
QueueEntry(i) == s_events[Slot((NextToRead + i - 1) % CounterMod)]
Queued == /\ Len(sent) = Used(s_evt_head, NextToRead)
          /\ \A i \in 1 .. Len(sent) : sent[i] = QueueEntry(i)

(* It holds what it has room for, and a drain goes from tail to head. *)
RingRoom ==
  /\ Used(s_evt_head, s_evt_tail) <= QueueLen
  /\ blk = "drain" =>
       /\ Used(cursor, s_evt_tail) + Used(s_evt_head, cursor) = Used(s_evt_head, s_evt_tail)
       /\ Used(limit, cursor) + Used(s_evt_head, limit) = Used(s_evt_head, cursor)

Silent  == ~s_sustain /\ \A v \in Voices : ~Gated(v)

(* The voices of now may still be played on: the engine is bound, or may yet *)
(* be kept.                                                                  *)
MayKeep == s_engine = "bound" \/ (s_engine = "leaving" /\ passed < 2)

(* Each switch sees at most two blocks without an engine as long as it may   *)
(* keep it, so the hold is not over while voices wait for their note-offs.   *)
Held ==
  /\ s_engine # "bound" => switches >= 1
  /\ blk \in {"drain", "render"} => /\ s_unbound_blocks = 0
                                    /\ s_engine = "bound" \/ (s_engine = "leaving" /\ passed = 0)
  /\ blk = "null" => switches >= 1 /\ (s_engine = "bound" => passed < 2 \/ Silent)
  /\ MayKeep => Silent \/ s_unbound_blocks = 0 \/ s_unbound_blocks + 2 <= 2 * switches + passed

Presses(e, n)  == e.type = "NoteOn" /\ e.note = n
Releases(e, n) == \/ e.type \in {"AllNotesOff", "AllSoundOff"}
                  \/ e.type = "NoteOff" /\ e.note = n
Lifts(e)       == e.type = "SustainOff"

(* A press in the ring is of a key that is down, or released behind it. *)
PressesEnd ==
  \A i \in 1 .. Len(sent) :
    /\ \A n \in Notes : Presses(sent[i], n) =>
         n \in keys \/ \E j \in i + 1 .. Len(sent) : Releases(sent[j], n)
    /\ sent[i].type = "SustainOn" =>
         pedal \/ \E j \in i + 1 .. Len(sent) : Lifts(sent[j])

(* A gated voice is the pedal's, or its key is down, or its release is still *)
(* in the ring; and so is the pedal's.                                       *)
NoteEnds(n) == n \in keys \/ \E j \in 1 .. Len(sent) : Releases(sent[j], n)
VoicesEnd ==
  /\ \A v \in Voices : Gated(v) =>
       IF s_voices[v].held THEN s_sustain ELSE NoteEnds(s_voices[v].note)
  /\ s_sustain => pedal \/ \E j \in 1 .. Len(sent) : Lifts(sent[j])

VInv == /\ VoicesTypeOK /\ Queued /\ RingRoom /\ Held
        /\ ~s_evt_dropped => PressesEnd
        /\ ~s_evt_dropped /\ MayKeep => VoicesEnd

-----------------------------------------------------------------------------
(* Counters and slots. *)

(* Division with rest. *)
LEMMA DivMod ==
  ASSUME NEW M \in Nat, M > 0, NEW x \in Nat
  PROVE  x % M \in 0 .. M - 1 /\ x \div M \in Int /\ x = M * (x \div M) + (x % M)
OBVIOUS

(* The remainder is what is left over a multiple. *)
LEMMA ModIs ==
  ASSUME NEW M \in Nat, M > 0, NEW x \in Nat, NEW q \in Int, NEW r \in 0 .. M - 1,
         x = M * q + r
  PROVE  x % M = r
<1>1. x % M \in 0 .. M - 1 /\ x = M * (x \div M) + (x % M) /\ x \div M \in Int
  BY DivMod
<1> DEFINE d == x \div M - q
           e == r - (x % M)
<1>2. M * d = e /\ d \in Int /\ e \in Int /\ e > 0 - M /\ e < M
  BY <1>1
<1> HIDE DEF d, e
<1>3. d = 0
  BY <1>2
<1> QED
  BY <1>1, <1>3 DEF d

(* Less than one turn too many. *)
LEMMA ModSmall ==
  ASSUME NEW M \in Nat, M > 0, NEW x \in 0 .. 2 * M - 1
  PROVE  x % M = IF x < M THEN x ELSE x - M
<1>1. x % M \in 0 .. M - 1 /\ x = M * (x \div M) + (x % M) /\ x \div M \in Int
  BY DivMod
<1> QED BY <1>1

(* A counter that wraps at a multiple of Q keeps its remainder by Q. *)
LEMMA ModMod ==
  ASSUME NEW M \in Nat, M > 0, NEW Q \in Nat, Q > 0, M % Q = 0, NEW x \in Nat
  PROVE  (x % M) % Q = x % Q
<1> DEFINE a == x \div M
           r == x % M
           c == M \div Q
           b == r \div Q
           s == r % Q
<1>1. x = M * a + r /\ a \in Int /\ r \in 0 .. M - 1
  BY DivMod
<1>2. M = Q * c /\ c \in Int
  <2>1. M = Q * c + (M % Q) /\ c \in Int
    BY DivMod
  <2> QED BY <2>1
<1>3. r = Q * b + s /\ b \in Int /\ s \in 0 .. Q - 1
  BY <1>1, DivMod
<1> HIDE DEF a, r, c, b, s
<1>4. x = Q * (c * a + b) + s /\ c * a + b \in Int
  BY <1>1, <1>2, <1>3
<1> DEFINE q == c * a + b
<1>5. x = Q * q + s /\ q \in Int
  BY <1>4
<1> HIDE DEF q
<1>6. x % Q = s
  BY <1>3, <1>5, ModIs
<1> QED BY <1>6 DEF r, s

(* Less than Q apart: different remainders. *)
LEMMA ModApart ==
  ASSUME NEW Q \in Nat, Q > 0, NEW x \in Nat, NEW y \in Nat, x < y, y - x < Q
  PROVE  x % Q # y % Q
<1> SUFFICES ASSUME x % Q = y % Q PROVE FALSE
  OBVIOUS
<1> DEFINE a == x \div Q
           b == y \div Q
           r == x % Q
           d == b - a
<1>1. x = Q * a + r /\ a \in Int /\ r \in 0 .. Q - 1
  BY DivMod
<1>2. y = Q * b + r /\ b \in Int
  BY DivMod
<1> HIDE DEF a, b, r
<1>3. y - x = Q * d /\ d \in Int
  BY <1>1, <1>2
<1> HIDE DEF d
<1>4. CASE d <= 0
  BY <1>3, <1>4
<1>5. CASE d >= 1
  <2>1. Q * d >= Q
    BY <1>3, <1>5
  <2> QED BY <1>3, <2>1
<1> QED BY <1>3, <1>4, <1>5

Counters == 0 .. CounterMod - 1

(* What the remainder of a turn is not needed for. *)
LEMMA Sizes == QueueLen \in Nat \ {0} /\ CounterMod \in Nat /\ CounterMod > QueueLen
BY RingAssumption

(* The counters, without the remainders. *)
LEMMA Counting ==
  ASSUME NEW a \in Counters, NEW b \in Counters
  PROVE  /\ Used(a, b) = IF a >= b THEN a - b ELSE a - b + CounterMod
         /\ Used(a, b) \in Counters
         /\ After(a) = IF a + 1 = CounterMod THEN 0 ELSE a + 1
         /\ After(a) \in Counters
<1> USE Sizes
<1> DEFINE x == a + CounterMod - b
           y == a + 1
<1>1. x \in 0 .. 2 * CounterMod - 1 /\ y \in 0 .. 2 * CounterMod - 1 /\ CounterMod > 0
  BY DEF Counters
<1> HIDE DEF x, y
<1>2. /\ x % CounterMod = IF x < CounterMod THEN x ELSE x - CounterMod
      /\ y % CounterMod = IF y < CounterMod THEN y ELSE y - CounterMod
  BY <1>1, ModSmall
<1>3. Used(a, b) = x % CounterMod /\ After(a) = y % CounterMod
  BY DEF Used, After, x, y
<1> QED
  BY <1>2, <1>3 DEF Counters, x, y

(* The slot of a counter that may have wrapped. *)
LEMMA SlotWraps ==
  ASSUME NEW x \in Nat
  PROVE  Slot(x % CounterMod) = x % QueueLen /\ x % QueueLen \in 0 .. QueueLen - 1
<1>1. /\ CounterMod \in Nat /\ CounterMod > 0 /\ QueueLen \in Nat /\ QueueLen > 0
      /\ CounterMod % QueueLen = 0
  BY RingAssumption
<1>2. (x % CounterMod) % QueueLen = x % QueueLen
  <2> DEFINE M == CounterMod
             Q == QueueLen
             y == x
  <2>1. M \in Nat /\ M > 0 /\ Q \in Nat /\ Q > 0 /\ M % Q = 0 /\ y \in Nat
    BY <1>1
  <2> HIDE DEF M, Q, y
  <2>2. (y % M) % Q = y % Q
    BY ONLY <2>1, ModMod
  <2> QED
    BY <2>2 DEF M, Q, y
<1>3. x % QueueLen \in 0 .. QueueLen - 1
  BY <1>1, DivMod
<1> QED
  BY <1>2, <1>3 DEF Slot

(* Which slot an event is in. *)
LEMMA EntrySlot ==
  ASSUME VoicesTypeOK, NEW i \in Nat \ {0}
  PROVE  /\ NextToRead \in Counters /\ NextToRead + i - 1 \in Nat
         /\ QueueEntry(i) = s_events[(NextToRead + i - 1) % QueueLen]
<1>1. NextToRead \in Counters
  BY Sizes DEF VoicesTypeOK, NextToRead, Counters
<1>2. NextToRead + i - 1 \in Nat
  BY <1>1, Sizes DEF Counters
<1> QED
  BY <1>1, <1>2, SlotWraps DEF QueueEntry

-----------------------------------------------------------------------------
(* Voices and events. *)

Voice == [active : BOOLEAN, gate : BOOLEAN, held : BOOLEAN, note : Notes]

(* What each kind of step makes of a voice. *)
LEMMA VoiceSteps ==
  ASSUME NEW r \in Voice
  PROVE  /\ LET new == [r EXCEPT !.held = TRUE]
            IN  new \in Voice /\ new.held /\ new.gate = r.gate /\ new.active = r.active
                /\ new.note = r.note
         /\ LET new == [r EXCEPT !.gate = FALSE, !.held = FALSE]
            IN  new \in Voice /\ ~new.gate /\ new.note = r.note
         /\ LET new == [r EXCEPT !.active = FALSE, !.gate = FALSE, !.held = FALSE]
            IN  new \in Voice /\ ~new.gate /\ new.note = r.note
         /\ LET new == [r EXCEPT !.active = FALSE]
            IN  new \in Voice /\ ~new.active /\ new.note = r.note
<1> DEFINE t == TRUE
           f == FALSE
<1>1. t \in BOOLEAN /\ f \in BOOLEAN /\ t = TRUE /\ f = FALSE
  OBVIOUS
<1> HIDE DEF t, f
<1>2. LET new == [r EXCEPT !.held = t]
      IN  new \in Voice /\ new.held = t /\ new.gate = r.gate /\ new.active = r.active
          /\ new.note = r.note
  BY <1>1 DEF Voice
<1>3. LET new == [r EXCEPT !.gate = f, !.held = f]
      IN  new \in Voice /\ new.gate = f /\ new.note = r.note
  BY <1>1 DEF Voice
<1>4. LET new == [r EXCEPT !.active = f, !.gate = f, !.held = f]
      IN  new \in Voice /\ new.gate = f /\ new.note = r.note
  BY <1>1 DEF Voice
<1>5. LET new == [r EXCEPT !.active = f]
      IN  new \in Voice /\ new.active = f /\ new.note = r.note
  BY <1>1 DEF Voice
<1> QED
  BY <1>1, <1>2, <1>3, <1>4, <1>5, Zenon

(* A voice just struck, and one just cleared. *)
LEMMA NewVoices ==
  /\ \A n \in Notes :
       LET new == [active |-> TRUE, gate |-> TRUE, held |-> FALSE, note |-> n]
       IN  new \in Voice /\ new.active /\ new.gate /\ ~new.held /\ new.note = n
  /\ Fresh \in Voice /\ ~Fresh.gate /\ ~Fresh.active
<1> DEFINE t == TRUE
           f == FALSE
<1>1. t \in BOOLEAN /\ f \in BOOLEAN /\ t = TRUE /\ f = FALSE
  OBVIOUS
<1>2. ANote \in Notes
  BY DEF ANote
<1> HIDE DEF t, f
<1>3. \A n \in Notes :
        LET new == [active |-> t, gate |-> t, held |-> f, note |-> n]
        IN  new \in Voice /\ new.active = t /\ new.gate = t /\ new.held = f /\ new.note = n
  BY <1>1 DEF Voice
<1>4. LET new == [active |-> f, gate |-> f, held |-> f, note |-> ANote]
      IN  new \in Voice /\ new.gate = f /\ new.active = f
  BY <1>1, <1>2 DEF Voice
<1> QED
  BY <1>1, <1>3, <1>4, Zenon DEF Fresh

(* What a keyed event carries. *)
LEMMA EventNote ==
  ASSUME NEW e \in Event, e.type \in Keyed
  PROVE  e.note \in Notes
BY DEF Event, Keyed

(* A way to strike a note gives every layer of the stack a voice. *)
LEMMA StackSizes ==
  ASSUME VoicesTypeOK
  PROVE  StackSize \in Nat \ {0} /\ StackSize <= NumVoices
BY DEF VoicesTypeOK, StackSize

-----------------------------------------------------------------------------
(* Types. *)

(* Applying an event keeps the types of the pool. *)
LEMMA ApplyTyped ==
  ASSUME VoicesTypeOK, NEW e \in Event, Apply(e)
  PROVE  /\ s_voices' \in [Voices -> Voice] /\ older' \subseteq Voices \X Voices
         /\ s_sustain' \in BOOLEAN
<1>1. /\ s_voices \in [Voices -> Voice] /\ older \subseteq Voices \X Voices
      /\ s_sustain \in BOOLEAN
  BY DEF VoicesTypeOK, Voice
<1>2. CASE e.type = "NoteOn" /\ NoteOn(e.note)
  <2>1. PICK s \in Struck(e.note) :
          /\ s_voices' = [v \in Voices |->
                            IF v \in Range(s)
                            THEN [active |-> TRUE, gate |-> TRUE, held |-> FALSE,
                                  note |-> e.note]
                            ELSE s_voices[v]]
          /\ older' = Aged(s)
          /\ UNCHANGED s_sustain
    BY <1>2 DEF NoteOn
  <2>2. e.note \in Notes
    BY <1>2, EventNote DEF Keyed
  <2>3. s_voices' \in [Voices -> Voice]
    BY <1>1, <2>1, <2>2, NewVoices
  <2>4. older' \subseteq Voices \X Voices
    BY <2>1 DEF Aged
  <2> QED
    BY <1>1, <2>1, <2>3, <2>4
<1>3. ASSUME NEW V \in SUBSET Voices, LetGo(V)
      PROVE  /\ s_voices' \in [Voices -> Voice] /\ older' \subseteq Voices \X Voices
             /\ s_sustain' \in BOOLEAN
  BY <1>1, <1>3, VoiceSteps DEF LetGo
<1>4. CASE e.type = "NoteOff" /\ LetGo(Again(e.note))
  BY <1>3, <1>4 DEF Again
<1>5. CASE e.type = "AllNotesOff" /\ LetGo({v \in Voices : Gated(v)})
  BY <1>3, <1>5
<1>6. CASE AllSoundOff
  BY <1>1, <1>6, VoiceSteps DEF AllSoundOff
<1>7. CASE PedalDown
  BY <1>1, <1>7 DEF PedalDown
<1>8. CASE PedalUp
  BY <1>1, <1>8, VoiceSteps DEF PedalUp
<1> QED
  BY <1>2, <1>4, <1>5, <1>6, <1>7, <1>8 DEF Apply

(* The ring is not empty while the drain has not reached its limit, and what *)
(* it reads is the event sent first.                                         *)
LEMMA DrainReads ==
  ASSUME VoicesTypeOK, Queued, RingRoom, blk = "drain", cursor # limit
  PROVE  /\ Len(sent) \in Nat \ {0} /\ sent # <<>>
         /\ s_events[Slot(cursor)] = sent[1] /\ sent[1] \in Event
<1>1. cursor \in Counters /\ limit \in Counters /\ s_evt_head \in Counters
  BY Sizes DEF VoicesTypeOK, Counters
<1>2. Used(limit, cursor) > 0 /\ Used(s_evt_head, limit) \in Nat
  <2>1. Used(limit, cursor) = IF limit >= cursor THEN limit - cursor
                              ELSE limit - cursor + CounterMod
    BY <1>1, Counting
  <2>2. Used(s_evt_head, limit) \in Counters
    BY <1>1, Counting
  <2> QED
    BY <1>1, <2>1, <2>2, Sizes DEF Counters
<1>3. Used(s_evt_head, cursor) > 0 /\ Used(s_evt_head, cursor) \in Nat
  BY <1>1, <1>2, Counting, Sizes DEF Counters, RingRoom
<1>4. Len(sent) \in Nat \ {0} /\ sent # <<>> /\ sent[1] \in Event
  BY <1>3 DEF Queued, NextToRead, VoicesTypeOK
<1>5. s_events[Slot(cursor)] = sent[1]
  <2>1. sent[1] = QueueEntry(1)
    BY <1>4 DEF Queued
  <2>2. NextToRead = cursor /\ (cursor + 1 - 1) % CounterMod = cursor
    BY <1>1, Sizes DEF NextToRead, Counters
  <2> QED
    BY <2>1, <2>2 DEF QueueEntry
<1> QED
  BY <1>4, <1>5

(* The pool when it is cleared. *)
LEMMA ResetTyped ==
  /\ Reset \in [Voices -> Voice] /\ InOrder \subseteq Voices \X Voices
  /\ \A v \in Voices : ~Reset[v].gate
BY NewVoices DEF Reset, InOrder

(* Every step keeps the types. *)
LEMMA TypeStep ==
  ASSUME VoicesTypeOK, Queued, RingRoom, [VoicesNext]_voicesVars
  PROVE  VoicesTypeOK'
<1> DEFINE Ringed == /\ s_events \in [0 .. QueueLen - 1 -> Event \cup {[type |-> "none"]}]
                     /\ s_evt_head \in Counters /\ s_evt_tail \in Counters
                     /\ s_evt_dropped \in BOOLEAN
                     /\ sent \in Seq(Event)
           Pooled == /\ s_voices \in [Voices -> Voice]
                     /\ older \subseteq Voices \X Voices
                     /\ s_sustain \in BOOLEAN
           Binding == /\ s_engine \in {"bound", "leaving", "gone"} /\ passed \in 0 .. 2
                      /\ s_unbound_blocks \in 0 .. HoldBlocks /\ switches \in 0 .. MaxSwitches
           Tasked == /\ blk \in {"idle", "null", "drain", "render"}
                     /\ cursor \in Counters /\ limit \in Counters
           Player == /\ s_unison \in 1 .. MaxUnison
                     /\ keys \in SUBSET Notes /\ pedal \in BOOLEAN
                     /\ pushes \in 0 .. MaxEvents
<1>1. Ringed /\ Pooled /\ Binding /\ Tasked /\ Player
  BY DEF VoicesTypeOK, Counters, Voice
<1>2. SUFFICES (Ringed /\ Pooled /\ Binding /\ Tasked /\ Player)'
  BY DEF VoicesTypeOK, Counters, Voice
<1> USE DEF ring, pool, binding, task, history
<1>3. ASSUME NEW e \in Event, Push(e)
      PROVE  (Ringed /\ Pooled /\ Binding /\ Tasked /\ Player)'
  <2>1. Slot(s_evt_head) \in 0 .. QueueLen - 1
    <3>1. s_evt_head \in Nat /\ s_evt_head % CounterMod = s_evt_head
      BY <1>1, Sizes DEF Counters
    <3> QED
      BY <3>1, SlotWraps
  <2>2. After(s_evt_head) \in Counters
    BY <1>1, Counting
  <2>3. Ringed'
    <3>1. CASE Full
      BY <1>1, <1>3, <3>1 DEF Push
    <3>2. CASE ~Full
      <4>1. s_events' \in [0 .. QueueLen - 1 -> Event \cup {[type |-> "none"]}]
        BY <1>1, <1>3, <2>1, <3>2 DEF Push
      <4>2. sent' \in Seq(Event)
        BY <1>1, <1>3, <3>2 DEF Push
      <4> QED
        BY <1>1, <1>3, <2>2, <3>2, <4>1, <4>2 DEF Push
    <3> QED
      BY <3>1, <3>2
  <2>4. keys' \in SUBSET Notes /\ pedal' \in BOOLEAN
    <3>1. e.type \in Keyed => e.note \in Notes
      BY EventNote
    <3>2. keys' \in SUBSET Notes
      BY <1>1, <1>3, <3>1 DEF Push, PlayedKeys, Keyed
    <3>3. pedal' \in BOOLEAN
      BY <1>1, <1>3 DEF Push, PlayedPedal
    <3> QED
      BY <3>2, <3>3
  <2>5. pushes' \in 0 .. MaxEvents /\ s_unison' \in 1 .. MaxUnison
    BY <1>1, <1>3 DEF Push
  <2>6. (Pooled /\ Binding /\ Tasked)'
    BY <1>1, <1>3 DEF Push
  <2> QED
    BY <2>3, <2>4, <2>5, <2>6
<1>4. ASSUME NEW n \in 1 .. MaxUnison, SetUnison(n)
      PROVE  (Ringed /\ Pooled /\ Binding /\ Tasked /\ Player)'
  BY <1>1, <1>4 DEF SetUnison
<1>5. CASE BlockBegin
  BY <1>1, <1>5, HoldAssumption DEF BlockBegin
<1>6. Boundary \in 0 .. 2
  BY <1>1 DEF Boundary
<1>7. CASE NullBlock
  <2>1. Ringed'
    <3>1. <<>> \in Seq(Event)
      OBVIOUS
    <3> QED
      BY <1>1, <1>7, <3>1 DEF NullBlock
  <2>2. Binding'
    BY <1>1, <1>6, <1>7, HoldAssumption DEF NullBlock
  <2>3. (Pooled /\ Tasked /\ Player)'
    BY <1>1, <1>7 DEF NullBlock
  <2> QED
    BY <2>1, <2>2, <2>3
<1>8. CASE DrainOne
  <2>1. Apply(sent[1]) /\ sent[1] \in Event /\ sent # <<>>
    BY <1>8, DrainReads DEF DrainOne
  <2>2. Pooled'
    BY <2>1, ApplyTyped
  <2>3. sent' \in Seq(Event)
    BY <1>1, <1>8, <2>1 DEF DrainOne
  <2>4. cursor' \in Counters
    BY <1>1, <1>8, Counting DEF DrainOne
  <2> QED
    BY <1>1, <1>8, <2>2, <2>3, <2>4 DEF DrainOne
<1>9. CASE DrainEnd
  BY <1>1, <1>9 DEF DrainEnd
<1>10. CASE BlockEnd
  <2>1. s_voices' \in [Voices -> Voice]
    <3>1. PICK done \in SUBSET {v \in Voices : s_voices[v].active} :
            s_voices' = [v \in Voices |->
                           IF v \in done THEN [s_voices[v] EXCEPT !.active = FALSE]
                           ELSE s_voices[v]]
      BY <1>10 DEF BlockEnd
    <3>2. \A v \in Voices : [s_voices[v] EXCEPT !.active = FALSE] \in Voice
      BY <1>1, VoiceSteps
    <3> QED
      BY <1>1, <3>1, <3>2
  <2> QED
    BY <1>1, <1>6, <1>10, <2>1 DEF BlockEnd
<1>11. CASE Detach
  BY <1>1, <1>11 DEF Detach
<1>12. CASE ClearVoices
  BY <1>1, <1>12, ResetTyped DEF ClearVoices
<1>13. CASE KeepEngine
  BY <1>1, <1>13 DEF KeepEngine
<1>14. CASE SetEngine
  BY <1>1, <1>14, ResetTyped DEF SetEngine
<1>15. CASE UNCHANGED voicesVars
  BY <1>1, <1>15 DEF voicesVars
<1> QED
  BY <1>3, <1>4, <1>5, <1>7, <1>8, <1>9, <1>10, <1>11, <1>12, <1>13, <1>14, <1>15
  DEF VoicesNext, Audio, Control

-----------------------------------------------------------------------------
(* The ring. *)

(* A counter that moves makes one more, or one less, in use. *)
LEMMA UsedMoves ==
  ASSUME NEW a \in Counters, NEW b \in Counters
  PROVE  /\ Used(a, b) < QueueLen => Used(After(a), b) = Used(a, b) + 1
         /\ Used(a, b) > 0 => Used(a, After(b)) = Used(a, b) - 1
         /\ Used(a, a) = 0 /\ (a # b => Used(a, b) > 0)
<1>1. /\ Used(a, b) = IF a >= b THEN a - b ELSE a - b + CounterMod
      /\ After(a) = IF a + 1 = CounterMod THEN 0 ELSE a + 1
  BY Counting
<1>2. /\ After(a) \in Counters /\ After(b) \in Counters
      /\ After(b) = IF b + 1 = CounterMod THEN 0 ELSE b + 1
  BY Counting
<1>3. Used(After(a), b) = IF After(a) >= b THEN After(a) - b ELSE After(a) - b + CounterMod
  BY <1>2, Counting
<1>4. Used(a, After(b)) = IF a >= After(b) THEN a - After(b) ELSE a - After(b) + CounterMod
  BY <1>2, Counting
<1>5. Used(a, a) = IF a >= a THEN a - a ELSE a - a + CounterMod
  BY Counting
<1> QED
  BY <1>1, <1>2, <1>3, <1>4, <1>5, Sizes DEF Counters

(* The head is as many slots behind the next to read as are in use, ... *)
LEMMA HeadSlot ==
  ASSUME NEW a \in Counters, NEW b \in Counters
  PROVE  Slot(a) = (b + Used(a, b)) % QueueLen /\ b + Used(a, b) \in Nat
<1> DEFINE x == b + Used(a, b)
<1>1. Used(a, b) = IF a >= b THEN a - b ELSE a - b + CounterMod
  BY Counting
<1>2. /\ x \in 0 .. 2 * CounterMod - 1 /\ CounterMod > 0 /\ x \in Nat
      /\ a = IF x < CounterMod THEN x ELSE x - CounterMod
  BY <1>1, Sizes DEF Counters
<1> HIDE DEF x
<1>3. x % CounterMod = a
  BY <1>2, ModSmall, Sizes
<1>4. Slot(x % CounterMod) = x % QueueLen
  BY <1>2, SlotWraps
<1> QED
  BY <1>2, <1>3, <1>4 DEF x

(* ... and the i-th entry after one is taken was the one behind it. *)
LEMMA NextRingSlot ==
  ASSUME NEW b \in Counters, NEW i \in 1 .. QueueLen
  PROVE  /\ (After(b) + i - 1) % QueueLen = (b + (i + 1) - 1) % QueueLen
         /\ After(b) + i - 1 \in Nat
<1>1. After(b) \in Counters /\ After(b) = IF b + 1 = CounterMod THEN 0 ELSE b + 1
  BY Counting
<1>2. CASE b + 1 # CounterMod
  BY <1>1, <1>2, Sizes DEF Counters
<1>3. CASE b + 1 = CounterMod
  <2> DEFINE x == b + (i + 1) - 1
             y == After(b) + i - 1
  <2>1. /\ x \in 0 .. 2 * CounterMod - 1 /\ CounterMod > 0 /\ x \in Nat
        /\ y \in Nat /\ y = x - CounterMod /\ x >= CounterMod
    BY <1>1, <1>3, Sizes DEF Counters
  <2> HIDE DEF x, y
  <2>2. x % CounterMod = y
    BY <2>1, ModSmall, Sizes
  <2>3. Slot(x % CounterMod) = x % QueueLen
    BY <2>1, SlotWraps
  <2>4. y \in 0 .. CounterMod - 1
    BY <2>1, Sizes
  <2>5. y % CounterMod = y
    BY <2>4, ModSmall, Sizes
  <2>6. Slot(y % CounterMod) = y % QueueLen
    BY <2>1, SlotWraps
  <2> QED
    BY <2>1, <2>2, <2>3, <2>5, <2>6 DEF x, y
<1> QED
  BY <1>2, <1>3

(* What is still to be read is not more than there is room for. *)
LEMMA ReadBounds ==
  ASSUME VoicesTypeOK, Queued, RingRoom
  PROVE  /\ NextToRead \in Counters /\ s_evt_head \in Counters /\ Len(sent) \in Nat
         /\ Len(sent) = Used(s_evt_head, NextToRead)
         /\ Len(sent) <= Used(s_evt_head, s_evt_tail)
         /\ Used(s_evt_head, s_evt_tail) \in Nat
         /\ \A i \in Nat \ {0} : /\ NextToRead + i - 1 \in Nat
                                 /\ QueueEntry(i) = s_events[(NextToRead + i - 1) % QueueLen]
<1>1. /\ NextToRead \in Counters /\ s_evt_head \in Counters /\ Len(sent) \in Nat
      /\ s_evt_tail \in Counters
  BY Sizes DEF VoicesTypeOK, NextToRead, Counters
<1>2. /\ Used(s_evt_head, s_evt_tail) \in Counters /\ Used(NextToRead, s_evt_tail) \in Counters
      /\ Used(s_evt_head, NextToRead) \in Counters
  BY <1>1, Counting
<1>3. Used(s_evt_head, NextToRead) <= Used(s_evt_head, s_evt_tail)
  BY <1>2, Sizes DEF RingRoom, NextToRead, Counters
<1> QED
  BY <1>1, <1>2, <1>3, EntrySlot DEF Queued, Counters

(* An event put in the ring is the last to be read, and overwrites none that *)
(* is still to be.                                                           *)
LEMMA PushQueued ==
  ASSUME VoicesTypeOK, Queued, RingRoom, NEW e \in Event, Push(e)
  PROVE  Queued'
<1>1. NextToRead' = NextToRead
  BY DEF Push, task, NextToRead
<1>2. CASE Full
  BY <1>1, <1>2 DEF Push, Queued, QueueEntry
<1>3. CASE ~Full
  <2> DEFINE N == NextToRead
             L == Len(sent)
             Q == QueueLen
  <2>1. /\ N \in Counters /\ s_evt_head \in Counters /\ L \in Nat /\ L < Q
        /\ L = Used(s_evt_head, N)
    BY <1>3, ReadBounds, Sizes DEF Full
  <2>2. Slot(s_evt_head) = (N + L) % Q /\ N + L \in Nat
    BY <2>1, HeadSlot
  <2>3. /\ s_events' = [s_events EXCEPT ![Slot(s_evt_head)] = e]
        /\ s_evt_head' = After(s_evt_head) /\ sent' = Append(sent, e)
    BY <1>3 DEF Push
  <2>4. Len(sent') = L + 1 /\ \A i \in 1 .. L : sent'[i] = sent[i]
    BY <2>3 DEF VoicesTypeOK
  <2>5. sent'[L + 1] = e
    BY <2>3 DEF VoicesTypeOK
  <2>6. Len(sent') = Used(s_evt_head', NextToRead')
    BY <1>1, <2>1, <2>3, <2>4, UsedMoves
  <2>7. \A x \in Nat : Slot(x % CounterMod) = x % Q /\ x % Q \in 0 .. Q - 1
    BY SlotWraps
  <2>8. s_events \in [0 .. Q - 1 -> Event \cup {[type |-> "none"]}]
    BY DEF VoicesTypeOK
  <2>9. ASSUME NEW i \in 1 .. L
        PROVE  sent'[i] = QueueEntry(i)'
    <3> DEFINE x == N + i - 1
               y == N + L
    <3>1. x \in Nat /\ y \in Nat /\ x < y /\ y - x < Q /\ Q \in Nat /\ Q > 0
      BY <2>1, Sizes DEF Counters
    <3> HIDE DEF x, y, Q
    <3>2. x % Q # y % Q
      BY <3>1, ModApart
    <3>3. QueueEntry(i)' = s_events'[x % Q]
      BY <1>1, <2>7, <3>1 DEF QueueEntry, x
    <3>4. s_events'[x % Q] = s_events[x % Q]
      BY <2>2, <2>3, <2>7, <2>8, <3>1, <3>2 DEF y
    <3>5. s_events[x % Q] = sent[i]
      BY <2>7, <3>1 DEF Queued, QueueEntry, x
    <3> QED
      BY <2>4, <3>3, <3>4, <3>5
  <2>10. ASSUME NEW i \in Nat, i = L + 1
         PROVE  sent'[i] = QueueEntry(i)'
    <3> DEFINE y == N + i - 1
    <3>1. y \in Nat /\ y = N + L
      BY <2>1, <2>10, Sizes DEF Counters
    <3> HIDE DEF y, Q
    <3>2. QueueEntry(i)' = s_events'[y % Q]
      BY <1>1, <2>7, <3>1 DEF QueueEntry, y
    <3>3. s_events'[y % Q] = e
      BY <2>2, <2>3, <2>7, <2>8, <3>1
    <3> QED
      BY <2>5, <2>10, <3>2, <3>3
  <2>11. \A i \in 1 .. Len(sent') : i \in Nat /\ (i \in 1 .. L \/ i = L + 1)
    BY <2>1, <2>4
  <2> QED
    BY <2>6, <2>9, <2>10, <2>11 DEF Queued
<1> QED
  BY <1>2, <1>3

(* One event read is the first one gone. *)
LEMMA DrainQueued ==
  ASSUME VoicesTypeOK, Queued, RingRoom, DrainOne
  PROVE  Queued'
<1> DEFINE N == NextToRead
           L == Len(sent)
<1>1. /\ blk = "drain" /\ cursor # limit /\ N = cursor /\ NextToRead' = After(N)
      /\ sent' = Tail(sent) /\ s_events' = s_events /\ s_evt_head' = s_evt_head
  BY DEF DrainOne, NextToRead, ring
<1>2. L \in Nat \ {0} /\ sent # <<>>
  BY <1>1, DrainReads
<1>3. /\ N \in Counters /\ s_evt_head \in Counters /\ L <= QueueLen
      /\ L = Used(s_evt_head, N)
  BY ReadBounds, Sizes DEF RingRoom
<1>4. Len(sent') = L - 1 /\ \A i \in 1 .. L - 1 : sent'[i] = sent[i + 1]
  BY <1>1, <1>2 DEF VoicesTypeOK
<1>5. Used(s_evt_head, After(N)) = L - 1
  BY <1>2, <1>3, UsedMoves
<1>6. ASSUME NEW i \in 1 .. L - 1
      PROVE  sent'[i] = QueueEntry(i)'
  <2> DEFINE x == After(N) + i - 1
             y == N + (i + 1) - 1
  <2>1. i \in 1 .. QueueLen /\ i + 1 \in 1 .. L
    BY <1>2, <1>3, Sizes
  <2>2. x % QueueLen = y % QueueLen /\ x \in Nat
    BY <1>3, <2>1, NextRingSlot
  <2>3. y \in Nat
    BY <1>3, <2>1, Sizes DEF Counters
  <2>4. sent[i + 1] = s_events[Slot(y % CounterMod)]
    BY <2>1 DEF Queued, QueueEntry
  <2> HIDE DEF x, y
  <2>5. QueueEntry(i)' = s_events[Slot(x % CounterMod)]
    BY <1>1 DEF QueueEntry, x
  <2>6. Slot(x % CounterMod) = Slot(y % CounterMod)
    BY <2>2, <2>3, SlotWraps
  <2> QED
    BY <1>4, <2>4, <2>5, <2>6
<1> QED
  BY <1>1, <1>4, <1>5, <1>6 DEF Queued

(* The ring stays the queue of what was sent, ... *)
LEMMA QueueStep ==
  ASSUME VoicesTypeOK, Queued, RingRoom, [VoicesNext]_voicesVars
  PROVE  Queued'
<1> USE DEF ring, task, history
<1>1. ASSUME UNCHANGED <<s_events, s_evt_head, sent>>, NextToRead' = NextToRead
      PROVE  Queued'
  BY <1>1 DEF Queued, QueueEntry
<1>2. CASE BlockBegin
  BY <1>1, <1>2 DEF BlockBegin, NextToRead
<1>3. CASE NullBlock
  <2>1. CASE s_unbound_blocks < HoldBlocks
    BY <1>1, <1>3, <2>1 DEF NullBlock, NextToRead
  <2>2. CASE ~(s_unbound_blocks < HoldBlocks)
    <3>1. /\ s_evt_head' = s_evt_head /\ NextToRead' = s_evt_head /\ sent' = <<>>
          /\ s_evt_head \in Counters
      BY <1>3, <2>2, ReadBounds DEF NullBlock, NextToRead
    <3>2. Used(s_evt_head, s_evt_head) = 0
      BY <3>1, UsedMoves
    <3>3. Len(sent') = 0
      BY <3>1
    <3> QED
      BY <3>1, <3>2, <3>3 DEF Queued
  <2> QED
    BY <2>1, <2>2
<1>4. CASE DrainEnd
  BY <1>1, <1>4 DEF DrainEnd, NextToRead
<1>5. CASE BlockEnd
  BY <1>1, <1>5 DEF BlockEnd, NextToRead
<1>6. CASE \/ \E n \in 1 .. MaxUnison : SetUnison(n)
           \/ Detach \/ ClearVoices \/ KeepEngine \/ SetEngine \/ UNCHANGED voicesVars
  BY <1>1, <1>6 DEF SetUnison, Detach, ClearVoices, KeepEngine, SetEngine, voicesVars, NextToRead
<1> QED
  BY <1>2, <1>3, <1>4, <1>5, <1>6, PushQueued, DrainQueued DEF VoicesNext, Audio, Control

(* ... and never holds more than it has slots. *)
LEMMA RoomStep ==
  ASSUME VoicesTypeOK, Queued, RingRoom, [VoicesNext]_voicesVars
  PROVE  RingRoom'
<1> USE DEF ring, task, history
<1>1. /\ s_evt_head \in Counters /\ s_evt_tail \in Counters
      /\ cursor \in Counters /\ limit \in Counters
  BY Sizes DEF VoicesTypeOK, Counters
<1>2. \A a, b \in Counters : Used(a, b) \in Nat /\ (a # b => Used(a, b) > 0) /\ Used(a, a) = 0
  <2> SUFFICES ASSUME NEW a \in Counters, NEW b \in Counters
               PROVE  Used(a, b) \in Nat /\ (a # b => Used(a, b) > 0) /\ Used(a, a) = 0
    OBVIOUS
  <2>1. Used(a, b) \in Counters
    BY Counting
  <2>2. (a # b => Used(a, b) > 0) /\ Used(a, a) = 0
    BY UsedMoves
  <2> QED
    BY <2>1, <2>2, Sizes DEF Counters
<1>3. ASSUME UNCHANGED <<s_evt_head, s_evt_tail, cursor, limit>>, blk' = "drain" => blk = "drain"
      PROVE  RingRoom'
  BY <1>1, <1>2, <1>3 DEF RingRoom
<1>4. ASSUME NEW e \in Event, Push(e)
      PROVE  RingRoom'
  <2>1. CASE Full
    BY <1>3, <1>4, <2>1 DEF Push
  <2>2. CASE ~Full
    <3>1. /\ s_evt_head' = After(s_evt_head)
          /\ UNCHANGED <<s_evt_tail, cursor, limit, blk>>
          /\ Used(s_evt_head, s_evt_tail) < QueueLen
      BY <1>1, <1>2, <1>4, <2>2, Sizes DEF Push, Full
    <3>2. Used(After(s_evt_head), s_evt_tail) = Used(s_evt_head, s_evt_tail) + 1
      BY <1>1, <3>1, UsedMoves
    <3>3. CASE blk # "drain"
      BY <1>1, <1>2, <3>1, <3>2, <3>3, Sizes DEF RingRoom
    <3>4. CASE blk = "drain"
      <4>1. /\ Used(s_evt_head, cursor) < QueueLen /\ Used(s_evt_head, limit) < QueueLen
        BY <1>1, <1>2, <3>1, <3>4, Sizes DEF RingRoom
      <4>2. /\ Used(After(s_evt_head), cursor) = Used(s_evt_head, cursor) + 1
            /\ Used(After(s_evt_head), limit) = Used(s_evt_head, limit) + 1
        BY <1>1, <4>1, UsedMoves
      <4> QED
        BY <1>1, <1>2, <3>1, <3>2, <3>4, <4>2, Sizes DEF RingRoom
    <3> QED
      BY <3>3, <3>4
  <2> QED
    BY <2>1, <2>2
<1>5. CASE BlockBegin
  BY <1>1, <1>2, <1>5, Sizes DEF BlockBegin, RingRoom
<1>6. CASE NullBlock
  BY <1>1, <1>2, <1>3, <1>6, Sizes DEF NullBlock, RingRoom
<1>7. CASE DrainOne
  <2>1. /\ cursor' = After(cursor) /\ UNCHANGED <<s_evt_head, s_evt_tail, limit, blk>>
        /\ blk = "drain" /\ cursor # limit
    BY <1>7 DEF DrainOne
  <2>2. Used(limit, cursor) > 0 /\ Used(s_evt_head, cursor) > 0
    BY <1>1, <1>2, <2>1 DEF RingRoom
  <2>3. /\ Used(limit, After(cursor)) = Used(limit, cursor) - 1
        /\ Used(s_evt_head, After(cursor)) = Used(s_evt_head, cursor) - 1
    BY <1>1, <2>2, UsedMoves
  <2>4. Used(cursor, s_evt_tail) < QueueLen
    BY <1>1, <1>2, <2>1, <2>2, Sizes DEF RingRoom
  <2>5. Used(After(cursor), s_evt_tail) = Used(cursor, s_evt_tail) + 1
    BY <1>1, <2>4, UsedMoves
  <2> QED
    BY <1>1, <1>2, <2>1, <2>3, <2>5, Sizes DEF RingRoom
<1>8. CASE DrainEnd
  BY <1>1, <1>2, <1>8, Sizes DEF DrainEnd, RingRoom
<1>9. CASE \/ BlockEnd \/ \E n \in 1 .. MaxUnison : SetUnison(n)
           \/ Detach \/ ClearVoices \/ KeepEngine \/ SetEngine \/ UNCHANGED voicesVars
  BY <1>3, <1>9 DEF BlockEnd, SetUnison, Detach, ClearVoices, KeepEngine, SetEngine, voicesVars
<1> QED
  BY <1>4, <1>5, <1>6, <1>7, <1>8, <1>9 DEF VoicesNext, Audio, Control

-----------------------------------------------------------------------------
(* The hold. *)

(* As long as the voices may be played on, the hold is not over. *)
LEMMA HeldStep ==
  ASSUME VoicesTypeOK, Held, [VoicesNext]_voicesVars
  PROVE  Held'
<1> USE DEF ring, pool, binding, task, history
<1>1. /\ s_engine \in {"bound", "leaving", "gone"} /\ passed \in 0 .. 2
      /\ s_unbound_blocks \in Nat /\ switches \in Nat
      /\ blk \in {"idle", "null", "drain", "render"}
  BY HoldAssumption DEF VoicesTypeOK
<1>2. ASSUME UNCHANGED pool
      PROVE  Silent' <=> Silent
  BY <1>2 DEF Silent, Gated
<1>3. ASSUME UNCHANGED <<pool, binding, blk>>
      PROVE  Held'
  BY <1>2, <1>3 DEF Held, MayKeep
<1>4. CASE BlockBegin
  BY <1>1, <1>2, <1>4 DEF BlockBegin, Held, MayKeep
<1>5. CASE NullBlock
  <2>1. /\ UNCHANGED <<pool, s_engine, switches>> /\ passed' = Boundary
        /\ blk = "null" /\ blk' = "idle"
    BY <1>5 DEF NullBlock
  <2>2. Silent' <=> Silent
    BY <1>2, <2>1
  <2>3. \/ s_unbound_blocks' = s_unbound_blocks + 1
        \/ s_unbound_blocks' = s_unbound_blocks
    BY <1>5 DEF NullBlock
  <2>4. switches >= 1 /\ (s_engine = "bound" => passed < 2 \/ Silent)
    BY <2>1 DEF Held
  <2>5. ASSUME MayKeep', ~Silent'
        PROVE  s_unbound_blocks' = 0 \/ s_unbound_blocks' + 2 <= 2 * switches' + passed'
    <3>1. MayKeep /\ passed < 2
      BY <1>1, <2>1, <2>2, <2>4, <2>5 DEF MayKeep, Boundary
    <3>2. s_unbound_blocks = 0 \/ s_unbound_blocks + 2 <= 2 * switches + passed
      BY <2>2, <2>5, <3>1 DEF Held
    <3>3. passed' = passed + 1 /\ switches' = switches
      BY <2>1, <3>1 DEF Boundary
    <3> QED
      BY <1>1, <2>3, <2>4, <3>2, <3>3
  <2> QED
    BY <2>1, <2>5 DEF Held
<1>6. CASE DrainOne
  <2>1. UNCHANGED <<binding, blk>> /\ blk = "drain"
    BY <1>6 DEF DrainOne
  <2> QED
    BY <2>1 DEF Held
<1>7. CASE DrainEnd
  BY <1>7, <1>2 DEF DrainEnd, Held, MayKeep
<1>8. CASE BlockEnd
  <2>1. UNCHANGED <<s_engine, s_unbound_blocks, switches>> /\ blk = "render" /\ blk' = "idle"
    BY <1>8 DEF BlockEnd
  <2> QED
    BY <2>1 DEF Held
<1>9. CASE Detach
  <2>1. /\ UNCHANGED <<s_unbound_blocks, pool, blk>> /\ s_engine = "bound"
        /\ s_engine' = "leaving" /\ passed' = 0 /\ switches' = switches + 1
    BY <1>9 DEF Detach
  <2>2. Silent' <=> Silent
    BY <1>2, <2>1
  <2>3. Silent \/ s_unbound_blocks = 0 \/ s_unbound_blocks + 2 <= 2 * switches + passed
    BY <2>1 DEF Held, MayKeep
  <2>4. Silent' \/ s_unbound_blocks' = 0 \/ s_unbound_blocks' + 2 <= 2 * switches' + passed'
    BY <1>1, <2>1, <2>2, <2>3
  <2> QED
    BY <1>1, <2>1, <2>4 DEF Held
<1>10. CASE ClearVoices
  <2>1. /\ UNCHANGED <<s_unbound_blocks, switches, blk>> /\ s_engine = "leaving" /\ passed = 2
        /\ s_engine' = "gone"
    BY <1>10 DEF ClearVoices
  <2> QED
    BY <2>1 DEF Held, MayKeep
<1>11. CASE KeepEngine
  <2>1. UNCHANGED <<s_unbound_blocks, passed, switches, pool, blk>> /\ s_engine' = "bound"
    BY <1>11 DEF KeepEngine
  <2>2. s_engine = "leaving" /\ passed < 2
    BY <1>11 DEF KeepEngine
  <2> QED
    BY <1>2, <2>1, <2>2 DEF Held, MayKeep
<1>12. CASE SetEngine
  <2>1. /\ UNCHANGED <<s_unbound_blocks, passed, switches, blk>>
        /\ s_engine = "gone" /\ s_engine' = "bound"
    BY <1>12 DEF SetEngine
  <2>2. Silent'
    <3>1. s_voices' = Reset /\ s_sustain' = FALSE
      BY <1>12 DEF SetEngine
    <3> QED
      BY <3>1, ResetTyped DEF Silent, Gated
  <2> QED
    BY <2>1, <2>2 DEF Held
<1>13. ASSUME NEW e \in Event, Push(e)
       PROVE  Held'
  BY <1>3, <1>13 DEF Push
<1>14. ASSUME NEW n \in 1 .. MaxUnison, SetUnison(n)
       PROVE  Held'
  BY <1>3, <1>14 DEF SetUnison
<1>15. CASE UNCHANGED voicesVars
  BY <1>3, <1>15 DEF voicesVars
<1> QED
  BY <1>4, <1>5, <1>6, <1>7, <1>8, <1>9, <1>10, <1>11, <1>12, <1>13, <1>14, <1>15
  DEF VoicesNext, Audio, Control

-----------------------------------------------------------------------------
(* Releases on their way. *)

(* A key or pedal that is down stays so, or the event says that it goes up. *)
LEMMA PlayedEnds ==
  ASSUME NEW e \in Event, Push(e)
  PROVE  /\ \A n \in keys : n \in keys' \/ Releases(e, n)
         /\ \A n \in Notes : Presses(e, n) => n \in keys'
         /\ pedal => pedal' \/ Lifts(e)
         /\ e.type = "SustainOn" => pedal'
<1>1. keys' = PlayedKeys(e) /\ pedal' = PlayedPedal(e)
  BY DEF Push
<1>2. /\ \A n \in keys : n \in keys' \/ Releases(e, n)
      /\ \A n \in Notes : Presses(e, n) => n \in keys'
  BY <1>1 DEF PlayedKeys, Releases, Presses
<1>3. pedal => pedal' \/ Lifts(e)
  BY <1>1 DEF PlayedPedal, Lifts
<1>4. e.type = "SustainOn" => pedal'
  BY <1>1 DEF PlayedPedal
<1> QED
  BY <1>2, <1>3, <1>4

(* What a push that is not dropped does. *)
LEMMA Pushed ==
  ASSUME VoicesTypeOK, NEW e \in Event, Push(e), ~s_evt_dropped'
  PROVE  /\ ~s_evt_dropped /\ Len(sent) \in Nat /\ Len(sent') = Len(sent) + 1
         /\ sent'[Len(sent')] = e /\ \A i \in 1 .. Len(sent) : sent'[i] = sent[i]
<1>1. ~Full
  BY DEF Push
<1>2. sent' = Append(sent, e) /\ sent \in Seq(Event) /\ UNCHANGED s_evt_dropped
  BY <1>1 DEF Push, VoicesTypeOK
<1> QED
  BY <1>2

(* What one event applied does to the ring. *)
LEMMA Popped ==
  ASSUME VoicesTypeOK, Queued, RingRoom, DrainOne
  PROVE  /\ Apply(sent[1]) /\ sent[1] \in Event /\ Len(sent) \in Nat \ {0}
         /\ Len(sent') = Len(sent) - 1
         /\ \A i \in 1 .. Len(sent') : sent'[i] = sent[i + 1]
         /\ UNCHANGED <<keys, pedal, s_evt_dropped>>
<1>1. blk = "drain" /\ cursor # limit
  BY DEF DrainOne
<1>2. /\ Len(sent) \in Nat \ {0} /\ sent # <<>> /\ sent[1] \in Event
      /\ Apply(sent[1])
  BY <1>1, DrainReads DEF DrainOne
<1>3. sent' = Tail(sent) /\ sent \in Seq(Event)
  BY DEF DrainOne, VoicesTypeOK
<1> QED
  BY <1>2, <1>3 DEF DrainOne, ring

(* A press in the ring stays followed by its release while the key is up. *)
LEMMA PressesStep ==
  ASSUME VoicesTypeOK, Queued, RingRoom, ~s_evt_dropped => PressesEnd, [VoicesNext]_voicesVars,
         ~s_evt_dropped'
  PROVE  PressesEnd'
<1> USE DEF ring, task, history
<1>1. ASSUME NEW e \in Event, Push(e)
      PROVE  PressesEnd'
  <2> DEFINE L == Len(sent)
  <2>1. /\ PressesEnd /\ L \in Nat /\ Len(sent') = L + 1
        /\ sent'[L + 1] = e /\ \A i \in 1 .. L : sent'[i] = sent[i]
    BY <1>1, Pushed
  <2>2. ASSUME NEW i \in 1 .. Len(sent'), NEW n \in Notes, Presses(sent'[i], n)
        PROVE  n \in keys' \/ \E j \in i + 1 .. Len(sent') : Releases(sent'[j], n)
    <3>1. CASE i = L + 1
      BY <1>1, <2>1, <2>2, <3>1, PlayedEnds
    <3>2. CASE i \in 1 .. L
      <4>1. n \in keys \/ \E j \in i + 1 .. L : Releases(sent[j], n)
        BY <2>1, <2>2, <3>2 DEF PressesEnd
      <4>2. CASE n \in keys
        <5>1. n \in keys' \/ Releases(e, n)
          BY <1>1, <4>2, PlayedEnds
        <5>2. L + 1 \in i + 1 .. Len(sent')
          BY <2>1, <3>2
        <5> QED
          BY <2>1, <5>1, <5>2
      <4>3. ASSUME NEW j \in i + 1 .. L, Releases(sent[j], n)
            PROVE  \E k \in i + 1 .. Len(sent') : Releases(sent'[k], n)
        <5>1. j \in 1 .. L /\ j \in i + 1 .. Len(sent')
          BY <2>1, <3>2
        <5> QED
          BY <2>1, <4>3, <5>1
      <4> QED
        BY <4>1, <4>2, <4>3
    <3> QED
      BY <2>1, <3>1, <3>2
  <2>3. ASSUME NEW i \in 1 .. Len(sent'), sent'[i].type = "SustainOn"
        PROVE  pedal' \/ \E j \in i + 1 .. Len(sent') : Lifts(sent'[j])
    <3>1. CASE i = L + 1
      BY <1>1, <2>1, <2>3, <3>1, PlayedEnds
    <3>2. CASE i \in 1 .. L
      <4>1. pedal \/ \E j \in i + 1 .. L : Lifts(sent[j])
        BY <2>1, <2>3, <3>2 DEF PressesEnd
      <4>2. CASE pedal
        <5>1. pedal' \/ Lifts(e)
          BY <1>1, <4>2, PlayedEnds
        <5>2. L + 1 \in i + 1 .. Len(sent')
          BY <2>1, <3>2
        <5> QED
          BY <2>1, <5>1, <5>2
      <4>3. ASSUME NEW j \in i + 1 .. L, Lifts(sent[j])
            PROVE  \E k \in i + 1 .. Len(sent') : Lifts(sent'[k])
        <5>1. j \in 1 .. L /\ j \in i + 1 .. Len(sent')
          BY <2>1, <3>2
        <5> QED
          BY <2>1, <4>3, <5>1
      <4> QED
        BY <4>1, <4>2, <4>3
    <3> QED
      BY <2>1, <3>1, <3>2
  <2> QED
    BY <2>2, <2>3 DEF PressesEnd
<1>2. CASE DrainOne
  <2> DEFINE L == Len(sent)
  <2>1. /\ L \in Nat \ {0} /\ Len(sent') = L - 1
        /\ \A i \in 1 .. Len(sent') : sent'[i] = sent[i + 1]
        /\ UNCHANGED <<keys, pedal, s_evt_dropped>>
    BY <1>2, Popped
  <2>2. ASSUME NEW i \in 1 .. Len(sent'), NEW j \in i + 1 + 1 .. L
        PROVE  j - 1 \in i + 1 .. Len(sent') /\ sent'[j - 1] = sent[j]
    <3>1. j - 1 \in i + 1 .. Len(sent') /\ j - 1 \in 1 .. Len(sent') /\ j - 1 + 1 = j
      BY <2>1
    <3> QED
      BY <2>1, <3>1
  <2>3. \A i \in 1 .. Len(sent') : i + 1 \in 1 .. L
    BY <2>1
  <2> QED
    BY <2>1, <2>2, <2>3 DEF PressesEnd
<1>3. CASE NullBlock
  <2>1. sent' = sent \/ sent' = <<>>
    BY <1>3 DEF NullBlock
  <2>2. UNCHANGED <<keys, pedal, s_evt_dropped>>
    BY <1>3 DEF NullBlock
  <2>3. sent' = <<>> => 1 .. Len(sent') = {}
    OBVIOUS
  <2> QED
    BY <2>1, <2>2, <2>3 DEF PressesEnd
<1>4. CASE UNCHANGED <<sent, keys, pedal, s_evt_dropped>>
  BY <1>4 DEF PressesEnd
<1>5. CASE BlockBegin \/ DrainEnd \/ BlockEnd \/ \E n \in 1 .. MaxUnison : SetUnison(n)
  BY <1>4, <1>5 DEF BlockBegin, DrainEnd, BlockEnd, SetUnison
<1>6. CASE Detach \/ ClearVoices \/ KeepEngine \/ SetEngine \/ UNCHANGED voicesVars
  BY <1>4, <1>6 DEF Detach, ClearVoices, KeepEngine, SetEngine, voicesVars
<1> QED
  BY <1>1, <1>2, <1>3, <1>5, <1>6 DEF VoicesNext, Audio, Control

(* What was to end a note does so still, unless it is what was just applied. *)
LEMMA EndsStay ==
  ASSUME NEW L \in Nat \ {0}, Len(sent) = L, Len(sent') = L - 1, UNCHANGED <<keys, pedal>>,
         \A i \in 1 .. L - 1 : sent'[i] = sent[i + 1]
  PROVE  /\ \A n \in Notes : NoteEnds(n) => Releases(sent[1], n) \/ NoteEnds(n)'
         /\ pedal \/ (\E j \in 1 .. L : Lifts(sent[j])) =>
              \/ Lifts(sent[1])
              \/ pedal' \/ \E j \in 1 .. L - 1 : Lifts(sent'[j])
<1>1. ASSUME NEW j \in 1 .. L, j # 1
      PROVE  j - 1 \in 1 .. L - 1 /\ sent'[j - 1] = sent[j]
  <2>1. j - 1 \in 1 .. L - 1 /\ j - 1 + 1 = j
    BY <1>1
  <2> QED
    BY <2>1
<1>2. ASSUME NEW n \in Notes, NoteEnds(n), ~Releases(sent[1], n)
      PROVE  NoteEnds(n)'
  BY <1>1, <1>2 DEF NoteEnds
<1>3. ASSUME NEW j \in 1 .. L, Lifts(sent[j]), ~Lifts(sent[1])
      PROVE  \E k \in 1 .. L - 1 : Lifts(sent'[k])
  BY <1>1, <1>3
<1> QED
  BY <1>2, <1>3

(* The event at the head lets go of every voice it was to end, and a voice   *)
(* it strikes has its release behind it.                                     *)
LEMMA ApplyEnds ==
  ASSUME VoicesTypeOK, Queued, RingRoom, PressesEnd, VoicesEnd, DrainOne
  PROVE  VoicesEnd'
<1> DEFINE L == Len(sent)
           e == sent[1]
<1>1. /\ Apply(e) /\ e \in Event /\ L \in Nat \ {0} /\ Len(sent') = L - 1
      /\ \A i \in 1 .. L - 1 : sent'[i] = sent[i + 1] /\ UNCHANGED <<keys, pedal>>
  BY Popped
<1>2. UNCHANGED <<keys, pedal>>
  BY Popped
<1>3. /\ s_voices \in [Voices -> Voice] /\ s_sustain \in BOOLEAN
      /\ s_voices' \in [Voices -> Voice] /\ s_sustain' \in BOOLEAN
  BY <1>1, ApplyTyped DEF VoicesTypeOK, Voice
<1>4. \A n \in Notes : NoteEnds(n) => Releases(e, n) \/ NoteEnds(n)'
  BY <1>1, <1>2, EndsStay
<1>5. pedal \/ (\E j \in 1 .. L : Lifts(sent[j])) =>
        Lifts(e) \/ pedal' \/ \E j \in 1 .. L - 1 : Lifts(sent'[j])
  BY <1>1, <1>2, EndsStay
<1>6. ASSUME NEW n \in Notes, Presses(e, n)
      PROVE  NoteEnds(n)'
  <2>1. n \in keys \/ \E j \in 1 + 1 .. L : Releases(sent[j], n)
    BY <1>1, <1>6 DEF PressesEnd
  <2>2. ASSUME NEW j \in 1 + 1 .. L
        PROVE  j - 1 \in 1 .. L - 1 /\ sent'[j - 1] = sent[j]
    <3>1. j - 1 \in 1 .. L - 1 /\ j - 1 + 1 = j
      BY <1>1
    <3> QED
      BY <1>1, <3>1
  <2> QED
    BY <1>1, <1>2, <2>1, <2>2 DEF NoteEnds
<1>7. e.type = "SustainOn" => pedal' \/ \E j \in 1 .. L - 1 : Lifts(sent'[j])
  <2>1. ASSUME NEW j \in 1 + 1 .. L
        PROVE  j - 1 \in 1 .. L - 1 /\ sent'[j - 1] = sent[j]
    <3>1. j - 1 \in 1 .. L - 1 /\ j - 1 + 1 = j
      BY <1>1
    <3> QED
      BY <1>1, <3>1
  <2> QED
    BY <1>1, <1>2, <2>1 DEF PressesEnd
<1>8. s_sustain' => pedal' \/ \E j \in 1 .. L - 1 : Lifts(sent'[j])
  <2>1. s_sustain => Lifts(e) \/ pedal' \/ \E j \in 1 .. L - 1 : Lifts(sent'[j])
    BY <1>5 DEF VoicesEnd
  <2>2. Lifts(e) => ~s_sustain'
    BY <1>1 DEF Apply, Lifts, PedalUp
  <2>3. s_sustain' => s_sustain \/ e.type = "SustainOn"
    BY <1>1 DEF Apply, NoteOn, LetGo, AllSoundOff, PedalUp
  <2> QED
    BY <1>7, <2>1, <2>2, <2>3
<1> DEFINE Ends(v) == IF s_voices[v].held THEN s_sustain ELSE NoteEnds(s_voices[v].note)
<1>9. ASSUME NEW v \in Voices, s_voices'[v] = s_voices[v], Gated(v), s_sustain => s_sustain',
             ~Releases(e, s_voices[v].note)
      PROVE  Ends(v)'
  <2>1. Ends(v) /\ s_voices[v].note \in Notes
    BY <1>3, <1>9 DEF VoicesEnd, Voice
  <2> QED
    BY <1>4, <1>9, <2>1
<1>10. ASSUME NEW v \in Voices, Gated(v)' PROVE Ends(v)'
  <2> DEFINE gone  == [s_voices[v] EXCEPT !.gate = FALSE, !.held = FALSE]
             quiet == [s_voices[v] EXCEPT !.active = FALSE, !.gate = FALSE, !.held = FALSE]
  <2>0. ~gone.gate /\ ~quiet.gate
    <3>1. s_voices[v] \in Voice
      BY <1>3
    <3> QED
      BY <3>1, VoiceSteps, Zenon
  <2> HIDE DEF gone, quiet
  <2>1. CASE e.type = "NoteOn" /\ NoteOn(e.note)
    <3>1. PICK s \in Struck(e.note) :
            s_voices' = [v_1 \in Voices |->
                          IF v_1 \in Range(s)
                          THEN [active |-> TRUE, gate |-> TRUE, held |-> FALSE, note |-> e.note]
                          ELSE s_voices[v_1]]
      BY <2>1 DEF NoteOn
    <3>2. PICK n \in Notes : n = e.note
      BY <1>1, <2>1, EventNote DEF Keyed
    <3>3. CASE v \in Range(s)
      <4>1. s_voices'[v] = [active |-> TRUE, gate |-> TRUE, held |-> FALSE, note |-> n]
        BY <3>1, <3>2, <3>3
      <4>2. ~s_voices'[v].held /\ s_voices'[v].note = n
        BY <4>1, NewVoices, Zenon
      <4>3. NoteEnds(n)'
        BY <1>6, <2>1, <3>2 DEF Presses
      <4> QED
        BY <4>2, <4>3
    <3>4. CASE v \notin Range(s)
      <4>1. s_voices'[v] = s_voices[v] /\ s_sustain' = s_sustain
        BY <2>1, <3>1, <3>4 DEF NoteOn
      <4>2. Gated(v) /\ ~Releases(e, s_voices[v].note)
        BY <1>10, <2>1, <4>1 DEF Gated, Releases
      <4> QED
        BY <1>9, <4>1, <4>2
    <3> QED
      BY <3>3, <3>4
  <2>2. ASSUME NEW V \in SUBSET Voices, LetGo(V), v \in V
        PROVE  Ends(v)'
    <3>1. s_sustain' = s_sustain
      BY <2>2 DEF LetGo
    <3>2. CASE s_sustain
      <4>1. s_voices'[v] = [s_voices[v] EXCEPT !.held = TRUE]
        BY <2>2, <3>2 DEF LetGo
      <4>2. s_voices'[v].held
        BY <1>3, <4>1, VoiceSteps
      <4> QED
        BY <3>1, <3>2, <4>2
    <3>3. CASE ~s_sustain
      <4>1. s_voices'[v] = gone
        BY <2>2, <3>3 DEF LetGo, gone
      <4>2. ~s_voices'[v].gate
        BY <2>0, <4>1, Zenon
      <4> QED
        BY <1>10, <4>2 DEF Gated
    <3> QED
      BY <3>2, <3>3
  <2>3. ASSUME NEW V \in SUBSET Voices, LetGo(V), v \notin V,
               Gated(v) => ~Releases(e, s_voices[v].note)
        PROVE  Ends(v)'
    <3>1. s_voices'[v] = s_voices[v] /\ s_sustain' = s_sustain
      BY <2>3 DEF LetGo
    <3>2. Gated(v)
      BY <1>10, <3>1 DEF Gated
    <3> QED
      BY <1>9, <2>3, <3>1, <3>2
  <2>4. CASE e.type = "NoteOff" /\ LetGo(Again(e.note))
    <3>1. Again(e.note) \in SUBSET Voices
      BY DEF Again
    <3>2. v \notin Again(e.note) => (Gated(v) => ~Releases(e, s_voices[v].note))
      BY <2>4 DEF Again, Releases
    <3> QED
      BY <2>2, <2>3, <2>4, <3>1, <3>2
  <2>5. CASE e.type = "AllNotesOff" /\ LetGo({u \in Voices : Gated(u)})
    BY <2>2, <2>3, <2>5
  <2>6. CASE AllSoundOff
    <3>1. s_voices'[v] = quiet
      BY <2>6 DEF AllSoundOff, quiet
    <3>2. ~s_voices'[v].gate
      BY <2>0, <3>1, Zenon
    <3> QED
      BY <1>10, <3>2 DEF Gated
  <2>7. CASE e.type = "SustainOn" /\ PedalDown
    <3>1. s_voices'[v] = s_voices[v] /\ s_sustain'
      BY <2>7 DEF PedalDown
    <3>2. Gated(v) /\ ~Releases(e, s_voices[v].note)
      BY <1>10, <2>7, <3>1 DEF Gated, Releases
    <3> QED
      BY <1>9, <3>1, <3>2
  <2>8. CASE e.type = "SustainOff" /\ PedalUp
    <3>1. s_voices'[v] = IF s_voices[v].active /\ s_voices[v].held
                         THEN gone ELSE s_voices[v]
      BY <2>8 DEF PedalUp, gone
    <3>2. CASE s_voices[v].active /\ s_voices[v].held
      <4>1. s_voices'[v] = gone
        BY <3>1, <3>2
      <4>2. ~s_voices'[v].gate
        BY <2>0, <4>1, Zenon
      <4> QED
        BY <1>10, <4>2 DEF Gated
    <3>3. CASE ~(s_voices[v].active /\ s_voices[v].held)
      <4>1. s_voices'[v] = s_voices[v] /\ Gated(v) /\ ~s_voices[v].held
        BY <1>10, <3>1, <3>3 DEF Gated
      <4>2. ~Releases(e, s_voices[v].note) /\ s_voices[v].note \in Notes
        BY <1>3, <2>8 DEF Releases, Voice
      <4>3. NoteEnds(s_voices[v].note)
        BY <4>1 DEF VoicesEnd
      <4>4. NoteEnds(s_voices[v].note)' /\ ~s_voices'[v].held
        BY <1>4, <4>1, <4>2, <4>3
      <4> QED
        BY <4>4
    <3> QED
      BY <3>2, <3>3
  <2> QED
    BY <1>1, <2>1, <2>4, <2>5, <2>6, <2>7, <2>8 DEF Apply
<1> QED
  BY <1>1, <1>8, <1>10 DEF VoicesEnd

(* Whatever is gated keeps its release, unless the ring had to drop one.     *)
LEMMA VoicesStep ==
  ASSUME VInv, [VoicesNext]_voicesVars, ~s_evt_dropped', MayKeep'
  PROVE  VoicesEnd'
<1> USE DEF ring, pool, binding, task, history
<1>1. /\ VoicesTypeOK /\ Queued /\ RingRoom /\ Held
      /\ ~s_evt_dropped => PressesEnd
      /\ ~s_evt_dropped /\ MayKeep => VoicesEnd
  BY DEF VInv
<1>2. /\ s_voices \in [Voices -> Voice] /\ passed \in 0 .. 2
      /\ s_unbound_blocks \in Nat /\ switches \in 0 .. MaxSwitches
      /\ s_engine \in {"bound", "leaving", "gone"}
  BY <1>1, HoldAssumption DEF VoicesTypeOK, Voice
<1>3. ASSUME UNCHANGED <<s_voices, s_sustain, sent, keys, pedal, s_evt_dropped>>, MayKeep
      PROVE  VoicesEnd'
  BY <1>1, <1>3 DEF VoicesEnd, NoteEnds, Gated
<1>4. ASSUME Silent'
      PROVE  VoicesEnd'
  BY <1>4 DEF VoicesEnd, Silent
<1>5. ASSUME NEW e \in Event, Push(e)
      PROVE  VoicesEnd'
  <2> DEFINE L == Len(sent)
  <2>1. /\ ~s_evt_dropped /\ L \in Nat /\ Len(sent') = L + 1
        /\ sent'[L + 1] = e /\ \A i \in 1 .. L : sent'[i] = sent[i]
    BY <1>1, <1>5, Pushed
  <2>2. UNCHANGED <<s_voices, s_sustain, s_engine, passed>>
    BY <1>5 DEF Push
  <2>3. VoicesEnd
    BY <1>1, <2>1, <2>2 DEF MayKeep
  <2>4. L + 1 \in 1 .. Len(sent') /\ \A j \in 1 .. L : j \in 1 .. Len(sent')
    BY <2>1
  <2>5. ASSUME NEW n \in Notes, NoteEnds(n)
        PROVE  NoteEnds(n)'
    <3>1. CASE n \in keys
      BY <1>5, <2>1, <2>4, <3>1, PlayedEnds DEF NoteEnds
    <3>2. CASE \E j \in 1 .. L : Releases(sent[j], n)
      BY <2>1, <2>4, <3>2 DEF NoteEnds
    <3> QED
      BY <2>5, <3>1, <3>2 DEF NoteEnds
  <2>6. ASSUME pedal \/ \E j \in 1 .. L : Lifts(sent[j])
        PROVE  pedal' \/ \E j \in 1 .. Len(sent') : Lifts(sent'[j])
    BY <1>5, <2>1, <2>4, <2>6, PlayedEnds
  <2>7. \A v \in Voices : s_voices[v].note \in Notes
    BY <1>2 DEF Voice
  <2> QED
    BY <2>2, <2>3, <2>5, <2>6, <2>7 DEF VoicesEnd, Gated
<1>6. ASSUME NEW n \in 1 .. MaxUnison, SetUnison(n)
      PROVE  VoicesEnd'
  BY <1>3, <1>6 DEF SetUnison, MayKeep
<1>7. CASE BlockBegin
  BY <1>3, <1>7 DEF BlockBegin, MayKeep
<1>8. CASE NullBlock
  <2>1. MayKeep /\ (passed < 2 \/ Silent)
    <3>1. s_engine' = s_engine /\ passed' = Boundary /\ blk = "null"
      BY <1>8 DEF NullBlock
    <3>2. CASE s_engine = "bound"
      BY <1>1, <3>1, <3>2 DEF MayKeep, Held
    <3>3. CASE s_engine # "bound"
      BY <1>2, <3>1, <3>3 DEF MayKeep, Boundary
    <3> QED
      BY <3>2, <3>3
  <2>2. UNCHANGED <<s_voices, s_sustain, keys, pedal, s_evt_dropped>>
    BY <1>8 DEF NullBlock
  <2>3. CASE Silent
    BY <1>4, <2>2, <2>3 DEF Silent, Gated
  <2>4. CASE ~Silent
    <3>1. switches >= 1 /\ (s_unbound_blocks = 0 \/ s_unbound_blocks + 2 <= 2 * switches + passed)
      BY <1>1, <1>8, <2>1, <2>4 DEF NullBlock, Held
    <3>2. s_unbound_blocks < HoldBlocks
      BY <1>2, <2>1, <2>4, <3>1, HoldAssumption
    <3>3. UNCHANGED sent
      BY <1>8, <3>2 DEF NullBlock
    <3> QED
      BY <1>3, <2>1, <2>2, <3>3
  <2> QED
    BY <2>3, <2>4
<1>9. CASE DrainOne
  <2>1. ~s_evt_dropped /\ MayKeep
    BY <1>1, <1>9 DEF DrainOne, MayKeep
  <2> QED
    BY <1>1, <1>9, <2>1, ApplyEnds
<1>10. CASE DrainEnd
  BY <1>3, <1>10 DEF DrainEnd, MayKeep
<1>11. CASE BlockEnd
  <2>1. PICK done \in SUBSET {v \in Voices : s_voices[v].active} :
          s_voices' = [v \in Voices |->
                         IF v \in done THEN [s_voices[v] EXCEPT !.active = FALSE]
                         ELSE s_voices[v]]
    BY <1>11 DEF BlockEnd
  <2>2. MayKeep /\ UNCHANGED <<s_sustain, sent, keys, pedal, s_evt_dropped>>
    BY <1>1, <1>2, <1>11 DEF BlockEnd, MayKeep, Held
  <2>3. VoicesEnd
    BY <1>1, <2>2
  <2>4. ASSUME NEW v \in Voices, Gated(v)'
        PROVE  s_voices'[v] = s_voices[v] /\ Gated(v)
    <3>1. CASE v \in done
      <4> DEFINE r == [s_voices[v] EXCEPT !.active = FALSE]
      <4>1. s_voices[v] \in Voice
        BY <1>2
      <4>2. ~r.active
        BY <4>1, VoiceSteps, Zenon
      <4>3. s_voices'[v] = r
        BY <2>1, <3>1
      <4> HIDE DEF r
      <4> QED
        BY <2>4, <4>2, <4>3 DEF Gated
    <3>2. CASE v \notin done
      BY <2>1, <2>4, <3>2 DEF Gated
    <3> QED
      BY <3>1, <3>2
  <2> QED
    BY <2>2, <2>3, <2>4 DEF VoicesEnd, NoteEnds
<1>12. CASE Detach
  BY <1>3, <1>12 DEF Detach, MayKeep
<1>13. CASE ClearVoices
  BY <1>13 DEF ClearVoices, MayKeep
<1>14. CASE KeepEngine
  BY <1>3, <1>14 DEF KeepEngine, MayKeep
<1>15. CASE SetEngine
  <2>1. s_voices' = Reset /\ s_sustain' = FALSE
    BY <1>15 DEF SetEngine
  <2> QED
    BY <1>4, <2>1, ResetTyped DEF Silent, Gated
<1>16. CASE UNCHANGED voicesVars
  BY <1>3, <1>16 DEF voicesVars, MayKeep
<1> QED
  BY <1>5, <1>6, <1>7, <1>8, <1>9, <1>10, <1>11, <1>12, <1>13, <1>14, <1>15, <1>16
  DEF VoicesNext, Audio, Control

-----------------------------------------------------------------------------
(* The inductive invariant holds at first, ... *)
LEMMA InitVInv == VoicesInit => VInv
<1> SUFFICES ASSUME VoicesInit PROVE VInv
  OBVIOUS
<1>1. Used(0, 0) = 0 /\ Len(sent) = 0
  BY UsedMoves, Sizes DEF VoicesInit, Counters
<1>2. VoicesTypeOK
  <2>1. /\ Reset \in [Voices -> Voice] /\ InOrder \subseteq Voices \X Voices
    BY ResetTyped
  <2>2. /\ s_events \in [0 .. QueueLen - 1 -> Event \cup {[type |-> "none"]}]
        /\ s_voices \in [Voices -> Voice] /\ sent \in Seq(Event)
    BY <2>1 DEF VoicesInit
  <2>3. /\ 0 \in 0 .. CounterMod - 1 /\ 1 \in 1 .. MaxUnison /\ 0 \in 0 .. HoldBlocks
        /\ 0 \in 0 .. MaxSwitches /\ 0 \in 0 .. MaxEvents
    BY Sizes, HoldAssumption
  <2>4. /\ s_evt_head = 0 /\ s_evt_tail = 0 /\ s_evt_dropped \in BOOLEAN
        /\ older = InOrder /\ s_sustain \in BOOLEAN /\ s_unison = 1
        /\ s_engine = "bound" /\ passed = 0 /\ s_unbound_blocks = 0 /\ switches = 0
        /\ blk = "idle" /\ cursor = 0 /\ limit = 0
        /\ keys \in SUBSET Notes /\ pedal \in BOOLEAN /\ pushes = 0
    BY DEF VoicesInit
  <2> QED
    BY <2>1, <2>2, <2>3, <2>4 DEF VoicesTypeOK, Voice
<1>3. Queued /\ RingRoom
  BY <1>1, Sizes DEF VoicesInit, Queued, RingRoom, NextToRead
<1>4. Held
  BY ResetTyped DEF VoicesInit, Held, MayKeep
<1>5. PressesEnd
  BY <1>1 DEF PressesEnd
<1>6. VoicesEnd
  BY ResetTyped DEF VoicesInit, VoicesEnd, Gated
<1> QED
  BY <1>2, <1>3, <1>4, <1>5, <1>6 DEF VInv

(* ... and in every reachable state.                                         *)
THEOREM VoicesInductive == VoicesSpec => []VInv
<1>1. VInv /\ [VoicesNext]_voicesVars => VInv'
  <2> SUFFICES ASSUME VInv, [VoicesNext]_voicesVars PROVE VInv'
    OBVIOUS
  <2>1. VoicesTypeOK /\ Queued /\ RingRoom /\ Held /\ (~s_evt_dropped => PressesEnd)
    BY DEF VInv
  <2>2. VoicesTypeOK' /\ Queued' /\ RingRoom' /\ Held'
    BY <2>1, TypeStep, QueueStep, RoomStep, HeldStep
  <2>3. ~s_evt_dropped' => PressesEnd'
    BY <2>1, PressesStep
  <2>4. ~s_evt_dropped' /\ MayKeep' => VoicesEnd'
    BY VoicesStep
  <2> QED
    BY <2>2, <2>3, <2>4 DEF VInv
<1> QED
  BY <1>1, InitVInv, PTL DEF VoicesSpec

(* The audio task applies exactly what was accepted, in order: the counters  *)
(* may wrap, pushes fall into a drain, and the ring be held and discarded.   *)
THEOREM RingSafe == VoicesSpec => []RingIsQueue
<1>1. VInv => RingIsQueue
  BY DEF VInv, Queued, QueueEntry, RingIsQueue
<1> QED
  BY <1>1, VoicesInductive, PTL

(* Once all that was pushed is applied, what is gated is a key that is down  *)
(* or what the pedal holds, over any number of engine switches that complete *)
(* or are given up, unless the ring was full.                                *)
THEOREM NothingSticks == VoicesSpec => []NoStuckNote
<1>1. VInv => NoStuckNote
  <2> SUFFICES ASSUME VInv, sent = <<>>, ~s_evt_dropped, s_engine = "bound",
                      NEW v \in Voices, Gated(v)
               PROVE  \/ s_voices[v].note \in keys
                      \/ s_voices[v].held /\ s_sustain /\ pedal
    BY DEF NoStuckNote
  <2>1. VoicesEnd
    BY DEF VInv, MayKeep
  <2>2. 1 .. Len(sent) = {}
    OBVIOUS
  <2> QED
    BY <2>1, <2>2 DEF VoicesEnd, NoteEnds
<1> QED
  BY <1>1, VoicesInductive, PTL

-----------------------------------------------------------------------------
(* Stealing. *)

(* The first voice of some is one of them. *)
LEMMA FirstInOrder ==
  ASSUME NEW V \in SUBSET Voices, V # {}
  PROVE  First(V) \in V
<1>1. V \in SUBSET Nat
  BY DEF Voices
<1>2. \E v \in V : \A u \in V : v <= u
  BY <1>1, Least
<1> QED
  BY <1>2 DEF First

(* A voice picked while it is gated is picked where all others are. *)
LEMMA PickedGated ==
  ASSUME NEW T, NEW v \in PickFrom(T), NEW w \in Voices, v = w, Gated(w),
         s_voices \in [Voices -> Voice]
  PROVE  \A u \in Voices \ T : Gated(u)
<1> DEFINE free == Voices \ T
           idle == {u \in free : ~s_voices[u].active}
           releasing == {u \in free : s_voices[u].active /\ ~s_voices[u].gate}
<1>1. v \in IF idle # {} THEN {First(idle)}
            ELSE IF releasing # {} THEN releasing ELSE {Oldest(free)}
  BY DEF PickFrom, Pick
<1>2. idle = {}
  <2> SUFFICES ASSUME idle # {} PROVE FALSE
    OBVIOUS
  <2>1. First(idle) \in idle
    BY FirstInOrder
  <2> QED
    BY <1>1, <2>1 DEF Gated
<1>3. releasing = {}
  BY <1>1, <1>2 DEF Gated
<1> QED
  BY <1>2, <1>3 DEF Gated

(* A note takes a gated voice from another key only when no voice is idle or *)
(* releasing any more, for any pool, unison and choice among the releasing.  *)
THEOREM StealingIsLast == VoicesSpec => StealsLast
<1> DEFINE Others == \A u \in Voices : s_voices'[u].active /\ s_voices'[u].gate
           Stolen(v) == blk = "drain" /\ Gated(v) /\ s_voices'[v].gate
                        /\ s_voices'[v].note # s_voices[v].note
<1>1. ASSUME VInv, [VoicesNext]_voicesVars, NEW v \in Voices, Stolen(v)
      PROVE  Others
  <2> USE DEF ring, pool, binding, task, history
  <2>1. VoicesTypeOK /\ Queued /\ RingRoom /\ Held
    BY <1>1 DEF VInv
  <2>2. s_voices \in [Voices -> Voice]
    BY <2>1 DEF VoicesTypeOK, Voice
  <2>3. s_voices' # s_voices
    BY <1>1
  <2>4. s_engine # "gone" /\ (s_engine = "leaving" => passed = 0)
    BY <1>1, <2>1 DEF Held
  <2>5. DrainOne
    <3>1. ~BlockEnd /\ ~BlockBegin /\ ~NullBlock
      BY <1>1 DEF BlockEnd, BlockBegin, NullBlock
    <3>2. ~DrainEnd /\ ~Detach /\ ~KeepEngine /\ ~UNCHANGED voicesVars
      BY <2>3 DEF DrainEnd, Detach, KeepEngine, voicesVars
    <3>3. \A e \in Event : ~Push(e)
      BY <2>3 DEF Push
    <3>4. \A n \in 1 .. MaxUnison : ~SetUnison(n)
      BY <2>3 DEF SetUnison
    <3>5. ~ClearVoices /\ ~SetEngine
      BY <2>4 DEF ClearVoices, SetEngine
    <3> QED
      BY <1>1, <3>1, <3>2, <3>3, <3>4, <3>5 DEF VoicesNext, Audio, Control
  <2>6. Apply(sent[1]) /\ sent[1] \in Event
    BY <2>1, <2>5, Popped
  <2> DEFINE e == sent[1]
  <2>7. e.type = "NoteOn" /\ NoteOn(e.note)
    <3>1. \A r \in Voice :
            /\ [r EXCEPT !.held = TRUE].note = r.note
            /\ [r EXCEPT !.gate = FALSE, !.held = FALSE].note = r.note
            /\ [r EXCEPT !.active = FALSE, !.gate = FALSE, !.held = FALSE].note = r.note
      BY VoiceSteps
    <3>2. \A V \in SUBSET Voices : LetGo(V) => s_voices'[v].note = s_voices[v].note
      BY <2>2, <3>1 DEF LetGo
    <3>3. AllSoundOff \/ PedalDown \/ PedalUp => s_voices'[v].note = s_voices[v].note
      BY <2>2, <3>1 DEF AllSoundOff, PedalDown, PedalUp
    <3>4. Again(e.note) \in SUBSET Voices /\ {u \in Voices : Gated(u)} \in SUBSET Voices
      BY DEF Again
    <3> QED
      BY <1>1, <2>6, <3>2, <3>3, <3>4 DEF Apply
  <2>8. PICK n \in Notes : n = e.note
    BY <2>6, <2>7, EventNote DEF Keyed
  <2>9. PICK s \in Struck(n) :
          s_voices' = [u \in Voices |->
                         IF u \in Range(s)
                         THEN [active |-> TRUE, gate |-> TRUE, held |-> FALSE, note |-> n]
                         ELSE s_voices[u]]
    BY <2>7, <2>8 DEF NoteOn
  <2>10. v \in Range(s)
    BY <1>1, <2>9
  <2>11. \A u \in Range(s) : u \in Voices => s_voices'[u].active /\ s_voices'[u].gate
                                             /\ s_voices'[u].note = n
    <3>1. ASSUME NEW u \in Range(s), u \in Voices
          PROVE  s_voices'[u].active /\ s_voices'[u].gate /\ s_voices'[u].note = n
      <4>1. s_voices'[u] = [active |-> TRUE, gate |-> TRUE, held |-> FALSE, note |-> n]
        BY <2>9, <3>1
      <4> QED
        BY <4>1, NewVoices, Zenon
    <3> QED
      BY <3>1
  <2>12. PICK k \in 1 .. StackSize : s[k] = v
    BY <2>10 DEF Range, Struck
  <2> DEFINE taken == {s[j] : j \in 1 .. k - 1}
             left  == Again(n) \ taken
  <2>13. v \in IF left # {} THEN {First(left)} ELSE PickFrom(taken)
    BY <2>12 DEF Struck
  <2>14. left = {}
    <3> SUFFICES ASSUME left # {} PROVE FALSE
      OBVIOUS
    <3>1. First(left) \in left
      BY FirstInOrder DEF Again
    <3>2. s_voices[v].note = n
      BY <2>13, <3>1 DEF Again
    <3> QED
      BY <1>1, <2>10, <2>11, <3>2
  <2>15. \A u \in Voices \ taken : Gated(u)
    BY <1>1, <2>2, <2>13, <2>14, PickedGated
  <2>16. taken \subseteq Range(s)
    <3>1. StackSize \in Nat /\ s \in [1 .. StackSize -> Voices]
      BY <2>1, StackSizes DEF Struck
    <3>2. \A j \in 1 .. k - 1 : j \in DOMAIN s
      BY <3>1
    <3> QED
      BY <3>2 DEF Range
  <2>17. ASSUME NEW u \in Voices
         PROVE  s_voices'[u].active /\ s_voices'[u].gate
    <3>1. CASE u \in Range(s)
      BY <2>11, <3>1
    <3>2. CASE u \notin Range(s)
      BY <2>9, <2>15, <2>16, <3>2 DEF Gated
    <3> QED
      BY <3>1, <3>2
  <2> QED
    BY <2>17
<1>2. VInv /\ [VoicesNext]_voicesVars =>
        [\A v \in Voices :
           /\ blk = "drain" /\ Gated(v) /\ s_voices'[v].gate
           /\ s_voices'[v].note # s_voices[v].note
           => \A u \in Voices : s_voices'[u].active /\ s_voices'[u].gate]_voicesVars
  BY <1>1
<1> QED
  BY <1>2, VoicesInductive, PTL DEF VoicesSpec, StealsLast
=============================================================================
