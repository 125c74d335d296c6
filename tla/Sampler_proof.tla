---------------------------- MODULE Sampler_proof ----------------------------
(***************************************************************************)
(* Proofs about Sampler for every number of kits, slots and blocks and every *)
(* interleaving of the four tasks: no block of the pool is in two places or  *)
(* in none, undo restores what it says, and a voice smp_ctl had time to wait *)
(* for never plays a block that was freed.                                   *)
(***************************************************************************)
EXTENDS Sampler, FiniteSetTheorems, TLAPS

USE KitAssumption, PoolAssumption, SizeAssumption

Lates     == {"no", "began", "unwaited"}
JobKinds  == {"none", "commit", "erase", "undo", "copy", "clear", "dup"}
Fresh     == {"commit", "copy", "dup"}   \* put a new block on each pad
Replacing == {"kill", "wait", "store"}
Working   == Replacing \cup {"next"}

Flag   == BOOLEAN
Held   == Blocks \cup {None}
Item   == [slot : Slots, src : Held]
Jobs   == [kind : JobKinds, kit : Kits, from : Kits, slot : Slots, data : Held,
           todo : Seq(Item), waited : Flag, refused : Flag]
Voices == [of : {"none", "engine", "drum"}, data : Held, slot : Slots \cup {None},
           current : Flag, late : Lates]
Keys   == [data : Held, late : Lates]

(* What the locals of a request and of the voices can hold, ... *)
JobShape ==
  /\ job \in Jobs
  /\ pc \in Working => job.kind # "none" /\ job.kit \in UserKits
  /\ pc \notin Working => job = NoJob
  /\ pc = "next" => job.data = None
VoiceShape == voice \in Voices /\ key \in Keys

(* ... and what a pad, the stash and what it restores. *)
PadShape ==
  /\ s_undo = [kit |-> s_undo.kit, prev |-> s_undo.prev]
  /\ s_undo.prev \in [DOMAIN s_undo.prev -> Held]
  /\ \A s \in Slots : pads[Factory][s] = RomData
  /\ \A k \in UserKits : pads[k] \in [Slots -> Held]
  /\ DOMAIN s_undo.prev # {} => s_undo.kit \in UserKits
  /\ job.kind \in {"undo", "dup"} => DOMAIN s_undo.prev = {}
  /\ job.kind = "commit" => s_undo.kit = job.kit

Shape == TypeOK /\ JobShape /\ VoiceShape /\ PadShape

-----------------------------------------------------------------------------
(* The inductive invariant. *)

OnPad(p, b) == \E k \in Kits, s \in Slots : p[k][s] = b
Todo     == DOMAIN job.todo

(* The list of a request names a slot once, and a commit slots the stash     *)
(* does not have yet.                                                        *)
Lists ==
  /\ \A i, j \in Todo : job.todo[i].slot = job.todo[j].slot => i = j
  /\ \A i \in Todo : pc \in Replacing => job.todo[i].slot # job.slot
  /\ job.kind = "commit" =>
       /\ \A i \in Todo : job.todo[i].slot \notin DOMAIN s_undo.prev
       /\ pc \in Replacing => job.slot \notin DOMAIN s_undo.prev

(* Whatever is on a pad, in the stash, in the list of an undo or in          *)
(* smp_ctl's hand is allocated, and nowhere else.                            *)
Apart ==
  /\ lost \subseteq live
  /\ \A k \in UserKits, s \in Slots : pads[k][s] # None => pads[k][s] \in live \ lost
  /\ \A k, l \in UserKits, s, t \in Slots :
       pads[k][s] # None /\ pads[k][s] = pads[l][t] => k = l /\ s = t
  /\ \A s \in DOMAIN s_undo.prev : s_undo.prev[s] # None =>
       s_undo.prev[s] \in live \ lost /\ ~OnPad(pads, s_undo.prev[s])
  /\ \A s, t \in DOMAIN s_undo.prev :
       s_undo.prev[s] # None /\ s_undo.prev[s] = s_undo.prev[t] => s = t
  /\ \A i \in Todo : job.todo[i].src # None =>
       /\ job.kind = "undo"
       /\ job.todo[i].src \in live \ lost /\ ~OnPad(pads, job.todo[i].src)
       /\ job.todo[i].src # job.data
  /\ \A i, j \in Todo :
       job.todo[i].src # None /\ job.todo[i].src = job.todo[j].src => i = j
  /\ job.data # None =>
       /\ job.kind \in Fresh \cup {"undo"}
       /\ job.data \in live \ lost /\ ~OnPad(pads, job.data)
       /\ \A s \in DOMAIN s_undo.prev : s_undo.prev[s] # job.data

(* And what is allocated and not lost is in one of those places. *)
Covered ==
  \A b \in live \ lost : \/ OnPad(pads, b)
                         \/ \E s \in DOMAIN s_undo.prev : s_undo.prev[s] = b
                         \/ \E i \in Todo : job.todo[i].src = b
                         \/ job.data = b

(* Each slot of the kit the stash is of holds what it did before, or the     *)
(* stash has that; of an undo under way, or it is still to be put back.      *)
Restores ==
  /\ (DOMAIN s_undo.prev # {} \/ job.kind = "commit") /\ job.kind # "clear" =>
       \A s \in Slots :
         before[s] = IF s \in DOMAIN s_undo.prev THEN s_undo.prev[s] ELSE pads[s_undo.kit][s]
  /\ job.kind = "undo" /\ ~job.refused =>
       /\ \A i \in Todo : before[job.todo[i].slot] = job.todo[i].src
       /\ pc \in Replacing => before[job.slot] = job.data
       /\ \A s \in Slots :
            \/ before[s] = pads[job.kit][s]
            \/ \E i \in Todo : job.todo[i].slot = s
            \/ (pc \in Replacing /\ s = job.slot)

(* A voice that is not late plays a block that is on a pad; a drum bus's     *)
(* voice, on the pad of its slot.                                            *)
Playing ==
  /\ key.data # None => apc = "arm"
  /\ \A v \in {voice, key} : v.late = "no" /\ v.data # None => OnPad(pads, v.data)
  /\ voice.of = "none" => voice.data = None
  /\ voice.of = "drum" /\ voice.late = "no" /\ voice.data # None =>
       voice.slot \in Slots /\ \E k \in Kits : pads[k][voice.slot] = voice.data

(* The handshake. A voice that is not late and plays the block being         *)
(* replaced began before the kill: it is a drum voice the first block drops, *)
(* an engine voice of an old generation that the next block drops as it      *)
(* begins, or a key not armed yet. Two boundaries on, there is none.         *)
Hit(v) == /\ pc \in Replacing /\ v.late = "no" /\ v.data # None
          /\ v.data = pads[job.kit][job.slot]
Waited ==
  /\ pc = "wait" /\ boundaries = 0 => s_kill_slot = job.slot
  /\ Hit(key) => pc = "kill" \/ (pc = "wait" /\ boundaries = 0)
  /\ Hit(voice) =>
       /\ pc # "store"
       /\ voice.of = "engine" =>
            /\ ~voice.current
            /\ pc = "wait" => \/ boundaries = 0
                              \/ (boundaries = 1 /\ apc \notin {"kit", "drain"})
       /\ voice.of = "drum" /\ pc = "wait" => boundaries = 0

(* The request to stop a take, or smp_ctl at work on it, comes with the       *)
(* state that shows it.                                                      *)
Owned ==
  /\ CommitHasOwner
  /\ apc = "committing" \/ ppc = "committing" => s_stop_req \/ early

-----------------------------------------------------------------------------
(* Lemmas about the operators of the model. *)

(* SetToSeq of a finite set lists every member once. *)
LEMMA SeqOfSet ==
  ASSUME NEW S, IsFiniteSet(S)
  PROVE  /\ SetToSeq(S) \in Seq(S)
         /\ \A x \in S : \E i \in DOMAIN SetToSeq(S) : SetToSeq(S)[i] = x
         /\ \A i, j \in DOMAIN SetToSeq(S) : SetToSeq(S)[i] = SetToSeq(S)[j] => i = j
<1> DEFINE n == Cardinality(S)
           f == SetToSeq(S)
<1>1. n \in Nat /\ ExistsBijection(1 .. n, S)
  BY FS_CardinalityType
<1>2. f \in [1 .. n -> S] /\ IsInjective(f)
  BY <1>1 DEF SetToSeq, ExistsBijection, Bijection, Injection
<1>3. IsFiniteSet(1 .. n) /\ Cardinality(1 .. n) = n
  BY <1>1, FS_Interval
<1>4. f \in Surjection(1 .. n, S)
  BY <1>2, <1>3, FS_Injection DEF Injection
<1> HIDE DEF f, n
<1>5. f \in Seq(S) /\ DOMAIN f = 1 .. n
  BY <1>1, <1>2
<1>6. \A x \in S : \E i \in DOMAIN f : f[i] = x
  BY <1>4, <1>5 DEF Surjection
<1>7. \A i, j \in DOMAIN f : f[i] = f[j] => i = j
  BY <1>2 DEF IsInjective
<1> QED
  BY <1>5, <1>6, <1>7 DEF f

(* What an edit of a set of slots has to do: each of them once. *)
Names(todo, D, g) ==
  /\ todo \in Seq(Item)
  /\ \A i \in DOMAIN todo : todo[i].slot \in D /\ todo[i].src = g[todo[i].slot]
  /\ \A s \in D : \E i \in DOMAIN todo : todo[i].slot = s
  /\ \A i, j \in DOMAIN todo : todo[i].slot = todo[j].slot => i = j

(* The replacements of a set are listed, each of them once. *)
LEMMA SlotList ==
  ASSUME NEW D, D \subseteq Slots, NEW g, g \in [D -> Held],
         NEW S, S = {[slot |-> s, src |-> g[s]] : s \in D}
  PROVE  Names(SetToSeq(S), D, g)
<1> DEFINE todo == SetToSeq(S)
<1> DEFINE f == [s \in D |-> [slot |-> s, src |-> g[s]]]
<1>1. IsFiniteSet(D)
  <2>1. IsFiniteSet(0 .. NumSlots - 1)
    BY FS_Interval
  <2> QED
    BY <2>1, FS_Subset DEF Slots
<1>2. f \in Surjection(D, S)
  <2>1. f \in [D -> S]
    OBVIOUS
  <2>2. \A x \in S : \E s \in D : f[s] = x
    OBVIOUS
  <2> QED
    BY <2>1, <2>2 DEF Surjection
<1>3. IsFiniteSet(S)
  BY <1>1, <1>2, FS_Surjection
<1>4. S \subseteq Item
  BY DEF Item
<1> HIDE DEF f
<1>5. /\ todo \in Seq(S)
      /\ \A x \in S : \E i \in DOMAIN todo : todo[i] = x
      /\ \A i, j \in DOMAIN todo : todo[i] = todo[j] => i = j
  BY <1>3, SeqOfSet
<1> HIDE DEF todo
<1>6. \A i \in DOMAIN todo : todo[i] \in S
  <2> QED
    BY <1>5
<1>7. \A x \in S : x.slot \in D /\ x.src = g[x.slot] /\ x = [slot |-> x.slot, src |-> g[x.slot]]
  OBVIOUS
<1>8. todo \in Seq(Item)
  <2> QED
    BY <1>4, <1>5
<1>9. \A s \in D : [slot |-> s, src |-> g[s]] \in S
  OBVIOUS
<1>10. \A s \in D : \E i \in DOMAIN todo : todo[i].slot = s
  <2> TAKE s \in D
  <2>1. PICK i \in DOMAIN todo : todo[i] = [slot |-> s, src |-> g[s]]
    BY <1>5, <1>9
  <2>2. todo[i].slot = s
    BY <2>1
  <2> QED
    BY <2>2
<1>11. \A i, j \in DOMAIN todo : todo[i].slot = todo[j].slot => i = j
  <2> TAKE i, j \in DOMAIN todo
  <2>1. todo[i] = todo[j] => i = j
    BY <1>5
  <2>2. todo[i] \in S /\ todo[j] \in S
    BY <1>6
  <2>3. todo[i].slot = todo[j].slot => todo[i] = todo[j]
    BY <1>7, <2>2
  <2> QED
    BY <2>1, <2>3
<1> QED
  BY <1>6, <1>7, <1>8, <1>10, <1>11 DEF Names, todo

(* The same of a list that puts nothing on the slots. *)
LEMMA EmptySlots ==
  ASSUME NEW D \in SUBSET Slots,
         NEW todo, todo = SetToSeq({[slot |-> s, src |-> None] : s \in D})
  PROVE  /\ todo \in Seq(Item)
         /\ \A i \in DOMAIN todo : todo[i].src = None
         /\ \A i, j \in DOMAIN todo : todo[i].slot = todo[j].slot => i = j
<1> DEFINE g == [s \in D |-> None]
<1>1. g \in [D -> Held]
  BY DEF Held
<1>2. \A s \in D : g[s] = None
  OBVIOUS
<1> DEFINE S == {[slot |-> s, src |-> None] : s \in D}
<1> HIDE DEF g
<1>3. S = {[slot |-> s, src |-> g[s]] : s \in D}
  BY <1>2
<1>4. todo = SetToSeq(S)
  OBVIOUS
<1> HIDE DEF S
<1>5. Names(todo, D, g)
  BY <1>1, <1>3, <1>4, SlotList
<1> QED
  BY <1>2, <1>5 DEF Names

(* The allocator hands out a block that is not in use. *)
LEMMA NewBlockFact == live # Blocks /\ live \subseteq Blocks => NewBlock \in Blocks \ live
  BY DEF NewBlock

(* "None" is no block, no pad of the factory and no slot. *)
LEMMA NoneFact == /\ None \notin Blocks /\ RomData \notin Blocks /\ None # RomData
                  /\ None \notin Slots /\ Factory \notin UserKits
<1>1. None \notin Blocks
  OBVIOUS
<1>2. RomData \notin Blocks
  BY DEF RomData
<1>3. None # RomData
  BY DEF RomData
<1>4. None \notin Slots
  BY DEF Slots
<1>5. Factory \notin UserKits
  BY DEF Factory
<1> QED
  BY <1>1, <1>2, <1>3, <1>4, <1>5

(* Flag stands for BOOLEAN in the records, for the provers' sake. *)
LEMMA FlagFact == TRUE \in Flag /\ FALSE \in Flag
  BY DEF Flag

(* An empty stash, and nothing to do. *)
Blank(u) == /\ u = [kit |-> u.kit, prev |-> u.prev]
            /\ DOMAIN u.prev = {} /\ u.prev \in [DOMAIN u.prev -> Held]

(* A stash that was just emptied is one. *)
LEMMA BlankFact == \A k : Blank([kit |-> k, prev |-> <<>>])
<1> TAKE k
<1> DEFINE u == [kit |-> k, prev |-> <<>>]
<1>1. /\ u = [kit |-> u.kit, prev |-> u.prev]
      /\ DOMAIN u.prev = {} /\ u.prev \in [DOMAIN u.prev -> Held]
  OBVIOUS
<1> QED
  BY <1>1 DEF Blank

(* The values of the locals between two requests and two notes. *)
LEMMA NoVoiceFact == NoVoice \in Voices /\ NoKey \in Keys
  BY FlagFact DEF NoVoice, NoKey, Voices, Keys, Held, Lates

(* A request that is not there does nothing. *)
LEMMA NoJobFact == /\ NoJob \in Jobs /\ NoJob.kind = "none" /\ NoJob.data = None
                   /\ DOMAIN NoJob.todo = {}
<1>1. <<>> \in Seq(Item)
  OBVIOUS
<1>2. 0 \in Slots /\ Factory \in Kits
  BY DEF Slots, Kits
<1>3. NoJob \in Jobs
  BY <1>1, <1>2, FlagFact DEF NoJob, Jobs, JobKinds, Held
<1> QED
  BY <1>3 DEF NoJob

(* Recording a slot adds it to the stash and leaves the others there. *)
LEMMA RecordFact ==
  ASSUME NEW u, u = [kit |-> u.kit, prev |-> u.prev], u.prev \in [DOMAIN u.prev -> Held],
         NEW slot, NEW old \in Held, NEW r, r = Record(u, slot, old)
  PROVE  /\ r = [kit |-> r.kit, prev |-> r.prev] /\ r.kit = u.kit
         /\ DOMAIN r.prev = DOMAIN u.prev \cup {slot}
         /\ r.prev \in [DOMAIN r.prev -> Held]
         /\ r.prev[slot] = old
         /\ \A s \in DOMAIN u.prev : s # slot => r.prev[s] = u.prev[s]
<1> DEFINE f == [s \in DOMAIN u.prev \cup {slot} |-> IF s = slot THEN old ELSE u.prev[s]]
<1>1. r = [u EXCEPT !.prev = f]
  BY Zenon DEF Record
<1>2. /\ DOMAIN f = DOMAIN u.prev \cup {slot} /\ f \in [DOMAIN f -> Held] /\ f[slot] = old
      /\ \A s \in DOMAIN u.prev : s # slot => f[s] = u.prev[s]
  OBVIOUS
<1> HIDE DEF f
<1>3. r.kit = u.kit /\ r.prev = f /\ r = [kit |-> u.kit, prev |-> f]
  BY <1>1
<1> QED
  BY <1>2, <1>3

(* A take that is cut runs over consecutive slots, none of them twice. *)
LEMMA Consecutive ==
  ASSUME NEW a \in Slots, NEW n \in 1 .. MaxSlices
  PROVE  /\ \A i \in 1 .. n : (a + i - 1) % NumSlots \in Slots
         /\ \A i, j \in 1 .. n : (a + i - 1) % NumSlots = (a + j - 1) % NumSlots => i = j
<1>1. \A x \in 0 .. 2 * NumSlots - 1 : x % NumSlots = IF x < NumSlots THEN x ELSE x - NumSlots
  OBVIOUS
<1>2. \A i \in 1 .. n : a + i - 1 \in 0 .. 2 * NumSlots - 1 /\ i <= NumSlots
  BY DEF Slots
<1> QED
  BY <1>1, <1>2 DEF Slots

-----------------------------------------------------------------------------
(* Types. *)

(* The initial state has the shape. *)
LEMMA InitShape == Init => Shape
<1> SUFFICES ASSUME Init PROVE Shape
  OBVIOUS
<1> USE NoneFact
<1>1. First \in Blocks
  BY DEF First
<1>2. /\ s_kill_voices \in BOOLEAN /\ s_gate \in BOOLEAN /\ s_stop_req \in BOOLEAN
      /\ s_req_countin \in BOOLEAN /\ early \in BOOLEAN
  BY Zenon DEF Init
<1>3. PICK k \in UserKits : pads = [i \in Kits |-> [s \in Slots |->
         IF i = Factory THEN RomData
         ELSE IF i = k /\ s = 0 /\ live # {} THEN First ELSE None]]
  BY DEF Init
<1>4. /\ pads \in [Kits -> [Slots -> Blocks \cup {RomData, None}]]
      /\ \A s \in Slots : pads[Factory][s] = RomData
      /\ \A i \in UserKits : pads[i] \in [Slots -> Held]
  BY <1>1, <1>3 DEF Kits, Held
<1>5. TypeOK
  BY <1>1, <1>2, <1>4 DEF Init, TypeOK, NoUndo, NoPads, Kits, Slots
<1>6. job \in Jobs
  BY NoJobFact DEF Init
<1>7. voice \in Voices /\ key \in Keys
  BY FlagFact DEF Init, NoVoice, NoKey, Voices, Keys, Held, Lates
<1>8. /\ s_undo = [kit |-> s_undo.kit, prev |-> s_undo.prev]
      /\ s_undo.prev \in [DOMAIN s_undo.prev -> Held] /\ DOMAIN s_undo.prev = {}
  BY DEF Init, NoUndo
<1> QED
  BY <1>4, <1>5, <1>6, <1>7, <1>8 
     DEF Init, Shape, JobShape, VoiceShape, PadShape, Working, Replacing, NoJob

(* What the store of a pad does, place by place. *)
LEMMA StoreFact ==
  ASSUME Shape, Store, NEW old, old = pads[job.kit][job.slot]
  PROVE  /\ job.kit \in UserKits /\ job.slot \in Slots /\ job.data \in Held /\ old \in Held
         /\ pc = "store" /\ pc' = "next"
         /\ \A k \in Kits, s \in Slots :
              pads'[k][s] = IF k = job.kit /\ s = job.slot THEN job.data ELSE pads[k][s]
         /\ job' \in Jobs /\ job'.data = None /\ job'.todo = job.todo
         /\ job'.kind = job.kind /\ job'.kit = job.kit /\ job'.refused = job.refused
         /\ s_undo' = [kit |-> s_undo'.kit, prev |-> s_undo'.prev]
         /\ s_undo'.prev \in [DOMAIN s_undo'.prev -> Held]
         /\ \/ /\ job.kind = "commit" /\ UNCHANGED <<live, before, lost>>
               /\ s_undo'.kit = s_undo.kit
               /\ DOMAIN s_undo'.prev = DOMAIN s_undo.prev \cup {job.slot}
               /\ s_undo'.prev[job.slot] = old
               /\ \A s \in DOMAIN s_undo.prev :
                    s # job.slot => s_undo'.prev[s] = s_undo.prev[s]
            \/ /\ job.kind \in {"erase", "copy"} /\ live' = live \ Stashed
               /\ before' = pads[job.kit] /\ UNCHANGED lost
               /\ s_undo'.kit = job.kit /\ DOMAIN s_undo'.prev = {job.slot}
               /\ s_undo'.prev[job.slot] = old
            \/ /\ job.kind \in {"undo", "clear"} /\ live' = live \ {old}
               /\ UNCHANGED <<s_undo, before, lost>>
            \/ /\ job.kind = "dup" /\ lost' = lost \cup ({old} \ {None})
               /\ UNCHANGED <<live, s_undo, before>>
<1>1. job.kit \in UserKits /\ job.slot \in Slots /\ job.data \in Held /\ job \in Jobs
      /\ pads[job.kit] \in [Slots -> Held]
      /\ pads \in [Kits -> [Slots -> Blocks \cup {RomData, None}]]
  BY DEF Store, Shape, TypeOK, JobShape, Jobs, PadShape, Working, Replacing
<1>2. old \in Held
  BY <1>1
<1>3. \A k \in Kits, s \in Slots :
        pads'[k][s] = IF k = job.kit /\ s = job.slot THEN job.data ELSE pads[k][s]
  BY <1>1 DEF Store, Kits
<1>4. /\ job' \in Jobs /\ job'.data = None /\ job'.todo = job.todo
      /\ job'.kind = job.kind /\ job'.kit = job.kit /\ job'.refused = job.refused
  BY <1>1, FlagFact DEF Store, Jobs, Held
<1> DEFINE Old == [NoUndo EXCEPT !.kit = job.kit]
<1>5. Old = [kit |-> Old.kit, prev |-> Old.prev] /\ Old.kit = job.kit
      /\ DOMAIN Old.prev = {} /\ Old.prev \in [DOMAIN Old.prev -> Held]
  BY DEF NoUndo
<1> HIDE DEF Old
<1>6. CASE job.kind = "commit"
  <2>1. s_undo' = Record(s_undo, job.slot, old) /\ UNCHANGED <<live, before, lost>>
    BY <1>6 DEF Store
  <2> QED
    BY <1>1, <1>2, <1>3, <1>4, <1>6, <2>1, RecordFact DEF Store, Shape, PadShape
<1>7. CASE job.kind \in {"erase", "copy"}
  <2>1. s_undo' = Record(Old, job.slot, old) /\ live' = live \ Stashed /\ before' = pads[job.kit]
        /\ UNCHANGED lost
    BY <1>7 DEF Store, Old
  <2>2. /\ s_undo' = [kit |-> s_undo'.kit, prev |-> s_undo'.prev]
        /\ s_undo'.kit = job.kit /\ DOMAIN s_undo'.prev = {job.slot}
        /\ s_undo'.prev \in [DOMAIN s_undo'.prev -> Held] /\ s_undo'.prev[job.slot] = old
    BY <1>2, <1>5, <2>1, RecordFact
  <2> QED
    BY <1>1, <1>2, <1>3, <1>4, <1>7, <2>1, <2>2 DEF Store
<1>8. CASE job.kind \notin {"commit", "erase", "copy"}
  BY <1>1, <1>2, <1>3, <1>4, <1>8 DEF Store, Shape, PadShape
<1> QED
  BY <1>6, <1>7, <1>8

(* What the list of a new request is, and its other locals. *)
LEMMA BeginFact ==
  ASSUME NEW kind \in JobKinds, NEW k \in Kits, NEW from \in Kits, NEW todo \in Seq(Item),
         Begin(kind, k, from, todo)
  PROVE  /\ job' \in Jobs
         /\ job'.kind = kind /\ job'.kit = k /\ job'.from = from /\ job'.todo = todo
         /\ job'.data = None /\ ~job'.refused
  BY NoJobFact, FlagFact DEF Begin, NoJob, Jobs

(* How an edit begins. *)
LEMMA EditFact ==
  ASSUME Shape, Edit
  PROVE  /\ pc = "idle" /\ pc' = "next" /\ UNCHANGED <<pads, live, before, lost>>
         /\ job' \in Jobs /\ job'.kit \in UserKits /\ job'.data = None /\ ~job'.refused
         /\ \A i, j \in DOMAIN job'.todo : job'.todo[i].slot = job'.todo[j].slot => i = j
         /\ \/ /\ job'.kind \in {"erase", "copy", "clear"} /\ UNCHANGED s_undo
               /\ \A i \in DOMAIN job'.todo : job'.todo[i].src = None
            \/ /\ job'.kind = "undo" /\ Blank(s_undo')
               /\ DOMAIN s_undo.prev # {} /\ job'.kit = s_undo.kit
               /\ \A i \in DOMAIN job'.todo :
                    /\ job'.todo[i].slot \in DOMAIN s_undo.prev
                    /\ job'.todo[i].src = s_undo.prev[job'.todo[i].slot]
               /\ \A s \in DOMAIN s_undo.prev : \E i \in DOMAIN job'.todo : job'.todo[i].slot = s
<1> DEFINE P == /\ job' \in Jobs /\ job'.kit \in UserKits /\ job'.data = None /\ ~job'.refused
                /\ \A i, j \in DOMAIN job'.todo : job'.todo[i].slot = job'.todo[j].slot => i = j
<1>1. pc = "idle" /\ pc' = "next" /\ UNCHANGED <<pads, live, before, lost>>
  BY DEF Edit, Idle
<1>2. Factory \in Kits /\ UserKits \subseteq Kits /\ s_kit_current \in Kits
  BY DEF Kits, Shape, TypeOK
<1>3. ASSUME NEW kind \in {"erase", "copy"}, NEW s \in Slots, s_kit_current # Factory,
             Begin(kind, s_kit_current, Factory, <<[slot |-> s, src |-> None]>>)
      PROVE  P /\ job'.kind = kind /\ \A i \in DOMAIN job'.todo : job'.todo[i].src = None
  <2> DEFINE t == <<[slot |-> s, src |-> None]>>
  <2>1. t \in Seq(Item) /\ DOMAIN t = {1} /\ t[1].src = None
    BY DEF Item, Held
  <2> HIDE DEF t
  <2>2. kind \in JobKinds /\ s_kit_current \in UserKits /\ Begin(kind, s_kit_current, Factory, t)
    BY <1>2, <1>3 DEF JobKinds, Kits, t
  <2>3. /\ job' \in Jobs /\ job'.kind = kind /\ job'.kit = s_kit_current /\ job'.todo = t
        /\ job'.data = None /\ ~job'.refused
    BY <1>2, <2>1, <2>2, BeginFact
  <2> QED
    BY <2>1, <2>2, <2>3
<1>4. CASE /\ DOMAIN s_undo.prev # {}
           /\ Begin("undo", s_undo.kit, Factory,
                 SetToSeq({[slot |-> s, src |-> s_undo.prev[s]] : s \in DOMAIN s_undo.prev}))
           /\ s_undo' = NoUndo
  <2>0. Blank(s_undo')
    BY <1>4, BlankFact DEF NoUndo
  <2> DEFINE t == SetToSeq({[slot |-> s, src |-> s_undo.prev[s]] : s \in DOMAIN s_undo.prev})
  <2>1. DOMAIN s_undo.prev \in SUBSET Slots /\ s_undo.prev \in [DOMAIN s_undo.prev -> Held]
        /\ s_undo.kit \in UserKits /\ s_undo.kit \in Kits
    BY <1>4 DEF Shape, TypeOK, PadShape
  <2>2. /\ t \in Seq(Item)
        /\ \A i \in DOMAIN t :
             t[i].slot \in DOMAIN s_undo.prev /\ t[i].src = s_undo.prev[t[i].slot]
        /\ \A s \in DOMAIN s_undo.prev : \E i \in DOMAIN t : t[i].slot = s
        /\ \A i, j \in DOMAIN t : t[i].slot = t[j].slot => i = j
    <3> DEFINE S == {[slot |-> s, src |-> s_undo.prev[s]] : s \in DOMAIN s_undo.prev}
    <3>1. t = SetToSeq(S)
      OBVIOUS
    <3>2. S = {[slot |-> s, src |-> s_undo.prev[s]] : s \in DOMAIN s_undo.prev}
      OBVIOUS
    <3> HIDE DEF S, t
    <3>3. Names(t, DOMAIN s_undo.prev, s_undo.prev)
      BY <2>1, <3>1, <3>2, SlotList
    <3> QED
      BY <3>3 DEF Names
  <2> HIDE DEF t
  <2>3. Begin("undo", s_undo.kit, Factory, t)
    BY <1>4 DEF t
  <2>4. "undo" \in JobKinds /\ s_undo.kit \in Kits /\ t \in Seq(Item)
    BY <2>1, <2>2 DEF JobKinds
  <2>5. /\ job' \in Jobs /\ job'.kind = "undo" /\ job'.kit = s_undo.kit /\ job'.todo = t
        /\ job'.data = None /\ ~job'.refused
    BY <1>2, <2>3, <2>4, BeginFact
  <2> QED
    BY <1>1, <1>4, <2>0, <2>1, <2>2, <2>5
<1>5. ASSUME NEW k \in UserKits \ {s_kit_current},
             Begin("clear", k, s_kit_current,
                   SetToSeq({[slot |-> s, src |-> None] : s \in Recorded(k)}))
      PROVE  P /\ job'.kind = "clear" /\ \A i \in DOMAIN job'.todo : job'.todo[i].src = None
  <2> DEFINE D == Recorded(k)
             t == SetToSeq({[slot |-> s, src |-> None] : s \in D})
  <2>1. D \in SUBSET Slots
    BY DEF Recorded
  <2>2. /\ t \in Seq(Item)
        /\ \A i \in DOMAIN t : t[i].src = None
        /\ \A i, j \in DOMAIN t : t[i].slot = t[j].slot => i = j
    <3> HIDE DEF D
    <3> QED
      BY <2>1, EmptySlots
  <2>3. Begin("clear", k, s_kit_current, t)
    BY <1>5
  <2> HIDE DEF t, D
  <2>4. "clear" \in JobKinds
    BY DEF JobKinds
  <2>5. /\ job' \in Jobs /\ job'.kind = "clear" /\ job'.kit = k /\ job'.todo = t
        /\ job'.data = None /\ ~job'.refused
    BY <1>2, <2>2, <2>3, <2>4, BeginFact
  <2> QED
    BY <2>2, <2>5
<1> HIDE DEF P
<1>6. CASE \E s \in Recorded(s_kit_current) :
             /\ s_kit_current # Factory
             /\ Begin("erase", s_kit_current, Factory, <<[slot |-> s, src |-> None]>>)
             /\ UNCHANGED s_undo
  BY <1>1, <1>3, <1>6 DEF Recorded, P
<1>7. CASE \E k \in Kits, s \in Slots :
             /\ s_kit_current # Factory /\ Recorded(k) # {}
             /\ Begin("copy", s_kit_current, Factory, <<[slot |-> s, src |-> None]>>)
             /\ UNCHANGED s_undo
  BY <1>1, <1>3, <1>7 DEF P
<1>8. CASE \E k \in UserKits \ {s_kit_current} :
             /\ Begin("clear", k, s_kit_current,
                      SetToSeq({[slot |-> s, src |-> None] : s \in Recorded(k)}))
             /\ UNCHANGED s_undo
  BY <1>1, <1>5, <1>8 DEF P
<1> QED
  BY <1>4, <1>6, <1>7, <1>8 DEF Edit

(* How a take is opened: into a commit of consecutive slots, or not at all. *)
LEMMA OpenTakeFact ==
  ASSUME Shape, OpenTake
  PROVE  /\ pc = "idle" /\ UNCHANGED <<pads, lost>>
         /\ \/ pc' \in {"drop", "short"} /\ UNCHANGED <<job, live, s_undo, before>>
            \/ /\ pc' = "next" /\ s_kit_current \in UserKits
               /\ job' \in Jobs /\ job'.kind = "commit" /\ job'.kit = s_kit_current
               /\ job'.data = None
               /\ \A i, j \in DOMAIN job'.todo : job'.todo[i].slot = job'.todo[j].slot => i = j
               /\ \A i \in DOMAIN job'.todo : job'.todo[i].src = None
               /\ live' = live \ Stashed /\ before' = pads[s_kit_current]
               /\ s_undo'.kit = s_kit_current /\ Blank(s_undo')
<1>1. pc = "idle" /\ UNCHANGED <<pads, lost>>
  BY DEF OpenTake, Idle
<1>2. CASE pc' \in {"drop", "short"} /\ UNCHANGED <<job, live, s_undo, before>>
  BY <1>1, <1>2
<1>3. ASSUME NEW n \in 1 .. MaxSlices, Writable, pc' = "next",
             Begin("commit", s_kit_current, Factory,
                   [i \in 1 .. n |-> [slot |-> (s_arm_slot + i - 1) % NumSlots, src |-> None]]),
             live' = live \ Stashed, s_undo' = [NoUndo EXCEPT !.kit = s_kit_current],
             before' = pads[s_kit_current]
      PROVE  /\ s_kit_current \in UserKits
             /\ job' \in Jobs /\ job'.kind = "commit" /\ job'.kit = s_kit_current
             /\ job'.data = None
             /\ \A i, j \in DOMAIN job'.todo : job'.todo[i].slot = job'.todo[j].slot => i = j
             /\ \A i \in DOMAIN job'.todo : job'.todo[i].src = None
             /\ s_undo'.kit = s_kit_current /\ Blank(s_undo')
  <2> DEFINE t == [i \in 1 .. n |-> [slot |-> (s_arm_slot + i - 1) % NumSlots, src |-> None]]
  <2>1. s_arm_slot \in Slots /\ s_kit_current \in UserKits /\ s_kit_current \in Kits
    BY <1>3 DEF Writable, Shape, TypeOK, Kits
  <2>2. n \in Nat /\ DOMAIN t = 1 .. n
    OBVIOUS
  <2>3. /\ \A i \in 1 .. n : t[i] \in Item /\ t[i].src = None
        /\ \A i, j \in 1 .. n : t[i].slot = t[j].slot => i = j
    BY <2>1, Consecutive DEF Item, Held
  <2>4. Begin("commit", s_kit_current, Factory, t)
    BY <1>3
  <2> HIDE DEF t
  <2>5. t \in Seq(Item)
    <3>1. t = [i \in 1 .. n |-> t[i]]
      BY DEF t
    <3> QED
      BY <2>2, <2>3, <3>1
  <2>6. "commit" \in JobKinds /\ Factory \in Kits
    BY DEF JobKinds, Kits
  <2>7. /\ job' \in Jobs /\ job'.kind = "commit" /\ job'.kit = s_kit_current
        /\ job'.todo = t /\ job'.data = None
    BY <2>1, <2>4, <2>5, <2>6, BeginFact
  <2>8. s_undo' = [kit |-> s_kit_current, prev |-> <<>>]
    BY <1>3 DEF NoUndo
  <2>9. Blank(s_undo') /\ s_undo'.kit = s_kit_current
    BY <2>8, BlankFact
  <2> QED
    BY <1>3, <2>1, <2>2, <2>3, <2>7, <2>9
<1> QED
  BY <1>1, <1>2, <1>3 DEF OpenTake

(* How an edit ends: a clearing goes on to copy, the others are over. *)
LEMMA EndEditFact ==
  ASSUME Shape, EndEdit
  PROVE  /\ pc = "next" /\ DOMAIN job.todo = {} /\ UNCHANGED <<pads, lost>>
         /\ before' = IF DOMAIN s_undo'.prev = {} THEN NoPads ELSE before
         /\ \/ /\ job.kind = "clear" /\ pc' = "next"
               /\ live' = live \ Stashed /\ Blank(s_undo')
               /\ job' \in Jobs /\ job'.kind = "dup" /\ job'.kit = job.kit /\ job'.data = None
               /\ \A i, j \in DOMAIN job'.todo : job'.todo[i].slot = job'.todo[j].slot => i = j
               /\ \A i \in DOMAIN job'.todo : job'.todo[i].src = None
            \/ /\ job.kind # "clear" /\ pc' = "idle" /\ job' = NoJob
               /\ UNCHANGED <<live, s_undo>>
<1>1. /\ pc = "next" /\ DOMAIN job.todo = {} /\ UNCHANGED <<pads, lost>>
      /\ before' = IF DOMAIN s_undo'.prev = {} THEN NoPads ELSE before
  BY DEF EndEdit
<1>2. CASE job.kind = "clear"
  <2> DEFINE D == Recorded(job.from)
             t == SetToSeq({[slot |-> s, src |-> None] : s \in D})
  <2>1. D \in SUBSET Slots /\ job.kit \in Kits
    BY DEF Recorded, Shape, JobShape, Jobs
  <2>2. /\ t \in Seq(Item)
        /\ \A i \in DOMAIN t : t[i].src = None
        /\ \A i, j \in DOMAIN t : t[i].slot = t[j].slot => i = j
    <3> HIDE DEF D
    <3> QED
      BY <2>1, EmptySlots
  <2>3. Begin("dup", job.kit, Factory, t)
    BY <1>2 DEF EndEdit
  <2> HIDE DEF t, D
  <2>4. "dup" \in JobKinds /\ Factory \in Kits
    BY DEF JobKinds, Kits
  <2>5. /\ job' \in Jobs /\ job'.kind = "dup" /\ job'.kit = job.kit /\ job'.todo = t
        /\ job'.data = None
    BY <2>1, <2>2, <2>3, <2>4, BeginFact
  <2>6. live' = live \ Stashed /\ pc' = "next" /\ Blank(s_undo')
    BY <1>1, <1>2, BlankFact DEF EndEdit, NoUndo
  <2> QED
    BY <1>1, <1>2, <2>2, <2>5, <2>6
<1> QED
  BY <1>1, <1>2 DEF EndEdit

(* How the next pad is taken from the list. *)
LEMMA NextPadFact ==
  ASSUME Shape, NextPad
  PROVE  /\ pc = "next" /\ pc' = "kill" /\ UNCHANGED <<pads, s_undo, before, lost>>
         /\ job' \in Jobs /\ job'.kind = job.kind /\ job'.kit = job.kit
         /\ job'.refused = job.refused
         /\ 1 \in Todo /\ job'.slot = job.todo[1].slot
         /\ \A i \in Todo : i # 1 => i - 1 \in DOMAIN job'.todo
         /\ \A i \in DOMAIN job'.todo :
              i + 1 \in Todo /\ job'.todo[i] = job.todo[i + 1] /\ i \in Nat \ {0}
         /\ \/ /\ job.kind \in Fresh /\ job'.data \in Blocks \ live
               /\ live' = live \cup {job'.data}
            \/ /\ job.kind \notin Fresh /\ job'.data = job.todo[1].src /\ UNCHANGED live
<1>1. /\ pc = "next" /\ pc' = "kill" /\ UNCHANGED <<pads, s_undo, before, lost>>
      /\ job.todo # <<>> /\ job \in Jobs /\ live \subseteq Blocks
      /\ job.todo \in Seq(Item)
  BY DEF NextPad, Shape, JobShape, TypeOK, Jobs
<1> DEFINE d == IF job.kind \in Fresh THEN NewBlock ELSE Head(job.todo).src
<1>2. /\ job' = [job EXCEPT !.slot = Head(job.todo).slot, !.data = d, !.todo = Tail(job.todo)]
      /\ job.kind \in Fresh => live # Blocks
      /\ live' = IF job.kind \in Fresh THEN live \cup {d} ELSE live
  BY DEF NextPad, Fresh
<1>3. Head(job.todo) = job.todo[1] /\ job.todo[1] \in Item /\ 1 \in Todo
  BY <1>1 DEF Todo
<1>4. job.kind \in Fresh => d \in Blocks \ live
  BY <1>1, <1>2, NewBlockFact
<1>5. job.kind \notin Fresh => d = job.todo[1].src /\ d \in Held
  BY <1>3 DEF Item
<1>6. d \in Held
  BY <1>4, <1>5 DEF Held
<1> HIDE DEF d
<1>7. /\ Tail(job.todo) \in Seq(Item)
      /\ \A i \in Todo : i # 1 => i - 1 \in DOMAIN Tail(job.todo)
      /\ \A i \in DOMAIN Tail(job.todo) : i \in Nat \ {0} /\ i + 1 \in Todo
                                          /\ Tail(job.todo)[i] = job.todo[i + 1]
  BY <1>1 DEF Todo
<1>8. /\ job' \in Jobs /\ job'.kind = job.kind /\ job'.kit = job.kit /\ job'.refused = job.refused
      /\ job'.slot = job.todo[1].slot /\ job'.data = d /\ job'.todo = Tail(job.todo)
  BY <1>1, <1>2, <1>3, <1>6, <1>7 DEF Jobs, Item
<1> QED
  BY <1>1, <1>2, <1>3, <1>4, <1>5, <1>7, <1>8

(* The kill and the wait change nothing of a request but whether it waited. *)
LEMMA HandFact ==
  ASSUME Shape, Kill \/ Wait
  PROVE  /\ pc \in {"kill", "wait"} /\ pc' \in {"wait", "store"}
         /\ UNCHANGED <<pads, live, s_undo, before, lost>>
         /\ job' \in Jobs /\ job'.kind = job.kind /\ job'.kit = job.kit /\ job'.slot = job.slot
         /\ job'.data = job.data /\ job'.todo = job.todo /\ job'.refused = job.refused
<1>1. /\ pc \in {"kill", "wait"} /\ pc' \in {"wait", "store"}
      /\ UNCHANGED <<pads, live, s_undo, before, lost>>
  BY DEF Kill, Wait, memory
<1>2. PICK w \in BOOLEAN : job' = [job EXCEPT !.waited = w]
  <2>1. (job.kit = s_kit) \in BOOLEAN
    BY Zenon
  <2>2. (boundaries > 0) \in BOOLEAN
    BY DEF Shape, TypeOK
  <2> QED
    BY <2>1, <2>2, Zenon DEF Kill, Wait, GoOn
<1>3. w \in Flag
  BY <1>2 DEF Flag
<1> HIDE DEF Flag
<1> QED
  BY <1>1, <1>2, <1>3 DEF Shape, JobShape, Jobs

(* No memory, or a wait that timed out, gives up the block in hand and, of a *)
(* commit, a copy or a duplicate, what is left to do.                        *)
LEMMA GiveUpFact ==
  ASSUME Shape, NoMemory \/ Refused
  PROVE  /\ pc' = "next" /\ UNCHANGED <<pads, s_undo, before, lost>>
         /\ job' \in Jobs /\ job'.kind = job.kind /\ job'.kit = job.kit /\ job'.data = None
         /\ job'.todo \in {job.todo, <<>>}
         /\ job'.todo = job.todo \/ job.kind \in Fresh
         /\ live' = live \ {job.data}
         /\ job.kind = "undo" => job'.refused
<1>1. pc' = "next" /\ UNCHANGED <<pads, s_undo, before, lost>> /\ job \in Jobs
      /\ <<>> \in Seq(Item)
  BY DEF NoMemory, Refused, memory, Shape, JobShape
<1>2. CASE NoMemory
  <2>1. job.data = None /\ UNCHANGED live
    BY <1>2 DEF NoMemory, Shape, JobShape, memory
  <2>2. live \ {job.data} = live
    BY <2>1, NoneFact DEF Shape, TypeOK
  <2> QED
    BY <1>1, <1>2, <2>1, <2>2 DEF NoMemory, Jobs, Fresh
<1>3. CASE Refused
  <2> DEFINE t == IF job.kind \in {"commit", "dup"} THEN <<>> ELSE job.todo
  <2>1. /\ job' = [job EXCEPT !.data = None, !.refused = TRUE, !.todo = t]
        /\ live' = live \ {job.data}
    BY <1>3 DEF Refused
  <2>2. t \in Seq(Item) /\ t \in {job.todo, <<>>} /\ (t = job.todo \/ job.kind \in Fresh)
    BY <1>1 DEF Jobs, Fresh
  <2> HIDE DEF t
  <2>3. /\ job' \in Jobs /\ job'.kind = job.kind /\ job'.kit = job.kit /\ job'.data = None
        /\ job'.todo = t /\ job'.refused = TRUE
    BY <1>1, <2>1, <2>2, FlagFact DEF Jobs, Held
  <2> QED
    BY <1>1, <2>1, <2>2, <2>3
<1> QED
  BY <1>2, <1>3

(* Every other step leaves the pads, the pool and the request alone. *)
SmpWork == OpenTake \/ Edit \/ NextPad \/ NoMemory \/ Kill \/ Wait \/ Refused \/ Store \/ EndEdit

(* Every other step leaves the pads, the pool and the request alone. *)
LEMMA QuietFact ==
  ASSUME Shape, [Next]_vars, ~SmpWork
  PROVE  /\ UNCHANGED <<pads, live, s_undo, before, lost, job>>
         /\ pc' = pc \/ (pc \notin Working /\ pc' \notin Working)
<1> USE DEF memory, ctl, Working, Replacing, SmpWork
<1>1. CASE Audio
  BY <1>1 DEF Audio, KeyOn, KeyArm, BeginBlock, LoadKit, Drain, Capture, CaptureFull
<1>2. CASE Player
  BY <1>2 DEF Player, ArmSlot, Press, Release, SelectKit
<1>3. CASE DropTake \/ CountIn \/ CountedIn
  BY <1>3 DEF DropTake, CountIn, CountedIn, Idle
<1>4. CASE SelectBump \/ SelectBind \/ Publish \/ UNCHANGED vars
  BY <1>4 DEF SelectBump, SelectBind, Publish, vars
<1> QED
  BY <1>1, <1>2, <1>3, <1>4 DEF Next, SmpCtl

(* Every step keeps TypeOK, ... *)
LEMMA StepType == Shape /\ [Next]_vars => TypeOK'
<1> SUFFICES ASSUME Shape, [Next]_vars PROVE TypeOK'
  OBVIOUS
<1> USE NoneFact DEF TypeOK, kits, hand, memory, ctl, dctl, audio, rec, player, Kits
<1> USE DEF Shape
<1>1. CASE \E s \in Slots : KeyOn(s)
  BY <1>1 DEF KeyOn
<1>2. CASE KeyArm
  BY <1>2 DEF KeyArm, NoVoice, NoKey, NoUndo, NoPads, GoOn, Idle, Move
<1>3. CASE BeginBlock
  BY <1>3 DEF BeginBlock, NoVoice, NoKey, NoUndo, NoPads, GoOn, Idle, Move
<1>4. CASE LoadKit
  <2>1. s_kill_voices' \in BOOLEAN
    BY <1>4, Zenon DEF LoadKit
  <2> QED
    BY <1>4, <2>1 DEF LoadKit
<1>5. CASE Drain
  BY <1>5 DEF Drain, NoVoice, NoKey, NoUndo, NoPads, GoOn, Idle, Move
<1>6. CASE Capture
  BY <1>6 DEF Capture, NoVoice, NoKey, NoUndo, NoPads, GoOn, Idle, Move
<1>7. CASE CaptureFull
  <2>1. s_stop_req' \in BOOLEAN
    BY <1>7, Zenon DEF CaptureFull
  <2> QED
    BY <1>7, <2>1 DEF CaptureFull
<1>8. CASE SelectBump
  BY <1>8 DEF SelectBump, NoVoice, NoKey, NoUndo, NoPads, GoOn, Idle, Move
<1>9. CASE SelectBind
  BY <1>9 DEF SelectBind, NoVoice, NoKey, NoUndo, NoPads, GoOn, Idle, Move
<1>10. CASE OpenTake
  <2>1. s_stop_req' \in BOOLEAN /\ early' \in BOOLEAN
    BY <1>10, Zenon DEF OpenTake
  <2>2. pads[s_kit_current] \in [Slots -> Held] \/ s_kit_current = Factory
    BY DEF PadShape
  <2>3. before' \in [Slots -> Blocks \cup {None}]
    BY <1>10, <2>2 DEF OpenTake, Writable, Held
  <2> QED
    BY <1>10, <2>1, <2>2, <2>3 DEF OpenTake, NoUndo
<1>11. CASE DropTake
  BY <1>11 DEF DropTake, NoVoice, NoKey, NoUndo, NoPads, GoOn, Idle, Move
<1>12. CASE CountIn
  <2>1. s_req_countin' \in BOOLEAN
    BY <1>12, Zenon DEF CountIn
  <2> QED
    BY <1>12, <2>1 DEF CountIn
<1>13. CASE CountedIn
  BY <1>13 DEF CountedIn, NoVoice, NoKey, NoUndo, NoPads, GoOn, Idle, Move
<1>14. CASE NextPad
  <2>1. job.kind \in Fresh => NewBlock \in Blocks
    BY <1>14, NewBlockFact DEF NextPad, Fresh
  <2> QED
    BY <1>14, <2>1 DEF NextPad, Fresh
<1>15. CASE NoMemory
  BY <1>15 DEF NoMemory, NoVoice, NoKey, NoUndo, NoPads, GoOn, Idle, Move
<1>16. CASE Kill
  <2>1. job.slot \in Slots
    BY DEF JobShape, Jobs
  <2> QED
    BY <1>16, <2>1 DEF Kill
<1>17. CASE Wait
  BY <1>17 DEF Wait, NoVoice, NoKey, NoUndo, NoPads, GoOn, Idle, Move
<1>18. CASE Refused
  BY <1>18 DEF Refused, NoVoice, NoKey, NoUndo, NoPads, GoOn, Idle, Move
<1>19. CASE Store
  <2>1. /\ job.slot \in Slots /\ job.data \in Held /\ job.kit \in UserKits
        /\ pads[job.kit] \in [Slots -> Held]
    BY <1>19 DEF Store, JobShape, Jobs, PadShape, Working, Replacing
  <2>2. pads' \in [Kits -> [Slots -> Blocks \cup {RomData, None}]]
    BY <1>19, <2>1 DEF Store, Held
  <2>3. s_undo'.kit \in Kits /\ DOMAIN s_undo'.prev \subseteq Slots
    BY <1>19, <2>1, StoreFact
  <2> QED
    BY <1>19, <2>1, <2>2, <2>3 DEF Store, Held
<1>20. CASE EndEdit
  <2>1. before' \in [Slots -> Blocks \cup {None}]
    BY <1>20 DEF EndEdit, NoPads
  <2> QED
    BY <1>20, <2>1 DEF EndEdit, NoUndo, Begin, NoJob
<1>21. CASE Press
  <2>1. s_gate' \in BOOLEAN /\ s_req_countin' \in BOOLEAN
    BY <1>21, Zenon DEF Press
  <2> QED
    BY <1>21, <2>1 DEF Press, Move
<1>22. CASE Release
  <2>1. s_gate' \in BOOLEAN
    BY <1>22, Zenon DEF Release
  <2> QED
    BY <1>22, <2>1 DEF Release, Move
<1>23. CASE Edit
  <2>1. s_undo'.kit \in Kits /\ DOMAIN s_undo'.prev \subseteq Slots
    <3>1. s_undo' \in {s_undo, NoUndo}
      BY <1>23 DEF Edit
    <3> QED
      BY <3>1 DEF NoUndo
  <2> QED
    BY <1>23, <2>1 DEF Edit, Move
<1>24. CASE Publish
  BY <1>24 DEF Publish, NoVoice, NoKey, NoUndo, NoPads, GoOn, Idle, Move
<1>25. CASE \E x \in Slots \cup {None} : ArmSlot(x)
  BY <1>25 DEF ArmSlot, Move
<1>26. CASE \E k \in Kits : SelectKit(k)
  BY <1>26 DEF SelectKit, Move
<1>27. CASE UNCHANGED vars
  BY <1>27 DEF vars
<1> QED
  BY <1>1, <1>2, <1>3, <1>4, <1>5, <1>6, <1>7, <1>8, <1>9, <1>10, <1>11, <1>12, <1>13,
     <1>14, <1>15, <1>16, <1>17, <1>18, <1>19, <1>20, <1>21, <1>22, <1>23, <1>24, <1>25,
     <1>26, <1>27 DEF Next, Audio, SmpCtl, Player

(* ... what the request, the stash and the pads can hold, ... *)
LEMMA StepPads == Shape /\ [Next]_vars => JobShape' /\ PadShape'
<1> SUFFICES ASSUME Shape, [Next]_vars PROVE JobShape' /\ PadShape'
  OBVIOUS
<1> USE NoneFact DEF JobShape, PadShape
<1>1. CASE ~SmpWork
  BY <1>1, QuietFact DEF Shape, Working, Replacing
<1>2. CASE OpenTake
  BY <1>2, OpenTakeFact DEF Shape, Working, Replacing, NoJob, Blank
<1>3. CASE Edit
  BY <1>3, EditFact DEF Shape, Working, Replacing, Blank
<1>4. CASE NextPad
  BY <1>4, NextPadFact DEF Shape, Working, Replacing
<1>5. CASE NoMemory \/ Refused
  BY <1>5, GiveUpFact DEF Shape, Working, Replacing, NoMemory, Refused
<1>6. CASE Kill \/ Wait
  BY <1>6, HandFact DEF Shape, Working, Replacing
<1>7. CASE Store
  <2>1. pads' \in [Kits -> [Slots -> Blocks \cup {RomData, None}]]
    BY StepType DEF TypeOK
  <2>2. \A k \in UserKits : pads'[k] \in [Slots -> Held]
    BY <1>7, <2>1, StoreFact DEF Shape, Kits
  <2>3. \A s \in Slots : pads'[Factory][s] = RomData
    BY <1>7, StoreFact DEF Shape, Kits
  <2> QED
    BY <1>7, <2>2, <2>3, StoreFact DEF Shape, Working, Replacing
<1>8. CASE EndEdit
  BY <1>8, EndEditFact, NoJobFact DEF Shape, Working, Replacing, Blank
<1> QED
  BY <1>1, <1>2, <1>3, <1>4, <1>5, <1>6, <1>7, <1>8 DEF SmpWork

(* ... and what the voices can. *)
LEMMA StepVoices == Shape /\ [Next]_vars => VoiceShape'
<1> SUFFICES ASSUME Shape, [Next]_vars PROVE VoiceShape'
  OBVIOUS
<1> USE NoneFact, FlagFact DEF VoiceShape, Voices, Keys, Held, Lates
<1>1. CASE \E s \in Slots : KeyOn(s)
  BY <1>1 DEF KeyOn, Late, Shape, ctl
<1>2. CASE KeyArm
  BY <1>2 DEF KeyArm, Late, NoKey, Shape
<1>3. CASE BeginBlock \/ LoadKit
  <2>1. voice' \in {voice, NoVoice} /\ key' = key
    BY <1>3 DEF BeginBlock, LoadKit
  <2> QED
    BY <2>1, NoVoiceFact DEF Shape
<1>4. CASE Drain
  <2>1. key' = key
    BY <1>4 DEF Drain
  <2>2. CASE voice' \in {voice, NoVoice}
    BY <2>1, <2>2, NoVoiceFact DEF Shape
  <2>3. ASSUME NEW s \in Slots, pads[kit][s] \in Blocks,
               voice' = [of |-> "drum", data |-> pads[kit][s], slot |-> s, current |-> FALSE,
                         late |-> Late(Killed(pads[kit][s]))]
        PROVE  VoiceShape'
    BY <2>1, <2>3 DEF Late, Shape
  <2> QED
    BY <1>4, <2>2, <2>3 DEF Drain
<1>5. CASE SelectBump \/ NextPad
  BY <1>5 DEF SelectBump, NextPad, Shape
<1>6. CASE Kill \/ Wait
  BY <1>6 DEF Kill, Wait, GoOn, Shape
<1>7. CASE Capture \/ CaptureFull \/ SelectBind \/ Publish \/ UNCHANGED vars
  BY <1>7 DEF Capture, CaptureFull, SelectBind, Publish, vars, audio, Shape
<1>8. CASE Player
  BY <1>8 DEF Player, ArmSlot, Press, Release, Edit, SelectKit, audio, Shape
<1>9. CASE \/ OpenTake \/ DropTake \/ CountIn \/ CountedIn \/ NoMemory \/ Refused \/ Store
           \/ EndEdit
  BY <1>9 DEF OpenTake, DropTake, CountIn, CountedIn, NoMemory, Refused, Store, EndEdit, audio,
              Shape
<1> QED
  BY <1>1, <1>2, <1>3, <1>4, <1>5, <1>6, <1>7, <1>8, <1>9 DEF Next, Audio, SmpCtl

(* Together: no step leaves the shape. *)
LEMMA StepShape == Shape /\ [Next]_vars => Shape'
  BY StepType, StepPads, StepVoices DEF Shape

-----------------------------------------------------------------------------
(* The pool and the stash. *)

(* A request's list keeps naming a slot once: pads are only taken off it.     *)
LEMMA StepLists == Shape /\ Lists /\ [Next]_vars => Lists'
<1> SUFFICES ASSUME Shape, Lists, [Next]_vars PROVE Lists'
  OBVIOUS
<1> USE DEF Lists, Todo, Working, Replacing
<1>1. CASE ~SmpWork
  BY <1>1, QuietFact
<1>2. CASE OpenTake
  BY <1>2, OpenTakeFact DEF Blank
<1>3. CASE Edit
  BY <1>3, EditFact
<1>4. CASE NextPad
  BY <1>4, NextPadFact
<1>5. CASE NoMemory \/ Refused
  BY <1>5, GiveUpFact
<1>6. CASE Kill \/ Wait
  BY <1>6, HandFact
<1>7. CASE Store
  BY <1>7, StoreFact
<1>8. CASE EndEdit
  BY <1>8, EndEditFact, NoJobFact
<1> QED
  BY <1>1, <1>2, <1>3, <1>4, <1>5, <1>6, <1>7, <1>8 DEF SmpWork

(* No step puts a block in a second place, or frees one that is in a place. *)
LEMMA StepApart == Shape /\ Lists /\ Apart /\ [Next]_vars => Apart'
<1> SUFFICES ASSUME Shape, Lists, Apart, [Next]_vars PROVE Apart'
  OBVIOUS
<1> USE NoneFact DEF Apart, Todo
<1>10. \A k \in UserKits, s \in Slots : OnPad(pads, pads[k][s])
  BY DEF OnPad, Kits
<1>0. /\ \A k \in UserKits, s \in Slots : pads[k][s] \in Held
      /\ \A s \in Slots : pads[Factory][s] = RomData
      /\ \A s \in DOMAIN s_undo.prev : s_undo.prev[s] \in Held
      /\ job.data \in Held /\ live \subseteq Blocks
      /\ \A i \in Todo : job.todo[i].src \in Held
  <2>1. job.todo \in Seq(Item)
    BY DEF Shape, JobShape, Jobs
  <2>2. \A i \in Todo : job.todo[i] \in Item
    BY <2>1
  <2>3. \A i \in Todo : job.todo[i].src \in Held
    BY <2>2 DEF Item
  <2> QED
    BY <2>3 DEF Shape, PadShape, JobShape, Jobs, TypeOK
<1>11. job.data \notin lost /\ None \notin lost /\ None \notin live
  BY <1>0
<1>1. CASE ~SmpWork
  BY <1>10, <1>1, QuietFact
<1>2. CASE OpenTake
  BY <1>10, <1>2, OpenTakeFact DEF Blank, Stashed
<1>3. CASE Edit
  BY <1>0, <1>10, <1>3, EditFact DEF Blank, Shape, JobShape, Working, Replacing
<1>4. CASE NextPad
  <2>1. lost' \subseteq live' /\ live \subseteq live'
    BY <1>4, NextPadFact
  <2>2. CASE job.kind \in Fresh
    <3>1. job'.data \in live' \ lost' /\ job'.data \in Blocks \ live
      BY <1>4, <2>2, NextPadFact DEF Fresh
    <3>2. ~OnPad(pads, job'.data)
      BY <1>0, <3>1 DEF OnPad, Kits
    <3>3. \A i \in DOMAIN job'.todo : job'.todo[i].src = None
      BY <1>4, <2>2, NextPadFact DEF Fresh
    <3> QED
      BY <1>4, <2>1, <2>2, <3>1, <3>2, <3>3, NextPadFact
  <2>3. CASE job.kind \notin Fresh
    <3>1. job.kind = "undo" => DOMAIN s_undo.prev = {}
      BY DEF Shape, PadShape
    <3>2. live' = live /\ job'.data = job.todo[1].src /\ 1 \in Todo
      BY <1>4, <2>3, NextPadFact
    <3>3. \A i \in DOMAIN job'.todo : job'.todo[i].src # None => job'.todo[i].src # job'.data
      BY <1>4, <3>2, NextPadFact
    <3> QED
      BY <1>4, <2>1, <3>1, <3>2, <3>3, NextPadFact
  <2> QED
    BY <2>2, <2>3
<1>5. CASE NoMemory \/ Refused
  <2>1. lost' \subseteq live'
    BY <1>11, <1>5, GiveUpFact
  <2>2. CASE job'.todo = job.todo
    BY <1>0, <1>10, <1>5, <2>1, <2>2, GiveUpFact
  <2>3. CASE job'.todo = <<>>
    BY <1>0, <1>10, <1>5, <2>1, <2>3, GiveUpFact
  <2> QED
    BY <1>5, <2>2, <2>3, GiveUpFact
<1>6. CASE Kill \/ Wait
  BY <1>10, <1>6, HandFact
<1>7. CASE Store
  BY <1>0, <1>7, StoreFact DEF Stashed, OnPad, Kits
<1>8. CASE EndEdit
  BY <1>10, <1>8, EndEditFact, NoJobFact DEF Stashed, Blank
<1> QED
  BY <1>1, <1>2, <1>3, <1>4, <1>5, <1>6, <1>7, <1>8 DEF SmpWork

(* No step forgets a block: what leaves one place is freed, counted as lost, *)
(* or put in another.                                                        *)
LEMMA StepCovered == Shape /\ Lists /\ Apart /\ Covered /\ [Next]_vars => Covered'
<1> SUFFICES ASSUME Shape, Lists, Apart, Covered, [Next]_vars,
                    NEW b, b \in live' \ lost'
             PROVE  \/ OnPad(pads', b)
                    \/ \E s \in DOMAIN s_undo'.prev : s_undo'.prev[s] = b
                    \/ \E i \in DOMAIN job'.todo : job'.todo[i].src = b
                    \/ job'.data = b
  BY DEF Covered, Todo
<1>0. b \in Blocks /\ b # None /\ b # RomData
  <2>1. live' \subseteq Blocks
    BY StepType DEF TypeOK
  <2> QED
    BY <2>1, NoneFact
<1>10. b \in live \ lost => \/ OnPad(pads, b)
                            \/ \E s \in DOMAIN s_undo.prev : s_undo.prev[s] = b
                            \/ \E i \in DOMAIN job.todo : job.todo[i].src = b
                            \/ job.data = b
  BY DEF Covered, Todo
<1>1. CASE ~SmpWork
  BY <1>1, <1>10, QuietFact
<1>2. CASE OpenTake
  <2>1. job = NoJob
    BY <1>2, OpenTakeFact DEF Shape, JobShape, Working, Replacing
  <2>2. ~(\E i \in DOMAIN job.todo : job.todo[i].src = b) /\ job.data # b
    BY <1>0, <2>1, NoJobFact
  <2>3. CASE UNCHANGED <<job, live, s_undo, before>>
    BY <1>2, <1>10, <2>3, OpenTakeFact
  <2>4. CASE live' = live \ Stashed
    <3>1. b \in live \ lost /\ ~(\E s \in DOMAIN s_undo.prev : s_undo.prev[s] = b)
      BY <1>0, <1>2, <2>4, OpenTakeFact DEF Stashed
    <3> QED
      BY <1>2, <1>10, <2>2, <3>1, OpenTakeFact
  <2> QED
    BY <1>2, <2>3, <2>4, OpenTakeFact
<1>3. CASE Edit
  <2>1. job = NoJob
    BY <1>3, EditFact DEF Shape, JobShape, Working, Replacing
  <2>2. ~(\E i \in DOMAIN job.todo : job.todo[i].src = b) /\ job.data # b
    BY <1>0, <2>1, NoJobFact
  <2>3. b \in live \ lost /\ pads' = pads
    BY <1>3, EditFact
  <2>4. CASE OnPad(pads, b)
    BY <2>3, <2>4
  <2>5. ASSUME NEW s \in DOMAIN s_undo.prev, s_undo.prev[s] = b
        PROVE  \/ \E t \in DOMAIN s_undo'.prev : s_undo'.prev[t] = b
               \/ \E i \in DOMAIN job'.todo : job'.todo[i].src = b
    <3>1. CASE UNCHANGED s_undo
      BY <2>5, <3>1
    <3>2. CASE s_undo' # s_undo
      <4>1. PICK i \in DOMAIN job'.todo : job'.todo[i].slot = s
        BY <1>3, <3>2, EditFact
      <4>2. job'.todo[i].src = s_undo.prev[job'.todo[i].slot]
        BY <1>3, <3>2, EditFact
      <4> QED
        BY <2>5, <4>1, <4>2
    <3> QED
      BY <3>1, <3>2
  <2> QED
    BY <1>10, <2>2, <2>3, <2>4, <2>5
<1>4. CASE NextPad
  <2>1. CASE b = job'.data
    BY <2>1
  <2>2. CASE b # job'.data
    <3>1. b \in live \ lost /\ pads' = pads /\ s_undo' = s_undo /\ pc = "next"
      BY <1>4, <2>2, NextPadFact
    <3>2. job.data # b
      BY <1>0, <3>1 DEF Shape, JobShape
    <3>3. ASSUME NEW i \in DOMAIN job.todo, job.todo[i].src = b
          PROVE  \E j \in DOMAIN job'.todo : job'.todo[j].src = b
      <4>1. job.kind = "undo"
        BY <1>0, <3>3 DEF Apart, Todo
      <4>2. i # 1
        BY <1>4, <2>2, <3>3, <4>1, NextPadFact DEF Fresh
      <4>3. i - 1 \in DOMAIN job'.todo
        BY <1>4, <4>2, NextPadFact DEF Todo
      <4>4. job'.todo[i - 1] = job.todo[(i - 1) + 1] /\ (i - 1) + 1 = i
        <5>1. i \in Nat
          <6>1. job.todo \in Seq(Item)
            BY DEF Shape, JobShape, Jobs
          <6> QED
            BY <6>1
        <5> QED
          BY <1>4, <4>3, <5>1, NextPadFact
      <4> QED
        BY <3>3, <4>3, <4>4
    <3> QED
      BY <1>10, <3>1, <3>2, <3>3
  <2> QED
    BY <2>1, <2>2
<1>5. CASE NoMemory \/ Refused
  <2>1. b \in live \ lost /\ job.data # b /\ pads' = pads /\ s_undo' = s_undo
    BY <1>5, GiveUpFact
  <2>2. ASSUME NEW i \in DOMAIN job.todo, job.todo[i].src = b
        PROVE  \E j \in DOMAIN job'.todo : job'.todo[j].src = b
    <3>1. job.kind \notin Fresh
      BY <1>0, <2>2 DEF Apart, Todo, Fresh
    <3> QED
      BY <1>5, <2>2, <3>1, GiveUpFact
  <2> QED
    BY <1>10, <2>1, <2>2
<1>6. CASE Kill \/ Wait
  BY <1>6, <1>10, HandFact
<1>7. CASE Store
  <2> DEFINE old == pads[job.kit][job.slot]
  <2>1. b \in live \ lost
    BY <1>7, StoreFact
  <2>2. /\ job.kit \in Kits /\ job.slot \in Slots /\ job'.todo = job.todo
        /\ pads'[job.kit][job.slot] = job.data
        /\ \A k \in Kits, s \in Slots : k # job.kit \/ s # job.slot => pads'[k][s] = pads[k][s]
    BY <1>7, StoreFact DEF Kits
  <2>3. ASSUME OnPad(pads, b), b # old
        PROVE  OnPad(pads', b)
    <3>1. PICK k \in Kits, s \in Slots : pads[k][s] = b
      BY <2>3 DEF OnPad
    <3>2. k # job.kit \/ s # job.slot
      BY <2>3, <3>1
    <3>3. pads'[k][s] = b
      BY <2>2, <3>1, <3>2
    <3> QED
      BY <3>3 DEF OnPad
  <2>4. ASSUME b = old
        PROVE  \E s \in DOMAIN s_undo'.prev : s_undo'.prev[s] = b
    <3>1. job.kind \notin {"undo", "clear", "dup"} /\ job.kind # "none"
      BY <1>0, <1>7, <2>4, StoreFact
    <3> QED
      BY <1>7, <2>4, <3>1, StoreFact
  <2>5. ASSUME NEW s \in DOMAIN s_undo.prev, s_undo.prev[s] = b
        PROVE  \E t \in DOMAIN s_undo'.prev : s_undo'.prev[t] = b
    <3>1. live' # live \ Stashed \/ b \notin live'
      BY <1>0, <2>5 DEF Stashed
    <3>2. job.kind = "commit" => s # job.slot
      BY <1>7, <2>5 DEF Lists, Store, Replacing
    <3> QED
      BY <1>7, <2>5, <3>1, <3>2, StoreFact
  <2>6. CASE job.data = b
    <3>1. OnPad(pads', b)
      BY <2>2, <2>6 DEF OnPad
    <3> QED
      BY <3>1
  <2> QED
    BY <1>10, <2>1, <2>2, <2>3, <2>4, <2>5, <2>6
<1>8. CASE EndEdit
  <2>1. b \in live \ lost /\ pads' = pads /\ pc = "next" /\ DOMAIN job.todo = {}
    BY <1>8, EndEditFact
  <2>2. job.data # b
    BY <1>0, <2>1 DEF Shape, JobShape
  <2>3. ASSUME NEW s \in DOMAIN s_undo.prev, s_undo.prev[s] = b
        PROVE  s_undo' = s_undo
    BY <1>0, <1>8, <2>3, EndEditFact DEF Stashed
  <2> QED
    BY <1>10, <2>1, <2>2, <2>3
<1> QED
  BY <1>1, <1>2, <1>3, <1>4, <1>5, <1>6, <1>7, <1>8 DEF SmpWork

(* No step takes what an undo needs away: what the stash does not hold of the *)
(* kit is on its pads.                                                       *)
LEMMA StepRestores == Shape /\ Lists /\ Restores /\ [Next]_vars => Restores'
<1> SUFFICES ASSUME Shape, Lists, Restores, [Next]_vars PROVE Restores'
  OBVIOUS
<1> DEFINE R1 == (DOMAIN s_undo.prev # {} \/ job.kind = "commit") /\ job.kind # "clear" =>
                   \A s \in Slots : before[s] = IF s \in DOMAIN s_undo.prev THEN s_undo.prev[s]
                                                ELSE pads[s_undo.kit][s]
           R2 == job.kind = "undo" /\ ~job.refused =>
                   /\ \A i \in DOMAIN job.todo : before[job.todo[i].slot] = job.todo[i].src
                   /\ pc \in Replacing => before[job.slot] = job.data
                   /\ \A s \in Slots : \/ before[s] = pads[job.kit][s]
                                       \/ \E i \in DOMAIN job.todo : job.todo[i].slot = s
                                       \/ (pc \in Replacing /\ s = job.slot)
<1>0. R1 /\ R2
  BY DEF Restores, Todo
<1>9. SUFFICES R1' /\ R2'
  BY DEF Restores, Todo
<1> USE DEF Working, Replacing
<1>1. CASE ~SmpWork
  BY <1>0, <1>1, QuietFact
<1>2. CASE OpenTake
  <2>1. CASE UNCHANGED <<job, live, s_undo, before>>
    <3>1. job = NoJob /\ pads' = pads
      BY <1>2, OpenTakeFact DEF Shape, JobShape
    <3>2. job.kind = "none"
      BY <3>1, NoJobFact
    <3> QED
      BY <1>0, <2>1, <3>1, <3>2
  <2>2. CASE job'.kind = "commit" /\ before' = pads[s_kit_current]
    <3>1. pads' = pads /\ job # job' => s_undo'.kit = s_kit_current /\ DOMAIN s_undo'.prev = {}
      BY <1>2, <2>2, OpenTakeFact DEF Blank
    <3>2. job.kind = "none"
      BY <1>2, OpenTakeFact, NoJobFact DEF Shape, JobShape
    <3>3. pads' = pads /\ s_undo'.kit = s_kit_current /\ DOMAIN s_undo'.prev = {}
      BY <1>2, <2>2, <3>1, <3>2, OpenTakeFact
    <3>4. R1'
      BY <2>2, <3>3
    <3> QED
      BY <2>2, <3>4
  <2> QED
    BY <1>2, <2>1, <2>2, OpenTakeFact
<1>3. CASE Edit
  <2>1. job = NoJob
    BY <1>3, EditFact DEF Shape, JobShape
  <2>2. job.kind = "none" /\ pads' = pads /\ before' = before /\ pc' = "next"
    BY <1>3, <2>1, NoJobFact, EditFact
  <2>3. CASE job'.kind \in {"erase", "copy", "clear"} /\ UNCHANGED s_undo
    BY <1>0, <2>2, <2>3
  <2>4. CASE job'.kind = "undo"
    <3>1. R1'
      BY <1>3, <2>4, EditFact DEF Blank
    <3>2. /\ DOMAIN s_undo.prev # {} /\ job'.kit = s_undo.kit
          /\ DOMAIN s_undo.prev \subseteq Slots
          /\ \A i \in DOMAIN job'.todo :
               /\ job'.todo[i].slot \in DOMAIN s_undo.prev
               /\ job'.todo[i].src = s_undo.prev[job'.todo[i].slot]
          /\ \A s \in DOMAIN s_undo.prev : \E i \in DOMAIN job'.todo : job'.todo[i].slot = s
      BY <1>3, <2>4, EditFact DEF Shape, TypeOK
    <3>3. R2'
      BY <1>0, <2>2, <3>2
    <3> QED
      BY <3>1, <3>3
  <2> QED
    BY <1>3, <2>3, <2>4, EditFact
<1>4. CASE NextPad
  <2>1. R1'
    BY <1>0, <1>4, NextPadFact
  <2>2. ASSUME job'.kind = "undo", ~job'.refused
        PROVE  R2'
    <3>1. /\ job.kind = "undo" /\ ~job.refused /\ 1 \in DOMAIN job.todo /\ pc = "next"
          /\ job'.slot = job.todo[1].slot /\ job'.data = job.todo[1].src
          /\ UNCHANGED <<pads, before>> /\ job'.kit = job.kit
      BY <1>4, <2>2, NextPadFact DEF Fresh, Todo
    <3>2. \A i \in DOMAIN job'.todo : before'[job'.todo[i].slot] = job'.todo[i].src
      BY <1>0, <1>4, <3>1, NextPadFact DEF Todo
    <3>3. ASSUME NEW i \in DOMAIN job.todo
          PROVE  \/ job.todo[i].slot = job'.slot
                 \/ \E j \in DOMAIN job'.todo : job'.todo[j].slot = job.todo[i].slot
      <4>1. CASE i = 1
        BY <3>1, <4>1
      <4>2. CASE i # 1
        <5>1. i - 1 \in DOMAIN job'.todo
          BY <1>4, <4>2, NextPadFact DEF Todo
        <5>2. job'.todo[i - 1] = job.todo[(i - 1) + 1] /\ (i - 1) + 1 = i
          <6>1. job.todo \in Seq(Item)
            BY DEF Shape, JobShape, Jobs
          <6>2. i \in Nat
            BY <6>1
          <6> QED
            BY <1>4, <5>1, <6>2, NextPadFact
        <5> QED
          BY <5>1, <5>2
      <4> QED
        BY <4>1, <4>2
    <3>4. pc' = "kill"
      BY <1>4, NextPadFact
    <3>5. \A s \in Slots :
            \/ before'[s] = pads'[job'.kit][s]
            \/ \E i \in DOMAIN job'.todo : job'.todo[i].slot = s
            \/ s = job'.slot
      <4> TAKE s \in Slots
      <4>1. CASE before[s] = pads[job.kit][s]
        BY <3>1, <4>1
      <4>2. CASE \E i \in DOMAIN job.todo : job.todo[i].slot = s
        <5>1. PICK i \in DOMAIN job.todo : job.todo[i].slot = s
          BY <4>2
        <5>2. s = job'.slot \/ \E j \in DOMAIN job'.todo : job'.todo[j].slot = s
          BY <3>3, <5>1
        <5> QED
          BY <5>2
      <4> QED
        BY <1>0, <3>1, <4>1, <4>2
    <3> QED
      BY <1>0, <3>1, <3>2, <3>4, <3>5
  <2> QED
    BY <2>1, <2>2
<1>5. CASE NoMemory \/ Refused
  BY <1>0, <1>5, GiveUpFact
<1>6. CASE Kill \/ Wait
  BY <1>0, <1>6, HandFact
<1>7. CASE Store
  <2>0. /\ job.kit \in UserKits /\ job.slot \in Slots /\ pc = "store" /\ pc' = "next"
        /\ pads'[job.kit][job.slot] = job.data /\ job.kit \in Kits
        /\ \A k \in Kits, s \in Slots : k # job.kit \/ s # job.slot => pads'[k][s] = pads[k][s]
        /\ job'.todo = job.todo /\ job'.kind = job.kind /\ job'.kit = job.kit
        /\ job'.refused = job.refused
    BY <1>7, StoreFact DEF Kits
  <2>1. CASE job.kind = "commit"
    <3>1. /\ s_undo'.kit = s_undo.kit /\ s_undo.kit = job.kit /\ before' = before
          /\ DOMAIN s_undo'.prev = DOMAIN s_undo.prev \cup {job.slot}
          /\ s_undo'.prev[job.slot] = pads[job.kit][job.slot]
          /\ \A s \in DOMAIN s_undo.prev : s # job.slot => s_undo'.prev[s] = s_undo.prev[s]
          /\ job.slot \notin DOMAIN s_undo.prev
      BY <1>7, <2>0, <2>1, StoreFact DEF Shape, PadShape, Lists
    <3>2. ASSUME NEW s \in Slots
          PROVE  before'[s] = IF s \in DOMAIN s_undo'.prev THEN s_undo'.prev[s]
                              ELSE pads'[s_undo'.kit][s]
      <4>1. before[s] = IF s \in DOMAIN s_undo.prev THEN s_undo.prev[s] ELSE pads[job.kit][s]
        BY <1>0, <2>1, <3>1
      <4>2. s # job.slot => pads'[job.kit][s] = pads[job.kit][s]
        BY <2>0
      <4> QED
        BY <2>0, <3>1, <4>1, <4>2
    <3> QED
      BY <2>0, <2>1, <3>2
  <2>2. CASE job.kind \in {"erase", "copy"}
    <3>1. /\ s_undo'.kit = job.kit /\ DOMAIN s_undo'.prev = {job.slot}
          /\ s_undo'.prev[job.slot] = pads[job.kit][job.slot] /\ before' = pads[job.kit]
      BY <1>7, <2>2, StoreFact
    <3>2. \A s \in Slots : s # job.slot => pads'[job.kit][s] = pads[job.kit][s]
      BY <2>0
    <3>3. R1'
      BY <3>1, <3>2
    <3> QED
      BY <2>0, <2>2, <3>3
  <2>3. CASE job.kind = "undo"
    <3>1. DOMAIN s_undo.prev = {} /\ s_undo' = s_undo /\ before' = before
      BY <1>7, <2>3, StoreFact DEF Shape, PadShape
    <3>2. \A s \in Slots : s # job.slot => pads'[job.kit][s] = pads[job.kit][s]
      BY <2>0
    <3>3. ASSUME ~job.refused
          PROVE  /\ \A i \in DOMAIN job.todo : before[job.todo[i].slot] = job.todo[i].src
                 /\ before[job.slot] = job.data
                 /\ \A s \in Slots : \/ before[s] = pads[job.kit][s]
                                     \/ \E i \in DOMAIN job.todo : job.todo[i].slot = s
                                     \/ s = job.slot
      BY <1>0, <2>0, <2>3, <3>3
    <3>4. R2'
      BY <2>0, <3>1, <3>2, <3>3
    <3>5. R1'
      BY <2>0, <2>3, <3>1
    <3> QED
      BY <3>4, <3>5
  <2>4. CASE job.kind = "clear"
    BY <2>0, <2>4
  <2>5. CASE job.kind = "dup"
    <3>1. DOMAIN s_undo.prev = {} /\ s_undo' = s_undo
      BY <1>7, <2>5, StoreFact DEF Shape, PadShape
    <3> QED
      BY <2>0, <2>5, <3>1
  <2> QED
    BY <1>7, <2>1, <2>2, <2>3, <2>4, <2>5, StoreFact
<1>8. CASE EndEdit
  <2>1. CASE job.kind = "clear"
    BY <1>8, <2>1, EndEditFact DEF Blank
  <2>2. CASE job.kind # "clear"
    BY <1>0, <1>8, <2>2, EndEditFact, NoJobFact
  <2> QED
    BY <2>1, <2>2
<1> QED
  BY <1>1, <1>2, <1>3, <1>4, <1>5, <1>6, <1>7, <1>8 DEF SmpWork

-----------------------------------------------------------------------------
(* The voices. *)

(* The steps of the audio task, of drum_ctl and of smp_ctl that touch neither *)
(* a voice nor the place of the audio task, and what they do to the pads.    *)
Still == \/ OpenTake \/ DropTake \/ CountIn \/ CountedIn \/ NoMemory \/ Refused \/ EndEdit
         \/ Edit \/ SelectBind \/ Publish \/ Press \/ Release \/ UNCHANGED vars
         \/ (\E x \in Slots \cup {None} : ArmSlot(x)) \/ (\E k \in Kits : SelectKit(k))

(* A step that leaves voices, keys and pads alone. *)
LEMMA StillFact ==
  ASSUME Still
  PROVE  /\ UNCHANGED <<voice, key, apc, pads>>
         /\ pc' \in Replacing => UNCHANGED <<pc, job, s_kill_slot, boundaries>>
<1> USE DEF audio, memory, ctl, hand, Replacing
<1>1. CASE OpenTake \/ DropTake \/ CountIn \/ CountedIn
  BY <1>1 DEF OpenTake, DropTake, CountIn, CountedIn
<1>2. CASE NoMemory \/ Refused \/ EndEdit \/ Edit
  BY <1>2 DEF NoMemory, Refused, EndEdit, Edit
<1>3. CASE SelectBind \/ Publish \/ UNCHANGED vars
  BY <1>3 DEF SelectBind, Publish, vars
<1>4. CASE Press \/ Release
  BY <1>4 DEF Press, Release
<1>5. CASE \E x \in Slots \cup {None} : ArmSlot(x)
  BY <1>5 DEF ArmSlot
<1>6. CASE \E k \in Kits : SelectKit(k)
  BY <1>6 DEF SelectKit
<1> QED
  BY <1>1, <1>2, <1>3, <1>4, <1>5, <1>6 DEF Still

(* What a change of "waited" does to a voice: it stays, and one that plays   *)
(* the block being replaced and is not waited for is late.                   *)
LEMMA GoOnFact ==
  ASSUME Shape, NEW w, GoOn(w)
  PROVE  /\ voice'.of = voice.of /\ voice'.data = voice.data /\ voice'.slot = voice.slot
         /\ voice'.current = voice.current /\ key'.data = key.data
         /\ voice'.late = "no" => voice.late = "no" /\ (w \/ ~Bumped(voice.data))
         /\ key'.late = "no" => key.late = "no" /\ (w \/ ~Bumped(key.data))
<1>1. voice \in Voices /\ key \in Keys
  BY DEF Shape, VoiceShape
<1> QED
  BY <1>1 DEF GoOn, Voices, Keys

(* A block is on one pad. *)
LEMMA OnePad ==
  Shape /\ Apart => \A k \in UserKits, l \in Kits, s, t \in Slots :
    pads[k][s] \in Blocks /\ pads[l][t] = pads[k][s] => k = l /\ s = t
<1> SUFFICES ASSUME Shape, Apart, NEW k \in UserKits, NEW l \in Kits, NEW s \in Slots,
                    NEW t \in Slots, pads[k][s] \in Blocks, pads[l][t] = pads[k][s]
             PROVE  k = l /\ s = t
  OBVIOUS
<1>1. l \in UserKits
  BY NoneFact DEF Kits, Shape, PadShape
<1> QED
  BY <1>1, NoneFact DEF Apart

(* A voice that is not late keeps a pad under it: the store that would take *)
(* it away finds none left, by the handshake.                                *)
LEMMA StepPlaying ==
  Shape /\ Apart /\ Playing /\ Waited /\ [Next]_vars => Playing'
<1> SUFFICES ASSUME Shape, Apart, Playing, Waited, [Next]_vars PROVE Playing'
  OBVIOUS
<1> USE NoneFact DEF Playing
<1>0. voice \in Voices /\ key \in Keys
  BY DEF Shape, VoiceShape
<1>1. CASE Still
  BY <1>1, StillFact
<1>2. CASE \E s \in Slots : KeyOn(s)
  <2>1. PICK s \in Slots : KeyOn(s)
    BY <1>2
  <2>2. OnPad(pads, key'.data) /\ pads' = pads /\ voice' = voice /\ apc' = "arm"
    BY <2>1 DEF KeyOn, memory, OnPad, Shape, TypeOK
  <2> QED
    BY <2>2
<1>3. CASE KeyArm
  BY <1>0, <1>3 DEF KeyArm, NoKey, memory, Late, Keys
<1>4. CASE BeginBlock \/ LoadKit
  <2>1. voice' \in {voice, NoVoice} /\ key' = key /\ pads' = pads /\ apc # "arm"
    BY <1>4 DEF BeginBlock, LoadKit, memory
  <2> QED
    BY <2>1 DEF NoVoice
<1>5. CASE Drain
  <2>1. key' = key /\ pads' = pads /\ apc # "arm"
    BY <1>5 DEF Drain, memory
  <2>2. CASE voice' \in {voice, NoVoice}
    BY <2>1, <2>2 DEF NoVoice
  <2>3. ASSUME NEW s \in Slots,
               voice' = [of |-> "drum", data |-> pads[kit][s], slot |-> s, current |-> FALSE,
                         late |-> Late(Killed(pads[kit][s]))]
        PROVE  Playing'
    BY <2>1, <2>3 DEF OnPad, Shape, TypeOK
  <2> QED
    BY <1>5, <2>2, <2>3 DEF Drain
<1>6. CASE Capture \/ CaptureFull
  BY <1>6 DEF Capture, CaptureFull, memory
<1>7. CASE SelectBump \/ NextPad
  BY <1>0, <1>7 DEF SelectBump, NextPad, memory, Voices
<1>8. CASE Kill \/ Wait
  <2>1. PICK w : GoOn(w)
    BY <1>8 DEF Kill, Wait
  <2>2. pads' = pads /\ apc' = apc
    BY <1>8 DEF Kill, Wait, memory
  <2> QED
    BY <2>1, <2>2, GoOnFact
<1>9. CASE Store
  <2>1. /\ voice' = voice /\ key' = key /\ apc' = apc /\ pc = "store"
        /\ \A k \in Kits, s \in Slots :
             pads'[k][s] = IF k = job.kit /\ s = job.slot THEN job.data ELSE pads[k][s]
    BY <1>9, StoreFact DEF Store, audio
  <2>2. \A v \in {voice, key} : v.late = "no" /\ v.data # None => v.data # pads[job.kit][job.slot]
    BY <2>1 DEF Waited, Hit, Replacing
  <2>3. \A v \in {voice, key} : v.late = "no" /\ v.data # None =>
          \A k \in Kits, s \in Slots : pads[k][s] = v.data => pads'[k][s] = v.data
    BY <2>1, <2>2
  <2>4. \A v \in {voice, key} : v.late = "no" /\ v.data # None => OnPad(pads', v.data)
    BY <2>3 DEF OnPad
  <2>5. voice.of = "drum" /\ voice.late = "no" /\ voice.data # None =>
          voice.slot \in Slots /\ \E k \in Kits : pads'[k][voice.slot] = voice.data
    BY <2>3
  <2> QED
    BY <2>1, <2>4, <2>5
<1> QED
  BY <1>1, <1>2, <1>3, <1>4, <1>5, <1>6, <1>7, <1>8, <1>9
     DEF Next, Audio, SmpCtl, Player, Still

(* Every step keeps the handshake, with the two boundaries counted.          *)
LEMMA StepWaited ==
  Shape /\ Apart /\ Playing /\ Waited /\ [Next]_vars => Waited'
<1> SUFFICES ASSUME Shape, Apart, Playing, Waited, [Next]_vars PROVE Waited'
  OBVIOUS
<1> USE NoneFact DEF Waited, Hit
<1>0. /\ voice \in Voices /\ key \in Keys /\ boundaries \in 0 .. 2
      /\ key.data # None => apc = "arm"
      /\ pc \in Replacing => job.kit \in UserKits /\ job.slot \in Slots
      /\ None \notin Slots
  BY DEF Shape, VoiceShape, TypeOK, JobShape, Jobs, Working, Playing
<1> USE DEF Replacing
<1>1. CASE Still
  BY <1>1, StillFact
<1>2. CASE \E s \in Slots : KeyOn(s)
  BY <1>0, <1>2 DEF KeyOn, Late, Bumped, memory, ctl, hand
<1>3. CASE KeyArm
  BY <1>0, <1>3 DEF KeyArm, NoKey, Late, Bumped, memory, ctl, hand, Keys
<1>4. CASE BeginBlock
  BY <1>0, <1>4 DEF BeginBlock, NoVoice, memory, ctl, hand
<1>5. CASE LoadKit
  BY <1>0, <1>5 DEF LoadKit, NoVoice, memory, ctl, hand
<1>6. CASE Drain
  <2>1. /\ apc = "drain" /\ apc' \in {"capture", "notes"} /\ UNCHANGED <<pads, pc, job, key>>
        /\ boundaries' = IF boundaries < 2 THEN boundaries + 1 ELSE 2
    BY <1>6 DEF Drain, memory, ctl
  <2>2. key.data = None /\ boundaries' # 0 /\ (boundaries = 0 => boundaries' = 1)
    BY <1>0, <2>1
  <2>3. CASE voice' = NoVoice
    BY <2>1, <2>2, <2>3 DEF NoVoice
  <2>4. CASE voice' = voice /\ (voice.of = "drum" => voice.slot # s_kill_slot)
    <3>1. pc = "wait" /\ Hit(voice) /\ voice.of = "drum" => FALSE
      <4>1. SUFFICES ASSUME pc = "wait", Hit(voice), voice.of = "drum" PROVE FALSE
        OBVIOUS
      <4>2. s_kill_slot = job.slot
        BY <4>1
      <4>3. PICK k \in Kits : pads[k][voice.slot] = voice.data
        BY <4>1 DEF Playing
      <4>4. voice.slot \in Slots /\ voice.data \in Blocks
        BY <1>0, <4>1 DEF Playing, Voices, Held
      <4>5. voice.slot = job.slot
        <5> DEFINE l == job.kit
                   s == job.slot
                   t == voice.slot
        <5>1. /\ l \in UserKits /\ s \in Slots /\ t \in Slots /\ k \in Kits
              /\ pads[l][s] \in Blocks /\ pads[k][t] = pads[l][s]
          BY <1>0, <4>1, <4>3, <4>4
        <5> HIDE DEF l, s, t
        <5>2. t = s
          BY <5>1, OnePad
        <5> QED
          BY <5>2 DEF s, t
      <4> QED
        BY <2>4, <4>1, <4>2, <4>5
    <3> QED
      BY <2>1, <2>2, <2>4, <3>1
  <2>5. ASSUME NEW s \in Slots,
               voice' = [of |-> "drum", data |-> pads[kit][s], slot |-> s, current |-> FALSE,
                         late |-> Late(Killed(pads[kit][s]))]
        PROVE  Waited'
    BY <2>1, <2>2, <2>5 DEF Late, Killed
  <2> QED
    BY <1>6, <2>3, <2>4, <2>5 DEF Drain
<1>7. CASE Capture \/ CaptureFull
  BY <1>0, <1>7 DEF Capture, CaptureFull, memory, ctl, hand
<1>8. CASE SelectBump
  BY <1>0, <1>8 DEF SelectBump, memory, ctl, hand, Voices
<1>9. CASE NextPad
  BY <1>0, <1>9 DEF NextPad, Voices
<1>10. CASE Kill
  <2>1. /\ pc = "kill" /\ pads' = pads /\ job'.kit = job.kit /\ job'.slot = job.slot
        /\ GoOn(job.kit = s_kit)
        /\ \/ job.kit = s_kit /\ s_kill_slot' = job.slot /\ boundaries' = 0 /\ pc' = "wait"
           \/ job.kit # s_kit /\ pc' = "store"
    BY <1>10, HandFact DEF Kill
  <2>2. job.kit # s_kit => /\ voice'.late = "no" => voice.data # pads[job.kit][job.slot]
                           /\ key'.late = "no" => key.data # pads[job.kit][job.slot]
    BY <2>1, GoOnFact DEF Bumped
  <2>3. /\ voice'.of = voice.of /\ voice'.data = voice.data /\ voice'.current = voice.current
        /\ voice'.late = "no" => voice.late = "no"
        /\ key'.data = key.data
    BY <2>1, GoOnFact
  <2> QED
    BY <2>1, <2>2, <2>3
<1>11. CASE Wait
  <2>1. /\ pc = "wait" /\ pc' = "store" /\ pads' = pads /\ boundaries \in {0, 2}
        /\ job'.kit = job.kit /\ job'.slot = job.slot /\ GoOn(boundaries > 0)
    BY <1>11, HandFact DEF Wait
  <2>5. /\ voice'.late = "no" => boundaries > 0 \/ ~Bumped(voice.data)
        /\ key'.late = "no" => boundaries > 0 \/ ~Bumped(key.data)
    <3> DEFINE w == boundaries > 0
    <3>1. GoOn(w)
      BY <2>1
    <3> HIDE DEF w
    <3>2. /\ voice'.late = "no" => w \/ ~Bumped(voice.data)
          /\ key'.late = "no" => w \/ ~Bumped(key.data)
      BY <3>1, GoOnFact
    <3> QED
      BY <3>2, Zenon DEF w
  <2>2. boundaries = 0 => /\ voice'.late = "no" => voice.data # pads[job.kit][job.slot]
                          /\ key'.late = "no" => key.data # pads[job.kit][job.slot]
    BY <2>1, <2>5 DEF Bumped
  <2>3. /\ voice'.data = voice.data /\ key'.data = key.data
        /\ voice'.late = "no" => voice.late = "no"
        /\ key'.late = "no" => key.late = "no"
    BY <2>1, GoOnFact
  <2>4. ~Hit(voice)' /\ ~Hit(key)'
    <3>1. boundaries = 2 => ~Hit(voice) /\ ~Hit(key)
      BY <1>0, <2>1 DEF Playing, Voices
    <3> QED
      BY <2>1, <2>2, <2>3, <3>1
  <2> QED
    BY <2>1, <2>4
<1>12. CASE Store
  BY <1>12 DEF Store
<1> QED
  BY <1>1, <1>2, <1>3, <1>4, <1>5, <1>6, <1>7, <1>8, <1>9, <1>10, <1>11, <1>12
     DEF Next, Audio, SmpCtl, Player, Still

-----------------------------------------------------------------------------
(* The take. *)

(* Whoever shows a take as being committed has asked for it, but where the   *)
(* request was taken before the state was stored.                            *)
LEMMA StepOwned == Shape /\ Owned /\ [Next]_vars => Owned'
<1> SUFFICES ASSUME Shape, Owned, [Next]_vars PROVE Owned'
  OBVIOUS
<1> USE DEF Owned, CommitHasOwner, Committing
<1>1. CASE SmpWork /\ ~OpenTake /\ ~EndEdit
  <2>1. /\ pc \in {"idle"} \cup Working /\ pc' \in Working
        /\ pc = "idle" => job = NoJob
        /\ pc # "idle" => job'.kind = job.kind
    BY <1>1, EditFact, NextPadFact, GiveUpFact, HandFact, StoreFact
       DEF SmpWork, Working, Replacing, NoMemory, Refused, Shape, JobShape
  <2>2. UNCHANGED <<s_state, s_stop_req, early, apc, ppc>>
    BY <1>1 DEF SmpWork, Edit, NextPad, NoMemory, Kill, Wait, Refused, Store, rec, audio, player
  <2> QED
    BY <2>1, <2>2, NoJobFact DEF Working, Replacing
<1>2. CASE OpenTake
  <2>1. UNCHANGED <<apc, ppc>> /\ (pc' \in {"drop", "short"} \/ job'.kind = "commit")
    BY <1>2, OpenTakeFact DEF OpenTake, audio, player
  <2>2. apc = "committing" \/ ppc = "committing" => early'
    BY <1>2, Zenon DEF OpenTake
  <2> QED
    BY <2>1, <2>2
<1>3. CASE EndEdit
  BY <1>3, EndEditFact DEF EndEdit, audio, player
<1>4. CASE Capture \/ CaptureFull
  BY <1>4 DEF Capture, CaptureFull, player, ctl
<1>5. CASE Publish
  <2>1. (s_stop_req \/ ppc = "stopping") => s_stop_req'
    BY <1>5, Zenon DEF Publish
  <2> QED
    BY <1>5, <2>1 DEF Publish, ctl, audio
<1>6. CASE \/ (\E s \in Slots : KeyOn(s)) \/ KeyArm \/ BeginBlock \/ LoadKit \/ Drain
  BY <1>6 DEF KeyOn, KeyArm, BeginBlock, LoadKit, Drain, rec, player, ctl
<1>7. CASE DropTake \/ CountIn \/ CountedIn
  BY <1>7 DEF DropTake, CountIn, CountedIn, Idle, Shape, JobShape, memory, audio, player
<1>8. CASE \/ Press \/ Release \/ (\E x \in Slots \cup {None} : ArmSlot(x))
           \/ (\E k \in Kits : SelectKit(k))
  BY <1>8 DEF Press, Release, ArmSlot, SelectKit, ctl, audio, rec
<1>9. CASE SelectBump \/ SelectBind \/ UNCHANGED vars
  BY <1>9 DEF SelectBump, SelectBind, vars, ctl, audio, rec, player
<1> QED
  BY <1>1, <1>2, <1>3, <1>4, <1>5, <1>6, <1>7, <1>8, <1>9
     DEF Next, Audio, SmpCtl, Player, SmpWork

-----------------------------------------------------------------------------
(* The invariant and the theorems. *)

IInv == Shape /\ Lists /\ Apart /\ Covered /\ Restores /\ Playing /\ Waited /\ Owned

(* At the start no request is under way, nothing is stashed and nothing      *)
(* plays; the only block allocated is on a pad.                              *)
LEMMA InitInv == Init => IInv
<1> SUFFICES ASSUME Init PROVE IInv
  OBVIOUS
<1> USE NoneFact
<1>1. Shape
  BY InitShape
<1>2. /\ job.kind = "none" /\ job.data = None /\ DOMAIN job.todo = {} /\ pc = "idle"
      /\ DOMAIN s_undo.prev = {} /\ lost = {} /\ live \in {{}, {First}}
      /\ voice = NoVoice /\ key = NoKey /\ s_state = "armed"
      /\ apc # "committing" /\ ppc # "committing"
  BY NoJobFact DEF Init, NoUndo
<1>3. PICK k \in UserKits : pads = [i \in Kits |-> [s \in Slots |->
         IF i = Factory THEN RomData
         ELSE IF i = k /\ s = 0 /\ live # {} THEN First ELSE None]]
  BY DEF Init
<1>4. /\ \A i \in UserKits, s \in Slots :
           pads[i][s] = IF i = k /\ s = 0 /\ live # {} THEN First ELSE None
      /\ k \in Kits /\ 0 \in Slots /\ UserKits \subseteq Kits
  BY <1>3 DEF Kits, Slots
<1>5. Lists
  BY <1>2 DEF Lists, Todo, Replacing
<1>6. Apart
  BY <1>2, <1>4 DEF Apart, Todo
<1>7. Covered
  <2>1. ASSUME NEW b \in live PROVE OnPad(pads, b)
    <3>1. b = First /\ pads[k][0] = First
      BY <1>2, <1>4, <2>1
    <3> QED
      BY <1>4, <3>1 DEF OnPad
  <2> QED
    BY <2>1 DEF Covered
<1>8. Restores
  BY <1>2 DEF Restores
<1>9. Playing /\ Waited
  BY <1>2 DEF Playing, Waited, Hit, NoVoice, NoKey, Replacing
<1>10. Owned
  BY <1>2 DEF Owned, CommitHasOwner
<1> QED
  BY <1>1, <1>5, <1>6, <1>7, <1>8, <1>9, <1>10 DEF IInv

(* Every step keeps the whole invariant, ... *)
LEMMA StepInv == IInv /\ [Next]_vars => IInv'
  BY StepShape, StepLists, StepApart, StepCovered, StepRestores, StepPlaying, StepWaited,
     StepOwned
     DEF IInv

(* ... so that it holds of every reachable state. *)
THEOREM Inductive == Spec => []IInv
  BY InitInv, StepInv, PTL DEF Spec

(* Every variable has its type; the ids of kits, slots and blocks that a     *)
(* request or a voice carries are ids of this kit store.                     *)
THEOREM Typing == Spec => []TypeOK
<1>1. IInv => TypeOK
  BY DEF IInv, Shape
<1> QED
  BY <1>1, Inductive, PTL

(* The block a voice plays is allocated, unless smp_ctl did not wait for it. *)
THEOREM VoicesKeepPads == Spec => []PadsOutliveVoices
<1>1. IInv => PadsOutliveVoices
  <2> SUFFICES ASSUME IInv PROVE PadsOutliveVoices
    OBVIOUS
  <2>1. /\ TypeOK /\ voice.data \in Held /\ key.data \in Held
        /\ voice.late \in Lates /\ key.late \in Lates
    BY DEF IInv, Shape, VoiceShape, Voices, Keys
  <2>2. ASSUME NEW v \in {voice, key}, v.late = "no", v.data # None
        PROVE  v.data \in live
    <3>1. PICK k \in Kits, s \in Slots : pads[k][s] = v.data
      BY <2>2 DEF IInv, Playing, OnPad
    <3>2. k \in UserKits
      BY <2>1, <2>2, <3>1, NoneFact DEF Kits, Held, IInv, Shape, PadShape
    <3> QED
      BY <2>2, <3>1, <3>2 DEF IInv, Apart
  <2> QED
    BY <2>1, <2>2 DEF PadsOutliveVoices
<1> QED
  BY <1>1, Inductive, PTL

(* Every block is in one place or, free or lost, in none: of the four kinds   *)
(* of places that can hold a block, one does, and once.                      *)
LEMMA OneHome == IInv => PoolExact
<1> SUFFICES ASSUME IInv, NEW b \in Blocks
             PROVE  Cardinality(Homes(b)) = IF b \in live \ lost THEN 1 ELSE 0
  BY DEF PoolExact
<1> DEFINE PadHomes  == {<<"pad", k, s>> : k \in {i \in Kits : \E s \in Slots : pads[i][s] = b},
                                         s \in {i \in Slots : \E k \in Kits : pads[k][i] = b}}
           Prevs     == {i \in DOMAIN s_undo.prev : s_undo.prev[i] = b}
           Stash     == {<<"stash", s>> : s \in Prevs}
           Srcs      == {j \in DOMAIN job.todo : job.todo[j].src = b}
           Undos     == {<<"todo", i>> : i \in Srcs}
           Hand      == IF job.data = b THEN {<<"hand">>} ELSE {}
<1>1. Homes(b) = PadHomes \cup Stash \cup Undos \cup Hand
  BY DEF Homes
<1>2. b # None /\ b # RomData /\ Shape /\ Apart /\ Covered
  BY NoneFact DEF IInv
<1>3. ~OnPad(pads, b) => PadHomes = {}
  BY DEF OnPad
<1>4. OnPad(pads, b) => \E h : PadHomes = {h}
  <2> SUFFICES ASSUME OnPad(pads, b) PROVE \E h : PadHomes = {h}
    OBVIOUS
  <2>1. PICK k \in Kits, s \in Slots : pads[k][s] = b
    BY DEF OnPad
  <2>2. k \in UserKits
    BY <1>2, <2>1 DEF Kits, Shape, PadShape
  <2>3. \A l \in Kits, t \in Slots : pads[l][t] = b => l = k /\ t = s
    BY <1>2, <2>1, <2>2, OnePad
  <2>4. {i \in Kits : \E t \in Slots : pads[i][t] = b} = {k}
    BY <2>1, <2>3
  <2>5. {i \in Slots : \E l \in Kits : pads[l][i] = b} = {s}
    BY <2>1, <2>3
  <2>6. PadHomes = {<<"pad", k, s>>}
    BY <2>4, <2>5
  <2> HIDE DEF PadHomes
  <2> QED
    BY <2>6
<1>5. \/ Prevs = {} /\ Stash = {}
      \/ \E h : Stash = {h}
  <2>1. \A s, t \in Prevs : s = t
    BY <1>2 DEF Apart
  <2> HIDE DEF Prevs
  <2>2. CASE Prevs = {}
    BY <2>2
  <2>3. ASSUME NEW s \in Prevs
        PROVE  Stash = {<<"stash", s>>}
    BY <2>1, <2>3
  <2> QED
    BY <2>2, <2>3
<1>6. \/ Srcs = {} /\ Undos = {}
      \/ \E h : Undos = {h}
  <2>1. \A s, t \in Srcs : s = t
    BY <1>2 DEF Apart, Todo
  <2> HIDE DEF Srcs
  <2>2. CASE Srcs = {}
    BY <2>2
  <2>3. ASSUME NEW s \in Srcs
        PROVE  Undos = {<<"todo", s>>}
    BY <2>1, <2>3
  <2> QED
    BY <2>2, <2>3
<1>7. /\ Prevs # {} => /\ Stash # {} /\ b \in live \ lost /\ ~OnPad(pads, b)
                       /\ Srcs = {} /\ job.data # b
      /\ Srcs # {} => Undos # {} /\ b \in live \ lost /\ ~OnPad(pads, b) /\ job.data # b
      /\ job.data = b => b \in live \ lost /\ ~OnPad(pads, b)
      /\ OnPad(pads, b) => b \in live \ lost
      /\ Prevs = {} => Stash = {}
      /\ Srcs = {} => Undos = {}
  <2>1. Prevs # {} => Srcs = {}
    BY <1>2 DEF Apart, Todo, Shape, PadShape
  <2>2. OnPad(pads, b) => b \in live \ lost
    BY <1>2 DEF Apart, OnPad, Kits, Shape, PadShape
  <2>3. Prevs # {} => b \in live \ lost /\ ~OnPad(pads, b) /\ job.data # b
    BY <1>2 DEF Apart
  <2>4. Srcs # {} => b \in live \ lost /\ ~OnPad(pads, b) /\ job.data # b
    BY <1>2 DEF Apart, Todo
  <2>5. job.data = b => b \in live \ lost /\ ~OnPad(pads, b)
    BY <1>2 DEF Apart
  <2> HIDE DEF Prevs, Srcs
  <2> QED
    BY <2>1, <2>2, <2>3, <2>4, <2>5
<1>8. b \in live \ lost => OnPad(pads, b) \/ Prevs # {} \/ Srcs # {} \/ job.data = b
  BY <1>2 DEF Covered, Todo
<1> HIDE DEF PadHomes, Prevs, Stash, Srcs, Undos
<1>9. CASE b \in live \ lost
  <2>1. \E h : Homes(b) = {h}
    <3>1. CASE OnPad(pads, b)
      <4>1. Homes(b) = PadHomes
        BY <1>1, <1>7, <3>1
      <4> QED
        BY <1>4, <3>1, <4>1
    <3>2. CASE Prevs # {}
      <4>1. Homes(b) = Stash /\ Stash # {}
        BY <1>1, <1>3, <1>7, <3>2
      <4> QED
        BY <1>5, <3>2, <4>1
    <3>3. CASE Srcs # {}
      <4>1. Homes(b) = Undos /\ Undos # {}
        BY <1>1, <1>3, <1>7, <3>3
      <4> QED
        BY <1>6, <3>3, <4>1
    <3>4. CASE job.data = b
      <4>1. Homes(b) = {<<"hand">>}
        BY <1>1, <1>3, <1>7, <3>4
      <4> QED
        BY <4>1
    <3> QED
      BY <1>8, <1>9, <3>1, <3>2, <3>3, <3>4
  <2> QED
    BY <1>9, <2>1, FS_Singleton
<1>10. CASE b \notin live \ lost
  <2>1. Homes(b) = {}
    BY <1>1, <1>3, <1>7, <1>10
  <2> QED
    BY <1>10, <2>1, FS_EmptySet
<1> QED
  BY <1>9, <1>10

(* The stash put back gives the kit as it was, and so does what is left of   *)
(* an undo that was not refused.                                             *)
LEMMA UndoGetsThere == IInv => UndoRestores
<1> SUFFICES ASSUME IInv PROVE UndoRestores
  OBVIOUS
<1>1. before \in [Slots -> Blocks \cup {None}] /\ Restores /\ Shape
  BY DEF IInv, Shape, TypeOK
<1>2. DOMAIN s_undo.prev # {} /\ job.kind # "clear" => Undone(s_undo.kit, s_undo.prev) = before
  BY <1>1 DEF Restores, Undone
<1>3. ASSUME job.kind = "undo", ~job.refused
      PROVE  Undone(job.kit, Pending) = before
  <2>1. pc = "next" \/ pc \in Replacing
    BY <1>1, <1>3, NoJobFact DEF Shape, JobShape, Working
  <2>2. \A s \in Slots :
          (IF s \in DOMAIN Pending THEN Pending[s] ELSE pads[job.kit][s]) = before[s]
    <3> TAKE s \in Slots
    <3>1. CASE \E i \in DOMAIN job.todo : job.todo[i].slot = s
      <4> DEFINE c == CHOOSE i \in DOMAIN job.todo : job.todo[i].slot = s
      <4>1. s \in DOMAIN Pending /\ Pending[s] = job.todo[c].src
        BY <3>1 DEF Pending
      <4>2. c \in DOMAIN job.todo /\ job.todo[c].slot = s
        BY <3>1
      <4> HIDE DEF c
      <4>3. before[s] = job.todo[c].src
        BY <1>1, <1>3, <4>2 DEF Restores, Todo
      <4> QED
        BY <4>1, <4>3
    <3>2. CASE /\ ~(\E i \in DOMAIN job.todo : job.todo[i].slot = s)
               /\ pc \in Replacing /\ s = job.slot
      <4>1. s \in DOMAIN Pending /\ Pending[s] = job.data
        BY <3>2 DEF Pending, Replacing
      <4>2. before[s] = job.data
        BY <1>1, <1>3, <3>2 DEF Restores
      <4> QED
        BY <4>1, <4>2
    <3>3. CASE /\ ~(\E i \in DOMAIN job.todo : job.todo[i].slot = s)
               /\ ~(pc \in Replacing /\ s = job.slot)
      <4>1. s \notin DOMAIN Pending
        BY <2>1, <3>3 DEF Pending
      <4>2. before[s] = pads[job.kit][s]
        BY <1>1, <1>3, <3>3 DEF Restores, Todo
      <4> QED
        BY <4>1, <4>2
    <3> QED
      BY <3>1, <3>2, <3>3
  <2> HIDE DEF Pending
  <2> QED
    BY <1>1, <2>2 DEF Undone
<1> QED
  BY <1>2, <1>3 DEF UndoRestores

(* No block of the pool is in two places, and one in none is free or a       *)
(* duplicate's; what the stash holds restores the kit the last operation met. *)
THEOREM PoolIsKept == Spec => []NothingLost
<1>1. IInv => NothingLost
  BY OneHome, UndoGetsThere DEF NothingLost
<1> QED
  BY <1>1, Inductive, PTL

(* A take shown as being committed is being committed, or asked to be.       *)
THEOREM CommitsHaveOwner == Spec => []CommitHasOwner
<1>1. IInv => CommitHasOwner
  BY DEF IInv, Owned
<1> QED
  BY <1>1, Inductive, PTL
=============================================================================
