---------------------------- MODULE SeqArp_proof -----------------------------
(***************************************************************************)
(* Proofs about components/seqarp. Playback, for any number of tracks, any  *)
(* sheet of steps, any size of the table of note-offs and whatever the other *)
(* tasks do between two steps of the clock task: no note is left hanging, a  *)
(* pattern takes over on one tick for every track, and a parameter a step    *)
(* locked goes back to where the players left it. The arpeggiator, for any   *)
(* number of players, keys and octaves, a list and a table of any size and   *)
(* any way its knobs are turned: what sounds is owed its note-off, and the   *)
(* map of taken notes outlives neither the list nor the keys.                *)
(***************************************************************************)
EXTENDS SeqPlay, Arp, FiniteSetTheorems, WellFoundedInduction, TLAPS

-----------------------------------------------------------------------------
(* Playback. *)

USE SizeAssumption, LockAssumption

Ratcheting == [left : Nat \ {0}, next : Int, every : Nat \ {0}, note : Notes]
Track == [base : Int, next : Int, held : BOOLEAN, last : Notes \cup {None},
          rat : {NoRatchet} \cup Ratcheting]

(* Every variable has its type, the tracks included. *)
Shape == TypeOK /\ s_trk \in [Tracks -> Track]

(* A tick is run only while the transport runs. *)
InTick == ~s_running => at = 0 /\ ~switched

Kept == /\ sounding \subseteq Owed(s_off)
        /\ ~s_running => sounding = {}

Begun(t) == /\ fired[t] = <<s_pattern>> /\ s_trk[t].next > 0
            /\ s_trk[t].rat.left > 0 => s_trk[t].rat.next > 0
Waiting(t) == /\ fired[t] = <<>> /\ s_trk[t].next = 0 /\ s_trk[t].base = 0
              /\ s_trk[t].rat = NoRatchet
BarTaken ==
  switched => \A t \in Tracks : /\ at = 0 => fired[t] = <<s_pattern>>
                                /\ at > 0 /\ t < at => Begun(t)
                                /\ at > 0 /\ t = at => Begun(t) \/ Waiting(t)
                                /\ at > 0 /\ t > at => Waiting(t)

LocksKept ==
  \A p \in Pids \ (fought \cup shared \cup dropped) :
    /\ \A t, u \in Holders(p) : t = u
    /\ \A t \in Holders(p) : lock[t][p].base = player[p]
    /\ Holders(p) = {} => value[p] = player[p]

IInv == Shape /\ InTick /\ Kept /\ BarTaken /\ LocksKept

-----------------------------------------------------------------------------
(* What the sheet being played allows. *)
LEMMA SheetFacts ==
  ASSUME TypeOK
  PROVE  /\ StepTicks \in Nat \ {0} /\ MaxMoves \in Nat
         /\ Lens \subseteq Nat \ {0} /\ Ratchets \subseteq Nat \ {0}
         /\ Offsets \subseteq {o \in Int : o >= 1 - StepTicks}
         /\ sheet.notes \subseteq Notes /\ sheet.locks \subseteq Pids
BY SheetAssumption DEF TypeOK, StepTicks, MaxMoves, Lens, Ratchets, Offsets

(* The sheet does not change. *)
LEMMA SheetStays ==
  ASSUME [Next]_vars
  PROVE  sheet' = sheet
BY DEF Next, vars, Start, Stop, Select, TickStart, Ratchet, FireSilent, FirePlay, NextTrack,
       Knob, SetLength, Reregister, SetSong

(* The shapes of the initial values. *)
LEMMA Constants ==
  /\ NoRatchet.left = 0 /\ Fresh \in Track
  /\ \A o \in Off : o # Free
  /\ \A g \in Nat \ {0}, b \in Values : [gen |-> g, base |-> b] # NoLock
<1>1. NoRatchet.left = 0 /\ Fresh \in Track
  BY DEF NoRatchet, Fresh, Track
<1>2. \A o \in Off : o # Free
  BY DEF Off, Free, Tracks
<1>3. \A g \in Nat \ {0}, b \in Values : [gen |-> g, base |-> b] # NoLock
  BY DEF NoLock
<1> QED
  BY <1>1, <1>2, <1>3

(* A track stays one when it is rewound or resumed, ... *)
LEMMA RewoundTrack ==
  ASSUME NEW trk \in Track
  PROVE  /\ Rewound(trk) \in Track /\ Rewound(trk).next = 0 /\ Rewound(trk).base = 0
         /\ Rewound(trk).rat = NoRatchet
         /\ Resumed(trk) \in Track /\ Resumed(trk).next = trk.next
         /\ Resumed(trk).base = trk.base /\ Resumed(trk).rat = NoRatchet
<1> DEFINE z == 0
           f == FALSE
           r == NoRatchet
<1>1. z \in Int /\ f \in BOOLEAN /\ r \in {NoRatchet} \cup Ratcheting
  OBVIOUS
<1> HIDE DEF z, f, r
<1>2. LET new == [trk EXCEPT !.base = z, !.next = z, !.held = f, !.rat = r]
      IN new \in Track /\ new.base = z /\ new.next = z /\ new.rat = r
  BY <1>1 DEF Track
<1>3. LET new == [trk EXCEPT !.held = f, !.rat = r]
      IN new \in Track /\ new.base = trk.base /\ new.next = trk.next /\ new.rat = r
  BY <1>1 DEF Track
<1> QED
  BY <1>2, <1>3 DEF Rewound, Resumed, z, f, r

(* ... when its next step is due a division later, ... *)
LEMMA MovedTrack ==
  ASSUME NEW trk \in Track, NEW off \in Int, StepTicks \in Nat
  PROVE  /\ Moved(trk, off) \in Track
         /\ Moved(trk, off).base = trk.base + StepTicks
         /\ Moved(trk, off).next = trk.base + StepTicks + off
         /\ Moved(trk, off).rat = trk.rat
<1> DEFINE b == trk.base + StepTicks
           n == trk.base + StepTicks + off
<1>1. b \in Int /\ n \in Int
  BY DEF Track
<1> HIDE DEF b, n
<1>2. LET new == [trk EXCEPT !.base = b, !.next = n]
      IN new \in Track /\ new.base = b /\ new.next = n /\ new.rat = trk.rat
  BY <1>1 DEF Track
<1> QED
  BY <1>2 DEF Moved, b, n

(* ... and when a tick passes. *)
LEMMA NearerTrack ==
  ASSUME NEW trk \in Track
  PROVE  /\ Nearer(trk) \in Track
         /\ Nearer(trk).base = trk.base - 1 /\ Nearer(trk).next = trk.next - 1
<1> DEFINE b == trk.base - 1
           n == trk.next - 1
           r == IF trk.rat.left = 0 THEN trk.rat
                ELSE [trk.rat EXCEPT !.next = trk.rat.next - 1]
<1>1. b \in Int /\ n \in Int
  BY DEF Track
<1>2. r \in {NoRatchet} \cup Ratcheting
  <2>1. CASE trk.rat = NoRatchet
    BY <2>1, Constants
  <2>2. CASE trk.rat \in Ratcheting
    BY <2>2 DEF Ratcheting
  <2> QED
    BY <2>1, <2>2 DEF Track
<1>3. Nearer(trk) = [trk EXCEPT !.base = b, !.next = n, !.rat = r]
  BY Zenon DEF Nearer
<1> HIDE DEF b, n, r
<1>4. LET new == [trk EXCEPT !.base = b, !.next = n, !.rat = r]
      IN new \in Track /\ new.base = b /\ new.next = n /\ new.rat = r
  BY <1>1, <1>2 DEF Track
<1> QED
  BY <1>3, <1>4 DEF b, n

-----------------------------------------------------------------------------
(* Choosing the first or the last. *)

(* A set of numbers has a least one, ... *)
LEMMA Least ==
  ASSUME NEW S \in SUBSET Nat, S # {}
  PROVE  \E m \in S : \A k \in S : m <= k
<1>1. PICK n \in S : TRUE
  OBVIOUS
<1> DEFINE F == 0 .. n
           R == StrictSubsetOrdering(F)
           U == {V \in SUBSET F : \E m \in S : m <= n /\ V = {j \in S : j <= m}}
<1>2. IsFiniteSet(F) /\ FiniteSubsetsOf(F) = SUBSET F
  <2>1. IsFiniteSet(F)
    BY FS_Interval
  <2> HIDE DEF F
  <2> QED
    BY <2>1, FS_FiniteSubsetsOfFinite
<1>3. IsWellFoundedOn(R, SUBSET F)
  BY <1>2, FS_StrictSubsetOrderingWellFounded
<1>4. ASSUME NEW m \in S, m <= n
      PROVE {j \in S : j <= m} \in U
  <2> DEFINE V == {j \in S : j <= m}
  <2>1. V \subseteq F
    <3> SUFFICES ASSUME NEW j \in S, j <= m PROVE j \in 0 .. n
      OBVIOUS
    <3>1. j \in Nat /\ m \in Nat /\ n \in Nat
      BY <1>1
    <3> QED BY <1>4, <3>1
  <2> QED BY <2>1, <1>4
<1>5. U \subseteq SUBSET F /\ U # {}
  <2>1. U \subseteq SUBSET F
    OBVIOUS
  <2>2. {j \in S : j <= n} \in U 
    BY <1>4
  <2> QED BY <2>1, <2>2
<1>6. PICK u \in U : \A w \in U : ~ (<<w, u>> \in R)
  <2> HIDE DEF U, R, F
  <2> QED
  BY <1>3, <1>5, WFMin
<1>7. PICK m \in S : m <= n /\ u = {j \in S : j <= m}
  OBVIOUS
<1>8. ASSUME NEW k \in S, k < m PROVE FALSE
  <2> DEFINE w == {j \in S : j <= k}
  <2>1. w \in U 
    <3>1. k <= n BY <1>7, <1>8
    <3> QED BY <3>1, <1>4
  <2>2. w \subseteq u /\ w # u
    <3>1. m \in u /\ m \notin w
      BY <1>7, <1>8
    <3>2. \A j \in w : j \in u
      BY <1>7, <1>8
    <3> QED BY <3>1, <3>2
  <2> HIDE DEF w
  <2>3. <<w, u>> \in R
    BY <2>1, <2>2, <1>5 DEF StrictSubsetOrdering
  <2> QED BY <1>6, <2>1, <2>3
<1> QED BY <1>7, <1>8

(* ... and a bounded one a greatest. *)
LEMMA Greatest ==
  ASSUME NEW n \in Nat, NEW S \in SUBSET (1 .. n), S # {}
  PROVE  \E m \in S : \A k \in S : k <= m
<1> DEFINE D == {d \in Nat : n - d \in S}
<1>1. \A k \in S : n - k \in D
  <2> TAKE k \in S
  <2>1. k \in 1 .. n
    OBVIOUS
  <2>2. n - k \in Nat /\ n - (n - k) = k
    BY <2>1
  <2> QED
    BY <2>2
<1>2. PICK d \in D : \A e \in D : d <= e
  BY <1>1, Least
<1>3. n - d \in S /\ \A k \in S : k <= n - d
  BY <1>1, <1>2
<1> QED
  BY <1>3

-----------------------------------------------------------------------------
(* The table of note-offs. *)

Table == [1 .. MaxOffs -> Off \cup {Free}]

(* A slot is free or owes a note. *)
LEMMA SlotKinds ==
  ASSUME NEW off \in Table, NEW i \in DOMAIN off
  PROVE  /\ off[i] = Free \/ (off[i] \in Off /\ off[i] # Free)
         /\ i \in 1 .. MaxOffs /\ DOMAIN off = 1 .. MaxOffs
BY Constants DEF Table

(* Scheduling a note-off keeps those the table has, and adds the new one     *)
(* where there is room.                                                      *)
LEMMA ScheduledOwes ==
  ASSUME NEW off \in Table, NEW t \in Tracks, NEW note \in Notes, NEW gate \in Nat \ {0}
  PROVE  /\ Scheduled(off, t, note, gate) \in Table
         /\ (Owed(off) \cup {note}) \ Unscheduled(off, note)
              \subseteq Owed(Scheduled(off, t, note, gate))
<1>1. CASE Empty(off) = {}
  BY <1>1 DEF Scheduled, Unscheduled
<1>2. CASE Empty(off) # {}
  <2> DEFINE i == CHOOSE j \in Empty(off) : \A k \in Empty(off) : j <= k
             o == [note |-> note, track |-> t, left |-> gate]
             new == [off EXCEPT ![i] = o]
  <2>1. Empty(off) \in SUBSET Nat
    BY DEF Empty, Table
  <2>2. i \in Empty(off)
    BY <1>2, <2>1, Least
  <2>3. Scheduled(off, t, note, gate) = new
    BY <1>2 DEF Scheduled
  <2>4. o \in Off /\ o.note = note /\ o # Free
    <3>1. o \in Off /\ o.note = note
      BY DEF Off
    <3> QED
      BY <3>1, Constants
  <2> HIDE DEF i, o
  <2>5. new \in Table /\ i \in DOMAIN new /\ new[i] = o /\ off[i] = Free
    BY <2>2, <2>4 DEF Empty, Table
  <2>6. note \in Owed(new)
    BY <2>4, <2>5 DEF Owed
  <2>7. Owed(off) \subseteq Owed(new)
    <3> SUFFICES ASSUME NEW j \in DOMAIN off, off[j] # Free
                 PROVE  off[j].note \in Owed(new)
      BY DEF Owed
    <3>1. new[j] = off[j] /\ j \in DOMAIN new
      BY <2>5
    <3> QED
      BY <3>1 DEF Owed
  <2> QED
    BY <2>3, <2>5, <2>6, <2>7
<1> QED
  BY <1>1, <1>2

(* Flushing slots keeps the note-offs of the others. *)
LEMMA WithoutOwes ==
  ASSUME NEW off \in Table, NEW S \in SUBSET DOMAIN off
  PROVE  /\ Without(off, S) \in Table
         /\ Owed(off) \ NotesAt(off, S) \subseteq Owed(Without(off, S))
<1>1. Without(off, S) \in Table
  BY DEF Without, Table
<1>2. ASSUME NEW j \in DOMAIN off, off[j] # Free, off[j].note \notin NotesAt(off, S)
      PROVE  off[j].note \in Owed(Without(off, S))
  <2>1. j \in DOMAIN Without(off, S) /\ Without(off, S)[j] = off[j]
    BY <1>2 DEF Without, NotesAt
  <2> QED
    BY <1>2, <2>1 DEF Owed
<1> QED
  BY <1>1, <1>2 DEF Owed

(* A note that is triggered sounds and is owed a note-off, or is released    *)
(* at once; the notes it flushes are released.                               *)
LEMMA TriggeredOwes ==
  ASSUME s_off \in Table, sounding \subseteq Notes, sounding \subseteq Owed(s_off),
         NEW t \in Tracks, NEW note \in Notes, NEW gate \in Nat \ {0}, NEW slide \in BOOLEAN,
         Triggered(t, note, gate, slide)
  PROVE  /\ s_off' \in Table /\ sounding' \subseteq Notes
         /\ sounding' \subseteq Owed(s_off')
<1> DEFINE mine == Slots(s_off, t)
           kept == [i \in DOMAIN s_off |->
                      IF i \in mine THEN [s_off[i] EXCEPT !.left = 1] ELSE s_off[i]]
<1>1. mine \subseteq DOMAIN s_off /\ \A i \in mine : s_off[i] # Free
  BY DEF Slots
<1>2. CASE Slides(t, note, slide)
  <2>1. \A i \in mine : /\ [s_off[i] EXCEPT !.left = 1] \in Off
                        /\ [s_off[i] EXCEPT !.left = 1].note = s_off[i].note
    <3> SUFFICES ASSUME NEW i \in mine
                 PROVE  /\ [s_off[i] EXCEPT !.left = 1] \in Off
                        /\ [s_off[i] EXCEPT !.left = 1].note = s_off[i].note
      OBVIOUS
    <3>1. s_off[i] \in Off
      BY <1>1, SlotKinds
    <3> QED
      BY <3>1 DEF Off
  <2>2. kept \in Table
    BY <2>1 DEF Table
  <2>3. Owed(s_off) \subseteq Owed(kept)
    <3> SUFFICES ASSUME NEW j \in DOMAIN s_off, s_off[j] # Free
                 PROVE  s_off[j].note \in Owed(kept)
      BY DEF Owed
    <3>1. j \in DOMAIN kept /\ kept[j].note = s_off[j].note /\ kept[j] # Free
      BY <2>1, Constants
    <3> HIDE DEF kept
    <3> QED
      BY <3>1 DEF Owed
  <2>4. /\ s_off' = Scheduled(kept, t, note, gate)
        /\ sounding' = (sounding \cup {note}) \ Unscheduled(kept, note)
    BY <1>2 DEF Triggered
  <2> HIDE DEF kept, mine
  <2> QED
    BY <2>2, <2>3, <2>4, ScheduledOwes
<1>3. CASE ~Slides(t, note, slide)
  <2>1. /\ s_off' = Scheduled(Without(s_off, mine), t, note, gate)
        /\ sounding' = ((sounding \ NotesAt(s_off, mine)) \cup {note})
                          \ Unscheduled(Without(s_off, mine), note)
    BY <1>3 DEF Triggered
  <2>2. /\ Without(s_off, mine) \in Table
        /\ Owed(s_off) \ NotesAt(s_off, mine) \subseteq Owed(Without(s_off, mine))
    BY <1>1, WithoutOwes
  <2> HIDE DEF mine
  <2> QED
    BY <2>1, <2>2, ScheduledOwes
<1> QED
  BY <1>2, <1>3

(* So a tick that releases what is due. *)
LEMMA TickOwes ==
  ASSUME s_off \in Table, sounding \subseteq Notes, sounding \subseteq Owed(s_off), TickStart
  PROVE  /\ s_off' \in Table /\ sounding' \subseteq Notes
         /\ sounding' \subseteq Owed(s_off')
<1>1. /\ sounding' = sounding \ NotesAt(s_off, DueSlots)
      /\ s_off' = [i \in DOMAIN s_off |->
                     IF s_off[i] = Free \/ i \in DueSlots THEN Free
                     ELSE [s_off[i] EXCEPT !.left = s_off[i].left - 1]]
  BY DEF TickStart
<1>2. ASSUME NEW i \in DOMAIN s_off, s_off[i] # Free, i \notin DueSlots
      PROVE  /\ [s_off[i] EXCEPT !.left = s_off[i].left - 1] \in Off
             /\ [s_off[i] EXCEPT !.left = s_off[i].left - 1].note = s_off[i].note
  <2>1. s_off[i] \in Off /\ s_off[i].left > 1
    BY <1>2, SlotKinds DEF DueSlots, Off
  <2> DEFINE n == s_off[i].left - 1
  <2>2. n \in Nat \ {0}
    BY <2>1 DEF Off
  <2> HIDE DEF n
  <2>3. [s_off[i] EXCEPT !.left = n] \in Off /\ [s_off[i] EXCEPT !.left = n].note = s_off[i].note
    BY <2>1, <2>2 DEF Off
  <2> QED
    BY <2>3 DEF n
<1>3. s_off' \in Table
  <2> DEFINE new(i) == IF s_off[i] = Free \/ i \in DueSlots THEN Free
                       ELSE [s_off[i] EXCEPT !.left = s_off[i].left - 1]
  <2>1. ASSUME NEW i \in 1 .. MaxOffs
        PROVE  new(i) \in Off \cup {Free}
    <3>1. i \in DOMAIN s_off
      BY DEF Table
    <3>2. CASE s_off[i] = Free \/ i \in DueSlots
      BY <3>2
    <3>3. CASE ~(s_off[i] = Free \/ i \in DueSlots)
      BY <1>2, <3>1, <3>3
    <3> QED
      BY <3>2, <3>3
  <2>2. s_off' = [i \in 1 .. MaxOffs |-> new(i)]
    BY <1>1 DEF Table
  <2> HIDE DEF new
  <2> QED
    BY <2>1, <2>2 DEF Table
<1>4. ASSUME NEW j \in DOMAIN s_off, s_off[j] # Free, s_off[j].note \notin NotesAt(s_off, DueSlots)
      PROVE  s_off[j].note \in Owed(s_off')
  <2>1. j \notin DueSlots
    BY <1>4 DEF NotesAt
  <2>2. j \in DOMAIN s_off' /\ s_off'[j].note = s_off[j].note /\ s_off'[j] # Free
    BY <1>1, <1>2, <1>4, <2>1, Constants
  <2> QED
    BY <2>2 DEF Owed
<1>5. ASSUME NEW n \in sounding, n \notin NotesAt(s_off, DueSlots)
      PROVE  n \in Owed(s_off')
  <2>1. PICK j \in DOMAIN s_off : s_off[j] # Free /\ s_off[j].note = n
    BY DEF Owed
  <2> QED
    BY <1>4, <1>5, <2>1
<1> QED
  BY <1>1, <1>3, <1>5

-----------------------------------------------------------------------------
(* The tracks. *)

(* Switching patterns rewinds every track or leaves them.                    *)
LEMMA SwitchRewinds ==
  ASSUME NEW p, NEW trk \in [Tracks -> Track], SwitchPattern(p, trk)
  PROVE  /\ s_trk' \in [Tracks -> Track]
         /\ \/ /\ s_pattern' = s_pattern /\ p = s_pattern
               /\ s_trk' = trk /\ UNCHANGED <<value, lock>>
            \/ /\ s_pattern' # s_pattern /\ s_pattern' = p /\ ReleaseLocks
               /\ \A t \in Tracks : /\ s_trk'[t].next = 0 /\ s_trk'[t].base = 0
                                    /\ s_trk'[t].rat = NoRatchet
<1>1. CASE p = s_pattern
  BY <1>1 DEF SwitchPattern
<1>2. CASE p # s_pattern
  <2>1. /\ s_pattern' = p /\ ReleaseLocks
        /\ s_trk' = [t \in Tracks |-> Rewound(trk[t])]
    BY <1>2 DEF SwitchPattern
  <2>2. \A t \in Tracks : /\ Rewound(trk[t]) \in Track
                          /\ Rewound(trk[t]).next = 0 /\ Rewound(trk[t]).base = 0
                          /\ Rewound(trk[t]).rat = NoRatchet
    BY RewoundTrack
  <2> QED
    BY <1>2, <2>1, <2>2
<1> QED
  BY <1>1, <1>2

(* A tick brings every step one nearer.                                      *)
LEMMA TickedTracks ==
  ASSUME s_trk \in [Tracks -> Track]
  PROVE  /\ Ticked \in [Tracks -> Track]
         /\ \A t \in Tracks : /\ Ticked[t].next = s_trk[t].next - 1
                              /\ Ticked[t].base = s_trk[t].base - 1
<1>1. ASSUME NEW t \in Tracks
      PROVE  /\ Ticked[t] \in Track
             /\ Ticked[t].next = s_trk[t].next - 1 /\ Ticked[t].base = s_trk[t].base - 1
  <2> DEFINE near == Nearer(s_trk[t])
             h == near.held /\ \A i \in DueSlots : s_off[i].track # t
  <2>1. near \in Track /\ near.base = s_trk[t].base - 1 /\ near.next = s_trk[t].next - 1
    BY NearerTrack
  <2>2. h \in BOOLEAN
    OBVIOUS
  <2>3. Ticked[t] = [near EXCEPT !.held = h]
    BY DEF Ticked
  <2> HIDE DEF near, h
  <2>4. LET new == [near EXCEPT !.held = h]
        IN new \in Track /\ new.base = near.base /\ new.next = near.next
    BY <2>1, <2>2 DEF Track
  <2> QED
    BY <2>1, <2>3, <2>4
<1>2. Ticked = [t \in Tracks |-> Ticked[t]]
  BY DEF Ticked
<1> QED
  BY <1>1, <1>2

(* So does the tick that ends a bar, or all start over.                      *)
LEMMA TickStartTracks ==
  ASSUME s_trk \in [Tracks -> Track], TickStart, s_pattern \in Patterns,
         s_queued \in Patterns \cup {None}
  PROVE  /\ s_trk' \in [Tracks -> Track] /\ s_pattern' \in Patterns
         /\ s_queued' \in Patterns \cup {None}
         /\ switched' = (s_pattern' # s_pattern)
         /\ \/ /\ s_pattern' = s_pattern /\ UNCHANGED <<value, lock>>
               /\ \A t \in Tracks : /\ s_trk'[t].next = s_trk[t].next - 1
                                    /\ s_trk'[t].base = s_trk[t].base - 1
            \/ /\ s_pattern' # s_pattern /\ ReleaseLocks
               /\ \A t \in Tracks : /\ s_trk'[t].next = 0 /\ s_trk'[t].base = 0
                                    /\ s_trk'[t].rat = NoRatchet
<1>1. switched' = (s_pattern' # s_pattern)
  BY DEF TickStart
<1>2. CASE ~BarOver
  BY <1>1, <1>2, TickedTracks DEF TickStart
<1>3. CASE BarOver
  <2>1. Boundary
    BY <1>3 DEF TickStart
  <2>2. PICK p \in Patterns : SwitchPattern(p, Ticked)
    BY <2>1 DEF Boundary
  <2>3. s_queued' \in Patterns \cup {None}
    BY <2>1 DEF Boundary
  <2> QED
    BY <1>1, <2>2, <2>3, TickedTracks, SwitchRewinds
<1> QED
  BY <1>2, <1>3

(* One fired step moves its track on by a division.                          *)
Fire == FireSilent \/ FirePlay

(* Firing moves the position of one track, to a step that is still to come. *)
LEMMA FireMoves ==
  ASSUME Shape, Fire
  PROVE  /\ at \in Tracks /\ s_trk[at].next <= 0
         /\ s_trk' \in [Tracks -> Track]
         /\ \A t \in Tracks : t # at => s_trk'[t] = s_trk[t]
         /\ s_trk'[at].base = s_trk[at].base + StepTicks
         /\ \E off \in Offsets : s_trk'[at].next = s_trk[at].base + StepTicks + off
         /\ s_trk'[at].rat.left > 0 => s_trk'[at].rat.next > 0
<1>1. at \in Tracks /\ s_trk[at].next <= 0
  <2>1. Due
    BY DEF Fire, FireSilent, FirePlay
  <2>2. at \in 0 .. NumTracks
    BY DEF Shape, TypeOK
  <2> QED
    BY <2>1, <2>2 DEF Due, Tracks
<1>2. ASSUME NEW trk \in Track, NEW off \in Offsets,
             trk.base = s_trk[at].base, trk.rat.left > 0 => trk.rat.next > 0,
             s_trk' = [s_trk EXCEPT ![at] = Moved(trk, off)]
      PROVE  /\ s_trk' \in [Tracks -> Track]
             /\ \A t \in Tracks : t # at => s_trk'[t] = s_trk[t]
             /\ s_trk'[at].base = s_trk[at].base + StepTicks
             /\ \E o \in Offsets : s_trk'[at].next = s_trk[at].base + StepTicks + o
             /\ s_trk'[at].rat.left > 0 => s_trk'[at].rat.next > 0
  <2>1. off \in Int /\ StepTicks \in Nat
    BY SheetFacts DEF Shape
  <2>2. /\ Moved(trk, off) \in Track /\ Moved(trk, off).rat = trk.rat
        /\ Moved(trk, off).base = trk.base + StepTicks
        /\ Moved(trk, off).next = trk.base + StepTicks + off
    BY <2>1, MovedTrack
  <2>3. s_trk'[at] = Moved(trk, off)
    BY <1>1, <1>2 DEF Shape
  <2> QED
    BY <1>1, <1>2, <2>2, <2>3 DEF Shape
<1>3. CASE FireSilent
  <2>1. PICK off \in Offsets :
          s_trk' = [s_trk EXCEPT ![at] = Moved([s_trk[at] EXCEPT !.rat = NoRatchet], off)]
    BY <1>3 DEF FireSilent
  <2> DEFINE trk == [s_trk[at] EXCEPT !.rat = NoRatchet]
  <2>2. trk \in Track /\ trk.base = s_trk[at].base /\ trk.rat = NoRatchet
    <3> DEFINE r == NoRatchet
    <3>1. s_trk[at] \in Track /\ r \in {NoRatchet} \cup Ratcheting
      BY <1>1 DEF Shape
    <3> HIDE DEF r
    <3>2. LET new == [s_trk[at] EXCEPT !.rat = r]
          IN new \in Track /\ new.base = s_trk[at].base /\ new.rat = r
      BY <3>1 DEF Track
    <3> QED
      BY <3>2 DEF r
  <2>3. trk.rat.left > 0 => trk.rat.next > 0
    BY <2>2, Constants
  <2> HIDE DEF trk
  <2> QED
    BY <1>1, <1>2, <2>1, <2>2, <2>3 DEF trk
<1>4. CASE FirePlay
  <2> DEFINE every(hits) == IF StepTicks \div hits < 1 THEN 1 ELSE StepTicks \div hits
             rat(hits, note) == IF hits = 1 THEN NoRatchet
                    ELSE [left |-> hits - 1, next |-> every(hits), every |-> every(hits),
                          note |-> note]
  <2>1. PICK note \in sheet.notes, hits \in Ratchets, off \in Offsets :
          s_trk' = [s_trk EXCEPT ![at] =
                     Moved([s_trk[at] EXCEPT !.rat = rat(hits, note), !.last = note,
                                             !.held = TRUE], off)]
    BY <1>4 DEF FirePlay
  <2>2. note \in Notes /\ hits \in Nat \ {0} /\ StepTicks \in Nat \ {0}
    BY SheetFacts DEF Shape
  <2>3. every(hits) \in Nat \ {0}
    BY <2>2
  <2>4. /\ rat(hits, note) \in {NoRatchet} \cup Ratcheting
        /\ rat(hits, note).left > 0 => rat(hits, note).next > 0
    <3> HIDE DEF every
    <3>1. CASE hits = 1
      BY <3>1, Constants
    <3>2. CASE hits # 1
      <4> DEFINE e == every(hits)
                 l == hits - 1
      <4>1. e \in Nat \ {0} /\ l \in Nat \ {0}
        BY <2>2, <2>3, <3>2
      <4>2. rat(hits, note) = [left |-> l, next |-> e, every |-> e, note |-> note]
        BY <3>2
      <4> HIDE DEF e, l
      <4> QED
        BY <2>2, <4>1, <4>2 DEF Ratcheting
    <3> QED
      BY <3>1, <3>2
  <2> DEFINE r == rat(hits, note)
             trk == [s_trk[at] EXCEPT !.rat = r, !.last = note, !.held = TRUE]
  <2>5. /\ r \in {NoRatchet} \cup Ratcheting /\ (r.left > 0 => r.next > 0)
        /\ s_trk' = [s_trk EXCEPT ![at] = Moved(trk, off)]
    BY <2>1, <2>4
  <2> HIDE DEF r
  <2>6. trk \in Track /\ trk.base = s_trk[at].base /\ trk.rat = r
    <3> DEFINE h == TRUE
               l == note
    <3>1. s_trk[at] \in Track /\ h \in BOOLEAN /\ l \in Notes \cup {None}
      BY <1>1, <2>2 DEF Shape
    <3> HIDE DEF h, l
    <3>2. LET new == [s_trk[at] EXCEPT !.rat = r, !.last = l, !.held = h]
          IN new \in Track /\ new.base = s_trk[at].base /\ new.rat = r
      BY <2>5, <3>1 DEF Track
    <3> QED
      BY <3>2 DEF h, l
  <2> HIDE DEF trk
  <2> QED
    BY <1>1, <1>2, <2>5, <2>6
<1> QED
  BY <1>1, <1>3, <1>4 DEF Fire

(* A hit leaves the steps where they are.                                    *)
LEMMA RatchetKeepsSteps ==
  ASSUME Shape, Ratchet
  PROVE  /\ at \in Tracks /\ s_trk[at].rat \in Ratcheting
         /\ s_trk' \in [Tracks -> Track]
         /\ \A t \in Tracks : t # at => s_trk'[t] = s_trk[t]
         /\ s_trk'[at].base = s_trk[at].base /\ s_trk'[at].next = s_trk[at].next
<1>1. at \in Tracks /\ s_trk[at].rat.left > 0
  <2>1. at \in 0 .. NumTracks
    BY DEF Shape, TypeOK
  <2> QED
    BY <2>1 DEF Ratchet, Owing, Tracks
<1>2. s_trk[at] \in Track /\ s_trk[at].rat \in Ratcheting
  BY <1>1, Constants DEF Shape, Track
<1> DEFINE rat == s_trk[at].rat
           l == rat.note
           h == TRUE
           left == rat.left - 1
           next == rat.next + rat.every
           less == [rat EXCEPT !.left = left, !.next = next]
           r == IF rat.left = 1 THEN NoRatchet ELSE less
<1>3. l \in Notes /\ h \in BOOLEAN
  BY <1>2 DEF Ratcheting
<1>4. r \in {NoRatchet} \cup Ratcheting
  <2>1. CASE rat.left = 1
    BY <2>1
  <2>2. CASE rat.left # 1
    <3>1. left \in Nat \ {0} /\ next \in Int
      BY <1>2, <2>2 DEF Ratcheting
    <3> HIDE DEF left, next
    <3>2. less \in Ratcheting
      BY <1>2, <3>1 DEF Ratcheting
    <3> QED
      BY <2>2, <3>2
  <2> QED
    BY <2>1, <2>2
<1>5. s_trk' = [s_trk EXCEPT ![at] = [s_trk[at] EXCEPT !.last = l, !.held = h, !.rat = r]]
  BY DEF Ratchet
<1> HIDE DEF rat, l, h, left, next, less, r
<1>6. LET new == [s_trk[at] EXCEPT !.last = l, !.held = h, !.rat = r]
      IN new \in Track /\ new.base = s_trk[at].base /\ new.next = s_trk[at].next
  BY <1>2, <1>3, <1>4 DEF Track
<1> QED
  BY <1>1, <1>2, <1>5, <1>6 DEF Shape

-----------------------------------------------------------------------------
(* The parts of the invariant, one after the other. *)

Elsewhere == \/ \E p \in sheet.locks, v \in Values : Knob(p, v)
             \/ \E p \in Patterns, len \in Lens : SetLength(p, len)
             \/ (\E S \in SUBSET EnginePids : Reregister(S)) \/ SetSong

(* The cases of a step. *)
LEMMA StepCases ==
  ASSUME [Next]_vars
  PROVE  \/ \E rewind \in BOOLEAN : Start(rewind)
         \/ Stop \/ \E p \in Patterns : Select(p)
         \/ TickStart \/ Ratchet \/ Fire \/ NextTrack \/ Elsewhere \/ UNCHANGED vars
BY Zenon DEF Next, Fire, Elsewhere

(* Other tasks, and steps of nobody, leave the clock task's state alone. *)
LEMMA ElsewhereKeeps ==
  ASSUME Elsewhere \/ UNCHANGED vars
  PROVE  UNCHANGED <<s_running, s_pattern, s_queued, s_pattern_tick, s_trk, s_off, lock, at,
                     sounding, shared, switched, fired>>
BY Zenon DEF Elsewhere, Knob, SetLength, Reregister, SetSong, vars, transport, past, store

(* Tracks stay tracks, and ticks are run only while the transport runs.      *)
LEMMA TracksStep ==
  ASSUME Shape, InTick, [Next]_vars
  PROVE  s_trk' \in [Tracks -> Track] /\ InTick'
<1>2. \A t \in Tracks : s_trk[t] \in Track
  BY DEF Shape
<1>3. s_trk \in [Tracks -> Track] /\ at \in 0 .. NumTracks /\ s_pattern \in Patterns
      /\ s_queued \in Patterns \cup {None}
  BY DEF Shape, TypeOK
<1>4. ASSUME NEW rewind \in BOOLEAN, Start(rewind)
      PROVE  s_trk' \in [Tracks -> Track] /\ InTick'
  <2>1. s_running'
    BY <1>4 DEF Start
  <2>2. \/ s_trk' = [t \in Tracks |-> Rewound(s_trk[t])]
        \/ s_trk' = [t \in Tracks |-> Resumed(s_trk[t])]
    BY <1>4 DEF Start
  <2>3. \A t \in Tracks : s_trk'[t] \in Track
    BY <1>2, <2>2, RewoundTrack
  <2> QED
    BY <2>1, <2>2, <2>3 DEF InTick
<1>5. CASE Stop
  <2>1. at = 0 /\ at' = 0 /\ ~switched'
    BY <1>5 DEF Stop
  <2>2. s_trk' = [t \in Tracks |-> [s_trk[t] EXCEPT !.rat = NoRatchet]]
    BY <1>5 DEF Stop
  <2>3. ASSUME NEW t \in Tracks
        PROVE  s_trk'[t] \in Track
    <3> DEFINE r == NoRatchet
    <3>1. r \in {NoRatchet} \cup Ratcheting
      OBVIOUS
    <3>2. s_trk'[t] = [s_trk[t] EXCEPT !.rat = r]
      BY <2>2
    <3> HIDE DEF r
    <3> QED
      BY <1>2, <3>1, <3>2 DEF Track
  <2> QED
    BY <2>1, <2>2, <2>3 DEF InTick
<1>6. ASSUME NEW p \in Patterns, Select(p)
      PROVE  s_trk' \in [Tracks -> Track] /\ InTick'
  <2>1. at = 0 /\ at' = 0 /\ switched' = switched /\ s_running' = s_running
    BY <1>6 DEF Select
  <2>2. \/ s_trk' = s_trk
        \/ SwitchPattern(p, s_trk)
    BY <1>6 DEF Select
  <2>3. s_trk' \in [Tracks -> Track]
    BY <1>3, <2>2, SwitchRewinds
  <2> QED
    BY <2>1, <2>3 DEF InTick
<1>7. CASE TickStart
  <2>1. s_running'
    BY <1>7 DEF TickStart
  <2> QED
    BY <1>3, <1>7, <2>1, TickStartTracks DEF InTick
<1>8. CASE Ratchet
  BY <1>8, RatchetKeepsSteps DEF InTick, Ratchet, transport, past
<1>9. CASE Fire
  <2>1. UNCHANGED <<at, s_running, switched>>
    BY <1>9 DEF Fire, FireSilent, FirePlay, transport
  <2> QED
    BY <1>9, <2>1, FireMoves DEF InTick
<1>10. CASE NextTrack
  <2>1. at > 0 /\ UNCHANGED <<s_trk, s_running, switched>>
    BY <1>10 DEF NextTrack, transport, past
  <2> QED
    BY <1>3, <2>1 DEF InTick
<1>11. CASE Elsewhere \/ UNCHANGED vars
  BY <1>3, <1>11, ElsewhereKeeps DEF InTick
<1> QED
  BY <1>4, <1>5, <1>6, <1>7, <1>8, <1>9, <1>10, <1>11, StepCases

(* A note that sounds stays owed a note-off, and none sounds stopped. *)
LEMMA KeptStep ==
  ASSUME Shape, InTick, Kept, [Next]_vars
  PROVE  s_off' \in Table /\ sounding' \subseteq Notes /\ Kept'
<1>1. s_off \in Table /\ sounding \subseteq Notes /\ Gates \subseteq Nat \ {0}
  BY DEF Shape, TypeOK, Table
<1>2. ASSUME UNCHANGED <<s_off, sounding>>, s_running' => s_running \/ sounding = {},
             ~s_running' => ~s_running
      PROVE  s_off' \in Table /\ sounding' \subseteq Notes /\ Kept'
  BY <1>1, <1>2 DEF Kept
<1>3. ASSUME NEW rewind \in BOOLEAN, Start(rewind)
      PROVE  s_off' \in Table /\ sounding' \subseteq Notes /\ Kept'
  BY <1>1, <1>3 DEF Start, Kept
<1>4. CASE Stop
  <2>1. /\ s_off' = [i \in DOMAIN s_off |-> Free]
        /\ sounding' = {}
    BY <1>4 DEF Stop, Kept
  <2> QED
    BY <1>1, <2>1 DEF Table, Kept
<1>5. ASSUME NEW p \in Patterns, Select(p)
      PROVE  s_off' \in Table /\ sounding' \subseteq Notes /\ Kept'
  BY <1>1, <1>5 DEF Select, Kept
<1>6. CASE TickStart
  <2>1. s_running'
    BY <1>6 DEF TickStart
  <2> QED
    BY <1>1, <1>6, <2>1, TickOwes DEF Kept
<1>7. CASE Ratchet
  <2>1. s_running /\ s_running'
    BY <1>7, RatchetKeepsSteps DEF InTick, Ratchet, transport, Tracks
  <2>2. at \in Tracks /\ s_trk[at].rat \in Ratcheting
    BY <1>7, RatchetKeepsSteps
  <2> DEFINE gate == IF s_trk[at].rat.every > 1 THEN s_trk[at].rat.every - 1 ELSE 1
  <2>3. s_trk[at].rat.note \in Notes /\ gate \in Nat \ {0} /\ FALSE \in BOOLEAN
    BY <2>2 DEF Ratcheting
  <2>4. Triggered(at, s_trk[at].rat.note, gate, FALSE)
    BY <1>7 DEF Ratchet
  <2> HIDE DEF gate
  <2> QED
    BY <1>1, <2>1, <2>2, <2>3, <2>4, TriggeredOwes DEF Kept
<1>8. CASE FireSilent
  BY <1>1, <1>8 DEF FireSilent, transport, Kept
<1>9. CASE FirePlay
  <2>1. s_running /\ s_running' /\ at \in Tracks
    <3>1. at \in Tracks
      BY <1>9, FireMoves DEF Fire
    <3> QED
      BY <1>9, <3>1 DEF InTick, FirePlay, transport, Tracks
  <2>2. PICK note \in sheet.notes, gate \in Gates, slide \in BOOLEAN :
          Triggered(at, note, gate, slide)
    BY <1>9 DEF FirePlay
  <2>3. note \in Notes /\ gate \in Nat \ {0}
    BY <1>1, SheetFacts DEF Shape
  <2> QED
    BY <1>1, <2>1, <2>2, <2>3, TriggeredOwes DEF Kept
<1>10. CASE NextTrack
  BY <1>1, <1>10 DEF NextTrack, transport, Kept
<1>11. CASE Elsewhere \/ UNCHANGED vars
  BY <1>1, <1>11, ElsewhereKeeps DEF Kept
<1> QED
  BY <1>3, <1>4, <1>5, <1>6, <1>7, <1>8, <1>9, <1>10, <1>11, StepCases DEF Fire

-----------------------------------------------------------------------------
(* Locks. *)

Locks(g) == [gen : 1 .. g, base : Values] \cup {NoLock}

StoreShape ==
  /\ lock \in [Tracks -> [Pids -> Locks(generation)]]
  /\ value \in [Pids -> Values] /\ generation \in Nat \ {0}
  /\ player \in [Pids -> Values]
  /\ fought \subseteq Pids /\ shared \subseteq Pids /\ dropped \subseteq Pids

(* What the lemmas on locks need of the types. *)
LEMMA StoreTyped ==
  ASSUME Shape
  PROVE  StoreShape /\ sheet.locks \subseteq Pids
BY SheetFacts DEF Shape, TypeOK, StoreShape, Locks

(* A lock that is valid has a value of its own, and none is valid of another *)
(* registration of an engine's parameter.                                    *)
LEMMA LockKinds ==
  ASSUME StoreShape, NEW t \in Tracks, NEW p \in Pids
  PROVE  /\ lock[t][p] = NoLock \/
              (lock[t][p].gen \in 1 .. generation /\ lock[t][p].base \in Values)
         /\ ~Valid(NoLock, p)
         /\ Valid(lock[t][p], p) => lock[t][p].base \in Values
         /\ t \in Holders(p) <=> Valid(lock[t][p], p)
         /\ \A v \in Values : /\ [gen |-> generation, base |-> v] \in Locks(generation)
                              /\ Valid([gen |-> generation, base |-> v], p)
<1>1. lock[t][p] \in Locks(generation)
  BY DEF StoreShape
<1>2. lock[t][p] = NoLock \/
        (lock[t][p].gen \in 1 .. generation /\ lock[t][p].base \in Values)
  BY <1>1 DEF Locks
<1>3. ASSUME NEW v \in Values
      PROVE  /\ [gen |-> generation, base |-> v] \in Locks(generation)
             /\ Valid([gen |-> generation, base |-> v], p)
  BY Constants DEF StoreShape, Locks, Valid
<1> QED
  BY <1>2, <1>3 DEF Valid, Holders

(* A step's locks write what they say and restore what they end. *)
LEMMA ApplyKeeps ==
  ASSUME StoreShape, LocksKept, NEW t \in Tracks, NEW S,
         NEW D \in SUBSET Pids, S \in [D -> Values],
         ApplyLocks(t, S), UNCHANGED <<generation, player, fought, dropped>>
  PROVE  StoreShape' /\ LocksKept'
<1>1. DOMAIN S = D /\ Captured(t, S) = {p \in D : ~Valid(lock[t][p], p)}
  BY DEF Captured
<1> DEFINE own(p) == IF p \in Captured(t, S) THEN [gen |-> generation, base |-> value[p]]
                     ELSE IF p \in D THEN lock[t][p] ELSE NoLock
<1>2. /\ lock' = [lock EXCEPT ![t] = [p \in Pids |-> own(p)]]
      /\ value' = [p \in Pids |->
                     IF p \in D THEN S[p]
                     ELSE IF Valid(lock[t][p], p) THEN lock[t][p].base ELSE value[p]]
      /\ shared' = shared \cup {p \in Captured(t, S) :
                                  \E u \in Tracks \ {t} : Valid(lock[u][p], p)}
  BY <1>1 DEF ApplyLocks
<1>3. value' \in [Pids -> Values]
  BY <1>2, LockKinds DEF StoreShape
<1>4. \A p \in Pids : own(p) \in Locks(generation)
  <2> SUFFICES ASSUME NEW p \in Pids PROVE own(p) \in Locks(generation)
    OBVIOUS
  <2>1. value[p] \in Values /\ lock[t][p] \in Locks(generation)
    BY DEF StoreShape
  <2>2. NoLock \in Locks(generation)
    BY DEF Locks
  <2> QED
    BY <2>1, <2>2, LockKinds
<1>5. StoreShape'
  <2> HIDE DEF own
  <2>1. lock' \in [Tracks -> [Pids -> Locks(generation)]]
    BY <1>2, <1>4 DEF StoreShape
  <2>2. Locks(generation)' = Locks(generation) /\ Captured(t, S) \subseteq Pids
    BY <1>1 DEF Locks
  <2> QED
    BY <1>2, <1>3, <2>1, <2>2 DEF StoreShape
<1>6. ASSUME NEW p \in Pids \ (fought' \cup shared' \cup dropped')
      PROVE  /\ \A u, w \in Holders(p)' : u = w
             /\ \A u \in Holders(p)' : lock'[u][p].base = player'[p]
             /\ Holders(p)' = {} => value'[p] = player'[p]
  <2>1. p \in Pids \ (fought \cup shared \cup dropped)
    BY <1>2
  <2>2. /\ \A u, w \in Holders(p) : u = w
        /\ \A u \in Holders(p) : lock[u][p].base = player[p]
        /\ Holders(p) = {} => value[p] = player[p]
    BY <2>1 DEF LocksKept
  <2>3. \A u \in Tracks : /\ u \in Holders(p)' <=> Valid(lock'[u][p], p)
                          /\ u \in Holders(p) <=> Valid(lock[u][p], p)
    BY DEF Holders, Valid
  <2>4. Holders(p)' \subseteq Tracks /\ Holders(p) \subseteq Tracks
    BY DEF Holders
  <2>5. lock'[t][p] = own(p) /\ \A u \in Tracks \ {t} : lock'[u][p] = lock[u][p]
    BY <1>2 DEF StoreShape
  <2>6. CASE p \in Captured(t, S)
    <3>1. \A u \in Tracks : u # t => u \notin Holders(p)
      BY <1>2, <2>3, <2>6
    <3>2. t \notin Holders(p)
      BY <1>1, <2>3, <2>6
    <3>3. value[p] = player[p]
      BY <2>2, <2>4, <3>1, <3>2
    <3>4. lock'[t][p] = [gen |-> generation, base |-> value[p]]
      BY <2>5, <2>6
    <3>5. \A u \in Holders(p)' : u = t
      BY <2>3, <2>4, <2>5, <3>1
    <3>6. t \in Holders(p)'
      BY <2>3, <3>4, LockKinds DEF StoreShape
    <3> QED
      BY <3>3, <3>4, <3>5, <3>6
  <2>7. CASE p \in D /\ p \notin Captured(t, S)
    <3>1. lock'[t][p] = lock[t][p] /\ t \in Holders(p)
      BY <1>1, <2>3, <2>5, <2>7
    <3>2. Holders(p)' = Holders(p)
      BY <2>3, <2>4, <2>5, <3>1
    <3>3. \A u \in Tracks : lock'[u][p] = lock[u][p]
      BY <2>5, <3>1
    <3> HIDE DEF own
    <3> QED
      BY <2>2, <2>4, <3>1, <3>2, <3>3
  <2>8. CASE p \notin D
    <3>1. lock'[t][p] = NoLock
      BY <1>1, <2>5, <2>8
    <3>2. Holders(p)' = Holders(p) \ {t}
      BY <2>3, <2>4, <2>5, <3>1, LockKinds
    <3>3. CASE t \in Holders(p)
      <4>1. Holders(p)' = {}
        BY <2>2, <3>2, <3>3
      <4>2. value'[p] = lock[t][p].base
        BY <1>2, <2>3, <2>8, <3>3
      <4> QED
        BY <2>2, <3>3, <4>1, <4>2
    <3>4. CASE t \notin Holders(p)
      <4>1. Holders(p)' = Holders(p)
        BY <3>2, <3>4
      <4>2. value'[p] = value[p]
        BY <1>2, <2>3, <2>8, <3>4
      <4>3. \A u \in Holders(p) : lock'[u][p] = lock[u][p]
        BY <2>4, <2>5, <3>4
      <4> HIDE DEF own
      <4> QED
        BY <2>2, <4>1, <4>2, <4>3
    <3> QED
      BY <3>3, <3>4
  <2> QED
    BY <2>6, <2>7, <2>8
<1> QED
  BY <1>5, <1>6 DEF LocksKept

(* Releasing every lock puts a parameter back where its one holder found it. *)
LEMMA ReleaseKeeps ==
  ASSUME StoreShape, LocksKept, ReleaseLocks,
         UNCHANGED <<generation, player, fought, shared, dropped>>
  PROVE  StoreShape' /\ LocksKept'
<1> DEFINE last(p) == CHOOSE t \in Holders(p) : \A u \in Holders(p) : u <= t
<1>1. /\ value' = [p \in Pids |-> IF Holders(p) = {} THEN value[p] ELSE lock[last(p)][p].base]
      /\ lock' = [t \in Tracks |-> [p \in Pids |-> NoLock]]
  BY DEF ReleaseLocks
<1>2. ASSUME NEW p \in Pids, Holders(p) # {}
      PROVE  last(p) \in Holders(p)
  <2>1. Holders(p) \in SUBSET (1 .. NumTracks)
    BY DEF Holders, Tracks
  <2> QED
    BY <1>2, <2>1, Greatest
<1> HIDE DEF last
<1>3. \A p \in Pids : Holders(p)' = {}
  <2> SUFFICES ASSUME NEW p \in Pids, NEW t \in Tracks PROVE ~Valid(lock[t][p], p)'
    BY DEF Holders
  <2>1. lock'[t][p] = NoLock
    BY <1>1
  <2> QED
    BY <2>1 DEF Valid
<1>4. \A p \in Pids : Holders(p) # {} => /\ last(p) \in Tracks
                                         /\ lock[last(p)][p].base \in Values
  BY <1>2, LockKinds DEF Holders
<1>5. StoreShape'
  <2>1. value' \in [Pids -> Values]
    BY <1>1, <1>4 DEF StoreShape
  <2>2. NoLock \in Locks(generation) /\ Locks(generation)' = Locks(generation)
    BY DEF Locks
  <2>3. lock' \in [Tracks -> [Pids -> Locks(generation)]]
    BY <1>1, <2>2
  <2> QED
    BY <2>1, <2>2, <2>3 DEF StoreShape
<1>6. ASSUME NEW p \in Pids \ (fought \cup shared \cup dropped)
      PROVE  value'[p] = player[p]
  BY <1>1, <1>2, <1>6 DEF LocksKept
<1> QED
  BY <1>3, <1>5, <1>6 DEF LocksKept

(* Every step keeps the values under the locks. *)
LEMMA StoreStep ==
  ASSUME Shape, LocksKept, [Next]_vars
  PROVE  StoreShape' /\ LocksKept'
<1>1. StoreShape /\ sheet.locks \subseteq Pids
  BY StoreTyped
<1>2. ASSUME UNCHANGED <<lock, value, generation, player, fought, shared, dropped>>
      PROVE  StoreShape' /\ LocksKept'
  BY <1>1, <1>2 DEF StoreShape, Locks, LocksKept, Holders, Valid
<1>3. ASSUME NEW rewind \in BOOLEAN, Start(rewind)
      PROVE  StoreShape' /\ LocksKept'
  BY <1>2, <1>3 DEF Start, store
<1>4. CASE Stop
  BY <1>1, <1>4, ReleaseKeeps DEF Stop
<1>5. ASSUME NEW p \in Patterns, Select(p)
      PROVE  StoreShape' /\ LocksKept'
  <2>1. UNCHANGED <<generation, player, fought, shared, dropped>>
    BY <1>5 DEF Select
  <2>2. UNCHANGED <<value, lock>> \/ ReleaseLocks
    BY <1>5 DEF Select, SwitchPattern
  <2> QED
    BY <1>1, <1>2, <2>1, <2>2, ReleaseKeeps
<1>6. CASE TickStart
  <2>1. UNCHANGED <<generation, player, fought, shared, dropped>>
    BY <1>6 DEF TickStart
  <2>2. UNCHANGED <<value, lock>> \/ ReleaseLocks
    BY <1>6, TickStartTracks DEF Shape, TypeOK
  <2> QED
    BY <1>1, <1>2, <2>1, <2>2, ReleaseKeeps
<1>7. CASE Ratchet
  BY <1>2, <1>7 DEF Ratchet, store, past
<1>8. CASE Fire
  <2>1. at \in Tracks
    BY <1>8, FireMoves
  <2>2. PICK S \in Carried : ApplyLocks(at, S)
    BY <1>8 DEF Fire, FireSilent, FirePlay
  <2>3. PICK D \in SUBSET sheet.locks : S \in [D -> Values]
    BY DEF Carried
  <2>4. UNCHANGED <<generation, player, fought, dropped>>
    BY <1>8 DEF Fire, FireSilent, FirePlay
  <2> QED
    BY <1>1, <2>1, <2>2, <2>3, <2>4, ApplyKeeps
<1>9. CASE NextTrack
  BY <1>2, <1>9 DEF NextTrack, store, past
<1>10. ASSUME NEW p \in sheet.locks, NEW v \in Values, Knob(p, v)
       PROVE  StoreShape' /\ LocksKept'
  <2>1. /\ p \in Pids /\ value' = [value EXCEPT ![p] = v] /\ player' = [player EXCEPT ![p] = v]
        /\ fought' = IF Holders(p) # {} THEN fought \cup {p} ELSE fought
        /\ dropped' = IF Holders(p) # {} THEN dropped ELSE dropped \ {p}
        /\ UNCHANGED <<lock, generation, shared>>
    BY <1>1, <1>10 DEF Knob
  <2>2. \A q \in Pids : Holders(q)' = Holders(q)
    BY <2>1 DEF Holders, Valid
  <2>3. StoreShape'
    BY <1>1, <2>1 DEF StoreShape, Locks
  <2>4. ASSUME NEW q \in Pids \ (fought' \cup shared' \cup dropped')
        PROVE  /\ \A t, u \in Holders(q) : t = u
               /\ \A t \in Holders(q) : lock[t][q].base = player'[q]
               /\ Holders(q) = {} => value'[q] = player'[q]
    <3>1. q \in Pids \ (fought \cup shared)
      BY <2>1
    <3>2. CASE q = p /\ Holders(p) # {}
      BY <2>1, <3>1, <3>2
    <3>3. CASE q = p /\ Holders(p) = {}
      BY <1>1, <2>1, <3>3 DEF StoreShape
    <3>4. CASE q # p
      <4>1. q \notin dropped
        BY <2>1, <3>4
      <4> QED
        BY <1>1, <2>1, <3>1, <3>4, <4>1 DEF LocksKept, StoreShape
    <3> QED
      BY <3>2, <3>3, <3>4
  <2> QED
    BY <2>1, <2>2, <2>3, <2>4 DEF LocksKept
<1>11. ASSUME NEW S \in SUBSET EnginePids, Reregister(S)
       PROVE  StoreShape' /\ LocksKept'
  <2>1. /\ generation' = generation + 1
        /\ value' = [p \in Pids |-> IF p \in S THEN Default ELSE value[p]]
        /\ player' = [p \in Pids |-> IF p \in S THEN Default ELSE player[p]]
        /\ dropped' = (dropped \cup {p \in EnginePids : Holders(p) # {}}) \ S
        /\ UNCHANGED <<lock, fought, shared>>
    BY <1>11 DEF Reregister
  <2>2. StoreShape'
    <3>1. generation' \in Nat \ {0} /\ Locks(generation) \subseteq Locks(generation')
      BY <1>1, <2>1 DEF StoreShape, Locks
    <3>2. value' \in [Pids -> Values] /\ player' \in [Pids -> Values]
      BY <1>1, <2>1 DEF StoreShape
    <3>3. lock' \in [Tracks -> [Pids -> Locks(generation')]]
      <4>1. \A t \in Tracks : lock[t] \in [Pids -> Locks(generation')]
        BY <1>1, <3>1 DEF StoreShape
      <4> QED
        BY <1>1, <2>1, <4>1 DEF StoreShape
    <3>4. dropped' \subseteq Pids
      BY <1>1, <2>1 DEF StoreShape
    <3> QED
      BY <1>1, <2>1, <3>1, <3>2, <3>3, <3>4 DEF StoreShape
  <2>3. \A p \in EnginePids : Holders(p)' = {}
    <3> SUFFICES ASSUME NEW p \in EnginePids, NEW t \in Tracks PROVE ~Valid(lock[t][p], p)'
      BY DEF Holders
    <3>1. lock[t][p] = NoLock \/ lock[t][p].gen \in 1 .. generation
      BY <1>1, LockKinds
    <3> QED
      BY <1>1, <2>1, <3>1 DEF Valid, StoreShape
  <2>4. \A p \in Pids \ EnginePids : Holders(p)' = Holders(p)
    BY <2>1 DEF Holders, Valid
  <2>5. ASSUME NEW p \in Pids \ (fought' \cup shared' \cup dropped')
        PROVE  /\ \A t, u \in Holders(p)' : t = u
               /\ \A t \in Holders(p)' : lock'[t][p].base = player'[p]
               /\ Holders(p)' = {} => value'[p] = player'[p]
    <3>1. CASE p \in S
      BY <2>1, <2>3, <3>1
    <3>2. CASE p \in EnginePids \ S
      <4>1. Holders(p) = {} /\ p \notin fought \cup shared \cup dropped
        BY <2>1, <2>5, <3>2
      <4>2. value[p] = player[p]
        BY <4>1 DEF LocksKept
      <4> QED
        BY <2>1, <2>3, <3>2, <4>2
    <3>3. CASE p \notin EnginePids
      <4>1. p \in Pids \ (fought \cup shared \cup dropped)
        BY <2>1, <3>3
      <4>2. value'[p] = value[p] /\ player'[p] = player[p] /\ Holders(p)' = Holders(p)
        BY <2>1, <2>4, <3>3
      <4> QED
        BY <2>1, <4>1, <4>2 DEF LocksKept
    <3> QED
      BY <3>1, <3>2, <3>3
  <2> QED
    BY <2>2, <2>5 DEF LocksKept
<1>12. CASE SetSong \/ UNCHANGED vars \/ \E p \in Patterns, len \in Lens : SetLength(p, len)
  <2>1. UNCHANGED <<lock, value, generation, player, fought, shared, dropped>>
    BY <1>12 DEF SetSong, SetLength, vars, store, past
  <2> QED
    BY <1>2, <2>1
<1> QED
  BY <1>3, <1>4, <1>5, <1>6, <1>7, <1>8, <1>9, <1>10, <1>11, <1>12, StepCases DEF Elsewhere

-----------------------------------------------------------------------------
(* The bar. *)

(* On the tick a pattern takes over, the tracks before the one at hand have  *)
(* fired one step of it, and the tracks behind it wait for theirs.           *)
LEMMA BarStep ==
  ASSUME Shape, InTick, BarTaken, [Next]_vars
  PROVE  BarTaken'
<1>0. /\ at \in 0 .. NumTracks /\ NumTracks \in Nat /\ s_pattern \in Patterns
      /\ fired \in [Tracks -> Seq(Patterns)] /\ s_queued \in Patterns \cup {None}
      /\ s_trk \in [Tracks -> Track] /\ \A t \in Tracks : t \in 1 .. NumTracks
  BY DEF Shape, TypeOK, Tracks
<1>1. ASSUME UNCHANGED <<s_trk, at, switched, fired, s_pattern>>
      PROVE  BarTaken'
  BY <1>1 DEF BarTaken, Begun, Waiting
<1>2. ASSUME ~switched'
      PROVE  BarTaken'
  BY <1>2 DEF BarTaken
<1>3. ASSUME NEW rewind \in BOOLEAN, Start(rewind)
      PROVE  BarTaken'
  BY <1>2, <1>3 DEF Start, InTick
<1>4. CASE Stop
  BY <1>2, <1>4 DEF Stop
<1>5. ASSUME NEW p \in Patterns, Select(p)
      PROVE  BarTaken'
  BY <1>1, <1>2, <1>5 DEF Select, InTick
<1>6. CASE TickStart
  <2>1. at' = 1 /\ fired' = [t \in Tracks |-> <<>>]
    BY <1>6 DEF TickStart
  <2>2. CASE ~switched'
    BY <1>2, <2>2
  <2>3. CASE switched'
    <3>1. \A t \in Tracks : /\ s_trk'[t].next = 0 /\ s_trk'[t].base = 0
                            /\ s_trk'[t].rat = NoRatchet
      BY <1>0, <1>6, <2>3, TickStartTracks
    <3>2. \A t \in Tracks : Waiting(t)'
      BY <2>1, <3>1 DEF Waiting
    <3> QED
      BY <1>0, <2>1, <3>2 DEF BarTaken
  <2> QED
    BY <2>2, <2>3 DEF TickStart
<1>7. CASE Ratchet
  <2>1. /\ at \in Tracks /\ at > 0 /\ s_trk[at].rat.left > 0 /\ s_trk[at].rat.next <= 0
        /\ UNCHANGED <<at, switched, fired, s_pattern>>
    BY <1>0, <1>7, RatchetKeepsSteps DEF Ratchet, Owing, transport, past
  <2>2. ~switched
    <3>1. s_trk[at].rat # NoRatchet
      BY <2>1, Constants
    <3>2. s_trk[at].rat.next \in Int
      BY <1>7, RatchetKeepsSteps DEF Ratcheting
    <3> QED
      BY <2>1, <3>1, <3>2 DEF BarTaken, Begun, Waiting
  <2> QED
    BY <1>2, <2>1, <2>2
<1>8. CASE Fire
  <2>1. UNCHANGED <<at, switched, s_pattern>> /\ FiredNow
    BY <1>8 DEF Fire, FireSilent, FirePlay, transport
  <2>2. /\ at \in Tracks /\ s_trk[at].next <= 0
        /\ \A t \in Tracks : t # at => s_trk'[t] = s_trk[t]
        /\ s_trk'[at].base = s_trk[at].base + StepTicks
        /\ s_trk'[at].rat.left > 0 => s_trk'[at].rat.next > 0
    BY <1>8, FireMoves
  <2>3. CASE ~switched
    BY <1>2, <2>1, <2>3
  <2>4. CASE switched
    <3>1. fired' = [fired EXCEPT ![at] = Append(fired[at], s_pattern)]
      BY <2>1, <2>4 DEF FiredNow
    <3>2. s_trk[at].next \in Int
      BY <1>0, <2>2 DEF Track
    <3>3. Waiting(at)
      BY <1>0, <2>2, <2>4, <3>2 DEF BarTaken, Begun
    <3>4. fired'[at] = <<s_pattern>>
      BY <1>0, <2>2, <3>1, <3>3 DEF Waiting
    <3>5. s_trk'[at].next > 0
      <4>1. PICK off \in Offsets : s_trk'[at].next = s_trk[at].base + StepTicks + off
        BY <1>8, FireMoves
      <4>2. off \in Int /\ off >= 1 - StepTicks /\ StepTicks \in Nat \ {0}
        BY SheetFacts DEF Shape
      <4>3. s_trk[at].base = 0
        BY <3>3 DEF Waiting
      <4> QED
        BY <4>1, <4>2, <4>3
    <3>6. ASSUME NEW t \in Tracks
          PROVE  /\ t < at => Begun(t)'
                 /\ t = at => Begun(t)'
                 /\ t > at => Waiting(t)'
      <4>1. CASE t = at
        BY <1>0, <2>1, <2>2, <3>4, <3>5, <4>1 DEF Begun
      <4>2. CASE t # at
        <5>1. s_trk'[t] = s_trk[t] /\ fired'[t] = fired[t]
          BY <1>0, <2>2, <3>1, <4>2
        <5>2. (t < at => Begun(t)) /\ (t > at => Waiting(t))
          BY <1>0, <2>2, <2>4 DEF BarTaken
        <5> QED
          BY <2>1, <4>2, <5>1, <5>2 DEF Begun, Waiting
      <4> QED
        BY <4>1, <4>2
    <3> QED
      BY <1>0, <2>1, <2>2, <3>6 DEF BarTaken
  <2> QED
    BY <2>3, <2>4
<1>9. CASE NextTrack
  <2>1. /\ at \in Tracks /\ ~Due /\ ~Owing
        /\ at' = IF at = NumTracks THEN 0 ELSE at + 1
        /\ UNCHANGED <<s_trk, switched, fired, s_pattern>>
    BY <1>0, <1>9 DEF NextTrack, Tracks, transport, past
  <2>2. s_trk[at].next > 0
    <3>1. s_trk[at].next \in Int
      BY <1>0, <2>1 DEF Track
    <3> QED
      BY <1>0, <2>1, <3>1 DEF Due, Tracks
  <2>3. CASE ~switched
    BY <1>2, <2>1, <2>3
  <2>4. CASE switched
    <3>1. Begun(at)
      BY <1>0, <2>1, <2>2, <2>4 DEF BarTaken, Waiting, Tracks
    <3>2. \A t \in Tracks : /\ t <= at => Begun(t)
                            /\ t > at => Waiting(t)
      BY <1>0, <2>1, <2>4, <3>1 DEF BarTaken, Tracks
    <3>3. \A t \in Tracks : /\ t <= at => Begun(t)'
                            /\ t > at => Waiting(t)'
      BY <2>1, <3>2 DEF Begun, Waiting
    <3>4. CASE at = NumTracks
      BY <1>0, <2>1, <3>3, <3>4 DEF BarTaken, Begun
    <3>5. CASE at # NumTracks
      <4>1. at' = at + 1 /\ at' > 0
        BY <1>0, <2>1, <3>5
      <4> QED
        BY <1>0, <3>3, <4>1 DEF BarTaken
    <3> QED
      BY <3>4, <3>5
  <2> QED
    BY <2>3, <2>4
<1>10. CASE Elsewhere \/ UNCHANGED vars
  BY <1>1, <1>10, ElsewhereKeeps
<1> QED
  BY <1>3, <1>4, <1>5, <1>6, <1>7, <1>8, <1>9, <1>10, StepCases

-----------------------------------------------------------------------------
(* The bar's tick is within the longest of the bars there may be. *)
LEMMA BarTickStep ==
  ASSUME Shape, [Next]_vars
  PROVE  \E len \in Lens : s_pattern_tick' \in 0 .. len * StepTicks - 1
<1>1. /\ \E len \in Lens : s_pattern_tick \in 0 .. len * StepTicks - 1
      /\ length \in [Patterns -> Lens] /\ s_pattern \in Patterns
  BY DEF Shape, TypeOK
<1>2. StepTicks \in Nat \ {0} /\ Lens \subseteq Nat \ {0}
  BY SheetFacts DEF Shape
<1>3. ASSUME s_pattern_tick' = 0
      PROVE  \E len \in Lens : s_pattern_tick' \in 0 .. len * StepTicks - 1
  <2> DEFINE len == length[s_pattern]
             bar == len * StepTicks
  <2>1. len \in Lens /\ len \in Nat \ {0}
    BY <1>1, <1>2
  <2> HIDE DEF len
  <2>2. bar \in Nat \ {0}
    BY <1>2, <2>1
  <2>3. s_pattern_tick' \in 0 .. bar - 1
    <3> HIDE DEF bar
    <3> QED
      BY <1>3, <2>2
  <2> QED
    BY <2>1, <2>3
<1>4. CASE TickStart
  <2>1. CASE BarOver
    BY <1>3, <1>4, <2>1 DEF TickStart
  <2>2. CASE ~BarOver
    <3> DEFINE len == length[s_pattern]
               bar == len * StepTicks
    <3>1. len \in Lens /\ len \in Nat \ {0}
      BY <1>1, <1>2
    <3>2. bar \in Nat
      BY <1>2, <3>1
    <3>3. s_pattern_tick' = s_pattern_tick + 1 /\ ~(s_pattern_tick + 1 >= bar)
      BY <1>4, <2>2 DEF TickStart, BarOver, Span
    <3>4. s_pattern_tick \in Nat
      <4>1. PICK l \in Lens : s_pattern_tick \in 0 .. l * StepTicks - 1
        BY <1>1
      <4> QED
        BY <4>1
    <3>5. s_pattern_tick' \in 0 .. bar - 1
      <4> HIDE DEF bar
      <4> QED
        BY <3>2, <3>3, <3>4
    <3> HIDE DEF len
    <3> QED
      BY <3>1, <3>5
  <2> QED
    BY <2>1, <2>2
<1>5. ASSUME NEW rewind \in BOOLEAN, Start(rewind)
      PROVE  s_pattern_tick' = 0 \/ s_pattern_tick' = s_pattern_tick
  BY <1>5 DEF Start
<1>6. CASE Stop \/ (\E p \in Patterns : Select(p)) \/ Ratchet \/ Fire \/ NextTrack
  BY <1>1, <1>6 DEF Stop, Select, Ratchet, Fire, FireSilent, FirePlay, NextTrack, transport
<1>7. CASE Elsewhere \/ UNCHANGED vars
  BY <1>1, <1>7, ElsewhereKeeps
<1> QED
  BY <1>1, <1>3, <1>4, <1>5, <1>6, <1>7, StepCases

(* Every variable keeps its type. *)
LEMMA ShapeStep ==
  ASSUME IInv, [Next]_vars
  PROVE  Shape'
<1> USE DEF IInv
<1>1. /\ s_trk' \in [Tracks -> Track] /\ InTick'
      /\ s_off' \in Table /\ sounding' \subseteq Notes
      /\ StoreShape' /\ sheet' = sheet
  BY TracksStep, KeptStep, StoreStep, SheetStays
<1>2. /\ s_running \in BOOLEAN /\ song \in BOOLEAN /\ sheet \in Sheets
      /\ s_pattern \in Patterns /\ s_queued \in Patterns \cup {None}
      /\ length \in [Patterns -> Lens] /\ at \in 0 .. NumTracks
      /\ switched \in BOOLEAN /\ fired \in [Tracks -> Seq(Patterns)]
      /\ moves \in 0 .. MaxMoves
  BY DEF Shape, TypeOK
<1>3. /\ StepTicks \in Nat \ {0} /\ StepTicks' = StepTicks
      /\ MaxMoves \in Nat /\ MaxMoves' = MaxMoves /\ Lens' = Lens
  BY <1>1, SheetFacts DEF Shape, StepTicks, MaxMoves, Lens
<1>4. s_running' \in BOOLEAN /\ song' \in BOOLEAN /\ switched' \in BOOLEAN
  <2>1. CASE Elsewhere \/ UNCHANGED vars
    <3>1. song' \in BOOLEAN
      BY Zenon, <1>2, <2>1 DEF Elsewhere, Knob, SetLength, Reregister, SetSong, vars
    <3> QED
      BY Zenon, <1>2, <2>1, <3>1, ElsewhereKeeps
  <2>2. CASE TickStart
    BY Zenon, <1>2, <2>2 DEF TickStart
  <2>3. CASE \E rewind \in BOOLEAN : Start(rewind)
    BY Zenon, <1>2, <2>3 DEF Start
  <2>4. CASE Stop \/ \E p \in Patterns : Select(p)
    BY Zenon, <1>2, <2>4 DEF Stop, Select
  <2>5. CASE Ratchet \/ Fire \/ NextTrack
    BY Zenon, <1>2, <2>5 DEF Ratchet, Fire, FireSilent, FirePlay, NextTrack, transport, past
  <2> QED
    BY <2>1, <2>2, <2>3, <2>4, <2>5, StepCases
<1>5. s_pattern' \in Patterns /\ s_queued' \in Patterns \cup {None}
  <2>1. CASE Elsewhere \/ UNCHANGED vars
    BY <1>2, <2>1, ElsewhereKeeps
  <2>2. CASE TickStart
    BY <1>2, <2>2, TickStartTracks DEF Shape
  <2>3. CASE \E rewind \in BOOLEAN : Start(rewind)
    BY <1>2, <2>3 DEF Start
  <2>4. CASE Stop
    BY <1>2, <2>4 DEF Stop
  <2>5. ASSUME NEW p \in Patterns, Select(p)
        PROVE  s_pattern' \in Patterns /\ s_queued' \in Patterns \cup {None}
    BY <1>2, <2>5 DEF Select, SwitchPattern
  <2>6. CASE Ratchet \/ Fire \/ NextTrack
    BY <1>2, <2>6 DEF Ratchet, Fire, FireSilent, FirePlay, NextTrack, transport
  <2> QED
    BY <2>1, <2>2, <2>3, <2>4, <2>5, <2>6, StepCases
<1>6. length' \in [Patterns -> Lens] /\ moves' \in 0 .. MaxMoves
  <2>1. CASE Elsewhere \/ UNCHANGED vars
    <3>1. UNCHANGED length \/ \E p \in Patterns, len \in Lens :
                                 length' = [length EXCEPT ![p] = len]
      BY Zenon, <2>1 DEF Elsewhere, Knob, SetLength, Reregister, SetSong, vars
    <3>2. UNCHANGED moves \/ (moves < MaxMoves /\ moves' = moves + 1)
      BY Zenon, <2>1 DEF Elsewhere, Knob, SetLength, Reregister, SetSong, vars
    <3> QED
      BY <1>2, <1>3, <3>1, <3>2
  <2>2. CASE TickStart
    BY <1>2, <2>2 DEF TickStart
  <2>3. CASE \E rewind \in BOOLEAN : Start(rewind)
    BY <1>2, <2>3 DEF Start
  <2>4. CASE Stop \/ \E p \in Patterns : Select(p)
    BY <1>2, <2>4 DEF Stop, Select
  <2>5. CASE Ratchet \/ Fire \/ NextTrack
    BY <1>2, <2>5 DEF Ratchet, Fire, FireSilent, FirePlay, NextTrack
  <2> QED
    BY <2>1, <2>2, <2>3, <2>4, <2>5, StepCases
<1>7. at' \in 0 .. NumTracks
  <2>1. CASE Elsewhere \/ UNCHANGED vars
    BY <1>2, <2>1, ElsewhereKeeps
  <2>2. CASE TickStart
    BY <1>2, <2>2 DEF TickStart
  <2>3. CASE \E rewind \in BOOLEAN : Start(rewind)
    BY <1>2, <2>3 DEF Start
  <2>4. CASE Stop \/ \E p \in Patterns : Select(p)
    BY <1>2, <2>4 DEF Stop, Select
  <2>5. CASE Ratchet \/ Fire
    BY <1>2, <2>5 DEF Ratchet, Fire, FireSilent, FirePlay
  <2>6. CASE NextTrack
    BY <1>2, <2>6 DEF NextTrack
  <2> QED
    BY <2>1, <2>2, <2>3, <2>4, <2>5, <2>6, StepCases
<1>8. fired' \in [Tracks -> Seq(Patterns)]
  <2>1. CASE Elsewhere \/ UNCHANGED vars
    BY <1>2, <2>1, ElsewhereKeeps
  <2>2. CASE TickStart \/ Stop
    <3>1. fired' = [t \in Tracks |-> <<>>]
      BY <2>2 DEF TickStart, Stop
    <3> QED
      BY <3>1
  <2>3. CASE \E rewind \in BOOLEAN : Start(rewind)
    BY <1>2, <2>3 DEF Start
  <2>4. CASE \E p \in Patterns : Select(p)
    BY <1>2, <2>4 DEF Select
  <2>5. CASE Ratchet \/ NextTrack
    BY <1>2, <2>5 DEF Ratchet, NextTrack, past
  <2>6. CASE Fire
    <3>1. FiredNow
      BY <2>6 DEF Fire, FireSilent, FirePlay
    <3>2. at \in Tracks
      BY <2>6, FireMoves
    <3>3. Append(fired[at], s_pattern) \in Seq(Patterns)
      BY <1>2, <3>2
    <3> QED
      BY <1>2, <3>1, <3>2, <3>3 DEF FiredNow
  <2> QED
    BY <2>1, <2>2, <2>3, <2>4, <2>5, <2>6, StepCases
<1>9. \A t \in Tracks :
        /\ s_trk'[t].next \in Int /\ s_trk'[t].base \in Int
        /\ s_trk'[t].held \in BOOLEAN
        /\ s_trk'[t].last \in Notes \cup {None}
        /\ s_trk'[t].rat = NoRatchet \/
           (s_trk'[t].rat.left \in Nat \ {0} /\ s_trk'[t].rat.note \in Notes)
  BY <1>1 DEF Track, Ratcheting
<1>10. \E len \in Lens' : s_pattern_tick' \in 0 .. len * StepTicks' - 1
  BY <1>3, BarTickStep
<1>11. lock' \in [Tracks -> [Pids -> [gen : 1 .. generation', base : Values] \cup {NoLock}]]
  BY <1>1 DEF StoreShape, Locks
<1> QED
  BY <1>1, <1>2, <1>3, <1>4, <1>5, <1>6, <1>7, <1>8, <1>9, <1>10, <1>11
     DEF Shape, TypeOK, StoreShape, Table

(* It all holds before the first tick. *)
LEMMA InitInv ==
  ASSUME Init
  PROVE  IInv
<1>1. sheet \in Sheets /\ Fresh \in Track
  BY Constants DEF Init
<1>2. /\ StepTicks \in Nat \ {0} /\ MaxMoves \in Nat /\ Lens \subseteq Nat \ {0}
  BY <1>1, SheetAssumption DEF StepTicks, MaxMoves, Lens
<1>3. \A t \in Tracks : /\ s_trk[t] = Fresh /\ Fresh.next = 0 /\ Fresh.base = 0
                        /\ Fresh.held \in BOOLEAN /\ Fresh.last = None
                        /\ Fresh.rat = NoRatchet /\ t \in 1 .. NumTracks
  BY DEF Init, Fresh, Tracks
<1>4. \E len \in Lens : s_pattern_tick \in 0 .. len * StepTicks - 1
  <2> DEFINE len == length[s_pattern]
             bar == len * StepTicks
  <2>1. len \in Lens /\ len \in Nat \ {0}
    BY <1>2 DEF Init
  <2> HIDE DEF len
  <2>2. bar \in Nat \ {0}
    BY <1>2, <2>1
  <2>3. s_pattern_tick \in 0 .. bar - 1
    <3> HIDE DEF bar
    <3> QED
      BY <2>2 DEF Init
  <2> QED
    BY <2>1, <2>3
<1>5. TypeOK
  <2>1. \A t \in Tracks :
          /\ s_trk[t].next \in Int /\ s_trk[t].base \in Int
          /\ s_trk[t].held \in BOOLEAN
          /\ s_trk[t].last \in Notes \cup {None}
          /\ s_trk[t].rat = NoRatchet
    BY <1>2, <1>3
  <2>2. s_off \in [1 .. MaxOffs -> Off \cup {Free}]
    BY DEF Init
  <2>3. lock \in [Tracks -> [Pids -> [gen : 1 .. generation, base : Values] \cup {NoLock}]]
    BY DEF Init
  <2>4. value \in [Pids -> Values] /\ player \in [Pids -> Values]
    BY DEF Init
  <2>5. fired \in [Tracks -> Seq(Patterns)]
    BY DEF Init
  <2>6. /\ s_running \in BOOLEAN /\ song \in BOOLEAN /\ switched \in BOOLEAN
        /\ s_pattern \in Patterns /\ s_queued \in Patterns \cup {None}
        /\ length \in [Patterns -> Lens]
    BY DEF Init
  <2>7. /\ at \in 0 .. NumTracks /\ moves \in 0 .. MaxMoves /\ generation \in Nat \ {0}
        /\ sounding \subseteq Notes /\ fought \subseteq Pids /\ shared \subseteq Pids
        /\ dropped \subseteq Pids
    BY <1>2 DEF Init
  <2> QED
    BY <1>1, <1>4, <2>1, <2>2, <2>3, <2>4, <2>5, <2>6, <2>7 DEF TypeOK
<1>6. Shape
  BY <1>1, <1>5 DEF Shape, Init
<1>7. InTick
  BY DEF InTick, Init
<1>8. Kept
  BY DEF Kept, Init
<1>9. BarTaken
  BY DEF BarTaken, Init
<1>10. LocksKept
  <2>1. \A p \in Pids : Holders(p) = {}
    BY DEF Holders, Valid, Init
  <2> QED
    BY <2>1 DEF LocksKept, Init
<1> QED
  BY <1>6, <1>7, <1>8, <1>9, <1>10 DEF IInv

-----------------------------------------------------------------------------
(* Every reachable state satisfies the inductive invariant. *)
THEOREM Inductive == Spec => []IInv
<1>1. Init => IInv
  BY InitInv
<1>2. IInv /\ [Next]_vars => IInv'
  <2> SUFFICES ASSUME IInv, [Next]_vars PROVE IInv'
    OBVIOUS
  <2> QED
    BY ShapeStep, TracksStep, KeptStep, BarStep, StoreStep DEF IInv
<1> QED
  BY <1>1, <1>2, PTL DEF Spec

(* "A stuck note is the one failure mode a sequencer must never have": what  *)
(* sounds is owed a note-off, and stopped nothing sounds, for any number of  *)
(* tracks, steps of any gate, ratchet and slide, and a table of any size.    *)
THEOREM NothingHangs == Spec => []NoHungNote
<1>1. IInv => NoHungNote
  BY DEF IInv, Shape, Kept, NoHungNote
<1> QED
  BY <1>1, Inductive, PTL

(* On the tick a bar ends with another pattern, every track fires one step   *)
(* of that pattern and none of the one before.                               *)
THEOREM BarsStartTogether == Spec => []BarStartsTogether
<1>1. IInv => BarStartsTogether
  BY DEF IInv, BarTaken, BarStartsTogether
<1> QED
  BY <1>1, Inductive, PTL

(* A parameter no step locks is where the players left it, unless somebody   *)
(* turned it while it was locked, two tracks locked it at once, or it kept   *)
(* its value as the registry moved under its lock.                           *)
THEOREM LocksAreRestored == Spec => []LocksRestored
<1>1. IInv => LocksRestored
  BY DEF IInv, LocksKept, LocksRestored
<1> QED
  BY <1>1, Inductive, PTL

-----------------------------------------------------------------------------
(* The arpeggiator. *)

USE ListAssumption, KeyAssumption, GateAssumption

(* The key is down, or its note-off is on its way to the tap. *)
OnDown(p, n) == n \in keys[p] \/ (hand[p].at = "tap_off" /\ hand[p].note = n)

(* What each player's call knows, and whose keys play past the arp. *)
InHand ==
  /\ \A p \in Players : hand[p].at \in {"tap_on", "play_on"} => hand[p].note \in keys[p]
  /\ \A p \in Players : hand[p].at = "play_on" => <<p, hand[p].note>> \in direct
  /\ \A p \in Players, n \in Keys : <<p, n>> \in direct => OnDown(p, n)

(* The list, the keys that are down and the map of taken notes. *)
Settled ==
  /\ s_held \subseteq s_owned
  /\ \A n \in s_down : \E p \in Players : OnDown(p, n)
  /\ \A n \in s_owned \ s_held : \E p \in Players : OnDown(p, n)

(* What sounds is owed a note-off by the clock task, by a key or on its way. *)
OffOwed ==
  \A n \in voices \ swallowed :
    \/ n \in Ended(s_pend)
    \/ \E p \in Players : \/ <<p, n>> \in direct
                          \/ hand[p].at = "play_off" /\ hand[p].note = n

AInv == ArpTypeOK /\ InHand /\ Settled /\ OffOwed

-----------------------------------------------------------------------------
(* A call is one of the records the steps leave in a player's hand. *)
LEMMA CallFacts ==
  ASSUME NEW h \in Call
  PROVE  /\ h.at \in {"idle", "kick", "tap_on", "tap_off", "play_on", "play_off"}
         /\ h.at \notin {"idle", "kick"} => h.note \in Keys
         /\ h.at = "tap_on" => h.arp \in BOOLEAN /\ h.hold \in BOOLEAN
         /\ h.at = "tap_off" => h.latch \in BOOLEAN
<1>1. CASE h \in {Idle, [at |-> "kick"]}
  BY <1>1 DEF Idle
<1>2. CASE h \in [at : {"tap_on"}, note : Keys, arp : BOOLEAN, hold : BOOLEAN]
  BY <1>2
<1>3. CASE h \in [at : {"tap_off"}, note : Keys, latch : BOOLEAN]
  BY <1>3
<1>4. CASE h \in [at : {"play_on", "play_off"}, note : Keys]
  BY <1>4
<1> QED
  BY <1>1, <1>2, <1>3, <1>4 DEF Call

(* The calls the steps make are calls. *)
LEMMA Calls ==
  ASSUME NEW n \in Keys, NEW a \in BOOLEAN, NEW b \in BOOLEAN
  PROVE  /\ Idle \in Call /\ [at |-> "kick"] \in Call
         /\ [at |-> "tap_on", note |-> n, arp |-> a, hold |-> b] \in Call
         /\ [at |-> "tap_off", note |-> n, latch |-> a] \in Call
         /\ [at |-> "play_on", note |-> n] \in Call
         /\ [at |-> "play_off", note |-> n] \in Call
<1>1. Idle \in Call /\ [at |-> "kick"] \in Call
  BY DEF Call
<1>2. [at |-> "tap_on", note |-> n, arp |-> a, hold |-> b]
        \in [at : {"tap_on"}, note : Keys, arp : BOOLEAN, hold : BOOLEAN]
  OBVIOUS
<1>3. [at |-> "tap_off", note |-> n, latch |-> a]
        \in [at : {"tap_off"}, note : Keys, latch : BOOLEAN]
  OBVIOUS
<1>4. /\ [at |-> "play_on", note |-> n] \in [at : {"play_on", "play_off"}, note : Keys]
      /\ [at |-> "play_off", note |-> n] \in [at : {"play_on", "play_off"}, note : Keys]
  OBVIOUS
<1> QED
  BY <1>1, <1>2, <1>3, <1>4 DEF Call

(* Nothing sounds and nobody plays at first. *)
LEMMA ArpStarts ==
  ASSUME ArpInit
  PROVE  AInv
<1> USE DEF ArpInit
<1>1. ArpTypeOK
  <2>1. hand \in [Players -> Call]
    BY DEF Call
  <2>2. Cardinality(s_held) <= MaxHeld
    BY FS_EmptySet
  <2>3. s_pend \in Seq([note : Midi, ticks : 1 .. ArpTicks]) /\ Len(s_pend) <= MaxPending
    OBVIOUS
  <2>4. seen \in [mode : BOOLEAN, hold : BOOLEAN]
    BY Zenon
  <2>5. /\ 0 \in Midi /\ 0 \in 0 .. ArpTicks /\ 0 \in 0 .. MaxBurst
        /\ 0 \in 0 .. MaxPresses /\ 0 \in 0 .. MaxTurns
    BY DEF Midi
  <2> QED
    BY <2>1, <2>2, <2>3, <2>4, <2>5, Zenon DEF ArpTypeOK
<1>2. InHand
  BY DEF InHand, Idle
<1>3. Settled /\ OffOwed
  BY DEF Settled, OffOwed
<1> QED
  BY <1>1, <1>2, <1>3 DEF AInv

-----------------------------------------------------------------------------
(* The notes are the MIDI range, of which the keys are some. *)
LEMMA KeyFacts ==
  /\ Keys \subseteq Midi /\ IsFiniteSet(Keys)
  /\ \A S \in SUBSET Keys : IsFiniteSet(S) /\ Cardinality(S) \in Nat
<1>1. Keys \subseteq 0 .. TopNote /\ IsFiniteSet(0 .. TopNote)
  BY FS_Interval
<1>2. IsFiniteSet(Keys)
  BY <1>1, FS_Subset
<1> QED
  BY <1>1, <1>2, FS_Subset, FS_CardinalityType DEF Midi

(* What the tap finds or leaves of the list. *)
LEMMA ListFacts ==
  ASSUME ArpTypeOK, NEW p \in Players
  PROVE  /\ HeldFor(hand[p]) \subseteq Keys
         /\ Cardinality(HeldFor(hand[p])) <= MaxHeld
         /\ s_down \subseteq HeldFor(hand[p])
         /\ \A n \in Keys : \/ n \in HeldFor(hand[p])
                            \/ Cardinality(HeldFor(hand[p])) < MaxHeld
              => Cardinality(HeldFor(hand[p]) \cup {n}) <= MaxHeld
<1> USE DEF ArpTypeOK, HeldFor, Afresh
<1>1. HeldFor(hand[p]) \subseteq Keys /\ s_down \subseteq HeldFor(hand[p])
  OBVIOUS
<1>2. Cardinality(HeldFor(hand[p])) <= MaxHeld
  BY FS_EmptySet
<1>3. ASSUME NEW n \in Keys,
             \/ n \in HeldFor(hand[p])
             \/ Cardinality(HeldFor(hand[p])) < MaxHeld
      PROVE  Cardinality(HeldFor(hand[p]) \cup {n}) <= MaxHeld
  <2> DEFINE H == HeldFor(hand[p])
  <2> HIDE DEF HeldFor, ArpTypeOK
  <2>1. IsFiniteSet(H) /\ Cardinality(H) \in Nat
    BY <1>1, KeyFacts
  <2>2. CASE n \in H
    <3>1. H \cup {n} = H
      BY <2>2
    <3> QED
      BY <3>1, <1>2
  <2>3. CASE n \notin H
    <3>1. Cardinality(H \cup {n}) = Cardinality(H) + 1
      BY <2>1, <2>3, FS_AddElement
    <3>2. Cardinality(H) < MaxHeld
      BY <1>3, <2>3
    <3> HIDE DEF H
    <3>3. Cardinality(H \cup {n}) <= MaxHeld
      BY <2>1, <3>1, <3>2
    <3> QED
      BY <3>3 DEF H
  <2> QED
    BY <2>2, <2>3
<1> QED
  BY <1>1, <1>2, <1>3

(* The table of note-offs a tick leaves. *)
LEMMA TickedTable ==
  ASSUME ArpTypeOK, NEW f \in InOrder(Lasting)
  PROVE  LET q == [i \in DOMAIN f |-> [note  |-> s_pend[f[i]].note,
                                     ticks |-> s_pend[f[i]].ticks - 1]]
         IN /\ q \in Seq([note : Midi, ticks : 1 .. ArpTicks])
            /\ Len(q) <= MaxPending
            /\ \A i \in Lasting : s_pend[i].note \in Ended(q)
<1> DEFINE q == [i \in DOMAIN f |-> [note  |-> s_pend[f[i]].note,
                                    ticks |-> s_pend[f[i]].ticks - 1]]
<1>1. PICK n \in 0 .. MaxPending : f \in [1 .. n -> Lasting]
  BY DEF InOrder
<1>2. \A i \in Lasting : /\ i \in 1 .. Len(s_pend)
                     /\ s_pend[i] \in [note : Midi, ticks : 1 .. ArpTicks]
                     /\ s_pend[i].ticks > 1
  <2> TAKE i \in Lasting
  <2>1. i \in 1 .. Len(s_pend) /\ ~(s_pend[i].ticks <= 1)
    BY DEF Lasting, Ending
  <2> DEFINE R == [note : Midi, ticks : 1 .. ArpTicks]
  <2>2. s_pend \in Seq(R)
    BY DEF ArpTypeOK
  <2> HIDE DEF R
  <2>3. s_pend[i] \in R
    BY <2>1, <2>2
  <2> USE DEF R
  <2> QED
    BY <2>1, <2>3
<1>3. ASSUME NEW i \in 1 .. n
      PROVE  q[i] \in [note : Midi, ticks : 1 .. ArpTicks]
  <2>1. f[i] \in Lasting /\ i \in DOMAIN f
    BY <1>1
  <2> DEFINE e == s_pend[f[i]]
  <2>2. e \in [note : Midi, ticks : 1 .. ArpTicks] /\ e.ticks > 1
    BY <1>2, <2>1
  <2> HIDE DEF e
  <2>3. e.note \in Midi /\ e.ticks \in 1 .. ArpTicks
    BY <2>2
  <2>4. e.ticks - 1 \in 1 .. ArpTicks
    BY <2>2, <2>3
  <2>5. q[i] = [note |-> e.note, ticks |-> e.ticks - 1]
    BY <2>1 DEF e
  <2> QED
    BY <2>3, <2>4, <2>5
<1>4. q = [i \in 1 .. n |-> q[i]]
  BY <1>1
<1>5. q \in Seq([note : Midi, ticks : 1 .. ArpTicks]) /\ Len(q) = n
  <2> HIDE DEF q
  <2> DEFINE R == [note : Midi, ticks : 1 .. ArpTicks]
  <2>1. q \in [1 .. n -> R]
    BY <1>3, <1>4
  <2>2. n \in Nat
    OBVIOUS
  <2> HIDE DEF R
  <2>3. q \in Seq(R) /\ Len(q) = n
    BY <2>1, <2>2
  <2> QED
    BY <2>3 DEF R
<1>6. ASSUME NEW i \in Lasting
      PROVE  s_pend[i].note \in Ended(q)
  <2>1. PICK j \in 1 .. n : f[j] = i
    BY <1>1 DEF InOrder
  <2>2. q[j].note = s_pend[i].note
    BY <2>1, <1>1
  <2> HIDE DEF q
  <2> QED
    BY <2>2, <1>5 DEF Ended
<1>7. Len(q) <= MaxPending
  BY <1>5
<1> HIDE DEF q
<1>8. /\ q \in Seq([note : Midi, ticks : 1 .. ArpTicks])
      /\ Len(q) <= MaxPending
      /\ \A i \in Lasting : s_pend[i].note \in Ended(q)
  BY <1>5, <1>6, <1>7
<1> QED
  BY <1>8 DEF q

-----------------------------------------------------------------------------
(* The parts of the type, by what changes together. *)
FlagsOK == /\ arp_mode \in BOOLEAN /\ arp_hold \in BOOLEAN
           /\ s_arp_mode_prev \in BOOLEAN /\ s_arp_hold_prev \in BOOLEAN
           /\ kick \in BOOLEAN /\ kicked \in BOOLEAN
           /\ seen \in [mode : BOOLEAN, hold : BOOLEAN]
CountsOK == /\ s_arp_tick_in_step \in 0 .. ArpTicks
            /\ burst \in 0 .. MaxBurst
            /\ presses \in 0 .. MaxPresses /\ turns \in 0 .. MaxTurns
ListOK == /\ s_held \subseteq Keys /\ Cardinality(s_held) <= MaxHeld
          /\ s_down \subseteq s_held
          /\ s_owned \subseteq Keys
TableOK == /\ s_pend \in Seq([note : Midi, ticks : 1 .. ArpTicks])
           /\ Len(s_pend) <= MaxPending
PlaceOK == clk \in {"wait", "poll", "edges", "serve", "ticks", "step", "emit"}
HandsOK == /\ hand \in [Players -> Call]
           /\ keys \in [Players -> SUBSET Keys]
SoundOK == /\ tone \in Midi /\ voices \subseteq Midi
           /\ direct \subseteq Players \X Keys /\ swallowed \subseteq voices

(* Together they are the type. *)
LEMMA TypeParts ==
  ArpTypeOK <=> /\ FlagsOK /\ CountsOK /\ ListOK /\ TableOK
                /\ PlaceOK /\ HandsOK /\ SoundOK
BY Zenon DEF ArpTypeOK, FlagsOK, CountsOK, ListOK, TableOK, PlaceOK, HandsOK, SoundOK

(* The flags, read and set. *)
LEMMA FlagsStep ==
  ASSUME ArpTypeOK, [ArpNext]_arpVars
  PROVE  FlagsOK'
<1> USE DEF ArpTypeOK, FlagsOK, knobs, edges
<1>1. ASSUME NEW p \in Players, Player(p) PROVE FlagsOK'
  BY <1>1, Zenon DEF Player, Press, Release, TapOnTaken, TapOnPast, Kick, PlayOn,
    TapOffTaken, TapOffPast, PlayOff, task
<1>2. ASSUME TurnMode \/ TurnHold PROVE FlagsOK'
  BY <1>2, Zenon DEF TurnMode, TurnHold, task
<1>3. ASSUME WakePoll \/ WakeQuick \/ PollRead PROVE FlagsOK'
  <2>1. ASSUME WakePoll PROVE FlagsOK'
    BY <2>1, Zenon DEF WakePoll
  <2>2. ASSUME WakeQuick PROVE FlagsOK'
    BY <2>2, Zenon DEF WakeQuick
  <2>3. ASSUME PollRead PROVE FlagsOK'
    BY <2>3, Zenon DEF PollRead
  <2> QED
    BY <1>3, <2>1, <2>2, <2>3
<1>4. ASSUME PollEdges PROVE FlagsOK'
  BY <1>4, Zenon DEF PollEdges
<1>5. ASSUME Stall \/ KickStep \/ TakeTicks \/ Tick \/ Sleep PROVE FlagsOK'
  BY <1>5, Zenon DEF Stall, KickStep, TakeTicks, Tick, Sleep, task
<1>6. ASSUME StepRead \/ StepPlay PROVE FlagsOK'
  BY <1>6, Zenon DEF StepRead, StepPlay, StepDone
<1>7. ASSUME UNCHANGED arpVars PROVE FlagsOK'
  BY <1>7, Zenon DEF arpVars, task
<1> QED
  BY <1>1, <1>2, <1>3, <1>4, <1>5, <1>6, <1>7 DEF ArpNext, Clock

(* The grid, the burst and the bounds. *)
LEMMA CountsStep ==
  ASSUME ArpTypeOK, [ArpNext]_arpVars
  PROVE  CountsOK'
<1> USE DEF ArpTypeOK, CountsOK
<1>1. ASSUME NEW p \in Players, Player(p) PROVE CountsOK'
  <2>1. /\ s_arp_tick_in_step' = s_arp_tick_in_step /\ burst' = burst /\ turns' = turns
        /\ presses' = presses \/ (presses < MaxPresses /\ presses' = presses + 1)
    BY <1>1 DEF Player, Press, Release, TapOnTaken, TapOnPast, Kick, PlayOn,
      TapOffTaken, TapOffPast, PlayOff, owed, task, bounds
  <2> QED
    BY <2>1
<1>2. ASSUME TurnMode \/ TurnHold PROVE CountsOK'
  BY <1>2 DEF TurnMode, TurnHold, owed, task
<1>3. ASSUME WakePoll \/ WakeQuick \/ PollRead \/ PollEdges PROVE CountsOK'
  BY <1>3 DEF WakePoll, WakeQuick, PollRead, PollEdges, owed, bounds
<1>4. ASSUME Stall \/ KickStep \/ TakeTicks \/ Sleep PROVE CountsOK'
  BY <1>4 DEF Stall, KickStep, TakeTicks, Sleep, owed, task, bounds
<1>5. ASSUME Tick PROVE CountsOK'
  BY <1>5 DEF Tick, bounds
<1>6. ASSUME StepRead \/ StepPlay PROVE CountsOK'
  BY <1>6 DEF StepRead, StepPlay, StepDone, owed, bounds
<1>7. ASSUME UNCHANGED arpVars PROVE CountsOK'
  BY <1>7 DEF arpVars, owed, task, bounds
<1> QED
  BY <1>1, <1>2, <1>3, <1>4, <1>5, <1>6, <1>7 DEF ArpNext, Clock

(* The list and the map. *)
LEMMA ListStep ==
  ASSUME ArpTypeOK, [ArpNext]_arpVars
  PROVE  ListOK'
<1> USE DEF ListOK
<1>0. ListOK
  BY TypeParts
<1>1. ASSUME NEW p \in Players, TapOnTaken(p) PROVE ListOK'
  <2>1. hand[p].note \in Keys
    BY <1>1, CallFacts DEF ArpTypeOK, TapOnTaken
  <2> QED
    BY <1>0, <1>1, <2>1, ListFacts DEF TapOnTaken, Room, OwnedFor
<1>2. ASSUME NEW p \in Players, TapOnPast(p) PROVE ListOK'
  BY <1>0, <1>2, ListFacts DEF TapOnPast, OwnedFor
<1>3. ASSUME NEW p \in Players, TapOffTaken(p) PROVE ListOK'
  <2>1. Cardinality(s_held \ {hand[p].note}) <= Cardinality(s_held)
    BY <1>0, KeyFacts, FS_Subset
  <2>2. Cardinality(s_held \ {hand[p].note}) \in Nat /\ Cardinality(s_held) \in Nat
    BY <1>0, KeyFacts
  <2>3. Cardinality(s_held \ {hand[p].note}) <= MaxHeld
    BY <1>0, <2>1, <2>2
  <2> QED
    BY <1>0, <1>3, <2>3 DEF TapOffTaken
<1>4. ASSUME NEW p \in Players,
             \/ \E n \in Keys : Press(p, n) \/ Release(p, n)
             \/ Kick(p) \/ PlayOn(p) \/ TapOffPast(p) \/ PlayOff(p)
      PROVE  ListOK'
  BY <1>0, <1>4 DEF Press, Release, Kick, PlayOn, TapOffPast, PlayOff, list
<1>5. ASSUME TurnMode \/ TurnHold PROVE ListOK'
  BY <1>0, <1>5 DEF TurnMode, TurnHold, list
<1>6. ASSUME WakePoll \/ WakeQuick \/ PollRead \/ Stall \/ KickStep PROVE ListOK'
  BY <1>0, <1>6 DEF WakePoll, WakeQuick, PollRead, Stall, KickStep, list
<1>7. ASSUME PollEdges PROVE ListOK'
  <2>1. Cardinality(s_down) <= MaxHeld /\ Cardinality({}) <= MaxHeld
    <3>1. Cardinality(s_down) <= Cardinality(s_held)
      BY <1>0, KeyFacts, FS_Subset
    <3>2. Cardinality(s_down) \in Nat /\ Cardinality(s_held) \in Nat
      BY <1>0, KeyFacts
    <3> QED
      BY <1>0, <3>1, <3>2, FS_EmptySet
  <2> QED
    BY <1>0, <1>7, <2>1 DEF PollEdges, HeldAfter, DownAfter, OwnedAfter
<1>8. ASSUME TakeTicks \/ Tick \/ Sleep \/ StepRead \/ StepPlay PROVE ListOK'
  BY <1>0, <1>8 DEF TakeTicks, Tick, Sleep, StepRead, StepPlay, list
<1>9. ASSUME UNCHANGED arpVars PROVE ListOK'
  BY <1>0, <1>9 DEF arpVars, list
<1> QED
  BY <1>1, <1>2, <1>3, <1>4, <1>5, <1>6, <1>7, <1>8, <1>9
     DEF ArpNext, Clock, Player

(* The table of note-offs. *)
LEMMA TableStep ==
  ASSUME ArpTypeOK, [ArpNext]_arpVars
  PROVE  TableOK'
<1> USE DEF TableOK
<1>0. TableOK
  BY TypeParts
<1>1. ASSUME Tick PROVE TableOK'
  BY <1>1, TickedTable DEF Tick
<1>2. ASSUME StepPlay PROVE TableOK'
  <2> DEFINE R == [note : Midi, ticks : 1 .. ArpTicks]
             left == IF Len(s_pend) = MaxPending THEN Tail(s_pend) ELSE s_pend
  <2>1. PICK g \in GateTicks : s_pend' = Append(left, [note |-> tone, ticks |-> g])
    BY <1>2 DEF StepPlay
  <2>2. [note |-> tone, ticks |-> g] \in R
    BY DEF ArpTypeOK
  <2> HIDE DEF R
  <2>3. s_pend \in Seq(R) /\ Len(s_pend) <= MaxPending
    BY <1>0 DEF R
  <2>4. left \in Seq(R) /\ Len(left) < MaxPending
    BY <2>3
  <2> HIDE DEF left
  <2>5. s_pend' \in Seq(R) /\ Len(s_pend') <= MaxPending
    BY <2>1, <2>2, <2>4
  <2> QED
    BY <2>5 DEF R
<1>3. ASSUME NEW p \in Players, Player(p) PROVE TableOK'
  BY <1>0, <1>3 DEF Player, Press, Release, TapOnTaken, TapOnPast, Kick, PlayOn,
    TapOffTaken, TapOffPast, PlayOff, owed
<1>4. ASSUME TurnMode \/ TurnHold \/ WakePoll \/ WakeQuick \/ PollRead PROVE TableOK'
  BY <1>0, <1>4 DEF TurnMode, TurnHold, WakePoll, WakeQuick, PollRead, owed
<1>5. ASSUME PollEdges \/ Stall \/ KickStep PROVE TableOK'
  <2>1. <<>> \in Seq([note : Midi, ticks : 1 .. ArpTicks]) /\ Len(<<>>) <= MaxPending
    OBVIOUS
  <2>2. s_pend' = <<>> \/ s_pend' = s_pend
    BY <1>5 DEF PollEdges, Stall, KickStep
  <2> QED
    BY <1>0, <2>1, <2>2
<1>6. ASSUME TakeTicks \/ Sleep \/ StepRead PROVE TableOK'
  BY <1>0, <1>6 DEF TakeTicks, Sleep, StepRead, owed
<1>7. ASSUME UNCHANGED arpVars PROVE TableOK'
  BY <1>0, <1>7 DEF arpVars, owed
<1> QED
  BY <1>1, <1>2, <1>3, <1>4, <1>5, <1>6, <1>7 DEF ArpNext, Clock

(* Where the clock task is. *)
LEMMA PlaceStep ==
  ASSUME ArpTypeOK, [ArpNext]_arpVars
  PROVE  PlaceOK'
<1> USE DEF PlaceOK
<1>0. PlaceOK
  BY TypeParts
<1>1. ASSUME NEW p \in Players, Player(p) PROVE PlaceOK'
  BY <1>0, <1>1 DEF Player, Press, Release, TapOnTaken, TapOnPast, Kick, PlayOn,
    TapOffTaken, TapOffPast, PlayOff, task
<1>2. ASSUME TurnMode \/ TurnHold PROVE PlaceOK'
  BY <1>0, <1>2 DEF TurnMode, TurnHold, task
<1>3. ASSUME Clock PROVE PlaceOK'
  BY <1>0, <1>3 DEF Clock, WakePoll, WakeQuick, PollRead, PollEdges, Stall, KickStep,
    TakeTicks, Tick, Sleep, StepRead, StepPlay, StepDone, task
<1>4. ASSUME UNCHANGED arpVars PROVE PlaceOK'
  BY <1>0, <1>4 DEF arpVars, task
<1> QED
  BY <1>1, <1>2, <1>3, <1>4 DEF ArpNext

(* The players' calls and keys. *)
LEMMA HandsStep ==
  ASSUME ArpTypeOK, [ArpNext]_arpVars
  PROVE  HandsOK'
<1> USE DEF HandsOK
<1>0. HandsOK
  BY TypeParts
<1>1. ASSUME NEW p \in Players, NEW n \in Keys, Press(p, n) \/ Release(p, n)
      PROVE  HandsOK'
  <2>1. arp_mode \in BOOLEAN /\ arp_hold \in BOOLEAN /\ (arp_hold /\ arp_mode) \in BOOLEAN
    BY Zenon DEF ArpTypeOK
  <2>2. /\ [at |-> "tap_on", note |-> n, arp |-> arp_mode, hold |-> arp_hold] \in Call
        /\ [at |-> "tap_off", note |-> n, latch |-> arp_hold /\ arp_mode] \in Call
    BY <2>1, Calls, Zenon
  <2>3. \E c \in Call : hand' = [hand EXCEPT ![p] = c]
    BY <1>1, <2>2, Zenon DEF Press, Release
  <2>4. \E S \in SUBSET Keys : keys' = [keys EXCEPT ![p] = S]
    BY <1>0, <1>1 DEF Press, Release
  <2> QED
    BY <1>0, <2>3, <2>4
<1>2. ASSUME NEW p \in Players,
             \/ TapOnTaken(p) \/ TapOnPast(p) \/ Kick(p) \/ PlayOn(p)
             \/ TapOffTaken(p) \/ TapOffPast(p) \/ PlayOff(p)
      PROVE  HandsOK'
  <2>1. hand[p] \in Call
    BY <1>0
  <2>2. Idle \in Call /\ [at |-> "kick"] \in Call
    BY DEF Call
  <2>3. hand[p].at \notin {"idle", "kick"} =>
          /\ [at |-> "play_on", note |-> hand[p].note] \in Call
          /\ [at |-> "play_off", note |-> hand[p].note] \in Call
    BY <2>1, CallFacts, Calls
  <2>4. \E c \in Call : hand' = [hand EXCEPT ![p] = c]
    BY <1>2, <2>2, <2>3 DEF TapOnTaken, TapOnPast, Kick, PlayOn, TapOffTaken,
      TapOffPast, PlayOff
  <2>5. keys' = keys
    BY <1>2 DEF TapOnTaken, TapOnPast, Kick, PlayOn, TapOffTaken, TapOffPast, PlayOff
  <2> QED
    BY <1>0, <2>4, <2>5
<1>3. ASSUME TurnMode \/ TurnHold PROVE HandsOK'
  BY <1>0, <1>3 DEF TurnMode, TurnHold
<1>4. ASSUME Clock PROVE HandsOK'
  BY <1>0, <1>4 DEF Clock, WakePoll, WakeQuick, PollRead, PollEdges, Stall, KickStep,
    TakeTicks, Tick, Sleep, StepRead, StepPlay
<1>5. ASSUME UNCHANGED arpVars PROVE HandsOK'
  BY <1>0, <1>5 DEF arpVars
<1> QED
  BY <1>1, <1>2, <1>3, <1>4, <1>5 DEF ArpNext, Player

(* What sounds. *)
LEMMA SoundStep ==
  ASSUME ArpTypeOK, [ArpNext]_arpVars
  PROVE  SoundOK'
<1> USE DEF SoundOK
<1>0. SoundOK
  BY TypeParts
<1>1. ASSUME NEW p \in Players, Player(p) PROVE SoundOK'
  <2>1. hand[p].at \notin {"idle", "kick"} => hand[p].note \in Keys
    BY CallFacts DEF ArpTypeOK
  <2> QED
    BY <1>0, <1>1, <2>1, KeyFacts DEF Player, Press, Release, TapOnTaken, TapOnPast,
      Kick, PlayOn, TapOffTaken, TapOffPast, PlayOff, Silenced, memory, task
<1>2. ASSUME TurnMode \/ TurnHold PROVE SoundOK'
  BY <1>0, <1>2 DEF TurnMode, TurnHold, memory, task
<1>3. ASSUME WakePoll \/ WakeQuick \/ PollRead \/ PollEdges \/ Stall PROVE SoundOK'
  BY <1>0, <1>3 DEF WakePoll, WakeQuick, PollRead, PollEdges, Stall, Silenced, memory, task
<1>4. ASSUME KickStep \/ TakeTicks \/ Tick \/ Sleep PROVE SoundOK'
  BY <1>0, <1>4 DEF KickStep, TakeTicks, Tick, Sleep, Silenced, memory
<1>5. ASSUME StepRead \/ StepPlay PROVE SoundOK'
  BY <1>0, <1>5 DEF StepRead, StepPlay, Spread, memory
<1>6. ASSUME UNCHANGED arpVars PROVE SoundOK'
  BY <1>0, <1>6 DEF arpVars, memory, task
<1> QED
  BY <1>1, <1>2, <1>3, <1>4, <1>5, <1>6 DEF ArpNext, Clock

(* Every step keeps every variable in its type. *)
LEMMA ArpTypeStep ==
  ASSUME ArpTypeOK, [ArpNext]_arpVars
  PROVE  ArpTypeOK'
BY TypeParts, FlagsStep, CountsStep, ListStep, TableStep, PlaceStep, HandsStep, SoundStep, PTL

-----------------------------------------------------------------------------
(* What a player's step leaves in its hand: of the calls the invariants speak *)
(* of, Press leaves one for a key just put down, Release one for a key just   *)
(* taken up, and the tap passes its note on.                                 *)
LEMMA HandAfter ==
  ASSUME ArpTypeOK, NEW p \in Players, Player(p)
  PROVE  /\ hand[p] \in Call
         /\ \A q \in Players \ {p} : hand'[q] = hand[q] /\ keys'[q] = keys[q]
         /\ \A n \in Keys : Press(p, n) =>
              /\ hand'[p].at = "tap_on" /\ hand'[p].note = n
              /\ keys'[p] = keys[p] \cup {n} /\ hand[p].at = "idle"
         /\ \A n \in Keys : Release(p, n) =>
              /\ hand'[p].at = "tap_off" /\ hand'[p].note = n
              /\ keys'[p] = keys[p] \ {n} /\ hand[p].at = "idle"
         /\ TapOnPast(p) => hand'[p].at = "play_on" /\ hand'[p].note = hand[p].note
         /\ TapOffPast(p) => hand'[p].at = "play_off" /\ hand'[p].note = hand[p].note
         /\ TapOnTaken(p) \/ Kick(p) \/ PlayOn(p) \/ TapOffTaken(p) \/ PlayOff(p)
              => hand'[p].at \in {"idle", "kick"}
         /\ (\A n \in Keys : ~Press(p, n) /\ ~Release(p, n)) => keys' = keys
<1> USE DEF Player, Press, Release, TapOnTaken, TapOnPast, Kick, PlayOn, TapOffTaken,
            TapOffPast, PlayOff, Idle
<1>1. hand \in [Players -> Call] /\ keys \in [Players -> SUBSET Keys]
  BY DEF ArpTypeOK
<1>2. \A q \in Players \ {p} : hand'[q] = hand[q] /\ keys'[q] = keys[q]
  BY <1>1
<1>3. ASSUME NEW n \in Keys, Press(p, n)
      PROVE  /\ hand'[p].at = "tap_on" /\ hand'[p].note = n
             /\ keys'[p] = keys[p] \cup {n} /\ hand[p].at = "idle"
  BY <1>1, <1>3
<1>4. ASSUME NEW n \in Keys, Release(p, n)
      PROVE  /\ hand'[p].at = "tap_off" /\ hand'[p].note = n
             /\ keys'[p] = keys[p] \ {n} /\ hand[p].at = "idle"
  BY <1>1, <1>4
<1>5. TapOnPast(p) => hand'[p].at = "play_on" /\ hand'[p].note = hand[p].note
  BY <1>1
<1>6. TapOffPast(p) => hand'[p].at = "play_off" /\ hand'[p].note = hand[p].note
  BY <1>1
<1>7. TapOnTaken(p) \/ Kick(p) \/ PlayOn(p) \/ TapOffTaken(p) \/ PlayOff(p)
        => hand'[p].at \in {"idle", "kick"}
  BY <1>1
<1>8. (\A n \in Keys : ~Press(p, n) /\ ~Release(p, n)) => keys' = keys
  OBVIOUS
<1> QED
  BY <1>1, <1>2, <1>3, <1>4, <1>5, <1>6, <1>7, <1>8

(* Only the players move their hands and keys. *)
LEMMA ClockLeavesHands ==
  ASSUME TurnMode \/ TurnHold \/ Clock \/ UNCHANGED arpVars
  PROVE  hand' = hand /\ keys' = keys /\ direct' = direct
BY DEF TurnMode, TurnHold, Clock, WakePoll, WakeQuick, PollRead, PollEdges, Stall,
  KickStep, TakeTicks, Tick, Sleep, StepRead, StepPlay, arpVars, memory

(* Only polling changes the list from the clock task. *)
LEMMA ClockLeavesList ==
  ASSUME TurnMode \/ TurnHold \/ Clock \/ UNCHANGED arpVars, ~PollEdges
  PROVE  s_held' = s_held /\ s_down' = s_down /\ s_owned' = s_owned
BY DEF TurnMode, TurnHold, Clock, WakePoll, WakeQuick, PollRead, Stall,
  KickStep, TakeTicks, Tick, Sleep, StepRead, StepPlay, arpVars, list

(* A key stays down, or its note-off is on its way, until a step of its       *)
(* player's note-off.                                                        *)
LEMMA StaysDown ==
  ASSUME ArpTypeOK, NEW p \in Players, Player(p), NEW q \in Players, NEW n \in Keys,
         OnDown(q, n)
  PROVE  \/ OnDown(q, n)'
         \/ /\ q = p /\ hand[p].at = "tap_off" /\ hand[p].note = n
            /\ TapOffTaken(p) \/ TapOffPast(p)
<1>1. CASE q # p
  BY <1>1, HandAfter DEF OnDown
<1>2. CASE q = p
  <2>1. ASSUME NEW k \in Keys, Press(p, k) PROVE OnDown(q, n)'
    BY <1>2, <2>1, HandAfter DEF OnDown
  <2>2. ASSUME NEW k \in Keys, Release(p, k) PROVE OnDown(q, n)'
    BY <1>2, <2>2, HandAfter DEF OnDown
  <2>3. ASSUME TapOnTaken(p) \/ TapOnPast(p) \/ Kick(p) \/ PlayOn(p) \/ PlayOff(p)
        PROVE  OnDown(q, n)'
    <3>1. hand[p].at # "tap_off" /\ keys' = keys
      BY <2>3 DEF TapOnTaken, TapOnPast, Kick, PlayOn, PlayOff
    <3> QED
      BY <1>2, <3>1 DEF OnDown
  <2>4. ASSUME TapOffTaken(p) \/ TapOffPast(p)
        PROVE  keys' = keys
    BY <2>4 DEF TapOffTaken, TapOffPast
  <2> QED
    BY <1>2, <2>1, <2>2, <2>3, <2>4 DEF Player, OnDown
<1> QED
  BY <1>1, <1>2

-----------------------------------------------------------------------------
(* A call in hand is for a key that is down, and a key that plays past the    *)
(* arp is one whose note-off the tap has not seen.                           *)
LEMMA InHandStep ==
  ASSUME ArpTypeOK, InHand, [ArpNext]_arpVars
  PROVE  InHand'
<1>1. ASSUME TurnMode \/ TurnHold \/ Clock \/ UNCHANGED arpVars PROVE InHand'
  BY <1>1, ClockLeavesHands DEF InHand, OnDown
<1>2. ASSUME NEW p \in Players, Player(p) PROVE InHand'
  <2>0. direct \subseteq Players \X Keys /\ keys \in [Players -> SUBSET Keys]
    BY DEF ArpTypeOK
  <2>1. \/ direct' = direct
        \/ TapOnPast(p) /\ direct' = direct \cup {<<p, hand[p].note>>}
        \/ /\ TapOffTaken(p) \/ TapOffPast(p)
           /\ hand[p].at = "tap_off" /\ direct' = direct \ {<<p, hand[p].note>>}
    BY <1>2 DEF Player, Press, Release, TapOnTaken, TapOnPast, Kick, PlayOn, TapOffTaken,
      TapOffPast, PlayOff, memory
  <2>2. ASSUME NEW q \in Players, hand'[q].at \in {"tap_on", "play_on"}
        PROVE  hand'[q].note \in keys'[q]
    <3>1. CASE q # p
      BY <1>2, <2>2, <3>1, HandAfter DEF InHand
    <3>2. CASE q = p
      <4>1. ASSUME NEW n \in Keys, Press(p, n) PROVE hand'[q].note \in keys'[q]
        BY <1>2, <3>2, <4>1, HandAfter
      <4>2. ASSUME TapOnPast(p) PROVE hand'[q].note \in keys'[q]
        BY <1>2, <3>2, <4>2, HandAfter DEF InHand, TapOnPast
      <4> QED
        BY <1>2, <2>2, <3>2, <4>1, <4>2, HandAfter DEF Player
    <3> QED
      BY <3>1, <3>2
  <2>3. ASSUME NEW q \in Players, hand'[q].at = "play_on"
        PROVE  <<q, hand'[q].note>> \in direct'
    <3>1. CASE q # p
      <4>1. <<q, hand'[q].note>> \in direct
        BY <1>2, <2>3, <3>1, HandAfter DEF InHand
      <4> QED
        BY <2>1, <3>1, <4>1
    <3>2. CASE q = p
      <4>1. TapOnPast(p)
        BY <1>2, <2>3, <3>2, HandAfter DEF Player
      <4> QED
        BY <1>2, <3>2, <4>1, HandAfter DEF TapOnPast
    <3> QED
      BY <3>1, <3>2
  <2>4. ASSUME NEW q \in Players, NEW n \in Keys, <<q, n>> \in direct'
        PROVE  OnDown(q, n)'
    <3>1. CASE <<q, n>> \in direct
      <4>1. OnDown(q, n)
        BY <3>1 DEF InHand
      <4>2. ~(/\ q = p /\ hand[p].at = "tap_off" /\ hand[p].note = n
              /\ TapOffTaken(p) \/ TapOffPast(p))
        BY <2>4 DEF TapOffTaken, TapOffPast
      <4> QED
        BY <1>2, <4>1, <4>2, StaysDown
    <3>2. CASE <<q, n>> \notin direct
      <4>1. TapOnPast(p) /\ q = p /\ n = hand[p].note
        BY <2>1, <2>4, <3>2
      <4>2. n \in keys[p] /\ keys' = keys
        BY <4>1 DEF InHand, TapOnPast
      <4> QED
        BY <4>1, <4>2 DEF OnDown
    <3> QED
      BY <3>1, <3>2
  <2> QED
    BY <2>2, <2>3, <2>4 DEF InHand
<1> QED
  BY <1>1, <1>2 DEF ArpNext

(* The map owns what is in the list; what is down in the list, or owned        *)
(* outside it, has its note-off still to come.                               *)
LEMMA SettledStep ==
  ASSUME ArpTypeOK, InHand, Settled, [ArpNext]_arpVars
  PROVE  Settled'
<1>0. /\ s_held \subseteq Keys /\ s_down \subseteq s_held /\ s_owned \subseteq Keys
      /\ hand \in [Players -> Call]
  BY DEF ArpTypeOK
<1>1. CASE (TurnMode \/ TurnHold \/ Clock \/ UNCHANGED arpVars) /\ ~PollEdges
  BY <1>1, ClockLeavesHands, ClockLeavesList DEF Settled, OnDown
<1>2. CASE PollEdges
  <2>1. hand' = hand /\ keys' = keys
    BY <1>2 DEF PollEdges
  <2>2. \A n : (\E p \in Players : OnDown(p, n)) => \E p \in Players : OnDown(p, n)'
    BY <2>1 DEF OnDown
  <2>3. /\ s_held' = HeldAfter /\ s_down' = DownAfter /\ s_owned' = OwnedAfter
    BY <1>2 DEF PollEdges
  <2> QED
    BY <1>0, <2>2, <2>3 DEF Settled, HeldAfter, DownAfter, OwnedAfter, Latched
<1>3. ASSUME NEW p \in Players, TapOnTaken(p) PROVE Settled'
  <2>1. hand[p].at = "tap_on" /\ hand[p].note \in keys[p] /\ keys' = keys
    BY <1>3 DEF TapOnTaken, InHand
  <2>2. hand[p].note \in Keys
    BY <1>0, <2>1, CallFacts
  <2>3. ASSUME NEW q \in Players, NEW n \in Keys, OnDown(q, n) PROVE OnDown(q, n)'
    <3>1. Player(p)
      BY <1>3 DEF Player
    <3> QED
      BY <2>1, <2>3, <3>1, StaysDown
  <2>4. ASSUME NEW n \in Keys, n = hand[p].note PROVE OnDown(p, n)'
    BY <2>1, <2>4 DEF OnDown
  <2>5. /\ s_held' = HeldFor(hand[p]) \cup {hand[p].note}
        /\ s_down' = s_down \cup {hand[p].note}
        /\ s_owned' = OwnedFor(hand[p]) \cup {hand[p].note}
    BY <1>3 DEF TapOnTaken
  <2>6. s_held' \subseteq s_owned'
    BY <2>5 DEF Settled, HeldFor, OwnedFor
  <2>7. ASSUME NEW n \in s_down' PROVE \E q \in Players : OnDown(q, n)'
    <3>1. CASE n = hand[p].note
      BY <2>2, <2>4, <3>1
    <3>2. CASE n \in s_down
      BY <1>0, <2>3, <3>2 DEF Settled
    <3> QED
      BY <2>5, <3>1, <3>2
  <2>8. ASSUME NEW n \in s_owned' \ s_held' PROVE \E q \in Players : OnDown(q, n)'
    <3>1. n \in s_owned \ s_held
      BY <2>5 DEF HeldFor, OwnedFor
    <3> QED
      BY <1>0, <2>3, <3>1 DEF Settled
  <2> QED
    BY <2>6, <2>7, <2>8 DEF Settled
<1>4. ASSUME NEW p \in Players, TapOnPast(p) PROVE Settled'
  <2>1. hand[p].at = "tap_on" /\ s_down' = s_down
    BY <1>4 DEF TapOnPast
  <2>2. ASSUME NEW q \in Players, NEW n \in Keys, OnDown(q, n) PROVE OnDown(q, n)'
    <3>1. Player(p)
      BY <1>4 DEF Player
    <3> QED
      BY <2>1, <2>2, <3>1, StaysDown
  <2>3. \/ s_held' = s_held /\ s_owned' = s_owned
        \/ s_held' = {} /\ s_owned' = s_owned \ s_held /\ s_down = {}
    BY <1>4 DEF TapOnPast, HeldFor, OwnedFor, Afresh
  <2> QED
    BY <1>0, <2>1, <2>2, <2>3 DEF Settled
<1>5. ASSUME NEW p \in Players, TapOffTaken(p) PROVE Settled'
  <2>1. ASSUME NEW q \in Players, NEW n \in Keys \ {hand[p].note}, OnDown(q, n)
        PROVE  OnDown(q, n)'
    <3>1. Player(p)
      BY <1>5 DEF Player
    <3> QED
      BY <2>1, <3>1, StaysDown
  <2>2. /\ s_down' = s_down \ {hand[p].note}
        /\ \/ s_held' = s_held /\ s_owned' = s_owned /\ hand[p].note \in s_held
           \/ s_held' = s_held \ {hand[p].note} /\ s_owned' = s_owned \ {hand[p].note}
    BY <1>5 DEF TapOffTaken
  <2> QED
    BY <1>0, <2>1, <2>2 DEF Settled
<1>6. ASSUME NEW p \in Players, TapOffPast(p) PROVE Settled'
  <2>1. hand[p].note \notin s_owned
    BY <1>6 DEF TapOffPast
  <2>2. ASSUME NEW q \in Players, NEW n \in s_owned, OnDown(q, n)
        PROVE  OnDown(q, n)'
    <3>1. Player(p)
      BY <1>6 DEF Player
    <3> QED
      BY <1>0, <2>1, <2>2, <3>1, StaysDown
  <2>3. s_held' = s_held /\ s_down' = s_down /\ s_owned' = s_owned
    BY <1>6 DEF TapOffPast, list
  <2> QED
    BY <1>0, <2>2, <2>3 DEF Settled
<1>7. ASSUME NEW p \in Players,
             \/ \E n \in Keys : Press(p, n) \/ Release(p, n)
             \/ Kick(p) \/ PlayOn(p) \/ PlayOff(p)
      PROVE  Settled'
  <2>1. Player(p) /\ ~TapOffTaken(p) /\ ~TapOffPast(p)
    BY <1>7 DEF Player, Press, Release, Kick, PlayOn, PlayOff, TapOffTaken, TapOffPast, Idle
  <2>2. ASSUME NEW q \in Players, NEW n \in Keys, OnDown(q, n) PROVE OnDown(q, n)'
    BY <2>1, <2>2, StaysDown
  <2>3. s_held' = s_held /\ s_down' = s_down /\ s_owned' = s_owned
    BY <1>7 DEF Press, Release, Kick, PlayOn, PlayOff, list
  <2> QED
    BY <1>0, <2>2, <2>3 DEF Settled
<1> QED
  BY <1>1, <1>2, <1>3, <1>4, <1>5, <1>6, <1>7 DEF ArpNext, Player, Clock

(* Whatever sounds is still owed its note-off. *)
LEMMA OffOwedStep ==
  ASSUME ArpTypeOK, InHand, OffOwed, [ArpNext]_arpVars
  PROVE  OffOwed'
<1> DEFINE Past(n) == \E p \in Players : \/ <<p, n>> \in direct
                                         \/ hand[p].at = "play_off" /\ hand[p].note = n
<1>0. /\ voices \subseteq Midi /\ swallowed \subseteq voices
      /\ direct \subseteq Players \X Keys /\ hand \in [Players -> Call]
      /\ s_pend \in Seq([note : Midi, ticks : 1 .. ArpTicks])
  BY DEF ArpTypeOK
<1>1. CASE /\ voices' = voices /\ swallowed' = swallowed /\ s_pend' = s_pend
           /\ direct' = direct /\ hand' = hand
  BY <1>1 DEF OffOwed, Ended
<1>2. ASSUME TurnMode \/ TurnHold \/ UNCHANGED arpVars PROVE OffOwed'
  BY <1>1, <1>2 DEF TurnMode, TurnHold, arpVars, memory, owed
<1>3. ASSUME \/ WakePoll \/ WakeQuick \/ PollRead \/ KickStep \/ TakeTicks
             \/ Sleep \/ StepRead
      PROVE  OffOwed'
  BY <1>1, <1>3 DEF WakePoll, WakeQuick, PollRead, KickStep, TakeTicks, Sleep, StepRead,
    memory, owed
<1>4. ASSUME PollEdges \/ Stall PROVE OffOwed'
  <2>1. direct' = direct /\ hand' = hand
    BY <1>4 DEF PollEdges, Stall
  <2>2. CASE UNCHANGED <<s_pend, voices, swallowed>>
    BY <1>1, <2>1, <2>2
  <2>3. CASE Silenced(Ended(s_pend))
    BY <2>1, <2>3 DEF OffOwed, Silenced
  <2> QED
    BY <1>4, <2>2, <2>3 DEF PollEdges, Stall
<1>5. ASSUME Tick PROVE OffOwed'
  <2>1. direct' = direct /\ hand' = hand
    BY <1>5 DEF Tick
  <2>2. Silenced({s_pend[i].note : i \in Ending})
    BY <1>5 DEF Tick
  <2>3. \A i \in Lasting : s_pend[i].note \in Ended(s_pend')
    BY <1>5, TickedTable DEF Tick
  <2>4. ASSUME NEW n \in Ended(s_pend), n \notin {s_pend[i].note : i \in Ending}
        PROVE  n \in Ended(s_pend')
    BY <2>3, <2>4 DEF Ended, Lasting
  <2>5. Ended(s_pend)' = Ended(s_pend')
    BY DEF Ended
  <2> QED
    BY <2>1, <2>2, <2>4, <2>5 DEF OffOwed, Silenced
<1>6. ASSUME StepPlay PROVE OffOwed'
  <2>1. direct' = direct /\ hand' = hand
    BY <1>6 DEF StepPlay
  <2> DEFINE R == [note : Midi, ticks : 1 .. ArpTicks]
             left == IF Len(s_pend) = MaxPending THEN Tail(s_pend) ELSE s_pend
  <2>2. PICK g \in GateTicks : s_pend' = Append(left, [note |-> tone, ticks |-> g])
    BY <1>6 DEF StepPlay
  <2>3. [note |-> tone, ticks |-> g] \in R
    BY DEF ArpTypeOK
  <2> HIDE DEF R
  <2>4. s_pend \in Seq(R)
    BY <1>0 DEF R
  <2>5. left \in Seq(R)
    BY <2>4
  <2>6. \A i \in 1 .. Len(s_pend) : s_pend[i].note \in Evicted
           \/ \E j \in 1 .. Len(left) : left[j] = s_pend[i]
    <3> SUFFICES ASSUME NEW i \in 1 .. Len(s_pend)
                 PROVE  \/ s_pend[i].note \in Evicted
                        \/ \E j \in 1 .. Len(left) : left[j] = s_pend[i]
      OBVIOUS
    <3>1. CASE Len(s_pend) # MaxPending
      BY <3>1
    <3>2. CASE Len(s_pend) = MaxPending /\ i = 1
      BY <3>2 DEF Evicted
    <3>3. CASE Len(s_pend) = MaxPending /\ i # 1
      <4>1. i - 1 \in 1 .. Len(left) /\ left[i - 1] = s_pend[i]
        BY <2>4, <3>3
      <4> QED
        BY <4>1
    <3> QED
      BY <3>1, <3>2, <3>3
  <2> HIDE DEF left
  <2>7. /\ Len(s_pend') = Len(left) + 1 /\ Len(left) \in Nat
        /\ s_pend'[Len(left) + 1] = [note |-> tone, ticks |-> g]
        /\ \A j \in 1 .. Len(left) : s_pend'[j] = left[j]
    BY <2>2, <2>3, <2>5
  <2>8. tone \in Ended(s_pend')
    BY <2>7 DEF Ended
  <2>9. ASSUME NEW n \in Ended(s_pend), n \notin Evicted
        PROVE  n \in Ended(s_pend')
    <3>1. PICK i \in 1 .. Len(s_pend) : n = s_pend[i].note
      BY DEF Ended
    <3>2. PICK j \in 1 .. Len(left) : left[j] = s_pend[i]
      BY <2>6, <2>9, <3>1
    <3>3. j \in 1 .. Len(s_pend') /\ s_pend'[j].note = n
      BY <2>7, <3>1, <3>2
    <3> QED
      BY <3>3 DEF Ended
  <2>10. /\ voices' = (voices \cup {tone}) \ Evicted
         /\ swallowed' = swallowed \ Evicted
    BY <1>6 DEF StepPlay
  <2>11. Ended(s_pend)' = Ended(s_pend')
    BY DEF Ended
  <2> QED
    BY <2>1, <2>8, <2>9, <2>10, <2>11 DEF OffOwed
<1>7. ASSUME NEW p \in Players, Player(p) PROVE OffOwed'
  <2>1. s_pend' = s_pend
    BY <1>7 DEF Player, Press, Release, TapOnTaken, TapOnPast, Kick, PlayOn, TapOffTaken,
      TapOffPast, PlayOff, owed
  <2>2. Ended(s_pend)' = Ended(s_pend)
    BY <2>1 DEF Ended
  <2>3. ASSUME \/ \E n \in Keys : Press(p, n) \/ Release(p, n)
               \/ TapOnTaken(p) \/ Kick(p)
        PROVE  OffOwed'
    <3>1. voices' = voices /\ swallowed' = swallowed /\ direct' = direct
      BY <2>3 DEF Press, Release, TapOnTaken, Kick, memory
    <3>2. hand[p].at # "play_off"
      BY <2>3 DEF Press, Release, TapOnTaken, Kick, Idle
    <3>3. \A n : Past(n) => Past(n)'
      BY <1>7, <3>1, <3>2, HandAfter
    <3> QED
      BY <2>2, <3>1, <3>3 DEF OffOwed
  <2>4. ASSUME TapOnPast(p) PROVE OffOwed'
    <3>1. /\ voices' = voices /\ swallowed' = swallowed /\ direct \subseteq direct'
          /\ hand[p].at # "play_off"
      BY <2>4 DEF TapOnPast
    <3>2. \A n : Past(n) => Past(n)'
      BY <1>7, <3>1, HandAfter
    <3> QED
      BY <2>2, <3>1, <3>2 DEF OffOwed
  <2>5. ASSUME PlayOn(p) PROVE OffOwed'
    <3>1. /\ voices' = voices \cup {hand[p].note} /\ swallowed' = swallowed
          /\ direct' = direct /\ hand[p].at = "play_on"
      BY <2>5 DEF PlayOn, memory
    <3>2. \A n : Past(n) => Past(n)'
      BY <1>7, <3>1, HandAfter
    <3>3. \A n : n = hand[p].note => Past(n)
      BY <3>1 DEF InHand
    <3>4. \A n \in (voices \ swallowed)' : n \in Ended(s_pend) \/ Past(n)
      BY <3>1, <3>3 DEF OffOwed
    <3> QED
      BY <2>2, <3>2, <3>4 DEF OffOwed
  <2>6. ASSUME TapOffTaken(p) PROVE OffOwed'
    <3>1. /\ voices' = voices /\ direct' = direct \ {<<p, hand[p].note>>}
          /\ swallowed' = IF <<p, hand[p].note>> \in direct
                          THEN swallowed \cup ({hand[p].note} \cap voices) ELSE swallowed
          /\ hand[p].at = "tap_off"
      BY <2>6 DEF TapOffTaken
    <3>2. \A n : Past(n) /\ (n # hand[p].note \/ <<p, hand[p].note>> \notin direct)
            => Past(n)'
      BY <1>7, <3>1, HandAfter
    <3> QED
      BY <2>2, <3>1, <3>2 DEF OffOwed
  <2>7. ASSUME TapOffPast(p) PROVE OffOwed'
    <3>1. /\ voices' = voices /\ swallowed' = swallowed
          /\ direct' = direct \ {<<p, hand[p].note>>} /\ hand[p].at = "tap_off"
      BY <2>7 DEF TapOffPast
    <3>2. \A n : Past(n) => Past(n)'
      BY <1>7, <2>7, <3>1, HandAfter
    <3> QED
      BY <2>2, <3>1, <3>2 DEF OffOwed
  <2>8. ASSUME PlayOff(p) PROVE OffOwed'
    <3>1. /\ voices' = voices \ {hand[p].note} /\ direct' = direct
          /\ swallowed' = swallowed \ {hand[p].note}
      BY <2>8 DEF PlayOff, Silenced
    <3>2. \A n : Past(n) /\ n # hand[p].note => Past(n)'
      BY <1>7, <3>1, HandAfter
    <3> QED
      BY <2>2, <3>1, <3>2 DEF OffOwed
  <2> QED
    BY <1>7, <2>3, <2>4, <2>5, <2>6, <2>7, <2>8 DEF Player
<1> QED
  BY <1>2, <1>3, <1>4, <1>5, <1>6, <1>7 DEF ArpNext, Clock

-----------------------------------------------------------------------------
(* AInv is inductive. *)
LEMMA ArpStep ==
  ASSUME AInv, [ArpNext]_arpVars
  PROVE  AInv'
BY ArpTypeStep, InHandStep, SettledStep, OffOwedStep DEF AInv

(* From the start and through every step. *)
THEOREM ArpInductive == ArpSpec => []AInv
<1>1. ArpInit => AInv
  BY ArpStarts
<1>2. AInv /\ [ArpNext]_arpVars => AInv'
  BY ArpStep
<1> QED
  BY <1>1, <1>2, PTL DEF ArpSpec

(* However many players play, the map never keeps a note that is neither in   *)
(* the list nor under a finger.                                              *)
THEOREM OwnedStaysDown == ArpSpec => []OwnedIsDown
<1>1. AInv => OwnedIsDown
  BY DEF AInv, Settled, OnDown, OwnedIsDown, Attended
<1> QED
  BY <1>1, ArpInductive, PTL

(* However many players play and whatever is toggled, a note sounds only       *)
(* while its key is down or its note-off is owed.                            *)
THEOREM NoVoiceHung == ArpSpec => []NoHungVoice
<1>1. ASSUME AInv PROVE NoHungVoice
  <2> USE <1>1
  <2>1. ASSUME NEW n \in voices \ swallowed PROVE Accounted(n)
    <3>1. CASE n \in Ended(s_pend)
      BY <3>1 DEF Accounted
    <3>2. ASSUME NEW p \in Players, <<p, n>> \in direct PROVE Accounted(n)
      <4>1. n \in Keys /\ OnDown(p, n)
        BY <3>2 DEF AInv, InHand, ArpTypeOK
      <4> QED
        BY <4>1 DEF OnDown, Accounted, Attended
    <3>3. ASSUME NEW p \in Players, hand[p].at = "play_off" /\ hand[p].note = n
          PROVE  Accounted(n)
      BY <3>3 DEF Accounted, Attended
    <3> QED
      BY <3>1, <3>2, <3>3 DEF AInv, OffOwed
  <2> QED
    BY <2>1 DEF AInv, NoHungVoice
<1> QED
  BY <1>1, ArpInductive, PTL

=============================================================================
