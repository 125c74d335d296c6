---------------------------- MODULE Looper_proof ----------------------------
(***************************************************************************)
(* Proofs about Looper for any number of tracks, beats and buffers and any   *)
(* interleaving of the tasks: no block reads or writes a buffer that was     *)
(* freed, what is marked as filled holds a whole take, a track is decoded    *)
(* from the top of the pass, and a cancelled count-in starts nothing.        *)
(***************************************************************************)
EXTENDS Looper, FiniteSetTheorems, FunctionTheorems, TLAPS

USE SizeAssumption, MoveAssumption

Bit    == BOOLEAN
Units  == 0 .. Cap
Spots  == 0 .. Cap - 1
Fades  == 0 .. Ramp
BufIds == Bufs \cup {NoBuf}
TrkIds == Tracks \cup {NoTrk}
Evts   == {"state", "autoplay", "pad"}
Flags  == {"mode", "clear", "load", "fire"}
Pads   == [trk : TrkIds, from : Units]
Jobs   == [trk : TrkIds, buf : BufIds, from : Units, limit : Units, armed : Bit]
States == [pos : Spots, rec : Bit, pending : Bit, trk : Tracks, playing : Bit,
           ramp : Fades, dec : SUBSET Tracks]
Steps  == [step : {"idle", "load", "use"}, len : Units, mix : SUBSET Tracks,
           reads : SUBSET Bufs, writes : BufIds, again : Bit]
Places == {"wait", "pad", "mirror", "compact", "swap", "shrink", "flags", "handle", "grow",
           "reset", "release", "fill"}

(* What the commands, the locals and the transport can hold.                 *)
CmdShape == /\ s_cmd[1] \in {"none", "stop", "play", "rec", "detach"}
            /\ s_cmd[1] = "rec" => s_cmd[2] \in Tracks /\ s_cmd = <<"rec", s_cmd[2]>>
CtlShape == /\ notice \in Flags \cup {"none"} /\ s_flags \subseteq Flags /\ s_evt \subseteq Evts
            /\ pc \in Places /\ todo \subseteq Flags
            /\ s_arm_track \in Tracks /\ s_arm_fire \in BOOLEAN
            /\ s_rec_limit \in 1 .. Cap /\ s_pad \in Pads /\ lates \in Nat
JobShape == /\ job \in Jobs
            /\ pc \in {"pad", "swap", "shrink", "grow"} => job.trk \in Tracks
            /\ pc = "grow" => job.limit > 0
BlockShape == a \in States /\ block \in Steps

Shape == TypeOK /\ CmdShape /\ CtlShape /\ JobShape /\ BlockShape

-----------------------------------------------------------------------------
(* The inductive invariant. *)

(* The transport of the audio task: a fade has no take, a take plays, and a  *)
(* transport that does not play is at the top and renders nothing.           *)
Moving ==
  /\ a.ramp > 0 => ~a.rec /\ ~a.pending /\ a.playing
  /\ a.rec => a.playing /\ ~a.pending
  /\ a.pending => a.playing
  /\ ~a.playing => a.pos = 0
  /\ block.step # "idle" => a.playing /\ (block.len = 0 => a.rec)

(* The memory. A buffer belongs to one track, and the buffer loop_ctl waits   *)
(* to free to none: once a boundary has passed no block holds it.             *)
Used == block.reads \cup ({block.writes} \ {NoBuf})
Memory ==
  /\ \A t, u \in Tracks : s_buf[t] # NoBuf /\ s_buf[t] = s_buf[u] => t = u
  /\ pc \in {"grow", "swap", "shrink"} /\ job.buf # NoBuf => \A t \in Tracks : s_buf[t] # job.buf
  /\ pc \in {"grow", "shrink"} /\ boundaries > 0 => job.buf \notin Used
  /\ pc = "swap" => job.buf \in live
  /\ Used \subseteq live
  /\ block.step # "use" => Used = {}

(* The handshake before the set goes: the command to let go of it is in the   *)
(* mailbox until a block has taken it, and then no block renders.            *)
Quiet == /\ s_cmd[1] = "none" /\ block.step = "idle"
         /\ ~a.playing /\ ~a.rec /\ ~a.pending /\ a.ramp = 0
LetGo ==
  /\ pc \in {"reset", "release"} =>
       \/ s_cmd[1] = "detach" /\ (boundaries = 0 \/ (boundaries = 1 /\ block.step = "idle"))
       \/ boundaries > 0 /\ Quiet
  /\ s_cmd[1] = "detach" /\ lates = 0 => pc \in {"reset", "release"}
  /\ pc = "fill" => \A t \in Tracks : s_buf[t] = NoBuf
  /\ pc = "fill" /\ lates = 0 =>
       Quiet /\ s_loop_frames = 0 /\ s_filled = {} /\ (~overtaken => s_pad = NoPad)

(* From here on, of a loop_ctl that keeps up with the audio task.             *)
InTime == lates = 0 /\ ~overtaken

(* The length of the loop is the one a block began with, and the transport   *)
(* is inside it, or inside the first take.                                   *)
Loop ==
  /\ s_loop_frames = 0 => s_filled = {} /\ ~a.pending
  /\ block.step # "idle" => block.len = s_loop_frames
  /\ s_loop_frames > 0 => a.pos < s_loop_frames
  /\ s_loop_frames = 0 => IF a.rec THEN a.pos < s_rec_limit ELSE a.pos = 0

(* A track that is, or will be, recorded has room for the take.              *)
Due(t) == ((a.rec \/ a.pending) /\ a.trk = t) \/ s_cmd = <<"rec", t>>
Pass   == IF s_loop_frames > 0 THEN s_loop_frames ELSE s_rec_limit
Room   == \A t \in Tracks : Due(t) => s_buf[t] # NoBuf /\ mem[s_buf[t]].size >= Pass

(* The buffer loop_ctl has taken for a take it will command holds that one,   *)
(* and the loop of whichever opens before.                                  *)
Grown ==
  pc = "grow" =>
    /\ s_buf[job.trk] # NoBuf
    /\ mem[s_buf[job.trk]].size >= IF s_loop_frames > 0 THEN s_loop_frames ELSE job.limit
    /\ s_loop_frames = 0 /\ (a.rec \/ s_cmd[1] = "rec") =>
         mem[s_buf[job.trk]].size >= s_rec_limit

(* A take is in its track's buffer from the top up to where the transport    *)
(* is; and no buffer holds more than its size.                               *)
Content ==
  /\ \A b \in Bufs : mem[b].take <= mem[b].size
  /\ a.rec /\ a.pos > 0 => mem[s_buf[a.trk]].take = a.pos
  /\ block.step = "use" => block.writes = IF a.rec THEN s_buf[a.trk] ELSE NoBuf

(* Nothing opens a take on a track while it is compacted, and the copy is as  *)
(* good as the original.                                                     *)
Copied ==
  /\ pc \in {"compact", "swap", "shrink"} => s_loop_frames > 0
  /\ pc = "swap" =>
       /\ ~Due(job.trk) /\ s_buf[job.trk] # NoBuf /\ mem[job.buf].size = s_loop_frames
       /\ job.trk \in s_filled => mem[job.buf].take >= s_loop_frames
       /\ s_pad.trk = job.trk => mem[job.buf].take = s_pad.from

(* A tail to pad: its take ends where the pad is to begin, the transport is   *)
(* fading or still, and no take is coming.                                   *)
Stopped == /\ ~a.rec /\ ~a.pending /\ s_cmd[1] \notin {"rec", "play"}
           /\ a.ramp > 0 \/ ~a.playing
Tail(t, from) == /\ 0 < from /\ from < s_loop_frames
                 /\ mem[s_buf[t]].size >= s_loop_frames /\ mem[s_buf[t]].take = from
Tails ==
  /\ s_pad # NoPad =>
       /\ Stopped /\ s_pad.trk \in Tracks
       /\ s_buf[s_pad.trk] # NoBuf => Tail(s_pad.trk, s_pad.from)
  /\ pc = "pad" =>
       /\ Stopped /\ s_pad = NoPad /\ job.trk \in Tracks
       /\ s_buf[job.trk] = job.buf /\ job.buf # NoBuf /\ Tail(job.trk, job.from)

(* The filled mask.                                                          *)
Whole(t)  == s_loop_frames > 0 /\ mem[s_buf[t]].take >= s_loop_frames
Played(t) == (a.rec /\ t = a.trk) \/ Whole(t)
Filled ==
  /\ \A t \in s_filled : s_buf[t] # NoBuf
  /\ pc \notin {"reset", "release"} \/ a.playing => \A t \in s_filled : Played(t)

(* A block reads and writes inside its buffers.                              *)
Within == block.step = "use" => \A b \in Used : a.pos < mem[b].size

(* The decoders: outside a fade, what can be mixed was mixed all the pass.    *)
Mixable == s_filled \ {RecTrkLive}
Decoded ==
  a.ramp = 0 /\ a.playing =>
    /\ s_loop_frames > 0 => Mixable \subseteq a.dec
    /\ block.step = "use" => /\ block.mix \subseteq a.dec
                             /\ block.len > 0 => Mixable \subseteq block.mix

(* An arm that can still fire stands.                                        *)
Standing == s_arm_fire \/ clk = "fire" \/ s_arm_beats > 0 => standing

Taken == Loop /\ Room /\ Grown /\ Content /\ Copied /\ Tails /\ Filled /\ Within /\ Decoded
Sound == InTime => Taken
IInv  == Shape /\ Moving /\ Memory /\ LetGo /\ Sound /\ Standing

-----------------------------------------------------------------------------
(* Lemmas about the operators of the transport. *)

Trans == [a : States, len : Units, filled : SUBSET Tracks, pad : Pads, evt : SUBSET Evts]

(* Zero is a position, a length and a fade, and the flags are flags. *)
LEMMA Bits == /\ TRUE \in Bit /\ FALSE \in Bit
              /\ 0 \in Spots /\ 0 \in Fades /\ Ramp \in Fades /\ 0 \in Units
              /\ Spots \subseteq Units
BY DEF Bit, Spots, Fades, Units

(* A position and a counter of a fade are numbers. *)
LEMMA Numbers ==
  /\ \A i \in Spots : i \in Nat /\ i < Cap
  /\ \A i \in Units : i \in Nat /\ i <= Cap
  /\ \A i \in Fades : i \in Nat /\ (i > 0 => i - 1 \in Fades)
BY DEF Spots, Fades, Units

(* What closing the take does to the set. *)
Closed(x, y, k) ==
  /\ ~x.a.rec => y.len = x.len /\ y.filled = x.filled /\ y.pad = x.pad
  /\ x.a.rec /\ x.len = 0 =>
       /\ y.len = x.a.pos /\ y.pad = x.pad
       /\ y.filled = IF x.a.pos > 0 THEN x.filled \cup {x.a.trk} ELSE x.filled
  /\ x.a.rec /\ x.len > 0 =>
       /\ y.len = x.len /\ y.filled = x.filled \ {x.a.trk}
       /\ y.pad = IF k /\ x.a.pos > 0 THEN [trk |-> x.a.trk, from |-> x.a.pos] ELSE x.pad
Top(x)    == IF x.a.rec /\ x.len = 0 THEN 0 ELSE x.a.pos
SameSet(x, y) == y.len = x.len /\ y.filled = x.filled /\ y.pad = x.pad
Rewound(y)  == y.a.ramp = 0 /\ y.a.playing = FALSE /\ y.a.pos = 0
SameTrack(x, y) == y.a.trk = x.a.trk /\ y.a.dec = x.a.dec
SameTake(x, y)  == y.a.rec = x.a.rec /\ y.a.pending = x.a.pending
NoTake(y) == y.a.rec = FALSE /\ y.a.pending = FALSE

(* What the audio task may change is a transport. *)
LEMMA TransportType ==
  ASSUME Shape
  PROVE  /\ Transport \in Trans
         /\ Transport.a = a /\ Transport.len = s_loop_frames /\ Transport.filled = s_filled
         /\ Transport.pad = s_pad /\ Transport.evt = s_evt
BY DEF Shape, TypeOK, BlockShape, CtlShape, Transport, Trans, Units

(* audio_close_rec(): no take is open or due; what was open closes the loop, *)
(* or leaves its track unfilled, with a tail to pad if its start is kept.    *)
LEMMA CloseRecResult ==
  \A x \in Trans, k \in BOOLEAN :
    /\ CloseRec(x, k) \in Trans
    /\ Closed(x, CloseRec(x, k), k) /\ NoTake(CloseRec(x, k))
    /\ SameTrack(x, CloseRec(x, k))
    /\ CloseRec(x, k).a.playing = x.a.playing /\ CloseRec(x, k).a.ramp = x.a.ramp
    /\ CloseRec(x, k).a.pos = Top(x)
<1> SUFFICES ASSUME NEW x \in Trans, NEW k \in BOOLEAN
             PROVE  LET y == CloseRec(x, k)
                    IN /\ y \in Trans /\ Closed(x, y, k) /\ NoTake(y) /\ SameTrack(x, y)
                       /\ y.a.playing = x.a.playing /\ y.a.ramp = x.a.ramp
                       /\ y.a.pos = Top(x)
  OBVIOUS
<1> USE DEF Closed, NoTake, SameTrack, Top
<1> DEFINE closed == [x.a EXCEPT !.rec = FALSE, !.pending = FALSE]
<1>a. x.a \in States /\ x.len \in Units /\ x.filled \subseteq Tracks
      /\ x.pad \in Pads /\ x.evt \subseteq Evts
  BY DEF Trans
<1>b. /\ closed \in States /\ closed.rec = FALSE /\ closed.pending = FALSE
      /\ closed.trk = x.a.trk /\ closed.playing = x.a.playing /\ closed.pos = x.a.pos
      /\ closed.ramp = x.a.ramp /\ closed.dec = x.a.dec
  BY <1>a, Bits DEF States
<1>t. x.a.trk \in Tracks /\ x.a.pos \in Spots /\ x.a.pos \in Units
      /\ x.len \in Nat /\ x.a.pos \in Nat
  BY <1>a, Bits, Numbers DEF States
<1>c. [closed EXCEPT !.pos = 0] \in States /\ [closed EXCEPT !.pos = 0].pos = 0
  BY <1>b, Bits DEF States
<1>1. CASE ~x.a.rec
  <2>1. CloseRec(x, k) = [x EXCEPT !.a = closed]
    BY <1>1 DEF CloseRec
  <2> QED BY <1>1, <1>a, <1>b, <2>1 DEF Trans
<1>2. CASE x.a.rec /\ x.len = 0
  <2> DEFINE f == IF x.a.pos > 0 THEN x.filled \cup {x.a.trk} ELSE x.filled
  <2>1. CloseRec(x, k) = [x EXCEPT !.a = [closed EXCEPT !.pos = 0], !.len = x.a.pos,
                                   !.filled = f, !.evt = @ \cup {"state"}]
    BY <1>2, <1>a, <1>t DEF CloseRec, Trans
  <2>2. f \subseteq Tracks
    BY <1>a, <1>t
  <2>3. x.evt \cup {"state"} \subseteq Evts
    BY <1>a DEF Evts
  <2>4. /\ [closed EXCEPT !.pos = 0].rec = FALSE /\ [closed EXCEPT !.pos = 0].pending = FALSE
        /\ [closed EXCEPT !.pos = 0].trk = x.a.trk
        /\ [closed EXCEPT !.pos = 0].playing = x.a.playing
        /\ [closed EXCEPT !.pos = 0].ramp = x.a.ramp /\ [closed EXCEPT !.pos = 0].dec = x.a.dec
    BY <1>b DEF States
  <2> HIDE DEF f, closed
  <2>5. LET y == CloseRec(x, k) IN
          /\ y \in Trans /\ y.a = [closed EXCEPT !.pos = 0] /\ y.len = x.a.pos /\ y.filled = f
          /\ y.pad = x.pad
    BY <1>a, <1>c, <1>t, <2>1, <2>2, <2>3 DEF Trans
  <2> QED BY <1>2, <1>c, <2>4, <2>5 DEF f
<1>3. CASE x.a.rec /\ x.len > 0 /\ Kept(x, k)
  <2> DEFINE p == [trk |-> x.a.trk, from |-> x.a.pos]
  <2>1. CloseRec(x, k) = [x EXCEPT !.a = closed, !.filled = BitCleared(x), !.pad = p,
                                   !.evt = @ \cup {"state", "pad"}]
    BY <1>3, <1>a, <1>t DEF CloseRec, Trans
  <2>2. p \in Pads /\ x.filled \ {x.a.trk} \subseteq Tracks
        /\ x.evt \cup {"state", "pad"} \subseteq Evts
    BY <1>a, <1>t DEF Evts, Pads, TrkIds
  <2> HIDE DEF p, closed
  <2>5. LET y == CloseRec(x, k) IN
          /\ y \in Trans /\ y.a = closed /\ y.len = x.len /\ y.filled = x.filled \ {x.a.trk}
          /\ y.pad = p
    BY <1>a, <1>b, <1>t, <2>1, <2>2 DEF Trans, BitCleared
  <2>6. (k /\ x.a.pos > 0) /\ x.len # 0
    BY <1>3, <1>t DEF Kept
  <2> QED BY <1>3, <1>b, <2>5, <2>6 DEF p
<1>4. CASE x.a.rec /\ x.len > 0 /\ ~Kept(x, k)
  <2>1. CloseRec(x, k) = [x EXCEPT !.a = closed, !.filled = BitCleared(x), !.evt = @ \cup {"state"}]
    BY <1>4, <1>a, <1>t DEF CloseRec, Trans
  <2>2. x.filled \ {x.a.trk} \subseteq Tracks /\ x.evt \cup {"state"} \subseteq Evts
    BY <1>a, <1>t DEF Evts
  <2> HIDE DEF closed
  <2>5. LET y == CloseRec(x, k) IN
          /\ y \in Trans /\ y.a = closed /\ y.len = x.len /\ y.filled = x.filled \ {x.a.trk}
          /\ y.pad = x.pad
    BY <1>a, <1>b, <1>t, <2>1, <2>2 DEF Trans, BitCleared
  <2>6. ~(k /\ x.a.pos > 0) /\ x.len # 0
    BY <1>4, <1>t DEF Kept
  <2> QED BY <1>4, <1>b, <2>5, <2>6
<1> HIDE DEF closed
<1>5. x.len = 0 \/ x.len > 0
  BY <1>t
<1> QED BY <1>1, <1>2, <1>3, <1>4, <1>5

(* What a stop has come to: at the top, with nothing playing. *)
LEMMA FinishStopResult ==
  \A x \in Trans : LET y == FinishStop(x)
                   IN /\ y \in Trans /\ Rewound(y) /\ SameTake(x, y) /\ SameTrack(x, y)
                      /\ SameSet(x, y)
<1> SUFFICES ASSUME NEW x \in Trans
             PROVE  LET y == FinishStop(x)
                    IN /\ y \in Trans /\ Rewound(y) /\ SameTake(x, y) /\ SameTrack(x, y)
                       /\ SameSet(x, y)
  OBVIOUS
<1> USE DEF Rewound, SameTake, SameTrack, SameSet
<1>1. x.a \in States
  BY DEF Trans
<1>2. /\ [x.a EXCEPT !.ramp = 0, !.playing = FALSE, !.pos = 0] \in States
      /\ [x.a EXCEPT !.ramp = 0, !.playing = FALSE, !.pos = 0].ramp = 0
      /\ [x.a EXCEPT !.ramp = 0, !.playing = FALSE, !.pos = 0].playing = FALSE
      /\ [x.a EXCEPT !.ramp = 0, !.playing = FALSE, !.pos = 0].pos = 0
      /\ [x.a EXCEPT !.ramp = 0, !.playing = FALSE, !.pos = 0].rec = x.a.rec
      /\ [x.a EXCEPT !.ramp = 0, !.playing = FALSE, !.pos = 0].pending = x.a.pending
      /\ [x.a EXCEPT !.ramp = 0, !.playing = FALSE, !.pos = 0].trk = x.a.trk
      /\ [x.a EXCEPT !.ramp = 0, !.playing = FALSE, !.pos = 0].dec = x.a.dec
  BY <1>1, Bits DEF States
<1>3. FinishStop(x) = [x EXCEPT !.a = [x.a EXCEPT !.ramp = 0, !.playing = FALSE, !.pos = 0]]
  BY <1>1 DEF FinishStop, Trans, States
<1> DEFINE s == [x.a EXCEPT !.ramp = 0, !.playing = FALSE, !.pos = 0]
<1> HIDE DEF s
<1>4. FinishStop(x) = [x EXCEPT !.a = s] /\ s \in States
  BY <1>2, <1>3 DEF s
<1>5. LET y == FinishStop(x) IN y \in Trans /\ y.a = s /\ y.len = x.len /\ y.filled = x.filled
                                /\ y.pad = x.pad
  BY <1>4 DEF Trans
<1> QED BY <1>2, <1>5 DEF s

(* The fade: it counts down, and ends as a stop does. *)
LEMMA FadeResult ==
  \A x \in Trans :
    /\ Fade(x) \in Trans
    /\ SameSet(x, Fade(x)) /\ SameTake(x, Fade(x)) /\ SameTrack(x, Fade(x))
    /\ x.a.ramp = 0 => Fade(x) = x
    /\ x.a.ramp > 0 =>
         \/ Rewound(Fade(x))
         \/ /\ Fade(x).a.ramp > 0 /\ Fade(x).a.pos = x.a.pos
            /\ Fade(x).a.playing = x.a.playing /\ x.len > 0
<1> TAKE x \in Trans
<1>1. x.a \in States /\ x.a.ramp \in Fades /\ x.a.ramp \in Nat /\ x.len \in Nat
  BY Numbers DEF Trans, States
<1>2. CASE x.a.ramp = 0
  BY <1>2 DEF Fade, SameSet, SameTake, SameTrack
<1>3. CASE x.a.ramp > 0 /\ (x.a.ramp = 1 \/ x.len = 0)
  <2>1. Fade(x) = FinishStop(x)
    BY <1>1, <1>3 DEF Fade
  <2> QED BY <1>1, <1>3, <2>1, FinishStopResult
<1>4. CASE x.a.ramp > 1 /\ x.len > 0
  <2> DEFINE s == [x.a EXCEPT !.ramp = @ - 1]
  <2>1. Fade(x) = [x EXCEPT !.a = s]
    BY <1>1, <1>4 DEF Fade, Trans, States
  <2>2. x.a.ramp - 1 \in Fades
    BY <1>1, <1>4, Numbers
  <2>3. /\ s \in States /\ s.ramp = x.a.ramp - 1 /\ s.pos = x.a.pos /\ s.playing = x.a.playing
        /\ s.rec = x.a.rec /\ s.pending = x.a.pending /\ s.trk = x.a.trk /\ s.dec = x.a.dec
    BY <1>1, <2>2 DEF States
  <2> HIDE DEF s
  <2>4. Fade(x) \in Trans /\ Fade(x).a = s /\ SameSet(x, Fade(x))
    BY <2>1, <2>3 DEF Trans, SameSet
  <2> QED BY <1>1, <1>4, <2>3, <2>4 DEF SameTake, SameTrack
<1> QED BY <1>1, <1>2, <1>3, <1>4

(* A stop closes the take, fades if anything sounds, and is at the top if not. *)
LEMMA StopResult ==
  \A x \in Trans :
    /\ Stop(x) \in Trans
    /\ Closed(x, Stop(x), TRUE) /\ NoTake(Stop(x)) /\ SameTrack(x, Stop(x))
    /\ \/ Rewound(Stop(x))
       \/ /\ Stop(x).a.ramp = Ramp /\ Stop(x).a.playing = x.a.playing /\ x.a.playing
          /\ Stop(x).len > 0 /\ Stop(x).a.pos = Top(x)
<1> TAKE x \in Trans
<1> DEFINE c == CloseRec(x, TRUE)
<1>1. /\ c \in Trans /\ Closed(x, c, TRUE) /\ NoTake(c) /\ SameTrack(x, c) /\ c.a.pos = Top(x)
      /\ c.a.playing = x.a.playing
  BY CloseRecResult
<1> HIDE DEF c
<1>2. CASE c.a.playing /\ c.len > 0
  <2> DEFINE s == [c.a EXCEPT !.ramp = Ramp]
  <2>1. Stop(x) = [c EXCEPT !.a = s]
    BY <1>1, <1>2 DEF Stop, c, Trans
  <2>2. /\ s \in States /\ s.ramp = Ramp /\ s.pos = c.a.pos /\ s.playing = c.a.playing
        /\ s.rec = c.a.rec /\ s.pending = c.a.pending /\ s.trk = c.a.trk /\ s.dec = c.a.dec
    BY <1>1, Bits DEF States, Trans
  <2> HIDE DEF s
  <2>3. Stop(x) \in Trans /\ Stop(x).a = s /\ SameSet(c, Stop(x))
    BY <1>1, <2>1, <2>2 DEF Trans, SameSet
  <2>4. Closed(x, Stop(x), TRUE)
    BY <1>1, <2>3 DEF SameSet, Closed
  <2> QED BY <1>1, <1>2, <2>2, <2>3, <2>4 DEF SameSet, NoTake, SameTrack
<1>3. CASE ~(c.a.playing /\ c.len > 0)
  <2>1. Stop(x) = FinishStop(c)
    BY <1>3 DEF Stop, c
  <2>2. /\ Stop(x) \in Trans /\ Rewound(Stop(x)) /\ SameTake(c, Stop(x))
        /\ SameTrack(c, Stop(x)) /\ SameSet(c, Stop(x))
    BY <1>1, <2>1, FinishStopResult
  <2>3. Closed(x, Stop(x), TRUE)
    BY <1>1, <2>2 DEF SameSet, Closed
  <2> QED BY <1>1, <2>2, <2>3 DEF NoTake, SameTake, SameTrack
<1> QED BY <1>2, <1>3

(* Playing closes a take, whose start is not kept, and goes on from there. *)
LEMMA PlayResult ==
  \A x \in Trans :
    /\ Play(x) \in Trans
    /\ Closed(x, Play(x), FALSE) /\ NoTake(Play(x)) /\ SameTrack(x, Play(x))
    /\ Play(x).a.ramp = x.a.ramp /\ Play(x).a.playing = TRUE /\ Play(x).a.pos = Top(x)
<1> TAKE x \in Trans
<1> DEFINE c == CloseRec(x, FALSE)
<1>1. /\ c \in Trans /\ Closed(x, c, FALSE) /\ NoTake(c) /\ SameTrack(x, c) /\ c.a.pos = Top(x)
      /\ c.a.ramp = x.a.ramp
  BY CloseRecResult
<1> HIDE DEF c
<1> DEFINE s == [c.a EXCEPT !.playing = TRUE]
<1>2. Play(x) = [c EXCEPT !.a = s]
  BY <1>1 DEF Play, c, Trans
<1>3. /\ s \in States /\ s.ramp = c.a.ramp /\ s.pos = c.a.pos /\ s.playing = TRUE
      /\ s.rec = c.a.rec /\ s.pending = c.a.pending /\ s.trk = c.a.trk /\ s.dec = c.a.dec
  BY <1>1, Bits DEF States, Trans
<1> HIDE DEF s
<1>4. Play(x) \in Trans /\ Play(x).a = s /\ SameSet(c, Play(x))
  BY <1>1, <1>2, <1>3 DEF Trans, SameSet
<1>5. Closed(x, Play(x), FALSE)
  BY <1>1, <1>4 DEF SameSet, Closed
<1> QED BY <1>1, <1>3, <1>4, <1>5 DEF NoTake, SameTrack

(* A take starts at the top of the loop, and waits for it if it must; an      *)
(* open or pending one goes on.                                             *)
FromTop(x) == x.len = 0 \/ (~x.a.playing /\ x.a.pos = 0)
(* A take begins at once or waits for the wrap; one that is open or waits stays. *)
LEMMA RecResult ==
  \A x \in Trans, t \in Tracks :
    /\ Rec(x, t) \in Trans
    /\ SameSet(x, Rec(x, t)) /\ Rec(x, t).a.ramp = x.a.ramp /\ Rec(x, t).a.dec = x.a.dec
    /\ x.a.rec \/ x.a.pending => Rec(x, t) = x
    /\ ~x.a.rec /\ ~x.a.pending =>
         /\ Rec(x, t).a.trk = t /\ Rec(x, t).a.playing = TRUE
         /\ FromTop(x) => /\ Rec(x, t).a.rec = TRUE /\ Rec(x, t).a.pending = FALSE
                          /\ Rec(x, t).a.pos = 0
         /\ ~FromTop(x) => /\ Rec(x, t).a.rec = FALSE /\ Rec(x, t).a.pending = TRUE
                           /\ Rec(x, t).a.pos = x.a.pos
<1> TAKE x \in Trans, t \in Tracks
<1>1. CASE x.a.rec \/ x.a.pending
  BY <1>1 DEF Rec, SameSet
<1>2. CASE ~x.a.rec /\ ~x.a.pending /\ FromTop(x)
  <2> DEFINE s == [x.a EXCEPT !.trk = t, !.playing = TRUE, !.rec = TRUE,
                           !.pending = FALSE, !.pos = 0]
  <2>1. Rec(x, t) = [x EXCEPT !.a = s]
    BY <1>2 DEF Rec, FromTop
  <2>2. /\ s \in States /\ s.ramp = x.a.ramp /\ s.pos = 0 /\ s.playing = TRUE
        /\ s.rec = TRUE /\ s.pending = FALSE /\ s.trk = t /\ s.dec = x.a.dec
    BY Bits DEF States, Trans
  <2> HIDE DEF s
  <2>3. Rec(x, t) \in Trans /\ Rec(x, t).a = s /\ SameSet(x, Rec(x, t))
    BY <2>1, <2>2 DEF Trans, SameSet
  <2> QED BY <1>2, <2>2, <2>3
<1>3. CASE ~x.a.rec /\ ~x.a.pending /\ ~FromTop(x)
  <2> DEFINE q == FromTop(x)
             s == [x.a EXCEPT !.trk = t, !.playing = TRUE, !.rec = q, !.pending = ~q,
                              !.pos = IF q THEN 0 ELSE x.a.pos]
  <2>1. Rec(x, t) = [x EXCEPT !.a = s]
    BY <1>3, Zenon DEF Rec, FromTop
  <2>q. q = FALSE /\ (~q) = TRUE
    BY <1>3
  <2> HIDE DEF q
  <2>2. /\ s \in States /\ s.ramp = x.a.ramp /\ s.pos = x.a.pos /\ s.playing = TRUE
        /\ s.rec = FALSE /\ s.pending = TRUE /\ s.trk = t /\ s.dec = x.a.dec
    BY <2>q, Bits DEF States, Trans
  <2> HIDE DEF s
  <2>3. Rec(x, t) \in Trans /\ Rec(x, t).a = s /\ SameSet(x, Rec(x, t))
    BY <2>1, <2>2 DEF Trans, SameSet
  <2> QED BY <1>3, <2>2, <2>3
<1> QED BY <1>1, <1>2, <1>3

(* Letting go of the set leaves nothing open and nothing playing. *)
LEMMA DetachResult ==
  \A x \in Trans :
    /\ Detach(x) \in Trans
    /\ SameSet(x, Detach(x)) /\ NoTake(Detach(x)) /\ SameTrack(x, Detach(x))
    /\ Detach(x).a.playing = FALSE /\ Detach(x).a.pos = 0 /\ Detach(x).a.ramp = x.a.ramp
<1> TAKE x \in Trans
<1> DEFINE s == [x.a EXCEPT !.rec = FALSE, !.pending = FALSE, !.playing = FALSE, !.pos = 0]
<1>1. Detach(x) = [x EXCEPT !.a = s]
  BY DEF Detach
<1>2. /\ s \in States /\ s.ramp = x.a.ramp /\ s.pos = 0 /\ s.playing = FALSE
      /\ s.rec = FALSE /\ s.pending = FALSE /\ s.trk = x.a.trk /\ s.dec = x.a.dec
  BY Bits DEF States, Trans
<1> HIDE DEF s
<1>3. Detach(x) \in Trans /\ Detach(x).a = s /\ SameSet(x, Detach(x))
  BY <1>1, <1>2 DEF Trans, SameSet
<1> QED BY <1>2, <1>3 DEF NoTake, SameTrack

(* What the block's exchange stores is what the transport has become; the     *)
(* decoders are reset at the top.                                           *)
LEMMA Becomes ==
  ASSUME NEW x \in Trans, Become(x)
  PROVE  /\ a' \in States /\ s_loop_frames' \in Units /\ s_filled' \subseteq Tracks
         /\ s_pad' \in Pads /\ s_evt' \subseteq Evts
         /\ a'.pos = x.a.pos /\ a'.rec = x.a.rec /\ a'.pending = x.a.pending
         /\ a'.trk = x.a.trk /\ a'.playing = x.a.playing /\ a'.ramp = x.a.ramp
         /\ a'.dec = IF x.a.pos = 0 THEN Tracks ELSE x.a.dec
         /\ s_loop_frames' = x.len /\ s_filled' = x.filled /\ s_pad' = x.pad
<1>1. x.a \in States /\ x.a.dec \in SUBSET Tracks
  BY DEF Trans, States
<1> DEFINE d == IF x.a.pos = 0 THEN Tracks ELSE x.a.dec
<1>2. d \in SUBSET Tracks
  BY <1>1
<1>3. a' = [x.a EXCEPT !.dec = d]
  BY <1>1 DEF Become, States
<1>4. d = IF x.a.pos = 0 THEN Tracks ELSE x.a.dec
  OBVIOUS
<1> HIDE DEF d
<1>5. /\ a' \in States /\ a'.dec = d
      /\ a'.pos = x.a.pos /\ a'.rec = x.a.rec /\ a'.pending = x.a.pending
      /\ a'.trk = x.a.trk /\ a'.playing = x.a.playing /\ a'.ramp = x.a.ramp
  BY <1>1, <1>2, <1>3 DEF States
<1>6. /\ s_loop_frames' \in Units /\ s_filled' \subseteq Tracks
      /\ s_pad' \in Pads /\ s_evt' \subseteq Evts
      /\ s_loop_frames' = x.len /\ s_filled' = x.filled /\ s_pad' = x.pad
  BY DEF Become, Trans
<1> QED BY <1>4, <1>5, <1>6

(* The transport an exchange leaves, command by command. *)
Goes(x, c, y) ==
  /\ c[1] = "none" =>
       /\ SameSet(x, y) /\ SameTake(x, y) /\ SameTrack(x, y)
       /\ x.a.ramp = 0 => y = x
       /\ x.a.ramp > 0 => \/ Rewound(y)
                          \/ /\ y.a.ramp > 0 /\ y.a.pos = x.a.pos
                             /\ y.a.playing = x.a.playing /\ x.len > 0
  /\ c[1] = "stop" =>
       /\ Closed(x, y, TRUE) /\ NoTake(y) /\ SameTrack(x, y)
       /\ \/ Rewound(y)
          \/ /\ x.a.ramp = 0 /\ x.a.playing /\ y.a.ramp > 0 /\ y.a.playing = TRUE
             /\ y.len > 0 /\ y.a.pos = Top(x)
  /\ c[1] = "play" =>
       /\ Closed(x, y, FALSE) /\ NoTake(y) /\ SameTrack(x, y)
       /\ y.a.ramp = 0 /\ y.a.playing = TRUE
       /\ y.a.pos = IF x.a.ramp > 0 THEN 0 ELSE Top(x)
  /\ c[1] = "rec" =>
       /\ SameSet(x, y) /\ y.a.ramp = 0 /\ y.a.dec = x.a.dec
       /\ x.a.rec \/ x.a.pending => y = x
       /\ ~x.a.rec /\ ~x.a.pending =>
            /\ y.a.trk = c[2] /\ y.a.playing = TRUE
            /\ x.a.ramp > 0 \/ FromTop(x) =>
                 y.a.rec = TRUE /\ y.a.pending = FALSE /\ y.a.pos = 0
            /\ ~(x.a.ramp > 0 \/ FromTop(x)) =>
                 y.a.rec = FALSE /\ y.a.pending = TRUE /\ y.a.pos = x.a.pos
  /\ c[1] = "detach" =>
       /\ SameSet(x, y) /\ NoTake(y) /\ SameTrack(x, y) /\ Rewound(y)

(* The block's exchange is the command's, and a fade goes on or comes to its end. *)
LEMMA ObeyResult ==
  ASSUME NEW x \in Trans, NEW c,
         c[1] \in {"none", "stop", "play", "rec", "detach"}, c[1] = "rec" => c[2] \in Tracks,
         x.a.ramp > 0 => ~x.a.rec /\ ~x.a.pending /\ x.a.playing,
         x.a.playing \in BOOLEAN
  PROVE  Fade(Obey(x, c)) \in Trans /\ Goes(x, c, Fade(Obey(x, c)))
<1> DEFINE z == IF x.a.ramp > 0 THEN FinishStop(x) ELSE x
<1>1. /\ z \in Trans /\ z.a.ramp = 0 /\ SameSet(x, z) /\ SameTake(x, z) /\ SameTrack(x, z)
      /\ x.a.ramp = 0 => z = x
      /\ x.a.ramp > 0 => Rewound(z)
  <2>1. x.a.ramp \in Nat
    BY Numbers DEF Trans, States
  <2>2. CASE x.a.ramp > 0
    BY <2>1, <2>2, FinishStopResult DEF Rewound
  <2>3. CASE ~(x.a.ramp > 0)
    BY <2>1, <2>3 DEF SameSet, SameTake, SameTrack
  <2> QED BY <2>2, <2>3
<1>2. /\ c[1] = "none"   => Obey(x, c) = x
      /\ c[1] = "stop"   => Obey(x, c) = Stop(z)
      /\ c[1] = "play"   => Obey(x, c) = Play(z)
      /\ c[1] = "rec"    => Obey(x, c) = Rec(z, c[2])
      /\ c[1] = "detach" => Obey(x, c) = Detach(z)
  BY DEF Obey
<1> HIDE DEF z
<1>3. x.a.ramp = 0 \/ x.a.ramp > 0
  BY Numbers DEF Trans, States
<1>4. CASE c[1] = "none"
  BY <1>2, <1>4, FadeResult DEF Goes
<1>5. CASE c[1] = "stop"
  <2> DEFINE s == Stop(z)
  <2>1. /\ s \in Trans /\ Closed(z, s, TRUE) /\ NoTake(s) /\ SameTrack(z, s)
        /\ \/ Rewound(s)
           \/ /\ s.a.ramp = Ramp /\ s.a.playing = z.a.playing /\ z.a.playing
              /\ s.len > 0 /\ s.a.pos = Top(z)
    BY <1>1, StopResult
  <2> HIDE DEF s
  <2> DEFINE f == Fade(s)
  <2>2. /\ f \in Trans /\ SameSet(s, f) /\ SameTake(s, f) /\ SameTrack(s, f)
        /\ s.a.ramp = 0 => f = s
        /\ s.a.ramp > 0 =>
             \/ Rewound(f)
             \/ /\ f.a.ramp > 0 /\ f.a.pos = s.a.pos
                /\ f.a.playing = s.a.playing /\ s.len > 0
    BY <2>1, FadeResult
  <2>3. Fade(Obey(x, c)) = f
    BY <1>2, <1>5 DEF s
  <2> HIDE DEF f
  <2>4. Closed(x, f, TRUE)
    <3>1. CASE x.a.ramp = 0
      BY <1>1, <2>1, <2>2, <3>1 DEF Closed, SameSet
    <3>2. CASE x.a.ramp > 0
      BY <1>1, <2>1, <2>2, <3>2, Zenon DEF Closed, SameSet, SameTake
    <3> QED BY <1>3, <3>1, <3>2
  <2>5. NoTake(f) /\ SameTrack(x, f)
    BY <1>1, <2>1, <2>2 DEF NoTake, SameTake, SameTrack
  <2>6. CASE Rewound(s)
    BY <1>5, <2>2, <2>3, <2>4, <2>5, <2>6 DEF Goes, Rewound
  <2>7. CASE /\ s.a.ramp = Ramp /\ s.a.playing = z.a.playing /\ z.a.playing
             /\ s.len > 0 /\ s.a.pos = Top(z)
    <3>1. x.a.ramp = 0 /\ z = x
      BY <1>1, <1>3, <2>7 DEF Rewound
    <3>2. Ramp > 0
      OBVIOUS
    <3>3. \/ Rewound(f)
          \/ /\ f.a.ramp > 0 /\ f.a.pos = Top(x) /\ f.a.playing = TRUE /\ f.len > 0
      BY <2>2, <2>7, <3>1, <3>2 DEF SameSet
    <3> QED BY <1>5, <2>2, <2>3, <2>4, <2>5, <2>7, <3>1, <3>3 DEF Goes
  <2> QED BY <2>1, <2>6, <2>7
<1>6. CASE c[1] = "play"
  <2> DEFINE s == Play(z)
  <2>1. /\ s \in Trans /\ Closed(z, s, FALSE) /\ NoTake(s) /\ SameTrack(z, s)
        /\ s.a.ramp = 0 /\ s.a.playing = TRUE /\ s.a.pos = Top(z)
    BY <1>1, PlayResult
  <2>2. Fade(Obey(x, c)) = s
    BY <1>2, <1>6, <2>1, FadeResult
  <2> HIDE DEF s
  <2>3. Closed(x, s, FALSE) /\ SameTrack(x, s)
    <3>1. CASE x.a.ramp = 0
      BY <1>1, <2>1, <3>1 DEF SameTrack
    <3>2. CASE x.a.ramp > 0
      BY <1>1, <2>1, <3>2, Zenon DEF Closed, SameSet, SameTake, SameTrack
    <3> QED BY <1>3, <3>1, <3>2
  <2>4. s.a.pos = IF x.a.ramp > 0 THEN 0 ELSE Top(x)
    BY <1>1, <1>3, <2>1 DEF Top, Rewound
  <2> QED BY <1>6, <2>1, <2>2, <2>3, <2>4 DEF Goes
<1>7. CASE c[1] = "rec"
  <2> DEFINE s == Rec(z, c[2])
  <2>1. /\ s \in Trans /\ SameSet(z, s) /\ s.a.ramp = z.a.ramp /\ s.a.dec = z.a.dec
        /\ z.a.rec \/ z.a.pending => s = z
        /\ ~z.a.rec /\ ~z.a.pending =>
             /\ s.a.trk = c[2] /\ s.a.playing = TRUE
             /\ FromTop(z) => s.a.rec = TRUE /\ s.a.pending = FALSE /\ s.a.pos = 0
             /\ ~FromTop(z) => s.a.rec = FALSE /\ s.a.pending = TRUE /\ s.a.pos = z.a.pos
    BY <1>1, <1>7, RecResult
  <2>2. Fade(Obey(x, c)) = s
    BY <1>1, <1>2, <1>7, <2>1, FadeResult
  <2> HIDE DEF s
  <2>3. SameSet(x, s) /\ s.a.ramp = 0 /\ s.a.dec = x.a.dec
    BY <1>1, <2>1 DEF SameSet, SameTrack
  <2>4. CASE x.a.rec \/ x.a.pending
    BY <1>1, <1>3, <1>7, <2>1, <2>2, <2>3, <2>4 DEF Goes, SameTake
  <2>5. CASE ~x.a.rec /\ ~x.a.pending /\ x.a.ramp > 0
    <3>1. FromTop(z) /\ ~z.a.rec /\ ~z.a.pending
      BY <1>1, <2>5 DEF FromTop, Rewound, SameTake
    <3> QED BY <1>7, <2>1, <2>2, <2>3, <2>5, <3>1 DEF Goes
  <2>6. CASE ~x.a.rec /\ ~x.a.pending /\ x.a.ramp = 0
    BY <1>1, <1>7, <2>1, <2>2, <2>3, <2>6 DEF Goes
  <2> QED BY <1>3, <2>4, <2>5, <2>6
<1>8. CASE c[1] = "detach"
  <2> DEFINE s == Detach(z)
  <2>1. /\ s \in Trans /\ SameSet(z, s) /\ NoTake(s) /\ SameTrack(z, s)
        /\ s.a.playing = FALSE /\ s.a.pos = 0 /\ s.a.ramp = z.a.ramp
    BY <1>1, DetachResult
  <2>2. Fade(Obey(x, c)) = s
    BY <1>1, <1>2, <1>8, <2>1, FadeResult
  <2> HIDE DEF s
  <2>3. SameSet(x, s) /\ SameTrack(x, s) /\ Rewound(s)
    BY <1>1, <2>1 DEF SameSet, SameTrack, Rewound
  <2> QED BY <1>8, <2>1, <2>2, <2>3 DEF Goes
<1> QED BY <1>4, <1>5, <1>6, <1>7, <1>8

(* A block begins: the command is taken, the transport goes where it says,    *)
(* and the block renders unless there is nothing to.                        *)
After == Fade(Obey(Transport, s_cmd))
(* What BlockBegin does is what the exchange says. *)
LEMMA Begins ==
  ASSUME Shape, Moving, BlockBegin
  PROVE  /\ block.step = "idle" /\ s_cmd' = <<"none">>
         /\ Goes(Transport, s_cmd, After) /\ After \in Trans /\ Become(After)
         /\ IF ~a'.playing \/ (s_loop_frames' = 0 /\ ~a'.rec)
            THEN Counted /\ UNCHANGED block
            ELSE /\ block' = [Idle EXCEPT !.step = "load", !.len = s_loop_frames']
                 /\ UNCHANGED boundaries
<1>1. Transport \in Trans /\ Transport.a = a
  BY TransportType
<1>2. /\ s_cmd[1] \in {"none", "stop", "play", "rec", "detach"}
      /\ s_cmd[1] = "rec" => s_cmd[2] \in Tracks
  BY DEF Shape, CmdShape
<1>3. a.playing \in BOOLEAN
  BY DEF Shape, BlockShape, States, Bit
<1>4. a.ramp > 0 => ~a.rec /\ ~a.pending /\ a.playing
  BY DEF Moving
<1>5. After \in Trans /\ Goes(Transport, s_cmd, After)
  BY <1>1, <1>2, <1>3, <1>4, ObeyResult DEF After
<1>6. /\ block.step = "idle" /\ s_cmd' = <<"none">> /\ Become(After)
      /\ IF ~After.a.playing \/ (After.len = 0 /\ ~After.a.rec)
         THEN Counted /\ UNCHANGED block
         ELSE /\ block' = [Idle EXCEPT !.step = "load", !.len = After.len]
              /\ UNCHANGED boundaries
  BY Zenon DEF BlockBegin, After
<1> HIDE DEF After
<1>7. a'.playing = After.a.playing /\ a'.rec = After.a.rec /\ s_loop_frames' = After.len
  BY <1>5, <1>6, Becomes
<1> QED BY <1>5, <1>6, <1>7

(* A block ends a segment: the transport moves on by one, and at the end of   *)
(* the pass or of the first take it wraps.                                  *)
Ends == a.pos + 1 >= Limit(block.len)
(* What Advance does to the transport, the set and the block, by where the pass is. *)
LEMMA Advances ==
  ASSUME Shape, Advance
  PROVE  /\ block.step = "use"
         /\ a' \in States /\ s_loop_frames' \in Units /\ s_filled' \subseteq Tracks
         /\ s_pad' = s_pad /\ s_evt' \subseteq Evts
         /\ a'.trk = a.trk /\ a'.playing = a.playing /\ a'.ramp = a.ramp
         /\ ~Ends => /\ a'.pos = a.pos + 1 /\ a'.rec = a.rec /\ a'.pending = a.pending
                     /\ s_loop_frames' = s_loop_frames /\ s_filled' = s_filled
                     /\ a'.dec = a.dec \cap block.mix
         /\ Ends => a'.pos = 0 /\ a'.dec = Tracks
         /\ Ends /\ block.len > 0 =>
              /\ a'.rec = a.pending /\ a'.pending = FALSE /\ s_loop_frames' = s_loop_frames
              /\ s_filled' = IF a.rec THEN s_filled \cup {a.trk} ELSE s_filled
         /\ Ends /\ block.len = 0 =>
              /\ a'.rec = FALSE /\ a'.pending = a.pending /\ s_loop_frames' = s_rec_limit
              /\ s_filled' = s_filled \cup {a.trk}
         /\ \/ block' = Idle /\ Counted
            \/ /\ Ends
               /\ block' = [Idle EXCEPT !.step = "load", !.again = TRUE,
                              !.len = IF block.len > 0 THEN block.len ELSE s_loop_frames']
               /\ UNCHANGED boundaries
<1> DEFINE p == a.pos + 1
           d == a.dec \cap block.mix
           r == [a EXCEPT !.pos = p, !.dec = d]
           moved == [Transport EXCEPT !.a = r]
           x == IF Ends THEN Wrap(moved, block.len) ELSE moved
<1>1. /\ block.step = "use" /\ Become(x)
      /\ \/ block' = Idle /\ Counted
         \/ /\ Ends
            /\ block' = [Idle EXCEPT !.step = "load", !.again = TRUE,
                           !.len = IF block.len > 0 THEN block.len ELSE x.len]
            /\ UNCHANGED boundaries
  BY Zenon DEF Advance, Ends
<1>2. /\ a \in States /\ a.pos \in Nat /\ a.pos < Cap /\ d \in SUBSET Tracks /\ a.trk \in Tracks
      /\ block.len \in Nat /\ block.len <= Cap /\ s_rec_limit \in 1 .. Cap
      /\ s_rec_limit \in Units
  <2>1. s_rec_limit \in 1 .. Cap /\ s_rec_limit \in Units
    BY DEF Shape, CtlShape, Units
  <2> QED BY <2>1, Numbers DEF Shape, BlockShape, States, Steps
<1>3. Transport \in Trans /\ Transport.a = a /\ Transport.len = s_loop_frames
      /\ Transport.filled = s_filled /\ Transport.pad = s_pad /\ Transport.evt = s_evt
  BY TransportType
<1>4. /\ r.pos = p /\ r.dec = d /\ r.rec = a.rec /\ r.pending = a.pending /\ r.trk = a.trk
      /\ r.playing = a.playing /\ r.ramp = a.ramp
      /\ r \in [pos : Nat, rec : Bit, pending : Bit, trk : Tracks, playing : Bit, ramp : Fades,
                dec : SUBSET Tracks]
  <2>1. a \in States /\ p \in Nat /\ d \in SUBSET Tracks
    BY <1>2
  <2> HIDE DEF p, d
  <2> QED BY <2>1 DEF States
<1>8. moved = [a |-> r, len |-> s_loop_frames, filled |-> s_filled, pad |-> s_pad, evt |-> s_evt]
  <2> HIDE DEF r
  <2> QED BY DEF Transport
<1>5. CASE ~Ends
  <2>1. p \in Spots
    BY <1>2, <1>5 DEF Ends, Limit, Spots
  <2>2. r \in States
    BY <1>2, <1>4, <2>1 DEF States
  <2> HIDE DEF r
  <2>3. moved \in Trans /\ moved.a = r /\ moved.len = s_loop_frames /\ moved.filled = s_filled
        /\ moved.pad = s_pad /\ p # 0
    <3> HIDE DEF moved
    <3> QED BY <1>2, <1>3, <1>8, <2>2 DEF Trans
  <2>4. x = moved
    BY <1>5
  <2> HIDE DEF moved, x
  <2> QED BY <1>1, <1>4, <1>5, <2>3, <2>4, Becomes
<1>6. CASE Ends /\ block.len > 0
  <2> DEFINE q == [r EXCEPT !.pos = 0, !.rec = a.pending, !.pending = FALSE]
             f == IF a.rec THEN s_filled \cup {a.trk} ELSE s_filled
             e == IF a.rec THEN s_evt \cup {"state", "autoplay"} ELSE s_evt
  <2>1. x = [a |-> q, len |-> s_loop_frames, filled |-> f, pad |-> s_pad, evt |-> e]
    <3>1. x = Wrap(moved, block.len)
      BY <1>6
    <3>2. x = [moved EXCEPT !.a = [moved.a EXCEPT !.pos = 0, !.rec = moved.a.pending,
                                                     !.pending = FALSE],
                        !.filled = IF moved.a.rec THEN moved.filled \cup {moved.a.trk}
                                                  ELSE moved.filled,
                        !.evt = PunchDone(moved)]
      <4> HIDE DEF moved, x
      <4> QED BY <1>6, <1>8, <3>1 DEF Wrap
    <3>3. moved.a = r /\ moved.filled = s_filled /\ moved.evt = s_evt
      <4> HIDE DEF moved, r
      <4> QED BY <1>8
    <3>4. PunchDone(moved) = e
      <4> HIDE DEF moved, r
      <4> QED BY <1>4, <3>3 DEF PunchDone
    <3> HIDE DEF moved, x, r, e
    <3> QED BY <1>4, <1>8, <3>2, <3>3, <3>4
  <2>2. /\ q \in States /\ q.pos = 0 /\ q.rec = a.pending /\ q.pending = FALSE /\ q.trk = a.trk
        /\ q.playing = a.playing /\ q.ramp = a.ramp
    BY <1>2, <1>4, Bits DEF States
  <2>3. f \subseteq Tracks /\ e \subseteq Evts
    BY <1>2, <1>3 DEF Evts, Trans
  <2> HIDE DEF q, e, r
  <2>4. x \in Trans /\ x.a = q /\ x.len = s_loop_frames /\ x.filled = f /\ x.pad = s_pad
    <3> HIDE DEF x, f
    <3> QED BY <1>3, <2>1, <2>2, <2>3 DEF Trans
  <2> HIDE DEF x, f
  <2>5. f = IF a.rec THEN s_filled \cup {a.trk} ELSE s_filled
    BY DEF f
  <2>6. block.len # 0
    BY <1>6
  <2>7. /\ a' \in States /\ s_loop_frames' \in Units /\ s_filled' \subseteq Tracks
        /\ s_pad' = s_pad /\ s_evt' \subseteq Evts
        /\ a'.pos = 0 /\ a'.rec = a.pending /\ a'.pending = FALSE
        /\ a'.trk = a.trk /\ a'.playing = a.playing /\ a'.ramp = a.ramp
        /\ a'.dec = Tracks /\ s_loop_frames' = s_loop_frames /\ s_filled' = f
    BY <1>1, <2>2, <2>4, Becomes
  <2> QED BY <1>1, <1>6, <2>4, <2>5, <2>6, <2>7
<1>7. CASE Ends /\ block.len = 0
  <2> DEFINE q == [r EXCEPT !.pos = 0, !.rec = FALSE]
             e == s_evt \cup {"state", "autoplay"}
  <2>1. x = [a |-> q, len |-> s_rec_limit, filled |-> s_filled \cup {a.trk}, pad |-> s_pad,
             evt |-> e]
    <3>1. x = Wrap(moved, block.len)
      BY <1>7
    <3>2. x = [moved EXCEPT !.a = [moved.a EXCEPT !.pos = 0, !.rec = FALSE], !.len = s_rec_limit,
                        !.filled = moved.filled \cup {moved.a.trk},
                        !.evt = moved.evt \cup {"state", "autoplay"}]
      <4> HIDE DEF moved, x
      <4> QED BY <1>7, <1>8, <3>1 DEF Wrap
    <3>3. moved.a = r /\ moved.filled = s_filled /\ moved.evt = s_evt
      <4> HIDE DEF moved, r
      <4> QED BY <1>8
    <3> HIDE DEF moved, x, r
    <3> QED BY <1>4, <1>8, <3>2, <3>3
  <2>2. /\ q \in States /\ q.pos = 0 /\ q.rec = FALSE /\ q.pending = a.pending /\ q.trk = a.trk
        /\ q.playing = a.playing /\ q.ramp = a.ramp
    BY <1>2, <1>4, Bits DEF States
  <2>3. s_filled \cup {a.trk} \subseteq Tracks /\ e \subseteq Evts
    BY <1>2, <1>3 DEF Evts, Trans
  <2> HIDE DEF q, e, r
  <2>4. /\ x \in Trans /\ x.a = q /\ x.len = s_rec_limit /\ x.filled = s_filled \cup {a.trk}
        /\ x.pad = s_pad
    <3> HIDE DEF x
    <3> QED BY <1>2, <1>3, <2>1, <2>2, <2>3 DEF Trans
  <2> HIDE DEF x
  <2>5. ~(block.len > 0)
    BY <1>7
  <2> QED BY <1>1, <1>7, <2>2, <2>4, <2>5, Becomes
<1>9. block.len > 0 \/ block.len = 0
  BY <1>2
<1> HIDE DEF moved, x, r, p
<1> QED BY <1>5, <1>6, <1>7, <1>9

-----------------------------------------------------------------------------
(* Lemmas about loop_ctl's memory. *)

Got(t, size, b) ==
  /\ b \in Bufs \ live
  /\ mem' = [mem EXCEPT ![b] = TookFrom(size, 0)] /\ live' = live \cup {b}
  /\ s_buf' = [s_buf EXCEPT ![t] = b]

TakeSize(size) == size \in 1 .. Cap /\ (s_loop_frames > 0 => size = s_loop_frames)

(* The three ends of ctl_alloc() for a take: commanded, waiting for the       *)
(* outgrown buffer, refused.                                                *)
TakeNow(t, armed, flag) ==
  /\ Commanded(t, armed) /\ Handled(flag) /\ UNCHANGED <<job, boundaries>>
  /\ \E size \in 1 .. Cap :
       /\ TakeSize(size) /\ s_rec_limit' = IF s_loop_frames = 0 THEN size ELSE s_rec_limit
       /\ \/ Fits(t, size) /\ UNCHANGED <<s_buf, heap>>
          \/ s_buf[t] = NoBuf /\ \E b \in Bufs : Got(t, size, b)
  /\ overtaken' = (overtaken \/ s_pad # NoPad \/ (a.rec /\ s_rec_limit' # s_rec_limit))

TakeGrows(t, armed, flag) ==
  /\ s_buf[t] # NoBuf
  /\ \E size \in 1 .. Cap, b \in Bufs :
       /\ TakeSize(size) /\ Got(t, size, b) /\ ~Fits(t, size)
       /\ overtaken' = (overtaken \/ s_pad # NoPad \/ a.rec \/ Outruns(size))
       /\ job' = [NoJob EXCEPT !.trk = t, !.buf = s_buf[t], !.armed = armed,
                    !.limit = IF s_loop_frames = 0 THEN size ELSE s_rec_limit]
  /\ boundaries' = 0 /\ pc' = "grow" /\ todo' = todo \ {flag}
  /\ UNCHANGED <<loop_mode, s_ctl_mode, s_cmd, s_rec_limit>>

TakeRefused(armed, flag) ==
  /\ s_ctl_mode' = IF armed THEN s_arm_prev_mode ELSE s_ctl_mode
  /\ loop_mode' = s_ctl_mode'
  /\ Handled(flag)
  /\ UNCHANGED <<s_cmd, s_buf, s_rec_limit, heap, job, boundaries, overtaken>>

Moved(t, size) == MovesOn(\/ a.rec /\ TakeLimit(size) # s_rec_limit
                          \/ (a.rec \/ Outruns(size)) /\ s_buf[t] # NoBuf /\ ~Fits(t, size))

(* ctl_start_rec() commands a take, or first waits to free the buffer it outgrew, *)
(* or refuses. *)
LEMMA StartRecResult ==
  ASSUME Shape, NEW t \in Tracks, NEW armed \in BOOLEAN, NEW flag, StartRec(t, armed, flag)
  PROVE  \/ TakeNow(t, armed, flag) \/ TakeGrows(t, armed, flag) \/ TakeRefused(armed, flag)
<1>1. s_loop_frames \in Units /\ s_buf \in [Tracks -> live \cup {NoBuf}]
  BY DEF Shape, TypeOK, Units
<1>2. \A size \in Sizes : TakeSize(size) /\ size \in 1 .. Cap
  BY <1>1, Numbers DEF Sizes, TakeSize
<1>3. \A size : \A b \in Malloc(size) : b \in Bufs \ live
  BY DEF Malloc
<1>4. CASE \E size \in Sizes :
            /\ Moved(t, size)
            /\ Fits(t, size) /\ Limited(size) /\ Commanded(t, armed) /\ Handled(flag)
            /\ UNCHANGED <<s_buf, heap, job, boundaries>>
  <2>1. PICK size \in Sizes :
            /\ Moved(t, size)
            /\ Fits(t, size) /\ Limited(size) /\ Commanded(t, armed) /\ Handled(flag)
            /\ UNCHANGED <<s_buf, heap, job, boundaries>>
    BY <1>4
  <2>2. s_rec_limit' = TakeLimit(size)
        /\ TakeLimit(size) = IF s_loop_frames = 0 THEN size ELSE s_rec_limit
    BY <2>1 DEF Limited, TakeLimit
  <2>3. overtaken' = (overtaken \/ s_pad # NoPad \/ (a.rec /\ s_rec_limit' # s_rec_limit))
    <3>1. Fits(t, size) \/ s_buf[t] = NoBuf
      BY <2>1
    <3> QED BY <2>1, <2>2, <3>1 DEF Moved, MovesOn
  <2>4. \E n \in 1 .. Cap :
          /\ TakeSize(n) /\ s_rec_limit' = IF s_loop_frames = 0 THEN n ELSE s_rec_limit
          /\ \/ Fits(t, n) /\ UNCHANGED <<s_buf, heap>>
             \/ s_buf[t] = NoBuf /\ \E b \in Bufs : Got(t, n, b)
    BY <1>2, <2>1, <2>2
  <2> QED BY <2>1, <2>3, <2>4 DEF TakeNow
<1>5. CASE \E size \in Sizes :
            /\ Moved(t, size)
            /\ ~Fits(t, size) /\ Allocates(t, size) /\ s_buf[t] = NoBuf
            /\ Limited(size) /\ Commanded(t, armed) /\ Handled(flag)
            /\ UNCHANGED <<job, boundaries>>
  <2>1. PICK size \in Sizes :
            /\ Moved(t, size)
            /\ ~Fits(t, size) /\ Allocates(t, size) /\ s_buf[t] = NoBuf
            /\ Limited(size) /\ Commanded(t, armed) /\ Handled(flag)
            /\ UNCHANGED <<job, boundaries>>
    BY <1>5
  <2>2. s_rec_limit' = TakeLimit(size)
        /\ TakeLimit(size) = IF s_loop_frames = 0 THEN size ELSE s_rec_limit
    BY <2>1 DEF Limited, TakeLimit
  <2>3. overtaken' = (overtaken \/ s_pad # NoPad \/ (a.rec /\ s_rec_limit' # s_rec_limit))
    <3>1. Fits(t, size) \/ s_buf[t] = NoBuf
      BY <2>1
    <3> QED BY <2>1, <2>2, <3>1 DEF Moved, MovesOn
  <2>4. \E b \in Bufs : Got(t, size, b)
    BY <1>3, <2>1 DEF Allocates, Got
  <2>5. \E n \in 1 .. Cap :
          /\ TakeSize(n) /\ s_rec_limit' = IF s_loop_frames = 0 THEN n ELSE s_rec_limit
          /\ \/ Fits(t, n) /\ UNCHANGED <<s_buf, heap>>
             \/ s_buf[t] = NoBuf /\ \E b \in Bufs : Got(t, n, b)
    BY <1>2, <2>1, <2>2, <2>4
  <2> QED BY <2>1, <2>3, <2>5 DEF TakeNow
<1>6. CASE \E size \in Sizes :
            /\ Moved(t, size)
            /\ ~Fits(t, size) /\ Allocates(t, size) /\ s_buf[t] # NoBuf
            /\ job' = [NoJob EXCEPT !.trk = t, !.buf = s_buf[t], !.armed = armed,
                                    !.limit = TakeLimit(size)]
            /\ boundaries' = 0 /\ pc' = "grow" /\ todo' = todo \ {flag}
            /\ UNCHANGED <<loop_mode, s_ctl_mode, s_cmd, s_rec_limit>>
  <2>1. PICK size \in Sizes :
            /\ Moved(t, size)
            /\ ~Fits(t, size) /\ Allocates(t, size) /\ s_buf[t] # NoBuf
            /\ job' = [NoJob EXCEPT !.trk = t, !.buf = s_buf[t], !.armed = armed,
                                    !.limit = TakeLimit(size)]
            /\ boundaries' = 0 /\ pc' = "grow" /\ todo' = todo \ {flag}
            /\ UNCHANGED <<loop_mode, s_ctl_mode, s_cmd, s_rec_limit>>
    BY <1>6
  <2>2. overtaken' = (overtaken \/ s_pad # NoPad \/ a.rec \/ Outruns(size))
    BY <2>1, Zenon DEF Moved, MovesOn
  <2>3. \E b \in Bufs : Got(t, size, b)
    BY <1>3, <2>1 DEF Allocates, Got
  <2>4. PICK b \in Bufs : Got(t, size, b)
    BY <2>3
  <2>5. \E n \in 1 .. Cap, c \in Bufs :
          /\ TakeSize(n) /\ Got(t, n, c) /\ ~Fits(t, n)
          /\ overtaken' = (overtaken \/ s_pad # NoPad \/ a.rec \/ Outruns(n))
          /\ job' = [NoJob EXCEPT !.trk = t, !.buf = s_buf[t], !.armed = armed,
                       !.limit = IF s_loop_frames = 0 THEN n ELSE s_rec_limit]
    BY <1>2, <2>1, <2>2, <2>4 DEF TakeLimit
  <2> QED BY <2>1, <2>5 DEF TakeGrows
<1>7. CASE /\ s_ctl_mode' = IF armed THEN s_arm_prev_mode ELSE s_ctl_mode
           /\ loop_mode' = s_ctl_mode'
           /\ Handled(flag)
           /\ UNCHANGED <<s_cmd, s_buf, s_rec_limit, heap, job, boundaries, overtaken>>
  BY <1>7 DEF TakeRefused
<1> QED BY <1>4, <1>5, <1>6, <1>7, Zenon DEF StartRec, Moved

(* A handshake: two boundaries, or one more that was given up. *)
LEMMA AwaitResult ==
  ASSUME lates \in Nat, NEW settled \in BOOLEAN, Await(settled)
  PROVE  /\ lates' \in Nat /\ lates' >= lates
         /\ settled => boundaries = 2 /\ lates' = lates
         /\ ~settled => lates' = lates + 1
BY DEF Await, Settled, TimedOut

(* What a handshake given up leaks stays as it is. *)
LEMMA FreedResult ==
  ASSUME Shape, NEW bufs, NEW settled \in BOOLEAN, Freed(bufs, settled)
  PROVE  /\ live' \subseteq Bufs
         /\ mem' \in [Bufs -> [size : 0 .. Cap, take : 0 .. Cap]]
         /\ settled => /\ live' = live \ bufs
                       /\ \A b \in Bufs : mem'[b] = IF b \in bufs THEN Free ELSE mem[b]
         /\ ~settled => live' = live /\ mem' = mem
<1>1. live \subseteq Bufs /\ mem \in [Bufs -> [size : 0 .. Cap, take : 0 .. Cap]]
  BY DEF Shape, TypeOK
<1>2. Free \in [size : 0 .. Cap, take : 0 .. Cap]
  BY DEF Free
<1>3. CASE settled
  BY <1>1, <1>2, <1>3 DEF Freed
<1>4. CASE ~settled
  BY <1>1, <1>4 DEF Freed, heap
<1> QED BY <1>3, <1>4

(* A set to load is put in buffers that are free, a track in each. *)
Loaded(len, loaded, at) ==
  /\ at \in [loaded -> Bufs \ live]
  /\ \A t, u \in loaded : t # u => at[t] # at[u]
  /\ s_buf' = [t \in Tracks |-> IF t \in loaded THEN at[t] ELSE NoBuf]
  /\ mem' = [b \in Bufs |-> IF b \in {at[t] : t \in loaded} THEN TookFrom(len, len) ELSE mem[b]]
  /\ live' = live \cup {at[t] : t \in loaded}
  /\ s_filled' = loaded
  /\ s_loop_frames' = IF loaded = {} THEN 0 ELSE len

(* LoadFill loads some tracks, each in a buffer nobody has. *)
LEMMA LoadFillResult ==
  ASSUME Shape, LoadFill
  PROVE  \E len \in 1 .. Cap, loaded \in SUBSET Tracks :
           \E at \in [loaded -> Bufs \ live] : Loaded(len, loaded, at)
<1> DEFINE Inj(f, S) == \A t, u \in S : t # u => f[t] # f[u]
           Put(S) == CHOOSE f \in [S -> Bufs \ live] : Inj(f, S)
<1>1. PICK len \in 1 .. Cap, loaded \in SUBSET Tracks :
        /\ Cardinality(loaded) <= Cardinality(Bufs \ live)
        /\ s_buf' = [t \in Tracks |-> IF t \in loaded THEN Put(loaded)[t] ELSE NoBuf]
        /\ mem' = [b \in Bufs |-> IF b \in {Put(loaded)[t] : t \in loaded} THEN TookFrom(len, len)
                                                                         ELSE mem[b]]
        /\ live' = live \cup {Put(loaded)[t] : t \in loaded}
        /\ s_filled' = loaded
        /\ s_loop_frames' = IF loaded = {} THEN 0 ELSE len
  BY DEF LoadFill
<1>2. IsFiniteSet(loaded) /\ IsFiniteSet(Bufs \ live)
  <2>1. IsFiniteSet(Tracks)
    BY FS_Interval DEF Tracks
  <2> QED BY <2>1, FS_Subset, FS_Difference
<1>3. PICK f \in Bijection(1 .. Cardinality(loaded), loaded) : TRUE
  BY <1>2, FS_CardinalityType DEF ExistsBijection
<1>4. PICK g \in Bijection(1 .. Cardinality(Bufs \ live), Bufs \ live) : TRUE
  BY <1>2, FS_CardinalityType DEF ExistsBijection
<1> DEFINE h == Inverse(f, 1 .. Cardinality(loaded), loaded)
<1>5. h \in Bijection(loaded, 1 .. Cardinality(loaded))
  BY Fun_BijInverse, Zenon
<1> HIDE DEF h
<1> DEFINE p == [t \in loaded |-> g[h[t]]]
<1>6. /\ h \in [loaded -> 1 .. Cardinality(loaded)] /\ \A t, u \in loaded : t # u => h[t] # h[u]
      /\ g \in [1 .. Cardinality(Bufs \ live) -> Bufs \ live]
      /\ \A i, j \in 1 .. Cardinality(Bufs \ live) : i # j => g[i] # g[j]
  BY <1>5 DEF Bijection, Injection, IsInjective
<1>7. \A t \in loaded : h[t] \in 1 .. Cardinality(Bufs \ live)
  BY <1>1, <1>2, <1>6, FS_CardinalityType
<1>8. p \in [loaded -> Bufs \ live] /\ Inj(p, loaded)
  BY <1>6, <1>7
<1>9. Put(loaded) \in [loaded -> Bufs \ live] /\ Inj(Put(loaded), loaded)
  BY <1>8
<1> HIDE DEF Put
<1>10. Loaded(len, loaded, Put(loaded))
  BY <1>1, <1>9 DEF Loaded
<1> QED BY <1>9, <1>10

-----------------------------------------------------------------------------
(* Types. *)

(* The first locals of loop_ctl, and those of its requests. *)
LEMMA JobType ==
  /\ NoJob \in Jobs /\ NoPad \in Pads /\ NoBuf \in BufIds /\ NoTrk \in TrkIds
  /\ Idle \in Steps /\ Still \in States
  /\ \A t \in TrkIds, b \in BufIds : [NoJob EXCEPT !.trk = t, !.buf = b] \in Jobs
  /\ \A t \in TrkIds, b \in BufIds, f \in Units :
       [NoJob EXCEPT !.trk = t, !.buf = b, !.from = f] \in Jobs
  /\ \A t \in TrkIds, b \in BufIds, n \in Units, w \in Bit :
       [NoJob EXCEPT !.trk = t, !.buf = b, !.armed = w, !.limit = n] \in Jobs
  /\ \A n \in Units : [Idle EXCEPT !.step = "load", !.len = n] \in Steps
  /\ \A n \in Units : [Idle EXCEPT !.step = "load", !.again = TRUE, !.len = n] \in Steps
<1>1. NoBuf \in BufIds /\ NoTrk \in TrkIds /\ NoPad \in Pads /\ NoJob \in Jobs
  BY Bits DEF BufIds, TrkIds, NoPad, Pads, NoJob, Jobs
<1>2. Idle \in Steps
  BY <1>1, Bits DEF Idle, Steps
<1>3. Still \in States
  <2>1. 1 \in Tracks
    BY DEF Tracks
  <2> QED BY <2>1, Bits DEF Still, States
<1>4. \A t \in TrkIds, b \in BufIds : [NoJob EXCEPT !.trk = t, !.buf = b] \in Jobs
  BY <1>1 DEF Jobs
<1>5. \A t \in TrkIds, b \in BufIds, f \in Units :
       [NoJob EXCEPT !.trk = t, !.buf = b, !.from = f] \in Jobs
  BY <1>1 DEF Jobs
<1>6. \A t \in TrkIds, b \in BufIds, n \in Units, w \in Bit :
        [NoJob EXCEPT !.trk = t, !.buf = b, !.armed = w, !.limit = n] \in Jobs
  BY <1>1 DEF Jobs
<1>7. \A n \in Units : [Idle EXCEPT !.step = "load", !.len = n] \in Steps
  BY <1>2 DEF Steps
<1>8. \A n \in Units : [Idle EXCEPT !.step = "load", !.again = TRUE, !.len = n] \in Steps
  BY <1>2, Bits DEF Steps
<1> QED BY <1>1, <1>2, <1>3, <1>4, <1>5, <1>6, <1>7, <1>8

(* Initially. *)
LEMMA ShapeInit == Init => Shape
<1> SUFFICES ASSUME Init PROVE Shape
  OBVIOUS
<1>1. TypeOK
  <2>1. Cap >= 0 /\ 0 \in 0 .. MaxBeats
    OBVIOUS
  <2>2. a.pos = 0 /\ a.ramp = 0 /\ a.trk \in Tracks
    <3>1. a = Still
      BY DEF Init
    <3>2. Still.pos = 0 /\ Still.ramp = 0 /\ Still.trk = 1
      BY DEF Still
    <3> QED BY <3>1, <3>2 DEF Tracks
  <2>3. overtaken \in BOOLEAN /\ standing \in BOOLEAN
    BY Zenon DEF Init
  <2>4. /\ s_buf = [t \in Tracks |-> NoBuf] /\ mem = [b \in Bufs |-> Free] /\ live = {}
        /\ s_loop_frames = 0 /\ s_filled = {} /\ s_arm_beats = 0 /\ boundaries = 2
        /\ loop_mode = "stop" /\ s_ctl_mode = "stop" /\ s_arm_prev_mode = "stop"
        /\ loop_clear = "none"
    BY Zenon DEF Init
  <2>5. /\ s_buf \in [Tracks -> live \cup {NoBuf}]
        /\ mem \in [Bufs -> [size : 0 .. Cap, take : 0 .. Cap]]
    BY <2>1, <2>4 DEF Free
  <2> QED BY <2>1, <2>2, <2>3, <2>4, <2>5 DEF TypeOK, Modes
<1>2. CmdShape
  BY DEF Init, CmdShape
<1>3. CtlShape
  <2>1. s_arm_fire \in BOOLEAN
    BY Zenon DEF Init
  <2>2. /\ s_flags = {} /\ s_evt = {} /\ pc = "wait" /\ todo = {} /\ s_arm_track = 1
        /\ s_rec_limit = Cap /\ s_pad = NoPad /\ lates = 0 /\ notice = "none"
    BY Zenon DEF Init
  <2>3. s_pad \in Pads
    BY <2>2, JobType
  <2> QED BY <2>1, <2>2, <2>3 DEF CtlShape, Flags, Places, Tracks
<1>4. JobShape
  BY JobType DEF Init, JobShape
<1>5. BlockShape
  BY JobType DEF Init, BlockShape
<1> QED BY <1>1, <1>2, <1>3, <1>4, <1>5 DEF Shape

(* What each of them does to the set and the heap, in its types. *)
MemShape == /\ s_loop_frames \in 0 .. Cap /\ s_filled \subseteq Tracks
            /\ s_buf \in [Tracks -> live \cup {NoBuf}]
            /\ mem \in [Bufs -> [size : 0 .. Cap, take : 0 .. Cap]]
            /\ live \subseteq Bufs
ModeShape == /\ loop_mode \in Modes /\ s_ctl_mode \in Modes /\ s_arm_prev_mode \in Modes
             /\ loop_clear \in {"none", "track", "all"}
             /\ overtaken \in BOOLEAN /\ standing \in BOOLEAN
             /\ boundaries \in 0 .. 2 /\ s_arm_beats \in 0 .. MaxBeats

(* The types, in groups that steps leave alone together. *)
LEMMA Parts == Shape <=> MemShape /\ ModeShape /\ CmdShape /\ CtlShape /\ JobShape /\ BlockShape
<1>1. BlockShape => a.pos \in 0 .. Cap /\ a.ramp \in 0 .. Ramp /\ a.trk \in Tracks
  BY DEF BlockShape, States, Spots, Fades
<1> QED BY <1>1 DEF Shape, TypeOK, MemShape, ModeShape

(* A task does one of its steps. *)
LEMMA Steps28 ==
  ASSUME [Next]_vars
  PROVE  \/ \E m \in Moves : Write(m)
         \/ Notify \/ Beat \/ Fire \/ BlockBegin \/ Segment \/ Advance
         \/ TakeEvents \/ PadTake \/ Mirror \/ CompactCopy \/ CompactSwap \/ CompactFree
         \/ TakeFlags \/ ModeSame \/ ModeRec \/ ModeArm \/ ModeCommand \/ GrowFree
         \/ ClearTrack \/ ResetDetach \/ ResetDone \/ FireNone \/ FireTake
         \/ LoadRefused \/ LoadDetach \/ LoadRelease \/ LoadFill
         \/ UNCHANGED vars
BY Zenon DEF Next, Player, Clock, Audio, LoopCtl

(* A take is begun by the player or by the countdown, and is one of the three ways *)
(* of ctl_start_rec().                                                       *)
LEMMA TakeSteps ==
  ASSUME Shape, ModeRec \/ FireTake
  PROVE  /\ \E t \in Tracks, armed \in BOOLEAN, flag \in {"mode", "fire"} :
              /\ StartRec(t, armed, flag)
              /\ \/ TakeNow(t, armed, flag)
                 \/ TakeGrows(t, armed, flag)
                 \/ TakeRefused(armed, flag)
         /\ pc = "handle"
         /\ UNCHANGED <<loop_clear, shown, notice, s_flags, s_evt, s_arm_beats, s_arm_track,
                        s_arm_prev_mode, clk, s_loop_frames, s_filled, s_pad, audio, moves, lates>>
<1>1. s_arm_track \in Tracks
  BY DEF Shape, CtlShape
<1>2. CASE ModeRec
  <2>1. PICK t \in Tracks : StartRec(t, FALSE, "mode")
    BY <1>2 DEF ModeRec
  <2>2. TakeNow(t, FALSE, "mode") \/ TakeGrows(t, FALSE, "mode") \/ TakeRefused(FALSE, "mode")
    BY <2>1, StartRecResult
  <2>3. \E armed \in BOOLEAN, flag \in {"mode", "fire"} :
              /\ StartRec(t, armed, flag)
              /\ \/ TakeNow(t, armed, flag)
                 \/ TakeGrows(t, armed, flag)
                 \/ TakeRefused(armed, flag)
    BY <2>1, <2>2, Zenon
  <2> QED BY <1>2, <2>3, Zenon DEF ModeRec, Turn, arm
<1>3. CASE FireTake
  <2>1. StartRec(s_arm_track, TRUE, "fire")
    BY <1>3 DEF FireTake
  <2>2. \/ TakeNow(s_arm_track, TRUE, "fire") \/ TakeGrows(s_arm_track, TRUE, "fire")
        \/ TakeRefused(TRUE, "fire")
    BY <1>1, <2>1, StartRecResult
  <2>3. \E armed \in BOOLEAN, flag \in {"mode", "fire"} :
              /\ StartRec(s_arm_track, armed, flag)
              /\ \/ TakeNow(s_arm_track, armed, flag)
                 \/ TakeGrows(s_arm_track, armed, flag)
                 \/ TakeRefused(armed, flag)
    BY <2>1, <2>2, Zenon
  <2> QED BY <1>1, <1>3, <2>3, Zenon DEF FireTake, Turn
<1> QED BY <1>2, <1>3

(* A new buffer and a new place keep the heap and the set in their types. *)
LEMMA GotType ==
  ASSUME MemShape, NEW t \in Tracks, NEW size \in 1 .. Cap, NEW b, Got(t, size, b)
  PROVE  /\ s_buf' \in [Tracks -> live' \cup {NoBuf}]
         /\ mem' \in [Bufs -> [size : 0 .. Cap, take : 0 .. Cap]] /\ live' \subseteq Bufs
<1>1. TookFrom(size, 0) \in [size : 0 .. Cap, take : 0 .. Cap]
  BY DEF TookFrom
<1> QED BY <1>1 DEF Got, MemShape

(* The set and the heap keep their types. *)
LEMMA MemStep == ASSUME Shape, Moving, Memory, [Next]_vars PROVE MemShape'
<1> USE DEF set, heap
<1>0. MemShape
  BY Parts
<1>1. CASE \/ \E m \in Moves : Write(m)
           \/ Notify \/ Beat \/ Fire \/ Segment \/ TakeEvents \/ Mirror \/ TakeFlags
  BY <1>0, <1>1 DEF Write, Notify, Beat, Fire, Segment, TakeEvents, Mirror, TakeFlags, MemShape
<1>2. CASE \/ ModeSame \/ ModeArm \/ ModeCommand \/ FireNone \/ LoadRefused \/ LoadDetach
           \/ UNCHANGED vars
  BY <1>0, <1>2 DEF ModeSame, ModeArm, ModeCommand, FireNone, LoadRefused, LoadDetach,
     vars, MemShape
<1>3. CASE BlockBegin
  <2>1. s_loop_frames' \in Units /\ s_filled' \subseteq Tracks
    BY <1>3, Begins, Becomes
  <2> QED BY <1>0, <1>3, <2>1 DEF BlockBegin, MemShape, Units
<1>4. CASE Advance
  <2>1. s_loop_frames' \in Units /\ s_filled' \subseteq Tracks /\ UNCHANGED <<s_buf, live>>
    BY <1>4, Advances DEF Advance
  <2>2. \A m \in [size : 0 .. Cap, take : 0 .. Cap] :
          Recorded(m, a.pos) \in [size : 0 .. Cap, take : 0 .. Cap]
    <3>1. a.pos \in Nat /\ a.pos + 1 <= Cap /\ 1 <= Cap
      BY Numbers DEF Shape, BlockShape, States
    <3> QED BY <3>1 DEF Recorded
  <2>3. \/ mem' = mem
        \/ mem' = [mem EXCEPT ![block.writes] = Recorded(@, a.pos)]
    BY <1>4 DEF Advance
  <2>4. mem' \in [Bufs -> [size : 0 .. Cap, take : 0 .. Cap]]
    BY <1>0, <2>2, <2>3 DEF MemShape
  <2> QED BY <1>0, <2>1, <2>4 DEF MemShape, Units
<1>5. CASE PadTake
  <2>1. \A m \in [size : 0 .. Cap, take : 0 .. Cap] :
          Padded(m) \in [size : 0 .. Cap, take : 0 .. Cap]
    BY <1>0, Numbers DEF Padded, Shape, JobShape, Jobs, MemShape
  <2>2. job.trk \in Tracks /\ mem' = [mem EXCEPT ![job.buf] = Padded(@)]
    BY <1>5 DEF PadTake, Shape, JobShape
  <2>3. mem' \in [Bufs -> [size : 0 .. Cap, take : 0 .. Cap]]
    BY <1>0, <2>1, <2>2 DEF MemShape
  <2> QED BY <1>0, <1>5, <2>2, <2>3 DEF PadTake, MemShape
<1>6. CASE CompactCopy
  <2>1. CASE UNCHANGED heap
    BY <1>0, <1>6, <2>1 DEF CompactCopy, MemShape
  <2>2. CASE ~UNCHANGED heap
    <3>1. PICK t \in Tracks, b \in Bufs \ live :
            /\ mem' = [mem EXCEPT ![b] = TookFrom(s_loop_frames,
                               IF mem[s_buf[t]].take < s_loop_frames THEN mem[s_buf[t]].take
                                                                     ELSE s_loop_frames)]
            /\ live' = live \cup {b} /\ s_buf[t] # NoBuf
      BY <1>6, <2>2 DEF CompactCopy, Oversize, Malloc
    <3>2. mem[s_buf[t]] \in [size : 0 .. Cap, take : 0 .. Cap] /\ s_loop_frames \in 0 .. Cap
      BY <1>0, <3>1 DEF MemShape
    <3>3. TookFrom(s_loop_frames, IF mem[s_buf[t]].take < s_loop_frames THEN mem[s_buf[t]].take
                                                                     ELSE s_loop_frames)
            \in [size : 0 .. Cap, take : 0 .. Cap]
      BY <3>2 DEF TookFrom
    <3>4. mem' \in [Bufs -> [size : 0 .. Cap, take : 0 .. Cap]]
      BY <1>0, <3>1, <3>3 DEF MemShape
    <3>5. UNCHANGED <<s_loop_frames, s_filled, s_buf>>
      BY <1>6 DEF CompactCopy
    <3> QED BY <1>0, <3>1, <3>4, <3>5 DEF MemShape
  <2> QED BY <2>1, <2>2
<1>7. CASE CompactSwap
  <2>1. job.buf \in live /\ s_buf' = [s_buf EXCEPT ![job.trk] = job.buf]
    BY <1>7 DEF CompactSwap, Memory
  <2>2. UNCHANGED <<s_loop_frames, s_filled, mem, live>>
    BY <1>7 DEF CompactSwap
  <2> QED BY <1>0, <2>1, <2>2 DEF MemShape
<1>8. CASE CompactFree \/ GrowFree
  <2>1. PICK settled \in BOOLEAN : Freed({job.buf}, settled)
    BY <1>8 DEF CompactFree, GrowFree
  <2>2. UNCHANGED <<s_loop_frames, s_filled, s_buf>>
    BY <1>8 DEF CompactFree, GrowFree
  <2>3. job.buf # NoBuf => \A t \in Tracks : s_buf[t] # job.buf
    BY <1>8 DEF CompactFree, GrowFree, Memory
  <2>4. NoBuf \notin live
    BY <1>0 DEF MemShape, NoBuf
  <2>5. /\ live' \subseteq Bufs /\ mem' \in [Bufs -> [size : 0 .. Cap, take : 0 .. Cap]]
        /\ live' = live \ {job.buf} \/ live' = live
    BY <2>1, FreedResult
  <2>6. s_buf \in [Tracks -> live' \cup {NoBuf}]
    BY <1>0, <2>3, <2>4, <2>5 DEF MemShape
  <2> QED BY <1>0, <2>2, <2>5, <2>6 DEF MemShape
<1>9. CASE ModeRec \/ FireTake
  <2>1. PICK t \in Tracks, armed \in BOOLEAN, flag \in {"mode", "fire"} :
              \/ TakeNow(t, armed, flag) \/ TakeGrows(t, armed, flag)
              \/ TakeRefused(armed, flag)
    BY <1>9, TakeSteps
  <2>2. UNCHANGED <<s_loop_frames, s_filled>>
    BY <1>9, TakeSteps
  <2>3. CASE UNCHANGED <<s_buf, mem, live>>
    BY <1>0, <2>2, <2>3 DEF MemShape
  <2>4. CASE ~UNCHANGED <<s_buf, mem, live>>
    <3>1. PICK size \in 1 .. Cap, b \in Bufs : Got(t, size, b)
      BY <2>1, <2>4 DEF TakeNow, TakeGrows, TakeRefused
    <3>2. /\ s_buf' \in [Tracks -> live' \cup {NoBuf}]
          /\ mem' \in [Bufs -> [size : 0 .. Cap, take : 0 .. Cap]] /\ live' \subseteq Bufs
      BY <1>0, <3>1, GotType
    <3> QED BY <1>0, <2>2, <3>2 DEF MemShape
  <2> QED BY <2>3, <2>4
<1>10. CASE ClearTrack \/ ResetDetach
  <2>1. UNCHANGED <<s_loop_frames, s_buf, mem, live>>
    BY <1>10 DEF ClearTrack, ResetDetach
  <2>2. s_filled' \subseteq s_filled
    BY <1>10 DEF ClearTrack, ResetDetach
  <2> QED BY <1>0, <2>1, <2>2 DEF MemShape
<1>11. CASE ResetDone \/ LoadRelease
  <2>1. PICK settled \in BOOLEAN : Release(settled)
    BY <1>11 DEF ResetDone, LoadRelease
  <2>2. /\ live' \subseteq Bufs /\ mem' \in [Bufs -> [size : 0 .. Cap, take : 0 .. Cap]]
    BY <2>1, FreedResult DEF Release
  <2> QED BY <2>1, <2>2 DEF Release, MemShape
<1>12. CASE LoadFill
  <2>1. PICK len \in 1 .. Cap, loaded \in SUBSET Tracks :
           \E at \in [loaded -> Bufs \ live] : Loaded(len, loaded, at)
    BY <1>12, LoadFillResult
  <2>2. PICK at \in [loaded -> Bufs \ live] : Loaded(len, loaded, at)
    BY <2>1
  <2>3. TookFrom(len, len) \in [size : 0 .. Cap, take : 0 .. Cap]
    BY DEF TookFrom
  <2>4. mem' \in [Bufs -> [size : 0 .. Cap, take : 0 .. Cap]]
    BY <1>0, <2>2, <2>3 DEF Loaded, MemShape
  <2> QED BY <1>0, <2>2, <2>4 DEF Loaded, MemShape
<1> QED BY <1>1, <1>2, <1>3, <1>4, <1>5, <1>6, <1>7, <1>8, <1>9, <1>10, <1>11, <1>12, Steps28, Zenon

(* loop_ctl goes on to its next flag, or waits. *)
LEMMA HandledType ==
  ASSUME CtlShape, NEW flag, Handled(flag)
  PROVE  /\ pc' \in {"wait", "handle"} /\ todo' \subseteq Flags
BY DEF CtlShape, Handled

(* The parameters, their shadow and the countdown keep their types. *)
LEMMA ModeStep == ASSUME Shape, [Next]_vars PROVE ModeShape'
<1> USE DEF params, mail, ctl, arm, past
<1>0. ModeShape /\ lates \in Nat
  BY Parts DEF CtlShape
<1>1. CASE \E m \in Moves : Write(m)
  <2>1. PICK m \in AllMoves : Write(m)
    BY <1>1
  <2> QED BY <1>0, <2>1 DEF Write, Flag, AllMoves, ModeShape, Modes
<1>2. CASE \/ Notify \/ Beat \/ Fire \/ Segment \/ Mirror \/ TakeFlags
           \/ ModeSame \/ FireNone \/ LoadRefused \/ UNCHANGED vars \/ CompactSwap
  BY <1>0, <1>2 DEF Notify, Beat, Fire, Segment, Mirror, TakeFlags, ModeSame, FireNone,
     LoadRefused, vars, CompactSwap, ModeShape
<1>3. CASE BlockBegin
  <2>1. boundaries' \in 0 .. 2
    BY <1>0, <1>3 DEF BlockBegin, Counted, ModeShape
  <2> QED BY <1>0, <1>3, <2>1 DEF BlockBegin, ModeShape
<1>4. CASE Advance
  <2>1. boundaries' \in 0 .. 2
    BY <1>0, <1>4 DEF Advance, Counted, ModeShape
  <2> QED BY <1>0, <1>4, <2>1 DEF Advance, ModeShape
<1>5. CASE TakeEvents
  <2>1. s_ctl_mode' \in Modes /\ loop_mode' \in Modes
    BY <1>0, <1>5 DEF TakeEvents, ModeShape, Modes
  <2>2. boundaries' \in 0 .. 2
    BY <1>0, <1>5 DEF TakeEvents, ModeShape
  <2> QED BY <1>0, <1>5, <2>1, <2>2 DEF TakeEvents, ModeShape
<1>6. CASE PadTake \/ CompactFree
  BY <1>0, <1>6 DEF PadTake, CompactFree, ModeShape
<1>7. CASE CompactCopy
  <2>1. overtaken' \in BOOLEAN
    BY <1>0, <1>7, Zenon DEF CompactCopy, ModeShape
  <2> QED BY <1>0, <1>7, <2>1 DEF CompactCopy, ModeShape
<1>8. CASE ModeRec \/ FireTake
  <2>1. PICK t \in Tracks, armed \in BOOLEAN, flag \in {"mode", "fire"} :
              \/ TakeNow(t, armed, flag) \/ TakeGrows(t, armed, flag)
              \/ TakeRefused(armed, flag)
    BY <1>8, TakeSteps
  <2>2. UNCHANGED <<loop_clear, s_arm_beats, s_arm_prev_mode>>
    BY <1>8, TakeSteps
  <2>3. overtaken' \in BOOLEAN
    BY <1>0, <2>1, Zenon DEF TakeNow, TakeGrows, TakeRefused, ModeShape
  <2>4. standing' \in BOOLEAN
    BY <1>0, <1>8, Zenon DEF ModeRec, FireTake, ModeShape
  <2>5. s_ctl_mode' \in Modes /\ loop_mode' \in Modes /\ boundaries' \in 0 .. 2
    <3>1. CASE TakeNow(t, armed, flag)
      BY <1>0, <3>1 DEF TakeNow, Commanded, ModeShape, Modes
    <3>2. CASE TakeGrows(t, armed, flag)
      BY <1>0, <3>2 DEF TakeGrows, ModeShape
    <3>3. CASE TakeRefused(armed, flag)
      BY <1>0, <3>3 DEF TakeRefused, ModeShape
    <3> QED BY <2>1, <3>1, <3>2, <3>3
  <2> QED BY <1>0, <2>2, <2>3, <2>4, <2>5 DEF ModeShape
<1>9. CASE ModeArm
  <2>1. standing' \in BOOLEAN /\ overtaken' \in BOOLEAN
    BY <1>0, <1>9, Zenon DEF ModeArm, ModeShape
  <2>2. s_arm_beats' \in 0 .. MaxBeats
    BY <1>9 DEF ModeArm
  <2>3. /\ s_ctl_mode' \in Modes /\ s_arm_prev_mode' \in Modes
        /\ UNCHANGED <<loop_mode, loop_clear, boundaries>>
    BY <1>0, <1>9 DEF ModeArm, ModeShape, Modes
  <2> QED BY <1>0, <2>1, <2>2, <2>3 DEF ModeShape
<1>10. CASE ModeCommand
  <2>1. overtaken' \in BOOLEAN
    BY <1>0, <1>10, Zenon DEF ModeCommand, MovesOn, ModeShape
  <2>2. standing' \in BOOLEAN
    BY <1>0, <1>10, Zenon DEF ModeCommand, ArmCancel, ModeShape
  <2>3. s_ctl_mode' \in Modes /\ loop_mode' \in Modes /\ s_arm_beats' = 0
    BY <1>0, <1>10 DEF ModeCommand, ArmCancel, ModeShape, Modes
  <2>4. UNCHANGED <<loop_clear, boundaries, s_arm_prev_mode>>
    BY <1>10 DEF ModeCommand
  <2> QED BY <1>0, <2>1, <2>2, <2>3, <2>4 DEF ModeShape
<1>11. CASE GrowFree
  <2>1. overtaken' \in BOOLEAN
    BY <1>0, <1>11, Zenon DEF GrowFree, MovesOn, ModeShape
  <2>2. s_ctl_mode' \in Modes /\ loop_mode' \in Modes /\ boundaries' = 2
    BY <1>0, <1>11 DEF GrowFree, Commanded, ModeShape, Modes
  <2>3. UNCHANGED <<loop_clear, s_arm_beats, s_arm_prev_mode, standing>>
    BY <1>11 DEF GrowFree
  <2> QED BY <1>0, <2>1, <2>2, <2>3 DEF ModeShape
<1>12. CASE ClearTrack \/ ResetDetach
  <2>1. ClearCancel
    BY <1>12 DEF ClearTrack, ResetDetach
  <2>2. standing' \in BOOLEAN
    BY <1>0, <2>1, Zenon DEF ClearCancel, ArmCancel, ModeShape
  <2>3. /\ s_ctl_mode' \in Modes /\ loop_mode' \in Modes /\ s_arm_beats' = 0
        /\ UNCHANGED s_arm_prev_mode
    BY <1>0, <2>1 DEF ClearCancel, ArmCancel, ModeShape
  <2>4. UNCHANGED overtaken /\ loop_clear' \in {"none", "track", "all"} /\ boundaries' \in 0 .. 2
    BY <1>0, <1>12 DEF ClearTrack, ResetDetach, ModeShape
  <2> QED BY <1>0, <2>2, <2>3, <2>4 DEF ModeShape
<1>13. CASE ResetDone
  BY <1>0, <1>13 DEF ResetDone, ModeShape, Modes
<1>14. CASE LoadDetach
  BY <1>0, <1>14 DEF LoadDetach, ModeShape, Modes
<1>15. CASE LoadRelease
  <2>1. overtaken' \in BOOLEAN
    BY <1>0, <1>15, Zenon DEF LoadRelease, MovesOn, ModeShape
  <2> QED BY <1>0, <1>15, <2>1 DEF LoadRelease, ModeShape, Modes
<1>16. CASE LoadFill
  BY <1>0, <1>16 DEF LoadFill, ModeShape, Modes
<1> QED BY <1>1, <1>2, <1>3, <1>4, <1>5, <1>6, <1>7, <1>8, <1>9, <1>10, <1>11, <1>12,
           <1>13, <1>14, <1>15, <1>16, Steps28, Zenon

(* The mailbox holds a command, and a rec command a track. *)
LEMMA CmdStep == ASSUME Shape, [Next]_vars PROVE CmdShape'
<1> USE DEF mail
<1>0. CmdShape /\ ModeShape /\ JobShape
  BY Parts
<1>1. CASE UNCHANGED s_cmd
  BY <1>0, <1>1 DEF CmdShape
<1>2. CASE s_cmd' \in {<<"none">>, <<"stop">>, <<"play">>, <<"detach">>}
  BY <1>2 DEF CmdShape
<1>3. CASE \E t \in Tracks : s_cmd' = <<"rec", t>>
  BY <1>3 DEF CmdShape
<1>4. CASE ModeRec \/ FireTake
  <2>1. PICK t \in Tracks, armed \in BOOLEAN, flag \in {"mode", "fire"} :
              \/ TakeNow(t, armed, flag) \/ TakeGrows(t, armed, flag)
              \/ TakeRefused(armed, flag)
    BY <1>4, TakeSteps
  <2>2. s_cmd' = <<"rec", t>> \/ UNCHANGED s_cmd
    BY <2>1 DEF TakeNow, TakeGrows, TakeRefused, Commanded
  <2> QED BY <1>1, <1>3, <2>2
<1>5. CASE GrowFree
  BY <1>0, <1>3, <1>5 DEF GrowFree, Commanded, JobShape
<1>6. CASE BlockBegin \/ ModeCommand \/ ResetDetach \/ LoadDetach
  BY <1>2, <1>6 DEF BlockBegin, ModeCommand, ResetDetach, LoadDetach
<1>7. CASE \/ \E m \in Moves : Write(m)
           \/ Notify \/ Beat \/ Fire \/ Segment \/ Advance
           \/ TakeEvents \/ PadTake \/ Mirror \/ CompactCopy \/ CompactSwap \/ CompactFree
           \/ TakeFlags \/ ModeSame \/ ModeArm
           \/ ClearTrack \/ ResetDone \/ FireNone
           \/ LoadRefused \/ LoadRelease \/ LoadFill
           \/ UNCHANGED vars
  <2>1. UNCHANGED s_cmd
    BY <1>7 DEF Write, Notify, Beat, Fire, Segment, Advance, TakeEvents, PadTake, Mirror,
       CompactCopy, CompactSwap, CompactFree, TakeFlags, ModeSame, ModeArm, ClearTrack, ResetDone,
       FireNone, LoadRefused, LoadRelease, LoadFill, vars
  <2> QED BY <1>1, <2>1
<1> QED BY <1>4, <1>5, <1>6, <1>7, Steps28, Zenon

(* The mail, the place, the arm and the limit of the parts of CtlShape. *)
MailShape  == notice \in Flags \cup {"none"} /\ s_flags \subseteq Flags /\ s_evt \subseteq Evts
PlaceShape == pc \in Places /\ todo \subseteq Flags
ArmShape   == s_arm_track \in Tracks /\ s_arm_fire \in BOOLEAN
LimitShape == s_rec_limit \in 1 .. Cap /\ s_pad \in Pads /\ lates \in Nat

(* They are all of CtlShape. *)
LEMMA CtlParts == CtlShape <=> MailShape /\ PlaceShape /\ ArmShape /\ LimitShape
BY Zenon DEF CtlShape, MailShape, PlaceShape, ArmShape, LimitShape

(* The flags and events stay flags and events. *)
LEMMA MailStep == ASSUME Shape, Moving, [Next]_vars PROVE MailShape'
<1> USE DEF mail
<1>0. MailShape
  BY Parts, CtlParts
<1>1. CASE \E m \in Moves : Write(m)
  BY <1>0, <1>1 DEF Write, Flag, Flags, MailShape
<1>2. CASE Notify \/ Fire \/ TakeFlags
  BY <1>0, <1>2 DEF Notify, Fire, TakeFlags, MailShape, Flags
<1>3. CASE BlockBegin
  BY <1>0, <1>3, Begins, Becomes DEF BlockBegin, MailShape
<1>4. CASE Advance
  BY <1>0, <1>4, Advances DEF Advance, MailShape
<1>5. CASE TakeEvents
  BY <1>0, <1>5 DEF TakeEvents, MailShape
<1>6. CASE ModeRec \/ FireTake
  BY <1>0, <1>6, TakeSteps DEF MailShape
<1>7. CASE \/ Beat \/ Segment \/ PadTake \/ Mirror \/ CompactCopy \/ CompactSwap \/ CompactFree
           \/ ModeSame \/ ModeArm \/ ModeCommand \/ GrowFree \/ ClearTrack \/ ResetDetach
           \/ ResetDone \/ FireNone \/ LoadRefused \/ LoadDetach \/ LoadRelease \/ LoadFill
           \/ UNCHANGED vars
  <2>1. UNCHANGED <<notice, s_flags, s_evt>>
    BY <1>7 DEF Beat, Segment, PadTake, Mirror, CompactCopy, CompactSwap, CompactFree,
       ModeSame, ModeArm, ModeCommand, GrowFree, ClearTrack, ResetDetach, ResetDone, FireNone,
       LoadRefused, LoadDetach, LoadRelease, LoadFill, vars
  <2> QED BY <1>0, <2>1 DEF MailShape
<1> QED BY <1>1, <1>2, <1>3, <1>4, <1>5, <1>6, <1>7, Steps28, Zenon

(* loop_ctl stays in its loop, with flags to handle. *)
LEMMA PlaceStep == ASSUME Shape, [Next]_vars PROVE PlaceShape'
<1> USE DEF ctl
<1>0. PlaceShape /\ CtlShape /\ MailShape
  BY Parts, CtlParts
<1>1. CASE \/ \E m \in Moves : Write(m)
           \/ Notify \/ Beat \/ Fire \/ BlockBegin \/ Segment \/ Advance \/ UNCHANGED vars
  BY <1>0, <1>1 DEF Write, Notify, Beat, Fire, BlockBegin, Segment, Advance, vars, PlaceShape
<1>2. CASE TakeEvents \/ PadTake \/ Mirror \/ CompactCopy \/ CompactSwap \/ CompactFree
  BY <1>0, <1>2 DEF TakeEvents, PadTake, Mirror, CompactCopy, CompactSwap, CompactFree,
     PlaceShape, Places
<1>3. CASE TakeFlags \/ LoadDetach \/ LoadRelease \/ LoadFill \/ ResetDone \/ ResetDetach
           \/ GrowFree
  BY <1>0, <1>3 DEF TakeFlags, LoadDetach, LoadRelease, LoadFill, ResetDone, ResetDetach, GrowFree,
     PlaceShape, MailShape, Places
<1>4. CASE \/ ModeSame \/ ModeArm \/ ModeCommand \/ ClearTrack \/ FireNone \/ LoadRefused
  <2>1. \E flag \in Flags : Handled(flag)
    BY <1>4 DEF ModeSame, ModeArm, ModeCommand, ClearTrack, FireNone, LoadRefused, Flags
  <2> QED BY <1>0, <2>1, HandledType DEF PlaceShape, Places
<1>5. CASE ModeRec \/ FireTake
  <2>1. PICK t \in Tracks, armed \in BOOLEAN, flag \in {"mode", "fire"} :
              \/ TakeNow(t, armed, flag) \/ TakeGrows(t, armed, flag)
              \/ TakeRefused(armed, flag)
    BY <1>5, TakeSteps
  <2>2. CASE TakeGrows(t, armed, flag)
    BY <1>0, <2>2 DEF TakeGrows, PlaceShape, Places
  <2>3. CASE Handled(flag)
    BY <1>0, <2>3, HandledType DEF PlaceShape, Places
  <2> QED BY <2>1, <2>2, <2>3 DEF TakeNow, TakeRefused
<1> QED BY <1>1, <1>2, <1>3, <1>4, <1>5, Steps28, Zenon

(* An arm stays on a track. *)
LEMMA ArmStep == ASSUME Shape, [Next]_vars PROVE ArmShape'
<1> USE DEF arm
<1>0. ArmShape
  BY Parts, CtlParts
<1>1. CASE \/ \E m \in Moves : Write(m)
           \/ Notify \/ Beat \/ BlockBegin \/ Segment \/ Advance
           \/ TakeEvents \/ PadTake \/ Mirror \/ CompactCopy \/ CompactSwap \/ CompactFree
           \/ TakeFlags \/ ModeSame \/ ModeRec \/ GrowFree
           \/ ResetDone \/ FireNone \/ LoadRefused \/ LoadDetach \/ LoadRelease \/ LoadFill
           \/ UNCHANGED vars
  <2>1. UNCHANGED <<s_arm_track, s_arm_fire>>
    BY <1>1 DEF Write, Notify, Beat, BlockBegin, Segment, Advance,
           TakeEvents, PadTake, Mirror, CompactCopy, CompactSwap, CompactFree,
           TakeFlags, ModeSame, ModeRec, GrowFree,
           ResetDone, FireNone, LoadRefused, LoadDetach, LoadRelease, LoadFill, vars
  <2> QED BY <1>0, <2>1 DEF ArmShape
<1>2. CASE Fire \/ ModeArm \/ ModeCommand \/ ClearTrack \/ ResetDetach \/ FireTake
  <2>1. s_arm_track' \in Tracks
    BY <1>0, <1>2 DEF Fire, ModeArm, ModeCommand, ClearTrack, ResetDetach, FireTake, ClearCancel,
       ArmShape
  <2>2. s_arm_fire' = TRUE \/ s_arm_fire' = FALSE
    BY <1>2, Zenon DEF Fire, ModeArm, ModeCommand, ClearTrack, ResetDetach, FireTake, ClearCancel,
       ArmCancel
  <2> QED BY <2>1, <2>2 DEF ArmShape
<1> QED BY <1>1, <1>2, Steps28, Zenon

(* The limit of a first take is never none, and a tail is in a track. *)
LEMMA LimitStep == ASSUME Shape, Moving, [Next]_vars PROVE LimitShape'
<1> USE DEF set
<1>0. LimitShape /\ JobShape
  BY Parts, CtlParts
<1>1. CASE \/ \E m \in Moves : Write(m)
           \/ Notify \/ Beat \/ Fire \/ Segment
           \/ Mirror \/ CompactCopy \/ CompactSwap
           \/ TakeFlags \/ ModeSame \/ ModeArm \/ ModeCommand \/ ClearTrack \/ ResetDetach
           \/ FireNone \/ LoadRefused \/ LoadDetach \/ LoadFill
           \/ UNCHANGED vars
  <2>1. UNCHANGED <<s_rec_limit, s_pad, lates>>
    BY <1>1 DEF Write, Notify, Beat, Fire, Segment, Mirror, CompactCopy, CompactSwap,
           TakeFlags, ModeSame, ModeArm, ModeCommand, ClearTrack, ResetDetach,
           FireNone, LoadRefused, LoadDetach, LoadFill, vars
  <2> QED BY <1>0, <2>1 DEF LimitShape
<1>2. CASE BlockBegin
  BY <1>0, <1>2, Begins, Becomes DEF BlockBegin, LimitShape
<1>3. CASE Advance
  BY <1>0, <1>3, Advances DEF Advance, LimitShape
<1>4. CASE TakeEvents
  BY <1>0, <1>4, JobType DEF TakeEvents, LimitShape
<1>5. CASE PadTake \/ CompactFree \/ ResetDone \/ LoadRelease \/ GrowFree
  <2>1. lates' \in Nat
    BY <1>0, <1>5, AwaitResult DEF PadTake, CompactFree, ResetDone, LoadRelease, GrowFree,
       LimitShape
  <2>2. UNCHANGED s_pad
    BY <1>5 DEF PadTake, CompactFree, ResetDone, LoadRelease, GrowFree
  <2>3. s_rec_limit' \in 1 .. Cap
    <3>1. CASE GrowFree
      BY <1>0, <3>1, Numbers DEF GrowFree, JobShape, Jobs
    <3>2. CASE PadTake \/ CompactFree \/ ResetDone \/ LoadRelease
      BY <1>0, <3>2 DEF PadTake, CompactFree, ResetDone, LoadRelease, LimitShape
    <3> QED BY <1>5, <3>1, <3>2
  <2> QED BY <1>0, <2>1, <2>2, <2>3 DEF LimitShape
<1>6. CASE ModeRec \/ FireTake
  <2>1. PICK t \in Tracks, armed \in BOOLEAN, flag \in {"mode", "fire"} :
              \/ TakeNow(t, armed, flag) \/ TakeGrows(t, armed, flag)
              \/ TakeRefused(armed, flag)
    BY <1>6, TakeSteps
  <2>2. UNCHANGED <<s_pad, lates>>
    BY <1>6, TakeSteps
  <2>3. s_rec_limit' \in 1 .. Cap
    BY <1>0, <2>1 DEF TakeNow, TakeGrows, TakeRefused, LimitShape
  <2> QED BY <1>0, <2>2, <2>3 DEF LimitShape
<1> QED BY <1>1, <1>2, <1>3, <1>4, <1>5, <1>6, Steps28, Zenon

(* A track has a buffer or none. *)
LEMMA BufType == ASSUME MemShape PROVE \A t \in Tracks : s_buf[t] \in BufIds
BY DEF MemShape, BufIds

(* loop_ctl's locals keep their types, and name a track where it works on one. *)
LEMMA JobStep == ASSUME Shape, [Next]_vars PROVE JobShape'
<1> USE DEF ctl
<1>0. JobShape /\ MemShape /\ LimitShape
  BY Parts, CtlParts
<1>1. CASE \/ \E m \in Moves : Write(m)
           \/ Notify \/ Beat \/ Fire \/ BlockBegin \/ Segment \/ Advance \/ UNCHANGED vars
  <2>1. UNCHANGED <<pc, job>>
    BY <1>1 DEF Write, Notify, Beat, Fire, BlockBegin, Segment, Advance, vars
  <2> QED BY <1>0, <2>1 DEF JobShape
<1>2. CASE TakeEvents
  <2>1. CASE "pad" \in s_evt /\ PadDue
    <3>1. s_pad.trk \in Tracks /\ s_pad.from \in Units /\ s_buf[s_pad.trk] \in BufIds
      BY <1>0, <2>1, BufType DEF PadDue, LimitShape, Pads, TrkIds
    <3>2. job' = [NoJob EXCEPT !.trk = s_pad.trk, !.buf = s_buf[s_pad.trk], !.from = s_pad.from]
      BY <1>2, <2>1 DEF TakeEvents
    <3>3. job' \in Jobs
      BY <3>1, <3>2, JobType DEF TrkIds
    <3>4. job'.trk \in Tracks
      BY <3>1, <3>2 DEF NoJob
    <3>5. pc' \in {"flags", "pad", "mirror"}
      BY <1>2 DEF TakeEvents
    <3> QED BY <3>3, <3>4, <3>5 DEF JobShape
  <2>2. CASE ~("pad" \in s_evt /\ PadDue)
    <3>1. job' = NoJob /\ pc' \in {"flags", "mirror"}
      BY <1>2, <2>2 DEF TakeEvents
    <3> QED BY <3>1, JobType DEF JobShape
  <2> QED BY <2>1, <2>2
<1>3. CASE PadTake \/ Mirror \/ GrowFree
  <2>1. job' = NoJob /\ pc' \in {"mirror", "flags", "compact", "wait", "handle"}
    BY <1>3 DEF PadTake, Mirror, GrowFree
  <2> QED BY <2>1, JobType DEF JobShape
<1>4. CASE CompactCopy
  <2>1. CASE pc' = "flags" /\ job' = NoJob
    BY <2>1, JobType DEF JobShape
  <2>2. CASE ~(pc' = "flags" /\ job' = NoJob)
    <3>1. PICK t \in Tracks, b \in Bufs : job' = [NoJob EXCEPT !.trk = t, !.buf = b] /\ pc' = "swap"
      BY <1>4, <2>2 DEF CompactCopy, Oversize, Malloc
    <3>2. job' \in Jobs
      BY <3>1, JobType DEF TrkIds, BufIds
    <3>3. job'.trk = t
      BY <3>1 DEF NoJob
    <3> QED BY <3>1, <3>2, <3>3 DEF JobShape
  <2> QED BY <2>1, <2>2
<1>5. CASE CompactSwap
  <2>1. job.trk \in Tracks /\ job' = [job EXCEPT !.buf = s_buf[job.trk]] /\ pc' = "shrink"
    BY <1>0, <1>5 DEF CompactSwap, JobShape
  <2>2. s_buf[job.trk] \in BufIds
    BY <1>0, <2>1, BufType
  <2>3. job' \in Jobs /\ job'.trk = job.trk
    BY <1>0, <2>1, <2>2 DEF JobShape, Jobs
  <2> QED BY <2>1, <2>3 DEF JobShape
<1>6. CASE CompactFree
  <2>1. job' = [NoJob EXCEPT !.trk = job.trk] /\ pc' = "compact" /\ job.trk \in TrkIds
    BY <1>0, <1>6 DEF CompactFree, JobShape, Jobs
  <2>2. job' \in Jobs
    BY <2>1, JobType DEF Jobs
  <2> QED BY <2>1, <2>2 DEF JobShape
<1>7. CASE \/ TakeFlags \/ ModeSame \/ ModeArm \/ ModeCommand \/ ClearTrack \/ ResetDetach
           \/ ResetDone \/ FireNone \/ LoadRefused \/ LoadDetach \/ LoadRelease \/ LoadFill
  <2>1. UNCHANGED job
    BY <1>7 DEF TakeFlags, ModeSame, ModeArm, ModeCommand, ClearTrack, ResetDetach,
           ResetDone, FireNone, LoadRefused, LoadDetach, LoadRelease, LoadFill
  <2>2. pc' \in {"wait", "handle", "reset", "release", "fill"}
    BY <1>7 DEF TakeFlags, ModeSame, ModeArm, ModeCommand, ClearTrack, ResetDetach,
           ResetDone, FireNone, LoadRefused, LoadDetach, LoadRelease, LoadFill, Handled
  <2> QED BY <1>0, <2>1, <2>2 DEF JobShape
<1>8. CASE ModeRec \/ FireTake
  <2>1. PICK t \in Tracks, armed \in BOOLEAN, flag \in {"mode", "fire"} :
              \/ TakeNow(t, armed, flag) \/ TakeGrows(t, armed, flag)
              \/ TakeRefused(armed, flag)
    BY <1>8, TakeSteps
  <2>2. CASE TakeGrows(t, armed, flag)
    <3>1. PICK size \in 1 .. Cap :
            job' = [NoJob EXCEPT !.trk = t, !.buf = s_buf[t], !.armed = armed,
                      !.limit = IF s_loop_frames = 0 THEN size ELSE s_rec_limit]
      BY <2>2 DEF TakeGrows
    <3> DEFINE n == IF s_loop_frames = 0 THEN size ELSE s_rec_limit
    <3>2. n \in Units /\ n > 0
      BY <1>0 DEF LimitShape, Units
    <3> HIDE DEF n
    <3>3. job' = [NoJob EXCEPT !.trk = t, !.buf = s_buf[t], !.armed = armed, !.limit = n]
      BY <3>1 DEF n
    <3>4. s_buf[t] \in BufIds /\ t \in TrkIds /\ armed \in Bit
      BY <1>0, BufType DEF TrkIds, Bit
    <3>5. job' \in Jobs
      BY <3>2, <3>3, <3>4, JobType
    <3>6. job'.trk = t /\ job'.limit = n
      BY <3>3 DEF NoJob
    <3>7. pc' = "grow"
      BY <2>2 DEF TakeGrows
    <3> QED BY <3>2, <3>5, <3>6, <3>7 DEF JobShape
  <2>3. CASE TakeNow(t, armed, flag) \/ TakeRefused(armed, flag)
    <3>1. UNCHANGED job /\ pc' \in {"wait", "handle"}
      BY <2>3 DEF TakeNow, TakeRefused, Handled
    <3> QED BY <1>0, <3>1 DEF JobShape
  <2> QED BY <2>1, <2>2, <2>3
<1> QED BY <1>1, <1>2, <1>3, <1>4, <1>5, <1>6, <1>7, <1>8, Steps28, Zenon

(* The tracks a segment decodes have a buffer each. *)
LEMMA SegmentResult ==
  ASSUME Shape, Segment
  PROVE  /\ block.step = "load" /\ block' \in Steps /\ block'.step = "use"
         /\ block'.len = block.len /\ block'.again = block.again
         /\ block'.mix = {t \in Mixed(block.len) : s_buf[t] # NoBuf}
         /\ block'.reads = {s_buf[t] : t \in block'.mix}
         /\ block'.writes = IF a.rec THEN s_buf[a.trk] ELSE NoBuf
<1> DEFINE m == {t \in Mixed(block.len) : s_buf[t] # NoBuf}
           r == {s_buf[t] : t \in m}
           w == IF a.rec THEN s_buf[a.trk] ELSE NoBuf
<1>1. MemShape /\ BlockShape
  BY Parts
<1>2. m \subseteq Tracks
  BY <1>1 DEF Mixed, MemShape
<1>3. r \subseteq Bufs
  BY <1>1, <1>2 DEF MemShape
<1>4. w \in BufIds
  BY <1>1, BufType DEF BlockShape, States, BufIds
<1>5. /\ block.step = "load"
      /\ block' = [block EXCEPT !.step = "use", !.mix = m, !.reads = r, !.writes = w]
  BY DEF Segment
<1>6. block \in Steps
  BY <1>1 DEF BlockShape
<1>7. m = {t \in Mixed(block.len) : s_buf[t] # NoBuf} /\ w = IF a.rec THEN s_buf[a.trk] ELSE NoBuf
  OBVIOUS
<1>8. \A n : n = m => r = {s_buf[t] : t \in n}
  OBVIOUS
<1> HIDE DEF m, r, w
<1>9. /\ block' \in Steps /\ block'.step = "use" /\ block'.len = block.len
      /\ block'.again = block.again /\ block'.mix = m /\ block'.reads = r /\ block'.writes = w
  BY <1>2, <1>3, <1>4, <1>5, <1>6 DEF Steps
<1> QED BY <1>5, <1>7, <1>8, <1>9

(* The transport and the block keep their types. *)
LEMMA BlockStep == ASSUME Shape, Moving, [Next]_vars PROVE BlockShape'
<1> USE DEF audio
<1>0. BlockShape
  BY Parts
<1>1. CASE BlockBegin
  <2>1. a' \in States /\ s_loop_frames' \in Units
    BY <1>1, Begins, Becomes
  <2>2. block' = block \/ block' = [Idle EXCEPT !.step = "load", !.len = s_loop_frames']
    BY <1>1, Begins
  <2>3. block' \in Steps
    BY <1>0, <2>1, <2>2, JobType DEF BlockShape
  <2> QED BY <2>1, <2>3 DEF BlockShape
<1>2. CASE Segment
  BY <1>0, <1>2, SegmentResult DEF Segment, BlockShape
<1>3. CASE Advance
  <2>1. a' \in States /\ s_loop_frames' \in Units
    BY <1>3, Advances
  <2> DEFINE n == IF block.len > 0 THEN block.len ELSE s_loop_frames'
  <2>2. block' = Idle \/ block' = [Idle EXCEPT !.step = "load", !.again = TRUE, !.len = n]
    BY <1>3, Advances
  <2>3. n \in Units
    BY <1>0, <2>1 DEF BlockShape, Steps
  <2> HIDE DEF n
  <2>4. block' \in Steps
    BY <2>2, <2>3, JobType
  <2> QED BY <2>1, <2>4 DEF BlockShape
<1>4. CASE ModeRec \/ FireTake
  BY <1>0, <1>4, TakeSteps DEF BlockShape
<1>5. CASE \/ \E m \in Moves : Write(m)
           \/ Notify \/ Beat \/ Fire
           \/ TakeEvents \/ PadTake \/ Mirror \/ CompactCopy \/ CompactSwap \/ CompactFree
           \/ TakeFlags \/ ModeSame \/ ModeArm \/ ModeCommand \/ GrowFree
           \/ ClearTrack \/ ResetDetach \/ ResetDone \/ FireNone
           \/ LoadRefused \/ LoadDetach \/ LoadRelease \/ LoadFill
           \/ UNCHANGED vars
  <2>1. UNCHANGED <<a, block>>
    BY <1>5 DEF Write, Notify, Beat, Fire, TakeEvents, PadTake, Mirror, CompactCopy, CompactSwap,
       CompactFree, TakeFlags, ModeSame, ModeArm, ModeCommand, GrowFree, ClearTrack, ResetDetach,
       ResetDone, FireNone, LoadRefused, LoadDetach, LoadRelease, LoadFill, vars
  <2> QED BY <1>0, <2>1 DEF BlockShape
<1> QED BY <1>1, <1>2, <1>3, <1>4, <1>5, Steps28, Zenon

(* Every step keeps every type. *)
LEMMA ShapeStep == ASSUME Shape, Moving, Memory, [Next]_vars PROVE Shape'
<1>1. MemShape' /\ ModeShape' /\ CmdShape' /\ JobShape' /\ BlockShape'
  BY MemStep, ModeStep, CmdStep, JobStep, BlockStep
<1>2. MailShape' /\ PlaceShape' /\ ArmShape' /\ LimitShape'
  BY MailStep, PlaceStep, ArmStep, LimitStep
<1>3. CtlShape'
  BY <1>2 DEF CtlShape, MailShape, PlaceShape, ArmShape, LimitShape
<1>4. a'.pos \in 0 .. Cap /\ a'.ramp \in 0 .. Ramp /\ a'.trk \in Tracks
  BY <1>1 DEF BlockShape, States, Spots, Fades
<1>5. TypeOK'
  BY <1>1, <1>4 DEF TypeOK, MemShape, ModeShape
<1> QED BY <1>1, <1>3, <1>5 DEF Shape

-----------------------------------------------------------------------------
(* The block's exchange in the variables: what each command does to the set   *)
(* and the transport.                                                       *)
SetSame  == UNCHANGED <<s_loop_frames, s_filled, s_pad>>
TakeSame == a'.rec = a.rec /\ a'.pending = a.pending
TakeOver == a'.rec = FALSE /\ a'.pending = FALSE
AtTop    == a'.ramp = 0 /\ a'.playing = FALSE /\ a'.pos = 0
TakeShut(keep) ==
  /\ ~a.rec => SetSame
  /\ a.rec /\ s_loop_frames = 0 =>
       /\ s_loop_frames' = a.pos /\ s_pad' = s_pad
       /\ s_filled' = IF a.pos > 0 THEN s_filled \cup {a.trk} ELSE s_filled
  /\ a.rec /\ s_loop_frames > 0 =>
       /\ s_loop_frames' = s_loop_frames /\ s_filled' = s_filled \ {a.trk}
       /\ s_pad' = IF keep /\ a.pos > 0 THEN [trk |-> a.trk, from |-> a.pos] ELSE s_pad
PosNow    == IF a.rec /\ s_loop_frames = 0 THEN 0 ELSE a.pos
StartsNow == a.ramp > 0 \/ s_loop_frames = 0 \/ (~a.playing /\ a.pos = 0)

BegunNone ==
  /\ SetSame /\ TakeSame /\ a'.trk = a.trk
  /\ a.ramp = 0 => a'.pos = a.pos /\ a'.playing = a.playing /\ a'.ramp = 0
  /\ a.ramp > 0 => \/ AtTop
                   \/ a'.ramp > 0 /\ a'.pos = a.pos /\ a'.playing = a.playing /\ s_loop_frames > 0
BegunStop ==
  /\ TakeShut(TRUE) /\ TakeOver /\ a'.trk = a.trk
  /\ \/ AtTop
     \/ /\ a.ramp = 0 /\ a.playing /\ a'.ramp > 0 /\ a'.playing = TRUE
        /\ s_loop_frames' > 0 /\ a'.pos = PosNow
BegunPlay ==
  /\ TakeShut(FALSE) /\ TakeOver /\ a'.trk = a.trk
  /\ a'.ramp = 0 /\ a'.playing = TRUE /\ a'.pos = IF a.ramp > 0 THEN 0 ELSE PosNow
BegunRec ==
  /\ SetSame /\ a'.ramp = 0
  /\ a.rec \/ a.pending =>
       TakeSame /\ a'.trk = a.trk /\ a'.pos = a.pos /\ a'.playing = a.playing /\ a.ramp = 0
  /\ ~a.rec /\ ~a.pending =>
       /\ a'.trk = s_cmd[2] /\ a'.playing = TRUE
       /\ StartsNow  => a'.rec = TRUE /\ a'.pending = FALSE /\ a'.pos = 0
       /\ ~StartsNow => a'.rec = FALSE /\ a'.pending = TRUE /\ a'.pos = a.pos
BegunDetach == SetSame /\ TakeOver /\ AtTop /\ a'.trk = a.trk

(* A block that begins does what its command says, in these variables. *)
LEMMA BeginCases ==
  ASSUME Shape, Moving, BlockBegin
  PROVE  /\ block.step = "idle" /\ s_cmd' = <<"none">>
         /\ \/ s_cmd[1] = "none" /\ BegunNone
            \/ s_cmd[1] = "stop" /\ BegunStop
            \/ s_cmd[1] = "play" /\ BegunPlay
            \/ s_cmd[1] = "rec" /\ s_cmd[2] \in Tracks /\ BegunRec
            \/ s_cmd[1] = "detach" /\ BegunDetach
         /\ a'.dec = IF a'.pos = 0 THEN Tracks ELSE a.dec
         /\ IF ~a'.playing \/ (s_loop_frames' = 0 /\ ~a'.rec)
            THEN Counted /\ UNCHANGED block
            ELSE /\ block' = [Idle EXCEPT !.step = "load", !.len = s_loop_frames']
                 /\ UNCHANGED boundaries
<1> DEFINE T == Transport
           y == After
<1>1. /\ block.step = "idle" /\ s_cmd' = <<"none">>
      /\ Goes(T, s_cmd, y) /\ y \in Trans /\ Become(y)
      /\ IF ~a'.playing \/ (s_loop_frames' = 0 /\ ~a'.rec)
         THEN Counted /\ UNCHANGED block
         ELSE /\ block' = [Idle EXCEPT !.step = "load", !.len = s_loop_frames']
              /\ UNCHANGED boundaries
  BY Begins
<1> HIDE DEF y
<1>2. /\ a'.pos = y.a.pos /\ a'.rec = y.a.rec /\ a'.pending = y.a.pending
      /\ a'.trk = y.a.trk /\ a'.playing = y.a.playing /\ a'.ramp = y.a.ramp
      /\ a'.dec = IF y.a.pos = 0 THEN Tracks ELSE y.a.dec
      /\ s_loop_frames' = y.len /\ s_filled' = y.filled /\ s_pad' = y.pad
  BY <1>1, Becomes
<1>3. /\ T.a = a /\ T.len = s_loop_frames /\ T.filled = s_filled /\ T.pad = s_pad
  BY TransportType
<1> HIDE DEF T
<1>4. /\ s_cmd[1] \in {"none", "stop", "play", "rec", "detach"}
      /\ s_cmd[1] = "rec" => s_cmd[2] \in Tracks
      /\ a.ramp \in Nat
      /\ a.ramp > 0 => ~a.rec /\ ~a.pending
  BY Numbers DEF Shape, CmdShape, BlockShape, States, Moving
<1>5. y.a.dec = a.dec
  <2>1. CASE s_cmd[1] = "none"
    BY <1>1, <1>3, <2>1, Zenon DEF Goes, SameTrack
  <2>2. CASE s_cmd[1] \in {"stop", "play", "detach"}
    BY <1>1, <1>3, <2>2 DEF Goes, SameTrack
  <2>3. CASE s_cmd[1] = "rec"
    BY <1>1, <1>3, <2>3 DEF Goes
  <2> QED BY <1>4, <2>1, <2>2, <2>3
<1>6. CASE s_cmd[1] = "none"
  <2>1. SetSame /\ TakeSame /\ a'.trk = a.trk
    BY <1>1, <1>2, <1>3, <1>6 DEF Goes, SameSet, SameTake, SameTrack, SetSame, TakeSame
  <2>2. a.ramp = 0 => a'.pos = a.pos /\ a'.playing = a.playing /\ a'.ramp = 0
    BY <1>1, <1>2, <1>3, <1>6 DEF Goes
  <2>3. a.ramp > 0 =>
          \/ AtTop
          \/ a'.ramp > 0 /\ a'.pos = a.pos /\ a'.playing = a.playing /\ s_loop_frames > 0
    BY <1>1, <1>2, <1>3, <1>6 DEF Goes, Rewound, AtTop
  <2> QED BY <1>1, <1>2, <1>5, <1>6, <2>1, <2>2, <2>3 DEF BegunNone
<1>7. CASE s_cmd[1] = "stop"
  <2>1. TakeShut(TRUE)
    BY <1>1, <1>2, <1>3, <1>7 DEF Goes, Closed, TakeShut, SetSame
  <2>2. TakeOver /\ a'.trk = a.trk
    BY <1>1, <1>2, <1>3, <1>7 DEF Goes, NoTake, SameTrack, TakeOver
  <2>3. \/ AtTop
        \/ /\ a.ramp = 0 /\ a.playing /\ a'.ramp > 0 /\ a'.playing = TRUE
           /\ s_loop_frames' > 0 /\ a'.pos = PosNow
    BY <1>1, <1>2, <1>3, <1>7 DEF Goes, Rewound, AtTop, Top, PosNow
  <2> QED BY <1>1, <1>2, <1>5, <1>7, <2>1, <2>2, <2>3 DEF BegunStop
<1>8. CASE s_cmd[1] = "play"
  <2>1. TakeShut(FALSE)
    BY <1>1, <1>2, <1>3, <1>8 DEF Goes, Closed, TakeShut, SetSame
  <2>2. TakeOver /\ a'.trk = a.trk
    BY <1>1, <1>2, <1>3, <1>8 DEF Goes, NoTake, SameTrack, TakeOver
  <2>3. a'.ramp = 0 /\ a'.playing = TRUE /\ a'.pos = IF a.ramp > 0 THEN 0 ELSE PosNow
    BY <1>1, <1>2, <1>3, <1>8 DEF Goes, Top, PosNow
  <2> QED BY <1>1, <1>2, <1>5, <1>8, <2>1, <2>2, <2>3 DEF BegunPlay
<1>9. CASE s_cmd[1] = "rec"
  <2>1. SetSame /\ a'.ramp = 0
    BY <1>1, <1>2, <1>3, <1>9 DEF Goes, SameSet, SetSame
  <2>2. a.rec \/ a.pending =>
          TakeSame /\ a'.trk = a.trk /\ a'.pos = a.pos /\ a'.playing = a.playing /\ a.ramp = 0
    BY <1>1, <1>2, <1>3, <1>4, <1>9 DEF Goes, TakeSame
  <2>3. ~a.rec /\ ~a.pending =>
          /\ a'.trk = s_cmd[2] /\ a'.playing = TRUE
          /\ StartsNow  => a'.rec = TRUE /\ a'.pending = FALSE /\ a'.pos = 0
          /\ ~StartsNow => a'.rec = FALSE /\ a'.pending = TRUE /\ a'.pos = a.pos
    BY <1>1, <1>2, <1>3, <1>9 DEF Goes, FromTop, StartsNow
  <2> QED BY <1>1, <1>2, <1>4, <1>5, <1>9, <2>1, <2>2, <2>3 DEF BegunRec
<1>10. CASE s_cmd[1] = "detach"
  <2>1. SetSame /\ TakeOver /\ AtTop /\ a'.trk = a.trk
    BY <1>1, <1>2, <1>3, <1>10 DEF Goes, SameSet, SetSame, NoTake, TakeOver, Rewound, AtTop,
       SameTrack
  <2> QED BY <1>1, <1>2, <1>5, <1>10, <2>1 DEF BegunDetach
<1> QED BY <1>4, <1>6, <1>7, <1>8, <1>9, <1>10

-----------------------------------------------------------------------------
(* The transport, the memory and the handshakes. *)

(* The positions and flags of the transport, and of the block, for the provers. *)
LEMMA Kinds ==
  ASSUME Shape
  PROVE  /\ a.pos \in Nat /\ a.pos < Cap /\ a.ramp \in Nat /\ a.trk \in Tracks
         /\ a.rec \in BOOLEAN /\ a.pending \in BOOLEAN /\ a.playing \in BOOLEAN
         /\ a.dec \subseteq Tracks
         /\ block.len \in Nat /\ block.len <= Cap /\ block.step \in {"idle", "load", "use"}
         /\ block.mix \subseteq Tracks /\ block.reads \subseteq Bufs
         /\ block.writes \in Bufs \cup {NoBuf}
         /\ s_loop_frames \in Nat /\ s_loop_frames <= Cap /\ s_filled \subseteq Tracks
         /\ s_rec_limit \in Nat /\ s_rec_limit > 0 /\ s_rec_limit <= Cap
<1>1. /\ a.pos \in Spots /\ a.ramp \in Fades /\ a.trk \in Tracks
      /\ a.rec \in BOOLEAN /\ a.pending \in BOOLEAN /\ a.playing \in BOOLEAN
      /\ a.dec \subseteq Tracks
  BY DEF Shape, BlockShape, States, Bit
<1>2. /\ block.len \in Units /\ block.step \in {"idle", "load", "use"}
      /\ block.mix \subseteq Tracks /\ block.reads \subseteq Bufs
      /\ block.writes \in Bufs \cup {NoBuf}
  BY DEF Shape, BlockShape, Steps, BufIds
<1>3. s_loop_frames \in Units /\ s_filled \subseteq Tracks /\ s_rec_limit \in 1 .. Cap
  BY Parts, CtlParts DEF MemShape, LimitShape, Units
<1> QED BY <1>1, <1>2, <1>3, Numbers

(* A block that has not loaded its tracks yet holds no buffer. *)
Empty(b) == b.mix = {} /\ b.reads = {} /\ b.writes = NoBuf
Loading(b, n) == b.step = "load" /\ b.len = n /\ Empty(b)
(* The block at rest, and one about to load. *)
LEMMA IdleFact ==
  /\ Idle.step = "idle" /\ Idle.len = 0 /\ Empty(Idle)
  /\ \A n : Loading([Idle EXCEPT !.step = "load", !.len = n], n)
  /\ \A n : Loading([Idle EXCEPT !.step = "load", !.again = TRUE, !.len = n], n)
BY DEF Idle, Empty, Loading

(* Every step keeps the transport as Moving says. *)
LEMMA MovingStep == ASSUME Shape, Moving, [Next]_vars PROVE Moving'
<1> USE DEF audio
<1>1. CASE BlockBegin
  <2>1. /\ block.step = "idle"
        /\ \/ s_cmd[1] = "none" /\ BegunNone
           \/ s_cmd[1] = "stop" /\ BegunStop
           \/ s_cmd[1] = "play" /\ BegunPlay
           \/ s_cmd[1] = "rec" /\ s_cmd[2] \in Tracks /\ BegunRec
           \/ s_cmd[1] = "detach" /\ BegunDetach
        /\ IF ~a'.playing \/ (s_loop_frames' = 0 /\ ~a'.rec)
           THEN UNCHANGED block
           ELSE block' = [Idle EXCEPT !.step = "load", !.len = s_loop_frames']
    BY <1>1, BeginCases
  <2>2. block'.step # "idle" => a'.playing /\ (block'.len = 0 => a'.rec)
    <3>1. CASE ~a'.playing \/ (s_loop_frames' = 0 /\ ~a'.rec)
      BY <2>1, <3>1
    <3>2. CASE ~(~a'.playing \/ (s_loop_frames' = 0 /\ ~a'.rec))
      <4>1. Loading(block', s_loop_frames')
        BY <2>1, <3>2, IdleFact
      <4> QED BY <3>2, <4>1 DEF Loading
    <3> QED BY <3>1, <3>2
  <2>3. /\ a'.ramp > 0 => ~a'.rec /\ ~a'.pending /\ a'.playing
        /\ a'.rec => a'.playing /\ ~a'.pending
        /\ a'.pending => a'.playing
        /\ ~a'.playing => a'.pos = 0
    <3> USE Kinds DEF Moving, TakeSame, TakeOver, AtTop
    <3>1. CASE BegunNone
      BY <3>1 DEF BegunNone
    <3>2. CASE BegunStop
      BY <3>2 DEF BegunStop
    <3>4. CASE BegunPlay
      BY <3>4 DEF BegunPlay
    <3>5. CASE BegunDetach
      BY <3>5 DEF BegunDetach
    <3>3. CASE BegunRec
      BY <3>3 DEF BegunRec
    <3> QED BY <2>1, <3>1, <3>2, <3>3, <3>4, <3>5
  <2> QED BY <2>2, <2>3 DEF Moving
<1>2. CASE Segment
  BY <1>2, SegmentResult DEF Segment, Moving
<1>3. CASE Advance
  <2>1. /\ block.step = "use" /\ a.playing /\ (block.len = 0 => a.rec)
    BY <1>3, Advances DEF Moving
  <2>2. block'.step # "idle" => a'.playing /\ (block'.len = 0 => a'.rec)
    <3>1. \/ block' = Idle
          \/ /\ Ends
             /\ block' = [Idle EXCEPT !.step = "load", !.again = TRUE,
                            !.len = IF block.len > 0 THEN block.len ELSE s_loop_frames']
      BY <1>3, Advances
    <3>2. block'.step # "idle" =>
            Ends /\ block'.len = IF block.len > 0 THEN block.len ELSE s_loop_frames'
      BY <3>1, IdleFact DEF Loading
    <3>3. Ends /\ block.len = 0 => s_loop_frames' > 0
      BY <1>3, Advances, Kinds
    <3>4. a'.playing
      BY <1>3, <2>1, Advances
    <3>5. block'.step # "idle" => block'.len # 0
      BY <3>2, <3>3, Kinds
    <3> QED BY <3>4, <3>5
  <2>3. CASE ~Ends
    BY <1>3, <2>1, <2>2, <2>3, Advances DEF Moving
  <2>4. CASE Ends /\ block.len > 0
    BY <1>3, <2>1, <2>2, <2>4, Advances DEF Moving
  <2>5. CASE Ends /\ block.len = 0
    BY <1>3, <2>1, <2>2, <2>5, Advances DEF Moving
  <2> QED BY <2>3, <2>4, <2>5, Kinds
<1>4. CASE ModeRec \/ FireTake
  BY <1>4, TakeSteps DEF Moving
<1>5. CASE \/ \E m \in Moves : Write(m)
           \/ Notify \/ Beat \/ Fire
           \/ TakeEvents \/ PadTake \/ Mirror \/ CompactCopy \/ CompactSwap \/ CompactFree
           \/ TakeFlags \/ ModeSame \/ ModeArm \/ ModeCommand \/ GrowFree
           \/ ClearTrack \/ ResetDetach \/ ResetDone \/ FireNone
           \/ LoadRefused \/ LoadDetach \/ LoadRelease \/ LoadFill
           \/ UNCHANGED vars
  <2>1. UNCHANGED <<a, block>>
    BY <1>5 DEF Write, Notify, Beat, Fire, TakeEvents, PadTake, Mirror, CompactCopy, CompactSwap,
       CompactFree, TakeFlags, ModeSame, ModeArm, ModeCommand, GrowFree, ClearTrack, ResetDetach,
       ResetDone, FireNone, LoadRefused, LoadDetach, LoadRelease, LoadFill, vars
  <2> QED BY <2>1 DEF Moving
<1> QED BY <1>1, <1>2, <1>3, <1>4, <1>5, Steps28, Zenon

(* The steps that leave the set, the heap, the audio task and its command. *)
Easy  == {"wait", "flags", "handle", "mirror", "compact"}
Aside == /\ UNCHANGED <<s_cmd, s_loop_frames, s_filled, s_buf, s_rec_limit, s_pad, mem, live, a,
                        block, lates, overtaken, boundaries>>
         /\ \/ UNCHANGED <<pc, job>>
            \/ pc \in Easy /\ pc' \in Easy /\ (pc' = "compact" => s_loop_frames # 0)

(* The player's, the clock's and loop_ctl's bookkeeping are such. *)
LEMMA AsideSteps ==
  ASSUME \/ \E m \in Moves : Write(m)
         \/ Notify \/ Beat \/ Fire \/ Mirror \/ TakeFlags \/ ModeSame \/ ModeArm
         \/ FireNone \/ LoadRefused \/ UNCHANGED vars
  PROVE  Aside
<1> USE DEF set, heap, audio, ctl, mail, past
<1>1. CASE \/ \E m \in Moves : Write(m)
           \/ Notify \/ Beat \/ Fire \/ UNCHANGED vars
  BY <1>1 DEF Write, Notify, Beat, Fire, vars, Aside
<1>2. CASE Mirror \/ TakeFlags \/ ModeSame \/ ModeArm \/ FireNone \/ LoadRefused
  BY <1>2 DEF Mirror, TakeFlags, ModeSame, ModeArm, FireNone, LoadRefused, Turn, Handled,
     Aside, Easy
<1> QED BY <1>1, <1>2

(* The steps, those grouped. *)
LEMMA StepGroups ==
  ASSUME [Next]_vars
  PROVE  \/ Aside \/ BlockBegin \/ Segment \/ Advance
         \/ TakeEvents \/ PadTake \/ CompactCopy \/ CompactSwap \/ CompactFree
         \/ ModeCommand \/ (ModeRec \/ FireTake) \/ GrowFree
         \/ ClearTrack \/ ResetDetach \/ ResetDone
         \/ LoadDetach \/ LoadRelease \/ LoadFill
BY Steps28, AsideSteps, Zenon

(* The buffers a block holds: none before it has loaded its tracks, then       *)
(* those of the set.                                                        *)
LEMMA UsedBegin ==
  ASSUME Shape, Moving, Memory, BlockBegin
  PROVE  Used = {} /\ Used' = {}
<1>1. block.step = "idle" /\ Used = {}
  BY BeginCases DEF Memory
<1>2. block' = block \/ block' = [Idle EXCEPT !.step = "load", !.len = s_loop_frames']
  BY BeginCases
<1>3. Loading([Idle EXCEPT !.step = "load", !.len = s_loop_frames'], s_loop_frames')
  BY IdleFact
<1>4. CASE block' = block
  BY <1>1, <1>4 DEF Used
<1>5. CASE block' = [Idle EXCEPT !.step = "load", !.len = s_loop_frames']
  <2>1. block'.reads = {} /\ block'.writes = NoBuf
    BY <1>3, <1>5 DEF Loading, Empty
  <2> QED BY <1>1, <2>1 DEF Used
<1> QED BY <1>2, <1>4, <1>5

(* A block that has rendered its segment lets go of its buffers. *)
LEMMA UsedAdvance ==
  ASSUME Shape, Advance
  PROVE  Used' = {} /\ block'.step # "use"
<1> DEFINE n == IF block.len > 0 THEN block.len ELSE s_loop_frames'
<1>1. block' = Idle \/ block' = [Idle EXCEPT !.step = "load", !.again = TRUE, !.len = n]
  BY Advances
<1>2. Loading([Idle EXCEPT !.step = "load", !.again = TRUE, !.len = n], n) /\ Empty(Idle)
  BY IdleFact
<1> HIDE DEF n
<1>3. block'.reads = {} /\ block'.writes = NoBuf /\ block'.step # "use"
  BY <1>1, <1>2, IdleFact DEF Loading, Empty
<1> QED BY <1>3 DEF Used

(* A block takes hold of buffers of the set. *)
LEMMA UsedSegment ==
  ASSUME Shape, Segment
  PROVE  \A b \in Used' : b # NoBuf /\ \E t \in Tracks : s_buf[t] = b
<1>1. /\ block'.reads = {s_buf[t] : t \in block'.mix}
      /\ block'.mix = {t \in Mixed(block.len) : s_buf[t] # NoBuf}
      /\ block'.writes = IF a.rec THEN s_buf[a.trk] ELSE NoBuf
  BY SegmentResult
<1>2. block'.mix \subseteq Tracks /\ a.trk \in Tracks
  BY SegmentResult, Kinds DEF Steps
<1> QED BY <1>1, <1>2 DEF Used

(* Every step keeps the buffers apart, and live while a block holds them. *)
LEMMA MemoryStep == ASSUME Shape, Moving, Memory, LetGo, [Next]_vars PROVE Memory'
<1> USE DEF set, heap, audio, ctl
<1>0. MemShape
  BY Parts
<1>1. CASE Aside
  BY <1>1 DEF Aside, Easy, Memory, Used
<1>2. CASE BlockBegin
  <2>1. UNCHANGED <<s_buf, live, pc, job>>
    BY <1>2 DEF BlockBegin
  <2> QED BY <2>1, <1>2, UsedBegin DEF Memory
<1>3. CASE Advance
  <2>1. UNCHANGED <<s_buf, live, pc, job>>
    BY <1>3 DEF Advance
  <2> QED BY <2>1, <1>3, UsedAdvance DEF Memory
<1>4. CASE Segment
  <2>1. UNCHANGED <<s_buf, live, pc, job, boundaries>>
    BY <1>4 DEF Segment
  <2>2. Used' \subseteq live
    BY <1>0, <1>4, UsedSegment DEF MemShape
  <2>3. pc \in {"grow", "shrink"} => job.buf \notin Used'
    BY <1>4, UsedSegment DEF Memory
  <2>4. block'.step = "use"
    BY <1>4, SegmentResult
  <2> QED BY <2>1, <2>2, <2>3, <2>4 DEF Memory
<1>5. CASE TakeEvents \/ PadTake \/ ModeCommand \/ ClearTrack \/ ResetDetach \/ LoadDetach
  <2>1. UNCHANGED <<s_buf, live, block>>
    BY <1>5 DEF TakeEvents, PadTake, ModeCommand, ClearTrack, ResetDetach, LoadDetach
  <2>2. pc' \notin {"grow", "swap", "shrink"}
    BY <1>5 DEF TakeEvents, PadTake, ModeCommand, ClearTrack, ResetDetach, LoadDetach, Handled
  <2> QED BY <2>1, <2>2 DEF Memory, Used
<1>6. CASE CompactCopy
  <2>1. UNCHANGED <<s_buf, block>>
    BY <1>6 DEF CompactCopy
  <2>2. CASE pc' = "flags"
    <3>1. live \subseteq live'
      BY <1>6 DEF CompactCopy
    <3> QED BY <2>1, <2>2, <3>1 DEF Memory, Used
  <2>3. CASE pc' # "flags"
    <3>1. PICK t \in Tracks, b \in Bufs \ live : /\ job' = [NoJob EXCEPT !.trk = t, !.buf = b]
                                               /\ pc' = "swap" /\ live' = live \cup {b}
      BY <1>6, <2>3 DEF CompactCopy, Oversize, Malloc
    <3>2. job'.buf = b
      BY <3>1 DEF NoJob
    <3>3. \A u \in Tracks : s_buf[u] # b
      BY <1>0, <3>1 DEF MemShape, NoBuf
    <3> QED BY <2>1, <3>1, <3>2, <3>3 DEF Memory, Used
  <2> QED BY <2>2, <2>3
<1>7. CASE CompactSwap
  <2>1. /\ pc = "swap" /\ s_buf' = [s_buf EXCEPT ![job.trk] = job.buf] /\ UNCHANGED <<live, block>>
        /\ job' = [job EXCEPT !.buf = s_buf[job.trk]] /\ boundaries' = 0 /\ pc' = "shrink"
    BY <1>7 DEF CompactSwap
  <2>2. job.trk \in Tracks /\ job.buf \in live /\ job.buf # NoBuf /\ job'.buf = s_buf[job.trk]
    BY <1>0, <2>1 DEF Shape, JobShape, Jobs, Memory, MemShape, NoBuf
  <2>3. \A t \in Tracks : s_buf'[t] = IF t = job.trk THEN job.buf ELSE s_buf[t]
    BY <1>0, <2>1, <2>2 DEF MemShape
  <2>4. \A t \in Tracks : s_buf[t] # job.buf
    BY <2>1, <2>2 DEF Memory
  <2>5. \A t, u \in Tracks : s_buf'[t] # NoBuf /\ s_buf'[t] = s_buf'[u] => t = u
    BY <2>3, <2>4 DEF Memory
  <2>6. job'.buf # NoBuf => \A t \in Tracks : s_buf'[t] # job'.buf
    BY <2>2, <2>3, <2>4 DEF Memory
  <2> QED BY <2>1, <2>5, <2>6 DEF Memory, Used
<1>8. CASE CompactFree \/ GrowFree
  <2>1. PICK settled \in BOOLEAN : Await(settled) /\ Freed({job.buf}, settled)
    BY <1>8 DEF CompactFree, GrowFree
  <2>2. UNCHANGED <<s_buf, block>> /\ pc \in {"grow", "shrink"} /\ pc' \in Easy
    BY <1>8 DEF CompactFree, GrowFree, Easy
  <2>3. settled => boundaries = 2
    BY <2>1, AwaitResult, Parts, CtlParts DEF LimitShape
  <2>4. Used \subseteq live'
    BY <2>1, <2>2, <2>3, FreedResult DEF Memory
  <2> QED BY <2>2, <2>4 DEF Memory, Used, Easy
<1>9. CASE ModeRec \/ FireTake
  <2>1. PICK t \in Tracks, armed \in BOOLEAN, flag \in {"mode", "fire"} :
              \/ TakeNow(t, armed, flag) \/ TakeGrows(t, armed, flag)
              \/ TakeRefused(armed, flag)
    BY <1>9, TakeSteps
  <2>2. UNCHANGED block
    BY <1>9, TakeSteps
  <2>3. CASE \E size \in 1 .. Cap, b \in Bufs : Got(t, size, b)
    <3>1. PICK size \in 1 .. Cap, b \in Bufs : Got(t, size, b)
      BY <2>3
    <3>2. /\ b \in Bufs \ live /\ live' = live \cup {b} /\ b # NoBuf
          /\ \A u \in Tracks : s_buf'[u] = IF u = t THEN b ELSE s_buf[u]
      BY <1>0, <3>1 DEF Got, MemShape, NoBuf
    <3>3. \A u \in Tracks : s_buf[u] # b
      BY <1>0, <3>2 DEF MemShape
    <3>4. \A u, v \in Tracks : s_buf'[u] # NoBuf /\ s_buf'[u] = s_buf'[v] => u = v
      BY <3>2, <3>3 DEF Memory
    <3>5. CASE TakeGrows(t, armed, flag)
      <4>1. job'.buf = s_buf[t] /\ pc' = "grow" /\ boundaries' = 0 /\ s_buf[t] # NoBuf
        BY <3>5 DEF TakeGrows, NoJob
      <4>2. \A u \in Tracks : s_buf'[u] # job'.buf
        BY <3>2, <3>3, <4>1 DEF Memory
      <4> QED BY <2>2, <3>2, <3>4, <4>1, <4>2 DEF Memory, Used
    <3>6. CASE TakeNow(t, armed, flag) \/ TakeRefused(armed, flag)
      <4>1. pc' \in Easy
        BY <3>6 DEF TakeNow, TakeRefused, Handled, Easy
      <4> QED BY <2>2, <3>2, <3>4, <4>1 DEF Memory, Used, Easy
    <3> QED BY <2>1, <3>5, <3>6
  <2>4. CASE ~ \E size \in 1 .. Cap, b \in Bufs : Got(t, size, b)
    <3>1. UNCHANGED <<s_buf, live>> /\ pc' \in Easy
      BY <2>1, <2>4 DEF TakeNow, TakeGrows, TakeRefused, Handled, Easy
    <3> QED BY <2>2, <3>1 DEF Memory, Used, Easy
  <2> QED BY <2>3, <2>4
<1>10. CASE ResetDone \/ LoadRelease
  <2>1. PICK settled \in BOOLEAN : Await(settled) /\ Release(settled)
    BY <1>10 DEF ResetDone, LoadRelease
  <2>2. UNCHANGED block /\ pc \in {"reset", "release"} /\ pc' \in Easy \cup {"fill"}
    BY <1>10 DEF ResetDone, LoadRelease, Easy
  <2>3. settled => boundaries = 2
    BY <2>1, AwaitResult, Parts, CtlParts DEF LimitShape
  <2>4. settled => Used = {}
    BY <2>2, <2>3 DEF LetGo, Quiet, Memory
  <2>5. Used \subseteq live'
    <3>1. CASE settled
      BY <2>4, <3>1
    <3>2. CASE ~settled
      BY <2>1, <3>2, FreedResult DEF Release, Memory
    <3> QED BY <3>1, <3>2
  <2>6. \A t \in Tracks : s_buf'[t] = NoBuf
    BY <2>1 DEF Release
  <2> QED BY <2>2, <2>5, <2>6 DEF Memory, Used, Easy
<1>11. CASE LoadFill
  <2>1. PICK len \in 1 .. Cap, loaded \in SUBSET Tracks :
           \E at \in [loaded -> Bufs \ live] : Loaded(len, loaded, at)
    BY <1>11, LoadFillResult
  <2>2. PICK at \in [loaded -> Bufs \ live] : Loaded(len, loaded, at)
    BY <2>1
  <2>3. UNCHANGED block /\ pc' \in Easy
    BY <1>11 DEF LoadFill, Easy
  <2>4. live \subseteq live'
    BY <2>2 DEF Loaded
  <2>5. \A t \in Tracks : s_buf'[t] = IF t \in loaded THEN at[t] ELSE NoBuf
    BY <2>2 DEF Loaded
  <2>6. \A t, u \in Tracks : s_buf'[t] # NoBuf /\ s_buf'[t] = s_buf'[u] => t = u
    BY <2>2, <2>5 DEF Loaded
  <2> QED BY <2>3, <2>4, <2>6 DEF Memory, Used, Easy
<1> QED BY <1>1, <1>2, <1>3, <1>4, <1>5, <1>6, <1>7, <1>8, <1>9, <1>10, <1>11, StepGroups, Zenon

(* Where loop_ctl waits for the set to be let go of, and how far that is. *)
Waits   == {"reset", "release"}
Waiting == \/ s_cmd[1] = "detach" /\ (boundaries = 0 \/ (boundaries = 1 /\ block.step = "idle"))
           \/ boundaries > 0 /\ Quiet

(* Every step keeps the handshake that lets go of the set. *)
LEMMA LetGoStep == ASSUME Shape, Moving, Memory, LetGo, [Next]_vars PROVE LetGo'
<1> USE DEF set, heap, audio, ctl, mail, past, Waits
<1>0. LimitShape /\ boundaries \in 0 .. 2 /\ MemShape /\ CmdShape
  BY Parts, CtlParts DEF ModeShape
<1>a. /\ pc \in Waits => Waiting
      /\ s_cmd[1] = "detach" /\ lates = 0 => pc \in Waits
      /\ pc = "fill" => \A t \in Tracks : s_buf[t] = NoBuf
      /\ pc = "fill" /\ lates = 0 =>
           Quiet /\ s_loop_frames = 0 /\ s_filled = {} /\ (~overtaken => s_pad = NoPad)
  BY DEF LetGo, Waiting
<1>b. SUFFICES /\ pc' \in Waits => Waiting'
               /\ s_cmd'[1] = "detach" /\ lates' = 0 => pc' \in Waits
               /\ pc' = "fill" => \A t \in Tracks : s_buf'[t] = NoBuf
               /\ pc' = "fill" /\ lates' = 0 =>
                    /\ Quiet' /\ s_loop_frames' = 0 /\ s_filled' = {}
                    /\ ~overtaken' => s_pad' = NoPad
  BY DEF LetGo, Waiting
<1>1. CASE Aside
  <2>1. UNCHANGED <<s_cmd, s_loop_frames, s_filled, s_buf, s_pad, a, block, lates,
                   overtaken, boundaries>>
    BY <1>1 DEF Aside
  <2>2. pc' = pc \/ (pc \in Easy /\ pc' \in Easy)
    BY <1>1 DEF Aside
  <2> QED BY <1>a, <2>1, <2>2 DEF Waiting, Quiet, Easy
<1>2. CASE BlockBegin
  <2>1. UNCHANGED <<pc, s_buf, lates, overtaken>> /\ s_cmd'[1] = "none" /\ block.step = "idle"
    BY <1>2, BeginCases DEF BlockBegin
  <2>2. CASE s_cmd[1] = "detach"
    <3>1. BegunDetach
      BY <1>2, <2>2, BeginCases
    <3>2. Counted /\ block' = block
      BY <1>2, <3>1, BeginCases DEF BegunDetach, AtTop
    <3>3. Quiet'
      BY <2>1, <3>1, <3>2 DEF BegunDetach, AtTop, TakeOver, Quiet
    <3>4. boundaries' > 0
      BY <1>0, <3>2 DEF Counted
    <3>5. pc = "fill" => lates # 0
      BY <1>a, <2>2
    <3> QED BY <1>a, <2>1, <3>3, <3>4, <3>5 DEF Waiting
  <2>3. CASE Quiet
    <3>1. BegunNone
      BY <1>2, <2>3, BeginCases DEF Quiet
    <3>2. a'.playing = a.playing /\ a'.ramp = 0 /\ TakeSame /\ SetSame
      BY <2>3, <3>1 DEF BegunNone, Quiet
    <3>3. Counted /\ block' = block
      BY <1>2, <2>3, <3>2, BeginCases DEF Quiet
    <3>4. Quiet' /\ boundaries' > 0
      BY <1>0, <2>1, <2>3, <3>2, <3>3 DEF Quiet, TakeSame, Counted
    <3> QED BY <1>a, <2>1, <3>2, <3>4 DEF Waiting, SetSame
  <2>4. CASE s_cmd[1] # "detach" /\ ~Quiet
    BY <1>a, <2>1, <2>4 DEF Waiting
  <2> QED BY <2>2, <2>3, <2>4
<1>3. CASE Segment
  <2>1. UNCHANGED <<pc, s_buf, lates, overtaken, s_cmd, boundaries>> /\ block.step = "load"
    BY <1>3 DEF Segment
  <2>2. ~Quiet
    BY <2>1 DEF Quiet
  <2> QED BY <1>a, <2>1, <2>2 DEF Waiting
<1>4. CASE Advance
  <2>1. UNCHANGED <<pc, s_buf, lates, overtaken, s_cmd>> /\ block.step = "use"
    BY <1>4 DEF Advance
  <2>2. ~Quiet
    BY <2>1 DEF Quiet
  <2>3. boundaries' = boundaries \/ (block' = Idle /\ Counted)
    BY <1>4, Advances
  <2>4. boundaries = 0 => boundaries' = 0 \/ (boundaries' = 1 /\ block'.step = "idle")
    <3>1. Idle.step = "idle"
      BY DEF Idle
    <3> QED BY <1>0, <2>3, <3>1 DEF Counted
  <2> QED BY <1>a, <2>1, <2>2, <2>4 DEF Waiting
<1>5. CASE TakeEvents \/ PadTake \/ CompactCopy \/ CompactSwap \/ CompactFree \/ ClearTrack
  <2>1. /\ UNCHANGED s_cmd /\ pc \notin Waits /\ pc' \notin Waits /\ pc' # "fill"
    BY <1>5 DEF TakeEvents, PadTake, CompactCopy, CompactSwap, CompactFree, ClearTrack, Turn,
       Handled
  <2>2. lates' = 0 => lates = 0
    <3>1. CASE UNCHANGED lates
      BY <3>1
    <3>2. CASE \E settled \in BOOLEAN : Await(settled)
      BY <1>0, <3>2, AwaitResult DEF LimitShape
    <3> QED BY <1>5, <3>1, <3>2
            DEF TakeEvents, PadTake, CompactCopy, CompactSwap, CompactFree, ClearTrack
  <2> QED BY <1>a, <2>1, <2>2
<1>6. CASE ModeCommand \/ GrowFree
  <2>1. s_cmd' = <<"play">> \/ s_cmd' = <<"stop">> \/ \E t : s_cmd' = <<"rec", t>>
    BY <1>6 DEF ModeCommand, GrowFree, Commanded
  <2>2. s_cmd'[1] # "detach"
    BY <2>1
  <2>3. pc' \in {"wait", "handle"}
    BY <1>6 DEF ModeCommand, GrowFree, Handled
  <2> QED BY <2>2, <2>3
<1>7. CASE ModeRec \/ FireTake
  <2>1. PICK t \in Tracks, armed \in BOOLEAN, flag \in {"mode", "fire"} :
              \/ TakeNow(t, armed, flag) \/ TakeGrows(t, armed, flag)
              \/ TakeRefused(armed, flag)
    BY <1>7, TakeSteps
  <2>2. pc = "handle" /\ UNCHANGED lates
    BY <1>7, TakeSteps
  <2>3. /\ s_cmd' = s_cmd \/ s_cmd' = <<"rec", t>>
        /\ pc' \in {"wait", "handle", "grow"}
    BY <2>1 DEF TakeNow, TakeGrows, TakeRefused, Commanded, Handled
  <2> QED BY <1>a, <2>2, <2>3
<1>8. CASE ResetDetach \/ LoadDetach
  <2>1. s_cmd' = <<"detach">> /\ boundaries' = 0 /\ pc' \in Waits
    BY <1>8 DEF ResetDetach, LoadDetach
  <2> QED BY <2>1 DEF Waiting
<1>9. CASE ResetDone \/ LoadRelease
  <2>1. PICK settled \in BOOLEAN : Await(settled) /\ Release(settled)
    BY <1>9 DEF ResetDone, LoadRelease
  <2>2. /\ UNCHANGED <<s_cmd, a, block, s_pad>> /\ pc \in Waits /\ pc' \notin Waits
    BY <1>9 DEF ResetDone, LoadRelease
  <2>3. lates' = 0 => settled /\ boundaries = 2
    BY <1>0, <2>1, AwaitResult DEF LimitShape
  <2>4. lates' = 0 => Quiet
    BY <1>a, <2>2, <2>3 DEF Waiting
  <2>5. \A t \in Tracks : s_buf'[t] = NoBuf
    BY <2>1 DEF Release
  <2>6. s_loop_frames' = 0 /\ s_filled' = {}
    BY <2>1 DEF Release
  <2>7. pc' = "fill" => (~overtaken' => s_pad' = NoPad)
    BY <1>9, <2>2 DEF ResetDone, LoadRelease, MovesOn
  <2> QED BY <2>2, <2>4, <2>5, <2>6, <2>7 DEF Quiet
<1>10. CASE LoadFill
  BY <1>a, <1>10 DEF LoadFill
<1> QED BY <1>1, <1>2, <1>3, <1>4, <1>5, <1>6, <1>7, <1>8, <1>9, <1>10, StepGroups, Zenon

(* An arm is cancelled with its beats and its flag, unless its last beat is    *)
(* being counted; nothing else stands in for it.                            *)
LEMMA StandingStep == ASSUME Shape, Standing, [Next]_vars PROVE Standing'
<1> USE DEF arm, past, vars
<1>1. CASE \/ \E m \in Moves : Write(m)
           \/ Notify \/ BlockBegin \/ Segment \/ Advance
           \/ TakeEvents \/ PadTake \/ Mirror \/ CompactCopy \/ CompactSwap \/ CompactFree
           \/ TakeFlags \/ ModeSame \/ GrowFree
           \/ ResetDone \/ FireNone \/ LoadRefused \/ LoadDetach \/ LoadRelease \/ LoadFill
           \/ UNCHANGED vars
  <2>1. UNCHANGED <<s_arm_beats, s_arm_fire, clk, standing>>
    BY <1>1 DEF Write, Notify, BlockBegin, Segment, Advance,
           TakeEvents, PadTake, Mirror, CompactCopy, CompactSwap, CompactFree,
           TakeFlags, ModeSame, GrowFree, MovesOn,
           ResetDone, FireNone, LoadRefused, LoadDetach, LoadRelease, LoadFill
  <2> QED BY <2>1 DEF Standing
<1>2. CASE ModeRec
  BY <1>2 DEF ModeRec, StartRec, Standing
<1>3. CASE Beat \/ Fire
  BY <1>3 DEF Beat, Fire, Standing
<1>4. CASE ModeArm
  BY <1>4, Zenon DEF ModeArm, Standing
<1>5. CASE ModeCommand \/ ClearTrack \/ ResetDetach
  <2>1. ArmCancel /\ UNCHANGED clk
    BY <1>5 DEF ModeCommand, ClearTrack, ResetDetach, ClearCancel
  <2>2. ~(s_arm_beats' > 0) /\ clk' = clk
    BY <2>1 DEF ArmCancel
  <2>3. ~s_arm_fire' /\ standing' = (standing /\ clk = "fire")
    BY <2>1, Zenon DEF ArmCancel
  <2> QED BY <2>2, <2>3, Zenon DEF Standing
<1>6. CASE FireTake
  <2>1. s_arm_beats' = s_arm_beats /\ clk' = clk /\ s_arm_fire
    BY <1>6 DEF FireTake
  <2>2. standing' = (standing /\ (s_arm_beats > 0 \/ clk = "fire")) /\ ~s_arm_fire'
    BY <1>6, Zenon DEF FireTake
  <2> QED BY <2>1, <2>2 DEF Standing
<1> QED BY <1>1, <1>2, <1>3, <1>4, <1>5, <1>6, Steps28, Zenon

-----------------------------------------------------------------------------
(* A loop_ctl that keeps up with the audio task: what its steps and those of   *)
(* the audio task leave of the set.                                         *)

Base == Shape /\ Moving /\ Memory /\ LetGo

(* Nobody gives a handshake back, or forgets that a take was overtaken.       *)
LEMMA InTimeBefore ==
  ASSUME Shape, [Next]_vars, InTime'
  PROVE  InTime /\ UNCHANGED lates
<1> USE DEF past
<1>0. lates \in Nat
  BY Parts, CtlParts DEF LimitShape
<1>1. lates' \in Nat /\ lates' >= lates
  <2>1. CASE PadTake \/ CompactFree \/ GrowFree \/ ResetDone \/ LoadRelease
    BY <1>0, <2>1, AwaitResult DEF PadTake, CompactFree, GrowFree, ResetDone, LoadRelease
  <2>2. CASE Aside
    BY <1>0, <2>2 DEF Aside
  <2>3. CASE ModeRec \/ FireTake
    BY <1>0, <2>3, TakeSteps
  <2>4. CASE \/ BlockBegin \/ Segment \/ Advance \/ TakeEvents \/ CompactCopy \/ CompactSwap
             \/ ModeCommand \/ ClearTrack \/ ResetDetach \/ LoadDetach \/ LoadFill
    <3>1. UNCHANGED lates
      BY <2>4 DEF BlockBegin, Segment, Advance, TakeEvents, CompactCopy, CompactSwap,
       ModeCommand, ClearTrack, ResetDetach, LoadDetach, LoadFill
    <3> QED BY <1>0, <3>1
  <2> QED BY <2>1, <2>2, <2>3, <2>4, StepGroups, Zenon
<1>2. overtaken => overtaken'
  <2>1. CASE CompactCopy
    BY <2>1, Zenon DEF CompactCopy
  <2>2. CASE Aside
    BY <2>2 DEF Aside
  <2>3. CASE ModeRec \/ FireTake
    <3>1. PICK t \in Tracks, armed \in BOOLEAN, flag \in {"mode", "fire"} :
              \/ TakeNow(t, armed, flag) \/ TakeGrows(t, armed, flag)
              \/ TakeRefused(armed, flag)
      BY <2>3, TakeSteps
    <3> QED BY <3>1, Zenon DEF TakeNow, TakeGrows, TakeRefused
  <2>4. CASE ModeCommand \/ GrowFree \/ LoadRelease
    BY <2>4, Zenon DEF ModeCommand, GrowFree, LoadRelease, MovesOn
  <2>5. CASE \/ BlockBegin \/ Segment \/ Advance \/ TakeEvents \/ CompactSwap \/ PadTake
             \/ CompactFree \/ ClearTrack \/ ResetDetach \/ ResetDone \/ LoadDetach \/ LoadFill
    BY <2>5 DEF BlockBegin, Segment, Advance, TakeEvents, CompactSwap, PadTake, CompactFree,
       ClearTrack, ResetDetach, ResetDone, LoadDetach, LoadFill
  <2> QED BY <2>1, <2>2, <2>3, <2>4, <2>5, StepGroups, Zenon
<1> QED BY <1>0, <1>1, <1>2 DEF InTime

(* A handshake that was not given up has seen two boundaries.                 *)
LEMMA HasSettled ==
  ASSUME Shape, InTime, InTime', NEW settled \in BOOLEAN, Await(settled)
  PROVE  settled /\ boundaries = 2
BY AwaitResult DEF InTime

(* The buffers of the set, and what a buffer holds. *)
LEMMA BufFacts ==
  ASSUME MemShape
  PROVE  /\ \A b \in Bufs : /\ mem[b].size \in Nat /\ mem[b].size <= Cap
                           /\ mem[b].take \in Nat /\ mem[b].take <= Cap
         /\ \A t \in Tracks : s_buf[t] # NoBuf => s_buf[t] \in live /\ s_buf[t] \in Bufs
         /\ \A b \in live : b \in Bufs
         /\ \A b \in Bufs : b # NoBuf
<1>1. \A b \in Bufs : mem[b] \in [size : Units, take : Units]
  BY DEF MemShape, Units
<1>2. \A b \in Bufs : mem[b].size \in Units /\ mem[b].take \in Units
  BY <1>1
<1> QED BY <1>2, Numbers DEF MemShape, NoBuf

(* The steps of loop_ctl that leave the set's buffers as they are.            *)
Rests ==
  /\ UNCHANGED <<s_buf, s_loop_frames, a, block>>
  /\ \A t \in Tracks : s_buf[t] # NoBuf => mem'[s_buf[t]] = mem[s_buf[t]]
  /\ \A b \in Used : mem'[b] = mem[b]
  /\ \A b \in Bufs : mem'[b] = mem[b] \/ mem'[b].take <= mem'[b].size

(* Which those are: a copy is in a new buffer, and what is freed is in no track. *)
LEMMA RestSteps ==
  ASSUME Base, InTime, InTime',
         \/ Aside \/ TakeEvents \/ ModeCommand \/ CompactCopy \/ CompactFree \/ ClearTrack
         \/ ResetDetach \/ LoadDetach \/ GrowFree
  PROVE  Rests
<1> USE DEF set, heap, audio
<1>0. MemShape /\ Shape /\ Memory
  BY Parts DEF Base
<1>1. CASE Aside \/ TakeEvents \/ ModeCommand \/ ClearTrack \/ ResetDetach \/ LoadDetach
  BY <1>1 DEF Aside, TakeEvents, ModeCommand, ClearTrack, ResetDetach, LoadDetach, Rests
<1>2. CASE CompactCopy
  <2>1. UNCHANGED <<s_buf, s_loop_frames, a, block>>
    BY <1>2 DEF CompactCopy
  <2>2. CASE pc' = "flags"
    BY <1>2, <2>1, <2>2 DEF CompactCopy, Rests
  <2>3. CASE pc' # "flags"
    <3>1. PICK t \in Tracks, b \in Bufs \ live :
            /\ s_buf[t] # NoBuf
            /\ mem' = [mem EXCEPT ![b] = TookFrom(s_loop_frames,
                               IF mem[s_buf[t]].take < s_loop_frames THEN mem[s_buf[t]].take
                                                                     ELSE s_loop_frames)]
      BY <1>2, <2>3 DEF CompactCopy, Oversize, Malloc
    <3> DEFINE k == IF mem[s_buf[t]].take < s_loop_frames THEN mem[s_buf[t]].take ELSE s_loop_frames
    <3>2. k <= s_loop_frames
      <4>1. /\ t \in Tracks /\ s_buf[t] # NoBuf
        BY <3>1
      <4>2. mem[s_buf[t]].take \in Nat /\ s_loop_frames \in Nat
        BY <1>0, <4>1, Kinds, BufFacts
      <4> QED BY <4>2
    <3> HIDE DEF k
    <3>3. TookFrom(s_loop_frames, k).take <= TookFrom(s_loop_frames, k).size
      BY <3>2 DEF TookFrom
    <3>4. \A c \in Bufs : mem'[c] = IF c = b THEN TookFrom(s_loop_frames, k) ELSE mem[c]
      BY <1>0, <3>1 DEF MemShape, k
    <3>5. \A c \in live : c \in Bufs /\ c # b
      BY <1>0 DEF MemShape
    <3>6. \A t1 \in Tracks : s_buf[t1] # NoBuf => s_buf[t1] \in live
      BY <1>0 DEF MemShape
    <3> QED BY <1>0, <2>1, <3>3, <3>4, <3>5, <3>6 DEF Memory, Rests
  <2> QED BY <2>2, <2>3
<1>3. CASE CompactFree \/ GrowFree
  <2>1. PICK settled \in BOOLEAN : Await(settled) /\ Freed({job.buf}, settled)
    BY <1>3 DEF CompactFree, GrowFree
  <2>2. UNCHANGED <<s_buf, s_loop_frames, a, block>> /\ pc \in {"grow", "shrink"}
    BY <1>3 DEF CompactFree, GrowFree
  <2>3. settled /\ boundaries = 2
    BY <1>0, <2>1, HasSettled
  <2>4. \A b \in Bufs : mem'[b] = IF b = job.buf THEN Free ELSE mem[b]
    <3> DEFINE B == {job.buf}
    <3>1. Freed(B, settled)
      BY <2>1
    <3>2. \A b \in Bufs : b \in B <=> b = job.buf
      OBVIOUS
    <3> HIDE DEF B
    <3>3. \A b \in Bufs : mem'[b] = IF b \in B THEN Free ELSE mem[b]
      BY <1>0, <2>3, <3>1, FreedResult
    <3> QED BY <3>2, <3>3
  <2>5. \A t \in Tracks : s_buf[t] # NoBuf => s_buf[t] # job.buf /\ s_buf[t] \in Bufs
    BY <1>0, <2>2 DEF MemShape, Memory
  <2>6. \A b \in Used : b # job.buf /\ b \in Bufs
    BY <1>0, <2>2, <2>3 DEF MemShape, Memory
  <2>7. Free.take <= Free.size
    BY DEF Free
  <2> QED BY <2>2, <2>4, <2>5, <2>6, <2>7 DEF Rests
<1> QED BY <1>1, <1>2, <1>3

(* What a block that begins makes of the set: the length of a loop is kept, a *)
(* take that goes on or is due is one that was due.                         *)
LEMMA BeginFacts ==
  ASSUME Base, Taken, BlockBegin
  PROVE  /\ UNCHANGED <<s_buf, s_rec_limit, mem, live, pc, job>>
         /\ block'.step # "use" /\ (block'.step # "idle" => block'.len = s_loop_frames')
         /\ s_loop_frames > 0 => s_loop_frames' = s_loop_frames
         /\ ~a.rec => SetSame
         /\ \A t \in Tracks : Due(t)' => Due(t) /\ s_loop_frames' = s_loop_frames
<1> USE DEF heap
<1>0. Shape /\ Moving
  BY DEF Base
<1>1. /\ block.step = "idle" /\ s_cmd' = <<"none">>
      /\ \/ s_cmd[1] = "none" /\ BegunNone
         \/ s_cmd[1] = "stop" /\ BegunStop
         \/ s_cmd[1] = "play" /\ BegunPlay
         \/ s_cmd[1] = "rec" /\ s_cmd[2] \in Tracks /\ BegunRec
         \/ s_cmd[1] = "detach" /\ BegunDetach
      /\ \/ block' = block
         \/ block' = [Idle EXCEPT !.step = "load", !.len = s_loop_frames']
  BY <1>0, BeginCases
<1>2. UNCHANGED <<s_buf, s_rec_limit, mem, live, pc, job>>
  BY DEF BlockBegin
<1>3. Loading([Idle EXCEPT !.step = "load", !.len = s_loop_frames'], s_loop_frames')
  BY IdleFact
<1>4. block'.step # "use" /\ (block'.step # "idle" => block'.len = s_loop_frames')
  <2>1. CASE block' = block
    BY <1>1, <2>1
  <2>2. CASE block' = [Idle EXCEPT !.step = "load", !.len = s_loop_frames']
    BY <1>3, <2>2 DEF Loading
  <2> QED BY <1>1, <2>1, <2>2
<1>5. /\ s_loop_frames > 0 => s_loop_frames' = s_loop_frames
      /\ ~a.rec => SetSame
  BY <1>0, <1>1, Kinds DEF BegunNone, BegunStop, BegunPlay, BegunRec, BegunDetach, SetSame, TakeShut
<1>6. ASSUME NEW t \in Tracks, Due(t)'
      PROVE  Due(t) /\ s_loop_frames' = s_loop_frames
  <2>1. (a'.rec \/ a'.pending) /\ a'.trk = t
    <3>1. s_cmd'[1] = "none"
      BY <1>1
    <3>2. s_cmd' # <<"rec", t>>
      BY <3>1
    <3> QED BY <1>6, <3>2 DEF Due
  <2>2. CASE BegunNone
    BY <2>1, <2>2 DEF BegunNone, SetSame, TakeSame, Due
  <2>3. CASE BegunStop \/ BegunPlay \/ BegunDetach
    BY <2>1, <2>3 DEF BegunStop, BegunPlay, BegunDetach, TakeOver
  <2>4. CASE s_cmd[1] = "rec" /\ BegunRec
    <3>1. s_cmd = <<"rec", s_cmd[2]>>
      BY <1>0, <2>4 DEF Shape, CmdShape
    <3> QED BY <2>1, <2>4, <3>1 DEF BegunRec, SetSame, TakeSame, Due
  <2> QED BY <1>1, <2>2, <2>3, <2>4
<1> QED BY <1>2, <1>4, <1>5, <1>6

(* What a segment that ends makes of it: the loop is the one it began with,    *)
(* the transport inside it, and the take in its buffer as far as it got.      *)
LEMMA AdvanceFacts ==
  ASSUME Base, Taken, Advance
  PROVE  /\ UNCHANGED <<s_buf, s_rec_limit, s_pad, s_cmd, pc, job, live>>
         /\ block.len = s_loop_frames /\ a.playing /\ (s_loop_frames = 0 => a.rec)
         /\ a.pos < Pass /\ (Ends <=> a.pos + 1 >= Pass)
         /\ block'.step # "use" /\ (block'.step # "idle" => block'.len = s_loop_frames')
         /\ block.writes = IF a.rec THEN s_buf[a.trk] ELSE NoBuf
         /\ \A b \in Bufs : /\ mem'[b].size = mem[b].size
                            /\ mem'[b] = mem[b] \/ (a.rec /\ b = s_buf[a.trk])
         /\ a.rec => /\ ~a.pending /\ s_buf[a.trk] \in Bufs /\ mem[s_buf[a.trk]].size >= Pass
                     /\ mem'[s_buf[a.trk]].take = a.pos + 1
         /\ Pass' = Pass /\ \A t \in Tracks : Due(t)' => Due(t)
<1>0. Shape /\ Moving /\ MemShape
  BY Parts DEF Base
<1>1. UNCHANGED <<s_buf, s_rec_limit, s_cmd, pc, job, live>> /\ s_pad' = s_pad /\ block.step = "use"
  BY <1>0, Advances DEF Advance
<1>2. block.len = s_loop_frames /\ a.playing /\ (s_loop_frames = 0 => a.rec)
  BY <1>0, <1>1 DEF Taken, Loop, Moving
<1>3. a.pos < Pass
  BY <1>0, <1>2, Kinds DEF Taken, Loop, Pass
<1>4. Ends <=> a.pos + 1 >= Pass
  BY <1>0, <1>2, Kinds DEF Ends, Limit, Pass
<1>5. block'.step # "use" /\ (block'.step # "idle" => block'.len = s_loop_frames')
  <2> DEFINE n == IF block.len > 0 THEN block.len ELSE s_loop_frames'
  <2>1. \/ block' = Idle
        \/ Ends /\ block' = [Idle EXCEPT !.step = "load", !.again = TRUE, !.len = n]
    BY <1>0, Advances
  <2>2. Loading([Idle EXCEPT !.step = "load", !.again = TRUE, !.len = n], n) /\ Idle.step = "idle"
    BY IdleFact
  <2>3. Ends => n = s_loop_frames'
    BY <1>0, <1>2, Advances, Kinds
  <2> HIDE DEF n
  <2> QED BY <2>1, <2>2, <2>3 DEF Loading
<1>6. block.writes = IF a.rec THEN s_buf[a.trk] ELSE NoBuf
  BY <1>1 DEF Taken, Content
<1>7. a.rec => /\ ~a.pending /\ a.trk \in Tracks /\ s_buf[a.trk] \in Bufs
               /\ mem[s_buf[a.trk]].size >= Pass
               /\ a.pos > 0 => mem[s_buf[a.trk]].take = a.pos
  <2>1. SUFFICES ASSUME a.rec PROVE /\ ~a.pending /\ a.trk \in Tracks /\ s_buf[a.trk] \in Bufs
                                    /\ mem[s_buf[a.trk]].size >= Pass
                                    /\ a.pos > 0 => mem[s_buf[a.trk]].take = a.pos
    OBVIOUS
  <2>2. a.trk \in Tracks /\ Due(a.trk)
    BY <1>0, <2>1, Kinds DEF Due
  <2>3. s_buf[a.trk] # NoBuf /\ mem[s_buf[a.trk]].size >= Pass
    BY <2>2 DEF Taken, Room
  <2> QED BY <1>0, <2>1, <2>2, <2>3, BufFacts DEF Moving, Taken, Content
<1>8. mem' = IF block.writes = NoBuf THEN mem
             ELSE [mem EXCEPT ![block.writes] = Recorded(mem[block.writes], a.pos)]
  BY <1>0 DEF Advance, MemShape
<1>9. CASE a.rec
  <2>1. s_buf[a.trk] # NoBuf /\ block.writes = s_buf[a.trk]
    BY <1>0, <1>6, <1>7, <1>9, BufFacts
  <2> DEFINE w == s_buf[a.trk]
             r == Recorded(mem[w], a.pos)
  <2>2. \A b \in Bufs : mem'[b] = IF b = w THEN r ELSE mem[b]
    BY <1>0, <1>8, <2>1 DEF MemShape
  <2>3. mem[w] \in [size : Units, take : Units]
    BY <1>0, <1>7, <1>9 DEF MemShape, Units
  <2>4. r.size = mem[w].size /\ r.take = a.pos + 1
    <3>1. CASE a.pos = 0
      BY <2>3, <3>1 DEF Recorded
    <3>2. CASE a.pos > 0
      <4>1. mem[w].take = a.pos
        BY <1>7, <1>9, <3>2
      <4>2. a.pos # 0 /\ mem[w].take >= a.pos
        BY <1>0, <3>2, <4>1, Kinds
      <4>3. Recorded(mem[w], a.pos) = [mem[w] EXCEPT !.take = a.pos + 1]
        BY <2>3, <4>2 DEF Recorded
      <4> QED BY <2>3, <4>3
    <3> QED BY <1>0, <3>1, <3>2, Kinds
  <2> HIDE DEF r
  <2>5. /\ \A b \in Bufs : mem'[b].size = mem[b].size /\ (mem'[b] = mem[b] \/ b = s_buf[a.trk])
        /\ mem'[s_buf[a.trk]].take = a.pos + 1
    BY <1>7, <1>9, <2>2, <2>4
  <2>6. Pass' = Pass /\ \A t \in Tracks : Due(t)' => Due(t)
    <3>1. CASE ~Ends
      BY <1>0, <1>1, <3>1, Advances DEF Pass, Due
    <3>2. CASE Ends /\ block.len > 0
      BY <1>0, <1>1, <1>2, <1>7, <1>9, <3>2, Advances DEF Pass, Due
    <3>3. CASE Ends /\ block.len = 0
      <4>1. s_loop_frames = 0 /\ s_loop_frames' = s_rec_limit /\ s_rec_limit > 0
        BY <1>0, <1>2, <3>3, Advances, Kinds
      <4>2. ~a'.rec /\ ~a'.pending /\ UNCHANGED <<s_cmd, s_rec_limit>>
        BY <1>0, <1>1, <1>7, <1>9, <3>3, Advances
      <4> QED BY <4>1, <4>2 DEF Pass, Due
    <3> QED BY <1>0, <3>1, <3>2, <3>3, Kinds
  <2> QED BY <1>1, <1>2, <1>3, <1>4, <1>5, <1>6, <1>7, <1>9, <2>5, <2>6
<1>10. CASE ~a.rec
  <2>1. mem' = mem
    BY <1>6, <1>8, <1>10
  <2>2. s_loop_frames > 0 /\ block.len > 0
    BY <1>0, <1>2, <1>10, Kinds
  <2>3. s_loop_frames' = s_loop_frames /\ a'.trk = a.trk
        /\ (a'.rec \/ a'.pending => a.rec \/ a.pending)
    BY <1>0, <2>2, Advances
  <2>4. Pass' = Pass /\ \A t \in Tracks : Due(t)' => Due(t)
    BY <1>1, <2>3 DEF Pass, Due
  <2> QED BY <1>1, <1>2, <1>3, <1>4, <1>5, <1>6, <1>10, <2>1, <2>4
<1> QED BY <1>9, <1>10

(* What a take's buffer and command make of the set: the track has a buffer   *)
(* of the size asked for, and only a track with nothing to lose has a new one. *)
Readied(t, n) == s_buf'[t] # NoBuf /\ mem'[s_buf'[t]].size >= n
TakesNow(t, n) ==
  /\ Readied(t, n) /\ s_cmd' = <<"rec", t>> /\ s_pad = NoPad /\ pc' # "grow"
  /\ s_rec_limit' = IF s_loop_frames = 0 THEN n ELSE s_rec_limit
  /\ a.rec => s_rec_limit' = s_rec_limit
TakesLater(t, n) ==
  /\ Readied(t, n) /\ UNCHANGED <<s_cmd, s_rec_limit>> /\ s_pad = NoPad
  /\ ~a.rec /\ (s_cmd[1] = "rec" => n >= Pass)
  /\ pc' = "grow" /\ job'.trk = t /\ job'.limit = IF s_loop_frames = 0 THEN n ELSE s_rec_limit
  /\ s_buf[t] # NoBuf /\ mem[s_buf[t]].size < n
Refuses == UNCHANGED <<s_cmd, s_rec_limit, s_buf, mem>> /\ pc' # "grow"
Touches(t) ==
  /\ \A u \in Tracks : u # t => s_buf'[u] = s_buf[u]
  /\ \A b \in live : mem'[b] = mem[b]
  /\ s_buf'[t] = s_buf[t] \/ (t \notin s_filled /\ ~(a.rec /\ a.trk = t))
  /\ \A b \in Bufs : mem'[b] = mem[b] \/ mem'[b].take <= mem'[b].size

(* A new buffer readies its track, and touches no other. *)
LEMMA GotFacts ==
  ASSUME MemShape, NEW t \in Tracks, NEW n \in 1 .. Cap, NEW b \in Bufs, Got(t, n, b)
  PROVE  /\ Readied(t, n) /\ \A u \in Tracks : u # t => s_buf'[u] = s_buf[u]
         /\ \A c \in live : mem'[c] = mem[c]
         /\ \A c \in Bufs : mem'[c] = mem[c] \/ mem'[c].take <= mem'[c].size
<1>1. TookFrom(n, 0).size = n /\ TookFrom(n, 0).take = 0
  BY DEF TookFrom
<1>2. \A c \in Bufs : mem'[c] = IF c = b THEN TookFrom(n, 0) ELSE mem[c]
  BY DEF Got, MemShape
<1>3. \A u \in Tracks : s_buf'[u] = IF u = t THEN b ELSE s_buf[u]
  BY DEF Got, MemShape
<1>4. b \in Bufs \ live /\ b # NoBuf
  BY BufFacts DEF Got
<1>5. Readied(t, n)
  BY <1>1, <1>2, <1>3, <1>4 DEF Readied
<1>6. \A c \in live : mem'[c] = mem[c]
  BY <1>2, <1>4, BufFacts
<1>7. \A c \in Bufs : mem'[c] = mem[c] \/ mem'[c].take <= mem'[c].size
  BY <1>1, <1>2
<1> QED BY <1>3, <1>5, <1>6, <1>7

(* A take to record, in these terms, when no tail and no other take is overtaken. *)
LEMMA TakeFacts ==
  ASSUME Base, Taken, InTime', ModeRec \/ FireTake
  PROVE  /\ UNCHANGED <<s_loop_frames, s_filled, s_pad, a, block>> /\ pc = "handle"
         /\ pc' \in {"wait", "handle", "grow"}
         /\ \E t \in Tracks, n \in 1 .. Cap :
              /\ TakeSize(n) /\ Touches(t)
              /\ TakesNow(t, n) \/ TakesLater(t, n) \/ Refuses
<1> USE DEF heap, audio
<1>0. MemShape /\ Shape
  BY Parts DEF Base
<1>1. PICK t \in Tracks, armed \in BOOLEAN, flag \in {"mode", "fire"} :
              \/ TakeNow(t, armed, flag) \/ TakeGrows(t, armed, flag)
              \/ TakeRefused(armed, flag)
  BY <1>0, TakeSteps
<1>2. UNCHANGED <<s_loop_frames, s_filled, s_pad, a, block>> /\ pc = "handle"
  BY <1>0, TakeSteps
<1>3. pc' \in {"wait", "handle", "grow"}
  BY <1>1 DEF TakeNow, TakeGrows, TakeRefused, Handled
<1>4. s_buf[t] = NoBuf => t \notin s_filled /\ ~(a.rec /\ a.trk = t)
  BY DEF Taken, Filled, Room, Due
<1>5. CASE TakeNow(t, armed, flag)
  <2>1. PICK n \in 1 .. Cap :
       /\ TakeSize(n) /\ s_rec_limit' = IF s_loop_frames = 0 THEN n ELSE s_rec_limit
       /\ \/ Fits(t, n) /\ UNCHANGED <<s_buf, mem>>
          \/ s_buf[t] = NoBuf /\ \E b \in Bufs : Got(t, n, b)
    BY <1>5 DEF TakeNow
  <2>2. s_cmd' = <<"rec", t>> /\ pc' # "grow"
    BY <1>5 DEF TakeNow, Commanded, Handled
  <2>3. s_pad = NoPad /\ (a.rec => s_rec_limit' = s_rec_limit)
    BY <1>5, Zenon DEF TakeNow, InTime
  <2>4. Readied(t, n) /\ Touches(t)
    <3>1. CASE Fits(t, n) /\ UNCHANGED <<s_buf, mem>>
      BY <3>1 DEF Fits, Readied, Touches
    <3>2. CASE s_buf[t] = NoBuf /\ \E b \in Bufs : Got(t, n, b)
      <4>1. PICK b \in Bufs : Got(t, n, b)
        BY <3>2
      <4> QED BY <1>0, <1>4, <3>2, <4>1, GotFacts DEF Touches
    <3> QED BY <2>1, <3>1, <3>2
  <2>5. TakesNow(t, n)
    BY <2>1, <2>2, <2>3, <2>4 DEF TakesNow
  <2> QED BY <1>2, <1>3, <2>1, <2>4, <2>5
<1>6. CASE TakeGrows(t, armed, flag)
  <2>1. PICK n \in 1 .. Cap, b \in Bufs :
       /\ TakeSize(n) /\ Got(t, n, b) /\ ~Fits(t, n)
       /\ overtaken' = (overtaken \/ s_pad # NoPad \/ a.rec \/ Outruns(n))
       /\ job' = [NoJob EXCEPT !.trk = t, !.buf = s_buf[t], !.armed = armed,
                    !.limit = IF s_loop_frames = 0 THEN n ELSE s_rec_limit]
    BY <1>6 DEF TakeGrows
  <2>2. UNCHANGED <<s_cmd, s_rec_limit>> /\ pc' = "grow" /\ s_buf[t] # NoBuf
    BY <1>6 DEF TakeGrows
  <2>3. s_pad = NoPad /\ ~a.rec /\ ~Outruns(n)
    BY <2>1, Zenon DEF InTime
  <2>4. job'.trk = t /\ job'.limit = IF s_loop_frames = 0 THEN n ELSE s_rec_limit
    BY <2>1 DEF NoJob
  <2>5. mem[s_buf[t]].size < n
    BY <1>0, <2>1, <2>2, BufFacts DEF Fits
  <2>6. s_cmd[1] = "rec" => n >= Pass
    BY <1>0, <2>3, Kinds DEF Outruns, Limit, Pass
  <2>7. t \notin s_filled
    <3>1. SUFFICES ASSUME t \in s_filled PROVE FALSE
      OBVIOUS
    <3>2. Whole(t)
      BY <1>2, <2>3, <3>1 DEF Taken, Filled, Played
    <3>3. n = s_loop_frames
      BY <2>1, <3>2 DEF Whole, TakeSize
    <3>4. mem[s_buf[t]].take <= mem[s_buf[t]].size
      BY <1>0, <2>2, BufFacts DEF Taken, Content
    <3> QED BY <1>0, <2>2, <2>5, <3>2, <3>3, <3>4, BufFacts, Kinds DEF Whole
  <2>8. Readied(t, n) /\ Touches(t)
    BY <1>0, <2>1, <2>3, <2>7, GotFacts DEF Touches
  <2>9. TakesLater(t, n)
    BY <2>2, <2>3, <2>4, <2>5, <2>6, <2>8 DEF TakesLater
  <2> QED BY <1>2, <1>3, <2>1, <2>8, <2>9
<1>7. CASE TakeRefused(armed, flag)
  <2>1. Refuses
    BY <1>7 DEF TakeRefused, Refuses, Handled
  <2>2. Touches(t)
    BY <2>1 DEF Refuses, Touches
  <2> DEFINE n == IF s_loop_frames = 0 THEN Cap ELSE s_loop_frames
  <2>3. n \in 1 .. Cap /\ TakeSize(n)
    BY <1>0, Kinds DEF TakeSize
  <2> HIDE DEF n
  <2> QED BY <1>2, <1>3, <2>1, <2>2, <2>3
<1> QED BY <1>1, <1>5, <1>6, <1>7

(* A set let go of, after which nothing of it is there.                       *)
LEMMA GoneFacts ==
  ASSUME Base, InTime, InTime', ResetDone \/ LoadRelease
  PROVE  /\ Quiet /\ UNCHANGED <<a, block, s_cmd, s_pad, s_rec_limit>>
         /\ (\A t \in Tracks : s_buf'[t] = NoBuf) /\ s_filled' = {} /\ s_loop_frames' = 0
         /\ \A b \in Bufs : mem'[b] = mem[b] \/ mem'[b].take <= mem'[b].size
         /\ pc' \in {"wait", "handle", "fill"} /\ (pc' = "fill" => s_pad = NoPad)
<1> USE DEF audio, mail
<1>0. Shape /\ LetGo
  BY DEF Base
<1>1. PICK settled \in BOOLEAN : Await(settled) /\ Release(settled)
  BY DEF ResetDone, LoadRelease
<1>2. settled /\ boundaries = 2
  BY <1>0, <1>1, HasSettled
<1>3. /\ UNCHANGED <<a, block, s_cmd, s_pad, s_rec_limit>> /\ pc \in {"reset", "release"}
      /\ pc' \in {"wait", "handle", "fill"}
  BY DEF ResetDone, LoadRelease
<1>4. pc' = "fill" => s_pad = NoPad
  <2>1. pc' = "fill" => MovesOn(FALSE)
    BY DEF ResetDone, LoadRelease
  <2> QED BY <2>1, Zenon DEF MovesOn, InTime
<1>5. Quiet
  BY <1>0, <1>2, <1>3 DEF LetGo
<1> DEFINE B == {s_buf[t] : t \in Tracks} \ {NoBuf}
<1>6. Freed(B, settled) /\ (\A t \in Tracks : s_buf'[t] = NoBuf)
      /\ s_filled' = {} /\ s_loop_frames' = 0
  BY <1>1 DEF Release
<1> HIDE DEF B
<1>7. \A b \in Bufs : mem'[b] = IF b \in B THEN Free ELSE mem[b]
  BY <1>0, <1>2, <1>6, FreedResult
<1>8. Free.take <= Free.size
  BY DEF Free
<1> QED BY <1>3, <1>4, <1>5, <1>6, <1>7, <1>8

(* A set loaded: whole takes in buffers of their own.                         *)
LEMMA LoadFacts ==
  ASSUME Base, InTime, LoadFill
  PROVE  /\ Quiet /\ UNCHANGED <<a, block, s_cmd, s_pad, s_rec_limit>>
         /\ s_pad = NoPad /\ pc' \in {"wait", "handle"}
         /\ s_loop_frames' = 0 => s_filled' = {}
         /\ s_filled' \subseteq Tracks
         /\ \A t \in s_filled' : /\ s_buf'[t] # NoBuf
                                 /\ s_loop_frames' > 0 /\ mem'[s_buf'[t]].take = s_loop_frames'
         /\ \A b \in Bufs : mem'[b] = mem[b] \/ mem'[b].take <= mem'[b].size
<1> USE DEF audio, mail
<1>0. Shape /\ LetGo /\ MemShape
  BY Parts DEF Base
<1>1. PICK len \in 1 .. Cap, loaded \in SUBSET Tracks :
           \E at \in [loaded -> Bufs \ live] : Loaded(len, loaded, at)
  BY <1>0, LoadFillResult
<1>2. PICK at \in [loaded -> Bufs \ live] : Loaded(len, loaded, at)
  BY <1>1
<1>3. Quiet /\ s_pad = NoPad
  BY <1>0 DEF LetGo, LoadFill, InTime
<1>4. UNCHANGED <<a, block, s_cmd, s_pad, s_rec_limit>> /\ pc' \in {"wait", "handle"}
  BY DEF LoadFill
<1>5. TookFrom(len, len).take = len /\ TookFrom(len, len).size = len
  BY DEF TookFrom
<1>6. \A b \in Bufs : mem'[b] = IF b \in {at[t] : t \in loaded} THEN TookFrom(len, len) ELSE mem[b]
  BY <1>2 DEF Loaded
<1>7. \A t \in loaded : s_buf'[t] = at[t] /\ at[t] \in Bufs
  BY <1>2 DEF Loaded
<1>8. s_filled' = loaded /\ s_loop_frames' = IF loaded = {} THEN 0 ELSE len
  BY <1>2 DEF Loaded
<1>9. \A t \in loaded : s_buf'[t] # NoBuf /\ mem'[s_buf'[t]].take = len /\ s_loop_frames' = len
  BY <1>0, <1>5, <1>6, <1>7, <1>8, BufFacts
<1>10. \A b \in Bufs : mem'[b] = mem[b] \/ mem'[b].take <= mem'[b].size
  BY <1>5, <1>6
<1> QED BY <1>3, <1>4, <1>8, <1>9, <1>10

(* The steps of loop_ctl beside those that move the set's memory.             *)
RestStep == \/ Aside \/ TakeEvents \/ ModeCommand \/ CompactCopy \/ CompactFree \/ ClearTrack
            \/ ResetDetach \/ LoadDetach

(* The steps, those grouped. *)
LEMMA SoundGroups ==
  ASSUME [Next]_vars
  PROVE  \/ RestStep \/ GrowFree \/ BlockBegin \/ Segment \/ Advance \/ PadTake \/ CompactSwap
         \/ (ModeRec \/ FireTake) \/ (ResetDone \/ LoadRelease) \/ LoadFill
BY StepGroups, Zenon DEF RestStep

(* They take nothing into the mask, command no take, and play only when no    *)
(* tail is left to pad.                                                     *)
LEMMA RestFacts ==
  ASSUME Base, InTime, InTime', RestStep
  PROVE  /\ Rests /\ UNCHANGED s_rec_limit /\ s_filled' \subseteq s_filled
         /\ s_pad' = s_pad \/ s_pad' = NoPad
         /\ \/ s_cmd' = s_cmd
            \/ s_cmd'[1] \in {"stop", "detach"}
            \/ s_cmd'[1] = "play" /\ s_pad = NoPad /\ pc' # "pad"
         /\ \A t \in Tracks : Due(t)' => Due(t)
         /\ Pass' = Pass
         /\ pc \in Waits => pc' \in Waits
         /\ pc' = "grow" => pc = "grow" /\ UNCHANGED job
         /\ pc' = "fill" => pc = "fill"
<1> USE DEF set, heap, audio, ctl, mail, Waits
<1>1. Rests
  BY RestSteps, Zenon DEF RestStep
<1>2. UNCHANGED s_rec_limit
  BY DEF RestStep, Aside, TakeEvents, ModeCommand, CompactCopy, CompactFree, ClearTrack,
     ResetDetach, LoadDetach
<1>3. s_filled' \subseteq s_filled
  <2>1. CASE ClearTrack
    <3>1. PICK t \in Tracks :
            s_filled' = IF loop_clear = "track" THEN s_filled \ {t} ELSE s_filled
      BY <2>1 DEF ClearTrack
    <3> QED BY <3>1
  <2>2. CASE ~ClearTrack
    BY <2>2 DEF RestStep, Aside, TakeEvents, ModeCommand, CompactCopy, CompactFree,
       ResetDetach, LoadDetach
  <2> QED BY <2>1, <2>2
<1>4. s_pad' = s_pad \/ s_pad' = NoPad
  BY DEF RestStep, Aside, TakeEvents, ModeCommand, CompactCopy, CompactFree, ClearTrack,
     ResetDetach, LoadDetach
<1>5. \/ s_cmd' = s_cmd
      \/ s_cmd'[1] \in {"stop", "detach"}
      \/ s_cmd'[1] = "play" /\ s_pad = NoPad /\ pc' # "pad"
  <2>1. CASE ModeCommand
    <3>1. /\ loop_mode \in {"play", "stop"} /\ s_cmd' = <<loop_mode>> /\ pc' # "pad"
          /\ loop_mode = "play" => MovesOn(FALSE)
      BY <2>1 DEF ModeCommand, Handled
    <3>2. MovesOn(FALSE) => s_pad = NoPad
      BY Zenon DEF MovesOn, InTime
    <3> QED BY <3>1, <3>2
  <2>2. CASE ResetDetach \/ LoadDetach
    BY <2>2 DEF ResetDetach, LoadDetach
  <2>3. CASE Aside \/ TakeEvents \/ CompactCopy \/ CompactFree \/ ClearTrack
    BY <2>3 DEF Aside, TakeEvents, CompactCopy, CompactFree, ClearTrack
  <2> QED BY <2>1, <2>2, <2>3 DEF RestStep
<1>6. \A t \in Tracks : s_cmd' = <<"rec", t>> => s_cmd = <<"rec", t>>
  <2> SUFFICES ASSUME NEW t \in Tracks, s_cmd' = <<"rec", t>> PROVE s_cmd = <<"rec", t>>
    OBVIOUS
  <2>1. s_cmd'[1] = "rec"
    OBVIOUS
  <2> QED BY <1>5, <2>1
<1>7. (\A t \in Tracks : Due(t)' => Due(t)) /\ Pass' = Pass
  <2>1. UNCHANGED <<s_loop_frames, a, s_rec_limit>>
    BY <1>1, <1>2 DEF Rests
  <2> QED BY <1>6, <2>1 DEF Due, Pass
<1>8. /\ pc \in Waits => pc' \in Waits
      /\ pc' = "grow" => pc = "grow" /\ UNCHANGED job
      /\ pc' = "fill" => pc = "fill"
  <2>1. CASE Aside
    BY <2>1 DEF Aside, Easy
  <2>2. CASE ~Aside
    <3>1. pc' \notin {"grow", "fill"} /\ (pc \in Waits => pc' \in Waits)
      BY <2>2 DEF RestStep, TakeEvents, ModeCommand, CompactCopy, CompactFree, ClearTrack,
         ResetDetach, LoadDetach, Turn, Handled
    <3> QED BY <3>1
  <2> QED BY <2>1, <2>2
<1> QED BY <1>1, <1>2, <1>3, <1>4, <1>5, <1>7, <1>8

(* A take commanded after its outgrown buffer went.                          *)
LEMMA GrowFacts ==
  ASSUME Base, InTime, InTime', GrowFree
  PROVE  /\ Rests /\ UNCHANGED <<s_filled, s_pad>> /\ pc = "grow" /\ pc' \in {"wait", "handle"}
         /\ s_cmd' = <<"rec", job.trk>> /\ s_rec_limit' = job.limit /\ s_pad = NoPad
         /\ a.rec => s_rec_limit' = s_rec_limit
<1>1. Rests
  BY RestSteps
<1>2. /\ UNCHANGED <<s_filled, s_pad>> /\ pc = "grow" /\ pc' \in {"wait", "handle"}
      /\ s_cmd' = <<"rec", job.trk>> /\ s_rec_limit' = job.limit
      /\ MovesOn(a.rec /\ s_rec_limit' # s_rec_limit)
  BY DEF GrowFree, Commanded
<1>3. s_pad = NoPad /\ (a.rec => s_rec_limit' = s_rec_limit)
  BY <1>2, Zenon DEF MovesOn, InTime
<1> QED BY <1>1, <1>2, <1>3

(* A tail padded, in a buffer of its track.                                  *)
LEMMA PadFacts ==
  ASSUME Base, Taken, PadTake
  PROVE  /\ UNCHANGED <<s_buf, s_loop_frames, s_rec_limit, s_pad, s_cmd, a, block>>
         /\ pc = "pad" /\ pc' = "mirror" /\ s_filled' = s_filled \cup {job.trk}
         /\ job.trk \in Tracks /\ s_buf[job.trk] = job.buf /\ job.buf \in Bufs
         /\ s_loop_frames > 0 /\ Stopped /\ s_pad = NoPad
         /\ \A b \in Bufs : b # job.buf => mem'[b] = mem[b]
         /\ mem'[job.buf].size = mem[job.buf].size /\ mem'[job.buf].take = s_loop_frames
         /\ s_loop_frames <= mem[job.buf].size
<1> USE DEF set, audio, mail
<1>0. MemShape /\ Shape
  BY Parts DEF Base
<1>1. /\ UNCHANGED <<s_buf, s_loop_frames, s_rec_limit, s_pad, s_cmd, a, block>>
      /\ pc = "pad" /\ pc' = "mirror" /\ s_filled' = s_filled \cup {job.trk}
      /\ mem' = [mem EXCEPT ![job.buf] = Padded(mem[job.buf])]
  BY <1>0 DEF PadTake, MemShape
<1>2. /\ Stopped /\ s_pad = NoPad /\ job.trk \in Tracks
      /\ s_buf[job.trk] = job.buf /\ job.buf # NoBuf /\ Tail(job.trk, job.from)
  BY <1>1 DEF Taken, Tails
<1>3. job.buf \in Bufs
  BY <1>0, <1>2, BufFacts
<1>4. mem[job.buf].take = job.from /\ 0 < job.from /\ job.from < s_loop_frames
      /\ mem[job.buf].size >= s_loop_frames
  BY <1>2 DEF Tail
<1>5. mem[job.buf] \in [size : Units, take : Units]
  BY <1>0, <1>3 DEF MemShape, Units
<1>6. Padded(mem[job.buf]) = [mem[job.buf] EXCEPT !.take = s_loop_frames]
  BY <1>4, <1>5 DEF Padded
<1>7. \A b \in Bufs : mem'[b] = IF b = job.buf THEN [mem[job.buf] EXCEPT !.take = s_loop_frames]
                                               ELSE mem[b]
  BY <1>0, <1>1, <1>6 DEF MemShape
<1>8. job.from \in Nat
  BY <1>0, <1>1, Numbers DEF Shape, JobShape, Jobs
<1>9. mem'[job.buf].size = mem[job.buf].size /\ mem'[job.buf].take = s_loop_frames
  BY <1>3, <1>5, <1>7
<1> QED BY <1>0, <1>1, <1>2, <1>3, <1>4, <1>7, <1>8, <1>9, Kinds

(* A compacted track, in the copy of its buffer.                             *)
LEMMA SwapFacts ==
  ASSUME Base, Taken, CompactSwap
  PROVE  /\ UNCHANGED <<s_loop_frames, s_filled, s_rec_limit, s_pad, s_cmd, a, block, mem>>
         /\ pc = "swap" /\ pc' = "shrink" /\ job.trk \in Tracks /\ job.buf \in Bufs
         /\ \A t \in Tracks : s_buf'[t] = IF t = job.trk THEN job.buf ELSE s_buf[t]
<1> USE DEF heap, audio, mail
<1>0. MemShape /\ Shape /\ Memory
  BY Parts DEF Base
<1>1. /\ UNCHANGED <<s_loop_frames, s_filled, s_rec_limit, s_pad, s_cmd, a, block, mem>>
      /\ pc = "swap" /\ pc' = "shrink" /\ s_buf' = [s_buf EXCEPT ![job.trk] = job.buf]
  BY DEF CompactSwap
<1>2. job.trk \in Tracks /\ job.buf \in Bufs
  BY <1>0, <1>1, BufFacts DEF Shape, JobShape, Memory
<1> QED BY <1>0, <1>1, <1>2 DEF MemShape

(* The buffers after a step, for the provers.                                *)
LEMMA NextBufs ==
  ASSUME Base, [Next]_vars
  PROVE  /\ \A b \in Bufs : mem'[b].size \in Nat /\ mem'[b].take \in Nat
         /\ \A t \in Tracks : s_buf'[t] # NoBuf => s_buf'[t] \in Bufs
         /\ s_loop_frames' \in Nat
<1>1. MemShape'
  BY MemStep DEF Base
<1>2. /\ s_buf' \in [Tracks -> live' \cup {NoBuf}] /\ live' \subseteq Bufs
      /\ mem' \in [Bufs -> [size : Units, take : Units]] /\ s_loop_frames' \in Units
  BY <1>1 DEF MemShape, Units
<1>3. \A b \in Bufs : mem'[b] \in [size : Units, take : Units]
  BY <1>2
<1> QED BY <1>2, <1>3, Numbers

-----------------------------------------------------------------------------
(* The set, a part of the invariant at a time. *)

(* The length of the loop. *)
LEMMA LoopStep == ASSUME Base, Taken, InTime, InTime', [Next]_vars PROVE Loop'
<1>0. Shape /\ Moving /\ Loop
  BY DEF Base, Taken
<1>1. CASE RestStep
  <2>1. Rests /\ UNCHANGED s_rec_limit /\ s_filled' \subseteq s_filled
    BY <1>1, RestFacts
  <2> QED BY <1>0, <2>1 DEF Rests, Loop
<1>2. CASE GrowFree
  <2>1. Rests /\ UNCHANGED s_filled /\ (a.rec => s_rec_limit' = s_rec_limit)
    BY <1>2, GrowFacts
  <2> QED BY <1>0, <2>1 DEF Rests, Loop
<1>3. CASE BlockBegin
  <2>1. /\ UNCHANGED s_rec_limit /\ (block'.step # "idle" => block'.len = s_loop_frames')
        /\ s_loop_frames > 0 => s_loop_frames' = s_loop_frames
    BY <1>3, BeginFacts
  <2>2. BegunNone \/ BegunStop \/ BegunPlay \/ BegunRec \/ BegunDetach
    BY <1>0, <1>3, BeginCases, Zenon
  <2>3. /\ s_loop_frames' = 0 => s_filled' = {} /\ ~a'.pending
        /\ s_loop_frames' > 0 => a'.pos < s_loop_frames'
        /\ s_loop_frames' = 0 => IF a'.rec THEN a'.pos < s_rec_limit ELSE a'.pos = 0
    <3> USE <1>0, Kinds DEF Loop
    <3>1. CASE BegunNone
      BY <2>1, <3>1 DEF BegunNone, SetSame, TakeSame, AtTop, Moving
    <3>2. CASE BegunStop
      BY <2>1, <3>2 DEF BegunStop, TakeShut, TakeOver, SetSame, AtTop, PosNow
    <3>3. CASE BegunPlay
      BY <2>1, <3>3 DEF BegunPlay, TakeShut, TakeOver, SetSame, PosNow
    <3>4. CASE BegunRec
      BY <2>1, <3>4 DEF BegunRec, SetSame, TakeSame, StartsNow
    <3>5. CASE BegunDetach
      BY <2>1, <3>5 DEF BegunDetach, SetSame, TakeOver, AtTop
    <3> QED BY <2>2, <3>1, <3>2, <3>3, <3>4, <3>5
  <2> QED BY <2>1, <2>3 DEF Loop
<1>4. CASE Segment
  <2>1. UNCHANGED <<s_loop_frames, s_filled, s_rec_limit, a>>
    BY <1>4 DEF Segment, set
  <2>2. block.step = "load" /\ block'.len = block.len
    BY <1>0, <1>4, SegmentResult
  <2> QED BY <1>0, <2>1, <2>2 DEF Loop
<1>5. CASE Advance
  <2>1. /\ UNCHANGED s_rec_limit /\ block.len = s_loop_frames /\ (s_loop_frames = 0 => a.rec)
        /\ a.pos < Pass /\ (Ends <=> a.pos + 1 >= Pass)
        /\ block'.step # "idle" => block'.len = s_loop_frames'
    BY <1>5, AdvanceFacts
  <2> USE <1>0, Kinds DEF Loop
  <2>2. CASE ~Ends
    BY <1>5, <2>1, <2>2, Advances DEF Pass
  <2>3. CASE Ends /\ block.len > 0
    BY <1>5, <2>1, <2>3, Advances
  <2>4. CASE Ends /\ block.len = 0
    BY <1>5, <2>1, <2>4, Advances
  <2> QED BY <2>2, <2>3, <2>4
<1>6. CASE PadTake
  <2>1. UNCHANGED <<s_loop_frames, s_rec_limit, a, block>> /\ s_loop_frames > 0
    BY <1>6, PadFacts
  <2> QED BY <1>0, <2>1 DEF Loop
<1>7. CASE CompactSwap
  BY <1>0, <1>7, SwapFacts DEF Loop
<1>8. CASE ModeRec \/ FireTake
  <2>1. UNCHANGED <<s_loop_frames, s_filled, a, block>>
    BY <1>8, TakeFacts
  <2>2. PICK t \in Tracks, n \in 1 .. Cap : TakesNow(t, n) \/ TakesLater(t, n) \/ Refuses
    BY <1>8, TakeFacts
  <2>3. a.rec => s_rec_limit' = s_rec_limit
    BY <2>2 DEF TakesNow, TakesLater, Refuses
  <2> QED BY <1>0, <2>1, <2>3 DEF Loop
<1>9. CASE ResetDone \/ LoadRelease
  <2>1. Quiet /\ UNCHANGED <<a, block>> /\ s_filled' = {} /\ s_loop_frames' = 0
    BY <1>9, GoneFacts
  <2> QED BY <1>0, <2>1 DEF Quiet, Moving, Loop
<1>10. CASE LoadFill
  <2>1. Quiet /\ UNCHANGED <<a, block>> /\ (s_loop_frames' = 0 => s_filled' = {})
    BY <1>10, LoadFacts
  <2>2. s_loop_frames' \in Nat
    BY NextBufs
  <2> QED BY <1>0, <2>1, <2>2 DEF Quiet, Moving, Loop
<1> QED BY <1>1, <1>2, <1>3, <1>4, <1>5, <1>6, <1>7, <1>8, <1>9, <1>10, SoundGroups, Zenon

(* The room of a take. *)
LEMMA RoomStep == ASSUME Base, Taken, InTime, InTime', [Next]_vars PROVE Room'
<1>0. Shape /\ Moving /\ Memory /\ MemShape /\ Room /\ Loop
  BY Parts DEF Base, Taken
<1>a. SUFFICES ASSUME NEW t \in Tracks, Due(t)'
               PROVE  s_buf'[t] # NoBuf /\ mem'[s_buf'[t]].size >= Pass'
  BY DEF Room
<1>b. Due(t) => s_buf[t] # NoBuf /\ mem[s_buf[t]].size >= Pass
                 /\ s_buf[t] \in Bufs /\ s_buf[t] \in live
  BY <1>0, BufFacts DEF Room
<1>1. CASE RestStep
  <2>1. Rests /\ Pass' = Pass /\ Due(t)
    BY <1>1, <1>a, RestFacts
  <2> QED BY <1>b, <2>1 DEF Rests
<1>2. CASE GrowFree
  <2>1. /\ Rests /\ pc = "grow" /\ s_cmd' = <<"rec", job.trk>> /\ s_rec_limit' = job.limit
        /\ a.rec => s_rec_limit' = s_rec_limit
    BY <1>2, GrowFacts
  <2>2. CASE t = job.trk
    <3>1. s_buf[t] # NoBuf
          /\ mem[s_buf[t]].size >= IF s_loop_frames > 0 THEN s_loop_frames ELSE job.limit
      BY <2>1, <2>2 DEF Taken, Grown
    <3> QED BY <2>1, <3>1 DEF Rests, Pass
  <2>3. CASE t # job.trk
    <3>1. s_cmd' # <<"rec", t>>
      BY <2>1, <2>3
    <3>2. (a.rec \/ a.pending) /\ a.trk = t
      BY <1>a, <2>1, <3>1 DEF Due, Rests
    <3>3. Pass' = Pass
      BY <1>0, <2>1, <3>2, Kinds DEF Pass, Loop, Rests
    <3> QED BY <1>b, <2>1, <3>2, <3>3 DEF Rests, Due
  <2> QED BY <2>2, <2>3
<1>3. CASE BlockBegin
  <2>1. UNCHANGED <<s_buf, mem, s_rec_limit>> /\ Due(t) /\ s_loop_frames' = s_loop_frames
    BY <1>3, <1>a, BeginFacts
  <2> QED BY <1>b, <2>1 DEF Pass
<1>4. CASE Segment
  <2>1. UNCHANGED <<s_loop_frames, s_buf, mem, s_rec_limit, a, s_cmd>>
    BY <1>4 DEF Segment, set, heap, mail
  <2> QED BY <1>a, <1>b, <2>1 DEF Pass, Due
<1>5. CASE Advance
  <2>1. /\ UNCHANGED s_buf /\ Due(t) /\ Pass' = Pass
        /\ \A b \in Bufs : mem'[b].size = mem[b].size
    BY <1>5, <1>a, AdvanceFacts
  <2> QED BY <1>b, <2>1
<1>6. CASE PadTake
  <2>1. /\ UNCHANGED <<s_buf, s_loop_frames, s_rec_limit, s_cmd, a>>
        /\ \A b \in Bufs : mem'[b].size = mem[b].size
    BY <1>6, PadFacts
  <2> QED BY <1>a, <1>b, <2>1 DEF Pass, Due
<1>7. CASE CompactSwap
  <2>1. /\ UNCHANGED <<s_loop_frames, s_rec_limit, s_cmd, a, mem>> /\ pc = "swap"
        /\ s_buf'[t] = IF t = job.trk THEN job.buf ELSE s_buf[t]
    BY <1>7, SwapFacts
  <2>2. Due(t) /\ Pass' = Pass
    BY <1>a, <2>1 DEF Due, Pass
  <2>3. t # job.trk
    BY <2>1, <2>2 DEF Taken, Copied
  <2> QED BY <1>b, <2>1, <2>2, <2>3
<1>8. CASE ModeRec \/ FireTake
  <2>1. UNCHANGED <<s_loop_frames, a>>
    BY <1>8, TakeFacts
  <2>2. PICK u \in Tracks, n \in 1 .. Cap :
            /\ TakeSize(n) /\ Touches(u)
            /\ TakesNow(u, n) \/ TakesLater(u, n) \/ Refuses
    BY <1>8, TakeFacts
  <2>3. CASE TakesNow(u, n)
    <3>1. s_cmd' = <<"rec", u>> /\ Readied(u, n) /\ (a.rec => s_rec_limit' = s_rec_limit)
          /\ s_rec_limit' = IF s_loop_frames = 0 THEN n ELSE s_rec_limit
      BY <2>3 DEF TakesNow
    <3>2. CASE t = u
      BY <1>0, <2>1, <2>2, <3>1, <3>2, Kinds DEF Readied, Pass, TakeSize
    <3>3. CASE t # u
      <4>1. s_cmd' # <<"rec", t>>
        BY <3>1, <3>3
      <4>2. (a.rec \/ a.pending) /\ a.trk = t
        BY <1>a, <2>1, <4>1 DEF Due
      <4>3. Pass' = Pass
        BY <1>0, <2>1, <3>1, <4>2, Kinds DEF Pass, Loop
      <4> QED BY <1>b, <2>2, <3>3, <4>2, <4>3 DEF Touches, Due
    <3> QED BY <3>2, <3>3
  <2>4. CASE TakesLater(u, n)
    <3>1. /\ Readied(u, n) /\ UNCHANGED <<s_cmd, s_rec_limit>> /\ ~a.rec
          /\ s_cmd[1] = "rec" => n >= Pass
      BY <2>4 DEF TakesLater
    <3>2. Due(t) /\ Pass' = Pass
      BY <1>a, <2>1, <3>1 DEF Due, Pass
    <3>3. CASE t = u
      <4>1. n >= Pass
        <5>1. CASE s_cmd[1] = "rec"
          BY <3>1, <5>1
        <5>2. CASE s_cmd[1] # "rec"
          <6>1. a.pending
            BY <3>1, <3>2, <5>2 DEF Due
          <6> QED BY <1>0, <2>2, <6>1, Kinds DEF Loop, TakeSize, Pass
        <5> QED BY <5>1, <5>2
      <4>2. mem'[s_buf'[t]].size \in Nat
        <5>1. s_buf'[t] # NoBuf
          BY <3>1, <3>3 DEF Readied
        <5> QED BY <5>1, NextBufs
      <4>3. Pass \in Nat
        BY <1>0, Kinds DEF Pass
      <4> QED BY <3>1, <3>2, <3>3, <4>1, <4>2, <4>3 DEF Readied
    <3>4. CASE t # u
      BY <1>b, <2>2, <3>2, <3>4 DEF Touches
    <3> QED BY <3>3, <3>4
  <2>5. CASE Refuses
    BY <1>a, <1>b, <2>1, <2>5 DEF Refuses, Due, Pass
  <2> QED BY <2>2, <2>3, <2>4, <2>5
<1>9. CASE (ResetDone \/ LoadRelease) \/ LoadFill
  <2>1. Quiet /\ UNCHANGED <<a, s_cmd>>
    BY <1>9, GoneFacts, LoadFacts
  <2>2. s_cmd' # <<"rec", t>>
    BY <2>1 DEF Quiet
  <2> QED BY <1>a, <2>1, <2>2 DEF Quiet, Due
<1> QED BY <1>1, <1>2, <1>3, <1>4, <1>5, <1>6, <1>7, <1>8, <1>9, SoundGroups, Zenon

(* The buffer of a take to be commanded. *)
LEMMA GrownStep == ASSUME Base, Taken, InTime, InTime', [Next]_vars PROVE Grown'
<1>0. Shape /\ Moving /\ MemShape /\ Loop
  BY Parts DEF Base, Taken
<1>a. SUFFICES ASSUME pc' = "grow"
               PROVE  /\ s_buf'[job'.trk] # NoBuf
                      /\ mem'[s_buf'[job'.trk]].size >=
                           IF s_loop_frames' > 0 THEN s_loop_frames' ELSE job'.limit
                      /\ s_loop_frames' = 0 /\ (a'.rec \/ s_cmd'[1] = "rec") =>
                           mem'[s_buf'[job'.trk]].size >= s_rec_limit'
  BY DEF Grown
<1> DEFINE b == s_buf[job.trk]
<1>b. pc = "grow" =>
        /\ job.trk \in Tracks /\ b # NoBuf /\ b \in Bufs /\ mem[b].size \in Nat
        /\ mem[b].size >= IF s_loop_frames > 0 THEN s_loop_frames ELSE job.limit
        /\ s_loop_frames = 0 /\ (a.rec \/ s_cmd[1] = "rec") => mem[b].size >= s_rec_limit
  BY <1>0, BufFacts DEF Taken, Grown, Shape, JobShape
<1>1. CASE RestStep
  <2>1. /\ Rests /\ UNCHANGED s_rec_limit /\ pc = "grow" /\ UNCHANGED job
        /\ s_cmd'[1] = "rec" => s_cmd' = s_cmd
    BY <1>1, <1>a, RestFacts
  <2> QED BY <1>b, <2>1 DEF Rests
<1>2. CASE BlockBegin
  <2>1. /\ UNCHANGED <<s_buf, s_rec_limit, mem, pc, job>>
        /\ s_loop_frames > 0 => s_loop_frames' = s_loop_frames
        /\ ~a.rec => SetSame
        /\ \A t \in Tracks : Due(t)' => Due(t)
    BY <1>2, BeginFacts
  <2>2. pc = "grow" /\ s_loop_frames \in Nat /\ s_loop_frames' \in Nat
    BY <1>0, <1>a, <2>1, Kinds, NextBufs
  <2>3. CASE s_loop_frames > 0
    BY <1>b, <2>1, <2>2, <2>3
  <2>4. CASE s_loop_frames = 0 /\ a.rec
    <3>1. s_loop_frames' = 0 \/ s_loop_frames' = a.pos
      BY <1>0, <1>2, <2>4, BeginCases
         DEF BegunNone, BegunStop, BegunPlay, BegunRec, BegunDetach, SetSame, TakeShut
    <3>2. a.pos < s_rec_limit
      BY <2>4, <1>0 DEF Loop
    <3>3. mem[b].size >= s_rec_limit /\ mem[b].size >= job.limit
      BY <1>b, <2>2, <2>4
    <3> HIDE DEF b
    <3>4. mem'[s_buf'[job'.trk]] = mem[b] /\ s_buf'[job'.trk] = b
      BY <2>1 DEF b
    <3> QED BY <1>0, <1>b, <2>1, <2>2, <3>1, <3>2, <3>3, <3>4, Kinds
  <2>5. CASE s_loop_frames = 0 /\ ~a.rec
    <3>1. SetSame /\ ~a.pending
      BY <1>0, <2>1, <2>5 DEF Loop
    <3>2. s_cmd'[1] = "none"
      BY <1>0, <1>2, BeginCases
    <3>3. a'.rec => s_cmd[1] = "rec"
      <4>1. a'.trk \in Tracks
        BY BlockStep DEF Base, BlockShape, States
      <4>2. a'.rec => Due(a'.trk)
        BY <2>1, <4>1 DEF Due
      <4> QED BY <2>5, <3>1, <4>2 DEF Due
    <3> QED BY <1>b, <2>1, <2>2, <2>5, <3>1, <3>2, <3>3 DEF SetSame
  <2> QED BY <2>2, <2>3, <2>4, <2>5
<1>3. CASE Segment
  <2>1. UNCHANGED <<s_loop_frames, s_buf, mem, s_rec_limit, a, s_cmd, pc, job>>
    BY <1>3 DEF Segment, set, heap, mail, ctl
  <2> QED BY <1>a, <1>b, <2>1
<1>4. CASE Advance
  <2>1. /\ UNCHANGED <<s_buf, s_rec_limit, s_cmd, pc, job>> /\ block.len = s_loop_frames
        /\ s_loop_frames = 0 => a.rec
        /\ \A c \in Bufs : mem'[c].size = mem[c].size
    BY <1>4, AdvanceFacts
  <2>2. pc = "grow" /\ s_loop_frames \in Nat /\ s_rec_limit \in Nat /\ s_rec_limit > 0
    BY <1>0, <1>a, <2>1, Kinds
  <2>3. s_buf'[job'.trk] = b /\ mem'[b].size = mem[b].size /\ b # NoBuf /\ mem[b].size \in Nat
    BY <1>b, <2>1, <2>2
  <2>4. CASE s_loop_frames > 0
    <3>1. s_loop_frames' = s_loop_frames
      BY <1>0, <1>4, <2>1, <2>2, <2>4, Advances
    <3> QED BY <1>b, <2>1, <2>2, <2>3, <2>4, <3>1
  <2>5. CASE s_loop_frames = 0
    <3>1. s_loop_frames' = s_loop_frames \/ s_loop_frames' = s_rec_limit
      BY <1>0, <1>4, <2>1, <2>5, Advances
    <3>2. mem[b].size >= s_rec_limit /\ mem[b].size >= job.limit
      BY <1>b, <2>1, <2>2, <2>5
    <3> HIDE DEF b
    <3> QED BY <2>1, <2>2, <2>3, <2>5, <3>1, <3>2
  <2> QED BY <2>2, <2>4, <2>5
<1>5. CASE ModeRec \/ FireTake
  <2>1. UNCHANGED <<s_loop_frames, a>>
    BY <1>5, TakeFacts
  <2>2. PICK t \in Tracks, n \in 1 .. Cap :
            TakeSize(n) /\ (TakesNow(t, n) \/ TakesLater(t, n) \/ Refuses)
    BY <1>5, TakeFacts
  <2>3. /\ Readied(t, n) /\ UNCHANGED <<s_cmd, s_rec_limit>> /\ ~a.rec
        /\ s_cmd[1] = "rec" => n >= Pass
        /\ job'.trk = t /\ job'.limit = IF s_loop_frames = 0 THEN n ELSE s_rec_limit
    BY <1>a, <2>2 DEF TakesNow, TakesLater, Refuses
  <2>4. s_buf'[t] # NoBuf /\ mem'[s_buf'[t]].size >= n /\ mem'[s_buf'[t]].size \in Nat
    BY <2>3, NextBufs DEF Readied
  <2> DEFINE m == mem'[s_buf'[t]].size
  <2>5. m >= IF s_loop_frames > 0 THEN s_loop_frames ELSE job'.limit
    BY <1>0, <2>2, <2>3, <2>4, Kinds DEF TakeSize
  <2>6. s_loop_frames = 0 /\ s_cmd[1] = "rec" => m >= s_rec_limit
    BY <1>0, <2>3, <2>4, Kinds DEF Pass
  <2> QED BY <2>1, <2>3, <2>4, <2>5, <2>6
<1>6. CASE GrowFree \/ PadTake \/ CompactSwap \/ (ResetDone \/ LoadRelease) \/ LoadFill
  BY <1>6, <1>a, GrowFacts, PadFacts, SwapFacts, GoneFacts, LoadFacts
<1> QED BY <1>1, <1>2, <1>3, <1>4, <1>5, <1>6, SoundGroups, Zenon

(* What the buffers hold. *)
LEMMA ContentStep == ASSUME Base, Taken, InTime, InTime', [Next]_vars PROVE Content'
<1>0. Shape /\ Moving /\ MemShape /\ Loop /\ Content
  BY Parts DEF Base, Taken
<1>a. a.rec => a.trk \in Tracks /\ s_buf[a.trk] # NoBuf
               /\ s_buf[a.trk] \in Bufs /\ s_buf[a.trk] \in live
               /\ mem[s_buf[a.trk]].size >= Pass
  BY <1>0, Kinds, BufFacts DEF Taken, Room, Due
<1>1. CASE RestStep \/ GrowFree
  <2>1. Rests
    BY <1>1, RestFacts, GrowFacts
  <2>2. \A b \in Bufs : mem'[b].take <= mem'[b].size
    BY <1>0, <2>1 DEF Rests, Content
  <2> QED BY <1>0, <1>a, <2>1, <2>2 DEF Rests, Content
<1>2. CASE BlockBegin
  <2>1. UNCHANGED <<s_buf, mem>> /\ block'.step # "use"
    BY <1>2, BeginFacts
  <2>2. a'.rec /\ a'.pos > 0 => a.rec /\ a'.pos = a.pos /\ a'.trk = a.trk
    <3>1. BegunNone \/ BegunStop \/ BegunPlay \/ BegunRec \/ BegunDetach
      BY <1>0, <1>2, BeginCases, Zenon
    <3>2. CASE BegunNone
      BY <1>0, <3>2, Kinds DEF BegunNone, TakeSame, AtTop, Moving
    <3>3. CASE BegunStop \/ BegunPlay \/ BegunDetach
      BY <3>3 DEF BegunStop, BegunPlay, BegunDetach, TakeOver
    <3>4. CASE BegunRec
      <4>1. CASE a.rec \/ a.pending
        BY <3>4, <4>1 DEF BegunRec, TakeSame
      <4>2. CASE ~a.rec /\ ~a.pending
        <5>1. a'.rec => StartsNow
          BY <3>4, <4>2, Zenon DEF BegunRec
        <5>2. StartsNow => a'.pos = 0
          BY <3>4, <4>2 DEF BegunRec
        <5> QED BY <5>1, <5>2
      <4> QED BY <4>1, <4>2
    <3> QED BY <3>1, <3>2, <3>3, <3>4
  <2> QED BY <1>0, <2>1, <2>2 DEF Content
<1>3. CASE Segment
  <2>1. UNCHANGED <<s_buf, mem, a>>
    BY <1>3 DEF Segment, set, heap
  <2>2. block'.writes = IF a.rec THEN s_buf[a.trk] ELSE NoBuf
    BY <1>0, <1>3, SegmentResult
  <2> QED BY <1>0, <2>1, <2>2 DEF Content
<1>4. CASE Advance
  <2>1. /\ UNCHANGED <<s_buf>> /\ a.pos < Pass /\ block'.step # "use"
        /\ \A b \in Bufs : /\ mem'[b].size = mem[b].size
                           /\ mem'[b] = mem[b] \/ (a.rec /\ b = s_buf[a.trk])
        /\ a.rec => mem[s_buf[a.trk]].size >= Pass /\ mem'[s_buf[a.trk]].take = a.pos + 1
                    /\ ~a.pending
    BY <1>4, AdvanceFacts
  <2>2. Pass \in Nat /\ a.pos \in Nat /\ \A b \in Bufs : mem[b].size \in Nat
    BY <1>0, Kinds, BufFacts DEF Pass
  <2>3. a.rec => mem'[s_buf[a.trk]].take <= mem'[s_buf[a.trk]].size
    <3> DEFINE w == s_buf[a.trk]
    <3>1. a.rec => /\ w \in Bufs /\ mem[w].size >= Pass /\ mem[w].size \in Nat
                   /\ mem'[w].size = mem[w].size /\ mem'[w].take = a.pos + 1
      BY <1>a, <2>1, <2>2
    <3> HIDE DEF w
    <3>2. a.rec => mem'[w].take <= mem'[w].size
      BY <2>1, <2>2, <3>1
    <3> QED BY <3>2 DEF w
  <2>4. \A b \in Bufs : mem'[b].take <= mem'[b].size
    BY <1>0, <2>1, <2>3 DEF Content
  <2>5. a'.rec /\ a'.pos > 0 => a.rec /\ a'.pos = a.pos + 1 /\ a'.trk = a.trk
    <3>1. /\ a'.trk = a.trk /\ (Ends => a'.pos = 0)
          /\ ~Ends => a'.pos = a.pos + 1 /\ a'.rec = a.rec
      BY <1>0, <1>4, Advances
    <3>2. CASE Ends
      BY <3>1, <3>2
    <3>3. CASE ~Ends
      BY <3>1, <3>3, Zenon
    <3> QED BY <3>2, <3>3
  <2> QED BY <2>1, <2>4, <2>5 DEF Content
<1>5. CASE PadTake
  <2>1. /\ UNCHANGED <<s_buf, a, block>> /\ ~a.rec
        /\ \A b \in Bufs : b # job.buf => mem'[b] = mem[b]
        /\ mem'[job.buf].size = mem[job.buf].size /\ mem'[job.buf].take = s_loop_frames
        /\ s_loop_frames <= mem[job.buf].size
    BY <1>5, PadFacts DEF Stopped
  <2>2. \A b \in Bufs : mem'[b].take <= mem'[b].size
    BY <1>0, <2>1 DEF Content
  <2> QED BY <1>0, <2>1, <2>2 DEF Content
<1>6. CASE CompactSwap
  <2>1. /\ UNCHANGED <<a, block, mem>> /\ pc = "swap"
        /\ \A t \in Tracks : s_buf'[t] = IF t = job.trk THEN job.buf ELSE s_buf[t]
    BY <1>6, SwapFacts
  <2>2. a.rec => a.trk # job.trk
    BY <2>1 DEF Taken, Copied, Due
  <2> QED BY <1>0, <1>a, <2>1, <2>2 DEF Content
<1>7. CASE ModeRec \/ FireTake
  <2>1. UNCHANGED <<a, block>>
    BY <1>7, TakeFacts
  <2>2. PICK t \in Tracks, n \in 1 .. Cap : Touches(t)
    BY <1>7, TakeFacts
  <2>3. a.rec => s_buf'[a.trk] = s_buf[a.trk] /\ mem'[s_buf[a.trk]] = mem[s_buf[a.trk]]
    BY <1>a, <2>2 DEF Touches
  <2>4. \A b \in Bufs : mem'[b].take <= mem'[b].size
    BY <1>0, <2>2 DEF Touches, Content
  <2> QED BY <1>0, <2>1, <2>3, <2>4 DEF Content
<1>8. CASE (ResetDone \/ LoadRelease) \/ LoadFill
  <2>1. /\ Quiet /\ UNCHANGED <<a, block>>
        /\ \A b \in Bufs : mem'[b] = mem[b] \/ mem'[b].take <= mem'[b].size
    BY <1>8, GoneFacts, LoadFacts
  <2>2. \A b \in Bufs : mem'[b].take <= mem'[b].size
    BY <1>0, <2>1 DEF Content
  <2> QED BY <2>1, <2>2 DEF Quiet, Content
<1> QED BY <1>1, <1>2, <1>3, <1>4, <1>5, <1>6, <1>7, <1>8, SoundGroups, Zenon

(* The copy of a track. *)
LEMMA CopiedStep == ASSUME Base, Taken, InTime, InTime', [Next]_vars PROVE Copied'
<1> USE DEF set, heap, audio, mail, ctl
<1>0. Shape /\ Moving /\ Memory /\ MemShape /\ Loop /\ Copied
  BY Parts DEF Base, Taken
<1> DEFINE Places3 == {"compact", "swap", "shrink"}
           Good(k, b) ==
             /\ ~(((a'.rec \/ a'.pending) /\ a'.trk = k) \/ s_cmd' = <<"rec", k>>)
             /\ s_buf'[k] # NoBuf /\ mem'[b].size = s_loop_frames'
             /\ k \in s_filled' => mem'[b].take >= s_loop_frames'
             /\ s_pad'.trk = k => mem'[b].take = s_pad'.from
<1>a. SUFFICES /\ pc' \in Places3 => s_loop_frames' > 0
               /\ pc' = "swap" => Good(job'.trk, job'.buf)
  BY DEF Copied, Due
<1>b. pc = "swap" =>
        /\ s_loop_frames > 0 /\ job.trk \in Tracks /\ job.buf \in Bufs /\ job.buf \in live
        /\ job.buf # NoBuf /\ ~Due(job.trk) /\ s_buf[job.trk] # NoBuf
        /\ mem[job.buf].size = s_loop_frames
        /\ job.trk \in s_filled => mem[job.buf].take >= s_loop_frames
        /\ s_pad.trk = job.trk => mem[job.buf].take = s_pad.from
        /\ \A t \in Tracks : s_buf[t] # job.buf
  BY <1>0, BufFacts DEF Copied, Memory, Shape, JobShape
<1>1. CASE Aside
  <2>1. UNCHANGED <<s_cmd, s_loop_frames, s_filled, s_buf, s_pad, mem, a>>
    BY <1>1 DEF Aside
  <2>2. (pc' = pc /\ job' = job) \/ (pc' \in Easy /\ (pc' = "compact" => s_loop_frames # 0))
    BY <1>1 DEF Aside
  <2>3. CASE pc' = pc /\ job' = job
    <3>1. pc' = "swap" => Good(job.trk, job.buf)
      BY <1>b, <2>1, <2>3 DEF Due
    <3> HIDE DEF Good
    <3>2. pc' \in Places3 => s_loop_frames' > 0
      BY <1>0, <2>1, <2>3 DEF Copied
    <3> QED BY <2>3, <3>1, <3>2
  <2>4. CASE pc' \in Easy /\ (pc' = "compact" => s_loop_frames # 0)
    BY <1>0, <2>1, <2>4, Kinds DEF Easy
  <2> QED BY <2>2, <2>3, <2>4
<1>2. CASE TakeEvents \/ ModeCommand \/ ClearTrack \/ ResetDetach \/ LoadDetach
  <2>1. pc' \notin Places3
    BY <1>2 DEF TakeEvents, ModeCommand, ClearTrack, ResetDetach, LoadDetach, Handled
  <2> QED BY <2>1
<1>3. CASE CompactFree
  <2>1. pc = "shrink" /\ pc' = "compact" /\ UNCHANGED s_loop_frames
    BY <1>3 DEF CompactFree
  <2> QED BY <1>0, <2>1 DEF Copied
<1>4. CASE CompactCopy
  <2>1. pc = "compact" /\ s_loop_frames > 0
        /\ UNCHANGED <<s_cmd, s_loop_frames, s_filled, s_buf, s_pad, a>>
    BY <1>0, <1>4 DEF CompactCopy, Copied
  <2>2. CASE pc' = "flags"
    BY <2>2
  <2>3. CASE pc' # "flags"
    <3>1. PICK t \in Oversize, b \in Bufs \ live :
            /\ mem' = [mem EXCEPT ![b] = TookFrom(s_loop_frames,
                               IF mem[s_buf[t]].take < s_loop_frames THEN mem[s_buf[t]].take
                                                                     ELSE s_loop_frames)]
            /\ job' = [NoJob EXCEPT !.trk = t, !.buf = b]
            /\ overtaken' = (overtaken \/ TakeDue(t))
            /\ pc' = "swap"
      BY <1>4, <2>3 DEF CompactCopy, Malloc
    <3> DEFINE k == IF mem[s_buf[t]].take < s_loop_frames THEN mem[s_buf[t]].take ELSE s_loop_frames
               m == TookFrom(s_loop_frames, k)
    <3>2. t \in Tracks /\ t # RecTrkLive /\ s_buf[t] # NoBuf
      BY <3>1 DEF Oversize
    <3>3. mem[s_buf[t]].take \in Nat /\ s_loop_frames \in Nat
      BY <1>0, <3>2, Kinds, BufFacts
    <3>4. m.size = s_loop_frames /\ m.take = k
      BY DEF TookFrom
    <3>5. ~TakeDue(t)
      BY <3>1, Zenon DEF InTime
    <3>6. ~Due(t)
      <4>1. a.rec => a.trk # t
        BY <3>2 DEF RecTrkLive
      <4> QED BY <3>5, <4>1, Zenon DEF TakeDue, Due
    <3>7. t \in s_filled => k = s_loop_frames
      <4>1. t \in s_filled => Played(t)
        BY <2>1 DEF Taken, Filled
      <4>2. t \in s_filled => mem[s_buf[t]].take >= s_loop_frames
        BY <3>2, <4>1 DEF Played, Whole, RecTrkLive
      <4> QED BY <3>3, <4>2
    <3>8. s_pad.trk = t => k = s_pad.from
      <4>1. SUFFICES ASSUME s_pad.trk = t PROVE k = s_pad.from
        OBVIOUS
      <4>2. s_pad # NoPad
        BY <3>2, <4>1 DEF NoPad, NoTrk, Tracks
      <4>3. Tail(t, s_pad.from)
        BY <3>2, <4>1, <4>2 DEF Taken, Tails
      <4> QED BY <3>3, <4>3 DEF Tail
    <3> HIDE DEF k
    <3>9. mem'[b] = m
      BY <1>0, <3>1 DEF MemShape, k
    <3> HIDE DEF m
    <3>10. job'.trk = t /\ job'.buf = b
      BY <3>1 DEF NoJob
    <3>11. ~Due(t)'
      BY <2>1, <3>6 DEF Due
    <3>12. Good(t, b)
      BY <2>1, <3>2, <3>3, <3>4, <3>7, <3>8, <3>9, <3>11 DEF Due
    <3> HIDE DEF Good
    <3> QED BY <2>1, <3>1, <3>10, <3>12
  <2> QED BY <2>2, <2>3
<1>5. CASE BlockBegin
  <2>1. /\ UNCHANGED <<s_buf, mem, pc, job>>
        /\ s_loop_frames > 0 => s_loop_frames' = s_loop_frames
        /\ \A t \in Tracks : Due(t)' => Due(t)
    BY <1>5, BeginFacts
  <2>2. pc' = "swap" => ~Due(job.trk)' /\ (a.rec => a.trk # job.trk)
    BY <1>b, <2>1 DEF Due
  <2>3. s_loop_frames > 0 =>
          /\ s_filled' \subseteq s_filled
          /\ s_pad' = s_pad \/ (a.rec /\ s_pad' = [trk |-> a.trk, from |-> a.pos])
    BY <1>0, <1>5, BeginCases
       DEF BegunNone, BegunStop, BegunPlay, BegunRec, BegunDetach, SetSame, TakeShut
  <2>4. pc' = "swap" => (s_pad'.trk = job.trk => s_pad' = s_pad)
    BY <1>b, <2>1, <2>2, <2>3
  <2>9. pc' = "swap" => Good(job.trk, job.buf)
    BY <1>b, <2>1, <2>2, <2>3, <2>4 DEF Due
  <2>10. (pc' \in Places3 => s_loop_frames' > 0) /\ pc' = pc /\ job' = job
    BY <1>0, <2>1 DEF Copied
  <2> HIDE DEF Good
  <2> QED BY <2>9, <2>10
<1>6. CASE Segment
  <2>1. UNCHANGED <<s_cmd, s_loop_frames, s_filled, s_buf, s_pad, mem, a, pc, job>>
    BY <1>6 DEF Segment
  <2>9. pc' = "swap" => Good(job.trk, job.buf)
    BY <1>b, <2>1 DEF Due
  <2>10. (pc' \in Places3 => s_loop_frames' > 0) /\ pc' = pc /\ job' = job
    BY <1>0, <2>1 DEF Copied
  <2> HIDE DEF Good
  <2> QED BY <2>9, <2>10
<1>7. CASE Advance
  <2>1. /\ UNCHANGED <<s_buf, s_pad, pc, job>> /\ block.len = s_loop_frames
        /\ \A b \in Bufs : /\ mem'[b].size = mem[b].size
                           /\ mem'[b] = mem[b] \/ (a.rec /\ b = s_buf[a.trk])
        /\ \A t \in Tracks : Due(t)' => Due(t)
    BY <1>7, AdvanceFacts
  <2>2. s_loop_frames > 0 =>
          s_loop_frames' = s_loop_frames
          /\ (s_filled' = s_filled \/ (a.rec /\ s_filled' = s_filled \cup {a.trk}))
    BY <1>0, <1>7, <2>1, Advances
  <2>3. pc' = "swap" => ~Due(job.trk)' /\ (a.rec => a.trk # job.trk) /\ mem'[job.buf] = mem[job.buf]
    BY <1>0, <1>b, <2>1, Kinds DEF Due
  <2>9. pc' = "swap" => Good(job.trk, job.buf)
    BY <1>b, <2>1, <2>2, <2>3 DEF Due
  <2>10. (pc' \in Places3 => s_loop_frames' > 0) /\ pc' = pc /\ job' = job
    BY <1>0, <2>1, <2>2 DEF Copied
  <2> HIDE DEF Good
  <2> QED BY <2>9, <2>10
<1>8. CASE CompactSwap
  BY <1>0, <1>8, SwapFacts DEF Copied
<1>9. CASE GrowFree \/ PadTake \/ (ModeRec \/ FireTake) \/ (ResetDone \/ LoadRelease) \/ LoadFill
  <2>1. pc' \notin Places3
    BY <1>9, GrowFacts, PadFacts, TakeFacts, GoneFacts, LoadFacts
  <2> QED BY <2>1
<1> QED BY <1>1, <1>2, <1>3, <1>4, <1>5, <1>6, <1>7, <1>8, <1>9, SoundGroups, Zenon DEF RestStep

(* A transport that has stopped, with no take to come, does not go on by itself. *)
StopNext == /\ ~a'.rec /\ ~a'.pending /\ s_cmd'[1] \notin {"rec", "play"}
            /\ a'.ramp > 0 \/ ~a'.playing
TailNext(t, from) ==
  /\ 0 < from /\ from < s_loop_frames'
  /\ mem'[s_buf'[t]].size >= s_loop_frames' /\ mem'[s_buf'[t]].take = from

(* A block that begins or ends leaves it stopped, and the set as it was. *)
LEMMA StopStays ==
  ASSUME Base, Taken, Stopped, BlockBegin \/ Advance
  PROVE  /\ StopNext /\ SetSame /\ UNCHANGED <<s_buf, pc, job>>
         /\ \A b \in Bufs : mem'[b] = mem[b]
<1>0. Shape /\ Moving
  BY DEF Base
<1>1. ~a.rec /\ ~a.pending /\ s_cmd[1] \notin {"rec", "play"} /\ (a.ramp > 0 \/ ~a.playing)
  BY DEF Stopped
<1>2. CASE BlockBegin
  <2>1. SetSame /\ UNCHANGED <<s_buf, mem, pc, job>>
    BY <1>1, <1>2, BeginFacts
  <2>2. s_cmd' = <<"none">> /\ (BegunNone \/ BegunStop \/ BegunDetach)
    BY <1>0, <1>1, <1>2, BeginCases
  <2>3. ~a'.rec /\ ~a'.pending
    BY <1>1, <2>2 DEF BegunNone, BegunStop, BegunDetach, TakeSame, TakeOver
  <2>4. a'.ramp > 0 \/ ~a'.playing
    <3>1. CASE BegunNone
      <4>1. CASE a.ramp > 0
        BY <3>1, <4>1 DEF BegunNone, AtTop
      <4>2. CASE ~(a.ramp > 0)
        BY <1>0, <1>1, <3>1, <4>2, Kinds DEF BegunNone
      <4> QED BY <4>1, <4>2
    <3>2. CASE BegunStop \/ BegunDetach
      BY <3>2 DEF BegunStop, BegunDetach, AtTop
    <3> QED BY <2>2, <3>1, <3>2
  <2> QED BY <2>1, <2>2, <2>3, <2>4 DEF StopNext
<1>3. CASE Advance
  <2>1. /\ UNCHANGED <<s_buf, s_pad, s_cmd, pc, job>> /\ block.len = s_loop_frames
        /\ s_loop_frames > 0
        /\ \A b \in Bufs : mem'[b] = mem[b]
    BY <1>0, <1>1, <1>3, AdvanceFacts, Kinds
  <2>2. /\ a'.playing = a.playing /\ a'.ramp = a.ramp
        /\ s_loop_frames' = s_loop_frames /\ s_filled' = s_filled
    BY <1>0, <1>1, <1>3, <2>1, Advances
  <2>3. ~a'.rec /\ ~a'.pending
    <3>1. CASE Ends
      BY <1>0, <1>1, <1>3, <2>1, <3>1, Advances
    <3>2. CASE ~Ends
      BY <1>0, <1>1, <1>3, <3>2, Advances
    <3> QED BY <3>1, <3>2
  <2>4. a'.ramp > 0 \/ ~a'.playing
    <3>1. CASE a.playing
      BY <1>1, <2>2, <3>1
    <3>2. CASE ~a.playing
      BY <2>2, <3>2, Zenon
    <3> QED BY <3>1, <3>2
  <2> QED BY <1>1, <2>1, <2>2, <2>3, <2>4 DEF StopNext, SetSame
<1> QED BY <1>2, <1>3

(* The tail of a take cut short. *)
LEMMA TailsStep == ASSUME Base, Taken, InTime, InTime', [Next]_vars PROVE Tails'
<1> USE DEF set, heap, audio, mail, ctl
<1>0. Shape /\ Moving /\ Memory /\ MemShape /\ Loop /\ Tails
  BY Parts DEF Base, Taken
<1>n. \A t \in Tracks : [trk |-> t, from |-> 0] # NoPad /\ t # NoPad.trk
  BY DEF NoPad, NoTrk, Tracks
<1> DEFINE APad(p) == StopNext /\ p.trk \in Tracks
                      /\ (s_buf'[p.trk] # NoBuf => TailNext(p.trk, p.from))
           AJob(j) == /\ StopNext /\ s_pad' = NoPad /\ j.trk \in Tracks
                      /\ s_buf'[j.trk] = j.buf /\ j.buf # NoBuf /\ TailNext(j.trk, j.from)
<1>a. SUFFICES /\ s_pad' # NoPad => APad(s_pad')
               /\ pc' = "pad" => AJob(job')
  BY DEF Tails, StopNext, Stopped, TailNext, Tail
<1>b. s_pad # NoPad =>
        /\ Stopped /\ s_pad.trk \in Tracks
        /\ s_buf[s_pad.trk] # NoBuf => Tail(s_pad.trk, s_pad.from)
  BY <1>0 DEF Tails
<1>c. pc = "pad" =>
        /\ Stopped /\ s_pad = NoPad /\ job.trk \in Tracks
        /\ s_buf[job.trk] = job.buf /\ job.buf # NoBuf /\ Tail(job.trk, job.from)
  BY <1>0 DEF Tails
<1>d. \A t \in Tracks : s_buf[t] # NoBuf => s_buf[t] \in Bufs
  BY <1>0, BufFacts
<1>1. CASE RestStep
  <2>1. /\ UNCHANGED <<s_buf, s_loop_frames, a>>
        /\ \A t \in Tracks : s_buf[t] # NoBuf => mem'[s_buf[t]] = mem[s_buf[t]]
        /\ s_pad' = s_pad \/ s_pad' = NoPad
        /\ \/ s_cmd' = s_cmd
           \/ s_cmd'[1] \in {"stop", "detach"}
           \/ s_cmd'[1] = "play" /\ s_pad = NoPad /\ pc' # "pad"
    BY <1>1, RestFacts DEF Rests
  <2>2. s_pad' # NoPad => APad(s_pad')
    <3>1. SUFFICES ASSUME s_pad' # NoPad PROVE APad(s_pad)
      BY <2>1
    <3>2. StopNext
      BY <1>b, <2>1, <3>1 DEF Stopped, StopNext
    <3> QED BY <1>b, <2>1, <3>1, <3>2 DEF Tail, TailNext
  <2>3. CASE Aside
    <3>1. SUFFICES ASSUME pc' = "pad" PROVE AJob(job')
      BY <2>2
    <3>2. pc = "pad" /\ job' = job /\ UNCHANGED <<s_cmd, s_pad>>
      BY <2>3, <3>1 DEF Aside, Easy
    <3>3. AJob(job)
      BY <1>c, <2>1, <3>2 DEF Stopped, StopNext, Tail, TailNext
    <3> HIDE DEF AJob
    <3> QED BY <3>2, <3>3
  <2>4. CASE TakeEvents
    <3>1. SUFFICES ASSUME pc' = "pad" PROVE AJob(job')
      BY <2>2
    <3>2. /\ "pad" \in s_evt /\ PadDue /\ s_pad' = NoPad /\ s_cmd' = s_cmd
          /\ job' = [NoJob EXCEPT !.trk = s_pad.trk, !.buf = s_buf[s_pad.trk],
                                            !.from = s_pad.from]
      BY <2>4, <3>1 DEF TakeEvents
    <3>3. job'.trk = s_pad.trk /\ job'.buf = s_buf[s_pad.trk] /\ job'.from = s_pad.from
      BY <3>2 DEF NoJob
    <3>4. s_pad # NoPad /\ s_buf[s_pad.trk] # NoBuf
      BY <1>b, <3>2 DEF PadDue, NoPad
    <3>5. StopNext
      BY <1>b, <2>1, <3>2, <3>4 DEF Stopped, StopNext
    <3>6. TailNext(s_pad.trk, s_pad.from)
      BY <1>b, <2>1, <3>4 DEF Tail, TailNext
    <3> QED BY <1>b, <2>1, <3>2, <3>3, <3>4, <3>5, <3>6
  <2>5. CASE ModeCommand \/ CompactCopy \/ CompactFree \/ ClearTrack \/ ResetDetach \/ LoadDetach
    <3>1. pc' # "pad"
      BY <2>5 DEF ModeCommand, CompactCopy, CompactFree, ClearTrack, ResetDetach, LoadDetach,
         Handled
    <3> QED BY <2>2, <3>1
  <2> QED BY <1>1, <2>3, <2>4, <2>5 DEF RestStep
<1>2. CASE BlockBegin \/ Advance
  <2>1. ASSUME Stopped PROVE /\ StopNext /\ SetSame /\ UNCHANGED <<s_buf, pc, job>>
                             /\ \A b \in Bufs : mem'[b] = mem[b]
    BY <1>2, <2>1, StopStays
  <2>2. UNCHANGED pc
    BY <1>2, BeginFacts, AdvanceFacts
  <2>3. pc' = "pad" => AJob(job')
    <3>1. SUFFICES ASSUME pc = "pad" PROVE AJob(job) /\ job' = job
      BY <2>2
    <3> QED BY <1>c, <1>d, <2>1, <3>1 DEF SetSame, Tail, TailNext
  <2>4. s_pad # NoPad => APad(s_pad')
    <3>1. SUFFICES ASSUME s_pad # NoPad PROVE APad(s_pad) /\ s_pad' = s_pad
      OBVIOUS
    <3> QED BY <1>b, <1>d, <2>1, <3>1 DEF SetSame, Tail, TailNext
  <2>5. s_pad = NoPad /\ s_pad' # NoPad => APad(s_pad')
    <3>1. SUFFICES ASSUME s_pad = NoPad, s_pad' # NoPad PROVE APad(s_pad')
      OBVIOUS
    <3>2. BlockBegin
      BY <1>2, <3>1, AdvanceFacts
    <3>3. /\ s_cmd' = <<"none">>
          /\ BegunNone \/ BegunStop \/ BegunPlay \/ BegunRec \/ BegunDetach
      BY <1>0, <3>2, BeginCases
    <3>4. BegunStop /\ a.rec /\ s_loop_frames > 0 /\ a.pos > 0
          /\ s_pad' = [trk |-> a.trk, from |-> a.pos]
      BY <1>0, <3>1, <3>3, Kinds
         DEF BegunNone, BegunStop, BegunPlay, BegunRec, BegunDetach, SetSame, TakeShut
    <3>5. StopNext
      BY <3>3, <3>4 DEF BegunStop, TakeOver, AtTop, StopNext
    <3>6. a.trk \in Tracks /\ UNCHANGED <<s_buf, mem, s_loop_frames>>
      BY <1>0, <3>2, <3>4, Kinds, BeginFacts
    <3>7. mem[s_buf[a.trk]].size >= s_loop_frames /\ mem[s_buf[a.trk]].take = a.pos
          /\ a.pos < s_loop_frames
      BY <1>0, <3>4, <3>6 DEF Taken, Loop, Room, Content, Due, Pass
    <3>8. s_pad'.trk = a.trk /\ s_pad'.from = a.pos
      BY <3>4
    <3>9. TailNext(a.trk, a.pos)
      BY <3>4, <3>6, <3>7 DEF TailNext
    <3> QED BY <3>5, <3>6, <3>8, <3>9
  <2> QED BY <2>3, <2>4, <2>5
<1>3. CASE Segment
  <2>1. UNCHANGED <<s_cmd, s_loop_frames, s_buf, s_pad, mem, a, pc, job>>
    BY <1>3 DEF Segment
  <2> QED BY <1>b, <1>c, <2>1 DEF Stopped, StopNext, Tail, TailNext
<1>4. CASE PadTake
  BY <1>4, PadFacts
<1>5. CASE CompactSwap
  <2>1. /\ UNCHANGED <<s_loop_frames, s_pad, s_cmd, a, mem>>
        /\ pc = "swap" /\ pc' = "shrink" /\ job.trk \in Tracks
        /\ \A t \in Tracks : s_buf'[t] = IF t = job.trk THEN job.buf ELSE s_buf[t]
    BY <1>5, SwapFacts
  <2>2. SUFFICES ASSUME s_pad # NoPad PROVE APad(s_pad)
    BY <2>1
  <2>3. StopNext /\ s_pad.trk \in Tracks
    BY <1>b, <2>1, <2>2 DEF Stopped, StopNext
  <2>4. CASE s_pad.trk = job.trk
    <3>1. /\ s_buf[job.trk] # NoBuf /\ mem[job.buf].size = s_loop_frames
          /\ mem[job.buf].take = s_pad.from
      BY <2>1, <2>4 DEF Taken, Copied
    <3>2. 0 < s_pad.from /\ s_pad.from < s_loop_frames
      BY <1>b, <2>2, <2>4, <3>1 DEF Tail
    <3>3. TailNext(s_pad.trk, s_pad.from)
      BY <1>0, <2>1, <2>3, <2>4, <3>1, <3>2, Kinds DEF TailNext
    <3> QED BY <2>3, <3>3
  <2>5. CASE s_pad.trk # job.trk
    BY <1>b, <2>1, <2>2, <2>3, <2>5 DEF Tail, TailNext
  <2> QED BY <2>4, <2>5
<1>6. CASE GrowFree \/ LoadFill
  <2>1. s_pad = NoPad /\ UNCHANGED s_pad /\ pc' # "pad"
    BY <1>6, GrowFacts, LoadFacts
  <2> QED BY <2>1
<1>7. CASE ModeRec \/ FireTake
  <2>1. UNCHANGED <<s_loop_frames, s_pad, a>> /\ pc' # "pad"
    BY <1>7, TakeFacts
  <2>2. PICK t \in Tracks, n \in 1 .. Cap : TakesNow(t, n) \/ TakesLater(t, n) \/ Refuses
    BY <1>7, TakeFacts
  <2>3. s_pad # NoPad => UNCHANGED <<s_cmd, s_buf, mem>>
    BY <2>2 DEF TakesNow, TakesLater, Refuses
  <2> QED BY <1>b, <2>1, <2>3 DEF Stopped, StopNext, Tail, TailNext
<1>8. CASE ResetDone \/ LoadRelease
  <2>1. /\ UNCHANGED <<a, s_cmd, s_pad>> /\ (\A t \in Tracks : s_buf'[t] = NoBuf)
        /\ pc' # "pad"
    BY <1>8, GoneFacts
  <2> QED BY <1>b, <2>1 DEF Stopped, StopNext
<1> QED BY <1>1, <1>2, <1>3, <1>4, <1>5, <1>6, <1>7, <1>8, SoundGroups, Zenon

(* The tracks that can be played. *)
LEMMA FilledStep == ASSUME Base, Taken, InTime, InTime', [Next]_vars PROVE Filled'
<1> USE DEF set, heap, audio, mail, ctl, Waits
<1>0. Shape /\ Moving /\ Memory /\ LetGo /\ MemShape /\ Loop /\ Room /\ Content /\ Filled
  BY Parts DEF Base, Taken
<1> DEFINE Whole2(t) == s_loop_frames' > 0 /\ mem'[s_buf'[t]].take >= s_loop_frames'
           Played2(t) == (a'.rec /\ t = a'.trk) \/ Whole2(t)
<1>a. SUFFICES /\ \A t \in s_filled' : s_buf'[t] # NoBuf
               /\ pc' \notin Waits \/ a'.playing => \A t \in s_filled' : Played2(t)
  BY DEF Filled, Played, Whole
<1>b. /\ \A t \in s_filled : /\ t \in Tracks /\ s_buf[t] # NoBuf
                           /\ s_buf[t] \in Bufs /\ s_buf[t] \in live
      /\ pc \notin Waits \/ a.playing => \A t \in s_filled : Played(t)
  BY <1>0, Kinds, BufFacts DEF Filled
<1>r. a.rec => /\ a.trk \in Tracks /\ s_buf[a.trk] # NoBuf /\ s_buf[a.trk] \in Bufs
               /\ a.pos > 0 => mem[s_buf[a.trk]].take = a.pos
  BY <1>0, Kinds, BufFacts DEF Room, Due, Content
<1>1. CASE RestStep \/ GrowFree
  <2>1. Rests /\ s_filled' \subseteq s_filled /\ (pc \in Waits => pc' \in Waits)
    BY <1>1, RestFacts, GrowFacts
  <2> QED BY <1>b, <2>1 DEF Rests, Played, Whole
<1>2. CASE BlockBegin
  <2>1. UNCHANGED <<s_buf, mem, pc>>
    BY <1>2, BeginFacts
  <2>2. \/ s_cmd[1] = "none" /\ BegunNone
        \/ s_cmd[1] = "stop" /\ BegunStop
        \/ s_cmd[1] = "play" /\ BegunPlay
        \/ s_cmd[1] = "rec" /\ BegunRec
        \/ s_cmd[1] = "detach" /\ BegunDetach
    BY <1>0, <1>2, BeginCases
  <2>3. CASE pc \in Waits
    <3>1. s_cmd[1] = "detach" \/ Quiet
      BY <1>0, <2>3 DEF LetGo
    <3>2. SetSame /\ ~a'.playing
      <4>1. CASE s_cmd[1] = "detach"
        BY <2>2, <4>1 DEF BegunDetach, AtTop
      <4>2. CASE Quiet
        BY <2>2, <4>2 DEF Quiet, BegunNone
      <4> QED BY <3>1, <4>1, <4>2
    <3> QED BY <1>b, <2>1, <2>3, <3>2 DEF SetSame
  <2>4. CASE pc \notin Waits
    <3>1. \A t \in s_filled : Played(t)
      BY <1>b, <2>4
    <3>2. BegunNone \/ BegunStop \/ BegunPlay \/ BegunRec
      BY <1>0, <2>2, <2>4 DEF LetGo, InTime
    <3>3. CASE BegunNone
      BY <1>b, <2>1, <3>1, <3>3 DEF BegunNone, SetSame, TakeSame, Played, Whole
    <3>4. CASE BegunRec
      <4>1. CASE a.rec \/ a.pending
        BY <1>b, <2>1, <3>1, <3>4, <4>1 DEF BegunRec, SetSame, TakeSame, Played, Whole
      <4>2. CASE ~a.rec /\ ~a.pending
        BY <1>b, <2>1, <3>1, <3>4, <4>2 DEF BegunRec, SetSame, Played, Whole
      <4> QED BY <4>1, <4>2
    <3>5. CASE BegunStop \/ BegunPlay
      <4>1. TakeShut(TRUE) \/ TakeShut(FALSE)
        BY <3>5 DEF BegunStop, BegunPlay
      <4>2. CASE ~a.rec
        BY <1>b, <2>1, <3>1, <4>1, <4>2 DEF TakeShut, SetSame, Played, Whole
      <4>3. CASE a.rec /\ s_loop_frames = 0
        <5>1. s_loop_frames' = a.pos /\ s_filled' = IF a.pos > 0 THEN {a.trk} ELSE {}
          BY <1>0, <4>1, <4>3 DEF TakeShut, Loop
        <5>2. a.pos > 0 => Whole2(a.trk) /\ s_buf'[a.trk] # NoBuf
          BY <1>0, <1>r, <2>1, <4>3, <5>1, Kinds
        <5> HIDE DEF Whole2
        <5> QED BY <5>1, <5>2
      <4>4. CASE a.rec /\ s_loop_frames > 0
        <5>1. s_loop_frames' = s_loop_frames /\ s_filled' = s_filled \ {a.trk}
          BY <1>0, <4>1, <4>4, Kinds DEF TakeShut
        <5> QED BY <1>b, <2>1, <3>1, <5>1 DEF Played, Whole
      <4> QED BY <1>0, <4>2, <4>3, <4>4, Kinds
    <3> QED BY <3>2, <3>3, <3>4, <3>5
  <2> QED BY <2>3, <2>4
<1>3. CASE Segment
  <2>1. UNCHANGED <<s_loop_frames, s_filled, s_buf, mem, a, pc>>
    BY <1>3 DEF Segment
  <2> QED BY <1>b, <2>1 DEF Played, Whole
<1>4. CASE Advance
  <2>1. /\ UNCHANGED <<s_buf, pc>> /\ block.len = s_loop_frames /\ a.playing
        /\ s_loop_frames = 0 => a.rec
        /\ Ends <=> a.pos + 1 >= Pass
        /\ \A b \in Bufs : mem'[b] = mem[b] \/ (a.rec /\ b = s_buf[a.trk])
        /\ a.rec => ~a.pending /\ mem'[s_buf[a.trk]].take = a.pos + 1
    BY <1>4, AdvanceFacts
  <2>2. \A t \in s_filled : Played(t)
    BY <1>b, <2>1
  <2>3. \A t \in s_filled : ~(a.rec /\ t = a.trk) =>
          Whole(t) /\ mem'[s_buf[t]] = mem[s_buf[t]]
    BY <1>0, <1>b, <1>r, <2>1, <2>2 DEF Memory, Played
  <2>4. CASE ~Ends
    <3>1. /\ UNCHANGED <<s_loop_frames, s_filled>> /\ a'.trk = a.trk
          /\ a'.rec = a.rec
      BY <1>0, <1>4, <2>4, Advances
    <3>2. \A t \in s_filled : Played2(t)
      <4>1. SUFFICES ASSUME NEW t \in s_filled PROVE Played2(t)
        OBVIOUS
      <4>2. CASE a.rec /\ t = a.trk
        <5>1. a'.rec
          BY <3>1, <4>2, Zenon
        <5> QED BY <3>1, <4>2, <5>1
      <4>3. CASE ~(a.rec /\ t = a.trk)
        BY <2>1, <2>3, <3>1, <4>3 DEF Whole
      <4> QED BY <4>2, <4>3
    <3> QED BY <1>b, <2>1, <3>1, <3>2
  <2>5. CASE Ends /\ s_loop_frames > 0
    <3>1. /\ UNCHANGED <<s_loop_frames>>
          /\ s_filled' = IF a.rec THEN s_filled \cup {a.trk} ELSE s_filled
      BY <1>0, <1>4, <2>1, <2>5, Advances
    <3>2. a.pos + 1 >= s_loop_frames
      BY <1>0, <2>1, <2>5, Kinds DEF Pass
    <3>3. a.rec => Whole2(a.trk)
      BY <2>1, <2>5, <3>1, <3>2
    <3>4. \A t \in s_filled : ~(a.rec /\ t = a.trk) => Whole2(t)
      BY <2>1, <2>3, <3>1 DEF Whole
    <3> HIDE DEF Whole2
    <3>5. \A t \in s_filled' : Whole2(t)
      BY <3>1, <3>3, <3>4
    <3> QED BY <1>b, <1>r, <2>1, <3>1, <3>5
  <2>6. CASE Ends /\ s_loop_frames = 0
    <3>1. s_loop_frames' = s_rec_limit /\ s_filled' = {a.trk} /\ a.rec /\ s_rec_limit > 0
      BY <1>0, <1>4, <2>1, <2>6, Advances, Kinds DEF Loop
    <3>2. a.pos + 1 >= s_rec_limit
      BY <1>0, <2>1, <2>6, Kinds DEF Pass
    <3>3. Whole2(a.trk)
      BY <2>1, <3>1, <3>2
    <3> QED BY <1>r, <2>1, <3>1, <3>3
  <2> QED BY <1>0, <2>4, <2>5, <2>6, Kinds
<1>5. CASE PadTake
  <2>1. /\ UNCHANGED <<s_buf, s_loop_frames, a>> /\ ~a.rec
        /\ pc = "pad" /\ s_filled' = s_filled \cup {job.trk}
        /\ job.trk \in Tracks /\ s_buf[job.trk] = job.buf /\ job.buf \in Bufs
        /\ s_loop_frames > 0
        /\ \A b \in Bufs : b # job.buf => mem'[b] = mem[b]
        /\ mem'[job.buf].take = s_loop_frames
    BY <1>5, PadFacts DEF Stopped
  <2>2. Whole2(job.trk) /\ job.buf # NoBuf
    <3>1. s_buf'[job.trk] = job.buf /\ s_loop_frames' = s_loop_frames
      BY <2>1
    <3>2. s_loop_frames \in Nat
      BY <1>0, Kinds
    <3>3. job.buf # NoBuf
      BY <1>0, <2>1, BufFacts
    <3> QED BY <2>1, <3>1, <3>2, <3>3
  <2>3. \A t \in s_filled : t # job.trk => Whole2(t)
    <3>1. \A t \in s_filled : t # job.trk => s_buf[t] # job.buf
      BY <1>0, <1>b, <2>1 DEF Memory
    <3>2. \A t \in s_filled : Whole(t)
      BY <1>b, <2>1 DEF Played
    <3> QED BY <1>b, <2>1, <3>1, <3>2 DEF Whole
  <2> HIDE DEF Whole2
  <2> QED BY <1>b, <2>1, <2>2, <2>3
<1>6. CASE CompactSwap
  <2>1. /\ UNCHANGED <<s_loop_frames, s_filled, a, mem>>
        /\ pc = "swap" /\ job.trk \in Tracks /\ job.buf \in Bufs
        /\ \A t \in Tracks : s_buf'[t] = IF t = job.trk THEN job.buf ELSE s_buf[t]
    BY <1>6, SwapFacts
  <2>2. job.buf # NoBuf /\ (job.trk \in s_filled => mem[job.buf].take >= s_loop_frames)
        /\ s_loop_frames > 0
    BY <1>0, <2>1, BufFacts DEF Taken, Copied
  <2>3. \A t \in s_filled : t # job.trk => Played2(t)
    BY <1>b, <2>1 DEF Played, Whole
  <2>4. job.trk \in s_filled => Played2(job.trk)
    BY <2>1, <2>2
  <2> HIDE DEF Played2
  <2> QED BY <1>b, <2>1, <2>2, <2>3, <2>4
<1>7. CASE ModeRec \/ FireTake
  <2>1. UNCHANGED <<s_loop_frames, s_filled, a>> /\ pc = "handle"
    BY <1>7, TakeFacts
  <2>2. PICK u \in Tracks, n \in 1 .. Cap : Touches(u)
    BY <1>7, TakeFacts
  <2>3. \A t \in s_filled : s_buf'[t] = s_buf[t] /\ mem'[s_buf[t]] = mem[s_buf[t]]
    BY <1>b, <2>2 DEF Touches
  <2> QED BY <1>b, <2>1, <2>3 DEF Played, Whole
<1>8. CASE ResetDone \/ LoadRelease
  BY <1>8, GoneFacts
<1>9. CASE LoadFill
  <2>1. \A t \in s_filled' : /\ s_buf'[t] # NoBuf
                             /\ s_loop_frames' > 0 /\ mem'[s_buf'[t]].take = s_loop_frames'
    BY <1>9, LoadFacts
  <2> QED BY <2>1, NextBufs
<1> QED BY <1>1, <1>2, <1>3, <1>4, <1>5, <1>6, <1>7, <1>8, <1>9, SoundGroups, Zenon

(* The frames of a block. *)
LEMMA WithinStep == ASSUME Base, Taken, InTime, InTime', [Next]_vars PROVE Within'
<1> USE DEF set, heap, audio, mail, ctl
<1>0. Shape /\ Moving /\ Memory /\ MemShape /\ Loop /\ Room /\ Content /\ Filled /\ Within
  BY Parts DEF Base, Taken
<1>1. CASE RestStep \/ GrowFree
  <2>1. Rests
    BY <1>1, RestFacts, GrowFacts
  <2>2. UNCHANGED <<a, block>> /\ Used' = Used /\ \A b \in Used : mem'[b] = mem[b]
    BY <2>1 DEF Rests, Used
  <2> QED BY <1>0, <2>2 DEF Within
<1>2. CASE BlockBegin \/ Advance
  BY <1>2, BeginFacts, AdvanceFacts DEF Within
<1>3. CASE Segment
  <2>1. UNCHANGED <<s_buf, s_filled, mem, a>>
    BY <1>3 DEF Segment
  <2>2. /\ block.step = "load"
        /\ block'.mix = {t \in Mixed(block.len) : s_buf[t] # NoBuf}
        /\ block'.reads = {s_buf[t] : t \in block'.mix}
        /\ block'.writes = IF a.rec THEN s_buf[a.trk] ELSE NoBuf
    BY <1>0, <1>3, SegmentResult
  <2>3. a.playing /\ block.len = s_loop_frames
    BY <1>0, <2>2 DEF Moving, Loop
  <2>4. ASSUME NEW t \in block'.mix PROVE a.pos < mem[s_buf[t]].size
    <3>1. s_loop_frames > 0 /\ t \in s_filled /\ ~(a.rec /\ t = a.trk) /\ s_buf[t] # NoBuf
      BY <2>2, <2>3 DEF Mixed, RecTrkLive
    <3>2. Whole(t)
      BY <1>0, <2>3, <3>1 DEF Filled, Played
    <3>3. s_buf[t] \in Bufs
      BY <1>0, <3>1, Kinds, BufFacts
    <3> DEFINE b == s_buf[t]
    <3>4. mem[b].take <= mem[b].size /\ mem[b].take >= s_loop_frames
          /\ mem[b].take \in Nat /\ mem[b].size \in Nat
      BY <1>0, <3>2, <3>3, BufFacts DEF Content, Whole
    <3>5. a.pos < s_loop_frames /\ a.pos \in Nat /\ s_loop_frames \in Nat
      BY <1>0, <3>1, Kinds DEF Loop
    <3> HIDE DEF b
    <3>6. a.pos < mem[b].size
      BY <3>4, <3>5
    <3> QED BY <3>6 DEF b
  <2>5. a.rec => a.pos < mem[s_buf[a.trk]].size
    <3>1. SUFFICES ASSUME a.rec PROVE a.pos < mem[s_buf[a.trk]].size
      OBVIOUS
    <3> DEFINE b == s_buf[a.trk]
    <3>2. b # NoBuf /\ mem[b].size >= Pass
      BY <1>0, <3>1, Kinds DEF Room, Due
    <3>3. mem[b].size \in Nat
      BY <1>0, <3>2, Kinds, BufFacts
    <3>4. a.pos < Pass /\ a.pos \in Nat /\ Pass \in Nat
      BY <1>0, <3>1, Kinds DEF Loop, Pass
    <3> HIDE DEF b
    <3>5. a.pos < mem[b].size
      BY <3>2, <3>3, <3>4
    <3> QED BY <3>5 DEF b
  <2>6. \A b \in Used' : a.pos < mem[b].size
    BY <2>2, <2>4, <2>5 DEF Used
  <2> QED BY <2>1, <2>6 DEF Within
<1>4. CASE PadTake
  <2>1. UNCHANGED <<a, block>> /\ \A b \in Bufs : mem'[b].size = mem[b].size
    BY <1>4, PadFacts
  <2>2. Used' = Used /\ \A b \in Used : b \in Bufs
    BY <1>0, <2>1, BufFacts DEF Memory, Used
  <2> QED BY <1>0, <2>1, <2>2 DEF Within
<1>5. CASE CompactSwap
  <2>1. UNCHANGED <<a, block, mem>>
    BY <1>5, SwapFacts
  <2> QED BY <1>0, <2>1 DEF Within, Used
<1>6. CASE ModeRec \/ FireTake
  <2>1. UNCHANGED <<a, block>>
    BY <1>6, TakeFacts
  <2>2. PICK u \in Tracks, n \in 1 .. Cap : Touches(u)
    BY <1>6, TakeFacts
  <2>3. Used' = Used /\ \A b \in Used : mem'[b] = mem[b]
    BY <1>0, <2>1, <2>2 DEF Touches, Memory, Used
  <2> QED BY <1>0, <2>1, <2>3 DEF Within
<1>7. CASE (ResetDone \/ LoadRelease) \/ LoadFill
  BY <1>7, GoneFacts, LoadFacts DEF Quiet, Within
<1> QED BY <1>1, <1>2, <1>3, <1>4, <1>5, <1>6, <1>7, SoundGroups, Zenon

(* The decoders. *)
LEMMA DecodedStep == ASSUME Base, Taken, InTime, InTime', [Next]_vars PROVE Decoded'
<1> USE DEF set, heap, audio, mail, ctl
<1>0. Shape /\ Moving /\ MemShape /\ Loop /\ Filled /\ Decoded
  BY Parts DEF Base, Taken
<1> DEFINE Mix2 == s_filled' \ {IF a'.rec THEN a'.trk ELSE NoTrk}
<1>a. SUFFICES ASSUME a'.ramp = 0, a'.playing
               PROVE  /\ s_loop_frames' > 0 => Mix2 \subseteq a'.dec
                      /\ block'.step = "use" => /\ block'.mix \subseteq a'.dec
                                                /\ block'.len > 0 => Mix2 \subseteq block'.mix
  BY DEF Decoded, Mixable, RecTrkLive
<1>1. CASE RestStep \/ GrowFree
  <2>1. UNCHANGED <<s_loop_frames, a, block>> /\ s_filled' \subseteq s_filled
    BY <1>1, RestFacts, GrowFacts DEF Rests
  <2> QED BY <1>0, <1>a, <2>1 DEF Decoded, Mixable, RecTrkLive
<1>2. CASE BlockBegin
  <2>1. block'.step # "use"
    BY <1>2, BeginFacts
  <2>2. /\ BegunNone \/ BegunStop \/ BegunPlay \/ BegunRec \/ BegunDetach
        /\ a'.dec = IF a'.pos = 0 THEN Tracks ELSE a.dec
    BY <1>0, <1>2, BeginCases
  <2>3. s_filled' \subseteq Tracks
    BY MemStep DEF Base, MemShape
  <2>4. SUFFICES ASSUME a'.pos # 0, s_loop_frames' > 0 PROVE Mix2 \subseteq a'.dec
    BY <2>1, <2>2, <2>3
  <2>5. a.ramp = 0 /\ a.playing /\ s_loop_frames > 0 /\ Mix2 \subseteq Mixable
    <3>1. CASE BegunNone
      <4>1. a.ramp = 0
        <5>1. ~(a.ramp > 0)
          BY <1>a, <2>4, <3>1 DEF BegunNone, AtTop
        <5> QED BY <1>0, <5>1, Kinds
      <4>2. a'.playing = a.playing
        BY <3>1, <4>1, Zenon DEF BegunNone
      <4>3. a.playing
        BY <1>a, <4>2, Zenon
      <4>4. Mix2 = Mixable
        <5>1. CASE a.rec
          BY <3>1, <5>1 DEF BegunNone, SetSame, TakeSame, Mixable, RecTrkLive
        <5>2. CASE ~a.rec
          <6>1. ~a'.rec
            BY <3>1, <5>2, Zenon DEF BegunNone, TakeSame
          <6> QED BY <3>1, <5>2, <6>1 DEF BegunNone, SetSame, Mixable, RecTrkLive
        <5> QED BY <5>1, <5>2
      <4>5. s_loop_frames > 0
        BY <2>4, <3>1 DEF BegunNone, SetSame
      <4> QED BY <4>1, <4>3, <4>4, <4>5
    <3>2. CASE BegunStop \/ BegunDetach
      BY <1>0, <1>a, <2>4, <3>2, Kinds DEF BegunStop, BegunDetach, AtTop
    <3>3. CASE BegunPlay
      <4>1. a.ramp = 0 /\ a'.pos = PosNow /\ TakeShut(FALSE) /\ ~a'.rec
        <5>1. ~(a.ramp > 0)
          BY <2>4, <3>3 DEF BegunPlay
        <5>2. a.ramp = 0
          BY <1>0, <5>1, Kinds
        <5>3. ~a'.rec
          BY <3>3, Zenon DEF BegunPlay, TakeOver
        <5> QED BY <3>3, <5>1, <5>2, <5>3 DEF BegunPlay
      <4>2. a.pos # 0 /\ ~(a.rec /\ s_loop_frames = 0)
        BY <2>4, <4>1 DEF PosNow
      <4>3. a.playing
        BY <1>0, <4>2 DEF Moving
      <4>4. CASE a.rec
        BY <1>0, <4>1, <4>2, <4>3, <4>4, Kinds DEF TakeShut, Mixable, RecTrkLive
      <4>5. CASE ~a.rec
        BY <1>0, <2>4, <4>1, <4>2, <4>3, <4>5, Kinds DEF TakeShut, SetSame, Mixable, RecTrkLive
      <4> QED BY <4>4, <4>5
    <3>4. CASE BegunRec
      <4>1. CASE a.rec \/ a.pending
        BY <1>0, <1>a, <2>4, <3>4, <4>1 DEF BegunRec, SetSame, TakeSame, Mixable, RecTrkLive
      <4>2. CASE ~a.rec /\ ~a.pending
        <5>1. ~StartsNow
          BY <2>4, <3>4, <4>2 DEF BegunRec
        <5>2. ~a'.rec /\ a'.pos = a.pos /\ SetSame
          BY <3>4, <4>2, <5>1 DEF BegunRec
        <5>3. a.ramp = 0 /\ a.playing
          BY <1>0, <2>4, <5>1, <5>2, Kinds DEF StartsNow, Moving
        <5> QED BY <2>4, <4>2, <5>2, <5>3 DEF SetSame, Mixable, RecTrkLive
      <4> QED BY <4>1, <4>2
    <3> QED BY <2>2, <3>1, <3>2, <3>3, <3>4
  <2>6. Mixable \subseteq a.dec
    BY <1>0, <2>5 DEF Decoded
  <2> QED BY <2>2, <2>4, <2>5, <2>6
<1>3. CASE Segment
  <2>1. UNCHANGED <<s_loop_frames, s_filled, a>>
    BY <1>3 DEF Segment
  <2>2. /\ block'.mix = {t \in Mixed(block.len) : s_buf[t] # NoBuf}
        /\ block.step = "load" /\ block'.len = block.len
    BY <1>0, <1>3, SegmentResult
  <2>3. block.len = s_loop_frames /\ s_loop_frames \in Nat
    BY <1>0, <2>2, Kinds DEF Loop
  <2>4. block'.mix = IF s_loop_frames > 0 THEN Mixable ELSE {}
    BY <1>0, <2>2, <2>3 DEF Mixed, Mixable, Filled
  <2>5. s_loop_frames > 0 => Mixable \subseteq a.dec
    BY <1>0, <1>a, <2>1 DEF Decoded
  <2> QED BY <2>1, <2>2, <2>3, <2>4, <2>5 DEF Mixable, RecTrkLive
<1>4. CASE Advance
  <2>1. /\ block.step = "use" /\ block.len = s_loop_frames /\ block'.step # "use"
        /\ s_loop_frames = 0 => a.rec
    BY <1>0, <1>4, Advances, AdvanceFacts
  <2>2. s_filled' \subseteq Tracks
    BY MemStep DEF Base, MemShape
  <2>3. CASE Ends
    <3>1. a'.dec = Tracks
      BY <1>0, <1>4, <2>3, Advances
    <3> QED BY <2>1, <2>2, <3>1
  <2>4. CASE ~Ends
    <3>1. /\ UNCHANGED <<s_loop_frames, s_filled>> /\ a'.trk = a.trk /\ a'.playing = a.playing
          /\ a'.ramp = a.ramp /\ a'.dec = a.dec \cap block.mix
      BY <1>0, <1>4, <2>4, Advances
    <3>2. a'.rec = a.rec
      BY <1>0, <1>4, <2>4, Advances, Zenon
    <3>3. Mix2 = Mixable
      <4>1. CASE a.rec
        BY <3>1, <3>2, <4>1 DEF Mixable, RecTrkLive
      <4>2. CASE ~a.rec
        <5>1. ~a'.rec
          BY <3>2, <4>2, Zenon
        <5> QED BY <3>1, <4>2, <5>1 DEF Mixable, RecTrkLive
      <4> QED BY <4>1, <4>2
    <3>4. a.playing
      BY <1>a, <3>1, Zenon
    <3>5. a.ramp = 0 /\ (s_loop_frames > 0 <=> block.len > 0)
      BY <1>a, <2>1, <3>1
    <3>6. s_loop_frames > 0 => Mixable \subseteq a.dec /\ Mixable \subseteq block.mix
      BY <1>0, <2>1, <3>4, <3>5 DEF Decoded
    <3>7. s_loop_frames' > 0 => Mix2 \subseteq a'.dec
      <4> DEFINE M == Mix2
      <4>1. M = Mixable
        BY <3>3
      <4> HIDE DEF M
      <4>2. s_loop_frames' > 0 => M \subseteq a'.dec
        BY <3>1, <3>6, <4>1
      <4> QED BY <4>2 DEF M
    <3> QED BY <2>1, <3>7
  <2> QED BY <2>3, <2>4
<1>5. CASE PadTake
  <2>1. UNCHANGED a /\ Stopped
    BY <1>5, PadFacts
  <2> QED BY <1>0, <1>a, <2>1, Kinds DEF Stopped
<1>6. CASE CompactSwap \/ (ModeRec \/ FireTake)
  <2>1. UNCHANGED <<s_loop_frames, s_filled, a, block>>
    BY <1>6, SwapFacts, TakeFacts
  <2> QED BY <1>0, <1>a, <2>1 DEF Decoded, Mixable, RecTrkLive
<1>7. CASE (ResetDone \/ LoadRelease) \/ LoadFill
  <2>1. Quiet /\ UNCHANGED a
    BY <1>7, GoneFacts, LoadFacts
  <2> QED BY <1>a, <2>1 DEF Quiet
<1> QED BY <1>1, <1>2, <1>3, <1>4, <1>5, <1>6, <1>7, SoundGroups, Zenon

-----------------------------------------------------------------------------
(* The theorems. *)

(* A loop_ctl that keeps up with the audio task keeps the set in order: time   *)
(* is never made up for, so the set was in order before the step.             *)
LEMMA SoundStep == ASSUME IInv, [Next]_vars PROVE Sound'
<1>1. SUFFICES ASSUME InTime' PROVE Taken'
  BY DEF Sound
<1>2. Base /\ InTime
  BY <1>1, InTimeBefore DEF IInv, Base
<1>3. Taken
  BY <1>2 DEF IInv, Sound
<1>4. Loop' /\ Room' /\ Grown' /\ Content' /\ Copied'
  BY <1>1, <1>2, <1>3, LoopStep, RoomStep, GrownStep, ContentStep, CopiedStep
<1>5. Tails' /\ Filled' /\ Within' /\ Decoded'
  BY <1>1, <1>2, <1>3, TailsStep, FilledStep, WithinStep, DecodedStep
<1> QED BY <1>4, <1>5 DEF Taken

(* The looper starts at rest with an empty set. *)
LEMMA IInvInit == Init => IInv
<1> SUFFICES ASSUME Init PROVE IInv
  OBVIOUS
<1>1. Shape
  BY ShapeInit
<1>2. /\ a = Still /\ block = Idle /\ s_cmd = <<"none">> /\ pc = "wait" /\ clk = "idle"
      /\ s_arm_fire = FALSE /\ s_arm_beats = 0 /\ s_loop_frames = 0 /\ s_filled = {}
      /\ s_buf = [t \in Tracks |-> NoBuf] /\ s_pad = NoPad
      /\ mem = [b \in Bufs |-> Free] /\ live = {}
  BY Zenon DEF Init
<1>3. /\ a.pos = 0 /\ ~a.rec /\ ~a.pending /\ ~a.playing /\ a.ramp = 0
  BY <1>2 DEF Still
<1>4. /\ block.step = "idle" /\ block.reads = {} /\ block.writes = NoBuf /\ s_cmd[1] = "none"
  BY <1>2 DEF Idle
<1>5. Used = {}
  BY <1>4 DEF Used
<1>6. Moving
  BY <1>3, <1>4 DEF Moving
<1>7. Memory
  BY <1>2, <1>5 DEF Memory
<1>8. LetGo
  BY <1>2, <1>4 DEF LetGo
<1>9. Standing
  BY <1>2 DEF Standing
<1>10. \A t \in Tracks : ~Due(t)
  <2>1. \A t \in Tracks : s_cmd # <<"rec", t>>
    BY <1>4
  <2> QED BY <1>3, <2>1 DEF Due
<1>11. Loop /\ Room /\ Grown /\ Content /\ Copied
  <2>1. \A b \in Bufs : mem[b].take <= mem[b].size
    BY <1>2 DEF Free
  <2> QED BY <1>2, <1>3, <1>4, <1>10, <2>1 DEF Loop, Room, Grown, Content, Copied
<1>12. Tails /\ Filled /\ Within /\ Decoded
  BY <1>2, <1>3, <1>4 DEF Tails, Filled, Within, Decoded
<1> QED BY <1>1, <1>6, <1>7, <1>8, <1>9, <1>11, <1>12 DEF IInv, Sound, Taken

(* Whatever the player, the clock, the audio task and loop_ctl do in turn, the  *)
(* invariant stands: types, transport, memory, handshakes and the arm always;  *)
(* the set as long as loop_ctl keeps up.                                     *)
THEOREM Inductive == Spec => []IInv
<1>1. IInv /\ [Next]_vars => IInv'
  <2> SUFFICES ASSUME IInv, [Next]_vars PROVE IInv'
    OBVIOUS
  <2>1. Shape /\ Moving /\ Memory /\ LetGo /\ Standing
    BY DEF IInv
  <2>2. Shape' /\ Moving' /\ Memory' /\ LetGo' /\ Standing'
    BY <2>1, ShapeStep, MovingStep, MemoryStep, LetGoStep, StandingStep
  <2>3. Sound'
    BY SoundStep
  <2> QED BY <2>2, <2>3 DEF IInv
<1> QED BY IInvInit, <1>1, PTL DEF Spec

(* The types of the looper's state. *)
THEOREM Typing == Spec => []TypeOK
<1>1. IInv => TypeOK
  BY DEF IInv, Shape
<1> QED BY <1>1, Inductive, PTL

(* No block reads or writes a buffer that ctl_release_all(), ctl_compact() or   *)
(* ctl_alloc() has freed, however late the audio task is; nor past the end of  *)
(* one, as long as loop_ctl keeps up.                                       *)
THEOREM BlocksOwnTheirBuffers == Spec => []BuffersOutliveBlock
<1>1. IInv => BuffersOutliveBlock
  <2> SUFFICES ASSUME IInv PROVE BuffersOutliveBlock
    OBVIOUS
  <2>1. TypeOK /\ Used \subseteq live
    BY DEF IInv, Shape, Memory
  <2>2. block.step = "use" /\ lates = 0 /\ ~overtaken => \A b \in Used : a.pos < mem[b].size
    BY DEF IInv, Sound, InTime, Taken, Within
  <2> QED BY <2>1, <2>2 DEF BuffersOutliveBlock, Used
<1> QED BY <1>1, Inductive, PTL

(* What is marked as recorded is a whole take: through a stop's padding, a      *)
(* punch-in, a compaction, a load and a reset.                               *)
THEOREM FilledIsRecorded == Spec => []FilledHoldsTake
<1>1. IInv => FilledHoldsTake
  <2> SUFFICES ASSUME IInv, pc \notin {"reset", "release"}, ~overtaken, lates = 0,
                      NEW t \in s_filled
               PROVE  \/ t = RecTrkLive
                      \/ /\ s_loop_frames > 0 /\ s_buf[t] # NoBuf
                         /\ mem[s_buf[t]].take >= s_loop_frames
    BY DEF FilledHoldsTake
  <2>1. s_buf[t] # NoBuf /\ Played(t)
    BY DEF IInv, Sound, InTime, Taken, Filled
  <2> QED BY <2>1 DEF Played, Whole, RecTrkLive
<1> QED BY <1>1, Inductive, PTL

(* A track is not decoded from the middle of its take, outside a stop's fade.   *)
THEOREM DecodedFromTop == Spec => []DecodesInStep
<1>1. IInv => DecodesInStep
  <2> SUFFICES ASSUME IInv, a.ramp = 0, ~overtaken, lates = 0, block.step = "use"
               PROVE  block.mix \subseteq a.dec
    BY DEF DecodesInStep, InStep
  <2> QED BY DEF IInv, Moving, Sound, InTime, Taken, Decoded
<1> QED BY <1>1, Inductive, PTL

(* A count-in's end starts a take only if nobody has cancelled the arm, from    *)
(* the player's stop or clear to the beat that was being counted.            *)
THEOREM CancelledStartsNothing == Spec => CancelWins
<1>1. IInv /\ [Next]_vars => [FireTake => standing]_vars
  BY DEF IInv, Standing, FireTake
<1> QED BY <1>1, Inductive, PTL DEF Spec, CancelWins
=============================================================================
