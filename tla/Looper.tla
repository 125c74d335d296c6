-------------------------------- MODULE Looper --------------------------------
(***************************************************************************)
(* The looper, components/looper/looper.cpp, with its set in PSRAM.         *)
(*                                                                         *)
(* Three tasks and a player. The audio task owns the transport: it takes   *)
(* one command a block from a mailbox, records, plays, wraps. loop_ctl owns *)
(* the memory: it turns parameter writes into commands, allocates before a  *)
(* take, pads and shrinks after it, frees only what two block boundaries    *)
(* have passed over. The clock task counts a take in. The audio task answers *)
(* loop_ctl with events; the player's writes reach it as flags.              *)
(*                                                                         *)
(* Abstracted: a loop is a few units long, and a block moves on by one;     *)
(* audio_close_rec(), audio_apply_cmd() and the wrap are one step each with  *)
(* the block's exchange or counter they run beside; kMinFrames and the       *)
(* compaction's slack are a unit and none; the content of a buffer is how     *)
(* much of it, from the top, decodes as one take; the block counter is      *)
(* counted from where a handshake read it (that it may wrap is module        *)
(* EngineSwitch's); loop.track, loop.countin and loop.sync are read as        *)
(* anything; loop.armed and loop.pos, which nothing reads back, mixing,       *)
(* metronomes, saving (which only reads) are left out, and so are the         *)
(* streamed set, the card and the export.                                     *)
(***************************************************************************)
EXTENDS Integers, FiniteSets

CONSTANTS
  NumTracks,  \* LOOP_TRACKS
  Cap,        \* the policy cap of a first take, in units
  MaxBeats,   \* the longest count-in
  Ramp,       \* blocks a stop's fade takes
  Bufs,       \* the pool: as many buffers as PSRAM holds
  Moves,      \* what the player does, of AllMoves
  MaxMoves,   \* bound: how often
  Faults,     \* of "late" (a handshake times out) and "nomem"
  MaxLate     \* bound: how many handshakes time out

Tracks   == 1 .. NumTracks
AllMoves == {"rec", "play", "stop", "track", "all", "load"}

ASSUME SizeAssumption == /\ NumTracks \in Nat \ {0} /\ Cap \in Nat \ {0}
                         /\ MaxBeats \in Nat /\ Ramp \in Nat \ {0}
                         /\ Bufs \subseteq Nat \ {0} /\ IsFiniteSet(Bufs)
ASSUME MoveAssumption == Moves \subseteq AllMoves /\ Faults \subseteq {"late", "nomem"}

VARIABLES
  loop_mode, loop_clear, \* parameters
  shown,        \* loop.len and loop.filled, as the application sees them
  notice,       \* the flag a half-done set() has yet to raise, if any
  s_flags, s_evt, s_cmd,
  pc, todo,     \* loop_ctl: where it is, and the flags it took and not yet handled
  s_ctl_mode,
  job,          \* loop_ctl's locals: track and buffer it is working on
  boundaries,   \* blocks ended since the handshake began, up to two
  s_arm_beats, s_arm_fire, s_arm_track, s_arm_prev_mode,
  clk,          \* the clock task is between its decrement and its fire flag
  s_loop_frames, s_filled, s_buf, s_rec_limit, s_pad,
  mem,          \* every buffer: its size, and how much of it is one take
  live,         \* the buffers not freed
  a,            \* the audio task's transport, a_pos .. a_out_g, and the decoders
                \* that have followed every frame of the pass
  block,        \* the block in progress: its step, loop length, tracks and buffers
  moves, lates,
  \* history
  standing,     \* an arm nobody has cancelled in time
  overtaken     \* loop_ctl moved on before a take was opened, closed or padded

params == <<loop_mode, loop_clear, shown>>
mail   == <<s_flags, s_evt, s_cmd>>
ctl    == <<pc, todo, s_ctl_mode, job, boundaries>>
arm    == <<s_arm_beats, s_arm_fire, s_arm_track, s_arm_prev_mode>>
set    == <<s_loop_frames, s_filled, s_buf, s_rec_limit, s_pad>>
heap   == <<mem, live>>
audio  == <<a, block>>
past   == <<standing, overtaken>>
vars   == <<params, notice, mail, ctl, arm, clk, set, heap, audio, moves, lates, past>>

NoBuf == 0
NoTrk == 0
NoPad == [trk |-> NoTrk, from |-> 0]
NoJob == [trk |-> NoTrk, buf |-> NoBuf, from |-> 0, limit |-> 0, armed |-> FALSE]
Free  == [size |-> 0, take |-> 0]
Idle  == [step |-> "idle", len |-> 0, mix |-> {}, reads |-> {}, writes |-> NoBuf,
          again |-> FALSE]
Still == [pos |-> 0, rec |-> FALSE, pending |-> FALSE, trk |-> 1, playing |-> FALSE,
          ramp |-> 0, dec |-> Tracks]

Init ==
  /\ loop_mode = "stop" /\ loop_clear = "none"
  /\ shown = [len |-> 0, filled |-> {}]
  /\ notice = "none"
  /\ s_flags = {} /\ s_evt = {} /\ s_cmd = <<"none">>
  /\ pc = "wait" /\ todo = {} /\ s_ctl_mode = "stop" /\ job = NoJob /\ boundaries = 2
  /\ s_arm_beats = 0 /\ s_arm_fire = FALSE /\ s_arm_track = 1 /\ s_arm_prev_mode = "stop"
  /\ clk = "idle"
  /\ s_loop_frames = 0 /\ s_filled = {} /\ s_buf = [t \in Tracks |-> NoBuf]
  /\ s_rec_limit = Cap /\ s_pad = NoPad
  /\ mem = [b \in Bufs |-> Free] /\ live = {}
  /\ a = Still /\ block = Idle
  /\ moves = 0 /\ lates = 0
  /\ standing = FALSE /\ overtaken = FALSE

-----------------------------------------------------------------------------
(* The player: set() stores a parameter and then calls param_listener().    *)

Flag(m) == IF m \in {"rec", "play", "stop"} THEN "mode"
           ELSE IF m = "load" THEN "load" ELSE "clear"

Write(m) ==
  /\ notice = "none" /\ moves < MaxMoves
  /\ moves' = moves + 1
  /\ notice' = Flag(m)
  /\ loop_mode'  = IF Flag(m) = "mode" THEN m ELSE loop_mode
  /\ loop_clear' = IF Flag(m) = "clear" THEN m ELSE loop_clear
  /\ UNCHANGED <<shown, mail, ctl, arm, clk, set, heap, audio, lates, past>>

Notify ==
  /\ notice # "none"
  /\ s_flags' = s_flags \cup {notice}
  /\ notice' = "none"
  /\ UNCHANGED <<params, s_evt, s_cmd, ctl, arm, clk, set, heap, audio, moves, lates, past>>

-----------------------------------------------------------------------------
(* The clock task: beat_cb().                                               *)

Beat ==
  /\ clk = "idle" /\ s_arm_beats > 0
  /\ s_arm_beats' = s_arm_beats - 1
  /\ clk' = IF s_arm_beats = 1 THEN "fire" ELSE "idle"
  /\ UNCHANGED <<params, notice, mail, ctl, s_arm_fire, s_arm_track, s_arm_prev_mode,
                 set, heap, audio, moves, lates, past>>

Fire ==
  /\ clk = "fire"
  /\ s_arm_fire' = TRUE
  /\ s_flags' = s_flags \cup {"fire"}
  /\ clk' = "idle"
  /\ UNCHANGED <<params, notice, s_evt, s_cmd, ctl, s_arm_beats, s_arm_track,
                 s_arm_prev_mode, set, heap, audio, moves, lates, past>>

-----------------------------------------------------------------------------
(* The audio task. A transport operator maps what the audio task may change:  *)
(* its own state, the set's length and filled mask, the pad, the events.    *)

Transport == [a |-> a, len |-> s_loop_frames, filled |-> s_filled, pad |-> s_pad, evt |-> s_evt]

\* Mutation: the filled bit of an overwritten take is left set.
BitKept(x) == x.filled

(* While its tail is not written a track must not be mixed.                  *)
BitCleared(x) == x.filled \ {x.a.trk}

\* Mutation: whatever ends the take, its start is kept.
KeptAlways(x, keep_partial) == x.a.pos > 0
Kept(x, keep_partial) == keep_partial /\ x.a.pos > 0

(* A first take closes the loop if it is long enough; a punch-in cut short  *)
(* keeps its start when the transport rewinds and is dropped otherwise.     *)
CloseRec(x, keep_partial) ==
  LET closed == [x.a EXCEPT !.rec = FALSE, !.pending = FALSE]
  IN CASE ~x.a.rec -> [x EXCEPT !.a = closed]
       [] x.a.rec /\ x.len = 0 ->
            [x EXCEPT !.a = [closed EXCEPT !.pos = 0], !.len = x.a.pos,
                      !.filled = IF x.a.pos > 0 THEN @ \cup {x.a.trk} ELSE @,
                      !.evt = @ \cup {"state"}]
       [] x.a.rec /\ x.len > 0 /\ Kept(x, keep_partial) ->
            [x EXCEPT !.a = closed, !.filled = BitCleared(x),
                      !.pad = [trk |-> x.a.trk, from |-> x.a.pos],
                      !.evt = @ \cup {"state", "pad"}]
       [] OTHER -> [x EXCEPT !.a = closed, !.filled = BitCleared(x), !.evt = @ \cup {"state"}]

FinishStop(x) == [x EXCEPT !.a = [x.a EXCEPT !.ramp = 0, !.playing = FALSE, !.pos = 0]]

Stop(x) ==
  LET closed == CloseRec(x, TRUE)
  IN IF closed.a.playing /\ closed.len > 0 THEN [closed EXCEPT !.a.ramp = Ramp]
                                           ELSE FinishStop(closed)

Play(x) == [CloseRec(x, FALSE) EXCEPT !.a.playing = TRUE]

Rec(x, t) ==
  IF x.a.rec \/ x.a.pending THEN x
  ELSE LET from_top == x.len = 0 \/ (~x.a.playing /\ x.a.pos = 0)
       IN [x EXCEPT !.a = [x.a EXCEPT !.trk = t, !.playing = TRUE, !.rec = from_top,
                                      !.pending = ~from_top,
                                      !.pos = IF from_top THEN 0 ELSE x.a.pos]]

Detach(x) ==
  [x EXCEPT !.a = [x.a EXCEPT !.rec = FALSE, !.pending = FALSE, !.playing = FALSE, !.pos = 0]]

Obey(x, cmd) == LET y == IF x.a.ramp > 0 THEN FinishStop(x) ELSE x
                IN CASE cmd[1] = "none"   -> x
                     [] cmd[1] = "stop"   -> Stop(y)
                     [] cmd[1] = "play"   -> Play(y)
                     [] cmd[1] = "rec"    -> Rec(y, cmd[2])
                     [] cmd[1] = "detach" -> Detach(y)

Fade(x) == CASE x.a.ramp = 0 -> x
             [] x.a.ramp > 0 /\ (x.a.ramp = 1 \/ x.len = 0) -> FinishStop(x)
             [] OTHER -> [x EXCEPT !.a.ramp = @ - 1]

Limit(len) == IF len > 0 THEN len ELSE s_rec_limit

PunchDone(x) == IF x.a.rec THEN x.evt \cup {"state", "autoplay"} ELSE x.evt

(* The end of a pass: a punch-in is complete, a pending one begins; a first  *)
(* take at its cap closes the loop.                                         *)
Wrap(x, len) ==
  IF len > 0
  THEN [x EXCEPT !.a = [x.a EXCEPT !.pos = 0, !.rec = x.a.pending, !.pending = FALSE],
                 !.filled = IF x.a.rec THEN @ \cup {x.a.trk} ELSE @,
                 !.evt = PunchDone(x)]
  ELSE [x EXCEPT !.a = [x.a EXCEPT !.pos = 0, !.rec = FALSE], !.len = s_rec_limit,
                 !.filled = @ \cup {x.a.trk}, !.evt = @ \cup {"state", "autoplay"}]

(* audio_reset_dec() goes with every return to the top.                     *)
Become(x) ==
  /\ a' = [x.a EXCEPT !.dec = IF x.a.pos = 0 THEN Tracks ELSE @]
  /\ s_loop_frames' = x.len /\ s_filled' = x.filled
  /\ s_pad' = x.pad /\ s_evt' = x.evt

RecTrkLive == IF a.rec THEN a.trk ELSE NoTrk

(* s_render_seq moves on: the handshake of loop_ctl counts up to two.        *)
Counted == boundaries' = IF boundaries < 2 THEN boundaries + 1 ELSE 2

BlockBegin ==
  /\ block.step = "idle"
  /\ LET x == Fade(Obey(Transport, s_cmd))
         idle == ~x.a.playing \/ (x.len = 0 /\ ~x.a.rec)
     IN /\ Become(x)
        /\ s_cmd' = <<"none">>
        /\ IF idle THEN Counted /\ UNCHANGED block
           ELSE /\ block' = [Idle EXCEPT !.step = "load", !.len = x.len]
                /\ UNCHANGED boundaries
  /\ UNCHANGED <<params, notice, s_flags, pc, todo, s_ctl_mode, job, arm, clk,
                 s_buf, s_rec_limit, heap, moves, lates, past>>

(* The tracks a segment decodes; s_filled is loaded before each pointer.     *)
Mixed(len) == IF len > 0 THEN s_filled \ {RecTrkLive} ELSE {}

Segment ==
  /\ block.step = "load"
  /\ LET mix == {t \in Mixed(block.len) : s_buf[t] # NoBuf}
     IN block' = [block EXCEPT !.step = "use", !.mix = mix,
                    !.reads = {s_buf[t] : t \in mix},
                    !.writes = IF a.rec THEN s_buf[a.trk] ELSE NoBuf]
  /\ UNCHANGED <<params, notice, mail, ctl, arm, clk, set, heap, a, moves, lates, past>>

(* Encoding a frame over an old take leaves nothing of it to decode after.   *)
Recorded(m, pos) == [m EXCEPT !.take = IF pos = 0 THEN 1
                                       ELSE IF @ >= pos THEN pos + 1 ELSE @]

Advance ==
  /\ block.step = "use"
  /\ LET pos   == a.pos + 1
         moved == [Transport EXCEPT !.a = [a EXCEPT !.pos = pos, !.dec = a.dec \cap block.mix]]
         ended == pos >= Limit(block.len)
         x     == IF ended THEN Wrap(moved, block.len) ELSE moved
     IN /\ Become(x)
        /\ \/ block' = Idle /\ Counted
           \/ /\ ended /\ ~block.again
              /\ block' = [Idle EXCEPT !.step = "load", !.again = TRUE,
                             !.len = IF block.len > 0 THEN block.len ELSE x.len]
              /\ UNCHANGED boundaries
  /\ mem' = IF block.writes = NoBuf THEN mem
            ELSE [mem EXCEPT ![block.writes] = Recorded(@, a.pos)]
  /\ UNCHANGED <<params, notice, s_flags, s_cmd, pc, todo, s_ctl_mode, job, arm, clk,
                 s_buf, s_rec_limit, live, moves, lates, past>>

-----------------------------------------------------------------------------
(* loop_ctl: memory.                                                        *)

Malloc(size) == {b \in Bufs \ live : \A c \in Bufs \ live : b <= c}
TookFrom(size, take) == [size |-> size, take |-> take]

(* ctl_handshake(): two boundaries, or the deadline.                         *)
Settled == boundaries = 2
TimedOut == /\ boundaries < 2 /\ "late" \in Faults /\ lates < MaxLate
            /\ lates' = lates + 1
\* Mutation: nobody is waited for.
AwaitNobody(settled) == settled /\ UNCHANGED lates
Await(settled) == IF settled THEN Settled /\ UNCHANGED lates ELSE TimedOut

(* Leaking is what a handshake that timed out costs.                        *)
Freed(bufs, settled) ==
  IF settled THEN live' = live \ bufs /\ mem' = [b \in Bufs |-> IF b \in bufs THEN Free ELSE mem[b]]
             ELSE UNCHANGED heap

-----------------------------------------------------------------------------
(* loop_ctl: events first.                                                  *)

PadDue == /\ s_pad.trk # NoTrk /\ s_pad.from > 0 /\ s_pad.from < s_loop_frames
          /\ s_buf[s_pad.trk] # NoBuf

TakeEvents ==
  /\ pc = "wait" /\ (s_evt # {} \/ s_flags # {})
  /\ s_evt' = {}
  /\ LET autoplay == "autoplay" \in s_evt
         pad == "pad" \in s_evt /\ PadDue
     IN /\ s_ctl_mode' = CASE s_evt = {} -> s_ctl_mode
                           [] autoplay -> "play"
                           [] ~autoplay /\ s_evt # {} /\ s_ctl_mode = "rec" -> loop_mode
                           [] OTHER -> s_ctl_mode
        /\ loop_mode' = IF autoplay THEN "play" ELSE loop_mode
        /\ pc' = IF s_evt = {} THEN "flags" ELSE IF pad THEN "pad" ELSE "mirror"
        /\ job' = IF pad THEN [NoJob EXCEPT !.trk = s_pad.trk, !.buf = s_buf[s_pad.trk],
                                            !.from = s_pad.from] ELSE NoJob
        /\ boundaries' = IF pad THEN 0 ELSE boundaries
        /\ s_pad' = IF "pad" \in s_evt THEN NoPad ELSE s_pad
  /\ UNCHANGED <<loop_clear, shown, notice, s_flags, s_cmd, todo, arm, clk, s_loop_frames,
                 s_filled, s_buf, s_rec_limit, heap, audio, moves, lates, past>>

(* The silence after a take cut short; only then is the track published.     *)
Padded(m) == [m EXCEPT !.take = IF @ = job.from THEN s_loop_frames
                                ELSE IF @ < job.from THEN @ ELSE job.from]

PadTake ==
  /\ pc = "pad"
  /\ \E settled \in BOOLEAN : Await(settled)
  /\ mem' = [mem EXCEPT ![job.buf] = Padded(@)]
  /\ s_filled' = s_filled \cup {job.trk}
  /\ pc' = "mirror" /\ job' = NoJob /\ boundaries' = 2
  /\ UNCHANGED <<params, notice, mail, todo, s_ctl_mode, arm, clk, s_loop_frames, s_buf,
                 s_rec_limit, s_pad, live, audio, moves, past>>

Mirror ==
  /\ pc = "mirror"
  /\ shown' = [len |-> s_loop_frames, filled |-> s_filled]
  /\ pc' = IF s_loop_frames = 0 \/ s_ctl_mode = "rec" THEN "flags" ELSE "compact"
  /\ job' = NoJob
  /\ UNCHANGED <<loop_mode, loop_clear, notice, mail, todo, s_ctl_mode, boundaries, arm, clk,
                 set, heap, audio, moves, lates, past>>

(* ctl_compact(): the tracks after job.trk whose buffers are too big.        *)
Oversize == {t \in Tracks : /\ t > job.trk /\ t # RecTrkLive
                            /\ s_buf[t] # NoBuf /\ mem[s_buf[t]].size > s_loop_frames}

(* A take about to open on a track, which no guard keeps from being copied.  *)
TakeDue(t) == s_cmd = <<"rec", t>> \/ (a.pending /\ a.trk = t)

CompactCopy ==
  /\ pc = "compact"
  /\ IF Oversize = {} \/ Malloc(s_loop_frames) = {}
     THEN pc' = "flags" /\ job' = NoJob /\ UNCHANGED <<heap, overtaken>>
     ELSE \E t \in Oversize, b \in Malloc(s_loop_frames) :
            /\ \A u \in Oversize : t <= u
            /\ LET take == mem[s_buf[t]].take
               IN mem' = [mem EXCEPT ![b] =
                            TookFrom(s_loop_frames,
                                     IF take < s_loop_frames THEN take ELSE s_loop_frames)]
            /\ live' = live \cup {b}
            /\ job' = [NoJob EXCEPT !.trk = t, !.buf = b]
            /\ overtaken' = (overtaken \/ TakeDue(t))
            /\ pc' = "swap"
  /\ UNCHANGED <<params, notice, mail, todo, s_ctl_mode, boundaries, arm, clk, set, audio,
                 moves, lates, standing>>

CompactSwap ==
  /\ pc = "swap"
  /\ s_buf' = [s_buf EXCEPT ![job.trk] = job.buf]
  /\ job' = [job EXCEPT !.buf = s_buf[job.trk]]
  /\ boundaries' = 0
  /\ pc' = "shrink"
  /\ UNCHANGED <<params, notice, mail, todo, s_ctl_mode, arm, clk, s_loop_frames, s_filled,
                 s_rec_limit, s_pad, heap, audio, moves, lates, past>>

CompactFree ==
  /\ pc = "shrink"
  /\ \E settled \in BOOLEAN : Await(settled) /\ Freed({job.buf}, settled)
  /\ pc' = "compact" /\ job' = [NoJob EXCEPT !.trk = job.trk] /\ boundaries' = 2
  /\ UNCHANGED <<params, notice, mail, todo, s_ctl_mode, arm, clk, set, audio, moves, past>>

-----------------------------------------------------------------------------
(* loop_ctl: then flags, the transport before the rest.                      *)

TakeFlags ==
  /\ pc = "flags"
  /\ todo' = s_flags /\ s_flags' = {}
  /\ pc' = IF s_flags = {} THEN "wait" ELSE "handle"
  /\ UNCHANGED <<params, notice, s_evt, s_cmd, s_ctl_mode, job, boundaries, arm, clk, set,
                 heap, audio, moves, lates, past>>

Order == <<"mode", "clear", "fire", "load">>
Turn(flag) == /\ pc = "handle" /\ flag \in todo
              /\ \E i \in DOMAIN Order : /\ Order[i] = flag
                                         /\ \A j \in 1 .. i - 1 : Order[j] \notin todo
Handled(flag) == /\ todo' = todo \ {flag}
                 /\ pc' = IF todo = {flag} THEN "wait" ELSE "handle"

(* ctl_arm_cancel(). Nothing comes between its two exchanges that would not  *)
(* do as well before or after: without a beat to wait beat_cb() returns. A   *)
(* clock task between its decrement and its flag cannot be cancelled.        *)
Pending == s_arm_beats > 0 \/ s_arm_fire
Reverts == Pending /\ s_ctl_mode = "rec"
\* Mutation: only the countdown is cancelled, not what it has fired.
ArmCancelBeats == /\ s_arm_beats' = 0 /\ UNCHANGED s_arm_fire
                  /\ standing' = (standing /\ clk = "fire")
ArmCancel == s_arm_beats' = 0 /\ s_arm_fire' = FALSE /\ standing' = (standing /\ clk = "fire")

(* loop_ctl moves on before it has seen the tail it is to pad, or replaces    *)
(* the memory or the limit of a take that is open or about to open.         *)
MovesOn(replaces) == overtaken' = (overtaken \/ s_pad # NoPad \/ replaces)

(* ctl_alloc() for a take: the buffer there is, or a new one.                *)
Sizes == IF s_loop_frames > 0 THEN {s_loop_frames}
         ELSE IF "nomem" \in Faults THEN 1 .. Cap ELSE {Cap}
Fits(t, size) == s_buf[t] # NoBuf /\ mem[s_buf[t]].size >= size

(* A take on track t: its command, a wait for an outgrown buffer first, or a  *)
(* refusal that puts the parameter back. `armed' is the countdown's end.     *)
Commanded(t, armed) ==
  /\ s_cmd' = <<"rec", t>>
  /\ s_ctl_mode' = "rec"
  /\ loop_mode' = IF armed THEN "rec" ELSE loop_mode

Allocates(t, size) ==
  \E b \in Malloc(size) :
    /\ mem' = [mem EXCEPT ![b] = TookFrom(size, 0)] /\ live' = live \cup {b}
    /\ s_buf' = [s_buf EXCEPT ![t] = b]

\* A take commanded before is about to open, and may be longer than this one.
Outruns(size) == s_cmd[1] = "rec" /\ size < Limit(s_loop_frames)

TakeLimit(size) == IF s_loop_frames = 0 THEN size ELSE s_rec_limit
Limited(size)   == s_rec_limit' = TakeLimit(size)

StartRec(t, armed, flag) ==
  \/ \E size \in Sizes :
       /\ MovesOn(\/ a.rec /\ TakeLimit(size) # s_rec_limit
                  \/ (a.rec \/ Outruns(size)) /\ s_buf[t] # NoBuf /\ ~Fits(t, size))
       /\ \/ Fits(t, size) /\ Limited(size) /\ Commanded(t, armed) /\ Handled(flag)
             /\ UNCHANGED <<s_buf, heap, job, boundaries>>
          \/ /\ ~Fits(t, size) /\ Allocates(t, size)
             /\ IF s_buf[t] = NoBuf
                THEN Limited(size) /\ Commanded(t, armed) /\ Handled(flag)
                     /\ UNCHANGED <<job, boundaries>>
                ELSE /\ job' = [NoJob EXCEPT !.trk = t, !.buf = s_buf[t], !.armed = armed,
                                            !.limit = TakeLimit(size)]
                     /\ boundaries' = 0 /\ pc' = "grow" /\ todo' = todo \ {flag}
                     /\ UNCHANGED <<loop_mode, s_ctl_mode, s_cmd, s_rec_limit>>
  \/ /\ \A size \in Sizes : ~Fits(t, size)
     /\ "nomem" \in Faults \/ Malloc(1) = {}
     /\ s_ctl_mode' = IF armed THEN s_arm_prev_mode ELSE s_ctl_mode
     /\ loop_mode' = s_ctl_mode'
     /\ Handled(flag)
     /\ UNCHANGED <<s_cmd, s_buf, s_rec_limit, heap, job, boundaries, overtaken>>

GrowFree ==
  /\ pc = "grow"
  /\ \E settled \in BOOLEAN : Await(settled) /\ Freed({job.buf}, settled)
  /\ s_rec_limit' = job.limit
  /\ Commanded(job.trk, job.armed) /\ MovesOn(a.rec /\ s_rec_limit' # s_rec_limit)
  /\ pc' = IF todo = {} THEN "wait" ELSE "handle"
  /\ job' = NoJob /\ boundaries' = 2
  /\ UNCHANGED <<loop_clear, shown, notice, s_flags, s_evt, todo, arm, clk, s_loop_frames,
                 s_filled, s_buf, s_pad, audio, moves, standing>>

(* ctl_handle_mode(): nothing new, a take at once, a count-in, stop or play.  *)
ModeSame ==
  /\ Turn("mode") /\ loop_mode = s_ctl_mode
  /\ Handled("mode")
  /\ UNCHANGED <<params, notice, mail, s_ctl_mode, job, boundaries, arm, clk, set, heap, audio,
                 moves, lates, past>>

ModeRec ==
  /\ Turn("mode") /\ loop_mode = "rec" /\ s_ctl_mode # "rec"
  /\ \E t \in Tracks : StartRec(t, FALSE, "mode")
  /\ UNCHANGED <<loop_clear, shown, notice, s_flags, s_evt, arm, clk, s_loop_frames, s_filled,
                 s_pad, audio, moves, lates, standing>>

ModeArm ==
  /\ Turn("mode") /\ loop_mode = "rec" /\ s_ctl_mode # "rec"
  /\ \E t \in Tracks, beats \in 1 .. MaxBeats : s_arm_track' = t /\ s_arm_beats' = beats
  /\ s_arm_fire' = FALSE
  /\ s_arm_prev_mode' = s_ctl_mode /\ s_ctl_mode' = "rec"
  /\ standing' = TRUE
  /\ Handled("mode")
  /\ UNCHANGED <<params, notice, mail, job, boundaries, clk, set, heap, audio, moves, lates,
                 overtaken>>

ModeCommand ==
  /\ Turn("mode") /\ loop_mode \in {"play", "stop"} /\ loop_mode # s_ctl_mode
  /\ ArmCancel
  /\ s_cmd' = <<loop_mode>>
  /\ s_ctl_mode' = loop_mode
  /\ loop_mode' = IF Reverts THEN s_arm_prev_mode ELSE loop_mode
  /\ IF loop_mode = "play" THEN MovesOn(FALSE) ELSE UNCHANGED overtaken
  /\ Handled("mode")
  /\ UNCHANGED <<loop_clear, shown, notice, s_flags, s_evt, job, boundaries, s_arm_track,
                 s_arm_prev_mode, clk, set, heap, audio, moves, lates>>

\* Mutation: the shadow stays where arming put it.
ClearCancelOnly == ArmCancel /\ UNCHANGED <<s_ctl_mode, loop_mode, s_arm_track, s_arm_prev_mode>>

(* ctl_handle_clear(): the arm goes first, and the shadow with it.           *)
ClearCancel == /\ ArmCancel
               /\ s_ctl_mode' = IF Reverts THEN s_arm_prev_mode ELSE s_ctl_mode
               /\ loop_mode'  = IF Reverts THEN s_arm_prev_mode ELSE loop_mode
               /\ UNCHANGED <<s_arm_track, s_arm_prev_mode>>

EmptiesSet(t) == s_filled = {t} /\ s_ctl_mode' # "rec"

ClearTrack ==
  /\ Turn("clear") /\ loop_clear \in {"track", "none"}
  /\ ClearCancel
  /\ \E t \in Tracks :
       /\ loop_clear = "track" => ~EmptiesSet(t)
       /\ s_filled' = IF loop_clear = "track" THEN s_filled \ {t} ELSE s_filled
  /\ shown' = IF loop_clear = "track" THEN [len |-> s_loop_frames, filled |-> s_filled'] ELSE shown
  /\ loop_clear' = "none"
  /\ Handled("clear")
  /\ UNCHANGED <<notice, mail, job, boundaries, clk, s_loop_frames, s_buf, s_rec_limit, s_pad,
                 heap, audio, moves, lates, overtaken>>

(* ctl_reset_empty_set(), for all tracks or for the last one.                *)
ResetDetach ==
  /\ Turn("clear")
  /\ ClearCancel
  /\ \/ loop_clear = "all" /\ UNCHANGED s_filled
     \/ loop_clear = "track" /\ (\E t \in Tracks : EmptiesSet(t)) /\ s_filled' = {}
  /\ s_cmd' = <<"detach">>
  /\ boundaries' = 0
  /\ pc' = "reset" /\ todo' = todo \ {"clear"}
  /\ UNCHANGED <<loop_clear, shown, notice, s_flags, s_evt, job, clk, s_loop_frames, s_buf,
                 s_rec_limit, s_pad, heap, audio, moves, lates, overtaken>>

(* ctl_release_all(), and what its two callers do to the set.                *)
Release(settled) ==
  /\ Freed({s_buf[t] : t \in Tracks} \ {NoBuf}, settled)
  /\ s_buf' = [t \in Tracks |-> NoBuf]
  /\ s_filled' = {} /\ s_loop_frames' = 0

ResetDone ==
  /\ pc = "reset"
  /\ \E settled \in BOOLEAN : Await(settled) /\ Release(settled)
  /\ s_ctl_mode' = "stop" /\ loop_mode' = "stop" /\ loop_clear' = "none"
  /\ shown' = [len |-> 0, filled |-> {}]
  /\ pc' = IF todo = {} THEN "wait" ELSE "handle"
  /\ boundaries' = 2
  /\ UNCHANGED <<notice, mail, todo, job, arm, clk, s_rec_limit, s_pad, audio, moves, past>>

(* The countdown's end: a take, unless the arm was cancelled meanwhile.      *)
FireNone ==
  /\ Turn("fire") /\ ~s_arm_fire
  /\ Handled("fire")
  /\ UNCHANGED <<params, notice, mail, s_ctl_mode, job, boundaries, arm, clk, set, heap, audio,
                 moves, lates, past>>

FireTake ==
  /\ Turn("fire") /\ s_arm_fire
  /\ s_arm_fire' = FALSE
  /\ StartRec(s_arm_track, TRUE, "fire")
  /\ standing' = (standing /\ (s_arm_beats > 0 \/ clk = "fire"))
  /\ UNCHANGED <<loop_clear, shown, notice, s_flags, s_evt, s_arm_beats, s_arm_track,
                 s_arm_prev_mode, clk, s_loop_frames, s_filled, s_pad, audio, moves, lates>>

(* ctl_handle_load(): replace the set by one from storage, part of it if      *)
(* memory runs out or a read fails.                                         *)
LoadRefused ==
  /\ Turn("load") /\ s_ctl_mode = "rec"
  /\ Handled("load")
  /\ UNCHANGED <<params, notice, mail, s_ctl_mode, job, boundaries, arm, clk, set, heap, audio,
                 moves, lates, past>>

LoadDetach ==
  /\ Turn("load") /\ s_ctl_mode # "rec"
  /\ s_cmd' = <<"detach">>
  /\ boundaries' = 0
  /\ pc' = "release" /\ todo' = todo \ {"load"}
  /\ UNCHANGED <<params, notice, s_flags, s_evt, s_ctl_mode, job, arm, clk, set, heap, audio,
                 moves, lates, past>>

LoadRelease ==
  /\ pc = "release"
  /\ \E settled \in BOOLEAN : Await(settled) /\ Release(settled)
  /\ pc' = "fill" /\ boundaries' = 2
  /\ MovesOn(FALSE)
  /\ UNCHANGED <<params, notice, mail, todo, s_ctl_mode, job, arm, clk, s_rec_limit, s_pad,
                 audio, moves, standing>>

LoadFill ==
  /\ pc = "fill"
  /\ \E len \in 1 .. Cap, loaded \in SUBSET Tracks :
       /\ Cardinality(loaded) <= Cardinality(Bufs \ live)
       /\ LET at == CHOOSE f \in [loaded -> Bufs \ live] :
                      \A t, u \in loaded : t # u => f[t] # f[u]
              new == {at[t] : t \in loaded}
          IN /\ s_buf' = [t \in Tracks |-> IF t \in loaded THEN at[t] ELSE NoBuf]
             /\ mem' = [b \in Bufs |-> IF b \in new THEN TookFrom(len, len) ELSE mem[b]]
             /\ live' = live \cup new
       /\ s_filled' = loaded
       /\ s_loop_frames' = IF loaded = {} THEN 0 ELSE len
       /\ shown' = [len |-> s_loop_frames', filled |-> loaded]
  /\ s_ctl_mode' = "stop" /\ loop_mode' = "stop"
  /\ pc' = IF todo = {} THEN "wait" ELSE "handle"
  /\ UNCHANGED <<loop_clear, notice, mail, todo, job, boundaries, arm, clk, s_rec_limit, s_pad,
                 audio, moves, lates, past>>

-----------------------------------------------------------------------------
Player  == (\E m \in Moves : Write(m)) \/ Notify
Clock   == Beat \/ Fire
Audio   == BlockBegin \/ Segment \/ Advance
LoopCtl == \/ TakeEvents \/ PadTake \/ Mirror \/ CompactCopy \/ CompactSwap \/ CompactFree
           \/ TakeFlags \/ ModeSame \/ ModeRec \/ ModeArm \/ ModeCommand \/ GrowFree
           \/ ClearTrack \/ ResetDetach \/ ResetDone \/ FireNone \/ FireTake
           \/ LoadRefused \/ LoadDetach \/ LoadRelease \/ LoadFill

Next == Player \/ Clock \/ Audio \/ LoopCtl
Spec == Init /\ [][Next]_vars

(* The audio task renders, the clock beats, loop_ctl runs, and whoever has     *)
(* stored a parameter calls its listeners. The player owes nothing.           *)
FairSpec == Spec /\ WF_vars(Notify) /\ WF_vars(Clock) /\ WF_vars(Audio) /\ WF_vars(LoopCtl)

-----------------------------------------------------------------------------
Modes == {"rec", "play", "stop"}

TypeOK ==
  /\ loop_mode \in Modes /\ s_ctl_mode \in Modes /\ s_arm_prev_mode \in Modes
  /\ loop_clear \in {"none", "track", "all"}
  /\ s_loop_frames \in 0 .. Cap /\ s_filled \subseteq Tracks
  /\ s_buf \in [Tracks -> live \cup {NoBuf}]
  /\ mem \in [Bufs -> [size : 0 .. Cap, take : 0 .. Cap]]
  /\ live \subseteq Bufs
  /\ overtaken \in BOOLEAN /\ standing \in BOOLEAN
  /\ boundaries \in 0 .. 2 /\ s_arm_beats \in 0 .. MaxBeats
  /\ a.pos \in 0 .. Cap /\ a.ramp \in 0 .. Ramp /\ a.trk \in Tracks

(* No block touches a buffer that has been freed, however late the audio     *)
(* task is; nor one outside its size, unless a handshake was given up        *)
(* (ctl_release_all(), ctl_compact(), ctl_alloc(): "every caller frees        *)
(* something afterwards, so they must leak instead").                       *)
BuffersOutliveBlock ==
  LET used == block.reads \cup ({block.writes} \ {NoBuf})
  IN /\ TypeOK
     /\ used \subseteq live
     /\ block.step = "use" /\ lates = 0 /\ ~overtaken => \A b \in used : a.pos < mem[b].size

(* What s_filled says is recorded can be played: a buffer that holds a whole *)
(* pass of one take, in every track but the one being overwritten; unless    *)
(* loop_ctl has overtaken the audio task (it replaced the memory or the      *)
(* limit of a take that was open or about to be, copied a track a take was    *)
(* about to open on, or left a tail unpadded) or given up a handshake.       *)
FilledHoldsTake ==
  pc \notin {"reset", "release"} /\ ~overtaken /\ lates = 0 =>
  \A t \in s_filled : \/ t = RecTrkLive
                      \/ /\ s_loop_frames > 0 /\ s_buf[t] # NoBuf
                         /\ mem[s_buf[t]].take >= s_loop_frames

(* ADPCM cannot re-enter mid-stream: a track that is decoded has been        *)
(* decoded since the top of the pass, outside the fade of a stop.           *)
InStep == block.step = "use" => block.mix \subseteq a.dec
DecodesInStep == a.ramp = 0 /\ ~overtaken /\ lates = 0 => InStep

(* The whole claim, fade included: "Stop rewinds to the top and resets every  *)
(* decoder, so a track brought into the mix afterwards is read from frame 0   *)
(* with a decoder that starts there" (audio_close_rec()).                   *)
TailInStep == InStep

(* Nothing on its way: no write, flag, event, command, count-in or fade.     *)
AtRest == /\ notice = "none" /\ s_flags = {} /\ s_evt = {} /\ s_cmd = <<"none">>
          /\ pc = "wait" /\ clk = "idle" /\ ~Pending /\ a.ramp = 0

(* A take counted in starts only if nobody has cancelled the arm: "Clearing   *)
(* the fire flag is what makes cancelling win a race with the last beat",     *)
(* but for the beat already being counted (ctl_arm_cancel(), beat_cb()).     *)
CancelWins == [][FireTake => standing]_vars

(* The shadow is not left in rec with no take open, in which every later rec  *)
(* press is a silent no-op (ctl_arm_cancel(), ctl_task()).                    *)
NotStranded == s_ctl_mode # "rec"

(* The application's view of the set is the set (ctl_mirror_state()).         *)
ShownIsTrue == shown = [len |-> s_loop_frames, filled |-> s_filled]

(* Left alone after any moves, the looper comes to rest: every count-in ends,  *)
(* every punch-in waits for one wrap and takes one pass; and then the shadow   *)
(* and the application know it. A handshake given up excuses it.            *)
ComesToRest ==
  <>[](lates > 0 \/ (AtRest /\ ~a.rec /\ ~a.pending /\ NotStranded /\ ShownIsTrue))
=============================================================================
