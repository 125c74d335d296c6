------------------------------ MODULE Link_proof ------------------------------
(***************************************************************************)
(* Proofs about Link for any parameters, notes, engines and queue, and any   *)
(* number of moves and losses: a change is not forgotten on the way, and no  *)
(* key is left down when nobody holds it.                                    *)
(***************************************************************************)
EXTENDS Link, TLAPS

USE DepthAssumption, ValueAssumption, BootAssumption, MoveAssumption

(* Where a frame of G is in a queue, and the last value of p one tells.       *)
In(s, G) == \E i \in DOMAIN s : s[i] \in G
Last(s, G, p, v) == \E i \in DOMAIN s :
                      /\ s[i] \in G /\ s[i].vals[p] = v
                      /\ \A j \in DOMAIN s : j > i => s[j] \notin G

(* The commands that write p or ask for values, and the frames that tell p,   *)
(* refuse a command of C or list the parameters.                             *)
Writing(p)  == {f \in Commands : f.op = "set" /\ p \in DOMAIN f.vals}
Asking      == {f \in Commands : f.op = "get"}
Telling(p)  == {f \in Frames : f.op = "params" /\ p \in DOMAIN f.vals}
Refusing(C) == {f \in Frames : f.op = "busy" /\ f.of \in C}
Lists       == {f \in Frames : f.op = "listing"}

-----------------------------------------------------------------------------
(* The inductive invariant. *)

(* A session: what the application has yet to hear was sent in it, the        *)
(* application is connected only in one, and holds keys only then.           *)
Session ==
  /\ radio => s_conn
  /\ s_evt_sub => s_conn
  /\ down # <<>> => radio /\ s_evt_sub
  /\ radio /\ m_connected => s_evt_sub
  /\ ~m_connected => m_heldNotes = {}

(* What a pass of the protocol task has taken, and the values it has read.    *)
Taken == /\ flush.pc \notin {"read", "send"} => flush.taken = {}
         /\ flush.pc = "send" => DOMAIN flush.vals = flush.taken

(* A pass of the protocol task that found nobody there ends before anybody    *)
(* has been given a list.                                                    *)
Greeted == Sendable /\ m_ready
Alone   == flush.pc # "wait" /\ ~flush.live => ~Greeted /\ ~In(down, Lists)

(* A key that sounds, or that a queued command will put down, is let go by a *)
(* command behind it, or by the application or the end of the session.       *)
Minded(n) == s_conn /\ (radio => n \in m_heldNotes)
Behind(q, n) == \A i \in DOMAIN q : q[i] = Note("on", n) =>
                  \E j \in DOMAIN q : j > i /\ q[j] = Note("off", n)
Keys == \A n \in Notes \ orphans :
          Minded(n) \/ (/\ n \in sounding => Note("off", n) \in Elems(s_cmd_queue)
                        /\ Behind(s_cmd_queue, n))

(* A write and a report of one parameter that are under way at once are       *)
(* counted as crossed.                                                       *)
Syncing   == Sendable /\ (m_ready \/ m_discovering = "list")
Parted(p) == Syncing /\ WriteOnWay(p) /\ ReportOnWay(p) => p \in crossed

(* The last write under way carries what the application shows; or one that   *)
(* was refused comes back, to be the last or to be counted as crossed.       *)
Pushed(p) ==
  IF p \in DOMAIN m_pendingSets THEN m_pendingSets[p] = m_params[p]
  ELSE IF In(m_setQueue, Writing(p)) THEN Last(m_setQueue, Writing(p), p, m_params[p])
  ELSE \/ In(down, Refusing(Writing(p)))
       \/ Last(s_cmd_queue, Writing(p), p, m_params[p])

(* A report to come will read the value; or the last one under way carries    *)
(* what the synth has; or the application shows it.                          *)
AskOnWay  == \/ In(s_cmd_queue, Asking) \/ In(down, Refusing(Asking))
             \/ m_requestRetryQueue # <<>>
Coming(p) == p \in marking \cup s_dirty \/ (flush.pc = "read" /\ p \in flush.taken) \/ AskOnWay
Told(p) ==
  IF flush.pc = "send" /\ p \in flush.taken THEN flush.vals[p] = store[p]
  ELSE IF In(down, Telling(p)) THEN Last(down, Telling(p), p, store[p])
  ELSE m_params[p] = store[p]
Fine(p)  == Pushed(p) \/ (~WriteOnWay(p) /\ (Coming(p) \/ Told(p)))
Known(p) == Greeted /\ p \notin crossed \cup lost => Fine(p)
Settled  == \A p \in Params : Parted(p) /\ Known(p)

IInv == TypeOK /\ Session /\ Taken /\ Alone /\ Keys /\ Settled

-----------------------------------------------------------------------------
(* Lemmas about queues. *)

(* A frame put at the end is in the queue, and is the last of its kind. *)
LEMMA AppendIn ==
  ASSUME NEW F, NEW s \in Seq(F), NEW f \in F, NEW G
  PROVE  /\ Append(s, f) \in Seq(F) /\ Append(s, f) # <<>>
         /\ In(Append(s, f), G) <=> In(s, G) \/ f \in G
<1> DEFINE q == Append(s, f)
<1>1. /\ q \in Seq(F) /\ Len(q) = Len(s) + 1 /\ q[Len(s) + 1] = f
      /\ \A i \in 1 .. Len(s) : q[i] = s[i]
  OBVIOUS
<1> HIDE DEF q
<1>2. DOMAIN s = 1 .. Len(s) /\ DOMAIN q = 1 .. Len(s) + 1 /\ Len(s) \in Nat
  BY <1>1
<1>3. In(q, G) => In(s, G) \/ f \in G
  BY <1>1, <1>2 DEF In
<1>4. In(s, G) => In(q, G)
  BY <1>1, <1>2 DEF In
<1>5. f \in G => In(q, G)
  BY <1>1, <1>2 DEF In
<1>6. q # <<>>
  BY <1>1, <1>2
<1> QED BY <1>1, <1>3, <1>4, <1>5, <1>6 DEF q

(* What is put behind is the last of its kind, and hides nothing of another kind. *)
LEMMA AppendLast ==
  ASSUME NEW F, NEW s \in Seq(F), NEW f \in F, NEW G, NEW p, NEW v
  PROVE  /\ f \in G /\ f.vals[p] = v => Last(Append(s, f), G, p, v)
         /\ f \notin G /\ Last(s, G, p, v) => Last(Append(s, f), G, p, v)
<1> DEFINE q == Append(s, f)
<1>1. /\ q \in Seq(F) /\ Len(q) = Len(s) + 1 /\ q[Len(s) + 1] = f
      /\ \A i \in 1 .. Len(s) : q[i] = s[i]
  OBVIOUS
<1> HIDE DEF q
<1>2. DOMAIN s = 1 .. Len(s) /\ DOMAIN q = 1 .. Len(s) + 1 /\ Len(s) \in Nat
  BY <1>1
<1>3. f \in G /\ f.vals[p] = v => Last(q, G, p, v)
  BY <1>1, <1>2 DEF Last
<1>4. f \notin G /\ Last(s, G, p, v) => Last(q, G, p, v)
  BY <1>1, <1>2 DEF Last
<1> QED BY <1>3, <1>4 DEF q

(* Taking the first frame off leaves the last of its kind where it was, *)
(* unless it was the only one. *)
LEMMA TailIn ==
  ASSUME NEW F, NEW s \in Seq(F), s # <<>>, NEW G
  PROVE  /\ Tail(s) \in Seq(F) /\ Head(s) \in F
         /\ In(s, G) <=> In(Tail(s), G) \/ Head(s) \in G
<1> DEFINE q == Tail(s)
<1>1. /\ q \in Seq(F) /\ Head(s) \in F /\ Head(s) = s[1] /\ Len(s) > 0
      /\ Len(q) = Len(s) - 1 /\ \A i \in 1 .. Len(q) : q[i] = s[i + 1]
  OBVIOUS
<1> HIDE DEF q
<1>2. DOMAIN s = 1 .. Len(s) /\ DOMAIN q = 1 .. Len(s) - 1 /\ Len(s) \in Nat
  BY <1>1
<1>3. In(q, G) => In(s, G)
  BY <1>1, <1>2 DEF In
<1>4. Head(s) \in G => In(s, G)
  BY <1>1, <1>2 DEF In
<1>5. ASSUME In(s, G), Head(s) \notin G PROVE In(q, G)
  <2>1. PICK i \in 1 .. Len(s) : s[i] \in G
    BY <1>5, <1>2 DEF In
  <2>2. i - 1 \in DOMAIN q /\ q[i - 1] = s[i]
    BY <2>1, <1>1, <1>2, <1>5
  <2> QED BY <2>1, <2>2 DEF In
<1> QED BY <1>1, <1>3, <1>4, <1>5 DEF q

(* What is left when the first has gone has the same last of a kind, if it has any. *)
LEMMA TailLast ==
  ASSUME NEW F, NEW s \in Seq(F), s # <<>>, NEW G, NEW p, NEW v, Last(s, G, p, v)
  PROVE  /\ In(Tail(s), G) => Last(Tail(s), G, p, v)
         /\ ~In(Tail(s), G) => Head(s) \in G /\ Head(s).vals[p] = v
<1> DEFINE q == Tail(s)
<1>1. /\ q \in Seq(F) /\ Head(s) \in F /\ Head(s) = s[1] /\ Len(s) > 0
      /\ Len(q) = Len(s) - 1 /\ \A i \in 1 .. Len(q) : q[i] = s[i + 1]
  OBVIOUS
<1> HIDE DEF q
<1>2. DOMAIN s = 1 .. Len(s) /\ DOMAIN q = 1 .. Len(s) - 1 /\ Len(s) \in Nat
  BY <1>1
<1>3. PICK i \in 1 .. Len(s) : /\ s[i] \in G /\ s[i].vals[p] = v
                              /\ \A j \in 1 .. Len(s) : j > i => s[j] \notin G
  BY <1>2 DEF Last
<1>4. CASE i = 1
  <2>1. ~In(q, G)
    <3> SUFFICES ASSUME NEW k \in DOMAIN q, q[k] \in G PROVE FALSE
      BY DEF In
    <3>1. k + 1 \in 1 .. Len(s) /\ k + 1 > i /\ s[k + 1] = q[k]
      BY <1>1, <1>2, <1>4
    <3> QED BY <3>1, <1>3
  <2> QED BY <1>1, <1>3, <1>4, <2>1 DEF q
<1>5. CASE i # 1
  <2>1. i - 1 \in DOMAIN q /\ q[i - 1] = s[i]
    BY <1>1, <1>2, <1>3, <1>5
  <2>2. \A j \in DOMAIN q : j > i - 1 => q[j] \notin G
    <3> SUFFICES ASSUME NEW j \in DOMAIN q, j > i - 1 PROVE q[j] \notin G
      OBVIOUS
    <3>1. j + 1 \in 1 .. Len(s) /\ j + 1 > i /\ s[j + 1] = q[j]
      BY <1>1, <1>2
    <3> QED BY <3>1, <1>3
  <2>3. Last(q, G, p, v)
    BY <1>3, <2>1, <2>2 DEF Last
  <2>4. In(q, G)
    BY <1>3, <2>1 DEF In
  <2> QED BY <2>3, <2>4 DEF q
<1> QED BY <1>4, <1>5

(* A frame put back at the head is the last of its kind only if it is alone. *)
LEMMA PrependIn ==
  ASSUME NEW F, NEW s \in Seq(F), NEW f \in F, NEW G
  PROVE  /\ <<f>> \o s \in Seq(F)
         /\ In(<<f>> \o s, G) <=> In(s, G) \/ f \in G
         /\ Head(<<f>> \o s) = f /\ Tail(<<f>> \o s) = s
<1> DEFINE q == <<f>> \o s
<1>1. /\ q \in Seq(F) /\ Len(q) = Len(s) + 1 /\ q[1] = f
      /\ \A i \in 1 .. Len(s) : q[i + 1] = s[i]
  OBVIOUS
<1>2. Head(q) = f /\ Tail(q) = s
  OBVIOUS
<1> HIDE DEF q
<1>3. q # <<>>
  BY <1>1
<1>4. In(q, G) <=> In(Tail(q), G) \/ Head(q) \in G
  BY <1>1, <1>3, TailIn, Zenon
<1> QED BY <1>1, <1>2, <1>4 DEF q

(* What is put in front is the last of its kind only where there was none. *)
LEMMA PrependLast ==
  ASSUME NEW F, NEW s \in Seq(F), NEW f \in F, NEW G, NEW p, NEW v
  PROVE  /\ Last(s, G, p, v) => Last(<<f>> \o s, G, p, v)
         /\ ~In(s, G) /\ f \in G /\ f.vals[p] = v => Last(<<f>> \o s, G, p, v)
<1> DEFINE q == <<f>> \o s
<1>1. /\ q \in Seq(F) /\ Len(q) = Len(s) + 1 /\ q[1] = f
      /\ \A i \in 1 .. Len(s) : q[i + 1] = s[i]
  OBVIOUS
<1> HIDE DEF q
<1>2. DOMAIN s = 1 .. Len(s) /\ DOMAIN q = 1 .. Len(s) + 1 /\ Len(s) \in Nat
  BY <1>1
<1>3. \A j \in DOMAIN q : j > 1 => j - 1 \in DOMAIN s /\ q[j] = s[j - 1]
  <2> SUFFICES ASSUME NEW j \in DOMAIN q, j > 1 PROVE j - 1 \in DOMAIN s /\ q[j] = s[j - 1]
    OBVIOUS
  <2>1. j - 1 \in 1 .. Len(s) /\ (j - 1) + 1 = j
    BY <1>2
  <2> QED BY <2>1, <1>1, <1>2
<1>4. ASSUME Last(s, G, p, v) PROVE Last(q, G, p, v)
  <2>1. PICK i \in DOMAIN s : /\ s[i] \in G /\ s[i].vals[p] = v
                              /\ \A j \in DOMAIN s : j > i => s[j] \notin G
    BY <1>4 DEF Last
  <2>2. i + 1 \in DOMAIN q /\ q[i + 1] = s[i]
    BY <1>1, <1>2
  <2>3. \A j \in DOMAIN q : j > i + 1 => q[j] \notin G
    <3> SUFFICES ASSUME NEW j \in DOMAIN q, j > i + 1 PROVE q[j] \notin G
      OBVIOUS
    <3>1. j - 1 \in DOMAIN s /\ q[j] = s[j - 1] /\ j - 1 > i
      BY <1>2, <1>3
    <3> QED BY <3>1, <2>1
  <2> QED BY <2>1, <2>2, <2>3 DEF Last
<1>5. ASSUME ~In(s, G), f \in G, f.vals[p] = v PROVE Last(q, G, p, v)
  <2>1. 1 \in DOMAIN q /\ q[1] \in G /\ q[1].vals[p] = v
    BY <1>1, <1>2, <1>5
  <2>2. \A j \in DOMAIN q : j > 1 => q[j] \notin G
    BY <1>3, <1>5 DEF In
  <2> QED BY <2>1, <2>2 DEF Last
<1> QED BY <1>4, <1>5 DEF q

(* The last of a kind is in the queue. *)
LEMMA LastIsIn ==
  ASSUME NEW s, NEW G, NEW p, NEW v, Last(s, G, p, v)
  PROVE  In(s, G)
BY DEF Last, In

-----------------------------------------------------------------------------
(* Lemmas about frames. *)

(* What is sent is a command, ... *)
LEMMA CommandTypes ==
  /\ Sets \subseteq Commands /\ Gets \subseteq Commands
  /\ \A v \in Partial(Params, Values) : Set(v) \in Sets /\ Set(v).vals = v /\ Set(v).op = "set"
  /\ \A n \in 0 .. RequestRetries : Get(n) \in Gets
  /\ \A k \in Nat : List(k) \in Commands /\ List(k).op = "list"
  /\ \A n \in Notes : /\ Note("on", n) \in Commands /\ Note("off", n) \in Commands
                      /\ Note("on", n).op = "on" /\ Note("off", n).op = "off"
                      /\ Note("on", n).note = n /\ Note("off", n).note = n
BY DEF Commands, Sets, Gets, Set, Get, List, Note

(* ... a command is one of these, ... *)
LEMMA CommandKinds ==
  \A f \in Commands :
    /\ f.op \in {"set", "get", "list", "on", "off"}
    /\ f.op = "set" => f \in Sets /\ f.vals \in Partial(Params, Values)
    /\ f.op = "get" => f \in Gets /\ f.retries \in 0 .. RequestRetries
    /\ f.op = "list" => f.seq \in Nat
    /\ f.op \in {"on", "off"} => f.note \in Notes /\ f = Note(f.op, f.note)
    /\ f \in Sets => f.op = "set"
    /\ f \in Gets => f.op = "get"
<1> SUFFICES ASSUME NEW f \in Commands
             PROVE  /\ f.op \in {"set", "get", "list", "on", "off"}
                    /\ f.op = "set" => f \in Sets /\ f.vals \in Partial(Params, Values)
                    /\ f.op = "get" => f \in Gets /\ f.retries \in 0 .. RequestRetries
                    /\ f.op = "list" => f.seq \in Nat
                    /\ f.op \in {"on", "off"} => f.note \in Notes /\ f = Note(f.op, f.note)
                    /\ f \in Sets => f.op = "set"
                    /\ f \in Gets => f.op = "get"
  OBVIOUS
<1>1. CASE f \in Sets
  BY <1>1 DEF Sets, Gets
<1>2. CASE f \in Gets
  BY <1>2 DEF Sets, Gets
<1>3. CASE f \in [op : {"list"}, seq : Nat]
  BY <1>3 DEF Sets, Gets
<1>4. CASE f \in [op : {"on", "off"}, note : Notes]
  BY <1>4 DEF Sets, Gets, Note
<1> QED BY <1>1, <1>2, <1>3, <1>4 DEF Commands

(* ... what is told is a frame, ... *)
LEMMA FrameTypes ==
  /\ \A v \in Partial(Params, Values) : Evt(v) \in Frames /\ Evt(v).op = "params" /\ Evt(v).vals = v
  /\ \A e \in Engines : EvtEngine(e) \in Frames /\ EvtEngine(e).op = "engine"
  /\ \A k \in Nat, e \in Engines : Listing(k, e) \in Frames /\ Listing(k, e).op = "listing"
  /\ \A f \in Commands : Busy(f) \in Frames /\ Busy(f).op = "busy" /\ Busy(f).of = f
BY DEF Frames, Evt, EvtEngine, Listing, Busy

(* ... and a frame is one of these. *)
LEMMA FrameKinds ==
  \A f \in Frames :
    /\ f.op = "params" => f.vals \in Partial(Params, Values)
    /\ f.op = "engine" => f.eng \in Engines
    /\ f.op = "listing" => f.seq \in Nat /\ f.eng \in Engines
    /\ f.op = "busy" => f.of \in Commands
BY DEF Frames

(* A partial function has a part of S as its domain, and its values in T. *)
LEMMA PartialIs ==
  ASSUME NEW S, NEW T
  PROVE  /\ \A f \in Partial(S, T) : /\ DOMAIN f \subseteq S /\ f \in [DOMAIN f -> T]
                                     /\ \A x \in DOMAIN f : f[x] \in T
         /\ \A D \in SUBSET S : \A f : f \in [D -> T] => f \in Partial(S, T)
BY DEF Partial

(* What is left of one, one put over another, one value and none. *)
LEMMA PartialOps ==
  /\ \A f \in Partial(Params, Values) : \A D :
       /\ Only(f, D) \in Partial(Params, Values) /\ DOMAIN Only(f, D) = DOMAIN f \cap D
       /\ \A x \in DOMAIN f \cap D : Only(f, D)[x] = f[x]
  /\ \A p \in Params, v \in Values : /\ One(p, v) \in Partial(Params, Values)
                                     /\ DOMAIN One(p, v) = {p} /\ One(p, v)[p] = v
  /\ \A f, g \in Partial(Params, Values) :
       /\ Over(f, g) \in Partial(Params, Values) /\ DOMAIN Over(f, g) = DOMAIN f \cup DOMAIN g
       /\ \A x \in DOMAIN f \cup DOMAIN g : Over(f, g)[x] = IF x \in DOMAIN f THEN f[x] ELSE g[x]
  /\ NoVals \in Partial(Params, Values) /\ DOMAIN NoVals = {}
<1>1. ASSUME NEW f \in Partial(Params, Values), NEW D
      PROVE  /\ Only(f, D) \in Partial(Params, Values) /\ DOMAIN Only(f, D) = DOMAIN f \cap D
             /\ \A x \in DOMAIN f \cap D : Only(f, D)[x] = f[x]
  <2>0. DOMAIN f \subseteq Params /\ \A x \in DOMAIN f : f[x] \in Values
    BY PartialIs
  <2>1. Only(f, D) \in [DOMAIN f \cap D -> Values] /\ DOMAIN f \cap D \in SUBSET Params
    BY <2>0 DEF Only
  <2> DEFINE g == Only(f, D)
             E == DOMAIN f \cap D
  <2> HIDE DEF g, E
  <2>2. E \in SUBSET Params /\ g \in [E -> Values] => g \in Partial(Params, Values)
    BY PartialIs
  <2>3. Only(f, D) \in Partial(Params, Values)
    BY <2>1, <2>2 DEF g, E
  <2> QED BY <2>3 DEF Only
<1>2. ASSUME NEW p \in Params, NEW v \in Values
      PROVE  One(p, v) \in Partial(Params, Values) /\ DOMAIN One(p, v) = {p} /\ One(p, v)[p] = v
  <2>1. One(p, v) \in [{p} -> Values] /\ {p} \in SUBSET Params
    BY DEF One
  <2>2. One(p, v) \in Partial(Params, Values)
    BY <2>1, PartialIs
  <2> QED BY <2>2 DEF One
<1>3. ASSUME NEW f \in Partial(Params, Values), NEW g \in Partial(Params, Values)
      PROVE  /\ Over(f, g) \in Partial(Params, Values)
             /\ DOMAIN Over(f, g) = DOMAIN f \cup DOMAIN g
             /\ \A x \in DOMAIN f \cup DOMAIN g :
                  Over(f, g)[x] = IF x \in DOMAIN f THEN f[x] ELSE g[x]
  <2>1. /\ Over(f, g) \in [DOMAIN f \cup DOMAIN g -> Values]
        /\ DOMAIN f \cup DOMAIN g \in SUBSET Params
    BY PartialIs DEF Over
  <2>2. Over(f, g) \in Partial(Params, Values)
    BY <2>1, PartialIs
  <2> QED BY <2>2 DEF Over
<1>4. NoVals \in Partial(Params, Values) /\ DOMAIN NoVals = {}
  <2>1. NoVals \in [{} -> Values] /\ {} \in SUBSET Params
    BY DEF NoVals
  <2>2. NoVals \in Partial(Params, Values)
    BY <2>1, PartialIs
  <2> QED BY <2>2 DEF NoVals
<1>5. \A f \in Partial(Params, Values) : \A D :
        /\ Only(f, D) \in Partial(Params, Values) /\ DOMAIN Only(f, D) = DOMAIN f \cap D
        /\ \A x \in DOMAIN f \cap D : Only(f, D)[x] = f[x]
  BY <1>1
<1>6. \A p \in Params, v \in Values : /\ One(p, v) \in Partial(Params, Values)
                                    /\ DOMAIN One(p, v) = {p} /\ One(p, v)[p] = v
  BY <1>2
<1>7. \A f, g \in Partial(Params, Values) :
        /\ Over(f, g) \in Partial(Params, Values) /\ DOMAIN Over(f, g) = DOMAIN f \cup DOMAIN g
        /\ \A x \in DOMAIN f \cup DOMAIN g : Over(f, g)[x] = IF x \in DOMAIN f THEN f[x] ELSE g[x]
  BY <1>3
<1> QED BY <1>4, <1>5, <1>6, <1>7, Zenon

(* The synth's and the application's copies of the parameters written over. *)
LEMMA OverIs ==
  ASSUME NEW f \in Partial(Params, Values), NEW T, Values \subseteq T, NEW g \in [Params -> T]
  PROVE  /\ Over(f, g) \in [Params -> T]
         /\ \A p \in Params : Over(f, g)[p] = IF p \in DOMAIN f THEN f[p] ELSE g[p]
<1>1. DOMAIN f \subseteq Params /\ DOMAIN g = Params /\ \A x \in DOMAIN f : f[x] \in Values
  BY PartialIs
<1> QED BY <1>1 DEF Over

-----------------------------------------------------------------------------
(* Lemmas about sending. *)

(* A frame writes and tells parameters. *)
LEMMA WritesAndTells ==
  /\ \A f \in Commands : Writes(f) \subseteq Params /\ Tells(f) \subseteq Params
  /\ \A f \in Commands : /\ f.op \in {"list", "on", "off"} => Writes(f) = {} /\ Tells(f) = {}
                         /\ f.op = "get" => Writes(f) = {} /\ Tells(f) = Params
                         /\ f.op = "set" => Writes(f) = DOMAIN f.vals /\ Tells(f) = {}
  /\ \A f \in Frames : Tells(f) \subseteq Params
<1>1. \A f \in Commands : Writes(f) \subseteq Params /\ Tells(f) \subseteq Params
  BY CommandKinds, PartialIs DEF Writes, Tells
<1>2. \A f \in Frames : Tells(f) \subseteq Params
  BY FrameKinds, PartialIs DEF Tells
<1> QED BY <1>1, <1>2 DEF Writes, Tells

(* What a command may do that the application sends after it has heard all   *)
(* but `rest`: nothing, where it is not connected, be queued, be refused, or  *)
(* be refused by an answer that is lost.                                     *)
Unsent(rest)     == s_cmd_queue' = s_cmd_queue /\ down' = rest /\ lost' = lost /\ orphans' = orphans
Queued(f, rest)  == s_cmd_queue' = Append(s_cmd_queue, f) /\ down' = rest /\ lost' = lost
                    /\ orphans' = orphans
Missed(f)        == orphans' = IF f.op = "off" THEN orphans \cup {f.note} ELSE orphans
Rejected(f, rest) == s_cmd_queue' = s_cmd_queue /\ down' = Append(rest, Busy(f)) /\ lost' = lost
                     /\ Missed(f)
Forgone(f, rest) == s_cmd_queue' = s_cmd_queue /\ down' = rest
                     /\ lost' = lost \cup Writes(f) \cup Tells(f) /\ Missed(f)

(* A command that is sent is queued, is refused with a busy, is gone, or was not sent. *)
LEMMA SendResult ==
  ASSUME TypeOK, NEW f \in Commands, NEW rest \in Seq(Frames), Send(f, rest)
  PROVE  /\ s_cmd_queue' \in Seq(Commands) /\ Len(s_cmd_queue') <= CmdDepth
         /\ down' \in Seq(Frames) /\ lost' \subseteq Params /\ orphans' \subseteq Notes
         /\ \/ ~Sendable /\ Unsent(rest)
            \/ Sendable /\ (Queued(f, rest) \/ Rejected(f, rest) \/ Forgone(f, rest))
<1>1. /\ s_cmd_queue \in Seq(Commands) /\ Len(s_cmd_queue) \in Nat /\ Len(s_cmd_queue) <= CmdDepth
      /\ lost \subseteq Params /\ orphans \subseteq Notes
  BY DEF TypeOK, SynthType, WireType, KeyType, AppType, WriteType
<1>2. CASE ~Sendable
  BY <1>1, <1>2 DEF Send, Hear, Unsent
<1>3. CASE Sendable /\ Accept(f, rest)
  <2>1. Append(s_cmd_queue, f) \in Seq(Commands)
        /\ Len(Append(s_cmd_queue, f)) = Len(s_cmd_queue) + 1
    BY <1>1
  <2> QED BY <1>1, <1>3, <2>1 DEF Accept, Queued
<1>4. CASE Sendable /\ Refuse(f, rest)
  <2>1. Append(rest, Busy(f)) \in Seq(Frames)
    BY FrameTypes, AppendIn
  <2>2. Writes(f) \subseteq Params /\ Tells(f) \subseteq Params
    BY WritesAndTells
  <2>3. f.op = "off" => f.note \in Notes
    BY CommandKinds
  <2> QED BY <1>1, <1>4, <2>1, <2>2, <2>3 DEF Refuse, Rejected, Forgone, Missed
<1> QED BY <1>2, <1>3, <1>4 DEF Send

(* A notification is sent, or there is nobody there, or it fails. *)
LEMMA NotifyResult ==
  ASSUME TypeOK, NEW f \in Frames, Notify(f)
  PROVE  /\ down' \in Seq(Frames) /\ tp_link_up
         /\ down' = IF radio THEN Append(down, f) ELSE down
<1>1. Append(down, f) \in Seq(Frames)
  BY AppendIn DEF TypeOK, SynthType, WireType, KeyType, AppType, WriteType
<1> QED BY <1>1 DEF Notify, TypeOK, SynthType, WireType, KeyType, AppType, WriteType

(* What has been heard, and what is left to hear. *)
LEMMA HeardIs ==
  ASSUME TypeOK, NEW op, Heard(op)
  PROVE  down # <<>> /\ Head(down) \in Frames /\ Head(down).op = op /\ Tail(down) \in Seq(Frames)
<1>1. down # <<>> /\ down \in Seq(Frames)
  BY DEF TypeOK, WireType, Heard
<1>2. Head(down) \in Frames /\ Tail(down) \in Seq(Frames)
  BY <1>1, TailIn
<1> QED BY <1>1, <1>2 DEF Heard

-----------------------------------------------------------------------------
(* Types. *)

(* Every variable has its type at the start, ... *)
LEMMA TypeInit == Init => TypeOK
<1> SUFFICES ASSUME Init PROVE TypeOK
  OBVIOUS
<1>1. NoVals \in Partial(Params, Values)
  BY PartialOps
<1>2. Idle \in Flushes
  BY <1>1 DEF Idle, Flushes
<1>3. [p \in Params |-> NoValue] \in [Params -> Values \cup {NoValue}]
  OBVIOUS
<1>4. SynthType
  BY <1>2 DEF Init, SynthType
<1>5. s_conn \in BOOLEAN /\ s_evt_sub \in BOOLEAN /\ greeting \in BOOLEAN /\ radio \in BOOLEAN
      /\ m_connected \in BOOLEAN /\ m_ready \in BOOLEAN /\ swung \in BOOLEAN
  BY Zenon DEF Init
<1>6. s_cmd_queue = <<>> /\ down = <<>> /\ m_setQueue = <<>> /\ m_requestRetryQueue = <<>>
      /\ m_pendingSets = NoVals /\ crossed = {} /\ lost = {} /\ sounding = {}
      /\ m_heldNotes = {} /\ orphans = {}
  BY DEF Init
<1>7. WireType
  BY <1>5, <1>6 DEF WireType
<1>8. AppType
  BY <1>3, <1>5 DEF Init, AppType
<1>9. WriteType /\ KeyType
  BY <1>1, <1>5, <1>6 DEF WriteType, KeyType
<1> QED BY <1>4, <1>7, <1>8, <1>9 DEF TypeOK

(* ... what the synth does keeps it, ... *)
LEMMA TypeSynth == TypeOK /\ Synth => TypeOK'
<1> SUFFICES ASSUME TypeOK, Synth PROVE TypeOK'
  OBVIOUS
<1> USE DEF board, sync, wish, app, sent
<1>1. CASE HandleFrame
  <2> DEFINE f == Head(s_cmd_queue)
  <2>0. store \in [Params -> Values] /\ sounding \subseteq Notes /\ orphans \subseteq Notes
        /\ lost \subseteq Params /\ down \in Seq(Frames)
    BY DEF TypeOK, SynthType, KeyType, WireType, WriteType
  <2>1. f \in Commands /\ Tail(s_cmd_queue) \in Seq(Commands)
        /\ Len(Tail(s_cmd_queue)) <= CmdDepth
    BY <1>1, TailIn DEF HandleFrame, TypeOK, WireType
  <2>2. s_cmd_queue' \in Seq(Commands) /\ Len(s_cmd_queue') <= CmdDepth
    BY <1>1, <2>1 DEF HandleFrame
  <2>3. UNCHANGED <<marking, s_dirty, engine, s_announced_engine, s_conn, s_evt_sub, greeting,
                    flush, swung, radio, app, crossed, moves>>
    BY <1>1 DEF HandleFrame
  <2> HIDE DEF f
  <2>4. store' \in [Params -> Values] /\ sounding' \subseteq Notes /\ orphans' \subseteq Notes
        /\ lost' \subseteq Params /\ down' \in Seq(Frames)
    <3>1. CASE HandleSet(f)
      <4>1. Over(f.vals, store) \in [Params -> Values]
        BY <2>1, <3>1, CommandKinds, OverIs DEF HandleSet, TypeOK, SynthType
      <4> QED BY <2>0, <3>1, <4>1 DEF HandleSet
    <3>2. CASE HandleGet(f)
      <4>1. store \in Partial(Params, Values)
        BY PartialIs DEF TypeOK, SynthType
      <4>2. Evt(store) \in Frames /\ Tells(Evt(store)) \subseteq Params
        BY <4>1, FrameTypes, WritesAndTells
      <4> QED BY <2>0, <3>2, <4>2, NotifyResult DEF HandleGet, Reply, Fails
    <3>3. CASE HandleList(f)
      <4>1. Listing(f.seq, engine) \in Frames
        BY <2>1, <3>3, CommandKinds, FrameTypes DEF HandleList, TypeOK, SynthType
      <4>2. Tells(Listing(f.seq, engine)) \subseteq Params
        BY <4>1, WritesAndTells
      <4> QED BY <2>0, <3>3, <4>1, <4>2, NotifyResult DEF HandleList, Reply, Fails
    <3>4. CASE HandleNote(f)
      <4>1. f.note \in Notes
        BY <2>1, <3>4, CommandKinds DEF HandleNote
      <4> QED BY <2>0, <3>4, <4>1 DEF HandleNote
    <3> QED BY <1>1, <3>1, <3>2, <3>3, <3>4 DEF HandleFrame, f
  <2>5. SynthType' /\ KeyType' /\ AppType'
    BY <2>3, <2>4 DEF TypeOK, SynthType, KeyType, AppType
  <2>6. WireType' /\ WriteType'
    BY <2>2, <2>3, <2>4 DEF TypeOK, WireType, WriteType
  <2> QED BY <2>5, <2>6 DEF TypeOK
<1>2. CASE Flush
  <2>1. flush \in Flushes /\ Idle \in Flushes /\ engine \in Engines /\ down \in Seq(Frames)
        /\ store \in Partial(Params, Values) /\ s_dirty \subseteq Params /\ swung \in BOOLEAN
        /\ s_announced_engine \in Engines \cup {NoValue}
    BY PartialOps, PartialIs DEF Flushes, Idle, TypeOK, SynthType, WireType, WriteType
  <2>2. Aside
    BY <1>2 DEF Flush, FlushEngine, FlushAnnounced, FlushTake, FlushRead, FlushSend
  <2>3. flush' \in Flushes /\ down' \in Seq(Frames) /\ s_dirty' \subseteq Params
        /\ swung' \in BOOLEAN /\ s_announced_engine' \in Engines \cup {NoValue}
    <3>1. CASE FlushEngine
      <4>1. EvtEngine(engine) \in Frames
        BY <2>1, FrameTypes
      <4>2. down' \in Seq(Frames)
        BY <3>1, <2>1, <4>1, NotifyResult DEF FlushEngine, Fails
      <4>3. tp_link_up \in BOOLEAN
        BY Zenon DEF tp_link_up
      <4>4. [Idle EXCEPT !.pc = "take", !.live = tp_link_up] \in Flushes
        BY <2>1, <4>3 DEF Flushes
      <4>5. [Idle EXCEPT !.pc = "announced", !.live = TRUE, !.eng = engine] \in Flushes
        BY <2>1 DEF Flushes
      <4>6. Unannounced(engine) \in Flushes
        BY <2>1 DEF Flushes, Unannounced
      <4>7. flush' \in Flushes
        BY <3>1, <4>4, <4>5, <4>6 DEF FlushEngine
      <4>8. swung' \in BOOLEAN
        BY <3>1, <2>1 DEF FlushEngine
      <4> QED BY <3>1, <2>1, <4>2, <4>7, <4>8 DEF FlushEngine
    <3>2. CASE FlushAnnounced
      <4>1. flush' \in Flushes /\ flush.eng \in Engines \cup {NoValue}
        BY <2>1, <3>2 DEF FlushAnnounced, Flushes
      <4> QED BY <2>1, <3>2, <4>1 DEF FlushAnnounced
    <3>3. CASE FlushTake
      <4>1. flush' \in Flushes
        BY <2>1, <3>3 DEF FlushTake, Flushes
      <4> QED BY <2>1, <3>3, <4>1 DEF FlushTake
    <3>4. CASE FlushRead
      <4>1. Only(store, flush.taken) \in Partial(Params, Values)
        BY <2>1, PartialOps
      <4>2. flush' \in Flushes
        BY <2>1, <3>4, <4>1 DEF FlushRead, Flushes
      <4> QED BY <2>1, <3>4, <4>2 DEF FlushRead
    <3>5. CASE FlushSend
      <4>1. Evt(flush.vals) \in Frames /\ flush.taken \subseteq Params
        BY <2>1, FrameTypes DEF Flushes
      <4>2. down' \in Seq(Frames)
        BY <2>1, <3>5, <4>1, NotifyResult DEF FlushSend, Fails
      <4> QED BY <2>1, <3>5, <4>1, <4>2 DEF FlushSend, Rearmed
    <3> QED BY <1>2, <3>1, <3>2, <3>3, <3>4, <3>5 DEF Flush
  <2>4. SynthType' /\ KeyType' /\ AppType'
    BY <2>2, <2>3 DEF Aside, TypeOK, SynthType, KeyType, AppType
  <2>5. WireType' /\ WriteType'
    BY <2>2, <2>3 DEF Aside, TypeOK, WireType, WriteType
  <2> QED BY <2>4, <2>5 DEF TypeOK
<1>3. CASE \E p \in Params : param_listener(p)
  <2>1. SynthType' /\ KeyType' /\ AppType'
    BY <1>3 DEF param_listener, TypeOK, SynthType, KeyType, AppType
  <2>2. WireType' /\ WriteType'
    BY <1>3 DEF param_listener, TypeOK, WireType, WriteType
  <2> QED BY <2>1, <2>2 DEF TypeOK
<1> QED BY <1>1, <1>2, <1>3 DEF Synth

(* ... what the host task does and the radio keeps it, ... *)
LEMMA TypeHost == TypeOK /\ (Host \/ Connect \/ LinkDrops) => TypeOK'
<1> SUFFICES ASSUME TypeOK, Host \/ Connect \/ LinkDrops PROVE TypeOK'
  OBVIOUS
<1> USE DEF board, sync, wish, app, sent
<1>1. CASE Connect \/ Subscribe \/ ctrl_proto_link_reset
  <2>1. SynthType' /\ KeyType' /\ AppType'
    BY <1>1 DEF Connect, Subscribe, ctrl_proto_link_reset, TypeOK, SynthType, KeyType, AppType
  <2>2. WireType' /\ WriteType'
    BY <1>1 DEF Connect, Subscribe, ctrl_proto_link_reset, TypeOK, WireType, WriteType
  <2> QED BY <2>1, <2>2 DEF TypeOK
<1>2. CASE Disconnected
  <2>1. StillOn(s_cmd_queue) \subseteq Notes
    BY DEF StillOn
  <2>2. SynthType' /\ KeyType' /\ AppType'
    BY <1>2, <2>1 DEF Disconnected, LetGo, TypeOK, SynthType, KeyType, AppType
  <2>3. WireType' /\ WriteType'
    BY <1>2 DEF Disconnected, TypeOK, WireType, WriteType
  <2> QED BY <2>2, <2>3 DEF TypeOK
<1>3. CASE LinkDrops
  <2>1. <<>> \in Seq(Frames)
    OBVIOUS
  <2>2. SynthType' /\ KeyType' /\ AppType'
    BY <1>3 DEF LinkDrops, TypeOK, SynthType, KeyType, AppType
  <2>3. WireType' /\ WriteType'
    BY <1>3, <2>1 DEF LinkDrops, TypeOK, WireType, WriteType
  <2> QED BY <2>2, <2>3 DEF TypeOK
<1> QED BY <1>1, <1>2, <1>3 DEF Host

(* ... what the application does, which leaves the synth and the radio alone, ... *)
LEMMA AppLeaves == App => UNCHANGED <<board, radio, moves>>
BY DEF App, Connected, Dropped, setConnected, FallbackFires, Watchdog, finishDiscovery, Hears,
       handleParamValues, handleEngineEvent, onParamListComplete, onSetBusy, onRequestBusy,
       drainRequestRetryQueue, flushPendingSets, drainSetQueue

(* What sending touches, and what the application keeps. *)
SentType == /\ s_cmd_queue \in Seq(Commands) /\ Len(s_cmd_queue) <= CmdDepth
            /\ down \in Seq(Frames) /\ lost \subseteq Params /\ orphans \subseteq Notes
WishType == /\ m_pendingSets \in Partial(Params, Values) /\ m_setQueue \in Seq(Sets)
            /\ m_requestRetryQueue \in Seq(Gets) /\ m_heldNotes \subseteq Notes
            /\ crossed \subseteq Params

(* Hearing a frame keeps those types. *)
LEMMA HearTypes ==
  ASSUME TypeOK, NEW rest \in Seq(Frames), Hear(rest)
  PROVE  SentType'
BY DEF TypeOK, WireType, KeyType, WriteType, SentType, Hear

(* Sending a command keeps them. *)
LEMMA SendTypes ==
  ASSUME TypeOK, NEW f \in Commands, NEW rest \in Seq(Frames), Send(f, rest)
  PROVE  SentType'
BY SendResult DEF SentType

(* So does sending nothing. *)
LEMMA StayTypes == TypeOK /\ UNCHANGED sent => SentType'
BY DEF TypeOK, WireType, KeyType, WriteType, SentType, sent

(* ... and with those types every other stays, ... *)
LEMMA TypeOf ==
  ASSUME TypeOK, UNCHANGED <<board, radio>>, SentType', AppType', WishType'
  PROVE  TypeOK'
<1>1. SynthType'
  BY DEF TypeOK, SynthType, board
<1>2. WireType'
  BY DEF TypeOK, WireType, SentType, board
<1>3. KeyType' /\ WriteType'
  BY DEF TypeOK, KeyType, WriteType, SentType, WishType, board
<1> QED BY <1>1, <1>2, <1>3 DEF TypeOK

(* What the application does keeps every type. *)
LEMMA TypeApp == TypeOK /\ App => TypeOK'
<1> SUFFICES ASSUME TypeOK, App PROVE TypeOK'
  OBVIOUS
<1> USE DEF sync, wish
<1>1. UNCHANGED <<board, radio>>
  BY AppLeaves
<1>2. AppType /\ WishType /\ SentType /\ down \in Seq(Frames) /\ m_listSeq + 1 \in Nat
      /\ List(m_listSeq + 1) \in Commands /\ Sets \subseteq Commands /\ Gets \subseteq Commands
  <2>1. AppType /\ WishType /\ SentType /\ down \in Seq(Frames) /\ m_listSeq + 1 \in Nat
    BY DEF TypeOK, AppType, WriteType, KeyType, WishType, SentType, WireType
  <2> QED BY <2>1, CommandTypes
<1>3. ASSUME NEW c \in BOOLEAN, setConnected(c) PROVE TypeOK'
  <2>1. SentType'
    BY <1>2, <1>3 DEF SentType, setConnected
  <2>2. NoVals \in Partial(Params, Values)
    BY PartialOps
  <2>3. m_params' \in [Params -> Values \cup {NoValue}]
    BY <1>3 DEF setConnected, resetState
  <2>4. m_connected' \in BOOLEAN /\ m_ready' \in BOOLEAN
    BY <1>3, Zenon DEF setConnected, resetState
  <2>5. AppType'
    BY <1>2, <1>3, <2>3, <2>4 DEF AppType, setConnected, resetState
  <2>6. WishType'
    BY <1>3, <2>2 DEF WishType, setConnected, resetState
  <2> QED BY <1>1, <2>1, <2>5, <2>6, TypeOf
<1>4. CASE FallbackFires
  <2>1. SentType'
    BY <1>2, <1>4, SendTypes DEF FallbackFires, beginDiscovery
  <2>2. AppType'
    BY <1>2, <1>4 DEF AppType, FallbackFires, beginDiscovery
  <2>3. WishType'
    BY <1>2, <1>4 DEF WishType, FallbackFires, beginDiscovery
  <2> QED BY <1>1, <2>1, <2>2, <2>3, TypeOf
<1>5. CASE Watchdog
  <2>1. SentType'
    BY <1>2, <1>5, SendTypes, HearTypes DEF Watchdog
  <2>2. AppType'
    BY <1>2, <1>5 DEF AppType, Watchdog
  <2>3. WishType'
    BY <1>2, <1>5 DEF WishType, Watchdog
  <2> QED BY <1>1, <2>1, <2>2, <2>3, TypeOf
<1>6. CASE finishDiscovery
  <2>1. SentType'
    BY <1>6, StayTypes DEF finishDiscovery
  <2>2. AppType' /\ WishType'
    BY <1>2, <1>6 DEF AppType, WishType, finishDiscovery
  <2> QED BY <1>1, <2>1, <2>2, TypeOf
<1>7. CASE handleParamValues
  <2>1. Head(down) \in Frames /\ Head(down).op = "params" /\ Tail(down) \in Seq(Frames)
    BY <1>7, HeardIs DEF handleParamValues
  <2>2. SentType'
    BY <1>7, <2>1, HearTypes DEF handleParamValues
  <2>3. Over(Head(down).vals, m_params) \in [Params -> Values \cup {NoValue}]
    BY <1>2, <2>1, FrameKinds, OverIs DEF AppType
  <2>4. AppType' /\ WishType'
    BY <1>2, <1>7, <2>3 DEF AppType, WishType, handleParamValues
  <2> QED BY <1>1, <2>2, <2>4, TypeOf
<1>8. CASE handleEngineEvent
  <2>1. Head(down) \in Frames /\ Head(down).op = "engine" /\ Tail(down) \in Seq(Frames)
    BY <1>8, HeardIs DEF handleEngineEvent
  <2>2. SentType'
    BY <1>2, <1>8, <2>1, SendTypes, HearTypes DEF handleEngineEvent, beginDiscovery
  <2>3. m_engine' \in Engines
    BY <1>8, <2>1, FrameKinds DEF handleEngineEvent
  <2>4. AppType'
    BY <1>2, <1>8, <2>3 DEF AppType, handleEngineEvent, beginDiscovery
  <2>5. WishType'
    BY <1>2, <1>8 DEF WishType, handleEngineEvent, beginDiscovery
  <2> QED BY <1>1, <2>2, <2>4, <2>5, TypeOf
<1>9. CASE onParamListComplete
  <2>1. Head(down) \in Frames /\ Head(down).op = "listing" /\ Tail(down) \in Seq(Frames)
    BY <1>9, HeardIs DEF onParamListComplete
  <2>2. Get(RequestRetries) \in Commands
    BY <1>2, CommandTypes
  <2>3. SentType'
    BY <1>9, <2>1, <2>2, SendTypes, HearTypes DEF onParamListComplete
  <2>4. m_engine' \in Engines \cup {NoValue}
    BY <1>2, <1>9, <2>1, FrameKinds DEF onParamListComplete, AppType
  <2>5. AppType'
    BY <1>2, <1>9, <2>4 DEF AppType, onParamListComplete
  <2>6. WishType'
    BY <1>2, <1>9 DEF WishType, onParamListComplete
  <2> QED BY <1>1, <2>3, <2>5, <2>6, TypeOf
<1>10. CASE onSetBusy
  <2>1. Head(down) \in Frames /\ Head(down).op = "busy" /\ Tail(down) \in Seq(Frames)
    BY <1>10, HeardIs DEF onSetBusy
  <2>2. Head(down).of \in Sets
    BY <1>10, <2>1, FrameKinds, CommandKinds DEF onSetBusy
  <2>3. SentType'
    BY <1>10, <2>1, HearTypes DEF onSetBusy
  <2>4. m_setQueue' \in Seq(Sets)
    <3>1. m_setQueue' = <<Head(down).of>> \o m_setQueue
      BY <1>10 DEF onSetBusy
    <3> QED BY <1>2, <2>2, <3>1, PrependIn DEF WishType
  <2>5. Overtaken(Head(down).of) \subseteq Params
    <3>1. Writes(Head(down).of) \subseteq Params
      BY <2>2, CommandTypes, WritesAndTells
    <3> QED BY <3>1 DEF Overtaken
  <2>6. AppType'
    BY <1>2, <1>10 DEF AppType, onSetBusy
  <2>7. WishType'
    BY <1>2, <1>10, <2>4, <2>5 DEF WishType, onSetBusy
  <2> QED BY <1>1, <2>3, <2>6, <2>7, TypeOf
<1>11. CASE onRequestBusy
  <2> DEFINE f == Head(down).of
             again == f.op = "get" /\ f.retries > 0
  <2>1. Head(down) \in Frames /\ Head(down).op = "busy" /\ Tail(down) \in Seq(Frames)
    BY <1>11, HeardIs DEF onRequestBusy
  <2>2. f \in Commands /\ Tells(f) \subseteq Params
    BY <2>1, FrameKinds, WritesAndTells
  <2>3. m_requestRetryQueue' \in Seq(Gets)
    <3>1. CASE again
      <4>1. Get(f.retries - 1) \in Gets
        BY <2>2, <3>1, CommandKinds, CommandTypes
      <4>2. m_requestRetryQueue' = Append(m_requestRetryQueue, Get(f.retries - 1))
        BY <1>11, <3>1 DEF onRequestBusy
      <4> QED BY <1>2, <4>1, <4>2, AppendIn DEF WishType
    <3>2. CASE ~again
      <4>1. m_requestRetryQueue' = m_requestRetryQueue
        BY <1>11, <3>2 DEF onRequestBusy
      <4> QED BY <1>2, <4>1 DEF WishType
    <3> QED BY <3>1, <3>2
  <2>4. lost' \subseteq Params
    BY <1>2, <1>11, <2>2 DEF onRequestBusy, SentType
  <2>5. SentType'
    BY <1>2, <1>11, <2>1, <2>4 DEF onRequestBusy, SentType
  <2>6. AppType'
    BY <1>2, <1>11 DEF AppType, onRequestBusy
  <2>7. WishType'
    BY <1>2, <1>11, <2>3 DEF WishType, onRequestBusy
  <2> QED BY <1>1, <2>5, <2>6, <2>7, TypeOf
<1>12. CASE drainRequestRetryQueue
  <2>1. Head(m_requestRetryQueue) \in Gets /\ Tail(m_requestRetryQueue) \in Seq(Gets)
    BY <1>2, <1>12, TailIn DEF drainRequestRetryQueue, WishType
  <2>2. SentType'
    BY <1>2, <1>12, <2>1, SendTypes DEF drainRequestRetryQueue
  <2>3. AppType'
    BY <1>2, <1>12 DEF AppType, drainRequestRetryQueue
  <2>4. WishType'
    BY <1>2, <1>12, <2>1 DEF WishType, drainRequestRetryQueue
  <2> QED BY <1>1, <2>2, <2>3, <2>4, TypeOf
<1>13. CASE flushPendingSets
  <2>1. Set(m_pendingSets) \in Sets /\ NoVals \in Partial(Params, Values)
    BY <1>2, CommandTypes, PartialOps DEF WishType
  <2>2. Append(m_setQueue, Set(m_pendingSets)) \in Seq(Sets)
    BY <1>2, <2>1, AppendIn DEF WishType
  <2>3. SentType'
    BY <1>13, StayTypes DEF flushPendingSets
  <2>4. AppType'
    BY <1>2, <1>13 DEF AppType, flushPendingSets
  <2>5. WishType'
    BY <1>2, <1>13, <2>1, <2>2 DEF WishType, flushPendingSets
  <2> QED BY <1>1, <2>3, <2>4, <2>5, TypeOf
<1>14. CASE drainSetQueue
  <2>1. Head(m_setQueue) \in Sets /\ Tail(m_setQueue) \in Seq(Sets)
    BY <1>2, <1>14, TailIn DEF drainSetQueue, WishType
  <2>2. SentType'
    BY <1>2, <1>14, <2>1, SendTypes DEF drainSetQueue
  <2>3. AppType'
    BY <1>2, <1>14 DEF AppType, drainSetQueue
  <2>4. WishType'
    BY <1>2, <1>14, <2>1 DEF WishType, drainSetQueue
  <2> QED BY <1>1, <2>2, <2>3, <2>4, TypeOf
<1> QED BY <1>3, <1>4, <1>5, <1>6, <1>7, <1>8, <1>9, <1>10, <1>11, <1>12, <1>13, <1>14
        DEF App, Hears, Connected, Dropped

(* ... and so does what people do. *)
LEMMA TypePeople == TypeOK /\ People => TypeOK'
<1> SUFFICES ASSUME TypeOK, People PROVE TypeOK'
  OBVIOUS
<1> USE DEF sync, wish
<1>1. AppType /\ WishType /\ SentType /\ down \in Seq(Frames)
  BY DEF TypeOK, AppType, WriteType, KeyType, WishType, SentType, WireType
<1>2. ASSUME NEW p \in Params, NEW v \in Values, SetParam(p, v) PROVE TypeOK'
  <2>1. SynthType' /\ KeyType' /\ AppType'
    BY <1>2 DEF SetParam, TypeOK, SynthType, KeyType, AppType, app, sent
  <2>2. WireType' /\ WriteType'
    BY <1>2 DEF SetParam, TypeOK, WireType, WriteType, app, sent
  <2> QED BY <2>1, <2>2 DEF TypeOK
<1>3. ASSUME NEW e \in Engines, EngineSwitched(e) PROVE TypeOK'
  <2>1. swung' \in BOOLEAN
    BY <1>3 DEF EngineSwitched
  <2>2. SynthType' /\ KeyType' /\ AppType'
    BY <1>3 DEF EngineSwitched, TypeOK, SynthType, KeyType, AppType, app, sent
  <2>3. WireType' /\ WriteType'
    BY <1>3, <2>1 DEF EngineSwitched, TypeOK, WireType, WriteType, app, sent
  <2> QED BY <2>2, <2>3 DEF TypeOK
<1>4. ASSUME NEW p \in Params, NEW v \in Values, Shown(p, v)
      PROVE  UNCHANGED <<board, radio>> /\ SentType' /\ AppType' /\ crossed' \subseteq Params
             /\ UNCHANGED <<m_requestRetryQueue, m_heldNotes>>
  <2>1. SentType'
    BY <1>4, StayTypes DEF Shown
  <2>2. AppType'
    BY <1>1, <1>4 DEF Shown, AppType
  <2>3. crossed' \subseteq Params
    BY <1>1, <1>4 DEF Shown, WishType
  <2> QED BY <1>4, <2>1, <2>2, <2>3 DEF Shown
<1>5. ASSUME NEW p \in Params, NEW v \in Values PROVE setParam(p, v) => TypeOK'
  <2> SUFFICES ASSUME setParam(p, v) PROVE TypeOK'
    OBVIOUS
  <2>1. Over(One(p, v), m_pendingSets) \in Partial(Params, Values)
    BY <1>1, PartialOps DEF WishType
  <2>2. UNCHANGED <<board, radio>> /\ SentType' /\ AppType' /\ crossed' \subseteq Params
        /\ UNCHANGED <<m_requestRetryQueue, m_heldNotes>>
    BY <1>4 DEF setParam
  <2>3. WishType'
    BY <1>1, <2>1, <2>2 DEF setParam, WishType
  <2> QED BY <2>2, <2>3, TypeOf
<1>6. ASSUME NEW p \in Params, NEW v \in Values PROVE setParamNow(p, v) => TypeOK'
  <2> SUFFICES ASSUME setParamNow(p, v) PROVE TypeOK'
    OBVIOUS
  <2>1. Only(m_pendingSets, Params \ {p}) \in Partial(Params, Values)
    BY <1>1, PartialOps DEF WishType
  <2>2. Set(One(p, v)) \in Sets
    BY CommandTypes, PartialOps
  <2>3. Append(m_setQueue, Set(One(p, v))) \in Seq(Sets)
    BY <1>1, <2>2, AppendIn DEF WishType
  <2>4. UNCHANGED <<board, radio>> /\ SentType' /\ AppType' /\ crossed' \subseteq Params
        /\ UNCHANGED <<m_requestRetryQueue, m_heldNotes>>
    BY <1>4 DEF setParamNow
  <2>5. WishType'
    BY <1>1, <2>1, <2>3, <2>4 DEF setParamNow, WishType
  <2> QED BY <2>4, <2>5, TypeOf
<1>7. ASSUME NEW n \in Notes, noteOn(n) \/ noteOff(n) PROVE TypeOK'
  <2>1. Note("on", n) \in Commands /\ Note("off", n) \in Commands
    BY CommandTypes
  <2>2. SentType'
    BY <1>1, <1>7, <2>1, SendTypes DEF noteOn, noteOff
  <2>3. AppType'
    BY <1>1, <1>7 DEF AppType, noteOn, noteOff
  <2>4. WishType'
    BY <1>1, <1>7 DEF WishType, noteOn, noteOff
  <2>5. UNCHANGED <<board, radio>>
    BY <1>7 DEF noteOn, noteOff
  <2> QED BY <2>2, <2>3, <2>4, <2>5, TypeOf
<1> QED BY <1>2, <1>3, <1>5, <1>6, <1>7, TypeHost DEF People

(* A step of Next. *)
LEMMA TypeStep == TypeOK /\ [Next]_vars => TypeOK'
<1>1. TypeOK /\ UNCHANGED vars => TypeOK'
  <2> SUFFICES ASSUME TypeOK, UNCHANGED vars PROVE TypeOK'
    OBVIOUS
  <2>1. SynthType' /\ KeyType' /\ AppType'
    BY DEF vars, board, app, sync, wish, sent, TypeOK, SynthType, KeyType, AppType
  <2>2. WireType' /\ WriteType'
    BY DEF vars, board, app, sync, wish, sent, TypeOK, WireType, WriteType
  <2> QED BY <2>1, <2>2 DEF TypeOK
<1> QED BY <1>1, TypeSynth, TypeHost, TypeApp, TypePeople DEF Next

-----------------------------------------------------------------------------
(* Sessions. *)

(* The link and the connection are touched by the host task, the radio and    *)
(* the application's own connection only.                                    *)
link == <<radio, s_conn, s_evt_sub, m_connected>>

(* Nothing else touches them. *)
LEMMA LinkStays ==
  /\ Synth => UNCHANGED <<link, greeting, m_heldNotes>>
  /\ App => UNCHANGED <<radio, s_conn, s_evt_sub>>
  /\ App /\ ~Connected /\ ~Dropped => UNCHANGED <<m_connected, m_heldNotes>>
  /\ \A p \in Params, v \in Values :
       SetParam(p, v) \/ setParam(p, v) \/ setParamNow(p, v) => UNCHANGED <<link, m_heldNotes>>
  /\ \A n \in Notes : noteOn(n) \/ noteOff(n) => UNCHANGED link
  /\ \A e \in Engines : EngineSwitched(e) => UNCHANGED <<link, m_heldNotes>>
<1> USE DEF link, board, app
<1>1. Synth => UNCHANGED <<link, greeting, m_heldNotes>>
  BY DEF Synth, HandleFrame, Flush, FlushEngine, FlushAnnounced, FlushTake, FlushRead, FlushSend,
         Aside, param_listener
<1>2. App => UNCHANGED <<radio, s_conn, s_evt_sub>>
  BY AppLeaves
<1>3. App /\ ~Connected /\ ~Dropped => UNCHANGED <<m_connected, m_heldNotes>>
  BY DEF App, FallbackFires, Watchdog, finishDiscovery, Hears, handleParamValues,
         handleEngineEvent, onParamListComplete, onSetBusy, onRequestBusy,
         drainRequestRetryQueue, flushPendingSets, drainSetQueue
<1>4. \A p \in Params, v \in Values :
        SetParam(p, v) \/ setParam(p, v) \/ setParamNow(p, v) => UNCHANGED <<link, m_heldNotes>>
  BY DEF SetParam, setParam, setParamNow, Shown
<1>5. \A n \in Notes : noteOn(n) \/ noteOff(n) => UNCHANGED link
  BY DEF noteOn, noteOff
<1>6. \A e \in Engines : EngineSwitched(e) => UNCHANGED <<link, m_heldNotes>>
  BY DEF EngineSwitched
<1> QED BY <1>1, <1>2, <1>3, <1>4, <1>5, <1>6

(* What is told is told over a link, to a client that is subscribed. *)
LEMMA SendDown ==
  ASSUME TypeOK, NEW f \in Commands, NEW rest \in Seq(Frames), Send(f, rest), down' # <<>>
  PROVE  rest # <<>> \/ Sendable
BY SendResult DEF Unsent

(* A frame comes into an empty stream only over a radio with somebody at its far end. *)
LEMMA DownGrows ==
  ASSUME TypeOK, Next, down' # <<>>, down = <<>>
  PROVE  radio /\ (tp_link_up \/ m_connected)
<1> USE DEF sent, sync, wish
<1>0. m_listSeq + 1 \in Nat /\ List(m_listSeq + 1) \in Commands
      /\ m_setQueue \in Seq(Sets) /\ m_requestRetryQueue \in Seq(Gets)
      /\ Sets \subseteq Commands /\ Gets \subseteq Commands /\ down \in Seq(Frames)
  <2>1. m_listSeq + 1 \in Nat
    BY DEF TypeOK, AppType
  <2> QED BY <2>1, CommandTypes DEF TypeOK, WriteType, WireType
<1>1. CASE Synth
  BY <1>1 DEF Synth, HandleFrame, HandleSet, HandleGet, HandleList, HandleNote, Reply, Flush,
              FlushEngine, FlushAnnounced, FlushTake, FlushRead, FlushSend, Aside,
              param_listener, Notify, Fails, sent
<1>2. CASE Host \/ Connect \/ LinkDrops
  BY <1>2 DEF Host, Subscribe, ctrl_proto_link_reset, Disconnected, Connect, LinkDrops
<1>3. CASE App
  <2>1. ~Hears
    BY DEF Hears, handleParamValues, handleEngineEvent, onParamListComplete, onSetBusy,
           onRequestBusy, Heard
  <2>2. CASE Connected \/ Dropped
    BY <2>2 DEF Connected, Dropped, setConnected
  <2>3. CASE FallbackFires
    BY <1>0, <2>3, SendDown DEF FallbackFires, beginDiscovery, Sendable
  <2>4. CASE Watchdog
    BY <1>0, <2>4, SendDown DEF Watchdog, Sendable, Hear
  <2>5. CASE finishDiscovery \/ flushPendingSets
    BY <2>5 DEF finishDiscovery, flushPendingSets
  <2>6. CASE drainRequestRetryQueue
    <3>1. Head(m_requestRetryQueue) \in Commands
      BY <1>0, <2>6, TailIn DEF drainRequestRetryQueue
    <3> QED BY <1>0, <2>6, <3>1, SendDown DEF drainRequestRetryQueue, Sendable
  <2>7. CASE drainSetQueue
    <3>1. Head(m_setQueue) \in Commands
      BY <1>0, <2>7, TailIn DEF drainSetQueue
    <3> QED BY <1>0, <2>7, <3>1, SendDown DEF drainSetQueue, Sendable
  <2> QED BY <1>3, <2>1, <2>2, <2>3, <2>4, <2>5, <2>6, <2>7 DEF App
<1>4. CASE People /\ ~Connect /\ ~LinkDrops
  <2>1. ASSUME NEW n \in Notes, noteOn(n) \/ noteOff(n) PROVE Sendable
    <3>1. Note("on", n) \in Commands /\ Note("off", n) \in Commands
      BY CommandTypes
    <3> QED BY <1>0, <2>1, <3>1, SendDown DEF noteOn, noteOff
  <2>2. ASSUME NEW p \in Params, NEW v \in Values,
               SetParam(p, v) \/ setParam(p, v) \/ setParamNow(p, v)
        PROVE  FALSE
    BY <2>2 DEF SetParam, setParam, setParamNow, Shown
  <2>3. ASSUME NEW e \in Engines, EngineSwitched(e) PROVE FALSE
    BY <2>3 DEF EngineSwitched
  <2> QED BY <1>4, <2>1, <2>2, <2>3 DEF People, Sendable
<1> QED BY <1>1, <1>2, <1>3, <1>4 DEF Next, People

(* Every step keeps the session in order. *)
LEMMA StepSession == TypeOK /\ Session /\ Next => Session'
<1> SUFFICES ASSUME TypeOK, Session, Next PROVE Session'
  OBVIOUS
<1>1. down' # <<>> => down # <<>> \/ (radio /\ (tp_link_up \/ m_connected))
  BY DownGrows
<1>2. down' # <<>> => radio /\ s_evt_sub
  BY <1>1 DEF Session, tp_link_up
<1>3. CASE UNCHANGED link /\ (m_heldNotes' \subseteq m_heldNotes \/ m_connected)
  BY <1>2, <1>3 DEF Session, link
<1>4. CASE Connect
  BY <1>4 DEF Connect, Session, app, sent, sync, wish
<1>5. CASE LinkDrops
  BY <1>5 DEF LinkDrops, Session, board, app
<1>6. CASE Subscribe \/ ctrl_proto_link_reset
  BY <1>6 DEF Subscribe, ctrl_proto_link_reset, Session, app, sent, board
<1>7. CASE Disconnected
  BY <1>7 DEF Disconnected, Session, app
<1>8. CASE Connected \/ Dropped
  BY <1>8 DEF Connected, Dropped, setConnected, resetState, Session, board
<1>9. CASE App /\ ~Connected /\ ~Dropped
  BY <1>3, <1>9, LinkStays DEF link
<1>10. ASSUME NEW n \in Notes, noteOn(n) \/ noteOff(n) PROVE Session'
  <2>1. UNCHANGED link /\ (m_heldNotes' \subseteq m_heldNotes \/ m_connected)
    BY <1>10, LinkStays DEF noteOn, noteOff
  <2> QED BY <1>3, <2>1
<1>11. CASE Synth
  BY <1>3, <1>11, LinkStays
<1>12. ASSUME NEW p \in Params, NEW v \in Values,
              SetParam(p, v) \/ setParam(p, v) \/ setParamNow(p, v)
       PROVE  Session'
  BY <1>3, <1>12, LinkStays
<1>13. ASSUME NEW e \in Engines, EngineSwitched(e) PROVE Session'
  BY <1>3, <1>13, LinkStays
<1> QED BY <1>4, <1>5, <1>6, <1>7, <1>8, <1>9, <1>10, <1>11, <1>12, <1>13 DEF Next, Host, People

-----------------------------------------------------------------------------
(* The protocol task's pass. *)

(* Only the passes of the protocol task move it on; only a frame it handles   *)
(* tells a list; only the application's host brings a client.                *)
LEMMA FlushStays == Next /\ ~Flush => UNCHANGED flush
<1> USE DEF board
<1>1. HandleFrame \/ (\E p \in Params : param_listener(p)) => UNCHANGED flush
  BY DEF HandleFrame, param_listener
<1>2. Host \/ Connect \/ LinkDrops => UNCHANGED flush
  BY DEF Host, Subscribe, ctrl_proto_link_reset, Disconnected, Connect, LinkDrops
<1>3. App => UNCHANGED flush
  BY AppLeaves
<1>4. \A p \in Params, v \in Values :
        SetParam(p, v) \/ setParam(p, v) \/ setParamNow(p, v) => UNCHANGED flush
  BY DEF SetParam, setParam, setParamNow, Shown
<1>5. \A n \in Notes : noteOn(n) \/ noteOff(n) => UNCHANGED flush
  BY DEF noteOn, noteOff
<1>6. \A e \in Engines : EngineSwitched(e) => UNCHANGED flush
  BY DEF EngineSwitched
<1> QED BY <1>1, <1>2, <1>3, <1>4, <1>5, <1>6 DEF Next, Synth, People

(* Every step keeps a pass that carries nothing empty. *)
LEMMA StepTaken == TypeOK /\ Taken /\ Next => Taken'
<1> SUFFICES ASSUME TypeOK, Taken, Next PROVE Taken'
  OBVIOUS
<1>1. CASE ~Flush
  BY <1>1, FlushStays DEF Taken
<1>2. CASE Flush
  <2>1. flush \in Flushes /\ Idle.pc = "wait" /\ Idle.taken = {} /\ Idle \in Flushes
    BY PartialOps DEF TypeOK, SynthType, Idle, Flushes
  <2>2. CASE FlushEngine
    BY <2>1, <2>2 DEF FlushEngine, Unannounced, Taken, Idle
  <2>3. CASE FlushAnnounced
    BY <2>1, <2>3 DEF FlushAnnounced, Taken, Flushes
  <2>4. CASE FlushTake
    BY <2>1, <2>4 DEF FlushTake, Taken, Flushes
  <2>5. CASE FlushRead
    <3>1. store \in Partial(Params, Values) /\ DOMAIN store = Params /\ flush.taken \subseteq Params
      BY <2>1, PartialIs DEF TypeOK, SynthType, Flushes
    <3>2. DOMAIN Only(store, flush.taken) = DOMAIN store \cap flush.taken
      BY <3>1, PartialOps
    <3>3. DOMAIN Only(store, flush.taken) = flush.taken
      BY <3>1, <3>2
    <3> QED BY <2>1, <2>5, <3>3 DEF FlushRead, Taken, Flushes
  <2>6. CASE FlushSend
    BY <2>1, <2>6 DEF FlushSend, Taken
  <2> QED BY <1>2, <2>2, <2>3, <2>4, <2>5, <2>6 DEF Flush
<1> QED BY <1>1, <1>2

(* What the application sends, having heard one frame or none.               *)
Heeded == {down} \cup {r \in {Tail(down)} : down # <<>>}

(* Those are streams of frames. *)
LEMMA HeededIs == TypeOK => \A r \in Heeded : r \in Seq(Frames)
BY TailIn DEF Heeded, TypeOK, WireType

(* The application leaves one of them, or has a busy put behind it. *)
LEMMA AppSends ==
  ASSUME TypeOK, App \/ \E n \in Notes : noteOn(n) \/ noteOff(n)
  PROVE  \E r \in Heeded : \/ down' = r
                           \/ \E f \in Commands : down' = Append(r, Busy(f))
<1> USE DEF sent, sync, wish
<1>1. \A f \in Commands, r \in Heeded : Send(f, r) =>
        \/ down' = r
        \/ \E g \in Commands : down' = Append(r, Busy(g))
  BY HeededIs, SendResult DEF Unsent, Queued, Rejected, Forgone
<1>2. m_listSeq + 1 \in Nat /\ List(m_listSeq + 1) \in Commands /\ Get(RequestRetries) \in Commands
      /\ m_setQueue \in Seq(Sets) /\ m_requestRetryQueue \in Seq(Gets)
      /\ Sets \subseteq Commands /\ Gets \subseteq Commands /\ down \in Seq(Frames)
  <2>1. m_listSeq + 1 \in Nat
    BY DEF TypeOK, AppType
  <2> QED BY <2>1, CommandTypes DEF TypeOK, WriteType, WireType
<1>3. down \in Heeded /\ (down # <<>> => Tail(down) \in Heeded)
  BY DEF Heeded
<1>4. CASE Connected \/ Dropped
  BY <1>3, <1>4 DEF Connected, Dropped, setConnected
<1>5. CASE FallbackFires \/ Watchdog
  BY <1>1, <1>2, <1>3, <1>5 DEF FallbackFires, Watchdog, beginDiscovery, Hear
<1>6. CASE finishDiscovery \/ flushPendingSets
  BY <1>3, <1>6 DEF finishDiscovery, flushPendingSets
<1>7. CASE \/ handleParamValues \/ handleEngineEvent \/ onParamListComplete
           \/ onSetBusy \/ onRequestBusy
  BY <1>1, <1>2, <1>3, <1>7
     DEF handleParamValues, handleEngineEvent, onParamListComplete, onSetBusy, onRequestBusy,
         Heard, Hear, beginDiscovery
<1>8. CASE drainRequestRetryQueue
  <2>1. Head(m_requestRetryQueue) \in Commands
    BY <1>2, <1>8, TailIn DEF drainRequestRetryQueue
  <2> QED BY <1>1, <1>3, <1>8, <2>1 DEF drainRequestRetryQueue
<1>9. CASE drainSetQueue
  <2>1. Head(m_setQueue) \in Commands
    BY <1>2, <1>9, TailIn DEF drainSetQueue
  <2> QED BY <1>1, <1>3, <1>9, <2>1 DEF drainSetQueue
<1>10. ASSUME NEW n \in Notes, noteOn(n) \/ noteOff(n)
       PROVE  \E r \in Heeded : \/ down' = r
                                \/ \E f \in Commands : down' = Append(r, Busy(f))
  <2>1. Note("on", n) \in Commands /\ Note("off", n) \in Commands
    BY CommandTypes
  <2> QED BY <1>1, <1>3, <1>10, <2>1 DEF noteOn, noteOff
<1> QED BY <1>4, <1>5, <1>6, <1>7, <1>8, <1>9, <1>10 DEF App, Hears

(* A list is told by the protocol task, between two passes. *)
LEMMA ListsTold == TypeOK /\ Next /\ In(down', Lists) => In(down, Lists) \/ HandleFrame
<1> SUFFICES ASSUME TypeOK, Next, In(down', Lists), ~HandleFrame PROVE In(down, Lists)
  OBVIOUS
<1> USE DEF sent
<1>1. down \in Seq(Frames)
  BY DEF TypeOK, WireType
<1>2. ASSUME NEW f \in Frames, f \notin Lists, NEW r \in Seq(Frames),
             In(r, Lists) => In(down, Lists), down' = Append(r, f)
      PROVE  In(down, Lists)
  BY <1>2, AppendIn
<1>3. CASE App \/ \E n \in Notes : noteOn(n) \/ noteOff(n)
  <2>1. PICK r \in Heeded : \/ down' = r
                            \/ \E f \in Commands : down' = Append(r, Busy(f))
    BY <1>3, AppSends
  <2>2. r \in Seq(Frames) /\ (In(r, Lists) => In(down, Lists))
    BY <1>1, HeededIs, TailIn DEF Heeded
  <2>3. \A f \in Commands : Busy(f) \in Frames /\ Busy(f) \notin Lists
    BY FrameTypes DEF Lists
  <2> QED BY <1>2, <2>1, <2>2, <2>3
<1>4. CASE Synth
  <2>1. CASE FlushEngine
    <3>1. EvtEngine(engine) \in Frames /\ EvtEngine(engine) \notin Lists
      BY FrameTypes DEF TypeOK, SynthType, Lists
    <3> QED BY <1>1, <1>2, <2>1, <3>1 DEF FlushEngine, Notify, Fails
  <2>2. CASE FlushSend
    <3>1. Evt(flush.vals) \in Frames /\ Evt(flush.vals) \notin Lists
      BY FrameTypes DEF TypeOK, SynthType, Flushes, Lists
    <3> QED BY <1>1, <1>2, <2>2, <3>1 DEF FlushSend, Notify, Fails
  <2> QED BY <1>4, <2>1, <2>2
          DEF Synth, Flush, FlushAnnounced, FlushTake, FlushRead, param_listener
<1>5. CASE Host \/ Connect \/ LinkDrops
  BY <1>5 DEF Host, Subscribe, ctrl_proto_link_reset, Disconnected, Connect, LinkDrops, In
<1>6. CASE \E p \in Params, v \in Values : SetParam(p, v) \/ setParam(p, v) \/ setParamNow(p, v)
  BY <1>6 DEF SetParam, setParam, setParamNow, Shown
<1>7. CASE \E e \in Engines : EngineSwitched(e)
  BY <1>7 DEF EngineSwitched
<1> QED BY <1>3, <1>4, <1>5, <1>6, <1>7 DEF Next, People

(* An application is ready once it has heard a list. *)
LEMMA ReadyHeard == TypeOK /\ Next /\ Greeted' => Greeted \/ In(down, Lists)
<1> SUFFICES ASSUME TypeOK, Next, Greeted' PROVE Greeted \/ In(down, Lists)
  OBVIOUS
<1> USE DEF Greeted, Sendable, link
<1>1. CASE onParamListComplete
  <2>1. Heard("listing") /\ down \in Seq(Frames)
    BY <1>1 DEF onParamListComplete, TypeOK, WireType
  <2>2. Head(down) \in Lists
    BY <2>1, HeardIs DEF Lists
  <2> QED BY <2>1, <2>2, TailIn DEF Heard
<1>2. CASE App /\ ~onParamListComplete
  <2>1. UNCHANGED radio
    BY <1>2, LinkStays
  <2>2. CASE Connected \/ Dropped
    BY <2>2 DEF Connected, Dropped, setConnected, resetState
  <2>3. CASE ~Connected /\ ~Dropped
    <3>1. UNCHANGED <<m_connected, m_ready>>
      BY <1>2, <2>3 DEF App, FallbackFires, Watchdog, finishDiscovery, Hears, handleParamValues,
         handleEngineEvent, onSetBusy, onRequestBusy,
         drainRequestRetryQueue, flushPendingSets, drainSetQueue, sync
    <3> QED BY <2>1, <3>1
  <2> QED BY <2>2, <2>3
<1>3. CASE Synth
  BY <1>3 DEF Synth, HandleFrame, Flush, FlushEngine, FlushAnnounced, FlushTake, FlushRead,
              FlushSend, Aside, param_listener, app, sync
<1>4. CASE Host \/ Connect \/ LinkDrops
  BY <1>4 DEF Host, Subscribe, ctrl_proto_link_reset, Disconnected, Connect, LinkDrops, app, sync
<1>5. ASSUME NEW p \in Params, NEW v \in Values,
             SetParam(p, v) \/ setParam(p, v) \/ setParamNow(p, v)
      PROVE  Greeted
  BY <1>5 DEF SetParam, setParam, setParamNow, Shown, app, sync
<1>6. ASSUME NEW n \in Notes, noteOn(n) \/ noteOff(n) PROVE Greeted
  BY <1>6 DEF noteOn, noteOff, sync
<1>7. ASSUME NEW e \in Engines, EngineSwitched(e) PROVE Greeted
  BY <1>7 DEF EngineSwitched, app, sync
<1> QED BY <1>1, <1>2, <1>3, <1>4, <1>5, <1>6, <1>7 DEF Next, People

(* Every step leaves a pass that nobody hears alone. *)
LEMMA StepAlone == TypeOK /\ Session /\ Alone /\ Next => Alone'
<1> SUFFICES ASSUME TypeOK, Session, Alone, Next, flush'.pc # "wait", ~flush'.live
             PROVE  ~Greeted' /\ ~In(down', Lists)
  BY DEF Alone
<1>1. flush \in Flushes /\ down \in Seq(Frames)
  BY DEF TypeOK, SynthType, WireType
<1>2. CASE flush.pc # "wait" /\ ~flush.live
  <2>1. ~Greeted /\ ~In(down, Lists) /\ ~HandleFrame
    BY <1>2 DEF Alone, HandleFrame
  <2> QED BY <2>1, ListsTold, ReadyHeard
<1>3. CASE ~(flush.pc # "wait" /\ ~flush.live)
  <2>1. FlushEngine
    <3>1. Flush
      BY <1>3, FlushStays
    <3>2. flush.pc # "wait" => flush.live
      BY <1>3
    <3>3. CASE FlushAnnounced
      BY <1>1, <3>2, <3>3 DEF FlushAnnounced, Flushes
    <3>4. CASE FlushTake
      BY <1>1, <3>2, <3>4 DEF FlushTake, Idle, Flushes
    <3>5. CASE FlushRead
      BY <1>1, <3>2, <3>5 DEF FlushRead, Flushes
    <3>6. CASE FlushSend
      BY <3>6 DEF FlushSend, Idle
    <3> QED BY <3>1, <3>3, <3>4, <3>5, <3>6 DEF Flush
  <2>2. ~tp_link_up /\ down' = down /\ UNCHANGED <<radio, m_connected>>
    <3>1. CASE tp_link_up /\ engine # s_announced_engine
      BY <2>1, <3>1 DEF FlushEngine, Unannounced, Idle
    <3>2. CASE ~(tp_link_up /\ engine # s_announced_engine)
      BY <2>1, <3>2 DEF FlushEngine, Idle, Aside, app
    <3> QED BY <3>1, <3>2
  <2>3. down = <<>> /\ ~Sendable
    BY <2>2 DEF Session, Sendable, tp_link_up
  <2> QED BY <2>2, <2>3 DEF Greeted, Sendable, In
<1> QED BY <1>2, <1>3

-----------------------------------------------------------------------------
(* Keys. *)

(* A release behind every press stays behind as the queue moves and grows. *)
LEMMA BehindTail ==
  ASSUME NEW n, NEW F, NEW q \in Seq(F), q # <<>>, Behind(q, n)
  PROVE  /\ Behind(Tail(q), n)
         /\ Head(q) = Note("on", n) => Note("off", n) \in Elems(Tail(q))
<1> DEFINE t == Tail(q)
<1>1. /\ t \in Seq(F) /\ Head(q) = q[1] /\ Len(q) > 0
      /\ Len(t) = Len(q) - 1 /\ \A i \in 1 .. Len(t) : t[i] = q[i + 1]
  OBVIOUS
<1> HIDE DEF t
<1>2. DOMAIN q = 1 .. Len(q) /\ DOMAIN t = 1 .. Len(q) - 1 /\ Len(q) \in Nat
  BY <1>1
<1>3. ASSUME NEW i \in DOMAIN q, q[i] = Note("on", n)
      PROVE  \E j \in DOMAIN t : j + 1 > i /\ t[j] = Note("off", n)
  <2>1. PICK j \in DOMAIN q : j > i /\ q[j] = Note("off", n)
    BY <1>3 DEF Behind
  <2>2. j - 1 \in DOMAIN t /\ (j - 1) + 1 > i /\ t[j - 1] = q[j]
    BY <1>1, <1>2, <2>1
  <2> QED BY <2>1, <2>2
<1>4. Behind(t, n)
  <2> SUFFICES ASSUME NEW i \in DOMAIN t, t[i] = Note("on", n)
               PROVE  \E j \in DOMAIN t : j > i /\ t[j] = Note("off", n)
    BY DEF Behind
  <2>1. i + 1 \in DOMAIN q /\ q[i + 1] = Note("on", n)
    BY <1>1, <1>2
  <2>2. PICK j \in DOMAIN t : j + 1 > i + 1 /\ t[j] = Note("off", n)
    BY <1>3, <2>1
  <2>3. j > i
    BY <1>2, <2>2
  <2> QED BY <2>2, <2>3
<1>5. Head(q) = Note("on", n) => Note("off", n) \in Elems(t)
  <2> SUFFICES ASSUME Head(q) = Note("on", n) PROVE Note("off", n) \in Elems(t)
    OBVIOUS
  <2>1. 1 \in DOMAIN q /\ q[1] = Note("on", n)
    BY <1>1, <1>2
  <2>2. PICK j \in DOMAIN t : t[j] = Note("off", n)
    BY <1>3, <2>1
  <2> QED BY <2>2 DEF Elems
<1> QED BY <1>4, <1>5 DEF t

(* A release put behind covers the press; no command but the press uncovers it. *)
LEMMA BehindAppend ==
  ASSUME NEW n, NEW F, NEW q \in Seq(F), NEW f \in F
  PROVE  /\ f # Note("on", n) /\ Behind(q, n) => Behind(Append(q, f), n)
         /\ f = Note("off", n) => Behind(Append(q, f), n)
<1> DEFINE t == Append(q, f)
<1>1. /\ t \in Seq(F) /\ Len(t) = Len(q) + 1 /\ t[Len(q) + 1] = f
      /\ \A i \in 1 .. Len(q) : t[i] = q[i]
  OBVIOUS
<1> HIDE DEF t
<1>2. DOMAIN q = 1 .. Len(q) /\ DOMAIN t = 1 .. Len(q) + 1 /\ Len(q) \in Nat
  BY <1>1
<1>3. f # Note("on", n) /\ Behind(q, n) => Behind(t, n)
  BY <1>1, <1>2 DEF Behind
<1>4. ASSUME f = Note("off", n) PROVE Behind(t, n)
  <2>1. f # Note("on", n)
    BY <1>4 DEF Note
  <2>2. \A i \in DOMAIN t : t[i] = Note("on", n) => Len(q) + 1 > i
    BY <1>1, <1>2, <2>1
  <2>3. Len(q) + 1 \in DOMAIN t
    BY <1>2
  <2> QED BY <1>1, <1>4, <2>2, <2>3 DEF Behind
<1> QED BY <1>3, <1>4 DEF t

(* A key the commands leave up has a release behind every press. *)
LEMMA BehindStill ==
  ASSUME NEW F, NEW q \in Seq(F), NEW n \in Notes, n \notin StillOn(q)
  PROVE  Behind(q, n)
<1> SUFFICES ASSUME NEW i \in DOMAIN q, q[i] = Note("on", n)
             PROVE  \E j \in DOMAIN q : j > i /\ q[j] = Note("off", n)
  BY DEF Behind
<1>1. ~\A j \in i + 1 .. Len(q) : q[j] # Note("off", n)
  BY DEF StillOn
<1>2. PICK j \in i + 1 .. Len(q) : q[j] = Note("off", n)
  BY <1>1
<1>3. j \in DOMAIN q /\ j > i
  BY <1>2
<1> QED BY <1>2, <1>3

(* What a queue holds, as a kind of frame. *)
LEMMA ElemsIn == \A s, x : x \in Elems(s) <=> In(s, {x})
BY DEF Elems, In

(* What is put behind is all that a queue gains. *)
LEMMA ElemsAppend ==
  ASSUME NEW F, NEW q \in Seq(F), NEW f \in F, NEW x
  PROVE  x \in Elems(Append(q, f)) <=> x \in Elems(q) \/ x = f
<1> DEFINE t == Append(q, f)
<1>1. t \in Seq(F) /\ (In(t, {x}) <=> In(q, {x}) \/ f \in {x})
  BY AppendIn
<1> HIDE DEF t
<1>2. x \in Elems(t) <=> In(t, {x})
  BY ElemsIn
<1>3. x \in Elems(q) <=> In(q, {x})
  BY ElemsIn
<1> QED BY <1>1, <1>2, <1>3 DEF t

(* A key is let go by what is queued. *)
Freed(n, q, down_keys) == /\ n \in down_keys => Note("off", n) \in Elems(q)
                          /\ Behind(q, n)

(* Every step leaves each key minded by the application, or let go by what is queued. *)
LEMMA StepKeys == TypeOK /\ Session /\ Keys /\ Next => Keys'
<1> SUFFICES ASSUME TypeOK, Session, Keys, Next PROVE Keys'
  OBVIOUS
<1> USE DEF sent, sync, wish
<1>1. \A n \in Notes \ orphans : Minded(n) \/ Freed(n, s_cmd_queue, sounding)
  BY Zenon DEF Keys, Freed
<1>2. SUFFICES \A n \in Notes \ orphans' : Minded(n)' \/ Freed(n, s_cmd_queue', sounding')
  BY Zenon DEF Keys, Freed
<1>3. s_cmd_queue \in Seq(Commands)
  BY DEF TypeOK, WireType
<1>4. ASSUME UNCHANGED <<s_conn, radio, m_heldNotes, sounding>>, orphans' = orphans,
             \/ s_cmd_queue' = s_cmd_queue
             \/ \E f \in Commands : /\ f.op \notin {"on", "off"}
                                    /\ s_cmd_queue' = Append(s_cmd_queue, f)
      PROVE  \A n \in Notes \ orphans' : Minded(n)' \/ Freed(n, s_cmd_queue', sounding')
  <2> SUFFICES ASSUME NEW n \in Notes \ orphans'
               PROVE  Minded(n)' \/ Freed(n, s_cmd_queue', sounding')
    OBVIOUS
  <2>1. CASE s_cmd_queue' = s_cmd_queue
    BY <1>1, <1>4, <2>1 DEF Minded
  <2>2. ASSUME NEW f \in Commands, f.op \notin {"on", "off"},
               s_cmd_queue' = Append(s_cmd_queue, f)
        PROVE  Minded(n)' \/ Freed(n, s_cmd_queue', sounding')
    <3>1. CASE Minded(n)
      BY <1>4, <3>1 DEF Minded
    <3>2. CASE Freed(n, s_cmd_queue, sounding)
      <4>1. f # Note("on", n)
        BY <2>2 DEF Note
      <4>2. Behind(s_cmd_queue', n)
        BY <1>3, <2>2, <3>2, <4>1, BehindAppend DEF Freed
      <4>3. n \in sounding' => Note("off", n) \in Elems(s_cmd_queue')
        BY <1>3, <1>4, <2>2, <3>2, ElemsAppend DEF Freed
      <4> QED BY <4>2, <4>3 DEF Freed
    <3> QED BY <1>1, <1>4, <3>1, <3>2
  <2> QED BY <1>4, <2>1, <2>2
<1>5. CASE HandleFrame
  <2> DEFINE f == Head(s_cmd_queue)
             t == Tail(s_cmd_queue)
  <2>1. /\ s_cmd_queue # <<>> /\ s_cmd_queue' = t
        /\ UNCHANGED <<s_conn, radio, m_heldNotes>>
        /\ HandleSet(f) \/ HandleGet(f) \/ HandleList(f) \/ HandleNote(f)
    BY <1>5 DEF HandleFrame, app
  <2>2. f \in Commands /\ t \in Seq(Commands)
    BY <1>3, <2>1, TailIn
  <2>3. \A n : Minded(n)' <=> Minded(n)
    BY <2>1 DEF Minded
  <2>4. ASSUME NEW n \in Notes \ orphans', n \notin orphans, f # Note("off", n),
               n \in sounding' => n \in sounding \/ f = Note("on", n)
        PROVE  Minded(n)' \/ Freed(n, s_cmd_queue', sounding')
    <3>1. CASE Minded(n)
      BY <2>3, <3>1
    <3>2. CASE Freed(n, s_cmd_queue, sounding)
      <4>1. Behind(t, n) /\ (f = Note("on", n) => Note("off", n) \in Elems(t))
        BY <1>3, <2>1, <3>2, BehindTail DEF Freed
      <4>2. Note("off", n) \in Elems(s_cmd_queue) => Note("off", n) \in Elems(t)
        BY <1>3, <2>1, <2>4, TailIn, ElemsIn
      <4> QED BY <2>1, <2>4, <3>2, <4>1, <4>2 DEF Freed
    <3> QED BY <1>1, <2>4, <3>1, <3>2
  <2>5. CASE f.op \notin {"on", "off"}
    <3>1. UNCHANGED <<sounding, orphans>> /\ \A n : f # Note("off", n)
      BY <2>1, <2>5 DEF HandleSet, HandleGet, HandleList, HandleNote, Note
    <3> QED BY <2>4, <3>1
  <2>6. CASE f.op = "on"
    <3>1. sounding' = sounding \cup {f.note} /\ orphans' = orphans /\ f = Note("on", f.note)
      BY <2>1, <2>2, <2>6, CommandKinds DEF HandleSet, HandleGet, HandleList, HandleNote
    <3>2. \A n : f # Note("off", n)
      BY <2>6 DEF Note
    <3> QED BY <2>4, <3>1, <3>2
  <2>7. CASE f.op = "off"
    <3>1. /\ sounding' = sounding \ {f.note} /\ f = Note("off", f.note)
          /\ orphans' = orphans \ ({f.note} \ StillOn(t))
      BY <2>1, <2>2, <2>7, CommandKinds DEF HandleSet, HandleGet, HandleList, HandleNote
    <3>2. ASSUME NEW n \in Notes \ orphans'
          PROVE  Minded(n)' \/ Freed(n, s_cmd_queue', sounding')
      <4>1. CASE n \in orphans
        <5>1. n = f.note /\ n \notin StillOn(t)
          BY <3>1, <3>2, <4>1
        <5>2. Behind(t, n)
          BY <2>2, <5>1, BehindStill
        <5> QED BY <2>1, <3>1, <5>1, <5>2 DEF Freed
      <4>2. CASE n \notin orphans /\ n # f.note
        <5>1. f # Note("off", n)
          BY <3>1, <4>2 DEF Note
        <5> QED BY <2>4, <3>1, <4>2, <5>1
      <4>3. CASE n \notin orphans /\ n = f.note
        <5>1. CASE Minded(n)
          BY <2>3, <5>1
        <5>2. CASE Freed(n, s_cmd_queue, sounding)
          <6>1. Behind(t, n)
            BY <1>3, <2>1, <5>2, BehindTail DEF Freed
          <6> QED BY <2>1, <3>1, <4>3, <6>1 DEF Freed
        <5> QED BY <1>1, <4>3, <5>1, <5>2
      <4> QED BY <4>1, <4>2, <4>3
    <3> QED BY <3>2
  <2> QED BY <2>5, <2>6, <2>7
<1>6. CASE Flush \/ \E p \in Params : param_listener(p)
  BY <1>4, <1>6 DEF Flush, FlushEngine, FlushAnnounced, FlushTake, FlushRead, FlushSend, Aside,
                    param_listener, app
<1>7. CASE Subscribe \/ ctrl_proto_link_reset
  BY <1>4, <1>7 DEF Subscribe, ctrl_proto_link_reset, app
<1>8. CASE Disconnected
  <2> SUFFICES ASSUME NEW n \in Notes \ orphans' PROVE Freed(n, s_cmd_queue', sounding')
    OBVIOUS
  <2>1. sounding' = {} /\ orphans' = StillOn(s_cmd_queue) /\ s_cmd_queue' = s_cmd_queue
    BY <1>8 DEF Disconnected, LetGo
  <2>2. Behind(s_cmd_queue, n)
    BY <1>3, <2>1, BehindStill
  <2> QED BY <2>1, <2>2 DEF Freed
<1>9. CASE Connect
  BY <1>1, <1>9 DEF Connect, Minded, Freed
<1>10. CASE LinkDrops
  BY <1>10 DEF LinkDrops, Session, Minded, board
<1>11. CASE Connected \/ Dropped
  <2>1. /\ UNCHANGED <<s_conn, radio, sounding, orphans, s_cmd_queue>>
        /\ radio => m_heldNotes' = m_heldNotes
    BY <1>11 DEF Connected, Dropped, setConnected, resetState, Session, board
  <2> QED BY <1>1, <2>1 DEF Minded
<1>12. ASSUME NEW f \in Commands, NEW r \in Seq(Frames), Send(f, r), f.op \notin {"on", "off"}
       PROVE  /\ orphans' = orphans
              /\ \/ s_cmd_queue' = s_cmd_queue
                 \/ \E g \in Commands : /\ g.op \notin {"on", "off"}
                                        /\ s_cmd_queue' = Append(s_cmd_queue, g)
  <2>1. Unsent(r) \/ Queued(f, r) \/ Rejected(f, r) \/ Forgone(f, r)
    BY <1>12, SendResult
  <2> QED BY <1>12, <2>1 DEF Unsent, Queued, Rejected, Forgone, Missed
<1>13. CASE App /\ ~Connected /\ ~Dropped
  <2>1. UNCHANGED <<s_conn, radio, m_heldNotes, sounding>>
    BY <1>13, LinkStays, AppLeaves DEF board
  <2>2. /\ List(m_listSeq + 1) \in Commands /\ List(m_listSeq + 1).op = "list"
        /\ Get(RequestRetries) \in Commands /\ Get(RequestRetries).op = "get"
        /\ m_setQueue \in Seq(Sets) /\ m_requestRetryQueue \in Seq(Gets)
        /\ \A f \in Sets \cup Gets : f \in Commands /\ f.op \notin {"on", "off"}
        /\ down \in Seq(Frames)
    <3>1. m_listSeq + 1 \in Nat
      BY DEF TypeOK, AppType
    <3>2. \A f \in Sets \cup Gets : f \in Commands /\ f.op \notin {"on", "off"}
      BY CommandTypes, CommandKinds
    <3> QED BY <3>1, <3>2, CommandTypes DEF TypeOK, WriteType, WireType, Get
  <2>3. orphans' = orphans
        /\ \/ s_cmd_queue' = s_cmd_queue
           \/ \E f \in Commands : /\ f.op \notin {"on", "off"}
                                  /\ s_cmd_queue' = Append(s_cmd_queue, f)
    <3>1. CASE FallbackFires \/ Watchdog
      BY <1>12, <2>2, <3>1 DEF FallbackFires, Watchdog, beginDiscovery, Hear
    <3>2. CASE finishDiscovery \/ flushPendingSets
      BY <3>2 DEF finishDiscovery, flushPendingSets
    <3>3. CASE handleParamValues \/ onSetBusy \/ onRequestBusy
      BY <3>3 DEF handleParamValues, onSetBusy, onRequestBusy, Hear
    <3>4. CASE handleEngineEvent \/ onParamListComplete
      <4>1. Tail(down) \in Seq(Frames)
        BY <3>4, HeardIs DEF handleEngineEvent, onParamListComplete
      <4> QED BY <1>12, <2>2, <3>4, <4>1
              DEF handleEngineEvent, onParamListComplete, beginDiscovery, Hear
    <3>5. CASE drainRequestRetryQueue
      <4>1. Head(m_requestRetryQueue) \in Gets
        BY <2>2, <3>5, TailIn DEF drainRequestRetryQueue
      <4> QED BY <1>12, <2>2, <3>5, <4>1 DEF drainRequestRetryQueue
    <3>6. CASE drainSetQueue
      <4>1. Head(m_setQueue) \in Sets
        BY <2>2, <3>6, TailIn DEF drainSetQueue
      <4> QED BY <1>12, <2>2, <3>6, <4>1 DEF drainSetQueue
    <3> QED BY <1>13, <3>1, <3>2, <3>3, <3>4, <3>5, <3>6 DEF App, Hears
  <2> QED BY <1>4, <2>1, <2>3
<1>14. ASSUME NEW k \in Notes, noteOn(k)
       PROVE  \A n \in Notes \ orphans' : Minded(n)' \/ Freed(n, s_cmd_queue', sounding')
  <2> SUFFICES ASSUME NEW n \in Notes \ orphans'
               PROVE  Minded(n)' \/ Freed(n, s_cmd_queue', sounding')
    OBVIOUS
  <2> DEFINE f == Note("on", k)
  <2>1. /\ m_heldNotes' = m_heldNotes \cup {k} /\ UNCHANGED <<s_conn, radio, sounding>>
        /\ f \in Commands /\ f.op = "on" /\ down \in Seq(Frames) /\ Send(f, down)
    BY <1>14, CommandTypes DEF noteOn, board, TypeOK, WireType
  <2>2. \/ ~Sendable /\ Unsent(down)
        \/ Sendable /\ (Queued(f, down) \/ Rejected(f, down) \/ Forgone(f, down))
    BY <2>1, SendResult
  <2> HIDE DEF f
  <2>3. orphans' = orphans
    BY <2>1, <2>2 DEF Unsent, Queued, Rejected, Forgone, Missed
  <2>4. CASE Minded(n)
    BY <2>1, <2>4 DEF Minded
  <2>5. CASE Freed(n, s_cmd_queue, sounding) /\ ~Queued(f, down)
    BY <2>1, <2>2, <2>5 DEF Unsent, Rejected, Forgone, Freed
  <2>6. CASE Freed(n, s_cmd_queue, sounding) /\ Queued(f, down) /\ Sendable
    <3>1. CASE n = k
      BY <2>1, <2>6, <3>1 DEF Minded, Sendable, Session
    <3>2. CASE n # k
      <4>1. f # Note("on", n)
        BY <3>2 DEF f, Note
      <4>2. s_cmd_queue' = Append(s_cmd_queue, f)
        BY <2>6 DEF Queued
      <4>3. Behind(s_cmd_queue', n)
        BY <1>3, <2>1, <2>6, <4>1, <4>2, BehindAppend DEF Freed
      <4>4. n \in sounding' => Note("off", n) \in Elems(s_cmd_queue')
        BY <1>3, <2>1, <2>6, <4>2, ElemsAppend DEF Freed
      <4> QED BY <4>3, <4>4 DEF Freed
    <3> QED BY <3>1, <3>2
  <2>7. ~Sendable => ~Queued(f, down)
    <3>1. ASSUME Unsent(down), Queued(f, down) PROVE FALSE
      <4>1. Len(Append(s_cmd_queue, f)) = Len(s_cmd_queue) + 1 /\ Len(s_cmd_queue) \in Nat
        BY <1>3, <2>1
      <4>2. Append(s_cmd_queue, f) = s_cmd_queue
        BY <3>1 DEF Unsent, Queued
      <4> QED BY <4>1, <4>2
    <3> QED BY <2>2, <3>1
  <2> QED BY <1>1, <2>3, <2>4, <2>5, <2>6, <2>7
<1>15. ASSUME NEW k \in Notes, noteOff(k)
       PROVE  \A n \in Notes \ orphans' : Minded(n)' \/ Freed(n, s_cmd_queue', sounding')
  <2> SUFFICES ASSUME NEW n \in Notes \ orphans'
               PROVE  Minded(n)' \/ Freed(n, s_cmd_queue', sounding')
    OBVIOUS
  <2> DEFINE f == Note("off", k)
  <2>1. /\ m_heldNotes' = m_heldNotes \ {k} /\ UNCHANGED <<s_conn, radio, sounding>>
        /\ f \in Commands /\ f.op = "off" /\ f.note = k /\ down \in Seq(Frames)
        /\ Send(f, down) /\ k \in m_heldNotes
    BY <1>15, CommandTypes DEF noteOff, board, TypeOK, WireType
  <2>2. \/ ~Sendable /\ Unsent(down)
        \/ Sendable /\ (Queued(f, down) \/ Rejected(f, down) \/ Forgone(f, down))
    BY <2>1, SendResult
  <2>3. CASE ~Sendable /\ Unsent(down)
    <3>1. ~radio
      BY <2>1, <2>3 DEF Sendable, Session
    <3> QED BY <1>1, <2>1, <2>3, <3>1 DEF Unsent, Minded
  <2>4. CASE Sendable /\ (Rejected(f, down) \/ Forgone(f, down))
    <3>1. s_cmd_queue' = s_cmd_queue /\ orphans' = orphans \cup {k}
      BY <2>1, <2>4 DEF Rejected, Forgone, Missed
    <3> QED BY <1>1, <2>1, <3>1 DEF Minded
  <2>5. CASE Queued(f, down)
    <3>1. s_cmd_queue' = Append(s_cmd_queue, f) /\ orphans' = orphans
      BY <2>5 DEF Queued
    <3>2. CASE n = k
      <4>1. Behind(s_cmd_queue', n)
        BY <1>3, <2>1, <3>1, <3>2, BehindAppend
      <4>2. Note("off", n) \in Elems(s_cmd_queue')
        BY <1>3, <2>1, <3>1, <3>2, ElemsAppend
      <4> QED BY <4>1, <4>2 DEF Freed
    <3>3. CASE n # k
      <4>1. CASE Minded(n)
        BY <2>1, <3>3, <4>1 DEF Minded
      <4>2. CASE Freed(n, s_cmd_queue, sounding)
        <5>1. f # Note("on", n)
          BY DEF Note
        <5>2. Behind(s_cmd_queue', n)
          BY <1>3, <2>1, <3>1, <4>2, <5>1, BehindAppend DEF Freed
        <5>3. n \in sounding' => Note("off", n) \in Elems(s_cmd_queue')
          BY <1>3, <2>1, <3>1, <4>2, ElemsAppend DEF Freed
        <5> QED BY <5>2, <5>3 DEF Freed
      <4> QED BY <1>1, <3>1, <4>1, <4>2
    <3> QED BY <3>2, <3>3
  <2> QED BY <2>2, <2>3, <2>4, <2>5
<1>16. ASSUME NEW p \in Params, NEW v \in Values,
              SetParam(p, v) \/ setParam(p, v) \/ setParamNow(p, v)
       PROVE  \A n \in Notes \ orphans' : Minded(n)' \/ Freed(n, s_cmd_queue', sounding')
  BY <1>4, <1>16 DEF SetParam, setParam, setParamNow, Shown, app, board
<1>17. ASSUME NEW e \in Engines, EngineSwitched(e)
       PROVE  \A n \in Notes \ orphans' : Minded(n)' \/ Freed(n, s_cmd_queue', sounding')
  BY <1>4, <1>17 DEF EngineSwitched, app
<1> QED BY <1>5, <1>6, <1>7, <1>8, <1>9, <1>10, <1>11, <1>13, <1>14, <1>15, <1>16, <1>17
        DEF Next, Synth, Host, People

-----------------------------------------------------------------------------
(* What is on its way. *)

(* A write or a report is in one of the queues. *)
Wanted(p)   == \/ p \in DOMAIN m_pendingSets
               \/ In(m_setQueue, Writing(p))
               \/ In(down, Refusing(Writing(p)))
               \/ In(s_cmd_queue, Writing(p))
Reported(p) == \/ p \in marking \cup s_dirty \cup flush.taken
               \/ m_discovering = "list" \/ AskOnWay
               \/ In(down, Telling(p))
Found == TypeOK => \A p \in Params : /\ WriteOnWay(p) <=> Wanted(p)
                                     /\ ReportOnWay(p) <=> Reported(p)

(* That is what the two histories of the model look for. *)
LEMMA OnWay == Found
<1> SUFFICES ASSUME TypeOK, NEW p \in Params
             PROVE  (WriteOnWay(p) <=> Wanted(p)) /\ (ReportOnWay(p) <=> Reported(p))
  BY DEF Found
<1>1. /\ s_cmd_queue \in Seq(Commands) /\ down \in Seq(Frames)
      /\ m_setQueue \in Seq(Sets) /\ m_requestRetryQueue \in Seq(Gets)
  BY DEF TypeOK, WireType, WriteType
<1>2. /\ \A i \in DOMAIN s_cmd_queue : s_cmd_queue[i] \in Commands
      /\ \A i \in DOMAIN down : down[i] \in Frames
      /\ \A i \in DOMAIN m_setQueue : m_setQueue[i] \in Sets
      /\ \A i \in DOMAIN m_requestRetryQueue : m_requestRetryQueue[i] \in Gets
  BY <1>1
<1>3. m_requestRetryQueue # <<>> <=> \E i \in DOMAIN m_requestRetryQueue : TRUE
  <2>1. m_requestRetryQueue # <<>> => 1 \in DOMAIN m_requestRetryQueue
    BY <1>1
  <2>2. m_requestRetryQueue = <<>> => DOMAIN m_requestRetryQueue = {}
    OBVIOUS
  <2> QED BY <2>1, <2>2
<1>4. /\ \A f \in Commands : /\ p \in Writes(f) <=> f \in Writing(p)
                             /\ p \in Tells(f) <=> f \in Asking
      /\ \A f \in Frames : p \in Tells(f) <=> f \in Telling(p)
      /\ \A f \in Sets : f \in Commands
      /\ \A f \in Gets : p \in Tells(f)
  <2>1. \A f \in Commands : /\ p \in Writes(f) <=> f \in Writing(p)
                            /\ p \in Tells(f) <=> f \in Asking
    BY CommandKinds DEF Writes, Tells, Writing, Asking
  <2>2. \A f \in Frames : p \in Tells(f) <=> f \in Telling(p)
    BY DEF Frames, Tells, Telling
  <2> QED BY <2>1, <2>2, CommandTypes, CommandKinds DEF Tells
<1>5. \A i \in DOMAIN down : down[i].op = "busy" => down[i].of \in Commands
  BY <1>2, FrameKinds
<1>6. /\ (\E f \in Refused : p \in Writes(f)) <=> In(down, Refusing(Writing(p)))
      /\ (\E f \in Refused : p \in Tells(f)) <=> In(down, Refusing(Asking))
  BY <1>2, <1>4, <1>5 DEF Refused, In, Refusing
<1>7. /\ (\E f \in Elems(s_cmd_queue) : p \in Writes(f)) <=> In(s_cmd_queue, Writing(p))
      /\ (\E f \in Elems(s_cmd_queue) : p \in Tells(f)) <=> In(s_cmd_queue, Asking)
      /\ (\E f \in Elems(m_setQueue) : p \in Writes(f)) <=> In(m_setQueue, Writing(p))
      /\ (\E f \in Elems(down) : p \in Tells(f)) <=> In(down, Telling(p))
      /\ (\E f \in Elems(m_requestRetryQueue) : p \in Tells(f)) <=> m_requestRetryQueue # <<>>
  BY <1>2, <1>4, <1>3 DEF Elems, In
<1> QED BY <1>6, <1>7, Zenon DEF WriteOnWay, ReportOnWay, Unheard, AskOnWay, Wanted, Reported

(* The same of the state a step leads to. *)
LEMMA OnWayNext ==
  TypeOK' => \A p \in Params : /\ WriteOnWay(p)' <=> Wanted(p)'
                               /\ ReportOnWay(p)' <=> Reported(p)'
<1>1. Found'
  BY OnWay, PTL
<1> QED BY <1>1 DEF Found

-----------------------------------------------------------------------------
(* What a step leaves as it was. *)

(* A queue that moved, or grew, by a frame of another kind says the same.     *)
Same(s, t, G, p) == /\ In(t, G) <=> In(s, G)
                    /\ \A v : Last(s, G, p, v) => Last(t, G, p, v)

(* A queue says what it says. *)
LEMMA SameStays == \A s, G, p : Same(s, s, G, p)
BY DEF Same

(* Two such moves make one. *)
LEMMA SameAfter ==
  \A s, t, u, G, p : Same(s, t, G, p) /\ Same(t, u, G, p) => Same(s, u, G, p)
BY Zenon DEF Same

(* Taking a frame of another kind is such a move. *)
LEMMA SameTail ==
  ASSUME NEW F, NEW s \in Seq(F), s # <<>>, NEW G, NEW p, Head(s) \notin G
  PROVE  Same(s, Tail(s), G, p)
<1> DEFINE t == Tail(s)
<1>1. In(s, G) <=> In(t, G)
  BY TailIn
<1>2. \A v : Last(s, G, p, v) => Last(t, G, p, v)
  BY TailLast
<1> HIDE DEF t
<1>3. Same(s, t, G, p)
  BY <1>1, <1>2 DEF Same
<1> QED BY <1>3 DEF t

(* So is putting one behind. *)
LEMMA SameAppend ==
  ASSUME NEW F, NEW s \in Seq(F), NEW f \in F, NEW G, NEW p, f \notin G
  PROVE  Same(s, Append(s, f), G, p)
<1> DEFINE t == Append(s, f)
<1>1. In(t, G) <=> In(s, G)
  BY AppendIn
<1>2. \A v : Last(s, G, p, v) => Last(t, G, p, v)
  BY AppendLast
<1> HIDE DEF t
<1>3. Same(s, t, G, p)
  BY <1>1, <1>2 DEF Same
<1> QED BY <1>3 DEF t

(* So is putting one in front. *)
LEMMA SamePrepend ==
  ASSUME NEW F, NEW s \in Seq(F), NEW f \in F, NEW G, NEW p, f \notin G
  PROVE  Same(s, <<f>> \o s, G, p)
<1> DEFINE t == <<f>> \o s
<1>1. In(t, G) <=> In(s, G)
  BY PrependIn
<1>2. \A v : Last(s, G, p, v) => Last(t, G, p, v)
  BY PrependLast
<1> HIDE DEF t
<1>3. Same(s, t, G, p)
  BY <1>1, <1>2 DEF Same
<1> QED BY <1>3 DEF t

(* Of the synth, of the application, and of what is between them.            *)
SynthStays(p) == /\ store'[p] = store[p]
                 /\ p \in marking' \cup s_dirty' <=> p \in marking \cup s_dirty
                 /\ \/ flush' = flush
                    \/ {flush.pc, flush'.pc} \cap {"read", "send"} = {}
WishStays(p)  == /\ m_params'[p] = m_params[p]
                 /\ p \in DOMAIN m_pendingSets' <=> p \in DOMAIN m_pendingSets
                 /\ p \in DOMAIN m_pendingSets => m_pendingSets'[p] = m_pendingSets[p]
                 /\ Same(m_setQueue, m_setQueue', Writing(p), p)
SentStays(p)  == /\ Same(s_cmd_queue, s_cmd_queue', Writing(p), p)
                 /\ Same(down, down', Refusing(Writing(p)), p)
ToldStays(p)  == /\ Same(down, down', Telling(p), p)
                 /\ AskOnWay' <=> AskOnWay

(* A write that has been pushed stays so where nothing is done to it.        *)
LEMMA PushedStays ==
  ASSUME NEW p \in Params, WishStays(p), SentStays(p)
  PROVE  /\ Wanted(p)' <=> Wanted(p)
         /\ Pushed(p) => Pushed(p)'
<1>1. Wanted(p)' <=> Wanted(p)
  BY DEF Wanted, WishStays, SentStays, Same
<1>2. Pushed(p) => Pushed(p)'
  BY DEF Pushed, WishStays, SentStays, Same
<1> QED BY <1>1, <1>2

(* What a step leaves of the reports leaves what they still have to say. *)
LEMMA ToldHolds ==
  ASSUME NEW p \in Params, Taken, Taken', SynthStays(p), ToldStays(p), m_params'[p] = m_params[p]
  PROVE  /\ Coming(p) => Coming(p)'
         /\ Told(p) => Told(p)'
         /\ Reported(p)' /\ m_discovering' # "list" => Reported(p)
<1>1. \/ flush' = flush
      \/ /\ flush.pc \notin {"read", "send"} /\ flush'.pc \notin {"read", "send"}
         /\ flush.taken = {} /\ flush'.taken = {}
  BY DEF SynthStays, Taken
<1>2. Coming(p) => Coming(p)'
  BY <1>1 DEF Coming, SynthStays, ToldStays
<1>3. Told(p) => Told(p)'
  BY <1>1 DEF Told, SynthStays, ToldStays, Same
<1>4. Reported(p)' /\ m_discovering' # "list" => Reported(p)
  BY <1>1 DEF Reported, SynthStays, ToldStays, Same
<1> QED BY <1>2, <1>3, <1>4

(* What has been pushed is on its way. *)
LEMMA PushedWanted == ASSUME NEW p \in Params, Pushed(p) PROVE Wanted(p)
BY LastIsIn DEF Pushed, Wanted

(* The types and the rest of the invariant, before and after a step. *)
Sound == TypeOK /\ TypeOK' /\ Session /\ Taken /\ Taken' /\ Alone
More  == /\ Syncing' => Syncing
         /\ Greeted' => Greeted
         /\ crossed \subseteq crossed' /\ lost \subseteq lost'

(* Nothing is done to p. *)
LEMMA AllStays ==
  ASSUME Sound, NEW p \in Params, Parted(p), Known(p), More,
         SynthStays(p), WishStays(p), SentStays(p), ToldStays(p),
         m_discovering' = "list" => m_discovering = "list"
  PROVE  Parted(p)' /\ Known(p)'
<1>1. /\ Wanted(p)' <=> Wanted(p)
      /\ Pushed(p) => Pushed(p)'
  BY PushedStays
<1>2. /\ Coming(p) => Coming(p)'
      /\ Told(p) => Told(p)'
      /\ Reported(p)' /\ m_discovering' # "list" => Reported(p)
  BY ToldHolds DEF Sound, WishStays
<1>3. /\ WriteOnWay(p) <=> Wanted(p)
      /\ ReportOnWay(p) <=> Reported(p)
      /\ WriteOnWay(p)' <=> Wanted(p)'
      /\ ReportOnWay(p)' <=> Reported(p)'
  BY OnWay, OnWayNext DEF Sound, Found
<1>4. m_discovering = "list" => Reported(p)
  BY DEF Reported
<1>5. Parted(p)'
  BY <1>1, <1>2, <1>3, <1>4 DEF Parted, More
<1>6. Known(p)'
  BY <1>1, <1>2, <1>3 DEF Known, Fine, More
<1> QED BY <1>5, <1>6

(* The kinds of frames, of those that are sent and of those that are told.   *)
LEMMA Kinds ==
  ASSUME NEW p
  PROVE  /\ \A f \in Commands : /\ f \in Writing(p) <=> f.op = "set" /\ p \in DOMAIN f.vals
                                /\ f \in Asking <=> f.op = "get"
         /\ \A f \in Frames : f \in Telling(p) <=> f.op = "params" /\ p \in DOMAIN f.vals
         /\ \A f \in Frames : \A C : f \in Refusing(C) <=> f.op = "busy" /\ f.of \in C
BY DEF Writing, Asking, Telling, Refusing

(* What hearing a frame leaves.                                              *)
LEMMA HeadStays ==
  ASSUME TypeOK, NEW p, NEW op, Heard(op)
  PROVE  /\ op # "params" => Same(down, Tail(down), Telling(p), p)
         /\ \A C : op # "busy" \/ Head(down).of \notin C => Same(down, Tail(down), Refusing(C), p)
<1>1. down # <<>> /\ down \in Seq(Frames) /\ Head(down) \in Frames /\ Head(down).op = op
  BY HeardIs DEF TypeOK, WireType
<1>2. op # "params" => Head(down) \notin Telling(p)
  BY <1>1, Kinds
<1>3. \A C : op # "busy" \/ Head(down).of \notin C => Head(down) \notin Refusing(C)
  BY <1>1, Kinds
<1>4. \A G : Head(down) \notin G => Same(down, Tail(down), G, p)
  BY <1>1, SameTail
<1> QED BY <1>2, <1>3, <1>4

(* What telling a frame leaves.                                              *)
LEMMA TellStays ==
  ASSUME TypeOK, NEW p, NEW f \in Frames, down' = down \/ down' = Append(down, f), f.op # "busy"
  PROVE  /\ \A C : Same(down, down', Refusing(C), p)
         /\ f \notin Telling(p) => Same(down, down', Telling(p), p)
<1>1. down \in Seq(Frames)
  BY DEF TypeOK, WireType
<1>2. \A C : f \notin Refusing(C)
  BY Kinds
<1>3. \A G : f \notin G => Same(down, Append(down, f), G, p)
  BY <1>1, SameAppend
<1>4. ASSUME NEW G, f \notin G PROVE Same(down, down', G, p)
  <2>1. Same(down, down, G, p) /\ Same(down, Append(down, f), G, p)
    BY <1>3, <1>4, SameStays
  <2>2. CASE down' = down
    BY <2>1, <2>2, Zenon
  <2>3. CASE down' = Append(down, f)
    BY <2>1, <2>3, Zenon
  <2> QED BY <2>2, <2>3
<1> QED BY <1>2, <1>4

(* What running a command leaves.                                            *)
LEMMA RunStays ==
  ASSUME TypeOK, NEW p, s_cmd_queue # <<>>
  PROVE  \A G : Head(s_cmd_queue) \notin G => Same(s_cmd_queue, Tail(s_cmd_queue), G, p)
<1>1. s_cmd_queue \in Seq(Commands)
  BY DEF TypeOK, WireType
<1> QED BY <1>1, SameTail

(* What sending a command leaves, once all but r has been heard.             *)
LEMMA SendStays ==
  ASSUME TypeOK, NEW p, NEW f \in Commands, NEW r \in Seq(Frames), Send(f, r)
  PROVE  /\ Same(r, down', Telling(p), p)
         /\ \A C : f \notin C => /\ Same(s_cmd_queue, s_cmd_queue', C, p)
                                 /\ Same(r, down', Refusing(C), p)
         /\ lost \subseteq lost'
<1>1. \/ ~Sendable /\ Unsent(r)
      \/ Sendable /\ (Queued(f, r) \/ Rejected(f, r) \/ Forgone(f, r))
  BY SendResult
<1>2. Busy(f) \in Frames /\ Busy(f).op = "busy" /\ Busy(f).of = f
  BY FrameTypes
<1>3. Busy(f) \notin Telling(p) /\ \A C : f \notin C => Busy(f) \notin Refusing(C)
  BY <1>2, Kinds
<1>4. /\ \A G : Busy(f) \notin G => Same(r, Append(r, Busy(f)), G, p)
      /\ \A C : f \notin C => Same(s_cmd_queue, Append(s_cmd_queue, f), C, p)
  BY <1>2, SameAppend DEF TypeOK, WireType
<1> DEFINE t == Append(r, Busy(f))
           u == Append(s_cmd_queue, f)
<1>5. (down' = r \/ down' = t) /\ (s_cmd_queue' = s_cmd_queue \/ s_cmd_queue' = u)
  BY <1>1 DEF Unsent, Queued, Rejected, Forgone
<1>6. /\ \A G : Busy(f) \notin G => Same(r, t, G, p)
      /\ \A C : f \notin C => Same(s_cmd_queue, u, C, p)
  BY <1>4
<1> HIDE DEF t, u
<1>7. \A G : Busy(f) \notin G => Same(r, down', G, p)
  <2>1. CASE down' = r
    BY <2>1, SameStays, Zenon
  <2>2. CASE down' = t
    BY <1>6, <2>2, Zenon
  <2> QED BY <1>5, <2>1, <2>2
<1>8. Same(r, down', Telling(p), p)
  BY <1>3, <1>7
<1>9. \A C : f \notin C => Same(r, down', Refusing(C), p)
  BY <1>3, <1>7
<1>10. \A C : f \notin C => Same(s_cmd_queue, s_cmd_queue', C, p)
  <2>1. CASE s_cmd_queue' = s_cmd_queue
    BY <2>1, SameStays, Zenon
  <2>2. CASE s_cmd_queue' = u
    BY <1>6, <2>2, Zenon
  <2> QED BY <1>5, <2>1, <2>2
<1>11. lost \subseteq lost'
  BY <1>1 DEF Unsent, Queued, Rejected, Forgone
<1> QED BY <1>8, <1>9, <1>10, <1>11, Zenon

(* The same, of what was heard and of what is then told.                     *)
LEMMA SendOn ==
  ASSUME TypeOK, NEW p, NEW f \in Commands, NEW r \in Seq(Frames), Send(f, r),
         f \notin Writing(p), Same(down, r, Refusing(Writing(p)), p), Same(down, r, Telling(p), p)
  PROVE  /\ SentStays(p) /\ Same(down, down', Telling(p), p) /\ lost \subseteq lost'
         /\ f \notin Asking /\ Same(down, r, Refusing(Asking), p) /\ UNCHANGED m_requestRetryQueue
              => (AskOnWay' <=> AskOnWay)
<1>1. /\ Same(r, down', Telling(p), p)
      /\ \A C : f \notin C => /\ Same(s_cmd_queue, s_cmd_queue', C, p)
                              /\ Same(r, down', Refusing(C), p)
      /\ lost \subseteq lost'
  BY SendStays
<1>2. Same(down, down', Telling(p), p) /\ Same(down, down', Refusing(Writing(p)), p)
  BY <1>1, SameAfter
<1>3. f \notin Asking /\ Same(down, r, Refusing(Asking), p) /\ UNCHANGED m_requestRetryQueue
        => (AskOnWay' <=> AskOnWay)
  BY <1>1 DEF AskOnWay, Same
<1> QED BY <1>1, <1>2, <1>3 DEF SentStays

(* Nothing is sent.                                                          *)
LEMMA HearOn ==
  ASSUME NEW p, NEW r, Hear(r),
         Same(down, r, Refusing(Writing(p)), p), Same(down, r, Telling(p), p)
  PROVE  /\ SentStays(p) /\ Same(down, down', Telling(p), p) /\ lost \subseteq lost'
         /\ Same(down, r, Refusing(Asking), p) /\ UNCHANGED m_requestRetryQueue
              => (AskOnWay' <=> AskOnWay)
<1>1. down' = r /\ UNCHANGED <<s_cmd_queue, lost>>
  BY DEF Hear
<1>2. Same(down, r, Refusing(Asking), p) /\ UNCHANGED m_requestRetryQueue
         => (AskOnWay' <=> AskOnWay)
  BY <1>1 DEF AskOnWay, Same
<1> QED BY <1>1, <1>2, SameStays DEF SentStays

-----------------------------------------------------------------------------
(* The synth's own steps. *)

(* The application and the radio are as they were. *)
LEMMA AppStays ==
  ASSUME UNCHANGED <<app, radio>>, NEW p
  PROVE  /\ WishStays(p) /\ (Syncing' => Syncing) /\ (Greeted' => Greeted)
         /\ UNCHANGED <<m_discovering, m_requestRetryQueue, m_params>>
<1> USE DEF app, sync, wish
<1>1. Same(m_setQueue, m_setQueue, Writing(p), p)
  BY SameStays
<1>2. WishStays(p)
  BY <1>1 DEF WishStays
<1> QED BY <1>2 DEF Syncing, Greeted, Sendable

(* The synth is as it was. *)
LEMMA BoardStays == ASSUME UNCHANGED board, NEW p PROVE SynthStays(p)
BY DEF board, SynthStays

(* A frame is handled: a write is stored, and reported by nothing; a value    *)
(* read tells everything; a list and a note say nothing of a value.          *)
LEMMA SettledHandle ==
  ASSUME Sound, HandleFrame, NEW p \in Params, Parted(p), Known(p)
  PROVE  Parted(p)' /\ Known(p)'
<1> DEFINE f == Head(s_cmd_queue)
           t == Tail(s_cmd_queue)
<1>1. /\ TypeOK /\ s_cmd_queue \in Seq(Commands) /\ s_cmd_queue # <<>> /\ s_cmd_queue' = t
      /\ flush.pc = "wait" /\ UNCHANGED <<marking, s_dirty, flush, radio, app, crossed>>
      /\ HandleSet(f) \/ HandleGet(f) \/ HandleList(f) \/ HandleNote(f)
  BY DEF HandleFrame, Sound, TypeOK, WireType
<1>2. f \in Commands /\ t \in Seq(Commands)
  BY <1>1, TailIn
<1>3. \A G : f \notin G => Same(s_cmd_queue, t, G, p)
  BY <1>1, RunStays
<1>4. /\ WishStays(p) /\ (Syncing' => Syncing) /\ (Greeted' => Greeted)
      /\ UNCHANGED <<m_discovering, m_requestRetryQueue, m_params>>
  BY <1>1, AppStays
<1>5. lost \subseteq lost' /\ More
  <2>1. lost \subseteq lost'
    BY <1>1 DEF HandleSet, HandleGet, HandleList, HandleNote, Reply
  <2> QED BY <1>1, <1>4, <2>1 DEF More
<1>6. /\ WriteOnWay(p) <=> Wanted(p)
      /\ ReportOnWay(p) <=> Reported(p)
      /\ WriteOnWay(p)' <=> Wanted(p)'
      /\ ReportOnWay(p)' <=> Reported(p)'
  BY OnWay, OnWayNext DEF Sound, Found
<1>7. /\ f \in Writing(p) <=> f.op = "set" /\ p \in DOMAIN f.vals
      /\ f \in Asking <=> f.op = "get"
  BY <1>2, Kinds
<1>8. \A G : Same(down, down, G, p)
  BY SameStays
<1> HIDE DEF f, t
<1>9. CASE f.op = "set"
  <2>1. store' = Over(f.vals, store) /\ UNCHANGED <<down, lost>>
    BY <1>1, <1>9 DEF HandleSet, HandleGet, HandleList, HandleNote
  <2>2. f.vals \in Partial(Params, Values) /\ store \in [Params -> Values]
    BY <1>1, <1>2, <1>9, CommandKinds DEF TypeOK, SynthType
  <2>3. store'[p] = IF p \in DOMAIN f.vals THEN f.vals[p] ELSE store[p]
    <3>1. Values \subseteq Values
      OBVIOUS
    <3>2. Over(f.vals, store)[p] = IF p \in DOMAIN f.vals THEN f.vals[p] ELSE store[p]
      BY <2>2, <3>1, OverIs
    <3> QED BY <2>1, <3>2
  <2>4. AskOnWay' <=> AskOnWay
    BY <1>1, <1>3, <1>4, <1>7, <1>9, <2>1 DEF AskOnWay, Same
  <2>5. ToldStays(p)
    BY <1>8, <2>1, <2>4 DEF ToldStays
  <2>6. CASE f \notin Writing(p)
    <3>1. SentStays(p)
      BY <1>1, <1>3, <1>8, <2>1, <2>6 DEF SentStays
    <3>2. SynthStays(p)
      BY <1>1, <1>7, <1>9, <2>3, <2>6 DEF SynthStays
    <3> QED BY <1>4, <1>5, <2>5, <3>1, <3>2, AllStays
  <2>7. CASE f \in Writing(p)
    <3>1. store'[p] = f.vals[p]
      BY <1>7, <2>3, <2>7
    <3>2. In(s_cmd_queue, Writing(p)) /\ (In(t, Writing(p)) => In(s_cmd_queue, Writing(p)))
      BY <1>1, <2>7, TailIn DEF f, t
    <3>3. Wanted(p)' => Wanted(p)
      BY <1>1, <1>4, <2>1, <3>2 DEF Wanted, WishStays, Same
    <3>4. Reported(p)' => Reported(p)
      BY <1>1, <1>4, <2>1, <2>4 DEF Reported
    <3>5. Parted(p)'
      BY <1>5, <1>6, <3>3, <3>4 DEF Parted, More
    <3>6. ASSUME Greeted, p \notin crossed \cup lost PROVE Fine(p)'
      <4>1. Wanted(p) /\ ~Reported(p)
        BY <1>6, <3>2, <3>6 DEF Wanted, Parted, Syncing, Greeted
      <4>2. Pushed(p)
        BY <1>6, <3>6, <4>1 DEF Known, Fine
      <4>3. CASE p \in DOMAIN m_pendingSets
        BY <1>4, <4>2, <4>3 DEF Fine, Pushed, WishStays
      <4>4. CASE p \notin DOMAIN m_pendingSets /\ In(m_setQueue, Writing(p))
        BY <1>4, <4>2, <4>4 DEF Fine, Pushed, WishStays, Same
      <4>5. CASE /\ p \notin DOMAIN m_pendingSets /\ ~In(m_setQueue, Writing(p))
                 /\ In(down, Refusing(Writing(p)))
        BY <1>4, <2>1, <4>5 DEF Fine, Pushed, WishStays, Same
      <4>6. CASE /\ p \notin DOMAIN m_pendingSets /\ ~In(m_setQueue, Writing(p))
                 /\ ~In(down, Refusing(Writing(p)))
        <5>1. p \notin DOMAIN m_pendingSets' /\ ~In(m_setQueue', Writing(p))
              /\ ~In(down', Refusing(Writing(p)))
          BY <1>4, <2>1, <4>6 DEF WishStays, Same
        <5>2. Last(s_cmd_queue, Writing(p), p, m_params[p])
          BY <4>2, <4>6 DEF Pushed
        <5>3. /\ In(t, Writing(p)) => Last(t, Writing(p), p, m_params[p])
              /\ ~In(t, Writing(p)) => f.vals[p] = m_params[p]
          BY <1>1, <5>2, TailLast DEF f, t
        <5>4. CASE In(t, Writing(p))
          <6>1. Last(s_cmd_queue', Writing(p), p, m_params'[p])
            BY <1>1, <1>4, <5>3, <5>4
          <6> QED BY <5>1, <6>1 DEF Fine, Pushed
        <5>5. CASE ~In(t, Writing(p))
          <6>1. ~Wanted(p)'
            BY <1>1, <5>1, <5>5 DEF Wanted
          <6>2. m_params'[p] = store'[p]
            BY <1>4, <3>1, <5>3, <5>5
          <6>3. p \notin flush'.taken /\ ~In(down', Telling(p))
            BY <1>1, <2>1, <4>1 DEF Reported
          <6> QED BY <1>6, <6>1, <6>2, <6>3 DEF Fine, Told
        <5> QED BY <5>4, <5>5
      <4> QED BY <4>3, <4>4, <4>5, <4>6
    <3>7. Known(p)'
      BY <1>5, <3>6 DEF Known, More
    <3> QED BY <3>5, <3>7
  <2> QED BY <2>6, <2>7
<1>10. CASE f.op = "get"
  <2>1. Reply(Evt(store)) /\ UNCHANGED store
    BY <1>1, <1>10 DEF HandleSet, HandleGet, HandleList, HandleNote
  <2>2. store \in Partial(Params, Values) /\ DOMAIN store = Params
    BY <1>1, PartialIs DEF TypeOK, SynthType
  <2>3. Evt(store) \in Frames /\ Evt(store).op = "params" /\ Evt(store).vals = store
    BY <2>2, FrameTypes
  <2>4. Evt(store) \in Telling(p)
    BY <2>2, <2>3, Kinds
  <2>5. down' = down \/ down' = Append(down, Evt(store))
    BY <2>1 DEF Reply, Notify, Fails
  <2>6. Same(down, down', Refusing(Writing(p)), p) /\ Same(down, down', Refusing(Asking), p)
    BY <1>1, <2>3, <2>5, TellStays
  <2>7. Same(s_cmd_queue, s_cmd_queue', Writing(p), p)
    BY <1>1, <1>3, <1>7, <1>10
  <2>8. SentStays(p)
    BY <2>6, <2>7 DEF SentStays
  <2>9. /\ Wanted(p)' <=> Wanted(p)
        /\ Pushed(p) => Pushed(p)'
    BY <1>4, <2>8, PushedStays
  <2>10. Reported(p)
    <3>1. In(s_cmd_queue, Asking)
      BY <1>1, <1>7, <1>10, TailIn DEF f, t
    <3> QED BY <3>1 DEF Reported, AskOnWay
  <2>11. Parted(p)'
    BY <1>5, <1>6, <2>9, <2>10 DEF Parted, More
  <2>12. ASSUME Greeted, p \notin crossed \cup lost' PROVE Fine(p)'
    <3>1. Notify(Evt(store)) /\ radio
      <4>1. Tells(Evt(store)) = Params
        BY <2>2, <2>3 DEF Tells
      <4> QED BY <2>1, <2>12, <4>1 DEF Reply, Greeted, Sendable
    <3>2. down' = Append(down, Evt(store))
      BY <3>1 DEF Notify
    <3>3. Last(down', Telling(p), p, store[p]) /\ In(down', Telling(p))
      <4>1. Last(Append(down, Evt(store)), Telling(p), p, store[p])
        BY <1>1, <2>3, <2>4, AppendLast DEF TypeOK, WireType
      <4> QED BY <3>2, <4>1, LastIsIn
    <3>4. Told(p)'
      BY <1>1, <2>1, <3>3 DEF Told
    <3>5. Fine(p)
      BY <1>5, <2>12 DEF Known, More
    <3> QED BY <1>6, <2>9, <3>4, <3>5 DEF Fine
  <2>13. Known(p)'
    BY <1>1, <1>5, <2>12 DEF Known, More
  <2> QED BY <2>11, <2>13
<1>11. CASE f.op \in {"list", "on", "off"}
  <2>1. UNCHANGED store
    BY <1>1, <1>11 DEF HandleSet, HandleGet, HandleList, HandleNote
  <2>2. /\ \A C : Same(down, down', Refusing(C), p)
        /\ Same(down, down', Telling(p), p)
    <3>1. CASE f.op = "list"
      <4>1. Reply(Listing(f.seq, engine))
        BY <1>1, <3>1 DEF HandleSet, HandleGet, HandleList, HandleNote
      <4>2. Listing(f.seq, engine) \in Frames /\ Listing(f.seq, engine).op = "listing"
        BY <1>1, <1>2, <3>1, CommandKinds, FrameTypes DEF TypeOK, SynthType
      <4>3. Listing(f.seq, engine) \notin Telling(p)
        BY <4>2, Kinds
      <4>4. down' = down \/ down' = Append(down, Listing(f.seq, engine))
        BY <4>1 DEF Reply, Notify, Fails
      <4> QED BY <1>1, <4>2, <4>3, <4>4, TellStays
    <3>2. CASE f.op \in {"on", "off"}
      <4>1. down' = down
        BY <1>1, <3>2 DEF HandleSet, HandleGet, HandleList, HandleNote
      <4> QED BY <1>8, <4>1
    <3> QED BY <1>11, <3>1, <3>2
  <2>3. Same(s_cmd_queue, s_cmd_queue', Writing(p), p) /\ Same(s_cmd_queue, s_cmd_queue', Asking, p)
    BY <1>1, <1>3, <1>7, <1>11
  <2>4. SentStays(p)
    BY <2>2, <2>3 DEF SentStays
  <2>5. AskOnWay' <=> AskOnWay
    BY <1>4, <2>2, <2>3 DEF AskOnWay, Same
  <2>6. ToldStays(p)
    BY <2>2, <2>5 DEF ToldStays
  <2>7. SynthStays(p)
    BY <1>1, <2>1 DEF SynthStays
  <2> QED BY <1>4, <1>5, <2>4, <2>6, <2>7, AllStays
<1>12. f.op \in {"set", "get", "list", "on", "off"}
  BY <1>2, CommandKinds
<1> QED BY <1>9, <1>10, <1>11, <1>12

(* A change is marked; a pass announces the engine, takes what is marked,     *)
(* reads it, and reports it or marks it again.                               *)
LEMMA SettledFlush ==
  ASSUME Sound, Flush \/ \E q \in Params : param_listener(q), NEW p \in Params, Parted(p), Known(p)
  PROVE  Parted(p)' /\ Known(p)'
<1>1. /\ TypeOK /\ Taken /\ Taken' /\ Alone /\ flush \in Flushes /\ down \in Seq(Frames)
      /\ UNCHANGED <<store, app, radio, crossed, lost, s_cmd_queue>>
  BY DEF Sound, TypeOK, SynthType, WireType, Flush, FlushEngine, FlushAnnounced, FlushTake,
         FlushRead, FlushSend, Aside, param_listener, sent
<1>2. /\ WishStays(p) /\ (Syncing' => Syncing) /\ (Greeted' => Greeted)
      /\ UNCHANGED <<m_discovering, m_requestRetryQueue, m_params>>
  BY <1>1, AppStays
<1>3. More
  BY <1>1, <1>2 DEF More
<1>4. /\ WriteOnWay(p) <=> Wanted(p)
      /\ ReportOnWay(p) <=> Reported(p)
      /\ WriteOnWay(p)' <=> Wanted(p)'
      /\ ReportOnWay(p)' <=> Reported(p)'
  BY OnWay, OnWayNext DEF Sound, Found
<1>5. ASSUME NEW f \in Frames, down' = down \/ down' = Append(down, f), f.op # "busy"
      PROVE  /\ SentStays(p) /\ (AskOnWay' <=> AskOnWay)
             /\ f \notin Telling(p) => ToldStays(p)
  <2>1. /\ \A C : Same(down, down', Refusing(C), p)
        /\ f \notin Telling(p) => Same(down, down', Telling(p), p)
    BY <1>1, <1>5, TellStays
  <2>2. Same(s_cmd_queue, s_cmd_queue', Writing(p), p)
    BY <1>1, SameStays
  <2>3. AskOnWay' <=> AskOnWay
    BY <1>1, <1>2, <2>1 DEF AskOnWay, Same
  <2> QED BY <2>1, <2>2, <2>3 DEF SentStays, ToldStays
<1>6. ASSUME down' = down PROVE SentStays(p) /\ ToldStays(p) /\ (AskOnWay' <=> AskOnWay)
  <2>1. AskOnWay' <=> AskOnWay
    BY <1>1, <1>2, <1>6 DEF AskOnWay
  <2> QED BY <1>1, <1>6, <2>1, SameStays DEF SentStays, ToldStays
<1>7. ASSUME SentStays(p), Reported(p)' => Reported(p),
             Coming(p) \/ Told(p) => (Greeted => Coming(p)' \/ Told(p)')
      PROVE  Parted(p)' /\ Known(p)'
  <2>1. /\ Wanted(p)' <=> Wanted(p)
        /\ Pushed(p) => Pushed(p)'
    BY <1>2, <1>7, PushedStays
  <2> QED BY <1>1, <1>2, <1>3, <1>4, <1>7, <2>1 DEF Parted, Known, Fine, More
<1>8. CASE \E q \in Params : param_listener(q)
  <2>1. SynthStays(p) /\ down' = down
    BY <1>1, <1>8 DEF param_listener, SynthStays, sent
  <2> QED BY <1>2, <1>3, <1>6, <2>1, AllStays
<1>9. CASE FlushEngine
  <2>1. EvtEngine(engine) \in Frames /\ EvtEngine(engine).op = "engine"
    BY <1>1, FrameTypes DEF TypeOK, SynthType
  <2>2. EvtEngine(engine) \notin Telling(p)
    BY <2>1, Kinds
  <2>3. down' = down \/ down' = Append(down, EvtEngine(engine))
    BY <1>9 DEF FlushEngine, Notify, Fails
  <2>4. SentStays(p) /\ ToldStays(p)
    BY <1>5, <2>1, <2>2, <2>3
  <2>5. flush.pc = "wait" /\ flush'.pc \in {"announced", "take"} /\ s_dirty' = s_dirty
    BY <1>9 DEF FlushEngine, Unannounced, Idle
  <2>6. SynthStays(p)
    BY <1>1, <1>9, <2>5 DEF SynthStays, FlushEngine, Aside
  <2> QED BY <1>2, <1>3, <2>4, <2>6, AllStays
<1>10. CASE FlushAnnounced
  <2>1. flush.pc = "announced" /\ flush'.pc = "take" /\ UNCHANGED <<down, s_dirty, marking>>
    BY <1>1, <1>10 DEF FlushAnnounced, Flushes, Aside
  <2>2. SynthStays(p)
    BY <1>1, <2>1 DEF SynthStays
  <2> QED BY <1>2, <1>3, <1>6, <2>1, <2>2, AllStays
<1>11. CASE FlushTake
  <2>1. /\ flush.pc = "take" /\ flush.taken = {} /\ UNCHANGED <<down, marking>>
        /\ s_dirty' = {}
    BY <1>1, <1>11 DEF FlushTake, Aside, Taken
  <2>2. CASE flush.live /\ s_dirty # {}
    <3>1. flush'.pc = "read" /\ flush'.taken = s_dirty
      BY <1>1, <1>11, <2>2 DEF FlushTake, Flushes
    <3>2. Reported(p)' => Reported(p)
      BY <1>2, <1>6, <2>1, <3>1 DEF Reported
    <3>3. Coming(p) => Coming(p)'
      BY <1>6, <2>1, <3>1 DEF Coming
    <3>4. Told(p) => Told(p)'
      BY <1>1, <1>2, <2>1, <3>1 DEF Told
    <3> QED BY <1>6, <1>7, <2>1, <3>2, <3>3, <3>4
  <2>3. CASE ~(flush.live /\ s_dirty # {})
    <3>1. flush'.pc = "wait" /\ flush'.taken = {}
      BY <1>1, <1>11, <2>3 DEF FlushTake, Idle
    <3>2. Reported(p)' => Reported(p)
      BY <1>2, <1>6, <2>1, <3>1 DEF Reported
    <3>3. Greeted => s_dirty = {}
      BY <1>1, <2>1, <2>3 DEF Alone
    <3>4. Greeted /\ Coming(p) => Coming(p)'
      BY <1>6, <2>1, <3>3 DEF Coming
    <3>5. Told(p) => Told(p)'
      BY <1>1, <1>2, <2>1, <3>1 DEF Told
    <3> QED BY <1>6, <1>7, <2>1, <3>2, <3>4, <3>5
  <2> QED BY <2>2, <2>3
<1>12. CASE FlushRead
  <2>1. /\ flush.pc = "read" /\ flush'.pc = "send" /\ flush'.taken = flush.taken
        /\ flush'.vals = Only(store, flush.taken) /\ UNCHANGED <<down, s_dirty, marking>>
    BY <1>1, <1>12 DEF FlushRead, Flushes, Aside
  <2>2. p \in flush.taken => flush'.vals[p] = store[p]
    <3>1. DOMAIN store = Params
      BY <1>1 DEF TypeOK, SynthType
    <3>2. p \in flush.taken => Only(store, flush.taken)[p] = store[p]
      BY <3>1 DEF Only
    <3> QED BY <2>1, <3>2
  <2>3. Reported(p)' => Reported(p)
    BY <1>2, <1>6, <2>1 DEF Reported
  <2>4. CASE p \in flush.taken
    <3>1. Told(p)'
      BY <1>1, <2>1, <2>2, <2>4 DEF Told
    <3> QED BY <1>6, <1>7, <2>1, <2>3, <3>1
  <2>5. CASE p \notin flush.taken
    <3>1. Coming(p) => Coming(p)'
      BY <1>6, <2>1, <2>5 DEF Coming
    <3>2. Told(p) => Told(p)'
      BY <1>1, <1>2, <2>1, <2>5 DEF Told
    <3> QED BY <1>6, <1>7, <2>1, <2>3, <3>1, <3>2
  <2> QED BY <2>4, <2>5
<1>13. CASE FlushSend
  <2> DEFINE e == Evt(flush.vals)
  <2>1. /\ flush.pc = "send" /\ flush'.pc = "wait" /\ flush'.taken = {} /\ marking' = marking
        /\ flush.vals \in Partial(Params, Values) /\ DOMAIN flush.vals = flush.taken
    BY <1>1, <1>13 DEF FlushSend, Idle, Aside, Flushes, Taken
  <2>2. e \in Frames /\ e.op = "params" /\ e.vals = flush.vals
    BY <2>1, FrameTypes
  <2>3. e \in Telling(p) <=> p \in flush.taken
    BY <2>1, <2>2, Kinds
  <2>4. \/ Notify(e) /\ UNCHANGED s_dirty
        \/ UNCHANGED down /\ s_dirty' = s_dirty \cup flush.taken
    BY <1>13 DEF FlushSend, Fails, Rearmed
  <2> HIDE DEF e
  <2>5. CASE UNCHANGED down /\ s_dirty' = s_dirty \cup flush.taken
    <3>1. Reported(p)' => Reported(p)
      BY <1>2, <1>6, <2>1, <2>5 DEF Reported
    <3>2. Coming(p) => Coming(p)'
      BY <1>6, <2>1, <2>5 DEF Coming
    <3>3. p \in flush.taken => Coming(p)'
      BY <2>5 DEF Coming
    <3>4. p \notin flush.taken /\ Told(p) => Told(p)'
      BY <1>1, <1>2, <2>1, <2>5 DEF Told
    <3> QED BY <1>6, <1>7, <2>5, <3>1, <3>2, <3>3, <3>4
  <2>6. CASE Notify(e) /\ UNCHANGED s_dirty
    <3>1. down' = down \/ down' = Append(down, e)
      BY <2>6 DEF Notify
    <3>2. /\ SentStays(p) /\ (AskOnWay' <=> AskOnWay)
          /\ e \notin Telling(p) => ToldStays(p)
      BY <1>5, <2>2, <3>1
    <3>3. CASE p \notin flush.taken
      <4>1. Same(down, down', Telling(p), p)
        BY <2>3, <3>2, <3>3 DEF ToldStays
      <4>2. Reported(p)' => Reported(p)
        BY <1>2, <2>1, <2>6, <3>2, <4>1 DEF Reported, Same
      <4>3. Coming(p) => Coming(p)'
        BY <2>1, <2>6, <3>2, <3>3 DEF Coming
      <4>4. Told(p) => Told(p)'
        BY <1>1, <1>2, <2>1, <3>3, <4>1 DEF Told, Same
      <4> QED BY <1>7, <3>2, <4>2, <4>3, <4>4
    <3>4. CASE p \in flush.taken
      <4>1. Reported(p)
        BY <3>4 DEF Reported
      <4>2. Coming(p) => Coming(p)'
        BY <2>1, <2>6, <3>2 DEF Coming
      <4>3. ASSUME Greeted, Told(p) PROVE Told(p)'
        <5>1. flush.vals[p] = store[p]
          BY <2>1, <3>4, <4>3 DEF Told
        <5>2. down' = Append(down, e)
          BY <2>6, <4>3 DEF Notify, Greeted, Sendable
        <5>3. Last(Append(down, e), Telling(p), p, store[p])
          BY <1>1, <2>2, <2>3, <3>4, <5>1, AppendLast
        <5>4. Last(down', Telling(p), p, store[p]) /\ In(down', Telling(p))
          BY <5>2, <5>3, LastIsIn
        <5> QED BY <1>1, <2>1, <5>4 DEF Told
      <4> QED BY <1>7, <3>2, <4>1, <4>2, <4>3
    <3> QED BY <3>3, <3>4
  <2> QED BY <2>4, <2>5, <2>6
<1> QED BY <1>8, <1>9, <1>10, <1>11, <1>12, <1>13 DEF Flush

-----------------------------------------------------------------------------
(* The application's steps. *)

(* A pass begun makes every write under way cross what it will read.         *)
LEMMA BeginSettled ==
  ASSUME Sound, NEW p \in Params, Parted(p), Known(p), UNCHANGED <<board, radio>>,
         NEW r \in Seq(Frames), beginDiscovery(r),
         UNCHANGED <<m_connected, m_params, m_ready, wish, m_requestRetryQueue>>,
         \A C : Same(down, r, Refusing(C), p), Same(down, r, Telling(p), p)
  PROVE  Parted(p)' /\ Known(p)'
<1> DEFINE f == List(m_listSeq + 1)
<1>1. /\ TypeOK /\ TypeOK' /\ Taken /\ Taken'
      /\ WriteOnWay(p) <=> Wanted(p)
      /\ ReportOnWay(p) <=> Reported(p)
      /\ WriteOnWay(p)' <=> Wanted(p)'
      /\ ReportOnWay(p)' <=> Reported(p)'
  BY OnWay, OnWayNext DEF Sound, Found
<1>2. f \in Commands /\ f.op = "list" /\ f \notin Writing(p) /\ f \notin Asking
  <2>1. m_listSeq + 1 \in Nat
    BY <1>1 DEF TypeOK, AppType
  <2>2. f \in Commands /\ f.op = "list"
    BY <2>1, CommandTypes
  <2> QED BY <2>2, Kinds
<1>3. Send(f, r) /\ crossed' = crossed \cup {q \in Params : WriteOnWay(q)}
  BY DEF beginDiscovery
<1> HIDE DEF f
<1>4. /\ SentStays(p) /\ Same(down, down', Telling(p), p) /\ lost \subseteq lost'
      /\ AskOnWay' <=> AskOnWay
  BY <1>1, <1>2, <1>3, SendOn
<1>5. WishStays(p) /\ SynthStays(p) /\ ToldStays(p)
  BY <1>4, SameStays, BoardStays DEF WishStays, ToldStays, wish
<1>6. /\ Wanted(p)' <=> Wanted(p)
      /\ Coming(p) => Coming(p)'
      /\ Told(p) => Told(p)'
  BY <1>1, <1>4, <1>5, PushedStays, ToldHolds
<1>7. Wanted(p) => p \in crossed'
  BY <1>1, <1>3
<1>8. Parted(p)'
  BY <1>1, <1>6, <1>7 DEF Parted
<1>9. Greeted' => Greeted
  BY DEF Greeted, Sendable
<1>10. Known(p)'
  <2>1. SUFFICES ASSUME Greeted', p \notin crossed' \cup lost' PROVE Fine(p)'
    BY DEF Known
  <2>2. ~Wanted(p) /\ Fine(p)
    BY <1>3, <1>4, <1>7, <1>9, <2>1 DEF Known
  <2> QED BY <1>1, <1>6, <2>2, PushedWanted DEF Fine
<1> QED BY <1>8, <1>10

(* What begins, goes on with or ends a pass, but for a list that is heard.   *)
LEMMA SettledPass ==
  ASSUME Sound, App, NEW p \in Params, Parted(p), Known(p),
         \/ Connected \/ Dropped \/ FallbackFires \/ Watchdog \/ finishDiscovery
         \/ handleEngineEvent
  PROVE  Parted(p)' /\ Known(p)'
<1> USE DEF sync, wish
<1>1. /\ TypeOK /\ down \in Seq(Frames) /\ UNCHANGED <<board, radio>> /\ SynthStays(p)
      /\ \A s, G : Same(s, s, G, p)
  BY AppLeaves, BoardStays, SameStays DEF Sound, TypeOK, WireType
<1>2. ASSUME UNCHANGED <<m_connected, m_params, m_ready, wish, m_requestRetryQueue, crossed>>,
             m_discovering' = "list" => m_discovering = "list",
             SentStays(p), Same(down, down', Telling(p), p), lost \subseteq lost',
             AskOnWay' <=> AskOnWay
      PROVE  Parted(p)' /\ Known(p)'
  <2>1. WishStays(p) /\ ToldStays(p)
    BY <1>1, <1>2 DEF WishStays, ToldStays
  <2>2. More
    BY <1>1, <1>2 DEF More, Syncing, Greeted, Sendable
  <2> QED BY <1>1, <1>2, <2>1, <2>2, AllStays
<1>3. CASE Connected \/ Dropped
  <2>1. ~m_ready' /\ m_discovering' = "no"
    BY <1>3 DEF Connected, Dropped, setConnected, resetState
  <2> QED BY <2>1 DEF Parted, Known, Syncing, Greeted
<1>4. CASE FallbackFires
  <2>1. /\ beginDiscovery(down)
        /\ UNCHANGED <<m_connected, m_params, m_ready, wish, m_requestRetryQueue>>
    BY <1>4 DEF FallbackFires
  <2> QED BY <1>1, <2>1, BeginSettled
<1>5. CASE Watchdog
  <2>1. m_discovering = "list" /\ UNCHANGED <<m_connected, m_params, m_ready, wish,
                                              m_requestRetryQueue, crossed>>
    BY <1>5 DEF Watchdog
  <2>2. CASE Hear(down)
    <3>1. /\ SentStays(p) /\ Same(down, down', Telling(p), p) /\ lost \subseteq lost'
          /\ AskOnWay' <=> AskOnWay
      BY <1>1, <2>1, <2>2, HearOn
    <3> QED BY <1>2, <2>1, <3>1
  <2>3. CASE Send(List(m_listSeq + 1), down)
    <3>1. List(m_listSeq + 1) \in Commands /\ List(m_listSeq + 1).op = "list"
      <4>1. m_listSeq + 1 \in Nat
        BY <1>1 DEF TypeOK, AppType
      <4> QED BY <4>1, CommandTypes
    <3>2. List(m_listSeq + 1) \notin Writing(p) /\ List(m_listSeq + 1) \notin Asking
      BY <3>1, Kinds
    <3>3. /\ SentStays(p) /\ Same(down, down', Telling(p), p) /\ lost \subseteq lost'
          /\ AskOnWay' <=> AskOnWay
      BY <1>1, <2>1, <2>3, <3>1, <3>2, SendOn
    <3> QED BY <1>2, <2>1, <3>3
  <2> QED BY <1>5, <2>2, <2>3 DEF Watchdog
<1>6. CASE finishDiscovery
  <2>1. /\ m_discovering' = "no" /\ UNCHANGED <<s_cmd_queue, down, lost>>
        /\ UNCHANGED <<m_connected, m_params, m_ready, wish, m_requestRetryQueue, crossed>>
    BY <1>6 DEF finishDiscovery, sent
  <2>2. SentStays(p) /\ Same(down, down', Telling(p), p) /\ (AskOnWay' <=> AskOnWay)
    BY <1>1, <2>1 DEF SentStays, AskOnWay
  <2> QED BY <1>2, <2>1, <2>2
<1>7. CASE handleEngineEvent
  <2>1. /\ Heard("engine") /\ Tail(down) \in Seq(Frames)
        /\ UNCHANGED <<m_connected, m_params, m_ready, wish, m_requestRetryQueue>>
    BY <1>1, <1>7, HeardIs DEF handleEngineEvent
  <2>2. /\ Same(down, Tail(down), Telling(p), p)
        /\ \A C : Same(down, Tail(down), Refusing(C), p)
    <3>1. TypeOK /\ Heard("engine")
      BY <2>1 DEF Sound
    <3>2. /\ "engine" # "params" => Same(down, Tail(down), Telling(p), p)
          /\ \A C : "engine" # "busy" \/ Head(down).of \notin C =>
               Same(down, Tail(down), Refusing(C), p)
      BY <3>1, HeadStays
    <3> QED BY <3>2
  <2>3. CASE Hear(Tail(down)) /\ UNCHANGED <<m_discovering, crossed>>
    <3>1. /\ SentStays(p) /\ Same(down, down', Telling(p), p) /\ lost \subseteq lost'
          /\ AskOnWay' <=> AskOnWay
      BY <1>1, <2>1, <2>2, <2>3, HearOn
    <3> QED BY <1>2, <2>1, <2>3, <3>1
  <2>4. CASE beginDiscovery(Tail(down))
    BY <1>1, <2>1, <2>2, <2>4, BeginSettled
  <2> QED BY <1>7, <2>3, <2>4 DEF handleEngineEvent
<1> QED BY <1>3, <1>4, <1>5, <1>6, <1>7

(* The list asked for: from now on the values are asked for, and no write     *)
(* that has not crossed is under way.                                        *)
LEMMA SettledList ==
  ASSUME Sound, App, onParamListComplete, NEW p \in Params, Parted(p), Known(p)
  PROVE  Parted(p)' /\ Known(p)'
<1> USE DEF sync, wish
<1>1. /\ TypeOK /\ TypeOK' /\ Taken /\ Taken' /\ UNCHANGED <<board, radio>> /\ SynthStays(p)
      /\ WriteOnWay(p) <=> Wanted(p)
      /\ ReportOnWay(p) <=> Reported(p)
      /\ WriteOnWay(p)' <=> Wanted(p)'
      /\ ReportOnWay(p)' <=> Reported(p)'
  BY AppLeaves, BoardStays, OnWay, OnWayNext DEF Sound, Found
<1>2. /\ Heard("listing") /\ Tail(down) \in Seq(Frames)
      /\ UNCHANGED <<m_connected, m_params, wish, m_requestRetryQueue, crossed>>
  BY <1>1, HeardIs DEF onParamListComplete
<1>3. /\ Same(down, Tail(down), Telling(p), p)
      /\ \A C : Same(down, Tail(down), Refusing(C), p)
  BY <1>1, <1>2, HeadStays
<1>4. WishStays(p)
  BY <1>2, SameStays DEF WishStays
<1>5. CASE Hear(Tail(down)) /\ UNCHANGED <<m_discovering, m_ready>>
  <2>1. /\ SentStays(p) /\ Same(down, down', Telling(p), p) /\ lost \subseteq lost'
        /\ AskOnWay' <=> AskOnWay
    BY <1>1, <1>2, <1>3, <1>5, HearOn
  <2>2. More
    BY <1>1, <1>2, <1>5, <2>1 DEF More, Syncing, Greeted, Sendable
  <2>3. ToldStays(p)
    BY <2>1 DEF ToldStays
  <2> QED BY <1>1, <1>4, <1>5, <2>1, <2>2, <2>3, AllStays
<1>6. CASE m_discovering = "list" /\ Send(Get(RequestRetries), Tail(down))
  <2> DEFINE f == Get(RequestRetries)
  <2>1. f \in Commands /\ f.op = "get"
    BY CommandTypes, CommandKinds
  <2>2. f \notin Writing(p) /\ f \in Asking /\ p \in Tells(f)
    BY <2>1, Kinds DEF Tells
  <2>3. \/ ~Sendable /\ Unsent(Tail(down))
        \/ Sendable /\ (Queued(f, Tail(down)) \/ Rejected(f, Tail(down)) \/ Forgone(f, Tail(down)))
    BY <1>1, <1>2, <1>6, <2>1, SendResult
  <2> HIDE DEF f
  <2>4. SentStays(p) /\ lost \subseteq lost'
    BY <1>1, <1>2, <1>3, <1>6, <2>1, <2>2, SendOn DEF f
  <2>5. Wanted(p)' <=> Wanted(p)
    BY <1>4, <2>4, PushedStays
  <2>6. Reported(p)
    BY <1>6 DEF Reported
  <2>7. Sendable' => Syncing
    BY <1>1, <1>2, <1>6 DEF Syncing, Sendable
  <2>8. Parted(p)'
    BY <1>1, <1>2, <2>5, <2>6, <2>7 DEF Parted, Syncing
  <2>9. Known(p)'
    <3>1. SUFFICES ASSUME Sendable', p \notin crossed' \cup lost' PROVE Fine(p)'
      BY DEF Known, Greeted
    <3>2. ~Wanted(p)'
      BY <1>1, <1>2, <2>5, <2>6, <2>7, <3>1 DEF Parted
    <3>3. Queued(f, Tail(down)) \/ Rejected(f, Tail(down))
      BY <1>1, <1>2, <2>2, <2>3, <3>1 DEF Forgone, Sendable
    <3>4. CASE Queued(f, Tail(down))
      <4>1. s_cmd_queue' = Append(s_cmd_queue, f)
        BY <3>4 DEF Queued
      <4>2. In(Append(s_cmd_queue, f), Asking)
        BY <1>1, <2>1, <2>2, AppendIn DEF TypeOK, WireType
      <4>3. Coming(p)'
        BY <4>1, <4>2 DEF Coming, AskOnWay
      <4> QED BY <1>1, <3>2, <4>3 DEF Fine
    <3>5. CASE Rejected(f, Tail(down))
      <4>1. down' = Append(Tail(down), Busy(f))
        BY <3>5 DEF Rejected
      <4>2. Busy(f) \in Frames /\ Busy(f) \in Refusing(Asking)
        BY <2>1, <2>2, FrameTypes, Kinds
      <4>3. In(Append(Tail(down), Busy(f)), Refusing(Asking))
        <5> DEFINE r == Tail(down)
                   b == Busy(f)
        <5>1. r \in Seq(Frames) /\ b \in Frames /\ b \in Refusing(Asking)
          BY <1>2, <4>2
        <5> HIDE DEF r, b
        <5>2. In(Append(r, b), Refusing(Asking))
          BY <5>1, AppendIn
        <5> QED BY <5>2 DEF r, b
      <4>4. Coming(p)'
        BY <4>1, <4>3 DEF Coming, AskOnWay
      <4> QED BY <1>1, <3>2, <4>4 DEF Fine
    <3> QED BY <3>3, <3>4, <3>5
  <2> QED BY <2>8, <2>9
<1> QED BY <1>5, <1>6 DEF onParamListComplete

(* A report is heard: what it tells that is not written to meanwhile is shown. *)
LEMMA SettledValues ==
  ASSUME Sound, App, handleParamValues, NEW p \in Params, Parted(p), Known(p)
  PROVE  Parted(p)' /\ Known(p)'
<1> USE DEF sync, wish
<1> DEFINE f == Head(down)
           t == Tail(down)
<1>1. /\ TypeOK /\ TypeOK' /\ Taken /\ Taken' /\ UNCHANGED <<board, radio>> /\ SynthStays(p)
      /\ WriteOnWay(p) <=> Wanted(p)
      /\ ReportOnWay(p) <=> Reported(p)
      /\ WriteOnWay(p)' <=> Wanted(p)'
      /\ ReportOnWay(p)' <=> Reported(p)'
  BY AppLeaves, BoardStays, OnWay, OnWayNext DEF Sound, Found
<1>2. /\ Heard("params") /\ down \in Seq(Frames) /\ down # <<>> /\ f \in Frames /\ f.op = "params"
      /\ m_params' = Over(f.vals, m_params) /\ Hear(t)
      /\ UNCHANGED <<m_connected, m_ready, m_discovering, wish, m_requestRetryQueue, crossed>>
  BY <1>1, HeardIs DEF handleParamValues, TypeOK, WireType
<1>3. \A C : Same(down, t, Refusing(C), p)
  <2>1. \A C : "params" # "busy" \/ Head(down).of \notin C => Same(down, Tail(down), Refusing(C), p)
    BY <1>1, <1>2, HeadStays
  <2> QED BY <2>1
<1>4. m_params'[p] = IF p \in DOMAIN f.vals THEN f.vals[p] ELSE m_params[p]
  <2>1. /\ f.vals \in Partial(Params, Values) /\ m_params \in [Params -> Values \cup {NoValue}]
        /\ Values \subseteq Values \cup {NoValue}
    BY <1>1, <1>2, FrameKinds DEF TypeOK, AppType
  <2>2. Over(f.vals, m_params)[p] = IF p \in DOMAIN f.vals THEN f.vals[p] ELSE m_params[p]
    <3> DEFINE T == Values \cup {NoValue}
               g == f.vals
    <3>1. g \in Partial(Params, Values) /\ m_params \in [Params -> T] /\ Values \subseteq T
      BY <2>1
    <3> HIDE DEF T, g
    <3>2. Over(g, m_params)[p] = IF p \in DOMAIN g THEN g[p] ELSE m_params[p]
      BY <3>1, OverIs
    <3> QED BY <3>2 DEF g
  <2> QED BY <1>2, <2>2
<1>5. f \in Telling(p) <=> p \in DOMAIN f.vals
  BY <1>2, Kinds
<1>6. In(down, Telling(p)) <=> In(t, Telling(p)) \/ f \in Telling(p)
  BY <1>2, TailIn
<1>7. \A v : Last(down, Telling(p), p, v) =>
               /\ In(t, Telling(p)) => Last(t, Telling(p), p, v)
               /\ ~In(t, Telling(p)) => f \in Telling(p) /\ f.vals[p] = v
  BY <1>2, TailLast
<1> HIDE DEF f, t
<1>8. down' = t /\ UNCHANGED <<s_cmd_queue, lost>>
  BY <1>2 DEF Hear
<1>9. SentStays(p) /\ (AskOnWay' <=> AskOnWay)
  BY <1>2, <1>3, <1>8, SameStays DEF SentStays, AskOnWay, Same
<1>10. (Syncing' => Syncing) /\ (Greeted' => Greeted)
  BY <1>1, <1>2 DEF Syncing, Greeted, Sendable
<1>11. CASE p \notin DOMAIN f.vals
  <2>1. Same(down, t, Telling(p), p)
    BY <1>5, <1>6, <1>7, <1>11 DEF Same
  <2>2. ToldStays(p)
    BY <1>8, <1>9, <2>1 DEF ToldStays
  <2>3. WishStays(p)
    BY <1>2, <1>4, <1>11, SameStays DEF WishStays
  <2>4. More
    BY <1>2, <1>8, <1>10 DEF More
  <2> QED BY <1>1, <1>2, <1>9, <2>2, <2>3, <2>4, AllStays
<1>12. CASE p \in DOMAIN f.vals
  <2>1. Reported(p) /\ In(down, Telling(p))
    BY <1>5, <1>6, <1>12 DEF Reported
  <2>2. Wanted(p)' <=> Wanted(p)
    BY <1>2, <1>9 DEF Wanted, SentStays, Same
  <2>3. Parted(p)'
    BY <1>1, <1>2, <1>10, <2>1, <2>2 DEF Parted
  <2>4. ASSUME Greeted, p \notin crossed \cup lost PROVE Fine(p)'
    <3>1. ~Wanted(p) /\ Fine(p)
      BY <1>1, <2>1, <2>4 DEF Parted, Known, Syncing, Greeted
    <3>2. ~Wanted(p)'
      BY <2>2, <3>1
    <3>3. Coming(p) \/ Told(p)
      BY <3>1, PushedWanted DEF Fine
    <3>4. Coming(p) => Coming(p)'
      BY <1>1, <1>9 DEF Coming, board
    <3>5. ASSUME Told(p) PROVE Told(p)'
      <4>1. UNCHANGED <<flush, store>>
        BY <1>1 DEF board
      <4>2. CASE flush.pc = "send" /\ p \in flush.taken
        BY <3>5, <4>1, <4>2 DEF Told
      <4>3. CASE ~(flush.pc = "send" /\ p \in flush.taken)
        <5>1. Last(down, Telling(p), p, store[p])
          BY <2>1, <3>5, <4>3 DEF Told
        <5>2. /\ In(t, Telling(p)) => Last(t, Telling(p), p, store[p])
              /\ ~In(t, Telling(p)) => m_params'[p] = store[p]
          BY <1>4, <1>5, <1>7, <5>1
        <5> QED BY <1>8, <4>1, <4>3, <5>2 DEF Told
      <4> QED BY <4>2, <4>3
    <3> QED BY <1>1, <3>2, <3>3, <3>4, <3>5 DEF Fine
  <2>5. Known(p)'
    BY <1>2, <1>8, <1>10, <2>4 DEF Known
  <2> QED BY <2>3, <2>5
<1> QED BY <1>11, <1>12

(* A write refused goes back to the head of the queue. *)
LEMMA SettledSetBusy ==
  ASSUME Sound, App, onSetBusy, NEW p \in Params, Parted(p), Known(p)
  PROVE  Parted(p)' /\ Known(p)'
<1> USE DEF sync, wish
<1> DEFINE f == Head(down).of
           t == Tail(down)
           u == <<f>> \o m_setQueue
<1>1. /\ TypeOK /\ TypeOK' /\ Taken /\ Taken' /\ UNCHANGED <<board, radio>> /\ SynthStays(p)
      /\ WriteOnWay(p) <=> Wanted(p)
      /\ ReportOnWay(p) <=> Reported(p)
      /\ WriteOnWay(p)' <=> Wanted(p)'
      /\ ReportOnWay(p)' <=> Reported(p)'
  BY AppLeaves, BoardStays, OnWay, OnWayNext DEF Sound, Found
<1>2. /\ Heard("busy") /\ down \in Seq(Frames) /\ down # <<>> /\ Head(down) \in Frames
      /\ Head(down).op = "busy" /\ f.op = "set" /\ m_setQueue' = u /\ Hear(t)
      /\ crossed' = crossed \cup Overtaken(f)
      /\ UNCHANGED <<m_connected, m_params, m_ready, m_discovering, m_pendingSets,
                     m_requestRetryQueue>>
  BY <1>1, HeardIs DEF onSetBusy, TypeOK, WireType
<1>3. f \in Commands /\ f \in Sets /\ m_setQueue \in Seq(Sets)
  BY <1>1, <1>2, FrameKinds, CommandKinds DEF TypeOK, WriteType
<1>4. /\ Head(down) \notin Telling(p)
      /\ Head(down) \in Refusing(Writing(p)) <=> f \in Writing(p)
      /\ Head(down) \notin Refusing(Asking)
      /\ f \in Writing(p) <=> p \in DOMAIN f.vals
  BY <1>2, <1>3, Kinds
<1>5. /\ Same(down, t, Telling(p), p) /\ Same(down, t, Refusing(Asking), p)
      /\ f \notin Writing(p) => Same(down, t, Refusing(Writing(p)), p)
  BY <1>2, <1>4, SameTail
<1>6. In(down, Refusing(Writing(p))) <=> In(t, Refusing(Writing(p))) \/ f \in Writing(p)
  BY <1>2, <1>4, TailIn
<1>7. /\ In(u, Writing(p)) <=> In(m_setQueue, Writing(p)) \/ f \in Writing(p)
      /\ f \notin Writing(p) => Same(m_setQueue, u, Writing(p), p)
      /\ \A v : Last(m_setQueue, Writing(p), p, v) => Last(u, Writing(p), p, v)
      /\ \A v : ~In(m_setQueue, Writing(p)) /\ f \in Writing(p) /\ f.vals[p] = v
                  => Last(u, Writing(p), p, v)
  BY <1>3, PrependIn, PrependLast, SamePrepend
<1> HIDE DEF t, u
<1>8. down' = t /\ UNCHANGED <<s_cmd_queue, lost>>
  BY <1>2 DEF Hear
<1>9. ToldStays(p)
  BY <1>2, <1>5, <1>8 DEF ToldStays, AskOnWay, Same
<1>10. More
  BY <1>1, <1>2, <1>8 DEF More, Syncing, Greeted, Sendable
<1>11. CASE f \notin Writing(p)
  <2>1. WishStays(p)
    BY <1>2, <1>7, <1>11 DEF WishStays
  <2>2. SentStays(p)
    BY <1>5, <1>8, <1>11, SameStays DEF SentStays
  <2> QED BY <1>1, <1>2, <1>9, <1>10, <2>1, <2>2, AllStays
<1>12. CASE f \in Writing(p)
  <2>1. Wanted(p)
    BY <1>6, <1>12 DEF Wanted
  <2>2. Reported(p)' => Reported(p)
    BY <1>1, <1>2, <1>9, ToldHolds DEF Reported
  <2>3. Parted(p)'
    BY <1>1, <1>10, <2>1, <2>2 DEF Parted, More
  <2>4. ASSUME Greeted, p \notin crossed' \cup lost PROVE Pushed(p)'
    <3>1. ~Reported(p) /\ p \notin crossed /\ p \notin Overtaken(f)
      BY <1>1, <1>2, <2>1, <2>4 DEF Parted, Syncing, Greeted
    <3>2. Pushed(p)
      BY <1>1, <2>1, <2>4, <3>1 DEF Known, Fine
    <3>3. CASE p \in DOMAIN m_pendingSets
      BY <1>2, <3>2, <3>3 DEF Pushed
    <3>4. CASE p \notin DOMAIN m_pendingSets /\ In(m_setQueue, Writing(p))
      BY <1>2, <1>7, <3>2, <3>4 DEF Pushed
    <3>5. CASE p \notin DOMAIN m_pendingSets /\ ~In(m_setQueue, Writing(p))
      <4>1. p \in Writes(f)
        BY <1>2, <1>4, <1>12 DEF Writes
      <4>2. \A g \in Elems(m_setQueue) : p \notin Writes(g)
        <5>1. ASSUME NEW i \in DOMAIN m_setQueue, p \in Writes(m_setQueue[i]) PROVE FALSE
          <6>1. m_setQueue[i] \in Sets
            BY <1>3
          <6>2. m_setQueue[i] \in Commands /\ m_setQueue[i].op = "set"
            BY <6>1, CommandTypes, CommandKinds
          <6>3. m_setQueue[i] \in Writing(p)
            BY <5>1, <6>2, Kinds DEF Writes
          <6> QED BY <3>5, <6>3 DEF In
        <5> QED BY <5>1 DEF Elems
      <4>3. m_params[p] = f.vals[p]
        BY <3>1, <3>5, <4>1, <4>2 DEF Overtaken
      <4> QED BY <1>2, <1>7, <1>12, <3>5, <4>3 DEF Pushed
    <3> QED BY <3>3, <3>4, <3>5
  <2>5. Known(p)'
    BY <1>8, <1>10, <2>4 DEF Known, Fine, More
  <2> QED BY <2>3, <2>5
<1> QED BY <1>11, <1>12

(* A value read that was refused is asked for again, or is lost. *)
LEMMA SettledRequestBusy ==
  ASSUME Sound, App, onRequestBusy, NEW p \in Params, Parted(p), Known(p)
  PROVE  Parted(p)' /\ Known(p)'
<1> USE DEF sync, wish
<1> DEFINE f == Head(down).of
           t == Tail(down)
           again == f.op = "get" /\ f.retries > 0
<1>1. /\ TypeOK /\ TypeOK' /\ Taken /\ Taken' /\ UNCHANGED <<board, radio>> /\ SynthStays(p)
      /\ WriteOnWay(p) <=> Wanted(p)
      /\ ReportOnWay(p) <=> Reported(p)
      /\ WriteOnWay(p)' <=> Wanted(p)'
      /\ ReportOnWay(p)' <=> Reported(p)'
  BY AppLeaves, BoardStays, OnWay, OnWayNext DEF Sound, Found
<1>2. /\ Heard("busy") /\ down \in Seq(Frames) /\ down # <<>> /\ Head(down) \in Frames
      /\ Head(down).op = "busy" /\ f.op # "set" /\ down' = t
      /\ m_requestRetryQueue' = IF again THEN Append(m_requestRetryQueue, Get(f.retries - 1))
                                ELSE m_requestRetryQueue
      /\ lost' = IF again THEN lost ELSE lost \cup Tells(f)
      /\ UNCHANGED <<m_connected, m_params, m_ready, m_discovering, wish, s_cmd_queue, crossed>>
  BY <1>1, HeardIs DEF onRequestBusy, TypeOK, WireType
<1>3. f \in Commands /\ f \notin Writing(p) /\ (f \in Asking <=> f.op = "get")
  BY <1>2, FrameKinds, Kinds
<1>4. Head(down) \notin Telling(p) /\ Head(down) \notin Refusing(Writing(p))
      /\ (Head(down) \in Refusing(Asking) <=> f.op = "get")
  BY <1>2, <1>3, Kinds
<1>5. Same(down, t, Telling(p), p) /\ Same(down, t, Refusing(Writing(p)), p)
  BY <1>2, <1>4, SameTail
<1>6. In(down, Refusing(Asking)) <=> In(t, Refusing(Asking)) \/ f.op = "get"
  BY <1>2, <1>4, TailIn
<1>7. again => m_requestRetryQueue' # <<>>
  <2>1. again => Get(f.retries - 1) \in Gets
    BY <1>3, CommandKinds, CommandTypes
  <2>2. m_requestRetryQueue \in Seq(Gets)
    BY <1>1 DEF TypeOK, WriteType
  <2> QED BY <1>2, <2>1, <2>2, AppendIn
<1> HIDE DEF t
<1>8. SentStays(p) /\ WishStays(p) /\ SynthStays(p)
  BY <1>1, <1>2, <1>5, SameStays DEF SentStays, WishStays
<1>9. More
  BY <1>1, <1>2 DEF More, Syncing, Greeted, Sendable
<1>10. CASE f.op # "get" \/ again
  <2>1. AskOnWay' <=> AskOnWay
    BY <1>2, <1>6, <1>7, <1>10 DEF AskOnWay
  <2>2. ToldStays(p)
    BY <1>2, <1>5, <2>1 DEF ToldStays
  <2> QED BY <1>1, <1>2, <1>8, <1>9, <2>2, AllStays
<1>11. CASE f.op = "get" /\ ~again
  <2>1. p \in lost'
    BY <1>2, <1>11 DEF Tells
  <2>2. Known(p)'
    BY <2>1 DEF Known
  <2>3. Wanted(p)' <=> Wanted(p)
    BY <1>8, PushedStays
  <2>4. Reported(p)
    BY <1>6, <1>11 DEF Reported, AskOnWay
  <2>5. Parted(p)'
    BY <1>1, <1>9, <2>3, <2>4 DEF Parted, More
  <2> QED BY <2>2, <2>5
<1> QED BY <1>10, <1>11

(* A value read is sent again. *)
LEMMA SettledRetry ==
  ASSUME Sound, App, drainRequestRetryQueue, NEW p \in Params, Parted(p), Known(p)
  PROVE  Parted(p)' /\ Known(p)'
<1> USE DEF sync, wish
<1> DEFINE f == Head(m_requestRetryQueue)
<1>1. /\ TypeOK /\ TypeOK' /\ Taken /\ Taken' /\ UNCHANGED <<board, radio>> /\ SynthStays(p)
      /\ WriteOnWay(p) <=> Wanted(p)
      /\ ReportOnWay(p) <=> Reported(p)
      /\ WriteOnWay(p)' <=> Wanted(p)'
      /\ ReportOnWay(p)' <=> Reported(p)'
  BY AppLeaves, BoardStays, OnWay, OnWayNext DEF Sound, Found
<1>2. /\ m_requestRetryQueue \in Seq(Gets) /\ m_requestRetryQueue # <<>> /\ Send(f, down)
      /\ s_cmd_queue \in Seq(Commands) /\ down \in Seq(Frames)
      /\ UNCHANGED <<m_connected, m_params, m_ready, m_discovering, wish, crossed>>
  BY <1>1 DEF drainRequestRetryQueue, TypeOK, WriteType, WireType
<1>3. f \in Commands /\ f.op = "get"
  <2>1. f \in Gets
    BY <1>2, TailIn
  <2> QED BY <2>1, CommandTypes, CommandKinds
<1>4. f \notin Writing(p) /\ f \in Asking /\ p \in Tells(f)
  BY <1>3, Kinds DEF Tells
<1>5. \/ ~Sendable
      \/ Queued(f, down) \/ Rejected(f, down) \/ Forgone(f, down)
  BY <1>1, <1>2, <1>3, SendResult
<1> HIDE DEF f
<1>6. SentStays(p) /\ lost \subseteq lost'
  BY <1>1, <1>2, <1>3, <1>4, SendOn, SameStays
<1>7. WishStays(p)
  BY <1>2, SameStays DEF WishStays
<1>8. /\ Wanted(p)' <=> Wanted(p)
      /\ Pushed(p) => Pushed(p)'
  BY <1>6, <1>7, PushedStays
<1>9. More
  BY <1>1, <1>2, <1>6 DEF More, Syncing, Greeted, Sendable
<1>10. Reported(p)
  BY <1>2 DEF Reported, AskOnWay
<1>11. Parted(p)'
  BY <1>1, <1>8, <1>9, <1>10 DEF Parted, More
<1>12. ASSUME Greeted, p \notin crossed \cup lost' PROVE Fine(p)'
  <2>1. Fine(p)
    BY <1>6, <1>12 DEF Known
  <2>2. Queued(f, down) \/ Rejected(f, down)
    BY <1>4, <1>5, <1>12 DEF Greeted, Forgone
  <2>3. AskOnWay'
    <3>1. CASE Queued(f, down)
      <4>1. In(Append(s_cmd_queue, f), Asking)
        BY <1>2, <1>3, <1>4, AppendIn
      <4> QED BY <3>1, <4>1 DEF Queued, AskOnWay
    <3>2. CASE Rejected(f, down)
      <4>1. Busy(f) \in Frames /\ Busy(f) \in Refusing(Asking)
        BY <1>3, <1>4, FrameTypes, Kinds
      <4>2. In(Append(down, Busy(f)), Refusing(Asking))
        BY <1>2, <4>1, AppendIn
      <4> QED BY <3>2, <4>2 DEF Rejected, AskOnWay
    <3> QED BY <2>2, <3>1, <3>2
  <2> QED BY <1>1, <1>8, <2>1, <2>3 DEF Fine, Coming
<1>13. Known(p)'
  BY <1>2, <1>9, <1>12 DEF Known, More
<1> QED BY <1>11, <1>13

(* The batch of writes goes to the end of the queue. *)
LEMMA SettledBatch ==
  ASSUME Sound, App, flushPendingSets, NEW p \in Params, Parted(p), Known(p)
  PROVE  Parted(p)' /\ Known(p)'
<1> USE DEF sync, wish
<1> DEFINE f == Set(m_pendingSets)
           u == Append(m_setQueue, f)
<1>1. /\ TypeOK /\ TypeOK' /\ Taken /\ Taken' /\ UNCHANGED <<board, radio>> /\ SynthStays(p)
      /\ WriteOnWay(p) <=> Wanted(p)
      /\ ReportOnWay(p) <=> Reported(p)
      /\ WriteOnWay(p)' <=> Wanted(p)'
      /\ ReportOnWay(p)' <=> Reported(p)'
  BY AppLeaves, BoardStays, OnWay, OnWayNext DEF Sound, Found
<1>2. /\ m_setQueue' = u /\ m_pendingSets' = NoVals
      /\ UNCHANGED <<m_connected, m_params, m_ready, m_discovering, m_requestRetryQueue,
                     s_cmd_queue, down, lost, crossed>>
      /\ m_setQueue \in Seq(Sets) /\ m_pendingSets \in Partial(Params, Values)
  BY <1>1 DEF flushPendingSets, sent, TypeOK, WriteType
<1>3. f \in Sets /\ f \in Commands /\ f.op = "set" /\ f.vals = m_pendingSets
      /\ p \notin DOMAIN m_pendingSets'
  <2>1. f \in Sets /\ f.op = "set" /\ f.vals = m_pendingSets /\ f \in Commands
    BY <1>2, CommandTypes
  <2>2. DOMAIN NoVals = {}
    BY PartialOps
  <2> QED BY <1>2, <2>1, <2>2
<1>4. f \in Writing(p) <=> p \in DOMAIN m_pendingSets
  BY <1>3, Kinds
<1>5. /\ In(u, Writing(p)) <=> In(m_setQueue, Writing(p)) \/ f \in Writing(p)
      /\ f \notin Writing(p) => Same(m_setQueue, u, Writing(p), p)
      /\ f \in Writing(p) => Last(u, Writing(p), p, m_pendingSets[p])
  BY <1>2, <1>3, AppendIn, AppendLast, SameAppend
<1> HIDE DEF f, u
<1>6. SentStays(p) /\ ToldStays(p)
  BY <1>2, SameStays DEF SentStays, ToldStays, AskOnWay
<1>7. More
  BY <1>1, <1>2 DEF More, Syncing, Greeted, Sendable
<1>8. CASE p \notin DOMAIN m_pendingSets
  <2>1. WishStays(p)
    BY <1>2, <1>3, <1>4, <1>5, <1>8 DEF WishStays
  <2> QED BY <1>1, <1>2, <1>6, <1>7, <2>1, AllStays
<1>9. CASE p \in DOMAIN m_pendingSets
  <2>1. Wanted(p)
    BY <1>9 DEF Wanted
  <2>2. Reported(p)' => Reported(p)
    BY <1>1, <1>2, <1>6, ToldHolds DEF Reported
  <2>3. Parted(p)'
    BY <1>1, <1>7, <2>1, <2>2 DEF Parted, More
  <2>4. ASSUME Greeted, p \notin crossed \cup lost PROVE Pushed(p)'
    <3>1. Pushed(p)
      BY <1>1, <2>1, <2>4 DEF Known, Fine
    <3>2. m_pendingSets[p] = m_params[p]
      BY <1>9, <3>1 DEF Pushed
    <3>3. In(m_setQueue', Writing(p)) /\ Last(m_setQueue', Writing(p), p, m_params'[p])
      BY <1>2, <1>4, <1>5, <1>9, <3>2
    <3> QED BY <1>3, <3>3 DEF Pushed
  <2>5. Known(p)'
    BY <1>2, <1>7, <2>4 DEF Known, Fine, More
  <2> QED BY <2>3, <2>5
<1> QED BY <1>8, <1>9

(* The head of the queue of writes is sent. *)
LEMMA SettledDrain ==
  ASSUME Sound, App, drainSetQueue, NEW p \in Params, Parted(p), Known(p)
  PROVE  Parted(p)' /\ Known(p)'
<1> USE DEF sync, wish
<1> DEFINE f == Head(m_setQueue)
           t == Tail(m_setQueue)
<1>1. /\ TypeOK /\ TypeOK' /\ Taken /\ Taken' /\ UNCHANGED <<board, radio>> /\ SynthStays(p)
      /\ WriteOnWay(p) <=> Wanted(p)
      /\ ReportOnWay(p) <=> Reported(p)
      /\ WriteOnWay(p)' <=> Wanted(p)'
      /\ ReportOnWay(p)' <=> Reported(p)'
  BY AppLeaves, BoardStays, OnWay, OnWayNext DEF Sound, Found
<1>2. /\ m_setQueue \in Seq(Sets) /\ m_setQueue # <<>> /\ m_setQueue' = t /\ Send(f, down)
      /\ s_cmd_queue \in Seq(Commands) /\ down \in Seq(Frames)
      /\ UNCHANGED <<m_connected, m_params, m_ready, m_discovering, m_pendingSets,
                     m_requestRetryQueue, crossed>>
  BY <1>1 DEF drainSetQueue, TypeOK, WriteType, WireType
<1>3. f \in Commands /\ f.op = "set"
  <2>1. f \in Sets
    BY <1>2, TailIn
  <2> QED BY <2>1, CommandTypes, CommandKinds
<1>4. /\ f \in Writing(p) <=> p \in DOMAIN f.vals
      /\ f \notin Asking /\ Writes(f) = DOMAIN f.vals
  BY <1>3, Kinds DEF Writes
<1>5. /\ lost \subseteq lost'
      /\ \/ ~Sendable
         \/ Queued(f, down) \/ Rejected(f, down) \/ Forgone(f, down)
  BY <1>1, <1>2, <1>3, SendResult, SendStays
<1>6. In(m_setQueue, Writing(p)) <=> In(t, Writing(p)) \/ f \in Writing(p)
  BY <1>2, TailIn
<1>7. f \notin Writing(p) => Same(m_setQueue, t, Writing(p), p)
  BY <1>2, SameTail
<1>8. \A v : Last(m_setQueue, Writing(p), p, v) =>
               /\ In(t, Writing(p)) => Last(t, Writing(p), p, v)
               /\ ~In(t, Writing(p)) => f \in Writing(p) /\ f.vals[p] = v
  BY <1>2, TailLast
<1> HIDE DEF f, t
<1>9. /\ Same(down, down', Telling(p), p) /\ Same(down, down', Refusing(Asking), p)
      /\ Same(s_cmd_queue, s_cmd_queue', Asking, p)
      /\ f \notin Writing(p) => SentStays(p)
  BY <1>1, <1>2, <1>3, <1>4, SendStays DEF SentStays
<1>10. ToldStays(p)
  BY <1>2, <1>9 DEF ToldStays, AskOnWay, Same
<1>11. More
  BY <1>1, <1>2, <1>5 DEF More, Syncing, Greeted, Sendable
<1>12. CASE f \notin Writing(p)
  <2>1. WishStays(p)
    BY <1>2, <1>7, <1>12 DEF WishStays
  <2> QED BY <1>1, <1>2, <1>9, <1>10, <1>11, <1>12, <2>1, AllStays
<1>13. CASE f \in Writing(p)
  <2>1. Wanted(p)
    BY <1>6, <1>13 DEF Wanted
  <2>2. Reported(p)' => Reported(p)
    BY <1>1, <1>2, <1>10, ToldHolds DEF Reported
  <2>3. Parted(p)'
    BY <1>1, <1>11, <2>1, <2>2 DEF Parted, More
  <2>4. ASSUME Greeted, p \notin crossed \cup lost' PROVE Pushed(p)'
    <3>1. Pushed(p)
      BY <1>1, <1>5, <2>1, <2>4 DEF Known, Fine
    <3>2. CASE p \in DOMAIN m_pendingSets
      BY <1>2, <3>1, <3>2 DEF Pushed
    <3>3. CASE p \notin DOMAIN m_pendingSets
      <4>1. Last(m_setQueue, Writing(p), p, m_params[p])
        BY <1>6, <1>13, <3>1, <3>3 DEF Pushed
      <4>2. CASE In(t, Writing(p))
        BY <1>2, <1>8, <3>3, <4>1, <4>2 DEF Pushed
      <4>3. CASE ~In(t, Writing(p))
        <5>1. f.vals[p] = m_params[p]
          BY <1>8, <4>1, <4>3
        <5>2. Queued(f, down) \/ Rejected(f, down)
          BY <1>4, <1>5, <1>13, <2>4 DEF Greeted, Forgone
        <5>3. CASE Queued(f, down)
          <6>1. Last(Append(s_cmd_queue, f), Writing(p), p, m_params[p])
            BY <1>2, <1>3, <1>13, <5>1, AppendLast
          <6>2. Last(s_cmd_queue', Writing(p), p, m_params'[p])
            BY <1>2, <5>3, <6>1 DEF Queued
          <6> QED BY <1>2, <3>3, <4>3, <6>2 DEF Pushed
        <5>4. CASE Rejected(f, down)
          <6>1. Busy(f) \in Frames /\ Busy(f) \in Refusing(Writing(p))
            BY <1>3, <1>13, FrameTypes, Kinds
          <6>2. In(Append(down, Busy(f)), Refusing(Writing(p)))
            BY <1>2, <6>1, AppendIn
          <6>3. In(down', Refusing(Writing(p)))
            BY <5>4, <6>2 DEF Rejected
          <6> QED BY <1>2, <3>3, <4>3, <6>3 DEF Pushed
        <5> QED BY <5>2, <5>3, <5>4
      <4> QED BY <4>2, <4>3
    <3> QED BY <3>2, <3>3
  <2>5. Known(p)'
    BY <1>2, <1>11, <2>4 DEF Known, Fine, More
  <2> QED BY <2>3, <2>5
<1> QED BY <1>12, <1>13

-----------------------------------------------------------------------------
(* The host task, the radio and people. *)

(* A client that is there comes into nothing, and one that is gone knows      *)
(* nothing.                                                                  *)
LEMMA SettledHost ==
  ASSUME Sound, Host \/ Connect \/ LinkDrops, NEW p \in Params, Parted(p), Known(p)
  PROVE  Parted(p)' /\ Known(p)'
<1>1. CASE Disconnected \/ Connect \/ LinkDrops
  <2>1. ~Sendable'
    BY <1>1 DEF Disconnected, Connect, LinkDrops, Sendable, app
  <2> QED BY <2>1 DEF Parted, Known, Syncing, Greeted
<1>2. CASE Subscribe \/ ctrl_proto_link_reset
  <2>1. UNCHANGED <<store, marking, s_dirty, flush, radio, app, s_cmd_queue, down, lost, crossed>>
    BY <1>2 DEF Subscribe, ctrl_proto_link_reset, sent
  <2>2. /\ WishStays(p) /\ (Syncing' => Syncing) /\ (Greeted' => Greeted)
        /\ UNCHANGED <<m_discovering, m_requestRetryQueue, m_params>>
    BY <2>1, AppStays
  <2>3. SynthStays(p) /\ SentStays(p) /\ ToldStays(p) /\ More
    BY <2>1, <2>2, SameStays DEF SynthStays, SentStays, ToldStays, AskOnWay, More
  <2> QED BY <2>2, <2>3, AllStays
<1> QED BY <1>1, <1>2 DEF Host

(* A turn of the panel crosses the writes under way, or is marked.           *)
LEMMA SettledPanel ==
  ASSUME Sound, NEW q \in Params, NEW v \in Values, SetParam(q, v),
         NEW p \in Params, Parted(p), Known(p)
  PROVE  Parted(p)' /\ Known(p)'
<1>1. /\ TypeOK /\ TypeOK' /\ UNCHANGED <<s_dirty, flush, radio, app, s_cmd_queue, down, lost>>
      /\ store' = [store EXCEPT ![q] = v] /\ marking' = marking \cup {q}
      /\ crossed' = IF WriteOnWay(q) THEN crossed \cup {q} ELSE crossed
      /\ WriteOnWay(p) <=> Wanted(p)
      /\ ReportOnWay(p) <=> Reported(p)
      /\ WriteOnWay(p)' <=> Wanted(p)'
      /\ ReportOnWay(p)' <=> Reported(p)'
  BY OnWay, OnWayNext DEF Sound, Found, SetParam, sent
<1>2. /\ WishStays(p) /\ (Syncing' => Syncing) /\ (Greeted' => Greeted)
      /\ UNCHANGED <<m_discovering, m_requestRetryQueue, m_params>>
  BY <1>1, AppStays
<1>3. SentStays(p) /\ ToldStays(p) /\ More
  BY <1>1, <1>2, SameStays DEF SentStays, ToldStays, AskOnWay, More
<1>4. CASE p # q
  <2>1. SynthStays(p)
    BY <1>1, <1>4 DEF SynthStays, TypeOK, SynthType
  <2> QED BY <1>2, <1>3, <2>1, AllStays
<1>5. CASE p = q
  <2>1. Wanted(p)' <=> Wanted(p)
    BY <1>2, <1>3, PushedStays
  <2>2. Wanted(p) => p \in crossed'
    BY <1>1, <1>5
  <2>3. Coming(p)'
    BY <1>1, <1>5 DEF Coming
  <2> QED BY <1>1, <2>1, <2>2, <2>3 DEF Parted, Known, Fine
<1> QED BY <1>4, <1>5

(* A write is shown at once, and crosses the reports under way.              *)
LEMMA SettledWrite ==
  ASSUME Sound, NEW q \in Params, NEW v \in Values, setParam(q, v) \/ setParamNow(q, v),
         NEW p \in Params, Parted(p), Known(p)
  PROVE  Parted(p)' /\ Known(p)'
<1> USE DEF sync
<1>1. /\ TypeOK /\ TypeOK' /\ Taken /\ Taken' /\ Shown(q, v)
      /\ WriteOnWay(p) <=> Wanted(p)
      /\ ReportOnWay(p) <=> Reported(p)
      /\ WriteOnWay(p)' <=> Wanted(p)'
      /\ ReportOnWay(p)' <=> Reported(p)'
  BY OnWay, OnWayNext DEF Sound, Found, setParam, setParamNow
<1>2. /\ m_params \in [Params -> Values \cup {NoValue}] /\ m_params' = [m_params EXCEPT ![q] = v]
      /\ crossed' = IF ReportOnWay(q) THEN crossed \cup {q} ELSE crossed
      /\ UNCHANGED <<board, radio, m_connected, m_ready, m_discovering, m_requestRetryQueue,
                     s_cmd_queue, down, lost>>
      /\ m_setQueue \in Seq(Sets) /\ m_pendingSets \in Partial(Params, Values)
  BY <1>1 DEF Shown, sent, TypeOK, AppType, WriteType
<1>3. SynthStays(p) /\ SentStays(p) /\ ToldStays(p)
  BY <1>2, SameStays, BoardStays DEF SentStays, ToldStays, AskOnWay
<1>4. More
  BY <1>2 DEF More, Syncing, Greeted, Sendable
<1>5. /\ One(q, v) \in Partial(Params, Values) /\ DOMAIN One(q, v) = {q} /\ One(q, v)[q] = v
      /\ Set(One(q, v)) \in Sets /\ Set(One(q, v)) \in Commands
      /\ Set(One(q, v)).op = "set" /\ Set(One(q, v)).vals = One(q, v)
  <2>1. One(q, v) \in Partial(Params, Values) /\ DOMAIN One(q, v) = {q} /\ One(q, v)[q] = v
    BY PartialOps
  <2> QED BY <2>1, CommandTypes
<1>6. Set(One(q, v)) \in Writing(p) <=> p = q
  BY <1>5, Kinds
<1> DEFINE f == Set(One(q, v))
           u == Append(m_setQueue, f)
<1>7. /\ p # q => Same(m_setQueue, u, Writing(p), p)
      /\ p = q => Last(u, Writing(p), p, v)
  BY <1>2, <1>5, <1>6, SameAppend, AppendLast
<1> HIDE DEF f, u
<1>8. \/ setParam(q, v) /\ m_pendingSets' = Over(One(q, v), m_pendingSets)
         /\ m_setQueue' = m_setQueue
      \/ setParamNow(q, v) /\ m_pendingSets' = Only(m_pendingSets, Params \ {q})
         /\ m_setQueue' = u
  BY DEF setParam, setParamNow, f, u
<1>9. CASE p # q
  <2>1. /\ p \in DOMAIN m_pendingSets' <=> p \in DOMAIN m_pendingSets
        /\ p \in DOMAIN m_pendingSets => m_pendingSets'[p] = m_pendingSets[p]
    <3>1. CASE m_pendingSets' = Over(One(q, v), m_pendingSets)
      BY <1>5, <1>9, <3>1 DEF Over
    <3>2. CASE m_pendingSets' = Only(m_pendingSets, Params \ {q})
      BY <1>9, <3>2 DEF Only
    <3> QED BY <1>8, <3>1, <3>2
  <2>2. Same(m_setQueue, m_setQueue', Writing(p), p)
    BY <1>7, <1>8, <1>9, SameStays
  <2>3. WishStays(p)
    BY <1>2, <1>9, <2>1, <2>2 DEF WishStays
  <2> QED BY <1>2, <1>3, <1>4, <2>3, AllStays
<1>10. CASE p = q
  <2>1. m_params'[p] = v
    BY <1>2, <1>10
  <2>2. Reported(p)' <=> Reported(p)
    BY <1>2, <1>3 DEF Reported, ToldStays, Same, board
  <2>3. Parted(p)'
    BY <1>1, <1>2, <1>10, <2>2 DEF Parted
  <2>4. Pushed(p)'
    <3>1. CASE setParam(q, v) /\ m_pendingSets' = Over(One(q, v), m_pendingSets)
      <4>1. p \in DOMAIN m_pendingSets' /\ m_pendingSets'[p] = v
        BY <1>5, <1>10, <3>1 DEF Over
      <4> QED BY <2>1, <4>1 DEF Pushed
    <3>2. CASE m_pendingSets' = Only(m_pendingSets, Params \ {q}) /\ m_setQueue' = u
      <4>1. p \notin DOMAIN m_pendingSets'
        BY <1>10, <3>2 DEF Only
      <4>2. Last(m_setQueue', Writing(p), p, m_params'[p])
        BY <1>7, <1>10, <2>1, <3>2
      <4>3. In(m_setQueue', Writing(p))
        BY <4>2, LastIsIn
      <4> QED BY <4>1, <4>2, <4>3 DEF Pushed
    <3> QED BY <1>8, <3>1, <3>2
  <2> QED BY <2>3, <2>4 DEF Known, Fine
<1> QED BY <1>9, <1>10

(* A key and an engine have nothing to do with a parameter. *)
LEMMA SettledOther ==
  ASSUME Sound, \/ \E n \in Notes : noteOn(n) \/ noteOff(n)
                \/ \E e \in Engines : EngineSwitched(e),
         NEW p \in Params, Parted(p), Known(p)
  PROVE  Parted(p)' /\ Known(p)'
<1> USE DEF sync, wish
<1>1. ASSUME NEW n \in Notes, noteOn(n) \/ noteOff(n) PROVE Parted(p)' /\ Known(p)'
  <2>1. /\ UNCHANGED <<board, radio, m_connected, m_params, m_ready, m_discovering, wish,
                       m_requestRetryQueue, crossed>>
        /\ TypeOK /\ down \in Seq(Frames)
    BY <1>1 DEF noteOn, noteOff, Sound, TypeOK, WireType
  <2>2. PICK f \in Commands : f.op \in {"on", "off"} /\ Send(f, down)
    BY <1>1, CommandTypes DEF noteOn, noteOff
  <2>3. f \notin Writing(p) /\ f \notin Asking
    BY <2>2, Kinds
  <2>4. /\ SentStays(p) /\ Same(down, down', Telling(p), p) /\ lost \subseteq lost'
        /\ AskOnWay' <=> AskOnWay
    BY <2>1, <2>2, <2>3, SendOn, SameStays
  <2>5. SynthStays(p) /\ WishStays(p) /\ ToldStays(p)
    BY <2>1, <2>4, SameStays, BoardStays DEF WishStays, ToldStays
  <2>6. More
    BY <2>1, <2>4 DEF More, Syncing, Greeted, Sendable
  <2> QED BY <2>1, <2>4, <2>5, <2>6, AllStays
<1>2. ASSUME NEW e \in Engines, EngineSwitched(e) PROVE Parted(p)' /\ Known(p)'
  <2>1. UNCHANGED <<store, marking, s_dirty, flush, radio, app, s_cmd_queue, down, lost, crossed>>
    BY <1>2 DEF EngineSwitched, sent
  <2>2. /\ WishStays(p) /\ (Syncing' => Syncing) /\ (Greeted' => Greeted)
        /\ UNCHANGED <<m_discovering, m_requestRetryQueue, m_params>>
    BY <2>1, AppStays
  <2>3. SynthStays(p) /\ SentStays(p) /\ ToldStays(p) /\ More
    BY <2>1, <2>2, SameStays DEF SynthStays, SentStays, ToldStays, AskOnWay, More
  <2> QED BY <2>2, <2>3, AllStays
<1> QED BY <1>1, <1>2

-----------------------------------------------------------------------------
(* The theorems. *)

(* At the start nobody is connected. *)
LEMMA StartHolds == Init => IInv
<1> SUFFICES ASSUME Init PROVE IInv
  OBVIOUS
<1>1. TypeOK
  BY TypeInit
<1>2. Session /\ ~Sendable
  BY Zenon DEF Init, Session, Sendable
<1>3. Taken /\ Alone
  BY DEF Init, Idle, Taken, Alone
<1>4. Keys
  <2> SUFFICES ASSUME NEW n \in Notes
               PROVE  n \notin sounding /\ Behind(s_cmd_queue, n)
    BY DEF Keys
  <2>1. sounding = {} /\ s_cmd_queue = <<>>
    BY DEF Init
  <2>2. DOMAIN s_cmd_queue = {}
    BY <2>1
  <2> QED BY <2>1, <2>2 DEF Behind
<1>5. Settled
  BY <1>2 DEF Settled, Parted, Known, Syncing, Greeted
<1> QED BY <1>1, <1>2, <1>3, <1>4, <1>5 DEF IInv

(* Every step keeps the last word on its way. *)
LEMMA StepSettled == Sound /\ Settled /\ Next => Settled'
<1> SUFFICES ASSUME Sound, Next, NEW p \in Params, Parted(p), Known(p)
             PROVE  Parted(p)' /\ Known(p)'
  BY DEF Settled
<1>1. CASE Synth
  BY <1>1, SettledHandle, SettledFlush DEF Synth
<1>2. CASE Host \/ Connect \/ LinkDrops
  BY <1>2, SettledHost
<1>3. CASE App
  BY <1>3, SettledPass, SettledList, SettledValues, SettledSetBusy, SettledRequestBusy,
     SettledRetry, SettledBatch, SettledDrain DEF App, Hears
<1>4. CASE People /\ ~Connect /\ ~LinkDrops
  BY <1>4, SettledPanel, SettledWrite, SettledOther DEF People
<1> QED BY <1>1, <1>2, <1>3, <1>4 DEF Next, People

(* The invariant is inductive. *)
LEMMA Inductive == IInv /\ [Next]_vars => IInv'
<1> SUFFICES ASSUME IInv, [Next]_vars PROVE IInv'
  OBVIOUS
<1>1. TypeOK'
  BY TypeStep DEF IInv
<1>2. CASE Next
  <2>1. Session' /\ Taken' /\ Alone' /\ Keys'
    BY <1>2, StepSession, StepTaken, StepAlone, StepKeys DEF IInv
  <2>2. Settled'
    BY <1>1, <1>2, <2>1, StepSettled DEF IInv, Sound
  <2> QED BY <1>1, <2>1, <2>2 DEF IInv
<1>3. CASE UNCHANGED vars
  <2> USE DEF vars, board, app, sync, wish, sent
  <2>1. Session' /\ Taken' /\ Alone'
    BY <1>3 DEF IInv, Session, Taken, Alone, Greeted, Sendable
  <2>2. Keys'
    BY <1>3 DEF IInv, Keys, Minded
  <2>3. Settled'
    <3>1. UNCHANGED <<app, radio>> /\ UNCHANGED <<store, marking, s_dirty, flush, s_cmd_queue,
                                                  down, lost, crossed>>
      BY <1>3
    <3>2. Sound
      BY <1>1, <2>1 DEF IInv, Sound
    <3> SUFFICES ASSUME NEW p \in Params, Parted(p), Known(p) PROVE Parted(p)' /\ Known(p)'
      BY DEF IInv, Settled
    <3>3. /\ WishStays(p) /\ (Syncing' => Syncing) /\ (Greeted' => Greeted)
          /\ UNCHANGED <<m_discovering, m_requestRetryQueue, m_params>>
      BY <3>1, AppStays
    <3>4. SynthStays(p) /\ SentStays(p) /\ ToldStays(p) /\ More
      BY <3>1, <3>3, SameStays DEF SynthStays, SentStays, ToldStays, AskOnWay, More
    <3> QED BY <3>2, <3>3, <3>4, AllStays
  <2> QED BY <1>1, <2>1, <2>2, <2>3 DEF IInv
<1> QED BY <1>2, <1>3

(* Every reachable state satisfies the invariant. *)
THEOREM Invariance == Spec => []IInv
BY StartHolds, Inductive, PTL DEF Spec

(* Every variable keeps its type, and the command queue its depth. *)
THEOREM Typing == Spec => []TypeOK
<1>1. IInv => TypeOK
  BY DEF IInv
<1> QED BY Invariance, <1>1, PTL

(* Wherever a connected application shows a value the synth does not have,    *)
(* what will settle it is still on its way.                                  *)
THEOREM ChangesReach == Spec => []ChangeNotForgotten
<1>1. IInv => ChangeNotForgotten
  <2> SUFFICES ASSUME IInv, Greeted, NEW p \in Params \ (crossed \cup lost)
               PROVE  m_params[p] = store[p] \/ WriteOnWay(p) \/ ReportOnWay(p)
    BY DEF ChangeNotForgotten, Greeted, IInv
  <2>1. WriteOnWay(p) <=> Wanted(p)
    BY OnWay DEF IInv, Found
  <2>2. ReportOnWay(p) <=> Reported(p)
    BY OnWay DEF IInv, Found
  <2>3. Fine(p)
    BY DEF IInv, Settled, Known
  <2>4. Pushed(p) => Wanted(p)
    BY PushedWanted
  <2>5. Coming(p) => Reported(p)
    BY DEF Coming, Reported
  <2>6. Told(p) => Reported(p) \/ m_params[p] = store[p]
    BY DEF Told, Reported
  <2> QED BY <2>1, <2>2, <2>3, <2>4, <2>5, <2>6 DEF Fine
<1> QED BY Invariance, <1>1, PTL

(* A key sounds only while the application holds it or its release is on the  *)
(* way, and not once the synth has seen the client go.                       *)
THEOREM KeysLetGo == Spec => []NoNoteLeftOn
<1>1. IInv => NoNoteLeftOn
  <2> SUFFICES ASSUME IInv, NEW n \in sounding \ orphans
               PROVE  \/ Note("off", n) \in Elems(s_cmd_queue)
                      \/ s_conn /\ (radio => n \in m_heldNotes)
    BY DEF NoNoteLeftOn
  <2>1. n \in Notes
    BY DEF IInv, TypeOK, KeyType
  <2> QED BY <2>1 DEF IInv, Keys, Minded
<1> QED BY Invariance, <1>1, PTL
=============================================================================
