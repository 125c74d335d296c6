--------------------------------- MODULE Link ---------------------------------
(***************************************************************************)
(* The application and the synth over Bluetooth:                            *)
(* components/ctrl_proto/ctrl_proto.cpp, components/ble_ctrl/ble_ctrl.cpp    *)
(* and app_osyntho/src/synthcontroller.cpp.                                 *)
(*                                                                         *)
(* On the synth the NimBLE host task takes what the radio brings: it queues  *)
(* a command, or answers BUSY when the queue is full, and tells the protocol *)
(* of a client come or gone. The protocol task runs the queue and flushes,   *)
(* some twenty times a second, what changed: a bit for each parameter, set   *)
(* by the store's listener on whatever task wrote it, except for a write of  *)
(* the application's own, which is never echoed. The application keeps a     *)
(* copy of every parameter, changes it at once and sends the write paced,    *)
(* and reads everything anew, list first, on each connection and on an       *)
(* engine's change.                                                          *)
(*                                                                         *)
(* Abstracted: a listing or a value read is one frame; its metadata walk is  *)
(* `pass`, which only ends; values are in range (what a set stores is        *)
(* ParamStore's); every parameter outlives an engine; the early read of      *)
(* kPriorityInfoIds, presets, patterns and dumps are left out. A frame       *)
(* written is with the host task at once: it waits where it is queued, on     *)
(* either side, not in the air. The pacing and back-off timers are any        *)
(* delay; no write has aged out of the kSetSentHistory last ones when its     *)
(* BUSY comes. What voices do with a key is VoiceManager and Chord.           *)
(***************************************************************************)
EXTENDS Integers, Sequences

CONSTANTS
  Params, Values, Engines, Notes,
  NoValue,         \* of a parameter the application has not read, of no engine
  Defaults, FirstEngine,  \* the parameters and the engine at boot
  CmdDepth,        \* kCmdQueueDepth
  ListRetries,     \* kListRetries
  RequestRetries,  \* kRequestRetries
  Budgets          \* bounds: how often people do each of AllMoves, and how often the
                   \* link drops or a notification gets no buffer, one of these at a time

AllMoves == {"panel", "write", "key", "engine"}

ASSUME DepthAssumption == /\ CmdDepth \in Nat \ {0}
                          /\ ListRetries \in Nat /\ RequestRetries \in Nat
ASSUME ValueAssumption == NoValue \notin Values \cup Engines
ASSUME BootAssumption == Defaults \in [Params -> Values] /\ FirstEngine \in Engines
ASSUME MoveAssumption == Budgets \subseteq [moves : [AllMoves -> Nat], faults : Nat]

VARIABLES
  \* the synth
  store, marking,      \* the parameters; those written whose listener is to run
  s_dirty, engine, s_announced_engine,
  s_conn, s_evt_sub, greeting,  \* greeting: subscribed, link_reset() to come
  s_cmd_queue,
  flush,               \* flush_events(), where it is and its locals
  sounding,            \* the keys the application has down, as the synth has it
  \* the radio: whether there is a link, and what the application has yet to hear
  radio, down,
  \* the application
  m_connected, m_engine, m_params, m_ready, m_discovering,
  m_listSeq, m_listRetries,
  m_pendingSets, m_setQueue, m_requestRetryQueue, m_heldNotes,
  \* history: parameters whose write and report passed each other, those a lost
  \* frame was the last word on, keys whose release never comes, an engine that
  \* came back before anybody was told it had gone; what is left of the budget
  crossed, lost, orphans, swung, moves, faults

board  == <<store, marking, s_dirty, engine, s_announced_engine, s_conn, s_evt_sub,
            greeting, flush, sounding, swung>>
sync   == <<m_engine, m_ready, m_discovering, m_listSeq, m_listRetries>>
wish   == <<m_pendingSets, m_setQueue>>
app    == <<m_connected, m_params, sync, wish, m_requestRetryQueue, m_heldNotes>>
sent   == <<s_cmd_queue, down, lost, orphans, faults>>  \* what sending touches
vars   == <<board, radio, app, sent, crossed, moves>>

Partial(S, T) == UNION {[D -> T] : D \in SUBSET S}
Only(f, D)    == [x \in DOMAIN f \cap D |-> f[x]]
Over(f, g)    == [x \in DOMAIN f \cup DOMAIN g |-> IF x \in DOMAIN f THEN f[x] ELSE g[x]]
One(p, v)     == [x \in {p} |-> v]
NoVals        == [x \in {} |-> NoValue]
Elems(s)      == {s[i] : i \in DOMAIN s}

Move(m) == moves[m] > 0 /\ moves' = [moves EXCEPT ![m] = @ - 1]
Fault   == faults > 0 /\ faults' = faults - 1

(***************************************************************************)
(* Frames                                                                   *)
(***************************************************************************)
Set(vals)     == [op |-> "set", vals |-> vals]
Get(n)        == [op |-> "get", retries |-> n]
List(k)       == [op |-> "list", seq |-> k]
Note(op, n)   == [op |-> op, note |-> n]
Evt(vals)     == [op |-> "params", vals |-> vals]
EvtEngine(e)  == [op |-> "engine", eng |-> e]
Listing(k, e) == [op |-> "listing", seq |-> k, eng |-> e]
Busy(f)       == [op |-> "busy", of |-> f]

Sets     == [op : {"set"}, vals : Partial(Params, Values)]
Gets     == [op : {"get"}, retries : 0 .. RequestRetries]
Commands == Sets \cup Gets \cup [op : {"list"}, seq : Nat] \cup [op : {"on", "off"}, note : Notes]
Frames   == [op : {"params"}, vals : Partial(Params, Values)] \cup [op : {"engine"}, eng : Engines]
            \cup [op : {"listing"}, seq : Nat, eng : Engines] \cup [op : {"busy"}, of : Commands]

Refused == {down[i].of : i \in {j \in DOMAIN down : down[j].op = "busy"}}
Unheard == Elems(s_cmd_queue) \cup Refused

\* The ids a command writes, and those whose value a frame tells or asks for.
Writes(f) == IF f.op = "set" THEN DOMAIN f.vals ELSE {}
Tells(f)  == IF f.op = "params" THEN DOMAIN f.vals
             ELSE IF f.op = "get" THEN Params ELSE {}

\* A write of p the synth has not had, and a report of p the application has not.
WriteOnWay(p)  == \/ p \in DOMAIN m_pendingSets
                  \/ \E f \in Unheard \cup Elems(m_setQueue) : p \in Writes(f)
ReportOnWay(p) == \/ p \in marking \cup s_dirty \cup flush.taken
                  \/ m_discovering = "list"
                  \/ \E f \in Unheard \cup Elems(down) \cup Elems(m_requestRetryQueue) :
                       p \in Tells(f)

(***************************************************************************)
(* Sending. A notification needs a subscribed client and a buffer; what is   *)
(* sent into a link that is gone is lost. Nothing tells the application.      *)
(***************************************************************************)
tp_link_up == s_conn /\ s_evt_sub
Notify(f)  == /\ tp_link_up
              /\ down' = IF radio THEN Append(down, f) ELSE down
              /\ UNCHANGED faults
Fails      == /\ UNCHANGED down
              /\ IF tp_link_up THEN Fault ELSE UNCHANGED faults

\* ctrl_access() takes f, the application having heard all but `rest`: it is
\* queued, or answered BUSY. A write or a value read whose BUSY is lost too is
\* gone, and so is a release that is refused.
Accept(f, rest) == /\ Len(s_cmd_queue) < CmdDepth
                   /\ s_cmd_queue' = Append(s_cmd_queue, f)
                   /\ down' = rest
                   /\ UNCHANGED <<lost, orphans, faults>>
Refuse(f, rest) == /\ Len(s_cmd_queue) = CmdDepth
                   /\ \/ /\ down' = Append(rest, Busy(f))
                         /\ UNCHANGED <<lost, faults>>
                      \/ /\ down' = rest /\ Fault
                         /\ lost' = lost \cup Writes(f) \cup Tells(f)
                   /\ orphans' = IF f.op = "off" THEN orphans \cup {f.note} ELSE orphans
                   /\ UNCHANGED s_cmd_queue

Sendable   == m_connected /\ radio
Hear(rest) == down' = rest /\ UNCHANGED <<s_cmd_queue, lost, orphans, faults>>

\* sendWithSeq(): nothing leaves when not connected.
Send(f, rest) == IF Sendable THEN Accept(f, rest) \/ Refuse(f, rest) ELSE Hear(rest)

Idle == [pc |-> "wait", live |-> FALSE, eng |-> NoValue, taken |-> {}, vals |-> NoVals]

Init == /\ store = Defaults /\ engine = FirstEngine
        /\ marking = {} /\ s_dirty = {} /\ s_announced_engine = NoValue
        /\ s_conn = FALSE /\ s_evt_sub = FALSE /\ greeting = FALSE
        /\ s_cmd_queue = <<>> /\ flush = Idle /\ sounding = {}
        /\ radio = FALSE /\ down = <<>>
        /\ m_connected = FALSE /\ m_engine = NoValue
        /\ m_params = [p \in Params |-> NoValue]
        /\ m_ready = FALSE /\ m_discovering = "no"
        /\ m_listSeq = 0 /\ m_listRetries = 0
        /\ m_pendingSets = NoVals /\ m_setQueue = <<>> /\ m_requestRetryQueue = <<>>
        /\ m_heldNotes = {}
        /\ crossed = {} /\ lost = {} /\ orphans = {} /\ swung = FALSE
        /\ \E b \in Budgets : moves = b.moves /\ faults = b.faults

(***************************************************************************)
(* The synth's own changes. ParamStore::set() stores, then calls listeners.  *)
(***************************************************************************)
SetParam(p, v) == /\ p \notin marking /\ v # store[p] /\ Move("panel")
                  /\ store' = [store EXCEPT ![p] = v]
                  /\ marking' = marking \cup {p}
                  /\ crossed' = IF WriteOnWay(p) THEN crossed \cup {p} ELSE crossed
                  /\ UNCHANGED <<s_dirty, engine, s_announced_engine, s_conn, s_evt_sub,
                                 greeting, flush, sounding, swung, radio, app, sent>>

param_listener(p) == /\ p \in marking
                     /\ marking' = marking \ {p}
                     /\ s_dirty' = s_dirty \cup {p}
                     /\ UNCHANGED <<store, engine, s_announced_engine, s_conn, s_evt_sub,
                                    greeting, flush, sounding, swung, radio, app, sent, crossed,
                                   moves>>

EngineSwitched(e) == /\ e # engine /\ Move("engine")
                     /\ engine' = e
                     /\ swung' = (e = s_announced_engine)
                     /\ UNCHANGED <<store, marking, s_dirty, s_announced_engine, s_conn,
                                    s_evt_sub, greeting, flush, sounding, radio, app, sent,
                                    crossed>>

(***************************************************************************)
(* The protocol task: handle_frame() and flush_events().                     *)
(***************************************************************************)
\* A reply that does not go out is lost. A lost list is asked for again; nothing
\* asks again for what a lost value read would have told.
Reply(f) == \/ Notify(f) /\ UNCHANGED lost
            \/ Fails /\ lost' = lost \cup Tells(f)

\* The keys the commands in q will still put down, after everything was let go.
StillOn(q) == {n \in Notes : \E i \in DOMAIN q :
                 /\ q[i] = Note("on", n)
                 /\ \A j \in i + 1 .. Len(q) : q[j] # Note("off", n)}

HandleSet(f)  == /\ f.op = "set"
                 /\ store' = Over(f.vals, store)
                 /\ UNCHANGED <<sounding, down, lost, orphans, faults>>
HandleGet(f)  == /\ f.op = "get"
                 /\ Reply(Evt(store))
                 /\ UNCHANGED <<store, sounding, orphans>>
HandleList(f) == /\ f.op = "list"
                 /\ Reply(Listing(f.seq, engine))
                 /\ UNCHANGED <<store, sounding, orphans>>
HandleNote(f) == /\ \/ f.op = "on" /\ sounding' = sounding \cup {f.note} /\ UNCHANGED orphans
                    \/ /\ f.op = "off" /\ sounding' = sounding \ {f.note}
                       /\ orphans' = orphans \ ({f.note} \ StillOn(Tail(s_cmd_queue)))
                 /\ UNCHANGED <<store, down, lost, faults>>

HandleFrame == /\ flush.pc = "wait" /\ s_cmd_queue # <<>>
               /\ s_cmd_queue' = Tail(s_cmd_queue)
               /\ LET f == Head(s_cmd_queue) IN
                    HandleSet(f) \/ HandleGet(f) \/ HandleList(f) \/ HandleNote(f)
               /\ UNCHANGED <<marking, s_dirty, engine, s_announced_engine, s_conn,
                              s_evt_sub, greeting, flush, swung, radio, app, crossed, moves>>

\* The rest of the board and the application, which a flush leaves alone.
Aside == UNCHANGED <<store, marking, engine, s_conn, s_evt_sub, greeting, s_cmd_queue,
                     sounding, radio, app, crossed, lost, orphans, moves>>

\* Mutation: an engine event that got no buffer counts as announced.
FailedCounts(e) == [Idle EXCEPT !.pc = "announced", !.live = TRUE, !.eng = e]
Unannounced(e)  == [Idle EXCEPT !.pc = "take", !.live = TRUE]

\* The top of flush_events(): is anyone there, and does it know the engine. A
\* pass that would find nothing to do is left out.
FlushEngine ==
  /\ flush.pc = "wait"
  /\ s_dirty # {} \/ (tp_link_up /\ engine # s_announced_engine)
  /\ IF tp_link_up /\ engine # s_announced_engine
     THEN \/ /\ Notify(EvtEngine(engine)) /\ swung' = FALSE
             /\ flush' = [Idle EXCEPT !.pc = "announced", !.live = TRUE, !.eng = engine]
          \/ Fails /\ flush' = Unannounced(engine) /\ UNCHANGED swung
     ELSE /\ flush' = [Idle EXCEPT !.pc = "take", !.live = tp_link_up]
          /\ UNCHANGED <<down, faults, swung>>
  /\ UNCHANGED <<s_dirty, s_announced_engine>> /\ Aside

FlushAnnounced == /\ flush.pc = "announced"
                  /\ s_announced_engine' = flush.eng
                  /\ flush' = [flush EXCEPT !.pc = "take"]
                  /\ UNCHANGED <<s_dirty, down, faults, swung>> /\ Aside

\* The whole set is taken before any value is read; with nobody there it is dropped.
FlushTake == /\ flush.pc = "take"
             /\ s_dirty' = {}
             /\ flush' = IF flush.live /\ s_dirty # {}
                         THEN [flush EXCEPT !.pc = "read", !.taken = s_dirty] ELSE Idle
             /\ UNCHANGED <<s_announced_engine, down, faults, swung>> /\ Aside

FlushRead == /\ flush.pc = "read"
             /\ flush' = [flush EXCEPT !.pc = "send", !.vals = Only(store, flush.taken)]
             /\ UNCHANGED <<s_dirty, s_announced_engine, down, faults, swung>> /\ Aside

\* Mutation: a report that got no buffer is not marked again.
NotRearmed == s_dirty
Rearmed    == s_dirty \cup flush.taken

\* EVT_PARAMS goes out, or the whole set is dirty again.
FlushSend == /\ flush.pc = "send"
             /\ \/ Notify(Evt(flush.vals)) /\ UNCHANGED s_dirty
                \/ Fails /\ s_dirty' = Rearmed
             /\ flush' = Idle
             /\ UNCHANGED <<s_announced_engine, swung>> /\ Aside

Flush == FlushEngine \/ FlushAnnounced \/ FlushTake \/ FlushRead \/ FlushSend

(***************************************************************************)
(* The NimBLE host task: gap_event(). The radio comes and goes.              *)
(***************************************************************************)
Connect == /\ ~radio /\ ~s_conn /\ ~m_connected
           /\ radio' = TRUE /\ s_conn' = TRUE
           /\ UNCHANGED <<store, marking, s_dirty, engine, s_announced_engine, s_evt_sub,
                          greeting, flush, sounding, swung, app, sent, crossed, moves>>

Subscribe == /\ radio /\ s_conn /\ ~s_evt_sub
             /\ s_evt_sub' = TRUE /\ greeting' = TRUE
             /\ UNCHANGED <<store, marking, s_dirty, engine, s_announced_engine, s_conn,
                            flush, sounding, swung, radio, app, sent, crossed, moves>>

ctrl_proto_link_reset == /\ greeting
                         /\ greeting' = FALSE
                         /\ s_announced_engine' = NoValue
                         /\ UNCHANGED <<store, marking, s_dirty, engine, s_conn, s_evt_sub,
                                        flush, sounding, swung, radio, app, sent, crossed,
                                        moves>>

LinkDrops == /\ radio /\ Fault
             /\ radio' = FALSE /\ down' = <<>>
             /\ UNCHANGED <<board, app, s_cmd_queue, lost, orphans, crossed, moves>>

\* Mutation: a client that is gone keeps its keys.
KeepKeys == sounding

\* ctrl_proto_link_down() lets every key go.
LetGo == {}

Disconnected == /\ ~radio /\ s_conn /\ ~greeting
                /\ s_conn' = FALSE /\ s_evt_sub' = FALSE
                /\ sounding' = LetGo /\ orphans' = StillOn(s_cmd_queue)
                /\ UNCHANGED <<store, marking, s_dirty, engine, s_announced_engine, greeting,
                               flush, swung, radio, app, s_cmd_queue, down, lost, faults,
                               crossed, moves>>

(***************************************************************************)
(* The application: SynthController.                                        *)
(***************************************************************************)
resetState == /\ m_ready' = FALSE /\ m_discovering' = "no"
              /\ m_listSeq' = 0 /\ m_listRetries' = 0
              /\ m_params' = [p \in Params |-> NoValue]
              /\ m_pendingSets' = NoVals /\ m_setQueue' = <<>>
              /\ m_requestRetryQueue' = <<>> /\ m_heldNotes' = {}

setConnected(c) == /\ m_connected' = c
                   /\ resetState
                   /\ crossed' = {} /\ lost' = {}
                   /\ UNCHANGED <<board, s_cmd_queue, radio, down, m_engine, orphans,
                                  faults, moves>>

Connected == radio /\ s_evt_sub /\ ~m_connected /\ setConnected(TRUE)
Dropped   == ~radio /\ m_connected /\ setConnected(FALSE)

\* A list goes by a number of its own; only the last one's answer counts. What is
\* read from here on passes the writes that have not left.
beginDiscovery(rest) == /\ m_discovering' = "list"
                        /\ m_listSeq' = m_listSeq + 1
                        /\ m_listRetries' = ListRetries
                        /\ Send(List(m_listSeq + 1), rest)
                        /\ crossed' = crossed \cup {p \in Params : WriteOnWay(p)}

\* The 300 ms after a connection, if no greeting has begun a pass meanwhile.
FallbackFires ==
  /\ m_connected /\ m_discovering = "no" /\ ~m_ready /\ m_listSeq = 0
  /\ beginDiscovery(down)
  /\ UNCHANGED <<board, radio, m_connected, m_engine, m_params, m_ready, wish,
                 m_requestRetryQueue, m_heldNotes, moves>>

\* The list watchdog. By then the synth has drained its queue and an answer has come.
Answered == /\ s_cmd_queue = <<>>
            /\ \A f \in Elems(down) : f.op = "listing" => f.seq # m_listSeq

Watchdog ==
  /\ m_discovering = "list" /\ Answered
  /\ IF m_listRetries = 0
     THEN m_discovering' = "no" /\ Hear(down) /\ UNCHANGED <<m_listRetries, m_listSeq>>
     ELSE /\ m_listRetries' = m_listRetries - 1
          /\ m_listSeq' = m_listSeq + 1
          /\ Send(List(m_listSeq + 1), down)
          /\ UNCHANGED m_discovering
  /\ UNCHANGED <<board, radio, m_connected, m_engine, m_params, m_ready, wish,
                 m_requestRetryQueue, m_heldNotes, crossed, moves>>

finishDiscovery == /\ m_discovering = "pass"
                   /\ m_discovering' = "no"
                   /\ UNCHANGED <<board, radio, m_connected, m_engine, m_params, m_ready,
                                  m_listSeq, m_listRetries, wish, m_requestRetryQueue,
                                  m_heldNotes, sent, crossed, moves>>

\* handleFrame(): the head of `down`, by its kind.
Heard(op) == down # <<>> /\ Head(down).op = op

handleParamValues ==
  /\ Heard("params")
  /\ m_params' = Over(Head(down).vals, m_params)
  /\ Hear(Tail(down))
  /\ UNCHANGED <<board, radio, m_connected, sync, wish, m_requestRetryQueue, m_heldNotes,
                 crossed, moves>>

\* A greeting during a pass is not news; another engine is, and so is every
\* event outside one.
handleEngineEvent ==
  /\ Heard("engine")
  /\ m_engine' = Head(down).eng
  /\ IF m_discovering # "no" /\ Head(down).eng = m_engine
     THEN Hear(Tail(down)) /\ UNCHANGED <<m_discovering, m_listSeq, m_listRetries, crossed>>
     ELSE beginDiscovery(Tail(down))
  /\ UNCHANGED <<board, radio, m_connected, m_params, m_ready, wish, m_requestRetryQueue,
                 m_heldNotes, moves>>

\* The list asked for last: the values are asked for at once. Any other is stale.
onParamListComplete ==
  /\ Heard("listing")
  /\ IF m_discovering = "list" /\ Head(down).seq = m_listSeq
     THEN /\ m_discovering' = "pass" /\ m_ready' = TRUE
          /\ m_engine' = Head(down).eng
          /\ Send(Get(RequestRetries), Tail(down))
     ELSE Hear(Tail(down)) /\ UNCHANGED <<m_discovering, m_ready, m_engine>>
  /\ UNCHANGED <<board, radio, m_connected, m_params, m_listSeq, m_listRetries, wish,
                 m_requestRetryQueue, m_heldNotes, crossed, moves>>

\* A refused write goes back to the head of the queue. If a later write of the
\* same parameter has left already, the older one now lands last.
Overtaken(f) == {p \in Writes(f) : /\ m_params[p] # f.vals[p]
                                   /\ p \notin DOMAIN m_pendingSets
                                   /\ \A g \in Elems(m_setQueue) : p \notin Writes(g)}

onSetBusy ==
  /\ Heard("busy") /\ Head(down).of.op = "set"
  /\ m_setQueue' = <<Head(down).of>> \o m_setQueue
  /\ crossed' = crossed \cup Overtaken(Head(down).of)
  /\ Hear(Tail(down))
  /\ UNCHANGED <<board, radio, m_connected, m_params, sync, m_pendingSets,
                 m_requestRetryQueue, m_heldNotes, moves>>

\* A value read is asked again a bounded number of times; notes and lists are not.
onRequestBusy ==
  /\ Heard("busy") /\ Head(down).of.op # "set"
  /\ LET f == Head(down).of
         again == f.op = "get" /\ f.retries > 0 IN
       /\ m_requestRetryQueue' = IF again THEN Append(m_requestRetryQueue, Get(f.retries - 1))
                                 ELSE m_requestRetryQueue
       /\ lost' = IF again THEN lost ELSE lost \cup Tells(f)
  /\ down' = Tail(down)
  /\ UNCHANGED <<board, radio, m_connected, m_params, sync, wish, m_heldNotes,
                 s_cmd_queue, orphans, faults, crossed, moves>>

drainRequestRetryQueue ==
  /\ m_requestRetryQueue # <<>>
  /\ m_requestRetryQueue' = Tail(m_requestRetryQueue)
  /\ Send(Head(m_requestRetryQueue), down)
  /\ UNCHANGED <<board, radio, m_connected, m_params, sync, wish, m_heldNotes, crossed, moves>>

\* setParam() and setParamNow(): shown at once; batched with the rest, or queued
\* at once in place of what the batch held.
Shown(p, v) == /\ m_ready /\ v # m_params[p] /\ Move("write")
               /\ m_params' = [m_params EXCEPT ![p] = v]
               /\ crossed' = IF ReportOnWay(p) THEN crossed \cup {p} ELSE crossed
               /\ UNCHANGED <<board, radio, m_connected, sync, m_requestRetryQueue,
                              m_heldNotes, sent>>

setParam(p, v)    == /\ Shown(p, v)
                     /\ m_pendingSets' = Over(One(p, v), m_pendingSets)
                     /\ UNCHANGED m_setQueue
setParamNow(p, v) == /\ Shown(p, v)
                     /\ m_pendingSets' = Only(m_pendingSets, Params \ {p})
                     /\ m_setQueue' = Append(m_setQueue, Set(One(p, v)))

flushPendingSets == /\ DOMAIN m_pendingSets # {}
                    /\ m_setQueue' = Append(m_setQueue, Set(m_pendingSets))
                    /\ m_pendingSets' = NoVals
                    /\ UNCHANGED <<board, radio, m_connected, m_params, sync,
                                   m_requestRetryQueue, m_heldNotes, sent, crossed, moves>>

drainSetQueue == /\ m_setQueue # <<>>
                 /\ m_setQueue' = Tail(m_setQueue)
                 /\ Send(Head(m_setQueue), down)
                 /\ UNCHANGED <<board, radio, m_connected, m_params, sync, m_pendingSets,
                                m_requestRetryQueue, m_heldNotes, crossed, moves>>

noteOn(n)  == /\ m_connected /\ n \notin m_heldNotes /\ Move("key")
              /\ m_heldNotes' = m_heldNotes \cup {n}
              /\ Send(Note("on", n), down)
              /\ UNCHANGED <<board, radio, m_connected, m_params, sync, wish,
                             m_requestRetryQueue, crossed>>
noteOff(n) == /\ n \in m_heldNotes
              /\ m_heldNotes' = m_heldNotes \ {n}
              /\ Send(Note("off", n), down)
              /\ UNCHANGED <<board, radio, m_connected, m_params, sync, wish,
                             m_requestRetryQueue, crossed, moves>>

Synth  == HandleFrame \/ Flush \/ \E p \in Params : param_listener(p)
Host   == Subscribe \/ ctrl_proto_link_reset \/ Disconnected
Hears  == \/ handleParamValues \/ handleEngineEvent \/ onParamListComplete
          \/ onSetBusy \/ onRequestBusy
App    == \/ Connected \/ Dropped \/ FallbackFires \/ Watchdog \/ finishDiscovery \/ Hears
          \/ drainRequestRetryQueue \/ flushPendingSets \/ drainSetQueue
People == \/ \E p \in Params, v \in Values : SetParam(p, v) \/ setParam(p, v) \/ setParamNow(p, v)
          \/ \E n \in Notes : noteOn(n) \/ noteOff(n)
          \/ \E e \in Engines : EngineSwitched(e)
          \/ Connect \/ LinkDrops

Next == Synth \/ Host \/ App \/ People
Spec == Init /\ [][Next]_vars

\* The tasks run, the timers fire, and a link that is gone is found gone.
FairSpec == /\ Spec
            /\ \A p \in Params : WF_vars(param_listener(p))
            /\ WF_vars(HandleFrame) /\ WF_vars(Flush)
            /\ WF_vars(Subscribe) /\ WF_vars(ctrl_proto_link_reset) /\ WF_vars(Disconnected)
            /\ WF_vars(Connected) /\ WF_vars(Dropped)
            /\ WF_vars(FallbackFires) /\ WF_vars(Watchdog) /\ WF_vars(Hears)
            /\ WF_vars(drainRequestRetryQueue)
            /\ WF_vars(flushPendingSets) /\ WF_vars(drainSetQueue)

(***************************************************************************)
(* Properties                                                               *)
(***************************************************************************)
Flushes   == [pc : {"wait", "announced", "take", "read", "send"}, live : BOOLEAN,
              eng : Engines \cup {NoValue}, taken : SUBSET Params, vals : Partial(Params, Values)]
SynthType == /\ store \in [Params -> Values] /\ engine \in Engines
             /\ marking \subseteq Params /\ s_dirty \subseteq Params
             /\ s_announced_engine \in Engines \cup {NoValue} /\ flush \in Flushes
WireType  == /\ s_conn \in BOOLEAN /\ s_evt_sub \in BOOLEAN /\ greeting \in BOOLEAN
             /\ s_cmd_queue \in Seq(Commands) /\ Len(s_cmd_queue) <= CmdDepth
             /\ radio \in BOOLEAN /\ down \in Seq(Frames)
KeyType   == sounding \subseteq Notes /\ m_heldNotes \subseteq Notes /\ orphans \subseteq Notes
AppType   == /\ m_connected \in BOOLEAN /\ m_ready \in BOOLEAN
             /\ m_engine \in Engines \cup {NoValue}
             /\ m_params \in [Params -> Values \cup {NoValue}]
             /\ m_discovering \in {"no", "list", "pass"}
             /\ m_listSeq \in Nat /\ m_listRetries \in 0 .. ListRetries
WriteType == /\ m_pendingSets \in Partial(Params, Values) /\ m_setQueue \in Seq(Sets)
             /\ m_requestRetryQueue \in Seq(Gets)
             /\ crossed \subseteq Params /\ lost \subseteq Params /\ swung \in BOOLEAN
TypeOK    == SynthType /\ WireType /\ KeyType /\ AppType /\ WriteType

\* Wherever a connected application shows a value the synth does not have, the
\* report or the write that will settle it is still on its way: marked, taken,
\* asked for, queued, or refused and to be sent again. A report that failed is
\* never the last of it.
ChangeNotForgotten ==
  /\ TypeOK
  /\ Sendable /\ m_ready => \A p \in Params \ (crossed \cup lost) :
       m_params[p] = store[p] \/ WriteOnWay(p) \/ ReportOnWay(p)

\* A key sounds only while the application holds it or its release is queued,
\* and not once the synth has seen the client go; but for a release the full
\* queue refused, and a press it still held when the client went.
NoNoteLeftOn ==
  \A n \in sounding \ orphans :
    \/ Note("off", n) \in Elems(s_cmd_queue)
    \/ s_conn /\ (radio => n \in m_heldNotes)

\* When people leave off, an application that stays connected comes to know the
\* engine, unless that went and came back unannounced, and every parameter as the
\* synth has it.
InStep == /\ m_ready /\ (m_engine = engine \/ swung)
          /\ \A p \in Params \ (crossed \cup lost) : m_params[p] = store[p]
Synchronises == <>[](Sendable => InStep)
===============================================================================
