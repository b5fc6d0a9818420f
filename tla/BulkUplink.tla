----------------------------- MODULE BulkUplink -----------------------------
(***************************************************************************)
(* A bulk stream from the board to the App: AGENT_STREAM_AUDIO (0x52/0x53) *)
(* or AGENT_STREAM_IMAGE (0x54/0x55) of transports/ble/transport_ble.cpp   *)
(* under the stream API of core/agent_link.cpp.                            *)
(*                                                                         *)
(* Three threads: the board's task (api) opens, writes and closes; a       *)
(* worker task per stream (wk) drains the queue into an L2CAP channel; the *)
(* NimBLE host task reports channel and link events.  The start and the    *)
(* end of a stream travel as GATT notifications (ev), its bytes over L2CAP *)
(* (air), and neither waits for the other.                                 *)
(*                                                                         *)
(* A unit <<t, k>> is the k-th SDU the board tried to write to transfer t. *)
(* Opening an L2CAP channel takes longer than the worker's 10 ms polls,    *)
(* and reconnecting longer than its 120 ms start delay.                    *)
(***************************************************************************)
EXTENDS Naturals, Sequences, Functions

CONSTANTS
  Kind,         \* "audio" or "image"
  QueueCap,     \* kRecQueueHardCap or kImgQueueHardCap, in SDUs
  MaxWrite,     \* SDUs in the largest write
  Attempts,     \* notifications tried for a start or an end event
  Window,       \* L2CAP credits of a fresh channel
  MaxTransfers, \* bound: transfers
  MaxUnits,     \* bound: SDUs the board tries to write, over all transfers
  MaxFaults,    \* bound: faults
  Faults        \* which faults happen

FaultKinds == {"notify", "task", "pool", "channel", "link"}

ASSUME UplinkAssumption ==
  /\ Kind \in {"audio", "image"}
  /\ QueueCap \in Nat /\ MaxWrite \in Nat \ {0} /\ Attempts \in Nat \ {0} /\ Window \in Nat
  /\ MaxTransfers \in Nat /\ MaxUnits \in Nat /\ MaxFaults \in Nat
  /\ Faults \subseteq FaultKinds

Transfers == 1..MaxTransfers
Numbers == Nat \ {0}
Units == Transfers \X Numbers

VARIABLES
  rec,    \* s_rec or s_img: flags, transfer id, bytes handed to L2CAP, queue
  wk,     \* worker: program counter, the end_req it read, chunk in hand, verdict, attempts
  api,    \* board task inside stream_open: program counter, attempts
  slot,   \* the stream slot of the core is open
  board,  \* per transfer: units the board tried to write, how it closed the stream
  l2c,    \* link, channel, peer's credits, SDU waiting for credit, s_l2cap_stalled
  air,    \* SDUs under way to the App
  ev,     \* start and end events under way to the App
  app,    \* the App: transfer it has open, what it got and the end it was told of each
  faults

vars == <<rec, wk, api, slot, board, l2c, air, ev, app, faults>>

Worker0 == [pc |-> "free", end |-> FALSE, chunk |-> <<>>, ok |-> FALSE, tries |-> 0]
NotTold == [told |-> FALSE, ok |-> FALSE, valid |-> 0]

Init ==
  /\ rec = [active |-> FALSE, end_req |-> FALSE, truncated |-> FALSE, complete |-> TRUE,
            tid |-> 0, sent |-> 0, q |-> <<>>, queued |-> 0]
  /\ wk = Worker0
  /\ api = [pc |-> "idle", tries |-> 0]
  /\ slot = FALSE
  /\ board = [t \in Transfers |-> [tried |-> 0, closed |-> "no"]]
  /\ l2c = [link |-> TRUE, chan |-> FALSE, credit |-> 0, pend |-> <<>>, stalled |-> FALSE]
  /\ air = <<>> /\ ev = <<>>
  /\ app = [session |-> 0, got |-> [t \in Transfers |-> <<>>], end |-> [t \in Transfers |-> NotTold]]
  /\ faults = 0

Fault(k) == k \in Faults /\ faults < MaxFaults /\ faults' = faults + 1

-----------------------------------------------------------------------------
(* Board task: agent_link_stream_open, _write, _close *)

\* stream_open on a closed slot: ready, no stream of this kind active, channel open.  A refusal
\* changes nothing.
BoardOpen ==
  /\ api.pc = "idle" /\ ~slot /\ rec.tid < MaxTransfers
  /\ l2c.link /\ l2c.chan /\ ~rec.active
  /\ api' = [api EXCEPT !.pc = "reset"]
  /\ UNCHANGED <<rec, wk, slot, board, l2c, air, ev, app, faults>>

\* AudioStreamStart, ImageStart: the new transfer starts from nothing.
StartReset ==
  /\ api.pc = "reset"
  /\ rec' = [rec EXCEPT !.q = <<>>, !.queued = 0, !.sent = 0, !.end_req = FALSE,
                        !.truncated = FALSE, !.complete = TRUE, !.tid = @ + 1]
  /\ api' = [pc |-> "announce", tries |-> 0]
  /\ UNCHANGED <<wk, slot, board, l2c, air, ev, app, faults>>

\* NotifyStreamBookend for the start event: sent, out of attempts, or the link is gone.
Announce ==
  /\ api.pc = "announce" /\ l2c.link
  /\ ev' = Append(ev, [start |-> TRUE, tid |-> rec.tid, ok |-> FALSE, valid |-> 0])
  /\ api' = [api EXCEPT !.pc = "activate"]
  /\ UNCHANGED <<rec, wk, slot, board, l2c, air, app, faults>>

AnnounceFails ==
  /\ api.pc = "announce"
  /\ \/ l2c.link /\ Fault("notify")
     \/ ~l2c.link /\ UNCHANGED faults
  /\ api' = IF l2c.link /\ api.tries + 1 < Attempts THEN [api EXCEPT !.tries = @ + 1]
                                                    ELSE [pc |-> "idle", tries |-> 0]
  /\ UNCHANGED <<rec, wk, slot, board, l2c, air, ev, app>>

\* The stream is active and gets a worker task; or none can be created, and the App, told of the
\* start, is not told of an end.
Activate ==
  /\ api.pc = "activate"
  /\ \/ /\ rec' = [rec EXCEPT !.active = TRUE]
        /\ wk' = [Worker0 EXCEPT !.pc = "delay"]
        /\ api' = [pc |-> "slot", tries |-> 0]
        /\ UNCHANGED faults
     \/ /\ Fault("task")
        /\ api' = [pc |-> "idle", tries |-> 0]
        /\ UNCHANGED <<rec, wk>>
  /\ UNCHANGED <<slot, board, l2c, air, ev, app>>

OpenSlot ==
  /\ api.pc = "slot"
  /\ slot' = TRUE
  /\ api' = [api EXCEPT !.pc = "idle"]
  /\ UNCHANGED <<rec, wk, board, l2c, air, ev, app, faults>>

\* Mutant of Overflow: the chunk is dropped and the stream goes on.
OverflowDrops == rec

\* The queue is full: truncate here, drain what is queued, then end.
Overflow == [rec EXCEPT !.truncated = TRUE, !.end_req = TRUE]

Tried == SumFunction([t \in Transfers |-> board[t].tried])

\* stream_write of n SDUs, queued as one chunk.
Write(n) ==
  LET t == rec.tid
      from == board[t].tried
  IN  /\ api.pc = "idle" /\ slot /\ Tried + n <= MaxUnits
      /\ board' = [board EXCEPT ![t].tried = @ + n]
      /\ rec' = IF ~rec.active \/ rec.truncated THEN rec
                ELSE IF rec.queued + n > QueueCap THEN Overflow
                ELSE [rec EXCEPT !.q = Append(@, [i \in 1..n |-> <<t, from + i>>]),
                                 !.queued = @ + n]
      /\ UNCHANGED <<wk, api, slot, l2c, air, ev, app, faults>>

\* stream_close; nothing is left to end if the worker already has.
Close(complete) ==
  /\ api.pc = "idle" /\ slot
  /\ slot' = FALSE
  /\ board' = [board EXCEPT ![rec.tid].closed = IF complete THEN "whole" ELSE "cut"]
  /\ rec' = IF rec.active THEN [rec EXCEPT !.complete = complete, !.end_req = TRUE] ELSE rec
  /\ UNCHANGED <<wk, api, l2c, air, ev, app, faults>>

-----------------------------------------------------------------------------
(* Worker task: AudioStreamTask, ImageTask *)

At(pc) == wk.pc = pc
Goto(pc) == wk' = [wk EXCEPT !.pc = pc]

\* kRecStartDelayMs: the start event has reached the App when the first byte leaves.
StartDelay ==
  /\ At("delay")
  /\ \A i \in DOMAIN ev : ~ev[i].start
  /\ Goto("top")
  /\ UNCHANGED <<rec, api, slot, board, l2c, air, ev, app, faults>>

Truncate ==
  /\ rec' = [rec EXCEPT !.truncated = TRUE]
  /\ wk' = [wk EXCEPT !.pc = "verdict", !.chunk = <<>>]

LoopTop ==
  /\ At("top") /\ l2c.link
  /\ wk' = [wk EXCEPT !.pc = "pop", !.end = rec.end_req]
  /\ UNCHANGED <<rec, api, slot, board, l2c, air, ev, app, faults>>

LoopDown ==
  /\ At("top") /\ ~l2c.link
  /\ Truncate
  /\ UNCHANGED <<api, slot, board, l2c, air, ev, app, faults>>

\* Mutant of Drained: an empty queue ends the stream.
DrainedEarly ==
  /\ At("pop") /\ rec.q = <<>>
  /\ Goto("verdict")
  /\ UNCHANGED <<rec, api, slot, board, l2c, air, ev, app, faults>>

\* The queue is empty: done if an end had been requested before it was looked at.
Drained ==
  /\ At("pop") /\ rec.q = <<>>
  /\ Goto(IF wk.end THEN "verdict" ELSE "top")
  /\ UNCHANGED <<rec, api, slot, board, l2c, air, ev, app, faults>>

Pop ==
  /\ At("pop") /\ rec.q # <<>>
  /\ wk' = [wk EXCEPT !.pc = "send", !.chunk = Head(rec.q)]
  /\ rec' = [rec EXCEPT !.q = Tail(@), !.queued = @ - Len(Head(rec.q))]
  /\ UNCHANGED <<api, slot, board, l2c, air, ev, app, faults>>

ChunkDone ==
  /\ At("send") /\ wk.chunk = <<>>
  /\ Goto("top")
  /\ UNCHANGED <<rec, api, slot, board, l2c, air, ev, app, faults>>

Sending == At("send") /\ wk.chunk # <<>> /\ ~l2c.stalled /\ l2c.chan /\ l2c.pend = <<>>

\* ble_l2cap_send with credit to spare.
Send ==
  /\ Sending /\ l2c.credit > 0
  /\ air' = Append(air, Head(wk.chunk))
  /\ l2c' = [l2c EXCEPT !.credit = @ - 1]
  /\ rec' = [rec EXCEPT !.sent = @ + 1]
  /\ wk' = [wk EXCEPT !.chunk = Tail(@)]
  /\ UNCHANGED <<api, slot, board, ev, app, faults>>

\* Out of credit: NimBLE keeps the SDU and returns ESTALLED; the flag is stored afterwards.
SendStalls ==
  /\ Sending /\ l2c.credit = 0
  /\ l2c' = [l2c EXCEPT !.pend = <<Head(wk.chunk)>>]
  /\ Goto("mark")
  /\ UNCHANGED <<rec, api, slot, board, air, ev, app, faults>>

\* Mutant of MarkStalled: an SDU that stalled is not counted.
MarkStalledUncounted ==
  /\ At("mark")
  /\ l2c' = [l2c EXCEPT !.stalled = TRUE]
  /\ wk' = [wk EXCEPT !.pc = "send", !.chunk = Tail(@)]
  /\ UNCHANGED <<rec, api, slot, board, air, ev, app, faults>>

\* The bytes are on their way all the same, and count as sent.
MarkStalled ==
  /\ At("mark")
  /\ l2c' = [l2c EXCEPT !.stalled = TRUE]
  /\ rec' = [rec EXCEPT !.sent = @ + 1]
  /\ wk' = [wk EXCEPT !.pc = "send", !.chunk = Tail(@)]
  /\ UNCHANGED <<api, slot, board, air, ev, app, faults>>

\* The mbuf pool is empty: back off and try again.
SendNoBuffer ==
  /\ Sending
  /\ Fault("pool")
  /\ UNCHANGED <<rec, wk, api, slot, board, l2c, air, ev, app>>

\* Found out in the stall loop or by a send that fails.
SendLost ==
  /\ At("send") /\ wk.chunk # <<>> /\ ~(l2c.link /\ l2c.chan)
  /\ Truncate
  /\ UNCHANGED <<api, slot, board, l2c, air, ev, app, faults>>

\* Mutant of StallTimeout: without an end requested the worker waits on.
StallTimeoutNever ==
  /\ At("send") /\ wk.chunk # <<>> /\ l2c.stalled /\ ~rec.end_req
  /\ Truncate
  /\ UNCHANGED <<api, slot, board, l2c, air, ev, app, faults>>

\* kRecStallWaitMs without credit: give up.
StallTimeout ==
  /\ At("send") /\ wk.chunk # <<>> /\ l2c.stalled
  /\ Truncate
  /\ UNCHANGED <<api, slot, board, l2c, air, ev, app, faults>>

Verdict ==
  /\ At("verdict")
  /\ wk' = [wk EXCEPT !.pc = "end", !.ok = ~rec.truncated /\ rec.complete, !.tries = 0]
  /\ UNCHANGED <<rec, api, slot, board, l2c, air, ev, app, faults>>

\* NotifyStreamBookend for the end event.
EndEvent ==
  /\ At("end") /\ l2c.link
  /\ ev' = Append(ev, [start |-> FALSE, tid |-> rec.tid, ok |-> wk.ok, valid |-> rec.sent])
  /\ Goto("done")
  /\ UNCHANGED <<rec, api, slot, board, l2c, air, app, faults>>

EndEventFails ==
  /\ At("end")
  /\ \/ l2c.link /\ Fault("notify")
     \/ ~l2c.link /\ UNCHANGED faults
  /\ wk' = IF l2c.link /\ wk.tries + 1 < Attempts THEN [wk EXCEPT !.tries = @ + 1]
                                                  ELSE [wk EXCEPT !.pc = "done"]
  /\ UNCHANGED <<rec, api, slot, board, l2c, air, ev, app>>

WorkerDone ==
  /\ At("done")
  /\ rec' = [rec EXCEPT !.active = FALSE]
  /\ wk' = Worker0
  /\ UNCHANGED <<api, slot, board, l2c, air, ev, app, faults>>

-----------------------------------------------------------------------------
(* NimBLE host task *)

\* COC_CONNECTED, on a channel the App opens.
ChannelUp ==
  /\ l2c.link /\ ~l2c.chan
  /\ wk.pc \in {"free", "delay", "verdict", "end", "done"}
  /\ l2c' = [l2c EXCEPT !.chan = TRUE, !.credit = Window]
  /\ UNCHANGED <<rec, wk, api, slot, board, air, ev, app, faults>>

Broken == [rec EXCEPT !.truncated = TRUE, !.end_req = TRUE]

\* COC_DISCONNECTED: what NimBLE holds and what is under way is lost.
ChannelDown ==
  /\ l2c.chan
  /\ Fault("channel")
  /\ l2c' = [l2c EXCEPT !.chan = FALSE, !.credit = 0, !.pend = <<>>, !.stalled = FALSE]
  /\ rec' = Broken
  /\ air' = <<>>
  /\ UNCHANGED <<wk, api, slot, board, ev, app>>

\* GAP DISCONNECT, after NimBLE has closed the channels.  It does not touch an image stream.
LinkDown ==
  /\ l2c.link /\ ~l2c.chan
  /\ Fault("link")
  /\ l2c' = [l2c EXCEPT !.link = FALSE, !.stalled = IF Kind = "audio" THEN FALSE ELSE @]
  /\ rec' = IF Kind = "audio" THEN Broken ELSE rec
  /\ slot' = FALSE
  /\ ev' = <<>>
  /\ app' = [app EXCEPT !.session = 0]
  /\ UNCHANGED <<wk, api, board, air>>

LinkUp ==
  /\ ~l2c.link
  /\ At("free") /\ api.pc = "idle"
  /\ l2c' = [l2c EXCEPT !.link = TRUE]
  /\ slot' = FALSE
  /\ UNCHANGED <<rec, wk, api, board, air, ev, app, faults>>

\* The App grants credit: an SDU that waits leaves, and COC_TX_UNSTALLED clears the flag.
Grant ==
  /\ l2c.chan /\ l2c.credit + Len(air) < Window
  /\ IF l2c.pend = <<>>
       THEN l2c' = [l2c EXCEPT !.credit = @ + 1] /\ UNCHANGED air
       ELSE l2c' = [l2c EXCEPT !.pend = <<>>, !.stalled = FALSE] /\ air' = air \o l2c.pend
  /\ UNCHANGED <<rec, wk, api, slot, board, ev, app, faults>>

-----------------------------------------------------------------------------
(* The App *)

Hear ==
  /\ ev # <<>>
  /\ LET e == Head(ev) IN
       app' = IF e.start THEN [app EXCEPT !.session = e.tid]
              ELSE [app EXCEPT !.session = IF @ = e.tid THEN 0 ELSE @,
                               !.end[e.tid] = [told |-> TRUE, ok |-> e.ok, valid |-> e.valid]]
  /\ ev' = Tail(ev)
  /\ UNCHANGED <<rec, wk, api, slot, board, l2c, air, faults>>

Receive ==
  /\ air # <<>>
  /\ app' = [app EXCEPT !.got[Head(air)[1]] = Append(@, Head(air)[2])]
  /\ air' = Tail(air)
  /\ UNCHANGED <<rec, wk, api, slot, board, l2c, ev, faults>>

-----------------------------------------------------------------------------

ApiStep == StartReset \/ Announce \/ AnnounceFails \/ Activate \/ OpenSlot
WorkerStep ==
  \/ StartDelay \/ LoopTop \/ LoopDown \/ Drained \/ Pop \/ ChunkDone
  \/ Send \/ SendStalls \/ MarkStalled \/ SendNoBuffer \/ SendLost \/ StallTimeout
  \/ Verdict \/ EndEvent \/ EndEventFails \/ WorkerDone
BoardStep == BoardOpen \/ (\E n \in 1..MaxWrite : Write(n)) \/ (\E c \in BOOLEAN : Close(c))
HostStep == ChannelUp \/ ChannelDown \/ LinkDown \/ LinkUp \/ Grant

Next == ApiStep \/ WorkerStep \/ BoardStep \/ HostStep \/ Hear \/ Receive

\* Tasks are scheduled and notifications arrive; the App grants credit and the board closes a
\* stream when they please.
Fairness == WF_vars(ApiStep) /\ WF_vars(WorkerStep) /\ WF_vars(Hear)

Spec == Init /\ [][Next]_vars /\ Fairness

-----------------------------------------------------------------------------
(* Properties *)

Streams == [active : BOOLEAN, end_req : BOOLEAN, truncated : BOOLEAN, complete : BOOLEAN,
            tid : 0..MaxTransfers, sent : Nat, q : Seq(Seq(Units)), queued : 0..QueueCap]
WorkerPcs == {"free", "delay", "top", "pop", "send", "mark", "verdict", "end", "done"}
Tasks == [pc : WorkerPcs, end : BOOLEAN, chunk : Seq(Units), ok : BOOLEAN, tries : 0..(Attempts - 1)]
Calls == [pc : {"idle", "reset", "announce", "activate", "slot"}, tries : 0..(Attempts - 1)]
Boards == [Transfers -> [tried : Nat, closed : {"no", "whole", "cut"}]]
Links == [link : BOOLEAN, chan : BOOLEAN, credit : 0..Window, pend : Seq(Units), stalled : BOOLEAN]
Events == [start : BOOLEAN, tid : Transfers, ok : BOOLEAN, valid : Nat]
Apps == [session : 0..MaxTransfers, got : [Transfers -> Seq(Numbers)],
         end : [Transfers -> [told : BOOLEAN, ok : BOOLEAN, valid : Nat]]]

\* Every variable has its type.
TypeOK ==
  /\ rec \in Streams /\ wk \in Tasks /\ api \in Calls /\ slot \in BOOLEAN /\ board \in Boards
  /\ l2c \in Links /\ air \in Seq(Units) /\ ev \in Seq(Events) /\ app \in Apps /\ faults \in Nat

\* What the App gets of a transfer is the beginning of what the board wrote, without a gap: after
\* a chunk that did not fit, nothing more is sent (AudioStreamEnqueue, ImageEnqueue).
NoGap == \A t \in Transfers : app.got[t] = [i \in 1..Len(app.got[t]) |-> i]

\* A truncated payload is not mistaken for a whole one: the App is told status 0 only if the
\* board closed the stream as complete and every byte it tried to write has been sent
\* (agent_link_stream_close).
WholeMeansWhole ==
  \A t \in Transfers :
    app.end[t].told /\ app.end[t].ok =>
      board[t].closed = "whole" /\ app.end[t].valid = board[t].tried

\* The App is not told how transfer t ended, nor ever will be: every attempt failed.
Unended(t) ==
  /\ t < rec.tid \/ wk.pc \in {"done", "free"}
  /\ ~app.end[t].told /\ \A i \in DOMAIN ev : ev[i].start \/ ev[i].tid # t

\* The App can tell whose bytes arrive, although the channel carries no transfer id: they belong
\* to the transfer it has open, or were announced by the valid_bytes of one that has ended.  Only
\* those of a transfer whose end event failed in every attempt can be taken for a later one's
\* (NotifyStreamBookend, whose result RecSendStreamEnd and ImgSendStreamEnd return to no one).
Attributable ==
  air # <<>> => LET u == Head(air) IN
    \/ app.session = u[1]
    \/ app.end[u[1]].told /\ u[2] <= app.end[u[1]].valid
    \/ Unended(u[1])

\* Once its end has been requested, by the board or by an event, an active transfer that the App
\* has open ends, however little credit the App grants (NotifyStreamBookend, kRecStallWaitMs).
TransferEnds ==
  \A t \in Transfers :
    (app.session = t /\ rec.tid = t /\ rec.active /\ rec.end_req) ~> app.session # t

\* A stream is only given up for want of credit when the App grants none (kRecStallWaitMs).
StallIsPeersFault == [][StallTimeout => l2c.pend # <<>>]_vars

=============================================================================
