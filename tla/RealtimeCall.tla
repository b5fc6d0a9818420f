---------------------------- MODULE RealtimeCall ----------------------------
(***************************************************************************)
(* A realtime voice call over WiFi: cloud_realtime.cc (grants, the epoch   *)
(* of a call, the worker with its bounded recovery, the media task, the    *)
(* microphone queue) under the part of transport_wifi.cpp that starts and  *)
(* ends calls and derives the link state from them.                        *)
(*                                                                         *)
(* Threads: the worker (wk), the media task of one connection (med), the   *)
(* board's task (brd), the cloud session's task (cld) and the MQTT task    *)
(* (mq).  A call is numbered by its epoch, a WebSocket connection by conn, *)
(* and a connect token is fresh until it has been shown to the server.     *)
(*                                                                         *)
(* The device with media task and blocking TLS, PCM microphone packets.    *)
(* Left out: what is played (s_mute, s_reset, decoder, pacing).            *)
(***************************************************************************)
EXTENDS Naturals, Sequences

CONSTANTS
  Kinds,        \* how the board asks for calls: "platform" (grant over HTTPS), "offer" (over MQTT)
  MaxRetries,   \* RetryBudget::kMaxRetries
  TxDepth,      \* kTxDepth, microphone packets
  RxDepth,      \* kDownlinkDepth, messages for the media task
  MaxCalls,     \* bound: requests and offers
  MaxConns,     \* bound: connections
  MaxPackets,   \* bound: microphone packets
  MaxBreaks     \* bound: ends of a call, streams cut short, losses of the platform and stops, together

ASSUME CallAssumption ==
  /\ Kinds \subseteq {"platform", "offer"} /\ Kinds # {}
  /\ {MaxRetries, TxDepth, RxDepth, MaxCalls, MaxConns, MaxPackets, MaxBreaks} \subseteq Nat

VARIABLES
  ctl,    \* s_grants exists, s_run, s_epoch, s_ready, s_busy, s_recovering, s_continuous, s_input, s_task
  grants, \* s_grants: the newest grant
  tx,     \* s_tx: for each packet the connection that was ready when it was recorded
  wk,     \* worker: pc, step of FlushTx, its grant, connection, attempt failed in transport, is retried; retries used
  med,    \* media task: pc, running_ of its Call, messages in rx_queue_
  wifi,   \* platform online, s_realtime_wanted, s_platform_voice, s_link
  brd,    \* board's task: pc, kind of its calls, stream it holds; a request was crossed, a stream cut short, a
          \* request refused while there was a call
  cld,    \* cloud session's task inside OnCloudState
  mq,     \* MQTT task inside OnRealtimeGrant
  srv,    \* server: session held; its grant or release was lost; the connection that was ready last
  used    \* calls, packets and breaks so far

vars == <<ctl, grants, tx, wk, med, wifi, brd, cld, mq, srv, used>>

NoGrant == [epoch |-> 0, kind |-> "platform", token |-> "none"]

Init ==
  /\ ctl = [open |-> TRUE, run |-> TRUE, epoch |-> 0, ready |-> FALSE, busy |-> FALSE, recovering |-> FALSE,
            continuous |-> FALSE, input |-> FALSE, task |-> FALSE]
  /\ grants = <<>>
  /\ tx = <<>>
  /\ wk = [pc |-> "none", flush |-> "no", grant |-> NoGrant, conn |-> 0, retryable |-> FALSE,
           retry |-> FALSE, used |-> 0]
  /\ med = [pc |-> "none", running |-> FALSE, rx |-> <<>>]
  /\ wifi = [online |-> TRUE, wanted |-> FALSE, platform |-> FALSE, link |-> "connected"]
  /\ \E kind \in Kinds : brd = [pc |-> "idle", kind |-> kind, stream |-> FALSE, crossed |-> FALSE, cut |-> FALSE,
                               refused |-> FALSE]
  /\ cld = "idle"
  /\ mq = "idle"
  /\ srv = [held |-> FALSE, lost |-> FALSE, era |-> 0]
  /\ used = [calls |-> 0, packets |-> 0, breaks |-> 0]

Current(epoch) == ctl.run /\ ctl.epoch = epoch
Mine == Current(wk.grant.epoch)

\* A call is queued, or the worker is at it until it has cleaned up.
CallExists ==
  \/ grants # <<>> /\ grants[1].epoch = ctl.epoch
  \/ wk.pc \notin {"none", "wait", "free"} /\ Mine

WkAt(pc) == wk.pc = pc
WkGoto(pc) == wk' = [wk EXCEPT !.pc = pc]
BrdAt(pc) == brd.pc = pc
BrdGoto(pc) == brd' = [brd EXCEPT !.pc = pc]

\* UpdateLink, under s_core_mtx.
UpdateLink == wifi' = [wifi EXCEPT !.link =
  IF ~wifi.online THEN "disconnected" ELSE IF ctl.ready THEN "ready" ELSE "connected"]

\* cloud_realtime_cancel, under s_mutex.
Cancel ==
  /\ ctl' = [ctl EXCEPT !.epoch = @ + 1, !.ready = FALSE, !.recovering = FALSE, !.input = FALSE]
  /\ grants' = <<>>
  /\ tx' = <<>>

\* QueueGrant, under s_mutex: the newest grant replaces one that waits.
QueueGrant(kind, token) ==
  /\ ctl' = [ctl EXCEPT !.epoch = @ + 1, !.ready = FALSE, !.continuous = (kind = "platform"),
                        !.recovering = FALSE, !.task = TRUE]
  /\ grants' = <<[epoch |-> ctl.epoch + 1, kind |-> kind, token |-> token]>>
  /\ wk' = IF ctl.task THEN wk ELSE [wk EXCEPT !.pc = "wait"]

-----------------------------------------------------------------------------
(* The board's task: calls *)

\* agent_transport_wifi_request_realtime_session, or request_realtime for a call offered over MQTT, which asks again
\* although a call is wanted already.
Request ==
  /\ BrdAt("idle") /\ wifi.link = "connected" /\ used.calls < MaxCalls
  /\ brd.kind = "platform" => ~wifi.wanted
  /\ wifi' = [wifi EXCEPT !.wanted = TRUE, !.platform = (brd.kind = "platform")]
  /\ brd' = [brd EXCEPT !.pc = "say", !.crossed = @ \/ cld = "cancel", !.refused = FALSE]
  /\ used' = [used EXCEPT !.calls = @ + 1]
  /\ UNCHANGED <<ctl, grants, tx, wk, med, cld, mq, srv>>

RequestSays ==
  /\ BrdAt("say")
  /\ UpdateLink
  /\ BrdGoto(IF brd.kind = "platform" THEN "queue" ELSE "ask")
  /\ UNCHANGED <<ctl, grants, tx, wk, med, cld, mq, srv, used>>

\* cloud_json_request_realtime: published, or the clock is not valid or the publishing fails, whatever call there is.
RequestAsked ==
  /\ BrdAt("ask")
  /\ BrdGoto("idle")
  /\ UNCHANGED <<ctl, grants, tx, wk, med, wifi, cld, mq, srv, used>>

RequestRefused ==
  /\ BrdAt("ask")
  /\ wifi' = [wifi EXCEPT !.wanted = FALSE]
  /\ brd' = [brd EXCEPT !.pc = "update", !.refused = CallExists]
  /\ UNCHANGED <<ctl, grants, tx, wk, med, cld, mq, srv, used>>

RequestQueues ==
  /\ BrdAt("queue") /\ ctl.open /\ ctl.run
  /\ QueueGrant("platform", "none")
  /\ brd' = [brd EXCEPT !.pc = "idle", !.crossed = @ \/ ~wifi.wanted]
  /\ UNCHANGED <<tx, med, wifi, cld, mq, srv, used>>

\* No worker task can be created: the grant is taken back.
RequestFails ==
  /\ BrdAt("queue") /\ ~ctl.task
  /\ ctl' = [ctl EXCEPT !.epoch = @ + 1, !.ready = FALSE, !.continuous = TRUE, !.recovering = FALSE]
  /\ grants' = <<>>
  /\ BrdGoto("undo")
  /\ UNCHANGED <<tx, wk, med, wifi, cld, mq, srv, used>>

RequestUndone ==
  /\ BrdAt("undo")
  /\ wifi' = [wifi EXCEPT !.wanted = FALSE, !.platform = FALSE]
  /\ BrdGoto("update")
  /\ UNCHANGED <<ctl, grants, tx, wk, med, cld, mq, srv, used>>

\* agent_transport_wifi_end_realtime.
End ==
  /\ BrdAt("idle") /\ used.breaks < MaxBreaks
  /\ wifi' = [wifi EXCEPT !.wanted = FALSE, !.platform = FALSE]
  /\ BrdGoto("cancel")
  /\ used' = [used EXCEPT !.breaks = @ + 1]
  /\ UNCHANGED <<ctl, grants, tx, wk, med, cld, mq, srv>>

EndCancels ==
  /\ BrdAt("cancel")
  /\ Cancel
  /\ BrdGoto("update")
  /\ UNCHANGED <<wk, med, wifi, cld, mq, srv, used>>

BoardUpdates ==
  /\ BrdAt("update")
  /\ UpdateLink
  /\ BrdGoto("idle")
  /\ UNCHANGED <<ctl, grants, tx, wk, med, cld, mq, srv, used>>

-----------------------------------------------------------------------------
(* The board's task: the microphone stream *)

CanRecord == ctl.run /\ ctl.ready

\* cloud_realtime_stream_start; a push-to-talk turn begins with a packet of its own.
StreamStart ==
  /\ BrdAt("idle") /\ ~brd.stream /\ CanRecord /\ ~ctl.input
  /\ ctl.continuous \/ Len(tx) + 3 <= TxDepth
  /\ ctl' = [ctl EXCEPT !.input = TRUE]
  /\ tx' = IF ctl.continuous THEN tx ELSE Append(tx, srv.era)
  /\ brd' = [brd EXCEPT !.stream = TRUE]
  /\ UNCHANGED <<grants, wk, med, wifi, cld, mq, srv, used>>

\* cloud_realtime_stream_write of one packet.
StreamWrite ==
  /\ BrdAt("idle") /\ brd.stream /\ CanRecord /\ ctl.input /\ used.packets < MaxPackets
  /\ Len(tx) + 3 <= TxDepth
  /\ tx' = Append(tx, srv.era)
  /\ used' = [used EXCEPT !.packets = @ + 1]
  /\ UNCHANGED <<ctl, grants, wk, med, wifi, brd, cld, mq, srv>>

\* cloud_realtime_stream_end, complete; refused when the call has been interrupted.
StreamEnd ==
  /\ BrdAt("idle") /\ brd.stream
  /\ brd' = [brd EXCEPT !.stream = FALSE]
  /\ IF CanRecord /\ ctl.input
     THEN /\ ctl' = [ctl EXCEPT !.input = ~ctl.continuous /\ Len(tx) >= TxDepth]
          /\ tx' = IF ctl.continuous \/ Len(tx) >= TxDepth THEN tx ELSE Append(tx, srv.era)
     ELSE UNCHANGED <<ctl, tx>>
  /\ UNCHANGED <<grants, wk, med, wifi, cld, mq, srv, used>>

\* cloud_realtime_stream_end, cut short: the call is cancelled.
StreamCut ==
  /\ BrdAt("idle") /\ brd.stream /\ used.breaks < MaxBreaks
  /\ Cancel
  /\ brd' = [brd EXCEPT !.stream = FALSE, !.cut = TRUE]
  /\ used' = [used EXCEPT !.breaks = @ + 1]
  /\ UNCHANGED <<wk, med, wifi, cld, mq, srv>>

-----------------------------------------------------------------------------
(* The board's task: wifi_stop and the next start *)

Stop ==
  /\ BrdAt("idle") /\ ctl.open /\ used.breaks < MaxBreaks
  /\ wifi' = [wifi EXCEPT !.wanted = FALSE, !.platform = FALSE]
  /\ BrdGoto("stop")
  /\ used' = [used EXCEPT !.breaks = @ + 1]
  /\ UNCHANGED <<ctl, grants, tx, wk, med, cld, mq, srv>>

StopSignals ==
  /\ BrdAt("stop")
  /\ ctl' = [ctl EXCEPT !.run = FALSE, !.recovering = FALSE, !.epoch = @ + 1, !.ready = FALSE]
  /\ BrdGoto("joining")
  /\ UNCHANGED <<grants, tx, wk, med, wifi, cld, mq, srv, used>>

StopJoined ==
  /\ BrdAt("joining") /\ ~ctl.task
  /\ ctl' = [ctl EXCEPT !.open = FALSE, !.input = FALSE, !.continuous = FALSE]
  /\ grants' = <<>>
  /\ tx' = <<>>
  /\ wifi' = [wifi EXCEPT !.link = "disconnected"]
  /\ BrdGoto("idle")
  /\ UNCHANGED <<wk, med, cld, mq, srv, used>>

\* cloud_realtime_start; the platform comes back with the next OnCloudState.
Start ==
  /\ BrdAt("idle") /\ ~ctl.open
  /\ ctl' = [ctl EXCEPT !.open = TRUE, !.run = TRUE]
  /\ UNCHANGED <<grants, tx, wk, med, wifi, brd, cld, mq, srv, used>>

-----------------------------------------------------------------------------
(* The cloud session's task and the MQTT task *)

\* OnCloudState with a state that is not ONLINE.
Offline ==
  /\ cld = "idle" /\ wifi.online /\ used.breaks < MaxBreaks
  /\ wifi' = [wifi EXCEPT !.online = FALSE, !.wanted = FALSE, !.platform = FALSE]
  /\ cld' = "cancel"
  /\ used' = [used EXCEPT !.breaks = @ + 1]
  /\ UNCHANGED <<ctl, grants, tx, wk, med, brd, mq, srv>>

OfflineCancels ==
  /\ cld = "cancel"
  /\ Cancel
  /\ cld' = "update"
  /\ UNCHANGED <<wk, med, wifi, brd, mq, srv, used>>

Online ==
  /\ cld = "idle" /\ ctl.open /\ (~wifi.online \/ wifi.link = "disconnected")
  /\ wifi' = [wifi EXCEPT !.online = TRUE]
  /\ cld' = "update"
  /\ UNCHANGED <<ctl, grants, tx, wk, med, brd, mq, srv, used>>

CloudUpdates ==
  /\ cld = "update"
  /\ UpdateLink
  /\ cld' = "idle"
  /\ UNCHANGED <<ctl, grants, tx, wk, med, brd, mq, srv, used>>

\* OnRealtimeGrant: the server answers a request over MQTT.
Offer ==
  /\ mq = "idle" /\ brd.kind = "offer" /\ used.calls < MaxCalls
  /\ ~wifi.platform /\ wifi.wanted /\ wifi.link # "disconnected"
  /\ mq' = "offer"
  /\ used' = [used EXCEPT !.calls = @ + 1]
  /\ UNCHANGED <<ctl, grants, tx, wk, med, wifi, brd, cld, srv>>

OfferQueues ==
  /\ mq = "offer" /\ ctl.open /\ ctl.run
  /\ QueueGrant("offer", "fresh")
  /\ brd' = [brd EXCEPT !.crossed = @ \/ ~wifi.wanted]
  /\ mq' = "idle"
  /\ UNCHANGED <<tx, med, wifi, cld, srv, used>>

OfferRefused ==
  /\ mq = "offer" /\ ~(ctl.open /\ ctl.run)
  /\ mq' = "idle"
  /\ UNCHANGED <<ctl, grants, tx, wk, med, wifi, brd, cld, srv, used>>

-----------------------------------------------------------------------------
(* The worker *)

WorkerUnch == UNCHANGED <<brd, cld, mq, used>>

Dequeue ==
  /\ WkAt("wait") /\ grants # <<>>
  /\ wk' = [wk EXCEPT !.pc = "check", !.grant = grants[1]]
  /\ grants' = <<>>
  /\ UNCHANGED <<ctl, tx, med, wifi, srv>> /\ WorkerUnch

\* s_run is tested between two waits for a grant.
Exit ==
  /\ WkAt("wait") /\ ~ctl.run
  /\ ctl' = [ctl EXCEPT !.task = FALSE]
  /\ WkGoto("none")
  /\ UNCHANGED <<grants, tx, med, wifi, srv>> /\ WorkerUnch

BeginAttempt(grant) == [wk EXCEPT !.pc = IF grant.kind = "platform" THEN "grant" ELSE "connect", !.grant = grant,
                                  !.retryable = FALSE]

\* A grant that was cancelled while it waited is dropped; s_busy is set under s_mutex.
Check ==
  /\ WkAt("check")
  /\ IF Mine THEN /\ ctl' = [ctl EXCEPT !.busy = TRUE]
                  /\ wk' = BeginAttempt(wk.grant)
             ELSE /\ UNCHANGED ctl
                  /\ WkGoto("wait")
  /\ UNCHANGED <<grants, tx, med, wifi, srv>> /\ WorkerUnch

\* cloud_platform_grant: a token that was never used before.
Granted ==
  /\ srv' = [srv EXCEPT !.held = TRUE, !.lost = FALSE]
  /\ wk' = [wk EXCEPT !.pc = "connect", !.grant.token = "fresh"]

\* Granted in an audio format the device cannot play: url and token are there all the same.
GrantUnusable ==
  /\ srv' = [srv EXCEPT !.held = TRUE, !.lost = FALSE]
  /\ wk' = [wk EXCEPT !.pc = "unready", !.grant.token = "fresh"]

\* The server grants but the answer is lost or useless, or the device has been bound to another agent meanwhile.
GrantLost ==
  /\ srv' = [srv EXCEPT !.held = TRUE, !.lost = TRUE]
  /\ WkGoto("unready")

GrantDenied == WkGoto("unready") /\ UNCHANGED srv

\* 409: the session is held by an earlier grant.
GrantBusy == WkGoto("refresh") /\ UNCHANGED srv

AskGrant ==
  /\ WkAt("grant")
  /\ IF ~Mine THEN WkGoto("unready") /\ UNCHANGED srv
     ELSE \/ ~srv.held /\ (Granted \/ GrantUnusable \/ GrantLost)
          \/ GrantDenied
          \/ GrantBusy
  /\ UNCHANGED <<ctl, grants, tx, med, wifi>> /\ WorkerUnch

Refresh ==
  /\ WkAt("refresh")
  /\ IF ~Mine THEN WkGoto("unready") /\ UNCHANGED srv
     ELSE Granted \/ GrantUnusable \/ GrantLost \/ GrantDenied
  /\ UNCHANGED <<ctl, grants, tx, med, wifi>> /\ WorkerUnch

\* ConnectOnce up to the TLS handshake.
Connect ==
  /\ WkAt("connect")
  /\ IF Mine THEN UpdateLink /\ WkGoto("tls") ELSE UNCHANGED wifi /\ WkGoto("unready")
  /\ UNCHANGED <<ctl, grants, tx, med, srv>> /\ WorkerUnch

\* No memory, or an answer below 500: final.  No answer, or 500 and above: worth a retry.
ConnectFails(again) ==
  /\ WkAt("tls")
  /\ wk' = [wk EXCEPT !.pc = "unready", !.retryable = again]
  /\ UNCHANGED <<ctl, grants, tx, med, wifi, srv>> /\ WorkerUnch

\* The media task is started, then session.connect is sent; the send may fail on the way.
Hello ==
  /\ med' = [pc |-> "loop", running |-> TRUE, rx |-> <<>>]
  /\ wk' = [wk EXCEPT !.pc = "loop", !.conn = @ + 1, !.grant.token = "shown"]

HelloFails ==
  /\ wk' = [wk EXCEPT !.pc = "unready", !.retryable = TRUE, !.grant.token = "shown"]
  /\ UNCHANGED med

NoHello == WkGoto("unready") /\ UNCHANGED med

\* Mutant of Connected: a call that was cancelled during the handshake is dialled all the same.
ConnectedBlind ==
  /\ WkAt("tls") /\ wk.conn < MaxConns
  /\ Hello \/ HelloFails \/ NoHello
  /\ UNCHANGED <<ctl, grants, tx, wifi, srv>> /\ WorkerUnch

\* The rest of ConnectOnce before its loop; without a media task the attempt is final.
Connected ==
  /\ WkAt("tls") /\ wk.conn < MaxConns
  /\ IF Mine THEN Hello \/ HelloFails \/ NoHello ELSE NoHello
  /\ UNCHANGED <<ctl, grants, tx, wifi, srv>> /\ WorkerUnch

Looping == WkAt("loop") /\ wk.flush = "no"

FlushAt(step) == wk.flush = step
FlushGoto(step) == wk' = [wk EXCEPT !.flush = step]

\* FlushTx, one packet; the packets of a batch count as one.  First s_ready and the epoch are tested.
FlushChecks ==
  /\ Looping /\ Mine /\ med.running /\ ctl.ready /\ tx # <<>>
  /\ FlushGoto("checked")
  /\ UNCHANGED <<ctl, grants, tx, med, wifi, srv>> /\ WorkerUnch

\* A cancel may have come in between and emptied the queue.
FlushTakes ==
  /\ FlushAt("checked") /\ tx # <<>>
  /\ tx' = Tail(tx)
  /\ FlushGoto("taken")
  /\ UNCHANGED <<ctl, grants, med, wifi, srv>> /\ WorkerUnch

FlushNothing ==
  /\ FlushAt("checked") /\ tx = <<>>
  /\ FlushGoto("no")
  /\ UNCHANGED <<ctl, grants, tx, med, wifi, srv>> /\ WorkerUnch

\* The blocking send returns; when it fails the loop is left (Drop).
FlushSent ==
  /\ FlushAt("taken")
  /\ FlushGoto("no")
  /\ UNCHANGED <<ctl, grants, tx, med, wifi, srv>> /\ WorkerUnch

FlushTx == FlushChecks \/ FlushTakes \/ FlushNothing \/ FlushSent

\* A message of the server: session.ready, or one that ends the session.
Receive(msg) ==
  /\ Looping /\ Mine /\ med.running /\ Len(med.rx) < RxDepth
  /\ msg = "ready" => srv.era < wk.conn
  /\ med' = [med EXCEPT !.rx = Append(@, msg)]
  /\ UNCHANGED <<ctl, grants, tx, wk, wifi, srv>> /\ WorkerUnch

\* RetryBudget::Observe: 120 s of READY with progress in both directions.
Stable ==
  /\ Looping /\ Mine /\ med.running /\ ctl.ready /\ wk.used > 0
  /\ wk' = [wk EXCEPT !.used = 0]
  /\ UNCHANGED <<ctl, grants, tx, med, wifi, srv>> /\ WorkerUnch

\* Out of the loop, Call::Stop tells the media task to end.
LeaveLoop(again) ==
  /\ wk' = [wk EXCEPT !.pc = "unready", !.flush = "no", !.retryable = again]
  /\ med' = [med EXCEPT !.running = FALSE]
  /\ UNCHANGED <<ctl, grants, tx, wifi, srv>> /\ WorkerUnch

\* The transport fails or times out (again), in a send of FlushTx too, or the server closes the connection (not).
Drop(again) == WkAt("loop") /\ wk.flush # "checked" /\ LeaveLoop(again /\ med.running)

\* Mutant of LoopOver: a cancelled call is held until the server ends it.
LoopOverByServer == ~med.running

LoopOver == ~Mine \/ ~med.running

Leave == Looping /\ LoopOver /\ LeaveLoop(FALSE)

Joined == med.pc \in {"none", "done"}

\* Mutant of Unready: the application hears of the end while s_ready is still set.
UnreadyLate ==
  /\ WkAt("unready") /\ Joined
  /\ med' = [pc |-> "none", running |-> FALSE, rx |-> <<>>]
  /\ WkGoto("reset")
  /\ UNCHANGED <<ctl, grants, tx, wifi, srv>> /\ WorkerUnch

\* Call::Stop waits for the media task; then s_ready.
Unready ==
  /\ WkAt("unready") /\ Joined
  /\ med' = [pc |-> "none", running |-> FALSE, rx |-> <<>>]
  /\ ctl' = [ctl EXCEPT !.ready = FALSE]
  /\ WkGoto("reset")
  /\ UNCHANGED <<grants, tx, wifi, srv>> /\ WorkerUnch

\* Mutant of MayRetry: a call that was offered over MQTT is retried too.
MayRetryAny == wk.retryable /\ wk.used < MaxRetries

\* Mutant of MayRetry: no budget.
MayRetryAlways == wk.grant.kind = "platform" /\ wk.retryable

MayRetry == wk.grant.kind = "platform" /\ wk.retryable /\ wk.used < MaxRetries

\* Mutant of ResetInput: the packets stay for the next connection.
KeepInput == UNCHANGED tx

ResetInput == tx' = <<>>

\* ResetInput, and whether the attempt is followed by another.
Decide ==
  /\ WkAt("reset")
  /\ ResetInput
  /\ ctl' = [ctl EXCEPT !.input = FALSE, !.recovering = IF Mine THEN MayRetry ELSE @]
  /\ wk' = [wk EXCEPT !.pc = "report", !.retry = MayRetry /\ Mine]
  /\ UNCHANGED <<grants, med, wifi, srv>> /\ WorkerUnch

Report ==
  /\ WkAt("report")
  /\ UpdateLink
  /\ WkGoto("release")
  /\ UNCHANGED <<ctl, grants, tx, med, srv>> /\ WorkerUnch

\* Mutant of HoldsGrant: only a call that is still wanted gives its grant back.
HoldsCurrentGrant == wk.grant.kind = "platform" /\ wk.grant.token # "none" /\ Mine

HoldsGrant == wk.grant.kind = "platform" /\ wk.grant.token # "none"

\* RecoverTransport between two attempts.
Again == wk' = IF wk.retry /\ Mine THEN [wk EXCEPT !.pc = "backoff", !.used = @ + 1] ELSE [wk EXCEPT !.pc = "finish"]

\* cloud_platform_end_grant; the request itself may fail.
Release ==
  /\ WkAt("release")
  /\ \/ srv' = IF ~HoldsGrant THEN srv ELSE [srv EXCEPT !.held = FALSE, !.lost = FALSE]
     \/ HoldsGrant /\ srv' = [srv EXCEPT !.lost = TRUE]
  /\ Again
  /\ UNCHANGED <<ctl, grants, tx, med, wifi>> /\ WorkerUnch

\* After the wait, an attempt with a fresh grant.
Backoff ==
  /\ WkAt("backoff")
  /\ wk' = IF Mine THEN BeginAttempt([wk.grant EXCEPT !.token = "none"]) ELSE [wk EXCEPT !.pc = "finish"]
  /\ UNCHANGED <<ctl, grants, tx, med, wifi, srv>> /\ WorkerUnch

\* Mutant of Finishes: whatever call is current now, its flags are cleared.
FinishesAny == TRUE

Finishes == Mine

FinishGrant ==
  /\ WkAt("finish")
  /\ ctl' = IF Finishes THEN [ctl EXCEPT !.recovering = FALSE] ELSE ctl
  /\ wifi' = IF Finishes THEN [wifi EXCEPT !.wanted = FALSE, !.platform = FALSE] ELSE wifi
  /\ WkGoto("free")
  /\ UNCHANGED <<grants, tx, med, srv>> /\ WorkerUnch

Free ==
  /\ WkAt("free")
  /\ ctl' = [ctl EXCEPT !.busy = FALSE]
  /\ wk' = [wk EXCEPT !.pc = "wait", !.grant = NoGrant, !.retry = FALSE, !.retryable = FALSE, !.used = 0]
  /\ UNCHANGED <<grants, tx, med, wifi, srv>> /\ WorkerUnch

-----------------------------------------------------------------------------
(* The media task *)

MedUnch == UNCHANGED <<grants, tx, wk, brd, cld, mq, used>>

\* MediaLoop tests both conditions before it takes a message.
MediaTakes ==
  /\ med.pc = "loop" /\ med.running /\ Mine /\ med.rx # <<>>
  /\ med' = IF med.rx[1] = "ready" THEN [med EXCEPT !.rx = Tail(@), !.pc = "ready"]
                                   ELSE [med EXCEPT !.rx = Tail(@), !.running = FALSE]
  /\ UNCHANGED <<ctl, wifi, srv>> /\ MedUnch

\* session.ready: s_ready.exchange(true).
MediaReady ==
  /\ med.pc = "ready"
  /\ ctl' = [ctl EXCEPT !.ready = TRUE]
  /\ srv' = [srv EXCEPT !.era = wk.conn]
  /\ med' = [med EXCEPT !.pc = IF ctl.ready THEN "recovered" ELSE "say"]
  /\ UNCHANGED wifi /\ MedUnch

MediaSays ==
  /\ med.pc = "say"
  /\ UpdateLink
  /\ med' = [med EXCEPT !.pc = "recovered"]
  /\ UNCHANGED <<ctl, srv>> /\ MedUnch

MediaRecovered ==
  /\ med.pc = "recovered"
  /\ ctl' = IF Mine THEN [ctl EXCEPT !.recovering = FALSE] ELSE ctl
  /\ med' = [med EXCEPT !.pc = "loop"]
  /\ UNCHANGED <<wifi, srv>> /\ MedUnch

MediaExits ==
  /\ med.pc = "loop" /\ (~med.running \/ ~Mine)
  /\ med' = [med EXCEPT !.pc = "done"]
  /\ UNCHANGED <<ctl, wifi, srv>> /\ MedUnch

-----------------------------------------------------------------------------
Board == \/ RequestSays \/ RequestAsked \/ RequestRefused \/ RequestQueues \/ RequestFails \/ RequestUndone
         \/ EndCancels \/ BoardUpdates \/ StopSignals \/ StopJoined
BoardCalls == Request \/ End \/ StreamStart \/ StreamWrite \/ StreamEnd \/ StreamCut \/ Stop \/ Start
Cloud == OfflineCancels \/ CloudUpdates
Mqtt == OfferQueues \/ OfferRefused
Server == Stable \/ (\E again \in BOOLEAN : Drop(again)) \/ (\E msg \in {"ready", "fatal"} : Receive(msg))
Worker ==
  \/ Dequeue \/ Exit \/ Check \/ AskGrant \/ Refresh \/ Connect \/ Connected \/ FlushTx \/ Leave
  \/ \E again \in BOOLEAN : ConnectFails(again)
  \/ Unready \/ Decide \/ Report \/ Release \/ Backoff \/ FinishGrant \/ Free
Media == MediaTakes \/ MediaReady \/ MediaSays \/ MediaRecovered \/ MediaExits

Next == Board \/ BoardCalls \/ Cloud \/ Offline \/ Online \/ Mqtt \/ Offer \/ Worker \/ Server \/ Media

\* Every task runs when it can, and every blocking call of the worker ends by its own timeout.  Nothing is assumed
\* of a server that keeps a connection open, of the platform connection or of what the board calls.
Spec == Init /\ [][Next]_vars /\ WF_vars(Board) /\ WF_vars(Cloud) /\ WF_vars(Mqtt)
             /\ WF_vars(Worker) /\ WF_vars(Media)

-----------------------------------------------------------------------------
(* Properties *)

Grants == [epoch : Nat, kind : {"platform", "offer"}, token : {"none", "fresh", "shown"}]
WorkerPcs == {"none", "wait", "check", "grant", "refresh", "connect", "tls", "loop", "unready", "reset",
              "report", "release", "backoff", "finish", "free"}

\* Every variable has its type: a pending grant at most, no more packets than the queue holds, no more retries
\* in a row than the budget (QueueGrant, stream_write, RetryBudget).
TypeOK ==
  /\ ctl \in [open : BOOLEAN, run : BOOLEAN, epoch : Nat, ready : BOOLEAN, busy : BOOLEAN, recovering : BOOLEAN,
              continuous : BOOLEAN, input : BOOLEAN, task : BOOLEAN]
  /\ grants \in Seq(Grants) /\ Len(grants) <= 1
  /\ tx \in Seq(Nat) /\ Len(tx) <= TxDepth
  /\ wk \in [pc : WorkerPcs, flush : {"no", "checked", "taken"}, grant : Grants, conn : Nat,
             retryable : BOOLEAN, retry : BOOLEAN, used : 0..MaxRetries]
  /\ med \in [pc : {"none", "loop", "ready", "say", "recovered", "done"}, running : BOOLEAN,
              rx : Seq({"ready", "fatal"})]
  /\ wifi \in [online : BOOLEAN, wanted : BOOLEAN, platform : BOOLEAN, link : {"disconnected", "connected", "ready"}]
  /\ brd \in [pc : {"idle", "say", "ask", "queue", "undo", "cancel", "update", "stop", "joining"}, kind : Kinds,
              stream : BOOLEAN, crossed : BOOLEAN, cut : BOOLEAN, refused : BOOLEAN]
  /\ cld \in {"idle", "cancel", "update"}
  /\ mq \in {"idle", "offer"}
  /\ srv \in [held : BOOLEAN, lost : BOOLEAN, era : Nat]
  /\ used \in [calls : Nat, packets : Nat, breaks : Nat]

\* What was recorded before an interruption is not heard after it: a packet goes out on the connection that was
\* ready when it was recorded, whatever is cancelled, retried or requested in between (Worker resets s_ready and then
\* the input; stream_write tests s_ready under the same mutex as the reset).
UplinkBelongs == [][FlushTakes => Head(tx) = wk.conn]_vars

\* The board sees READY only while a connection is open or being taken down, though three threads write the link
\* state and a media task of a cancelled call can still set s_ready (MediaLoop, Call::Stop, Worker, UpdateLink).
LinkHonest ==
  wk.pc \notin {"loop", "unready", "reset", "report"} => wifi.link # "ready"

\* A token is shown to the server once, and a session the server granted is given back before the worker takes the
\* next call, whenever the call was cancelled, unless the grant or its release was lost on the way (Worker,
\* cloud_platform_end_grant).
TokensOnce == WkAt("tls") => wk.grant.token = "fresh"
SessionReleased == wk.pc \in {"none", "wait", "check"} /\ srv.held => srv.lost
GrantDiscipline == TokensOnce /\ SessionReleased

Settled == BrdAt("idle") /\ cld # "cancel" /\ mq = "idle"

\* agent_link_realtime_running tells the truth between two calls of the board, unless a request was crossed by the loss of
\* the platform or a stream was cut short: never left set without a call; set for a call that is queued, connected,
\* recovering or being cleaned up, but for one that was there when the board asked for another over MQTT and that could
\* not be published; realtime_recovering only during a retry (QueueGrant, FinishGrant, SetRecovering, request_realtime).
RecoveringIsRetry == ctl.recovering => Mine /\ wk.retry
RunningIsCall == brd.kind = "platform" /\ wifi.wanted => CallExists
CallIsRunning == CallExists => wifi.wanted
FlagsTellTruth ==
  /\ RecoveringIsRetry
  /\ Settled /\ ~brd.crossed /\ ~brd.cut => RunningIsCall /\ (CallIsRunning \/ brd.refused)

\* include/agent_link.h:303-306 says that running is "False before init, on other transports, after cancellation or final
\* failure".  With a stream that is cut short (cloud_realtime_stream_end cancels the call but not the flag) it is not.
FalseAfterCancellation == Settled /\ ~brd.crossed => RunningIsCall

\* What LiveCall speaks of.  There is a line while the media task of a connection exists; a permit is a fresh token of the
\* current call, waiting or about to be shown; a session is lost when its grant or its release was.
HasPermit ==
  \/ grants # <<>> /\ grants[1].epoch = ctl.epoch /\ grants[1].token = "fresh"
  \/ wk.pc \in {"check", "connect", "tls"} /\ Mine /\ wk.grant.token = "fresh"
TheCall == [number |-> ctl.epoch, wanted |-> CallExists, offered |-> brd.kind = "offer"]
TheSession == IF ~srv.held THEN "none" ELSE IF srv.lost THEN "lost" ELSE "held"
TheLine == [open |-> med.pc # "none", of |-> IF med.pc = "none" THEN 0 ELSE wk.grant.epoch, number |-> wk.conn]
Promise == INSTANCE LiveCall WITH
  call <- TheCall, permit <- HasPermit, session <- TheSession, line <- TheLine,
  ready <- ctl.ready, told <- wifi.link = "ready", spoken <- tx, sending <- wk.flush

\* The calls keep the promises of LiveCall at every step: one line at a time, dialled for the newest call while that is
\* wanted, with a permit used once; what is said is heard on the line it was said into, and when its call is cancelled no
\* more than the packet whose sending had begun; a call that comes to its end has closed its line, told the board and
\* given its session back, or lost it (Worker, ConnectOnce, FlushTx, MediaLoop, cloud_realtime_cancel, OnRealtimeState).
KeepsPromise == Promise!LSpec

\* A call that was cancelled or replaced comes to its end whatever the server does, so that wait_idle succeeds and
\* the next grant is served, and agent_link_stop returns (Worker, MediaLoop, cloud_realtime_stop).
LeavingEnds ==
  /\ (ctl.busy /\ ~Mine) ~> ~ctl.busy
  /\ BrdAt("joining") ~> BrdAt("idle")

==============================================================================
