------------------------- MODULE RealtimeCallProofs -------------------------
(***************************************************************************)
(* Proofs about RealtimeCall, for any numbers of calls, connections,       *)
(* packets and breaks, any retry budget and any depth of the two queues.   *)
(*                                                                         *)
(* The inductive invariant has four parts, each proved from the types and  *)
(* itself, action by action:                                               *)
(*   Types     TypeOK, that a worker exists when one is recorded, and that *)
(*             a retry which is decided is still within the budget;        *)
(*   LinkInv   why the board is told READY only of an open connection and  *)
(*             hears nothing of an interrupted one: the worker resets      *)
(*             s_ready after it joined the media task and the packets      *)
(*             after that;                                                 *)
(*   GrantInv  whose grant a connect token is, and where the worker is     *)
(*             while the server holds a session for it;                    *)
(*   FlagInv   epochs only grow, so that a call once cancelled is never    *)
(*             current again, and the step between two others in which a   *)
(*             flag and the call it speaks of may differ.                  *)
(* The lemmas <Part>Aside collect the actions that touch nothing of a part.*)
(*                                                                         *)
(* That the calls keep the promises of LiveCall rests on the four parts    *)
(* and PromiseInv: which states of the worker and the media task go        *)
(* together, when a session is held, and that a token comes with an offer  *)
(* or an answer of the platform.  An atom Same<Part> says that a step      *)
(* leaves one abstract variable alone; a lemma <Action>Is gives a step of  *)
(* LiveCall from such atoms, and Mapped finds one for every action.        *)
(***************************************************************************)
EXTENDS RealtimeCall, SequenceTheorems, TLAPS

-----------------------------------------------------------------------------
(* The inductive invariant *)

TaskIsWorker == ctl.task <=> wk.pc # "none"
BudgetLeft == wk.pc \in {"report", "release"} /\ wk.retry => wk.used < MaxRetries
\* A packet is only being sent in the worker's loop.
Flushing == wk.flush # "no" => wk.pc = "loop"
Types == TypeOK /\ TaskIsWorker /\ BudgetLeft /\ Flushing

\* A media task that still runs belongs to the worker's connection: Call::Stop joins it before s_ready is reset.
MediaUnderWorker == med.pc \in {"loop", "ready", "say", "recovered"} => wk.pc \in {"loop", "unready"}

\* s_ready is set only for the connection that the server made ready.
ReadyUnderWorker == ctl.ready => wk.pc \in {"loop", "unready"} /\ srv.era = wk.conn

\* Every packet that waits was recorded for the connection there is, and none outlives it.
Recorded ==
  /\ \A i \in DOMAIN tx : tx[i] = wk.conn
  /\ wk.pc \notin {"loop", "unready", "reset"} => tx = <<>>
LinkInv == MediaUnderWorker /\ ReadyUnderWorker /\ Recorded /\ LinkHonest

\* An offer comes with its token, which is fresh until it is shown.
Queued == \A i \in DOMAIN grants : grants[i].kind = "offer" => grants[i].token = "fresh"
Tokens ==
  /\ wk.pc = "check" /\ wk.grant.kind = "offer" => wk.grant.token = "fresh"
  /\ wk.pc \in {"connect", "tls"} => wk.grant.token = "fresh"

\* Only a grant of the platform is asked for, and only it is retried.
Asks == wk.pc \in {"grant", "refresh"} => wk.grant.kind = "platform"
Retried == wk.pc \in {"report", "release", "backoff"} /\ wk.retry => wk.grant.kind = "platform"
BackoffRetries == wk.pc = "backoff" => wk.retry

\* While the server holds a session that the device knows of, the worker is on its way to the release.
Holds ==
  srv.held /\ ~srv.lost => /\ wk.pc \in {"connect", "tls", "loop", "unready", "reset", "report", "release"}
                           /\ wk.grant.kind = "platform" /\ wk.grant.token # "none"
GrantInv == Queued /\ Tokens /\ Retried /\ BackoffRetries /\ Asks /\ Holds

\* A grant that waits is newer than the worker's, and neither is newer than the epoch.
Epochs ==
  /\ wk.grant.epoch <= ctl.epoch
  /\ \A i \in DOMAIN grants : wk.grant.epoch < grants[i].epoch /\ grants[i].epoch <= ctl.epoch

\* Once s_run is reset no grant that waits is current, and a closed service has neither grants nor a worker.
Stopped ==
  /\ ~ctl.open => ~ctl.run /\ grants = <<>> /\ ~ctl.task
  /\ brd.pc = "joining" => ~ctl.run
  /\ ~ctl.run => \A i \in DOMAIN grants : grants[i].epoch # ctl.epoch

\* A worker that takes a grant has nothing to retry, and one that gave its call up recovers nothing.
Fresh == wk.pc \in {"none", "wait", "check"} => ~wk.retry
Finished == wk.pc = "free" => ~ctl.recovering

\* What the board's task and the MQTT task are in the middle of fits how the board asks for calls.
Kinded == (mq = "offer" => brd.kind = "offer") /\ (brd.pc \in {"queue", "undo"} => brd.kind = "platform")

\* The board's task clears s_realtime_wanted before it cancels.
Unwanted == brd.pc \in {"cancel", "update", "stop", "joining"} => ~wifi.wanted
UndoIsAlone == brd.pc = "undo" => ~CallExists

\* Flag and call differ only between the two steps of a request, an end, a stop or a loss of the platform, and after a
\* request was refused.
Faithful == ~brd.crossed /\ ~brd.cut
Wanted ==
  Faithful => /\ cld = "cancel" => ~wifi.wanted
              /\ brd.kind = "platform" /\ wifi.wanted => CallExists \/ brd.pc \in {"say", "queue", "undo"}
              /\ CallExists /\ ~wifi.wanted => brd.pc \in {"cancel", "stop"} \/ cld = "cancel" \/ brd.refused
FlagInv == Epochs /\ Stopped /\ Fresh /\ Finished /\ Kinded /\ Unwanted /\ UndoIsAlone /\ RecoveringIsRetry /\ Wanted

IInv == Types /\ LinkInv /\ GrantInv /\ FlagInv

-----------------------------------------------------------------------------
(* The types *)

Ctls == [open : BOOLEAN, run : BOOLEAN, epoch : Nat, ready : BOOLEAN, busy : BOOLEAN, recovering : BOOLEAN,
         continuous : BOOLEAN, input : BOOLEAN, task : BOOLEAN]
Wks == [pc : WorkerPcs, flush : {"no", "checked", "taken"}, grant : Grants, conn : Nat,
        retryable : BOOLEAN, retry : BOOLEAN, used : 0..MaxRetries]
Meds == [pc : {"none", "loop", "ready", "say", "recovered", "done"}, running : BOOLEAN, rx : Seq({"ready", "fatal"})]
Wifis == [online : BOOLEAN, wanted : BOOLEAN, platform : BOOLEAN, link : {"disconnected", "connected", "ready"}]
Brds == [pc : {"idle", "say", "ask", "queue", "undo", "cancel", "update", "stop", "joining"}, kind : Kinds,
         stream : BOOLEAN, crossed : BOOLEAN, cut : BOOLEAN, refused : BOOLEAN]
Srvs == [held : BOOLEAN, lost : BOOLEAN, era : Nat]
Useds == [calls : Nat, packets : Nat, breaks : Nat]

LEMMA Typed ==
  ASSUME Types
  PROVE  /\ ctl \in Ctls /\ wk \in Wks /\ med \in Meds /\ wifi \in Wifis /\ brd \in Brds
         /\ srv \in Srvs /\ used \in Useds
         /\ grants \in Seq(Grants) /\ Len(grants) <= 1
         /\ tx \in Seq(Nat) /\ Len(tx) <= TxDepth
         /\ cld \in {"idle", "cancel", "update"} /\ mq \in {"idle", "offer"}
BY DEF Types, TypeOK, Ctls, Wks, Meds, Wifis, Brds, Srvs, Useds

LEMMA Assembled ==
  ASSUME ctl' \in Ctls, wk' \in Wks, med' \in Meds, wifi' \in Wifis, brd' \in Brds,
         srv' \in Srvs, used' \in Useds,
         grants' \in Seq(Grants), Len(grants') <= 1,
         tx' \in Seq(Nat), Len(tx') <= TxDepth,
         cld' \in {"idle", "cancel", "update"}, mq' \in {"idle", "offer"},
         TaskIsWorker', BudgetLeft', Flushing'
  PROVE  Types'
BY DEF Types, TypeOK, Ctls, Wks, Meds, Wifis, Brds, Srvs, Useds

LEMMA Kept ==
  ASSUME Types, UNCHANGED <<ctl, wk>>
  PROVE  TaskIsWorker' /\ BudgetLeft' /\ Flushing'
BY DEF Types, TaskIsWorker, BudgetLeft, Flushing

LEMMA Counts ==
  ASSUME Types
  PROVE  /\ ctl.epoch \in Nat /\ ctl.epoch + 1 \in Nat
         /\ wk.conn \in Nat /\ wk.conn + 1 \in Nat /\ srv.era \in Nat
         /\ used.calls + 1 \in Nat /\ used.packets + 1 \in Nat /\ used.breaks + 1 \in Nat
         /\ wk.used \in 0..MaxRetries /\ 0 \in 0..MaxRetries
<1>1. ctl.epoch \in Nat /\ wk.conn \in Nat /\ srv.era \in Nat /\ wk.used \in 0..MaxRetries
  BY Typed DEF Ctls, Wks, Srvs
<1>2. used.calls \in Nat /\ used.packets \in Nat /\ used.breaks \in Nat
  BY Typed DEF Useds
<1>3. 0 \in 0..MaxRetries
  BY CallAssumption
<1> QED BY <1>1, <1>2, <1>3

LEMMA NoGrantTyped == NoGrant \in Grants
BY DEF NoGrant, Grants

LEMMA Pushed ==
  ASSUME Types, NEW era \in Nat, tx' = Append(tx, era), Len(tx) + 1 <= TxDepth
  PROVE  tx' \in Seq(Nat) /\ Len(tx') <= TxDepth
BY Typed, AppendProperties

LEMMA Spoken ==
  ASSUME Types, NEW msg \in {"ready", "fatal"}, med' = [med EXCEPT !.rx = Append(@, msg)]
  PROVE  med' \in Meds
<1>1. Append(med.rx, msg) \in Seq({"ready", "fatal"})
  BY Typed, AppendProperties DEF Meds
<1> QED BY <1>1, Typed DEF Meds

LEMMA Quiet == <<>> \in Seq({"ready", "fatal"})
OBVIOUS

LEMMA WkMoves ==
  ASSUME Types, NEW pc \in WorkerPcs, WkGoto(pc)
  PROVE  wk' \in Wks
BY Typed DEF WkGoto, Wks

LEMMA Begins ==
  ASSUME Types, NEW grant \in Grants
  PROVE  /\ BeginAttempt(grant) \in Wks
         /\ BeginAttempt(grant).pc \in {"grant", "connect"}
BY Typed DEF BeginAttempt, Wks, WorkerPcs

LEMMA Shown ==
  ASSUME Types, NEW token \in {"none", "fresh", "shown"}
  PROVE  [wk.grant EXCEPT !.token = token] \in Grants
BY Typed DEF Wks, Grants

LEMMA RequestType ==
  ASSUME Types, Request
  PROVE  Types'
<1>1. wifi' \in Wifis
  BY Typed DEF Request, Wifis
<1>2. brd' \in Brds
  BY Typed DEF Request, Brds
<1>3. used' \in Useds
  BY Typed DEF Request, Useds
<1> QED BY <1>1, <1>2, <1>3, Typed, Assembled, Kept DEF Request

LEMMA RequestSaysType ==
  ASSUME Types, RequestSays
  PROVE  Types'
<1>1. wifi' \in Wifis
  BY Typed DEF RequestSays, UpdateLink, Wifis
<1>2. brd' \in Brds
  BY Typed DEF RequestSays, BrdGoto, Brds
<1> QED BY <1>1, <1>2, Typed, Assembled, Kept DEF RequestSays

LEMMA RequestAskedType ==
  ASSUME Types, RequestAsked
  PROVE  Types'
<1>1. brd' \in Brds
  BY Typed DEF RequestAsked, BrdGoto, Brds
<1> QED BY <1>1, Typed, Assembled, Kept DEF RequestAsked

LEMMA RequestRefusedType ==
  ASSUME Types, RequestRefused
  PROVE  Types'
<1>1. wifi' \in Wifis
  BY Typed DEF RequestRefused, Wifis
<1>2. brd' \in Brds
  BY Typed DEF RequestRefused, CallExists, Brds
<1> QED BY <1>1, <1>2, Typed, Assembled, Kept DEF RequestRefused

LEMMA RequestQueuesType ==
  ASSUME Types, RequestQueues
  PROVE  Types'
<1>1. ctl' \in Ctls
  BY Typed, Counts DEF RequestQueues, QueueGrant, Ctls
<1>2. grants' \in Seq(Grants) /\ Len(grants') <= 1
  BY Typed DEF RequestQueues, QueueGrant, Grants, Ctls
<1>3. wk' \in Wks
  BY Typed DEF RequestQueues, QueueGrant, Wks, WorkerPcs
<1>4. brd' \in Brds
  BY Typed DEF RequestQueues, QueueGrant, Brds
<1>5. TaskIsWorker' /\ BudgetLeft' /\ Flushing'
  BY DEF Types, TaskIsWorker, BudgetLeft, Flushing, RequestQueues, QueueGrant
<1> QED BY <1>1, <1>2, <1>3, <1>4, <1>5, Typed, Assembled DEF RequestQueues

LEMMA RequestFailsType ==
  ASSUME Types, RequestFails
  PROVE  Types'
<1>1. ctl' \in Ctls
  BY Typed, Counts DEF RequestFails, Ctls
<1>2. grants' \in Seq(Grants) /\ Len(grants') <= 1
  BY DEF RequestFails
<1>3. brd' \in Brds
  BY Typed DEF RequestFails, BrdGoto, Brds
<1>4. TaskIsWorker' /\ BudgetLeft' /\ Flushing'
  BY DEF Types, TaskIsWorker, BudgetLeft, Flushing, RequestFails
<1> QED BY <1>1, <1>2, <1>3, <1>4, Typed, Assembled DEF RequestFails

LEMMA RequestUndoneType ==
  ASSUME Types, RequestUndone
  PROVE  Types'
<1>1. wifi' \in Wifis
  BY Typed DEF RequestUndone, Wifis
<1>2. brd' \in Brds
  BY Typed DEF RequestUndone, BrdGoto, Brds
<1> QED BY <1>1, <1>2, Typed, Assembled, Kept DEF RequestUndone

LEMMA EndType ==
  ASSUME Types, End
  PROVE  Types'
<1>1. wifi' \in Wifis
  BY Typed DEF End, Wifis
<1>2. brd' \in Brds
  BY Typed DEF End, BrdGoto, Brds
<1>3. used' \in Useds
  BY Typed DEF End, Useds
<1> QED BY <1>1, <1>2, <1>3, Typed, Assembled, Kept DEF End

LEMMA EndCancelsType ==
  ASSUME Types, EndCancels
  PROVE  Types'
<1>1. ctl' \in Ctls
  BY Typed, Counts DEF EndCancels, Cancel, Ctls
<1>2. grants' \in Seq(Grants) /\ Len(grants') <= 1
  BY DEF EndCancels, Cancel
<1>3. tx' \in Seq(Nat) /\ Len(tx') <= TxDepth
  BY CallAssumption DEF EndCancels, Cancel
<1>4. brd' \in Brds
  BY Typed DEF EndCancels, BrdGoto, Cancel, Brds
<1>5. TaskIsWorker' /\ BudgetLeft' /\ Flushing'
  BY DEF Types, TaskIsWorker, BudgetLeft, Flushing, EndCancels, Cancel
<1> QED BY <1>1, <1>2, <1>3, <1>4, <1>5, Typed, Assembled DEF EndCancels

LEMMA BoardUpdatesType ==
  ASSUME Types, BoardUpdates
  PROVE  Types'
<1>1. wifi' \in Wifis
  BY Typed DEF BoardUpdates, UpdateLink, Wifis
<1>2. brd' \in Brds
  BY Typed DEF BoardUpdates, BrdGoto, Brds
<1> QED BY <1>1, <1>2, Typed, Assembled, Kept DEF BoardUpdates

LEMMA StreamStartType ==
  ASSUME Types, StreamStart
  PROVE  Types'
<1>1. ctl' \in Ctls
  BY Typed DEF StreamStart, Ctls
<1>2. tx' \in Seq(Nat) /\ Len(tx') <= TxDepth
  <2>1. CASE ctl.continuous
    BY <2>1, Typed DEF StreamStart
  <2>2. CASE ~ctl.continuous
    <3>1. Len(tx) \in Nat /\ Len(tx) + 1 <= TxDepth
      BY <2>2, CallAssumption DEF StreamStart
    <3> QED BY <2>2, <3>1, Pushed, Counts DEF StreamStart
  <2> QED BY <2>1, <2>2
<1>3. brd' \in Brds
  BY Typed DEF StreamStart, Brds
<1>4. TaskIsWorker' /\ BudgetLeft' /\ Flushing'
  BY DEF Types, TaskIsWorker, BudgetLeft, Flushing, StreamStart
<1> QED BY <1>1, <1>2, <1>3, <1>4, Typed, Assembled DEF StreamStart

LEMMA StreamWriteType ==
  ASSUME Types, StreamWrite
  PROVE  Types'
<1>1. tx' \in Seq(Nat) /\ Len(tx') <= TxDepth
  <2>1. Len(tx) \in Nat /\ Len(tx) + 1 <= TxDepth
    BY CallAssumption DEF StreamWrite
  <2> QED BY <2>1, Pushed, Counts DEF StreamWrite
<1>2. used' \in Useds
  BY Typed DEF StreamWrite, Useds
<1> QED BY <1>1, <1>2, Typed, Assembled, Kept DEF StreamWrite

LEMMA StreamEndType ==
  ASSUME Types, StreamEnd
  PROVE  Types'
<1>1. ctl' \in Ctls
  BY Typed DEF StreamEnd, Ctls
<1>2. tx' \in Seq(Nat) /\ Len(tx') <= TxDepth
  <2>1. CASE tx' = tx
    BY <2>1, Typed
  <2>2. CASE tx' # tx
    <3>1. Len(tx) \in Nat /\ Len(tx) + 1 <= TxDepth
      BY <2>2, CallAssumption DEF StreamEnd
    <3> QED BY <2>2, <3>1, Pushed, Counts DEF StreamEnd
  <2> QED BY <2>1, <2>2
<1>3. brd' \in Brds
  BY Typed DEF StreamEnd, Brds
<1>4. TaskIsWorker' /\ BudgetLeft' /\ Flushing'
  BY Typed DEF Types, TaskIsWorker, BudgetLeft, Flushing, Ctls, StreamEnd
<1> QED BY <1>1, <1>2, <1>3, <1>4, Typed, Assembled DEF StreamEnd

LEMMA StreamCutType ==
  ASSUME Types, StreamCut
  PROVE  Types'
<1>1. ctl' \in Ctls
  BY Typed, Counts DEF StreamCut, Cancel, Ctls
<1>2. grants' \in Seq(Grants) /\ Len(grants') <= 1
  BY DEF StreamCut, Cancel
<1>3. tx' \in Seq(Nat) /\ Len(tx') <= TxDepth
  BY CallAssumption DEF StreamCut, Cancel
<1>4. brd' \in Brds
  BY Typed DEF StreamCut, Cancel, Brds
<1>5. used' \in Useds
  BY Typed, Counts DEF StreamCut, Cancel, Useds
<1>6. TaskIsWorker' /\ BudgetLeft' /\ Flushing'
  BY DEF Types, TaskIsWorker, BudgetLeft, Flushing, StreamCut, Cancel
<1> QED BY <1>1, <1>2, <1>3, <1>4, <1>5, <1>6, Typed, Assembled DEF StreamCut

LEMMA StopType ==
  ASSUME Types, Stop
  PROVE  Types'
<1>1. wifi' \in Wifis
  BY Typed DEF Stop, Wifis
<1>2. brd' \in Brds
  BY Typed DEF Stop, BrdGoto, Brds
<1>3. used' \in Useds
  BY Typed DEF Stop, Useds
<1> QED BY <1>1, <1>2, <1>3, Typed, Assembled, Kept DEF Stop

LEMMA StopSignalsType ==
  ASSUME Types, StopSignals
  PROVE  Types'
<1>1. ctl' \in Ctls
  BY Typed, Counts DEF StopSignals, Ctls
<1>2. brd' \in Brds
  BY Typed DEF StopSignals, BrdGoto, Brds
<1>3. TaskIsWorker' /\ BudgetLeft' /\ Flushing'
  BY DEF Types, TaskIsWorker, BudgetLeft, Flushing, StopSignals
<1> QED BY <1>1, <1>2, <1>3, Typed, Assembled DEF StopSignals

LEMMA StopJoinedType ==
  ASSUME Types, StopJoined
  PROVE  Types'
<1>1. ctl' \in Ctls
  BY Typed DEF StopJoined, Ctls
<1>2. grants' \in Seq(Grants) /\ Len(grants') <= 1
  BY DEF StopJoined
<1>3. tx' \in Seq(Nat) /\ Len(tx') <= TxDepth
  BY CallAssumption DEF StopJoined
<1>4. wifi' \in Wifis
  BY Typed DEF StopJoined, Wifis
<1>5. brd' \in Brds
  BY Typed DEF StopJoined, BrdGoto, Brds
<1>6. TaskIsWorker' /\ BudgetLeft' /\ Flushing'
  BY DEF Types, TaskIsWorker, BudgetLeft, Flushing, StopJoined
<1> QED BY <1>1, <1>2, <1>3, <1>4, <1>5, <1>6, Typed, Assembled DEF StopJoined

LEMMA StartType ==
  ASSUME Types, Start
  PROVE  Types'
<1>1. ctl' \in Ctls
  BY Typed DEF Start, Ctls
<1>2. TaskIsWorker' /\ BudgetLeft' /\ Flushing'
  BY DEF Types, TaskIsWorker, BudgetLeft, Flushing, Start
<1> QED BY <1>1, <1>2, Typed, Assembled DEF Start

LEMMA OfflineType ==
  ASSUME Types, Offline
  PROVE  Types'
<1>1. wifi' \in Wifis
  BY Typed DEF Offline, Wifis
<1>2. cld' \in {"idle", "cancel", "update"}
  BY DEF Offline
<1>3. used' \in Useds
  BY Typed, Counts DEF Offline, Useds
<1> QED BY <1>1, <1>2, <1>3, Typed, Assembled, Kept DEF Offline

LEMMA OfflineCancelsType ==
  ASSUME Types, OfflineCancels
  PROVE  Types'
<1>1. ctl' \in Ctls
  BY Typed, Counts DEF OfflineCancels, Cancel, Ctls
<1>2. grants' \in Seq(Grants) /\ Len(grants') <= 1
  BY DEF OfflineCancels, Cancel
<1>3. tx' \in Seq(Nat) /\ Len(tx') <= TxDepth
  BY CallAssumption DEF OfflineCancels, Cancel
<1>4. cld' \in {"idle", "cancel", "update"}
  BY DEF OfflineCancels, Cancel
<1>5. TaskIsWorker' /\ BudgetLeft' /\ Flushing'
  BY DEF Types, TaskIsWorker, BudgetLeft, Flushing, OfflineCancels, Cancel
<1> QED BY <1>1, <1>2, <1>3, <1>4, <1>5, Typed, Assembled DEF OfflineCancels

LEMMA OnlineType ==
  ASSUME Types, Online
  PROVE  Types'
<1>1. wifi' \in Wifis
  BY Typed DEF Online, Wifis
<1>2. cld' \in {"idle", "cancel", "update"}
  BY DEF Online
<1> QED BY <1>1, <1>2, Typed, Assembled, Kept DEF Online

LEMMA CloudUpdatesType ==
  ASSUME Types, CloudUpdates
  PROVE  Types'
<1>1. wifi' \in Wifis
  BY Typed DEF CloudUpdates, UpdateLink, Wifis
<1>2. cld' \in {"idle", "cancel", "update"}
  BY DEF CloudUpdates
<1> QED BY <1>1, <1>2, Typed, Assembled, Kept DEF CloudUpdates

LEMMA OfferType ==
  ASSUME Types, Offer
  PROVE  Types'
<1>1. mq' \in {"idle", "offer"}
  BY DEF Offer
<1>2. used' \in Useds
  BY Typed, Counts DEF Offer, Useds
<1> QED BY <1>1, <1>2, Typed, Assembled, Kept DEF Offer

LEMMA OfferQueuesType ==
  ASSUME Types, OfferQueues
  PROVE  Types'
<1>1. ctl' \in Ctls
  BY Typed, Counts DEF OfferQueues, QueueGrant, Ctls
<1>2. grants' \in Seq(Grants) /\ Len(grants') <= 1
  BY Typed DEF OfferQueues, QueueGrant, Grants, Ctls
<1>3. wk' \in Wks
  BY Typed DEF OfferQueues, QueueGrant, Wks, WorkerPcs
<1>4. brd' \in Brds
  BY Typed DEF OfferQueues, QueueGrant, Brds
<1>5. mq' \in {"idle", "offer"}
  BY DEF OfferQueues, QueueGrant
<1>6. TaskIsWorker' /\ BudgetLeft' /\ Flushing'
  BY DEF Types, TaskIsWorker, BudgetLeft, Flushing, OfferQueues, QueueGrant
<1> QED BY <1>1, <1>2, <1>3, <1>4, <1>5, <1>6, Typed, Assembled DEF OfferQueues

LEMMA OfferRefusedType ==
  ASSUME Types, OfferRefused
  PROVE  Types'
<1>1. mq' \in {"idle", "offer"}
  BY DEF OfferRefused
<1> QED BY <1>1, Typed, Assembled, Kept DEF OfferRefused

LEMMA DequeueType ==
  ASSUME Types, Dequeue
  PROVE  Types'
<1>1. grants' \in Seq(Grants) /\ Len(grants') <= 1
  BY DEF Dequeue
<1>2. wk' \in Wks
  <2>1. grants[1] \in Grants
    BY Typed DEF Dequeue
  <2> QED BY <2>1, Typed DEF Dequeue, Wks, WorkerPcs
<1>3. TaskIsWorker' /\ BudgetLeft' /\ Flushing'
  BY DEF Types, TaskIsWorker, BudgetLeft, Flushing, Dequeue, WkAt
<1> QED BY <1>1, <1>2, <1>3, Typed, Assembled DEF Dequeue, WorkerUnch

LEMMA ExitType ==
  ASSUME Types, Exit
  PROVE  Types'
<1>1. ctl' \in Ctls
  BY Typed DEF Exit, Ctls
<1>2. wk' \in Wks
  BY Typed DEF Exit, WkGoto, Wks, WorkerPcs
<1>3. TaskIsWorker' /\ BudgetLeft' /\ Flushing'
  <2>1. wk.pc = "wait" /\ wk'.pc = "none" /\ wk'.flush = wk.flush /\ ctl'.task = FALSE
    BY Typed DEF Exit, WkAt, WkGoto, Wks, Ctls
  <2> QED BY <2>1 DEF Types, TaskIsWorker, BudgetLeft, Flushing
<1> QED BY <1>1, <1>2, <1>3, Typed, Assembled DEF Exit, WorkerUnch

LEMMA CheckType ==
  ASSUME Types, Check
  PROVE  Types'
<1>1. ctl' \in Ctls
  BY Typed DEF Check, BeginAttempt, Ctls
<1>2. wk' \in Wks
  <2>1. wk.grant \in Grants
    BY Typed DEF Wks
  <2>2. CASE Mine
    BY <2>1, <2>2, Begins DEF Check
  <2>3. CASE ~Mine
    BY <2>3, WkMoves DEF Check, WorkerPcs
  <2> QED BY <2>2, <2>3
<1>3. TaskIsWorker' /\ BudgetLeft' /\ Flushing'
  <2>1. wk.pc = "check" /\ wk'.pc \in {"grant", "connect", "wait"} /\ wk'.flush = wk.flush /\ ctl'.task = ctl.task
    BY Typed DEF Check, WkAt, WkGoto, BeginAttempt, Wks, Ctls
  <2> QED BY <2>1 DEF Types, TaskIsWorker, BudgetLeft, Flushing
<1> QED BY <1>1, <1>2, <1>3, Typed, Assembled DEF Check, WorkerUnch

LEMMA AskGrantType ==
  ASSUME Types, AskGrant
  PROVE  Types'
<1>1. wk' \in Wks
  <2>1. \/ \E pc \in WorkerPcs : WkGoto(pc)
        \/ wk' = [wk EXCEPT !.pc = "connect", !.grant = [wk.grant EXCEPT !.token = "fresh"]]
        \/ wk' = [wk EXCEPT !.pc = "unready", !.grant = [wk.grant EXCEPT !.token = "fresh"]]
    BY DEF AskGrant, Granted, GrantUnusable, GrantLost, GrantDenied, GrantBusy, WorkerPcs
  <2> QED BY <2>1, WkMoves, Shown, Typed DEF Wks, WorkerPcs
<1>2. srv' \in Srvs
  BY Typed DEF AskGrant, Granted, GrantUnusable, GrantLost, GrantDenied, GrantBusy, Srvs
<1>3. TaskIsWorker' /\ BudgetLeft' /\ Flushing'
  BY Typed DEF Types, TaskIsWorker, BudgetLeft, Flushing, Wks, AskGrant, WkAt, WkGoto, Granted, GrantUnusable,
     GrantLost, GrantDenied, GrantBusy
<1> QED BY <1>1, <1>2, <1>3, Typed, Assembled DEF AskGrant, WorkerUnch

LEMMA RefreshType ==
  ASSUME Types, Refresh
  PROVE  Types'
<1>1. wk' \in Wks
  <2>1. \/ \E pc \in WorkerPcs : WkGoto(pc)
        \/ wk' = [wk EXCEPT !.pc = "connect", !.grant = [wk.grant EXCEPT !.token = "fresh"]]
        \/ wk' = [wk EXCEPT !.pc = "unready", !.grant = [wk.grant EXCEPT !.token = "fresh"]]
    BY DEF Refresh, Granted, GrantUnusable, GrantLost, GrantDenied, WorkerPcs
  <2> QED BY <2>1, WkMoves, Shown, Typed DEF Wks, WorkerPcs
<1>2. srv' \in Srvs
  BY Typed DEF Refresh, Granted, GrantUnusable, GrantLost, GrantDenied, Srvs
<1>3. TaskIsWorker' /\ BudgetLeft' /\ Flushing'
  BY Typed DEF Types, TaskIsWorker, BudgetLeft, Flushing, Wks, Refresh, WkAt, WkGoto, Granted, GrantUnusable,
     GrantLost, GrantDenied
<1> QED BY <1>1, <1>2, <1>3, Typed, Assembled DEF Refresh, WorkerUnch

LEMMA ConnectType ==
  ASSUME Types, Connect
  PROVE  Types'
<1>1. wk' \in Wks
  BY WkMoves DEF Connect, WorkerPcs
<1>2. wifi' \in Wifis
  BY Typed DEF Connect, UpdateLink, Wifis
<1>3. TaskIsWorker' /\ BudgetLeft' /\ Flushing'
  BY Typed DEF Types, TaskIsWorker, BudgetLeft, Flushing, Wks, Connect, WkAt, WkGoto
<1> QED BY <1>1, <1>2, <1>3, Typed, Assembled DEF Connect, WorkerUnch

LEMMA ConnectedType ==
  ASSUME Types, Connected
  PROVE  Types'
<1>1. wk' \in Wks
  <2>1. CASE Hello
    BY <2>1, Shown, Counts, Typed DEF Hello, Wks, WorkerPcs
  <2>2. CASE HelloFails
    BY <2>2, Shown, Typed DEF HelloFails, Wks, WorkerPcs
  <2>3. CASE NoHello
    BY <2>3, WkMoves DEF NoHello, WorkerPcs
  <2> QED BY <2>1, <2>2, <2>3 DEF Connected
<1>2. med' \in Meds
  <2>1. CASE Hello
    BY <2>1, Quiet DEF Hello, Meds
  <2>2. CASE ~Hello
    BY <2>2, Typed DEF Connected, HelloFails, NoHello
  <2> QED BY <2>1, <2>2
<1>3. TaskIsWorker' /\ BudgetLeft' /\ Flushing'
  <2>1. wk.pc = "tls" /\ ctl'.task = ctl.task /\ wk.flush = "no"
    BY DEF Types, Flushing, Connected, WkAt
  <2>2. CASE Hello
    <3>1. wk' = [wk EXCEPT !.pc = "loop", !.conn = wk.conn + 1, !.grant = [wk.grant EXCEPT !.token = "shown"]]
      BY <2>2 DEF Hello
    <3>2. wk'.pc = "loop" /\ wk'.flush = "no"
      BY <2>1, <3>1, Typed DEF Wks
    <3> QED BY <2>1, <3>2 DEF Types, TaskIsWorker, BudgetLeft, Flushing
  <2>3. CASE HelloFails
    <3>1. wk' = [wk EXCEPT !.pc = "unready", !.retryable = TRUE, !.grant = [wk.grant EXCEPT !.token = "shown"]]
      BY <2>3 DEF HelloFails
    <3>2. wk'.pc = "unready" /\ wk'.flush = "no"
      BY <2>1, <3>1, Typed DEF Wks
    <3> QED BY <2>1, <3>2 DEF Types, TaskIsWorker, BudgetLeft, Flushing
  <2>4. CASE NoHello
    <3>1. wk'.pc = "unready" /\ wk'.flush = "no"
      BY <2>1, <2>4, Typed DEF NoHello, WkGoto, Wks
    <3> QED BY <2>1, <3>1 DEF Types, TaskIsWorker, BudgetLeft, Flushing
  <2> QED BY <2>2, <2>3, <2>4 DEF Connected
<1> QED BY <1>1, <1>2, <1>3, Typed, Assembled DEF Connected, WorkerUnch

LEMMA FlushType ==
  ASSUME Types, FlushTx
  PROVE  Types'
<1>1. tx' \in Seq(Nat) /\ Len(tx') <= TxDepth
  <2>1. tx' = tx \/ (tx # <<>> /\ tx' = Tail(tx))
    BY DEF FlushTx, FlushChecks, FlushTakes, FlushNothing, FlushSent
  <2>2. tx \in Seq(Nat) /\ Len(tx) <= TxDepth /\ TxDepth \in Nat
    BY Typed, CallAssumption
  <2> QED BY <2>1, <2>2
<1>2. \E step \in {"no", "checked", "taken"} : FlushGoto(step)
  BY DEF FlushTx, FlushChecks, FlushTakes, FlushNothing, FlushSent
<1>3. wk' \in Wks /\ wk'.pc = wk.pc /\ wk'.retry = wk.retry /\ wk'.used = wk.used
  BY <1>2, Typed DEF FlushGoto, Wks
<1>4. wk.pc = "loop"
  BY DEF Types, Flushing, FlushAt, Looping, WkAt, FlushTx, FlushChecks, FlushTakes, FlushNothing, FlushSent
<1>5. UNCHANGED <<ctl, grants, med, wifi, srv, brd, cld, mq, used>>
  BY DEF WorkerUnch, FlushTx, FlushChecks, FlushTakes, FlushNothing, FlushSent
<1>6. TaskIsWorker' /\ BudgetLeft' /\ Flushing'
  BY <1>3, <1>4, <1>5 DEF Types, TaskIsWorker, BudgetLeft, Flushing
<1> QED BY <1>1, <1>3, <1>5, <1>6, Typed, Assembled

\* What a step of FlushTx leaves alone, and where the worker is.
LEMMA FlushKeeps ==
  ASSUME Types, FlushTx
  PROVE  /\ UNCHANGED <<ctl, grants, med, wifi, srv, brd, cld, mq, used>>
         /\ wk.pc = "loop" /\ wk'.pc = "loop" /\ wk'.grant = wk.grant /\ wk'.conn = wk.conn
         /\ wk'.retry = wk.retry /\ wk'.used = wk.used
<1>1. \E step \in {"no", "checked", "taken"} : FlushGoto(step)
  BY DEF FlushTx, FlushChecks, FlushTakes, FlushNothing, FlushSent
<1>2. wk.pc = "loop"
  BY DEF Types, Flushing, FlushAt, Looping, WkAt, FlushTx, FlushChecks, FlushTakes, FlushNothing, FlushSent
<1>3. UNCHANGED <<ctl, grants, med, wifi, srv, brd, cld, mq, used>>
  BY DEF WorkerUnch, FlushTx, FlushChecks, FlushTakes, FlushNothing, FlushSent
<1> QED BY <1>1, <1>2, <1>3, Typed DEF FlushGoto, Wks

LEMMA StableType ==
  ASSUME Types, Stable
  PROVE  Types'
<1>1. wk' \in Wks
  BY Typed, Counts DEF Stable, Wks
<1>2. TaskIsWorker' /\ BudgetLeft' /\ Flushing'
  BY DEF Types, TaskIsWorker, BudgetLeft, Flushing, Stable, Looping, WkAt
<1> QED BY <1>1, <1>2, Typed, Assembled DEF Stable, WorkerUnch

LEMMA LeaveType ==
  ASSUME Types, Leave
  PROVE  Types'
<1>1. wk' \in Wks
  BY Typed DEF Leave, LeaveLoop, Wks, WorkerPcs
<1>2. med' \in Meds
  BY Typed DEF Leave, LeaveLoop, Meds
<1>3. TaskIsWorker' /\ BudgetLeft' /\ Flushing'
  BY DEF Types, TaskIsWorker, BudgetLeft, Flushing, Leave, Looping, WkAt, LeaveLoop
<1> QED BY <1>1, <1>2, <1>3, Typed, Assembled DEF Leave, WorkerUnch, LeaveLoop

LEMMA UnreadyType ==
  ASSUME Types, Unready
  PROVE  Types'
<1>1. ctl' \in Ctls
  BY Typed DEF Unready, Ctls
<1>2. wk' \in Wks
  BY Typed DEF Unready, WkGoto, Wks, WorkerPcs
<1>3. med' \in Meds
  BY DEF Unready, Meds
<1>4. TaskIsWorker' /\ BudgetLeft' /\ Flushing'
  BY DEF Types, TaskIsWorker, BudgetLeft, Flushing, Unready, WkAt, WkGoto
<1> QED BY <1>1, <1>2, <1>3, <1>4, Typed, Assembled DEF Unready, WorkerUnch

LEMMA DecideType ==
  ASSUME Types, Decide
  PROVE  Types'
<1>1. ctl' \in Ctls
  BY Typed DEF Decide, MayRetry, ResetInput, Ctls
<1>2. tx' \in Seq(Nat) /\ Len(tx') <= TxDepth
  BY CallAssumption DEF Decide, MayRetry, ResetInput
<1>3. wk' \in Wks
  BY Typed DEF Decide, Wks, WorkerPcs
<1>4. TaskIsWorker' /\ BudgetLeft' /\ Flushing'
  BY Typed DEF Types, TaskIsWorker, BudgetLeft, Flushing, Ctls, Wks, Decide, WkAt, MayRetry, ResetInput
<1> QED BY <1>1, <1>2, <1>3, <1>4, Typed, Assembled DEF Decide, WorkerUnch

LEMMA ReportType ==
  ASSUME Types, Report
  PROVE  Types'
<1>1. wk' \in Wks
  BY Typed DEF Report, WkGoto, Wks, WorkerPcs
<1>2. wifi' \in Wifis
  BY Typed DEF Report, UpdateLink, Wifis
<1>3. TaskIsWorker' /\ BudgetLeft' /\ Flushing'
  BY DEF Types, TaskIsWorker, BudgetLeft, Flushing, Report, WkAt, WkGoto
<1> QED BY <1>1, <1>2, <1>3, Typed, Assembled DEF Report, WorkerUnch

LEMMA ReleaseType ==
  ASSUME Types, Release
  PROVE  Types'
<1>1. wk' \in Wks
  <2>1. CASE wk.retry /\ Mine
    <3>1. wk.used + 1 \in 0..MaxRetries
      BY <2>1, Counts, CallAssumption DEF Release, WkAt, Types, BudgetLeft
    <3> QED BY <2>1, <3>1, Typed DEF Release, Again, Wks, WorkerPcs
  <2>2. CASE ~(wk.retry /\ Mine)
    BY <2>2, Typed DEF Release, Again, Wks, WorkerPcs
  <2> QED BY <2>1, <2>2
<1>2. srv' \in Srvs
  BY Typed DEF Release, Again, Srvs
<1>3. TaskIsWorker' /\ BudgetLeft' /\ Flushing'
  BY DEF Types, TaskIsWorker, BudgetLeft, Flushing, Release, WkAt, Again
<1> QED BY <1>1, <1>2, <1>3, Typed, Assembled DEF Release, WorkerUnch

LEMMA BackoffType ==
  ASSUME Types, Backoff
  PROVE  Types'
<1>1. wk' \in Wks
  <2>1. CASE Mine
    BY <2>1, Shown, Begins DEF Backoff
  <2>2. CASE ~Mine
    BY <2>2, Typed DEF Backoff, Wks, WorkerPcs
  <2> QED BY <2>1, <2>2
<1>2. TaskIsWorker' /\ BudgetLeft' /\ Flushing'
  BY DEF Types, TaskIsWorker, BudgetLeft, Flushing, Backoff, WkAt, BeginAttempt
<1> QED BY <1>1, <1>2, Typed, Assembled DEF Backoff, WorkerUnch

LEMMA FinishGrantType ==
  ASSUME Types, FinishGrant
  PROVE  Types'
<1>1. ctl' \in Ctls
  BY Typed DEF FinishGrant, Finishes, Ctls
<1>2. wk' \in Wks
  BY Typed DEF FinishGrant, WkGoto, Finishes, Wks, WorkerPcs
<1>3. wifi' \in Wifis
  BY Typed DEF FinishGrant, Finishes, Wifis
<1>4. TaskIsWorker' /\ BudgetLeft' /\ Flushing'
  BY DEF Types, TaskIsWorker, BudgetLeft, Flushing, FinishGrant, WkAt, WkGoto, Finishes
<1> QED BY <1>1, <1>2, <1>3, <1>4, Typed, Assembled DEF FinishGrant, WorkerUnch

LEMMA FreeType ==
  ASSUME Types, Free
  PROVE  Types'
<1>1. ctl' \in Ctls
  BY Typed DEF Free, Ctls
<1>2. wk' \in Wks
  BY Typed, Counts, NoGrantTyped DEF Free, Wks, WorkerPcs
<1>3. TaskIsWorker' /\ BudgetLeft' /\ Flushing'
  BY DEF Types, TaskIsWorker, BudgetLeft, Flushing, Free, WkAt
<1> QED BY <1>1, <1>2, <1>3, Typed, Assembled DEF Free, WorkerUnch

LEMMA MediaTakesType ==
  ASSUME Types, MediaTakes
  PROVE  Types'
<1>1. med' \in Meds
  <2>1. Tail(med.rx) \in Seq({"ready", "fatal"})
    BY Typed, HeadTailProperties DEF MediaTakes, Meds
  <2> QED BY <2>1, Typed DEF MediaTakes, Meds
<1> QED BY <1>1, Typed, Assembled, Kept DEF MediaTakes, MedUnch

LEMMA MediaReadyType ==
  ASSUME Types, MediaReady
  PROVE  Types'
<1>1. ctl' \in Ctls
  BY Typed DEF MediaReady, Ctls
<1>2. med' \in Meds
  BY Typed DEF MediaReady, Meds
<1>3. srv' \in Srvs
  BY Typed, Counts DEF MediaReady, Srvs
<1>4. TaskIsWorker' /\ BudgetLeft' /\ Flushing'
  BY DEF Types, TaskIsWorker, BudgetLeft, Flushing, MediaReady, MedUnch
<1> QED BY <1>1, <1>2, <1>3, <1>4, Typed, Assembled DEF MediaReady, MedUnch

LEMMA MediaSaysType ==
  ASSUME Types, MediaSays
  PROVE  Types'
<1>1. med' \in Meds
  BY Typed DEF MediaSays, Meds
<1>2. wifi' \in Wifis
  BY Typed DEF MediaSays, UpdateLink, Wifis
<1> QED BY <1>1, <1>2, Typed, Assembled, Kept DEF MediaSays, MedUnch

LEMMA MediaRecoveredType ==
  ASSUME Types, MediaRecovered
  PROVE  Types'
<1>1. ctl' \in Ctls
  BY Typed DEF MediaRecovered, Ctls
<1>2. med' \in Meds
  BY Typed DEF MediaRecovered, Meds
<1>3. TaskIsWorker' /\ BudgetLeft' /\ Flushing'
  BY DEF Types, TaskIsWorker, BudgetLeft, Flushing, MediaRecovered, MedUnch
<1> QED BY <1>1, <1>2, <1>3, Typed, Assembled DEF MediaRecovered, MedUnch

LEMMA MediaExitsType ==
  ASSUME Types, MediaExits
  PROVE  Types'
<1>1. med' \in Meds
  BY Typed DEF MediaExits, Meds
<1> QED BY <1>1, Typed, Assembled, Kept DEF MediaExits, MedUnch

LEMMA ConnectFailsType ==
  ASSUME Types, NEW again \in BOOLEAN, ConnectFails(again)
  PROVE  Types'
<1>1. wk' \in Wks
  BY Typed DEF ConnectFails, Wks, WorkerPcs
<1>2. TaskIsWorker' /\ BudgetLeft' /\ Flushing'
  BY DEF Types, TaskIsWorker, BudgetLeft, Flushing, ConnectFails, WkAt
<1> QED BY <1>1, <1>2, Typed, Assembled DEF ConnectFails, WorkerUnch

LEMMA DropType ==
  ASSUME Types, NEW again \in BOOLEAN, Drop(again)
  PROVE  Types'
<1>1. wk' \in Wks
  BY Typed DEF Drop, LeaveLoop, Wks, WorkerPcs
<1>2. med' \in Meds
  BY Typed DEF Drop, LeaveLoop, Meds
<1>3. TaskIsWorker' /\ BudgetLeft' /\ Flushing'
  BY DEF Types, TaskIsWorker, BudgetLeft, Flushing, Drop, WkAt, LeaveLoop
<1> QED BY <1>1, <1>2, <1>3, Typed, Assembled DEF Drop, WorkerUnch, LeaveLoop

LEMMA ReceiveType ==
  ASSUME Types, NEW msg \in {"ready", "fatal"}, Receive(msg)
  PROVE  Types'
<1>1. med' \in Meds
  BY Spoken DEF Receive
<1> QED BY <1>1, Typed, Assembled, Kept DEF Receive, WorkerUnch

LEMMA TypeStep ==
  ASSUME Types, [Next]_vars
  PROVE  Types'
<1>1. CASE Board
  BY <1>1, RequestSaysType, RequestAskedType, RequestRefusedType, RequestQueuesType, RequestFailsType,
     RequestUndoneType, EndCancelsType, BoardUpdatesType, StopSignalsType, StopJoinedType DEF Board
<1>2. CASE BoardCalls
  BY <1>2, RequestType, EndType, StreamStartType, StreamWriteType, StreamEndType, StreamCutType, StopType,
     StartType DEF BoardCalls
<1>3. CASE Cloud
  BY <1>3, OfflineCancelsType, CloudUpdatesType DEF Cloud
<1>4. CASE Offline
  BY <1>4, OfflineType
<1>5. CASE Online
  BY <1>5, OnlineType
<1>6. CASE Mqtt
  BY <1>6, OfferQueuesType, OfferRefusedType DEF Mqtt
<1>7. CASE Offer
  BY <1>7, OfferType
<1>8. CASE Worker
  BY <1>8, DequeueType, ExitType, CheckType, AskGrantType, RefreshType, ConnectType, ConnectedType, FlushType,
     LeaveType, ConnectFailsType, UnreadyType, DecideType, ReportType, ReleaseType, BackoffType, FinishGrantType,
     FreeType DEF Worker
<1>9. CASE Server
  BY <1>9, StableType, DropType, ReceiveType DEF Server
<1>10. CASE Media
  BY <1>10, MediaTakesType, MediaReadyType, MediaSaysType, MediaRecoveredType, MediaExitsType DEF Media
<1>11. CASE UNCHANGED vars
  BY <1>11 DEF vars, Types, TypeOK, TaskIsWorker, BudgetLeft, Flushing
<1> QED BY <1>1, <1>2, <1>3, <1>4, <1>5, <1>6, <1>7, <1>8, <1>9, <1>10, <1>11 DEF Next

-----------------------------------------------------------------------------
(* What a step does to the worker and to the grant *)

LEMMA QueuesWk ==
  ASSUME Types, NEW kind, NEW token, QueueGrant(kind, token)
  PROVE  /\ wk'.grant = wk.grant /\ wk'.retry = wk.retry /\ wk'.conn = wk.conn
         /\ wk'.pc = wk.pc \/ (wk.pc = "none" /\ wk'.pc = "wait")
BY DEF QueueGrant, Types, TaskIsWorker

LEMMA GrantedWk ==
  ASSUME Types, Granted
  PROVE  /\ wk'.pc = "connect" /\ wk'.grant.token = "fresh"
         /\ wk'.grant.kind = wk.grant.kind /\ wk'.grant.epoch = wk.grant.epoch
         /\ wk'.retry = wk.retry /\ wk'.conn = wk.conn
<1>1. wk' = [wk EXCEPT !.pc = "connect", !.grant = [wk.grant EXCEPT !.token = "fresh"]]
  BY DEF Granted
<1>2. wk.grant \in Grants
  BY Typed DEF Wks
<1> QED BY <1>1, <1>2 DEF Grants

LEMMA UnusableWk ==
  ASSUME Types, GrantUnusable
  PROVE  /\ wk'.pc = "unready" /\ wk'.grant.token = "fresh"
         /\ wk'.grant.kind = wk.grant.kind /\ wk'.grant.epoch = wk.grant.epoch
         /\ wk'.retry = wk.retry /\ wk'.conn = wk.conn /\ wk'.flush = wk.flush
         /\ srv'.held /\ ~srv'.lost
<1>1. wk' = [wk EXCEPT !.pc = "unready", !.grant = [wk.grant EXCEPT !.token = "fresh"]]
  BY DEF GrantUnusable
<1>2. wk.grant \in Grants /\ wk \in Wks
  BY Typed DEF Wks
<1>3. srv'.held /\ ~srv'.lost
  BY Typed DEF GrantUnusable, Srvs
<1> QED BY <1>1, <1>2, <1>3 DEF Grants, Wks

LEMMA AsksWk ==
  ASSUME Types, AskGrant \/ Refresh
  PROVE  /\ wk.pc \in {"grant", "refresh"}
         /\ wk'.grant.kind = wk.grant.kind /\ wk'.grant.epoch = wk.grant.epoch
         /\ wk'.retry = wk.retry /\ wk'.conn = wk.conn
         /\ \/ wk'.pc = "connect" /\ wk'.grant.token = "fresh"
            \/ wk'.pc = "unready" /\ wk'.grant.token = "fresh" /\ srv'.held /\ ~srv'.lost
            \/ wk'.pc \in {"unready", "refresh"} /\ wk'.grant = wk.grant /\ (srv' = srv \/ srv'.lost)
<1>1. wk.pc \in {"grant", "refresh"}
  BY DEF AskGrant, Refresh, WkAt
<1>2. CASE Granted
  BY <1>1, <1>2, GrantedWk
<1>3. CASE GrantUnusable
  BY <1>1, <1>3, UnusableWk
<1>4. CASE WkGoto("unready") \/ WkGoto("refresh")
  <2>1. wk'.grant = wk.grant /\ wk'.retry = wk.retry /\ wk'.conn = wk.conn /\ wk'.pc \in {"unready", "refresh"}
    BY <1>4, Typed DEF WkGoto, Wks
  <2>2. Granted \/ GrantUnusable \/ srv' = srv \/ srv'.lost
    BY Typed DEF AskGrant, Refresh, GrantLost, GrantDenied, GrantBusy, Srvs
  <2> QED BY <1>1, <1>2, <1>3, <2>1, <2>2
<1> QED BY <1>2, <1>3, <1>4 DEF AskGrant, Refresh, GrantLost, GrantDenied, GrantBusy

LEMMA ConnectedWk ==
  ASSUME Types, Connected
  PROVE  /\ wk.pc = "tls" /\ wk'.pc \in {"loop", "unready"}
         /\ wk'.grant.kind = wk.grant.kind /\ wk'.grant.epoch = wk.grant.epoch /\ wk'.retry = wk.retry
         /\ wk.grant.token # "none" => wk'.grant.token # "none"
         /\ wk'.pc = "unready" => med' = med
<1>1. wk.grant \in Grants
  BY Typed DEF Wks
<1>2. CASE NoHello
  BY <1>2 DEF Connected, WkAt, NoHello, WkGoto
<1>3. CASE HelloFails
  <2>1. wk' = [wk EXCEPT !.pc = "unready", !.retryable = TRUE, !.grant = [wk.grant EXCEPT !.token = "shown"]]
    BY <1>3 DEF HelloFails
  <2> QED BY <1>1, <1>3, <2>1 DEF Connected, WkAt, HelloFails, Grants
<1>4. CASE Hello
  <2>1. wk' = [wk EXCEPT !.pc = "loop", !.conn = @ + 1, !.grant = [wk.grant EXCEPT !.token = "shown"]]
    BY <1>4 DEF Hello
  <2> QED BY <1>1, <2>1 DEF Connected, WkAt, Grants
<1> QED BY <1>2, <1>3, <1>4 DEF Connected

LEMMA BeginsWk ==
  ASSUME Types, NEW grant \in Grants, wk' = BeginAttempt(grant)
  PROVE  /\ wk'.pc = (IF grant.kind = "platform" THEN "grant" ELSE "connect")
         /\ wk'.grant = grant /\ wk'.retry = wk.retry /\ wk'.conn = wk.conn
BY DEF BeginAttempt

LEMMA RecordedOne ==
  ASSUME Types, LinkInv, ctl.ready, wk' = wk, tx' = Append(tx, srv.era)
  PROVE  Recorded'
<1>1. wk.pc \in {"loop", "unready"} /\ srv.era = wk.conn
  BY DEF LinkInv, ReadyUnderWorker
<1>2. \A i \in DOMAIN tx' : tx'[i] = wk.conn
  BY <1>1 DEF LinkInv, Recorded
<1> QED BY <1>1, <1>2 DEF Recorded

LEMMA EpochsOf ==
  ASSUME Types
  PROVE  /\ wk.grant.epoch \in Nat /\ wk.grant.kind \in {"platform", "offer"} /\ ctl.epoch \in Nat
         /\ \A i \in DOMAIN grants : grants[i] \in Grants /\ grants[i].epoch \in Nat
<1>1. wk.grant \in Grants /\ ctl.epoch \in Nat
  BY Typed DEF Ctls, Wks
<1>2. \A i \in DOMAIN grants : grants[i] \in Grants
  BY Typed
<1> QED BY <1>1, <1>2 DEF Grants

LEMMA QueuedGrant ==
  ASSUME Types, NEW kind, NEW token, QueueGrant(kind, token)
  PROVE  /\ ctl'.epoch = ctl.epoch + 1 /\ ctl'.run = ctl.run /\ ctl'.open = ctl.open /\ ~ctl'.recovering /\ ctl'.task
         /\ \A i \in DOMAIN grants' : grants'[i].epoch = ctl'.epoch
         /\ grants' # <<>> /\ grants'[1].epoch = ctl'.epoch
BY DEF QueueGrant

LEMMA CancelledGrant ==
  ASSUME Types, Cancel
  PROVE  ctl'.epoch = ctl.epoch + 1 /\ ~ctl'.recovering /\ grants' = <<>> /\ ctl'.run = ctl.run /\ ctl'.open = ctl.open
BY DEF Cancel

LEMMA EpochsGrow ==
  ASSUME Types, Epochs, ctl'.epoch = ctl.epoch + 1, wk'.grant = wk.grant,
         \/ grants' = <<>>
         \/ grants' = grants
         \/ \A i \in DOMAIN grants' : grants'[i].epoch = ctl'.epoch
  PROVE  Epochs'
<1>1. \A a, b \in Nat : a <= b => a <= b + 1 /\ a < b + 1
  OBVIOUS
<1> QED BY <1>1, EpochsOf DEF Epochs

-----------------------------------------------------------------------------
(* The link *)

LEMMA LinkKept ==
  ASSUME LinkInv, med'.pc = med.pc, wk'.pc = wk.pc, ctl'.ready = ctl.ready, wk'.conn = wk.conn, srv'.era = srv.era,
         tx' = tx, wifi'.link = wifi.link
  PROVE  LinkInv'
BY DEF LinkInv, MediaUnderWorker, ReadyUnderWorker, Recorded, LinkHonest

LEMMA RequestSaysLink ==
  ASSUME Types, LinkInv, RequestSays
  PROVE  LinkInv'
<1>1. MediaUnderWorker' /\ ReadyUnderWorker' /\ Recorded'
  BY DEF LinkInv, MediaUnderWorker, ReadyUnderWorker, Recorded, RequestSays
<1>2. LinkHonest'
  BY DEF LinkInv, MediaUnderWorker, ReadyUnderWorker, LinkHonest, RequestSays, UpdateLink
<1> QED BY <1>1, <1>2 DEF LinkInv

LEMMA RequestQueuesLink ==
  ASSUME Types, LinkInv, RequestQueues
  PROVE  LinkInv'
<1>1. MediaUnderWorker'
  BY QueuesWk DEF LinkInv, MediaUnderWorker, RequestQueues
<1>2. ReadyUnderWorker'
  BY DEF LinkInv, MediaUnderWorker, ReadyUnderWorker, RequestQueues, QueueGrant
<1>3. Recorded'
  BY QueuesWk DEF LinkInv, Recorded, RequestQueues
<1>4. LinkHonest'
  BY QueuesWk DEF LinkInv, LinkHonest, RequestQueues
<1> QED BY <1>1, <1>2, <1>3, <1>4 DEF LinkInv

LEMMA RequestFailsLink ==
  ASSUME Types, LinkInv, RequestFails
  PROVE  LinkInv'
<1>1. MediaUnderWorker' /\ Recorded' /\ LinkHonest'
  BY DEF LinkInv, MediaUnderWorker, Recorded, LinkHonest, RequestFails
<1>2. ReadyUnderWorker'
  BY DEF LinkInv, MediaUnderWorker, ReadyUnderWorker, RequestFails
<1> QED BY <1>1, <1>2 DEF LinkInv

LEMMA EndCancelsLink ==
  ASSUME Types, LinkInv, EndCancels
  PROVE  LinkInv'
<1>1. MediaUnderWorker' /\ LinkHonest'
  BY DEF LinkInv, MediaUnderWorker, LinkHonest, EndCancels, Cancel
<1>2. ReadyUnderWorker'
  BY DEF LinkInv, MediaUnderWorker, ReadyUnderWorker, EndCancels, Cancel
<1>3. Recorded'
  BY DEF LinkInv, ReadyUnderWorker, Recorded, EndCancels, Cancel
<1> QED BY <1>1, <1>2, <1>3 DEF LinkInv

LEMMA BoardUpdatesLink ==
  ASSUME Types, LinkInv, BoardUpdates
  PROVE  LinkInv'
<1>1. MediaUnderWorker' /\ ReadyUnderWorker' /\ Recorded'
  BY DEF LinkInv, MediaUnderWorker, ReadyUnderWorker, Recorded, BoardUpdates
<1>2. LinkHonest'
  BY DEF LinkInv, MediaUnderWorker, ReadyUnderWorker, LinkHonest, BoardUpdates, UpdateLink
<1> QED BY <1>1, <1>2 DEF LinkInv

LEMMA StreamStartLink ==
  ASSUME Types, LinkInv, StreamStart
  PROVE  LinkInv'
<1>1. MediaUnderWorker' /\ ReadyUnderWorker' /\ LinkHonest'
  BY DEF LinkInv, MediaUnderWorker, ReadyUnderWorker, LinkHonest, StreamStart
<1>2. Recorded'
  <2>1. CASE tx' = tx
    BY <2>1 DEF LinkInv, Recorded, StreamStart
  <2>2. CASE tx' # tx
    BY <2>2, RecordedOne DEF StreamStart, CanRecord
  <2> QED BY <2>1, <2>2
<1> QED BY <1>1, <1>2 DEF LinkInv

LEMMA StreamWriteLink ==
  ASSUME Types, LinkInv, StreamWrite
  PROVE  LinkInv'
<1>1. MediaUnderWorker' /\ ReadyUnderWorker' /\ LinkHonest'
  BY DEF LinkInv, MediaUnderWorker, ReadyUnderWorker, LinkHonest, StreamWrite
<1>2. Recorded'
  <2>1. CASE tx' = tx
    BY <2>1 DEF LinkInv, Recorded, StreamWrite
  <2>2. CASE tx' # tx
    BY <2>2, RecordedOne DEF StreamWrite, CanRecord
  <2> QED BY <2>1, <2>2
<1> QED BY <1>1, <1>2 DEF LinkInv

LEMMA StreamEndLink ==
  ASSUME Types, LinkInv, StreamEnd
  PROVE  LinkInv'
<1>1. MediaUnderWorker' /\ ReadyUnderWorker' /\ LinkHonest'
  BY Typed DEF LinkInv, MediaUnderWorker, ReadyUnderWorker, LinkHonest, StreamEnd, Ctls
<1>2. Recorded'
  <2>1. CASE tx' = tx
    BY <2>1 DEF LinkInv, Recorded, StreamEnd
  <2>2. CASE tx' # tx
    BY <2>2, RecordedOne DEF StreamEnd, CanRecord
  <2> QED BY <2>1, <2>2
<1> QED BY <1>1, <1>2 DEF LinkInv

LEMMA StreamCutLink ==
  ASSUME Types, LinkInv, StreamCut
  PROVE  LinkInv'
<1>1. MediaUnderWorker' /\ LinkHonest'
  BY DEF LinkInv, MediaUnderWorker, LinkHonest, StreamCut, Cancel
<1>2. ReadyUnderWorker'
  BY DEF LinkInv, MediaUnderWorker, ReadyUnderWorker, StreamCut, Cancel
<1>3. Recorded'
  BY DEF LinkInv, ReadyUnderWorker, Recorded, StreamCut, Cancel
<1> QED BY <1>1, <1>2, <1>3 DEF LinkInv

LEMMA StopSignalsLink ==
  ASSUME Types, LinkInv, StopSignals
  PROVE  LinkInv'
<1>1. MediaUnderWorker' /\ Recorded' /\ LinkHonest'
  BY DEF LinkInv, MediaUnderWorker, Recorded, LinkHonest, StopSignals
<1>2. ReadyUnderWorker'
  BY DEF LinkInv, MediaUnderWorker, ReadyUnderWorker, StopSignals
<1> QED BY <1>1, <1>2 DEF LinkInv

LEMMA StopJoinedLink ==
  ASSUME Types, LinkInv, StopJoined
  PROVE  LinkInv'
<1>1. MediaUnderWorker' /\ ReadyUnderWorker'
  BY DEF LinkInv, MediaUnderWorker, ReadyUnderWorker, StopJoined
<1>2. Recorded'
  BY DEF LinkInv, ReadyUnderWorker, Recorded, StopJoined
<1>3. LinkHonest'
  BY DEF LinkInv, MediaUnderWorker, ReadyUnderWorker, LinkHonest, StopJoined
<1> QED BY <1>1, <1>2, <1>3 DEF LinkInv

LEMMA OfflineCancelsLink ==
  ASSUME Types, LinkInv, OfflineCancels
  PROVE  LinkInv'
<1>1. MediaUnderWorker' /\ LinkHonest'
  BY DEF LinkInv, MediaUnderWorker, LinkHonest, OfflineCancels, Cancel
<1>2. ReadyUnderWorker'
  BY DEF LinkInv, MediaUnderWorker, ReadyUnderWorker, OfflineCancels, Cancel
<1>3. Recorded'
  BY DEF LinkInv, ReadyUnderWorker, Recorded, OfflineCancels, Cancel
<1> QED BY <1>1, <1>2, <1>3 DEF LinkInv

LEMMA CloudUpdatesLink ==
  ASSUME Types, LinkInv, CloudUpdates
  PROVE  LinkInv'
<1>1. MediaUnderWorker' /\ ReadyUnderWorker' /\ Recorded'
  BY DEF LinkInv, MediaUnderWorker, ReadyUnderWorker, Recorded, CloudUpdates
<1>2. LinkHonest'
  BY DEF LinkInv, MediaUnderWorker, ReadyUnderWorker, LinkHonest, CloudUpdates, UpdateLink
<1> QED BY <1>1, <1>2 DEF LinkInv

LEMMA OfferQueuesLink ==
  ASSUME Types, LinkInv, OfferQueues
  PROVE  LinkInv'
<1>1. MediaUnderWorker'
  BY QueuesWk DEF LinkInv, MediaUnderWorker, OfferQueues
<1>2. ReadyUnderWorker'
  BY DEF LinkInv, MediaUnderWorker, ReadyUnderWorker, OfferQueues, QueueGrant
<1>3. Recorded'
  BY QueuesWk DEF LinkInv, Recorded, OfferQueues
<1>4. LinkHonest'
  BY QueuesWk DEF LinkInv, LinkHonest, OfferQueues
<1> QED BY <1>1, <1>2, <1>3, <1>4 DEF LinkInv

LEMMA DequeueLink ==
  ASSUME Types, LinkInv, Dequeue
  PROVE  LinkInv'
<1>1. MediaUnderWorker'
  BY DEF LinkInv, MediaUnderWorker, Dequeue, WkAt
<1>2. ReadyUnderWorker'
  BY DEF LinkInv, MediaUnderWorker, ReadyUnderWorker, Dequeue, WkAt
<1>3. Recorded'
  BY DEF LinkInv, ReadyUnderWorker, Recorded, Dequeue, WkAt
<1>4. LinkHonest'
  BY DEF LinkInv, MediaUnderWorker, ReadyUnderWorker, LinkHonest, Dequeue, WkAt
<1> QED BY <1>1, <1>2, <1>3, <1>4 DEF LinkInv

LEMMA ExitLink ==
  ASSUME Types, LinkInv, Exit
  PROVE  LinkInv'
<1>1. MediaUnderWorker'
  BY DEF LinkInv, MediaUnderWorker, Exit, WkAt
<1>2. ReadyUnderWorker'
  BY DEF LinkInv, MediaUnderWorker, ReadyUnderWorker, Exit, WkAt
<1>3. Recorded'
  BY DEF LinkInv, ReadyUnderWorker, Recorded, Exit, WkAt
<1>4. LinkHonest'
  BY DEF LinkInv, MediaUnderWorker, ReadyUnderWorker, LinkHonest, Exit, WkAt
<1> QED BY <1>1, <1>2, <1>3, <1>4 DEF LinkInv

LEMMA CheckLink ==
  ASSUME Types, LinkInv, Check
  PROVE  LinkInv'
<1>1. MediaUnderWorker'
  BY DEF LinkInv, MediaUnderWorker, Check, WkAt, BeginAttempt
<1>2. ReadyUnderWorker'
  BY Typed DEF LinkInv, MediaUnderWorker, ReadyUnderWorker, Check, WkAt, BeginAttempt, Ctls
<1>3. Recorded'
  BY DEF LinkInv, ReadyUnderWorker, Recorded, Check, WkAt, BeginAttempt
<1>4. LinkHonest'
  BY DEF LinkInv, MediaUnderWorker, ReadyUnderWorker, LinkHonest, Check, WkAt, BeginAttempt
<1> QED BY <1>1, <1>2, <1>3, <1>4 DEF LinkInv

LEMMA AskGrantLink ==
  ASSUME Types, LinkInv, AskGrant
  PROVE  LinkInv'
<1>1. MediaUnderWorker'
  BY DEF LinkInv, MediaUnderWorker, AskGrant, WkAt
<1>2. ReadyUnderWorker'
  BY DEF LinkInv, MediaUnderWorker, ReadyUnderWorker, AskGrant, WkAt
<1>3. Recorded'
  BY DEF LinkInv, ReadyUnderWorker, Recorded, AskGrant, WkAt
<1>4. LinkHonest'
  BY DEF LinkInv, MediaUnderWorker, ReadyUnderWorker, LinkHonest, AskGrant, WkAt
<1> QED BY <1>1, <1>2, <1>3, <1>4 DEF LinkInv

LEMMA RefreshLink ==
  ASSUME Types, LinkInv, Refresh
  PROVE  LinkInv'
<1>1. MediaUnderWorker'
  BY DEF LinkInv, MediaUnderWorker, Refresh, WkAt
<1>2. ReadyUnderWorker'
  BY DEF LinkInv, MediaUnderWorker, ReadyUnderWorker, Refresh, WkAt
<1>3. Recorded'
  BY DEF LinkInv, ReadyUnderWorker, Recorded, Refresh, WkAt
<1>4. LinkHonest'
  BY DEF LinkInv, MediaUnderWorker, ReadyUnderWorker, LinkHonest, Refresh, WkAt
<1> QED BY <1>1, <1>2, <1>3, <1>4 DEF LinkInv

LEMMA ConnectLink ==
  ASSUME Types, LinkInv, Connect
  PROVE  LinkInv'
<1>1. MediaUnderWorker'
  BY DEF LinkInv, MediaUnderWorker, Connect, WkAt
<1>2. ReadyUnderWorker'
  BY DEF LinkInv, MediaUnderWorker, ReadyUnderWorker, Connect, WkAt
<1>3. Recorded'
  BY DEF LinkInv, ReadyUnderWorker, Recorded, Connect, WkAt
<1>4. LinkHonest'
  BY Typed DEF LinkInv, MediaUnderWorker, ReadyUnderWorker, LinkHonest, Connect, WkAt, UpdateLink, Wifis
<1> QED BY <1>1, <1>2, <1>3, <1>4 DEF LinkInv

LEMMA ConnectedLink ==
  ASSUME Types, LinkInv, Connected
  PROVE  LinkInv'
<1>1. MediaUnderWorker'
  BY Typed DEF LinkInv, MediaUnderWorker, Connected, WkGoto, Hello, HelloFails, NoHello, Wks
<1>2. ReadyUnderWorker'
  BY DEF LinkInv, MediaUnderWorker, ReadyUnderWorker, Connected, WkAt
<1>3. Recorded'
  BY DEF LinkInv, ReadyUnderWorker, Recorded, Connected, WkAt
<1>4. LinkHonest'
  BY Typed DEF LinkInv, MediaUnderWorker, ReadyUnderWorker, LinkHonest, Connected, WkGoto, Hello, HelloFails, NoHello,
     Wks
<1> QED BY <1>1, <1>2, <1>3, <1>4 DEF LinkInv

LEMMA FlushLink ==
  ASSUME Types, LinkInv, FlushTx
  PROVE  LinkInv'
<1>1. MediaUnderWorker' /\ ReadyUnderWorker' /\ LinkHonest'
  BY FlushKeeps DEF LinkInv, MediaUnderWorker, ReadyUnderWorker, LinkHonest
<1>2. Recorded'
  <2>1. tx' = tx \/ (tx' = Tail(tx) /\ tx # <<>>)
    BY DEF FlushTx, FlushChecks, FlushTakes, FlushNothing, FlushSent
  <2>2. tx # <<>> => \A i \in DOMAIN Tail(tx) : i + 1 \in DOMAIN tx /\ Tail(tx)[i] = tx[i + 1]
    BY Typed
  <2> QED BY <2>1, <2>2, FlushKeeps DEF LinkInv, Recorded
<1> QED BY <1>1, <1>2 DEF LinkInv

LEMMA LeaveLink ==
  ASSUME Types, LinkInv, Leave
  PROVE  LinkInv'
<1>1. MediaUnderWorker'
  BY DEF LinkInv, MediaUnderWorker, Leave, LeaveLoop
<1>2. ReadyUnderWorker'
  BY DEF LinkInv, MediaUnderWorker, ReadyUnderWorker, Leave, LeaveLoop
<1>3. Recorded'
  BY DEF LinkInv, ReadyUnderWorker, Recorded, Leave, LeaveLoop
<1>4. LinkHonest'
  BY DEF LinkInv, MediaUnderWorker, ReadyUnderWorker, LinkHonest, Leave, LeaveLoop
<1> QED BY <1>1, <1>2, <1>3, <1>4 DEF LinkInv

LEMMA UnreadyLink ==
  ASSUME Types, LinkInv, Unready
  PROVE  LinkInv'
<1>1. MediaUnderWorker'
  BY DEF LinkInv, MediaUnderWorker, Unready
<1>2. ReadyUnderWorker'
  BY DEF LinkInv, MediaUnderWorker, ReadyUnderWorker, Unready
<1>3. Recorded'
  BY DEF LinkInv, ReadyUnderWorker, Recorded, Unready, WkGoto
<1>4. LinkHonest'
  BY DEF LinkInv, MediaUnderWorker, ReadyUnderWorker, LinkHonest, Unready, WkGoto
<1> QED BY <1>1, <1>2, <1>3, <1>4 DEF LinkInv

LEMMA DecideLink ==
  ASSUME Types, LinkInv, Decide
  PROVE  LinkInv'
<1>1. MediaUnderWorker'
  BY DEF LinkInv, MediaUnderWorker, Decide, WkAt
<1>2. ReadyUnderWorker'
  BY DEF LinkInv, MediaUnderWorker, ReadyUnderWorker, Decide, WkAt
<1>3. Recorded'
  BY DEF LinkInv, ReadyUnderWorker, Recorded, Decide, MayRetry, ResetInput
<1>4. LinkHonest'
  BY DEF LinkInv, MediaUnderWorker, ReadyUnderWorker, LinkHonest, Decide
<1> QED BY <1>1, <1>2, <1>3, <1>4 DEF LinkInv

LEMMA ReportLink ==
  ASSUME Types, LinkInv, Report
  PROVE  LinkInv'
<1>1. MediaUnderWorker'
  BY DEF LinkInv, MediaUnderWorker, Report, WkAt
<1>2. ReadyUnderWorker'
  BY DEF LinkInv, MediaUnderWorker, ReadyUnderWorker, Report, WkAt
<1>3. Recorded'
  BY DEF LinkInv, ReadyUnderWorker, Recorded, Report, WkAt
<1>4. LinkHonest'
  BY DEF LinkInv, MediaUnderWorker, ReadyUnderWorker, LinkHonest, Report, WkAt, UpdateLink
<1> QED BY <1>1, <1>2, <1>3, <1>4 DEF LinkInv

LEMMA ReleaseLink ==
  ASSUME Types, LinkInv, Release
  PROVE  LinkInv'
<1>1. MediaUnderWorker'
  BY DEF LinkInv, MediaUnderWorker, Release, WkAt, Again
<1>2. ReadyUnderWorker'
  BY DEF LinkInv, MediaUnderWorker, ReadyUnderWorker, Release, WkAt, Again
<1>3. Recorded'
  BY DEF LinkInv, ReadyUnderWorker, Recorded, Release, WkAt, Again
<1>4. LinkHonest'
  BY DEF LinkInv, MediaUnderWorker, ReadyUnderWorker, LinkHonest, Release, WkAt, Again
<1> QED BY <1>1, <1>2, <1>3, <1>4 DEF LinkInv

LEMMA BackoffLink ==
  ASSUME Types, LinkInv, Backoff
  PROVE  LinkInv'
<1>1. MediaUnderWorker'
  BY DEF LinkInv, MediaUnderWorker, Backoff, WkAt, BeginAttempt
<1>2. ReadyUnderWorker'
  BY DEF LinkInv, MediaUnderWorker, ReadyUnderWorker, Backoff, WkAt, BeginAttempt
<1>3. Recorded'
  BY DEF LinkInv, ReadyUnderWorker, Recorded, Backoff, WkAt, BeginAttempt
<1>4. LinkHonest'
  BY DEF LinkInv, MediaUnderWorker, ReadyUnderWorker, LinkHonest, Backoff, WkAt, BeginAttempt
<1> QED BY <1>1, <1>2, <1>3, <1>4 DEF LinkInv

LEMMA FinishGrantLink ==
  ASSUME Types, LinkInv, FinishGrant
  PROVE  LinkInv'
<1>1. MediaUnderWorker'
  BY DEF LinkInv, MediaUnderWorker, FinishGrant, WkAt, Finishes
<1>2. ReadyUnderWorker'
  BY DEF LinkInv, MediaUnderWorker, ReadyUnderWorker, FinishGrant, WkAt, Finishes
<1>3. Recorded'
  BY DEF LinkInv, ReadyUnderWorker, Recorded, FinishGrant, WkAt, Finishes
<1>4. LinkHonest'
  BY DEF LinkInv, MediaUnderWorker, ReadyUnderWorker, LinkHonest, FinishGrant, WkAt, Finishes
<1> QED BY <1>1, <1>2, <1>3, <1>4 DEF LinkInv

LEMMA FreeLink ==
  ASSUME Types, LinkInv, Free
  PROVE  LinkInv'
<1>1. MediaUnderWorker'
  BY DEF LinkInv, MediaUnderWorker, Free, WkAt
<1>2. ReadyUnderWorker'
  BY DEF LinkInv, MediaUnderWorker, ReadyUnderWorker, Free, WkAt
<1>3. Recorded'
  BY DEF LinkInv, ReadyUnderWorker, Recorded, Free, WkAt
<1>4. LinkHonest'
  BY DEF LinkInv, MediaUnderWorker, ReadyUnderWorker, LinkHonest, Free, WkAt
<1> QED BY <1>1, <1>2, <1>3, <1>4 DEF LinkInv

LEMMA MediaTakesLink ==
  ASSUME Types, LinkInv, MediaTakes
  PROVE  LinkInv'
<1>1. ReadyUnderWorker' /\ Recorded' /\ LinkHonest'
  BY DEF LinkInv, ReadyUnderWorker, Recorded, LinkHonest, MediaTakes, MedUnch
<1>2. MediaUnderWorker'
  BY DEF LinkInv, MediaUnderWorker, MediaTakes, MedUnch
<1> QED BY <1>1, <1>2 DEF LinkInv

LEMMA MediaReadyLink ==
  ASSUME Types, LinkInv, MediaReady
  PROVE  LinkInv'
<1>1. Recorded' /\ LinkHonest'
  BY DEF LinkInv, Recorded, LinkHonest, MediaReady, MedUnch
<1>2. MediaUnderWorker'
  BY DEF LinkInv, MediaUnderWorker, MediaReady, MedUnch
<1>3. ReadyUnderWorker'
  BY DEF LinkInv, MediaUnderWorker, ReadyUnderWorker, MediaReady, MedUnch
<1> QED BY <1>1, <1>2, <1>3 DEF LinkInv

LEMMA MediaSaysLink ==
  ASSUME Types, LinkInv, MediaSays
  PROVE  LinkInv'
<1>1. ReadyUnderWorker' /\ Recorded'
  BY DEF LinkInv, ReadyUnderWorker, Recorded, MediaSays, MedUnch
<1>2. MediaUnderWorker'
  BY DEF LinkInv, MediaUnderWorker, MediaSays, MedUnch
<1>3. LinkHonest'
  BY DEF LinkInv, MediaUnderWorker, ReadyUnderWorker, LinkHonest, MediaSays, MedUnch
<1> QED BY <1>1, <1>2, <1>3 DEF LinkInv

LEMMA MediaRecoveredLink ==
  ASSUME Types, LinkInv, MediaRecovered
  PROVE  LinkInv'
<1>1. ReadyUnderWorker' /\ Recorded' /\ LinkHonest'
  BY DEF LinkInv, ReadyUnderWorker, Recorded, LinkHonest, MediaRecovered, MedUnch
<1>2. MediaUnderWorker'
  BY DEF LinkInv, MediaUnderWorker, MediaRecovered, MedUnch
<1> QED BY <1>1, <1>2 DEF LinkInv

LEMMA MediaExitsLink ==
  ASSUME Types, LinkInv, MediaExits
  PROVE  LinkInv'
<1>1. ReadyUnderWorker' /\ Recorded' /\ LinkHonest'
  BY DEF LinkInv, ReadyUnderWorker, Recorded, LinkHonest, MediaExits, MedUnch
<1>2. MediaUnderWorker'
  BY DEF LinkInv, MediaUnderWorker, MediaExits
<1> QED BY <1>1, <1>2 DEF LinkInv

LEMMA ConnectFailsLink ==
  ASSUME Types, LinkInv, NEW again \in BOOLEAN, ConnectFails(again)
  PROVE  LinkInv'
<1>1. MediaUnderWorker'
  BY DEF LinkInv, MediaUnderWorker, ConnectFails
<1>2. ReadyUnderWorker'
  BY DEF LinkInv, MediaUnderWorker, ReadyUnderWorker, ConnectFails
<1>3. Recorded'
  BY DEF LinkInv, ReadyUnderWorker, Recorded, ConnectFails
<1>4. LinkHonest'
  BY DEF LinkInv, MediaUnderWorker, ReadyUnderWorker, LinkHonest, ConnectFails
<1> QED BY <1>1, <1>2, <1>3, <1>4 DEF LinkInv

LEMMA DropLink ==
  ASSUME Types, LinkInv, NEW again \in BOOLEAN, Drop(again)
  PROVE  LinkInv'
<1>1. MediaUnderWorker'
  BY DEF LinkInv, MediaUnderWorker, Drop, LeaveLoop
<1>2. ReadyUnderWorker'
  BY DEF LinkInv, MediaUnderWorker, ReadyUnderWorker, Drop, LeaveLoop
<1>3. Recorded'
  BY DEF LinkInv, ReadyUnderWorker, Recorded, Drop, LeaveLoop
<1>4. LinkHonest'
  BY DEF LinkInv, MediaUnderWorker, ReadyUnderWorker, LinkHonest, Drop, LeaveLoop
<1> QED BY <1>1, <1>2, <1>3, <1>4 DEF LinkInv

LEMMA LinkAside ==
  ASSUME Types, LinkInv, NEW msg \in {"ready", "fatal"},
         Request \/ RequestAsked \/ RequestRefused \/ RequestUndone \/ End \/ Stop \/ Start \/ Offline \/ Online
         \/ Offer \/ OfferRefused
         \/ Stable
         \/ Receive(msg)
  PROVE  LinkInv'
<1>1. CASE Request
  BY <1>1, LinkKept DEF Request
<1>2. CASE RequestUndone
  BY <1>2, LinkKept DEF RequestUndone
<1>3. CASE End
  BY <1>3, LinkKept DEF End
<1>4. CASE Stop
  BY <1>4, LinkKept DEF Stop
<1>5. CASE Start
  BY <1>5, LinkKept DEF Start
<1>6. CASE Offline
  BY <1>6, LinkKept DEF Offline
<1>7. CASE Online
  BY <1>7, LinkKept DEF Online
<1>8. CASE Offer
  BY <1>8, LinkKept DEF Offer
<1>9. CASE OfferRefused
  BY <1>9, LinkKept DEF OfferRefused
<1>10. CASE Stable
  BY <1>10, LinkKept, Typed DEF Stable, Wks
<1>11. CASE Receive(msg)
  BY <1>11, LinkKept DEF Receive
<1>12. CASE RequestAsked
  BY <1>12, LinkKept DEF RequestAsked
<1>13. CASE RequestRefused
  BY <1>13, LinkKept DEF RequestRefused
<1> QED BY <1>1, <1>2, <1>3, <1>4, <1>5, <1>6, <1>7, <1>8, <1>9, <1>10, <1>11, <1>12, <1>13

LEMMA LinkStep ==
  ASSUME Types, LinkInv, [Next]_vars
  PROVE  LinkInv'
<1>1. CASE Board
  BY <1>1, RequestSaysLink, RequestQueuesLink, RequestFailsLink, LinkAside, EndCancelsLink, BoardUpdatesLink,
     StopSignalsLink, StopJoinedLink DEF Board
<1>2. CASE BoardCalls
  BY <1>2, LinkAside, StreamStartLink, StreamWriteLink, StreamEndLink, StreamCutLink DEF BoardCalls
<1>3. CASE Cloud
  BY <1>3, OfflineCancelsLink, CloudUpdatesLink DEF Cloud
<1>4. CASE Offline
  BY <1>4, LinkAside
<1>5. CASE Online
  BY <1>5, LinkAside
<1>6. CASE Mqtt
  BY <1>6, OfferQueuesLink, LinkAside DEF Mqtt
<1>7. CASE Offer
  BY <1>7, LinkAside
<1>8. CASE Worker
  BY <1>8, DequeueLink, ExitLink, CheckLink, AskGrantLink, RefreshLink, ConnectLink, ConnectedLink, FlushLink,
     LeaveLink, ConnectFailsLink, UnreadyLink, DecideLink, ReportLink, ReleaseLink, BackoffLink, FinishGrantLink,
     FreeLink DEF Worker
<1>9. CASE Server
  BY <1>9, LinkAside, DropLink DEF Server
<1>10. CASE Media
  BY <1>10, MediaTakesLink, MediaReadyLink, MediaSaysLink, MediaRecoveredLink, MediaExitsLink DEF Media
<1>11. CASE UNCHANGED vars
  BY <1>11, LinkKept DEF vars
<1> QED BY <1>1, <1>2, <1>3, <1>4, <1>5, <1>6, <1>7, <1>8, <1>9, <1>10, <1>11 DEF Next

-----------------------------------------------------------------------------
(* The grants *)

LEMMA GrantKept ==
  ASSUME GrantInv, grants' = grants, wk'.pc = wk.pc, wk'.grant = wk.grant, wk'.retry = wk.retry,
         srv'.held = srv.held, srv'.lost = srv.lost
  PROVE  GrantInv'
BY DEF GrantInv, Queued, Tokens, Retried, BackoffRetries, Asks, Holds

LEMMA RequestQueuesGrant ==
  ASSUME Types, GrantInv, RequestQueues
  PROVE  GrantInv'
<1>1. Queued'
  BY DEF GrantInv, Queued, RequestQueues, QueueGrant
<1>2. Tokens'
  BY QueuesWk DEF GrantInv, Tokens, RequestQueues
<1>3. Retried' /\ BackoffRetries' /\ Asks'
  BY QueuesWk DEF GrantInv, Retried, BackoffRetries, Asks, RequestQueues
<1>4. Holds'
  BY QueuesWk DEF GrantInv, Holds, RequestQueues
<1> QED BY <1>1, <1>2, <1>3, <1>4 DEF GrantInv

LEMMA RequestFailsGrant ==
  ASSUME Types, GrantInv, RequestFails
  PROVE  GrantInv'
<1>1. Tokens' /\ Retried' /\ BackoffRetries' /\ Asks' /\ Holds'
  BY DEF GrantInv, Tokens, Retried, BackoffRetries, Asks, Holds, RequestFails
<1>2. Queued'
  BY DEF GrantInv, Queued, RequestFails
<1> QED BY <1>1, <1>2 DEF GrantInv

LEMMA EndCancelsGrant ==
  ASSUME Types, GrantInv, EndCancels
  PROVE  GrantInv'
<1>1. Tokens' /\ Retried' /\ BackoffRetries' /\ Asks' /\ Holds'
  BY DEF GrantInv, Tokens, Retried, BackoffRetries, Asks, Holds, EndCancels, Cancel
<1>2. Queued'
  BY DEF GrantInv, Queued, EndCancels, Cancel
<1> QED BY <1>1, <1>2 DEF GrantInv

LEMMA StreamCutGrant ==
  ASSUME Types, GrantInv, StreamCut
  PROVE  GrantInv'
<1>1. Tokens' /\ Retried' /\ BackoffRetries' /\ Asks' /\ Holds'
  BY DEF GrantInv, Tokens, Retried, BackoffRetries, Asks, Holds, StreamCut, Cancel
<1>2. Queued'
  BY DEF GrantInv, Queued, StreamCut, Cancel
<1> QED BY <1>1, <1>2 DEF GrantInv

LEMMA StopJoinedGrant ==
  ASSUME Types, GrantInv, StopJoined
  PROVE  GrantInv'
<1>1. Tokens' /\ Retried' /\ BackoffRetries' /\ Asks' /\ Holds'
  BY DEF GrantInv, Tokens, Retried, BackoffRetries, Asks, Holds, StopJoined
<1>2. Queued'
  BY DEF GrantInv, Queued, StopJoined
<1> QED BY <1>1, <1>2 DEF GrantInv

LEMMA OfflineCancelsGrant ==
  ASSUME Types, GrantInv, OfflineCancels
  PROVE  GrantInv'
<1>1. Tokens' /\ Retried' /\ BackoffRetries' /\ Asks' /\ Holds'
  BY DEF GrantInv, Tokens, Retried, BackoffRetries, Asks, Holds, OfflineCancels, Cancel
<1>2. Queued'
  BY DEF GrantInv, Queued, OfflineCancels, Cancel
<1> QED BY <1>1, <1>2 DEF GrantInv

LEMMA OfferQueuesGrant ==
  ASSUME Types, GrantInv, OfferQueues
  PROVE  GrantInv'
<1>1. Queued'
  BY DEF GrantInv, Queued, OfferQueues, QueueGrant
<1>2. Tokens'
  BY QueuesWk DEF GrantInv, Tokens, OfferQueues
<1>3. Retried' /\ BackoffRetries' /\ Asks'
  BY QueuesWk DEF GrantInv, Retried, BackoffRetries, Asks, OfferQueues
<1>4. Holds'
  BY QueuesWk DEF GrantInv, Holds, OfferQueues
<1> QED BY <1>1, <1>2, <1>3, <1>4 DEF GrantInv

LEMMA DequeueGrant ==
  ASSUME Types, GrantInv, Dequeue
  PROVE  GrantInv'
<1>1. Queued'
  BY DEF GrantInv, Queued, Dequeue
<1>2. Tokens'
  BY DEF GrantInv, Queued, Tokens, Retried, BackoffRetries, Dequeue
<1>3. Retried' /\ BackoffRetries' /\ Asks'
  BY DEF GrantInv, Retried, BackoffRetries, Asks, Dequeue
<1>4. Holds'
  BY DEF GrantInv, Holds, Asks, Dequeue, WkAt
<1> QED BY <1>1, <1>2, <1>3, <1>4 DEF GrantInv

LEMMA ExitGrant ==
  ASSUME Types, GrantInv, Exit
  PROVE  GrantInv'
<1>1. Queued'
  BY DEF GrantInv, Queued, Exit
<1>2. Tokens'
  BY DEF GrantInv, Queued, Tokens, Retried, BackoffRetries, Exit, WkGoto
<1>3. Retried' /\ BackoffRetries' /\ Asks'
  BY DEF GrantInv, Retried, BackoffRetries, Asks, Exit, WkGoto
<1>4. Holds'
  BY DEF GrantInv, Holds, Asks, Exit, WkAt
<1> QED BY <1>1, <1>2, <1>3, <1>4 DEF GrantInv

LEMMA CheckGrant ==
  ASSUME Types, GrantInv, Check
  PROVE  GrantInv'
<1>1. Queued'
  BY DEF GrantInv, Queued, Check, BeginAttempt
<1>2. Tokens'
  <2>1. wk.grant \in Grants /\ wk.pc = "check"
    BY Typed DEF Check, WkAt, Wks
  <2>2. CASE Mine
    BY <2>1, <2>2, BeginsWk DEF Check, GrantInv, Tokens, Grants
  <2>3. CASE ~Mine
    BY <2>3, Typed DEF Check, WkGoto, Wks, Tokens
  <2> QED BY <2>2, <2>3
<1>3. Retried' /\ BackoffRetries' /\ Asks'
  BY Typed DEF GrantInv, Retried, BackoffRetries, Asks, Check, WkGoto, BeginAttempt, Wks
<1>4. Holds'
  BY DEF GrantInv, Holds, Asks, Check, WkAt, BeginAttempt
<1> QED BY <1>1, <1>2, <1>3, <1>4 DEF GrantInv

LEMMA AskGrantGrant ==
  ASSUME Types, GrantInv, AskGrant
  PROVE  GrantInv'
<1>1. Queued'
  BY DEF GrantInv, Queued, AskGrant
<1>2. Tokens'
  BY AsksWk DEF Tokens
<1>3. Retried' /\ BackoffRetries' /\ Asks'
  BY AsksWk DEF GrantInv, Retried, BackoffRetries, Asks
<1>4. Holds'
  BY AsksWk DEF GrantInv, Asks, Holds
<1> QED BY <1>1, <1>2, <1>3, <1>4 DEF GrantInv

LEMMA RefreshGrant ==
  ASSUME Types, GrantInv, Refresh
  PROVE  GrantInv'
<1>1. Queued'
  BY DEF GrantInv, Queued, Refresh
<1>2. Tokens'
  BY AsksWk DEF Tokens
<1>3. Retried' /\ BackoffRetries' /\ Asks'
  BY AsksWk DEF GrantInv, Retried, BackoffRetries, Asks
<1>4. Holds'
  BY AsksWk DEF GrantInv, Asks, Holds
<1> QED BY <1>1, <1>2, <1>3, <1>4 DEF GrantInv

LEMMA ConnectGrant ==
  ASSUME Types, GrantInv, Connect
  PROVE  GrantInv'
<1>1. Queued'
  BY DEF GrantInv, Queued, Connect
<1>2. Tokens'
  BY Typed DEF GrantInv, Queued, Tokens, Retried, BackoffRetries, Connect, WkAt, WkGoto, Wks
<1>3. Retried' /\ BackoffRetries' /\ Asks'
  BY Typed DEF GrantInv, Retried, BackoffRetries, Asks, Connect, WkGoto, Wks
<1>4. Holds'
  BY Typed DEF GrantInv, Holds, Asks, Connect, WkGoto, Wks
<1> QED BY <1>1, <1>2, <1>3, <1>4 DEF GrantInv

LEMMA ConnectedGrant ==
  ASSUME Types, GrantInv, Connected
  PROVE  GrantInv'
<1>1. Queued'
  BY DEF GrantInv, Queued, Connected
<1>2. Tokens'
  BY ConnectedWk DEF Tokens
<1>3. Retried' /\ BackoffRetries' /\ Asks'
  BY ConnectedWk DEF Retried, BackoffRetries, Asks
<1>4. Holds'
  BY ConnectedWk DEF GrantInv, Tokens, Holds, Connected
<1> QED BY <1>1, <1>2, <1>3, <1>4 DEF GrantInv

LEMMA LeaveGrant ==
  ASSUME Types, GrantInv, Leave
  PROVE  GrantInv'
<1>1. Queued'
  BY DEF GrantInv, Queued, Leave, LeaveLoop
<1>2. Tokens'
  BY DEF GrantInv, Queued, Tokens, Retried, BackoffRetries, Leave, LeaveLoop
<1>3. Retried' /\ BackoffRetries' /\ Asks'
  BY DEF GrantInv, Retried, BackoffRetries, Asks, Leave, LeaveLoop
<1>4. Holds'
  BY DEF GrantInv, Holds, Asks, Leave, LeaveLoop
<1> QED BY <1>1, <1>2, <1>3, <1>4 DEF GrantInv

LEMMA UnreadyGrant ==
  ASSUME Types, GrantInv, Unready
  PROVE  GrantInv'
<1>1. Queued'
  BY DEF GrantInv, Queued, Unready
<1>2. Tokens'
  BY DEF GrantInv, Queued, Tokens, Retried, BackoffRetries, Unready, WkGoto
<1>3. Retried' /\ BackoffRetries' /\ Asks'
  BY DEF GrantInv, Retried, BackoffRetries, Asks, Unready, WkGoto
<1>4. Holds'
  BY DEF GrantInv, Holds, Asks, Unready, WkGoto
<1> QED BY <1>1, <1>2, <1>3, <1>4 DEF GrantInv

LEMMA DecideGrant ==
  ASSUME Types, GrantInv, Decide
  PROVE  GrantInv'
<1>1. Queued'
  BY DEF GrantInv, Queued, Decide
<1>2. Tokens'
  BY DEF GrantInv, Queued, Tokens, Retried, BackoffRetries, Decide
<1>3. Retried' /\ BackoffRetries' /\ Asks'
  BY Typed DEF GrantInv, Retried, BackoffRetries, Asks, Decide, MayRetry, ResetInput, Wks
<1>4. Holds'
  BY DEF GrantInv, Holds, Asks, Decide
<1> QED BY <1>1, <1>2, <1>3, <1>4 DEF GrantInv

LEMMA ReportGrant ==
  ASSUME Types, GrantInv, Report
  PROVE  GrantInv'
<1>1. Queued'
  BY DEF GrantInv, Queued, Report
<1>2. Tokens'
  BY DEF GrantInv, Queued, Tokens, Retried, BackoffRetries, Report, WkGoto
<1>3. Retried' /\ BackoffRetries' /\ Asks'
  BY DEF GrantInv, Retried, BackoffRetries, Asks, Report, WkAt, WkGoto
<1>4. Holds'
  BY DEF GrantInv, Holds, Asks, Report, WkGoto
<1> QED BY <1>1, <1>2, <1>3, <1>4 DEF GrantInv

LEMMA ReleaseGrant ==
  ASSUME Types, GrantInv, Release
  PROVE  GrantInv'
<1>1. Queued'
  BY DEF GrantInv, Queued, Release, Again
<1>2. Tokens'
  BY DEF GrantInv, Queued, Tokens, Retried, BackoffRetries, Release, Again
<1>3. Retried' /\ BackoffRetries' /\ Asks'
  BY DEF GrantInv, Retried, BackoffRetries, Asks, Release, WkAt, Again
<1>4. Holds'
  BY Typed DEF GrantInv, Holds, Asks, Release, HoldsGrant, Again, Srvs
<1> QED BY <1>1, <1>2, <1>3, <1>4 DEF GrantInv

LEMMA BackoffGrant ==
  ASSUME Types, GrantInv, Backoff
  PROVE  GrantInv'
<1>1. Queued'
  BY DEF GrantInv, Queued, Backoff, BeginAttempt
<1>2. Tokens'
  BY DEF GrantInv, Queued, Tokens, Retried, BackoffRetries, Backoff, WkAt, BeginAttempt
<1>3. Retried' /\ BackoffRetries' /\ Asks'
  BY DEF GrantInv, Retried, BackoffRetries, Asks, Backoff, BeginAttempt
<1>4. Holds'
  BY DEF GrantInv, Holds, Asks, Backoff, WkAt, BeginAttempt
<1> QED BY <1>1, <1>2, <1>3, <1>4 DEF GrantInv

LEMMA FinishGrantGrant ==
  ASSUME Types, GrantInv, FinishGrant
  PROVE  GrantInv'
<1>1. Queued'
  BY DEF GrantInv, Queued, FinishGrant, Finishes
<1>2. Tokens'
  BY DEF GrantInv, Queued, Tokens, Retried, BackoffRetries, FinishGrant, WkGoto, Finishes
<1>3. Retried' /\ BackoffRetries' /\ Asks'
  BY DEF GrantInv, Retried, BackoffRetries, Asks, FinishGrant, WkGoto, Finishes
<1>4. Holds'
  BY DEF GrantInv, Holds, Asks, FinishGrant, WkAt, Finishes
<1> QED BY <1>1, <1>2, <1>3, <1>4 DEF GrantInv

LEMMA FreeGrant ==
  ASSUME Types, GrantInv, Free
  PROVE  GrantInv'
<1>1. Queued'
  BY DEF GrantInv, Queued, Free
<1>2. Tokens'
  BY DEF GrantInv, Queued, Tokens, Retried, BackoffRetries, Free
<1>3. Retried' /\ BackoffRetries' /\ Asks'
  BY DEF GrantInv, Retried, BackoffRetries, Asks, Free
<1>4. Holds'
  BY DEF GrantInv, Holds, Asks, Free, WkAt
<1> QED BY <1>1, <1>2, <1>3, <1>4 DEF GrantInv

LEMMA ConnectFailsGrant ==
  ASSUME Types, GrantInv, NEW again \in BOOLEAN, ConnectFails(again)
  PROVE  GrantInv'
<1>1. Queued'
  BY DEF GrantInv, Queued, ConnectFails
<1>2. Tokens'
  BY DEF GrantInv, Queued, Tokens, Retried, BackoffRetries, ConnectFails
<1>3. Retried' /\ BackoffRetries' /\ Asks'
  BY DEF GrantInv, Retried, BackoffRetries, Asks, ConnectFails
<1>4. Holds'
  BY DEF GrantInv, Holds, Asks, ConnectFails
<1> QED BY <1>1, <1>2, <1>3, <1>4 DEF GrantInv

LEMMA DropGrant ==
  ASSUME Types, GrantInv, NEW again \in BOOLEAN, Drop(again)
  PROVE  GrantInv'
<1>1. Queued'
  BY DEF GrantInv, Queued, Drop, LeaveLoop
<1>2. Tokens'
  BY DEF GrantInv, Queued, Tokens, Retried, BackoffRetries, Drop, LeaveLoop
<1>3. Retried' /\ BackoffRetries' /\ Asks'
  BY DEF GrantInv, Retried, BackoffRetries, Asks, Drop, LeaveLoop
<1>4. Holds'
  BY DEF GrantInv, Holds, Asks, Drop, LeaveLoop
<1> QED BY <1>1, <1>2, <1>3, <1>4 DEF GrantInv

LEMMA GrantAside ==
  ASSUME Types, GrantInv, NEW msg \in {"ready", "fatal"},
         Request \/ RequestSays \/ RequestAsked \/ RequestRefused \/ RequestUndone \/ End \/ BoardUpdates
         \/ StreamStart \/ StreamWrite \/ StreamEnd \/ Stop \/ StopSignals \/ Start \/ Offline \/ Online
         \/ CloudUpdates \/ Offer \/ OfferRefused \/ FlushTx \/ Stable \/ MediaTakes \/ MediaReady \/ MediaSays
         \/ MediaRecovered \/ MediaExits \/ Receive(msg)
  PROVE  GrantInv'
<1>1. CASE Request
  BY <1>1, GrantKept DEF Request
<1>2. CASE RequestSays
  BY <1>2, GrantKept DEF RequestSays
<1>3. CASE RequestUndone
  BY <1>3, GrantKept DEF RequestUndone
<1>4. CASE End
  BY <1>4, GrantKept DEF End
<1>5. CASE BoardUpdates
  BY <1>5, GrantKept DEF BoardUpdates
<1>6. CASE StreamStart
  BY <1>6, GrantKept DEF StreamStart
<1>7. CASE StreamWrite
  BY <1>7, GrantKept DEF StreamWrite
<1>8. CASE StreamEnd
  BY <1>8, GrantKept DEF StreamEnd
<1>9. CASE Stop
  BY <1>9, GrantKept DEF Stop
<1>10. CASE StopSignals
  BY <1>10, GrantKept DEF StopSignals
<1>11. CASE Start
  BY <1>11, GrantKept DEF Start
<1>12. CASE Offline
  BY <1>12, GrantKept DEF Offline
<1>13. CASE Online
  BY <1>13, GrantKept DEF Online
<1>14. CASE CloudUpdates
  BY <1>14, GrantKept DEF CloudUpdates
<1>15. CASE Offer
  BY <1>15, GrantKept DEF Offer
<1>16. CASE OfferRefused
  BY <1>16, GrantKept DEF OfferRefused
<1>17. CASE FlushTx
  BY <1>17, GrantKept, FlushKeeps
<1>18. CASE Stable
  BY <1>18, GrantKept DEF Stable
<1>19. CASE MediaTakes
  BY <1>19, GrantKept DEF MediaTakes, MedUnch
<1>20. CASE MediaReady
  BY <1>20, GrantKept DEF MediaReady, MedUnch
<1>21. CASE MediaSays
  BY <1>21, GrantKept DEF MediaSays, MedUnch
<1>22. CASE MediaRecovered
  BY <1>22, GrantKept DEF MediaRecovered, MedUnch
<1>23. CASE MediaExits
  BY <1>23, GrantKept DEF MediaExits, MedUnch
<1>24. CASE Receive(msg)
  BY <1>24, GrantKept DEF Receive
<1>25. CASE RequestAsked
  BY <1>25, GrantKept DEF RequestAsked
<1>26. CASE RequestRefused
  BY <1>26, GrantKept DEF RequestRefused
<1> QED BY <1>1, <1>2, <1>3, <1>4, <1>5, <1>6, <1>7, <1>8, <1>9, <1>10, <1>11, <1>12, <1>13, <1>14, <1>15, <1>16,
   <1>17, <1>18, <1>19, <1>20, <1>21, <1>22, <1>23, <1>24, <1>25, <1>26

LEMMA GrantStep ==
  ASSUME Types, GrantInv, [Next]_vars
  PROVE  GrantInv'
<1>1. CASE Board
  BY <1>1, GrantAside, RequestQueuesGrant, RequestFailsGrant, EndCancelsGrant, StopJoinedGrant DEF Board
<1>2. CASE BoardCalls
  BY <1>2, GrantAside, StreamCutGrant DEF BoardCalls
<1>3. CASE Cloud
  BY <1>3, OfflineCancelsGrant, GrantAside DEF Cloud
<1>4. CASE Offline
  BY <1>4, GrantAside
<1>5. CASE Online
  BY <1>5, GrantAside
<1>6. CASE Mqtt
  BY <1>6, OfferQueuesGrant, GrantAside DEF Mqtt
<1>7. CASE Offer
  BY <1>7, GrantAside
<1>8. CASE Worker
  BY <1>8, DequeueGrant, ExitGrant, CheckGrant, AskGrantGrant, RefreshGrant, ConnectGrant, ConnectedGrant, GrantAside,
     LeaveGrant, ConnectFailsGrant, UnreadyGrant, DecideGrant, ReportGrant, ReleaseGrant, BackoffGrant,
     FinishGrantGrant, FreeGrant DEF Worker
<1>9. CASE Server
  BY <1>9, GrantAside, DropGrant DEF Server
<1>10. CASE Media
  BY <1>10, GrantAside DEF Media
<1>11. CASE UNCHANGED vars
  BY <1>11, GrantKept DEF vars
<1> QED BY <1>1, <1>2, <1>3, <1>4, <1>5, <1>6, <1>7, <1>8, <1>9, <1>10, <1>11 DEF Next

-----------------------------------------------------------------------------
(* The flags *)

LEMMA FlagKept ==
  ASSUME FlagInv, wk'.grant = wk.grant, ctl'.epoch = ctl.epoch, grants' = grants, ctl'.open = ctl.open,
         ctl'.run = ctl.run, ctl'.task = ctl.task, brd'.pc = brd.pc, wk'.pc = wk.pc, wk'.retry = wk.retry,
         ctl'.recovering = ctl.recovering, mq' = mq, brd'.kind = brd.kind, wifi'.wanted = wifi.wanted,
         brd'.crossed = brd.crossed, brd'.cut = brd.cut, brd'.refused = brd.refused, cld' = cld
  PROVE  FlagInv'
BY DEF FlagInv, Epochs, Stopped, Fresh, Finished, Kinded, Unwanted, RecoveringIsRetry, UndoIsAlone, Wanted, Faithful,
   CallExists, Mine, Current

LEMMA RequestFlag ==
  ASSUME Types, FlagInv, Request
  PROVE  FlagInv'
<1>1. Epochs' /\ Fresh' /\ Finished' /\ RecoveringIsRetry'
  BY DEF FlagInv, Epochs, Fresh, Finished, RecoveringIsRetry, Mine, Current, Request
<1>2. Stopped'
  BY DEF FlagInv, Epochs, Stopped, Request
<1>3. Kinded'
  BY DEF FlagInv, Kinded, Request
<1>4. Unwanted'
  BY DEF FlagInv, Unwanted, Request
<1>5. UndoIsAlone'
  BY DEF FlagInv, UndoIsAlone, Epochs, Kinded, CallExists, Request
<1>6. Wanted'
  BY Typed DEF FlagInv, Wanted, Faithful, Epochs, Stopped, Kinded, Unwanted, UndoIsAlone, CallExists, Request, Wifis,
     Brds
<1> QED BY <1>1, <1>2, <1>3, <1>4, <1>5, <1>6 DEF FlagInv

LEMMA RequestSaysFlag ==
  ASSUME Types, FlagInv, RequestSays
  PROVE  FlagInv'
<1>1. Epochs' /\ Fresh' /\ Finished' /\ RecoveringIsRetry'
  BY DEF FlagInv, Epochs, Fresh, Finished, RecoveringIsRetry, Mine, Current, RequestSays
<1>2. Stopped'
  BY DEF FlagInv, Epochs, Stopped, RequestSays, BrdGoto
<1>3. Kinded'
  BY DEF FlagInv, Kinded, RequestSays, BrdGoto
<1>4. Unwanted'
  BY DEF FlagInv, Unwanted, RequestSays, BrdGoto
<1>5. UndoIsAlone'
  BY DEF FlagInv, UndoIsAlone, Epochs, Kinded, CallExists, RequestSays, BrdGoto
<1>6. Wanted'
  BY DEF FlagInv, Wanted, Faithful, Epochs, Stopped, Kinded, Unwanted, UndoIsAlone, CallExists, Mine, Current,
     RequestSays, BrdAt, BrdGoto, UpdateLink
<1> QED BY <1>1, <1>2, <1>3, <1>4, <1>5, <1>6 DEF FlagInv

LEMMA RequestAskedFlag ==
  ASSUME Types, FlagInv, RequestAsked
  PROVE  FlagInv'
<1>1. brd.pc = "ask" /\ brd'.pc = "idle" /\ brd'.kind = brd.kind /\ brd'.crossed = brd.crossed /\ brd'.cut = brd.cut
      /\ brd'.refused = brd.refused
  BY Typed DEF RequestAsked, BrdAt, BrdGoto, Brds
<1>2. UNCHANGED <<ctl, grants, wk, wifi, cld, mq>>
  BY DEF RequestAsked
<1>3. CallExists' = CallExists
  BY <1>2 DEF CallExists, Mine, Current
<1> QED BY <1>1, <1>2, <1>3 DEF FlagInv, Epochs, Stopped, Fresh, Finished, Kinded, Unwanted, UndoIsAlone,
        RecoveringIsRetry, Mine, Current, Wanted, Faithful

LEMMA RequestRefusedFlag ==
  ASSUME Types, FlagInv, RequestRefused
  PROVE  FlagInv'
<1>1. brd.pc = "ask" /\ brd'.pc = "update" /\ brd'.kind = brd.kind /\ brd'.crossed = brd.crossed
      /\ brd'.cut = brd.cut /\ (brd'.refused <=> CallExists)
  BY Typed DEF RequestRefused, BrdAt, Brds
<1>2. UNCHANGED <<ctl, grants, wk, cld, mq>> /\ ~wifi'.wanted
  BY Typed DEF RequestRefused, Wifis
<1>3. CallExists' = CallExists
  BY <1>2 DEF CallExists, Mine, Current
<1> QED BY <1>1, <1>2, <1>3 DEF FlagInv, Epochs, Stopped, Fresh, Finished, Kinded, Unwanted, UndoIsAlone,
        RecoveringIsRetry, Mine, Current, Wanted, Faithful

LEMMA RequestQueuesFlag ==
  ASSUME Types, FlagInv, RequestQueues
  PROVE  FlagInv'
<1>1. Epochs'
  BY QueuesWk, QueuedGrant, EpochsGrow DEF FlagInv, RequestQueues
<1>2. Stopped'
  BY DEF FlagInv, Epochs, Stopped, RequestQueues, QueueGrant
<1>3. Fresh' /\ Finished'
  BY QueuesWk, QueuedGrant DEF FlagInv, Fresh, Finished, RequestQueues
<1>4. Kinded'
  BY DEF FlagInv, Kinded, RequestQueues, QueueGrant
<1>5. Unwanted'
  BY DEF FlagInv, Unwanted, RequestQueues, QueueGrant
<1>6. RecoveringIsRetry'
  BY QueuedGrant DEF RecoveringIsRetry, RequestQueues
<1>7. UndoIsAlone'
  BY DEF FlagInv, UndoIsAlone, Epochs, Kinded, CallExists, RequestQueues, QueueGrant
<1>8. Wanted'
  BY Typed DEF FlagInv, Wanted, Faithful, Epochs, Stopped, Kinded, Unwanted, UndoIsAlone, CallExists, RequestQueues,
     QueueGrant, Ctls
<1> QED BY <1>1, <1>2, <1>3, <1>4, <1>5, <1>6, <1>7, <1>8 DEF FlagInv

LEMMA RequestFailsFlag ==
  ASSUME Types, FlagInv, RequestFails
  PROVE  FlagInv'
<1>1. Epochs'
  <2>1. ctl'.epoch = ctl.epoch + 1
    BY DEF RequestFails
  <2> QED BY <2>1, EpochsGrow DEF FlagInv, RequestFails
<1>2. Stopped'
  BY DEF FlagInv, Epochs, Stopped, RequestFails, BrdGoto
<1>3. Fresh' /\ Finished'
  BY DEF FlagInv, Fresh, Finished, RecoveringIsRetry, RequestFails
<1>4. Kinded'
  BY DEF FlagInv, Kinded, RequestFails, BrdAt, BrdGoto
<1>5. Unwanted'
  BY DEF FlagInv, Unwanted, RequestFails, BrdGoto
<1>6. RecoveringIsRetry'
  BY DEF FlagInv, Fresh, Finished, RecoveringIsRetry, RequestFails
<1>7. UndoIsAlone'
  BY Typed DEF FlagInv, UndoIsAlone, Epochs, Kinded, CallExists, Mine, Current, RequestFails, Ctls
<1>8. Wanted'
  BY Typed DEF FlagInv, Wanted, Faithful, Epochs, Stopped, Kinded, Unwanted, UndoIsAlone, CallExists, Mine, Current,
     RequestFails, BrdGoto, Ctls
<1> QED BY <1>1, <1>2, <1>3, <1>4, <1>5, <1>6, <1>7, <1>8 DEF FlagInv

LEMMA RequestUndoneFlag ==
  ASSUME Types, FlagInv, RequestUndone
  PROVE  FlagInv'
<1>1. Epochs' /\ Fresh' /\ Finished' /\ RecoveringIsRetry'
  BY DEF FlagInv, Epochs, Fresh, Finished, RecoveringIsRetry, Mine, Current, RequestUndone
<1>2. Stopped'
  BY DEF FlagInv, Epochs, Stopped, RequestUndone, BrdGoto
<1>3. Kinded'
  BY DEF FlagInv, Kinded, RequestUndone, BrdGoto
<1>4. Unwanted'
  BY DEF FlagInv, Unwanted, RequestUndone
<1>5. UndoIsAlone'
  BY DEF FlagInv, UndoIsAlone, Epochs, Kinded, CallExists, RequestUndone, BrdGoto
<1>6. Wanted'
  BY DEF FlagInv, Wanted, Faithful, Epochs, Stopped, Kinded, Unwanted, UndoIsAlone, CallExists, Mine, Current,
     RequestUndone, BrdAt
<1> QED BY <1>1, <1>2, <1>3, <1>4, <1>5, <1>6 DEF FlagInv

LEMMA EndFlag ==
  ASSUME Types, FlagInv, End
  PROVE  FlagInv'
<1>1. Epochs' /\ Fresh' /\ Finished' /\ RecoveringIsRetry'
  BY DEF FlagInv, Epochs, Fresh, Finished, RecoveringIsRetry, Mine, Current, End
<1>2. Stopped'
  BY DEF FlagInv, Epochs, Stopped, End, BrdGoto
<1>3. Kinded'
  BY DEF FlagInv, Kinded, End, BrdGoto
<1>4. Unwanted'
  BY DEF FlagInv, Unwanted, End
<1>5. UndoIsAlone'
  BY DEF FlagInv, UndoIsAlone, Epochs, Kinded, CallExists, End, BrdGoto
<1>6. Wanted'
  BY DEF FlagInv, Wanted, Faithful, Epochs, Stopped, Kinded, Unwanted, UndoIsAlone, CallExists, End, BrdGoto
<1> QED BY <1>1, <1>2, <1>3, <1>4, <1>5, <1>6 DEF FlagInv

LEMMA EndCancelsFlag ==
  ASSUME Types, FlagInv, EndCancels
  PROVE  FlagInv'
<1>1. Epochs'
  BY CancelledGrant, EpochsGrow DEF FlagInv, EndCancels
<1>2. Stopped'
  BY DEF FlagInv, Epochs, Stopped, EndCancels, BrdGoto, Cancel
<1>3. Fresh' /\ Finished'
  BY DEF FlagInv, Fresh, Finished, RecoveringIsRetry, EndCancels, Cancel
<1>4. Kinded'
  BY DEF FlagInv, Kinded, EndCancels, BrdGoto, Cancel
<1>5. Unwanted'
  BY DEF FlagInv, Unwanted, EndCancels, BrdAt, Cancel
<1>6. RecoveringIsRetry'
  BY DEF FlagInv, Fresh, Finished, RecoveringIsRetry, EndCancels, Cancel
<1>7. UndoIsAlone'
  BY DEF FlagInv, UndoIsAlone, Epochs, Kinded, CallExists, EndCancels, BrdGoto, Cancel
<1>8. Wanted'
  BY Typed DEF FlagInv, Wanted, Faithful, Epochs, Stopped, Kinded, Unwanted, UndoIsAlone, CallExists, Mine, Current,
     EndCancels, BrdAt, Cancel, Ctls
<1> QED BY <1>1, <1>2, <1>3, <1>4, <1>5, <1>6, <1>7, <1>8 DEF FlagInv

LEMMA BoardUpdatesFlag ==
  ASSUME Types, FlagInv, BoardUpdates
  PROVE  FlagInv'
<1>1. Epochs' /\ Fresh' /\ Finished' /\ RecoveringIsRetry'
  BY DEF FlagInv, Epochs, Fresh, Finished, RecoveringIsRetry, Mine, Current, BoardUpdates
<1>2. Stopped'
  BY DEF FlagInv, Epochs, Stopped, BoardUpdates, BrdGoto
<1>3. Kinded'
  BY DEF FlagInv, Kinded, BoardUpdates, BrdGoto
<1>4. Unwanted'
  BY DEF FlagInv, Unwanted, BoardUpdates, BrdGoto
<1>5. UndoIsAlone'
  BY DEF FlagInv, UndoIsAlone, Epochs, Kinded, CallExists, BoardUpdates, BrdGoto
<1>6. Wanted'
  BY DEF FlagInv, Wanted, Faithful, Epochs, Stopped, Kinded, Unwanted, UndoIsAlone, CallExists, Mine, Current,
     BoardUpdates, BrdAt, BrdGoto, UpdateLink
<1> QED BY <1>1, <1>2, <1>3, <1>4, <1>5, <1>6 DEF FlagInv

LEMMA StreamCutFlag ==
  ASSUME Types, FlagInv, StreamCut
  PROVE  FlagInv'
<1>1. Kinded' /\ Unwanted'
  BY DEF FlagInv, Kinded, Unwanted, StreamCut, Cancel
<1>2. Epochs'
  BY CancelledGrant, EpochsGrow DEF FlagInv, StreamCut
<1>3. Stopped'
  BY DEF FlagInv, Epochs, Stopped, StreamCut, Cancel
<1>4. Fresh' /\ Finished'
  BY DEF FlagInv, Fresh, Finished, RecoveringIsRetry, StreamCut, Cancel
<1>5. RecoveringIsRetry'
  BY DEF FlagInv, Fresh, Finished, RecoveringIsRetry, StreamCut, Cancel
<1>6. UndoIsAlone'
  BY DEF FlagInv, UndoIsAlone, Epochs, Kinded, CallExists, StreamCut, BrdAt, Cancel
<1>7. Wanted'
  BY DEF FlagInv, Wanted, Faithful, Epochs, Stopped, Kinded, Unwanted, UndoIsAlone, CallExists, StreamCut, Cancel
<1> QED BY <1>1, <1>2, <1>3, <1>4, <1>5, <1>6, <1>7 DEF FlagInv

LEMMA StopFlag ==
  ASSUME Types, FlagInv, Stop
  PROVE  FlagInv'
<1>1. Epochs' /\ Fresh' /\ Finished' /\ RecoveringIsRetry'
  BY DEF FlagInv, Epochs, Fresh, Finished, RecoveringIsRetry, Mine, Current, Stop
<1>2. Stopped'
  BY DEF FlagInv, Epochs, Stopped, Stop, BrdGoto
<1>3. Kinded'
  BY DEF FlagInv, Kinded, Stop, BrdGoto
<1>4. Unwanted'
  BY DEF FlagInv, Unwanted, Stop
<1>5. UndoIsAlone'
  BY DEF FlagInv, UndoIsAlone, Epochs, Kinded, CallExists, Stop, BrdGoto
<1>6. Wanted'
  BY DEF FlagInv, Wanted, Faithful, Epochs, Stopped, Kinded, Unwanted, UndoIsAlone, CallExists, Stop, BrdGoto
<1> QED BY <1>1, <1>2, <1>3, <1>4, <1>5, <1>6 DEF FlagInv

LEMMA StopSignalsFlag ==
  ASSUME Types, FlagInv, StopSignals
  PROVE  FlagInv'
<1>1. Epochs'
  <2>1. ctl'.epoch = ctl.epoch + 1
    BY DEF StopSignals
  <2> QED BY <2>1, EpochsGrow DEF FlagInv, StopSignals
<1>2. Stopped'
  BY Typed DEF FlagInv, Epochs, Stopped, StopSignals, Ctls
<1>3. Fresh' /\ Finished'
  BY DEF FlagInv, Fresh, Finished, RecoveringIsRetry, StopSignals
<1>4. Kinded'
  BY DEF FlagInv, Kinded, StopSignals, BrdGoto
<1>5. Unwanted'
  BY DEF FlagInv, Unwanted, StopSignals, BrdAt
<1>6. RecoveringIsRetry'
  BY DEF FlagInv, Fresh, Finished, RecoveringIsRetry, StopSignals
<1>7. UndoIsAlone'
  BY DEF FlagInv, UndoIsAlone, Epochs, Kinded, CallExists, StopSignals, BrdGoto
<1>8. Wanted'
  BY Typed DEF FlagInv, Wanted, Faithful, Epochs, Stopped, Kinded, Unwanted, UndoIsAlone, CallExists, Mine, Current,
     StopSignals, BrdAt, Ctls
<1> QED BY <1>1, <1>2, <1>3, <1>4, <1>5, <1>6, <1>7, <1>8 DEF FlagInv

LEMMA StopJoinedFlag ==
  ASSUME Types, FlagInv, StopJoined
  PROVE  FlagInv'
<1>1. Fresh' /\ Finished' /\ RecoveringIsRetry'
  BY DEF FlagInv, Fresh, Finished, RecoveringIsRetry, Mine, Current, StopJoined
<1>2. Epochs'
  BY DEF FlagInv, Epochs, StopJoined
<1>3. Stopped'
  BY DEF FlagInv, Epochs, Stopped, StopJoined, BrdAt
<1>4. Kinded'
  BY DEF FlagInv, Kinded, StopJoined, BrdGoto
<1>5. Unwanted'
  BY DEF FlagInv, Unwanted, StopJoined, BrdGoto
<1>6. UndoIsAlone'
  BY DEF FlagInv, UndoIsAlone, Epochs, Kinded, CallExists, StopJoined, BrdGoto
<1>7. Wanted'
  BY DEF FlagInv, Wanted, Faithful, Epochs, Stopped, Kinded, Unwanted, UndoIsAlone, CallExists, Mine, Current,
     StopJoined, BrdAt
<1> QED BY <1>1, <1>2, <1>3, <1>4, <1>5, <1>6, <1>7 DEF FlagInv

LEMMA StartFlag ==
  ASSUME Types, FlagInv, Start
  PROVE  FlagInv'
<1>1. Epochs' /\ Fresh' /\ Finished' /\ Kinded' /\ Unwanted'
  BY DEF FlagInv, Epochs, Fresh, Finished, Kinded, Unwanted, Start
<1>2. Stopped'
  BY DEF FlagInv, Epochs, Stopped, Start, BrdAt
<1>3. RecoveringIsRetry'
  BY DEF FlagInv, Fresh, Finished, RecoveringIsRetry, Mine, Current, Start
<1>4. UndoIsAlone'
  BY DEF FlagInv, UndoIsAlone, Epochs, Kinded, CallExists, Start, BrdAt
<1>5. Wanted'
  <2>1. ~ctl.open /\ ~ctl.run /\ grants = <<>> /\ wk.pc = "none" /\ brd' = brd
    BY DEF FlagInv, Stopped, Start, Types, TaskIsWorker
  <2>2. ~CallExists /\ ~CallExists'
    BY <2>1 DEF CallExists, Start
  <2> QED BY <2>1, <2>2 DEF FlagInv, Wanted, Faithful, Start
<1> QED BY <1>1, <1>2, <1>3, <1>4, <1>5 DEF FlagInv

LEMMA OfflineFlag ==
  ASSUME Types, FlagInv, Offline
  PROVE  FlagInv'
<1>1. Epochs' /\ Stopped' /\ Fresh' /\ Finished' /\ Kinded' /\ RecoveringIsRetry' /\ UndoIsAlone'
  BY DEF FlagInv, Epochs, Stopped, Fresh, Finished, Kinded, RecoveringIsRetry, UndoIsAlone, Mine, Current, CallExists,
     Offline
<1>2. Unwanted'
  BY DEF FlagInv, Unwanted, Offline
<1>3. Wanted'
  BY DEF FlagInv, Wanted, Faithful, Epochs, Stopped, Kinded, Unwanted, UndoIsAlone, CallExists, Offline
<1> QED BY <1>1, <1>2, <1>3 DEF FlagInv

LEMMA OfflineCancelsFlag ==
  ASSUME Types, FlagInv, OfflineCancels
  PROVE  FlagInv'
<1>1. Kinded' /\ Unwanted'
  BY DEF FlagInv, Kinded, Unwanted, OfflineCancels, Cancel
<1>2. Epochs'
  BY CancelledGrant, EpochsGrow DEF FlagInv, OfflineCancels
<1>3. Stopped'
  BY DEF FlagInv, Epochs, Stopped, OfflineCancels, Cancel
<1>4. Fresh' /\ Finished'
  BY DEF FlagInv, Fresh, Finished, RecoveringIsRetry, OfflineCancels, Cancel
<1>5. RecoveringIsRetry'
  BY DEF FlagInv, Fresh, Finished, RecoveringIsRetry, OfflineCancels, Cancel
<1>6. UndoIsAlone'
  BY Typed DEF FlagInv, UndoIsAlone, Epochs, Kinded, CallExists, Mine, Current, OfflineCancels, Cancel, Ctls
<1>7. Wanted'
  BY Typed DEF FlagInv, Wanted, Faithful, Epochs, Stopped, Kinded, Unwanted, UndoIsAlone, CallExists, Mine, Current,
     OfflineCancels, Cancel, Ctls
<1> QED BY <1>1, <1>2, <1>3, <1>4, <1>5, <1>6, <1>7 DEF FlagInv

LEMMA OnlineFlag ==
  ASSUME Types, FlagInv, Online
  PROVE  FlagInv'
<1>1. Epochs' /\ Stopped' /\ Fresh' /\ Finished' /\ Kinded' /\ Unwanted' /\ RecoveringIsRetry' /\ UndoIsAlone'
  BY DEF FlagInv, Epochs, Stopped, Fresh, Finished, Kinded, Unwanted, RecoveringIsRetry, UndoIsAlone, Mine, Current,
     CallExists, Online
<1>2. Wanted'
  BY DEF FlagInv, Wanted, Faithful, Epochs, Stopped, Kinded, Unwanted, UndoIsAlone, CallExists, Mine, Current, Online
<1> QED BY <1>1, <1>2 DEF FlagInv

LEMMA CloudUpdatesFlag ==
  ASSUME Types, FlagInv, CloudUpdates
  PROVE  FlagInv'
<1>1. Epochs' /\ Stopped' /\ Fresh' /\ Finished' /\ Kinded' /\ Unwanted' /\ RecoveringIsRetry' /\ UndoIsAlone'
  BY DEF FlagInv, Epochs, Stopped, Fresh, Finished, Kinded, Unwanted, RecoveringIsRetry, UndoIsAlone, Mine, Current,
     CallExists, CloudUpdates, UpdateLink
<1>2. Wanted'
  BY DEF FlagInv, Wanted, Faithful, Epochs, Stopped, Kinded, Unwanted, UndoIsAlone, CallExists, Mine, Current,
     CloudUpdates, UpdateLink
<1> QED BY <1>1, <1>2 DEF FlagInv

LEMMA OfferFlag ==
  ASSUME Types, FlagInv, Offer
  PROVE  FlagInv'
<1>1. Epochs' /\ Stopped' /\ Fresh' /\ Finished' /\ Unwanted' /\ RecoveringIsRetry' /\ UndoIsAlone' /\ Wanted'
  BY DEF FlagInv, Epochs, Stopped, Fresh, Finished, Unwanted, RecoveringIsRetry, UndoIsAlone, Wanted, Mine, Current,
     CallExists, Faithful, Offer
<1>2. Kinded'
  BY DEF FlagInv, Kinded, Offer
<1> QED BY <1>1, <1>2 DEF FlagInv

LEMMA OfferQueuesFlag ==
  ASSUME Types, FlagInv, OfferQueues
  PROVE  FlagInv'
<1>1. Unwanted'
  BY DEF FlagInv, Unwanted, OfferQueues, QueueGrant
<1>2. Epochs'
  BY QueuesWk, QueuedGrant, EpochsGrow DEF FlagInv, OfferQueues
<1>3. Stopped'
  BY DEF FlagInv, Epochs, Stopped, OfferQueues, QueueGrant
<1>4. Fresh' /\ Finished'
  BY QueuesWk, QueuedGrant DEF FlagInv, Fresh, Finished, OfferQueues
<1>5. Kinded'
  BY DEF FlagInv, Kinded, OfferQueues, QueueGrant
<1>6. RecoveringIsRetry'
  BY QueuedGrant DEF RecoveringIsRetry, OfferQueues
<1>7. UndoIsAlone'
  BY DEF FlagInv, UndoIsAlone, Epochs, Kinded, CallExists, OfferQueues, QueueGrant
<1>8. Wanted'
  BY Typed DEF FlagInv, Wanted, Faithful, Epochs, Stopped, Kinded, Unwanted, UndoIsAlone, CallExists, OfferQueues,
     QueueGrant, Ctls
<1> QED BY <1>1, <1>2, <1>3, <1>4, <1>5, <1>6, <1>7, <1>8 DEF FlagInv

LEMMA OfferRefusedFlag ==
  ASSUME Types, FlagInv, OfferRefused
  PROVE  FlagInv'
<1>1. Epochs' /\ Stopped' /\ Fresh' /\ Finished' /\ Unwanted' /\ RecoveringIsRetry' /\ UndoIsAlone' /\ Wanted'
  BY DEF FlagInv, Epochs, Stopped, Fresh, Finished, Unwanted, RecoveringIsRetry, UndoIsAlone, Wanted, Mine, Current,
     CallExists, Faithful, OfferRefused
<1>2. Kinded'
  BY DEF FlagInv, Kinded, OfferRefused
<1> QED BY <1>1, <1>2 DEF FlagInv

LEMMA DequeueFlag ==
  ASSUME Types, FlagInv, Dequeue
  PROVE  FlagInv'
<1>1. Kinded' /\ Unwanted'
  BY DEF FlagInv, Kinded, Unwanted, Dequeue, WorkerUnch
<1>2. Epochs'
  BY Typed DEF FlagInv, Epochs, Dequeue
<1>3. Stopped'
  BY DEF FlagInv, Epochs, Stopped, Dequeue, WorkerUnch
<1>4. Fresh' /\ Finished'
  BY DEF FlagInv, Fresh, Finished, RecoveringIsRetry, Dequeue, WkAt
<1>5. RecoveringIsRetry'
  BY DEF FlagInv, Fresh, Finished, RecoveringIsRetry, Dequeue, WkAt
<1>6. UndoIsAlone'
  BY DEF FlagInv, UndoIsAlone, Epochs, Kinded, CallExists, Mine, Current, Dequeue, WorkerUnch
<1>7. Wanted'
  BY Typed DEF FlagInv, Wanted, Faithful, Epochs, Stopped, Kinded, Unwanted, UndoIsAlone, CallExists, Mine, Current,
     Dequeue, WkAt, WorkerUnch
<1> QED BY <1>1, <1>2, <1>3, <1>4, <1>5, <1>6, <1>7 DEF FlagInv

LEMMA ExitFlag ==
  ASSUME Types, FlagInv, Exit
  PROVE  FlagInv'
<1>1. Epochs' /\ Kinded' /\ Unwanted' /\ RecoveringIsRetry'
  BY DEF FlagInv, Epochs, Kinded, Unwanted, RecoveringIsRetry, Mine, Current, Exit, WkGoto, WorkerUnch
<1>2. Stopped'
  BY DEF FlagInv, Epochs, Stopped, Exit
<1>3. Fresh' /\ Finished'
  BY DEF FlagInv, Fresh, Finished, RecoveringIsRetry, Exit, WkAt, WkGoto
<1>4. UndoIsAlone'
  BY DEF FlagInv, UndoIsAlone, Epochs, Kinded, CallExists, Exit, WkGoto, WorkerUnch
<1>5. Wanted'
  BY DEF FlagInv, Wanted, Faithful, Epochs, Stopped, Kinded, Unwanted, UndoIsAlone, CallExists, Exit, WkAt, WkGoto,
     WorkerUnch
<1> QED BY <1>1, <1>2, <1>3, <1>4, <1>5 DEF FlagInv

LEMMA CheckFlag ==
  ASSUME Types, FlagInv, Check
  PROVE  FlagInv'
<1>1. Stopped' /\ Kinded' /\ Unwanted'
  BY Typed DEF FlagInv, Stopped, Kinded, Unwanted, Check, WorkerUnch, BeginAttempt, Ctls
<1>2. Epochs'
  BY Typed DEF FlagInv, Epochs, Check, WkGoto, BeginAttempt, Ctls, Wks
<1>3. Fresh' /\ Finished'
  BY Typed DEF FlagInv, Fresh, Finished, RecoveringIsRetry, Check, WkAt, WkGoto, BeginAttempt, Wks
<1>4. RecoveringIsRetry'
  BY Typed DEF FlagInv, Fresh, Finished, RecoveringIsRetry, Check, WkAt, BeginAttempt, Ctls
<1>5. UndoIsAlone'
  BY Typed DEF FlagInv, UndoIsAlone, Epochs, Kinded, CallExists, Check, WkAt, WkGoto, WorkerUnch, BeginAttempt, Wks
<1>6. Wanted'
  <2>1. wk.grant \in Grants /\ wk.pc = "check" /\ ctl'.run = ctl.run /\ ctl'.epoch = ctl.epoch
    BY Typed DEF Check, WkAt, Wks, Ctls
  <2>2. CallExists' = CallExists
    <3>1. CASE Mine
      BY <2>1, <3>1, BeginsWk DEF Check, CallExists, Mine, Current
    <3>2. CASE ~Mine
      BY <2>1, <3>2, Typed DEF Check, WkGoto, Wks, CallExists
    <3> QED BY <3>1, <3>2
  <2> QED BY <2>2 DEF FlagInv, Wanted, Faithful, Check, WorkerUnch
<1> QED BY <1>1, <1>2, <1>3, <1>4, <1>5, <1>6 DEF FlagInv

LEMMA AskGrantFlag ==
  ASSUME Types, FlagInv, AskGrant
  PROVE  FlagInv'
<1>1. Stopped' /\ Kinded' /\ Unwanted'
  BY DEF FlagInv, Stopped, Kinded, Unwanted, AskGrant, WorkerUnch
<1>2. Epochs'
  BY AsksWk DEF FlagInv, Epochs, AskGrant
<1>3. Fresh' /\ Finished'
  BY AsksWk, Typed DEF FlagInv, Fresh, Finished, AskGrant
<1>4. RecoveringIsRetry'
  BY AsksWk DEF FlagInv, RecoveringIsRetry, Mine, Current, AskGrant
<1>5. UndoIsAlone'
  BY AsksWk DEF FlagInv, UndoIsAlone, CallExists, Mine, Current, AskGrant, WorkerUnch
<1>6. Wanted'
  <2>1. CallExists' = CallExists
    BY AsksWk DEF CallExists, Mine, Current, AskGrant
  <2> QED BY <2>1 DEF FlagInv, Wanted, Faithful, AskGrant, WorkerUnch
<1> QED BY <1>1, <1>2, <1>3, <1>4, <1>5, <1>6 DEF FlagInv

LEMMA RefreshFlag ==
  ASSUME Types, FlagInv, Refresh
  PROVE  FlagInv'
<1>1. Stopped' /\ Kinded' /\ Unwanted'
  BY DEF FlagInv, Stopped, Kinded, Unwanted, Refresh, WorkerUnch
<1>2. Epochs'
  BY AsksWk DEF FlagInv, Epochs, Refresh
<1>3. Fresh' /\ Finished'
  BY AsksWk, Typed DEF FlagInv, Fresh, Finished, Refresh
<1>4. RecoveringIsRetry'
  BY AsksWk DEF FlagInv, RecoveringIsRetry, Mine, Current, Refresh
<1>5. UndoIsAlone'
  BY AsksWk DEF FlagInv, UndoIsAlone, CallExists, Mine, Current, Refresh, WorkerUnch
<1>6. Wanted'
  <2>1. CallExists' = CallExists
    BY AsksWk DEF CallExists, Mine, Current, Refresh
  <2> QED BY <2>1 DEF FlagInv, Wanted, Faithful, Refresh, WorkerUnch
<1> QED BY <1>1, <1>2, <1>3, <1>4, <1>5, <1>6 DEF FlagInv

LEMMA ConnectFlag ==
  ASSUME Types, FlagInv, Connect
  PROVE  FlagInv'
<1>1. Epochs' /\ Stopped' /\ Kinded' /\ Unwanted' /\ RecoveringIsRetry'
  BY Typed DEF FlagInv, Epochs, Stopped, Kinded, Unwanted, RecoveringIsRetry, Mine, Current, Connect, WkGoto,
     UpdateLink, WorkerUnch, Wks, Wifis
<1>2. Fresh' /\ Finished'
  BY Typed DEF FlagInv, Fresh, Finished, RecoveringIsRetry, Connect, WkGoto, Wks
<1>3. UndoIsAlone'
  BY Typed DEF FlagInv, UndoIsAlone, Epochs, Kinded, CallExists, Mine, Current, Connect, WkAt, WkGoto, WorkerUnch, Wks
<1>4. Wanted'
  <2>1. UNCHANGED <<ctl, grants, brd, cld>> /\ wk.pc = "connect"
    BY DEF Connect, WkAt, WorkerUnch
  <2>2. wifi'.wanted = wifi.wanted /\ wk'.grant = wk.grant /\ wk'.pc \in {"tls", "unready"}
    BY Typed DEF Connect, UpdateLink, WkGoto, Wifis, Wks
  <2>3. CallExists' <=> CallExists
    BY <2>1, <2>2 DEF CallExists, Mine, Current
  <2> QED BY <2>1, <2>2, <2>3 DEF FlagInv, Wanted, Faithful
<1> QED BY <1>1, <1>2, <1>3, <1>4 DEF FlagInv

LEMMA ConnectedFlag ==
  ASSUME Types, FlagInv, Connected
  PROVE  FlagInv'
<1>1. Stopped' /\ Kinded' /\ Unwanted'
  BY DEF FlagInv, Stopped, Kinded, Unwanted, Connected, WorkerUnch
<1>2. Epochs'
  BY ConnectedWk DEF FlagInv, Epochs, Connected
<1>3. Fresh' /\ Finished'
  BY ConnectedWk DEF FlagInv, Fresh, Finished, Connected
<1>4. RecoveringIsRetry'
  BY ConnectedWk DEF FlagInv, RecoveringIsRetry, Mine, Current, Connected
<1>5. UndoIsAlone'
  BY ConnectedWk DEF FlagInv, UndoIsAlone, CallExists, Mine, Current, Connected, WorkerUnch
<1>6. Wanted'
  <2>1. CallExists' = CallExists
    BY ConnectedWk DEF CallExists, Mine, Current, Connected
  <2> QED BY <2>1 DEF FlagInv, Wanted, Faithful, Connected, WorkerUnch
<1> QED BY <1>1, <1>2, <1>3, <1>4, <1>5, <1>6 DEF FlagInv

LEMMA LeaveFlag ==
  ASSUME Types, FlagInv, Leave
  PROVE  FlagInv'
<1>1. Epochs' /\ Stopped' /\ Kinded' /\ Unwanted' /\ RecoveringIsRetry'
  BY DEF FlagInv, Epochs, Stopped, Kinded, Unwanted, RecoveringIsRetry, Mine, Current, Leave, WorkerUnch, LeaveLoop
<1>2. Fresh' /\ Finished'
  BY DEF FlagInv, Fresh, Finished, RecoveringIsRetry, Leave, LeaveLoop
<1>3. UndoIsAlone'
  BY DEF FlagInv, UndoIsAlone, Epochs, Kinded, CallExists, Mine, Current, Leave, Looping, WkAt, WorkerUnch, LeaveLoop
<1>4. Wanted'
  BY DEF FlagInv, Wanted, Faithful, Epochs, Stopped, Kinded, Unwanted, UndoIsAlone, CallExists, Mine, Current, Leave,
     Looping, WkAt, WorkerUnch, LeaveLoop
<1> QED BY <1>1, <1>2, <1>3, <1>4 DEF FlagInv

LEMMA UnreadyFlag ==
  ASSUME Types, FlagInv, Unready
  PROVE  FlagInv'
<1>1. Epochs' /\ Stopped' /\ Kinded' /\ Unwanted' /\ RecoveringIsRetry'
  BY DEF FlagInv, Epochs, Stopped, Kinded, Unwanted, RecoveringIsRetry, Mine, Current, Unready, WkGoto, WorkerUnch
<1>2. Fresh' /\ Finished'
  BY DEF FlagInv, Fresh, Finished, RecoveringIsRetry, Unready, WkGoto
<1>3. UndoIsAlone'
  BY DEF FlagInv, UndoIsAlone, Epochs, Kinded, CallExists, Mine, Current, Unready, WkAt, WkGoto, WorkerUnch
<1>4. Wanted'
  BY DEF FlagInv, Wanted, Faithful, Epochs, Stopped, Kinded, Unwanted, UndoIsAlone, CallExists, Mine, Current,
     Unready, WkAt, WkGoto, WorkerUnch
<1> QED BY <1>1, <1>2, <1>3, <1>4 DEF FlagInv

LEMMA DecideFlag ==
  ASSUME Types, FlagInv, Decide
  PROVE  FlagInv'
<1>1. Epochs' /\ Stopped' /\ Kinded' /\ Unwanted'
  BY DEF FlagInv, Epochs, Stopped, Kinded, Unwanted, Decide, WorkerUnch
<1>2. Fresh' /\ Finished'
  BY DEF FlagInv, Fresh, Finished, RecoveringIsRetry, Decide
<1>3. RecoveringIsRetry'
  BY Typed DEF FlagInv, Fresh, Finished, RecoveringIsRetry, Mine, Current, Decide, Ctls
<1>4. UndoIsAlone'
  BY DEF FlagInv, UndoIsAlone, Epochs, Kinded, CallExists, Mine, Current, Decide, WkAt, WorkerUnch
<1>5. Wanted'
  BY DEF FlagInv, Wanted, Faithful, Epochs, Stopped, Kinded, Unwanted, UndoIsAlone, CallExists, Mine, Current, Decide,
     WkAt, WorkerUnch
<1> QED BY <1>1, <1>2, <1>3, <1>4, <1>5 DEF FlagInv

LEMMA ReportFlag ==
  ASSUME Types, FlagInv, Report
  PROVE  FlagInv'
<1>1. Epochs' /\ Stopped' /\ Kinded' /\ Unwanted' /\ RecoveringIsRetry'
  BY DEF FlagInv, Epochs, Stopped, Kinded, Unwanted, RecoveringIsRetry, Mine, Current, Report, WkGoto, UpdateLink,
     WorkerUnch
<1>2. Fresh' /\ Finished'
  BY DEF FlagInv, Fresh, Finished, RecoveringIsRetry, Report, WkGoto
<1>3. UndoIsAlone'
  BY DEF FlagInv, UndoIsAlone, Epochs, Kinded, CallExists, Mine, Current, Report, WkAt, WkGoto, WorkerUnch
<1>4. Wanted'
  BY DEF FlagInv, Wanted, Faithful, Epochs, Stopped, Kinded, Unwanted, UndoIsAlone, CallExists, Mine, Current, Report,
     WkAt, WkGoto, UpdateLink, WorkerUnch
<1> QED BY <1>1, <1>2, <1>3, <1>4 DEF FlagInv

LEMMA ReleaseFlag ==
  ASSUME Types, FlagInv, Release
  PROVE  FlagInv'
<1>1. Epochs' /\ Stopped' /\ Kinded' /\ Unwanted' /\ RecoveringIsRetry'
  BY DEF FlagInv, Epochs, Stopped, Kinded, Unwanted, RecoveringIsRetry, Mine, Current, Release, WorkerUnch, Again
<1>2. Fresh' /\ Finished'
  BY DEF FlagInv, Fresh, Finished, RecoveringIsRetry, Release, Again
<1>3. UndoIsAlone'
  BY DEF FlagInv, UndoIsAlone, Epochs, Kinded, CallExists, Mine, Current, Release, WkAt, WorkerUnch, Again
<1>4. Wanted'
  BY DEF FlagInv, Wanted, Faithful, Epochs, Stopped, Kinded, Unwanted, UndoIsAlone, CallExists, Mine, Current,
     Release, WkAt, WorkerUnch, Again
<1> QED BY <1>1, <1>2, <1>3, <1>4 DEF FlagInv

LEMMA BackoffFlag ==
  ASSUME Types, FlagInv, Backoff
  PROVE  FlagInv'
<1>1. Stopped' /\ Kinded' /\ Unwanted'
  BY DEF FlagInv, Stopped, Kinded, Unwanted, Backoff, WorkerUnch, BeginAttempt
<1>2. Epochs'
  BY DEF FlagInv, Epochs, Backoff, BeginAttempt
<1>3. Fresh' /\ Finished'
  BY DEF FlagInv, Fresh, Finished, RecoveringIsRetry, Backoff, BeginAttempt
<1>4. RecoveringIsRetry'
  BY DEF FlagInv, Fresh, Finished, RecoveringIsRetry, Mine, Current, Backoff, BeginAttempt
<1>5. UndoIsAlone'
  BY DEF FlagInv, UndoIsAlone, Epochs, Kinded, CallExists, Mine, Current, Backoff, WkAt, WorkerUnch, BeginAttempt
<1>6. Wanted'
  BY DEF FlagInv, Wanted, Faithful, Epochs, Stopped, Kinded, Unwanted, UndoIsAlone, CallExists, Mine, Current,
     Backoff, WkAt, WorkerUnch, BeginAttempt
<1> QED BY <1>1, <1>2, <1>3, <1>4, <1>5, <1>6 DEF FlagInv

LEMMA FinishGrantFlag ==
  ASSUME Types, FlagInv, FinishGrant
  PROVE  FlagInv'
<1>1. Epochs' /\ Stopped' /\ Kinded'
  BY DEF FlagInv, Epochs, Stopped, Kinded, FinishGrant, WkGoto, WorkerUnch, Finishes
<1>2. Fresh' /\ Finished'
  BY DEF FlagInv, Fresh, Finished, RecoveringIsRetry, FinishGrant, WkGoto, Finishes
<1>3. Unwanted'
  BY DEF FlagInv, Unwanted, FinishGrant, WorkerUnch, Finishes
<1>4. RecoveringIsRetry'
  BY DEF FlagInv, Fresh, Finished, RecoveringIsRetry, FinishGrant, Finishes
<1>5. UndoIsAlone'
  BY DEF FlagInv, UndoIsAlone, Epochs, Kinded, CallExists, FinishGrant, WkGoto, WorkerUnch, Finishes
<1>6. Wanted'
  BY Typed DEF FlagInv, Wanted, Faithful, Epochs, Stopped, Kinded, Unwanted, UndoIsAlone, CallExists, Mine, Current,
     FinishGrant, WkGoto, WorkerUnch, Finishes, Ctls
<1> QED BY <1>1, <1>2, <1>3, <1>4, <1>5, <1>6 DEF FlagInv

LEMMA FreeFlag ==
  ASSUME Types, FlagInv, Free
  PROVE  FlagInv'
<1>1. Stopped' /\ Kinded' /\ Unwanted'
  BY DEF FlagInv, Stopped, Kinded, Unwanted, Free, WorkerUnch
<1>2. Epochs'
  <2>1. wk'.grant.epoch = 0 /\ ctl'.epoch = ctl.epoch
    BY DEF Free, NoGrant
  <2>2. \A a, b \in Nat : a < b => 0 < b
    OBVIOUS
  <2> QED BY <2>1, <2>2, EpochsOf DEF FlagInv, Epochs, Free
<1>3. Fresh' /\ Finished'
  BY DEF FlagInv, Fresh, Finished, RecoveringIsRetry, Free
<1>4. RecoveringIsRetry'
  BY DEF FlagInv, Fresh, Finished, RecoveringIsRetry, Free, WkAt
<1>5. UndoIsAlone'
  BY DEF FlagInv, UndoIsAlone, Epochs, Kinded, CallExists, Free, WorkerUnch
<1>6. Wanted'
  BY DEF FlagInv, Wanted, Faithful, Epochs, Stopped, Kinded, Unwanted, UndoIsAlone, CallExists, Free, WkAt, WorkerUnch
<1> QED BY <1>1, <1>2, <1>3, <1>4, <1>5, <1>6 DEF FlagInv

LEMMA MediaRecoveredFlag ==
  ASSUME Types, FlagInv, MediaRecovered
  PROVE  FlagInv'
<1>1. Epochs' /\ Stopped' /\ Kinded' /\ Unwanted' /\ UndoIsAlone' /\ Wanted'
  BY DEF FlagInv, Epochs, Stopped, Kinded, Unwanted, UndoIsAlone, Wanted, Mine, Current, CallExists, Faithful,
     MediaRecovered, MedUnch
<1>2. Fresh' /\ Finished'
  BY DEF FlagInv, Fresh, Finished, RecoveringIsRetry, MediaRecovered, MedUnch
<1>3. RecoveringIsRetry'
  BY DEF FlagInv, Fresh, Finished, RecoveringIsRetry, MediaRecovered
<1> QED BY <1>1, <1>2, <1>3 DEF FlagInv

LEMMA ConnectFailsFlag ==
  ASSUME Types, FlagInv, NEW again \in BOOLEAN, ConnectFails(again)
  PROVE  FlagInv'
<1>1. Epochs' /\ Stopped' /\ Kinded' /\ Unwanted' /\ RecoveringIsRetry'
  BY DEF FlagInv, Epochs, Stopped, Kinded, Unwanted, RecoveringIsRetry, Mine, Current, ConnectFails, WorkerUnch
<1>2. Fresh' /\ Finished'
  BY DEF FlagInv, Fresh, Finished, RecoveringIsRetry, ConnectFails
<1>3. UndoIsAlone'
  BY DEF FlagInv, UndoIsAlone, Epochs, Kinded, CallExists, Mine, Current, ConnectFails, WkAt, WorkerUnch
<1>4. Wanted'
  BY DEF FlagInv, Wanted, Faithful, Epochs, Stopped, Kinded, Unwanted, UndoIsAlone, CallExists, Mine, Current,
     ConnectFails, WkAt, WorkerUnch
<1> QED BY <1>1, <1>2, <1>3, <1>4 DEF FlagInv

LEMMA DropFlag ==
  ASSUME Types, FlagInv, NEW again \in BOOLEAN, Drop(again)
  PROVE  FlagInv'
<1>1. Epochs' /\ Stopped' /\ Kinded' /\ Unwanted' /\ RecoveringIsRetry'
  BY DEF FlagInv, Epochs, Stopped, Kinded, Unwanted, RecoveringIsRetry, Mine, Current, Drop, WorkerUnch, LeaveLoop
<1>2. Fresh' /\ Finished'
  BY DEF FlagInv, Fresh, Finished, RecoveringIsRetry, Drop, LeaveLoop
<1>3. UndoIsAlone'
  BY DEF FlagInv, UndoIsAlone, Epochs, Kinded, CallExists, Mine, Current, Drop, WkAt, WorkerUnch, LeaveLoop
<1>4. Wanted'
  BY DEF FlagInv, Wanted, Faithful, Epochs, Stopped, Kinded, Unwanted, UndoIsAlone, CallExists, Mine, Current, Drop,
     WkAt, WorkerUnch, LeaveLoop
<1> QED BY <1>1, <1>2, <1>3, <1>4 DEF FlagInv

LEMMA FlagAside ==
  ASSUME Types, FlagInv, NEW msg \in {"ready", "fatal"},
         StreamStart \/ StreamWrite \/ StreamEnd \/ FlushTx \/ Stable \/ MediaTakes \/ MediaReady
         \/ MediaSays \/ MediaExits
         \/ Receive(msg)
  PROVE  FlagInv'
<1>1. CASE StreamStart
  BY <1>1, FlagKept DEF StreamStart
<1>2. CASE StreamWrite
  BY <1>2, FlagKept DEF StreamWrite
<1>3. CASE StreamEnd
  BY <1>3, FlagKept, Typed DEF StreamEnd, Ctls
<1>4. CASE FlushTx
  BY <1>4, FlagKept, FlushKeeps
<1>5. CASE Stable
  BY <1>5, FlagKept DEF Stable, WorkerUnch
<1>6. CASE MediaTakes
  BY <1>6, FlagKept DEF MediaTakes, MedUnch
<1>7. CASE MediaReady
  BY <1>7, FlagKept DEF MediaReady, MedUnch
<1>8. CASE MediaSays
  BY <1>8, FlagKept DEF MediaSays, UpdateLink, MedUnch
<1>9. CASE MediaExits
  BY <1>9, FlagKept DEF MediaExits, MedUnch
<1>10. CASE Receive(msg)
  BY <1>10, FlagKept DEF Receive, WorkerUnch
<1> QED BY <1>1, <1>2, <1>3, <1>4, <1>5, <1>6, <1>7, <1>8, <1>9, <1>10

LEMMA FlagStep ==
  ASSUME Types, FlagInv, [Next]_vars
  PROVE  FlagInv'
<1>1. CASE Board
  BY <1>1, RequestSaysFlag, RequestAskedFlag, RequestRefusedFlag, RequestQueuesFlag, RequestFailsFlag,
     RequestUndoneFlag, EndCancelsFlag, BoardUpdatesFlag, StopSignalsFlag, StopJoinedFlag DEF Board
<1>2. CASE BoardCalls
  BY <1>2, RequestFlag, EndFlag, FlagAside, StreamCutFlag, StopFlag, StartFlag DEF BoardCalls
<1>3. CASE Cloud
  BY <1>3, OfflineCancelsFlag, CloudUpdatesFlag DEF Cloud
<1>4. CASE Offline
  BY <1>4, OfflineFlag
<1>5. CASE Online
  BY <1>5, OnlineFlag
<1>6. CASE Mqtt
  BY <1>6, OfferQueuesFlag, OfferRefusedFlag DEF Mqtt
<1>7. CASE Offer
  BY <1>7, OfferFlag
<1>8. CASE Worker
  BY <1>8, DequeueFlag, ExitFlag, CheckFlag, AskGrantFlag, RefreshFlag, ConnectFlag, ConnectedFlag, FlagAside,
     LeaveFlag, ConnectFailsFlag, UnreadyFlag, DecideFlag, ReportFlag, ReleaseFlag, BackoffFlag, FinishGrantFlag,
     FreeFlag DEF Worker
<1>9. CASE Server
  BY <1>9, FlagAside, DropFlag DEF Server
<1>10. CASE Media
  BY <1>10, FlagAside, MediaRecoveredFlag DEF Media
<1>11. CASE UNCHANGED vars
  BY <1>11, FlagKept DEF vars
<1> QED BY <1>1, <1>2, <1>3, <1>4, <1>5, <1>6, <1>7, <1>8, <1>9, <1>10, <1>11 DEF Next

-----------------------------------------------------------------------------
(* The promises of LiveCall: what they need beyond the four parts *)

\* A connection has its media task from the hello until the worker has joined it.
LineIsMedia == (med.pc # "none" => wk.pc \in {"loop", "unready"}) /\ (wk.pc = "loop" => med.pc # "none")
\* With a token of the platform in hand the worker has a session to give back.
HeldWhileNeeded ==
  wk.pc \in {"connect", "tls", "loop", "unready", "reset", "report", "release"}
  /\ wk.grant.kind = "platform" /\ wk.grant.token # "none" => srv.held /\ ~srv.lost
\* A board asks for all its calls in one way.
OneKind ==
  /\ \A i \in DOMAIN grants : grants[i].kind = brd.kind
  /\ wk.pc \notin {"none", "wait"} => wk.grant.kind = brd.kind
\* A call that is asked for has no token yet.
Bare ==
  /\ \A i \in DOMAIN grants : grants[i].kind = "platform" => grants[i].token = "none"
  /\ wk.pc \in {"check", "grant", "refresh"} /\ wk.grant.kind = "platform" => wk.grant.token = "none"
PromiseInv == LineIsMedia /\ HeldWhileNeeded /\ OneKind /\ Bare

LEMMA PromiseKept ==
  ASSUME PromiseInv, grants' = grants \/ grants' = <<>>, wk'.pc = wk.pc, wk'.grant = wk.grant, med'.pc = med.pc,
         srv'.held = srv.held, srv'.lost = srv.lost, brd'.kind = brd.kind
  PROVE  PromiseInv'
BY DEF PromiseInv, LineIsMedia, HeldWhileNeeded, OneKind, Bare

LEMMA BrdMoves ==
  ASSUME Types, NEW pc, BrdGoto(pc)
  PROVE  brd'.kind = brd.kind
BY DEF BrdGoto

LEMMA QueuesPromise ==
  ASSUME Types, PromiseInv, NEW kind, NEW token, QueueGrant(kind, token), kind = brd.kind, brd'.kind = brd.kind,
         kind = "platform" => token = "none",
         UNCHANGED <<med, srv>>
  PROVE  PromiseInv'
<1>1. wk'.grant = wk.grant /\ (wk'.pc = wk.pc \/ (wk.pc = "none" /\ wk'.pc = "wait"))
  BY QueuesWk
<1>2. LineIsMedia' /\ HeldWhileNeeded'
  BY <1>1 DEF PromiseInv, LineIsMedia, HeldWhileNeeded
<1>3. \A i \in DOMAIN grants' : grants'[i].kind = kind /\ grants'[i].token = token
  BY DEF QueueGrant
<1> QED BY <1>1, <1>2, <1>3 DEF PromiseInv, OneKind, Bare

LEMMA BoardPromise ==
  ASSUME Types, FlagInv, PromiseInv, Board \/ BoardCalls
  PROVE  PromiseInv'
<1>1. CASE Request \/ RequestRefused \/ End \/ Stop \/ StreamStart \/ StreamWrite \/ StreamEnd \/ Start
  <2>1. UNCHANGED <<grants, wk, med, srv>>
    BY <1>1 DEF Request, RequestRefused, End, Stop, StreamStart, StreamWrite, StreamEnd, Start
  <2>2. brd'.kind = brd.kind
    BY <1>1, Typed DEF Request, RequestRefused, End, Stop, StreamStart, StreamWrite, StreamEnd, Start, BrdGoto, Brds
  <2> QED BY <2>1, <2>2, PromiseKept
<1>2. CASE RequestSays \/ RequestAsked \/ RequestUndone \/ BoardUpdates \/ StopSignals
  <2>1. UNCHANGED <<grants, wk, med, srv>>
    BY <1>2 DEF RequestSays, RequestAsked, RequestUndone, BoardUpdates, StopSignals
  <2>2. \E pc : BrdGoto(pc)
    BY <1>2 DEF RequestSays, RequestAsked, RequestUndone, BoardUpdates, StopSignals
  <2> QED BY <2>1, <2>2, BrdMoves, PromiseKept
<1>3. CASE RequestQueues
  <2>1. brd.kind = "platform" /\ brd'.kind = brd.kind
    BY <1>3 DEF RequestQueues, FlagInv, Kinded, BrdAt
  <2> QED BY <1>3, <2>1, QueuesPromise DEF RequestQueues
<1>4. CASE RequestFails \/ EndCancels \/ StreamCut \/ StopJoined
  <2>1. UNCHANGED <<wk, med, srv>> /\ grants' = <<>>
    BY <1>4 DEF RequestFails, EndCancels, StreamCut, StopJoined, Cancel
  <2>2. brd'.kind = brd.kind
    BY <1>4, Typed DEF RequestFails, EndCancels, StreamCut, StopJoined, BrdGoto, Brds
  <2> QED BY <2>1, <2>2, PromiseKept
<1> QED BY <1>1, <1>2, <1>3, <1>4 DEF Board, BoardCalls

LEMMA OthersPromise ==
  ASSUME Types, FlagInv, PromiseInv, Cloud \/ Offline \/ Online \/ Mqtt \/ Offer
  PROVE  PromiseInv'
<1>1. CASE Offline \/ Online \/ CloudUpdates \/ Offer \/ OfferRefused
  BY <1>1, PromiseKept DEF Offline, Online, CloudUpdates, Offer, OfferRefused
<1>2. CASE OfflineCancels
  BY <1>2, PromiseKept DEF OfflineCancels, Cancel
<1>3. CASE OfferQueues
  <2>1. brd.kind = "offer" /\ brd'.kind = brd.kind
    BY <1>3 DEF OfferQueues, FlagInv, Kinded
  <2> QED BY <1>3, <2>1, QueuesPromise DEF OfferQueues
<1> QED BY <1>1, <1>2, <1>3 DEF Cloud, Mqtt

LEMMA MediaPromise ==
  ASSUME Types, PromiseInv, Media \/ Server
  PROVE  PromiseInv'
<1>1. CASE MediaTakes \/ MediaReady \/ MediaSays \/ MediaRecovered \/ MediaExits
  <2>1. med.pc # "none" /\ med'.pc # "none" /\ UNCHANGED <<grants, wk, brd>> /\ srv'.held = srv.held /\ srv'.lost = srv.lost
    BY <1>1, Typed DEF MediaTakes, MediaReady, MediaSays, MediaRecovered, MediaExits, MedUnch, Meds, Srvs
  <2> QED BY <2>1 DEF PromiseInv, LineIsMedia, HeldWhileNeeded, OneKind, Bare
<1>2. CASE Stable
  BY <1>2, PromiseKept, Typed DEF Stable, WorkerUnch, Wks
<1>3. ASSUME NEW again \in BOOLEAN, Drop(again) PROVE PromiseInv'
  <2>1. wk.pc = "loop" /\ wk'.pc = "unready" /\ wk'.grant = wk.grant /\ med'.pc = med.pc /\ UNCHANGED <<grants, srv, brd>>
    BY <1>3, Typed DEF Drop, WkAt, LeaveLoop, WorkerUnch, Wks, Meds
  <2> QED BY <2>1 DEF PromiseInv, LineIsMedia, HeldWhileNeeded, OneKind, Bare
<1>4. ASSUME NEW msg \in {"ready", "fatal"}, Receive(msg) PROVE PromiseInv'
  BY <1>4, PromiseKept, Typed DEF Receive, WorkerUnch, Meds
<1> QED BY <1>1, <1>2, <1>3, <1>4 DEF Media, Server

LEMMA WorkerPromise ==
  ASSUME Types, GrantInv, PromiseInv, Worker
  PROVE  PromiseInv'
<1>k. wk.grant \in Grants /\ (wk.pc \notin {"none", "wait"} => wk.grant.kind = brd.kind)
  BY Typed DEF Wks, PromiseInv, OneKind
<1>m. ASSUME UNCHANGED <<grants, srv, brd>>, med'.pc = med.pc, wk'.grant = wk.grant, wk.pc \notin {"none", "wait", "loop"},
             wk'.pc # "loop", med.pc # "none" => wk'.pc = "unready", 
             wk'.pc \in {"connect", "tls", "loop", "unready", "reset", "report", "release"} =>
               wk.pc \in {"connect", "tls", "loop", "unready", "reset", "report", "release"} \/ wk.grant.token = "none"
                 \/ wk.grant.kind # "platform",
             wk'.pc \in {"check", "grant", "refresh"} => wk.pc \in {"check", "grant", "refresh"}
      PROVE  PromiseInv'
  BY <1>m DEF PromiseInv, LineIsMedia, HeldWhileNeeded, OneKind, Bare
<1>n. wk.pc \notin {"loop", "unready"} => med.pc = "none"
  BY DEF PromiseInv, LineIsMedia
<1>1. CASE Dequeue
  <2>1. wk.pc = "wait" /\ wk'.pc = "check" /\ wk'.grant = grants[1] /\ 1 \in DOMAIN grants /\ grants' = <<>>
        /\ UNCHANGED <<med, srv, brd>>
    BY <1>1, Typed DEF Dequeue, WkAt, WorkerUnch, Wks
  <2> QED BY <2>1 DEF PromiseInv, LineIsMedia, HeldWhileNeeded, OneKind, Bare
<1>2. CASE Exit
  <2>1. wk.pc = "wait" /\ wk'.pc = "none" /\ UNCHANGED <<grants, med, srv, brd>>
    BY <1>2, Typed DEF Exit, WkAt, WkGoto, WorkerUnch, Wks
  <2> QED BY <2>1 DEF PromiseInv, LineIsMedia, HeldWhileNeeded, OneKind, Bare
<1>3. CASE Check
  <2>1. wk.pc = "check" /\ wk'.pc \in {"grant", "connect", "wait"} /\ wk'.grant = wk.grant
        /\ (wk'.pc = "connect" => wk.grant.kind # "platform") /\ UNCHANGED <<grants, med, srv, brd>>
    BY <1>3, BeginsWk, <1>k, Typed DEF Check, WkAt, WkGoto, WorkerUnch, Wks
  <2> QED BY <1>m, <1>n, <2>1
<1>4. CASE AskGrant \/ Refresh
  <2>1. wk.pc \in {"grant", "refresh"} /\ wk'.grant.kind = wk.grant.kind /\ UNCHANGED <<grants, med, brd>>
    BY <1>4, AsksWk DEF AskGrant, Refresh, WorkerUnch
  <2>2. CASE Granted
    <3>1. wk'.pc = "connect" /\ srv'.held /\ ~srv'.lost
      BY <2>2, GrantedWk, Typed DEF Granted, Srvs
    <3> QED BY <1>k, <1>n, <2>1, <3>1 DEF PromiseInv, LineIsMedia, HeldWhileNeeded, OneKind, Bare
  <2>3. CASE GrantUnusable
    BY <1>k, <1>n, <2>1, <2>3, UnusableWk DEF PromiseInv, LineIsMedia, HeldWhileNeeded, OneKind, Bare
  <2>4. CASE ~Granted /\ ~GrantUnusable
    <3>1. wk'.pc \in {"unready", "refresh"} /\ wk'.grant = wk.grant
      BY <1>4, <2>4, Typed DEF AskGrant, Refresh, GrantLost, GrantDenied, GrantBusy, WkGoto, Wks
    <3>2. wk.grant.token = "none" \/ wk.grant.kind # "platform"
      BY <2>1 DEF PromiseInv, Bare
    <3> QED BY <1>k, <1>n, <2>1, <3>1, <3>2 DEF PromiseInv, LineIsMedia, HeldWhileNeeded, OneKind, Bare
  <2> QED BY <2>2, <2>3, <2>4
<1>5. CASE Connect
  <2>1. wk.pc = "connect" /\ wk'.pc \in {"tls", "unready"} /\ wk'.grant = wk.grant /\ UNCHANGED <<grants, med, srv, brd>>
    BY <1>5, Typed DEF Connect, WkAt, WkGoto, WorkerUnch, Wks
  <2> QED BY <1>m, <1>n, <2>1
<1>6. CASE Connected
  <2>1. wk.pc = "tls" /\ wk'.pc \in {"loop", "unready"} /\ wk'.grant.kind = wk.grant.kind /\ UNCHANGED <<grants, srv, brd>>
    BY <1>6, ConnectedWk DEF Connected, WorkerUnch
  <2>2. wk.grant.token # "none"
    BY <2>1 DEF GrantInv, Tokens
  <2>3. wk'.pc = "loop" => med'.pc # "none"
    <3>1. CASE Hello
      BY <3>1 DEF Hello
    <3>2. CASE HelloFails
      <4>1. wk' = [wk EXCEPT !.pc = "unready", !.retryable = TRUE, !.grant = [wk.grant EXCEPT !.token = "shown"]]
        BY <3>2 DEF HelloFails
      <4> QED BY <4>1, Typed DEF Wks
    <3>3. CASE NoHello
      BY <3>3, Typed DEF NoHello, WkGoto, Wks
    <3> QED BY <1>6, <3>1, <3>2, <3>3 DEF Connected
  <2>4. wk'.pc = "unready" => med'.pc = "none"
    BY <1>6, <1>n, <2>1, ConnectedWk
  <2> QED BY <1>k, <2>1, <2>2, <2>3, <2>4 DEF PromiseInv, LineIsMedia, HeldWhileNeeded, OneKind, Bare
<1>7. CASE FlushTx
  BY <1>7, PromiseKept, FlushKeeps
<1>8. CASE Leave
  <2>1. wk.pc = "loop" /\ wk'.pc = "unready" /\ wk'.grant = wk.grant /\ med'.pc = med.pc /\ UNCHANGED <<grants, srv, brd>>
    BY <1>8, Typed DEF Leave, Looping, WkAt, LeaveLoop, WorkerUnch, Wks, Meds
  <2> QED BY <2>1 DEF PromiseInv, LineIsMedia, HeldWhileNeeded, OneKind, Bare
<1>9. ASSUME NEW again \in BOOLEAN, ConnectFails(again) PROVE PromiseInv'
  <2>1. wk.pc = "tls" /\ wk'.pc = "unready" /\ wk'.grant = wk.grant /\ UNCHANGED <<grants, med, srv, brd>>
    BY <1>9, Typed DEF ConnectFails, WkAt, WorkerUnch, Wks
  <2> QED BY <1>m, <1>n, <2>1
<1>10. CASE Unready
  <2>1. wk.pc = "unready" /\ wk'.pc = "reset" /\ wk'.grant = wk.grant /\ med'.pc = "none" /\ UNCHANGED <<grants, srv, brd>>
    BY <1>10, Typed DEF Unready, WkAt, WkGoto, WorkerUnch, Wks
  <2> QED BY <2>1 DEF PromiseInv, LineIsMedia, HeldWhileNeeded, OneKind, Bare
<1>11. CASE Decide
  <2>1. wk.pc = "reset" /\ wk'.pc = "report" /\ wk'.grant = wk.grant /\ UNCHANGED <<grants, med, srv, brd>>
    BY <1>11, Typed DEF Decide, WkAt, WorkerUnch, Wks
  <2> QED BY <1>m, <1>n, <2>1
<1>12. CASE Report
  <2>1. wk.pc = "report" /\ wk'.pc = "release" /\ wk'.grant = wk.grant /\ UNCHANGED <<grants, med, srv, brd>>
    BY <1>12, Typed DEF Report, WkAt, WkGoto, WorkerUnch, Wks
  <2> QED BY <1>m, <1>n, <2>1
<1>13. CASE Release
  <2>1. wk.pc = "release" /\ wk'.pc \in {"backoff", "finish"} /\ wk'.grant = wk.grant /\ UNCHANGED <<grants, med, brd>>
    BY <1>13, Typed DEF Release, Again, WkAt, WorkerUnch, Wks
  <2> QED BY <1>k, <1>n, <2>1 DEF PromiseInv, LineIsMedia, HeldWhileNeeded, OneKind, Bare
<1>14. CASE Backoff
  <2>1. wk.pc = "backoff" /\ wk'.grant.kind = wk.grant.kind /\ wk'.pc \in {"grant", "connect", "finish"}
        /\ (wk'.pc = "connect" => wk.grant.kind # "platform") /\ (wk'.pc # "finish" => wk'.grant.token = "none")
        /\ UNCHANGED <<grants, med, srv, brd>>
    <3>1. [wk.grant EXCEPT !.token = "none"] \in Grants /\ [wk.grant EXCEPT !.token = "none"].kind = wk.grant.kind
           /\ [wk.grant EXCEPT !.token = "none"].token = "none"
      BY <1>k DEF Grants
    <3> QED BY <1>14, <3>1, BeginsWk, Typed DEF Backoff, WkAt, WorkerUnch, Wks
  <2> QED BY <1>k, <1>n, <2>1 DEF PromiseInv, LineIsMedia, HeldWhileNeeded, OneKind, Bare
<1>15. CASE FinishGrant
  <2>1. wk.pc = "finish" /\ wk'.pc = "free" /\ wk'.grant = wk.grant /\ UNCHANGED <<grants, med, srv, brd>>
    BY <1>15, Typed DEF FinishGrant, WkAt, WkGoto, WorkerUnch, Wks
  <2> QED BY <1>m, <1>n, <2>1
<1>16. CASE Free
  <2>1. wk.pc = "free" /\ wk'.pc = "wait" /\ UNCHANGED <<grants, med, srv, brd>>
    BY <1>16, Typed DEF Free, WkAt, WorkerUnch, Wks
  <2> QED BY <1>n, <2>1 DEF PromiseInv, LineIsMedia, HeldWhileNeeded, OneKind, Bare
<1> QED BY <1>1, <1>2, <1>3, <1>4, <1>5, <1>6, <1>7, <1>8, <1>9, <1>10, <1>11, <1>12, <1>13, <1>14, <1>15, <1>16 DEF Worker

\* Only a line that is open takes packets.
ReadyIsLine == ctl.ready => med.pc # "none"

LEMMA MediaStays ==
  ASSUME Types, Next, ~Unready
  PROVE  med'.pc = "none" => med.pc = "none"
<1>1. CASE Board \/ BoardCalls
  BY <1>1 DEF Board, BoardCalls, RequestSays, RequestAsked, RequestRefused, RequestQueues, RequestFails, RequestUndone,
     EndCancels, BoardUpdates, StopSignals, StopJoined, Request, End, StreamStart, StreamWrite, StreamEnd, StreamCut, Stop, Start
<1>2. CASE Cloud \/ Offline \/ Online \/ Mqtt \/ Offer
  BY <1>2 DEF Cloud, OfflineCancels, CloudUpdates, Offline, Online, Mqtt, OfferQueues, OfferRefused, Offer
<1>3. CASE Media
  BY <1>3, Typed DEF Media, MediaTakes, MediaReady, MediaSays, MediaRecovered, MediaExits, Meds
<1>4. CASE Server
  <2>1. CASE Stable
    BY <2>1 DEF Stable
  <2>2. ASSUME NEW again \in BOOLEAN, Drop(again) PROVE med'.pc = med.pc
    BY <2>2, Typed DEF Drop, LeaveLoop, Meds
  <2>3. ASSUME NEW msg \in {"ready", "fatal"}, Receive(msg) PROVE med'.pc = med.pc
    BY <2>3, Typed DEF Receive, Meds
  <2> QED BY <1>4, <2>1, <2>2, <2>3 DEF Server
<1>5. CASE Worker
  <2>1. CASE Leave \/ Connected
    BY <2>1, Typed DEF Leave, LeaveLoop, Connected, Hello, HelloFails, NoHello, Meds
  <2>2. CASE Dequeue \/ Exit \/ Check \/ AskGrant \/ Refresh \/ Connect \/ FlushTx \/ Decide \/ Report
    BY <2>2, FlushKeeps DEF Dequeue, Exit, Check, AskGrant, Refresh, Connect, Decide, Report
  <2>3. CASE Release \/ Backoff \/ FinishGrant \/ Free
    BY <2>3 DEF Release, Backoff, FinishGrant, Free
  <2>4. ASSUME NEW again \in BOOLEAN, ConnectFails(again) PROVE med'.pc = med.pc
    BY <2>4 DEF ConnectFails
  <2> QED BY <1>5, <2>1, <2>2, <2>3, <2>4 DEF Worker
<1> QED BY <1>1, <1>2, <1>3, <1>4, <1>5 DEF Next

LEMMA ReadyComes ==
  ASSUME Types, Next, ~MediaReady
  PROVE  ctl'.ready => ctl.ready
<1>1. CASE Board
  BY <1>1, Typed DEF Board, RequestSays, RequestAsked, RequestRefused, RequestQueues, RequestFails, RequestUndone,
     EndCancels, BoardUpdates, StopSignals, StopJoined, QueueGrant, Cancel, Ctls
<1>2. CASE BoardCalls
  BY <1>2, Typed DEF BoardCalls, Request, End, StreamStart, StreamWrite, StreamEnd, StreamCut, Stop, Start, Cancel, Ctls
<1>3. CASE Cloud \/ Offline \/ Online \/ Mqtt \/ Offer
  BY <1>3, Typed DEF Cloud, OfflineCancels, CloudUpdates, Offline, Online, Mqtt, OfferQueues, OfferRefused, Offer,
     QueueGrant, Cancel, Ctls
<1>4. CASE Media
  BY <1>4, Typed DEF Media, MediaTakes, MediaSays, MediaRecovered, MediaExits, Ctls
<1>5. CASE Server
  <2>1. CASE Stable
    BY <2>1 DEF Stable
  <2>2. ASSUME NEW again \in BOOLEAN, Drop(again) PROVE ctl' = ctl
    BY <2>2 DEF Drop, LeaveLoop
  <2>3. ASSUME NEW msg \in {"ready", "fatal"}, Receive(msg) PROVE ctl' = ctl
    BY <2>3 DEF Receive
  <2> QED BY <1>5, <2>1, <2>2, <2>3 DEF Server
<1>6. CASE Worker
  <2>1. CASE Exit \/ Check \/ Unready \/ Decide \/ FinishGrant \/ Free
    BY <2>1, Typed DEF Exit, Check, Unready, Decide, FinishGrant, Free, Ctls
  <2>2. CASE Dequeue \/ AskGrant \/ Refresh \/ Connect \/ Connected \/ FlushTx \/ Leave \/ Report
    BY <2>2, FlushKeeps DEF Dequeue, AskGrant, Refresh, Connect, Connected, Leave, LeaveLoop, Report
  <2>3. CASE Release \/ Backoff
    BY <2>3 DEF Release, Backoff
  <2>4. ASSUME NEW again \in BOOLEAN, ConnectFails(again) PROVE ctl' = ctl
    BY <2>4 DEF ConnectFails
  <2> QED BY <1>6, <2>1, <2>2, <2>3, <2>4 DEF Worker
<1> QED BY <1>1, <1>2, <1>3, <1>4, <1>5, <1>6 DEF Next

PromiseIInv == IInv /\ PromiseInv /\ ReadyIsLine

LEMMA PromiseStep ==
  ASSUME PromiseIInv, [Next]_vars
  PROVE  PromiseIInv'
<1>1. IInv'
  BY TypeStep, LinkStep, GrantStep, FlagStep DEF IInv, PromiseIInv
<1>2. PromiseInv'
  <2>1. CASE UNCHANGED vars
    BY <2>1, PromiseKept DEF vars, PromiseIInv
  <2> QED BY <2>1, BoardPromise, OthersPromise, MediaPromise, WorkerPromise DEF Next, PromiseIInv, IInv
<1>3. ReadyIsLine'
  <2>1. CASE Unready
    BY <2>1, Typed DEF Unready, ReadyIsLine, PromiseIInv, IInv, Ctls
  <2>2. CASE MediaReady
    BY <2>2, Typed DEF MediaReady, ReadyIsLine, PromiseIInv, IInv, Meds
  <2>3. CASE UNCHANGED vars
    BY <2>3 DEF vars, ReadyIsLine, PromiseIInv
  <2> QED BY <2>1, <2>2, <2>3, MediaStays, ReadyComes DEF ReadyIsLine, PromiseIInv, IInv
<1> QED BY <1>1, <1>2, <1>3 DEF PromiseIInv

-----------------------------------------------------------------------------
(* The steps of LiveCall, from what the mapping of its variables reads *)

SameCall == ctl'.epoch = ctl.epoch /\ (CallExists' <=> CallExists) /\ brd'.kind = brd.kind
SamePermit == HasPermit' <=> HasPermit
SameSession == srv'.held = srv.held /\ srv'.lost = srv.lost
SameWire ==
  /\ med'.pc = "none" <=> med.pc = "none"
  /\ wk'.conn = wk.conn
  /\ med.pc # "none" => wk'.grant.epoch = wk.grant.epoch
SameLine == SameWire /\ wk'.flush = wk.flush
SameReady == ctl'.ready = ctl.ready
SameTold == wifi'.link = "ready" <=> wifi.link = "ready"
PStep == Promise!LNext \/ UNCHANGED Promise!lvars

LEMMA Booleans ==
  /\ CallExists \in BOOLEAN /\ HasPermit \in BOOLEAN
  /\ CallExists' \in BOOLEAN /\ HasPermit' \in BOOLEAN
BY DEF CallExists, HasPermit

LEMMA Sames ==
  /\ SameCall => TheCall' = TheCall
  /\ SamePermit => HasPermit' = HasPermit
  /\ SameSession => TheSession' = TheSession
  /\ SameWire => TheLine' = TheLine
  /\ SameLine => TheLine' = TheLine /\ wk'.flush = wk.flush
  /\ SameTold => (wifi'.link = "ready") = (wifi.link = "ready")
<1>1. SameCall => TheCall' = TheCall
  BY Booleans DEF SameCall, TheCall
<1>2. SamePermit => HasPermit' = HasPermit
  BY Booleans DEF SamePermit
<1>3. SameSession => TheSession' = TheSession
  BY DEF SameSession, TheSession
<1>4. SameWire => TheLine' = TheLine
  BY DEF SameWire, TheLine
<1>5. SameTold => (wifi'.link = "ready") = (wifi.link = "ready")
  BY DEF SameTold
<1> QED BY <1>1, <1>2, <1>3, <1>4, <1>5 DEF SameLine

LEMMA Calls ==
  ASSUME ctl'.epoch = ctl.epoch + 1, brd'.kind = brd.kind
  PROVE  TheCall' = [number |-> TheCall.number + 1, wanted |-> CallExists', offered |-> TheCall.offered]
BY DEF TheCall

LEMMA Stays ==
  ASSUME SameCall, SamePermit, SameSession, SameLine, SameReady, SameTold, tx' = tx
  PROVE  PStep
BY Sames DEF PStep, Promise!lvars, SameReady

LEMMA Tells ==
  ASSUME Types, SameCall, SamePermit, SameSession, SameLine, SameReady, tx' = tx, wifi'.link = "ready" => ctl.ready
  PROVE  PStep
<1>1. ctl.ready \in BOOLEAN
  BY Typed DEF Ctls
<1>2. Promise!Tell
  BY <1>1, Sames DEF Promise!Tell, SameReady
<1> QED BY <1>2 DEF PStep, Promise!LNext

LEMMA AskIs ==
  ASSUME ctl'.epoch = ctl.epoch + 1, CallExists', brd'.kind = brd.kind, HasPermit' <=> brd.kind = "offer", ~ctl'.ready,
         ctl'.ready \in BOOLEAN, SameSession, SameLine, SameTold, tx' = tx
  PROVE  PStep
<1>1. CallExists' = TRUE /\ HasPermit' = (brd.kind = "offer") /\ ctl'.ready = FALSE
  BY Booleans
<1>2. Promise!Ask
  BY <1>1, Sames, Calls DEF Promise!Ask, TheCall
<1> QED BY <1>2 DEF PStep, Promise!LNext

LEMMA CancelIs ==
  ASSUME ctl'.epoch = ctl.epoch + 1, ~CallExists', brd'.kind = brd.kind, ~HasPermit', ~ctl'.ready,
         ctl'.ready \in BOOLEAN, SameSession, SameLine, SameTold, tx' = tx \/ tx' = <<>>
  PROVE  PStep
<1>1. CallExists' = FALSE /\ HasPermit' = FALSE /\ ctl'.ready = FALSE
  BY Booleans
<1>2. Promise!Cancel
  BY <1>1, Sames, Calls DEF Promise!Cancel
<1> QED BY <1>2 DEF PStep, Promise!LNext

LEMMA PermitIs ==
  ASSUME SameCall, SameLine, SameReady, SameTold, tx' = tx,
         CallExists, brd.kind # "offer", med.pc = "none", wifi.link # "ready", srv.held => srv.lost,
         srv'.held, (~srv'.lost /\ HasPermit') \/ SamePermit
  PROVE  PStep
<1>1. CallExists = TRUE /\ (HasPermit' => HasPermit' = TRUE)
  BY Booleans
<1>2. TheSession # "held" /\ (srv'.lost => TheSession' = "lost") /\ (~srv'.lost => TheSession' = "held")
  BY DEF TheSession
<1>3. TheCall.wanted /\ ~TheCall.offered /\ ~TheLine.open
  BY DEF TheCall, TheLine
<1>4. Promise!Permit
  BY <1>1, <1>2, <1>3, Sames DEF Promise!Permit, SameReady
<1> QED BY <1>4 DEF PStep, Promise!LNext

LEMMA LapseIs ==
  ASSUME SameCall, SameSession, SameLine, SameReady, SameTold, tx' = tx, HasPermit, ~HasPermit', med.pc = "none"
  PROVE  PStep
<1>1. HasPermit' = FALSE
  BY Booleans
<1>2. ~TheLine.open
  BY DEF TheLine
<1>3. Promise!Lapse
  BY <1>1, <1>2, Sames DEF Promise!Lapse, SameReady
<1> QED BY <1>3 DEF PStep, Promise!LNext

LEMMA DialIs ==
  ASSUME SameCall, SameSession, SameReady, SameTold, tx' = tx, tx = <<>>,
         CallExists, HasPermit, ~HasPermit', med.pc = "none", med'.pc # "none", wifi.link # "ready",
         brd.kind = "offer" \/ (srv.held /\ ~srv.lost),
         wk'.conn = wk.conn + 1, wk'.flush = wk.flush, wk'.grant.epoch = ctl.epoch
  PROVE  PStep
<1>1. HasPermit' = FALSE
  BY Booleans
<1>2. TheCall.wanted /\ TheCall.number = ctl.epoch /\ ~TheLine.open /\ TheLine.number = wk.conn
  BY DEF TheLine, TheCall
<1>3. TheCall.offered \/ TheSession = "held"
  BY DEF TheCall, TheSession
<1>4. TheLine' = [open |-> TRUE, of |-> TheCall.number, number |-> TheLine.number + 1]
  BY <1>2 DEF TheLine
<1>5. Promise!Dial
  BY <1>1, <1>2, <1>3, <1>4, Sames DEF Promise!Dial, SameReady
<1> QED BY <1>5 DEF PStep, Promise!LNext

LEMMA AnsweredIs ==
  ASSUME SameCall, SamePermit, SameSession, SameLine, SameTold, tx' = tx, ctl'.ready = TRUE, med.pc # "none"
  PROVE  PStep
<1>1. TheLine.open
  BY DEF TheLine
<1>2. Promise!Answered
  BY <1>1, Sames DEF Promise!Answered
<1> QED BY <1>2 DEF PStep, Promise!LNext

LEMMA SpeakIs ==
  ASSUME SameCall, SamePermit, SameSession, SameLine, SameReady, SameTold, ctl.ready, tx' = Append(tx, wk.conn)
  PROVE  PStep
<1>1. TheLine.number = wk.conn
  BY DEF TheLine
<1>2. Promise!Speak
  BY <1>1, Sames DEF Promise!Speak, SameReady
<1> QED BY <1>2 DEF PStep, Promise!LNext

LEMMA BeginIs ==
  ASSUME SameCall, SamePermit, SameSession, SameWire, SameReady, SameTold, tx' = tx,
         ctl.ready = TRUE, CallExists, med.pc # "none", wk.grant.epoch = ctl.epoch,
         tx # <<>>, wk.flush = "no", wk'.flush = "checked"
  PROVE  PStep
<1>1. TheCall.wanted /\ TheLine.open /\ TheLine.of = TheCall.number
  BY DEF TheCall, TheLine
<1>2. Promise!Begin
  BY <1>1, Sames DEF Promise!Begin, SameReady
<1> QED BY <1>2 DEF PStep, Promise!LNext

LEMMA TakeIs ==
  ASSUME SameCall, SamePermit, SameSession, SameWire, SameReady, SameTold, med.pc # "none",
         tx # <<>>, Head(tx) = wk.conn, tx' = Tail(tx), wk.flush = "checked", wk'.flush = "taken"
  PROVE  PStep
<1>1. TheLine.open /\ TheLine.number = wk.conn
  BY DEF TheLine
<1>2. Promise!Take
  BY <1>1, Sames DEF Promise!Take, SameReady
<1> QED BY <1>2 DEF PStep, Promise!LNext

LEMMA SentIs ==
  ASSUME SameCall, SamePermit, SameSession, SameWire, SameReady, SameTold, tx' = tx,
         wk.flush = "taken" \/ (wk.flush = "checked" /\ tx = <<>>), wk'.flush = "no"
  PROVE  PStep
<1>1. Promise!Sent
  BY Sames DEF Promise!Sent, SameReady
<1> QED BY <1>1 DEF PStep, Promise!LNext

LEMMA ForgetIs ==
  ASSUME SameCall, SamePermit, SameSession, SameLine, SameReady, SameTold, med.pc = "none", tx' = <<>>
  PROVE  PStep
<1>1. ~TheLine.open
  BY DEF TheLine
<1>2. Promise!Forget
  BY <1>1, Sames DEF Promise!Forget, SameReady
<1> QED BY <1>2 DEF PStep, Promise!LNext

LEMMA HangUpIs ==
  ASSUME SameCall, SamePermit, SameSession, SameTold, tx' = tx, med.pc # "none", med'.pc = "none", wk'.conn = wk.conn,
         wk'.flush = wk.flush, wk.flush = "no", ctl'.ready = FALSE
  PROVE  PStep
<1>1. TheLine.open /\ TheLine' = [open |-> FALSE, of |-> 0, number |-> TheLine.number]
  BY DEF TheLine
<1>2. Promise!HangUp
  BY <1>1, Sames DEF Promise!HangUp
<1> QED BY <1>2 DEF PStep, Promise!LNext

LEMMA GiveBackIs ==
  ASSUME SameCall, SamePermit, SameLine, SameReady, SameTold, tx' = tx, med.pc = "none", wifi.link # "ready",
         srv.held, ~srv.lost, srv'.held => srv'.lost
  PROVE  PStep
<1>1. ~TheLine.open /\ TheSession = "held" /\ TheSession' \in {"none", "lost"}
  BY DEF TheLine, TheSession
<1>2. Promise!GiveBack
  BY <1>1, Sames DEF Promise!GiveBack, SameReady
<1> QED BY <1>2 DEF PStep, Promise!LNext

LEMMA OverIs ==
  ASSUME SamePermit, SameSession, SameLine, SameReady, SameTold, tx' = tx, tx = <<>>,
         ctl'.epoch = ctl.epoch, brd'.kind = brd.kind,
         CallExists, ~CallExists', ~HasPermit, med.pc = "none", wifi.link # "ready", srv.held => srv.lost
  PROVE  PStep
<1>1. CallExists' = FALSE
  BY Booleans
<1>2. TheCall.wanted /\ ~TheLine.open /\ TheSession # "held"
  BY DEF TheCall, TheLine, TheSession
<1>3. TheCall' = [number |-> TheCall.number, wanted |-> FALSE, offered |-> TheCall.offered]
  BY <1>1 DEF TheCall
<1>4. Promise!Over
  BY <1>2, <1>3, Sames DEF Promise!Over, SameReady
<1> QED BY <1>4 DEF PStep, Promise!LNext

\* What a step that leaves the grants, the epoch and the worker's part in the call alone leaves of the call.
PermitPcs == {"check", "connect", "tls"}

LEMMA CallKept ==
  ASSUME grants' = grants, ctl'.epoch = ctl.epoch, ctl'.run = ctl.run, brd'.kind = brd.kind,
         wk'.grant.epoch = wk.grant.epoch, wk'.pc \in {"none", "wait", "free"} <=> wk.pc \in {"none", "wait", "free"}
  PROVE  SameCall
BY DEF SameCall, CallExists, Mine, Current

LEMMA PermitKept ==
  ASSUME grants' = grants, ctl'.epoch = ctl.epoch, ctl'.run = ctl.run,
         \/ wk'.grant = wk.grant /\ (wk'.pc \in PermitPcs <=> wk.pc \in PermitPcs)
         \/ wk.pc \notin PermitPcs /\ wk'.pc \notin PermitPcs
  PROVE  SamePermit
BY DEF SamePermit, HasPermit, Mine, Current, PermitPcs

LEMMA NoCall ==
  ASSUME Types, Epochs, ctl'.epoch = ctl.epoch + 1, wk'.grant = wk.grant,
         grants' = <<>> \/ grants' = grants
  PROVE  ~CallExists' /\ ~HasPermit'
<1>1. \A a, b \in Nat : a <= b => a # b + 1
  OBVIOUS
<1>2. wk.grant.epoch # ctl.epoch + 1
  BY <1>1, Typed DEF Epochs, Ctls, Wks, Grants
<1>3. ~Mine'
  BY <1>2 DEF Mine, Current
<1>4. ASSUME grants # <<>> PROVE 1 \in DOMAIN grants /\ grants[1] \in Grants
  BY <1>4, Typed
<1>5. ASSUME grants # <<>> PROVE grants[1].epoch # ctl.epoch + 1
  BY <1>1, <1>4, <1>5, Typed DEF Epochs, Ctls, Grants
<1> QED BY <1>3, <1>5 DEF CallExists, HasPermit

-----------------------------------------------------------------------------
(* Every step of the calls is one of LiveCall, or none *)

LEMMA Moves ==
  ASSUME Types, grants' = grants, tx' = tx, brd'.kind = brd.kind, srv'.held = srv.held, srv'.lost = srv.lost,
         ctl'.epoch = ctl.epoch, ctl'.run = ctl.run, ctl'.ready = ctl.ready,
         wk'.conn = wk.conn /\ wk'.flush = wk.flush, wk'.grant.epoch = wk.grant.epoch,
         wk'.pc \in {"none", "wait", "free"} <=> wk.pc \in {"none", "wait", "free"},
         \/ wk'.grant = wk.grant /\ (wk'.pc \in PermitPcs <=> wk.pc \in PermitPcs)
         \/ wk.pc \notin PermitPcs /\ wk'.pc \notin PermitPcs,
         med'.pc = "none" <=> med.pc = "none",
         wifi'.link = wifi.link \/ UpdateLink
  PROVE  PStep
<1>1. SameCall /\ SamePermit
  BY CallKept, PermitKept
<1>2. SameSession /\ SameLine /\ SameReady
  BY DEF SameSession, SameLine, SameWire, SameReady
<1>3. CASE wifi'.link = wifi.link
  BY <1>1, <1>2, <1>3, Stays DEF SameTold
<1>4. CASE UpdateLink
  <2>1. wifi'.link = "ready" => ctl.ready
    BY <1>4, Typed DEF UpdateLink, Wifis
  <2> QED BY <1>1, <1>2, <2>1, Tells
<1> QED BY <1>3, <1>4

LEMMA Aside ==
  ASSUME Types, UNCHANGED <<ctl, grants, tx, wk, med, srv>>, brd'.kind = brd.kind, wifi'.link = wifi.link \/ UpdateLink
  PROVE  PStep
BY Moves

LEMMA AsideSteps ==
  ASSUME Types,
         \/ Request \/ RequestSays \/ RequestAsked \/ RequestRefused \/ RequestUndone \/ End \/ BoardUpdates \/ Stop
         \/ Offline \/ Online \/ CloudUpdates \/ Offer \/ OfferRefused
  PROVE  PStep
<1>1. CASE Request \/ RequestRefused \/ End \/ Stop
  <2>1. UNCHANGED <<ctl, grants, tx, wk, med, srv>>
    BY <1>1 DEF Request, RequestRefused, End, Stop
  <2>2. brd'.kind = brd.kind
    BY <1>1, Typed DEF Request, RequestRefused, End, Stop, BrdGoto, Brds
  <2>3. wifi'.link = wifi.link
    BY <1>1, Typed DEF Request, RequestRefused, End, Stop, Wifis
  <2> QED BY <2>1, <2>2, <2>3, Aside
<1>2. CASE RequestSays \/ RequestAsked \/ RequestUndone \/ BoardUpdates
  <2>1. UNCHANGED <<ctl, grants, tx, wk, med, srv>>
    BY <1>2 DEF RequestSays, RequestAsked, RequestUndone, BoardUpdates
  <2>2. \E pc : BrdGoto(pc)
    BY <1>2 DEF RequestSays, RequestAsked, RequestUndone, BoardUpdates
  <2>3. wifi'.link = wifi.link \/ UpdateLink
    BY <1>2, Typed DEF RequestSays, RequestAsked, RequestUndone, BoardUpdates, Wifis
  <2> QED BY <2>1, <2>2, <2>3, BrdMoves, Aside
<1>3. CASE Offline \/ Online \/ CloudUpdates \/ Offer \/ OfferRefused
  <2>1. UNCHANGED <<ctl, grants, tx, wk, med, srv>> /\ brd'.kind = brd.kind
    BY <1>3 DEF Offline, Online, CloudUpdates, Offer, OfferRefused
  <2>2. wifi'.link = wifi.link \/ UpdateLink
    BY <1>3, Typed DEF Offline, Online, CloudUpdates, Offer, OfferRefused, Wifis
  <2> QED BY <2>1, <2>2, Aside
<1> QED BY <1>1, <1>2, <1>3

LEMMA QueuesStep ==
  ASSUME PromiseIInv, NEW kind, NEW token, QueueGrant(kind, token), brd'.kind = brd.kind,
         (token = "fresh") <=> brd.kind = "offer",
         UNCHANGED <<tx, med, wifi, srv>>
  PROVE  PStep
<1> USE DEF PromiseIInv, IInv, LinkInv, FlagInv
<1>1. ctl'.epoch = ctl.epoch + 1 /\ ctl'.ready = FALSE
  BY Typed DEF QueueGrant, Ctls
<1>2. grants' # <<>> /\ grants'[1].epoch = ctl.epoch + 1 /\ grants'[1].token = token
  BY DEF QueueGrant
<1>3. wk'.grant = wk.grant /\ wk'.conn = wk.conn /\ wk'.flush = wk.flush
  BY Typed DEF QueueGrant, Wks
<1>4. ~Mine'
  <2>1. \A a, b \in Nat : a <= b => a # b + 1
    OBVIOUS
  <2>2. wk.grant.epoch # ctl.epoch + 1
    BY <2>1, Typed DEF Epochs, Ctls, Wks, Grants
  <2> QED BY <1>1, <1>3, <2>2 DEF Mine, Current
<1>5. CallExists'
  BY <1>1, <1>2 DEF CallExists
<1>6. HasPermit' <=> brd.kind = "offer"
  BY <1>1, <1>2, <1>4 DEF HasPermit
<1>7. SameSession /\ SameLine /\ SameTold
  BY <1>3 DEF SameSession, SameLine, SameWire, SameTold
<1> QED BY <1>1, <1>5, <1>6, <1>7, AskIs

LEMMA QueueSteps ==
  ASSUME PromiseIInv, RequestQueues \/ OfferQueues
  PROVE  PStep
<1> USE DEF PromiseIInv, IInv, FlagInv
<1>1. CASE RequestQueues
  <2>1. brd.kind = "platform" /\ brd'.kind = brd.kind
    BY <1>1, Typed DEF RequestQueues, Kinded, BrdAt, Brds
  <2>2. QueueGrant("platform", "none") /\ UNCHANGED <<tx, med, wifi, srv>>
    BY <1>1 DEF RequestQueues
  <2> QED BY <2>1, <2>2, QueuesStep
<1>2. CASE OfferQueues
  <2>1. brd.kind = "offer" /\ brd'.kind = brd.kind
    BY <1>2, Typed DEF OfferQueues, Kinded, Brds
  <2>2. QueueGrant("offer", "fresh") /\ UNCHANGED <<tx, med, wifi, srv>>
    BY <1>2 DEF OfferQueues
  <2> QED BY <2>1, <2>2, QueuesStep
<1> QED BY <1>1, <1>2

LEMMA CancelsStep ==
  ASSUME Types, Epochs, ctl'.epoch = ctl.epoch + 1, ctl'.ready = FALSE, grants' = <<>> \/ grants' = grants,
         tx' = <<>> \/ tx' = tx, brd'.kind = brd.kind, UNCHANGED <<wk, med, wifi, srv>>
  PROVE  PStep
<1>1. ~CallExists' /\ ~HasPermit'
  BY NoCall
<1>2. SameSession /\ SameLine /\ SameTold
  BY DEF SameSession, SameLine, SameWire, SameTold
<1> QED BY <1>1, <1>2, CancelIs

LEMMA CancelSteps ==
  ASSUME PromiseIInv, RequestFails \/ EndCancels \/ StreamCut \/ StopSignals \/ OfflineCancels
  PROVE  PStep
<1>1. Types /\ Epochs
  BY DEF PromiseIInv, IInv, FlagInv
<1>2. ctl'.epoch = ctl.epoch + 1 /\ ctl'.ready = FALSE
  BY <1>1, Typed DEF RequestFails, EndCancels, StreamCut, StopSignals, OfflineCancels, Cancel, Ctls
<1>3. (grants' = <<>> \/ grants' = grants) /\ (tx' = <<>> \/ tx' = tx) /\ UNCHANGED <<wk, med, wifi, srv>>
  BY DEF RequestFails, EndCancels, StreamCut, StopSignals, OfflineCancels, Cancel
<1>4. brd'.kind = brd.kind
  BY <1>1, Typed DEF RequestFails, EndCancels, StreamCut, StopSignals, OfflineCancels, BrdGoto, Brds
<1> QED BY <1>1, <1>2, <1>3, <1>4, CancelsStep

LEMMA StopJoinedStep ==
  ASSUME PromiseIInv, StopJoined
  PROVE  PStep
<1> USE DEF PromiseIInv, IInv, LinkInv, FlagInv
<1>1. wk.pc = "none" /\ ~ctl.run
  BY DEF StopJoined, BrdAt, Types, TaskIsWorker, Stopped
<1>2. tx' = tx
  BY <1>1 DEF StopJoined, Recorded
<1>3. ctl'.epoch = ctl.epoch /\ ctl'.run = ctl.run /\ SameReady
  BY Typed DEF StopJoined, SameReady, Ctls
<1>4. UNCHANGED <<wk, med, srv>> /\ grants' = <<>>
  BY DEF StopJoined
<1>5. ~CallExists /\ ~HasPermit
  <2>1. grants # <<>> => 1 \in DOMAIN grants
    BY Typed
  <2>2. grants # <<>> => grants[1].epoch # ctl.epoch
    BY <1>1, <2>1 DEF Stopped
  <2> QED BY <1>1, <2>2 DEF CallExists, HasPermit
<1>6. ~CallExists' /\ ~HasPermit'
  BY <1>1, <1>4 DEF CallExists, HasPermit
<1>7. brd'.kind = brd.kind
  BY BrdMoves DEF StopJoined
<1>8. SameCall /\ SamePermit /\ SameSession /\ SameLine
  BY <1>3, <1>4, <1>5, <1>6, <1>7 DEF SameCall, SamePermit, SameSession, SameLine, SameWire
<1>9. wifi'.link # "ready"
  BY Typed DEF StopJoined, Wifis
<1> QED BY <1>2, <1>3, <1>8, <1>9, Tells

LEMMA StartStep ==
  ASSUME PromiseIInv, Start
  PROVE  PStep
<1> USE DEF PromiseIInv, IInv, LinkInv, FlagInv
<1>1. wk.pc = "none" /\ grants = <<>>
  BY DEF Start, Types, TaskIsWorker, Stopped
<1>2. ctl'.epoch = ctl.epoch /\ SameReady
  BY Typed DEF Start, SameReady, Ctls
<1>3. UNCHANGED <<grants, tx, wk, med, srv, wifi, brd>>
  BY DEF Start
<1>4. ~CallExists /\ ~HasPermit /\ ~CallExists' /\ ~HasPermit'
  BY <1>1, <1>3 DEF CallExists, HasPermit
<1>5. SameCall /\ SamePermit /\ SameSession /\ SameLine /\ SameTold
  BY <1>2, <1>3, <1>4 DEF SameCall, SamePermit, SameSession, SameLine, SameWire, SameTold
<1> QED BY <1>2, <1>3, <1>5, Stays

LEMMA StreamSteps ==
  ASSUME PromiseIInv, StreamStart \/ StreamWrite \/ StreamEnd
  PROVE  PStep
<1> USE DEF PromiseIInv, IInv, LinkInv
<1>1. UNCHANGED <<grants, wk, med, wifi, srv>>
  BY DEF StreamStart, StreamWrite, StreamEnd
<1>2. brd'.kind = brd.kind
  BY Typed DEF StreamStart, StreamWrite, StreamEnd, Brds
<1>3. ctl'.epoch = ctl.epoch /\ ctl'.run = ctl.run /\ ctl'.ready = ctl.ready
  BY Typed DEF StreamStart, StreamWrite, StreamEnd, Ctls
<1>4. tx' = tx \/ (ctl.ready /\ tx' = Append(tx, srv.era))
  BY DEF StreamStart, StreamWrite, StreamEnd, CanRecord
<1>5. CASE tx' = tx
  BY <1>1, <1>2, <1>3, <1>5, Moves
<1>6. CASE ctl.ready /\ tx' = Append(tx, srv.era)
  <2>1. tx' = Append(tx, wk.conn)
    BY <1>6 DEF ReadyUnderWorker
  <2>2. SameCall /\ SamePermit
    BY <1>1, <1>2, <1>3, CallKept, PermitKept
  <2>3. SameSession /\ SameLine /\ SameReady /\ SameTold
    BY <1>1, <1>3 DEF SameSession, SameLine, SameWire, SameReady, SameTold
  <2> QED BY <1>6, <2>1, <2>2, <2>3, SpeakIs
<1> QED BY <1>4, <1>5, <1>6

\* A step of the worker that leaves everything but its own state alone.
LEMMA WorkerMoves ==
  ASSUME Types, UNCHANGED <<grants, tx, brd, srv>>,
         ctl'.epoch = ctl.epoch, ctl'.run = ctl.run, ctl'.ready = ctl.ready,
         wk'.conn = wk.conn /\ wk'.flush = wk.flush, wk'.grant.epoch = wk.grant.epoch,
         wk'.pc \in {"none", "wait", "free"} <=> wk.pc \in {"none", "wait", "free"},
         \/ wk'.grant = wk.grant /\ (wk'.pc \in PermitPcs <=> wk.pc \in PermitPcs)
         \/ wk.pc \notin PermitPcs /\ wk'.pc \notin PermitPcs,
         med'.pc = med.pc, wifi'.link = wifi.link \/ UpdateLink
  PROVE  PStep
BY Moves

LEMMA NoReady ==
  ASSUME PromiseIInv, wk.pc \notin {"loop", "unready"}
  PROVE  ~ctl.ready /\ med.pc = "none"
BY DEF PromiseIInv, IInv, LinkInv, ReadyUnderWorker, PromiseInv, LineIsMedia

LEMMA NotTold ==
  ASSUME PromiseIInv, wk.pc \notin {"loop", "unready", "reset", "report"}
  PROVE  wifi.link # "ready"
BY DEF PromiseIInv, IInv, LinkInv, LinkHonest

\* The worker's own call, once it has given it up.
LEMMA NotMine ==
  ASSUME ~Mine, UNCHANGED <<ctl, grants>>, wk'.grant.epoch = wk.grant.epoch, brd'.kind = brd.kind
  PROVE  SameCall /\ SamePermit
BY DEF SameCall, SamePermit, CallExists, HasPermit, Mine, Current

\* While the worker has the current call, no grant that waits is current.
LEMMA MineAlone ==
  ASSUME Types, Epochs, Mine
  PROVE  grants # <<>> => grants[1].epoch # ctl.epoch
<1>1. \A a, b \in Nat : a < b => a # b
  OBVIOUS
<1>2. SUFFICES ASSUME grants # <<>> PROVE grants[1].epoch # ctl.epoch
  OBVIOUS
<1>3. 1 \in DOMAIN grants /\ grants[1] \in Grants
  BY <1>2, Typed
<1>4. wk.grant.epoch = ctl.epoch
  BY DEF Mine, Current
<1>5. wk.grant.epoch < grants[1].epoch /\ wk.grant.epoch \in Nat /\ grants[1].epoch \in Nat
  BY <1>3, Typed DEF Epochs, Wks, Grants
<1> QED BY <1>1, <1>4, <1>5

LEMMA DequeueStep ==
  ASSUME PromiseIInv, Dequeue
  PROVE  PStep
<1> USE DEF PromiseIInv, IInv, LinkInv, FlagInv
<1>1. wk.pc = "wait" /\ grants # <<>> /\ 1 \in DOMAIN grants
  BY Typed DEF Dequeue, WkAt
<1>2. wk'.pc = "check" /\ wk'.grant = grants[1] /\ wk'.conn = wk.conn /\ wk'.flush = wk.flush
  BY Typed DEF Dequeue, Wks
<1>3. grants' = <<>> /\ UNCHANGED <<ctl, tx, med, wifi, srv, brd>>
  BY DEF Dequeue, WorkerUnch
<1>4. grants[1].epoch = ctl.epoch => ctl.run
  BY <1>1 DEF Stopped
<1>5. Mine' <=> grants[1].epoch = ctl.epoch
  BY <1>2, <1>3, <1>4 DEF Mine, Current
<1>6. (CallExists' <=> CallExists) /\ (HasPermit' <=> HasPermit)
  BY <1>1, <1>2, <1>3, <1>5 DEF CallExists, HasPermit
<1>7. med.pc = "none"
  BY <1>1, NoReady
<1>8. SameCall /\ SamePermit /\ SameSession /\ SameLine /\ SameReady /\ SameTold
  BY <1>2, <1>3, <1>6, <1>7 DEF SameCall, SamePermit, SameSession, SameLine, SameWire, SameReady, SameTold
<1> QED BY <1>3, <1>8, Stays

LEMMA ExitStep ==
  ASSUME PromiseIInv, Exit
  PROVE  PStep
<1> USE DEF PromiseIInv, IInv
<1>1. wk.pc = "wait" /\ wk'.pc = "none" /\ wk'.grant = wk.grant /\ wk'.conn = wk.conn /\ wk'.flush = wk.flush
  BY Typed DEF Exit, WkAt, WkGoto, Wks
<1>2. ctl'.epoch = ctl.epoch /\ ctl'.run = ctl.run /\ ctl'.ready = ctl.ready
  BY Typed DEF Exit, Ctls
<1>3. UNCHANGED <<grants, tx, med, wifi, srv, brd>>
  BY DEF Exit, WorkerUnch
<1> QED BY <1>1, <1>2, <1>3, WorkerMoves DEF PermitPcs

LEMMA CheckStep ==
  ASSUME PromiseIInv, Check
  PROVE  PStep
<1> USE DEF PromiseIInv, IInv
<1>1. wk.pc = "check" /\ UNCHANGED <<grants, tx, med, wifi, srv, brd>>
  BY DEF Check, WkAt, WorkerUnch
<1>2. ctl'.epoch = ctl.epoch /\ ctl'.run = ctl.run /\ ctl'.ready = ctl.ready
  BY Typed DEF Check, Ctls
<1>3. wk'.grant = wk.grant /\ wk'.conn = wk.conn /\ wk'.flush = wk.flush
  BY Typed DEF Check, BeginAttempt, WkGoto, Wks
<1>4. CASE Mine
  <2>1. wk'.pc = IF wk.grant.kind = "platform" THEN "grant" ELSE "connect"
    BY <1>4, Typed DEF Check, BeginAttempt, Wks
  <2>2. wk.grant.kind = "platform" => wk.grant.token = "none"
    BY <1>1 DEF PromiseInv, Bare
  <2>3. SameCall
    BY <1>1, <1>2, <1>3, <2>1, CallKept
  <2>4. SamePermit
    BY <1>1, <1>2, <1>3, <2>1, <2>2 DEF SamePermit, HasPermit, Mine, Current
  <2>5. SameSession /\ SameLine /\ SameReady /\ SameTold
    BY <1>1, <1>2, <1>3 DEF SameSession, SameLine, SameWire, SameReady, SameTold
  <2> QED BY <1>1, <2>3, <2>4, <2>5, Stays
<1>5. CASE ~Mine
  <2>1. UNCHANGED ctl
    BY <1>5 DEF Check
  <2>2. SameCall /\ SamePermit
    BY <1>1, <1>3, <1>5, <2>1, NotMine
  <2>3. SameSession /\ SameLine /\ SameReady /\ SameTold
    BY <1>1, <1>2, <1>3 DEF SameSession, SameLine, SameWire, SameReady, SameTold
  <2> QED BY <1>1, <2>2, <2>3, Stays
<1> QED BY <1>4, <1>5

\* What follows an answer of the platform: a session and a token, a session without one, or no change.
LEMMA GrantsStep ==
  ASSUME PromiseIInv, wk.pc \in {"grant", "refresh"}, UNCHANGED <<ctl, grants, tx, med, wifi, brd>>,
         \/ Mine /\ (Granted \/ GrantUnusable \/ GrantLost)
         \/ WkGoto("unready") /\ UNCHANGED srv
         \/ WkGoto("refresh") /\ UNCHANGED srv
  PROVE  PStep
<1> USE DEF PromiseIInv, IInv
<1>1. wk'.grant.epoch = wk.grant.epoch /\ wk'.conn = wk.conn /\ wk'.flush = wk.flush
  <2>1. CASE Granted
    <3>1. wk' = [wk EXCEPT !.pc = "connect", !.grant = [wk.grant EXCEPT !.token = "fresh"]]
      BY <2>1 DEF Granted
    <3> QED BY <3>1, Typed DEF Wks, Grants
  <2>2. CASE WkGoto("unready") \/ WkGoto("refresh")
    BY <2>2, Typed DEF WkGoto, Wks
  <2>3. CASE GrantUnusable
    BY <2>3, UnusableWk
  <2> QED BY <2>1, <2>2, <2>3 DEF GrantLost
<1>2. wk'.pc \in {"connect", "unready", "refresh"}
  BY UnusableWk, Typed DEF Granted, GrantLost, WkGoto, Wks
<1>3. SameCall
  BY <1>1, <1>2, CallKept
<1>4. SameLine /\ SameReady /\ SameTold
  BY <1>1 DEF SameLine, SameWire, SameReady, SameTold
<1>5. CASE UNCHANGED srv /\ (WkGoto("unready") \/ WkGoto("refresh"))
  <2>1. SamePermit
    <3>1. wk'.pc \notin PermitPcs
      BY <1>5, Typed DEF WkGoto, Wks, PermitPcs
    <3> QED BY <3>1, PermitKept DEF PermitPcs
  <2> QED BY <1>3, <1>4, <1>5, <2>1, Stays DEF SameSession
<1>6. CASE Mine /\ (Granted \/ GrantUnusable \/ GrantLost)
  <2>1. CallExists
    BY <1>6 DEF CallExists
  <2>2. brd.kind # "offer"
    BY DEF GrantInv, Asks, PromiseInv, OneKind
  <2>3. srv.held => srv.lost
    BY DEF GrantInv, Holds
  <2>4. med.pc = "none" /\ wifi.link # "ready"
    BY NoReady, NotTold
  <2>5. srv'.held /\ (Granted => ~srv'.lost)
    BY <1>6, Typed DEF Granted, GrantUnusable, GrantLost, Srvs
  <2>6. ASSUME Granted PROVE HasPermit'
    <3>1. wk' = [wk EXCEPT !.pc = "connect", !.grant = [wk.grant EXCEPT !.token = "fresh"]]
      BY <2>6 DEF Granted
    <3>2. wk'.pc = "connect" /\ wk'.grant.token = "fresh"
      BY <3>1, Typed DEF Wks, Grants
    <3>3. Mine'
      BY <1>1, <1>6 DEF Mine, Current
    <3> QED BY <3>2, <3>3 DEF HasPermit
  <2>7. ASSUME GrantUnusable \/ GrantLost PROVE SamePermit
    <3>1. wk'.pc \notin PermitPcs
      BY <2>7, UnusableWk, Typed DEF GrantLost, WkGoto, Wks, PermitPcs
    <3> QED BY <3>1, PermitKept DEF PermitPcs
  <2>8. (~srv'.lost /\ HasPermit') \/ SamePermit
    BY <1>6, <2>5, <2>6, <2>7
  <2> QED BY <1>3, <1>4, <2>1, <2>2, <2>3, <2>4, <2>5, <2>8, PermitIs
<1> QED BY <1>5, <1>6

LEMMA GrantSteps ==
  ASSUME PromiseIInv, AskGrant \/ Refresh
  PROVE  PStep
<1>1. wk.pc \in {"grant", "refresh"} /\ UNCHANGED <<ctl, grants, tx, med, wifi, brd>>
  BY DEF AskGrant, Refresh, WkAt, WorkerUnch
<1>2. \/ Mine /\ (Granted \/ GrantUnusable \/ GrantLost)
      \/ WkGoto("unready") /\ UNCHANGED srv
      \/ WkGoto("refresh") /\ UNCHANGED srv
  BY DEF AskGrant, Refresh, GrantDenied, GrantBusy
<1> QED BY <1>1, <1>2, GrantsStep

LEMMA ConnectStep ==
  ASSUME PromiseIInv, Connect
  PROVE  PStep
<1> USE DEF PromiseIInv, IInv
<1>1. wk.pc = "connect" /\ UNCHANGED <<ctl, grants, tx, med, srv, brd>>
  BY DEF Connect, WkAt, WorkerUnch
<1>2. wk'.grant = wk.grant /\ wk'.conn = wk.conn /\ wk'.flush = wk.flush
  BY Typed DEF Connect, WkGoto, Wks
<1>3. CASE Mine
  <2>1. wk'.pc = "tls" /\ UpdateLink
    BY <1>3, Typed DEF Connect, WkGoto, Wks
  <2> QED BY <1>1, <1>2, <2>1, WorkerMoves DEF PermitPcs
<1>4. CASE ~Mine
  <2>1. UNCHANGED wifi
    BY <1>4 DEF Connect
  <2>2. SameCall /\ SamePermit
    BY <1>1, <1>2, <1>4, NotMine
  <2>3. SameSession /\ SameLine /\ SameReady /\ SameTold
    BY <1>1, <1>2, <2>1 DEF SameSession, SameLine, SameWire, SameReady, SameTold
  <2> QED BY <1>1, <2>2, <2>3, Stays
<1> QED BY <1>3, <1>4

\* An attempt that comes to nothing: the token is spent if the call is still current.
LEMMA AttemptFails ==
  ASSUME PromiseIInv, wk.pc = "tls", UNCHANGED <<ctl, grants, tx, med, wifi, srv, brd>>,
         wk'.pc = "unready", wk'.grant.epoch = wk.grant.epoch, wk'.conn = wk.conn /\ wk'.flush = wk.flush
  PROVE  PStep
<1> USE DEF PromiseIInv, IInv, FlagInv
<1>1. SameSession /\ SameLine /\ SameReady /\ SameTold
  BY DEF SameSession, SameLine, SameWire, SameReady, SameTold
<1>2. CASE Mine
  <2>1. HasPermit
    BY <1>2 DEF HasPermit, GrantInv, Tokens
  <2>2. ~HasPermit'
    BY <1>2, MineAlone DEF HasPermit
  <2>3. SameCall
    BY CallKept
  <2>4. med.pc = "none"
    BY NoReady
  <2> QED BY <1>1, <2>1, <2>2, <2>3, <2>4, LapseIs
<1>3. CASE ~Mine
  <2>1. SameCall /\ SamePermit
    BY <1>3, NotMine
  <2> QED BY <1>1, <2>1, Stays
<1> QED BY <1>2, <1>3

LEMMA ConnectFailsStep ==
  ASSUME PromiseIInv, NEW again \in BOOLEAN, ConnectFails(again)
  PROVE  PStep
<1>1. wk.pc = "tls" /\ UNCHANGED <<ctl, grants, tx, med, wifi, srv, brd>>
  BY DEF ConnectFails, WkAt, WorkerUnch
<1>2. wk'.pc = "unready" /\ wk'.grant = wk.grant /\ wk'.conn = wk.conn /\ wk'.flush = wk.flush
  BY Typed DEF ConnectFails, Wks, PromiseIInv, IInv
<1> QED BY <1>1, <1>2, AttemptFails

LEMMA ConnectedStep ==
  ASSUME PromiseIInv, Connected
  PROVE  PStep
<1> USE DEF PromiseIInv, IInv, FlagInv
<1>1. wk.pc = "tls" /\ UNCHANGED <<ctl, grants, tx, wifi, srv, brd>>
  BY DEF Connected, WkAt, WorkerUnch
<1>2. CASE NoHello
  <2>1. wk'.pc = "unready" /\ wk'.grant = wk.grant /\ wk'.conn = wk.conn /\ wk'.flush = wk.flush
    BY <1>2, Typed DEF NoHello, WkGoto, Wks
  <2> QED BY <1>1, <1>2, <2>1, AttemptFails DEF NoHello
<1>3. CASE HelloFails
  <2>1. wk' = [wk EXCEPT !.pc = "unready", !.retryable = TRUE, !.grant = [wk.grant EXCEPT !.token = "shown"]]
    BY <1>3 DEF HelloFails
  <2>2. wk'.pc = "unready" /\ wk'.grant.epoch = wk.grant.epoch /\ wk'.conn = wk.conn /\ wk'.flush = wk.flush
    BY <2>1, Typed DEF Wks, Grants
  <2> QED BY <1>1, <1>3, <2>2, AttemptFails DEF HelloFails
<1>4. CASE Mine /\ Hello
  <2>1. wk' = [wk EXCEPT !.pc = "loop", !.conn = wk.conn + 1, !.grant = [wk.grant EXCEPT !.token = "shown"]]
    BY <1>4 DEF Hello
  <2>2. wk'.pc = "loop" /\ wk'.grant.epoch = wk.grant.epoch /\ wk'.conn = wk.conn + 1 /\ wk'.flush = wk.flush
    BY <2>1, Typed DEF Wks, Grants
  <2>3. med.pc = "none" /\ med'.pc # "none" /\ wifi.link # "ready"
    BY <1>1, <1>4, NoReady, NotTold DEF Hello
  <2>4. SameCall /\ CallExists
    <3>1. SameCall
      BY <1>1, <2>2, CallKept
    <3> QED BY <1>1, <1>4, <3>1 DEF CallExists
  <2>5. HasPermit
    BY <1>1, <1>4 DEF HasPermit, GrantInv, Tokens
  <2>6. ~HasPermit'
    BY <1>1, <1>4, <2>2, MineAlone DEF HasPermit
  <2>7. tx = <<>>
    BY <1>1 DEF LinkInv, Recorded
  <2>8. brd.kind = "offer" \/ (srv.held /\ ~srv.lost)
    <3>1. wk.grant.kind = brd.kind /\ wk.grant.token = "fresh"
      BY <1>1 DEF PromiseInv, OneKind, GrantInv, Tokens
    <3>2. brd.kind \in {"platform", "offer"}
      BY Typed, CallAssumption DEF Brds
    <3> QED BY <1>1, <3>1, <3>2 DEF PromiseInv, HeldWhileNeeded
  <2>9. wk'.grant.epoch = ctl.epoch
    BY <1>4, <2>2 DEF Mine, Current
  <2>10. SameSession /\ SameReady /\ SameTold /\ tx' = tx
    BY <1>1 DEF SameSession, SameReady, SameTold
  <2> QED BY <2>2, <2>3, <2>4, <2>5, <2>6, <2>7, <2>8, <2>9, <2>10, DialIs
<1> QED BY <1>2, <1>3, <1>4 DEF Connected

LEMMA FlushStep ==
  ASSUME PromiseIInv, FlushTx
  PROVE  PStep
<1> USE DEF PromiseIInv, IInv
<1>1. wk.pc = "loop" /\ wk'.pc = "loop" /\ wk'.grant = wk.grant /\ wk'.conn = wk.conn
      /\ UNCHANGED <<ctl, grants, med, wifi, srv, brd>>
  BY FlushKeeps
<1>2. SameCall /\ SamePermit
  BY <1>1, CallKept, PermitKept
<1>3. SameSession /\ SameWire /\ SameReady /\ SameTold
  BY <1>1 DEF SameSession, SameWire, SameReady, SameTold
<1>4. med.pc # "none"
  BY <1>1 DEF PromiseInv, LineIsMedia
<1>5. CASE FlushChecks
  <2>1. Mine /\ ctl.ready /\ tx # <<>> /\ tx' = tx /\ wk.flush = "no"
    BY <1>5 DEF FlushChecks, Looping
  <2>2. CallExists /\ wk.grant.epoch = ctl.epoch
    BY <1>1, <2>1 DEF CallExists, Mine, Current
  <2>3. wk'.flush = "checked" /\ ctl.ready = TRUE
    BY <1>5, <2>1, Typed DEF FlushChecks, FlushGoto, Wks, Ctls
  <2> QED BY <1>2, <1>3, <1>4, <2>1, <2>2, <2>3, BeginIs
<1>6. CASE FlushTakes
  <2>1. tx # <<>> /\ tx' = Tail(tx) /\ wk.flush = "checked"
    BY <1>6 DEF FlushTakes, FlushAt
  <2>2. wk'.flush = "taken"
    BY <1>6, Typed DEF FlushTakes, FlushGoto, Wks
  <2>3. Head(tx) = tx[1] /\ 1 \in DOMAIN tx
    BY <2>1, Typed
  <2>4. Head(tx) = wk.conn
    BY <2>3 DEF LinkInv, Recorded
  <2> QED BY <1>2, <1>3, <1>4, <2>1, <2>2, <2>4, TakeIs
<1>7. CASE FlushNothing \/ FlushSent
  <2>1. tx' = tx /\ (wk.flush = "taken" \/ (wk.flush = "checked" /\ tx = <<>>))
    BY <1>7 DEF FlushNothing, FlushSent, FlushAt
  <2>2. wk'.flush = "no"
    BY <1>7, Typed DEF FlushNothing, FlushSent, FlushGoto, Wks
  <2> QED BY <1>2, <1>3, <2>1, <2>2, SentIs
<1> QED BY <1>5, <1>6, <1>7 DEF FlushTx

\* Out of the loop: a packet that was on its way is heard or lost.
LEMMA LeavesLoop ==
  ASSUME PromiseIInv, wk.pc = "loop", wk.flush # "checked", NEW again \in BOOLEAN, LeaveLoop(again)
  PROVE  PStep
<1> USE DEF PromiseIInv, IInv
<1>1. UNCHANGED <<ctl, grants, tx, wifi, srv, brd>>
  BY DEF LeaveLoop, WorkerUnch
<1>2. /\ wk'.pc = "unready" /\ wk'.grant = wk.grant /\ wk'.conn = wk.conn /\ med'.pc = med.pc
      /\ wk'.flush = "no" /\ wk.flush \in {"no", "taken"}
  BY Typed DEF LeaveLoop, Wks, Meds
<1>3. CASE wk.flush = "no"
  BY <1>1, <1>2, <1>3, WorkerMoves DEF PermitPcs
<1>4. CASE wk.flush = "taken"
  <2>1. SameCall
    BY <1>1, <1>2, CallKept
  <2>2. SamePermit
    BY <1>1, <1>2, PermitKept DEF PermitPcs
  <2>3. SameSession /\ SameWire /\ SameReady /\ SameTold
    BY <1>1, <1>2 DEF SameSession, SameWire, SameReady, SameTold
  <2> QED BY <1>1, <1>2, <1>4, <2>1, <2>2, <2>3, SentIs
<1> QED BY <1>2, <1>3, <1>4

LEMMA LeaveStep ==
  ASSUME PromiseIInv, Leave
  PROVE  PStep
BY LeavesLoop DEF Leave, Looping, WkAt

LEMMA DropStep ==
  ASSUME PromiseIInv, NEW again \in BOOLEAN, Drop(again)
  PROVE  PStep
<1>1. wk.pc = "loop" /\ wk.flush # "checked" /\ (again /\ med.running) \in BOOLEAN /\ LeaveLoop(again /\ med.running)
  BY DEF Drop, WkAt
<1> QED BY <1>1, LeavesLoop

LEMMA ServerStep ==
  ASSUME PromiseIInv, Server
  PROVE  PStep
<1> USE DEF PromiseIInv, IInv
<1>1. CASE Stable
  <2>1. UNCHANGED <<ctl, grants, tx, med, wifi, srv, brd>>
    BY <1>1 DEF Stable, WorkerUnch
  <2>2. wk'.pc = wk.pc /\ wk'.grant = wk.grant /\ wk'.conn = wk.conn /\ wk'.flush = wk.flush
    BY <1>1, Typed DEF Stable, Wks
  <2> QED BY <2>1, <2>2, WorkerMoves
<1>2. ASSUME NEW msg \in {"ready", "fatal"}, Receive(msg) PROVE PStep
  <2>1. UNCHANGED <<ctl, grants, tx, wk, wifi, srv, brd>>
    BY <1>2 DEF Receive, WorkerUnch
  <2>2. med'.pc = med.pc
    BY <1>2, Typed DEF Receive, Meds
  <2> QED BY <2>1, <2>2, WorkerMoves
<1> QED BY <1>1, <1>2, DropStep DEF Server

LEMMA UnreadyStep ==
  ASSUME PromiseIInv, Unready
  PROVE  PStep
<1> USE DEF PromiseIInv, IInv
<1>1. wk.pc = "unready" /\ med'.pc = "none" /\ UNCHANGED <<grants, tx, wifi, srv, brd>>
  BY DEF Unready, WkAt, WorkerUnch
<1>2. wk'.pc = "reset" /\ wk'.grant = wk.grant /\ wk'.conn = wk.conn /\ wk'.flush = wk.flush
  BY Typed DEF Unready, WkGoto, Wks
<1>3. ctl'.ready = FALSE /\ ctl'.epoch = ctl.epoch /\ ctl'.run = ctl.run
  BY Typed DEF Unready, Ctls
<1>4. SameCall /\ SamePermit /\ SameSession /\ SameTold
  <2>1. SameCall
    BY <1>1, <1>2, <1>3, CallKept
  <2>2. SamePermit
    BY <1>1, <1>2, <1>3, PermitKept DEF PermitPcs
  <2> QED BY <1>1, <2>1, <2>2 DEF SameSession, SameTold
<1>5. CASE med.pc # "none"
  <2>1. wk.flush = "no"
    BY <1>1 DEF Types, Flushing
  <2> QED BY <1>1, <1>2, <1>3, <1>4, <1>5, <2>1, HangUpIs
<1>6. CASE med.pc = "none"
  <2>1. ctl.ready = FALSE
    BY <1>6, Typed DEF ReadyIsLine, Ctls
  <2> QED BY <1>1, <1>2, <1>3, <1>4, <1>6, <2>1, Stays DEF SameLine, SameWire, SameReady
<1> QED BY <1>5, <1>6

LEMMA DecideStep ==
  ASSUME PromiseIInv, Decide
  PROVE  PStep
<1> USE DEF PromiseIInv, IInv
<1>1. wk.pc = "reset" /\ tx' = <<>> /\ UNCHANGED <<grants, med, wifi, srv, brd>>
  BY DEF Decide, ResetInput, WkAt, WorkerUnch
<1>2. wk'.pc = "report" /\ wk'.grant = wk.grant /\ wk'.conn = wk.conn /\ wk'.flush = wk.flush
  BY Typed DEF Decide, Wks
<1>3. ctl'.ready = ctl.ready /\ ctl'.epoch = ctl.epoch /\ ctl'.run = ctl.run
  BY Typed DEF Decide, Ctls
<1>4. SameCall
  BY <1>1, <1>2, <1>3, CallKept
<1>5. SamePermit
  BY <1>1, <1>2, <1>3, PermitKept DEF PermitPcs
<1>6. SameSession /\ SameLine /\ SameReady /\ SameTold
  BY <1>1, <1>2, <1>3 DEF SameSession, SameLine, SameWire, SameReady, SameTold
<1>7. med.pc = "none"
  BY <1>1, NoReady
<1> QED BY <1>1, <1>4, <1>5, <1>6, <1>7, ForgetIs

LEMMA ReportStep ==
  ASSUME PromiseIInv, Report
  PROVE  PStep
<1> USE DEF PromiseIInv, IInv
<1>1. wk.pc = "report" /\ UpdateLink /\ UNCHANGED <<ctl, grants, tx, med, srv, brd>>
  BY DEF Report, WkAt, WorkerUnch
<1>2. wk'.pc = "release" /\ wk'.grant = wk.grant /\ wk'.conn = wk.conn /\ wk'.flush = wk.flush
  BY Typed DEF Report, WkGoto, Wks
<1> QED BY <1>1, <1>2, WorkerMoves DEF PermitPcs

LEMMA ReleaseStep ==
  ASSUME PromiseIInv, Release
  PROVE  PStep
<1> USE DEF PromiseIInv, IInv
<1>1. wk.pc = "release" /\ UNCHANGED <<ctl, grants, tx, med, wifi, brd>>
  BY DEF Release, WkAt, WorkerUnch
<1>2. wk'.pc \in {"backoff", "finish"} /\ wk'.grant = wk.grant /\ wk'.conn = wk.conn /\ wk'.flush = wk.flush
  BY Typed DEF Release, Again, Wks
<1>3. SameCall
  BY <1>1, <1>2, CallKept
<1>4. SamePermit
  BY <1>1, <1>2, PermitKept DEF PermitPcs
<1>5. SameLine /\ SameReady /\ SameTold
  BY <1>1, <1>2 DEF SameLine, SameWire, SameReady, SameTold
<1>6. CASE srv' = srv
  BY <1>1, <1>3, <1>4, <1>5, <1>6, Stays DEF SameSession
<1>7. CASE srv' # srv
  <2>1. HoldsGrant
    BY <1>7 DEF Release
  <2>2. srv.held /\ ~srv.lost
    BY <1>1, <2>1 DEF HoldsGrant, PromiseInv, HeldWhileNeeded
  <2>3. srv'.held => srv'.lost
    BY <1>7, Typed DEF Release, Srvs
  <2>4. med.pc = "none" /\ wifi.link # "ready"
    BY <1>1, NoReady, NotTold
  <2> QED BY <1>1, <1>3, <1>4, <1>5, <2>2, <2>3, <2>4, GiveBackIs
<1> QED BY <1>6, <1>7

LEMMA BackoffStep ==
  ASSUME PromiseIInv, Backoff
  PROVE  PStep
<1> USE DEF PromiseIInv, IInv
<1>1. wk.pc = "backoff" /\ UNCHANGED <<ctl, grants, tx, med, wifi, srv, brd>>
  BY DEF Backoff, WkAt, WorkerUnch
<1>2. wk.grant.kind = "platform"
  BY <1>1 DEF GrantInv, Retried, BackoffRetries
<1>3. wk'.pc \in {"grant", "finish"} /\ wk'.grant.epoch = wk.grant.epoch /\ wk'.conn = wk.conn /\ wk'.flush = wk.flush
  <2>1. CASE Mine
    <3>1. [wk.grant EXCEPT !.token = "none"].kind = "platform" /\ [wk.grant EXCEPT !.token = "none"].epoch = wk.grant.epoch
      BY <1>2, Typed DEF Wks, Grants
    <3>2. wk' = [wk EXCEPT !.pc = "grant", !.grant = [wk.grant EXCEPT !.token = "none"], !.retryable = FALSE]
      BY <2>1, <3>1 DEF Backoff, BeginAttempt
    <3> QED BY <3>1, <3>2, Typed DEF Wks
  <2>2. CASE ~Mine
    BY <2>2, Typed DEF Backoff, Wks
  <2> QED BY <2>1, <2>2
<1> QED BY <1>1, <1>3, WorkerMoves DEF PermitPcs

LEMMA FinishGrantStep ==
  ASSUME PromiseIInv, FinishGrant
  PROVE  PStep
<1> USE DEF PromiseIInv, IInv, FlagInv
<1>1. wk.pc = "finish" /\ UNCHANGED <<grants, tx, med, srv, brd>>
  BY DEF FinishGrant, WkAt, WorkerUnch
<1>2. wk'.pc = "free" /\ wk'.grant = wk.grant /\ wk'.conn = wk.conn /\ wk'.flush = wk.flush
  BY Typed DEF FinishGrant, WkGoto, Wks
<1>3. ctl'.ready = ctl.ready /\ ctl'.epoch = ctl.epoch /\ ctl'.run = ctl.run
  BY Typed DEF FinishGrant, Ctls
<1>4. wifi'.link = wifi.link
  BY Typed DEF FinishGrant, Wifis
<1>5. SamePermit
  BY <1>1, <1>2, <1>3, PermitKept DEF PermitPcs
<1>6. SameSession /\ SameLine /\ SameReady /\ SameTold
  BY <1>1, <1>2, <1>3, <1>4 DEF SameSession, SameLine, SameWire, SameReady, SameTold
<1>7. CASE Mine
  <2>1. CallExists /\ ~HasPermit
    BY <1>1, <1>7, MineAlone DEF CallExists, HasPermit
  <2>2. ~CallExists'
    BY <1>1, <1>2, <1>3, <1>7, MineAlone DEF CallExists
  <2>3. tx = <<>>
    BY <1>1 DEF LinkInv, Recorded
  <2>4. med.pc = "none" /\ wifi.link # "ready"
    BY <1>1, NoReady, NotTold
  <2>5. srv.held => srv.lost
    BY <1>1 DEF GrantInv, Holds
  <2> QED BY <1>1, <1>3, <1>5, <1>6, <2>1, <2>2, <2>3, <2>4, <2>5, OverIs
<1>8. CASE ~Mine
  <2>1. UNCHANGED ctl
    BY <1>8 DEF FinishGrant, Finishes
  <2>2. SameCall
    BY <1>1, <1>2, <1>8, <2>1, NotMine
  <2> QED BY <1>1, <1>5, <1>6, <2>2, Stays
<1> QED BY <1>7, <1>8

LEMMA FreeStep ==
  ASSUME PromiseIInv, Free
  PROVE  PStep
<1> USE DEF PromiseIInv, IInv
<1>1. wk.pc = "free" /\ UNCHANGED <<grants, tx, med, wifi, srv, brd>>
  BY DEF Free, WkAt, WorkerUnch
<1>2. wk'.pc = "wait" /\ wk'.conn = wk.conn /\ wk'.flush = wk.flush
  BY Typed DEF Free, Wks
<1>3. ctl'.ready = ctl.ready /\ ctl'.epoch = ctl.epoch /\ ctl'.run = ctl.run
  BY Typed DEF Free, Ctls
<1>4. (CallExists' <=> CallExists) /\ (HasPermit' <=> HasPermit)
  BY <1>1, <1>2, <1>3 DEF CallExists, HasPermit
<1>5. med.pc = "none"
  BY <1>1, NoReady
<1>6. SameCall /\ SamePermit /\ SameSession /\ SameLine /\ SameReady /\ SameTold
  BY <1>1, <1>2, <1>3, <1>4, <1>5 DEF SameCall, SamePermit, SameSession, SameLine, SameWire, SameReady, SameTold
<1> QED BY <1>1, <1>6, Stays

LEMMA WorkerStep ==
  ASSUME PromiseIInv, Worker
  PROVE  PStep
BY DequeueStep, ExitStep, CheckStep, GrantSteps, ConnectStep, ConnectFailsStep, ConnectedStep, FlushStep, LeaveStep,
   UnreadyStep, DecideStep, ReportStep, ReleaseStep, BackoffStep, FinishGrantStep, FreeStep DEF Worker

LEMMA MediaStep ==
  ASSUME PromiseIInv, Media
  PROVE  PStep
<1> USE DEF PromiseIInv, IInv
<1>1. CASE MediaTakes \/ MediaSays \/ MediaRecovered \/ MediaExits
  <2>1. UNCHANGED <<grants, tx, wk, brd, srv>>
    BY <1>1 DEF MediaTakes, MediaSays, MediaRecovered, MediaExits, MedUnch
  <2>2. ctl'.epoch = ctl.epoch /\ ctl'.run = ctl.run /\ ctl'.ready = ctl.ready
    BY <1>1, Typed DEF MediaTakes, MediaSays, MediaRecovered, MediaExits, Ctls
  <2>3. med.pc # "none" /\ med'.pc # "none"
    BY <1>1, Typed DEF MediaTakes, MediaSays, MediaRecovered, MediaExits, Meds
  <2>4. wifi' = wifi \/ UpdateLink
    BY <1>1 DEF MediaTakes, MediaSays, MediaRecovered, MediaExits
  <2> QED BY <2>1, <2>2, <2>3, <2>4, Moves
<1>2. CASE MediaReady
  <2>1. UNCHANGED <<grants, tx, wk, brd, wifi>>
    BY <1>2 DEF MediaReady, MedUnch
  <2>2. ctl'.epoch = ctl.epoch /\ ctl'.run = ctl.run /\ ctl'.ready = TRUE
    BY <1>2, Typed DEF MediaReady, Ctls
  <2>3. med.pc # "none" /\ med'.pc # "none"
    BY <1>2, Typed DEF MediaReady, Meds
  <2>4. srv'.held = srv.held /\ srv'.lost = srv.lost
    BY <1>2, Typed DEF MediaReady, Srvs
  <2>5. SameCall /\ SamePermit
    BY <2>1, <2>2, CallKept, PermitKept
  <2>6. SameSession /\ SameLine /\ SameTold
    BY <2>1, <2>3, <2>4 DEF SameSession, SameLine, SameWire, SameTold
  <2> QED BY <2>1, <2>2, <2>3, <2>5, <2>6, AnsweredIs
<1> QED BY <1>1, <1>2 DEF Media

LEMMA Mapped ==
  ASSUME PromiseIInv, [Next]_vars
  PROVE  PStep
<1>1. CASE UNCHANGED vars
  <2>1. SameCall /\ SamePermit /\ SameSession /\ SameLine /\ SameReady /\ SameTold /\ tx' = tx
    BY <1>1, CallKept, PermitKept DEF vars, SameSession, SameLine, SameWire, SameReady, SameTold
  <2> QED BY <2>1, Stays
<1>2. CASE Board \/ BoardCalls
  BY <1>2, AsideSteps, QueueSteps, CancelSteps, StopJoinedStep, StartStep, StreamSteps
  DEF Board, BoardCalls, PromiseIInv, IInv
<1>3. CASE Cloud \/ Offline \/ Online \/ Mqtt \/ Offer
  BY <1>3, AsideSteps, QueueSteps, CancelSteps DEF Cloud, Mqtt, PromiseIInv, IInv
<1> QED BY <1>1, <1>2, <1>3, WorkerStep, ServerStep, MediaStep DEF Next

-----------------------------------------------------------------------------
(* The theorems *)

LEMMA InitTypes == Init => Types
<1> SUFFICES ASSUME Init PROVE Types
  OBVIOUS
<1>1. ctl \in Ctls /\ ctl.task = FALSE
  BY DEF Init, Ctls
<1>2. wk \in Wks /\ wk.pc = "none" /\ wk.flush = "no"
  BY NoGrantTyped, CallAssumption DEF Init, Wks, WorkerPcs
<1>3. med \in Meds
  BY Quiet DEF Init, Meds
<1>4. wifi \in Wifis /\ srv \in Srvs /\ used \in Useds
  BY DEF Init, Wifis, Srvs, Useds
<1>5. brd \in Brds
  BY DEF Init, Brds
<1>6. grants \in Seq(Grants) /\ Len(grants) <= 1 /\ tx \in Seq(Nat) /\ Len(tx) <= TxDepth
  BY CallAssumption DEF Init
<1>7. cld \in {"idle", "cancel", "update"} /\ mq \in {"idle", "offer"}
  BY DEF Init
<1>8. TypeOK
  BY <1>1, <1>2, <1>3, <1>4, <1>5, <1>6, <1>7 DEF TypeOK, Ctls, Wks, Meds, Wifis, Srvs, Useds, Brds
<1> QED BY <1>1, <1>2, <1>8 DEF Types, TaskIsWorker, BudgetLeft, Flushing

LEMMA InitIInv == Init => IInv
<1> SUFFICES ASSUME Init PROVE IInv
  OBVIOUS
<1>1. Types
  BY InitTypes
<1>2. LinkInv
  BY DEF Init, LinkInv, MediaUnderWorker, ReadyUnderWorker, Recorded, LinkHonest
<1>3. GrantInv
  BY DEF Init, GrantInv, Queued, Tokens, Retried, BackoffRetries, Asks, Holds
<1>4. Epochs /\ Stopped /\ Fresh /\ Finished /\ Kinded /\ Unwanted /\ RecoveringIsRetry
  BY DEF Init, NoGrant, Epochs, Stopped, Fresh, Finished, Kinded, Unwanted, RecoveringIsRetry
<1>5. UndoIsAlone /\ Wanted
  BY DEF Init, UndoIsAlone, Wanted, CallExists
<1> QED BY <1>1, <1>2, <1>3, <1>4, <1>5 DEF IInv, FlagInv

LEMMA Inductive == IInv /\ [Next]_vars => IInv'
BY TypeStep, LinkStep, GrantStep, FlagStep DEF IInv

LEMMA Safe == Spec => []IInv
BY InitIInv, Inductive, PTL DEF Spec

\* Every variable has its type: at most one grant waits, no more packets than the queue holds, no more retries in a
\* row than the budget, for any budget and any depth (QueueGrant, stream_write, RetryBudget).
THEOREM TypeCorrect == Spec => []TypeOK
<1>1. IInv => TypeOK
  BY DEF IInv, Types
<1> QED BY <1>1, Safe, PTL

\* READY is said to the board only while a connection is open or being taken down (MediaLoop, Call::Stop, UpdateLink).
THEOREM LinkIsHonest == Spec => []LinkHonest
<1>1. IInv => LinkHonest
  BY DEF IInv, LinkInv
<1> QED BY <1>1, Safe, PTL

\* No packet of the microphone goes out on another connection than the one it was recorded for (ResetInput, FlushTx).
THEOREM UplinkIsOfTheCall == Spec => UplinkBelongs
<1>1. IInv /\ FlushTakes => Head(tx) = wk.conn
  <2> SUFFICES ASSUME IInv, FlushTakes PROVE Head(tx) = wk.conn
    OBVIOUS
  <2>1. 1 \in DOMAIN tx /\ Head(tx) = tx[1]
    BY DEF IInv, FlushTakes
  <2> QED BY <2>1 DEF IInv, LinkInv, Recorded
<1>2. IInv /\ [Next]_vars => [FlushTakes => Head(tx) = wk.conn]_vars
  BY <1>1
<1> QED BY <1>2, Safe, PTL DEF Spec, UplinkBelongs

\* A connect token is shown once, and what the server granted is given back before the next call is taken, unless the
\* grant or its release was lost on the way (Worker, cloud_platform_end_grant).
THEOREM GrantsAreGivenBack == Spec => []GrantDiscipline
<1>1. IInv => GrantDiscipline
  BY DEF IInv, GrantInv, Tokens, Holds, GrantDiscipline, TokensOnce, SessionReleased, WkAt
<1> QED BY <1>1, Safe, PTL

\* realtime_running and realtime_recovering tell the truth between two calls of the board, but for a request crossed
\* by the loss of the platform or a stream cut short, and a call that runs on while another could not be asked for
\* (QueueGrant, FinishGrant, SetRecovering, request_realtime).
THEOREM FlagsAreTrue == Spec => []FlagsTellTruth
<1>1. IInv => FlagsTellTruth
  <2> SUFFICES ASSUME IInv PROVE FlagsTellTruth
    OBVIOUS
  <2>1. RecoveringIsRetry /\ Wanted
    BY DEF IInv, FlagInv
  <2>2. ASSUME Settled, ~brd.crossed, ~brd.cut PROVE RunningIsCall /\ (CallIsRunning \/ brd.refused)
    BY <2>1, <2>2 DEF Settled, BrdAt, Wanted, Faithful, RunningIsCall, CallIsRunning
  <2> QED BY <2>1, <2>2 DEF FlagsTellTruth
<1> QED BY <1>1, Safe, PTL

LEMMA PromiseStart ==
  ASSUME Init
  PROVE  PromiseIInv /\ Promise!LInit
<1>1. IInv
  BY InitIInv
<1>2. PromiseInv /\ ReadyIsLine
  BY DEF Init, PromiseInv, LineIsMedia, HeldWhileNeeded, OneKind, Bare, ReadyIsLine
<1>3. ctl.epoch = 0 /\ med.pc = "none" /\ wk.conn = 0 /\ ~srv.held /\ ctl.ready = FALSE /\ tx = <<>>
      /\ wifi.link # "ready" /\ wk.flush = "no"
  BY DEF Init
<1>4. CallExists = FALSE /\ HasPermit = FALSE
  BY DEF Init, CallExists, HasPermit
<1>5. TheCall \in [number : {0}, wanted : {FALSE}, offered : BOOLEAN]
  BY <1>3, <1>4 DEF TheCall
<1>6. TheSession = "none" /\ TheLine = [open |-> FALSE, of |-> 0, number |-> 0]
  BY <1>3 DEF TheSession, TheLine
<1>7. Promise!LInit
  BY <1>3, <1>4, <1>5, <1>6 DEF Promise!LInit
<1> QED BY <1>1, <1>2, <1>7 DEF PromiseIInv

LEMMA PromiseSafe == Spec => []PromiseIInv
<1>1. Init => PromiseIInv
  BY PromiseStart
<1>2. PromiseIInv /\ [Next]_vars => PromiseIInv'
  BY PromiseStep
<1> QED BY <1>1, <1>2, PTL DEF Spec

\* The calls keep the promises of LiveCall, step by step: one line at a time, dialled for the newest call while it is
\* wanted and with a token used once; what is said is heard on the line it was said into or nowhere, and once the call
\* is cancelled no more than the packet whose sending had begun; and a call that comes to its end has closed its line,
\* told the board and given the session back (Worker, MediaLoop, cloud_realtime_cancel, FlushTx, ResetInput).
THEOREM PromisesAreKept == Spec => KeepsPromise
<1>1. Init => Promise!LInit
  BY PromiseStart
<1>2. PromiseIInv /\ [Next]_vars => [Promise!LNext]_(Promise!lvars)
  BY Mapped DEF PStep
<1> QED BY <1>1, <1>2, PromiseSafe, PTL DEF Spec, KeepsPromise, Promise!LSpec

==============================================================================
