----------------------------- MODULE OtaUpgrade -----------------------------
(***************************************************************************)
(* Firmware upgrade over BLE: the engine of ota/ota_service.cpp together   *)
(* with the receive gate of the L2CAP data channel that feeds it           *)
(* (transports/ble/transport_ble.cpp).                                     *)
(*                                                                         *)
(* Three kinds of threads share the engine's atomics: the NimBLE host task *)
(* (host: one handler at a time), the OTA worker tasks (wk: one per        *)
(* accepted session; the exit path of an old one may overlap the next      *)
(* session), and a board task inside agent_link_ota_abort (board).  An     *)
(* action is what one thread does between two accesses to state another    *)
(* thread can change.  The App, the link, the mbuf pool, the flash and the *)
(* power supply are the environment.                                       *)
(*                                                                         *)
(* A 512-byte slice of firmware is a unit <<s, k>>: the k-th slice of the  *)
(* image announced by the s-th accepted session.  SHA-256 is ideal: two    *)
(* digests agree exactly when the hashed sequences do.                     *)
(***************************************************************************)
EXTENDS Naturals, Sequences, FiniteSets

CONSTANTS
  Workers,      \* task slots; bounds the exit paths that may still be running
  BufCap,       \* ring buffer capacity, in slices (kBufBytes)
  GateFloor,    \* kGateFloor, in slices: two SDUs
  MaxSdu,       \* slices in the largest SDU (our_coc_mtu)
  FlashChunk,   \* slices in one esp_ota_write (kFlashChunk)
  FwSize,       \* slices in every announced image
  IdleMax,      \* empty polls before the receive timeout (kIdleTimeoutMs / kPollMs)
  MaxSessions,  \* bound: upgrades accepted
  MaxChans,     \* bound: data channels opened
  MaxFaults,    \* bound: environment faults
  Faults        \* which environment faults happen in this instance

FaultKinds == {"pool_host", "pool_worker", "begin", "write", "image", "bootsel", "task",
               "power", "link", "channel", "audio", "appabort", "boardabort"}

ASSUME OtaAssumption ==
  /\ BufCap \in Nat \ {0} /\ GateFloor \in Nat /\ MaxSdu \in Nat \ {0}
  /\ FlashChunk \in Nat \ {0} /\ FwSize \in Nat \ {0} /\ IdleMax \in Nat \ {0}
  /\ MaxSessions \in Nat /\ MaxChans \in Nat /\ MaxFaults \in Nat
  /\ Faults \subseteq FaultKinds

Parts == {"ota_0", "ota_1"}
Other(p) == IF p = "ota_0" THEN "ota_1" ELSE "ota_0"
NoPart == "none"

Sessions == 1..MaxSessions
Units == (0..MaxSessions) \X (1..FwSize)
Image(s) == [k \in 1..FwSize |-> <<s, k>>]     \* session 0: the factory image

Least(a, b) == IF a < b THEN a ELSE b
Most(a, b) == IF a > b THEN a ELSE b
RxGateMinFree == Least(Most(BufCap \div 4, GateFloor), BufCap \div 2)

VARIABLES
  ota,     \* ota_service.cpp: atomics, session metadata, ring buffer
  wk,      \* worker tasks: program counter and locals
  host,    \* NimBLE host task: program counter, slices of the SDU still to deliver
  board,   \* board task's program counter; the last state the board's callback heard
  l2c,     \* transport_ble.cpp: link, data channel (0: none), credit, rearm flag
  rom,     \* flash partitions and the boot loader's choice
  app,     \* sessions accepted so far, the one whose image the App pushes, its next slice
  reports, \* the terminal 0x38 codes each session has pushed
  faults   \* environment faults so far

vars == <<ota, wk, host, board, l2c, rom, app, reports, faults>>

States == {"IDLE", "RECEIVING", "VERIFYING", "SUCCESS", "FAILED"}

\* Worker program counters; inside ResumeL2capRx (Resuming) ret is where it returns to,
\* "notify" for the call of the exit path.
Working == {"begin", "loop", "recv", "poll", "expire", "write", "gate", "verify", "end",
            "bootsel", "success", "restart", "cleanup", "toidle"}
Resuming == {"resume", "claim", "rearm", "putback"}
WorkerPcs == {"free", "notify", "tell"} \cup Working \cup Resuming
HostPcs == {"idle", "slice", "send", "count", "hold", "abort"}

\* RAM after a reset.
Engine0 == [state |-> "IDLE", err |-> 0, received |-> 0, total |-> 0, abort |-> FALSE,
            part |-> NoPart, handle |-> FALSE, sha |-> <<>>, buf |-> <<>>]
Task0 == [pc |-> "free", written |-> 0, idle |-> 0, chunk |-> <<>>, ret |-> "free",
          chan |-> 0, snap |-> "IDLE"]
Host0 == [pc |-> "idle", sdu |-> <<>>]
Board0 == [pc |-> "idle", view |-> "IDLE"]

Init ==
  /\ ota = Engine0
  /\ wk = [w \in Workers |-> Task0]
  /\ host = Host0
  /\ board = Board0
  /\ l2c = [link |-> FALSE, chan |-> 0, opened |-> 0, credit |-> 0, rearm_pending |-> FALSE]
  /\ rom = [flash |-> [p \in Parts |-> IF p = "ota_0" THEN Image(0) ELSE <<>>],
            boot |-> "ota_0", running |-> "ota_0", img |-> [p \in Parts |-> "valid"]]
  /\ app = [sid |-> 0, pushing |-> 0, next |-> 1]
  /\ reports = [s \in Sessions |-> <<>>]
  /\ faults = 0

Fault(k) == k \in Faults /\ faults < MaxFaults /\ faults' = faults + 1

-----------------------------------------------------------------------------
(* Engine queries *)

IsBusy == ota.state \in {"RECEIVING", "VERIFYING"}
SpaceLeft == BufCap - Len(ota.buf)

\* Mutant of WantsMore: the reserve for SDUs under way is forgotten.
WantsMoreNoReserve == ota.state = "RECEIVING" => SpaceLeft > 0

\* RX gate: FALSE holds the peer's credit back.
WantsMore == ota.state = "RECEIVING" => SpaceLeft >= RxGateMinFree

\* A worker task that may still touch the session's flash, digest and buffer.
Owns(w) == wk[w].pc \in Working \/ (wk[w].pc \in Resuming /\ wk[w].ret # "notify")

-----------------------------------------------------------------------------
(* OTA worker task *)

At(w, pc) == wk[w].pc = pc
Goto(w, pc) == wk' = [wk EXCEPT ![w].pc = pc]
\* Call the transport's ResumeRxHook, then continue at pc.
CallResume(w, pc) == wk' = [wk EXCEPT ![w].pc = "resume", ![w].ret = pc]

\* FailWith on engine state o: error code, FAILED, terminal 0x38 and board callback.
FailWith(w, code, o) ==
  /\ ota' = [o EXCEPT !.err = code, !.state = "FAILED"]
  /\ reports' = [reports EXCEPT ![app.sid] = Append(@, code)]
  /\ board' = [board EXCEPT !.view = "FAILED"]
  /\ Goto(w, "cleanup")

Erased == [rom EXCEPT !.flash[ota.part] = <<>>]

\* esp_ota_begin erases the target partition; then the digest and the staging chunk.
Begin(w) ==
  /\ At(w, "begin")
  /\ rom' = Erased
  /\ ota' = [ota EXCEPT !.handle = TRUE, !.sha = <<>>]
  /\ Goto(w, "loop")
  /\ UNCHANGED <<host, board, l2c, app, reports, faults>>

\* esp_ota_begin refuses (2032), or what follows it fails with the handle open (1005).
BeginFails(w) ==
  /\ At(w, "begin")
  /\ Fault("begin")
  /\ \/ FailWith(w, 2032, ota) /\ UNCHANGED rom
     \/ FailWith(w, 1005, [ota EXCEPT !.handle = TRUE]) /\ rom' = Erased
  /\ UNCHANGED <<host, l2c, app>>

\* Top of the receive loop: all bytes in, an abort, or read on.
LoopDone(w) ==
  /\ At(w, "loop") /\ wk[w].written >= ota.total
  /\ ota' = [ota EXCEPT !.state = "VERIFYING"]
  /\ board' = [board EXCEPT !.view = "VERIFYING"]
  /\ Goto(w, "verify")
  /\ UNCHANGED <<host, l2c, rom, app, reports, faults>>

LoopAborted(w) ==
  /\ At(w, "loop") /\ wk[w].written < ota.total
  /\ ota.abort
  /\ FailWith(w, 2035, ota)
  /\ UNCHANGED <<host, l2c, rom, app, faults>>

LoopReads(w) ==
  /\ At(w, "loop") /\ wk[w].written < ota.total
  /\ ~ota.abort
  /\ Goto(w, "recv")
  /\ UNCHANGED <<ota, host, board, l2c, rom, app, reports, faults>>

\* xStreamBufferReceive returns what is there, at most one flash chunk of what is missing.
Receive(w) ==
  /\ At(w, "recv") /\ ota.buf # <<>>
  /\ LET got == Least(Least(FlashChunk, ota.total - wk[w].written), Len(ota.buf)) IN
       /\ wk' = [wk EXCEPT ![w].pc = "write", ![w].idle = 0,
                           ![w].chunk = SubSeq(ota.buf, 1, got)]
       /\ ota' = [ota EXCEPT !.buf = SubSeq(@, got + 1, Len(@))]
  /\ UNCHANGED <<host, board, l2c, rom, app, reports, faults>>

\* Mutant of ReceiveEmpty: an empty poll does not add to idle_ms.
ReceiveEmptyForgets(w) ==
  /\ At(w, "recv") /\ ota.buf = <<>>
  /\ host.pc = "idle" /\ \A v \in Workers : wk[v].pc \notin Resuming
  /\ wk' = [wk EXCEPT ![w].pc = "poll", ![w].idle = 0]
  /\ UNCHANGED <<ota, host, board, l2c, rom, app, reports, faults>>

\* xStreamBufferReceive waited kPollMs for nothing.  Half a second is far longer than a host
\* handler or a call of ResumeL2capRx: none is under way the whole time.
ReceiveEmpty(w) ==
  /\ At(w, "recv") /\ ota.buf = <<>>
  /\ host.pc = "idle" /\ \A v \in Workers : wk[v].pc \notin Resuming
  /\ wk' = [wk EXCEPT ![w].pc = "poll", ![w].idle = @ + 1]
  /\ UNCHANGED <<ota, host, board, l2c, rom, app, reports, faults>>

\* Mutant of PollGate: an empty poll does not retry.
PollGateNoRetry(w) ==
  /\ At(w, "poll")
  /\ Goto(w, "expire")
  /\ UNCHANGED <<ota, host, board, l2c, rom, app, reports, faults>>

\* "Retry lifting the gate", the backstop of an empty poll.
PollGate(w) ==
  /\ At(w, "poll")
  /\ IF WantsMore THEN CallResume(w, "expire") ELSE Goto(w, "expire")
  /\ UNCHANGED <<ota, host, board, l2c, rom, app, reports, faults>>

PollAgain(w) ==
  /\ At(w, "expire") /\ wk[w].idle < IdleMax
  /\ Goto(w, "loop")
  /\ UNCHANGED <<ota, host, board, l2c, rom, app, reports, faults>>

ReceiveTimeout(w) ==
  /\ At(w, "expire") /\ wk[w].idle >= IdleMax
  /\ FailWith(w, 2033, ota)
  /\ UNCHANGED <<host, l2c, rom, app, faults>>

\* Digest and flash take the chunk in this order, and it counts only when both did.
WriteChunk(w) ==
  /\ At(w, "write")
  /\ ota' = [ota EXCEPT !.sha = @ \o wk[w].chunk]
  /\ rom' = [rom EXCEPT !.flash[ota.part] = @ \o wk[w].chunk]
  /\ wk' = [wk EXCEPT ![w].pc = "gate", ![w].chunk = <<>>,
                      ![w].written = @ + Len(wk[w].chunk)]
  /\ UNCHANGED <<host, board, l2c, app, reports, faults>>

\* The digest does not take the chunk (1005), or the flash does not (2033).
WriteFails(w) ==
  /\ At(w, "write")
  /\ Fault("write")
  /\ \E code \in {1005, 2033} : FailWith(w, code, [ota EXCEPT !.sha = @ \o wk[w].chunk])
  /\ UNCHANGED <<host, l2c, rom, app>>

\* Space was freed: lift the gate; then a progress report, unless throttled.
LiftGate(w) ==
  /\ At(w, "gate")
  /\ IF WantsMore THEN CallResume(w, "loop") ELSE Goto(w, "loop")
  /\ board' \in {board, [board EXCEPT !.view = ota.state]}
  /\ UNCHANGED <<ota, host, l2c, rom, app, reports, faults>>

\* Mutant of Verify: the number of bytes is checked, not the digest.
VerifyLength(w) ==
  /\ At(w, "verify")
  /\ \/ /\ IF Len(ota.sha) = FwSize
             THEN Goto(w, "end") /\ UNCHANGED <<ota, board, reports>>
             ELSE FailWith(w, 2034, ota)
        /\ UNCHANGED faults
     \/ Fault("write") /\ FailWith(w, 1005, ota)
  /\ UNCHANGED <<host, l2c, rom, app>>

\* The digest is not the one announced (2034), or cannot be finished (1005).
Verify(w) ==
  /\ At(w, "verify")
  /\ \/ /\ IF ota.sha = Image(app.sid)
             THEN Goto(w, "end") /\ UNCHANGED <<ota, board, reports>>
             ELSE FailWith(w, 2034, ota)
        /\ UNCHANGED faults
     \/ Fault("write") /\ FailWith(w, 1005, ota)
  /\ UNCHANGED <<host, l2c, rom, app>>

\* Mutant of EndImage: a refused image is reported, and then selected all the same.
EndImageGoesOn(w) ==
  /\ At(w, "end")
  /\ ota' = [ota EXCEPT !.handle = FALSE]
  /\ Goto(w, "bootsel")
  /\ \/ UNCHANGED <<reports, faults>>
     \/ Fault("image") /\ reports' = [reports EXCEPT ![app.sid] = Append(@, 2036)]
  /\ UNCHANGED <<board, host, l2c, rom, app>>

\* esp_ota_end spends the handle whether or not it accepts the image.
EndImage(w) ==
  /\ At(w, "end")
  /\ \/ /\ ota' = [ota EXCEPT !.handle = FALSE]
        /\ Goto(w, "bootsel")
        /\ UNCHANGED <<board, reports, faults>>
     \/ Fault("image") /\ FailWith(w, 2036, [ota EXCEPT !.handle = FALSE])
  /\ UNCHANGED <<host, l2c, rom, app>>

\* Mutant of SelectBoot: the new image is not put on trial.
SelectBootNoTrial(w) ==
  /\ At(w, "bootsel")
  /\ \/ /\ rom' = [rom EXCEPT !.boot = ota.part, !.img[ota.part] = "valid"]
        /\ Goto(w, "success")
        /\ UNCHANGED <<ota, board, reports, faults>>
     \/ Fault("bootsel") /\ FailWith(w, 2032, ota) /\ UNCHANGED rom
  /\ UNCHANGED <<host, l2c, app>>

\* esp_ota_set_boot_partition: the next boot tries the new image.
SelectBoot(w) ==
  /\ At(w, "bootsel")
  /\ \/ /\ rom' = [rom EXCEPT !.boot = ota.part, !.img[ota.part] = "new"]
        /\ Goto(w, "success")
        /\ UNCHANGED <<ota, board, reports, faults>>
     \/ Fault("bootsel") /\ FailWith(w, 2032, ota) /\ UNCHANGED rom
  /\ UNCHANGED <<host, l2c, app>>

\* Terminal report, then kRebootDelayMs before esp_restart (Restart).
Succeed(w) ==
  /\ At(w, "success")
  /\ ota' = [ota EXCEPT !.state = "SUCCESS"]
  /\ reports' = [reports EXCEPT ![app.sid] = Append(@, 0)]
  /\ board' = [board EXCEPT !.view = "SUCCESS"]
  /\ Goto(w, "restart")
  /\ UNCHANGED <<host, l2c, rom, app, faults>>

\* Failure exit.  The error code survives.
CleanedUp == [Engine0 EXCEPT !.state = ota.state, !.err = ota.err]

Cleanup(w) ==
  /\ At(w, "cleanup")
  /\ ota' = CleanedUp
  /\ Goto(w, "toidle")
  /\ UNCHANGED <<host, board, l2c, rom, app, reports, faults>>

\* The session is over: IDLE, then lift the gate whatever WantsMore says.
ToIdle(w) ==
  /\ At(w, "toidle")
  /\ ota' = [ota EXCEPT !.state = "IDLE"]
  /\ CallResume(w, "notify")
  /\ UNCHANGED <<host, board, l2c, rom, app, reports, faults>>

\* Mutant of NotifySnapshot: the snapshot is the one the failure was reported with.
NotifySnapshotFailed(w) ==
  /\ At(w, "notify")
  /\ wk' = [wk EXCEPT ![w].pc = "tell", ![w].snap = "FAILED"]
  /\ UNCHANGED <<ota, host, board, l2c, rom, app, reports, faults>>

\* NotifyBoard reads a snapshot, then calls the board with it; the task deletes itself.
NotifySnapshot(w) ==
  /\ At(w, "notify")
  /\ wk' = [wk EXCEPT ![w].pc = "tell", ![w].snap = ota.state]
  /\ UNCHANGED <<ota, host, board, l2c, rom, app, reports, faults>>

NotifyTell(w) ==
  /\ At(w, "tell")
  /\ board' = [board EXCEPT !.view = wk[w].snap]
  /\ wk' = [wk EXCEPT ![w] = Task0]
  /\ UNCHANGED <<ota, host, l2c, rom, app, reports, faults>>

-----------------------------------------------------------------------------
(* ResumeL2capRx, run by a worker task *)

Returned(w) == [wk EXCEPT ![w].pc = wk[w].ret, ![w].ret = "free", ![w].chan = 0]

\* One load of the flag and a snapshot of the channel.
ResumeCheck(w) ==
  /\ At(w, "resume")
  /\ wk' = IF l2c.rearm_pending /\ l2c.chan # 0
             THEN [wk EXCEPT ![w].pc = "claim", ![w].chan = l2c.chan]
             ELSE Returned(w)
  /\ UNCHANGED <<ota, host, board, l2c, rom, app, reports, faults>>

\* exchange(false): whoever turns the flag off does the rearm.
ResumeClaim(w) ==
  /\ At(w, "claim")
  /\ l2c' = [l2c EXCEPT !.rearm_pending = FALSE]
  /\ IF l2c.rearm_pending THEN Goto(w, "rearm") ELSE wk' = Returned(w)
  /\ UNCHANGED <<ota, host, board, rom, app, reports, faults>>

\* Mutant of ResumeRearm: a failed rearm is not put back.
ResumeRearmForgets(w) ==
  /\ At(w, "rearm")
  /\ \/ /\ l2c' = [l2c EXCEPT !.credit = IF wk[w].chan = l2c.chan THEN @ + 1 ELSE @]
        /\ UNCHANGED faults
     \/ Fault("pool_worker") /\ UNCHANGED l2c
  /\ wk' = Returned(w)
  /\ UNCHANGED <<ota, host, board, rom, app, reports>>

\* RearmL2capRx on the snapshot grants the peer one more SDU, unless the mbuf pool is empty.
\* A snapshot of a channel freed since grants nothing, and may report either outcome.
ResumeRearm(w) ==
  /\ At(w, "rearm")
  /\ \/ /\ l2c' = [l2c EXCEPT !.credit = IF wk[w].chan = l2c.chan THEN @ + 1 ELSE @]
        /\ wk' = Returned(w)
        /\ UNCHANGED faults
     \/ Fault("pool_worker") /\ Goto(w, "putback") /\ UNCHANGED l2c
     \/ wk[w].chan # l2c.chan /\ Goto(w, "putback") /\ UNCHANGED <<l2c, faults>>
  /\ UNCHANGED <<ota, host, board, rom, app, reports>>

\* The rearm failed: the flag goes back up for the next caller.
ResumePutBack(w) ==
  /\ At(w, "putback")
  /\ l2c' = [l2c EXCEPT !.rearm_pending = TRUE]
  /\ wk' = Returned(w)
  /\ UNCHANGED <<ota, host, board, rom, app, reports, faults>>

-----------------------------------------------------------------------------
(* NimBLE host task: 0x37, 0x56, L2CAP and GAP events.  A handler starts when the task is
   idle.  ota::Abort asks IsBusy first and stores the flag in a second step. *)

HostGoto(pc) == host' = [host EXCEPT !.pc = pc]
AbortFromHost == HostGoto(IF IsBusy THEN "abort" ELSE "idle")

\* Mutant of CanStart: a second 0x37 is accepted while an upgrade runs.
CanStartAgain == host.pc = "idle" /\ l2c.link /\ l2c.chan # 0

CanStart == host.pc = "idle" /\ l2c.link /\ l2c.chan # 0 /\ ota.state = "IDLE"

\* What Start writes, for the partition that is not running.
NewSession ==
  [Engine0 EXCEPT !.state = "RECEIVING", !.total = FwSize, !.part = Other(rom.running),
                  !.handle = ota.handle, !.sha = ota.sha]

\* 0x37 accepted: session metadata, RECEIVING, board callback, a fresh worker task.  A refusal
\* (not idle, no channel, model, version, size) changes nothing.
StartOta(w) ==
  /\ CanStart
  /\ At(w, "free") /\ app.sid < MaxSessions
  /\ ota' = NewSession
  /\ board' = [board EXCEPT !.view = "RECEIVING"]
  /\ app' = [app EXCEPT !.sid = @ + 1]
  /\ Goto(w, "begin")
  /\ UNCHANGED <<host, l2c, rom, reports, faults>>

\* xTaskCreate failed: 1005.  The board has been told RECEIVING and is told nothing more.
StartOtaNoTask ==
  /\ CanStart
  /\ Fault("task")
  /\ ota' = Engine0
  /\ board' = [board EXCEPT !.view = "RECEIVING"]
  /\ UNCHANGED <<wk, host, l2c, rom, app, reports>>

\* 0x56.
AbortOta ==
  /\ host.pc = "idle" /\ l2c.link
  /\ Fault("appabort")
  /\ AbortFromHost
  /\ UNCHANGED <<ota, wk, board, l2c, rom, app, reports>>

AbortStore ==
  /\ host.pc = "abort"
  /\ ota' = [ota EXCEPT !.abort = TRUE]
  /\ HostGoto("idle")
  /\ UNCHANGED <<wk, board, l2c, rom, app, reports, faults>>

\* COC_DATA_RECEIVED: IsBusy decides once where the whole SDU goes; audio leaves the model.
DataReceived(slices) ==
  /\ host.pc = "idle" /\ l2c.chan # 0 /\ l2c.credit > 0
  /\ l2c' = [l2c EXCEPT !.credit = @ - 1]
  /\ host' = [pc |-> "slice", sdu |-> IF IsBusy THEN slices ELSE <<>>]

\* The App pushes the next slices of an accepted image: the newest, or one it has not left yet.
AppPush(n) ==
  /\ app.pushing > 0 /\ app.next + n <= FwSize + 1
  /\ DataReceived([k \in 1..n |-> <<app.pushing, app.next + k - 1>>])
  /\ app' = [app EXCEPT !.next = @ + n]
  /\ UNCHANGED <<ota, wk, board, rom, reports, faults>>

\* Downlink audio still under way on the same channel.
AppAudio ==
  /\ Fault("audio")
  /\ DataReceived(<< <<0, 1>> >>)
  /\ UNCHANGED <<ota, wk, board, rom, app, reports>>

\* Having seen the acknowledgement, the App turns to the new session's image.
AppSwitch ==
  /\ app.pushing < app.sid
  /\ app' = [app EXCEPT !.pushing = app.sid, !.next = 1]
  /\ UNCHANGED <<ota, wk, host, board, l2c, rom, reports, faults>>

\* FeedData: the state check, then the send, then the byte count.
SliceCheck ==
  /\ host.pc = "slice" /\ host.sdu # <<>>
  /\ IF ota.state = "RECEIVING" THEN HostGoto("send") ELSE host' = [host EXCEPT !.sdu = Tail(@)]
  /\ UNCHANGED <<ota, wk, board, l2c, rom, app, reports, faults>>

SliceSend ==
  /\ host.pc = "send"
  /\ IF SpaceLeft > 0
       THEN /\ ota' = [ota EXCEPT !.buf = Append(@, Head(host.sdu))]
            /\ host' = [pc |-> "count", sdu |-> Tail(host.sdu)]
       ELSE /\ host' = [pc |-> "slice", sdu |-> Tail(host.sdu)]
            /\ UNCHANGED ota
  /\ UNCHANGED <<wk, board, l2c, rom, app, reports, faults>>

SliceCount ==
  /\ host.pc = "count"
  /\ ota' = [ota EXCEPT !.received = @ + 1]
  /\ HostGoto("slice")
  /\ UNCHANGED <<wk, board, l2c, rom, app, reports, faults>>

\* After the last slice: replenish the peer's credit, unless the gate is shut.  The result of
\* RearmL2capRx is ignored, so an empty mbuf pool leaves neither credit nor flag.
DataRearm ==
  /\ host.pc = "slice" /\ host.sdu = <<>>
  /\ IF WantsMore
       THEN /\ \/ l2c' = [l2c EXCEPT !.credit = @ + 1] /\ UNCHANGED faults
               \/ Fault("pool_host") /\ UNCHANGED l2c
            /\ HostGoto("idle")
       ELSE HostGoto("hold") /\ UNCHANGED <<l2c, faults>>
  /\ UNCHANGED <<ota, wk, board, rom, app, reports>>

DataHold ==
  /\ host.pc = "hold"
  /\ l2c' = [l2c EXCEPT !.rearm_pending = TRUE]
  /\ HostGoto("idle")
  /\ UNCHANGED <<ota, wk, board, rom, app, reports, faults>>

\* An authorised link is up: the image that is running is confirmed (mark_valid).
LinkUp ==
  /\ host.pc = "idle" /\ ~l2c.link
  /\ l2c' = [l2c EXCEPT !.link = TRUE]
  /\ rom' = [rom EXCEPT !.img[rom.running] = IF @ = "pending" THEN "valid" ELSE @]
  /\ UNCHANGED <<ota, wk, host, board, app, reports, faults>>

\* COC_ACCEPT arms the first receive buffer, COC_CONNECTED publishes the channel.
ChannelUp ==
  /\ host.pc = "idle" /\ l2c.link /\ l2c.chan = 0 /\ l2c.opened < MaxChans
  /\ l2c' = [l2c EXCEPT !.chan = l2c.opened + 1, !.opened = @ + 1, !.credit = 1]
  /\ UNCHANGED <<ota, wk, host, board, rom, app, reports, faults>>

ChannelLost(linked) ==
  l2c' = [l2c EXCEPT !.link = linked, !.chan = 0, !.credit = 0, !.rearm_pending = FALSE]

\* COC_DISCONNECTED on the data channel.
ChannelDown ==
  /\ host.pc = "idle" /\ l2c.chan # 0
  /\ Fault("channel")
  /\ ChannelLost(l2c.link)
  /\ AbortFromHost
  /\ UNCHANGED <<ota, wk, board, rom, app, reports>>

\* GAP DISCONNECT; the core then aborts through ota::OnLinkState.
LinkDown ==
  /\ host.pc = "idle" /\ l2c.link
  /\ Fault("link")
  /\ ChannelLost(FALSE)
  /\ AbortFromHost
  /\ UNCHANGED <<ota, wk, board, rom, app, reports>>

-----------------------------------------------------------------------------
(* Board task: agent_link_ota_abort *)

BoardAbort ==
  /\ board.pc = "idle" /\ IsBusy
  /\ Fault("boardabort")
  /\ board' = [board EXCEPT !.pc = "store"]
  /\ UNCHANGED <<ota, wk, host, l2c, rom, app, reports>>

BoardAbortStore ==
  /\ board.pc = "store"
  /\ ota' = [ota EXCEPT !.abort = TRUE]
  /\ board' = [board EXCEPT !.pc = "idle"]
  /\ UNCHANGED <<wk, host, l2c, rom, app, reports, faults>>

-----------------------------------------------------------------------------
(* Reset: RAM is lost, and the rollback-enabled boot loader picks an image.  A new image is
   tried once; one that was never confirmed is given up for the other partition. *)

BootLoader ==
  CASE rom.img[rom.boot] = "new" ->
         [rom EXCEPT !.img[rom.boot] = "pending", !.running = rom.boot]
    [] rom.img[rom.boot] = "pending" ->
         [rom EXCEPT !.img[rom.boot] = "aborted", !.boot = Other(@), !.running = Other(rom.boot)]
    [] OTHER -> [rom EXCEPT !.running = rom.boot]

Reset ==
  /\ ota' = Engine0 /\ wk' = [w \in Workers |-> Task0] /\ host' = Host0 /\ board' = Board0
  /\ ChannelLost(FALSE)
  /\ rom' = BootLoader
  /\ UNCHANGED <<app, reports>>

\* esp_restart after a successful upgrade.
Restart(w) == At(w, "restart") /\ Reset /\ UNCHANGED faults

PowerLoss == Fault("power") /\ Reset

-----------------------------------------------------------------------------

WorkerStep(w) ==
  \/ Begin(w) \/ BeginFails(w)
  \/ LoopDone(w) \/ LoopAborted(w) \/ LoopReads(w)
  \/ Receive(w) \/ ReceiveEmpty(w) \/ PollGate(w) \/ PollAgain(w) \/ ReceiveTimeout(w)
  \/ WriteChunk(w) \/ WriteFails(w) \/ LiftGate(w)
  \/ Verify(w) \/ EndImage(w) \/ SelectBoot(w) \/ Succeed(w) \/ Restart(w)
  \/ Cleanup(w) \/ ToIdle(w) \/ NotifySnapshot(w) \/ NotifyTell(w)
  \/ ResumeCheck(w) \/ ResumeClaim(w) \/ ResumeRearm(w) \/ ResumePutBack(w)

\* What the host task does once a handler has started.
HostStep == AbortStore \/ SliceCheck \/ SliceSend \/ SliceCount \/ DataRearm \/ DataHold

Environment ==
  \/ \E w \in Workers : StartOta(w)
  \/ StartOtaNoTask \/ AbortOta
  \/ \E n \in 1..MaxSdu : AppPush(n)
  \/ AppAudio \/ AppSwitch
  \/ LinkUp \/ ChannelUp \/ ChannelDown \/ LinkDown
  \/ BoardAbort \/ PowerLoss

Next ==
  \/ \E w \in Workers : WorkerStep(w)
  \/ HostStep \/ BoardAbortStore
  \/ Environment

\* The scheduler runs every ready task; nothing is assumed of the App, the link or the board.
Fairness ==
  /\ \A w \in Workers : WF_vars(WorkerStep(w))
  /\ WF_vars(HostStep)
  /\ WF_vars(BoardAbortStore)

Spec == Init /\ [][Next]_vars /\ Fairness

-----------------------------------------------------------------------------
(* Properties *)

Slices == Seq(Units)

Engines == [state : States, err : {0, 1005, 2032, 2033, 2034, 2035, 2036}, received : Nat,
            total : {0, FwSize}, abort : BOOLEAN, part : Parts \cup {NoPart},
            handle : BOOLEAN, sha : Slices, buf : Slices]
Tasks == [pc : WorkerPcs, written : Nat, idle : Nat, chunk : Slices,
          ret : {"free", "loop", "expire", "notify"}, chan : Nat, snap : States]
Roms == [flash : [Parts -> Slices], boot : Parts, running : Parts,
         img : [Parts -> {"valid", "new", "pending", "aborted"}]]

\* Every variable has its type.
TypeOK ==
  /\ ota \in Engines
  /\ wk \in [Workers -> Tasks]
  /\ host \in [pc : HostPcs, sdu : Slices]
  /\ board \in [pc : {"idle", "store"}, view : States]
  /\ l2c \in [link : BOOLEAN, chan : Nat, opened : Nat, credit : Nat, rearm_pending : BOOLEAN]
  /\ rom \in Roms
  /\ app \in [sid : 0..MaxSessions, pushing : 0..MaxSessions, next : Nat \ {0}]
  /\ reports \in [Sessions -> Seq(Nat)]
  /\ faults \in Nat

\* The session's flash, digest and buffer have at most one worker at a time, and have one
\* exactly while a session is open, although the next session may start while the task of the
\* previous one is still on its way out (WorkerTask's exit_worker, Start).
OneOwner ==
  /\ \A v, w \in Workers : Owns(v) /\ Owns(w) => v = w
  /\ ota.state # "IDLE" <=> \E w \in Workers : Owns(w)

Whole(slices) == \E s \in 0..MaxSessions : slices = Image(s)

\* Whatever is cut short, the partition the boot loader starts holds a whole image of a single
\* session, and while that image is unconfirmed so does the one it would fall back to.
BootableImage ==
  /\ Whole(rom.flash[rom.boot])
  /\ rom.img[rom.boot] \in {"new", "pending"} => Whole(rom.flash[Other(rom.boot)])

\* Why BootableImage is inductive.  Until the boot partition is switched the running image is
\* the one that boots, it is confirmed while a session is open, and the session writes the
\* other partition, whose content is what the digest has seen; after the switch the new
\* partition holds the session's image and awaits its trial.
Switched == \E w \in Workers : wk[w].pc \in {"success", "restart"}
Digesting(w) ==
  \/ wk[w].pc \in {"loop", "recv", "poll", "expire", "write", "gate", "verify", "end", "bootsel"}
  \/ wk[w].pc \in Resuming /\ wk[w].ret # "notify"

ControlInv ==
  /\ host.pc = "send" => host.sdu # <<>>
  /\ \A w \in Workers :
       /\ wk[w].pc \in Resuming => wk[w].ret # "free"
       /\ wk[w].pc = "recv" => wk[w].written < ota.total
       /\ Owns(w) => app.sid \in Sessions

ImageInv ==
  /\ Whole(rom.flash[rom.running])
  /\ rom.img[rom.running] # "new"
  /\ l2c.link => rom.img[rom.running] # "pending"
  /\ ~Switched => /\ rom.boot = rom.running
                  /\ rom.img[Other(rom.running)] # "new"
                  /\ rom.img[rom.running] = "pending" => Whole(rom.flash[Other(rom.running)])
  /\ Switched => /\ rom.boot = Other(rom.running)
                 /\ rom.img[rom.boot] = "new"
                 /\ rom.flash[rom.boot] = Image(app.sid)
  /\ \A w \in Workers :
       /\ Owns(w) => rom.img[rom.running] # "pending"
       /\ Owns(w) /\ wk[w].pc # "toidle" => ota.part = Other(rom.running)
       /\ Digesting(w) => rom.flash[ota.part] = ota.sha
       /\ wk[w].pc \in {"end", "bootsel"} => ota.sha = Image(app.sid)

IInv == TypeOK /\ ControlInv /\ OneOwner /\ ImageInv

\* A session is reported finished at most once, and one reported failed is never booted.
OneVerdict ==
  \A s \in Sessions :
    /\ Len(reports[s]) <= 1
    /\ rom.flash[rom.boot] = Image(s) => reports[s] \in {<<>>, <<0>>}

\* The receive gate stops the peer before the ring buffer overflows: FeedData never drops a
\* slice of an upgrade that can still succeed.
NoOverflow ==
  host.pc = "send" /\ ota.state = "RECEIVING" /\ ~ota.abort => SpaceLeft > 0

\* Between handlers, the right to send is never lost on an open data channel: the peer has
\* credit, or the rearm is owed, or a worker is carrying it out.  It can be lost in two ways:
\* by pool_host, and on a channel that follows a lost one, when a worker still in
\* ResumeL2capRx claims the new channel's flag and re-arms its snapshot of the old channel.
CreditAccounted ==
  host.pc = "idle" /\ l2c.chan # 0 =>
    l2c.credit > 0 \/ l2c.rearm_pending \/ \E w \in Workers : wk[w].pc \in {"rearm", "putback"}

\* An upgrade only times out because the peer sent nothing it was allowed to send (or sent it
\* as the last poll ran out), never because the device forgot to let it.
TimeoutIsPeersFault ==
  [][(\E w \in Workers : ReceiveTimeout(w)) =>
       l2c.chan = 0 \/ l2c.credit > 0 \/ host.pc # "idle" \/ ota.buf # <<>>]_vars

\* Every session ends, by failing or by rebooting, whatever App and link do.
SessionEnds == (ota.state # "IDLE") ~> (ota.state = "IDLE")

\* A board that was shown an upgrade hears that it is over: the notification of the exit path
\* is the one that says so (NotifyBoard).
BoardHearsEnd ==
  (ota.state = "IDLE" /\ board.view # "IDLE") ~> (ota.state # "IDLE" \/ board.view = "IDLE")

\* With the session over and its worker gone, the data channel is open again (exit_worker).
ChannelReopens ==
  (\A w \in Workers : At(w, "free")) /\ host.pc = "idle" /\ l2c.chan # 0 => l2c.credit > 0

\* The upgrade is an atomic install: AtomicInstall, with the session open until it fails or
\* until the boot partition has been switched.
Trial == rom.img[rom.boot] \in {"new", "pending"}
Contract == INSTANCE AtomicInstall WITH
  WholeImage <- Image,
  installed <- rom.flash[rom.boot],
  previous <- IF Trial THEN rom.flash[Other(rom.boot)] ELSE <<>>,
  trial <- Trial,
  session <- IF IsBusy /\ rom.boot = rom.running THEN app.sid ELSE 0,
  last <- app.sid
InstallsAtomically == Contract!ASpec

=============================================================================
