---------------------------- MODULE AudioDownlink ----------------------------
(***************************************************************************)
(* The App -> device audio path of audio/audio_downlink.cpp, driven by the *)
(* 0x05 VoiceReply handler of core/agent_link.cpp: codec negotiation,      *)
(* reassembly of ADPCM blocks and the flow control that keeps the App, who *)
(* sends far faster than real time, within the board's play buffer.        *)
(*                                                                         *)
(* Two threads: the transport task (rx) runs the command, data and link    *)
(* handlers one at a time; the esp_timer task (timer) runs Tick.  The      *)
(* mutex makes each locked section one action; the decision to send a flow *)
(* frame is taken inside it, the frame is sent outside it.                 *)
(*                                                                         *)
(* Time and audio are counted in units of one ADPCM block (about 32 ms of  *)
(* sound).  A unit passes only when both threads are at rest and the App   *)
(* has read its flow frames: handlers, timer and radio are quicker.        *)
(***************************************************************************)
EXTENDS Integers, Sequences

CONSTANTS
  BoardCap,     \* what the board's play buffer holds
  DeclaredCap,  \* s_buffer_ms: what the board declared (or kDefaultBufferMs)
  Metered,      \* the board registered a buffer level callback
  ProdPause,    \* kProdPauseMs
  ProdResume,   \* kProdResumeMs
  NearlyDry,    \* kNearlyDryMs
  TickEvery,    \* kTickMs
  FlipRepeats,  \* kFlipRepeats
  Reassert,     \* kReassertMs
  BlockLen,     \* pieces of an ADPCM block on the wire
  DefaultCodec, \* s_default_codec
  Codecs,       \* codecs the App uses
  MaxSdu,       \* pieces in the largest SDU
  Window,       \* SDUs under way
  Rate,         \* pieces the App gets out per unit of time
  BackToBack,   \* the App may start a reply while the last one still plays
  MaxTurns,     \* bound: replies
  MaxFaults,    \* bound: faults
  Faults        \* which faults happen

FaultKinds == {"loss", "timer", "link", "cut"}
AllCodecs == {"pcm", "adpcm"}

ASSUME DownlinkAssumption ==
  /\ BoardCap \in Nat /\ DeclaredCap \in Nat /\ Metered \in BOOLEAN /\ BackToBack \in BOOLEAN
  /\ ProdPause \in Nat /\ ProdResume \in Nat /\ NearlyDry \in Nat
  /\ TickEvery \in Nat \ {0} /\ FlipRepeats \in Nat /\ Reassert \in Nat \ {0}
  /\ BlockLen \in Nat \ {0} /\ Codecs \subseteq AllCodecs /\ DefaultCodec \in AllCodecs
  /\ MaxSdu \in Nat \ {0} /\ Window \in Nat \ {0} /\ Rate \in Nat
  /\ MaxTurns \in Nat /\ MaxFaults \in Nat /\ Faults \subseteq FaultKinds

Least(a, b) == IF a < b THEN a ELSE b
Most(a, b) == IF a > b THEN a ELSE b

VARIABLES
  dl,     \* audio_downlink.cpp: session, flow bookkeeping, codec, partial block; lead is
          \* s_delivered less the time since s_base_us, since the time from s_last_send_us
  timer,  \* s_ticker (created, running, time to expiry) and the Tick under way
  rx,     \* transport task: what it is doing
  board,  \* audio in the play buffer
  app,    \* the App: has it been told to pause, its codec, the piece of its block it sends next
  air,    \* SDUs under way to the device
  flow,   \* flow frames under way to the App: TRUE is PAUSE
  link, faults

vars == <<dl, timer, rx, board, app, air, flow, link, faults>>

Task0 == [pc |-> "idle", then |-> "idle", sdu |-> <<>>, out |-> <<>>, send |-> FALSE]

Init ==
  /\ dl = [armed |-> FALSE, paused |-> FALSE, repeats |-> 0, lead |-> 0, since |-> 0,
           codec |-> DefaultCodec, block |-> <<>>]
  /\ timer = [made |-> FALSE, on |-> FALSE, left |-> TickEvery, pc |-> "idle", pause |-> FALSE]
  /\ rx = Task0
  /\ board = 0
  /\ app = [talking |-> FALSE, muted |-> FALSE, codec |-> DefaultCodec, piece |-> 1,
            sent |-> FALSE, turn |-> 0, quota |-> Rate]
  /\ air = <<>> /\ flow = <<>> /\ link = TRUE /\ faults = 0

Fault(k) == k \in Faults /\ faults < MaxFaults /\ faults' = faults + 1

-----------------------------------------------------------------------------
(* Flow control, under s_mtx *)

PauseAt == Least(ProdPause, (DeclaredCap * 5) \div 8)
ResumeAt == Least(ProdResume, (DeclaredCap * 3) \div (IF Metered THEN 8 ELSE 16))

\* Mutant of Rebased: the estimate goes permanently negative.
RebasedNever(lead) == lead

\* BufferedMsLocked: what the board holds, or how far the App is ahead of real time.  A
\* drained estimate starts over, so it is never negative.
Buffered(lead) == IF Metered THEN board ELSE Most(lead, 0)
Rebased(lead) == IF Metered THEN lead ELSE Most(lead, 0)

\* Mutant of Flipped: a decision is sent once.
FlippedOnce(d, pause) == [d EXCEPT !.paused = pause, !.repeats = 0, !.since = 0]

Flipped(d, pause) == [d EXCEPT !.paused = pause, !.repeats = FlipRepeats, !.since = 0]

\* SendFlow: best effort; nobody hears it without a link.
SendFlow(pause) ==
  \/ link /\ flow' = Append(flow, pause) /\ UNCHANGED faults
  \/ link /\ Fault("loss") /\ UNCHANGED flow
  \/ ~link /\ UNCHANGED <<flow, faults>>

-----------------------------------------------------------------------------
(* esp_timer task *)

\* The session is checked before the mutex is taken.
TickStart ==
  /\ timer.pc = "idle" /\ timer.on /\ timer.left = 0
  /\ timer' = [timer EXCEPT !.left = TickEvery, !.pc = IF dl.armed THEN "lock" ELSE "idle"]
  /\ UNCHANGED <<dl, rx, board, app, air, flow, link, faults>>

\* The locked section leaves bookkeeping d and, if send, a frame to go out.
TickDecides(d, send) ==
  /\ timer.pc = "lock"
  /\ dl' = [d EXCEPT !.lead = Rebased(@)]
  /\ timer' = [timer EXCEPT !.pc = IF send THEN "send" ELSE "idle",
                            !.pause = IF send THEN d.paused ELSE FALSE]
  /\ UNCHANGED <<rx, board, app, air, flow, link, faults>>

MustPause == ~dl.paused /\ Buffered(dl.lead) >= PauseAt
MustResume == dl.paused /\ Buffered(dl.lead) <= ResumeAt

TickFlip ==
  /\ MustPause \/ MustResume
  /\ TickDecides(Flipped(dl, ~dl.paused), TRUE)

TickRepeat ==
  /\ ~MustPause /\ ~MustResume /\ dl.repeats > 0
  /\ TickDecides([dl EXCEPT !.repeats = @ - 1, !.since = 0], TRUE)

\* Mutant of TickReassert: only a PAUSE is worth repeating.
TickReassertPause ==
  /\ ~MustPause /\ ~MustResume /\ dl.repeats = 0
  /\ LET send == dl.since >= Reassert /\ dl.paused
     IN  TickDecides(IF send THEN [dl EXCEPT !.since = 0] ELSE dl, send)

TickReassert ==
  /\ ~MustPause /\ ~MustResume /\ dl.repeats = 0
  /\ LET send == dl.since >= Reassert /\ (dl.paused \/ Buffered(dl.lead) < NearlyDry)
     IN  TickDecides(IF send THEN [dl EXCEPT !.since = 0] ELSE dl, send)

TickSend ==
  /\ timer.pc = "send"
  /\ SendFlow(timer.pause)
  /\ timer' = [timer EXCEPT !.pc = "idle", !.pause = FALSE]
  /\ UNCHANGED <<dl, rx, board, app, air, link>>

-----------------------------------------------------------------------------
(* Transport task: Arm and Disarm *)

RxAt(pc) == rx.pc = pc

ArmReset ==
  /\ RxAt("arm")
  /\ dl' = [dl EXCEPT !.paused = FALSE, !.repeats = 0, !.lead = 0, !.since = 0]
  /\ rx' = [rx EXCEPT !.pc = "ticker"]
  /\ UNCHANGED <<timer, board, app, air, flow, link, faults>>

\* s_armed, then the ticker, whose creation may fail.
ArmTicker ==
  /\ RxAt("ticker")
  /\ dl' = [dl EXCEPT !.armed = TRUE]
  /\ \/ timer' = [timer EXCEPT !.made = TRUE, !.on = TRUE, !.left = TickEvery] /\ UNCHANGED faults
     \/ ~timer.made /\ Fault("timer") /\ UNCHANGED timer
  /\ rx' = [rx EXCEPT !.pc = rx.then]
  /\ UNCHANGED <<board, app, air, flow, link>>

\* Disarm up to the mutex, then continue at then.  Stopping the timer does not wait for a Tick
\* that has begun.
Disarm(then) ==
  IF dl.armed
    THEN /\ dl' = [dl EXCEPT !.armed = FALSE]
         /\ timer' = [timer EXCEPT !.on = FALSE, !.left = TickEvery]
         /\ rx' = [rx EXCEPT !.pc = "disarm", !.then = then]
    ELSE rx' = [rx EXCEPT !.pc = then] /\ UNCHANGED <<dl, timer>>

DisarmReset ==
  /\ RxAt("disarm")
  /\ dl' = [dl EXCEPT !.paused = FALSE, !.repeats = 0]
  /\ rx' = [rx EXCEPT !.pc = IF dl.paused THEN "release" ELSE rx.then]
  /\ UNCHANGED <<timer, board, app, air, flow, link, faults>>

\* The last RESUME on the way out.
DisarmRelease ==
  /\ RxAt("release")
  /\ SendFlow(FALSE)
  /\ rx' = [rx EXCEPT !.pc = rx.then]
  /\ UNCHANGED <<dl, timer, board, app, air, link>>

-----------------------------------------------------------------------------
(* Transport task: audio from the data channel *)

\* Feed: the first audio arms the session.
Feed ==
  /\ RxAt("idle") /\ air # <<>>
  /\ rx' = [rx EXCEPT !.sdu = Head(air), !.pc = IF dl.armed THEN "feed" ELSE "arm", !.then = "feed"]
  /\ air' = Tail(air)
  /\ UNCHANGED <<dl, timer, board, app, flow, link, faults>>

\* The locked section of Deliver for n units, made of the pieces out; rest of the SDU is left.
Account(n, out, rest) ==
  LET lead == IF Metered THEN dl.lead ELSE Rebased(dl.lead + n)
      ms == Buffered(dl.lead + n) + IF Metered THEN n ELSE 0
      flip == ~dl.paused /\ ms >= PauseAt
      d == [dl EXCEPT !.lead = lead, !.block = <<>>]
  IN  /\ dl' = IF flip THEN Flipped(d, TRUE) ELSE d
      /\ rx' = [rx EXCEPT !.pc = "sink", !.sdu = rest, !.out = out, !.send = flip]

FeedPcm ==
  /\ RxAt("feed") /\ rx.sdu # <<>> /\ dl.codec = "pcm"
  /\ Account(Len(rx.sdu), rx.sdu, <<>>)
  /\ UNCHANGED <<timer, board, app, air, flow, link, faults>>

Missing == BlockLen - Len(dl.block)

FeedBlock ==
  /\ RxAt("feed") /\ dl.codec = "adpcm" /\ Len(rx.sdu) >= Missing
  /\ Account(1, dl.block \o SubSeq(rx.sdu, 1, Missing),
             SubSeq(rx.sdu, Missing + 1, Len(rx.sdu)))
  /\ UNCHANGED <<timer, board, app, air, flow, link, faults>>

FeedPartial ==
  /\ RxAt("feed") /\ dl.codec = "adpcm" /\ rx.sdu # <<>> /\ Len(rx.sdu) < Missing
  /\ dl' = [dl EXCEPT !.block = @ \o rx.sdu]
  /\ rx' = Task0
  /\ UNCHANGED <<timer, board, app, air, flow, link, faults>>

FeedDone == RxAt("feed") /\ rx.sdu = <<>> /\ rx' = Task0
            /\ UNCHANGED <<dl, timer, board, app, air, flow, link, faults>>

Units(out) == IF dl.codec = "pcm" THEN Len(out) ELSE 1

\* Deliver's call of the board: what does not fit is dropped.
Sink ==
  /\ RxAt("sink")
  /\ board' = Least(board + Units(rx.out), BoardCap)
  /\ rx' = [rx EXCEPT !.pc = IF rx.send THEN "pause" ELSE "feed", !.out = <<>>]
  /\ UNCHANGED <<dl, timer, app, air, flow, link, faults>>

DeliverPause ==
  /\ RxAt("pause")
  /\ SendFlow(TRUE)
  /\ rx' = [rx EXCEPT !.pc = "feed", !.send = FALSE]
  /\ UNCHANGED <<dl, timer, board, app, air, link>>

-----------------------------------------------------------------------------
(* Transport task: 0x05 VoiceReply and the link *)

\* SetCodec: a change during a session is ignored, and answered with success.
CodecAfter(c) ==
  IF dl.armed \/ c = dl.codec THEN dl ELSE [dl EXCEPT !.codec = c, !.block = <<>>]

\* status=2: an audio reply follows (or has begun).  The App changes its codec only before the
\* first piece of a reply.  A board that ignores the reply does not arm; the codec is set by then.
ReplyStarts(c) ==
  /\ RxAt("idle") /\ link /\ app.talking
  /\ c = app.codec \/ (~app.sent /\ app.piece = 1)
  /\ dl' = CodecAfter(c)
  /\ app' = [app EXCEPT !.codec = c]
  /\ \/ rx' = IF dl.armed THEN rx ELSE [rx EXCEPT !.pc = "arm", !.then = "idle"]
     \/ UNCHANGED rx
  /\ UNCHANGED <<timer, board, air, flow, link, faults>>

AppStops(piece) == [app EXCEPT !.talking = FALSE, !.sent = FALSE, !.piece = piece]

\* status=3: the App finished pushing; the board may ignore that.
ReplyEnds ==
  /\ RxAt("idle") /\ link /\ app.talking /\ app.piece = 1
  /\ BackToBack \/ air = <<>>
  /\ app' = AppStops(1)
  /\ (Disarm("idle") \/ UNCHANGED <<dl, timer, rx>>)
  /\ UNCHANGED <<board, air, flow, link, faults>>

\* Any other status: the reply failed; a board that takes the reply ends the session.  The App
\* breaks off between two blocks, or ("cut") in the middle of one.
ReplyFails ==
  /\ RxAt("idle") /\ link /\ app.talking
  /\ BackToBack \/ air = <<>>
  /\ \/ app.piece = 1 /\ UNCHANGED faults
     \/ app.piece # 1 /\ Fault("cut")
  /\ app' = AppStops(1)
  /\ (Disarm("idle") \/ UNCHANGED <<dl, timer, rx>>)
  /\ UNCHANGED <<board, air, flow, link>>

\* OnLinkState(false): Disarm, then the partial block and the codec.
LinkDown ==
  /\ RxAt("idle") /\ link /\ Fault("link")
  /\ link' = FALSE /\ air' = <<>> /\ flow' = <<>>
  /\ app' = [AppStops(1) EXCEPT !.muted = FALSE, !.codec = DefaultCodec]
  /\ Disarm("reset")
  /\ UNCHANGED board

\* Mutant of LinkReset: a partial block survives the connection.
LinkResetKeeps ==
  /\ RxAt("reset")
  /\ dl' = [dl EXCEPT !.codec = DefaultCodec]
  /\ rx' = Task0
  /\ UNCHANGED <<timer, board, app, air, flow, link, faults>>

LinkReset ==
  /\ RxAt("reset")
  /\ dl' = [dl EXCEPT !.block = <<>>, !.codec = DefaultCodec]
  /\ rx' = Task0
  /\ UNCHANGED <<timer, board, app, air, flow, link, faults>>

LinkUp ==
  /\ RxAt("idle") /\ ~link
  /\ link' = TRUE
  /\ UNCHANGED <<dl, timer, rx, board, app, air, flow, faults>>

-----------------------------------------------------------------------------
(* The App, and time *)

Speak ==
  /\ link /\ ~app.talking /\ app.turn < MaxTurns
  /\ BackToBack \/ (RxAt("idle") /\ (dl.armed \/ board = 0))
  /\ app' = [app EXCEPT !.talking = TRUE, !.turn = @ + 1]
  /\ UNCHANGED <<dl, timer, rx, board, air, flow, link, faults>>

Pieces(c) == IF c = "pcm" THEN 1 ELSE BlockLen
Stream(c, from, n) == [i \in 1..n |-> <<c, ((from + i - 2) % Pieces(c)) + 1>>]

\* As fast as the radio takes it, unless told to pause; a prelude may precede the 0x05.
Push(n) ==
  /\ link /\ app.talking /\ ~app.muted
  /\ n <= app.quota /\ Len(air) < Window
  /\ air' = Append(air, Stream(app.codec, app.piece, n))
  /\ app' = [app EXCEPT !.piece = ((@ + n - 1) % Pieces(app.codec)) + 1,
                        !.quota = @ - n, !.sent = TRUE]
  /\ UNCHANGED <<dl, timer, rx, board, flow, link, faults>>

Hear ==
  /\ flow # <<>>
  /\ app' = [app EXCEPT !.muted = Head(flow)]
  /\ flow' = Tail(flow)
  /\ UNCHANGED <<dl, timer, rx, board, air, link, faults>>

\* A unit of time: the board plays one unit.  The estimate lags no further behind than a tick
\* while there is a ticker; MaxLag bounds it without one.
MaxLag == TickEvery + 1
Elapse ==
  /\ RxAt("idle") /\ timer.pc = "idle" /\ flow = <<>>
  /\ timer.on => timer.left > 0
  /\ board' = Most(board - 1, 0)
  /\ dl' = IF dl.armed THEN [dl EXCEPT !.lead = Most(@ - 1, 0 - MaxLag), !.since = Least(@ + 1, Reassert)]
                       ELSE dl
  /\ timer' = IF timer.on THEN [timer EXCEPT !.left = @ - 1] ELSE timer
  /\ app' = [app EXCEPT !.quota = Rate]
  /\ UNCHANGED <<rx, air, flow, link, faults>>

-----------------------------------------------------------------------------

TimerStep == TickStart \/ TickFlip \/ TickRepeat \/ TickReassert \/ TickSend
RxStep ==
  \/ ArmReset \/ ArmTicker \/ DisarmReset \/ DisarmRelease
  \/ FeedPcm \/ FeedBlock \/ FeedPartial \/ FeedDone \/ Sink \/ DeliverPause \/ LinkReset
Commands == (\E c \in Codecs : ReplyStarts(c)) \/ ReplyEnds \/ ReplyFails
Environment == Speak \/ (\E n \in 1..MaxSdu : Push(n)) \/ LinkDown \/ LinkUp

Next == TimerStep \/ RxStep \/ Feed \/ Commands \/ Environment \/ Hear \/ Elapse

\* Tasks are scheduled, SDUs and flow frames arrive, time passes; nothing is assumed of what
\* the App does.
Fairness ==
  WF_vars(TimerStep) /\ WF_vars(RxStep) /\ WF_vars(Feed) /\ WF_vars(Hear) /\ WF_vars(Elapse)

Spec == Init /\ [][Next]_vars /\ Fairness

-----------------------------------------------------------------------------
(* Properties *)

Cells == {<<"pcm", 1>>} \cup ({"adpcm"} \X (1..BlockLen))

Downlinks == [armed : BOOLEAN, paused : BOOLEAN, repeats : 0..FlipRepeats, lead : Int,
              since : 0..Reassert, codec : AllCodecs, block : Seq(Cells)]
Tickers == [made : BOOLEAN, on : BOOLEAN, left : 0..TickEvery, pc : {"idle", "lock", "send"},
            pause : BOOLEAN]
Tasks == [pc : {"idle", "arm", "ticker", "disarm", "release", "feed", "sink", "pause", "reset"},
          then : {"idle", "feed", "reset"}, sdu : Seq(Cells), out : Seq(Cells), send : BOOLEAN]
Apps == [talking : BOOLEAN, muted : BOOLEAN, codec : AllCodecs, piece : 1..BlockLen,
         sent : BOOLEAN, turn : 0..MaxTurns, quota : 0..Rate]

\* Every variable has its type, and a block is handed on as soon as it is whole.
TypeOK ==
  /\ Len(dl.block) < BlockLen
  /\ dl \in Downlinks /\ timer \in Tickers /\ rx \in Tasks /\ app \in Apps
  /\ board \in 0..BoardCap
  /\ air \in Seq(Seq(Cells)) /\ flow \in Seq(BOOLEAN)
  /\ link \in BOOLEAN /\ faults \in Nat

\* The board never has to drop audio: it is always told about the pause before its buffer is
\* full (agent_link_playback_set_buffer_ms).
NothingDropped == RxAt("sink") => board + Units(rx.out) <= BoardCap

\* The estimate of BufferedMsLocked never falls short of what the board really holds by more
\* than a tick, however the underruns and bursts fall between ticks.
EstimateClose ==
  dl.armed /\ ~Metered =>
    board + (IF RxAt("sink") THEN Units(rx.out) ELSE 0) <= Most(dl.lead, 0) + TickEvery

\* Why EstimateClose is inductive: the estimate only falls behind while the board has nothing to
\* play, for no longer than the ticker takes to notice, and a session starts with an empty
\* board.
Arming == RxAt("arm") \/ RxAt("ticker")
ClockInv ==
  /\ dl.armed => ~Arming
  /\ RxAt("sink") \/ RxAt("pause") \/ RxAt("feed") => dl.armed
  /\ RxAt("disarm") \/ RxAt("release") => rx.then # "feed"
  /\ dl.armed <=> timer.on
  /\ dl.armed => dl.lead >= timer.left - TickEvery \/ (timer.pc = "lock" /\ dl.lead >= 0 - TickEvery)
EstimateInv ==
  /\ ClockInv
  /\ ~dl.armed /\ (app.talking \/ air # <<>> \/ Arming) => board = 0
  /\ RxAt("ticker") => dl.lead = 0
  /\ dl.armed /\ ~RxAt("sink") => board - dl.lead <= TickEvery
  /\ RxAt("sink") => board + Units(rx.out) - dl.lead <= TickEvery

\* What reaches the board was decoded as the App encoded it: the right codec, and ADPCM pieces
\* that belong to one block.
Intelligible ==
  RxAt("sink") =>
    IF dl.codec = "pcm" THEN \A i \in DOMAIN rx.out : rx.out[i] = <<"pcm", 1>>
    ELSE rx.out = [i \in 1..BlockLen |-> <<"adpcm", i>>]

\* While the ticker runs, what the device decided reaches the App, whatever flow frames are lost or
\* overtaken: an App that is paused is not left so for the rest of the session, and a pause is heard
\* unless it is over before (Tick).
DecisionArrives ==
  /\ (app.muted /\ dl.armed /\ timer.on) ~> (~app.muted \/ ~dl.armed)
  /\ (dl.paused /\ dl.armed /\ timer.on) ~> (app.muted \/ ~dl.paused \/ ~dl.armed)

=============================================================================
