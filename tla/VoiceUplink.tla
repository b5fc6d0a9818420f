----------------------------- MODULE VoiceUplink -----------------------------
(***************************************************************************)
(* The microphone's way to the App over GATT: the voice stream of          *)
(* transport_ble.cpp under agent_link_stream_*.  A bounded queue between    *)
(* the task that records and a worker that notifies packets, written twice *)
(* in the code: for the ESP32-C3 ("c3") and for the others ("std").  The   *)
(* variable build is chosen once, as the compiler does.                    *)
(*                                                                         *)
(* Sound is counted in units, numbered as they are accepted in a session.  *)
(* A packet holds up to Packet units (the MTU).  A start that is refused  *)
(* for want of heap or of a task, retry pauses and reports are left out; a *)
(* notification for which there are no buffers or too little heap is busy. *)
(* The worker of the C3 sleeps until notified; VoiceStart notifies after   *)
(* it has set active, so the model lets it start once active is set.       *)
(* The count of what is queued is a size_t: below zero it is a number so   *)
(* large that only what brings it back to zero or above it fits.           *)
(*                                                                         *)
(* Names that BulkUplink has too begin with Voice here: UplinkProofs       *)
(* extends both.                                                           *)
(***************************************************************************)
EXTENDS Integers, Sequences, SequencesExt

CONSTANTS
  Builds,     \* subset of {"c3", "std"}
  Cap,        \* kVoiceQueueHardCap, in units
  Packet,     \* units in a packet
  Retries,    \* tries of a packet beyond the first
  MaxSaid,    \* bound: units accepted in a session
  MaxOpens,   \* bound: sessions
  MaxDrops    \* bound: losses of the link and of the subscription

ASSUME VoiceAssumption ==
  /\ Builds \subseteq {"c3", "std"}
  /\ {Cap, Packet} \subseteq Nat \ {0}
  /\ {Retries, MaxSaid, MaxOpens, MaxDrops} \subseteq Nat

VARIABLES
  build,
  link,     \* s_connected, s_voice_notify_enabled; losses so far
  open,     \* the core's stream is open
  voice,    \* s_voice: active, end_req, abort_req, error, q, queued_bytes, session_id, sequence
  worker,   \* VoiceTask: step, end as read, units in hand, number of the packet, tries
            \* "start": VoiceStart has emptied the queue, there is no task yet
  writer,   \* units a "std" writer is about to push, 0: none
  said,     \* history: units accepted in this session
  sent,     \* history: packets submitted in this session
  full      \* history: a write was answered ESP_ERR_NO_MEM, nothing else has gone wrong

voiceVars == <<build, link, open, voice, worker, writer, said, sent, full>>
hist == <<said, sent, full>>

Resting == [pc |-> "idle", end |-> FALSE, hand |-> <<>>, num |-> 0, tries |-> 0]

VoiceInit ==
  /\ build \in Builds
  /\ link = [up |-> TRUE, notify |-> TRUE, drops |-> 0]
  /\ open = FALSE
  /\ voice = [active |-> FALSE, end |-> FALSE, abort |-> FALSE, error |-> "ok", q |-> <<>>, queued |-> 0,
              session |-> 0, seq |-> 0]
  /\ worker = Resting
  /\ writer = 0
  /\ said = 0 /\ sent = <<>> /\ full = FALSE

\* voice.q is the queue: units for "c3", chunks of units as they were pushed for "std".
NewUnits(n) == [i \in 1..n |-> said + i]
Run(s) == \A i \in 1..Len(s) : s[i] = s[1] + i - 1

-----------------------------------------------------------------------------
\* The application, through the core.

CanStart == voice.session < MaxOpens /\ ~voice.active /\ worker.pc = "idle"
NoneSaid == said' = 0 /\ sent' = <<>> /\ full' = FALSE

Started ==
  [voice EXCEPT !.active = TRUE, !.end = FALSE, !.abort = FALSE, !.error = "ok",
                !.queued = 0, !.session = @ + 1, !.seq = 0]

\* "c3": a new session, in one critical section.
Start ==
  /\ build = "c3" /\ CanStart /\ link.notify
  /\ voice' = [Started EXCEPT !.q = <<>>]
  /\ worker' = [Resting EXCEPT !.pc = "loop"]
  /\ NoneSaid

\* "std": the queue is emptied under its lock; what is pushed from here on is of the new session.
StartEmpties ==
  /\ build = "std" /\ CanStart
  /\ voice' = [voice EXCEPT !.q = <<>>]
  /\ worker' = [Resting EXCEPT !.pc = "start"]
  /\ NoneSaid

\* "std": the session that is still draining will do.
Continue == build = "std" /\ voice.active /\ UNCHANGED <<voice, worker, hist>>

Open ==
  /\ ~open /\ link.up
  /\ \/ (Start \/ Continue) /\ open' = TRUE
     \/ StartEmpties /\ UNCHANGED open
  /\ UNCHANGED <<build, link, writer>>

\* "std": the count, the numbers and the flags are reset without the lock, and the task is made.
StartResets ==
  /\ worker.pc = "start"
  /\ voice' = Started
  /\ worker' = [worker EXCEPT !.pc = "loop"]
  /\ open' = TRUE
  /\ UNCHANGED <<build, link, writer, hist>>

Accept(n) ==
  /\ voice' = [voice EXCEPT !.q = IF build = "c3" THEN @ \o NewUnits(n) ELSE Append(@, NewUnits(n)),
                            !.queued = @ + n]
  /\ said' = said + n /\ UNCHANGED <<sent, full>>

Fits(n) == voice.queued + n \in 0..Cap

\* "c3": one critical section.
Takes == voice.error = "ok" /\ voice.active /\ ~voice.end
WriteC3(n) ==
  /\ build = "c3" /\ open /\ Takes /\ said + n <= MaxSaid
  /\ IF Fits(n) THEN Accept(n)
     ELSE /\ voice' = [voice EXCEPT !.error = "no_mem", !.abort = TRUE]
          /\ full' = TRUE /\ UNCHANGED <<said, sent>>
  /\ UNCHANGED <<build, link, open, worker, writer>>

\* "std": active is read, then the queue is locked.
WriteBegin(n) ==
  /\ build = "std" /\ open /\ voice.active /\ writer = 0 /\ said + n <= MaxSaid
  /\ writer' = n
  /\ UNCHANGED <<build, link, open, voice, worker, hist>>
WriteEnd ==
  /\ writer > 0
  /\ IF Fits(writer) THEN Accept(writer)
     ELSE full' = voice.active /\ UNCHANGED <<voice, said, sent>>
  /\ writer' = 0
  /\ UNCHANGED <<build, link, open, worker>>

\* agent_link_stream_close.
VoiceEnd(complete) ==
  /\ open /\ open' = FALSE
  /\ voice' = IF build = "c3" THEN [voice EXCEPT !.end = TRUE, !.abort = @ \/ ~complete]
              ELSE [voice EXCEPT !.end = @ \/ voice.active]
  /\ full' = FALSE
  /\ UNCHANGED <<build, link, worker, writer, said, sent>>

-----------------------------------------------------------------------------
\* The worker of the C3.

\* Mutant: what is left at the end is less than a packet and is not sent.
PacketUnitsWhole(queued, drain) == IF queued >= Packet THEN Packet ELSE 0

\* VoicePacketBytes: a whole packet, or what there is when the session ends.
PacketUnits(queued, drain) ==
  IF queued >= Packet THEN Packet ELSE IF drain THEN queued ELSE 0

VoiceAt(b, pc) == build = b /\ worker.pc = pc
VoiceGoto(pc) == worker' = [worker EXCEPT !.pc = pc]

\* The next packet leaves the queue with its number.
Take(n) ==
  /\ voice' = [voice EXCEPT !.q = SubSeq(@, n + 1, Len(@)), !.queued = @ - n, !.seq = @ + 1]
  /\ worker' = [worker EXCEPT !.pc = "send", !.hand = SubSeq(voice.q, 1, n),
                              !.num = voice.seq, !.tries = 0]

\* Mutant: the worker still waits for a whole packet when the session ends.
LoopC3Waits ==
  LET n == PacketUnits(voice.queued, FALSE)
  IN  /\ VoiceAt("c3", "loop")
      /\ \/ /\ ~link.up \/ voice.abort \/ (voice.end /\ voice.queued = 0)
            /\ VoiceGoto("leave") /\ UNCHANGED voice
         \/ link.up /\ ~voice.abort /\ n > 0 /\ Take(n)
      /\ UNCHANGED <<build, link, open, writer, hist>>

\* The connection has no MTU (any more): this look of the worker is the last.
NoMtuC3 ==
  /\ VoiceAt("c3", "loop") /\ link.up /\ ~voice.abort
  /\ voice' = [voice EXCEPT !.error = "size"]
  /\ VoiceGoto("leave") /\ full' = FALSE
  /\ UNCHANGED <<build, link, open, writer, said, sent>>

LoopC3 ==
  LET n == PacketUnits(voice.queued, voice.end)
  IN  /\ VoiceAt("c3", "loop")
      /\ \/ /\ ~link.up \/ voice.abort
            /\ VoiceGoto("leave") /\ UNCHANGED voice
         \/ /\ link.up /\ ~voice.abort /\ n = 0 /\ voice.end
            /\ VoiceGoto("leave") /\ UNCHANGED voice
         \/ link.up /\ ~voice.abort /\ n > 0 /\ Take(n)
      /\ UNCHANGED <<build, link, open, writer, hist>>

Submit == sent' = Append(sent, [num |-> worker.num, units |-> worker.hand])

SentC3 ==
  /\ VoiceAt("c3", "send") /\ link.up /\ ~voice.abort /\ link.notify
  /\ Submit /\ VoiceGoto("loop")
  /\ UNCHANGED <<build, link, open, voice, writer, said, full>>

BusyC3 ==
  /\ VoiceAt("c3", "send") /\ link.up /\ ~voice.abort /\ worker.tries < Retries
  /\ worker' = [worker EXCEPT !.tries = @ + 1]
  /\ UNCHANGED <<build, link, open, voice, writer, hist>>

\* The packet is given up, and the session with it.
FailC3 ==
  /\ VoiceAt("c3", "send")
  /\ \/ /\ ~link.up \/ voice.abort
        /\ voice' = [voice EXCEPT !.abort = TRUE]
     \/ /\ link.up /\ ~voice.abort
        /\ \E e \in {"timeout", "no_mem"} \cup (IF link.notify THEN {} ELSE {"state"}) :
             voice' = [voice EXCEPT !.abort = TRUE, !.error = e]
  /\ VoiceGoto("leave") /\ full' = FALSE
  /\ UNCHANGED <<build, link, open, writer, said, sent>>

LeaveC3 ==
  /\ VoiceAt("c3", "leave")
  /\ voice' = IF link.up THEN voice ELSE [voice EXCEPT !.error = "state"]
  /\ VoiceGoto("clear")
  /\ UNCHANGED <<build, link, open, writer, hist>>

ClearC3 ==
  /\ VoiceAt("c3", "clear")
  /\ voice' = [voice EXCEPT !.q = <<>>, !.queued = 0, !.active = FALSE]
  /\ worker' = Resting
  /\ UNCHANGED <<build, link, open, writer, hist>>

-----------------------------------------------------------------------------
\* The worker of the others.

LoopStd ==
  /\ VoiceAt("std", "loop")
  /\ worker' = IF link.up THEN [worker EXCEPT !.pc = "pop", !.end = voice.end]
               ELSE [worker EXCEPT !.pc = "leave"]
  /\ UNCHANGED <<build, link, open, voice, writer, hist>>

PopStd ==
  /\ VoiceAt("std", "pop")
  /\ IF voice.q = <<>>
     THEN VoiceGoto(IF worker.end THEN "leave" ELSE "loop") /\ UNCHANGED voice
     ELSE /\ voice' = [voice EXCEPT !.q = Tail(@), !.queued = @ - Len(Head(voice.q))]
          /\ worker' = [worker EXCEPT !.pc = "slice", !.hand = Head(voice.q)]
  /\ UNCHANGED <<build, link, open, writer, hist>>

\* The next slice of the chunk gets its number.
SliceStd ==
  /\ VoiceAt("std", "slice")
  /\ worker' = [worker EXCEPT !.pc = "send", !.num = voice.seq, !.tries = 0]
  /\ voice' = [voice EXCEPT !.seq = @ + 1]
  /\ UNCHANGED <<build, link, open, writer, hist>>

Slice == IF Len(worker.hand) <= Packet THEN worker.hand ELSE SubSeq(worker.hand, 1, Packet)
Left == SubSeq(worker.hand, Len(Slice) + 1, Len(worker.hand))

SentStd ==
  /\ VoiceAt("std", "send") /\ link.up
  /\ sent' = Append(sent, [num |-> worker.num, units |-> Slice])
  /\ worker' = [worker EXCEPT !.hand = Left, !.pc = IF Left = <<>> THEN "loop" ELSE "slice"]
  /\ UNCHANGED <<build, link, open, voice, writer, said, full>>

BusyStd ==
  /\ VoiceAt("std", "send") /\ link.up /\ worker.tries < Retries
  /\ worker' = [worker EXCEPT !.tries = @ + 1]
  /\ UNCHANGED <<build, link, open, voice, writer, hist>>

\* Mutant: the number of a slice that could not be sent is used again.
FailStdReusesNumber ==
  /\ VoiceAt("std", "send") /\ (~link.up \/ worker.tries = Retries)
  /\ voice' = [voice EXCEPT !.end = TRUE, !.seq = worker.num]
  /\ worker' = [worker EXCEPT !.pc = "loop", !.hand = <<>>]
  /\ full' = FALSE
  /\ UNCHANGED <<build, link, open, writer, said, sent>>

\* The rest of the chunk is dropped; the session will end when the queue is empty.
FailStd ==
  /\ VoiceAt("std", "send") /\ (~link.up \/ worker.tries = Retries)
  /\ voice' = [voice EXCEPT !.end = TRUE]
  /\ worker' = [worker EXCEPT !.pc = "loop", !.hand = <<>>]
  /\ full' = FALSE
  /\ UNCHANGED <<build, link, open, writer, said, sent>>

LeaveStd ==
  /\ VoiceAt("std", "leave")
  /\ voice' = [voice EXCEPT !.active = FALSE]
  /\ worker' = Resting
  /\ UNCHANGED <<build, link, open, writer, hist>>

-----------------------------------------------------------------------------
\* The link.

Drop ==
  /\ link.up /\ link.drops < MaxDrops
  /\ link' = [up |-> FALSE, notify |-> FALSE, drops |-> link.drops + 1]
  /\ voice' = IF build = "c3" THEN [voice EXCEPT !.end = TRUE, !.abort = TRUE, !.error = "state"]
              ELSE [voice EXCEPT !.end = TRUE]
  /\ full' = FALSE
  /\ UNCHANGED <<build, open, worker, writer, said, sent>>
\* Connecting takes some hundred ms; the worker looks at the link every 10 ms and has left.
Connect ==
  /\ ~link.up /\ worker.pc = "idle" /\ link' = [link EXCEPT !.up = TRUE]
  /\ UNCHANGED <<build, open, voice, worker, writer, hist>>
Subscribe ==
  /\ link.up /\ ~link.notify /\ link' = [link EXCEPT !.notify = TRUE]
  /\ UNCHANGED <<build, open, voice, worker, writer, hist>>
Unsubscribe ==
  /\ link.up /\ link.notify /\ link.drops < MaxDrops
  /\ link' = [link EXCEPT !.notify = FALSE, !.drops = @ + 1]
  /\ UNCHANGED <<build, open, voice, worker, writer, hist>>

App ==
  \/ Open \/ StartResets \/ (\E n \in 1..2 : WriteC3(n) \/ WriteBegin(n)) \/ WriteEnd
  \/ (\E c \in BOOLEAN : VoiceEnd(c))
Worker ==
  \/ LoopC3 \/ SentC3 \/ BusyC3 \/ FailC3 \/ LeaveC3 \/ ClearC3
  \/ LoopStd \/ PopStd \/ SliceStd \/ SentStd \/ BusyStd \/ FailStd \/ LeaveStd
Link == Drop \/ Connect \/ Subscribe \/ Unsubscribe \/ NoMtuC3

VoiceNext == App \/ Worker \/ Link

\* The worker and a writer in the middle of a write get on; that the MTU is gone is nothing to count on.
VoiceFairness == WF_voiceVars(Worker) /\ WF_voiceVars(WriteEnd)

VoiceSpec == VoiceInit /\ [][VoiceNext]_voiceVars /\ VoiceFairness

-----------------------------------------------------------------------------
UnitNumbers == Nat \ {0}
Chunk == Seq(UnitNumbers)
VoiceLinks == [up : BOOLEAN, notify : BOOLEAN, drops : 0..MaxDrops]
Queues == IF build = "c3" THEN Chunk ELSE Seq(Chunk)
VoiceErrors == {"ok", "no_mem", "timeout", "state", "size"}
Voices == [active : BOOLEAN, end : BOOLEAN, abort : BOOLEAN, error : VoiceErrors,
           q : Queues, queued : -2..Cap, session : 0..MaxOpens, seq : Nat]
Workers == [pc : {"idle", "start", "loop", "pop", "slice", "send", "leave", "clear"}, end : BOOLEAN,
            hand : Chunk, num : Nat, tries : 0..Retries]

\* Types; the count never passes the cap, nor falls below zero by more than a write.
VoiceTypeOK ==
  /\ build \in Builds /\ link \in VoiceLinks /\ open \in BOOLEAN
  /\ voice \in Voices /\ worker \in Workers
  /\ writer \in 0..2
  /\ said \in 0..MaxSaid /\ sent \in Seq([num : Nat, units : Chunk]) /\ full \in BOOLEAN

\* Units in the queue, which are numbered through.
InQueue ==
  IF voice.q = <<>> THEN 0 ELSE IF build = "c3" THEN Len(voice.q) ELSE Last(Last(voice.q)) + 1 - voice.q[1][1]

(* The ESP32-C3 counts what the queue holds.  The others never count more  *)
(* than it holds, and miss at most the one write that was pushed between   *)
(* the emptying of the queue and the reset of the count in VoiceStart:     *)
(* their queue passes its cap by no more than that write.                  *)
QueueWithinCap ==
  /\ build = "c3" => InQueue = voice.queued
  /\ build = "std" /\ worker.pc # "start" => voice.queued <= InQueue /\ InQueue <= voice.queued + 2
  /\ InQueue <= Cap + 2 /\ (build = "c3" => InQueue <= Cap)

(* What the App can tell from the numbers: packets are numbered upwards    *)
(* from 0 in every session, no sound is missing inside a packet, and where *)
(* no number is missing none is missing between two packets either,        *)
(* whatever was dropped, retried or given up.                              *)
NumbersTellLoss ==
  \A i \in 1..Len(sent) :
    LET follows == IF i = 1 THEN sent[1].num = 0 ELSE sent[i].num = sent[i - 1].num + 1
    IN  /\ sent[i].units # <<>> /\ Run(sent[i].units)
        /\ i > 1 => sent[i].num > sent[i - 1].num
        /\ follows => sent[i].units[1] = (IF i = 1 THEN 0 ELSE Last(sent[i - 1].units)) + 1

\* The packets, put one after another, are all the units that were accepted.
Whole ==
  /\ sent = <<>> => said = 0
  /\ sent # <<>> => Last(Last(sent).units) = said
  /\ \A i \in 1..Len(sent) :
       /\ sent[i].units # <<>> /\ Run(sent[i].units)
       /\ sent[i].units[1] = (IF i = 1 THEN 0 ELSE Last(sent[i - 1].units)) + 1

(* ESP32-C3: a session that was closed as complete and reports no failure  *)
(* has submitted every unit a write was told is accepted.                  *)
WholeUnlessError ==
  build = "c3" /\ ~voice.active /\ voice.end /\ ~voice.abort /\ voice.error = "ok" /\ voice.session > 0
    => Whole

(* A session that was closed, or gave up, ends; what is queued is sent     *)
(* first, however often the host is busy.                                  *)
SessionEnds == voice.active /\ (voice.end \/ voice.abort) ~> ~voice.active

(* agent_link_stream.h:116 of a write: "ESP_ERR_NO_MEM means this chunk    *)
(* was dropped, not that the stream died."                                 *)
FullIsNotDeath == full => voice.active

=============================================================================
