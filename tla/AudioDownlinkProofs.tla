------------------------ MODULE AudioDownlinkProofs ------------------------
(* Proofs about AudioDownlink, for every buffer, tick, block, SDU and rate. *)
EXTENDS AudioDownlink, SequenceTheorems, TLAPS

LEMMA MinMax ==
  ASSUME NEW a \in Int, NEW b \in Int
  PROVE  /\ Least(a, b) \in {a, b} /\ Least(a, b) <= a /\ Least(a, b) <= b
         /\ Most(a, b) \in {a, b} /\ Most(a, b) >= a /\ Most(a, b) >= b
BY DEF Least, Most

LEMMA Room == \A a, b, c \in Nat : a < c - b => b + a < c
OBVIOUS

LEMMA SequencesClosed ==
  ASSUME NEW a \in Seq(Cells), NEW b \in Seq(Cells)
  PROVE  /\ Len(a) \in Nat /\ a \o b \in Seq(Cells) /\ <<>> \in Seq(Cells)
         /\ \A m \in 1..(Len(a) + 1), n \in 0..Len(a) : SubSeq(a, m, n) \in Seq(Cells)
<1>1. Len(a) \in Nat /\ a \o b \in Seq(Cells) /\ <<>> \in Seq(Cells)
  OBVIOUS
<1>2. ASSUME NEW m \in 1..(Len(a) + 1), NEW n \in 0..Len(a) PROVE SubSeq(a, m, n) \in Seq(Cells)
  <2>1. \A i \in m..n : a[i] \in Cells
    BY <1>2, <1>1
  <2> QED BY <1>1, <2>1, SubSeqProperties
<1> QED BY <1>1, <1>2

LEMMA StreamType ==
  ASSUME NEW c \in AllCodecs, NEW from \in 1..BlockLen, NEW n \in Nat
  PROVE  /\ Stream(c, from, n) \in Seq(Cells)
         /\ ((from + n - 1) % Pieces(c)) + 1 \in 1..BlockLen
<1>1. Pieces(c) \in Nat \ {0} /\ Pieces(c) <= BlockLen
  BY DownlinkAssumption DEF Pieces
<1>2. \A k \in Nat : (k % Pieces(c)) + 1 \in 1..Pieces(c)
  BY <1>1
<1>3. \A i \in 1..n : from + i - 2 \in Nat
  BY DownlinkAssumption
<1>4. \A i \in 1..n : <<c, ((from + i - 2) % Pieces(c)) + 1>> \in Cells
  <2> TAKE i \in 1..n
  <2>1. ((from + i - 2) % Pieces(c)) + 1 \in 1..Pieces(c)
    BY <1>2, <1>3
  <2>2. CASE c = "pcm"
    BY <2>1, <2>2 DEF Pieces, Cells
  <2>3. CASE c = "adpcm"
    BY <2>1, <2>3 DEF Pieces, Cells
  <2> QED BY <2>2, <2>3 DEF AllCodecs
<1>5. Stream(c, from, n) \in Seq(Cells)
  <2>1. Stream(c, from, n) \in [1..n -> Cells]
    BY <1>4 DEF Stream
  <2> QED BY <2>1, SeqDef
<1>6. from + n - 1 \in Nat
  BY DownlinkAssumption
<1>7. ((from + n - 1) % Pieces(c)) + 1 \in 1..Pieces(c)
  BY <1>2, <1>6
<1>8. 1..Pieces(c) \subseteq 1..BlockLen
  BY <1>1, DownlinkAssumption
<1> QED BY <1>5, <1>7, <1>8

LEMMA ConstantTypes ==
  /\ FlipRepeats \in 0..FlipRepeats /\ 0 \in 0..FlipRepeats
  /\ 0 \in 0..Reassert /\ Reassert \in Nat
  /\ TickEvery \in 0..TickEvery
  /\ Rate \in 0..Rate /\ 1 \in 1..BlockLen /\ DefaultCodec \in AllCodecs
  /\ <<>> \in Seq(Cells)
BY DownlinkAssumption

LEMMA FlippedType ==
  ASSUME NEW d \in Downlinks, NEW b \in BOOLEAN
  PROVE  Flipped(d, b) \in Downlinks /\ Flipped(d, b).block = d.block
BY ConstantTypes DEF Flipped, Downlinks

LEMMA LeadType ==
  ASSUME NEW l \in Int, board \in 0..BoardCap
  PROVE  /\ Rebased(l) \in Int /\ Rebased(l) >= l /\ (~Metered => Rebased(l) >= 0)
         /\ (~Metered => Rebased(l) = Most(l, 0))
BY DownlinkAssumption, MinMax DEF Rebased

LEMMA InitTypeOK == Init => TypeOK
BY DownlinkAssumption DEF Init, TypeOK, Task0, Downlinks, Tickers, Tasks, Apps

LEMMA SendFlowType ==
  ASSUME TypeOK, NEW pause \in BOOLEAN, SendFlow(pause)
  PROVE  flow' \in Seq(BOOLEAN) /\ faults' \in Nat
<1>1. Append(flow, pause) \in Seq(BOOLEAN)
  BY DEF TypeOK
<1>2. faults' = faults \/ faults' = faults + 1
  BY DEF SendFlow, Fault
<1>3. flow' = flow \/ flow' = Append(flow, pause)
  BY DEF SendFlow
<1>4. flow' \in Seq(BOOLEAN)
  BY <1>1, <1>3, Zenon DEF TypeOK
<1>5. faults' \in Nat
  BY <1>2 DEF TypeOK
<1> QED BY <1>4, <1>5

\* What keeps the partial block short through a step that leaves it alone or empties it.
LEMMA ShortBlock ==
  ASSUME TypeOK, dl'.block \in {dl.block, <<>>}
  PROVE  Len(dl'.block) < BlockLen
BY DownlinkAssumption DEF TypeOK

LEMMA TimerTypeOK == ASSUME TypeOK, TimerStep PROVE TypeOK'
<1>1. CASE TickStart
  <2>1. timer' \in Tickers
    BY <1>1, ConstantTypes DEF TickStart, TypeOK, Tickers
  <2> QED BY <1>1, <2>1 DEF TickStart, TypeOK
<1>2. ASSUME NEW d \in Downlinks, d.block = dl.block, NEW send \in BOOLEAN,
             TickDecides(d, send)
      PROVE  TypeOK'
  <2>1. d.lead \in Int /\ d.paused \in BOOLEAN
    BY DEF Downlinks
  <2>2. Rebased(d.lead) \in Int
    BY <2>1, LeadType DEF TypeOK
  <2>3. [d EXCEPT !.lead = Rebased(d.lead)] \in Downlinks
    BY <2>2 DEF Downlinks
  <2>4. timer' \in Tickers
    BY <1>2, <2>1 DEF TickDecides, TypeOK, Tickers
  <2>5. dl'.block = dl.block
    BY <1>2 DEF TickDecides, Downlinks
  <2> QED BY <1>2, <2>3, <2>4, <2>5, ShortBlock DEF TickDecides, TypeOK
<1>3. CASE TickFlip
  <2>1. (~dl.paused) \in BOOLEAN /\ dl \in Downlinks
    BY DEF TypeOK
  <2> QED BY <1>3, <2>1, <1>2, FlippedType DEF TickFlip
<1>4. CASE TickRepeat
  <2>0. dl.repeats \in 0..FlipRepeats
    BY DEF TypeOK, Downlinks
  <2>1. dl.repeats - 1 \in 0..FlipRepeats
    BY <1>4, <2>0, DownlinkAssumption DEF TickRepeat
  <2>2. /\ [dl EXCEPT !.repeats = dl.repeats - 1, !.since = 0] \in Downlinks
        /\ [dl EXCEPT !.repeats = dl.repeats - 1, !.since = 0].block = dl.block
    BY <2>1, ConstantTypes DEF TypeOK, Downlinks
  <2> QED BY <1>4, <2>2, <1>2 DEF TickRepeat
<1>5. CASE TickReassert
  <2>1. /\ dl \in Downlinks /\ [dl EXCEPT !.since = 0] \in Downlinks
        /\ [dl EXCEPT !.since = 0].block = dl.block
    BY ConstantTypes DEF TypeOK, Downlinks
  <2> DEFINE send == dl.since >= Reassert /\ (dl.paused \/ Buffered(dl.lead) < NearlyDry)
  <2>2. TickDecides(IF send THEN [dl EXCEPT !.since = 0] ELSE dl, send)
    BY <1>5 DEF TickReassert
  <2>3. send \in BOOLEAN
    OBVIOUS
  <2> HIDE DEF send
  <2>4. CASE send
    BY <2>1, <2>2, <2>3, <2>4, <1>2
  <2>5. CASE ~send
    BY <2>1, <2>2, <2>3, <2>5, <1>2
  <2> QED BY <2>4, <2>5
<1>6. CASE TickSend
  <2>1. timer.pause \in BOOLEAN /\ timer' \in Tickers
    BY <1>6 DEF TickSend, TypeOK, Tickers
  <2> QED BY <1>6, <2>1, SendFlowType DEF TickSend, TypeOK
<1> QED BY <1>1, <1>3, <1>4, <1>5, <1>6 DEF TimerStep

LEMMA DisarmType ==
  ASSUME TypeOK, NEW then \in {"idle", "reset"}, Disarm(then)
  PROVE  dl' \in Downlinks /\ timer' \in Tickers /\ rx' \in Tasks /\ dl'.block = dl.block
<1>1. CASE dl.armed
  <2>1. dl' \in Downlinks /\ dl'.block = dl.block
    BY <1>1 DEF TypeOK, Disarm, Downlinks
  <2>2. timer' \in Tickers
    BY <1>1, ConstantTypes DEF TypeOK, Disarm, Tickers
  <2>3. rx' \in Tasks
    BY <1>1 DEF TypeOK, Disarm, Tasks
  <2> QED BY <2>1, <2>2, <2>3
<1>2. CASE ~dl.armed
  <2>1. rx' \in Tasks
    BY <1>2 DEF TypeOK, Disarm, Tasks
  <2> QED BY <1>2, <2>1 DEF TypeOK, Disarm
<1> QED BY <1>1, <1>2

LEMMA AccountType ==
  ASSUME TypeOK, NEW n \in Nat, NEW out \in Seq(Cells), NEW rest \in Seq(Cells),
         Account(n, out, rest)
  PROVE  dl' \in Downlinks /\ rx' \in Tasks /\ dl'.block = <<>>
<1> DEFINE lead == IF Metered THEN dl.lead ELSE Rebased(dl.lead + n)
           ms == Buffered(dl.lead + n) + IF Metered THEN n ELSE 0
           flip == ~dl.paused /\ ms >= PauseAt
           d == [dl EXCEPT !.lead = lead, !.block = <<>>]
<1>1. dl.lead \in Int /\ dl.lead + n \in Int
  BY DEF TypeOK, Downlinks
<1>2. lead \in Int
  BY <1>1, LeadType DEF TypeOK
<1>3. d \in Downlinks /\ d.block = <<>>
  <2> HIDE DEF lead
  <2> QED BY <1>2, ConstantTypes DEF TypeOK, Downlinks
<1>4. /\ dl' = IF flip THEN Flipped(d, TRUE) ELSE d
      /\ rx' = [rx EXCEPT !.pc = "sink", !.sdu = rest, !.out = out, !.send = flip]
  BY DEF Account
<1>5. flip \in BOOLEAN
  OBVIOUS
<1> HIDE DEF flip, d
<1>6. Flipped(d, TRUE) \in Downlinks /\ Flipped(d, TRUE).block = <<>>
  BY <1>3, FlippedType
<1>7. rx' \in Tasks
  BY <1>4, <1>5 DEF TypeOK, Tasks
<1> QED BY <1>3, <1>4, <1>6, <1>7

LEMMA UnitsType ==
  ASSUME TypeOK
  PROVE  Units(rx.out) \in Nat
BY DEF TypeOK, Tasks, Units

LEMMA RxTypeOK == ASSUME TypeOK, RxStep PROVE TypeOK'
<1>1. CASE ArmReset
  <2>0. 0 \in 0..FlipRepeats /\ 0 \in 0..Reassert /\ 0 \in Int
    BY ConstantTypes
  <2>1. dl' \in Downlinks /\ dl'.block = dl.block
    BY <1>1, <2>0 DEF ArmReset, TypeOK, Downlinks
  <2>2. rx' \in Tasks
    BY <1>1 DEF ArmReset, TypeOK, Tasks
  <2> QED BY <1>1, <2>1, <2>2, ShortBlock DEF ArmReset, TypeOK
<1>2. CASE ArmTicker
  <2>1. dl' \in Downlinks /\ dl'.block = dl.block
    BY <1>2 DEF ArmTicker, TypeOK, Downlinks
  <2>2. timer' \in Tickers
    BY <1>2, ConstantTypes DEF ArmTicker, TypeOK, Tickers
  <2>3. faults' \in Nat
    BY <1>2 DEF ArmTicker, TypeOK, Fault
  <2>4. rx' \in Tasks
    BY <1>2 DEF ArmTicker, TypeOK, Tasks
  <2> QED BY <1>2, <2>1, <2>2, <2>3, <2>4, ShortBlock DEF ArmTicker, TypeOK
<1>3. CASE DisarmReset
  <2>1. dl' \in Downlinks /\ dl'.block = dl.block
    BY <1>3, ConstantTypes DEF DisarmReset, TypeOK, Downlinks
  <2>2. rx' \in Tasks
    BY <1>3 DEF DisarmReset, TypeOK, Tasks
  <2> QED BY <1>3, <2>1, <2>2, ShortBlock DEF DisarmReset, TypeOK
<1>4. CASE DisarmRelease
  <2>1. rx' \in Tasks
    BY <1>4 DEF DisarmRelease, TypeOK, Tasks
  <2> QED BY <1>4, <2>1, SendFlowType DEF DisarmRelease, TypeOK
<1>5. CASE FeedPcm
  <2>1. rx.sdu \in Seq(Cells) /\ Len(rx.sdu) \in Nat
    BY DEF TypeOK, Tasks
  <2>2. dl' \in Downlinks /\ rx' \in Tasks /\ dl'.block = <<>>
    BY <1>5, <2>1, ConstantTypes, AccountType DEF FeedPcm
  <2> QED BY <1>5, <2>2, ShortBlock DEF FeedPcm, TypeOK
<1>6. CASE FeedBlock
  <2>1. rx.sdu \in Seq(Cells) /\ dl.block \in Seq(Cells)
    BY DEF TypeOK, Tasks, Downlinks
  <2>2. Len(rx.sdu) \in Nat /\ Len(dl.block) \in Nat
    BY <2>1
  <2>3. Missing \in Nat /\ Missing <= Len(rx.sdu)
    <3>1. Len(dl.block) < BlockLen /\ BlockLen \in Nat
      BY DownlinkAssumption DEF TypeOK
    <3>2. Len(rx.sdu) >= Missing
      BY <1>6 DEF FeedBlock
    <3>3. Missing \in Nat
      BY <2>2, <3>1 DEF Missing
    <3> QED BY <2>2, <3>2, <3>3
  <2>4. SubSeq(rx.sdu, 1, Missing) \in Seq(Cells)
    BY <2>1, <2>2, <2>3, SequencesClosed
  <2>5. SubSeq(rx.sdu, Missing + 1, Len(rx.sdu)) \in Seq(Cells)
    BY <2>1, <2>2, <2>3, SequencesClosed
  <2>6. dl.block \o SubSeq(rx.sdu, 1, Missing) \in Seq(Cells)
    BY <2>1, <2>4
  <2>7. dl' \in Downlinks /\ rx' \in Tasks /\ dl'.block = <<>>
    BY <1>6, <2>5, <2>6, AccountType DEF FeedBlock
  <2> QED BY <1>6, <2>7, ShortBlock DEF FeedBlock, TypeOK
<1>7. CASE FeedPartial
  <2>1. rx.sdu \in Seq(Cells) /\ dl.block \in Seq(Cells)
    BY DEF TypeOK, Tasks, Downlinks
  <2>2. dl.block \o rx.sdu \in Seq(Cells) /\ Len(dl.block \o rx.sdu) = Len(dl.block) + Len(rx.sdu)
    BY <2>1
  <2>3. Len(dl.block \o rx.sdu) < BlockLen
    <3>1. Len(dl.block) \in Nat /\ Len(rx.sdu) \in Nat /\ BlockLen \in Nat
      BY <2>1, DownlinkAssumption
    <3>2. Len(rx.sdu) < BlockLen - Len(dl.block)
      BY <1>7 DEF FeedPartial, Missing
    <3>3. Len(dl.block) + Len(rx.sdu) < BlockLen
      BY <3>1, <3>2, Room
    <3> QED BY <2>2, <3>3
  <2>5. dl' = [dl EXCEPT !.block = dl.block \o rx.sdu]
    BY <1>7 DEF FeedPartial
  <2> DEFINE k == dl.block \o rx.sdu
  <2> HIDE DEF k
  <2>6. dl' \in Downlinks /\ dl'.block = k
    BY <2>2, <2>5 DEF TypeOK, Downlinks, k
  <2>4. rx' \in Tasks
    BY <1>7, ConstantTypes DEF FeedPartial, Task0, Tasks
  <2> QED BY <1>7, <2>3, <2>4, <2>6 DEF FeedPartial, TypeOK, k
<1>8. CASE FeedDone
  <2>1. rx' \in Tasks
    BY <1>8, ConstantTypes DEF FeedDone, Task0, Tasks
  <2> QED BY <1>8, <2>1 DEF FeedDone, TypeOK
<1>9. CASE Sink
  <2>1. rx' \in Tasks
    BY <1>9, ConstantTypes DEF Sink, TypeOK, Tasks
  <2>2. board + Units(rx.out) \in Nat /\ BoardCap \in Nat
    BY UnitsType, DownlinkAssumption DEF TypeOK
  <2>3. board' \in 0..BoardCap
    BY <1>9, <2>2 DEF Sink, Least
  <2> QED BY <1>9, <2>1, <2>3 DEF Sink, TypeOK
<1>10. CASE DeliverPause
  <2>1. rx' \in Tasks
    BY <1>10 DEF DeliverPause, TypeOK, Tasks
  <2> QED BY <1>10, <2>1, SendFlowType DEF DeliverPause, TypeOK
<1>11. CASE LinkReset
  <2>1. dl' \in Downlinks /\ dl'.block = <<>>
    BY <1>11, ConstantTypes DEF LinkReset, TypeOK, Downlinks
  <2>2. rx' \in Tasks
    BY <1>11, ConstantTypes DEF LinkReset, Task0, Tasks
  <2> QED BY <1>11, <2>1, <2>2, ShortBlock DEF LinkReset, TypeOK
<1> QED BY <1>1, <1>2, <1>3, <1>4, <1>5, <1>6, <1>7, <1>8, <1>9, <1>10, <1>11 DEF RxStep

LEMMA CodecAfterType ==
  ASSUME TypeOK, NEW c \in AllCodecs
  PROVE  CodecAfter(c) \in Downlinks /\ CodecAfter(c).block \in {dl.block, <<>>}
BY ConstantTypes DEF CodecAfter, TypeOK, Downlinks

LEMMA AppStopsType ==
  ASSUME TypeOK
  PROVE  /\ AppStops(1) \in Apps
         /\ [AppStops(1) EXCEPT !.muted = FALSE, !.codec = DefaultCodec] \in Apps
<1>1. AppStops(1) \in Apps
  BY ConstantTypes DEF AppStops, TypeOK, Apps
<1> QED BY <1>1, ConstantTypes DEF Apps

LEMMA CommandsTypeOK == ASSUME TypeOK, Commands PROVE TypeOK'
<1>1. ASSUME NEW c \in Codecs, ReplyStarts(c) PROVE TypeOK'
  <2>1. c \in AllCodecs
    BY DownlinkAssumption
  <2>2. dl' \in Downlinks /\ dl'.block \in {dl.block, <<>>}
    BY <1>1, <2>1, CodecAfterType DEF ReplyStarts
  <2>3. app' \in Apps
    BY <1>1, <2>1 DEF ReplyStarts, TypeOK, Apps
  <2>4. rx' \in Tasks
    BY <1>1 DEF ReplyStarts, TypeOK, Tasks
  <2> QED BY <1>1, <2>2, <2>3, <2>4, ShortBlock DEF ReplyStarts, TypeOK
<1>2. CASE ReplyEnds
  <2>1. dl' \in Downlinks /\ timer' \in Tickers /\ rx' \in Tasks /\ dl'.block = dl.block
    BY <1>2, DisarmType DEF ReplyEnds, TypeOK
  <2> QED BY <1>2, <2>1, AppStopsType, ShortBlock DEF ReplyEnds, TypeOK
<1>3. CASE ReplyFails
  <2>1. dl' \in Downlinks /\ timer' \in Tickers /\ rx' \in Tasks /\ dl'.block = dl.block
    BY <1>3, DisarmType DEF ReplyFails, TypeOK
  <2>2. faults' \in Nat
    BY <1>3 DEF ReplyFails, Fault, TypeOK
  <2> QED BY <1>3, <2>1, <2>2, AppStopsType, ShortBlock DEF ReplyFails, TypeOK
<1> QED BY <1>1, <1>2, <1>3 DEF Commands

LEMMA FeedTypeOK == ASSUME TypeOK, Feed PROVE TypeOK'
<1>1. Head(air) \in Seq(Cells) /\ Tail(air) \in Seq(Seq(Cells))
  BY HeadTailProperties DEF TypeOK, Feed
<1>2. rx' \in Tasks
  BY <1>1 DEF Feed, TypeOK, Tasks
<1> QED BY <1>1, <1>2 DEF Feed, TypeOK

LEMMA PushTypeOK == ASSUME TypeOK, NEW n \in 1..MaxSdu, Push(n) PROVE TypeOK'
<1>1. app.codec \in AllCodecs /\ app.piece \in 1..BlockLen /\ app.quota \in 0..Rate
  BY DEF TypeOK, Apps
<1>2. n \in Nat /\ n <= app.quota
  BY DEF Push
<1>3. Stream(app.codec, app.piece, n) \in Seq(Cells)
  BY <1>1, <1>2, StreamType
<1>4. Append(air, Stream(app.codec, app.piece, n)) \in Seq(Seq(Cells))
  BY <1>3, AppendProperties DEF TypeOK
<1>5. ((app.piece + n - 1) % Pieces(app.codec)) + 1 \in 1..BlockLen
  BY <1>1, <1>2, StreamType
<1>6. app.quota - n \in 0..Rate
  BY <1>1, <1>2, DownlinkAssumption
<1>7. app' \in Apps
  <2> DEFINE p == ((app.piece + n - 1) % Pieces(app.codec)) + 1
             q == app.quota - n
  <2>1. app' = [app EXCEPT !.piece = p, !.quota = q, !.sent = TRUE]
    BY DEF Push
  <2>2. p \in 1..BlockLen /\ q \in 0..Rate
    BY <1>5, <1>6
  <2> HIDE DEF p, q
  <2> QED BY <2>1, <2>2 DEF TypeOK, Apps
<1> QED BY <1>4, <1>7 DEF Push, TypeOK

LEMMA EnvironmentTypeOK == ASSUME TypeOK, Environment PROVE TypeOK'
<1>1. CASE Speak
  <2>0. app.turn \in 0..MaxTurns /\ app.turn < MaxTurns /\ MaxTurns \in Nat
    BY <1>1, DownlinkAssumption DEF Speak, TypeOK, Apps
  <2>1. app.turn + 1 \in 0..MaxTurns
    BY <2>0
  <2>2. app' \in Apps
    BY <1>1, <2>1 DEF Speak, TypeOK, Apps
  <2> QED BY <1>1, <2>2 DEF Speak, TypeOK
<1>2. ASSUME NEW n \in 1..MaxSdu, Push(n) PROVE TypeOK'
  BY <1>2, PushTypeOK
<1>3. CASE LinkDown
  <2>1. dl' \in Downlinks /\ timer' \in Tickers /\ rx' \in Tasks /\ dl'.block = dl.block
    BY <1>3, DisarmType DEF LinkDown
  <2>2. faults' \in Nat /\ air' \in Seq(Seq(Cells)) /\ flow' \in Seq(BOOLEAN)
    BY <1>3 DEF LinkDown, Fault, TypeOK
  <2> QED BY <1>3, <2>1, <2>2, AppStopsType, ShortBlock DEF LinkDown, TypeOK
<1>4. CASE LinkUp
  BY <1>4 DEF LinkUp, TypeOK
<1> QED BY <1>1, <1>2, <1>3, <1>4 DEF Environment

LEMMA HearTypeOK == ASSUME TypeOK, Hear PROVE TypeOK'
<1>1. Head(flow) \in BOOLEAN /\ Tail(flow) \in Seq(BOOLEAN)
  BY HeadTailProperties DEF TypeOK, Hear
<1>2. app' \in Apps
  BY <1>1 DEF Hear, TypeOK, Apps
<1> QED BY <1>1, <1>2 DEF Hear, TypeOK

LEMMA ElapseTypeOK == ASSUME TypeOK, Elapse PROVE TypeOK'
<1>1. dl.lead \in Int /\ dl.since \in 0..Reassert /\ timer.left \in 0..TickEvery
  BY DEF TypeOK, Downlinks, Tickers
<1>2. board' \in 0..BoardCap
  <2>1. board \in 0..BoardCap /\ BoardCap \in Nat
    BY DownlinkAssumption DEF TypeOK
  <2>2. board' = Most(board - 1, 0)
    BY DEF Elapse
  <2> QED BY <2>1, <2>2 DEF Most
<1>3. Most(dl.lead - 1, 0 - MaxLag) \in Int /\ Least(dl.since + 1, Reassert) \in 0..Reassert
  BY <1>1, DownlinkAssumption DEF Most, Least, MaxLag
<1>4. dl' \in Downlinks /\ dl'.block = dl.block
  BY <1>3 DEF Elapse, TypeOK, Downlinks
<1>5. timer' \in Tickers
  <2>1. CASE timer.on
    <3>1. timer.left > 0 /\ TickEvery \in Nat
      BY <2>1, DownlinkAssumption DEF Elapse
    <3>2. timer.left - 1 \in 0..TickEvery
      BY <1>1, <3>1
    <3> QED BY <2>1, <3>2 DEF Elapse, TypeOK, Tickers
  <2>2. CASE ~timer.on
    BY <2>2 DEF Elapse, TypeOK
  <2> QED BY <2>1, <2>2
<1>6. app' \in Apps
  BY ConstantTypes DEF Elapse, TypeOK, Apps
<1> QED BY <1>2, <1>4, <1>5, <1>6, ShortBlock DEF Elapse, TypeOK

LEMMA NextTypeOK == TypeOK /\ [Next]_vars => TypeOK'
<1> SUFFICES ASSUME TypeOK, [Next]_vars PROVE TypeOK'
  OBVIOUS
<1>1. CASE UNCHANGED vars
  BY <1>1 DEF vars, TypeOK
<1>2. CASE Next
  BY <1>2, TimerTypeOK, RxTypeOK, FeedTypeOK, CommandsTypeOK, EnvironmentTypeOK, HearTypeOK,
     ElapseTypeOK DEF Next
<1> QED BY <1>1, <1>2

\* Type correctness of the downlink stage (audio_downlink.cpp), the ADPCM staging block never
\* left whole included.
THEOREM DownlinkTypes == Spec => []TypeOK
BY InitTypeOK, NextTypeOK, PTL DEF Spec

-----------------------------------------------------------------------------
(* The estimate of an unmetered board, when a reply starts on an empty one and the ticker can
   be created. *)

LEMMA Numbers ==
  ASSUME TypeOK
  PROVE  /\ dl.lead \in Int /\ board \in Nat /\ timer.left \in 0..TickEvery
         /\ Units(rx.out) \in Nat /\ TickEvery \in Nat \ {0}
BY UnitsType, DownlinkAssumption DEF TypeOK, Downlinks, Tickers

LEMMA InitEstimate == Init => EstimateInv
BY DownlinkAssumption DEF Init, EstimateInv, ClockInv, Arming, RxAt, Task0

\* A step that leaves the session, the estimate, the transport task and the ticker alone, and
\* starts nothing on a board that still plays.
LEMMA EstimateFrame ==
  ASSUME TypeOK, EstimateInv,
         dl'.armed = dl.armed, dl'.lead = dl.lead, dl'.codec = dl.codec,
         timer'.on = timer.on, timer'.left = timer.left, timer'.pc = timer.pc,
         rx'.pc = rx.pc, rx'.then = rx.then, rx'.out = rx.out, board' = board,
         app'.talking => app.talking \/ dl.armed \/ board = 0,
         air' # <<>> => air # <<>> \/ app.talking
  PROVE  EstimateInv'
BY Numbers DEF EstimateInv, ClockInv, Arming, RxAt, Units

LEMMA TimerEstimate == ASSUME TypeOK, EstimateInv, ~Metered, TimerStep PROVE EstimateInv'
<1> USE Numbers
<1>1. CASE TickStart
  <2>1. dl.armed
    BY <1>1 DEF TickStart, EstimateInv, ClockInv
  <2>2. timer' = [timer EXCEPT !.left = TickEvery, !.pc = "lock"]
    BY <1>1, <2>1 DEF TickStart
  <2>3. timer'.on = timer.on /\ timer'.left = TickEvery /\ timer'.pc = "lock"
    BY <2>2 DEF TypeOK, Tickers
  <2>4. timer.left = 0 /\ timer.pc = "idle"
    BY <1>1 DEF TickStart
  <2> QED BY <1>1, <2>1, <2>3, <2>4 DEF TickStart, EstimateInv, ClockInv, Arming, RxAt, Units
<1>2. ASSUME NEW d \in Downlinks, d.armed = dl.armed, d.lead = dl.lead, d.codec = dl.codec,
             NEW send \in BOOLEAN, TickDecides(d, send)
      PROVE  EstimateInv'
  <2>1. dl' = [d EXCEPT !.lead = Rebased(dl.lead)] /\ UNCHANGED <<rx, board, app, air>>
    BY <1>2 DEF TickDecides
  <2>2. dl'.armed = dl.armed /\ dl'.codec = dl.codec /\ dl'.lead = Most(dl.lead, 0)
    BY <1>2, <2>1, LeadType DEF Downlinks, TypeOK
  <2>3. timer'.on = timer.on /\ timer'.left = timer.left
    BY <1>2 DEF TickDecides, TypeOK, Tickers
  <2>4. dl'.lead \in Int /\ dl'.lead >= 0 /\ dl'.lead >= dl.lead /\ (dl.lead = 0 => dl'.lead = 0)
    BY <2>2 DEF Most
  <2> QED BY <2>1, <2>2, <2>3, <2>4, SMTT(30) DEF EstimateInv, ClockInv, Arming, RxAt, Units
<1>3. CASE TickFlip
  <2>1. (~dl.paused) \in BOOLEAN /\ dl \in Downlinks
    BY DEF TypeOK
  <2> DEFINE d == Flipped(dl, ~dl.paused)
  <2>2. d \in Downlinks /\ d.armed = dl.armed /\ d.lead = dl.lead /\ d.codec = dl.codec
    BY <2>1, FlippedType DEF Flipped, Downlinks
  <2>3. TickDecides(d, TRUE)
    BY <1>3 DEF TickFlip
  <2> HIDE DEF d
  <2> QED BY <2>2, <2>3, <1>2
<1>4. CASE TickRepeat
  <2> DEFINE d == [dl EXCEPT !.repeats = dl.repeats - 1, !.since = 0]
  <2>0. dl.repeats \in 0..FlipRepeats
    BY DEF TypeOK, Downlinks
  <2>1. dl.repeats - 1 \in 0..FlipRepeats
    BY <1>4, <2>0, DownlinkAssumption DEF TickRepeat
  <2>2. d \in Downlinks /\ d.armed = dl.armed /\ d.lead = dl.lead /\ d.codec = dl.codec
    BY <2>1, ConstantTypes DEF TypeOK, Downlinks
  <2>3. TickDecides(d, TRUE)
    BY <1>4 DEF TickRepeat
  <2> HIDE DEF d
  <2> QED BY <2>2, <2>3, <1>2
<1>5. CASE TickReassert
  <2> DEFINE send == dl.since >= Reassert /\ (dl.paused \/ Buffered(dl.lead) < NearlyDry)
             d == IF send THEN [dl EXCEPT !.since = 0] ELSE dl
  <2>1. TickDecides(d, send) /\ send \in BOOLEAN
    BY <1>5 DEF TickReassert
  <2>2. d \in Downlinks /\ d.armed = dl.armed /\ d.lead = dl.lead /\ d.codec = dl.codec
    <3> HIDE DEF send
    <3> QED BY ConstantTypes DEF TypeOK, Downlinks
  <2> HIDE DEF d, send
  <2> QED BY <2>1, <2>2, <1>2
<1>6. CASE TickSend
  <2>1. timer'.on = timer.on /\ timer'.left = timer.left
    BY <1>6 DEF TickSend, TypeOK, Tickers
  <2> QED BY <1>6, <2>1 DEF TickSend, EstimateInv, ClockInv, Arming, RxAt, Units
<1> QED BY <1>1, <1>3, <1>4, <1>5, <1>6 DEF TimerStep

LEMMA DisarmEstimate ==
  ASSUME TypeOK, EstimateInv, NEW then \in {"idle", "reset"}, Disarm(then), RxAt("idle"),
         UNCHANGED board, air' = <<>>, ~app'.talking
  PROVE  EstimateInv'
<1> USE Numbers
<1>1. CASE dl.armed
  <2>1. ~dl'.armed /\ dl'.lead = dl.lead
    BY <1>1 DEF Disarm, TypeOK, Downlinks
  <2>2. ~timer'.on
    BY <1>1 DEF Disarm, TypeOK, Tickers
  <2>3. rx'.pc = "disarm" /\ rx'.then = then
    BY <1>1 DEF Disarm, TypeOK, Tasks
  <2> QED BY <2>1, <2>2, <2>3 DEF EstimateInv, ClockInv, Arming, RxAt
<1>2. CASE ~dl.armed
  <2>1. rx'.pc = then /\ UNCHANGED <<dl, timer>>
    BY <1>2 DEF Disarm, TypeOK, Tasks
  <2> QED BY <1>2, <2>1 DEF EstimateInv, ClockInv, Arming, RxAt
<1> QED BY <1>1, <1>2

LEMMA AccountEstimate ==
  ASSUME TypeOK, EstimateInv, ~Metered, RxAt("feed"), NEW n \in Nat, NEW out \in Seq(Cells),
         NEW rest \in Seq(Cells), Account(n, out, rest),
         n = (IF dl.codec = "pcm" THEN Len(out) ELSE 1), UNCHANGED <<timer, board, app, air>>
  PROVE  EstimateInv'
<1> USE Numbers
<1> DEFINE lead == Rebased(dl.lead + n)
           ms == Buffered(dl.lead + n) + IF Metered THEN n ELSE 0
           flip == ~dl.paused /\ ms >= PauseAt
           d == [dl EXCEPT !.lead = lead, !.block = <<>>]
<1>1. lead \in Int /\ lead >= dl.lead + n /\ lead >= 0
  <2>1. dl.lead + n \in Int
    OBVIOUS
  <2> QED BY <2>1, LeadType DEF TypeOK
<1>2. /\ dl' = IF flip THEN Flipped(d, TRUE) ELSE d
      /\ rx' = [rx EXCEPT !.pc = "sink", !.sdu = rest, !.out = out, !.send = flip]
  BY DEF Account
<1> HIDE DEF lead, flip
<1>3. d \in Downlinks /\ d.armed = dl.armed /\ d.lead = lead /\ d.codec = dl.codec
  BY <1>1, ConstantTypes DEF TypeOK, Downlinks
<1> HIDE DEF d
<1>4. dl'.armed = dl.armed /\ dl'.lead = lead /\ dl'.codec = dl.codec
  BY <1>2, <1>3 DEF Flipped, Downlinks
<1>5. rx'.pc = "sink" /\ rx'.out = out
  BY <1>2 DEF TypeOK, Tasks
<1>6. dl.armed /\ board - dl.lead <= TickEvery /\ timer.on
  BY DEF EstimateInv, ClockInv, RxAt
<1>7. Units(rx.out)' = n
  BY <1>4, <1>5 DEF Units
<1>8. board + n - lead <= TickEvery
  BY <1>1, <1>6
<1>9. lead >= timer.left - TickEvery
  BY <1>1
<1> QED BY <1>4, <1>5, <1>6, <1>7, <1>8, <1>9 DEF EstimateInv, ClockInv, Arming, RxAt

LEMMA RxEstimate ==
  ASSUME TypeOK, EstimateInv, ~Metered, "timer" \notin Faults, RxStep
  PROVE  EstimateInv'
<1> USE Numbers
<1>1. CASE ArmReset
  <2>1. dl'.armed = dl.armed /\ dl'.lead = 0
    BY <1>1 DEF ArmReset, TypeOK, Downlinks
  <2>2. rx'.pc = "ticker" /\ rx'.then = rx.then
    BY <1>1 DEF ArmReset, TypeOK, Tasks
  <2> QED BY <1>1, <2>1, <2>2 DEF ArmReset, EstimateInv, ClockInv, Arming, RxAt
<1>2. CASE ArmTicker
  <2>1. dl'.armed /\ dl'.lead = dl.lead
    BY <1>2 DEF ArmTicker, TypeOK, Downlinks
  <2>2. timer' = [timer EXCEPT !.made = TRUE, !.on = TRUE, !.left = TickEvery]
    BY <1>2 DEF ArmTicker, Fault
  <2>3. timer'.on /\ timer'.left = TickEvery
    BY <2>2 DEF TypeOK, Tickers
  <2>4. rx'.pc = rx.then /\ rx.then \in {"idle", "feed", "reset"}
    BY <1>2 DEF ArmTicker, TypeOK, Tasks
  <2>5. board = 0 /\ dl.lead = 0 /\ board' = board
    BY <1>2 DEF ArmTicker, EstimateInv, ClockInv, Arming, RxAt
  <2> QED BY <1>2, <2>1, <2>3, <2>4, <2>5 DEF EstimateInv, ClockInv, Arming, RxAt
<1>3. CASE DisarmReset
  <2>1. dl'.armed = dl.armed /\ dl'.lead = dl.lead
    BY <1>3 DEF DisarmReset, TypeOK, Downlinks
  <2>2. rx'.pc \in {"release", rx.then} /\ rx'.then = rx.then /\ rx.then \in {"idle", "feed", "reset"}
    BY <1>3 DEF DisarmReset, TypeOK, Tasks
  <2> QED BY <1>3, <2>1, <2>2 DEF DisarmReset, EstimateInv, ClockInv, Arming, RxAt
<1>4. CASE DisarmRelease
  <2>1. rx'.pc = rx.then /\ rx.then \in {"idle", "feed", "reset"}
    BY <1>4 DEF DisarmRelease, TypeOK, Tasks
  <2> QED BY <1>4, <2>1 DEF DisarmRelease, EstimateInv, ClockInv, Arming, RxAt
<1>5. CASE FeedPcm
  <2>1. rx.sdu \in Seq(Cells) /\ <<>> \in Seq(Cells) /\ Len(rx.sdu) \in Nat
    BY DEF TypeOK, Tasks
  <2> QED BY <1>5, <2>1, AccountEstimate DEF FeedPcm
<1>6. CASE FeedBlock
  <2>1. rx.sdu \in Seq(Cells) /\ dl.block \in Seq(Cells)
    BY DEF TypeOK, Tasks, Downlinks
  <2>2. Len(rx.sdu) \in Nat /\ Len(dl.block) \in Nat
    BY <2>1
  <2>3. Missing \in Nat /\ Missing <= Len(rx.sdu)
    <3>1. Len(dl.block) < BlockLen /\ BlockLen \in Nat
      BY DownlinkAssumption DEF TypeOK
    <3>2. Len(rx.sdu) >= Missing
      BY <1>6 DEF FeedBlock
    <3>3. Missing \in Nat
      BY <2>2, <3>1 DEF Missing
    <3> QED BY <2>2, <3>2, <3>3
  <2>4. SubSeq(rx.sdu, 1, Missing) \in Seq(Cells)
    BY <2>1, <2>2, <2>3, SequencesClosed
  <2>5. SubSeq(rx.sdu, Missing + 1, Len(rx.sdu)) \in Seq(Cells)
    BY <2>1, <2>2, <2>3, SequencesClosed
  <2>6. dl.block \o SubSeq(rx.sdu, 1, Missing) \in Seq(Cells)
    BY <2>1, <2>4
  <2>7. dl.codec = "adpcm"
    BY <1>6 DEF FeedBlock
  <2> QED BY <1>6, <2>5, <2>6, <2>7, AccountEstimate DEF FeedBlock
<1>7. CASE FeedPartial
  <2>1. dl'.armed = dl.armed /\ dl'.lead = dl.lead
    BY <1>7 DEF FeedPartial, TypeOK, Downlinks
  <2>2. rx'.pc = "idle" /\ rx'.then = "idle"
    BY <1>7 DEF FeedPartial, Task0
  <2> QED BY <1>7, <2>1, <2>2 DEF FeedPartial, EstimateInv, ClockInv, Arming, RxAt
<1>8. CASE FeedDone
  <2>1. rx'.pc = "idle" /\ rx'.then = "idle"
    BY <1>8 DEF FeedDone, Task0
  <2> QED BY <1>8, <2>1 DEF FeedDone, EstimateInv, ClockInv, Arming, RxAt
<1>9. CASE Sink
  <2>1. rx'.pc \in {"pause", "feed"} /\ rx'.then = rx.then
    BY <1>9 DEF Sink, TypeOK, Tasks
  <2>2. board' \in Nat /\ board' <= board + Units(rx.out)
    BY <1>9, DownlinkAssumption DEF Sink, Least
  <2>3. board' - dl.lead <= TickEvery /\ dl.armed
    BY <1>9, <2>2 DEF Sink, EstimateInv, ClockInv, RxAt
  <2> QED BY <1>9, <2>1, <2>3 DEF Sink, EstimateInv, ClockInv, Arming, RxAt
<1>10. CASE DeliverPause
  <2>1. rx'.pc = "feed" /\ rx'.then = rx.then
    BY <1>10 DEF DeliverPause, TypeOK, Tasks
  <2> QED BY <1>10, <2>1 DEF DeliverPause, EstimateInv, ClockInv, Arming, RxAt
<1>11. CASE LinkReset
  <2>1. dl'.armed = dl.armed /\ dl'.lead = dl.lead
    BY <1>11 DEF LinkReset, TypeOK, Downlinks
  <2>2. rx'.pc = "idle" /\ rx'.then = "idle"
    BY <1>11 DEF LinkReset, Task0
  <2> QED BY <1>11, <2>1, <2>2 DEF LinkReset, EstimateInv, ClockInv, Arming, RxAt
<1> QED BY <1>1, <1>2, <1>3, <1>4, <1>5, <1>6, <1>7, <1>8, <1>9, <1>10, <1>11 DEF RxStep

LEMMA HandlersEstimate ==
  ASSUME TypeOK, EstimateInv, ~BackToBack, Feed \/ Commands \/ Environment \/ Hear
  PROVE  EstimateInv'
<1> USE Numbers
<1>1. CASE Feed
  <2>1. rx'.pc = (IF dl.armed THEN "feed" ELSE "arm") /\ rx'.then = "feed"
    BY <1>1 DEF Feed, TypeOK, Tasks
  <2> QED BY <1>1, <2>1 DEF Feed, EstimateInv, ClockInv, Arming, RxAt
<1>2. ASSUME NEW c \in Codecs, ReplyStarts(c) PROVE EstimateInv'
  <2>1. c \in AllCodecs
    BY DownlinkAssumption
  <2>2. dl'.armed = dl.armed /\ dl'.lead = dl.lead
    BY <1>2, <2>1 DEF ReplyStarts, CodecAfter, TypeOK, Downlinks
  <2>3. rx'.pc = "idle" \/ (~dl.armed /\ rx'.pc = "arm")
    BY <1>2 DEF ReplyStarts, RxAt, TypeOK, Tasks
  <2>4. app'.talking = app.talking /\ app.talking
    BY <1>2 DEF ReplyStarts, TypeOK, Apps
  <2> QED BY <1>2, <2>2, <2>3, <2>4 DEF ReplyStarts, EstimateInv, ClockInv, Arming, RxAt
<1>3. CASE ReplyEnds \/ ReplyFails
  <2>1. /\ air' = <<>> /\ ~app'.talking /\ UNCHANGED board /\ RxAt("idle")
        /\ Disarm("idle") \/ UNCHANGED <<dl, timer, rx>>
    BY <1>3 DEF ReplyEnds, ReplyFails, AppStops, TypeOK, Apps
  <2>2. CASE Disarm("idle")
    BY <2>1, <2>2, DisarmEstimate
  <2>3. CASE UNCHANGED <<dl, timer, rx>>
    BY <2>1, <2>3 DEF EstimateInv, ClockInv, Arming, RxAt, Units
  <2> QED BY <2>1, <2>2, <2>3
<1>5. CASE Speak
  <2>1. app'.talking => app.talking \/ dl.armed \/ board = 0
    BY <1>5 DEF Speak
  <2> QED BY <1>5, <2>1, EstimateFrame DEF Speak
<1>6. ASSUME NEW n \in 1..MaxSdu, Push(n) PROVE EstimateInv'
  <2>1. app'.talking => app.talking
    BY <1>6 DEF Push
  <2> QED BY <1>6, <2>1, EstimateFrame DEF Push
<1>7. CASE LinkDown
  <2>1. air' = <<>> /\ ~app'.talking /\ UNCHANGED board /\ Disarm("reset") /\ RxAt("idle")
    BY <1>7 DEF LinkDown, AppStops, TypeOK, Apps
  <2> QED BY <2>1, DisarmEstimate
<1>8. CASE LinkUp
  BY <1>8, EstimateFrame DEF LinkUp
<1>9. CASE Hear
  <2>1. app'.talking => app.talking
    BY <1>9 DEF Hear, TypeOK, Apps
  <2> QED BY <1>9, <2>1, EstimateFrame DEF Hear
<1> QED BY <1>1, <1>2, <1>3, <1>5, <1>6, <1>7, <1>8, <1>9 DEF Commands, Environment

\* A unit of time: while the board plays, estimate and level fall together; while it has nothing
\* to play the estimate falls alone, but not beyond the ticker's period.
LEMMA ElapseEstimate ==
  ASSUME TypeOK, EstimateInv, Elapse
  PROVE  EstimateInv'
<1> USE Numbers
<1>1. board' = (IF board = 0 THEN 0 ELSE board - 1) /\ RxAt("idle") /\ UNCHANGED <<rx, air>>
  BY DEF Elapse, Most
<1>2. app'.talking = app.talking
  BY DEF Elapse, TypeOK, Apps
<1>3. CASE dl.armed
  <2>1. timer.on /\ timer.left > 0 /\ timer.pc = "idle"
    BY <1>3 DEF Elapse, EstimateInv, ClockInv
  <2>2. dl.lead >= timer.left - TickEvery /\ board - dl.lead <= TickEvery
    BY <1>1, <1>3, <2>1 DEF EstimateInv, ClockInv, RxAt
  <2>3. timer'.on /\ timer'.left = timer.left - 1
    BY <2>1 DEF Elapse, TypeOK, Tickers
  <2>4. Most(dl.lead - 1, 0 - MaxLag) = dl.lead - 1
    BY <2>1, <2>2 DEF Most, MaxLag
  <2>5. dl'.armed /\ dl'.lead = dl.lead - 1
    BY <1>3, <2>4 DEF Elapse, TypeOK, Downlinks
  <2>6. dl'.lead >= timer'.left - TickEvery
    BY <2>2, <2>3, <2>5
  <2>7. board' - dl'.lead <= TickEvery
    BY <1>1, <2>1, <2>2, <2>5
  <2> QED BY <1>1, <1>2, <2>3, <2>5, <2>6, <2>7 DEF EstimateInv, ClockInv, Arming, RxAt
<1>4. CASE ~dl.armed
  <2>1. ~timer.on /\ UNCHANGED <<dl, timer>>
    BY <1>4 DEF Elapse, EstimateInv, ClockInv
  <2> QED BY <1>1, <1>2, <1>4, <2>1 DEF EstimateInv, ClockInv, Arming, RxAt
<1> QED BY <1>3, <1>4

LEMMA EstimateImplies == ASSUME TypeOK, EstimateInv PROVE EstimateClose
BY Numbers DEF EstimateInv, EstimateClose, RxAt, Most

LEMMA NextEstimate ==
  ASSUME ~Metered, ~BackToBack, "timer" \notin Faults, TypeOK, EstimateInv, [Next]_vars
  PROVE  EstimateInv'
<1>1. CASE UNCHANGED vars
  BY <1>1 DEF vars, EstimateInv, ClockInv, Arming, RxAt, Units
<1>2. CASE Next
  BY <1>2, TimerEstimate, RxEstimate, HandlersEstimate, ElapseEstimate DEF Next
<1> QED BY <1>1, <1>2

\* BufferedMsLocked: whatever bursts, underruns, link losses and lost frames occur, for every
\* tick, SDU and rate, the time-based estimate falls short of what the board holds by at most
\* one tick, provided a reply starts on an empty board and the ticker can be created.
THEOREM EstimateAccuracy ==
  ASSUME ~Metered, ~BackToBack, "timer" \notin Faults
  PROVE  Spec => []EstimateClose
<1>1. TypeOK /\ EstimateInv /\ [Next]_vars => EstimateInv'
  BY NextEstimate
<1>2. TypeOK /\ EstimateInv => EstimateClose
  BY EstimateImplies
<1> QED BY InitEstimate, DownlinkTypes, <1>1, <1>2, PTL DEF Spec

-----------------------------------------------------------------------------
(* Intelligible: with one codec, and an App that breaks off between two blocks. *)

Cycle == Pieces(DefaultCodec)
After(n) == (n % Cycle) + 1

\* OnLinkState(false) has yet to drop the partial block.
Cleaning == rx.pc = "reset" \/ (rx.pc \in {"disarm", "release"} /\ rx.then = "reset")

OneCodec == dl.codec = DefaultCodec /\ app.codec = DefaultCodec
Handing ==
  /\ rx.pc \in {"arm", "ticker"} => rx.then # "reset"
  /\ rx.sdu # <<>> => \/ rx.pc \in {"feed", "sink", "pause"}
                      \/ rx.pc \in {"arm", "ticker"} /\ rx.then = "feed"
\* The partial block is the beginning of a block, and the rest of the SDU goes on from there.
Partial ==
  /\ Len(dl.block) < Cycle
  /\ \A i \in 1..Len(dl.block) : dl.block[i] = <<DefaultCodec, i>>
  /\ \A i \in 1..Len(rx.sdu) : rx.sdu[i] = <<DefaultCodec, After(Len(dl.block) + i - 1)>>
Decoded ==
  rx.pc = "sink" =>
    IF DefaultCodec = "pcm" THEN \A i \in DOMAIN rx.out : rx.out[i] = <<"pcm", 1>>
    ELSE rx.out = [i \in 1..BlockLen |-> <<"adpcm", i>>]
\* Where in its block each SDU under way begins: the first follows what has arrived, each follows
\* the one before, and the App goes on after the last.
Places(pos) ==
  /\ pos \in [1..(Len(air) + 1) -> 1..BlockLen]
  /\ pos[1] = After(Len(dl.block) + Len(rx.sdu))
  /\ pos[Len(air) + 1] = app.piece
  /\ \A k \in 1..Len(air) : /\ air[k] = Stream(DefaultCodec, pos[k], Len(air[k]))
                            /\ pos[k + 1] = After(pos[k] + Len(air[k]) - 1)
Consecutive ==
  IF Cleaning THEN ~link /\ air = <<>> /\ app.piece = 1 /\ rx.sdu = <<>>
  ELSE \E pos \in [1..(Len(air) + 1) -> 1..BlockLen] : Places(pos)
DecodeInv == OneCodec /\ Handing /\ Partial /\ Decoded /\ Consecutive

\* What is needed of division.
LEMMA ModRange ==
  ASSUME NEW p \in Nat \ {0}, NEW x \in Nat
  PROVE  x % p \in 0..(p - 1)
OBVIOUS

LEMMA ModSmall ==
  ASSUME NEW p \in Nat \ {0}, NEW x \in 0..(p - 1)
  PROVE  x % p = x
OBVIOUS

LEMMA DivMod ==
  ASSUME NEW p \in Nat \ {0}, NEW x \in Nat
  PROVE  /\ x \div p \in Int
         /\ x = p * (x \div p) + (x % p)
OBVIOUS

LEMMA Multiple ==
  ASSUME NEW p \in Nat \ {0}, NEW d \in Int, NEW r \in 0..(p - 1), NEW s \in 0..(p - 1), p * d = r - s
  PROVE  r = s
<1>1. d >= 1 => p * d >= p
  OBVIOUS
<1>2. d <= -1 => p * d <= -p
  OBVIOUS
<1>3. d = 0
  BY <1>1, <1>2
<1> QED BY <1>3

LEMMA ModShift ==
  ASSUME NEW p \in Nat \ {0}, NEW x \in Nat
  PROVE  (x + p) % p = x % p
<1> DEFINE q == x \div p
           t == (x + p) \div p
           r == x % p
           s == (x + p) % p
<1>1. q \in Int /\ t \in Int /\ r \in 0..(p - 1) /\ s \in 0..(p - 1)
  BY DivMod, ModRange
<1>2. x = p * q + r /\ x + p = p * t + s
  BY DivMod
<1> HIDE DEF q, t, r, s
<1>3. p * (t - q - 1) = r - s
  BY <1>1, <1>2
<1>4. t - q - 1 \in Int
  BY <1>1
<1>5. r = s
  BY <1>1, <1>3, <1>4, Multiple
<1> QED BY <1>5 DEF r, s

LEMMA Shape ==
  /\ Cycle \in Nat \ {0} /\ Cycle <= BlockLen /\ DefaultCodec \in AllCodecs
  /\ DefaultCodec = "pcm" => Cycle = 1
  /\ DefaultCodec = "adpcm" => Cycle = BlockLen
  /\ DefaultCodec # "pcm" => DefaultCodec = "adpcm"
BY DownlinkAssumption DEF Cycle, Pieces, AllCodecs

LEMMA AfterFacts ==
  ASSUME NEW n \in Nat
  PROVE  /\ After(n) \in 1..Cycle /\ After(n) \in 1..BlockLen
         /\ n < Cycle => After(n) = n + 1
         /\ After(n + Cycle) = After(n)
<1>1. n % Cycle \in 0..(Cycle - 1)
  BY Shape, ModRange
<1>2. After(n) \in 1..Cycle /\ After(n) \in 1..BlockLen
  BY <1>1, Shape, DownlinkAssumption DEF After
<1>3. n < Cycle => n % Cycle = n
  BY Shape, ModSmall
<1>4. (n + Cycle) % Cycle = n % Cycle
  BY Shape, ModShift
<1> QED BY <1>2, <1>3, <1>4 DEF After

LEMMA Fields ==
  ASSUME TypeOK
  PROVE  /\ dl \in Downlinks /\ rx \in Tasks /\ app \in Apps
         /\ dl.block \in Seq(Cells) /\ Len(dl.block) \in Nat
         /\ rx.sdu \in Seq(Cells) /\ Len(rx.sdu) \in Nat
         /\ air \in Seq(Seq(Cells)) /\ Len(air) \in Nat
         /\ app.piece \in 1..BlockLen
BY DEF TypeOK, Downlinks, Tasks, Apps

\* A step that neither moves audio nor ends a link.
LEMMA DecodeFrame ==
  ASSUME DecodeInv,
         dl'.block = dl.block, dl'.codec = dl.codec, app'.piece = app.piece,
         app'.codec = app.codec, air' = air, rx'.sdu = rx.sdu,
         rx'.pc = "sink" => rx.pc = "sink" /\ rx'.out = rx.out,
         Handing', Cleaning' <=> Cleaning, Cleaning => link' = link
  PROVE  DecodeInv'
<1>1. OneCodec' /\ Partial' /\ Decoded'
  BY DEF DecodeInv, OneCodec, Partial, Decoded, After
<1>2. \A pos : Places(pos) => Places(pos)'
  BY DEF Places
<1>3. Consecutive'
  <2>1. CASE Cleaning
    BY <2>1 DEF DecodeInv, Consecutive
  <2>2. CASE ~Cleaning
    <3>1. PICK pos \in [1..(Len(air) + 1) -> 1..BlockLen] : Places(pos)
      BY <2>2 DEF DecodeInv, Consecutive
    <3>2. Places(pos)' /\ pos \in [1..(Len(air') + 1) -> 1..BlockLen] /\ ~Cleaning'
      BY <1>2, <2>2, <3>1
    <3> QED BY <3>2 DEF Consecutive
  <2> QED BY <2>1, <2>2
<1> QED BY <1>1, <1>3 DEF DecodeInv

LEMMA TimerDecode ==
  ASSUME TypeOK, DecodeInv, TimerStep
  PROVE  DecodeInv'
<1>1. UNCHANGED <<rx, app, air, link>>
  BY DEF TimerStep, TickStart, TickFlip, TickRepeat, TickReassert, TickDecides, TickSend
<1>2. dl'.block = dl.block /\ dl'.codec = dl.codec
  <2>1. ASSUME NEW d \in Downlinks, NEW send, TickDecides(d, send)
        PROVE  dl'.block = d.block /\ dl'.codec = d.codec
    BY <2>1 DEF TickDecides, Downlinks
  <2>2. \A b \in BOOLEAN : /\ Flipped(dl, b) \in Downlinks /\ Flipped(dl, b).block = dl.block
                           /\ Flipped(dl, b).codec = dl.codec
    BY Fields, ConstantTypes DEF Flipped, Downlinks
  <2>3. CASE TickFlip
    BY <2>1, <2>2, <2>3, Fields DEF TickFlip, Downlinks
  <2>4. CASE TickRepeat
    <3>1. dl.repeats \in 0..FlipRepeats
      BY Fields DEF Downlinks
    <3>2. dl.repeats - 1 \in 0..FlipRepeats
      BY <2>4, <3>1, DownlinkAssumption DEF TickRepeat
    <3>3. [dl EXCEPT !.repeats = dl.repeats - 1, !.since = 0] \in Downlinks
      BY <3>2, Fields, ConstantTypes DEF Downlinks
    <3> QED BY <2>1, <2>4, <3>3, Fields DEF TickRepeat, Downlinks
  <2>5. CASE TickReassert
    <3>1. [dl EXCEPT !.since = 0] \in Downlinks
      BY Fields, ConstantTypes DEF Downlinks
    <3> QED BY <2>1, <2>5, <3>1, Fields DEF TickReassert, Downlinks
  <2>6. CASE TickStart \/ TickSend
    BY <2>6 DEF TickStart, TickSend
  <2> QED BY <2>3, <2>4, <2>5, <2>6 DEF TimerStep
<1> QED BY <1>1, <1>2, DecodeFrame DEF DecodeInv, Handing, Cleaning

LEMMA DisarmFacts ==
  ASSUME TypeOK, NEW then, Disarm(then)
  PROVE  /\ dl'.block = dl.block /\ dl'.codec = dl.codec /\ rx'.sdu = rx.sdu
         /\ \/ rx'.pc = "disarm" /\ rx'.then = then
            \/ rx'.pc = then /\ rx'.then = rx.then
BY Fields DEF Disarm, Downlinks, Tasks

\* The transport task's steps that move no audio.
LEMMA RxDecode ==
  ASSUME TypeOK, DecodeInv,
         ArmReset \/ ArmTicker \/ DisarmReset \/ DisarmRelease \/ FeedDone \/ Sink \/ DeliverPause
  PROVE  DecodeInv'
<1>0. dl \in Downlinks /\ rx \in Tasks
  BY Fields
<1>1. UNCHANGED <<app, air, link>>
  BY DEF ArmReset, ArmTicker, DisarmReset, DisarmRelease, FeedDone, Sink, DeliverPause
<1>2. dl'.block = dl.block /\ dl'.codec = dl.codec
  BY <1>0 DEF ArmReset, ArmTicker, DisarmReset, DisarmRelease, FeedDone, Sink, DeliverPause,
     Downlinks
<1>3. /\ rx'.sdu = rx.sdu /\ rx'.pc # "sink" /\ (Cleaning' <=> Cleaning) /\ Handing'
  <2>1. CASE ArmReset
    BY <1>0, <2>1 DEF ArmReset, RxAt, Tasks, DecodeInv, Handing, Cleaning
  <2>2. CASE ArmTicker
    BY <1>0, <2>2 DEF ArmTicker, RxAt, Tasks, DecodeInv, Handing, Cleaning
  <2>3. CASE DisarmReset
    BY <1>0, <2>3 DEF DisarmReset, RxAt, Tasks, DecodeInv, Handing, Cleaning
  <2>4. CASE DisarmRelease
    BY <1>0, <2>4 DEF DisarmRelease, RxAt, Tasks, DecodeInv, Handing, Cleaning
  <2>5. CASE FeedDone
    BY <1>0, <2>5 DEF FeedDone, RxAt, Task0, Handing, Cleaning
  <2>6. CASE Sink
    <3>1. rx'.sdu = rx.sdu /\ rx'.pc \in {"pause", "feed"} /\ rx.pc = "sink"
      BY <1>0, <2>6 DEF Sink, RxAt, Tasks
    <3> QED BY <3>1 DEF Handing, Cleaning
  <2>7. CASE DeliverPause
    <3>1. rx'.sdu = rx.sdu /\ rx'.pc = "feed" /\ rx.pc = "pause"
      BY <1>0, <2>7 DEF DeliverPause, RxAt, Tasks
    <3> QED BY <3>1 DEF Handing, Cleaning
  <2> QED BY <2>1, <2>2, <2>3, <2>4, <2>5, <2>6, <2>7
<1> QED BY <1>1, <1>2, <1>3, DecodeFrame

\* Feed: the SDU that arrived goes on where the partial block ends.
LEMMA FeedDecode ==
  ASSUME TypeOK, DecodeInv, Feed
  PROVE  DecodeInv'
<1>0. /\ rx \in Tasks /\ dl.block \in Seq(Cells) /\ Len(dl.block) \in Nat
      /\ air \in Seq(Seq(Cells)) /\ Len(air) \in Nat \ {0} /\ Len(Head(air)) \in Nat
  BY Fields DEF Feed
<1>1. /\ rx.pc = "idle" /\ rx'.pc \in {"feed", "arm"} /\ rx'.then = "feed"
      /\ rx'.sdu = air[1] /\ air' = Tail(air) /\ UNCHANGED <<dl, app, link>>
  BY <1>0 DEF Feed, RxAt, Tasks
<1>2. rx.sdu = <<>> /\ ~Cleaning /\ ~Cleaning'
  BY <1>1 DEF DecodeInv, Handing, Cleaning
<1>3. PICK pos \in [1..(Len(air) + 1) -> 1..BlockLen] : Places(pos)
  BY <1>2 DEF DecodeInv, Consecutive
<1>4. /\ Len(dl.block) < Cycle
      /\ pos[1] = Len(dl.block) + 1
      /\ air[1] = Stream(DefaultCodec, pos[1], Len(air[1]))
      /\ pos[2] = After(pos[1] + Len(air[1]) - 1)
  <2>1. Len(dl.block) < Cycle
    BY DEF DecodeInv, Partial
  <2>2. pos[1] = After(Len(dl.block) + 0)
    BY <1>2, <1>3 DEF Places
  <2>3. 1 \in 1..Len(air) /\ 1 + 1 = 2 /\ Len(dl.block) + 0 = Len(dl.block)
    BY <1>0
  <2> QED BY <1>0, <1>3, <2>1, <2>2, <2>3, AfterFacts DEF Places
<1>5. Len(air[1]) \in Nat
  BY <1>0
<1>6. Partial'
  <2>1. \A i \in 1..Len(air[1]) :
          air[1][i] = <<DefaultCodec, ((Len(dl.block) + 1 + i - 2) % Cycle) + 1>>
    BY <1>4 DEF Stream, Cycle
  <2>2. \A i \in 1..Len(air[1]) : Len(dl.block) + 1 + i - 2 = Len(dl.block) + i - 1
    BY <1>0, <1>5
  <2> QED BY <1>1, <2>1, <2>2 DEF DecodeInv, Partial, After
<1>7. Consecutive'
  <2> DEFINE next == [k \in 1..Len(air) |-> pos[k + 1]]
  <2>1. Len(air') = Len(air) - 1 /\ \A k \in 1..(Len(air) - 1) : air'[k] = air[k + 1]
    BY <1>0, <1>1
  <2>2. Len(air') + 1 = Len(air)
    BY <1>0, <2>1
  <2>3. \A k \in 1..Len(air) : k + 1 \in 1..(Len(air) + 1) /\ next[k] = pos[k + 1]
    BY <1>0
  <2>4. next \in [1..Len(air) -> 1..BlockLen]
    BY <1>3, <2>3
  <2>5. next[1] = After(Len(dl.block) + Len(air[1]))
    <3>0. \A a, b \in Nat : a + 1 + b - 1 = a + b
      OBVIOUS
    <3>1. pos[1] + Len(air[1]) - 1 = Len(dl.block) + Len(air[1])
      BY <1>0, <1>4, <1>5, <3>0
    <3>2. 1 \in 1..Len(air) /\ 1 + 1 = 2
      BY <1>0
    <3> QED BY <1>4, <2>3, <3>1, <3>2
  <2>6. next[Len(air)] = app.piece
    <3>1. Len(air) \in 1..Len(air)
      BY <1>0
    <3> QED BY <1>3, <2>3, <3>1 DEF Places
  <2>7. ASSUME NEW k \in 1..(Len(air) - 1)
        PROVE  /\ air'[k] = Stream(DefaultCodec, next[k], Len(air'[k]))
               /\ next[k + 1] = After(next[k] + Len(air'[k]) - 1)
    <3>1. k + 1 \in 1..Len(air) /\ k \in 1..Len(air)
      BY <1>0
    <3>2. next[k] = pos[k + 1] /\ next[k + 1] = pos[k + 1 + 1] /\ air'[k] = air[k + 1]
      BY <2>1, <2>3, <3>1
    <3> QED BY <1>3, <3>1, <3>2 DEF Places
  <2> HIDE DEF next
  <2>8. PICK new : new = next
    OBVIOUS
  <2>9. new \in [1..(Len(air') + 1) -> 1..BlockLen]
    BY <2>2, <2>4, <2>8
  <2>10. new[1] = After(Len(dl.block) + Len(rx.sdu))'
    BY <1>1, <2>5, <2>8 DEF After
  <2>11. new[Len(air') + 1] = app'.piece
    BY <1>1, <2>2, <2>6, <2>8
  <2>12. ASSUME NEW k \in 1..Len(air')
         PROVE  /\ air'[k] = Stream(DefaultCodec, new[k], Len(air'[k]))
                /\ new[k + 1] = After(new[k] + Len(air'[k]) - 1)
    BY <2>1, <2>7, <2>8
  <2>13. Places(new)'
    BY <2>9, <2>10, <2>11, <2>12 DEF Places, After
  <2> QED BY <1>2, <2>9, <2>13 DEF Consecutive
<1>8. OneCodec' /\ Handing' /\ Decoded'
  BY <1>1 DEF DecodeInv, OneCodec, Handing, Decoded
<1> QED BY <1>6, <1>7, <1>8 DEF DecodeInv

\* Arithmetic of a block of c pieces of which b are there, m are missing and l have arrived.
LEMMA Whole ==
  ASSUME NEW b \in Nat, NEW l \in Nat, NEW c \in Nat, NEW m, m = c - b, b < c, l >= m
  PROVE  /\ m \in Nat \ {0} /\ m \in 0..l /\ m + 1 \in 1..(l + 1) /\ b + m = c
         /\ 1 \in 1..(l + 1) /\ l - m \in Nat /\ l - m + c = b + l
         /\ IF m + 1 <= l THEN l - (m + 1) + 1 = l - m ELSE l - m = 0
         /\ l - (m + 1) + 1 = l - m
         /\ \A i \in 1..(l - m) : /\ (m + 1) + i - 1 = m + i /\ m + i \in 1..l /\ i - 1 \in Nat
                                  /\ b + (m + i) - 1 = i - 1 + c
         /\ \A i \in 1..m : i \in 1..l
OBVIOUS

LEMMA Short ==
  ASSUME NEW b \in Nat, NEW l \in Nat, NEW c \in Nat, NEW m, m = c - b, l < m
  PROVE  b + l < c /\ b + l \in Nat
OBVIOUS

LEMMA Join ==
  ASSUME NEW s \in Seq(Cells), NEW t \in Seq(Cells)
  PROVE  /\ s \o t \in Seq(Cells) /\ Len(s \o t) = Len(s) + Len(t)
         /\ \A i \in 1..Len(s) : (s \o t)[i] = s[i]
         /\ \A i \in 1..Len(t) : (s \o t)[Len(s) + i] = t[i]
OBVIOUS

LEMMA Second ==
  ASSUME NEW b \in Nat, NEW l \in Nat, NEW i \in 1..(b + l), ~(i <= b)
  PROVE  /\ i - b \in 1..l /\ b + (i - b) = i /\ b + (i - b) - 1 = i - 1 /\ i - 1 \in Nat
         /\ i - 1 < b + l /\ i - 1 + 1 = i
OBVIOUS

LEMMA AccountFacts ==
  ASSUME TypeOK, NEW n \in Nat, NEW out \in Seq(Cells), NEW rest \in Seq(Cells),
         Account(n, out, rest)
  PROVE  /\ dl'.block = <<>> /\ dl'.codec = dl.codec
         /\ rx'.pc = "sink" /\ rx'.sdu = rest /\ rx'.out = out /\ rx'.then = rx.then
<1> DEFINE lead == IF Metered THEN dl.lead ELSE Rebased(dl.lead + n)
           ms == Buffered(dl.lead + n) + IF Metered THEN n ELSE 0
           flip == ~dl.paused /\ ms >= PauseAt
           d == [dl EXCEPT !.lead = lead, !.block = <<>>]
<1>0. dl \in Downlinks /\ rx \in Tasks
  BY Fields
<1>1. d.block = <<>> /\ d.codec = dl.codec
  BY <1>0 DEF Downlinks
<1>2. /\ dl' = IF flip THEN Flipped(d, TRUE) ELSE d
      /\ rx' = [rx EXCEPT !.pc = "sink", !.sdu = rest, !.out = out, !.send = flip]
  BY DEF Account
<1>3. Flipped(d, TRUE).block = d.block /\ Flipped(d, TRUE).codec = d.codec
  <2> HIDE DEF lead
  <2> QED BY <1>0 DEF Flipped, Downlinks
<1>4. dl'.block = <<>> /\ dl'.codec = dl.codec
  <2> HIDE DEF flip, d
  <2> QED BY <1>1, <1>2, <1>3
<1> HIDE DEF flip, d
<1> QED BY <1>0, <1>2, <1>4 DEF Tasks

\* Deliver: out goes to the board, and the rest of the SDU begins a new block.
LEMMA AccountDecode ==
  ASSUME TypeOK, DecodeInv, rx.pc = "feed", NEW n \in Nat, NEW out \in Seq(Cells),
         NEW rest \in Seq(Cells), Account(n, out, rest), UNCHANGED <<app, air, link>>,
         \A i \in 1..Len(rest) : rest[i] = <<DefaultCodec, After(i - 1)>>,
         After(Len(rest)) = After(Len(dl.block) + Len(rx.sdu)),
         IF DefaultCodec = "pcm" THEN \A i \in DOMAIN out : out[i] = <<"pcm", 1>>
         ELSE out = [i \in 1..BlockLen |-> <<"adpcm", i>>]
  PROVE  DecodeInv'
<1>1. /\ dl'.block = <<>> /\ dl'.codec = dl.codec
      /\ rx'.pc = "sink" /\ rx'.sdu = rest /\ rx'.out = out /\ rx'.then = rx.then
  BY AccountFacts
<1>2. Len(dl'.block) = 0 /\ Len(rest) \in Nat /\ \A i \in Nat : 0 + i = i
  BY <1>1
<1>3. ~Cleaning /\ ~Cleaning'
  BY <1>1 DEF Cleaning
<1>4. OneCodec' /\ Handing' /\ Decoded'
  BY <1>1 DEF DecodeInv, OneCodec, Handing, Decoded
<1>5. Partial'
  <2>1. Len(dl'.block) < Cycle /\ \A i \in 1..Len(dl'.block) : dl'.block[i] = <<DefaultCodec, i>>
    BY <1>2, Shape
  <2>2. \A i \in 1..Len(rest) : rest[i] = <<DefaultCodec, After(0 + i - 1)>>
    OBVIOUS
  <2> QED BY <1>1, <1>2, <2>1, <2>2 DEF Partial, After
<1>6. PICK pos \in [1..(Len(air) + 1) -> 1..BlockLen] : Places(pos)
  BY <1>3 DEF DecodeInv, Consecutive
<1>7. pos[1] = After(Len(dl'.block) + Len(rx'.sdu))
  BY <1>1, <1>2, <1>6 DEF Places
<1>8. Places(pos)'
  BY <1>6, <1>7 DEF Places, After
<1>9. Consecutive'
  BY <1>3, <1>6, <1>8 DEF Consecutive
<1> QED BY <1>4, <1>5, <1>9 DEF DecodeInv

LEMMA FeedPcmDecode ==
  ASSUME TypeOK, DecodeInv, FeedPcm
  PROVE  DecodeInv'
<1>0. rx.sdu \in Seq(Cells) /\ Len(rx.sdu) \in Nat /\ <<>> \in Seq(Cells) /\ Len(dl.block) \in Nat
  BY Fields
<1>1. DefaultCodec = "pcm" /\ rx.pc = "feed" /\ Account(Len(rx.sdu), rx.sdu, <<>>)
      /\ UNCHANGED <<app, air, link>>
  BY DEF FeedPcm, RxAt, DecodeInv, OneCodec
<1>2. \A n \in Nat : After(n) = 1
  BY <1>1, Shape, AfterFacts
<1>3. \A i \in DOMAIN rx.sdu : rx.sdu[i] = <<"pcm", 1>>
  <2> TAKE i \in DOMAIN rx.sdu
  <2>1. i \in 1..Len(rx.sdu) /\ Len(dl.block) + i - 1 \in Nat
    BY <1>0
  <2> QED BY <1>1, <1>2, <2>1 DEF DecodeInv, Partial
<1>4. After(Len(<<>>)) = After(Len(dl.block) + Len(rx.sdu))
  <2>0. \A a, b \in Nat : a + b \in Nat
    OBVIOUS
  <2>1. Len(<<>>) \in Nat /\ Len(dl.block) + Len(rx.sdu) \in Nat
    BY <1>0, <2>0
  <2> QED BY <1>2, <2>1
<1>5. \A i \in 1..Len(<<>>) : <<>>[i] = <<DefaultCodec, After(i - 1)>>
  OBVIOUS
<1> QED BY <1>0, <1>1, <1>3, <1>4, <1>5, AccountDecode

LEMMA FeedBlockDecode ==
  ASSUME TypeOK, DecodeInv, FeedBlock
  PROVE  DecodeInv'
<1> DEFINE b == Len(dl.block)
           l == Len(rx.sdu)
           out == dl.block \o SubSeq(rx.sdu, 1, Missing)
           rest == SubSeq(rx.sdu, Missing + 1, Len(rx.sdu))
<1>0. rx.sdu \in Seq(Cells) /\ l \in Nat /\ b \in Nat /\ dl.block \in Seq(Cells)
  BY Fields
<1>1. /\ DefaultCodec = "adpcm" /\ Cycle = BlockLen /\ rx.pc = "feed" /\ l >= Missing
      /\ Account(1, out, rest) /\ UNCHANGED <<app, air, link>>
  BY Shape DEF FeedBlock, RxAt, DecodeInv, OneCodec
<1>2. b < BlockLen /\ BlockLen \in Nat /\ Missing = BlockLen - b
  BY <1>1, Shape DEF DecodeInv, Partial, Missing
<1>3. Missing \in Nat \ {0} /\ Missing \in 0..l /\ Missing + 1 \in 1..(l + 1) /\ b + Missing = BlockLen
  <2> HIDE DEF b, l
  <2> QED BY <1>0, <1>1, <1>2, Whole
<1>4. \A i \in 1..l : rx.sdu[i] = <<"adpcm", After(b + i - 1)>>
  BY <1>1 DEF DecodeInv, Partial
<1>5. /\ SubSeq(rx.sdu, 1, Missing) \in Seq(Cells) /\ Len(SubSeq(rx.sdu, 1, Missing)) = Missing
      /\ \A i \in 1..Missing : SubSeq(rx.sdu, 1, Missing)[i] = rx.sdu[i]
  <2>1. 1 \in 1..(l + 1)
    BY <1>0
  <2>2. SubSeq(rx.sdu, 1, Missing) \in Seq(Cells)
    BY <1>0, <1>3, <2>1, SequencesClosed
  <2>3. \A i \in 1..Missing : i \in 1..l
    BY <1>0, <1>3
  <2> QED BY <1>0, <1>3, <2>2, <2>3, SubSeqProperties
<1>6. rest \in Seq(Cells) /\ Len(rest) = l - Missing /\ \A i \in 1..(l - Missing) : rest[i] = rx.sdu[Missing + i]
  <2>1. rest \in Seq(Cells)
    BY <1>0, <1>3, SequencesClosed
  <2>2. \A i \in (Missing + 1)..l : rx.sdu[i] \in Cells
    BY <1>0, <1>3
  <2>3. /\ Len(rest) = IF Missing + 1 <= l THEN l - (Missing + 1) + 1 ELSE 0
        /\ \A i \in 1..(l - (Missing + 1) + 1) : rest[i] = rx.sdu[(Missing + 1) + i - 1]
    BY <1>0, <1>3, <2>2, SubSeqProperties
  <2>4. /\ l - (Missing + 1) + 1 = l - Missing
        /\ IF Missing + 1 <= l THEN l - (Missing + 1) + 1 = l - Missing ELSE l - Missing = 0
        /\ \A i \in 1..(l - Missing) : (Missing + 1) + i - 1 = Missing + i
    <3> HIDE DEF b, l
    <3> QED BY <1>0, <1>1, <1>2, Whole
  <2> QED BY <2>1, <2>3, <2>4
<1> HIDE DEF rest
<1>7. out \in Seq(Cells) /\ out = [i \in 1..BlockLen |-> <<"adpcm", i>>]
  <2>1. out \in Seq(Cells) /\ Len(out) = BlockLen
    BY <1>0, <1>3, <1>5, Join
  <2>2. ASSUME NEW i \in 1..BlockLen PROVE out[i] = <<"adpcm", i>>
    <3>1. CASE i <= b
      <4>1. i \in 1..b /\ out[i] = dl.block[i]
        BY <1>0, <1>5, <3>1, Join
      <4> QED BY <1>1, <4>1 DEF DecodeInv, Partial
    <3>2. CASE ~(i <= b)
      <4>0. i \in 1..(b + Missing) /\ Missing \in Nat
        BY <1>3
      <4>1. /\ i - b \in 1..Missing /\ b + (i - b) = i /\ b + (i - b) - 1 = i - 1
            /\ i - 1 \in Nat /\ i - 1 < Cycle /\ i - 1 + 1 = i
        BY <1>0, <1>1, <1>3, <3>2, <4>0, Second
      <4>4. i - b \in 1..l
        <5> HIDE DEF b, l
        <5> QED BY <1>0, <1>1, <1>2, <4>1, Whole
      <4>2. out[i] = SubSeq(rx.sdu, 1, Missing)[i - b]
        BY <1>0, <1>5, <4>1, Join
      <4>3. After(i - 1) = i
        BY <4>1, AfterFacts
      <4> QED BY <1>4, <1>5, <4>1, <4>2, <4>3, <4>4
    <3> QED BY <3>1, <3>2
  <2> HIDE DEF out
  <2>3. out = [i \in 1..Len(out) |-> out[i]]
    BY <2>1
  <2> QED BY <2>1, <2>2, <2>3, Zenon
<1>8. \A i \in 1..Len(rest) : rest[i] = <<DefaultCodec, After(i - 1)>>
  <2> TAKE i \in 1..Len(rest)
  <2>1. /\ i \in 1..(l - Missing) /\ Missing + i \in 1..l /\ i - 1 \in Nat
        /\ b + (Missing + i) - 1 = i - 1 + Cycle
    <3> HIDE DEF b, l
    <3> QED BY <1>0, <1>1, <1>2, <1>6, Whole
  <2>2. rest[i] = <<"adpcm", After(b + (Missing + i) - 1)>>
    BY <1>4, <1>6, <2>1
  <2>3. After(i - 1 + Cycle) = After(i - 1)
    BY <2>1, AfterFacts
  <2> QED BY <1>1, <2>1, <2>2, <2>3
<1>9. After(Len(rest)) = After(b + l)
  <2>1. l - Missing \in Nat /\ l - Missing + Cycle = b + l
    <3> HIDE DEF b, l
    <3> QED BY <1>0, <1>1, <1>2, Whole
  <2>2. After(l - Missing + Cycle) = After(l - Missing)
    BY <2>1, AfterFacts
  <2> QED BY <1>6, <2>1, <2>2
<1> HIDE DEF out
<1> QED BY <1>1, <1>6, <1>7, <1>8, <1>9, AccountDecode

\* What is left of an SDU joins the partial block.
LEMMA FeedPartialDecode ==
  ASSUME TypeOK, DecodeInv, FeedPartial
  PROVE  DecodeInv'
<1> DEFINE b == Len(dl.block)
           l == Len(rx.sdu)
<1>0. rx.sdu \in Seq(Cells) /\ l \in Nat /\ b \in Nat /\ dl.block \in Seq(Cells)
  BY Fields
<1>1. /\ DefaultCodec = "adpcm" /\ Cycle = BlockLen /\ rx.pc = "feed" /\ l < Missing
      /\ dl'.block = dl.block \o rx.sdu /\ dl'.codec = dl.codec
      /\ rx' = Task0 /\ UNCHANGED <<app, air, link>>
  BY Shape, Fields DEF FeedPartial, RxAt, DecodeInv, OneCodec, Downlinks
<1>2. b + l < Cycle /\ b + l \in Nat
  <2>1. Missing = Cycle - b /\ Cycle \in Nat
    BY <1>1, Shape DEF Missing
  <2> QED BY <1>0, <1>1, <2>1, Short
<1>3. Len(dl'.block) = b + l /\ Len(rx'.sdu) = 0
  BY <1>0, <1>1, Join DEF Task0
<1>4. ASSUME NEW i \in 1..(b + l) PROVE dl'.block[i] = <<DefaultCodec, i>>
  <2>1. CASE i <= b
    <3>1. i \in 1..b /\ dl'.block[i] = dl.block[i]
      BY <1>0, <1>1, <2>1, Join
    <3> QED BY <3>1 DEF DecodeInv, Partial
  <2>2. CASE ~(i <= b)
    <3>0. /\ i - b \in 1..l /\ b + (i - b) = i /\ b + (i - b) - 1 = i - 1 /\ i - 1 \in Nat
          /\ i - 1 < b + l /\ i - 1 + 1 = i
      <4> HIDE DEF b, l
      <4> QED BY <1>0, <2>2, Second
    <3>1. i - b \in 1..l /\ b + (i - b) - 1 = i - 1 /\ i - 1 \in Nat /\ i - 1 < Cycle /\ i - 1 + 1 = i
      <4>1. \A x, y, z \in Nat : x < y /\ y < z => x < z
        OBVIOUS
      <4> HIDE DEF b, l
      <4> QED BY <1>2, <3>0, <4>1, Shape
    <3>2. dl'.block[i] = rx.sdu[i - b]
      BY <1>0, <1>1, <3>0, Join
    <3>3. After(i - 1) = i
      BY <3>1, AfterFacts
    <3>4. rx.sdu[i - b] = <<DefaultCodec, After(b + (i - b) - 1)>>
      BY <3>1 DEF DecodeInv, Partial
    <3> QED BY <3>1, <3>2, <3>3, <3>4
  <2> QED BY <2>1, <2>2
<1>5. Partial'
  <2>1. \A i \in 1..Len(rx'.sdu) : FALSE
    BY <1>3
  <2> QED BY <1>2, <1>3, <1>4, <2>1 DEF Partial, Cycle
<1>6. ~Cleaning /\ ~Cleaning' /\ OneCodec' /\ Handing' /\ Decoded'
  BY <1>1 DEF Cleaning, DecodeInv, OneCodec, Handing, Decoded, Task0
<1>7. PICK pos \in [1..(Len(air) + 1) -> 1..BlockLen] : Places(pos)
  BY <1>6 DEF DecodeInv, Consecutive
<1>8. pos[1] = After(Len(dl'.block) + Len(rx'.sdu))
  BY <1>3, <1>7 DEF Places
<1>9. Places(pos)'
  BY <1>1, <1>7, <1>8 DEF Places, After
<1>10. Consecutive'
  BY <1>1, <1>6, <1>7, <1>9 DEF Consecutive
<1> QED BY <1>5, <1>6, <1>10 DEF DecodeInv

\* What the single codec and the App that finishes its blocks leave of the handlers.
LEMMA CommandsDecode ==
  ASSUME TypeOK, DecodeInv, Codecs \subseteq {DefaultCodec}, "cut" \notin Faults, Commands
  PROVE  DecodeInv'
<1>0. dl \in Downlinks /\ rx \in Tasks /\ app \in Apps /\ AllCodecs = {"pcm", "adpcm"}
  BY Fields DEF AllCodecs
<1>1. rx.pc = "idle" /\ rx.sdu = <<>> /\ UNCHANGED <<air, link>>
  BY DEF Commands, ReplyStarts, ReplyEnds, ReplyFails, RxAt, DecodeInv, Handing
<1>2. dl'.block = dl.block /\ dl'.codec = dl.codec /\ rx'.sdu = rx.sdu
      /\ \/ rx'.pc = "arm" /\ rx'.then = "idle"
         \/ rx'.pc = "disarm" /\ rx'.then = "idle"
         \/ rx'.pc = "idle"
  <2>1. CASE \E c \in Codecs : ReplyStarts(c)
    <3>1. PICK c \in Codecs : ReplyStarts(c)
      BY <2>1
    <3>2. c = dl.codec
      BY <3>1 DEF DecodeInv, OneCodec
    <3> QED BY <1>0, <1>1, <3>1, <3>2 DEF ReplyStarts, CodecAfter, Tasks
  <2>2. CASE Disarm("idle")
    BY <2>2, DisarmFacts
  <2>3. CASE UNCHANGED <<dl, rx>>
    BY <1>1, <2>3
  <2> QED BY <2>1, <2>2, <2>3 DEF Commands, ReplyEnds, ReplyFails
<1>3. app'.piece = app.piece /\ app'.codec = app.codec
  <2>1. CASE \E c \in Codecs : ReplyStarts(c)
    BY <1>0, <2>1 DEF ReplyStarts, DecodeInv, OneCodec, Apps
  <2>2. CASE ReplyEnds
    BY <1>0, <2>2 DEF ReplyEnds, AppStops, Apps
  <2>3. CASE ReplyFails
    BY <1>0, <2>3 DEF ReplyFails, AppStops, Apps, Fault
  <2> QED BY <2>1, <2>2, <2>3 DEF Commands
<1>4. Handing' /\ ~Cleaning /\ ~Cleaning' /\ rx'.pc # "sink"
  BY <1>1, <1>2 DEF Handing, Cleaning
<1> QED BY <1>1, <1>2, <1>3, <1>4, DecodeFrame

\* The App goes on after the last piece it sent.
LEMMA PushDecode ==
  ASSUME TypeOK, DecodeInv, NEW n \in 1..MaxSdu, Push(n)
  PROVE  DecodeInv'
<1> DEFINE new == Stream(DefaultCodec, app.piece, n)
           l == Len(air)
<1>0. /\ app \in Apps /\ air \in Seq(Seq(Cells)) /\ l \in Nat /\ n \in Nat
      /\ app.piece \in 1..BlockLen
  BY Fields, DownlinkAssumption
<1>1. /\ link /\ air' = Append(air, new) /\ UNCHANGED <<dl, rx, link>>
      /\ app'.codec = app.codec /\ app'.piece = After(app.piece + n - 1)
  BY <1>0 DEF Push, DecodeInv, OneCodec, After, Cycle, Apps
<1>2. new \in Seq(Cells) /\ Len(new) = n /\ After(app.piece + n - 1) \in 1..BlockLen
  <2>1. new \in Seq(Cells) /\ app'.piece \in 1..BlockLen
    BY <1>0, <1>1, StreamType, Shape DEF After, Cycle
  <2>2. Len(new) = n
    BY <1>0 DEF Stream
  <2> QED BY <1>1, <2>1, <2>2
<1> HIDE DEF new
<1>3. ~Cleaning /\ ~Cleaning'
  BY <1>1 DEF DecodeInv, Consecutive, Cleaning
<1>4. PICK pos \in [1..(l + 1) -> 1..BlockLen] : Places(pos)
  BY <1>3 DEF DecodeInv, Consecutive
<1>5. Len(air') = l + 1 /\ (\A k \in 1..l : air'[k] = air[k]) /\ air'[l + 1] = new
  BY <1>0, <1>1, <1>2
<1> DEFINE all == [k \in 1..(l + 2) |-> IF k = l + 2 THEN app'.piece ELSE pos[k]]
<1>6. /\ \A k \in 1..l : k \in 1..(l + 2) /\ k # l + 2 /\ k + 1 \in 1..(l + 2) /\ k + 1 # l + 2
      /\ l + 1 \in 1..(l + 2) /\ l + 1 # l + 2 /\ l + 2 \in 1..(l + 2) /\ l + 1 + 1 = l + 2
      /\ 1 \in 1..(l + 2) /\ 1 # l + 2
      /\ \A k \in 1..(l + 2) : k # l + 2 => k \in 1..(l + 1)
      /\ \A k \in 1..(l + 1) : k \in 1..l \/ k = l + 1
  <2> HIDE DEF l
  <2> QED BY <1>0
<1>7. all \in [1..(Len(air') + 1) -> 1..BlockLen]
  <2>1. \A k \in 1..(l + 2) : all[k] \in 1..BlockLen
    BY <1>1, <1>2, <1>4, <1>6
  <2>2. Len(air') + 1 = l + 2
    BY <1>5, <1>6
  <2> QED BY <2>1, <2>2
<1>8. /\ \A k \in 1..l : all[k] = pos[k] /\ all[k + 1] = pos[k + 1]
      /\ all[1] = pos[1] /\ all[l + 1] = pos[l + 1] /\ all[l + 2] = app'.piece
  BY <1>6
<1> HIDE DEF all
<1>9. all[1] = After(Len(dl'.block) + Len(rx'.sdu)) /\ all[Len(air') + 1] = app'.piece
  BY <1>1, <1>4, <1>5, <1>6, <1>8 DEF Places
<1>10. ASSUME NEW k \in 1..Len(air')
       PROVE  /\ air'[k] = Stream(DefaultCodec, all[k], Len(air'[k]))
              /\ all[k + 1] = After(all[k] + Len(air'[k]) - 1)
  <2>1. CASE k \in 1..l
    BY <1>4, <1>5, <1>8, <2>1 DEF Places
  <2>2. CASE k = l + 1
    <3>1. pos[l + 1] = app.piece
      BY <1>4 DEF Places
    <3>2. air'[k] = new /\ all[k] = app.piece /\ all[k + 1] = app'.piece
      BY <1>5, <1>6, <1>8, <2>2, <3>1
    <3> QED BY <1>1, <1>2, <3>2 DEF new
  <2> QED BY <1>5, <1>6, <2>1, <2>2
<1>11. PICK places : places = all
  OBVIOUS
<1>a. places[1] = After(Len(dl.block) + Len(rx.sdu))'
  BY <1>9, <1>11 DEF After
<1>b. Places(places)'
  BY <1>7, <1>9, <1>10, <1>11, <1>a DEF Places
<1>12. Consecutive'
  BY <1>3, <1>7, <1>11, <1>b DEF Consecutive
<1>13. OneCodec' /\ Handing' /\ Partial' /\ Decoded'
  BY <1>1 DEF DecodeInv, OneCodec, Handing, Partial, Decoded, After
<1> QED BY <1>12, <1>13 DEF DecodeInv

\* The end of a link empties the air; until LinkReset a partial block may be left.
LEMMA LinkDownDecode ==
  ASSUME TypeOK, DecodeInv, LinkDown
  PROVE  DecodeInv'
<1>0. rx \in Tasks /\ app \in Apps
  BY Fields
<1>1. rx.pc = "idle" /\ rx.sdu = <<>> /\ link' = FALSE /\ air' = <<>>
      /\ app'.piece = 1 /\ app'.codec = DefaultCodec
  BY <1>0 DEF LinkDown, AppStops, RxAt, DecodeInv, Handing, Apps
<1>2. /\ dl'.block = dl.block /\ dl'.codec = dl.codec /\ rx'.sdu = rx.sdu
      /\ \/ rx'.pc = "disarm" /\ rx'.then = "reset"
         \/ rx'.pc = "reset"
  BY DisarmFacts DEF LinkDown
<1>3. Cleaning'
  BY <1>2 DEF Cleaning
<1> QED BY <1>1, <1>2, <1>3 DEF DecodeInv, OneCodec, Handing, Partial, Decoded, Consecutive, After

\* The first places of a link: nothing in the air, no partial block.
LEMMA Fresh ==
  ASSUME dl'.block = <<>>, rx'.sdu = <<>>, air' = <<>>, app'.piece = 1
  PROVE  \E pos \in [1..(Len(air') + 1) -> 1..BlockLen] : Places(pos)'
<1> DEFINE one == [k \in 1..1 |-> 1]
<1>1. Len(air') + 1 = 1 /\ Len(dl'.block) + Len(rx'.sdu) = 0 /\ Len(air') = 0
  OBVIOUS
<1>2. After(0) = 1
  BY Shape, AfterFacts
<1>3. one \in [1..1 -> 1..BlockLen] /\ one[1] = 1
  BY DownlinkAssumption
<1>4. \A k \in 1..Len(air') : FALSE
  BY <1>1
<1> HIDE DEF one
<1>5. one[1] = After(Len(dl.block) + Len(rx.sdu))'
  BY <1>1, <1>2, <1>3 DEF After
<1>6. Places(one)'
  BY <1>1, <1>3, <1>4, <1>5 DEF Places
<1> QED BY <1>1, <1>3, <1>6

LEMMA LinkResetDecode ==
  ASSUME TypeOK, DecodeInv, LinkReset
  PROVE  DecodeInv'
<1>1. dl'.block = <<>> /\ dl'.codec = DefaultCodec /\ rx' = Task0 /\ UNCHANGED <<app, air, link>>
  BY Fields DEF LinkReset, Downlinks
<1>2. air' = <<>> /\ app'.piece = 1 /\ app'.codec = DefaultCodec
  BY <1>1 DEF LinkReset, RxAt, DecodeInv, Consecutive, Cleaning, OneCodec
<1>3. rx'.sdu = <<>> /\ rx'.pc = "idle"
  BY <1>1 DEF Task0
<1>4. ~Cleaning'
  BY <1>3 DEF Cleaning
<1>5. Consecutive'
  BY <1>1, <1>2, <1>3, <1>4, Fresh DEF Consecutive
<1>6. Partial'
  <2>1. Len(dl'.block) = 0 /\ Len(rx'.sdu) = 0
    BY <1>1, <1>3
  <2> QED BY <2>1, Shape DEF Partial, Cycle
<1> QED BY <1>1, <1>2, <1>3, <1>5, <1>6 DEF DecodeInv, OneCodec, Handing, Decoded

LEMMA InitDecode == Init => DecodeInv
<1> SUFFICES ASSUME Init PROVE DecodeInv
  OBVIOUS
<1>1. /\ dl.block = <<>> /\ dl.codec = DefaultCodec /\ app.codec = DefaultCodec /\ app.piece = 1
      /\ rx.pc = "idle" /\ rx.sdu = <<>> /\ air = <<>>
  BY DEF Init, Task0
<1>2. Len(dl.block) = 0 /\ Len(rx.sdu) = 0 /\ Len(air) = 0 /\ Len(air) + 1 = 1
      /\ Len(dl.block) + Len(rx.sdu) = 0
  BY <1>1
<1>3. Partial
  BY <1>2, Shape DEF Partial
<1> DEFINE one == [k \in 1..1 |-> 1]
<1>4. one \in [1..1 -> 1..BlockLen] /\ one[1] = 1 /\ After(0) = 1
  BY DownlinkAssumption, Shape, AfterFacts
<1>5. \A k \in 1..Len(air) : FALSE
  BY <1>2
<1> HIDE DEF one
<1>6. Places(one)
  BY <1>1, <1>2, <1>4, <1>5 DEF Places
<1>7. ~Cleaning
  BY <1>1 DEF Cleaning
<1>8. Consecutive
  BY <1>2, <1>4, <1>6, <1>7 DEF Consecutive
<1> QED BY <1>1, <1>3, <1>8 DEF DecodeInv, OneCodec, Handing, Decoded

LEMMA NextDecode ==
  ASSUME Codecs \subseteq {DefaultCodec}, "cut" \notin Faults, TypeOK, DecodeInv, [Next]_vars
  PROVE  DecodeInv'
<1>0. dl \in Downlinks /\ rx \in Tasks /\ app \in Apps
  BY Fields
<1>1. CASE UNCHANGED vars
  BY <1>1, DecodeFrame DEF vars, DecodeInv, Handing, Cleaning
<1>2. CASE TimerStep
  BY <1>2, TimerDecode
<1>3. CASE RxStep
  BY <1>3, RxDecode, FeedPcmDecode, FeedBlockDecode, FeedPartialDecode, LinkResetDecode DEF RxStep
<1>4. CASE Feed
  BY <1>4, FeedDecode
<1>5. CASE Commands
  BY <1>5, CommandsDecode
<1>6. CASE Speak \/ Hear
  <2>1. UNCHANGED <<dl, rx, air, link>> /\ app'.piece = app.piece /\ app'.codec = app.codec
    BY <1>0, <1>6 DEF Speak, Hear, Apps
  <2> QED BY <2>1, DecodeFrame DEF DecodeInv, Handing, Cleaning
<1>7. CASE LinkUp
  <2>1. UNCHANGED <<dl, rx, air, app>> /\ rx.pc = "idle"
    BY <1>7 DEF LinkUp, RxAt
  <2> QED BY <2>1, DecodeFrame DEF DecodeInv, Handing, Cleaning
<1>8. CASE Elapse
  <2>1. UNCHANGED <<rx, air, link>> /\ app'.piece = app.piece /\ app'.codec = app.codec
        /\ dl'.block = dl.block /\ dl'.codec = dl.codec
    BY <1>0, <1>8 DEF Elapse, Apps, Downlinks
  <2> QED BY <2>1, DecodeFrame DEF DecodeInv, Handing, Cleaning
<1> QED BY <1>1, <1>2, <1>3, <1>4, <1>5, <1>6, <1>7, <1>8, PushDecode, LinkDownDecode DEF Next, Environment

\* Feed, SetCodec, OnLinkState: for every length of block and SDU, any number of SDUs in the air and
\* any loss of link, timer or flow frames, what reaches the board was decoded with the codec it was encoded
\* with and, in ADPCM, from exactly the pieces of one block, provided the App keeps to the negotiated codec
\* and ends a reply between two blocks.  Without the first the code fails it: a change of codec during an
\* armed session is ignored and answered with success.  Without the second it does too: the beginning of a
\* block that was cut off waits for the next reply (agent_link.cpp 0x05, audio_downlink.cpp SetCodec).
THEOREM DecodesWhatWasSent ==
  ASSUME Codecs \subseteq {DefaultCodec}, "cut" \notin Faults
  PROVE  Spec => []Intelligible
<1>1. TypeOK /\ DecodeInv /\ [Next]_vars => DecodeInv'
  BY NextDecode
<1>2. DecodeInv => Intelligible
  BY DEF DecodeInv, OneCodec, Decoded, Intelligible, RxAt
<1> QED BY InitDecode, DownlinkTypes, <1>1, <1>2, PTL DEF Spec

-----------------------------------------------------------------------------
(* NothingDropped: what the App can have sent before it is told fits behind the pause. *)

\* What a unit of time adds to the board while the App is not told, and the most that is under way or
\* about to be sent.
Gain == Most(Rate - 1, 0)
Carry == Window * MaxSdu + (BlockLen - 1) + Rate
\* Flow frames that may be lost, and that may have been.
Losses == IF "loss" \in Faults THEN MaxFaults ELSE 0
Spent == IF "loss" \in Faults THEN faults ELSE 0
\* A session that is not paused holds at most Base, all that is under way included; each tick that the App
\* does not hear of the pause adds PerTick.
PerTick == TickEvery * Gain
Base == PauseAt - 1 + TickEvery + Carry
Limit == Base + (Losses + 1) * PerTick
\* The board has that room, a decision is repeated more often than frames are lost, and a resumed session is
\* below the mark.
Roomy ==
  /\ ~Metered /\ ~BackToBack /\ "timer" \notin Faults
  /\ Losses < FlipRepeats /\ ResumeAt < PauseAt /\ Limit <= BoardCap

\* rem counts what is under way behind each SDU, with it.
Sums(rem) ==
  /\ rem \in [1..(Len(air) + 1) -> Nat]
  /\ rem[Len(air) + 1] = 0
  /\ \A k \in 1..Len(air) : /\ rem[k] = Len(air[k]) + rem[k + 1]
                            /\ rem[k] <= (Len(air) + 1 - k) * MaxSdu
\* There are t pieces in the air.
Awaits(t) == \E rem \in [1..(Len(air) + 1) -> Nat] : Sums(rem) /\ rem[1] = t

\* The audio the device holds: on the board or on its way there, and not yet decoded.
Audio == [stock |-> board + (IF RxAt("sink") THEN Units(rx.out) ELSE 0),
          rest |-> Len(rx.sdu) + Len(dl.block)]
\* The last the App will have heard, and whether it has nothing else to hear.
LastWord == IF flow = <<>> THEN app.muted ELSE flow[Len(flow)]
Quiet == app.muted /\ \A i \in DOMAIN flow : flow[i]
\* What the App may still send in this unit of time.
Yet == IF Quiet THEN 0 ELSE app.quota
\* A frame that Tick has decided on and not sent: a RESUME, or a PAUSE.
Stale == timer.pc = "send" /\ ~timer.pause
Again == timer.pc = "send" /\ timer.pause
\* The App may go on sending: the last it will hear, or a frame still to be sent, is RESUME.
Waiting == ~LastWord \/ Stale
\* What lost frames and the time since the last tick have let through, and whether a repetition is left.
Debt == Spent * PerTick
Drift == IF timer.pc = "lock" \/ Again THEN PerTick ELSE (TickEvery - timer.left) * Gain
Tries == dl.repeats + (IF Again THEN 1 ELSE 0) + Spent > Losses

\* What the App may send beyond Base before it is told.
Allowed == [owed |-> Debt + Drift]

\* The session, the link and the tasks.
Session ==
  /\ Len(air) <= Window /\ faults <= MaxFaults /\ Handing
  /\ dl.armed \/ Arming \/ air # <<>> => link
  /\ rx.pc \in {"disarm", "release", "reset"} => ~dl.armed
  /\ timer.pc # "idle" => timer.left = TickEvery
  /\ RxAt("ticker") => ~dl.paused
\* The level, with t pieces in the air: below the mark while not paused; while paused, what the App was owed
\* when the pause was decided, and what it sends until it hears of it.
FlowControl(t) ==
  /\ Audio.rest + t + app.quota <= Carry
  /\ dl.armed /\ ~dl.paused => dl.lead < PauseAt
  /\ dl.armed /\ dl.paused /\ Waiting => Tries /\ Audio.stock + Audio.rest + t + app.quota <= Base + Debt + Drift
  /\ dl.armed /\ dl.paused /\ ~Waiting => Audio.stock + Audio.rest + t + Yet <= Limit
DropInv == Session /\ \E t \in Nat : Awaits(t) /\ FlowControl(t)

-----------------------------------------------------------------------------
(* Numbers *)

LEMMA Products ==
  /\ \A a, b \in Nat : a * b \in Nat
  /\ \A a, g \in Nat : (a + 1) * g = a * g + g
  /\ \A a, b, g \in Nat : a <= b => a * g <= b * g
<1>1. \A a, b \in Nat : a * b \in Nat
  OBVIOUS
<1>2. \A a, g \in Nat : (a + 1) * g = a * g + g
  OBVIOUS
<1>3. ASSUME NEW a \in Nat, NEW b \in Nat, NEW g \in Nat, a <= b PROVE a * g <= b * g
  <2>1. PICK c \in Nat : b = a + c
    <3>1. b - a \in Nat /\ b = a + (b - a)
      BY <1>3
    <3> QED BY <3>1
  <2>2. (a + c) * g = a * g + c * g
    OBVIOUS
  <2>3. a * g \in Nat /\ c * g \in Nat
    BY <1>1
  <2> QED BY <2>1, <2>2, <2>3
<1> QED BY <1>1, <1>2, <1>3

LEMMA Bounds ==
  ASSUME Roomy
  PROVE  /\ Gain \in Nat /\ Rate <= Gain + 1 /\ Carry \in Nat /\ Losses \in Nat /\ PerTick \in Nat
         /\ PauseAt \in Nat /\ PauseAt > 0 /\ TickEvery \in Nat
         /\ Base = PauseAt - 1 + TickEvery + Carry /\ Base \in Nat
         /\ Limit \in Nat /\ Limit >= Base + PerTick /\ Limit >= Base
         /\ \A s \in 0..Losses : s * PerTick \in Nat /\ Base + s * PerTick + PerTick <= Limit
<1>1. Gain \in Nat /\ Rate <= Gain + 1
  BY DownlinkAssumption DEF Gain, Most
<1>2. Window * MaxSdu \in Nat /\ PerTick \in Nat /\ TickEvery \in Nat
  BY <1>1, Products, DownlinkAssumption DEF PerTick
<1>3. Carry \in Nat
  BY <1>2, DownlinkAssumption DEF Carry
<1>4. Losses \in Nat
  BY DownlinkAssumption DEF Losses
<1>5. PauseAt \in Nat /\ ResumeAt \in Nat /\ PauseAt > 0
  <2>1. (DeclaredCap * 5) \div 8 \in Nat /\ (DeclaredCap * 3) \div 16 \in Nat /\ (DeclaredCap * 3) \div 8 \in Nat
    BY DownlinkAssumption
  <2>2. PauseAt \in Nat /\ ResumeAt \in Nat
    BY <2>1, DownlinkAssumption DEF PauseAt, ResumeAt, Least
  <2> QED BY <2>2 DEF Roomy
<1>6. Base \in Nat
  BY <1>2, <1>3, <1>5 DEF Base
<1>7. ASSUME NEW s \in 0..Losses PROVE s * PerTick \in Nat /\ Base + s * PerTick + PerTick <= Limit
  <2>1. s + 1 \in Nat /\ Losses + 1 \in Nat /\ s \in Nat /\ s + 1 <= Losses + 1
    BY <1>4
  <2>2. (s + 1) * PerTick <= (Losses + 1) * PerTick /\ (s + 1) * PerTick = s * PerTick + PerTick
    BY <1>2, <2>1, Products
  <2>3. (Losses + 1) * PerTick \in Nat /\ s * PerTick \in Nat
    BY <1>2, <2>1, Products
  <2> HIDE DEF Base
  <2> QED BY <1>2, <1>6, <2>2, <2>3 DEF Limit
<1>8. 0 * PerTick = 0 /\ 0 \in 0..Losses
  BY <1>2, <1>4
<1>9. (Losses + 1) * PerTick \in Nat
  BY <1>2, <1>4, Products
<1>10. Limit \in Nat
  BY <1>6, <1>9 DEF Limit
<1>11. Base + 0 * PerTick + PerTick <= Limit
  BY <1>7, <1>8
<1> QED BY <1>1, <1>2, <1>3, <1>4, <1>5, <1>6, <1>7, <1>8, <1>10, <1>11 DEF Base

Counted ==
  /\ Audio.stock \in Nat /\ Audio.rest \in Nat /\ app.quota \in Nat /\ app.quota <= Rate /\ board \in Nat
  /\ dl.lead \in Int /\ dl.repeats \in Nat /\ timer.left \in 0..TickEvery
  /\ Len(rx.sdu) \in Nat /\ Len(dl.block) \in Nat /\ faults \in Nat /\ Spent \in Nat
  /\ app.muted \in BOOLEAN /\ dl.paused \in BOOLEAN /\ dl.armed \in BOOLEAN
  /\ flow \in Seq(BOOLEAN) /\ Len(air) \in Nat

LEMMA Amounts == ASSUME TypeOK PROVE Counted
<1>1. Len(rx.sdu) \in Nat /\ Len(dl.block) \in Nat /\ Len(air) \in Nat
  BY DEF TypeOK, Tasks, Downlinks
<1>2. board \in Nat /\ Units(rx.out) \in Nat
  BY UnitsType, DownlinkAssumption DEF TypeOK
<1>3. Audio.stock \in Nat /\ Audio.rest \in Nat
  <2>2. \A a, b \in Nat : a + b \in Nat /\ a + 0 \in Nat
    OBVIOUS
  <2>1. Audio.rest \in Nat
    BY <1>1, <2>2 DEF Audio
  <2>3. Audio.stock \in Nat
    BY <1>2, <2>2 DEF Audio
  <2> QED BY <2>1, <2>3
<1>4. app.quota \in 0..Rate /\ app.muted \in BOOLEAN
  BY DEF TypeOK, Apps
<1>5. dl.lead \in Int /\ dl.repeats \in 0..FlipRepeats /\ dl.paused \in BOOLEAN /\ dl.armed \in BOOLEAN
  BY DEF TypeOK, Downlinks
<1>6. timer.left \in 0..TickEvery
  BY DEF TypeOK, Tickers
<1> QED BY <1>1, <1>2, <1>3, <1>4, <1>5, <1>6, DownlinkAssumption DEF TypeOK, Spent, Counted

LEMMA AmountsNext == TypeOK' => Counted'
<1>1. TypeOK => Counted
  BY Amounts
<1> QED BY <1>1, PTL

LEMMA Owing ==
  ASSUME TypeOK, Session, Roomy
  PROVE  /\ Spent \in 0..Losses /\ Debt \in Nat /\ Base + Debt + PerTick <= Limit
         /\ Drift \in Nat /\ Drift <= PerTick
<1>1. Spent \in 0..Losses
  BY Amounts, DownlinkAssumption DEF Session, Spent, Losses, Counted
<1>2. Debt \in Nat /\ Base + Debt + PerTick <= Limit
  BY <1>1, Bounds DEF Debt
<1>3. timer.left \in 0..TickEvery /\ TickEvery \in Nat /\ Gain \in Nat /\ PerTick \in Nat
  BY Amounts, Bounds DEF Counted
<1>4. TickEvery - timer.left \in Nat /\ TickEvery - timer.left <= TickEvery
  BY <1>3
<1>5. (TickEvery - timer.left) * Gain \in Nat /\ (TickEvery - timer.left) * Gain <= PerTick
  BY <1>3, <1>4, Products DEF PerTick
<1> QED BY <1>1, <1>2, <1>3, <1>5 DEF Drift

Bounded ==
  /\ Spent \in 0..Losses /\ Debt \in Nat /\ Drift \in Nat
  /\ Allowed.owed \in Nat /\ Allowed.owed = Debt + Drift /\ Base + Allowed.owed <= Limit

LEMMA Allowance == ASSUME TypeOK, Session, Roomy PROVE Bounded
<1>1. Allowed.owed = Debt + Drift
  BY DEF Allowed
<1>2. \A b, d, r, p, l \in Nat : b + d + p <= l /\ r <= p => d + r \in Nat /\ b + (d + r) <= l
  OBVIOUS
<1>3. Base \in Nat /\ PerTick \in Nat /\ Limit \in Nat
  BY Bounds
<1> QED BY <1>1, <1>2, <1>3, Owing DEF Bounded

LEMMA AllowanceNext == ASSUME Roomy PROVE TypeOK' /\ Session' => Bounded'
<1>1. TypeOK /\ Session => Bounded
  BY Allowance
<1> QED BY <1>1, PTL

\* A session that is not paused owes its level to the estimate.
LEMMA Level ==
  ASSUME TypeOK, EstimateInv, Roomy, NEW t \in Nat, FlowControl(t), dl.armed, ~dl.paused
  PROVE  Audio.stock + Audio.rest + t + app.quota <= Base
<1>1. Audio.stock - dl.lead <= TickEvery /\ dl.lead < PauseAt
  <2>1. CASE RxAt("sink")
    BY <2>1, Numbers DEF EstimateInv, FlowControl, Audio
  <2>2. CASE ~RxAt("sink")
    BY <2>2, Numbers DEF EstimateInv, FlowControl, Audio
  <2> QED BY <2>1, <2>2
<1>2. Audio.rest + t + app.quota <= Carry
  BY DEF FlowControl
<1>3. /\ Audio.stock \in Nat /\ Audio.rest \in Nat /\ app.quota \in Nat /\ dl.lead \in Int
      /\ Carry \in Nat /\ PauseAt \in Nat /\ TickEvery \in Nat /\ Base = PauseAt - 1 + TickEvery + Carry
  BY Amounts, Bounds DEF Counted
<1> QED BY <1>1, <1>2, <1>3

\* A session that has ended is only bound by the speed of the App.
LEMMA Ended ==
  ASSUME NEW u \in Nat, ~dl'.armed, Audio'.rest + u + app'.quota <= Carry
  PROVE  FlowControl(u)'
BY DEF FlowControl

\* A fault never tightens a bound.
LEMMA Costs ==
  ASSUME TypeOK, TypeOK', Session, Session', Roomy, faults' >= faults
  PROVE  Spent' >= Spent /\ Debt' >= Debt
<1>1. faults \in Nat /\ faults' \in Nat
  BY DEF TypeOK
<1>2. Spent' >= Spent /\ Spent \in Nat /\ Spent' \in Nat
  BY <1>1 DEF Spent
<1>3. PerTick \in Nat
  BY Bounds
<1> QED BY <1>2, <1>3, Products DEF Debt

\* A step that adds nothing, and leaves the App at least what it owed.
LEMMA Carried ==
  ASSUME TypeOK, TypeOK', Session, Session', Roomy, NEW t \in Nat, NEW u \in Nat, FlowControl(t), faults' >= faults,
         Audio'.rest + u + app'.quota <= Audio.rest + t + app.quota,
         Audio'.stock + Audio'.rest + u + app'.quota <= Audio.stock + Audio.rest + t + app.quota,
         ~Waiting /\ Quiet => Quiet' /\ Audio'.stock + Audio'.rest + u <= Audio.stock + Audio.rest + t,
         dl'.armed /\ ~dl'.paused => dl'.lead < PauseAt,
         dl'.armed /\ dl'.paused => dl.armed /\ dl.paused,
         dl'.armed /\ dl'.paused /\ Waiting' => Waiting /\ Tries' /\ Allowed.owed <= Allowed'.owed
  PROVE  FlowControl(u)'
<1>1. /\ Audio.stock \in Nat /\ Audio.rest \in Nat /\ app.quota \in Nat
      /\ Audio'.stock \in Nat /\ Audio'.rest \in Nat /\ app'.quota \in Nat
  BY Amounts, AmountsNext DEF Counted
<1>2. /\ Carry \in Nat /\ Base \in Nat /\ Limit \in Nat
      /\ Allowed.owed \in Nat /\ Base + Allowed.owed <= Limit /\ Allowed.owed = Debt + Drift
      /\ Allowed'.owed \in Nat /\ Allowed'.owed = Debt' + Drift'
  BY Bounds, Allowance, AllowanceNext DEF Bounded
<1>3. Audio'.rest + u + app'.quota <= Carry
  BY <1>1, <1>2 DEF FlowControl
<1>4. ASSUME dl'.armed, dl'.paused, Waiting'
      PROVE  Tries' /\ Audio'.stock + Audio'.rest + u + app'.quota <= Base + Debt' + Drift'
  <2>1. Audio.stock + Audio.rest + t + app.quota <= Base + Allowed.owed
    BY <1>2, <1>4, Owing DEF FlowControl
  <2>2. Audio'.stock + Audio'.rest + u + app'.quota <= Base + Allowed'.owed
    BY <1>1, <1>2, <1>4, <2>1
  <2>3. Base + Allowed'.owed = Base + Debt' + Drift'
    BY <1>2, Bounds, Allowance, AllowanceNext DEF Bounded
  <2> QED BY <1>4, <2>2, <2>3
<1>5. ASSUME dl'.armed, dl'.paused, ~Waiting'
      PROVE  Audio'.stock + Audio'.rest + u + Yet' <= Limit
  <2>1. CASE Waiting
    <3>1. Audio.stock + Audio.rest + t + app.quota <= Base + Allowed.owed
      BY <1>2, <1>5, <2>1, Owing DEF FlowControl
    <3>2. Audio'.stock + Audio'.rest + u + app'.quota <= Limit
      BY <1>1, <1>2, <3>1
    <3>3. Audio'.stock + Audio'.rest + u + 0 <= Limit
      BY <1>1, <1>2, <3>2
    <3> QED BY <3>2, <3>3 DEF Yet
  <2>2. CASE ~Waiting /\ Quiet
    <3>1. Yet = 0 /\ Yet' = 0
      BY <2>2 DEF Yet
    <3> QED BY <1>1, <1>2, <1>5, <2>2, <3>1 DEF FlowControl
  <2>3. CASE ~Waiting /\ ~Quiet
    <3>1. Audio.stock + Audio.rest + t + app.quota <= Limit
      BY <1>5, <2>3 DEF FlowControl, Yet
    <3>2. Audio'.stock + Audio'.rest + u + app'.quota <= Limit
      BY <1>1, <1>2, <3>1
    <3>3. Audio'.stock + Audio'.rest + u + 0 <= Limit
      BY <1>1, <1>2, <3>2
    <3> QED BY <3>2, <3>3 DEF Yet
  <2> QED BY <2>1, <2>2, <2>3
<1> QED BY <1>3, <1>4, <1>5 DEF FlowControl

\* The words under way.
LEMMA Told ==
  ASSUME TypeOK, NEW p \in BOOLEAN, flow' = Append(flow, p), app'.muted = app.muted
  PROVE  LastWord' = p /\ (p /\ Quiet => Quiet') /\ (~LastWord => ~Quiet)
<1>1. flow \in Seq(BOOLEAN) /\ Len(flow) \in Nat
  BY DEF TypeOK
<1>2. /\ Len(Append(flow, p)) = Len(flow) + 1 /\ Append(flow, p) # <<>>
      /\ Append(flow, p)[Len(flow) + 1] = p
      /\ \A i \in 1..Len(flow) : Append(flow, p)[i] = flow[i]
      /\ DOMAIN flow = 1..Len(flow) /\ DOMAIN Append(flow, p) = 1..(Len(flow) + 1)
  BY <1>1
<1>3. LastWord' = p
  BY <1>1, <1>2 DEF LastWord
<1>4. p /\ Quiet => Quiet'
  BY <1>1, <1>2 DEF Quiet
<1>5. ~LastWord => ~Quiet
  <2>1. flow # <<>> => Len(flow) \in DOMAIN flow
    BY <1>1
  <2> QED BY <2>1 DEF LastWord, Quiet
<1> QED BY <1>3, <1>4, <1>5

LEMMA Heard ==
  ASSUME TypeOK, Hear
  PROVE  (LastWord' <=> LastWord) /\ (Quiet => Quiet')
<1>1. flow \in Seq(BOOLEAN) /\ Len(flow) \in Nat /\ flow # <<>> /\ Len(flow) > 0
  BY DEF TypeOK, Hear
<1>2. flow' = Tail(flow) /\ app'.muted = flow[1]
  BY <1>1 DEF Hear, TypeOK, Apps
<1>3. /\ Len(Tail(flow)) = Len(flow) - 1 /\ Tail(flow) \in Seq(BOOLEAN)
      /\ \A i \in 1..(Len(flow) - 1) : Tail(flow)[i] = flow[i + 1]
      /\ DOMAIN flow = 1..Len(flow) /\ DOMAIN Tail(flow) = 1..(Len(flow) - 1)
  BY <1>1
<1>4. Tail(flow) = <<>> <=> Len(flow) = 1
  BY <1>1, <1>3
<1>5. LastWord' <=> LastWord
  <2>1. CASE Len(flow) = 1
    BY <1>1, <1>2, <1>4, <2>1 DEF LastWord
  <2>2. CASE Len(flow) # 1
    <3>1. Tail(flow)[Len(flow) - 1] = flow[Len(flow)]
      BY <1>1, <1>3, <2>2
    <3> QED BY <1>1, <1>2, <1>3, <1>4, <2>2, <3>1 DEF LastWord
  <2> QED BY <2>1, <2>2
<1>6. Quiet => Quiet'
  BY <1>1, <1>2, <1>3 DEF Quiet
<1> QED BY <1>5, <1>6


\* A step that leaves the ticker and the decision alone.
LEMMA Same ==
  ASSUME TypeOK, TypeOK', Session, Session', Roomy, NEW t \in Nat, NEW u \in Nat, FlowControl(t), faults' >= faults,
         dl'.armed = dl.armed, dl'.paused = dl.paused, dl'.repeats = dl.repeats, timer' = timer,
         LastWord => LastWord',
         dl'.armed /\ ~dl'.paused => dl'.lead < PauseAt,
         Audio'.rest + u + app'.quota <= Audio.rest + t + app.quota,
         Audio'.stock + Audio'.rest + u + app'.quota <= Audio.stock + Audio.rest + t + app.quota,
         ~Waiting /\ Quiet => Quiet' /\ Audio'.stock + Audio'.rest + u <= Audio.stock + Audio.rest + t
  PROVE  FlowControl(u)'
<1>1. (Waiting' => Waiting) /\ Drift' = Drift /\ (Again' <=> Again)
  BY DEF Waiting, Stale, Again, Drift
<1>2. Bounded /\ Bounded' /\ Losses \in Nat /\ Counted /\ Counted'
  BY Allowance, AllowanceNext, Amounts, AmountsNext, Bounds
<1>3. Spent' >= Spent /\ Debt' >= Debt
  BY Costs
<1>4. Allowed.owed <= Allowed'.owed
  <2>1. Debt' >= Debt => Debt' + Drift >= Debt + Drift
    <3>1. \A a, b, c \in Nat : a >= b => a + c >= b + c
      OBVIOUS
    <3> QED BY <1>2, <3>1 DEF Bounded
  <2> QED BY <1>1, <1>2, <1>3, <2>1 DEF Bounded
<1>5. ASSUME dl.armed, dl.paused, Waiting PROVE Tries'
  <2>1. Tries
    BY <1>5 DEF FlowControl
  <2>2. \A r, g, a, b, l \in Nat : r + g + a > l /\ b >= a => r + g + b > l
    OBVIOUS
  <2> DEFINE g == IF Again THEN 1 ELSE 0
  <2>3. g \in Nat /\ g' = g
    BY <1>1
  <2> HIDE DEF g
  <2>4. dl.repeats + g + Spent > Losses
    BY <2>1 DEF Tries, g
  <2>5. dl.repeats \in Nat /\ Spent \in Nat /\ Spent' \in Nat
    BY <1>2 DEF Counted
  <2>6. dl'.repeats + g' + Spent' > Losses
    BY <1>2, <1>3, <2>2, <2>3, <2>4, <2>5
  <2> QED BY <2>6 DEF Tries, g
<1> QED BY <1>1, <1>4, <1>5, Carried

-----------------------------------------------------------------------------
(* The air *)

LEMMA AirSame == ASSUME NEW t \in Nat, Awaits(t), air' = air PROVE Awaits(t)'
BY DEF Awaits, Sums

LEMMA AirEmpty == ASSUME air' = <<>> PROVE Awaits(0)'
<1> DEFINE none == [k \in 1..1 |-> 0]
<1>1. /\ Len(air') = 0 /\ Len(air') + 1 = 1 /\ none \in [1..1 -> Nat] /\ none[1] = 0
  OBVIOUS
<1> HIDE DEF none
<1>2. none \in [1..(Len(air') + 1) -> Nat]
  BY <1>1
<1>3. Sums(none)'
  BY <1>1, <1>2 DEF Sums
<1> QED BY <1>1, <1>2, <1>3 DEF Awaits

LEMMA AirBound ==
  ASSUME NEW t \in Nat, Awaits(t), Len(air) \in Nat, Len(air) <= Window
  PROVE  t <= Window * MaxSdu
<1>1. PICK rem \in [1..(Len(air) + 1) -> Nat] : Sums(rem) /\ rem[1] = t
  BY DEF Awaits
<1>2. Window \in Nat /\ MaxSdu \in Nat /\ Window * MaxSdu \in Nat
  BY Products, DownlinkAssumption
<1>3. CASE Len(air) = 0
  BY <1>1, <1>2, <1>3 DEF Sums
<1>4. CASE Len(air) # 0
  <2>1. 1 \in 1..Len(air) /\ Len(air) + 1 - 1 = Len(air)
    BY <1>4
  <2>2. t <= Len(air) * MaxSdu
    BY <1>1, <2>1 DEF Sums
  <2>3. Len(air) * MaxSdu <= Window * MaxSdu /\ Len(air) * MaxSdu \in Nat
    BY <1>2, Products
  <2> QED BY <1>2, <2>2, <2>3
<1> QED BY <1>3, <1>4

\* The first SDU leaves the air.
LEMMA AirFeed ==
  ASSUME TypeOK, NEW t \in Nat, Awaits(t), air # <<>>, air' = Tail(air)
  PROVE  \E u \in Nat : t = Len(Head(air)) + u /\ Awaits(u)'
<1>1. PICK rem \in [1..(Len(air) + 1) -> Nat] : Sums(rem) /\ rem[1] = t
  BY DEF Awaits
<1>2. /\ air \in Seq(Seq(Cells)) /\ Len(air) \in Nat \ {0} /\ Head(air) = air[1]
      /\ Len(air') = Len(air) - 1 /\ Len(air') + 1 = Len(air) /\ Len(air') \in Nat
      /\ \A k \in 1..(Len(air) - 1) : air'[k] = air[k + 1]
  BY DEF TypeOK
<1>3. 1 \in 1..Len(air) /\ 1 + 1 = 2 /\ 2 \in 1..(Len(air) + 1)
  BY <1>2
<1>4. t = Len(Head(air)) + rem[2] /\ rem[2] \in Nat
  BY <1>1, <1>2, <1>3 DEF Sums
<1> DEFINE next == [k \in 1..Len(air) |-> rem[k + 1]]
<1>5. \A k \in 1..Len(air) : k + 1 \in 1..(Len(air) + 1) /\ next[k] = rem[k + 1]
  BY <1>2
<1>6. next \in [1..Len(air) -> Nat]
  BY <1>1, <1>5
<1>7. next[1] = rem[2] /\ next[Len(air)] = 0
  <2>1. Len(air) \in 1..Len(air)
    BY <1>2
  <2> QED BY <1>1, <1>3, <1>5, <2>1 DEF Sums
<1>8. ASSUME NEW k \in 1..(Len(air) - 1)
      PROVE  next[k] = Len(air'[k]) + next[k + 1] /\ next[k] <= (Len(air) - k) * MaxSdu
  <2>0. \A a, b \in Nat : a + 1 - (b + 1) = a - b
    OBVIOUS
  <2>1. k + 1 \in 1..Len(air) /\ k \in 1..Len(air) /\ Len(air) + 1 - (k + 1) = Len(air) - k
    <3>1. k + 1 \in 1..Len(air) /\ k \in 1..Len(air) /\ k \in Nat /\ Len(air) \in Nat
      BY <1>2
    <3> QED BY <2>0, <3>1
  <2>2. next[k] = rem[k + 1] /\ next[k + 1] = rem[k + 1 + 1] /\ air'[k] = air[k + 1]
    BY <1>2, <1>5, <2>1
  <2>3. rem[k + 1] = Len(air[k + 1]) + rem[k + 1 + 1] /\ rem[k + 1] <= (Len(air) + 1 - (k + 1)) * MaxSdu
    BY <1>1, <2>1 DEF Sums
  <2> QED BY <2>1, <2>2, <2>3
<1> HIDE DEF next
<1>9. PICK new : new = next
  OBVIOUS
<1>10. new \in [1..(Len(air') + 1) -> Nat] /\ new[Len(air') + 1] = 0 /\ new[1] = rem[2]
  BY <1>2, <1>6, <1>7, <1>9
<1>11. \A k \in 1..Len(air') : new[k] = Len(air'[k]) + new[k + 1] /\ new[k] <= (Len(air') + 1 - k) * MaxSdu
  BY <1>2, <1>8, <1>9
<1>12. Sums(new)'
  BY <1>10, <1>11 DEF Sums
<1>13. Awaits(rem[2])'
  BY <1>10, <1>12 DEF Awaits
<1> QED BY <1>4, <1>13

\* One more SDU.
LEMMA AirPush ==
  ASSUME TypeOK, NEW t \in Nat, Awaits(t), NEW s \in Seq(Cells), NEW n \in Nat, Len(s) = n, n <= MaxSdu,
         air' = Append(air, s)
  PROVE  Awaits(t + n)'
<1>1. PICK rem \in [1..(Len(air) + 1) -> Nat] : Sums(rem) /\ rem[1] = t
  BY DEF Awaits
<1>2. /\ air \in Seq(Seq(Cells)) /\ Len(air) \in Nat /\ Len(air') = Len(air) + 1 /\ air'[Len(air) + 1] = s
      /\ \A k \in 1..Len(air) : air'[k] = air[k]
  BY DEF TypeOK
<1> DEFINE next == [k \in 1..(Len(air) + 2) |-> IF k = Len(air) + 2 THEN 0 ELSE rem[k] + n]
<1>3. /\ \A k \in 1..(Len(air) + 1) : next[k] = rem[k] + n /\ rem[k] \in Nat
      /\ next[Len(air) + 2] = 0
  <2>1. ASSUME NEW k \in 1..(Len(air) + 1) PROVE k \in 1..(Len(air) + 2) /\ k # Len(air) + 2 /\ rem[k] \in Nat
    BY <1>1, <1>2
  <2>2. Len(air) + 2 \in 1..(Len(air) + 2)
    BY <1>2
  <2> QED BY <2>1, <2>2
<1>4. next \in [1..(Len(air) + 2) -> Nat]
  <2>1. \A k \in 1..(Len(air) + 2) : k = Len(air) + 2 \/ k \in 1..(Len(air) + 1)
    BY <1>2
  <2>2. \A k \in 1..(Len(air) + 1) : rem[k] + n \in Nat
    BY <1>3
  <2> QED BY <2>1, <2>2
<1>5. ASSUME NEW k \in 1..(Len(air) + 1)
      PROVE  next[k] = Len(air'[k]) + next[k + 1] /\ next[k] <= (Len(air) + 2 - k) * MaxSdu
  <2>1. CASE k = Len(air) + 1
    <3>1. k + 1 = Len(air) + 2 /\ Len(air) + 2 - k = 1 /\ 1 * MaxSdu = MaxSdu
      BY <1>2, <2>1, DownlinkAssumption
    <3>2. rem[k] = 0
      BY <1>1, <2>1 DEF Sums
    <3>3. next[k] = 0 + n
      BY <1>3, <3>2
    <3>4. next[k] = n
      BY <3>3
    <3> QED BY <1>2, <1>3, <2>1, <3>1, <3>4
  <2>2. CASE k # Len(air) + 1
    <3>1. /\ k \in 1..Len(air) /\ k + 1 \in 1..(Len(air) + 1) /\ Len(air) + 1 - k \in Nat
          /\ Len(air) + 2 - k = Len(air) + 1 - k + 1
      BY <1>2, <2>2
    <3>2. rem[k] = Len(air[k]) + rem[k + 1] /\ rem[k] <= (Len(air) + 1 - k) * MaxSdu
      BY <1>1, <3>1 DEF Sums
    <3>0. Len(air[k]) \in Nat
      <4>1. air[k] \in Seq(Cells)
        BY <1>2, <3>1
      <4> QED BY <4>1
    <3>3. next[k] = rem[k] + n /\ next[k + 1] = rem[k + 1] + n /\ rem[k] \in Nat /\ rem[k + 1] \in Nat
      BY <1>2, <1>3, <3>1
    <3>4. (Len(air) + 2 - k) * MaxSdu = (Len(air) + 1 - k) * MaxSdu + MaxSdu /\ (Len(air) + 1 - k) * MaxSdu \in Nat
      BY <3>1, Products, DownlinkAssumption
    <3>5. next[k] <= (Len(air) + 2 - k) * MaxSdu
      BY <3>2, <3>3, <3>4, DownlinkAssumption
    <3>6. next[k] = Len(air'[k]) + next[k + 1]
      <4>1. \A a, b, c \in Nat : a = c + b => a + n = c + (b + n)
        OBVIOUS
      <4>2. air'[k] = air[k]
        BY <1>2, <3>1
      <4>3. rem[k] + n = Len(air[k]) + (rem[k + 1] + n)
        BY <3>0, <3>2, <3>3, <4>1
      <4> QED BY <3>3, <4>2, <4>3
    <3> QED BY <3>5, <3>6
  <2> QED BY <2>1, <2>2
<1>6. Len(air) + 2 = Len(air') + 1 /\ 1 \in 1..(Len(air) + 1)
  BY <1>2
<1> HIDE DEF next
<1>7. PICK new : new = next
  OBVIOUS
<1>8. new \in [1..(Len(air') + 1) -> Nat] /\ new[Len(air') + 1] = 0 /\ new[1] = t + n
  BY <1>1, <1>3, <1>4, <1>6, <1>7
<1>9. \A k \in 1..Len(air') : new[k] = Len(air'[k]) + new[k + 1] /\ new[k] <= (Len(air') + 1 - k) * MaxSdu
  BY <1>2, <1>5, <1>6, <1>7
<1>10. Sums(new)'
  BY <1>8, <1>9 DEF Sums
<1> QED BY <1>8, <1>10 DEF Awaits

-----------------------------------------------------------------------------
(* The ticker *)

LEMMA Decides ==
  ASSUME TypeOK, ~Metered, NEW d \in Downlinks, NEW send \in BOOLEAN, TickDecides(d, send)
  PROVE  /\ dl'.armed = d.armed /\ dl'.paused = d.paused /\ dl'.repeats = d.repeats
         /\ dl'.codec = d.codec /\ dl'.block = d.block /\ dl'.lead = Most(d.lead, 0)
         /\ timer.pc = "lock" /\ timer'.left = timer.left
         /\ timer'.pc = (IF send THEN "send" ELSE "idle") /\ timer'.pause = (IF send THEN d.paused ELSE FALSE)
         /\ UNCHANGED <<rx, board, app, air, flow, link, faults>>
<1>1. d.lead \in Int /\ timer \in Tickers
  BY DEF Downlinks, TypeOK
<1>2. Rebased(d.lead) = Most(d.lead, 0)
  BY DEF Rebased
<1>3. dl' = [d EXCEPT !.lead = Rebased(d.lead)]
  BY DEF TickDecides
<1>4. /\ dl'.armed = d.armed /\ dl'.paused = d.paused /\ dl'.repeats = d.repeats
      /\ dl'.codec = d.codec /\ dl'.block = d.block /\ dl'.lead = Most(d.lead, 0)
  BY <1>2, <1>3 DEF Downlinks
<1>5. /\ timer.pc = "lock" /\ timer'.left = timer.left
      /\ timer'.pc = (IF send THEN "send" ELSE "idle") /\ timer'.pause = (IF send THEN d.paused ELSE FALSE)
  BY <1>1 DEF TickDecides, Tickers
<1> QED BY <1>4, <1>5 DEF TickDecides

\* The locked section of a Tick: what the App owes it still owes, if the decision goes out.
LEMMA DecidesFlow ==
  ASSUME TypeOK, TypeOK', Session, Roomy, NEW t \in Nat, Awaits(t), FlowControl(t),
         NEW d \in Downlinks, NEW send \in BOOLEAN, TickDecides(d, send),
         d.armed = dl.armed, d.codec = dl.codec, d.block = dl.block,
         RxAt("ticker") => ~d.paused,
         dl.armed /\ ~d.paused => Most(d.lead, 0) < PauseAt,
         dl.armed /\ d.paused => dl.paused,
         dl.armed /\ d.paused /\ Waiting => send /\ d.repeats + 1 >= dl.repeats
  PROVE  DropInv'
<1>1. /\ dl'.armed = dl.armed /\ dl'.paused = d.paused /\ dl'.repeats = d.repeats
      /\ dl'.codec = dl.codec /\ dl'.block = dl.block /\ dl'.lead = Most(d.lead, 0)
      /\ timer.pc = "lock" /\ timer'.left = timer.left
      /\ timer'.pc = (IF send THEN "send" ELSE "idle") /\ timer'.pause = (IF send THEN d.paused ELSE FALSE)
      /\ UNCHANGED <<rx, board, app, air, flow, link, faults>>
  BY Decides DEF Roomy
<1>2. Session'
  BY <1>1 DEF Session, Handing, Arming, RxAt
<1>3. Audio' = Audio
  BY <1>1 DEF Audio, RxAt, Units
<1>4. LastWord' = LastWord /\ (Quiet' <=> Quiet)
  BY <1>1 DEF LastWord, Quiet
<1>5. ~Stale /\ ~Again /\ (Again' <=> send /\ d.paused) /\ (Stale' <=> send /\ ~d.paused) /\ Drift = PerTick
  BY <1>1 DEF Stale, Again, Drift
<1>6. d.paused => Waiting' = Waiting
  BY <1>4, <1>5 DEF Waiting
<1>7. Bounded /\ Bounded' /\ Losses \in Nat /\ Counted /\ Counted'
  BY <1>2, Allowance, AllowanceNext, Amounts, AmountsNext, Bounds
<1>8. ASSUME dl'.armed, dl'.paused, Waiting'
      PROVE  Waiting /\ Tries' /\ Allowed.owed <= Allowed'.owed
  <2>1. Waiting /\ send /\ d.paused /\ dl.armed /\ dl.paused /\ d.repeats + 1 >= dl.repeats
    BY <1>1, <1>6, <1>8
  <2>2. Spent' = Spent /\ Debt' = Debt /\ Again'
    BY <1>1, <1>5, <2>1 DEF Spent, Debt
  <2>3. Drift' = Drift
    BY <1>5, <2>2 DEF Drift
  <2>4. Tries
    BY <2>1 DEF FlowControl
  <2>5. Tries'
    BY <1>1, <1>5, <1>7, <2>1, <2>2, <2>4 DEF Tries, Counted
  <2> QED BY <1>7, <2>1, <2>2, <2>3, <2>5 DEF Bounded
<1>9. faults' >= faults /\ app'.quota = app.quota
  BY <1>1, <1>7 DEF Counted
<1>10. Audio.stock \in Nat /\ Audio.rest \in Nat /\ app.quota \in Nat
  BY <1>7 DEF Counted
<1>11. FlowControl(t)'
  BY <1>1, <1>2, <1>3, <1>4, <1>8, <1>9, <1>10, Carried
<1>12. Awaits(t)'
  BY <1>1, AirSame
<1> QED BY <1>2, <1>11, <1>12 DEF DropInv

\* No audio moves.
LEMMA Still ==
  ASSUME TypeOK, NEW t \in Nat, Audio'.stock = Audio.stock, Audio'.rest = Audio.rest, app'.quota = app.quota
  PROVE  /\ Audio'.rest + t + app'.quota <= Audio.rest + t + app.quota
         /\ Audio'.stock + Audio'.rest + t + app'.quota <= Audio.stock + Audio.rest + t + app.quota
         /\ Audio'.stock + Audio'.rest + t <= Audio.stock + Audio.rest + t
<1>2. Audio.stock \in Nat /\ Audio.rest \in Nat /\ app.quota \in Nat
  BY Amounts DEF Counted
<1>3. \A r, s, q \in Nat : r + t + q <= r + t + q /\ s + r + t + q <= s + r + t + q /\ s + r + t <= s + r + t
  OBVIOUS
<1> QED BY <1>2, <1>3

LEMMA TickStartFlow ==
  ASSUME TypeOK, TypeOK', EstimateInv, Session, Roomy, NEW t \in Nat, Awaits(t), FlowControl(t), TickStart
  PROVE  DropInv'
<1>1. timer \in Tickers /\ timer.pc = "idle" /\ timer.left = 0 /\ dl.armed
  BY DEF TypeOK, TickStart, EstimateInv, ClockInv
<1>2. timer'.left = TickEvery /\ timer'.pc = "lock" /\ UNCHANGED <<dl, rx, board, app, air, flow, link, faults>>
  BY <1>1 DEF TickStart, Tickers
<1>3. Session'
  BY <1>2 DEF Session, Handing, Arming, RxAt
<1>4. Audio' = Audio /\ (Quiet' <=> Quiet) /\ (Waiting' <=> Waiting) /\ Debt' = Debt /\ (Tries' <=> Tries)
  BY <1>1, <1>2 DEF Audio, RxAt, Units, LastWord, Quiet, Waiting, Stale, Again, Debt, Spent, Tries
<1>5. Drift' = Drift
  <2>1. TickEvery - 0 = TickEvery
    BY DownlinkAssumption
  <2> QED BY <1>1, <1>2, <2>1 DEF Drift, Again, PerTick
<1>6. Bounded /\ Bounded' /\ Counted
  BY <1>3, Allowance, AllowanceNext, Amounts
<1>7. FlowControl(t)'
  <2>1. dl.armed /\ dl.paused /\ Waiting => Tries
    BY DEF FlowControl
  <2>2. dl.armed /\ ~dl.paused => dl.lead < PauseAt
    BY DEF FlowControl
  <2>3. Allowed.owed <= Allowed'.owed
    BY <1>4, <1>5, <1>6 DEF Bounded
  <2>4. faults' >= faults
    BY <1>2, <1>6 DEF Counted
  <2>5. app'.quota = app.quota /\ Audio' = Audio
    BY <1>2, <1>4
  <2> QED BY <1>2, <1>3, <1>4, <2>1, <2>2, <2>3, <2>4, <2>5, Still, Carried
<1> QED BY <1>2, <1>3, <1>7, AirSame DEF DropInv

LEMMA TickFlipFlow ==
  ASSUME TypeOK, TypeOK', EstimateInv, Session, Roomy, NEW t \in Nat, Awaits(t), FlowControl(t), TickFlip
  PROVE  DropInv'
<1> DEFINE d == Flipped(dl, ~dl.paused)
<1>1. dl \in Downlinks /\ (~dl.paused) \in BOOLEAN /\ dl.lead \in Int
  BY DEF TypeOK, Downlinks
<1>2. /\ d \in Downlinks /\ d.armed = dl.armed /\ d.codec = dl.codec /\ d.block = dl.block
      /\ d.lead = dl.lead /\ d.paused = ~dl.paused
  BY <1>1, FlippedType DEF Flipped, Downlinks
<1>3. TickDecides(d, TRUE)
  BY DEF TickFlip
<1>4. PauseAt \in Nat /\ PauseAt > 0 /\ ResumeAt < PauseAt /\ ResumeAt \in Int
  BY Bounds, DownlinkAssumption DEF Roomy, ResumeAt, Least
<1>5. ~dl.paused => dl.lead >= PauseAt
  BY <1>1, <1>4 DEF TickFlip, MustPause, MustResume, Buffered, Most, Roomy
<1>6. dl.paused => Most(dl.lead, 0) < PauseAt
  BY <1>1, <1>4 DEF TickFlip, MustPause, MustResume, Buffered, Most, Roomy
<1>7. dl.armed => dl.paused
  BY <1>1, <1>4, <1>5 DEF FlowControl
<1>8. RxAt("ticker") => dl.lead = 0
  BY DEF EstimateInv
<1>9. RxAt("ticker") => dl.paused
  BY <1>4, <1>5, <1>8
<1> HIDE DEF d
<1> QED BY <1>2, <1>3, <1>6, <1>7, <1>9, DecidesFlow

LEMMA TickRepeatFlow ==
  ASSUME TypeOK, TypeOK', EstimateInv, Session, Roomy, NEW t \in Nat, Awaits(t), FlowControl(t), TickRepeat
  PROVE  DropInv'
<1> DEFINE d == [dl EXCEPT !.repeats = dl.repeats - 1, !.since = 0]
<1>1. dl \in Downlinks /\ dl.repeats \in 0..FlipRepeats /\ dl.lead \in Int /\ FlipRepeats \in Nat
  BY DownlinkAssumption DEF TypeOK, Downlinks
<1>2. dl.repeats - 1 \in 0..FlipRepeats /\ dl.repeats - 1 + 1 >= dl.repeats
  BY <1>1 DEF TickRepeat
<1>3. /\ d \in Downlinks /\ d.armed = dl.armed /\ d.codec = dl.codec /\ d.block = dl.block
      /\ d.lead = dl.lead /\ d.paused = dl.paused /\ d.repeats = dl.repeats - 1
  BY <1>1, <1>2, ConstantTypes DEF Downlinks
<1>4. TickDecides(d, TRUE)
  BY DEF TickRepeat
<1>5. ~dl.paused => Most(dl.lead, 0) < PauseAt
  BY <1>1, Bounds DEF TickRepeat, MustPause, Buffered, Most, Roomy
<1>6. RxAt("ticker") => ~dl.paused
  BY DEF Session
<1> HIDE DEF d
<1> QED BY <1>2, <1>3, <1>4, <1>5, <1>6, DecidesFlow

LEMMA TickReassertFlow ==
  ASSUME TypeOK, TypeOK', EstimateInv, Session, Roomy, NEW t \in Nat, Awaits(t), FlowControl(t), TickReassert
  PROVE  DropInv'
<1> DEFINE send == dl.since >= Reassert /\ (dl.paused \/ Buffered(dl.lead) < NearlyDry)
           d == IF send THEN [dl EXCEPT !.since = 0] ELSE dl
<1>1. dl \in Downlinks /\ dl.repeats = 0 /\ dl.lead \in Int /\ send \in BOOLEAN
  BY DEF TickReassert, TypeOK, Downlinks
<1>2. TickDecides(d, send)
  BY DEF TickReassert
<1>3. /\ d \in Downlinks /\ d.armed = dl.armed /\ d.codec = dl.codec /\ d.block = dl.block
      /\ d.lead = dl.lead /\ d.paused = dl.paused
  <2> HIDE DEF send
  <2> QED BY <1>1, ConstantTypes DEF Downlinks
<1>4. ~dl.paused => Most(dl.lead, 0) < PauseAt
  BY <1>1, Bounds DEF TickReassert, MustPause, Buffered, Most, Roomy
<1>5. RxAt("ticker") => ~dl.paused
  BY DEF Session
<1>6. ~(dl.armed /\ dl.paused /\ Waiting)
  <2>1. timer.pc = "lock"
    BY DEF TickReassert, TickDecides
  <2>2. Tries => 0 + 0 + Spent > Losses
    BY <1>1, <2>1 DEF Tries, Again
  <2>3. Spent \in 0..Losses /\ Losses \in Nat
    BY Allowance, Bounds DEF Bounded
  <2> QED BY <2>2, <2>3 DEF FlowControl
<1> HIDE DEF d, send
<1> QED BY <1>1, <1>2, <1>3, <1>4, <1>5, <1>6, DecidesFlow

\* SendFlow: a frame is on its way or, at the cost of a fault, lost.
LEMMA SendFlowFacts ==
  ASSUME TypeOK, Session, NEW p \in BOOLEAN, SendFlow(p)
  PROVE  /\ faults' \in Nat /\ faults' >= faults /\ faults' <= MaxFaults
         /\ \/ flow' = Append(flow, p) /\ faults' = faults
            \/ flow' = flow /\ (link => "loss" \in Faults /\ faults' = faults + 1)
<1>1. faults \in Nat /\ faults <= MaxFaults /\ MaxFaults \in Nat
  BY DownlinkAssumption DEF TypeOK, Session
<1> QED BY <1>1 DEF SendFlow, Fault

\* Tick's frame: lost, it costs the App a tick; one that is overtaken tells it too much.
LEMMA TickSendFlow ==
  ASSUME TypeOK, TypeOK', EstimateInv, Session, Roomy, NEW t \in Nat, Awaits(t), FlowControl(t), TickSend
  PROVE  DropInv'
<1>1. /\ timer \in Tickers /\ timer.pc = "send" /\ timer.pause \in BOOLEAN /\ SendFlow(timer.pause)
      /\ UNCHANGED <<dl, rx, board, app, air, link>> /\ timer.left = TickEvery
  BY DEF TypeOK, TickSend, Tickers, Session
<1>2. timer'.pc = "idle" /\ timer'.left = TickEvery
  BY <1>1 DEF TickSend, Tickers
<1>3. /\ faults' \in Nat /\ faults' >= faults /\ faults' <= MaxFaults
      /\ \/ flow' = Append(flow, timer.pause) /\ faults' = faults
         \/ flow' = flow /\ (link => "loss" \in Faults /\ faults' = faults + 1)
  BY <1>1, SendFlowFacts
<1>4. Session'
  BY <1>1, <1>2, <1>3 DEF Session, Handing, Arming, RxAt
<1>5. Bounded /\ Bounded' /\ Counted /\ Counted' /\ PerTick \in Nat /\ Losses \in Nat
  BY <1>4, Allowance, AllowanceNext, Amounts, AmountsNext, Bounds
<1>6. Audio' = Audio
  BY <1>1 DEF Audio, RxAt, Units
<1>7. ~Stale' /\ ~Again' /\ (Again <=> timer.pause) /\ (Stale <=> ~timer.pause)
  BY <1>1, <1>2 DEF Stale, Again
<1>8. Drift' = 0 /\ Drift = (IF timer.pause THEN PerTick ELSE 0)
  <2>1. (TickEvery - TickEvery) * Gain = 0
    BY Bounds
  <2> QED BY <1>1, <1>2, <1>7, <2>1 DEF Drift
<1>10. dl'.armed /\ ~dl'.paused => dl'.lead < PauseAt
  BY <1>1 DEF FlowControl
<1>9. FlowControl(t)'
  <2>1. CASE ~dl.armed
    BY <1>1, <1>5, <1>6, <2>1, Ended DEF FlowControl
  <2>2. CASE dl.armed /\ flow' = Append(flow, timer.pause) /\ faults' = faults
    <3>1. LastWord' = timer.pause /\ (timer.pause /\ Quiet => Quiet')
      BY <1>1, <2>2, Told
    <3>2. Waiting' => ~timer.pause /\ Waiting
      BY <1>7, <3>1 DEF Waiting
    <3>3. Spent' = Spent /\ Debt' = Debt
      BY <2>2 DEF Spent, Debt
    <3>4. ~Waiting /\ Quiet => Quiet'
      BY <1>7, <3>1 DEF Waiting
    <3>5. ASSUME dl'.armed, dl'.paused, Waiting' PROVE Waiting /\ Tries' /\ Allowed.owed <= Allowed'.owed
      <4>1. Tries
        BY <1>1, <3>2, <3>5 DEF FlowControl
      <4>2. Tries'
        BY <1>1, <1>7, <3>2, <3>3, <3>5, <4>1 DEF Tries
      <4>3. Drift' = Drift
        BY <1>8, <3>2, <3>5
      <4> QED BY <1>5, <3>2, <3>3, <3>5, <4>2, <4>3 DEF Bounded
    <3> QED BY <1>1, <1>3, <1>4, <1>6, <1>10, <3>4, <3>5, Still, Carried
  <2>3. CASE dl.armed /\ flow' = flow /\ "loss" \in Faults /\ faults' = faults + 1
    <3>1. LastWord' = LastWord /\ (Quiet' <=> Quiet)
      BY <1>1, <2>3 DEF LastWord, Quiet
    <3>2. Waiting' => Waiting
      BY <1>7, <3>1 DEF Waiting
    <3>3. Spent' = Spent + 1 /\ Spent \in Nat
      BY <1>5, <2>3 DEF Spent, Counted
    <3>4. Debt' = Debt + PerTick
      BY <1>5, <3>3, Products DEF Debt
    <3>5. ASSUME dl'.armed, dl'.paused, Waiting' PROVE Waiting /\ Tries' /\ Allowed.owed <= Allowed'.owed
      <4>1. Tries
        BY <1>1, <3>2, <3>5 DEF FlowControl
      <4>2. \A r, a, l \in Nat, g \in {0, 1} : r + g + a > l => r + 0 + (a + 1) > l
        OBVIOUS
      <4>3. dl'.repeats + 0 + (Spent + 1) > Losses
        BY <1>1, <1>5, <3>3, <4>1, <4>2 DEF Tries, Counted
      <4>4. Tries'
        BY <1>7, <3>3, <4>3 DEF Tries
      <4>5. \A b, d, p \in Nat : b + d <= b + p + 0 \/ d > p
        OBVIOUS
      <4>6. Drift <= PerTick /\ Drift \in Nat
        BY <1>5, <1>8
      <4>7. Allowed.owed <= Allowed'.owed
        BY <1>5, <1>8, <3>4, <4>5, <4>6 DEF Bounded
      <4> QED BY <3>2, <3>5, <4>4, <4>7
    <3> QED BY <1>1, <1>3, <1>4, <1>6, <1>10, <3>1, <3>5, Still, Carried
  <2> QED BY <1>3, <2>1, <2>2, <2>3 DEF Session
<1> QED BY <1>1, <1>4, <1>9, AirSame DEF DropInv

-----------------------------------------------------------------------------
(* The transport task *)

\* Without a session nothing is promised but the speed of the App.
LEMMA Apart ==
  ASSUME TypeOK, TypeOK', Roomy, NEW t \in Nat, NEW u \in Nat, FlowControl(t), ~dl'.armed,
         Audio'.rest + u + app'.quota <= Audio.rest + t + app.quota
  PROVE  FlowControl(u)'
<1>1. /\ Audio.rest \in Nat /\ app.quota \in Nat /\ Audio'.rest \in Nat /\ app'.quota \in Nat /\ Carry \in Nat
      /\ Audio.rest + t + app.quota <= Carry
  BY Amounts, AmountsNext, Bounds DEF Counted, FlowControl
<1>2. Audio'.rest + u + app'.quota <= Carry
  BY <1>1
<1> QED BY <1>2, Ended

LEMMA ArmFlow ==
  ASSUME TypeOK, TypeOK', EstimateInv, Session, Roomy, NEW t \in Nat, Awaits(t), FlowControl(t),
         ArmReset \/ ArmTicker
  PROVE  DropInv'
<1>1. dl \in Downlinks /\ timer \in Tickers /\ rx \in Tasks /\ faults \in Nat
  BY DEF TypeOK
<1>2. UNCHANGED <<board, app, air, flow, link>> /\ link /\ Arming /\ ~dl.armed
  BY DEF ArmReset, ArmTicker, Session, Arming, EstimateInv, ClockInv
<1>3. CASE ArmReset
  <2>1. ~dl'.armed /\ ~dl'.paused /\ dl'.block = dl.block /\ UNCHANGED <<timer, faults>> /\ RxAt("arm")
    BY <1>1, <1>2, <1>3 DEF ArmReset, Downlinks
  <2>2. rx'.pc = "ticker" /\ rx'.then = rx.then /\ rx'.sdu = rx.sdu
    BY <1>1, <1>3 DEF ArmReset, Tasks
  <2>3. Session'
    BY <1>2, <2>1, <2>2 DEF Session, Handing, Arming, RxAt
  <2>4. Audio' = Audio /\ app'.quota = app.quota
    BY <1>2, <2>1, <2>2 DEF Audio, RxAt
  <2>5. FlowControl(t)'
    BY <2>1, <2>4, Still, Apart
  <2> QED BY <1>2, <2>3, <2>5, AirSame DEF DropInv
<1>4. CASE ArmTicker
  <2>1. dl'.paused = dl.paused /\ dl'.lead = dl.lead /\ dl'.block = dl.block /\ RxAt("ticker")
    BY <1>1, <1>4 DEF ArmTicker, Downlinks
  <2>2. timer' = [timer EXCEPT !.made = TRUE, !.on = TRUE, !.left = TickEvery] /\ UNCHANGED faults
    BY <1>4 DEF ArmTicker, Roomy, Fault
  <2>3. timer'.left = TickEvery
    BY <1>1, <2>2 DEF Tickers
  <2>4. rx'.pc = rx.then /\ rx'.then = rx.then /\ rx'.sdu = rx.sdu /\ rx.then \in {"idle", "feed", "reset"}
    BY <1>1, <1>4 DEF ArmTicker, Tasks
  <2>5. ~dl.paused /\ dl.lead = 0
    BY <2>1 DEF Session, EstimateInv
  <2>6. Session'
    BY <1>2, <2>1, <2>2, <2>3, <2>4 DEF Session, Handing, Arming, RxAt
  <2>7. Audio' = Audio /\ app'.quota = app.quota
    BY <1>2, <2>1, <2>4 DEF Audio, RxAt
  <2>8. FlowControl(t)'
    <3>1. 0 < PauseAt
      BY Bounds
    <3>2. Audio'.rest + t + app'.quota <= Carry
      BY <2>7 DEF FlowControl
    <3> QED BY <2>1, <2>5, <3>1, <3>2 DEF FlowControl
  <2> QED BY <1>2, <2>6, <2>8, AirSame DEF DropInv
<1> QED BY <1>3, <1>4

LEMMA EndFlow ==
  ASSUME TypeOK, TypeOK', EstimateInv, Session, Roomy, NEW t \in Nat, Awaits(t), FlowControl(t),
         DisarmReset \/ DisarmRelease \/ LinkReset
  PROVE  DropInv'
<1>1. dl \in Downlinks /\ timer \in Tickers /\ rx \in Tasks /\ faults \in Nat /\ rx.then \in {"idle", "feed", "reset"}
  BY DEF TypeOK, Tasks
<1>2. UNCHANGED <<board, app, air, timer, link>> /\ rx.pc \in {"disarm", "release", "reset"} /\ ~dl.armed
  BY DEF DisarmReset, DisarmRelease, LinkReset, Session, RxAt
<1>3. faults' >= faults /\ faults' <= MaxFaults
  <2>1. DisarmRelease => faults' >= faults /\ faults' <= MaxFaults
    BY SendFlowFacts DEF DisarmRelease
  <2>2. ~DisarmRelease => faults' = faults
    BY DEF DisarmReset, LinkReset
  <2> QED BY <1>1, <2>1, <2>2 DEF Session
<1>4. ~dl'.armed /\ dl'.block \in {dl.block, <<>>}
  BY <1>1, <1>2 DEF DisarmReset, DisarmRelease, LinkReset, Downlinks
<1>5. rx'.pc \in {"idle", "release", "reset"} /\ rx'.sdu = <<>> /\ rx.sdu = <<>>
  <2>1. rx.sdu = <<>>
    BY <1>2 DEF Session, Handing
  <2>2. CASE DisarmReset \/ DisarmRelease
    <3>1. rx.then \in {"idle", "reset"}
      BY <1>1, <2>2 DEF DisarmReset, DisarmRelease, EstimateInv, ClockInv
    <3>2. rx'.pc \in {"release", rx.then} /\ rx'.sdu = rx.sdu
      BY <1>1, <2>2 DEF DisarmReset, DisarmRelease, Tasks
    <3> QED BY <2>1, <3>1, <3>2
  <2>3. CASE LinkReset
    BY <2>1, <2>3 DEF LinkReset, Task0
  <2> QED BY <2>1, <2>2, <2>3
<1>6. Session'
  BY <1>2, <1>3, <1>4, <1>5 DEF Session, Handing, Arming, RxAt
<1>7. Audio'.rest <= Audio.rest /\ Audio'.rest \in Nat /\ Audio.rest \in Nat /\ app.quota \in Nat
  <2>1. Len(dl'.block) <= Len(dl.block) /\ Len(dl'.block) \in Nat /\ Len(dl.block) \in Nat
    <3>1. Len(dl.block) \in Nat /\ Len(<<>>) = 0
      BY Amounts DEF Counted
    <3> QED BY <1>4, <3>1
  <2>2. \A a, b, c \in Nat : a <= b => c + a <= c + b
    OBVIOUS
  <2>3. Len(rx'.sdu) = Len(rx.sdu) /\ Len(rx.sdu) \in Nat
    BY <1>5
  <2>4. Audio'.rest <= Audio.rest
    BY <2>1, <2>2, <2>3 DEF Audio
  <2> QED BY <2>4, Amounts, AmountsNext DEF Counted
<1>8. Audio'.rest + t + app'.quota <= Audio.rest + t + app.quota
  BY <1>2, <1>7
<1> QED BY <1>2, <1>4, <1>6, <1>8, Apart, AirSame DEF DropInv

LEMMA SinkFlow ==
  ASSUME TypeOK, TypeOK', EstimateInv, Session, Roomy, NEW t \in Nat, Awaits(t), FlowControl(t), Sink
  PROVE  DropInv'
<1>1. rx \in Tasks /\ RxAt("sink") /\ UNCHANGED <<dl, timer, app, air, flow, link, faults>>
  BY DEF TypeOK, Sink
<1>2. rx'.pc \in {"pause", "feed"} /\ rx'.sdu = rx.sdu /\ rx'.then = rx.then
  BY <1>1 DEF Sink, Tasks
<1>3. Session'
  BY <1>1, <1>2 DEF Session, Handing, Arming, RxAt
<1>4. board \in Nat /\ Units(rx.out) \in Nat /\ BoardCap \in Nat
  BY Numbers, DownlinkAssumption
<1>5. Audio.stock = board + Units(rx.out) /\ Audio'.rest = Audio.rest
  BY <1>1, <1>2 DEF Audio
<1>6. board' <= board + Units(rx.out) /\ board' \in Nat
  BY <1>4 DEF Sink, Least
<1>7. Audio'.stock <= Audio.stock
  <2>1. Audio'.stock = board' + 0
    BY <1>2 DEF Audio, RxAt
  <2> QED BY <1>5, <1>6, <2>1
<1>8. Audio.stock \in Nat /\ Audio.rest \in Nat /\ app.quota \in Nat /\ Audio'.stock \in Nat /\ faults' >= faults
  BY <1>1, Amounts, AmountsNext DEF Counted
<1>9. /\ Audio'.rest + t + app'.quota <= Audio.rest + t + app.quota
      /\ Audio'.stock + Audio'.rest + t + app'.quota <= Audio.stock + Audio.rest + t + app.quota
      /\ Audio'.stock + Audio'.rest + t <= Audio.stock + Audio.rest + t
  BY <1>1, <1>5, <1>7, <1>8
<1>10. (LastWord' <=> LastWord) /\ (Quiet' <=> Quiet) /\ (dl'.armed /\ ~dl'.paused => dl'.lead < PauseAt)
  BY <1>1 DEF LastWord, Quiet, FlowControl
<1>11. FlowControl(t)'
  BY <1>1, <1>3, <1>8, <1>9, <1>10, Same
<1> QED BY <1>1, <1>3, <1>11, AirSame DEF DropInv

\* Deliver's PAUSE.
LEMMA DeliverPauseFlow ==
  ASSUME TypeOK, TypeOK', EstimateInv, Session, Roomy, NEW t \in Nat, Awaits(t), FlowControl(t), DeliverPause
  PROVE  DropInv'
<1>1. rx \in Tasks /\ RxAt("pause") /\ UNCHANGED <<dl, timer, board, app, air, link>> /\ SendFlow(TRUE)
  BY DEF TypeOK, DeliverPause
<1>2. rx'.pc = "feed" /\ rx'.sdu = rx.sdu /\ rx'.then = rx.then
  BY <1>1 DEF DeliverPause, Tasks
<1>3. /\ faults' >= faults /\ faults' <= MaxFaults
      /\ flow' = Append(flow, TRUE) \/ flow' = flow
  BY <1>1, SendFlowFacts
<1>4. Session'
  BY <1>1, <1>2, <1>3 DEF Session, Handing, Arming, RxAt
<1>5. Audio' = Audio /\ app'.quota = app.quota /\ (dl'.armed /\ ~dl'.paused => dl'.lead < PauseAt)
  BY <1>1, <1>2 DEF Audio, RxAt, FlowControl
<1>6. (LastWord => LastWord') /\ (Quiet => Quiet')
  <2>1. CASE flow' = Append(flow, TRUE)
    BY <1>1, <2>1, Told
  <2>2. CASE flow' = flow
    BY <1>1, <2>2 DEF LastWord, Quiet
  <2> QED BY <1>3, <2>1, <2>2
<1>7. FlowControl(t)'
  BY <1>1, <1>3, <1>4, <1>5, <1>6, Still, Same
<1> QED BY <1>1, <1>4, <1>7, AirSame DEF DropInv

LEMMA FeedFlow ==
  ASSUME TypeOK, TypeOK', EstimateInv, Session, Roomy, NEW t \in Nat, Awaits(t), FlowControl(t), Feed
  PROVE  DropInv'
<1>1. /\ rx \in Tasks /\ RxAt("idle") /\ air # <<>> /\ air' = Tail(air) /\ Len(air') <= Window
      /\ UNCHANGED <<dl, timer, board, app, flow, link, faults>> /\ link /\ rx.sdu = <<>>
  <2>1. air \in Seq(Seq(Cells)) /\ Len(air) <= Window /\ air # <<>> /\ Window \in Nat
    BY DownlinkAssumption DEF TypeOK, Feed, Session
  <2>2. Len(Tail(air)) <= Window
    BY <2>1
  <2> QED BY <2>2 DEF TypeOK, Feed, Session, Handing, RxAt
<1>2. rx'.pc = (IF dl.armed THEN "feed" ELSE "arm") /\ rx'.sdu = Head(air) /\ rx'.then = "feed"
  BY <1>1 DEF Feed, Tasks
<1>3. Session'
  BY <1>1, <1>2 DEF Session, Handing, Arming, RxAt
<1>4. PICK u \in Nat : t = Len(Head(air)) + u /\ Awaits(u)'
  BY <1>1, AirFeed
<1>5. Len(rx'.sdu) = Len(Head(air)) /\ Len(rx'.sdu) \in Nat /\ Len(rx.sdu) = 0 /\ Len(dl.block) \in Nat
  BY <1>1, <1>2, Amounts, AmountsNext DEF Counted
<1>6. Audio'.rest + u = Audio.rest + t
  <2>1. Audio'.rest = Len(Head(air)) + Len(dl.block) /\ Audio.rest = 0 + Len(dl.block)
    BY <1>1, <1>5 DEF Audio
  <2>2. \A a, b \in Nat : a + b + u = 0 + b + (a + u)
    OBVIOUS
  <2>3. Len(Head(air)) \in Nat
    BY <1>5
  <2> QED BY <1>4, <1>5, <2>1, <2>2, <2>3
<1>7. Audio'.stock = Audio.stock
  BY <1>1, <1>2 DEF Audio, RxAt
<1>8. Audio.stock \in Nat /\ Audio.rest \in Nat /\ app.quota \in Nat /\ Audio'.rest \in Nat /\ faults' >= faults
  BY <1>1, Amounts, AmountsNext DEF Counted
<1>9. /\ Audio'.rest + u + app'.quota <= Audio.rest + t + app.quota
      /\ Audio'.stock + Audio'.rest + u + app'.quota <= Audio.stock + Audio.rest + t + app.quota
      /\ Audio'.stock + Audio'.rest + u <= Audio.stock + Audio.rest + t
  <2>1. \A r, v, q, a \in Nat : v + u = r + t => /\ v + u + q <= r + t + q
                                             /\ a + v + u + q <= a + r + t + q /\ a + v + u <= a + r + t
    OBVIOUS
  <2> QED BY <1>1, <1>6, <1>7, <1>8, <2>1
<1>10. (LastWord' <=> LastWord) /\ (Quiet' <=> Quiet) /\ (dl'.armed /\ ~dl'.paused => dl'.lead < PauseAt)
  BY <1>1 DEF LastWord, Quiet, FlowControl
<1>11. FlowControl(u)'
  BY <1>1, <1>3, <1>8, <1>9, <1>10, Same
<1> QED BY <1>3, <1>4, <1>11 DEF DropInv

\* What is left of the SDU waits for the rest of its block.
LEMMA FeedRestFlow ==
  ASSUME TypeOK, TypeOK', EstimateInv, Session, Roomy, NEW t \in Nat, Awaits(t), FlowControl(t),
         FeedPartial \/ FeedDone
  PROVE  DropInv'
<1>1. rx \in Tasks /\ dl \in Downlinks /\ RxAt("feed") /\ UNCHANGED <<timer, board, app, air, flow, link, faults>>
  BY DEF TypeOK, FeedPartial, FeedDone
<1>2. rx'.pc = "idle" /\ rx'.sdu = <<>> /\ rx'.then = "idle"
  <2>1. rx' = Task0
    BY DEF FeedPartial, FeedDone
  <2> QED BY <2>1 DEF Task0
<1>3. /\ dl'.armed = dl.armed /\ dl'.paused = dl.paused /\ dl'.lead = dl.lead /\ dl'.repeats = dl.repeats
      /\ Len(dl'.block) = Len(dl.block) + Len(rx.sdu)
  <2>1. dl.block \in Seq(Cells) /\ rx.sdu \in Seq(Cells)
    BY Fields
  <2>2. CASE FeedPartial
    <3>1. dl' = [dl EXCEPT !.block = dl.block \o rx.sdu]
      BY <2>2 DEF FeedPartial
    <3>2. Len(dl.block \o rx.sdu) = Len(dl.block) + Len(rx.sdu)
      BY <2>1
    <3> QED BY <1>1, <3>1, <3>2 DEF Downlinks
  <2>3. CASE FeedDone
    <3>1. dl' = dl /\ rx.sdu = <<>> /\ Len(dl.block) + Len(<<>>) = Len(dl.block)
      BY <2>1, <2>3 DEF FeedDone
    <3> QED BY <3>1
  <2> QED BY <2>2, <2>3
<1>4. Session'
  BY <1>1, <1>2, <1>3 DEF Session, Handing, Arming, RxAt
<1>5. Audio'.stock = Audio.stock /\ Audio'.rest = Audio.rest /\ app'.quota = app.quota
  <2>1. \A a, b \in Nat : 0 + (a + b) = b + a
    OBVIOUS
  <2>2. Len(rx'.sdu) = 0
    BY <1>2
  <2>3. Audio'.rest = 0 + (Len(dl.block) + Len(rx.sdu)) /\ Audio.rest = Len(rx.sdu) + Len(dl.block)
    BY <1>3, <2>2 DEF Audio
  <2>4. Len(dl.block) \in Nat /\ Len(rx.sdu) \in Nat
    BY Amounts DEF Counted
  <2>5. Audio'.stock = Audio.stock
    BY <1>1, <1>2 DEF Audio, RxAt
  <2> QED BY <1>1, <2>1, <2>3, <2>4, <2>5
<1>6. (LastWord' <=> LastWord) /\ (Quiet' <=> Quiet) /\ (dl'.armed /\ ~dl'.paused => dl'.lead < PauseAt)
  BY <1>1, <1>3 DEF LastWord, Quiet, FlowControl
<1>7. faults' >= faults
  BY <1>1, Amounts DEF Counted
<1>8. FlowControl(t)'
  BY <1>1, <1>3, <1>4, <1>5, <1>6, <1>7, Still, Same
<1> QED BY <1>1, <1>4, <1>8, AirSame DEF DropInv

\* At most Base: all that is asked of a session that has just been paused.
LEMMA Paid ==
  ASSUME TypeOK, TypeOK', Session', Roomy, NEW t \in Nat, FlowControl(t),
         Audio'.rest + t + app'.quota <= Audio.rest + t + app.quota,
         Audio'.stock + Audio'.rest + t + app'.quota <= Audio.stock + Audio.rest + t + app.quota,
         Audio.stock + Audio.rest + t + app.quota <= Base,
         Tries'
  PROVE  dl'.paused => FlowControl(t)'
<1>1. /\ Audio.stock \in Nat /\ Audio.rest \in Nat /\ app.quota \in Nat
      /\ Audio'.stock \in Nat /\ Audio'.rest \in Nat /\ app'.quota \in Nat
  BY Amounts, AmountsNext DEF Counted
<1>2. /\ Base \in Nat /\ Limit \in Nat /\ Base <= Limit /\ Carry \in Nat
      /\ Audio.rest + t + app.quota <= Carry
  BY Bounds DEF FlowControl
<1>3. Audio'.rest + t + app'.quota <= Carry
  BY <1>1, <1>2
<1>4. Audio'.stock + Audio'.rest + t + app'.quota <= Base
  BY <1>1, <1>2
<1>5. Audio'.stock + Audio'.rest + t + app'.quota <= Base + Debt' + Drift'
  <2>1. \A v, b, p, g \in Nat : v <= b => v <= b + p + g
    OBVIOUS
  <2>2. Debt' \in Nat /\ Drift' \in Nat
    BY AllowanceNext DEF Bounded
  <2>3. Audio'.stock + Audio'.rest + t + app'.quota \in Nat
    BY <1>1
  <2> QED BY <1>2, <1>4, <2>1, <2>2, <2>3
<1>6. Audio'.stock + Audio'.rest + t + Yet' <= Limit
  <2>1. Audio'.stock + Audio'.rest + t + app'.quota <= Limit /\ Audio'.stock + Audio'.rest + t + 0 <= Limit
    BY <1>1, <1>2, <1>4
  <2> QED BY <2>1 DEF Yet
<1> QED BY <1>3, <1>5, <1>6 DEF FlowControl

\* Deliver's locked section: what is decoded goes to the board, and the device may decide on a pause.
LEMMA AccountFlow ==
  ASSUME TypeOK, TypeOK', EstimateInv, Session, Roomy, NEW t \in Nat, Awaits(t), FlowControl(t), RxAt("feed"),
         NEW n \in Nat, NEW out \in Seq(Cells), NEW rest \in Seq(Cells), Account(n, out, rest),
         n = (IF dl.codec = "pcm" THEN Len(out) ELSE 1), n + Len(rest) <= Audio.rest,
         UNCHANGED <<timer, board, app, air, flow, link, faults>>
  PROVE  DropInv'
<1> DEFINE lead == Most(dl.lead + n, 0)
           flip == ~dl.paused /\ lead >= PauseAt
           d == [dl EXCEPT !.lead = lead, !.block = <<>>]
<1>1. dl \in Downlinks /\ rx \in Tasks /\ dl.lead \in Int /\ dl.armed /\ link /\ rx.pc = "feed"
  BY DEF TypeOK, Downlinks, RxAt, EstimateInv, ClockInv, Session
<1>2. /\ dl' = (IF flip THEN Flipped(d, TRUE) ELSE d)
      /\ rx' = [rx EXCEPT !.pc = "sink", !.sdu = rest, !.out = out, !.send = flip]
  <2>1. \A m \in Int : m + 0 = m
    OBVIOUS
  <2>2. lead \in Int
    BY <1>1 DEF Most
  <2> QED BY <2>1, <2>2 DEF Account, Rebased, Buffered, Roomy
<1>3. lead \in Int
  BY <1>1 DEF Most
<1> HIDE DEF lead
<1>4. /\ d \in Downlinks /\ d.armed = dl.armed /\ d.paused = dl.paused /\ d.repeats = dl.repeats
      /\ d.lead = lead /\ d.codec = dl.codec /\ d.block = <<>>
  BY <1>1, <1>3, ConstantTypes DEF Downlinks
<1> HIDE DEF d
<1>5. /\ dl'.armed /\ dl'.codec = dl.codec /\ dl'.block = <<>> /\ dl'.lead = lead
      /\ flip => dl'.paused /\ dl'.repeats = FlipRepeats
      /\ ~flip => dl'.paused = dl.paused /\ dl'.repeats = dl.repeats
  BY <1>1, <1>2, <1>4 DEF Flipped, Downlinks
<1>6. rx'.pc = "sink" /\ rx'.sdu = rest /\ rx'.out = out /\ rx'.then = rx.then
  BY <1>1, <1>2 DEF Tasks
<1>7. Session'
  BY <1>1, <1>6 DEF Session, Handing, Arming, RxAt
<1>8. Units(rx.out)' = n
  BY <1>5, <1>6 DEF Units
<1>9. Audio'.stock = board + n /\ Audio.stock = board + 0 /\ Audio'.rest = Len(rest) + 0
  BY <1>1, <1>5, <1>6, <1>8 DEF Audio, RxAt
<1>10. /\ Audio.stock \in Nat /\ Audio.rest \in Nat /\ app.quota \in Nat /\ Audio'.rest \in Nat
       /\ Audio'.stock \in Nat /\ app'.quota = app.quota
  BY Amounts, AmountsNext DEF Counted
<1>15. Audio'.rest <= Audio.rest /\ Audio'.stock + Audio'.rest <= Audio.stock + Audio.rest
  <2>1. board \in Nat /\ Len(rest) \in Nat
    BY Numbers
  <2>2. \A b, l, r \in Nat : n + l <= r => l + 0 <= r /\ (b + n) + (l + 0) <= (b + 0) + r
    OBVIOUS
  <2> QED BY <1>9, <1>10, <2>1, <2>2
<1>16. faults' >= faults
  BY Amounts DEF Counted
<1>11. /\ Audio'.rest + t + app'.quota <= Audio.rest + t + app.quota
       /\ Audio'.stock + Audio'.rest + t + app'.quota <= Audio.stock + Audio.rest + t + app.quota
       /\ Audio'.stock + Audio'.rest + t <= Audio.stock + Audio.rest + t
  <2>1. \A r, v, a, b, q \in Nat : v <= r /\ b + v <= a + r =>
          v + t + q <= r + t + q /\ b + v + t + q <= a + r + t + q /\ b + v + t <= a + r + t
    OBVIOUS
  <2> QED BY <1>10, <1>15, <2>1
<1>12. (LastWord' <=> LastWord) /\ (Quiet' <=> Quiet)
  BY DEF LastWord, Quiet
<1>13. CASE ~flip
  <2>1. PauseAt \in Nat
    BY Bounds
  <2>2. ~dl'.paused => dl'.lead < PauseAt
    BY <1>3, <1>5, <1>13, <2>1
  <2>3. FlowControl(t)'
    BY <1>1, <1>5, <1>7, <1>11, <1>12, <1>13, <1>16, <2>2, Same
  <2> QED BY <1>7, <2>3, AirSame DEF DropInv
<1>14. CASE flip
  <2>1. Audio.stock + Audio.rest + t + app.quota <= Base
    BY <1>1, <1>14, Level
  <2>2. FlipRepeats + 0 + Spent' > Losses /\ FlipRepeats + 1 + Spent' > Losses
    <3>1. \A f, p, l \in Nat : l < f => f + 0 + p > l /\ f + 1 + p > l
      OBVIOUS
    <3>2. Spent' \in Nat /\ Losses \in Nat /\ FlipRepeats \in Nat /\ Losses < FlipRepeats
      BY AmountsNext, Bounds, DownlinkAssumption DEF Roomy, Counted
    <3> QED BY <3>1, <3>2
  <2>3. Tries'
    BY <1>5, <1>14, <2>2 DEF Tries
  <2>4. FlowControl(t)'
    BY <1>5, <1>7, <1>11, <1>14, <2>1, <2>3, Paid
  <2> QED BY <1>7, <2>4, AirSame DEF DropInv
<1> QED BY <1>13, <1>14

LEMMA FeedDecodesFlow ==
  ASSUME TypeOK, TypeOK', EstimateInv, Session, Roomy, NEW t \in Nat, Awaits(t), FlowControl(t),
         FeedPcm \/ FeedBlock
  PROVE  DropInv'
<1>1. /\ rx.sdu \in Seq(Cells) /\ Len(rx.sdu) \in Nat /\ dl.block \in Seq(Cells) /\ Len(dl.block) \in Nat
      /\ Len(dl.block) < BlockLen /\ BlockLen \in Nat /\ <<>> \in Seq(Cells) /\ Len(<<>>) = 0
  BY Fields, DownlinkAssumption DEF TypeOK
<1>2. RxAt("feed") /\ UNCHANGED <<timer, board, app, air, flow, link, faults>>
  BY DEF FeedPcm, FeedBlock
<1>3. Audio.rest = Len(rx.sdu) + Len(dl.block)
  BY DEF Audio
<1>4. CASE FeedPcm
  <2>1. Account(Len(rx.sdu), rx.sdu, <<>>) /\ dl.codec = "pcm"
    BY <1>4 DEF FeedPcm
  <2>2. Len(rx.sdu) + Len(<<>>) <= Audio.rest
    BY <1>1, <1>3
  <2> QED BY <1>1, <1>2, <2>1, <2>2, AccountFlow
<1>5. CASE FeedBlock
  <2> DEFINE out == dl.block \o SubSeq(rx.sdu, 1, Missing)
             rest == SubSeq(rx.sdu, Missing + 1, Len(rx.sdu))
  <2>1. Account(1, out, rest) /\ dl.codec = "adpcm" /\ Len(rx.sdu) >= Missing
    BY <1>5 DEF FeedBlock
  <2>2. Missing \in Nat /\ Missing >= 1 /\ Missing <= Len(rx.sdu)
    <3>1. \A a, b \in Nat : a < b => b - a \in Nat /\ b - a >= 1
      OBVIOUS
    <3>2. Missing \in Nat /\ Missing >= 1
      BY <1>1, <3>1 DEF Missing
    <3> QED BY <1>1, <2>1, <3>2
  <2>3. SubSeq(rx.sdu, 1, Missing) \in Seq(Cells) /\ rest \in Seq(Cells)
    BY <1>1, <2>2, SequencesClosed
  <2>4. out \in Seq(Cells)
    BY <1>1, <2>3
  <2>5. Len(rest) = Len(rx.sdu) - Missing
    <3>1. Len(rest) = IF Missing + 1 <= Len(rx.sdu) THEN Len(rx.sdu) - (Missing + 1) + 1 ELSE 0
      BY <1>1, <2>2, SubSeqProperties
    <3>2. \A a, b \in Nat : b <= a => (IF b + 1 <= a THEN a - (b + 1) + 1 ELSE 0) = a - b
      OBVIOUS
    <3> QED BY <1>1, <2>2, <3>1, <3>2
  <2>6. 1 + Len(rest) <= Audio.rest
    <3>1. \A a, b, m \in Nat : m >= 1 => 1 + (a - m) <= a + b
      OBVIOUS
    <3> QED BY <1>1, <1>3, <2>2, <2>5, <3>1
  <2>7. 1 \in Nat /\ 1 = (IF dl.codec = "pcm" THEN Len(out) ELSE 1)
    BY <2>1
  <2> HIDE DEF out, rest
  <2> QED BY <1>2, <2>1, <2>3, <2>4, <2>6, <2>7, AccountFlow
<1> QED BY <1>4, <1>5

-----------------------------------------------------------------------------
(* Commands, the App and the link *)

LEMMA DisarmEnds ==
  ASSUME TypeOK, NEW then \in {"idle", "reset"}, Disarm(then), RxAt("idle"), Session
  PROVE  /\ ~dl'.armed /\ dl'.block = dl.block /\ rx'.sdu = <<>> /\ rx.sdu = <<>>
         /\ rx'.pc \in {"disarm", "idle", "reset"}
         /\ timer'.pc = timer.pc /\ (timer'.left = timer.left \/ timer'.left = TickEvery)
<1>1. dl \in Downlinks /\ timer \in Tickers /\ rx \in Tasks /\ rx.sdu = <<>>
  BY DEF TypeOK, Session, Handing, RxAt
<1>2. CASE dl.armed
  <2>1. ~dl'.armed /\ dl'.block = dl.block
    BY <1>1, <1>2 DEF Disarm, Downlinks
  <2>2. timer'.pc = timer.pc /\ timer'.left = TickEvery
    BY <1>1, <1>2 DEF Disarm, Tickers
  <2>3. rx'.pc = "disarm" /\ rx'.sdu = rx.sdu
    BY <1>1, <1>2 DEF Disarm, Tasks
  <2> QED BY <1>1, <2>1, <2>2, <2>3
<1>3. CASE ~dl.armed
  <2>1. rx'.pc = then /\ rx'.sdu = rx.sdu /\ UNCHANGED <<dl, timer>>
    BY <1>1, <1>3 DEF Disarm, Tasks
  <2> QED BY <1>1, <1>3, <2>1
<1> QED BY <1>2, <1>3

\* A session that a command or the link ends.
LEMMA DisarmFlow ==
  ASSUME TypeOK, TypeOK', EstimateInv, Session, Roomy, NEW t \in Nat, FlowControl(t),
         NEW then \in {"idle", "reset"}, Disarm(then), RxAt("idle"), air' = <<>>,
         app'.quota = app.quota, faults' <= MaxFaults
  PROVE  DropInv'
<1>1. /\ ~dl'.armed /\ dl'.block = dl.block /\ rx'.sdu = <<>> /\ rx.sdu = <<>>
      /\ rx'.pc \in {"disarm", "idle", "reset"}
      /\ timer'.pc = timer.pc /\ (timer'.left = timer.left \/ timer'.left = TickEvery)
  BY DisarmEnds
<1>2. Session'
  <2>1. Len(<<>>) = 0 /\ 0 <= Window
    BY DownlinkAssumption
  <2>2. Len(air') <= Window
    BY <2>1
  <2> QED BY <1>1, <2>2 DEF Session, Handing, Arming, RxAt
<1>3. Audio'.rest = Audio.rest
  BY <1>1 DEF Audio
<1>4. Audio'.rest + 0 + app'.quota <= Audio.rest + t + app.quota
  <2>1. Audio.rest \in Nat /\ app.quota \in Nat
    BY Amounts DEF Counted
  <2> QED BY <1>3, <2>1
<1>5. FlowControl(0)'
  BY <1>1, <1>4, Apart
<1> QED BY <1>2, <1>5, AirEmpty DEF DropInv

LEMMA ReplyStartsFlow ==
  ASSUME TypeOK, TypeOK', EstimateInv, Session, Roomy, NEW t \in Nat, Awaits(t), FlowControl(t),
         NEW c \in Codecs, ReplyStarts(c)
  PROVE  DropInv'
<1>1. /\ dl \in Downlinks /\ rx \in Tasks /\ app \in Apps /\ c \in AllCodecs /\ RxAt("idle") /\ link /\ rx.sdu = <<>>
      /\ UNCHANGED <<timer, board, air, flow, link, faults>>
  BY DownlinkAssumption DEF TypeOK, ReplyStarts, Session, Handing, RxAt
<1>2. app'.quota = app.quota /\ app'.muted = app.muted
  BY <1>1 DEF ReplyStarts, Apps
<1>3. CASE dl.armed
  <2>1. UNCHANGED <<dl, rx>>
    BY <1>3 DEF ReplyStarts, CodecAfter
  <2>2. Session'
    BY <1>1, <2>1 DEF Session, Handing, Arming, RxAt
  <2>3. Audio' = Audio /\ (LastWord' <=> LastWord) /\ (Quiet' <=> Quiet)
    BY <1>1, <1>2, <2>1 DEF Audio, RxAt, LastWord, Quiet
  <2>4. (dl'.armed /\ ~dl'.paused => dl'.lead < PauseAt) /\ faults' >= faults
    BY <1>1, <2>1, Amounts DEF FlowControl, Counted
  <2>5. FlowControl(t)'
    BY <1>1, <1>2, <2>1, <2>2, <2>3, <2>4, Still, Same
  <2> QED BY <1>1, <2>2, <2>5, AirSame DEF DropInv
<1>4. CASE ~dl.armed
  <2>1. ~dl'.armed /\ dl'.block \in {dl.block, <<>>}
    BY <1>1, <1>4 DEF ReplyStarts, CodecAfter, Downlinks
  <2>2. rx'.pc = "idle" \/ (rx'.pc = "arm" /\ rx'.then = "idle")
    BY <1>1, <1>4 DEF ReplyStarts, RxAt, Tasks
  <2>7. rx'.sdu = <<>>
    BY <1>1 DEF ReplyStarts, Tasks
  <2>3. Session'
    BY <1>1, <2>1, <2>2, <2>7 DEF Session, Handing, Arming, RxAt
  <2>4. Audio'.rest <= Audio.rest
    <3>1. Len(<<>>) = 0 /\ Len(dl.block) \in Nat
      BY Amounts DEF Counted
    <3>2. \A b \in Nat : 0 + b <= 0 + b /\ 0 + 0 <= 0 + b
      OBVIOUS
    <3>3. Audio.rest = 0 + Len(dl.block)
      BY <1>1, <3>1 DEF Audio
    <3>4. Audio'.rest = 0 + Len(dl.block) \/ Audio'.rest = 0 + 0
      BY <2>1, <2>2, <2>7, <3>1 DEF Audio
    <3> QED BY <3>1, <3>2, <3>3, <3>4
  <2>5. Audio'.rest + t + app'.quota <= Audio.rest + t + app.quota
    <3>1. Audio.rest \in Nat /\ Audio'.rest \in Nat /\ app.quota \in Nat
      BY Amounts, AmountsNext DEF Counted
    <3> QED BY <1>2, <2>4, <3>1
  <2>6. FlowControl(t)'
    BY <2>1, <2>5, Apart
  <2> QED BY <1>1, <2>3, <2>6, AirSame DEF DropInv
<1> QED BY <1>3, <1>4

\* Steps that neither move audio nor tell or decide anything.
LEMMA OtherFlow ==
  ASSUME TypeOK, TypeOK', EstimateInv, Session, Roomy, NEW t \in Nat, Awaits(t), FlowControl(t),
         UNCHANGED <<dl, timer, rx, board, air, flow>>, link => link', faults' >= faults, faults' <= MaxFaults,
         app'.quota = app.quota, app'.muted = app.muted
  PROVE  DropInv'
<1>1. Session'
  BY DEF Session, Handing, Arming, RxAt
<1>2. Audio' = Audio /\ (LastWord' <=> LastWord) /\ (Quiet' <=> Quiet)
  BY DEF Audio, RxAt, Units, LastWord, Quiet
<1>3. dl'.armed /\ ~dl'.paused => dl'.lead < PauseAt
  BY DEF FlowControl
<1>4. FlowControl(t)'
  BY <1>1, <1>2, <1>3, Still, Same
<1> QED BY <1>1, <1>4, AirSame DEF DropInv

LEMMA CommandsFlow ==
  ASSUME TypeOK, TypeOK', EstimateInv, Session, Roomy, NEW t \in Nat, Awaits(t), FlowControl(t), Commands
  PROVE  DropInv'
<1>0. app \in Apps /\ faults \in Nat /\ faults <= MaxFaults /\ MaxFaults \in Nat
  BY DownlinkAssumption DEF TypeOK, Session
<1>1. AppStops(1).quota = app.quota /\ AppStops(1).muted = app.muted
  BY <1>0 DEF AppStops, Apps
<1>2. CASE ReplyEnds \/ ReplyFails
  <2>1. /\ RxAt("idle") /\ air' = <<>> /\ app' = AppStops(1) /\ UNCHANGED <<board, air, flow, link>>
        /\ Disarm("idle") \/ UNCHANGED <<dl, timer, rx>>
    BY <1>2 DEF ReplyEnds, ReplyFails, Roomy
  <2>2. faults' >= faults /\ faults' <= MaxFaults
    BY <1>0, <1>2 DEF ReplyEnds, ReplyFails, Fault
  <2> QED BY <1>1, <2>1, <2>2, DisarmFlow, OtherFlow
<1> QED BY <1>2, ReplyStartsFlow DEF Commands

LEMMA PushFlow ==
  ASSUME TypeOK, TypeOK', EstimateInv, Session, Roomy, NEW t \in Nat, Awaits(t), FlowControl(t),
         NEW n \in 1..MaxSdu, Push(n)
  PROVE  DropInv'
<1> DEFINE s == Stream(app.codec, app.piece, n)
<1>1. /\ app \in Apps /\ app.codec \in AllCodecs /\ app.piece \in 1..BlockLen /\ app.quota \in 0..Rate
      /\ n \in Nat /\ n <= MaxSdu
      /\ link /\ ~app.muted /\ n <= app.quota /\ air' = Append(air, s)
      /\ UNCHANGED <<dl, timer, rx, board, flow, link, faults>>
  <2>1. app \in Apps /\ app.codec \in AllCodecs /\ app.piece \in 1..BlockLen /\ app.quota \in 0..Rate
    BY DEF TypeOK, Apps
  <2>2. n \in Nat /\ n <= MaxSdu
    BY DownlinkAssumption
  <2> QED BY <2>1, <2>2 DEF Push
<1>2. s \in Seq(Cells) /\ Len(s) = n
  <2>1. s \in Seq(Cells)
    BY <1>1, StreamType
  <2>2. Len(s) = n
    BY <1>1 DEF Stream
  <2> QED BY <2>1, <2>2
<1> HIDE DEF s
<1>3. app'.quota = app.quota - n /\ app'.muted = app.muted
  BY <1>1 DEF Push, Apps
<1>4. Awaits(t + n)' /\ t + n \in Nat
  BY <1>1, <1>2, AirPush
<1>5. Session'
  <2>1. Len(air') <= Window
    <3>1. air \in Seq(Seq(Cells)) /\ Len(air) < Window
      BY DEF Push, TypeOK
    <3>2. Len(Append(air, s)) = Len(air) + 1
      BY <1>2, <3>1
    <3>3. \A a, b \in Nat : a < b => a + 1 <= b
      OBVIOUS
    <3>4. Len(air) \in Nat /\ Window \in Nat
      BY <3>1, DownlinkAssumption
    <3> QED BY <1>1, <3>1, <3>2, <3>3, <3>4
  <2> QED BY <1>1, <2>1 DEF Session, Handing, Arming, RxAt
<1>6. Audio'.stock = Audio.stock /\ Audio'.rest = Audio.rest /\ (LastWord' <=> LastWord) /\ ~Quiet
  BY <1>1, <1>3 DEF Audio, RxAt, Units, LastWord, Quiet
<1>7. /\ Audio'.rest + (t + n) + app'.quota <= Audio.rest + t + app.quota
      /\ Audio'.stock + Audio'.rest + (t + n) + app'.quota <= Audio.stock + Audio.rest + t + app.quota
  <2>1. Audio.stock \in Nat /\ Audio.rest \in Nat /\ app.quota \in Nat
    BY Amounts DEF Counted
  <2>2. \A a, r, q \in Nat : /\ r + (t + n) + (q - n) <= r + t + q
                             /\ a + r + (t + n) + (q - n) <= a + r + t + q
    BY <1>1
  <2> QED BY <1>3, <1>6, <2>1, <2>2
<1>8. (dl'.armed /\ ~dl'.paused => dl'.lead < PauseAt) /\ faults' >= faults
  BY <1>1, Amounts DEF FlowControl, Counted
<1>9. FlowControl(t + n)'
  BY <1>1, <1>4, <1>5, <1>6, <1>7, <1>8, Same
<1> QED BY <1>4, <1>5, <1>9 DEF DropInv

LEMMA EnvironmentFlow ==
  ASSUME TypeOK, TypeOK', EstimateInv, Session, Roomy, NEW t \in Nat, Awaits(t), FlowControl(t), Environment
  PROVE  DropInv'
<1>0. app \in Apps /\ faults \in Nat /\ faults <= MaxFaults /\ MaxFaults \in Nat
  BY DownlinkAssumption DEF TypeOK, Session
<1>1. CASE Speak
  <2>1. /\ app'.quota = app.quota /\ app'.muted = app.muted
        /\ UNCHANGED <<dl, timer, rx, board, air, flow, link, faults>>
    BY <1>0, <1>1 DEF Speak, Apps
  <2> QED BY <1>0, <2>1, OtherFlow
<1>2. CASE LinkUp
  BY <1>0, <1>2, OtherFlow DEF LinkUp
<1>3. CASE LinkDown
  <2>1. Disarm("reset") /\ RxAt("idle") /\ air' = <<>> /\ faults' <= MaxFaults
    BY <1>0, <1>3 DEF LinkDown, Fault
  <2>2. app'.quota = app.quota
    BY <1>0, <1>3 DEF LinkDown, AppStops, Apps
  <2> QED BY <2>1, <2>2, DisarmFlow
<1> QED BY <1>1, <1>2, <1>3, PushFlow DEF Environment

LEMMA HearFlow ==
  ASSUME TypeOK, TypeOK', EstimateInv, Session, Roomy, NEW t \in Nat, Awaits(t), FlowControl(t), Hear
  PROVE  DropInv'
<1>1. UNCHANGED <<dl, timer, rx, board, air, link, faults>> /\ app'.quota = app.quota
  BY DEF TypeOK, Apps, Hear
<1>2. Session'
  BY <1>1 DEF Session, Handing, Arming, RxAt
<1>3. Audio' = Audio /\ (LastWord' <=> LastWord) /\ (Quiet => Quiet')
  BY <1>1, Heard DEF Audio, RxAt, Units
<1>4. (dl'.armed /\ ~dl'.paused => dl'.lead < PauseAt) /\ faults' >= faults
  BY <1>1, Amounts DEF FlowControl, Counted
<1>5. FlowControl(t)'
  BY <1>1, <1>2, <1>3, <1>4, Still, Same
<1> QED BY <1>1, <1>2, <1>5, AirSame DEF DropInv

\* A unit of time: the board plays one piece and the App gets out at most Rate more; an App that was told
\* sends nothing.
LEMMA ElapseFlow ==
  ASSUME TypeOK, TypeOK', EstimateInv, Session, Roomy, NEW t \in Nat, Awaits(t), FlowControl(t), Elapse
  PROVE  DropInv'
<1>1. /\ dl \in Downlinks /\ timer \in Tickers /\ rx \in Tasks /\ app \in Apps /\ RxAt("idle") /\ timer.pc = "idle"
      /\ flow = <<>> /\ UNCHANGED <<rx, air, flow, link, faults>> /\ rx.sdu = <<>>
  BY DEF TypeOK, Elapse, Session, Handing, RxAt
<1>2. /\ dl'.armed = dl.armed /\ dl'.paused = dl.paused /\ dl'.repeats = dl.repeats /\ dl'.block = dl.block
      /\ dl'.lead = (IF dl.armed THEN Most(dl.lead - 1, 0 - MaxLag) ELSE dl.lead)
  BY <1>1 DEF Elapse, Downlinks
<1>3. app'.quota = Rate /\ app'.muted = app.muted
  BY <1>1 DEF Elapse, Apps
<1>4. timer'.pc = "idle" /\ timer'.left = (IF timer.on THEN timer.left - 1 ELSE timer.left)
  BY <1>1 DEF Elapse, Tickers
<1>5. Session'
  BY <1>1, <1>2, <1>4 DEF Session, Handing, Arming, RxAt
<1>6. Counted /\ Counted' /\ Bounded /\ Bounded'
  BY <1>5, Amounts, AmountsNext, Allowance, AllowanceNext
<1>7. /\ Carry \in Nat /\ Base \in Nat /\ Limit \in Nat /\ Carry <= Base /\ Base <= Limit /\ Gain \in Nat
      /\ Rate <= Gain + 1 /\ Rate \in Nat /\ PauseAt \in Nat /\ PauseAt > 0
  <2>1. \A p, e, c \in Nat : p > 0 => c <= p - 1 + e + c
    OBVIOUS
  <2> QED BY <2>1, Bounds, DownlinkAssumption
<1>8. Audio'.rest = Audio.rest /\ Audio.stock = board + 0 /\ Audio'.stock = board' + 0
  BY <1>1, <1>2 DEF Audio, RxAt
<1>9. Audio'.rest + t + app'.quota <= Carry
  <2>1. Audio.rest <= BlockLen - 1 /\ Audio.rest \in Nat
    <3>1. \A a, b \in Nat : a < b => 0 + a <= b - 1
      OBVIOUS
    <3>2. Audio.rest = 0 + Len(dl.block)
      BY <1>1 DEF Audio
    <3>3. Len(dl.block) \in Nat /\ Len(dl.block) < BlockLen /\ BlockLen \in Nat
      BY <1>6, DownlinkAssumption DEF TypeOK, Counted
    <3> QED BY <1>6, <3>1, <3>2, <3>3 DEF Counted
  <2>2. t <= Window * MaxSdu /\ Window * MaxSdu \in Nat
    BY <1>6, AirBound, Products, DownlinkAssumption DEF Session, Counted
  <2>3. \A w, b, r, a \in Nat : a <= b - 1 /\ t <= w => a + t + r <= w + (b - 1) + r
    OBVIOUS
  <2> QED BY <1>3, <1>7, <1>8, <2>1, <2>2, <2>3, DownlinkAssumption DEF Carry
<1>10. ASSUME dl.armed, ~dl.paused PROVE dl'.lead < PauseAt
  <2>1. dl.lead < PauseAt /\ dl.lead \in Int /\ TickEvery \in Nat
    BY <1>6, <1>10, DownlinkAssumption DEF FlowControl, Counted
  <2> QED BY <1>2, <1>7, <1>10, <2>1 DEF Most, MaxLag
<1>11. (LastWord <=> app.muted) /\ (LastWord' <=> app.muted) /\ (Quiet <=> app.muted) /\ (Quiet' <=> app.muted)
  BY <1>1, <1>3 DEF LastWord, Quiet
<1>12. (Waiting <=> ~app.muted) /\ (Waiting' <=> ~app.muted) /\ ~Again /\ ~Again'
  BY <1>1, <1>4, <1>11 DEF Waiting, Stale, Again
<1>13. /\ board' <= board /\ (board # 0 => board' + 1 = board) /\ (board = 0 => board' = 0)
       /\ board \in Nat /\ board' \in Nat
  <2>1. board \in Nat
    BY <1>6 DEF Counted
  <2> QED BY <2>1 DEF Elapse, Most
<1>14. ASSUME dl.armed, dl.paused, Waiting
       PROVE  Tries' /\ Audio'.stock + Audio'.rest + t + app'.quota <= Base + Debt' + Drift'
  <2>1. Tries /\ Audio.stock + Audio.rest + t + app.quota <= Base + Debt + Drift
    BY <1>14 DEF FlowControl
  <2>2. Spent' = Spent /\ Debt' = Debt
    BY <1>1 DEF Spent, Debt
  <2>3. Tries'
    BY <1>2, <1>12, <2>1, <2>2 DEF Tries
  <2>4. timer.on /\ timer.left > 0 /\ timer.left \in 0..TickEvery /\ TickEvery \in Nat
    BY <1>6, <1>14, DownlinkAssumption DEF Elapse, EstimateInv, ClockInv, Counted
  <2>5. Drift' = Drift + Gain
    <3>1. TickEvery - (timer.left - 1) = TickEvery - timer.left + 1 /\ TickEvery - timer.left \in Nat
      BY <2>4
    <3>2. (TickEvery - timer.left + 1) * Gain = (TickEvery - timer.left) * Gain + Gain
      BY <1>7, <3>1, Products
    <3>3. Drift = (TickEvery - timer.left) * Gain
      BY <1>1, <1>12 DEF Drift
    <3>4. Drift' = (TickEvery - timer'.left) * Gain
      BY <1>4, <1>12 DEF Drift
    <3> QED BY <1>4, <2>4, <3>1, <3>2, <3>3, <3>4
  <2>6. Audio'.stock + Audio'.rest + t + app'.quota <= Base + Debt + (Drift + Gain)
    <3>1. Audio.rest \in Nat /\ app.quota \in Nat /\ Debt \in Nat /\ Drift \in Nat /\ Audio.stock \in Nat
      BY <1>6 DEF Counted, Bounded
    <3>2. CASE board = 0
      <4>1. Audio'.stock = 0
        BY <1>8, <1>13, <3>2
      <4>2. \A r, q, c, b, d, f, g \in Nat : r + t + q <= c /\ c <= b => 0 + r + t + q <= b + d + (f + g)
        OBVIOUS
      <4>3. Audio.rest + t + Rate <= Carry
        BY <1>3, <1>8, <1>9
      <4> QED BY <1>3, <1>7, <1>8, <3>1, <4>1, <4>2, <4>3
    <3>3. CASE board # 0
      <4>1. Audio.stock = Audio'.stock + 1 /\ Audio'.stock \in Nat
        <5>1. \A a, b \in Nat : b + 1 = a => a + 0 = (b + 0) + 1 /\ b + 0 \in Nat
          OBVIOUS
        <5>2. board + 0 = (board' + 0) + 1 /\ board' + 0 \in Nat
          BY <1>13, <3>3, <5>1
        <5> QED BY <1>8, <5>2
      <4>2. \A s, r, q, p, b, d, f, g \in Nat : (s + 1) + r + t + q <= b + d + f /\ p <= g + 1 =>
               s + r + t + p <= b + d + (f + g)
        OBVIOUS
      <4>3. Audio'.stock + Audio.rest + t + Rate <= Base + Debt + (Drift + Gain)
        BY <1>7, <2>1, <3>1, <4>1, <4>2
      <4> QED BY <1>3, <1>8, <4>3
    <3> QED BY <3>2, <3>3
  <2> QED BY <2>2, <2>3, <2>5, <2>6
<1>15. ASSUME dl.armed, dl.paused, ~Waiting PROVE Audio'.stock + Audio'.rest + t + Yet' <= Limit
  <2>1. Yet = 0 /\ Yet' = 0 /\ Audio.stock + Audio.rest + t + 0 <= Limit
    BY <1>11, <1>12, <1>15 DEF Yet, FlowControl
  <2>2. Audio'.stock <= Audio.stock /\ Audio.stock \in Nat /\ Audio'.stock \in Nat /\ Audio.rest \in Nat
    <3>1. \A a, b \in Nat : b <= a => b + 0 <= a + 0 /\ a + 0 \in Nat /\ b + 0 \in Nat
      OBVIOUS
    <3> QED BY <1>6, <1>8, <1>13, <3>1 DEF Counted
  <2> QED BY <1>7, <1>8, <2>1, <2>2
<1>16. FlowControl(t)'
  BY <1>2, <1>9, <1>10, <1>12, <1>14, <1>15 DEF FlowControl
<1> QED BY <1>1, <1>5, <1>16, AirSame DEF DropInv

-----------------------------------------------------------------------------
(* The theorem *)

LEMMA InitFlow == Init /\ Roomy => DropInv
<1> SUFFICES ASSUME Init, Roomy PROVE DropInv
  OBVIOUS
<1>1. /\ rx.pc = "idle" /\ rx.sdu = <<>> /\ dl.block = <<>> /\ ~dl.armed /\ ~dl.paused /\ air = <<>> /\ link
      /\ faults = 0 /\ timer.pc = "idle" /\ app.quota = Rate
  BY DEF Init, Task0
<1>2. Len(<<>>) = 0 /\ 0 <= Window /\ 0 <= MaxFaults
  BY DownlinkAssumption
<1>3. Session
  BY <1>1, <1>2 DEF Session, Handing, Arming, RxAt
<1>4. Audio.rest = 0 + 0
  BY <1>1, <1>2 DEF Audio
<1>5. Audio.rest + 0 + app.quota <= Carry
  <2>1. \A w, b, r \in Nat : 0 + 0 + 0 + r <= w + b + r
    OBVIOUS
  <2>2. Window * MaxSdu \in Nat /\ BlockLen - 1 \in Nat /\ Rate \in Nat
    BY Products, DownlinkAssumption
  <2> QED BY <1>1, <1>4, <2>1, <2>2 DEF Carry
<1>6. FlowControl(0)
  BY <1>1, <1>5 DEF FlowControl
<1> DEFINE none == [k \in 1..1 |-> 0]
<1>7. /\ Len(air) = 0 /\ Len(air) + 1 = 1 /\ none \in [1..1 -> Nat] /\ none[1] = 0
  BY <1>1, <1>2
<1> HIDE DEF none
<1>8. Sums(none)
  BY <1>7 DEF Sums
<1>9. Awaits(0)
  BY <1>7, <1>8 DEF Awaits
<1> QED BY <1>3, <1>6, <1>9 DEF DropInv

LEMMA NextFlow ==
  ASSUME TypeOK, TypeOK', EstimateInv, DropInv, Roomy, [Next]_vars
  PROVE  DropInv'
<1>1. PICK t \in Nat : Awaits(t) /\ FlowControl(t)
  BY DEF DropInv
<1>2. Session
  BY DEF DropInv
<1>3. CASE UNCHANGED vars
  <2>1. faults' >= faults /\ faults' <= MaxFaults
    BY <1>2, <1>3 DEF vars, TypeOK, Session
  <2> QED BY <1>1, <1>2, <1>3, <2>1, OtherFlow DEF vars
<1>4. CASE TimerStep
  BY <1>1, <1>2, <1>4, TickStartFlow, TickFlipFlow, TickRepeatFlow, TickReassertFlow, TickSendFlow DEF TimerStep
<1>5. CASE RxStep
  BY <1>1, <1>2, <1>5, ArmFlow, EndFlow, FeedDecodesFlow, FeedRestFlow, SinkFlow, DeliverPauseFlow DEF RxStep
<1>6. CASE Feed \/ Commands \/ Environment \/ Hear \/ Elapse
  BY <1>1, <1>2, <1>6, FeedFlow, CommandsFlow, EnvironmentFlow, HearFlow, ElapseFlow
<1> QED BY <1>3, <1>4, <1>5, <1>6 DEF Next

LEMMA FlowImplies ==
  ASSUME TypeOK, EstimateInv, DropInv, Roomy
  PROVE  NothingDropped
<1> SUFFICES ASSUME RxAt("sink") PROVE board + Units(rx.out) <= BoardCap
  BY DEF NothingDropped
<1>1. PICK t \in Nat : FlowControl(t)
  BY DEF DropInv
<1>2. dl.armed /\ Audio.stock = board + Units(rx.out)
  BY DEF EstimateInv, ClockInv, Audio
<1>3. Counted /\ Bounded /\ Base \in Nat /\ Limit \in Nat /\ Base <= Limit /\ Limit <= BoardCap /\ BoardCap \in Nat
  BY Amounts, Allowance, Bounds, DownlinkAssumption DEF DropInv, Roomy
<1>4. Audio.stock \in Nat /\ Audio.rest \in Nat /\ app.quota \in Nat
  BY <1>3 DEF Counted
<1>5. CASE ~dl.paused
  <2>1. Audio.stock + Audio.rest + t + app.quota <= Base
    BY <1>1, <1>2, <1>5, Level
  <2>2. Audio.stock <= BoardCap
    BY <1>3, <1>4, <2>1
  <2> QED BY <1>2, <2>2
<1>6. CASE dl.paused /\ Waiting
  <2>1. Audio.stock + Audio.rest + t + app.quota <= Base + Debt + Drift
    BY <1>1, <1>2, <1>6 DEF FlowControl
  <2>2. Allowed.owed \in Nat /\ Base + Allowed.owed <= Limit /\ Base + Debt + Drift = Base + Allowed.owed
    BY <1>3 DEF Bounded
  <2>3. Audio.stock <= BoardCap
    BY <1>3, <1>4, <2>1, <2>2
  <2> QED BY <1>2, <2>3
<1>7. CASE dl.paused /\ ~Waiting
  <2>1. Audio.stock + Audio.rest + t + Yet <= Limit /\ Yet \in Nat
    BY <1>1, <1>2, <1>4, <1>7 DEF FlowControl, Yet
  <2>2. Audio.stock <= BoardCap
    BY <1>3, <1>4, <2>1
  <2> QED BY <1>2, <2>2
<1> QED BY <1>5, <1>6, <1>7

\* Tick, Deliver, SendFlow (audio_downlink.cpp): the board is never handed more than its buffer holds, for every
\* buffer, mark, tick, block, SDU, window and rate, however the tick, the transport task and the App interleave
\* and whichever frames, links and replies are lost, provided the buffer has room above the mark for what is under
\* way and for one tick of the App's sending more than frames are lost, fewer frames are lost than kFlipRepeats,
\* replies begin on a drained board and the ticker exists.
THEOREM BoardHasRoom ==
  ASSUME Roomy
  PROVE  Spec => []NothingDropped
<1>1. Init => DropInv
  BY InitFlow
<1>2. TypeOK /\ TypeOK' /\ EstimateInv /\ DropInv /\ [Next]_vars => DropInv'
  BY NextFlow
<1>3. TypeOK /\ EstimateInv /\ [Next]_vars => EstimateInv'
  BY NextEstimate DEF Roomy
<1>4. TypeOK /\ EstimateInv /\ DropInv => NothingDropped
  BY FlowImplies
<1> QED BY InitEstimate, DownlinkTypes, <1>1, <1>2, <1>3, <1>4, PTL DEF Spec

=============================================================================
