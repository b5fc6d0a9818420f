---------------------------- MODULE UplinkProofs ----------------------------
(***************************************************************************)
(* Proofs about the two ways up, BulkUplink and VoiceUplink.               *)
(*                                                                         *)
(* BulkUplink, for any queue, window and number of transfers: NoGap is not *)
(* inductive.  IInv numbers what is under way (LineInv), says that what    *)
(* the worker still holds (SendInv) and the queue (QueueInv) go on from    *)
(* there, and that as long as nothing was truncated the end of the queue   *)
(* is what the board has written.  WholeMeansWhole also needs when an end  *)
(* can be requested (CloseInv): without a truncation only the board does   *)
(* it, and it writes nothing more.                                         *)
(*                                                                         *)
(* Attributable needs more, AInv: the order of the events under way        *)
(* (OrderInv), that the App has the transfer open whose bytes the worker   *)
(* hands over (OpenInv), and that of every unit under way, not only of the *)
(* first, the App knows the transfer or will never be told (KnownInv).     *)
(*                                                                         *)
(* VoiceUplink, at the end of the module, for any queue, packet and number *)
(* of retries: VoiceInv says that the queue holds the last units accepted  *)
(* (VoiceQueue), that what the worker has in hand ends before it           *)
(* (VoiceHand), and that while no number is missing nothing is missing     *)
(* between the last packet and the next unit (VoiceLine).                  *)
(***************************************************************************)
EXTENDS BulkUplink, VoiceUplink, SequenceTheorems, TLAPS

\* What is under way to the App, with the SDU that waits for credit.
Line == air \o l2c.pend
\* The worker has handed the first SDU of its chunk over, and not counted it yet.
Held == wk.pc = "mark"
Rest == IF Held THEN Tail(wk.chunk) ELSE wk.chunk
Sent == IF Held THEN rec.sent + 1 ELSE rec.sent
Live == wk.pc \in {"delay", "top", "pop", "send", "mark"}
Mine == board[rec.tid]
\* Nothing of transfer t has left the board; the number that goes on from what has.
Untouched(t) == app.got[t] = <<>> /\ \A i \in DOMAIN Line : Line[i][1] # t
Edge(t) == IF Line # <<>> /\ Line[Len(Line)][1] = t THEN Line[Len(Line)][2] + 1 ELSE Len(app.got[t]) + 1

\* The first number of the j-th chunk in the queue, and the one after its last.
From(j) == rec.q[j][1][2]
Past(j) == From(j) + Len(rec.q[j])

\* Which thread is where.
ControlInv ==
  /\ rec.active <=> wk.pc # "free"
  /\ api.pc # "idle" => ~slot
  /\ wk.pc # "free" => api.pc \in {"idle", "slot"}
  /\ wk.chunk # <<>> => wk.pc \in {"send", "mark"}
  /\ wk.pc = "mark" => wk.chunk # <<>>
  /\ wk.pc # "free" \/ slot \/ api.pc \in {"announce", "activate", "slot"} => rec.tid \in Transfers
  /\ api.pc = "reset" => rec.tid < MaxTransfers /\ wk.pc = "free"
  /\ Len(l2c.pend) <= 1
\* When a transfer begins and ends.
CloseInv ==
  /\ slot => Mine.closed = "no"
  /\ \A t \in Transfers : t > rec.tid => board[t] = [tried |-> 0, closed |-> "no"] /\ Untouched(t)
  /\ api.pc \in {"announce", "activate"} =>
       /\ rec.q = <<>> /\ rec.sent = 0 /\ rec.complete
       /\ Mine = [tried |-> 0, closed |-> "no"] /\ Untouched(rec.tid)
       /\ ~rec.truncated => ~rec.end_req
  /\ api.pc = "slot" => Mine.closed = "no"
  /\ rec.active =>
       /\ ~rec.truncated /\ rec.end_req => Mine.closed # "no"
       /\ Mine.closed # "no" => (rec.complete <=> Mine.closed = "whole")
       /\ wk.end => rec.end_req
\* The queue holds consecutive SDUs.
QueueInv ==
  /\ \A j \in DOMAIN rec.q : /\ rec.q[j] # <<>>
                             /\ \A i \in DOMAIN rec.q[j] : rec.q[j][i] = <<rec.tid, From(j) + i - 1>>
  /\ \A j, k \in DOMAIN rec.q : j < k => Past(j) <= From(k)
  /\ \A j \in DOMAIN rec.q : j + 1 \in DOMAIN rec.q => From(j + 1) = Past(j)
  /\ rec.queued = IF rec.q = <<>> THEN 0 ELSE Past(Len(rec.q)) - From(1)
\* Chunk and queue go on from what was sent.
SendInv ==
  /\ \A i \in DOMAIN Rest : Rest[i] = <<rec.tid, Sent + i>>
  /\ Live => /\ rec.q # <<>> => From(1) = Sent + Len(Rest) + 1
             /\ ~rec.truncated => Mine.tried = IF rec.q = <<>> THEN Sent + Len(Rest) ELSE Past(Len(rec.q)) - 1
  /\ wk.pc = "delay" => rec.sent = 0 /\ Untouched(rec.tid)
  /\ Live /\ wk.pc # "delay" /\ l2c.chan => Edge(rec.tid) = Sent + 1
  /\ wk.pc \in {"verdict", "end", "done"} /\ ~rec.truncated => Mine.closed # "no"
  /\ wk.pc = "verdict" /\ ~rec.truncated => rec.sent = Mine.tried
  /\ wk.pc \in {"end", "done"} /\ wk.ok => rec.sent = Mine.tried /\ Mine.closed = "whole"
\* What is under way goes on from what the App got.
LineInv ==
  /\ \A i \in DOMAIN Line : Line[i][1] <= rec.tid
  /\ \A i, j \in DOMAIN Line : i < j => Line[i][1] <= Line[j][1]
  /\ \A i \in DOMAIN Line :
       Line[i][2] = IF i > 1 /\ Line[i - 1][1] = Line[i][1] THEN Line[i - 1][2] + 1
                                                            ELSE Len(app.got[Line[i][1]]) + 1
\* What an end event says is true.
EventInv ==
  \A i \in DOMAIN ev : ~ev[i].start /\ ev[i].ok =>
    board[ev[i].tid].closed = "whole" /\ ev[i].valid = board[ev[i].tid].tried

IInv == TypeOK /\ ControlInv /\ CloseInv /\ QueueInv /\ SendInv /\ LineInv /\ EventInv /\ NoGap /\ WholeMeansWhole

-----------------------------------------------------------------------------
(* Types *)

\* The tail of a sequence, element by element.
LEMMA Tl ==
  ASSUME NEW S, NEW q \in Seq(S), q # <<>>
  PROVE Tail(q) \in Seq(S) /\ Head(q) = q[1] /\ Head(q) \in S /\ Len(Tail(q)) = Len(q) - 1 /\ 1 \in 1..Len(q)
        /\ \A i \in 1..Len(Tail(q)) : Tail(q)[i] = q[i+1] /\ i + 1 \in 1..Len(q)
BY HeadTailProperties

\* A sequence with one more element.
LEMMA Ap ==
  ASSUME NEW S, NEW q \in Seq(S), NEW a \in S
  PROVE Append(q, a) \in Seq(S) /\ Len(Append(q, a)) = Len(q) + 1 /\ Append(q, a)[Len(q) + 1] = a
        /\ \A i \in 1..Len(q) : Append(q, a)[i] = q[i]
OBVIOUS

\* The parts of the records.
LEMMA Parts ==
  ASSUME TypeOK
  PROVE /\ rec.active \in BOOLEAN /\ rec.end_req \in BOOLEAN /\ rec.truncated \in BOOLEAN /\ rec.complete \in BOOLEAN
        /\ rec.tid \in 0..MaxTransfers /\ rec.tid \in Nat /\ rec.sent \in Nat /\ rec.q \in Seq(Seq(Units)) /\ rec.queued \in 0..QueueCap
        /\ wk.pc \in WorkerPcs /\ wk.end \in BOOLEAN /\ wk.chunk \in Seq(Units) /\ wk.ok \in BOOLEAN /\ wk.tries \in 0..(Attempts - 1)
        /\ api.pc \in {"idle", "reset", "announce", "activate", "slot"} /\ api.tries \in 0..(Attempts - 1)
        /\ \A t \in Transfers : board[t].tried \in Nat /\ board[t].closed \in {"no", "whole", "cut"}
        /\ l2c.link \in BOOLEAN /\ l2c.chan \in BOOLEAN /\ l2c.credit \in 0..Window /\ l2c.pend \in Seq(Units) /\ l2c.stalled \in BOOLEAN
        /\ air \in Seq(Units) /\ ev \in Seq(Events)
        /\ app.session \in 0..MaxTransfers /\ \A t \in Transfers : app.got[t] \in Seq(Numbers)
<1>1. rec \in Streams /\ wk \in Tasks /\ api \in Calls /\ board \in Boards /\ l2c \in Links /\ app \in Apps
  BY DEF TypeOK
<1>2. rec.tid \in Nat
  BY <1>1, UplinkAssumption DEF Streams
<1> QED BY <1>1, <1>2 DEF TypeOK, Streams, Tasks, Calls, Boards, Links, Apps

\* What is queued and what the App got are sequences.
LEMMA Lengths ==
  ASSUME TypeOK
  PROVE /\ rec.q \in Seq(Seq(Units)) /\ Len(rec.q) \in Nat /\ DOMAIN rec.q = 1..Len(rec.q)
        /\ rec.q # <<>> => Len(rec.q) # 0
        /\ \A t \in Transfers : Len(app.got[t]) \in Nat
<1>1. rec.q \in Seq(Seq(Units)) /\ \A t \in Transfers : app.got[t] \in Seq(Numbers)
  BY Parts
<1>2. rec.q # <<>> => Len(rec.q) # 0
  BY <1>1, EmptySeq
<1> QED BY <1>1, <1>2

\* Updating fields keeps the types.
LEMMA StreamWith ==
  ASSUME NEW r \in Streams
  PROVE /\ \A b \in BOOLEAN : /\ [r EXCEPT !.active = b] \in Streams /\ [r EXCEPT !.truncated = b] \in Streams
                              /\ [r EXCEPT !.end_req = b] \in Streams /\ [r EXCEPT !.complete = b] \in Streams
        /\ \A n \in Nat : [r EXCEPT !.sent = n] \in Streams
        /\ \A t \in 0..MaxTransfers : [r EXCEPT !.tid = t] \in Streams
        /\ \A q \in Seq(Seq(Units)) : [r EXCEPT !.q = q] \in Streams
        /\ \A n \in 0..QueueCap : [r EXCEPT !.queued = n] \in Streams
BY DEF Streams

LEMMA TaskWith ==
  ASSUME NEW w \in Tasks
  PROVE /\ \A pc \in WorkerPcs : [w EXCEPT !.pc = pc] \in Tasks
        /\ \A b \in BOOLEAN : [w EXCEPT !.end = b] \in Tasks /\ [w EXCEPT !.ok = b] \in Tasks
        /\ \A c \in Seq(Units) : [w EXCEPT !.chunk = c] \in Tasks
        /\ \A n \in 0..(Attempts - 1) : [w EXCEPT !.tries = n] \in Tasks
BY DEF Tasks

\* The queue holds as many SDUs as its chunks do.
LEMMA Queue ==
  ASSUME TypeOK, QueueInv, rec.q # <<>>
  PROVE /\ 1 \in DOMAIN rec.q /\ Len(rec.q) \in DOMAIN rec.q /\ DOMAIN rec.q = 1..Len(rec.q)
        /\ \A j \in DOMAIN rec.q : /\ rec.q[j] \in Seq(Units) /\ Len(rec.q[j]) \in Nat \ {0} /\ From(j) \in Nat
                                   /\ Past(j) \in Nat /\ Past(j) = From(j) + Len(rec.q[j]) /\ From(j) < Past(j)
        /\ Head(rec.q) = rec.q[1]
        /\ rec.queued = Past(Len(rec.q)) - From(1)
        /\ rec.queued - Len(rec.q[1]) = IF Tail(rec.q) = <<>> THEN 0 ELSE Past(Len(rec.q)) - From(2)
        /\ rec.queued - Len(rec.q[1]) \in 0..QueueCap
<1>1. rec.q \in Seq(Seq(Units)) /\ rec.queued \in 0..QueueCap /\ QueueCap \in Nat
  BY Parts, UplinkAssumption
<1>2. 1 \in DOMAIN rec.q /\ Len(rec.q) \in DOMAIN rec.q /\ DOMAIN rec.q = 1..Len(rec.q)
  BY <1>1, EmptySeq
<1>3. ASSUME NEW j \in DOMAIN rec.q
      PROVE /\ rec.q[j] \in Seq(Units) /\ Len(rec.q[j]) \in Nat \ {0} /\ From(j) \in Nat
            /\ Past(j) \in Nat /\ Past(j) = From(j) + Len(rec.q[j]) /\ From(j) < Past(j)
  <2>1. rec.q[j] \in Seq(Units) /\ rec.q[j] # <<>>
    BY <1>1, <1>2, <1>3 DEF QueueInv
  <2>2. Len(rec.q[j]) \in Nat \ {0}
    BY <2>1, EmptySeq
  <2>3. rec.q[j][1] \in Units
    BY <2>1, <2>2
  <2>4. From(j) \in Nat
    BY <2>3 DEF From, Units, Numbers
  <2> QED BY <2>1, <2>2, <2>4 DEF Past
<1>4. Head(rec.q) = rec.q[1] /\ Len(Tail(rec.q)) = Len(rec.q) - 1 /\ Tail(rec.q) \in Seq(Seq(Units))
  BY <1>1, Tl
<1>5. rec.queued = Past(Len(rec.q)) - From(1)
  BY DEF QueueInv
<1>6. CASE Tail(rec.q) = <<>>
  <2>0. Len(Tail(rec.q)) = 0 /\ Len(rec.q) \in Nat
    BY <1>1, <1>6, EmptySeq
  <2>1. Len(rec.q) = 1
    BY <1>4, <2>0
  <2>2. rec.queued = Len(rec.q[1])
    BY <1>2, <1>3, <1>5, <2>1
  <2>3. rec.queued - Len(rec.q[1]) = 0
    BY <1>1, <2>2
  <2> QED BY <1>1, <1>2, <1>3, <1>4, <1>5, <1>6, <2>3
<1>7. CASE Tail(rec.q) # <<>>
  <2>1. Len(rec.q) >= 2 /\ Len(rec.q) \in Nat /\ 2 \in DOMAIN rec.q /\ 1 + 1 \in DOMAIN rec.q
    BY <1>1, <1>2, <1>4, <1>7, EmptySeq
  <2>2. From(2) = Past(1)
    BY <1>2, <2>1 DEF QueueInv
  <2>3. From(2) <= Past(Len(rec.q))
    <3>1. CASE Len(rec.q) = 2
      BY <1>3, <2>1, <3>1
    <3>2. CASE Len(rec.q) # 2
      <4>. DEFINE n == Len(rec.q)
      <4>n. n \in Nat /\ n >= 2 /\ n # 2
        BY <2>1, <3>2
      <4>. HIDE DEF n
      <4>m. 2 < n
        BY <4>n
      <4>0. 2 < Len(rec.q)
        BY <4>m DEF n
      <4>1. Past(2) <= From(Len(rec.q))
        BY <1>2, <2>1, <4>0 DEF QueueInv
      <4> QED BY <1>2, <1>3, <2>1, <4>1
    <3> QED BY <3>1, <3>2
  <2>4. rec.queued - Len(rec.q[1]) = Past(Len(rec.q)) - From(2)
    BY <1>2, <1>3, <1>5, <2>1, <2>2
  <2>5. rec.queued - Len(rec.q[1]) \in 0..QueueCap
    <3>1. From(2) \in Nat /\ Past(Len(rec.q)) \in Nat /\ Len(rec.q[1]) \in Nat /\ rec.queued \in Nat
      <4>1. rec.queued \in Nat
        BY <1>1
      <4>2. From(2) \in Nat /\ Past(Len(rec.q)) \in Nat /\ Len(rec.q[1]) \in Nat
        BY <1>2, <1>3, <2>1
      <4> QED BY <4>1, <4>2
    <3>2. rec.queued - Len(rec.q[1]) >= 0
      BY <2>3, <2>4, <3>1
    <3> QED BY <1>1, <3>1, <3>2
  <2> QED BY <1>2, <1>3, <1>4, <1>5, <1>7, <2>4, <2>5
<1> QED BY <1>6, <1>7

\* The typed variables, and the faults after a fault.
LEMMA Types ==
  ASSUME TypeOK
  PROVE /\ rec \in Streams /\ wk \in Tasks /\ api \in Calls /\ slot \in BOOLEAN /\ board \in Boards
        /\ l2c \in Links /\ air \in Seq(Units) /\ ev \in Seq(Events) /\ app \in Apps /\ faults \in Nat
        /\ Worker0 \in Tasks
        /\ \A k : Fault(k) => faults' \in Nat
<1>1. Worker0 \in Tasks
  BY UplinkAssumption DEF Worker0, Tasks, WorkerPcs
<1> QED BY <1>1 DEF TypeOK, Fault

LEMMA ApiType ==
  ASSUME TypeOK, ControlInv, ApiStep \/ BoardStep
  PROVE  TypeOK'
<1>a. /\ rec \in Streams /\ wk \in Tasks /\ api \in Calls /\ slot \in BOOLEAN /\ board \in Boards
      /\ l2c \in Links /\ air \in Seq(Units) /\ ev \in Seq(Events) /\ app \in Apps /\ faults \in Nat
      /\ Worker0 \in Tasks
      /\ \A k : Fault(k) => faults' \in Nat
  BY Types
<1>b. 0 \in 0..(Attempts - 1) /\ Attempts \in Nat \ {0} /\ QueueCap \in Nat /\ MaxTransfers \in Nat
  BY UplinkAssumption
<1>c. /\ rec.tid \in 0..MaxTransfers /\ rec.sent \in Nat /\ rec.q \in Seq(Seq(Units)) /\ rec.queued \in 0..QueueCap
      /\ api.tries \in 0..(Attempts - 1) /\ \A t \in Transfers : board[t].tried \in Nat
  BY Parts
<1>1. CASE BoardOpen \/ OpenSlot
  <2>1. api' \in Calls /\ slot' \in BOOLEAN
    BY <1>1, <1>a DEF BoardOpen, OpenSlot, Calls
  <2> QED BY <1>1, <1>a, <2>1 DEF BoardOpen, OpenSlot, TypeOK
<1>2. CASE StartReset
  <2>1. rec.tid + 1 \in 0..MaxTransfers /\ <<>> \in Seq(Seq(Units)) /\ 0 \in 0..QueueCap
    BY <1>2, <1>b, <1>c DEF StartReset, ControlInv
  <2>2. rec' \in Streams
    BY <1>2, <1>a, <2>1 DEF StartReset, Streams
  <2>3. api' \in Calls
    BY <1>2, <1>b DEF StartReset, Calls
  <2> QED BY <1>2, <1>a, <2>2, <2>3 DEF StartReset, TypeOK
<1>3. CASE Announce
  <2>1. rec.tid \in Transfers
    BY <1>3 DEF Announce, ControlInv
  <2>2. [start |-> TRUE, tid |-> rec.tid, ok |-> FALSE, valid |-> 0] \in Events
    BY <2>1 DEF Events
  <2>3. ev' \in Seq(Events)
    BY <1>3, <1>a, <2>2, Ap DEF Announce
  <2>4. api' \in Calls
    BY <1>3, <1>a DEF Announce, Calls
  <2> QED BY <1>3, <1>a, <2>3, <2>4 DEF Announce, TypeOK
<1>4. CASE AnnounceFails
  <2>1. l2c.link /\ api.tries + 1 < Attempts => api.tries + 1 \in 0..(Attempts - 1)
    BY <1>b, <1>c
  <2>2. api' \in Calls
    BY <1>4, <1>a, <1>b, <2>1 DEF AnnounceFails, Calls
  <2>3. faults' \in Nat
    BY <1>4, <1>a DEF AnnounceFails
  <2> QED BY <1>4, <1>a, <2>2, <2>3 DEF AnnounceFails, TypeOK
<1>5. CASE Activate
  <2>1. wk' \in Tasks
    <3>1. "delay" \in WorkerPcs
      BY DEF WorkerPcs
    <3> QED BY <1>5, <1>a, <3>1, TaskWith DEF Activate
  <2>2. rec' \in Streams
    BY <1>5, <1>a, StreamWith DEF Activate
  <2>3. api' \in Calls
    BY <1>5, <1>b DEF Activate, Calls
  <2>4. faults' \in Nat
    BY <1>5, <1>a DEF Activate
  <2> QED BY <1>5, <1>a, <2>1, <2>2, <2>3, <2>4 DEF Activate, TypeOK
<1>6. ASSUME NEW n \in 1..MaxWrite, Write(n) PROVE TypeOK'
  <2> DEFINE t == rec.tid
             c == [i \in 1..n |-> <<t, board[t].tried + i>>]
  <2>1. t \in Transfers
    BY <1>6 DEF Write, ControlInv
  <2>2. n \in Nat /\ board[t].tried \in Nat
    BY <1>6, <1>c, <2>1, UplinkAssumption
  <2>3. c \in Seq(Units)
    BY <2>1, <2>2 DEF Units, Numbers
  <2>4. board' \in Boards
    <3>1. board[t].tried + n \in Nat
      BY <2>2
    <3>2. board' = [board EXCEPT ![t].tried = board[t].tried + n]
      BY <1>6 DEF Write
    <3> QED BY <1>a, <2>1, <3>1, <3>2 DEF Boards
  <2>5. rec' \in Streams
    <3>1. Overflow \in Streams
      <4>1. [rec EXCEPT !.truncated = TRUE] \in Streams
        BY <1>a, StreamWith
      <4>2. [[rec EXCEPT !.truncated = TRUE] EXCEPT !.end_req = TRUE] \in Streams
        BY <4>1, StreamWith
      <4> QED BY <1>a, <4>2 DEF Overflow, Streams
    <3>2. ASSUME ~(rec.queued + n > QueueCap) PROVE [rec EXCEPT !.q = Append(rec.q, c), !.queued = rec.queued + n] \in Streams
      <4>1. rec.queued + n \in 0..QueueCap
        BY <1>b, <1>c, <2>2, <3>2
      <4>2. Append(rec.q, c) \in Seq(Seq(Units))
        BY <1>c, <2>3, Ap
      <4> HIDE DEF c
      <4>3. [rec EXCEPT !.q = Append(rec.q, c)] \in Streams
        BY <1>a, <4>2, StreamWith
      <4>4. [[rec EXCEPT !.q = Append(rec.q, c)] EXCEPT !.queued = rec.queued + n] \in Streams
        BY <4>1, <4>3, StreamWith
      <4> QED BY <1>a, <4>4 DEF Streams
    <3> QED BY <1>6, <1>a, <3>1, <3>2 DEF Write
  <2> QED BY <1>6, <1>a, <2>4, <2>5 DEF Write, TypeOK
<1>7. ASSUME NEW c \in BOOLEAN, Close(c) PROVE TypeOK'
  <2>1. rec.tid \in Transfers
    BY <1>7 DEF Close, ControlInv
  <2>2. board' \in Boards
    BY <1>7, <1>a, <2>1 DEF Close, Boards
  <2>3. rec' \in Streams
    BY <1>7, <1>a DEF Close, Streams
  <2> QED BY <1>7, <1>a, <2>2, <2>3 DEF Close, TypeOK
<1> QED BY <1>1, <1>2, <1>3, <1>4, <1>5, <1>6, <1>7 DEF ApiStep, BoardStep

LEMMA WorkerType ==
  ASSUME TypeOK, ControlInv, QueueInv, WorkerStep
  PROVE  TypeOK'
<1>a. /\ rec \in Streams /\ wk \in Tasks /\ api \in Calls /\ slot \in BOOLEAN /\ board \in Boards
      /\ l2c \in Links /\ air \in Seq(Units) /\ ev \in Seq(Events) /\ app \in Apps /\ faults \in Nat
      /\ Worker0 \in Tasks
      /\ \A k : Fault(k) => faults' \in Nat
  BY Types
<1>b. 0 \in 0..(Attempts - 1) /\ Attempts \in Nat \ {0} /\ Window \in Nat
  BY UplinkAssumption
<1>c. /\ rec.sent \in Nat /\ rec.sent + 1 \in Nat /\ rec.end_req \in BOOLEAN /\ rec.truncated \in BOOLEAN
      /\ rec.complete \in BOOLEAN /\ rec.q \in Seq(Seq(Units)) /\ wk.chunk \in Seq(Units) /\ wk.ok \in BOOLEAN
      /\ wk.tries \in 0..(Attempts - 1) /\ l2c.credit \in 0..Window
  BY Parts
<1>p. {"free", "delay", "top", "pop", "send", "mark", "verdict", "end", "done"} = WorkerPcs
  BY DEF WorkerPcs
<1>t. Truncate => rec' \in Streams /\ wk' \in Tasks
  <2>1. [rec EXCEPT !.truncated = TRUE] \in Streams
    BY <1>a, StreamWith
  <2>2. [wk EXCEPT !.pc = "verdict", !.chunk = <<>>] \in Tasks
    <3>1. [wk EXCEPT !.pc = "verdict"] \in Tasks
      BY <1>a, <1>p, TaskWith
    <3>2. <<>> \in Seq(Units)
      OBVIOUS
    <3>3. \A w \in Tasks : [w EXCEPT !.chunk = <<>>] \in Tasks
      BY <3>2, TaskWith
    <3>4. [[wk EXCEPT !.pc = "verdict"] EXCEPT !.chunk = <<>>] \in Tasks
      BY <3>1, <3>3
    <3> QED BY <1>a, <3>4 DEF Tasks
  <2> QED BY <2>1, <2>2 DEF Truncate
<1>g. \A pc \in WorkerPcs : Goto(pc) => wk' \in Tasks
  BY <1>a, TaskWith DEF Goto
<1>h. wk.chunk # <<>> => Head(wk.chunk) \in Units /\ Tail(wk.chunk) \in Seq(Units)
  BY <1>c, Tl
<1>1. CASE StartDelay \/ Drained \/ ChunkDone
  <2>1. wk' \in Tasks
    BY <1>1, <1>g, <1>p DEF StartDelay, Drained, ChunkDone
  <2> QED BY <1>1, <1>a, <2>1 DEF StartDelay, Drained, ChunkDone, TypeOK
<1>2. CASE LoopTop
  <2>1. wk' \in Tasks
    BY <1>2, <1>a, <1>c, <1>p DEF LoopTop, Tasks
  <2> QED BY <1>2, <1>a, <2>1 DEF LoopTop, TypeOK
<1>3. CASE LoopDown \/ SendLost \/ StallTimeout
  <2>1. rec' \in Streams /\ wk' \in Tasks
    BY <1>3, <1>t DEF LoopDown, SendLost, StallTimeout
  <2> QED BY <1>3, <1>a, <2>1 DEF LoopDown, SendLost, StallTimeout, TypeOK
<1>4. CASE Pop
  <2>1. rec.q # <<>>
    BY <1>4 DEF Pop
  <2>2. Head(rec.q) = rec.q[1] /\ rec.queued - Len(rec.q[1]) \in 0..QueueCap
    BY <2>1, Queue
  <2>3. Head(rec.q) \in Seq(Units) /\ Tail(rec.q) \in Seq(Seq(Units))
    BY <1>c, <2>1, Tl
  <2>4. wk' \in Tasks
    BY <1>4, <1>a, <1>p, <2>3 DEF Pop, Tasks
  <2>5. rec' \in Streams
    BY <1>4, <1>a, <2>2, <2>3 DEF Pop, Streams
  <2> QED BY <1>4, <1>a, <2>4, <2>5 DEF Pop, TypeOK
<1>5. CASE Send
  <2>1. l2c.credit - 1 \in 0..Window /\ wk.chunk # <<>>
    <3>1. l2c.credit > 0 /\ wk.chunk # <<>>
      BY <1>5 DEF Send, Sending
    <3> QED BY <1>b, <1>c, <3>1
  <2>2. l2c' \in Links
    BY <1>5, <1>a, <2>1 DEF Send, Links
  <2>3. rec' \in Streams
    BY <1>5, <1>a, <1>c, StreamWith DEF Send
  <2>4. wk' \in Tasks
    BY <1>5, <1>a, <1>h, <2>1, TaskWith DEF Send
  <2>5. air' \in Seq(Units)
    BY <1>5, <1>a, <1>h, <2>1, Ap DEF Send
  <2> QED BY <1>5, <1>a, <2>2, <2>3, <2>4, <2>5 DEF Send, TypeOK
<1>6. CASE SendStalls
  <2>1. <<Head(wk.chunk)>> \in Seq(Units)
    BY <1>6, <1>h DEF SendStalls, Sending
  <2>2. l2c' \in Links
    BY <1>6, <1>a, <2>1 DEF SendStalls, Links
  <2>3. wk' \in Tasks
    BY <1>6, <1>g, <1>p DEF SendStalls
  <2> QED BY <1>6, <1>a, <2>2, <2>3 DEF SendStalls, TypeOK
<1>7. CASE MarkStalled
  <2>1. wk.chunk # <<>>
    BY <1>7 DEF MarkStalled, At, ControlInv
  <2>2. l2c' \in Links
    BY <1>7, <1>a DEF MarkStalled, Links
  <2>3. rec' \in Streams
    BY <1>7, <1>a, <1>c, StreamWith DEF MarkStalled
  <2>4. wk' \in Tasks
    BY <1>7, <1>a, <1>h, <1>p, <2>1 DEF MarkStalled, Tasks
  <2> QED BY <1>7, <1>a, <2>2, <2>3, <2>4 DEF MarkStalled, TypeOK
<1>8. CASE SendNoBuffer
  BY <1>8, <1>a DEF SendNoBuffer, TypeOK
<1>9. CASE Verdict
  <2>1. (~rec.truncated /\ rec.complete) \in BOOLEAN
    OBVIOUS
  <2>2. wk' \in Tasks
    BY <1>9, <1>a, <1>b, <1>p, <2>1 DEF Verdict, Tasks
  <2> QED BY <1>9, <1>a, <2>2 DEF Verdict, TypeOK
<1>10. CASE EndEvent
  <2>1. rec.tid \in Transfers
    BY <1>10 DEF EndEvent, At, ControlInv
  <2>2. [start |-> FALSE, tid |-> rec.tid, ok |-> wk.ok, valid |-> rec.sent] \in Events
    BY <1>c, <2>1 DEF Events
  <2>3. ev' \in Seq(Events)
    BY <1>10, <1>a, <2>2, Ap DEF EndEvent
  <2>4. wk' \in Tasks
    BY <1>10, <1>g, <1>p DEF EndEvent
  <2> QED BY <1>10, <1>a, <2>3, <2>4 DEF EndEvent, TypeOK
<1>11. CASE EndEventFails
  <2>1. l2c.link /\ wk.tries + 1 < Attempts => wk.tries + 1 \in 0..(Attempts - 1)
    BY <1>b, <1>c
  <2>2. wk' \in Tasks
    BY <1>11, <1>a, <1>p, <2>1, TaskWith DEF EndEventFails
  <2>3. faults' \in Nat
    BY <1>11, <1>a DEF EndEventFails
  <2> QED BY <1>11, <1>a, <2>2, <2>3 DEF EndEventFails, TypeOK
<1>12. CASE WorkerDone
  <2>1. rec' \in Streams
    BY <1>12, <1>a, StreamWith DEF WorkerDone
  <2> QED BY <1>12, <1>a, <2>1 DEF WorkerDone, TypeOK
<1> QED BY <1>1, <1>2, <1>3, <1>4, <1>5, <1>6, <1>7, <1>8, <1>9, <1>10, <1>11, <1>12 DEF WorkerStep

LEMMA OthersType ==
  ASSUME TypeOK, HostStep \/ Hear \/ Receive
  PROVE  TypeOK'
<1>a. /\ rec \in Streams /\ wk \in Tasks /\ api \in Calls /\ slot \in BOOLEAN /\ board \in Boards
      /\ l2c \in Links /\ air \in Seq(Units) /\ ev \in Seq(Events) /\ app \in Apps /\ faults \in Nat
      /\ \A k : Fault(k) => faults' \in Nat
  BY Types
<1>b. Window \in Nat /\ <<>> \in Seq(Units) /\ <<>> \in Seq(Events) /\ 0 \in 0..Window /\ Window \in 0..Window
      /\ 0 \in 0..MaxTransfers
  BY UplinkAssumption
<1>c. l2c.credit \in 0..Window /\ l2c.pend \in Seq(Units) /\ Len(air) \in Nat
  BY Parts
<1>d. Broken \in Streams
  <2>1. [rec EXCEPT !.truncated = TRUE] \in Streams
    BY <1>a, StreamWith
  <2>2. [[rec EXCEPT !.truncated = TRUE] EXCEPT !.end_req = TRUE] \in Streams
    BY <2>1, StreamWith
  <2> QED BY <1>a, <2>2 DEF Broken, Streams
<1>1. CASE ChannelUp \/ LinkUp
  <2>1. l2c' \in Links /\ slot' \in BOOLEAN
    BY <1>1, <1>a, <1>b DEF ChannelUp, LinkUp, Links
  <2> QED BY <1>1, <1>a, <2>1 DEF ChannelUp, LinkUp, TypeOK
<1>2. CASE ChannelDown
  <2>1. l2c' \in Links /\ faults' \in Nat
    BY <1>2, <1>a, <1>b DEF ChannelDown, Links
  <2> QED BY <1>2, <1>a, <1>b, <1>d, <2>1 DEF ChannelDown, TypeOK
<1>3. CASE LinkDown
  <2>1. l2c' \in Links
    BY <1>3, <1>a DEF LinkDown, Links
  <2>2. app' \in Apps
    BY <1>3, <1>a, <1>b DEF LinkDown, Apps
  <2>3. faults' \in Nat
    BY <1>3, <1>a DEF LinkDown
  <2> QED BY <1>3, <1>a, <1>b, <1>d, <2>1, <2>2, <2>3 DEF LinkDown, TypeOK
<1>4. CASE Grant
  <2>1. l2c.credit + 1 \in 0..Window
    BY <1>4, <1>b, <1>c DEF Grant
  <2>2. l2c' \in Links
    BY <1>4, <1>a, <1>b, <2>1 DEF Grant, Links
  <2>3. air' \in Seq(Units)
    <3>1. air \o l2c.pend \in Seq(Units)
      BY <1>a, <1>c, ConcatProperties
    <3> QED BY <1>4, <1>a, <3>1 DEF Grant
  <2> QED BY <1>4, <1>a, <2>2, <2>3 DEF Grant, TypeOK
<1>5. CASE Hear
  <2>1. Head(ev) \in Events /\ Tail(ev) \in Seq(Events)
    BY <1>5, <1>a, Tl DEF Hear
  <2>2. Head(ev).tid \in Transfers /\ Head(ev).ok \in BOOLEAN /\ Head(ev).valid \in Nat /\ Head(ev).tid \in 0..MaxTransfers
    BY <2>1, UplinkAssumption DEF Events, Transfers
  <2>3. app' \in Apps
    BY <1>5, <1>a, <1>b, <2>2 DEF Hear, Apps
  <2> QED BY <1>5, <1>a, <2>1, <2>3 DEF Hear, TypeOK
<1>6. CASE Receive
  <2>1. Head(air) \in Units /\ Tail(air) \in Seq(Units)
    BY <1>6, <1>a, Tl DEF Receive
  <2>2. Head(air)[1] \in Transfers /\ Head(air)[2] \in Numbers
    BY <2>1 DEF Units
  <2>3. Append(app.got[Head(air)[1]], Head(air)[2]) \in Seq(Numbers)
    BY <1>a, <2>2, Ap DEF Apps
  <2>4. app' \in Apps
    BY <1>6, <1>a, <2>2, <2>3 DEF Receive, Apps
  <2> QED BY <1>6, <1>a, <2>1, <2>4 DEF Receive, TypeOK
<1> QED BY <1>1, <1>2, <1>3, <1>4, <1>5, <1>6 DEF HostStep

-----------------------------------------------------------------------------
(* The invariant, action by action *)

\* Its elements are units.
LEMMA LineTyped ==
  ASSUME TypeOK
  PROVE  /\ Line \in Seq(Units) /\ Len(Line) = Len(air) + Len(l2c.pend) /\ DOMAIN Line = 1..Len(Line)
         /\ Len(Line) \in Nat
         /\ \A i \in DOMAIN Line : Line[i] \in Units /\ Line[i][1] \in Transfers /\ Line[i][1] \in Nat /\ Line[i][2] \in Numbers
<1>1. air \in Seq(Units) /\ l2c.pend \in Seq(Units)
  BY Parts
<1>2. Line \in Seq(Units) /\ Len(Line) = Len(air) + Len(l2c.pend)
  BY <1>1, ConcatProperties DEF Line
<1>3. \A i \in DOMAIN Line : Line[i] \in Units
  BY <1>2
<1>4. \A u \in Units : u[1] \in Transfers /\ u[1] \in Nat /\ u[2] \in Numbers
  BY UplinkAssumption DEF Units, Transfers
<1> QED BY <1>2, <1>3, <1>4

\* What is under way, and what the App got, have not changed.
LEMMA SameLine ==
  ASSUME Line' = Line, app'.got = app.got
  PROVE  \A t : (Untouched(t)' <=> Untouched(t)) /\ Edge(t)' = Edge(t)
BY DEF Untouched, Edge

LEMMA SameLineInv ==
  ASSUME TypeOK, LineInv, NoGap, Line' = Line, app'.got = app.got,
         rec.tid <= rec'.tid, rec'.tid \in Nat
  PROVE  LineInv' /\ NoGap'
<1>1. \A i \in DOMAIN Line : Line[i][1] \in Nat /\ rec.tid \in Nat
  BY LineTyped, Parts
<1>2. \A i \in DOMAIN Line : Line[i][1] <= rec'.tid
  BY <1>1 DEF LineInv
<1> QED BY <1>2 DEF LineInv, NoGap

\* The SDU that goes on from what is under way leaves the board.
LEMMA LineAppend ==
  ASSUME TypeOK, LineInv, NoGap, rec.tid \in Transfers, rec'.tid = rec.tid, app'.got = app.got,
         Line' = Append(Line, <<rec.tid, Edge(rec.tid)>>)
  PROVE  /\ LineInv' /\ NoGap'
         /\ Edge(rec.tid)' = Edge(rec.tid) + 1
         /\ \A t : t # rec.tid => (Untouched(t)' <=> Untouched(t))
<1> DEFINE u == <<rec.tid, Edge(rec.tid)>>
           n == Len(Line)
<1>1. Line \in Seq(Units) /\ n \in Nat /\ DOMAIN Line = 1..n
  BY LineTyped
<1>2. \A i \in 1..n : Line[i][1] \in Nat /\ Line[i][2] \in Nat
  BY <1>1, LineTyped DEF Numbers
<1>3. rec.tid \in Nat
  BY Parts
<1>4. Edge(rec.tid) \in Numbers
  <2>1. CASE Line # <<>> /\ Line[Len(Line)][1] = rec.tid
    <3>1. n \in 1..n
      BY <1>1, <2>1, EmptySeq
    <3>2. Line[n][2] \in Nat
      BY <1>2, <3>1
    <3> QED BY <2>1, <3>2 DEF Edge, Numbers
  <2>2. CASE ~(Line # <<>> /\ Line[Len(Line)][1] = rec.tid)
    <3>1. Len(app.got[rec.tid]) \in Nat
      BY Lengths
    <3>2. Edge(rec.tid) = Len(app.got[rec.tid]) + 1
      BY <2>2 DEF Edge
    <3> QED BY <3>1, <3>2 DEF Numbers
  <2> QED BY <2>1, <2>2
<1>5. u \in Units /\ u[1] = rec.tid /\ u[2] = Edge(rec.tid)
  BY <1>4 DEF Units
<1>6. Line' \in Seq(Units) /\ Len(Line') = n + 1 /\ Line'[n + 1] = u /\ DOMAIN Line' = 1..(n + 1)
      /\ \A i \in 1..n : Line'[i] = Line[i]
  BY <1>1, <1>5, Ap
<1>7. Edge(rec.tid)' = Edge(rec.tid) + 1
  <2>1. Line' # <<>> /\ Line'[Len(Line')][1] = rec.tid /\ Line'[Len(Line')][2] = Edge(rec.tid)
    BY <1>1, <1>5, <1>6, EmptySeq
  <2> QED BY <2>1 DEF Edge
<1> HIDE DEF u, n
<1>8. LineInv'
  <2>1. ASSUME NEW i \in DOMAIN Line' PROVE Line'[i][1] <= rec'.tid
    <3>1. CASE i \in 1..n
      BY <1>1, <1>6, <3>1 DEF LineInv
    <3>2. CASE i = n + 1
      BY <1>3, <1>5, <1>6, <3>2
    <3> QED BY <1>1, <1>6, <3>1, <3>2
  <2>2. ASSUME NEW i \in DOMAIN Line', NEW j \in DOMAIN Line', i < j PROVE Line'[i][1] <= Line'[j][1]
    <3>1. i \in 1..n
      BY <1>1, <1>6, <2>2
    <3>2. CASE j \in 1..n
      BY <1>1, <1>6, <2>2, <3>1, <3>2 DEF LineInv
    <3>3. CASE j = n + 1
      BY <1>1, <1>5, <1>6, <3>1, <3>3 DEF LineInv
    <3> QED BY <1>1, <1>6, <3>2, <3>3
  <2>3. ASSUME NEW i \in DOMAIN Line'
        PROVE Line'[i][2] = IF i > 1 /\ Line'[i - 1][1] = Line'[i][1] THEN Line'[i - 1][2] + 1
                                                                     ELSE Len(app'.got[Line'[i][1]]) + 1
    <3>0. i > 1 => i - 1 \in 1..n /\ Line'[i - 1] = Line[i - 1]
      BY <1>1, <1>6
    <3>1. CASE i \in 1..n
      BY <1>1, <1>6, <3>0, <3>1 DEF LineInv
    <3>2. CASE i = n + 1
      <4>1. Line'[i] = u
        BY <1>6, <3>2
      <4>2. CASE n = 0
        <5>1. Line = <<>>
          BY <1>1, <4>2, EmptySeq DEF n
        <5>2. Edge(rec.tid) = Len(app.got[rec.tid]) + 1
          BY <5>1 DEF Edge
        <5>3. i = 1
          BY <3>2, <4>2
        <5>4. Line'[i] = <<rec.tid, Edge(rec.tid)>> /\ ~(i > 1)
          BY <4>1, <5>3 DEF u
        <5> QED BY <5>2, <5>4
      <4>3. CASE n # 0
        <5>1. Line # <<>> /\ i - 1 = n /\ i > 1
          BY <1>1, <3>2, <4>3, EmptySeq DEF n
        <5>2. Edge(rec.tid) = IF Line[n][1] = rec.tid THEN Line[n][2] + 1 ELSE Len(app.got[rec.tid]) + 1
          BY <5>1 DEF Edge, n
        <5> QED BY <1>5, <3>0, <4>1, <5>1, <5>2
      <4> QED BY <4>2, <4>3
    <3> QED BY <1>1, <1>6, <3>1, <3>2
  <2> QED BY <2>1, <2>2, <2>3 DEF LineInv
<1>9. ASSUME NEW t, t # rec.tid PROVE Untouched(t)' <=> Untouched(t)
  <2>1. (\A i \in DOMAIN Line' : Line'[i][1] # t) <=> (\A i \in DOMAIN Line : Line[i][1] # t)
    BY <1>1, <1>5, <1>6, <1>9
  <2> QED BY <2>1 DEF Untouched
<1> QED BY <1>7, <1>8, <1>9 DEF NoGap

\* The App gets the first SDU under way.
LEMMA LineTail ==
  ASSUME TypeOK, LineInv, NoGap, Receive
  PROVE  /\ LineInv' /\ NoGap'
         /\ Edge(rec.tid)' = Edge(rec.tid)
         /\ \A t \in Transfers : Untouched(t) => Untouched(t)'
<1> DEFINE n == Len(Line)
           u == Line[1]
           g == u[1]
<1>1. Line \in Seq(Units) /\ n \in Nat /\ DOMAIN Line = 1..n
  BY LineTyped
<1>2. \A i \in 1..n : Line[i][1] \in Nat /\ Line[i][2] \in Nat /\ Line[i][1] \in Transfers
  BY <1>1, LineTyped DEF Numbers
<1>3. rec'.tid = rec.tid /\ rec.tid \in Nat
  BY Parts DEF Receive
<1>4. air # <<>> /\ air \in Seq(Units) /\ l2c.pend \in Seq(Units) /\ air' = Tail(air) /\ l2c' = l2c
  BY Parts DEF Receive
<1>5. Head(air) = u /\ n > 0
  <2>1. Len(air) > 0 /\ Len(air) \in Nat /\ Len(l2c.pend) \in Nat
    BY <1>4, EmptySeq
  <2>2. n = Len(air) + Len(l2c.pend)
    BY LineTyped
  <2>3. u = air[1]
    BY <1>4, <2>1, ConcatProperties DEF Line
  <2> QED BY <1>4, <2>1, <2>2, <2>3
<1>6. Line' = Tail(Line)
  <2>1. Line' = Tail(air) \o l2c.pend
    BY <1>4 DEF Line
  <2>2. Tail(air \o l2c.pend) = Tail(air) \o l2c.pend
    BY <1>4, ConcatProperties, HeadTailProperties
  <2> QED BY <2>1, <2>2 DEF Line
<1>7. Len(Line') = n - 1 /\ DOMAIN Line' = 1..(n - 1) /\ \A i \in 1..(n - 1) : Line'[i] = Line[i + 1] /\ i + 1 \in 1..n
  BY <1>1, <1>5, <1>6, Tl, EmptySeq
<1>8. app'.got = [app.got EXCEPT ![g] = Append(@, u[2])] /\ g \in Transfers /\ u[2] \in Numbers
  <2>1. 1 \in 1..n
    BY <1>1, <1>5
  <2>2. g \in Transfers /\ u[2] \in Numbers
    BY <1>1, <2>1, LineTyped
  <2> QED BY <1>5, <2>2 DEF Receive, TypeOK, Apps
<1>9. /\ app.got[g] \in Seq(Numbers) /\ Len(app.got[g]) \in Nat /\ DOMAIN app.got = Transfers
      /\ app'.got[g] = Append(app.got[g], u[2]) /\ Len(app'.got[g]) = Len(app.got[g]) + 1
      /\ \A t \in Transfers : t # g => app'.got[t] = app.got[t]
  BY <1>8, Ap DEF TypeOK, Apps
<1>10. u[2] = Len(app.got[g]) + 1
  BY <1>1, <1>5 DEF LineInv
<1> HIDE DEF n, u, g
<1>g. g = u[1] /\ u = Line[1] /\ g \in Nat /\ u[2] \in Nat
  BY <1>1, <1>2, <1>5 DEF g, u
<1>11. LineInv'
  <2>1. ASSUME NEW i \in DOMAIN Line' PROVE Line'[i][1] <= rec'.tid
    BY <1>1, <1>3, <1>7, <2>1 DEF LineInv
  <2>2. ASSUME NEW i \in DOMAIN Line', NEW j \in DOMAIN Line', i < j PROVE Line'[i][1] <= Line'[j][1]
    <3>1. i \in 1..(n - 1) /\ j \in 1..(n - 1) /\ i + 1 \in 1..n /\ j + 1 \in 1..n /\ i + 1 < j + 1
      BY <1>1, <1>7, <2>2
    <3>2. Line'[i] = Line[i + 1] /\ Line'[j] = Line[j + 1]
      BY <1>7, <3>1
    <3>3. Line[i + 1][1] <= Line[j + 1][1]
      BY <1>1, <3>1 DEF LineInv
    <3> QED BY <3>2, <3>3
  <2>3. ASSUME NEW i \in DOMAIN Line'
        PROVE Line'[i][2] = IF i > 1 /\ Line'[i - 1][1] = Line'[i][1] THEN Line'[i - 1][2] + 1
                                                                     ELSE Len(app'.got[Line'[i][1]]) + 1
    <3>0. i \in 1..(n - 1) /\ i + 1 \in 1..n /\ i + 1 > 1 /\ (i + 1) - 1 = i /\ i \in 1..n /\ 1 \in 1..n
      BY <1>1, <1>5, <1>7, <2>3
    <3>1. Line[i + 1][2] = IF Line[i][1] = Line[i + 1][1] THEN Line[i][2] + 1 ELSE Len(app.got[Line[i + 1][1]]) + 1
      BY <1>1, <3>0 DEF LineInv
    <3>2. Line'[i] = Line[i + 1]
      BY <1>7, <3>0
    <3>3. Line[1][1] <= Line[i][1] /\ Line[i][1] <= Line[i + 1][1]
      <4>1. Line[i][1] <= Line[i + 1][1]
        BY <1>1, <3>0 DEF LineInv
      <4>2. CASE i = 1
        BY <1>2, <3>0, <4>1, <4>2
      <4>3. CASE i # 1
        <5>1. 1 < i
          BY <1>1, <3>0, <4>3
        <5> QED BY <1>1, <3>0, <4>1, <5>1 DEF LineInv
      <4> QED BY <4>2, <4>3
    <3>4. Line[i + 1][1] \in Transfers /\ Line[i + 1][1] \in Nat /\ Line[i][1] \in Nat /\ Line[1][1] \in Nat
      BY <1>2, <3>0
    <3>5. CASE i = 1
      <4>1. CASE Line[2][1] = g
        <5>1. Line[2][2] = u[2] + 1
          BY <1>g, <3>1, <3>5, <4>1
        <5>2. Line'[i] = Line[2] /\ ~(i > 1)
          BY <3>2, <3>5
        <5>3. Len(app'.got[g]) = u[2]
          BY <1>9, <1>10
        <5> QED BY <4>1, <5>1, <5>2, <5>3
      <4>2. CASE Line[2][1] # g
        <5>1. Line[2][2] = Len(app.got[Line[2][1]]) + 1
          BY <1>g, <3>1, <3>5, <4>2
        <5>2. Line'[i] = Line[2] /\ ~(i > 1) /\ Line[2][1] \in Transfers
          BY <3>2, <3>4, <3>5
        <5>3. Len(app'.got[Line[2][1]]) = Len(app.got[Line[2][1]])
          BY <1>9, <4>2, <5>2
        <5> QED BY <5>1, <5>2, <5>3
      <4> QED BY <4>1, <4>2
    <3>6. CASE i # 1
      <4>1. i > 1 /\ i - 1 \in 1..(n - 1) /\ (i - 1) + 1 = i
        BY <1>1, <3>0, <3>6
      <4>2. Line'[i - 1] = Line[i]
        BY <1>7, <4>1
      <4>3. CASE Line[i][1] = Line[i + 1][1]
        BY <3>1, <3>2, <4>1, <4>2, <4>3
      <4>4. CASE Line[i][1] # Line[i + 1][1]
        <5>1. Line[i + 1][1] # g
          BY <1>g, <3>3, <3>4, <4>4
        <5>2. Len(app'.got[Line[i + 1][1]]) = Len(app.got[Line[i + 1][1]])
          BY <1>9, <3>4, <5>1
        <5> QED BY <3>1, <3>2, <4>1, <4>2, <4>4, <5>2
      <4> QED BY <4>3, <4>4
    <3> QED BY <3>5, <3>6
  <2> QED BY <2>1, <2>2, <2>3 DEF LineInv
<1>12. NoGap'
  <2> SUFFICES ASSUME NEW t \in Transfers PROVE app'.got[t] = [i \in 1..Len(app'.got[t]) |-> i]
    BY DEF NoGap
  <2>1. CASE t # g
    BY <1>9, <2>1 DEF NoGap
  <2>2. CASE t = g
    <3> DEFINE s == app.got[g]
               m == Len(s)
    <3>1. s \in Seq(Numbers) /\ m \in Nat /\ s = [i \in 1..m |-> i] /\ u[2] = m + 1
      BY <1>8, <1>9, <1>10 DEF NoGap
    <3>2. app'.got[g] = Append(s, m + 1) /\ Len(app'.got[g]) = m + 1
      BY <1>9, <3>1
    <3> HIDE DEF s, m
    <3>3. m + 1 \in Numbers /\ m = Len(s)
      BY <3>1 DEF Numbers, m
    <3>4. DOMAIN Append(s, m + 1) = 1..(m + 1) /\ Append(s, m + 1)[m + 1] = m + 1 /\ \A i \in 1..m : Append(s, m + 1)[i] = i
      <4>1. \A i \in 1..m : s[i] = i
        BY <3>1
      <4>2. Append(s, m + 1) \in Seq(Numbers) /\ Len(Append(s, m + 1)) = m + 1 /\ Append(s, m + 1)[m + 1] = m + 1
            /\ \A i \in 1..m : Append(s, m + 1)[i] = s[i]
        <5>1. s \in Seq(Numbers)
          BY <3>1
        <5>2. ASSUME NEW a \in Numbers
              PROVE Append(s, a) \in Seq(Numbers) /\ Len(Append(s, a)) = Len(s) + 1 /\ Append(s, a)[Len(s) + 1] = a
                    /\ \A i \in 1..Len(s) : Append(s, a)[i] = s[i]
          BY <5>1, Ap
        <5> QED BY <3>3, <5>2
      <4>3. DOMAIN Append(s, m + 1) = 1..(m + 1)
        BY <4>2
      <4> QED BY <4>1, <4>2, <4>3
    <3>5. Append(s, m + 1) = [i \in 1..(m + 1) |-> i]
      <4>1. \A i \in 1..(m + 1) : Append(s, m + 1)[i] = i
        BY <3>1, <3>4
      <4>2. Append(s, m + 1) \in Seq(Numbers)
        BY <3>1, <3>3, Ap
      <4>3. Append(s, m + 1) = [i \in DOMAIN Append(s, m + 1) |-> Append(s, m + 1)[i]]
        BY <4>2
      <4> QED BY <3>4, <4>1, <4>3
    <3> QED BY <2>2, <3>2, <3>5
  <2> QED BY <2>1, <2>2
<1>13. Edge(rec.tid)' = Edge(rec.tid)
  <2>0. 1 \in 1..n /\ n \in 1..n
    BY <1>1, <1>5
  <2>l. Line # <<>>
    BY <1>1, <1>5, EmptySeq DEF n
  <2>1. CASE n = 1
    <3>1. Line' = <<>>
      <4>1. Len(Line') = 0 /\ Line' \in Seq(Units)
        BY <1>1, <1>6, <1>7, <2>1, <2>l, Tl
      <4> QED BY <4>1, EmptySeq
    <3>2. Edge(rec.tid)' = Len(app'.got[rec.tid]) + 1
      BY <1>3, <3>1 DEF Edge
    <3>3. Edge(rec.tid) = IF g = rec.tid THEN u[2] + 1 ELSE Len(app.got[rec.tid]) + 1
      BY <1>g, <2>1, <2>l DEF Edge, n
    <3>4. CASE g = rec.tid
      BY <1>9, <1>10, <3>2, <3>3, <3>4
    <3>5. CASE g # rec.tid
      <4>1. app'.got[rec.tid] = app.got[rec.tid]
        BY <1>8, <3>5
      <4> QED BY <3>2, <3>3, <3>5, <4>1
    <3> QED BY <3>4, <3>5
  <2>2. CASE n # 1
    <3>1. n - 1 \in 1..(n - 1) /\ 1 < n /\ (n - 1) + 1 = n
      BY <1>1, <1>5, <2>2
    <3>2. Line' # <<>> /\ Line'[Len(Line')] = Line[n]
      BY <1>7, <3>1
    <3>3. Edge(rec.tid) = IF Line[n][1] = rec.tid THEN Line[n][2] + 1 ELSE Len(app.got[rec.tid]) + 1
      BY <2>l DEF Edge, n
    <3>4. Edge(rec.tid)' = IF Line[n][1] = rec.tid THEN Line[n][2] + 1 ELSE Len(app'.got[rec.tid]) + 1
      BY <1>3, <3>2 DEF Edge
    <3>5. CASE Line[n][1] = rec.tid
      BY <3>3, <3>4, <3>5
    <3>6. CASE Line[n][1] # rec.tid
      <4>1. Line[1][1] <= Line[n][1] /\ Line[n][1] <= rec.tid
        BY <1>1, <2>0, <3>1 DEF LineInv
      <4>2. g # rec.tid
        BY <1>2, <1>3, <1>g, <2>0, <3>6, <4>1
      <4>3. app'.got[rec.tid] = app.got[rec.tid]
        BY <1>8, <4>2
      <4> QED BY <3>3, <3>4, <4>3
    <3> QED BY <3>5, <3>6
  <2> QED BY <2>1, <2>2
<1>14. ASSUME NEW t \in Transfers, Untouched(t) PROVE Untouched(t)'
  <2>1. 1 \in DOMAIN Line
    BY <1>1, <1>5
  <2>2. t # g
    BY <1>g, <1>14, <2>1 DEF Untouched
  <2>3. app'.got[t] = <<>>
    BY <1>9, <1>14, <2>2 DEF Untouched
  <2>4. \A i \in DOMAIN Line' : Line'[i][1] # t
    BY <1>1, <1>7, <1>14 DEF Untouched
  <2> QED BY <2>3, <2>4 DEF Untouched
<1> QED BY <1>11, <1>12, <1>13, <1>14

\* Which thread is where, after any step.
LEMMA ControlStep ==
  ASSUME TypeOK, ControlInv, Next
  PROVE  ControlInv'
<1>a. rec \in Streams /\ wk \in Tasks /\ api \in Calls /\ l2c \in Links
  BY Types
<1>b. Len(<<>>) = 0 /\ rec.tid \in 0..MaxTransfers /\ MaxTransfers \in Nat /\ Len(l2c.pend) <= 1
  BY Parts, UplinkAssumption DEF ControlInv
<1>1. CASE BoardOpen
  <2>1. api'.pc = "reset" /\ wk.pc = "free" /\ rec.tid < MaxTransfers /\ ~slot
    BY <1>1, <1>a DEF BoardOpen, ControlInv, Calls
  <2> QED BY <1>1, <2>1 DEF BoardOpen, ControlInv
<1>2. CASE StartReset
  <2>1. api'.pc = "announce" /\ wk.pc = "free" /\ ~slot /\ rec'.tid = rec.tid + 1 /\ rec'.active = rec.active /\ rec.tid < MaxTransfers
    BY <1>2, <1>a DEF StartReset, ControlInv, Streams
  <2>2. rec'.tid \in Transfers
    BY <1>b, <2>1 DEF Transfers
  <2> QED BY <1>2, <2>1, <2>2 DEF StartReset, ControlInv
<1>3. CASE Announce \/ AnnounceFails
  <2>1. api.pc = "announce" /\ api'.pc \in {"announce", "activate", "idle"} /\ wk.pc = "free" /\ ~slot
    BY <1>3, <1>a DEF Announce, AnnounceFails, ControlInv, Calls
  <2>2. rec' = rec /\ wk' = wk /\ slot' = slot /\ l2c' = l2c
    BY <1>3 DEF Announce, AnnounceFails
  <2> QED BY <2>1, <2>2 DEF ControlInv
<1>4. CASE Activate
  <2>1. api.pc = "activate" /\ wk.pc = "free" /\ ~slot /\ ~rec.active /\ rec.tid \in Transfers /\ wk.chunk = <<>>
    BY <1>4 DEF Activate, ControlInv
  <2>2. slot' = slot /\ l2c' = l2c
    BY <1>4 DEF Activate
  <2>3. CASE rec' = rec /\ wk' = wk /\ api'.pc = "idle"
    BY <2>1, <2>2, <2>3 DEF ControlInv
  <2>4. CASE rec'.active /\ rec'.tid = rec.tid /\ wk'.pc = "delay" /\ wk'.chunk = <<>> /\ api'.pc = "slot"
    BY <2>1, <2>2, <2>4 DEF ControlInv
  <2> QED BY <1>4, <1>a, <2>3, <2>4 DEF Activate, Streams, Worker0
<1>5. CASE OpenSlot
  <2>1. api.pc = "slot" /\ api'.pc = "idle" /\ slot' /\ rec.tid \in Transfers
    BY <1>5, <1>a DEF OpenSlot, ControlInv, Calls
  <2> QED BY <1>5, <2>1 DEF OpenSlot, ControlInv
<1>6. CASE \E n \in 1..MaxWrite : Write(n)
  <2>1. rec'.active = rec.active /\ rec'.tid = rec.tid
    BY <1>6, <1>a DEF Write, Overflow, Streams
  <2> QED BY <1>6, <2>1 DEF Write, ControlInv
<1>7. CASE \E c \in BOOLEAN : Close(c)
  <2>1. rec'.active = rec.active /\ rec'.tid = rec.tid /\ ~slot' /\ api.pc = "idle"
    BY <1>7, <1>a DEF Close, Streams
  <2> QED BY <1>7, <2>1 DEF Close, ControlInv
<1>8. CASE StartDelay \/ Drained \/ ChunkDone \/ LoopTop \/ LoopDown \/ SendLost \/ StallTimeout \/ Verdict \/ EndEvent \/ EndEventFails
  <2>1. rec'.active = rec.active /\ rec'.tid = rec.tid
    BY <1>8, <1>a DEF StartDelay, Drained, ChunkDone, LoopTop, LoopDown, SendLost, StallTimeout, Verdict, EndEvent, EndEventFails, Truncate, Streams
  <2>2. api' = api /\ slot' = slot /\ l2c' = l2c
    BY <1>8 DEF StartDelay, Drained, ChunkDone, LoopTop, LoopDown, SendLost, StallTimeout, Verdict, EndEvent, EndEventFails
  <2>3. wk.pc # "free" /\ wk'.pc # "free" /\ wk'.pc # "mark"
    <3>1. CASE StartDelay \/ Drained \/ ChunkDone \/ LoopTop \/ Verdict \/ EndEvent
      BY <1>a, <3>1 DEF StartDelay, Drained, ChunkDone, LoopTop, Verdict, EndEvent, At, Goto, Tasks
    <3>2. CASE LoopDown \/ SendLost \/ StallTimeout
      BY <1>a, <3>2 DEF LoopDown, SendLost, StallTimeout, Truncate, At, Tasks
    <3>3. CASE EndEventFails
      BY <1>a, <3>3 DEF EndEventFails, At, Tasks
    <3> QED BY <1>8, <3>1, <3>2, <3>3
  <2>4. wk'.chunk = <<>>
    BY <1>8, <1>a DEF StartDelay, Drained, ChunkDone, LoopTop, LoopDown, SendLost, StallTimeout, Verdict, EndEvent, EndEventFails, Truncate, At, Goto, Tasks, WorkerPcs, ControlInv
  <2> QED BY <2>1, <2>2, <2>3, <2>4 DEF ControlInv
<1>9. CASE Pop \/ Send \/ SendStalls \/ MarkStalled \/ SendNoBuffer
  <2>1. rec'.active = rec.active /\ rec'.tid = rec.tid
    BY <1>9, <1>a DEF Pop, Send, SendStalls, MarkStalled, SendNoBuffer, Streams
  <2>2. api' = api /\ slot' = slot
    BY <1>9 DEF Pop, Send, SendStalls, MarkStalled, SendNoBuffer
  <2>3. wk.pc # "free" /\ wk'.pc \in {"send", "mark"}
    BY <1>9, <1>a DEF Pop, Send, SendStalls, MarkStalled, SendNoBuffer, Sending, At, Goto, Tasks
  <2>4. wk'.pc = "mark" => wk'.chunk # <<>>
    BY <1>9, <1>a DEF Pop, Send, SendStalls, MarkStalled, SendNoBuffer, Sending, At, Goto, Tasks
  <2>5. Len(l2c'.pend) <= 1
    <3>1. Len(<<Head(wk.chunk)>>) = 1
      OBVIOUS
    <3>2. CASE SendStalls
      BY <1>a, <3>1, <3>2 DEF SendStalls, Links
    <3>3. CASE ~SendStalls
      <4>1. l2c'.pend = l2c.pend
        BY <1>9, <1>a, <3>3 DEF Pop, Send, MarkStalled, SendNoBuffer, Links
      <4> QED BY <1>b, <4>1
    <3> QED BY <3>2, <3>3
  <2> QED BY <2>1, <2>2, <2>3, <2>4, <2>5 DEF ControlInv
<1>10. CASE WorkerDone
  <2>1. rec'.active = FALSE /\ rec'.tid = rec.tid /\ wk'.pc = "free" /\ wk'.chunk = <<>>
    BY <1>10, <1>a DEF WorkerDone, Streams, Worker0
  <2>2. wk.pc = "done"
    BY <1>10 DEF WorkerDone, At
  <2> QED BY <1>10, <2>1, <2>2 DEF WorkerDone, ControlInv
<1>11. CASE HostStep
  <2>1. rec'.active = rec.active /\ rec'.tid = rec.tid
    BY <1>11, <1>a DEF HostStep, ChannelUp, ChannelDown, LinkDown, LinkUp, Grant, Broken, Streams
  <2>2. api' = api /\ wk' = wk /\ (slot' => slot)
    BY <1>11 DEF HostStep, ChannelUp, ChannelDown, LinkDown, LinkUp, Grant
  <2>3. Len(l2c'.pend) <= 1
    <3>1. l2c'.pend = l2c.pend \/ l2c'.pend = <<>>
      BY <1>11, <1>a DEF HostStep, ChannelUp, ChannelDown, LinkDown, LinkUp, Grant, Links
    <3> QED BY <1>b, <3>1
  <2> QED BY <2>1, <2>2, <2>3 DEF ControlInv, HostStep, ChannelUp, ChannelDown, LinkDown, LinkUp, Grant
<1>12. CASE Hear \/ Receive
  BY <1>12 DEF Hear, Receive, ControlInv
<1> QED BY <1>1, <1>2, <1>3, <1>4, <1>5, <1>6, <1>7, <1>8, <1>9, <1>10, <1>11, <1>12 DEF Next, ApiStep, WorkerStep, BoardStep

\* Only a send, the loss of the channel and the App's reading change what is under way.
LEMMA LineKept ==
  ASSUME TypeOK, Next, ~Send, ~SendStalls, ~ChannelDown, ~Receive
  PROVE  Line' = Line /\ app'.got = app.got
<1>a. l2c \in Links /\ air \in Seq(Units) /\ l2c.pend \in Seq(Units) /\ app \in Apps
  BY Types, Parts
<1>b. <<>> \in Seq(Units)
  OBVIOUS
<1>1. CASE ApiStep \/ BoardStep
  BY <1>1 DEF ApiStep, StartReset, Announce, AnnounceFails, Activate, OpenSlot, BoardStep, BoardOpen, Write, Close, Line
<1>2. CASE WorkerStep
  <2>1. air' = air /\ app' = app
    BY <1>2 DEF WorkerStep, StartDelay, LoopTop, LoopDown, Drained, Pop, ChunkDone, MarkStalled, SendNoBuffer,
             SendLost, StallTimeout, Verdict, EndEvent, EndEventFails, WorkerDone
  <2>2. l2c'.pend = l2c.pend
    BY <1>2, <1>a DEF WorkerStep, StartDelay, LoopTop, LoopDown, Drained, Pop, ChunkDone, MarkStalled, SendNoBuffer,
             SendLost, StallTimeout, Verdict, EndEvent, EndEventFails, WorkerDone, Links
  <2> QED BY <2>1, <2>2 DEF Line
<1>3. CASE ChannelUp \/ LinkUp
  BY <1>3, <1>a DEF ChannelUp, LinkUp, Links, Line
<1>4. CASE LinkDown
  BY <1>4, <1>a DEF LinkDown, Links, Apps, Line
<1>5. CASE Grant
  <2>1. app' = app
    BY <1>5 DEF Grant
  <2>2. CASE l2c.pend = <<>>
    BY <1>5, <1>a, <2>1, <2>2 DEF Grant, Links, Line
  <2>3. CASE l2c.pend # <<>>
    <3>1. air' = air \o l2c.pend /\ l2c'.pend = <<>>
      BY <1>5, <1>a, <2>3 DEF Grant, Links
    <3>2. \A s \in Seq(Units) : s \o <<>> = s
      BY ConcatEmptySeq
    <3>3. air \o l2c.pend \in Seq(Units)
      BY <1>a, ConcatProperties
    <3> QED BY <2>1, <3>1, <3>2, <3>3 DEF Line
  <2> QED BY <2>2, <2>3
<1>6. CASE Hear
  <2>1. app'.got = app.got
    BY <1>6, <1>a DEF Hear, Apps
  <2> QED BY <1>6, <2>1 DEF Hear, Line
<1> QED BY <1>1, <1>2, <1>3, <1>4, <1>5, <1>6 DEF Next, HostStep

\* A send puts the next SDU of the transfer under way.
LEMMA LineSent ==
  ASSUME TypeOK, ControlInv, SendInv, Send \/ SendStalls
  PROVE  /\ Line' = Append(Line, <<rec.tid, Edge(rec.tid)>>) /\ app'.got = app.got /\ rec'.tid = rec.tid
         /\ rec.tid \in Transfers /\ Edge(rec.tid) = rec.sent + 1
<1>a. l2c \in Links /\ air \in Seq(Units) /\ rec \in Streams /\ wk.chunk \in Seq(Units)
  BY Types, Parts
<1>1. wk.pc = "send" /\ wk.chunk # <<>> /\ l2c.chan /\ l2c.pend = <<>>
  BY DEF Send, SendStalls, Sending, At
<1>2. Rest = wk.chunk /\ Sent = rec.sent /\ Live
  BY <1>1 DEF Rest, Sent, Held, Live
<1>3. Edge(rec.tid) = rec.sent + 1
  BY <1>1, <1>2 DEF SendInv
<1>4. Head(wk.chunk) = <<rec.tid, rec.sent + 1>> /\ Head(wk.chunk) \in Units
  <2>1. Head(wk.chunk) = wk.chunk[1] /\ 1 \in DOMAIN wk.chunk /\ Head(wk.chunk) \in Units
    BY <1>a, <1>1, Tl
  <2> QED BY <1>2, <2>1 DEF SendInv
<1>5. \A s \in Seq(Units) : s \o <<>> = s
  BY ConcatEmptySeq
<1>6. Line = air
  BY <1>a, <1>1, <1>5 DEF Line
<1>7. Line' = Append(air, Head(wk.chunk))
  <2>1. CASE Send
    <3>1. air' = Append(air, Head(wk.chunk)) /\ l2c'.pend = <<>>
      BY <1>a, <1>1, <2>1 DEF Send, Links
    <3>2. Append(air, Head(wk.chunk)) \in Seq(Units)
      BY <1>a, <1>4, Ap
    <3> QED BY <1>5, <3>1, <3>2 DEF Line
  <2>2. CASE SendStalls
    <3>1. air' = air /\ l2c'.pend = <<Head(wk.chunk)>>
      BY <1>a, <2>2 DEF SendStalls, Links
    <3>2. \A h \in Units : Append(air, h) = air \o <<h>>
      BY <1>a, AppendIsConcat
    <3> QED BY <1>4, <3>1, <3>2 DEF Line
  <2> QED BY <2>1, <2>2
<1>8. app'.got = app.got /\ rec'.tid = rec.tid /\ rec.tid \in Transfers
  BY <1>a, <1>1 DEF Send, SendStalls, Streams, ControlInv
<1> QED BY <1>3, <1>4, <1>6, <1>7, <1>8

\* The transfer id changes at a start only, and then goes up.
LEMMA TidStep ==
  ASSUME TypeOK, Next
  PROVE  /\ rec'.tid \in Nat /\ rec.tid <= rec'.tid
         /\ ~StartReset => rec'.tid = rec.tid
         /\ StartReset => rec'.tid = rec.tid + 1
<1>a. rec \in Streams /\ rec.tid \in Nat
  BY Types, Parts
<1>1. StartReset => rec'.tid = rec.tid + 1
  BY <1>a DEF StartReset, Streams
<1>2. ASSUME ~StartReset PROVE rec'.tid = rec.tid
  <2>1. CASE ApiStep \/ BoardStep
    BY <1>a, <1>2, <2>1 DEF ApiStep, Announce, AnnounceFails, Activate, OpenSlot, BoardStep, BoardOpen, Write, Close, Overflow, Streams
  <2>2. CASE WorkerStep
    BY <1>a, <2>2 DEF WorkerStep, StartDelay, LoopTop, LoopDown, Drained, Pop, ChunkDone, Send, SendStalls, MarkStalled, SendNoBuffer,
             SendLost, StallTimeout, Verdict, EndEvent, EndEventFails, WorkerDone, Truncate, Streams
  <2>3. CASE HostStep \/ Hear \/ Receive
    BY <1>a, <2>3 DEF HostStep, ChannelUp, ChannelDown, LinkDown, LinkUp, Grant, Broken, Hear, Receive, Streams
  <2> QED BY <2>1, <2>2, <2>3 DEF Next
<1> QED BY <1>a, <1>1, <1>2

\* The loss of the channel empties it.
LEMMA LineLost ==
  ASSUME TypeOK, LineInv, NoGap, ChannelDown
  PROVE  Line' = <<>> /\ app' = app /\ LineInv' /\ NoGap' /\ \A t : Untouched(t) => Untouched(t)'
<1>1. air' = <<>> /\ l2c'.pend = <<>> /\ app' = app
  BY Types DEF ChannelDown, Links
<1>2. Line' = <<>> /\ DOMAIN Line' = {}
  BY <1>1 DEF Line
<1> QED BY <1>1, <1>2 DEF LineInv, NoGap, Untouched

LEMMA LineStep ==
  ASSUME TypeOK, ControlInv, SendInv, LineInv, NoGap, Next
  PROVE  LineInv' /\ NoGap'
<1>1. CASE Send \/ SendStalls
  BY <1>1, LineSent, LineAppend
<1>2. CASE ChannelDown
  BY <1>2, LineLost
<1>3. CASE Receive
  BY <1>3, LineTail
<1>4. CASE ~Send /\ ~SendStalls /\ ~ChannelDown /\ ~Receive
  BY <1>4, LineKept, SameLineInv, TidStep
<1> QED BY <1>1, <1>2, <1>3, <1>4

-----------------------------------------------------------------------------
(* The queue *)

\* The queue has not changed.
LEMMA SameQueue ==
  ASSUME QueueInv, rec'.q = rec.q, rec'.tid = rec.tid, rec'.queued = rec.queued
  PROVE  QueueInv' /\ \A j : From(j)' = From(j) /\ Past(j)' = Past(j)
BY DEF QueueInv, From, Past

\* Only a start, a write and the worker's pop change it.
LEMMA QueueKept ==
  ASSUME TypeOK, Next, ~StartReset, ~Pop, \A n \in 1..MaxWrite : ~Write(n)
  PROVE  rec'.q = rec.q /\ rec'.queued = rec.queued /\ rec'.tid = rec.tid
<1>a. rec \in Streams
  BY Types
<1>1. CASE ApiStep \/ BoardStep
  BY <1>a, <1>1 DEF ApiStep, Announce, AnnounceFails, Activate, OpenSlot, BoardStep, BoardOpen, Close, Streams
<1>2. CASE WorkerStep
  BY <1>a, <1>2 DEF WorkerStep, StartDelay, LoopTop, LoopDown, Drained, ChunkDone, Send, SendStalls, MarkStalled, SendNoBuffer,
           SendLost, StallTimeout, Verdict, EndEvent, EndEventFails, WorkerDone, Truncate, Streams
<1>3. CASE HostStep \/ Hear \/ Receive
  BY <1>a, <1>3 DEF HostStep, ChannelUp, ChannelDown, LinkDown, LinkUp, Grant, Broken, Hear, Receive, Streams
<1> QED BY <1>1, <1>2, <1>3 DEF Next

\* A write to a stream that takes it goes on from the queue.
LEMMA WriteLive ==
  ASSUME TypeOK, ControlInv, CloseInv, SendInv, NEW n \in 1..MaxWrite, Write(n)
  PROVE  /\ rec.tid \in Transfers /\ Mine.closed = "no" /\ slot
         /\ (rec.active /\ ~rec.truncated) =>
              Live /\ Mine.tried = IF rec.q = <<>> THEN Sent + Len(Rest) ELSE Past(Len(rec.q)) - 1
<1>1. slot /\ rec.tid \in Transfers /\ Mine.closed = "no"
  BY DEF Write, ControlInv, CloseInv
<1>2. ASSUME rec.active, ~rec.truncated PROVE Live
  <2>1. wk.pc # "free" /\ wk.pc \in WorkerPcs
    BY <1>2, Parts DEF ControlInv
  <2>2. wk.pc \notin {"verdict", "end", "done"}
    BY <1>1, <1>2 DEF SendInv
  <2> QED BY <2>1, <2>2 DEF Live, WorkerPcs
<1> QED BY <1>1, <1>2 DEF SendInv

\* A chunk behind the queue that goes on from it.
LEMMA Enqueued ==
  ASSUME TypeOK, QueueInv, NEW n \in Nat \ {0}, NEW from \in Nat, NEW c \in Seq(Units),
         Len(c) = n, \A i \in 1..n : c[i] = <<rec.tid, from + i>>,
         rec.q # <<>> => Past(Len(rec.q)) = from + 1,
         rec'.q = Append(rec.q, c), rec'.queued = rec.queued + n, rec'.tid = rec.tid
  PROVE  /\ QueueInv'
         /\ rec'.q # <<>> /\ Past(Len(rec.q))' = from + n + 1
         /\ From(1)' = IF rec.q = <<>> THEN from + 1 ELSE From(1)
<1>l. PICK L \in Nat : L = Len(rec.q)
  BY Lengths
<1>1. rec.q \in Seq(Seq(Units)) /\ L \in Nat /\ DOMAIN rec.q = 1..L /\ rec.tid \in Nat
  <2>1. rec.tid \in Nat
    BY Parts
  <2> QED BY <1>l, <2>1, Lengths
<1>2. /\ Len(rec'.q) = L + 1 /\ DOMAIN rec'.q = 1..(L + 1) /\ rec'.q[L + 1] = c /\ rec'.q # <<>>
      /\ \A j \in 1..L : rec'.q[j] = rec.q[j]
  <2>1. rec'.q \in Seq(Seq(Units)) /\ Len(rec'.q) = L + 1 /\ rec'.q[L + 1] = c /\ \A j \in 1..L : rec'.q[j] = rec.q[j]
    BY <1>1, <1>l, Ap
  <2>2. L + 1 # 0
    BY <1>1
  <2>3. rec'.q # <<>>
    BY <2>1, <2>2, EmptySeq
  <2>4. DOMAIN rec'.q = 1..(L + 1)
    BY <2>1
  <2> QED BY <2>1, <2>3, <2>4
<1>3. c # <<>> /\ DOMAIN c = 1..n /\ c[1] = <<rec.tid, from + 1>> /\ 1 \in 1..n
  BY EmptySeq
<1>q. (L = 0 <=> rec.q = <<>>) /\ (L # 0 => 1 \in 1..L /\ L \in 1..L) /\ L = Len(rec.q)
  BY <1>1, <1>l, EmptySeq
<1>4. \A j \in 1..L : From(j)' = From(j) /\ Past(j)' = Past(j)
  BY <1>2 DEF From, Past
<1>5. From(L + 1)' = from + 1 /\ Past(L + 1)' = from + n + 1 /\ Len(rec.q)' = L + 1
  <2>1. From(L + 1)' = from + 1
    BY <1>2, <1>3 DEF From
  <2>2. Past(L + 1)' = From(L + 1)' + n
    BY <1>2 DEF Past
  <2> QED BY <1>2, <2>1, <2>2
<1>6. ASSUME NEW j \in 1..L
      PROVE From(j) \in Nat /\ Past(j) \in Nat /\ From(j) < Past(j) /\ From(j)' = From(j) /\ Past(j)' = Past(j)
            /\ Past(j) <= from + 1
  <2>1. rec.q # <<>> /\ From(j) \in Nat /\ Past(j) \in Nat /\ From(j) < Past(j)
    <3>1. rec.q # <<>>
      BY <1>1, <1>q
    <3>2. j \in DOMAIN rec.q
      BY <1>1
    <3> QED BY <3>1, <3>2, Queue
  <2>2. Past(L) = from + 1 /\ From(L) < Past(L) /\ From(L) \in Nat /\ Past(L) \in Nat
    BY <1>1, <1>q, <2>1, Queue
  <2>3. CASE j = L
    BY <1>4, <2>1, <2>2, <2>3
  <2>4. CASE j # L
    <3>1. j < L
      BY <1>1, <2>4
    <3>2. Past(j) <= From(L)
      <4>1. j \in DOMAIN rec.q /\ L \in DOMAIN rec.q
        BY <1>1, <3>1
      <4> QED BY <3>1, <4>1 DEF QueueInv
    <3> QED BY <1>4, <2>1, <2>2, <3>2
  <2> QED BY <2>3, <2>4
<1>7. ASSUME NEW j \in DOMAIN rec'.q
      PROVE rec'.q[j] # <<>> /\ \A i \in DOMAIN rec'.q[j] : rec'.q[j][i] = <<rec'.tid, From(j)' + i - 1>>
  <2>1. CASE j \in 1..L
    <3>1. rec'.q[j] = rec.q[j] /\ From(j)' = From(j)
      BY <1>2, <1>4, <2>1
    <3> QED BY <1>1, <2>1, <3>1 DEF QueueInv
  <2>2. CASE j = L + 1
    <3>1. rec'.q[j] = c /\ From(j)' = from + 1
      BY <1>2, <1>5, <2>2
    <3>2. \A i \in 1..n : from + i = (from + 1) + i - 1
      OBVIOUS
    <3>3. \A i \in 1..n : rec'.q[j][i] = <<rec.tid, From(j)' + i - 1>>
      BY <3>1, <3>2
    <3> QED BY <1>3, <3>1, <3>3
  <2>3. j \in 1..L \/ j = L + 1
    BY <1>1, <1>2
  <2> QED BY <2>1, <2>2, <2>3
<1>8. ASSUME NEW j \in DOMAIN rec'.q, NEW k \in DOMAIN rec'.q, j < k PROVE Past(j)' <= From(k)'
  <2>1. j \in 1..L
    BY <1>1, <1>2, <1>8
  <2>2. CASE k \in 1..L
    <3>1. Past(j) <= From(k)
      BY <1>1, <1>8, <2>1, <2>2 DEF QueueInv
    <3> QED BY <1>4, <2>1, <2>2, <3>1
  <2>3. CASE k = L + 1
    BY <1>5, <1>6, <2>1, <2>3
  <2> QED BY <1>1, <1>2, <2>2, <2>3
<1>9. ASSUME NEW j \in DOMAIN rec'.q, j + 1 \in DOMAIN rec'.q PROVE From(j + 1)' = Past(j)'
  <2>1. j \in 1..L
    BY <1>1, <1>2, <1>9
  <2>2. CASE j + 1 \in 1..L
    <3>1. From(j + 1) = Past(j)
      BY <1>1, <2>1, <2>2 DEF QueueInv
    <3> QED BY <1>4, <2>1, <2>2, <3>1
  <2>3. CASE j = L
    <3>1. Past(L) = from + 1 /\ Past(L)' = Past(L)
      BY <1>4, <1>q, <2>1, <2>3
    <3> QED BY <1>5, <2>3, <3>1
  <2>4. j + 1 \in 1..L \/ j = L
    <3>1. \A a \in Nat : \A b \in 1..a : b + 1 \in 1..a \/ b = a
      OBVIOUS
    <3>2. L \in Nat
      BY <1>1
    <3> QED BY <2>1, <3>1, <3>2
  <2> QED BY <2>2, <2>3, <2>4
<1>10. From(1)' = IF rec.q = <<>> THEN from + 1 ELSE From(1)
  <2>1. CASE L = 0
    BY <1>5, <1>q, <2>1
  <2>2. CASE L # 0
    BY <1>4, <1>q, <2>2
  <2> QED BY <2>1, <2>2
<1>11. rec'.queued = Past(Len(rec.q))' - From(1)'
  <2>1. Past(Len(rec.q))' = from + n + 1
    BY <1>2, <1>5
  <2>2. CASE L = 0
    <3>1. rec.queued = 0 /\ From(1)' = from + 1
      BY <1>10, <1>q, <2>2 DEF QueueInv
    <3> QED BY <2>1, <3>1
  <2>3. CASE L # 0
    <3>1. rec.queued = Past(L) - From(1) /\ Past(L) = from + 1 /\ From(1)' = From(1) /\ From(1) \in Nat
      BY <1>6, <1>10, <1>q, <2>3 DEF QueueInv
    <3> QED BY <2>1, <3>1
  <2> QED BY <2>2, <2>3
<1>12. QueueInv'
  <2>1. rec'.queued = IF rec'.q = <<>> THEN 0 ELSE Past(Len(rec.q))' - From(1)'
    BY <1>2, <1>11
  <2> QED BY <1>7, <1>8, <1>9, <2>1 DEF QueueInv
<1> QED BY <1>2, <1>5, <1>10, <1>12

\* The stream is truncated, or takes the chunk.
LEMMA WriteQueue ==
  ASSUME TypeOK, ControlInv, CloseInv, SendInv, QueueInv, NEW n \in 1..MaxWrite, Write(n)
  PROVE  /\ QueueInv'
         /\ rec'.sent = rec.sent /\ rec'.complete = rec.complete /\ rec'.active = rec.active /\ rec'.tid = rec.tid
         /\ \/ /\ rec'.q = rec.q /\ (\A j : From(j)' = From(j) /\ Past(j)' = Past(j))
               /\ rec'.truncated \/ ~rec.active
               /\ (rec'.end_req = rec.end_req /\ rec'.truncated = rec.truncated) \/ (rec'.truncated /\ rec'.end_req)
            \/ /\ rec.active /\ ~rec.truncated /\ ~rec'.truncated /\ rec'.end_req = rec.end_req /\ rec'.q # <<>>
               /\ Past(Len(rec.q))' = Mine.tried + n + 1
               /\ From(1)' = IF rec.q = <<>> THEN Mine.tried + 1 ELSE From(1)
<1>a. rec \in Streams /\ rec.q \in Seq(Seq(Units)) /\ rec.queued \in 0..QueueCap /\ QueueCap \in Nat
  BY Types, Parts, UplinkAssumption
<1>b. n \in Nat \ {0}
  BY UplinkAssumption
<1>1. CASE ~rec.active \/ rec.truncated
  <2>1. rec' = rec
    BY <1>1 DEF Write
  <2>2. /\ rec'.q = rec.q /\ rec'.tid = rec.tid /\ rec'.queued = rec.queued /\ rec'.truncated = rec.truncated /\ rec'.end_req = rec.end_req
        /\ rec'.sent = rec.sent /\ rec'.complete = rec.complete /\ rec'.active = rec.active
    BY <2>1
  <2>3. QueueInv' /\ \A j : From(j)' = From(j) /\ Past(j)' = Past(j)
    BY <2>2, SameQueue
  <2>4. rec'.truncated \/ ~rec.active
    BY <1>1, <2>2
  <2> QED BY <2>2, <2>3, <2>4
<1>2. CASE rec.active /\ ~rec.truncated /\ rec.queued + n > QueueCap
  <2>1. rec' = Overflow
    BY <1>2 DEF Write
  <2>2. /\ rec'.q = rec.q /\ rec'.tid = rec.tid /\ rec'.queued = rec.queued /\ rec'.truncated /\ rec'.end_req
        /\ rec'.sent = rec.sent /\ rec'.complete = rec.complete /\ rec'.active = rec.active
    BY <1>a, <2>1 DEF Overflow, Streams
  <2> QED BY <2>2, SameQueue
<1>3. CASE rec.active /\ ~rec.truncated /\ ~(rec.queued + n > QueueCap)
  <2> DEFINE from == board[rec.tid].tried
             c == [i \in 1..n |-> <<rec.tid, from + i>>]
  <2>1. rec' = [rec EXCEPT !.q = Append(rec.q, c), !.queued = rec.queued + n]
    BY <1>3 DEF Write
  <2>2. rec.tid \in Transfers /\ from \in Nat /\ Live
        /\ Mine.tried = IF rec.q = <<>> THEN Sent + Len(Rest) ELSE Past(Len(rec.q)) - 1
    BY <1>3, WriteLive, Parts
  <2>3. c \in Seq(Units) /\ Len(c) = n /\ \A i \in 1..n : c[i] = <<rec.tid, from + i>>
    BY <1>b, <2>2 DEF Units, Numbers
  <2>4. rec.q # <<>> => Past(Len(rec.q)) = from + 1
    <3>1. rec.q # <<>> => Past(Len(rec.q)) \in Nat
      BY Queue
    <3> QED BY <2>2, <3>1 DEF Mine
  <2> HIDE DEF c
  <2>5. /\ rec'.q = Append(rec.q, c) /\ rec'.queued = rec.queued + n /\ rec'.tid = rec.tid
        /\ ~rec'.truncated /\ rec'.end_req = rec.end_req
        /\ rec'.sent = rec.sent /\ rec'.complete = rec.complete /\ rec'.active = rec.active
    BY <1>a, <1>3, <2>1 DEF Streams
  <2>6. from = Mine.tried
    BY DEF Mine
  <2> HIDE DEF from
  <2>7. /\ QueueInv' /\ rec'.q # <<>> /\ Past(Len(rec.q))' = from + n + 1
        /\ From(1)' = IF rec.q = <<>> THEN from + 1 ELSE From(1)
    BY <1>b, <2>2, <2>3, <2>4, <2>5, Enqueued
  <2> QED BY <1>3, <2>5, <2>6, <2>7
<1> QED BY <1>1, <1>2, <1>3

\* The worker takes the first chunk.
LEMMA PopQueue ==
  ASSUME TypeOK, QueueInv, Pop
  PROVE  /\ QueueInv' /\ Head(rec.q) = rec.q[1] /\ rec.q # <<>>
         /\ rec'.q # <<>> => From(1)' = Past(1) /\ Past(Len(rec.q))' = Past(Len(rec.q))
         /\ rec'.q = <<>> => Past(Len(rec.q)) = Past(1)
<1>1. PICK L \in Nat : L = Len(rec.q)
  BY Lengths
<1>2. rec.q # <<>> /\ rec.q \in Seq(Seq(Units)) /\ L > 0 /\ DOMAIN rec.q = 1..L /\ 1 \in 1..L /\ L \in 1..L
  <2>1. rec.q # <<>>
    BY DEF Pop
  <2>2. L # 0 /\ DOMAIN rec.q = 1..L
    BY <1>1, <2>1, Lengths
  <2>3. L > 0 /\ 1 \in 1..L /\ L \in 1..L
    BY <2>2
  <2> QED BY <2>1, <2>2, <2>3, Lengths
<1>3. rec'.q = Tail(rec.q) /\ rec'.queued = rec.queued - Len(rec.q[1]) /\ rec'.tid = rec.tid /\ Head(rec.q) = rec.q[1]
  <2>1. rec \in Streams /\ Head(rec.q) = rec.q[1]
    BY <1>2, Types, Queue
  <2> QED BY <2>1 DEF Pop, Streams
<1>4. /\ Len(rec.q)' = L - 1 /\ DOMAIN rec'.q = 1..(L - 1) /\ (rec'.q = <<>> <=> L = 1)
      /\ \A j \in 1..(L - 1) : rec'.q[j] = rec.q[j + 1] /\ j + 1 \in 1..L
  <2>1. Tail(rec.q) \in Seq(Seq(Units)) /\ Len(Tail(rec.q)) = L - 1
        /\ \A j \in 1..(L - 1) : Tail(rec.q)[j] = rec.q[j + 1] /\ j + 1 \in 1..L
    BY <1>1, <1>2, Tl
  <2>2. Tail(rec.q) = <<>> <=> L - 1 = 0
    BY <2>1, EmptySeq
  <2>3. DOMAIN Tail(rec.q) = 1..(L - 1)
    BY <2>1
  <2> QED BY <1>2, <1>3, <2>1, <2>2, <2>3
<1>5. \A j \in 1..(L - 1) : From(j)' = From(j + 1) /\ Past(j)' = Past(j + 1)
  BY <1>4 DEF From, Past
<1>6. ASSUME NEW j \in DOMAIN rec'.q
      PROVE rec'.q[j] # <<>> /\ \A i \in DOMAIN rec'.q[j] : rec'.q[j][i] = <<rec'.tid, From(j)' + i - 1>>
  <2>1. j \in 1..(L - 1) /\ j + 1 \in DOMAIN rec.q
    BY <1>2, <1>4
  <2>2. rec'.q[j] = rec.q[j + 1] /\ From(j)' = From(j + 1) /\ rec'.tid = rec.tid
    BY <1>3, <1>4, <1>5, <2>1
  <2>3. rec.q[j + 1] # <<>> /\ \A i \in DOMAIN rec.q[j + 1] : rec.q[j + 1][i] = <<rec.tid, From(j + 1) + i - 1>>
    BY <2>1 DEF QueueInv
  <2> QED BY <2>2, <2>3
<1>7. ASSUME NEW j \in DOMAIN rec'.q, NEW k \in DOMAIN rec'.q, j < k PROVE Past(j)' <= From(k)'
  <2>1. j \in 1..(L - 1) /\ k \in 1..(L - 1) /\ j + 1 \in DOMAIN rec.q /\ k + 1 \in DOMAIN rec.q /\ j + 1 < k + 1
    <3>1. j \in 1..(L - 1) /\ k \in 1..(L - 1)
      BY <1>4
    <3>2. j \in Nat /\ k \in Nat /\ j + 1 < k + 1 /\ j + 1 \in 1..L /\ k + 1 \in 1..L
      BY <1>1, <1>7, <3>1
    <3> QED BY <1>2, <3>1, <3>2
  <2>2. Past(j + 1) <= From(k + 1)
    BY <2>1 DEF QueueInv
  <2> QED BY <1>5, <2>1, <2>2
<1>8. ASSUME NEW j \in DOMAIN rec'.q, j + 1 \in DOMAIN rec'.q PROVE From(j + 1)' = Past(j)'
  <2>1. j \in 1..(L - 1) /\ j + 1 \in 1..(L - 1) /\ j + 1 \in DOMAIN rec.q /\ (j + 1) + 1 \in DOMAIN rec.q
    BY <1>2, <1>4, <1>8
  <2>2. From((j + 1) + 1) = Past(j + 1)
    BY <2>1 DEF QueueInv
  <2> QED BY <1>5, <2>1, <2>2
<1>9. rec'.q # <<>> => From(1)' = Past(1) /\ Past(L - 1)' = Past(L)
  <2> SUFFICES ASSUME rec'.q # <<>> PROVE From(1)' = Past(1) /\ Past(L - 1)' = Past(L)
    OBVIOUS
  <2>1. L # 1 /\ 1 \in 1..(L - 1) /\ L - 1 \in 1..(L - 1) /\ (L - 1) + 1 = L /\ 1 + 1 \in DOMAIN rec.q
    BY <1>2, <1>4
  <2>2. From(1 + 1) = Past(1)
    BY <1>2, <2>1 DEF QueueInv
  <2> QED BY <1>5, <2>1, <2>2
<1>10. rec.queued = Past(L) - From(1) /\ Past(1) = From(1) + Len(rec.q[1]) /\ From(1) \in Nat /\ Past(L) \in Nat /\ Len(rec.q[1]) \in Nat
  BY <1>1, <1>2, Queue
<1>11. rec'.queued = IF rec'.q = <<>> THEN 0 ELSE Past(L - 1)' - From(1)'
  <2>1. CASE rec'.q = <<>>
    <3>1. L = 1
      BY <1>4, <2>1
    <3>2. rec.queued = Len(rec.q[1])
      BY <1>10, <3>1
    <3>3. rec'.queued = 0
      BY <1>3, <1>10, <3>2
    <3> QED BY <2>1, <3>3
  <2>2. CASE rec'.q # <<>>
    <3>1. From(1)' = From(1) + Len(rec.q[1]) /\ Past(L - 1)' = Past(L)
      BY <1>9, <1>10, <2>2
    <3> QED BY <1>3, <1>10, <2>2, <3>1
  <2> QED BY <2>1, <2>2
<1>12. QueueInv'
  <2>1. rec'.queued = IF rec'.q = <<>> THEN 0 ELSE Past(Len(rec.q))' - From(1)'
    BY <1>4, <1>11
  <2> QED BY <1>6, <1>7, <1>8, <2>1 DEF QueueInv
<1> QED BY <1>1, <1>2, <1>3, <1>4, <1>9, <1>12

LEMMA QueueStep ==
  ASSUME TypeOK, ControlInv, CloseInv, SendInv, QueueInv, Next
  PROVE  QueueInv'
<1>1. CASE StartReset
  <2>1. rec'.q = <<>> /\ rec'.queued = 0 /\ DOMAIN <<>> = {}
    BY <1>1, Types DEF StartReset, Streams
  <2> QED BY <2>1 DEF QueueInv
<1>2. CASE \E n \in 1..MaxWrite : Write(n)
  BY <1>2, WriteQueue
<1>3. CASE Pop
  BY <1>3, PopQueue
<1>4. CASE ~StartReset /\ ~Pop /\ ~\E n \in 1..MaxWrite : Write(n)
  BY <1>4, QueueKept, SameQueue
<1> QED BY <1>1, <1>2, <1>3, <1>4

-----------------------------------------------------------------------------
(* When a transfer begins and ends *)

\* What has not left the board does not leave it but by the worker's sends.
LEMMA UntouchedStep ==
  ASSUME TypeOK, ControlInv, SendInv, LineInv, NoGap, Next,
         NEW t \in Transfers, Untouched(t), t # rec.tid \/ wk.pc # "send"
  PROVE  Untouched(t)'
<1>1. CASE Send \/ SendStalls
  <2>1. t # rec.tid
    BY <1>1 DEF Send, SendStalls, Sending, At
  <2> QED BY <1>1, <2>1, LineSent, LineAppend
<1>2. CASE ChannelDown
  BY <1>2, LineLost
<1>3. CASE Receive
  BY <1>3, LineTail
<1>4. CASE ~Send /\ ~SendStalls /\ ~ChannelDown /\ ~Receive
  BY <1>4, LineKept, SameLine
<1> QED BY <1>1, <1>2, <1>3, <1>4

\* Only the board's task writes and closes, and only the transfer that is open.
LEMMA BoardKept ==
  ASSUME TypeOK, Next
  PROVE  /\ ~(\E n \in 1..MaxWrite : Write(n)) /\ ~(\E c \in BOOLEAN : Close(c)) => board' = board
         /\ \A t \in Transfers : t # rec.tid => board'[t] = board[t]
<1>1. CASE \E n \in 1..MaxWrite : Write(n)
  BY <1>1, Types DEF Write, Boards
<1>2. CASE \E c \in BOOLEAN : Close(c)
  BY <1>2, Types DEF Close, Boards
<1>3. CASE ~(\E n \in 1..MaxWrite : Write(n)) /\ ~(\E c \in BOOLEAN : Close(c))
  <2>1. board' = board
    BY <1>3 DEF Next, ApiStep, StartReset, Announce, AnnounceFails, Activate, OpenSlot, BoardStep, BoardOpen,
       WorkerStep, StartDelay, LoopTop, LoopDown, Drained, Pop, ChunkDone, Send, SendStalls, MarkStalled, SendNoBuffer,
       SendLost, StallTimeout, Verdict, EndEvent, EndEventFails, WorkerDone,
       HostStep, ChannelUp, ChannelDown, LinkDown, LinkUp, Grant, Hear, Receive
  <2> QED BY <1>3, <2>1
<1> QED BY <1>1, <1>2, <1>3

\* What a write and a close record.
LEMMA Recorded ==
  ASSUME TypeOK, ControlInv
  PROVE  /\ \A n \in 1..MaxWrite : Write(n) =>
              /\ slot /\ rec.tid \in Transfers /\ api.pc = "idle" /\ api' = api /\ slot' = slot /\ wk' = wk
              /\ board'[rec.tid].tried = Mine.tried + n /\ board'[rec.tid].closed = Mine.closed
         /\ \A c \in BOOLEAN : Close(c) =>
              /\ slot /\ rec.tid \in Transfers /\ api.pc = "idle" /\ api' = api /\ ~slot' /\ wk' = wk
              /\ board'[rec.tid].tried = Mine.tried /\ board'[rec.tid].closed = IF c THEN "whole" ELSE "cut"
<1>1. board \in Boards
  BY Types
<1>2. slot => rec.tid \in Transfers
  BY DEF ControlInv
<1>3. ASSUME NEW n \in 1..MaxWrite, Write(n)
      PROVE board'[rec.tid].tried = Mine.tried + n /\ board'[rec.tid].closed = Mine.closed
  BY <1>1, <1>2, <1>3 DEF Write, Boards, Mine
<1>4. ASSUME NEW c \in BOOLEAN, Close(c)
      PROVE board'[rec.tid].tried = Mine.tried /\ board'[rec.tid].closed = IF c THEN "whole" ELSE "cut"
  BY <1>1, <1>2, <1>4 DEF Close, Boards, Mine
<1> QED BY <1>2, <1>3, <1>4 DEF Write, Close

\* How the board's task moves.
LEMMA ApiMoves ==
  ASSUME TypeOK, ControlInv, Next
  PROVE  /\ (slot' /\ ~slot) => OpenSlot
         /\ api'.pc \in {"announce", "activate"} => StartReset \/ api.pc \in {"announce", "activate"}
         /\ api'.pc = "slot" => Activate \/ api.pc = "slot"
         /\ StartReset => api.pc = "reset" /\ wk.pc = "free" /\ ~slot /\ slot' = slot /\ wk' = wk
         /\ OpenSlot => api.pc = "slot" /\ api'.pc = "idle"
         /\ Activate => api.pc = "activate" /\ slot' = slot
         /\ api.pc # "idle" => ~slot
         /\ api.pc \in {"announce", "activate", "reset"} => wk.pc = "free"
<1>a. api \in Calls
  BY Types
<1>1. StartReset => api.pc = "reset" /\ wk.pc = "free" /\ ~slot /\ slot' = slot /\ wk' = wk
  BY DEF StartReset, ControlInv
<1>2. (OpenSlot => api.pc = "slot" /\ api'.pc = "idle") /\ (Activate => api.pc = "activate" /\ slot' = slot)
  BY <1>a DEF OpenSlot, Activate, Calls
<1>3. CASE ApiStep
  BY <1>a, <1>3 DEF ApiStep, StartReset, Announce, AnnounceFails, Activate, OpenSlot, Calls, ControlInv
<1>4. CASE BoardStep
  <2>1. CASE BoardOpen
    <3>1. api'.pc = "reset" /\ slot' = slot
      BY <1>a, <2>1 DEF BoardOpen, Calls
    <3> QED BY <1>1, <1>2, <3>1 DEF ControlInv
  <2>2. CASE ~BoardOpen
    <3>1. api' = api /\ (slot' => slot)
      BY <1>4, <2>2 DEF BoardStep, Write, Close
    <3> QED BY <1>1, <1>2, <3>1 DEF ControlInv
  <2> QED BY <2>1, <2>2
<1>5. CASE WorkerStep \/ HostStep \/ Hear \/ Receive
  <2>1. api' = api /\ (slot' => slot)
    <3>1. CASE WorkerStep
      BY <3>1 DEF
         WorkerStep, StartDelay, LoopTop, LoopDown, Drained, Pop, ChunkDone, Send, SendStalls, MarkStalled, SendNoBuffer,
         SendLost, StallTimeout, Verdict, EndEvent, EndEventFails, WorkerDone
    <3>2. CASE HostStep \/ Hear \/ Receive
      BY <3>2 DEF HostStep, ChannelUp, ChannelDown, LinkDown, LinkUp, Grant, Hear, Receive
    <3> QED BY <1>5, <3>1, <3>2
  <2> QED BY <1>1, <1>2, <2>1 DEF ControlInv
<1> QED BY <1>3, <1>4, <1>5 DEF Next

\* The flags of a stream that nobody opens, writes or closes.
LEMMA FlagsStep ==
  ASSUME TypeOK, ControlInv, Next, ~StartReset, ~Activate, ~(\E n \in 1..MaxWrite : Write(n)), ~(\E c \in BOOLEAN : Close(c))
  PROVE  /\ rec'.complete = rec.complete /\ (rec'.active => rec.active)
         /\ rec.truncated => rec'.truncated
         /\ rec'.end_req = rec.end_req \/ (rec'.end_req /\ rec'.truncated)
         /\ wk'.end \in {wk.end, rec.end_req} \/ ~rec'.active
         /\ rec'.sent = rec.sent \/ wk.pc # "free"
<1>a. rec \in Streams /\ wk \in Tasks
  BY Types
<1>1. CASE ApiStep \/ BoardStep
  BY <1>1 DEF ApiStep, Announce, AnnounceFails, OpenSlot, BoardStep, BoardOpen
<1>2. CASE LoopDown \/ SendLost \/ StallTimeout
  BY <1>a, <1>2 DEF LoopDown, SendLost, StallTimeout, Truncate, Streams, Tasks
<1>3. CASE StartDelay \/ LoopTop \/ Drained \/ ChunkDone \/ Verdict \/ EndEvent \/ EndEventFails \/ SendNoBuffer
  <2>1. rec' = rec
    BY <1>3 DEF StartDelay, LoopTop, Drained, ChunkDone, Verdict, EndEvent, EndEventFails, SendNoBuffer
  <2>2. wk'.end \in {wk.end, rec.end_req}
    BY <1>a, <1>3 DEF StartDelay, LoopTop, Drained, ChunkDone, Verdict, EndEvent, EndEventFails, SendNoBuffer, Goto, Tasks
  <2> QED BY <2>1, <2>2
<1>4. CASE Pop \/ Send \/ SendStalls \/ MarkStalled
  <2>1. rec'.complete = rec.complete /\ rec'.active = rec.active /\ rec'.truncated = rec.truncated /\ rec'.end_req = rec.end_req
    BY <1>a, <1>4 DEF Pop, Send, SendStalls, MarkStalled, Streams
  <2>2. wk'.end = wk.end /\ wk.pc # "free"
    BY <1>a, <1>4 DEF Pop, Send, SendStalls, MarkStalled, Sending, At, Goto, Tasks
  <2> QED BY <2>1, <2>2
<1>5. CASE WorkerDone
  BY <1>a, <1>5 DEF WorkerDone, Streams
<1>6. CASE HostStep
  BY <1>a, <1>6 DEF HostStep, ChannelUp, ChannelDown, LinkDown, LinkUp, Grant, Broken, Streams
<1>7. CASE Hear \/ Receive
  BY <1>7 DEF Hear, Receive
<1> QED BY <1>1, <1>2, <1>3, <1>4, <1>5, <1>6, <1>7 DEF Next, WorkerStep

LEMMA CloseStep ==
  ASSUME TypeOK, ControlInv, CloseInv, QueueInv, SendInv, LineInv, NoGap, Next
  PROVE  CloseInv'
<1>a. rec \in Streams /\ wk \in Tasks /\ api \in Calls
  BY Types
<1>b. rec.tid \in Nat /\ rec'.tid \in Nat /\ rec.tid <= rec'.tid /\ (~StartReset => rec'.tid = rec.tid)
      /\ (StartReset => rec'.tid = rec.tid + 1)
  BY TidStep, Parts
<1>w. /\ (\E n \in 1..MaxWrite : Write(n)) =>
           slot /\ api.pc = "idle" /\ api' = api /\ slot' = slot /\ wk' = wk /\ board'[rec.tid].closed = Mine.closed /\ ~StartReset
      /\ (\E c \in BOOLEAN : Close(c)) => slot /\ api.pc = "idle" /\ api' = api /\ ~slot' /\ wk' = wk /\ ~StartReset
  BY Recorded DEF StartReset
<1>k. ~(\E n \in 1..MaxWrite : Write(n)) /\ ~(\E c \in BOOLEAN : Close(c)) => board' = board
  BY BoardKept
<1>1. slot' => Mine'.closed = "no"
  <2> SUFFICES ASSUME slot' PROVE Mine'.closed = "no"
    OBVIOUS
  <2>1. CASE ~slot
    <3>1. OpenSlot /\ api.pc = "slot"
      BY <2>1, ApiMoves
    <3>2. rec' = rec /\ board' = board
      BY <3>1 DEF OpenSlot
    <3> QED BY <3>1, <3>2 DEF CloseInv, Mine
  <2>2. CASE slot
    <3>1. ~StartReset /\ rec'.tid = rec.tid /\ Mine.closed = "no"
      BY <1>b, <2>2, ApiMoves DEF CloseInv
    <3>2. CASE \E n \in 1..MaxWrite : Write(n)
      BY <1>w, <3>1, <3>2 DEF Mine
    <3>3. CASE ~\E n \in 1..MaxWrite : Write(n)
      <4>1. board' = board
        BY <1>w, <1>k, <3>3
      <4> QED BY <3>1, <4>1 DEF Mine
    <3> QED BY <3>2, <3>3
  <2> QED BY <2>1, <2>2
<1>2. ASSUME NEW t \in Transfers, t > rec'.tid PROVE board'[t] = [tried |-> 0, closed |-> "no"] /\ Untouched(t)'
  <2>1. t > rec.tid /\ t # rec.tid /\ t \in Nat
    BY <1>2, <1>b, UplinkAssumption DEF Transfers
  <2>2. board[t] = [tried |-> 0, closed |-> "no"] /\ Untouched(t)
    BY <2>1 DEF CloseInv
  <2> QED BY <2>1, <2>2, BoardKept, UntouchedStep
<1>3. ASSUME api'.pc \in {"announce", "activate"}
      PROVE /\ rec'.q = <<>> /\ rec'.sent = 0 /\ rec'.complete
            /\ Mine' = [tried |-> 0, closed |-> "no"] /\ Untouched(rec.tid)'
            /\ ~rec'.truncated => ~rec'.end_req
  <2>1. CASE StartReset
    <3>1. rec'.q = <<>> /\ rec'.sent = 0 /\ rec'.complete /\ ~rec'.end_req /\ board' = board
      BY <1>a, <2>1 DEF StartReset, Streams
    <3>2. rec.tid + 1 \in Transfers /\ rec.tid + 1 > rec.tid
      BY <1>b, <2>1, UplinkAssumption DEF StartReset, ControlInv, Transfers
    <3>3. board[rec.tid + 1] = [tried |-> 0, closed |-> "no"] /\ Untouched(rec.tid + 1)
      BY <3>2 DEF CloseInv
    <3>4. Line' = Line /\ app'.got = app.got
      BY <2>1 DEF StartReset, Line
    <3>5. Untouched(rec.tid)'
      BY <1>b, <2>1, <3>3, <3>4 DEF Untouched
    <3> QED BY <1>b, <2>1, <3>1, <3>3, <3>5 DEF Mine
  <2>2. CASE ~StartReset
    <3>1. api.pc \in {"announce", "activate"} /\ wk.pc = "free" /\ ~slot
      BY <1>3, <2>2, ApiMoves
    <3>2. board' = board /\ ~(\E n \in 1..MaxWrite : Write(n)) /\ ~(\E c \in BOOLEAN : Close(c))
      BY <1>w, <1>k, <3>1
    <3>3. ~Activate
      BY <1>3, <1>a DEF Activate, Calls
    <3>4. ~Pop
      BY <3>1 DEF Pop, At
    <3>5. rec'.q = rec.q
      BY <2>2, <3>2, <3>4, QueueKept
    <3>6. rec'.complete = rec.complete /\ rec'.sent = rec.sent /\ (rec.truncated => rec'.truncated)
          /\ (rec'.end_req = rec.end_req \/ (rec'.end_req /\ rec'.truncated))
      BY <2>2, <3>1, <3>2, <3>3, FlagsStep
    <3>7. rec.tid \in Transfers
      BY <3>1 DEF ControlInv
    <3>8. /\ rec.q = <<>> /\ rec.sent = 0 /\ rec.complete
          /\ Mine = [tried |-> 0, closed |-> "no"] /\ Untouched(rec.tid)
          /\ ~rec.truncated => ~rec.end_req
      BY <3>1 DEF CloseInv
    <3>9. \A t : t = rec.tid => Untouched(t)'
      BY <3>1, <3>7, <3>8, UntouchedStep
    <3>10. Untouched(rec.tid)'
      BY <1>b, <2>2, <3>9
    <3>11. Mine' = Mine
      BY <1>b, <2>2, <3>2 DEF Mine
    <3> QED BY <3>5, <3>6, <3>8, <3>10, <3>11
  <2> QED BY <2>1, <2>2
<1>4. ASSUME api'.pc = "slot" PROVE Mine'.closed = "no"
  <2>0. Activate \/ api.pc = "slot"
    BY <1>4, ApiMoves
  <2>1. Mine.closed = "no" /\ ~slot /\ ~StartReset
    BY <2>0, ApiMoves DEF CloseInv
  <2>2. board' = board /\ rec'.tid = rec.tid
    BY <1>b, <1>w, <1>k, <2>1
  <2> QED BY <2>1, <2>2 DEF Mine
<1>5. ASSUME rec'.active
      PROVE /\ ~rec'.truncated /\ rec'.end_req => Mine'.closed # "no"
            /\ Mine'.closed # "no" => (rec'.complete <=> Mine'.closed = "whole")
            /\ wk'.end => rec'.end_req
  <2>1. CASE StartReset
    BY <1>5, <1>a, <2>1, ApiMoves DEF StartReset, ControlInv, Streams
  <2>2. CASE Activate
    <3>1. Mine.closed = "no" /\ (~rec.truncated => ~rec.end_req) /\ rec'.tid = rec.tid /\ board' = board /\ ~rec.active
      BY <1>b, <2>2, ApiMoves DEF Activate, CloseInv, ControlInv, StartReset
    <3>2. rec'.truncated = rec.truncated /\ rec'.end_req = rec.end_req /\ ~wk'.end
      BY <1>5, <1>a, <2>2, <3>1 DEF Activate, Streams, Worker0
    <3> QED BY <3>1, <3>2 DEF Mine
  <2>3. CASE \E n \in 1..MaxWrite : Write(n)
    <3> PICK n \in 1..MaxWrite : Write(n)
      BY <2>3
    <3>1. Mine'.closed = Mine.closed /\ wk' = wk
      BY <1>b, <1>w DEF Mine
    <3>2. /\ rec'.complete = rec.complete /\ rec.active
          /\ ~rec'.truncated => ~rec.truncated
          /\ rec'.end_req = rec.end_req \/ (rec'.end_req /\ rec'.truncated)
      BY <1>5, WriteQueue
    <3>3. /\ ~rec.truncated /\ rec.end_req => Mine.closed # "no"
          /\ Mine.closed # "no" => (rec.complete <=> Mine.closed = "whole")
          /\ wk.end => rec.end_req
      BY <3>2 DEF CloseInv
    <3> QED BY <3>1, <3>2, <3>3
  <2>4. CASE \E c \in BOOLEAN : Close(c)
    <3> PICK c \in BOOLEAN : Close(c)
      BY <2>4
    <3>1. Mine'.closed = IF c THEN "whole" ELSE "cut"
      BY <1>b, <1>w, Recorded DEF Mine
    <3>2. rec'.complete = c /\ rec'.end_req
      BY <1>5, <1>a DEF Close, Streams
    <3> QED BY <3>1, <3>2
  <2>5. CASE ~StartReset /\ ~Activate /\ ~(\E n \in 1..MaxWrite : Write(n)) /\ ~(\E c \in BOOLEAN : Close(c))
    <3>1. Mine' = Mine
      BY <1>b, <1>k, <2>5 DEF Mine
    <3>2. /\ rec'.complete = rec.complete /\ rec.active /\ (rec.truncated => rec'.truncated)
          /\ rec'.end_req = rec.end_req \/ (rec'.end_req /\ rec'.truncated)
          /\ wk'.end \in {wk.end, rec.end_req}
      BY <1>5, <2>5, FlagsStep
    <3>3. /\ ~rec.truncated /\ rec.end_req => Mine.closed # "no"
          /\ Mine.closed # "no" => (rec.complete <=> Mine.closed = "whole")
          /\ wk.end => rec.end_req
      BY <3>2 DEF CloseInv
    <3> QED BY <3>1, <3>2, <3>3
  <2> QED BY <2>1, <2>2, <2>3, <2>4, <2>5
<1>6. \A t \in Transfers : t > rec'.tid => board'[t] = [tried |-> 0, closed |-> "no"] /\ Untouched(t)'
  BY <1>2
<1> QED BY <1>1, <1>3, <1>4, <1>5, <1>6 DEF CloseInv

-----------------------------------------------------------------------------
(* What the worker holds *)

\* A step that leaves worker and queue alone.
LEMMA SendSame ==
  ASSUME SendInv, rec'.q = rec.q, rec'.tid = rec.tid, rec'.sent = rec.sent, ~rec'.truncated => ~rec.truncated,
         wk'.pc = wk.pc, wk'.chunk = wk.chunk, wk'.ok => wk.ok,
         Mine'.tried = Mine.tried, Mine.closed # "no" => Mine'.closed = Mine.closed,
         (wk.pc = "delay" /\ Untouched(rec.tid)) => Untouched(rec.tid)',
         (Live /\ wk.pc # "delay" /\ l2c'.chan) => (l2c.chan /\ Edge(rec.tid)' = Edge(rec.tid))
  PROVE  SendInv'
<1>1. Rest' = Rest /\ Sent' = Sent /\ (Live' <=> Live)
  BY DEF Rest, Sent, Held, Live
<1>2. From(1)' = From(1) /\ Past(Len(rec.q))' = Past(Len(rec.q))
  BY DEF From, Past
<1> QED BY <1>1, <1>2 DEF SendInv

\* A step to where the worker holds nothing and sends nothing.
LEMMA SendResting ==
  ASSUME wk'.chunk = <<>>, wk'.pc \in {"free", "verdict", "end", "done"},
         (wk'.pc \in {"verdict", "end", "done"} /\ ~rec'.truncated) => Mine'.closed # "no",
         (wk'.pc = "verdict" /\ ~rec'.truncated) => rec'.sent = Mine'.tried,
         (wk'.pc \in {"end", "done"} /\ wk'.ok) => (rec'.sent = Mine'.tried /\ Mine'.closed = "whole")
  PROVE  SendInv'
<1>1. Rest' = <<>> /\ DOMAIN <<>> = {} /\ ~Live'
  BY DEF Rest, Held, Live
<1> QED BY <1>1 DEF SendInv

\* A step to where it sends.
LEMMA SendMoving ==
  ASSUME wk'.pc \in {"top", "pop", "send", "mark"},
         \A i \in DOMAIN Rest' : Rest'[i] = <<rec'.tid, Sent' + i>>,
         rec'.q # <<>> => From(1)' = Sent' + Len(Rest)' + 1,
         ~rec'.truncated => Mine'.tried = IF rec'.q = <<>> THEN Sent' + Len(Rest)' ELSE Past(Len(rec.q))' - 1,
         l2c'.chan => Edge(rec.tid)' = Sent' + 1
  PROVE  SendInv'
BY DEF SendInv, Live

\* The same for a worker that goes on with the same SDUs.
LEMMA SendGoesOn ==
  ASSUME SendInv, Live, wk'.pc \in {"top", "pop", "send", "mark"}, Rest' = Rest, Sent' = Sent,
         rec'.q = rec.q, rec'.tid = rec.tid, rec'.truncated = rec.truncated, board' = board,
         l2c'.chan = l2c.chan, l2c.chan => Edge(rec.tid)' = Sent + 1
  PROVE  SendInv'
<1>1. From(1)' = From(1) /\ Past(Len(rec.q))' = Past(Len(rec.q)) /\ Mine' = Mine
  BY DEF From, Past, Mine
<1>2. /\ \A i \in DOMAIN Rest' : Rest'[i] = <<rec'.tid, Sent' + i>>
      /\ rec'.q # <<>> => From(1)' = Sent' + Len(Rest)' + 1
      /\ ~rec'.truncated => Mine'.tried = IF rec'.q = <<>> THEN Sent' + Len(Rest)' ELSE Past(Len(rec.q))' - 1
  BY <1>1 DEF SendInv
<1> QED BY <1>2, SendMoving

\* The first SDU of the chunk leaves it.
LEMMA SendAdvances ==
  ASSUME TypeOK, ControlInv, SendInv, wk.pc = "send", wk.chunk # <<>>,
         wk'.pc \in {"send", "mark"}, Rest' = Tail(wk.chunk), Sent' = rec.sent + 1,
         rec'.q = rec.q, rec'.tid = rec.tid, rec'.truncated = rec.truncated, board' = board,
         Edge(rec.tid)' = rec.sent + 2
  PROVE  SendInv'
<1>1. Rest = wk.chunk /\ Sent = rec.sent /\ Live /\ rec.sent \in Nat /\ wk.chunk \in Seq(Units)
  BY Parts DEF Rest, Sent, Held, Live
<1>2. Len(Rest)' = Len(Rest) - 1 /\ Len(Rest) \in Nat /\ \A i \in DOMAIN Rest' : Rest'[i] = Rest[i + 1] /\ i + 1 \in DOMAIN Rest /\ i \in Nat
  <2>1. Tail(wk.chunk) \in Seq(Units) /\ Len(Tail(wk.chunk)) = Len(wk.chunk) - 1
        /\ \A i \in 1..Len(Tail(wk.chunk)) : Tail(wk.chunk)[i] = wk.chunk[i + 1] /\ i + 1 \in 1..Len(wk.chunk)
    BY <1>1, Tl
  <2>2. Len(Rest)' = Len(Tail(wk.chunk)) /\ Len(Rest) = Len(wk.chunk)
    BY <1>1
  <2> QED BY <1>1, <2>1, <2>2
<1>3. From(1)' = From(1) /\ Past(Len(rec.q))' = Past(Len(rec.q)) /\ Mine' = Mine
  BY DEF From, Past, Mine
<1>4. \A i \in DOMAIN Rest' : Rest'[i] = <<rec'.tid, Sent' + i>>
  <2> SUFFICES ASSUME NEW i \in DOMAIN Rest' PROVE Rest'[i] = <<rec'.tid, Sent' + i>>
    OBVIOUS
  <2>1. Rest'[i] = Rest[i + 1] /\ i + 1 \in DOMAIN Rest /\ i \in Nat
    BY <1>2
  <2>2. Rest[i + 1] = <<rec.tid, Sent + (i + 1)>>
    BY <2>1 DEF SendInv
  <2>3. Sent + (i + 1) = Sent' + i
    <3>1. \A a, b \in Nat : a + (b + 1) = (a + 1) + b
      OBVIOUS
    <3>2. rec.sent + (i + 1) = (rec.sent + 1) + i
      BY <1>1, <2>1, <3>1
    <3> QED BY <1>1, <3>2
  <2> QED BY <2>1, <2>2, <2>3
<1>5. Sent' + Len(Rest)' = Sent + Len(Rest)
  <2>1. \A a, b \in Nat : (a + 1) + (b - 1) = a + b
    OBVIOUS
  <2>2. (rec.sent + 1) + (Len(Rest) - 1) = rec.sent + Len(Rest)
    BY <1>1, <1>2, <2>1
  <2> QED BY <1>1, <1>2, <2>2
<1>6. rec'.q # <<>> => From(1)' = Sent' + Len(Rest)' + 1
  BY <1>1, <1>3, <1>5 DEF SendInv
<1>7. ~rec'.truncated => Mine'.tried = IF rec'.q = <<>> THEN Sent' + Len(Rest)' ELSE Past(Len(rec.q))' - 1
  BY <1>1, <1>3, <1>5 DEF SendInv
<1>8. Edge(rec.tid)' = Sent' + 1
  BY <1>1
<1> QED BY <1>4, <1>6, <1>7, <1>8, SendMoving

\* Steps of the worker.
LEMMA WorkerSend ==
  ASSUME TypeOK, ControlInv, CloseInv, QueueInv, SendInv, LineInv, NoGap, WorkerStep, Next
  PROVE  SendInv'
<1>a. rec \in Streams /\ wk \in Tasks /\ l2c \in Links /\ rec.sent \in Nat /\ rec.tid \in Nat
  BY Types, Parts
<1>b. board' = board
  BY DEF WorkerStep, StartDelay, LoopTop, LoopDown, Drained, Pop, ChunkDone, Send, SendStalls, MarkStalled, SendNoBuffer,
         SendLost, StallTimeout, Verdict, EndEvent, EndEventFails, WorkerDone
<1>c. rec'.tid = rec.tid
  BY <1>a DEF WorkerStep, StartDelay, LoopTop, LoopDown, Drained, Pop, ChunkDone, Send, SendStalls, MarkStalled, SendNoBuffer,
         SendLost, StallTimeout, Verdict, EndEvent, EndEventFails, WorkerDone, Truncate, Streams
<1>d. Mine' = Mine
  BY <1>b, <1>c DEF Mine
<1>n. ~Send /\ ~SendStalls => Edge(rec.tid)' = Edge(rec.tid)
  <2> SUFFICES ASSUME ~Send, ~SendStalls PROVE Edge(rec.tid)' = Edge(rec.tid)
    OBVIOUS
  <2>1. air' = air /\ app' = app
    BY DEF WorkerStep, StartDelay, LoopTop, LoopDown, Drained, Pop, ChunkDone, MarkStalled, SendNoBuffer,
         SendLost, StallTimeout, Verdict, EndEvent, EndEventFails, WorkerDone
  <2>2. l2c'.pend = l2c.pend
    BY <1>a DEF WorkerStep, StartDelay, LoopTop, LoopDown, Drained, Pop, ChunkDone, MarkStalled, SendNoBuffer,
         SendLost, StallTimeout, Verdict, EndEvent, EndEventFails, WorkerDone, Links
  <2>3. Line' = Line
    BY <2>1, <2>2 DEF Line
  <2> QED BY <1>c, <2>1, <2>3 DEF Edge
<1>1. CASE StartDelay
  <2>1. wk.pc = "delay" /\ wk'.pc = "top" /\ wk'.chunk = wk.chunk /\ rec' = rec /\ l2c' = l2c
    BY <1>1, <1>a DEF StartDelay, At, Goto, Tasks
  <2>2. Rest' = Rest /\ Sent' = Sent /\ Live /\ Sent = 0
    BY <2>1 DEF Rest, Sent, Held, Live, SendInv
  <2>3. Edge(rec.tid) = 1
    <3>1. Untouched(rec.tid)
      BY <2>1 DEF SendInv
    <3>2. app.got[rec.tid] = <<>> /\ (Line # <<>> => Line[Len(Line)][1] # rec.tid)
      <4>1. Line # <<>> => Len(Line) \in DOMAIN Line
        <5>1. Line \in Seq(Units) /\ DOMAIN Line = 1..Len(Line) /\ Len(Line) \in Nat
          BY LineTyped
        <5>2. Line # <<>> => Len(Line) # 0
          BY <5>1, EmptySeq
        <5> QED BY <5>1, <5>2
      <4> QED BY <3>1, <4>1 DEF Untouched
    <3>3. Len(<<>>) = 0
      OBVIOUS
    <3> QED BY <3>2, <3>3 DEF Edge
  <2>4. Edge(rec.tid)' = Sent + 1
    BY <1>1, <1>n, <2>2, <2>3 DEF StartDelay, At, Send, SendStalls, Sending
  <2> QED BY <1>b, <2>1, <2>2, <2>4, SendGoesOn
<1>2. CASE LoopTop \/ ChunkDone \/ SendNoBuffer
  <2>1. wk.pc \in {"top", "send"} /\ wk'.pc \in {"top", "pop", "send"} /\ wk'.chunk = wk.chunk /\ rec' = rec /\ l2c' = l2c
        /\ wk.pc # "delay" /\ wk.pc # "mark" /\ wk'.pc # "mark"
    BY <1>2, <1>a DEF LoopTop, ChunkDone, SendNoBuffer, Sending, At, Goto, Tasks
  <2>2. Rest' = Rest /\ Sent' = Sent /\ Live
    BY <2>1 DEF Rest, Sent, Held, Live
  <2>3. ~Send /\ ~SendStalls
    BY <1>2, <1>a DEF LoopTop, ChunkDone, SendNoBuffer, Send, SendStalls, Sending, At, Goto, Fault, Tasks
  <2>4. l2c.chan => Edge(rec.tid)' = Sent + 1
    BY <1>n, <2>1, <2>2, <2>3 DEF SendInv
  <2> QED BY <1>b, <2>1, <2>2, <2>4, SendGoesOn
<1>3. CASE Drained
  <2>1. wk.pc = "pop" /\ rec.q = <<>> /\ rec' = rec /\ l2c' = l2c /\ wk'.pc \in {"verdict", "top"} /\ wk'.chunk = wk.chunk
        /\ (wk'.pc = "verdict" => wk.end)
    BY <1>3, <1>a DEF Drained, At, Goto, Tasks
  <2>2. wk.chunk = <<>> /\ Rest = <<>> /\ Sent = rec.sent /\ Live /\ rec.active
    BY <2>1 DEF Rest, Sent, Held, Live, ControlInv
  <2>3. CASE wk'.pc = "top"
    <3>1. Rest' = Rest /\ Sent' = Sent
      BY <2>1, <2>2, <2>3 DEF Rest, Sent, Held
    <3>2. ~Send /\ ~SendStalls
      BY <2>1 DEF Send, SendStalls, Sending, At
    <3>3. l2c.chan => Edge(rec.tid)' = Sent + 1
      BY <1>n, <2>1, <2>2, <3>2 DEF SendInv
    <3> QED BY <1>b, <2>1, <2>2, <2>3, <3>1, <3>3, SendGoesOn
  <2>4. CASE wk'.pc = "verdict"
    <3>1. ~rec.truncated => Mine.closed # "no"
      BY <2>1, <2>2, <2>4 DEF CloseInv
    <3>2. ~rec.truncated => Mine.tried = rec.sent + Len(<<>>)
      BY <2>1, <2>2 DEF SendInv
    <3>3. rec.sent + Len(<<>>) = rec.sent
      BY <1>a
    <3>4. wk'.chunk = <<>>
      BY <2>1, <2>2
    <3> QED BY <1>d, <2>1, <2>4, <3>1, <3>2, <3>3, <3>4, SendResting
  <2> QED BY <2>1, <2>3, <2>4
<1>4. CASE Pop
  <2>1. wk.pc = "pop" /\ rec.q # <<>> /\ wk'.pc = "send" /\ wk'.chunk = Head(rec.q) /\ l2c' = l2c
        /\ rec'.sent = rec.sent /\ rec'.truncated = rec.truncated
    BY <1>4, <1>a DEF Pop, At, Tasks, Streams
  <2>2. wk.chunk = <<>> /\ Rest = <<>> /\ Sent = rec.sent /\ Live
    BY <2>1 DEF Rest, Sent, Held, Live, ControlInv
  <2>3. Rest' = rec.q[1] /\ Sent' = rec.sent
    BY <1>4, <2>1, PopQueue DEF Rest, Sent, Held
  <2>4. 1 \in DOMAIN rec.q /\ From(1) \in Nat /\ Len(rec.q[1]) \in Nat /\ Past(1) = From(1) + Len(rec.q[1])
        /\ rec.q[1] \in Seq(Units) /\ Len(rec.q) \in DOMAIN rec.q /\ Past(Len(rec.q)) \in Nat
    BY <2>1, Queue
  <2>5. From(1) = rec.sent + 1
    <3>1. From(1) = rec.sent + Len(<<>>) + 1
      BY <2>1, <2>2 DEF SendInv
    <3> QED BY <1>a, <3>1
  <2>6. \A i \in DOMAIN Rest' : Rest'[i] = <<rec'.tid, Sent' + i>>
    <3> SUFFICES ASSUME NEW i \in DOMAIN rec.q[1] PROVE rec.q[1][i] = <<rec.tid, rec.sent + i>>
      BY <1>c, <2>3
    <3>1. rec.q[1][i] = <<rec.tid, From(1) + i - 1>>
      BY <2>4 DEF QueueInv
    <3>2. i \in Nat
      BY <2>4
    <3>3. From(1) + i - 1 = rec.sent + i
      BY <1>a, <2>5, <3>2
    <3> QED BY <3>1, <3>3
  <2>7. Past(1) = Sent' + Len(Rest)' + 1
    BY <1>a, <2>3, <2>4, <2>5
  <2>8. rec'.q # <<>> => From(1)' = Sent' + Len(Rest)' + 1
    BY <1>4, <2>7, PopQueue
  <2>9. ~rec'.truncated => Mine'.tried = IF rec'.q = <<>> THEN Sent' + Len(Rest)' ELSE Past(Len(rec.q))' - 1
    <3>1. ~rec.truncated => Mine.tried = Past(Len(rec.q)) - 1
      BY <2>1, <2>2 DEF SendInv
    <3>2. Past(1) - 1 = Sent' + Len(Rest)'
      BY <1>a, <2>3, <2>4, <2>7
    <3> QED BY <1>4, <1>d, <2>1, <3>1, <3>2, PopQueue
  <2>10. l2c'.chan => Edge(rec.tid)' = Sent' + 1
    <3>1. ~Send /\ ~SendStalls
      BY <2>1 DEF Send, SendStalls, Sending, At
    <3> QED BY <1>n, <2>1, <2>2, <2>3, <3>1 DEF SendInv
  <2> QED BY <2>1, <2>6, <2>8, <2>9, <2>10, SendMoving
<1>5. CASE Send \/ SendStalls
  <2>1. wk.pc = "send" /\ wk.chunk # <<>> /\ rec.tid \in Transfers
    BY <1>5 DEF Send, SendStalls, Sending, At, ControlInv
  <2>2. wk'.pc \in {"send", "mark"} /\ Rest' = Tail(wk.chunk) /\ Sent' = rec.sent + 1
        /\ rec'.q = rec.q /\ rec'.truncated = rec.truncated
    <3>1. CASE Send
      <4>1. wk'.pc = "send" /\ wk'.chunk = Tail(wk.chunk) /\ rec'.sent = rec.sent + 1 /\ rec'.q = rec.q /\ rec'.truncated = rec.truncated
        BY <2>1, <3>1, <1>a DEF Send, Tasks, Streams
      <4> QED BY <4>1 DEF Rest, Sent, Held
    <3>2. CASE SendStalls
      <4>1. wk'.pc = "mark" /\ wk'.chunk = wk.chunk /\ rec' = rec
        BY <3>2, <1>a DEF SendStalls, Goto, Tasks
      <4> QED BY <4>1 DEF Rest, Sent, Held
    <3> QED BY <1>5, <3>1, <3>2
  <2>3. Edge(rec.tid)' = rec.sent + 2
    <3>1. Line' = Append(Line, <<rec.tid, Edge(rec.tid)>>) /\ app'.got = app.got /\ Edge(rec.tid) = rec.sent + 1
      BY <1>5, LineSent
    <3>2. Edge(rec.tid)' = Edge(rec.tid) + 1
      BY <1>c, <2>1, <3>1, LineAppend
    <3> QED BY <1>a, <3>1, <3>2
  <2> QED BY <1>b, <1>c, <2>1, <2>2, <2>3, SendAdvances
<1>6. CASE MarkStalled
  <2>1. wk.pc = "mark" /\ wk'.pc = "send" /\ wk'.chunk = Tail(wk.chunk) /\ rec'.sent = rec.sent + 1
        /\ rec'.q = rec.q /\ rec'.truncated = rec.truncated /\ l2c'.chan = l2c.chan
    BY <1>6, <1>a DEF MarkStalled, At, Tasks, Streams, Links
  <2>2. Rest' = Rest /\ Sent' = Sent /\ Live
    BY <2>1 DEF Rest, Sent, Held, Live
  <2>3. ~Send /\ ~SendStalls
    BY <2>1 DEF Send, SendStalls, Sending, At
  <2>4. l2c.chan => Edge(rec.tid)' = Sent + 1
    BY <1>n, <2>1, <2>2, <2>3 DEF SendInv
  <2> QED BY <1>b, <1>c, <2>1, <2>2, <2>4, SendGoesOn
<1>7. CASE LoopDown \/ SendLost \/ StallTimeout
  <2>1. wk'.pc = "verdict" /\ wk'.chunk = <<>> /\ rec'.truncated
    BY <1>7, <1>a DEF LoopDown, SendLost, StallTimeout, Truncate, Tasks, Streams
  <2> QED BY <2>1, SendResting
<1>8. CASE Verdict
  <2>1. wk.pc = "verdict" /\ wk'.pc = "end" /\ wk'.chunk = wk.chunk /\ (wk'.ok <=> (~rec.truncated /\ rec.complete)) /\ rec' = rec
    BY <1>8, <1>a DEF Verdict, At, Tasks
  <2>2. wk.chunk = <<>> /\ rec.active
    BY <2>1 DEF ControlInv
  <2>3. ~rec.truncated => Mine.closed # "no" /\ rec.sent = Mine.tried
    BY <2>1 DEF SendInv
  <2>4. wk'.ok => Mine.closed = "whole"
    BY <2>1, <2>2, <2>3 DEF CloseInv
  <2> QED BY <1>d, <2>1, <2>2, <2>3, <2>4, SendResting
<1>9. CASE EndEvent \/ EndEventFails
  <2>1. wk.pc = "end" /\ wk'.pc \in {"end", "done"} /\ wk'.chunk = wk.chunk /\ wk'.ok = wk.ok /\ rec' = rec
    BY <1>9, <1>a DEF EndEvent, EndEventFails, At, Goto, Tasks
  <2>2. wk.chunk = <<>>
    BY <2>1 DEF ControlInv
  <2>3. /\ (wk.pc = "end" /\ ~rec.truncated) => Mine.closed # "no"
        /\ (wk.pc = "end" /\ wk.ok) => (rec.sent = Mine.tried /\ Mine.closed = "whole")
    BY DEF SendInv
  <2> QED BY <1>d, <2>1, <2>2, <2>3, SendResting
<1>10. CASE WorkerDone
  <2>1. wk'.pc = "free" /\ wk'.chunk = <<>>
    BY <1>10 DEF WorkerDone, Worker0
  <2> QED BY <2>1, SendResting
<1> QED BY <1>1, <1>2, <1>3, <1>4, <1>5, <1>6, <1>7, <1>8, <1>9, <1>10 DEF WorkerStep

\* What a step of another thread leaves alone.
LEMMA OthersKeep ==
  ASSUME TypeOK, ControlInv, Next, ~WorkerStep, ~StartReset, ~Activate, ~(\E n \in 1..MaxWrite : Write(n))
  PROVE  /\ rec'.sent = rec.sent /\ (~rec'.truncated => ~rec.truncated) /\ wk' = wk
         /\ (Live /\ wk.pc # "delay" /\ l2c'.chan) => l2c.chan
<1>a. rec \in Streams /\ l2c \in Links
  BY Types
<1>1. CASE Announce \/ AnnounceFails \/ OpenSlot \/ BoardOpen \/ Hear \/ Receive
  BY <1>1 DEF Announce, AnnounceFails, OpenSlot, BoardOpen, Hear, Receive
<1>2. ASSUME NEW c \in BOOLEAN, Close(c)
      PROVE rec'.sent = rec.sent /\ rec'.truncated = rec.truncated /\ wk' = wk /\ l2c' = l2c
  BY <1>2, <1>a DEF Close, Streams
<1>3. CASE ChannelUp
  BY <1>3 DEF ChannelUp, Live
<1>4. CASE ChannelDown \/ LinkDown
  <2>1. rec' \in {rec, Broken} /\ wk' = wk /\ (l2c'.chan => l2c.chan)
    BY <1>4, <1>a DEF ChannelDown, LinkDown, Links
  <2>2. Broken.sent = rec.sent /\ Broken.truncated
    BY <1>a DEF Broken, Streams
  <2> QED BY <2>1, <2>2
<1>5. CASE LinkUp \/ Grant
  BY <1>5, <1>a DEF LinkUp, Grant, Links
<1> QED BY <1>1, <1>2, <1>3, <1>4, <1>5 DEF Next, ApiStep, BoardStep, HostStep

\* The board's writes.
LEMMA WriteSend ==
  ASSUME TypeOK, ControlInv, CloseInv, QueueInv, SendInv, Next, NEW n \in 1..MaxWrite, Write(n)
  PROVE  SendInv'
<1>1. /\ rec'.sent = rec.sent /\ rec'.active = rec.active /\ rec'.tid = rec.tid /\ wk' = wk /\ l2c' = l2c
      /\ Line' = Line /\ app' = app
  BY WriteQueue DEF Write, Line
<1>2. rec.tid \in Transfers /\ Mine.closed = "no"
  BY WriteLive
<1>3. Mine'.tried = Mine.tried + n /\ Mine'.closed = Mine.closed
  BY <1>1, Recorded DEF Mine
<1>4. Rest' = Rest /\ Sent' = Sent /\ (Live' <=> Live)
  BY <1>1 DEF Rest, Sent, Held, Live
<1>5. (Untouched(rec.tid)' <=> Untouched(rec.tid)) /\ Edge(rec.tid)' = Edge(rec.tid)
  BY <1>1, SameLine
<1>6. /\ \A i \in DOMAIN Rest' : Rest'[i] = <<rec'.tid, Sent' + i>>
      /\ wk'.pc = "delay" => (rec'.sent = 0 /\ Untouched(rec.tid)')
      /\ (Live' /\ wk'.pc # "delay" /\ l2c'.chan) => Edge(rec.tid)' = Sent' + 1
  BY <1>1, <1>4, <1>5 DEF SendInv
<1>7. CASE ~rec.active
  <2>1. wk'.pc = "free" /\ wk'.chunk = <<>>
    BY <1>1, <1>7 DEF ControlInv
  <2> QED BY <2>1, SendResting
<1>8. CASE rec.active /\ rec'.truncated
  <2>1. rec'.q = rec.q /\ From(1)' = From(1)
    BY <1>8, WriteQueue
  <2>2. Live' => (rec'.q # <<>> => From(1)' = Sent' + Len(Rest)' + 1)
    BY <1>4, <2>1 DEF SendInv
  <2>3. ~(wk'.pc \in {"end", "done"} /\ wk'.ok)
    BY <1>1, <1>2 DEF SendInv
  <2> QED BY <1>6, <1>8, <2>2, <2>3 DEF SendInv
<1>9. CASE rec.active /\ ~rec'.truncated
  <2>1. /\ ~rec.truncated /\ rec'.q # <<>> /\ Past(Len(rec.q))' = Mine.tried + n + 1
        /\ From(1)' = IF rec.q = <<>> THEN Mine.tried + 1 ELSE From(1)
    BY <1>9, WriteQueue
  <2>2. Live /\ Mine.tried = IF rec.q = <<>> THEN Sent + Len(Rest) ELSE Past(Len(rec.q)) - 1
    BY <1>9, <2>1, WriteLive
  <2>3. From(1)' = Sent' + Len(Rest)' + 1
    <3>1. CASE rec.q = <<>>
      BY <1>4, <2>1, <2>2, <3>1
    <3>2. CASE rec.q # <<>>
      BY <1>4, <2>1, <2>2, <3>2 DEF SendInv
    <3> QED BY <3>1, <3>2
  <2>4. Mine'.tried = Past(Len(rec.q))' - 1
    <3>1. Mine.tried \in Nat
      BY <1>2, Parts DEF Mine
    <3>2. n \in Nat
      BY UplinkAssumption
    <3> QED BY <1>3, <2>1, <3>1, <3>2
  <2>5. wk'.pc \notin {"verdict", "end", "done"}
    BY <1>1, <2>2 DEF Live
  <2> QED BY <1>6, <2>1, <2>3, <2>4, <2>5 DEF SendInv
<1> QED BY <1>7, <1>8, <1>9

LEMMA SendStep ==
  ASSUME TypeOK, ControlInv, CloseInv, QueueInv, SendInv, LineInv, NoGap, Next
  PROVE  SendInv'
<1>a. rec \in Streams /\ wk \in Tasks /\ rec.sent \in Nat
  BY Types, Parts
<1>1. CASE WorkerStep
  BY <1>1, WorkerSend
<1>2. CASE StartReset
  <2>1. wk'.pc = "free" /\ wk'.chunk = <<>>
    BY <1>2, ApiMoves DEF ControlInv
  <2> QED BY <2>1, SendResting
<1>3. CASE Activate
  <2>1. api.pc = "activate" /\ wk.pc = "free" /\ wk.chunk = <<>>
    BY <1>3, ApiMoves DEF ControlInv
  <2>2. CASE wk' = wk
    BY <2>1, <2>2, SendResting
  <2>3. CASE wk' # wk
    <3>1. wk'.pc = "delay" /\ wk'.chunk = <<>> /\ ~wk'.ok /\ rec'.q = rec.q /\ rec'.sent = rec.sent /\ rec'.tid = rec.tid
          /\ board' = board /\ app' = app /\ air' = air /\ l2c' = l2c
      BY <1>3, <1>a, <2>3 DEF Activate, Worker0, Streams
    <3>2. rec.q = <<>> /\ rec.sent = 0 /\ Mine.tried = 0 /\ Untouched(rec.tid)
      BY <2>1 DEF CloseInv
    <3>3. Rest' = <<>> /\ Sent' = 0 /\ Len(<<>>) = 0 /\ DOMAIN <<>> = {}
      BY <3>1, <3>2 DEF Rest, Sent, Held
    <3>4. Mine' = Mine /\ Line' = Line
      BY <3>1 DEF Mine, Line
    <3>5. Untouched(rec.tid)'
      BY <3>1, <3>2, <3>4 DEF Untouched
    <3>6. ~rec'.truncated => Mine'.tried = IF rec'.q = <<>> THEN Sent' + Len(Rest)' ELSE Past(Len(rec.q))' - 1
      BY <3>1, <3>2, <3>3, <3>4
    <3>7. \A i \in DOMAIN Rest' : Rest'[i] = <<rec'.tid, Sent' + i>>
      BY <3>3
    <3> QED BY <3>1, <3>2, <3>5, <3>6, <3>7 DEF SendInv
  <2> QED BY <2>2, <2>3
<1>4. CASE \E n \in 1..MaxWrite : Write(n)
  BY <1>4, WriteSend
<1>5. CASE ~WorkerStep /\ ~StartReset /\ ~Activate /\ ~(\E n \in 1..MaxWrite : Write(n))
  <2>1. rec'.sent = rec.sent /\ (~rec'.truncated => ~rec.truncated) /\ wk' = wk
        /\ ((Live /\ wk.pc # "delay" /\ l2c'.chan) => l2c.chan)
    BY <1>5, OthersKeep
  <2>2. rec'.q = rec.q /\ rec'.tid = rec.tid
    BY <1>5, QueueKept DEF WorkerStep
  <2>3. Mine'.tried = Mine.tried /\ (Mine.closed # "no" => Mine'.closed = Mine.closed)
    <3>1. ASSUME NEW c \in BOOLEAN, Close(c) PROVE Mine'.tried = Mine.tried /\ Mine.closed = "no"
      BY <2>2, <3>1, Recorded DEF Mine, CloseInv
    <3>2. CASE ~(\E c \in BOOLEAN : Close(c))
      BY <1>5, <2>2, <3>2, BoardKept DEF Mine
    <3> QED BY <3>1, <3>2
  <2>4. ~Send /\ ~SendStalls
    BY <1>5 DEF WorkerStep
  <2>5. CASE ChannelDown
    <3>1. ~l2c'.chan
      BY <2>5, Types DEF ChannelDown, Links
    <3>2. Untouched(rec.tid) => Untouched(rec.tid)'
      BY <2>2, <2>5, LineLost
    <3> QED BY <2>1, <2>2, <2>3, <3>1, <3>2, SendSame
  <2>6. CASE Receive
    <3>1. Edge(rec.tid)' = Edge(rec.tid)
      BY <2>6, LineTail
    <3>2. (wk.pc = "delay" /\ Untouched(rec.tid)) => Untouched(rec.tid)'
      <4>1. wk.pc = "delay" => rec.tid \in Transfers
        BY DEF ControlInv
      <4> QED BY <2>2, <2>6, <4>1, LineTail
    <3> QED BY <2>1, <2>2, <2>3, <3>1, <3>2, SendSame
  <2>7. CASE ~ChannelDown /\ ~Receive
    <3>1. Line' = Line /\ app'.got = app.got
      BY <2>4, <2>7, LineKept
    <3>2. (Untouched(rec.tid) => Untouched(rec.tid)') /\ Edge(rec.tid)' = Edge(rec.tid)
      BY <2>2, <3>1, SameLine
    <3> QED BY <2>1, <2>2, <2>3, <3>2, SendSame
  <2> QED BY <2>5, <2>6, <2>7
<1> QED BY <1>1, <1>2, <1>3, <1>4, <1>5

-----------------------------------------------------------------------------
(* What the App is told *)

\* The board adds nothing to a transfer it has closed as complete.
LEMMA ClosedKept ==
  ASSUME TypeOK, ControlInv, CloseInv, Next, NEW t \in Transfers, board[t].closed = "whole"
  PROVE  board'[t] = board[t]
<1>1. CASE t # rec.tid \/ (~(\E n \in 1..MaxWrite : Write(n)) /\ ~(\E c \in BOOLEAN : Close(c)))
  BY <1>1, BoardKept
<1>2. CASE t = rec.tid /\ ((\E n \in 1..MaxWrite : Write(n)) \/ (\E c \in BOOLEAN : Close(c)))
  BY <1>2, Recorded DEF CloseInv, Mine
<1> QED BY <1>1, <1>2

\* Announce, EndEvent, LinkDown and Hear change what is under way.
LEMMA EventsKept ==
  ASSUME Next, ~Announce, ~EndEvent, ~LinkDown, ~Hear
  PROVE  ev' = ev
BY DEF Next, ApiStep, StartReset, AnnounceFails, Activate, OpenSlot, BoardStep, BoardOpen, Write, Close,
       WorkerStep, StartDelay, LoopTop, LoopDown, Drained, Pop, ChunkDone, Send, SendStalls, MarkStalled, SendNoBuffer,
       SendLost, StallTimeout, Verdict, EndEventFails, WorkerDone, HostStep, ChannelUp, ChannelDown, LinkUp, Grant, Receive

\* An event is true of the board as long as the transfer it ends is closed.
LEMMA EventStep ==
  ASSUME TypeOK, ControlInv, CloseInv, SendInv, EventInv, Next
  PROVE  EventInv'
<1>a. ev \in Seq(Events) /\ wk \in Tasks
  BY Types
<1>b. ASSUME NEW e \in Events, ~e.start, e.ok, board[e.tid].closed = "whole" /\ e.valid = board[e.tid].tried
      PROVE  board'[e.tid].closed = "whole" /\ e.valid = board'[e.tid].tried
  BY <1>b, ClosedKept DEF Events
<1>c. ASSUME NEW i \in DOMAIN ev, ~ev[i].start, ev[i].ok
      PROVE  board'[ev[i].tid].closed = "whole" /\ ev[i].valid = board'[ev[i].tid].tried
  <2>1. ev[i] \in Events
    BY <1>a
  <2> QED BY <1>b, <1>c, <2>1 DEF EventInv
<1>1. CASE Announce \/ EndEvent
  <2>1. PICK e \in Events : ev' = Append(ev, e) /\ (~e.start /\ e.ok => board'[e.tid].closed = "whole" /\ e.valid = board'[e.tid].tried)
    <3>1. CASE Announce
      <4>1. rec.tid \in Transfers
        BY <3>1 DEF Announce, ControlInv
      <4>2. [start |-> TRUE, tid |-> rec.tid, ok |-> FALSE, valid |-> 0] \in Events
        BY <4>1 DEF Events
      <4> QED BY <3>1, <4>2 DEF Announce
    <3>2. CASE EndEvent
      <4> DEFINE e == [start |-> FALSE, tid |-> rec.tid, ok |-> wk.ok, valid |-> rec.sent]
      <4>1. wk.pc = "end" /\ rec.tid \in Transfers /\ wk.ok \in BOOLEAN /\ rec.sent \in Nat
        BY <3>2, Parts DEF EndEvent, At, ControlInv
      <4>2. e \in Events /\ ev' = Append(ev, e) /\ board' = board /\ e.ok = wk.ok /\ e.tid = rec.tid /\ e.valid = rec.sent
        BY <3>2, <4>1 DEF EndEvent, Events
      <4>3. wk.ok => (rec.sent = Mine.tried /\ Mine.closed = "whole")
        BY <4>1 DEF SendInv
      <4> HIDE DEF e
      <4>4. ~e.start /\ e.ok => board'[e.tid].closed = "whole" /\ e.valid = board'[e.tid].tried
        BY <4>2, <4>3 DEF Mine
      <4> QED BY <4>2, <4>4
    <3> QED BY <1>1, <3>1, <3>2
  <2>2. Len(ev) \in Nat /\ Len(ev') = Len(ev) + 1 /\ ev'[Len(ev) + 1] = e /\ (\A i \in 1..Len(ev) : ev'[i] = ev[i])
        /\ ev' \in Seq(Events)
    BY <1>a, <2>1, Ap
  <2>3. ASSUME NEW i \in DOMAIN ev' PROVE i = Len(ev) + 1 \/ i \in DOMAIN ev
    BY <1>a, <2>2
  <2> SUFFICES ASSUME NEW i \in DOMAIN ev', ~ev'[i].start, ev'[i].ok
               PROVE board'[ev'[i].tid].closed = "whole" /\ ev'[i].valid = board'[ev'[i].tid].tried
    BY DEF EventInv
  <2>4. CASE i = Len(ev) + 1
    BY <2>1, <2>2, <2>4
  <2>5. CASE i \in DOMAIN ev
    <3>1. ev'[i] = ev[i]
      BY <1>a, <2>2, <2>5
    <3> QED BY <1>c, <2>5, <3>1
  <2> QED BY <2>3, <2>4, <2>5
<1>2. CASE LinkDown
  <2>1. ev' = <<>> /\ DOMAIN <<>> = {}
    BY <1>2 DEF LinkDown
  <2> QED BY <2>1 DEF EventInv
<1>3. CASE Hear
  <2>1. ev' = Tail(ev) /\ ev # <<>>
    BY <1>3 DEF Hear
  <2>2. Tail(ev) \in Seq(Events) /\ \A i \in 1..Len(Tail(ev)) : Tail(ev)[i] = ev[i + 1] /\ i + 1 \in 1..Len(ev)
    BY <1>a, <2>1, Tl
  <2>3. \A i \in DOMAIN ev' : ev'[i] = ev[i + 1] /\ i + 1 \in DOMAIN ev
    BY <1>a, <2>1, <2>2
  <2> SUFFICES ASSUME NEW i \in DOMAIN ev', ~ev'[i].start, ev'[i].ok
               PROVE board'[ev'[i].tid].closed = "whole" /\ ev'[i].valid = board'[ev'[i].tid].tried
    BY DEF EventInv
  <2> QED BY <1>c, <2>3
<1>4. CASE ~Announce /\ ~EndEvent /\ ~LinkDown /\ ~Hear
  <2>1. ev' = ev
    BY <1>4, EventsKept
  <2> QED BY <1>c, <2>1 DEF EventInv
<1> QED BY <1>1, <1>2, <1>3, <1>4

LEMMA WholeStep ==
  ASSUME TypeOK, ControlInv, CloseInv, EventInv, WholeMeansWhole, Next
  PROVE  WholeMeansWhole'
<1>a. ev \in Seq(Events) /\ app \in Apps
  BY Types
<1> SUFFICES ASSUME NEW t \in Transfers, app'.end[t].told, app'.end[t].ok
             PROVE board'[t].closed = "whole" /\ app'.end[t].valid = board'[t].tried
  BY DEF WholeMeansWhole
<1>1. CASE app'.end[t] = app.end[t]
  <2>1. board[t].closed = "whole" /\ app.end[t].valid = board[t].tried
    BY <1>1 DEF WholeMeansWhole
  <2> QED BY <1>1, <2>1, ClosedKept
<1>2. CASE app'.end[t] # app.end[t]
  <2>1. Hear
    <3>1. CASE Receive \/ LinkDown
      <4>1. app'.end = app.end
        BY <3>1, <1>a DEF Receive, LinkDown, Apps
      <4> QED BY <1>2, <4>1
    <3>2. CASE ~Receive /\ ~LinkDown /\ ~Hear
      <4>1. app' = app
        BY <3>2 DEF Next, ApiStep, StartReset, Announce, AnnounceFails, Activate, OpenSlot, BoardStep, BoardOpen, Write, Close,
             WorkerStep, StartDelay, LoopTop, LoopDown, Drained, Pop, ChunkDone, Send, SendStalls, MarkStalled, SendNoBuffer,
             SendLost, StallTimeout, Verdict, EndEvent, EndEventFails, WorkerDone, HostStep, ChannelUp, ChannelDown, LinkUp, Grant
      <4> QED BY <1>2, <4>1
    <3> QED BY <3>1, <3>2
  <2>2. Head(ev) \in Events /\ Head(ev) = ev[1] /\ 1 \in DOMAIN ev /\ board' = board
    <3>1. ev # <<>> /\ board' = board
      BY <2>1 DEF Hear
    <3> QED BY <1>a, <3>1, Tl
  <2>3. ~Head(ev).start /\ t = Head(ev).tid /\ app'.end[t] = [told |-> TRUE, ok |-> Head(ev).ok, valid |-> Head(ev).valid]
    <3>1. CASE Head(ev).start
      <4>1. app'.end = app.end
        BY <2>1, <3>1, <1>a DEF Hear, Apps
      <4> QED BY <1>2, <4>1
    <3>2. CASE ~Head(ev).start
      <4>1. app'.end = [app.end EXCEPT ![Head(ev).tid] = [told |-> TRUE, ok |-> Head(ev).ok, valid |-> Head(ev).valid]]
        BY <2>1, <3>2, <1>a DEF Hear, Apps
      <4>2. app.end \in [Transfers -> [told : BOOLEAN, ok : BOOLEAN, valid : Nat]]
        BY <1>a DEF Apps
      <4> QED BY <1>2, <3>2, <4>1, <4>2
    <3> QED BY <3>1, <3>2
  <2>4. ev[1].ok /\ app'.end[t].valid = ev[1].valid
    BY <2>2, <2>3
  <2> QED BY <2>2, <2>3, <2>4 DEF EventInv
<1> QED BY <1>1, <1>2

-----------------------------------------------------------------------------
(* Whose bytes they are *)

\* The units under way to the App.
Out == {Line[i] : i \in DOMAIN Line}
\* The App is told of the end of transfer t, or will be.
Ends(t) == app.end[t].told \/ \E i \in DOMAIN ev : ~ev[i].start /\ ev[i].tid = t
\* The App will be told of the start of the present transfer.
Starts == \E i \in DOMAIN ev : ev[i].start /\ ev[i].tid = rec.tid
\* The worker is past its delay and has not told the end yet.
Working == wk.pc \in {"top", "pop", "send", "mark", "verdict", "end"}

\* The events under way are in the order of the transfers, an end behind its start, and none is told twice.
OrderInv ==
  /\ \A i, j \in DOMAIN ev : i < j =>
       IF ev[i].start /\ ~ev[j].start THEN ev[i].tid <= ev[j].tid ELSE ev[i].tid < ev[j].tid
  /\ \A i \in DOMAIN ev :
       /\ ev[i].tid <= rec.tid /\ app.session <= ev[i].tid
       /\ ev[i].start => app.session < ev[i].tid /\ (ev[i].tid = rec.tid => api.pc # "announce")
       /\ ~ev[i].start => ~app.end[ev[i].tid].told
  /\ app.session <= rec.tid /\ (app.session = rec.tid => api.pc # "announce")
\* The App has the transfer open that the worker sends, or will have before its first byte.
OpenInv ==
  /\ \A t \in Transfers : Ends(t) =>
       /\ t <= rec.tid
       /\ t = rec.tid => wk.pc \in {"done", "free"} /\ api.pc \notin {"announce", "activate"}
  /\ l2c.link /\ (api.pc = "activate" \/ wk.pc = "delay") => app.session = rec.tid \/ Starts
  /\ l2c.link /\ Working => app.session = rec.tid
  /\ l2c.chan => l2c.link
  /\ ~l2c.chan => Out = {}
\* Whose a unit is, the App knows: its transfer is being sent, or is open until the end event under
\* way, which counts the unit, is heard; or that event was heard, or will never be.
Known(u) ==
  \/ u[1] = rec.tid /\ Working /\ u[2] <= Sent
  \/ app.session = u[1] /\ \E i \in DOMAIN ev : ~ev[i].start /\ ev[i].tid = u[1] /\ u[2] <= ev[i].valid
  \/ app.end[u[1]].told /\ u[2] <= app.end[u[1]].valid
  \/ Unended(u[1])
KnownInv == \A u \in Out : Known(u)

\* The inductive invariant of Attributable, on top of IInv.
AInv == OrderInv /\ OpenInv /\ KnownInv

\* An event in the queue, its fields.
LEMMA EventTyped ==
  ASSUME TypeOK
  PROVE  /\ ev \in Seq(Events) /\ DOMAIN ev = 1..Len(ev) /\ Len(ev) \in Nat
         /\ \A i \in DOMAIN ev : ev[i] \in Events /\ ev[i].tid \in Transfers /\ ev[i].tid \in Nat /\ ev[i].tid > 0
                                 /\ ev[i].start \in BOOLEAN /\ ev[i].valid \in Nat /\ i \in Nat
         /\ app.session \in Nat /\ rec.tid \in Nat
         /\ \A t \in Transfers : app.end[t].told \in BOOLEAN /\ app.end[t].valid \in Nat /\ t \in Nat /\ t > 0
<1>1. ev \in Seq(Events) /\ app \in Apps /\ rec.tid \in Nat /\ MaxTransfers \in Nat
  BY Types, Parts, UplinkAssumption
<1>2. \A t \in Transfers : t \in Nat /\ t > 0
  BY <1>1 DEF Transfers
<1>3. \A e \in Events : e.tid \in Transfers /\ e.start \in BOOLEAN /\ e.valid \in Nat
  BY DEF Events
<1>4. app.session \in Nat /\ \A t \in Transfers : app.end[t].told \in BOOLEAN /\ app.end[t].valid \in Nat
  BY <1>1 DEF Apps
<1> QED BY <1>1, <1>2, <1>3, <1>4

\* Only Hear changes what the App was told, and only Hear and a lost link what it has open.
LEMMA AppKept ==
  ASSUME TypeOK, Next, ~Hear
  PROVE  app'.end = app.end /\ (~LinkDown => app'.session = app.session)
<1>a. app \in Apps
  BY Types
<1>1. CASE Receive \/ LinkDown
  BY <1>1, <1>a DEF Receive, LinkDown, Apps
<1>2. CASE ~Receive /\ ~LinkDown
  <2>1. app' = app
    BY <1>2 DEF Next, ApiStep, StartReset, Announce, AnnounceFails, Activate, OpenSlot, BoardStep, BoardOpen, Write, Close,
         WorkerStep, StartDelay, LoopTop, LoopDown, Drained, Pop, ChunkDone, Send, SendStalls, MarkStalled, SendNoBuffer,
         SendLost, StallTimeout, Verdict, EndEvent, EndEventFails, WorkerDone, HostStep, ChannelUp, ChannelDown, LinkUp, Grant
  <2> QED BY <2>1
<1> QED BY <1>1, <1>2

\* What hearing the first event does.
LEMMA Heard ==
  ASSUME TypeOK, Hear
  PROVE  /\ 1 \in DOMAIN ev /\ rec' = rec /\ wk' = wk /\ api' = api /\ l2c' = l2c
         /\ \A i \in DOMAIN ev' : ev'[i] = ev[i + 1] /\ i + 1 \in DOMAIN ev /\ i \in Nat
         /\ \A i \in DOMAIN ev : i = 1 \/ (i - 1 \in DOMAIN ev' /\ ev'[i - 1] = ev[i])
         /\ ev[1].start => app'.session = ev[1].tid /\ app'.end = app.end
         /\ ~ev[1].start =>
              /\ app'.session = IF app.session = ev[1].tid THEN 0 ELSE app.session
              /\ \A t \in Transfers : t # ev[1].tid => app'.end[t] = app.end[t]
              /\ app'.end[ev[1].tid].told /\ app'.end[ev[1].tid].valid = ev[1].valid
<1>a. ev \in Seq(Events) /\ app \in Apps
  BY Types
<1>1. ev' = Tail(ev) /\ ev # <<>>
  BY DEF Hear
<1>2. /\ Tail(ev) \in Seq(Events) /\ Head(ev) = ev[1] /\ Head(ev) \in Events /\ Len(Tail(ev)) = Len(ev) - 1 /\ 1 \in 1..Len(ev)
      /\ \A i \in 1..Len(Tail(ev)) : Tail(ev)[i] = ev[i + 1] /\ i + 1 \in 1..Len(ev)
  BY <1>a, <1>1, Tl
<1>3. \A i \in DOMAIN ev' : ev'[i] = ev[i + 1] /\ i + 1 \in DOMAIN ev /\ i \in Nat
  BY <1>a, <1>1, <1>2
<1>4. \A i \in DOMAIN ev : i = 1 \/ (i - 1 \in DOMAIN ev' /\ ev'[i - 1] = ev[i])
  <2>1. ASSUME NEW i \in 1..Len(ev), i # 1 PROVE i - 1 \in 1..Len(Tail(ev)) /\ (i - 1) + 1 = i
    <3>1. Len(ev) \in Nat
      BY <1>a
    <3> QED BY <1>2, <2>1, <3>1
  <2> QED BY <1>a, <1>1, <1>2, <2>1
<1>5. ev[1] \in Events /\ ev[1].tid \in Transfers
  BY <1>a, <1>2 DEF Events
<1>6. CASE ev[1].start
  BY <1>a, <1>1, <1>2, <1>3, <1>4, <1>6 DEF Hear, Apps
<1>7. CASE ~ev[1].start
  <2>1. app' = [app EXCEPT !.session = IF @ = ev[1].tid THEN 0 ELSE @,
                           !.end[ev[1].tid] = [told |-> TRUE, ok |-> ev[1].ok, valid |-> ev[1].valid]]
    BY <1>2, <1>7 DEF Hear
  <2>2. /\ app'.session = (IF app.session = ev[1].tid THEN 0 ELSE app.session)
        /\ app'.end = [app.end EXCEPT ![ev[1].tid] = [told |-> TRUE, ok |-> ev[1].ok, valid |-> ev[1].valid]]
    BY <1>a, <2>1 DEF Apps
  <2>3. app.end \in [Transfers -> [told : BOOLEAN, ok : BOOLEAN, valid : Nat]]
    BY <1>a DEF Apps
  <2>4. /\ \A t \in Transfers : t # ev[1].tid => app'.end[t] = app.end[t]
        /\ app'.end[ev[1].tid].told /\ app'.end[ev[1].tid].valid = ev[1].valid
    BY <1>5, <2>2, <2>3
  <2> QED BY <1>2, <1>3, <1>4, <1>7, <2>2, <2>4 DEF Hear
<1> QED BY <1>6, <1>7

\* What an event told by the board adds.
LEMMA Told ==
  ASSUME TypeOK, NEW e \in Events, ev' = Append(ev, e)
  PROVE  /\ \A i \in DOMAIN ev' : (i \in DOMAIN ev /\ ev'[i] = ev[i]) \/ (i = Len(ev) + 1 /\ ev'[i] = e)
         /\ \A i \in DOMAIN ev : i \in DOMAIN ev' /\ ev'[i] = ev[i] /\ i < Len(ev) + 1
         /\ Len(ev) + 1 \in DOMAIN ev' /\ ev'[Len(ev) + 1] = e /\ Len(ev) \in Nat
<1>1. ev \in Seq(Events) /\ Len(ev) \in Nat
  BY Types
<1>2. /\ Append(ev, e) \in Seq(Events) /\ Len(Append(ev, e)) = Len(ev) + 1 /\ Append(ev, e)[Len(ev) + 1] = e
      /\ \A i \in 1..Len(ev) : Append(ev, e)[i] = ev[i]
  BY <1>1, Ap
<1>3. DOMAIN ev = 1..Len(ev) /\ DOMAIN ev' = 1..(Len(ev) + 1)
  BY <1>1, <1>2
<1> QED BY <1>1, <1>2, <1>3

\* Where the threads and the link can come from.
LEMMA Moves ==
  ASSUME TypeOK, ControlInv, Next
  PROVE  /\ wk.pc \in {"done", "free"} => wk'.pc \in {"done", "free"} \/ Activate
         /\ wk'.pc = "delay" => wk.pc = "delay" \/ Activate
         /\ Working' => Working \/ StartDelay
         /\ api'.pc = "announce" => StartReset \/ api.pc = "announce"
         /\ api'.pc = "activate" => Announce \/ api.pc = "activate"
         /\ l2c'.link => l2c.link \/ LinkUp
<1>a. wk \in Tasks /\ api \in Calls /\ l2c \in Links
  BY Types
<1>1. CASE ApiStep
  <2>1. l2c' = l2c
    BY <1>1 DEF ApiStep, StartReset, Announce, AnnounceFails, Activate, OpenSlot
  <2>2. /\ api'.pc = "announce" => StartReset \/ api.pc = "announce"
        /\ api'.pc = "activate" => Announce \/ api.pc = "activate"
    BY <1>a, <1>1 DEF ApiStep, StartReset, Announce, AnnounceFails, Activate, OpenSlot, Calls
  <2>3. wk' = wk \/ (Activate /\ wk'.pc = "delay")
    BY <1>1 DEF ApiStep, StartReset, Announce, AnnounceFails, Activate, OpenSlot, Worker0
  <2> QED BY <2>1, <2>2, <2>3 DEF Working
<1>2. CASE BoardStep
  <2>1. l2c' = l2c /\ wk' = wk
    BY <1>2 DEF BoardStep, BoardOpen, Write, Close
  <2>2. api' = api \/ api'.pc = "reset"
    BY <1>a, <1>2 DEF BoardStep, BoardOpen, Write, Close, Calls
  <2> QED BY <2>1, <2>2 DEF Working
<1>3. CASE WorkerStep
  <2>1. api' = api
    BY <1>3 DEF WorkerStep, StartDelay, LoopTop, LoopDown, Drained, Pop, ChunkDone, Send, SendStalls, MarkStalled, SendNoBuffer,
         SendLost, StallTimeout, Verdict, EndEvent, EndEventFails, WorkerDone
  <2>2. l2c'.link = l2c.link
    BY <1>a, <1>3 DEF WorkerStep, StartDelay, LoopTop, LoopDown, Drained, Pop, ChunkDone, Send, SendStalls, MarkStalled, SendNoBuffer,
         SendLost, StallTimeout, Verdict, EndEvent, EndEventFails, WorkerDone, Links
  <2>3. wk'.pc # "delay" /\ wk.pc # "free" /\ (wk.pc = "done" => wk'.pc = "free") /\ (Working' => Working \/ StartDelay)
    <3>1. CASE StartDelay \/ LoopTop \/ LoopDown \/ Drained
      BY <1>a, <3>1 DEF StartDelay, LoopTop, LoopDown, Drained, At, Goto, Truncate, Tasks, Working
    <3>2. CASE Pop \/ ChunkDone \/ Send \/ SendStalls \/ MarkStalled
      BY <1>a, <3>2 DEF Pop, ChunkDone, Send, SendStalls, MarkStalled, Sending, At, Goto, Tasks, Working
    <3>3. CASE SendNoBuffer \/ SendLost \/ StallTimeout
      BY <1>a, <3>3 DEF SendNoBuffer, SendLost, StallTimeout, Sending, Truncate, At, Tasks, Working
    <3>4. CASE Verdict \/ EndEvent
      BY <1>a, <3>4 DEF Verdict, EndEvent, At, Goto, Tasks, Working
    <3>5. CASE EndEventFails
      <4>1. wk.pc = "end" /\ wk'.pc \in {"end", "done"}
        BY <1>a, <3>5 DEF EndEventFails, At, Tasks
      <4> QED BY <4>1 DEF Working
    <3>6. CASE WorkerDone
      <4>1. wk.pc = "done" /\ wk'.pc = "free"
        BY <3>6 DEF WorkerDone, Worker0, At
      <4> QED BY <4>1 DEF Working
    <3> QED BY <1>3, <3>1, <3>2, <3>3, <3>4, <3>5, <3>6 DEF WorkerStep
  <2> QED BY <2>1, <2>2, <2>3
<1>4. CASE HostStep \/ Hear \/ Receive
  <2>1. wk' = wk /\ api' = api
    BY <1>4 DEF HostStep, ChannelUp, ChannelDown, LinkDown, LinkUp, Grant, Hear, Receive
  <2>2. l2c'.link => l2c.link \/ LinkUp
    BY <1>a, <1>4 DEF HostStep, ChannelUp, ChannelDown, LinkDown, LinkUp, Grant, Hear, Receive, Links
  <2> QED BY <2>1, <2>2 DEF Working
<1> QED BY <1>1, <1>2, <1>3, <1>4 DEF Next

\* The order of the events.
LEMMA OrderStep ==
  ASSUME TypeOK, ControlInv, OrderInv, OpenInv, Next
  PROVE  OrderInv'
<1>t. /\ DOMAIN ev = 1..Len(ev) /\ Len(ev) \in Nat
      /\ \A i \in DOMAIN ev : ev[i] \in Events /\ ev[i].tid \in Transfers /\ ev[i].tid \in Nat /\ ev[i].tid > 0
                              /\ ev[i].start \in BOOLEAN /\ i \in Nat
      /\ app.session \in Nat /\ rec.tid \in Nat
  BY EventTyped
<1>1. CASE ~Announce /\ ~EndEvent /\ ~LinkDown /\ ~Hear
  <2>1. ev' = ev /\ app'.session = app.session /\ app'.end = app.end
    BY <1>1, EventsKept, AppKept
  <2>2. CASE StartReset
    <3>1. rec'.tid = rec.tid + 1
      BY <2>2, TidStep
    <3>2. \A n \in Nat : n <= rec.tid => n <= rec'.tid /\ n # rec'.tid
      BY <1>t, <3>1
    <3> QED BY <1>t, <2>1, <3>2 DEF OrderInv
  <2>3. CASE ~StartReset
    <3>1. rec'.tid = rec.tid /\ (api'.pc = "announce" => api.pc = "announce")
      BY <2>3, TidStep, Moves
    <3> QED BY <2>1, <3>1 DEF OrderInv
  <2> QED BY <2>2, <2>3
<1>2. CASE LinkDown
  <2>1. ev' = <<>> /\ DOMAIN <<>> = {} /\ app'.session = 0 /\ rec'.tid = rec.tid /\ api' = api
    BY <1>2, Types DEF LinkDown, Broken, Streams, Apps
  <2>2. api.pc = "announce" => 0 # rec.tid
    BY <1>t, EventTyped DEF ControlInv
  <2> QED BY <1>t, <2>1, <2>2 DEF OrderInv
<1>3. CASE Announce \/ EndEvent
  <2>1. PICK e \in Events : /\ ev' = Append(ev, e) /\ e.tid = rec.tid /\ e.tid \in Nat
                            /\ \A i \in DOMAIN ev : IF ev[i].start /\ ~e.start THEN ev[i].tid <= e.tid ELSE ev[i].tid < e.tid
                            /\ app.session <= e.tid /\ (e.start => app.session < e.tid)
                            /\ ~e.start => ~app.end[e.tid].told
                            /\ rec' = rec /\ app' = app /\ api'.pc # "announce"
    <3>1. CASE Announce
      <4>0. api.pc = "announce" /\ rec.tid \in Transfers /\ api'.pc = "activate"
        BY <3>1, Types DEF Announce, ControlInv, Calls
      <4> DEFINE e == [start |-> TRUE, tid |-> rec.tid, ok |-> FALSE, valid |-> 0]
      <4>1. e \in Events /\ e.start /\ e.tid = rec.tid /\ ev' = Append(ev, e)
        BY <3>1, <4>0 DEF Announce, Events
      <4> HIDE DEF e
      <4>2. \A i \in DOMAIN ev : ev[i].tid # rec.tid
        <5>1. \A i \in DOMAIN ev : ~ev[i].start => ev[i].tid # rec.tid
          BY <1>t, <4>0 DEF OpenInv, Ends
        <5> QED BY <4>0, <5>1 DEF OrderInv
      <4>3. \A i \in DOMAIN ev : ev[i].tid < rec.tid
        BY <1>t, <4>2 DEF OrderInv
      <4>4. app.session < rec.tid
        BY <1>t, <4>0 DEF OrderInv
      <4> QED BY <1>t, <3>1, <4>0, <4>1, <4>3, <4>4 DEF Announce
    <3>2. CASE EndEvent
      <4>0. wk.pc = "end" /\ rec.tid \in Transfers /\ api' = api /\ api.pc \in {"idle", "slot"} /\ wk.ok \in BOOLEAN /\ rec.sent \in Nat
        BY <3>2, Parts DEF EndEvent, At, ControlInv
      <4> DEFINE e == [start |-> FALSE, tid |-> rec.tid, ok |-> wk.ok, valid |-> rec.sent]
      <4>1. e \in Events /\ ~e.start /\ e.tid = rec.tid /\ ev' = Append(ev, e)
        BY <3>2, <4>0 DEF EndEvent, Events
      <4> HIDE DEF e
      <4>2. ~Ends(rec.tid)
        BY <4>0 DEF OpenInv
      <4>3. \A i \in DOMAIN ev : IF ev[i].start THEN ev[i].tid <= rec.tid ELSE ev[i].tid < rec.tid
        BY <1>t, <4>2 DEF Ends, OrderInv
      <4> QED BY <1>t, <3>2, <4>0, <4>1, <4>2, <4>3 DEF EndEvent, Ends, OrderInv
    <3> QED BY <1>3, <3>1, <3>2
  <2>2. /\ \A i \in DOMAIN ev' : (i \in DOMAIN ev /\ ev'[i] = ev[i]) \/ (i = Len(ev) + 1 /\ ev'[i] = e)
        /\ \A i \in DOMAIN ev : i < Len(ev) + 1
    BY <2>1, Told
  <2>3. ASSUME NEW i \in DOMAIN ev', NEW j \in DOMAIN ev', i < j
        PROVE  IF ev'[i].start /\ ~ev'[j].start THEN ev'[i].tid <= ev'[j].tid ELSE ev'[i].tid < ev'[j].tid
    <3>1. i \in DOMAIN ev /\ ev'[i] = ev[i]
      BY <1>t, <2>2, <2>3
    <3>2. CASE j \in DOMAIN ev /\ ev'[j] = ev[j]
      BY <2>3, <3>1, <3>2 DEF OrderInv
    <3>3. CASE ev'[j] = e
      BY <2>1, <3>1, <3>3
    <3> QED BY <2>2, <3>2, <3>3
  <2>4. ASSUME NEW i \in DOMAIN ev'
        PROVE  /\ ev'[i].tid <= rec'.tid /\ app'.session <= ev'[i].tid
               /\ ev'[i].start => app'.session < ev'[i].tid
               /\ ~ev'[i].start => ~app'.end[ev'[i].tid].told
    <3>1. CASE i \in DOMAIN ev /\ ev'[i] = ev[i]
      BY <2>1, <3>1 DEF OrderInv
    <3>2. CASE ev'[i] = e
      BY <2>1, <3>2
    <3> QED BY <2>2, <3>1, <3>2
  <2>5. app'.session <= rec'.tid
    BY <2>1
  <2> QED BY <2>1, <2>3, <2>4, <2>5 DEF OrderInv
<1>4. CASE Hear
  <2>1. /\ 1 \in DOMAIN ev /\ rec' = rec /\ api' = api
        /\ \A i \in DOMAIN ev' : ev'[i] = ev[i + 1] /\ i + 1 \in DOMAIN ev /\ i \in Nat
        /\ ev[1].start => app'.session = ev[1].tid /\ app'.end = app.end
        /\ ~ev[1].start =>
             /\ app'.session = IF app.session = ev[1].tid THEN 0 ELSE app.session
             /\ \A t \in Transfers : t # ev[1].tid => app'.end[t] = app.end[t]
    BY <1>4, Heard
  <2>2. ASSUME NEW i \in DOMAIN ev', NEW j \in DOMAIN ev', i < j
        PROVE  IF ev'[i].start /\ ~ev'[j].start THEN ev'[i].tid <= ev'[j].tid ELSE ev'[i].tid < ev'[j].tid
    <3>1. i + 1 < j + 1 /\ i + 1 \in DOMAIN ev /\ j + 1 \in DOMAIN ev
      BY <2>1, <2>2
    <3> QED BY <2>1, <3>1 DEF OrderInv
  <2>3. ASSUME NEW i \in DOMAIN ev'
        PROVE  /\ ev'[i].tid <= rec'.tid /\ app'.session <= ev'[i].tid
               /\ ev'[i].start => app'.session < ev'[i].tid /\ (ev'[i].tid = rec'.tid => api'.pc # "announce")
               /\ ~ev'[i].start => ~app'.end[ev'[i].tid].told
    <3> DEFINE j == i + 1
    <3>0. i \in Nat /\ i >= 1
      <4>1. ev' \in Seq(Events)
        BY <1>4, Types, Tl DEF Hear
      <4> QED BY <4>1
    <3>1. j \in DOMAIN ev /\ ev'[i] = ev[j] /\ 1 < j
      BY <2>1, <3>0
    <3> HIDE DEF j
    <3>2. IF ev[1].start /\ ~ev[j].start THEN ev[1].tid <= ev[j].tid ELSE ev[1].tid < ev[j].tid
      BY <2>1, <3>1 DEF OrderInv
    <3>3. /\ ev[j].tid <= rec.tid /\ app.session <= ev[j].tid
          /\ ev[j].start => app.session < ev[j].tid /\ (ev[j].tid = rec.tid => api.pc # "announce")
          /\ ~ev[j].start => ~app.end[ev[j].tid].told
      BY <3>1 DEF OrderInv
    <3>4. CASE ev[1].start
      <4>1. app'.session = ev[1].tid /\ app'.end = app.end /\ rec' = rec /\ api' = api
        BY <2>1, <3>4
      <4>2. ev[1].tid <= ev[j].tid /\ (ev[j].start => ev[1].tid < ev[j].tid)
        <5>1. \A a, b \in Nat : a < b => a <= b
          OBVIOUS
        <5> QED BY <1>t, <2>1, <3>1, <3>2, <3>4, <5>1
      <4> QED BY <3>1, <3>3, <4>1, <4>2
    <3>5. CASE ~ev[1].start
      <4>1. ev[1].tid # ev[j].tid
        BY <1>t, <2>1, <3>1, <3>2, <3>5
      <4>2. app'.session \in {0, app.session}
        BY <2>1, <3>5
      <4>3. app'.end[ev[j].tid] = app.end[ev[j].tid]
        BY <1>t, <2>1, <3>1, <3>5, <4>1
      <4>4. app'.session <= ev[j].tid /\ (ev[j].start => app'.session < ev[j].tid)
        BY <1>t, <3>1, <3>3, <4>2
      <4> QED BY <2>1, <3>1, <3>3, <4>3, <4>4
    <3> QED BY <3>4, <3>5
  <2>4. app'.session <= rec'.tid /\ (app'.session = rec'.tid => api'.pc # "announce")
    <3>1. CASE ev[1].start
      BY <2>1, <3>1 DEF OrderInv
    <3>2. CASE ~ev[1].start
      <4>1. api.pc = "announce" => rec.tid # 0
        BY EventTyped DEF ControlInv
      <4> QED BY <1>t, <2>1, <3>2, <4>1 DEF OrderInv
    <3> QED BY <3>1, <3>2
  <2> QED BY <2>2, <2>3, <2>4 DEF OrderInv
<1> QED BY <1>1, <1>2, <1>3, <1>4

\* What is under way after a step: what was, less what was lost or arrived, and what was sent.
LEMMA OutStep ==
  ASSUME TypeOK, ControlInv, SendInv, Next
  PROVE  /\ Out' \subseteq Out \/ Send \/ SendStalls
         /\ Send \/ SendStalls => Out' \subseteq Out \cup {<<rec.tid, rec.sent + 1>>} /\ l2c'.chan
         /\ ChannelDown => Out' = {}
<1>0. Line \in Seq(Units)
  BY LineTyped
<1>1. CASE Send \/ SendStalls
  <2>1. Line' = Append(Line, <<rec.tid, rec.sent + 1>>) /\ rec.tid \in Transfers /\ rec.sent \in Nat
    BY <1>1, LineSent, Parts
  <2>2. <<rec.tid, rec.sent + 1>> \in Units
    BY <2>1 DEF Units, Numbers
  <2>3. Out' \subseteq Out \cup {<<rec.tid, rec.sent + 1>>}
    BY <1>0, <2>1, <2>2, Ap DEF Out
  <2>4. l2c'.chan /\ ~ChannelDown
    <3>1. l2c.chan /\ l2c'.chan = l2c.chan
      BY <1>1, Types DEF Send, SendStalls, Sending, Links
    <3> QED BY <3>1, Types DEF ChannelDown, Links
  <2> QED BY <1>1, <2>3, <2>4
<1>2. CASE ChannelDown
  <2>1. air' = <<>> /\ l2c'.pend = <<>> /\ ~l2c'.chan
    BY <1>2, Types DEF ChannelDown, Links
  <2>2. Line' = <<>> /\ DOMAIN Line' = {}
    BY <2>1 DEF Line
  <2>3. ~(Send \/ SendStalls)
    <3>1. Send \/ SendStalls => l2c.chan /\ l2c'.chan = l2c.chan
      BY Types DEF Send, SendStalls, Sending, Links
    <3> QED BY <2>1, <3>1
  <2> QED BY <2>2, <2>3 DEF Out
<1>3. CASE Receive /\ ~Send /\ ~SendStalls /\ ~ChannelDown
  <2>1. air # <<>> /\ air' = Tail(air) /\ l2c' = l2c /\ air \in Seq(Units) /\ l2c.pend \in Seq(Units)
    BY <1>3, Types, Parts DEF Receive
  <2>2. /\ Tail(air) \in Seq(Units) /\ Len(Tail(air)) = Len(air) - 1
        /\ \A i \in 1..Len(Tail(air)) : Tail(air)[i] = air[i + 1] /\ i + 1 \in 1..Len(air)
    BY <2>1, Tl
  <2>3. /\ Len(Tail(air) \o l2c.pend) = Len(Tail(air)) + Len(l2c.pend) /\ Len(Line) = Len(air) + Len(l2c.pend)
        /\ \A i \in 1..Len(air) : Line[i] = air[i]
        /\ \A i \in (Len(air) + 1)..(Len(air) + Len(l2c.pend)) : Line[i] = l2c.pend[i - Len(air)]
        /\ \A i \in 1..Len(Tail(air)) : (Tail(air) \o l2c.pend)[i] = Tail(air)[i]
        /\ \A i \in (Len(Tail(air)) + 1)..(Len(Tail(air)) + Len(l2c.pend)) : (Tail(air) \o l2c.pend)[i] = l2c.pend[i - Len(Tail(air))]
    BY <2>1, <2>2, ConcatProperties DEF Line
  <2>4. Line' = Tail(air) \o l2c.pend /\ Line' \in Seq(Units)
    BY <2>1, <2>2, ConcatProperties DEF Line
  <2>5. ASSUME NEW i \in DOMAIN Line' PROVE i + 1 \in DOMAIN Line /\ Line'[i] = Line[i + 1]
    <3>0. Len(air) \in Nat /\ Len(l2c.pend) \in Nat /\ Len(Tail(air)) \in Nat /\ Len(Line) \in Nat
      BY <1>0, <2>1, <2>2
    <3>1. i \in 1..(Len(Tail(air)) + Len(l2c.pend)) /\ DOMAIN Line = 1..Len(Line)
      BY <1>0, <2>3, <2>4
    <3>2. i + 1 \in DOMAIN Line
      BY <2>2, <2>3, <3>0, <3>1
    <3>3. CASE i \in 1..Len(Tail(air))
      BY <2>2, <2>3, <2>4, <3>2, <3>3
    <3>4. CASE i \in (Len(Tail(air)) + 1)..(Len(Tail(air)) + Len(l2c.pend))
      <4>1. i + 1 \in (Len(air) + 1)..(Len(air) + Len(l2c.pend)) /\ (i + 1) - Len(air) = i - Len(Tail(air))
        BY <2>2, <3>0, <3>4
      <4>2. Line[i + 1] = l2c.pend[i - Len(Tail(air))]
        BY <2>3, <4>1
      <4>3. Line'[i] = l2c.pend[i - Len(Tail(air))]
        BY <2>3, <2>4, <3>4
      <4> QED BY <3>2, <4>2, <4>3
    <3>5. i \in 1..Len(Tail(air)) \/ i \in (Len(Tail(air)) + 1)..(Len(Tail(air)) + Len(l2c.pend))
      <4>1. \A a, b \in Nat : \A k \in 1..(a + b) : k \in 1..a \/ k \in (a + 1)..(a + b)
        OBVIOUS
      <4> QED BY <3>0, <3>1, <4>1
    <3> QED BY <3>3, <3>4, <3>5
  <2> QED BY <1>3, <2>5 DEF Out
<1>4. CASE ~Send /\ ~SendStalls /\ ~ChannelDown /\ ~Receive
  BY <1>4, LineKept DEF Out
<1> QED BY <1>1, <1>2, <1>3, <1>4

\* What an event of the board says.
LEMMA Telling ==
  ASSUME TypeOK, ControlInv, Announce \/ EndEvent
  PROVE  \E e \in Events : /\ ev' = Append(ev, e) /\ e.tid = rec.tid /\ rec' = rec /\ app' = app
                           /\ Announce => e.start
                           /\ EndEvent => ~e.start /\ e.valid = rec.sent
<1>1. CASE Announce
  <2> DEFINE e == [start |-> TRUE, tid |-> rec.tid, ok |-> FALSE, valid |-> 0]
  <2>1. rec.tid \in Transfers /\ ~EndEvent
    BY <1>1 DEF Announce, ControlInv, EndEvent, At
  <2>2. e \in Events /\ e.start = TRUE /\ e.tid = rec.tid /\ ev' = Append(ev, e) /\ rec' = rec /\ app' = app
    BY <1>1, <2>1 DEF Announce, Events
  <2> HIDE DEF e
  <2> QED BY <2>1, <2>2
<1>2. CASE EndEvent
  <2> DEFINE e == [start |-> FALSE, tid |-> rec.tid, ok |-> wk.ok, valid |-> rec.sent]
  <2>1. rec.tid \in Transfers /\ wk.ok \in BOOLEAN /\ rec.sent \in Nat /\ ~Announce
    BY <1>2, Parts DEF EndEvent, At, ControlInv, Announce
  <2>2. e \in Events /\ e.start = FALSE /\ e.tid = rec.tid /\ e.valid = rec.sent /\ ev' = Append(ev, e) /\ rec' = rec /\ app' = app
    BY <1>2, <2>1 DEF EndEvent, Events
  <2> HIDE DEF e
  <2> QED BY <2>1, <2>2
<1> QED BY <1>1, <1>2

\* Only the end event of the present transfer is news of an end.
LEMMA EndsTold ==
  ASSUME TypeOK, ControlInv, Next, NEW t \in Transfers, Ends(t)', ~Ends(t)
  PROVE  EndEvent /\ t = rec.tid
<1>1. CASE Announce \/ EndEvent
  <2>1. PICK e \in Events : ev' = Append(ev, e) /\ e.tid = rec.tid /\ app' = app /\ (Announce => e.start)
    BY <1>1, Telling
  <2>2. \A i \in DOMAIN ev' : (i \in DOMAIN ev /\ ev'[i] = ev[i]) \/ ev'[i] = e
    BY <2>1, Told
  <2>3. PICK i \in DOMAIN ev' : ~ev'[i].start /\ ev'[i].tid = t
    BY <2>1 DEF Ends
  <2>4. ev'[i] = e
    BY <2>2, <2>3 DEF Ends
  <2> QED BY <1>1, <2>1, <2>3, <2>4
<1>2. CASE Hear
  <2>1. /\ 1 \in DOMAIN ev
        /\ \A i \in DOMAIN ev' : ev'[i] = ev[i + 1] /\ i + 1 \in DOMAIN ev
        /\ ev[1].start => app'.end = app.end
        /\ ~ev[1].start => \A s \in Transfers : s # ev[1].tid => app'.end[s] = app.end[s]
    BY <1>2, Heard
  <2>2. \A i \in DOMAIN ev' : ev'[i].start \/ ev'[i].tid # t
    BY <2>1 DEF Ends
  <2>3. ~ev[1].start => ev[1].tid # t
    BY <2>1 DEF Ends
  <2>4. app'.end[t] = app.end[t]
    BY <2>1, <2>3
  <2> QED BY <2>2, <2>4 DEF Ends
<1>3. CASE LinkDown
  <2>1. ev' = <<>> /\ DOMAIN <<>> = {} /\ app'.end = app.end
    BY <1>3, Types DEF LinkDown, Apps
  <2> QED BY <2>1 DEF Ends
<1>4. CASE ~Announce /\ ~EndEvent /\ ~Hear /\ ~LinkDown
  BY <1>4, AppKept, EventsKept DEF Ends
<1> QED BY <1>1, <1>2, <1>3, <1>4

\* The App keeps the transfer open that the worker sends.
LEMMA OpenStep ==
  ASSUME IInv, OrderInv, OpenInv, Next
  PROVE  OpenInv'
<1>i. TypeOK /\ ControlInv /\ CloseInv /\ SendInv
  BY DEF IInv
<1>t. /\ DOMAIN ev = 1..Len(ev) /\ Len(ev) \in Nat
      /\ \A i \in DOMAIN ev : ev[i] \in Events /\ ev[i].tid \in Transfers /\ ev[i].tid \in Nat /\ ev[i].tid > 0
                              /\ ev[i].start \in BOOLEAN /\ i \in Nat
      /\ app.session \in Nat /\ rec.tid \in Nat
      /\ \A t \in Transfers : t \in Nat /\ t > 0
  BY <1>i, EventTyped
<1>m. /\ wk.pc \in {"done", "free"} => wk'.pc \in {"done", "free"} \/ Activate
      /\ wk'.pc = "delay" => wk.pc = "delay" \/ Activate
      /\ Working' => Working \/ StartDelay
      /\ api'.pc = "announce" => StartReset \/ api.pc = "announce"
      /\ api'.pc = "activate" => Announce \/ api.pc = "activate"
      /\ l2c'.link => l2c.link \/ LinkUp
  BY <1>i, Moves
<1>1. ASSUME NEW t \in Transfers, Ends(t)'
      PROVE  t <= rec'.tid /\ (t = rec'.tid => wk'.pc \in {"done", "free"} /\ api'.pc \notin {"announce", "activate"})
  <2>1. CASE Ends(t)
    <3>1. t <= rec.tid /\ (t = rec.tid => wk.pc \in {"done", "free"} /\ api.pc \notin {"announce", "activate"})
      BY <2>1 DEF OpenInv
    <3>2. CASE StartReset
      <4>1. rec'.tid = rec.tid + 1
        BY <1>i, <3>2, TidStep
      <4>2. t <= rec'.tid /\ t # rec'.tid
        BY <1>t, <3>1, <4>1
      <4> QED BY <4>2
    <3>3. CASE ~StartReset
      <4>1. rec'.tid = rec.tid
        BY <1>i, <3>3, TidStep
      <4>2. ASSUME t = rec.tid PROVE ~Activate /\ ~Announce
        BY <3>1, <4>2 DEF Activate, Announce
      <4> QED BY <1>m, <3>1, <3>3, <4>1, <4>2
    <3> QED BY <3>2, <3>3
  <2>2. CASE ~Ends(t)
    <3>1. EndEvent /\ t = rec.tid
      BY <1>i, <1>1, <2>2, EndsTold
    <3>2. wk.pc = "end" /\ wk'.pc = "done" /\ rec' = rec /\ api' = api
      BY <1>i, <3>1, Types DEF EndEvent, At, Goto, Tasks
    <3>3. api.pc \in {"idle", "slot"}
      BY <1>i, <3>2 DEF ControlInv
    <3> QED BY <1>t, <3>1, <3>2, <3>3
  <2> QED BY <2>1, <2>2
<1>2. l2c'.link /\ (api'.pc = "activate" \/ wk'.pc = "delay") => app'.session = rec'.tid \/ Starts'
  <2> SUFFICES ASSUME l2c'.link, api'.pc = "activate" \/ wk'.pc = "delay" PROVE app'.session = rec'.tid \/ Starts'
    OBVIOUS
  <2>1. CASE Announce
    <3> DEFINE e == [start |-> TRUE, tid |-> rec.tid, ok |-> FALSE, valid |-> 0]
    <3>1. rec.tid \in Transfers
      BY <1>i, <2>1 DEF Announce, ControlInv
    <3>2. e \in Events /\ e.start = TRUE /\ e.tid = rec.tid /\ ev' = Append(ev, e) /\ rec' = rec
      BY <2>1, <3>1 DEF Announce, Events
    <3> HIDE DEF e
    <3>3. Len(ev) + 1 \in DOMAIN ev' /\ ev'[Len(ev) + 1] = e
      BY <1>i, <3>2, Told
    <3> QED BY <3>2, <3>3 DEF Starts
  <2>2. CASE ~Announce
    <3>1. api.pc = "activate" \/ wk.pc = "delay"
      BY <1>m, <2>2 DEF Activate
    <3>2. ~StartReset /\ ~LinkUp
      BY <1>i, <3>1 DEF StartReset, LinkUp, At, ControlInv
    <3>3. app.session = rec.tid \/ Starts
      BY <1>m, <3>1, <3>2 DEF OpenInv
    <3>4. rec'.tid = rec.tid
      BY <1>i, <3>2, TidStep
    <3>5. CASE Hear
      <4>1. /\ 1 \in DOMAIN ev
            /\ \A i \in DOMAIN ev : i = 1 \/ (i - 1 \in DOMAIN ev' /\ ev'[i - 1] = ev[i])
            /\ ev[1].start => app'.session = ev[1].tid
            /\ ~ev[1].start => app'.session = IF app.session = ev[1].tid THEN 0 ELSE app.session
        BY <1>i, <3>5, Heard
      <4>2. CASE Starts
        <5>1. PICK i \in DOMAIN ev : ev[i].start /\ ev[i].tid = rec.tid
          BY <4>2 DEF Starts
        <5> QED BY <3>4, <4>1, <5>1 DEF Starts
      <4>3. CASE ~Starts
        <5>1. app.session = rec.tid
          BY <3>3, <4>3
        <5>2. ~ev[1].start
          <6>1. ev[1].start => app.session < ev[1].tid /\ ev[1].tid <= rec.tid
            BY <4>1 DEF OrderInv
          <6> QED BY <1>t, <4>1, <5>1, <6>1
        <5>3. ~Ends(rec.tid)
          <6>1. rec.tid \in Transfers /\ ~(wk.pc \in {"done", "free"} /\ api.pc \notin {"announce", "activate"})
            BY <1>i, <3>1 DEF ControlInv
          <6> QED BY <6>1 DEF OpenInv
        <5>4. ev[1].tid # rec.tid
          BY <4>1, <5>2, <5>3 DEF Ends
        <5> QED BY <3>4, <4>1, <5>1, <5>2, <5>4
      <4> QED BY <4>2, <4>3
    <3>6. CASE ~Hear
      <4>1. ~LinkDown
        BY <1>i, Types DEF LinkDown, Links
      <4>2. ~EndEvent
        BY <1>i, <3>1 DEF EndEvent, At, ControlInv
      <4>3. ev' = ev /\ app'.session = app.session
        BY <1>i, <2>2, <3>6, <4>1, <4>2, EventsKept, AppKept
      <4> QED BY <3>3, <3>4, <4>3 DEF Starts
    <3> QED BY <3>5, <3>6
  <2> QED BY <2>1, <2>2
<1>3. l2c'.link /\ Working' => app'.session = rec'.tid
  <2> SUFFICES ASSUME l2c'.link, Working' PROVE app'.session = rec'.tid
    OBVIOUS
  <2>1. ~LinkDown /\ ~LinkUp
    <3>1. ~LinkDown
      BY <1>i, Types DEF LinkDown, Links
    <3>2. LinkUp => wk.pc = "free" /\ wk' = wk
      BY DEF LinkUp, At
    <3> QED BY <3>1, <3>2 DEF Working
  <2>2. l2c.link
    BY <1>m, <2>1
  <2>3. Working \/ StartDelay
    BY <1>m
  <2>4. ~StartReset
    BY <1>i, <2>3 DEF StartReset, ControlInv, Working, StartDelay, At
  <2>5. rec'.tid = rec.tid
    BY <1>i, <2>4, TidStep
  <2>6. app.session = rec.tid
    <3>1. CASE Working
      BY <2>2, <3>1 DEF OpenInv
    <3>2. CASE StartDelay
      BY <2>2, <3>2 DEF OpenInv, StartDelay, At, Starts
    <3> QED BY <2>3, <3>1, <3>2
  <2>7. CASE ~Hear
    BY <1>i, <2>1, <2>5, <2>6, <2>7, AppKept
  <2>8. CASE Hear
    <3>1. /\ 1 \in DOMAIN ev /\ wk' = wk
          /\ ev[1].start => app'.session = ev[1].tid
          /\ ~ev[1].start => app'.session = IF app.session = ev[1].tid THEN 0 ELSE app.session
      BY <1>i, <2>8, Heard
    <3>2. ~ev[1].start
      <4>1. ev[1].start => app.session < ev[1].tid /\ ev[1].tid <= rec.tid
        BY <3>1 DEF OrderInv
      <4> QED BY <1>t, <2>6, <3>1, <4>1
    <3>3. ~Ends(rec.tid)
      <4>1. wk.pc \notin {"done", "free"}
        BY <3>1 DEF Working
      <4>2. rec.tid \in Transfers
        BY <1>i, <4>1 DEF ControlInv
      <4> QED BY <4>1, <4>2 DEF OpenInv
    <3>4. ev[1].tid # rec.tid
      BY <3>1, <3>2, <3>3 DEF Ends
    <3> QED BY <2>5, <2>6, <3>1, <3>2, <3>4
  <2> QED BY <2>7, <2>8
<1>4. (l2c'.chan => l2c'.link) /\ (~l2c'.chan => Out' = {})
  <2>0. (l2c.chan => l2c.link) /\ (~l2c.chan => Out = {})
    BY DEF OpenInv
  <2>1. /\ l2c'.chan => (l2c.chan \/ ChannelUp) /\ ~LinkDown
        /\ ~l2c'.chan => ~l2c.chan \/ ChannelDown
        /\ LinkDown \/ l2c'.link = l2c.link \/ LinkUp
        /\ ChannelUp => l2c.link
    <3>1. CASE HostStep
      BY <1>i, <3>1, Types DEF HostStep, ChannelUp, ChannelDown, LinkDown, LinkUp, Grant, Links
    <3>2. CASE ~HostStep
      <4>1. l2c'.chan = l2c.chan /\ l2c'.link = l2c.link
        BY <1>i, <3>2, Types DEF Next, ApiStep, StartReset, Announce, AnnounceFails, Activate, OpenSlot, BoardStep, BoardOpen, Write, Close,
           WorkerStep, StartDelay, LoopTop, LoopDown, Drained, Pop, ChunkDone, Send, SendStalls, MarkStalled, SendNoBuffer,
           SendLost, StallTimeout, Verdict, EndEvent, EndEventFails, WorkerDone, Hear, Receive, Links
      <4>2. ~LinkDown /\ ~ChannelUp
        BY <3>2 DEF HostStep
      <4> QED BY <4>1, <4>2
    <3> QED BY <3>1, <3>2
  <2>2. l2c'.chan => l2c'.link
    <3>1. LinkUp => l2c'.link
      BY <1>i, Types DEF LinkUp, Links
    <3> QED BY <2>0, <2>1, <3>1
  <2>3. ~l2c'.chan => Out' = {}
    BY <1>i, <2>0, <2>1, OutStep
  <2> QED BY <2>2, <2>3
<1> QED BY <1>1, <1>2, <1>3, <1>4 DEF OpenInv

\* What the worker has sent of a transfer only grows.
LEMMA SentGrows ==
  ASSUME TypeOK, ControlInv, Next, Working
  PROVE  /\ rec'.tid = rec.tid /\ Sent \in Nat /\ Sent' \in Nat /\ Sent <= Sent'
         /\ ~Working' => EndEvent \/ (EndEventFails /\ wk'.pc = "done")
<1>a. rec \in Streams /\ wk \in Tasks /\ rec.sent \in Nat
  BY Types, Parts
<1>0. wk.pc # "free" /\ ~StartReset /\ ~Activate
  BY DEF Working, ControlInv, StartReset, Activate
<1>1. rec'.tid = rec.tid
  BY <1>0, TidStep
<1>n. \A n \in Nat : n + 1 \in Nat /\ n <= n + 1 /\ n <= n
  OBVIOUS
<1>2. CASE WorkerStep
  <2>1. CASE StartDelay \/ LoopTop \/ LoopDown \/ Drained \/ Pop \/ ChunkDone
    <3>1. rec'.sent = rec.sent /\ Working' /\ wk'.pc # "mark" /\ wk.pc # "mark"
      BY <1>a, <2>1 DEF StartDelay, LoopTop, LoopDown, Drained, Pop, ChunkDone, At, Goto, Truncate, Streams, Tasks, Working
    <3> QED BY <1>a, <1>1, <1>n, <3>1 DEF Sent, Held
  <2>2. CASE Send
    <3>1. rec'.sent = rec.sent + 1 /\ wk'.pc = "send" /\ wk.pc = "send"
      BY <1>a, <2>2 DEF Send, Sending, At, Streams, Tasks
    <3> QED BY <1>a, <1>1, <1>n, <3>1 DEF Sent, Held, Working
  <2>3. CASE SendStalls
    <3>1. rec'.sent = rec.sent /\ wk'.pc = "mark" /\ wk.pc = "send"
      BY <1>a, <2>3 DEF SendStalls, Sending, At, Goto, Tasks
    <3> QED BY <1>a, <1>1, <1>n, <3>1 DEF Sent, Held, Working
  <2>4. CASE MarkStalled
    <3>1. rec'.sent = rec.sent + 1 /\ wk'.pc = "send" /\ wk.pc = "mark"
      BY <1>a, <2>4 DEF MarkStalled, At, Streams, Tasks
    <3> QED BY <1>a, <1>1, <1>n, <3>1 DEF Sent, Held, Working
  <2>5. CASE SendNoBuffer \/ SendLost \/ StallTimeout \/ Verdict
    <3>1. rec'.sent = rec.sent /\ Working' /\ wk'.pc # "mark" /\ wk.pc # "mark"
      BY <1>a, <2>5 DEF SendNoBuffer, SendLost, StallTimeout, Verdict, Sending, At, Truncate, Streams, Tasks, Working
    <3> QED BY <1>a, <1>1, <1>n, <3>1 DEF Sent, Held
  <2>6. CASE EndEvent \/ EndEventFails
    <3>1. rec' = rec /\ wk'.pc # "mark" /\ wk.pc = "end"
      BY <1>a, <2>6 DEF EndEvent, EndEventFails, At, Goto, Tasks
    <3>2. EndEventFails => Working' \/ wk'.pc = "done"
      BY <1>a DEF EndEventFails, At, Tasks, Working
    <3> QED BY <1>a, <1>1, <1>n, <2>6, <3>1, <3>2 DEF Sent, Held
  <2>7. ~WorkerDone
    BY DEF WorkerDone, At, Working
  <2> QED BY <1>2, <2>1, <2>2, <2>3, <2>4, <2>5, <2>6, <2>7 DEF WorkerStep
<1>3. CASE ~WorkerStep
  <2>1. wk' = wk /\ rec'.sent = rec.sent
    BY <1>a, <1>0, <1>3 DEF Next, ApiStep, Announce, AnnounceFails, OpenSlot, BoardStep, BoardOpen, Write, Overflow, Close,
      HostStep, ChannelUp, ChannelDown, Broken, LinkDown, LinkUp, Grant, Hear, Receive, Streams
  <2> QED BY <1>a, <1>1, <1>n, <2>1 DEF Sent, Held, Working
<1> QED BY <1>2, <1>3

\* The App knows whose a unit is, also after a step.
LEMMA KnownStep ==
  ASSUME IInv, AInv, Next
  PROVE  KnownInv'
<1>i. TypeOK /\ ControlInv /\ CloseInv /\ SendInv /\ LineInv /\ OrderInv /\ OpenInv /\ KnownInv
  BY DEF IInv, AInv
<1>t. /\ DOMAIN ev = 1..Len(ev) /\ Len(ev) \in Nat
      /\ \A i \in DOMAIN ev : ev[i] \in Events /\ ev[i].tid \in Transfers /\ ev[i].tid \in Nat /\ ev[i].tid > 0
                              /\ ev[i].start \in BOOLEAN /\ ev[i].valid \in Nat /\ i \in Nat
      /\ app.session \in Nat /\ rec.tid \in Nat
      /\ \A t \in Transfers : t \in Nat /\ t > 0
  BY <1>i, EventTyped
<1>1. ASSUME NEW u \in Out, Out' # {}
      PROVE  Known(u)'
  <2>1. u[1] \in Transfers /\ u[1] \in Nat /\ u[2] \in Nat /\ u[1] <= rec.tid
    BY <1>i, LineTyped DEF Out, LineInv, Numbers
  <2>2. l2c.chan /\ l2c.link /\ ~ChannelDown /\ ~LinkDown
    BY <1>i, <1>1, OutStep DEF OpenInv, LinkDown
  <2>s. ~Hear => app'.session = app.session /\ app'.end = app.end
    BY <1>i, <2>2, AppKept
  <2>h. Hear => /\ 1 \in DOMAIN ev /\ rec' = rec /\ wk' = wk
                /\ \A i \in DOMAIN ev : i = 1 \/ (i - 1 \in DOMAIN ev' /\ ev'[i - 1] = ev[i])
                /\ ev[1].start => app'.session = ev[1].tid /\ app'.end = app.end
                /\ ~ev[1].start =>
                     /\ app'.session = IF app.session = ev[1].tid THEN 0 ELSE app.session
                     /\ \A t \in Transfers : t # ev[1].tid => app'.end[t] = app.end[t]
                     /\ app'.end[ev[1].tid].told /\ app'.end[ev[1].tid].valid = ev[1].valid
    BY <1>i, Heard
  <2>3. CASE u[1] = rec.tid /\ Working /\ u[2] <= Sent
    <3>1. rec'.tid = rec.tid /\ Sent \in Nat /\ Sent' \in Nat /\ Sent <= Sent'
          /\ (~Working' => EndEvent \/ (EndEventFails /\ wk'.pc = "done"))
      BY <1>i, <2>3, SentGrows
    <3>2. CASE Working'
      <4>1. \A a, b, c \in Nat : a <= b /\ b <= c => a <= c
        OBVIOUS
      <4>2. u[2] <= Sent'
        BY <2>1, <2>3, <3>1, <4>1
      <4> QED BY <2>3, <3>1, <3>2, <4>2 DEF Known
    <3>3. CASE EndEvent
      <4>1. app.session = rec.tid /\ Sent = rec.sent
        BY <1>i, <2>2, <2>3, <3>3 DEF OpenInv, Sent, Held, EndEvent, At
      <4>2. PICK e \in Events : ev' = Append(ev, e) /\ e.tid = rec.tid /\ app' = app /\ ~e.start /\ e.valid = rec.sent
        BY <1>i, <3>3, Telling
      <4>3. Len(ev) + 1 \in DOMAIN ev' /\ ev'[Len(ev) + 1] = e
        BY <1>i, <4>2, Told
      <4> QED BY <2>3, <4>1, <4>2, <4>3 DEF Known
    <3>4. CASE EndEventFails /\ wk'.pc = "done"
      <4>1. ~Ends(rec.tid)
        BY <1>i, <2>1, <2>3 DEF OpenInv, Working
      <4>2. ev' = ev /\ app' = app
        BY <3>4 DEF EndEventFails
      <4>3. Unended(rec.tid)'
        BY <3>1, <3>4, <4>1, <4>2 DEF Unended, Ends
      <4> QED BY <2>3, <3>1, <4>3 DEF Known
    <3> QED BY <3>1, <3>2, <3>3, <3>4
  <2>4. CASE app.session = u[1] /\ \E i \in DOMAIN ev : ~ev[i].start /\ ev[i].tid = u[1] /\ u[2] <= ev[i].valid
    <3>1. PICK i \in DOMAIN ev : ~ev[i].start /\ ev[i].tid = u[1] /\ u[2] <= ev[i].valid
      BY <2>4
    <3>2. CASE Hear /\ i = 1
      BY <2>h, <3>1, <3>2 DEF Known
    <3>3. CASE Hear /\ i # 1
      <4>1. 1 < i
        BY <1>t, <3>3
      <4>2. ev[1].tid <= u[1] /\ (~ev[1].start => ev[1].tid < u[1])
        BY <1>i, <1>t, <2>1, <2>h, <3>1, <3>3, <4>1 DEF OrderInv
      <4>3. ~ev[1].start
        <5>1. ev[1].start => u[1] < ev[1].tid
          BY <1>i, <2>4, <2>h, <3>3 DEF OrderInv
        <5> QED BY <1>t, <2>1, <2>h, <3>3, <4>2, <5>1
      <4>4. ev[1].tid # u[1]
        BY <1>t, <2>1, <2>h, <3>3, <4>2, <4>3
      <4>5. app'.session = u[1]
        BY <2>4, <2>h, <3>3, <4>3, <4>4
      <4> QED BY <2>h, <3>1, <3>3, <4>5 DEF Known
    <3>4. CASE ~Hear
      <4>1. i \in DOMAIN ev' /\ ev'[i] = ev[i]
        <5>1. CASE Announce \/ EndEvent
          <6>1. PICK e \in Events : ev' = Append(ev, e)
            BY <1>i, <5>1, Telling
          <6> QED BY <1>i, <6>1, Told
        <5>2. CASE ~Announce /\ ~EndEvent
          BY <2>2, <3>4, <5>2, EventsKept
        <5> QED BY <5>1, <5>2
      <4> QED BY <2>4, <2>s, <3>1, <3>4, <4>1 DEF Known
    <3> QED BY <3>2, <3>3, <3>4
  <2>5. CASE app.end[u[1]].told /\ u[2] <= app.end[u[1]].valid
    <3>1. app'.end[u[1]] = app.end[u[1]]
      <4>1. CASE Hear
        <5>1. ~ev[1].start => ev[1].tid # u[1]
          BY <1>i, <2>5, <2>h, <4>1 DEF OrderInv
        <5> QED BY <2>1, <2>h, <4>1, <5>1
      <4> QED BY <2>s, <4>1
    <3> QED BY <2>5, <3>1 DEF Known
  <2>6. CASE Unended(u[1])
    <3>1. ~Ends(u[1]) /\ (u[1] < rec.tid \/ wk.pc \in {"done", "free"})
      BY <2>6 DEF Unended, Ends
    <3>2. u[1] < rec'.tid \/ wk'.pc \in {"done", "free"}
      <4>1. rec'.tid \in Nat /\ rec.tid <= rec'.tid
        BY <1>i, TidStep
      <4>2. CASE u[1] < rec.tid
        BY <1>t, <2>1, <4>1, <4>2
      <4>3. CASE Activate
        <5>1. api.pc = "activate"
          BY <4>3 DEF Activate
        <5>2. Untouched(rec.tid)
          BY <1>i, <5>1 DEF CloseInv
        <5>3. u[1] # rec.tid
          BY <1>1, <5>2 DEF Untouched, Out
        <5> QED BY <1>t, <2>1, <4>1, <5>3
      <4>4. CASE wk.pc \in {"done", "free"} /\ ~Activate
        BY <1>i, <4>4, Moves
      <4> QED BY <3>1, <4>2, <4>3, <4>4
    <3>3. ~Ends(u[1])'
      <4>1. EndEvent => u[1] < rec.tid
        BY <3>1 DEF EndEvent, At
      <4>2. ~(EndEvent /\ u[1] = rec.tid)
        BY <1>t, <2>1, <4>1
      <4> QED BY <1>i, <2>1, <3>1, <4>2, EndsTold
    <3>4. Unended(u[1])'
      BY <3>2, <3>3 DEF Unended, Ends
    <3> QED BY <3>4 DEF Known
  <2> QED BY <1>i, <1>1, <2>3, <2>4, <2>5, <2>6 DEF KnownInv, Known
<1>2. ASSUME NEW u \in Out', u \notin Out
      PROVE  Known(u)'
  <2>1. (Send \/ SendStalls) /\ u = <<rec.tid, rec.sent + 1>>
    BY <1>i, <1>2, OutStep
  <2>2. Working /\ rec.sent \in Nat /\ rec \in Streams /\ wk \in Tasks
    BY <1>i, <2>1, Types, Parts DEF Send, SendStalls, Sending, At, Working
  <2>3. Sent' = rec.sent + 1 /\ Working' /\ rec'.tid = rec.tid
    <3>1. CASE Send
      <4>1. rec'.sent = rec.sent + 1 /\ wk'.pc = "send" /\ rec'.tid = rec.tid
        BY <2>2, <3>1 DEF Send, Sending, At, Streams, Tasks
      <4> QED BY <4>1 DEF Sent, Held, Working
    <3>2. CASE SendStalls
      <4>1. rec' = rec /\ wk'.pc = "mark"
        BY <2>2, <3>2 DEF SendStalls, Goto, Tasks
      <4> QED BY <4>1 DEF Sent, Held, Working
    <3> QED BY <2>1, <3>1, <3>2
  <2>4. u[1] = rec'.tid /\ u[2] <= Sent'
    BY <2>1, <2>2, <2>3
  <2> QED BY <2>3, <2>4 DEF Known
<1> QED BY <1>1, <1>2 DEF KnownInv

LEMMA AInit == Init => AInv
<1> SUFFICES ASSUME Init PROVE AInv
  OBVIOUS
<1>0. Line = <<>> /\ DOMAIN <<>> = {}
  <2>1. <<>> \in Seq(Units) /\ \A s \in Seq(Units) : s \o <<>> = s
    BY ConcatEmptySeq
  <2> QED BY <2>1 DEF Init, Line
<1>1. Out = {}
  BY <1>0 DEF Out
<1>2. ev = <<>> /\ app.session = 0 /\ rec.tid = 0 /\ api.pc = "idle" /\ wk.pc = "free" /\ ~l2c.chan
      /\ \A t \in Transfers : ~app.end[t].told
  BY DEF Init, Worker0, NotTold
<1>3. OrderInv
  BY <1>0, <1>2 DEF OrderInv
<1>4. OpenInv
  BY <1>0, <1>1, <1>2 DEF OpenInv, Ends, Working
<1>5. KnownInv
  BY <1>1 DEF KnownInv
<1> QED BY <1>3, <1>4, <1>5 DEF AInv

\* AInv is inductive, given IInv.
LEMMA AInductive == IInv /\ AInv /\ [Next]_vars => AInv'
<1>1. ASSUME IInv, AInv, Next PROVE AInv'
  <2>1. OrderInv'
    BY <1>1, OrderStep DEF IInv, AInv
  <2>2. OpenInv'
    BY <1>1, OpenStep DEF AInv
  <2>3. KnownInv'
    BY <1>1, KnownStep
  <2> QED BY <2>1, <2>2, <2>3 DEF AInv
<1>2. ASSUME IInv, AInv, UNCHANGED vars PROVE AInv'
  <2>1. rec' = rec /\ wk' = wk /\ api' = api /\ l2c' = l2c /\ air' = air /\ ev' = ev /\ app' = app
    BY <1>2 DEF vars
  <2>2. Line' = Line /\ Out' = Out /\ Sent' = Sent /\ (Working' <=> Working) /\ (Starts' <=> Starts)
    BY <2>1 DEF Line, Out, Sent, Held, Working, Starts
  <2>3. OrderInv'
    BY <1>2, <2>1 DEF AInv, OrderInv
  <2>4. OpenInv'
    BY <1>2, <2>1, <2>2 DEF AInv, OpenInv, Ends
  <2>5. KnownInv'
    BY <1>2, <2>1, <2>2 DEF AInv, KnownInv, Known, Unended
  <2> QED BY <2>3, <2>4, <2>5 DEF AInv
<1> QED BY <1>1, <1>2

\* What AInv says of the first unit under way.
LEMMA KnownIsAttributable ==
  ASSUME IInv, AInv
  PROVE  Attributable
<1> SUFFICES ASSUME air # <<>>
             PROVE  \/ app.session = Head(air)[1]
                    \/ app.end[Head(air)[1]].told /\ Head(air)[2] <= app.end[Head(air)[1]].valid
                    \/ Unended(Head(air)[1])
  BY DEF Attributable
<1> DEFINE u == Head(air)
<1>i. TypeOK
  BY DEF IInv
<1>1. air \in Seq(Units) /\ l2c.pend \in Seq(Units) /\ Head(air) = air[1] /\ 1 \in 1..Len(air)
  BY <1>i, Types, Parts, Tl
<1>2. Line[1] = air[1] /\ 1 \in DOMAIN Line
  <2>1. Line \in Seq(Units) /\ Len(Line) = Len(air) + Len(l2c.pend) /\ \A i \in 1..Len(air) : Line[i] = air[i]
    BY <1>1, ConcatProperties DEF Line
  <2>2. Len(air) \in Nat /\ Len(l2c.pend) \in Nat
    BY <1>1
  <2> QED BY <1>1, <2>1, <2>2
<1>3. u \in Out
  BY <1>1, <1>2 DEF Out
<1>4. Known(u)
  BY <1>3 DEF AInv, KnownInv
<1> HIDE DEF u
<1>5. CASE u[1] = rec.tid /\ Working
  <2>1. (~l2c.chan => Out = {}) /\ (l2c.chan => l2c.link) /\ (l2c.link /\ Working => app.session = rec.tid)
    <3>1. OpenInv
      BY DEF AInv
    <3> QED BY <3>1 DEF OpenInv
  <2>2. app.session = u[1]
    BY <1>3, <1>5, <2>1
  <2> QED BY <2>2 DEF u
<1> QED BY <1>4, <1>5 DEF Known, u

-----------------------------------------------------------------------------
(* The theorems *)

LEMMA InitIInv == Init => IInv
<1> SUFFICES ASSUME Init PROVE IInv
  OBVIOUS
<1>a. QueueCap \in Nat /\ Window \in Nat /\ MaxTransfers \in Nat /\ Attempts \in Nat \ {0}
  BY UplinkAssumption
<1>b. <<>> \in Seq(Units) /\ <<>> \in Seq(Events) /\ <<>> \in Seq(Seq(Units)) /\ <<>> \in Seq(Numbers)
      /\ <<>> \o <<>> = <<>> /\ Len(<<>>) = 0 /\ DOMAIN <<>> = {}
  <2>1. \A s \in Seq(Units) : s \o <<>> = s
    BY ConcatEmptySeq
  <2>2. <<>> \in Seq(Units) /\ <<>> \in Seq(Events) /\ <<>> \in Seq(Seq(Units)) /\ <<>> \in Seq(Numbers) /\ Len(<<>>) = 0 /\ DOMAIN <<>> = {}
    OBVIOUS
  <2> QED BY <2>1, <2>2
<1>1. TypeOK
  <2>1. rec \in Streams
    BY <1>a, <1>b DEF Init, Streams
  <2>2. wk \in Tasks /\ api \in Calls
    BY <1>a, <1>b DEF Init, Worker0, Tasks, Calls, WorkerPcs
  <2>3. board \in Boards
    BY DEF Init, Boards
  <2>4. l2c \in Links
    BY <1>a, <1>b DEF Init, Links
  <2>5. app \in Apps
    BY <1>a, <1>b DEF Init, Apps, NotTold
  <2> QED BY <1>b, <2>1, <2>2, <2>3, <2>4, <2>5 DEF Init, TypeOK
<1>2. Line = <<>> /\ \A t \in Transfers : Untouched(t) /\ board[t] = [tried |-> 0, closed |-> "no"]
  BY <1>b DEF Init, Line, Untouched
<1>3. wk.pc = "free" /\ wk.chunk = <<>> /\ ~wk.end /\ api.pc = "idle" /\ ~slot /\ ~rec.active /\ rec.q = <<>> /\ rec.tid = 0
      /\ rec.queued = 0 /\ l2c.pend = <<>> /\ ev = <<>>
  BY DEF Init, Worker0
<1>4. ControlInv
  BY <1>b, <1>3 DEF ControlInv
<1>5. CloseInv
  <2>1. Transfers \subseteq Nat
    BY <1>a DEF Transfers
  <2> QED BY <1>2, <1>3, <2>1 DEF CloseInv
<1>6. QueueInv
  BY <1>b, <1>3 DEF QueueInv
<1>7. SendInv
  BY <1>b, <1>3 DEF SendInv, Rest, Held, Live
<1>8. LineInv
  BY <1>b, <1>2 DEF LineInv
<1>9. EventInv
  BY <1>b, <1>3 DEF EventInv
<1>10. NoGap
  BY <1>a, <1>b DEF Init, NoGap
<1>11. WholeMeansWhole
  BY DEF Init, WholeMeansWhole, NotTold
<1> QED BY <1>1, <1>4, <1>5, <1>6, <1>7, <1>8, <1>9, <1>10, <1>11 DEF IInv

LEMMA TypeStep ==
  ASSUME TypeOK, ControlInv, QueueInv, Next
  PROVE  TypeOK'
BY ApiType, WorkerType, OthersType DEF Next

LEMMA Stutter ==
  ASSUME IInv, UNCHANGED vars
  PROVE  IInv'
<1>1. /\ rec' = rec /\ wk' = wk /\ api' = api /\ slot' = slot /\ board' = board /\ l2c' = l2c /\ air' = air /\ ev' = ev
      /\ app' = app /\ faults' = faults
  BY DEF vars
<1>2. TypeOK' /\ ControlInv' /\ QueueInv'
  BY <1>1 DEF IInv, TypeOK, ControlInv, QueueInv, From, Past
<1>3. Line' = Line /\ Rest' = Rest /\ Sent' = Sent /\ (Live' <=> Live) /\ Mine' = Mine
  BY <1>1 DEF Line, Rest, Sent, Held, Live, Mine
<1>4. \A t : (Untouched(t)' <=> Untouched(t)) /\ Edge(t)' = Edge(t)
  BY <1>1, <1>3 DEF Untouched, Edge
<1>5. CloseInv' /\ SendInv' /\ LineInv'
  <2>1. CloseInv'
    BY <1>1, <1>3, <1>4 DEF IInv, CloseInv
  <2>2. SendInv'
    BY <1>1, <1>3, <1>4 DEF IInv, SendInv, From, Past
  <2>3. LineInv'
    BY <1>1, <1>3 DEF IInv, LineInv
  <2> QED BY <2>1, <2>2, <2>3
<1>6. EventInv' /\ NoGap' /\ WholeMeansWhole'
  BY <1>1 DEF IInv, EventInv, NoGap, WholeMeansWhole
<1> QED BY <1>2, <1>5, <1>6 DEF IInv

\* IInv is inductive.
LEMMA Inductive == IInv /\ [Next]_vars => IInv'
<1>1. ASSUME IInv, Next PROVE IInv'
  <2>1. TypeOK' /\ ControlInv'
    BY <1>1, TypeStep, ControlStep DEF IInv
  <2>2. CloseInv'
    BY <1>1, CloseStep DEF IInv
  <2>3. QueueInv'
    BY <1>1, QueueStep DEF IInv
  <2>4. SendInv'
    BY <1>1, SendStep DEF IInv
  <2>5. LineInv' /\ NoGap'
    BY <1>1, LineStep DEF IInv
  <2>6. EventInv' /\ WholeMeansWhole'
    BY <1>1, EventStep, WholeStep DEF IInv
  <2> QED BY <2>1, <2>2, <2>3, <2>4, <2>5, <2>6 DEF IInv
<1> QED BY <1>1, Stutter

\* IInv holds in every state the stream reaches.
THEOREM Invariance == Spec => []IInv
BY InitIInv, Inductive, PTL DEF Spec

\* Every variable of the stream keeps its type: the queue never holds more than its cap
\* (AudioStreamEnqueue, ImageEnqueue), and the channel never more credit than its window.
THEOREM TypeCorrect == Spec => []TypeOK
<1>1. IInv => TypeOK
  BY DEF IInv
<1> QED BY <1>1, Invariance, PTL

\* Whatever the queue, the window, the size of the writes and the faults: what the App gets of a
\* transfer is the beginning of what the board wrote (AudioStreamEnqueue, ImageEnqueue).
THEOREM Gapless == Spec => []NoGap
<1>1. IInv => NoGap
  BY DEF IInv
<1> QED BY <1>1, Invariance, PTL

\* And an end event with status 0 is only sent for a transfer that the board closed as complete
\* and of which every byte was handed to the channel (the verdict of AudioStreamTask, ImageTask).
THEOREM WholeIsWhole == Spec => []WholeMeansWhole
<1>1. IInv => WholeMeansWhole
  BY DEF IInv
<1> QED BY <1>1, Invariance, PTL

\* The App can tell whose bytes arrive, although the channel carries no transfer id: the start
\* event is heard before the first byte (kRecStartDelayMs), and the end event counts every byte
\* that may still be under way behind it (bytes_sent, also of an SDU that stalled); unless that
\* event failed in every attempt (NotifyStreamBookend).
THEOREM BytesAttributable == Spec => []Attributable
<1>1. IInv /\ AInv => Attributable
  BY KnownIsAttributable
<1>2. Spec => []AInv
  BY AInit, AInductive, Invariance, PTL DEF Spec
<1> QED BY <1>1, <1>2, Invariance, PTL

-----------------------------------------------------------------------------
(* VoiceUplink *)

Filled(s) == s # <<>> /\ Run(s)
End(s) == s[Len(s)]
\* The last unit submitted, and the number after the last one.
HeardVoice == IF sent = <<>> THEN 0 ELSE End(End(sent).units)
NextNum == IF sent = <<>> THEN 0 ELSE End(sent).num + 1
\* The first unit in the queue, or the first that will be; the next unit to be submitted.
Oldest == IF voice.q = <<>> THEN said + 1 ELSE IF build = "c3" THEN voice.q[1] ELSE voice.q[1][1]
Pending == IF worker.pc \in {"slice", "send"} THEN worker.hand[1] ELSE Oldest
\* No number has been given to a packet that was not submitted.
Tight == NextNum = IF worker.pc = "send" THEN worker.num ELSE voice.seq

\* Where the worker is, and what the host task has done when the link is down.
VoiceControl ==
  /\ worker.pc \in (IF build = "c3" THEN {"idle", "loop", "send", "leave", "clear"}
                                    ELSE {"idle", "start", "loop", "pop", "slice", "send", "leave"})
  /\ voice.active <=> worker.pc \notin {"idle", "start"}
  /\ worker.pc = "start" => sent = <<>> /\ said + writer <= 2 /\ voice.session < MaxOpens
  /\ writer > 0 => build # "c3" /\ said + writer <= MaxSaid
  /\ build = "c3" /\ ~link.up => voice.abort
\* The queue holds consecutive units up to the last that was accepted: as many as are counted, or
\* as many as are counted and a write that got between.
VoiceQueue ==
  /\ build = "c3" => Run(voice.q) /\ Len(voice.q) = voice.queued
  /\ build # "c3" =>
       /\ \A i \in 1..Len(voice.q) : Filled(voice.q[i]) /\ End(voice.q[i]) <= said
       /\ \A i \in 2..Len(voice.q) : voice.q[i][1] = End(voice.q[i - 1]) + 1
       /\ voice.q # <<>> => End(End(voice.q)) = said
  /\ build = "c3" => voice.queued + Oldest = said + 1
  /\ build # "c3" /\ worker.pc # "start" =>
       voice.queued + Oldest <= said + 1 /\ said <= voice.queued + Oldest + 1
  /\ worker.pc = "start" => Oldest = 1
\* The queue goes on from what the worker holds.
VoiceHand ==
  /\ worker.pc \in {"slice", "send"} => Filled(worker.hand) /\ End(worker.hand) + 1 = Oldest
  /\ build # "c3" /\ worker.pc \notin {"slice", "send"} => worker.hand = <<>>
\* And that goes on from what was submitted, unless a number is missing.
VoiceLine ==
  /\ NextNum <= voice.seq
  /\ worker.pc = "send" => NextNum <= worker.num /\ worker.num + 1 = voice.seq
  /\ build = "c3" /\ worker.pc \in {"loop", "send"} => Tight
  /\ (build # "c3" \/ worker.pc \in {"loop", "send"}) /\ Tight => Pending = HeardVoice + 1
\* On the ESP32-C3 nothing is ever missing in between, and a worker that leaves without an error
\* has submitted everything.
Chained == \A i \in 1..Len(sent) : sent[i].units[1] = (IF i = 1 THEN 0 ELSE End(sent[i - 1].units)) + 1
VoiceDone ==
  build = "c3" =>
    /\ Chained
    /\ worker.pc \notin {"loop", "send"} /\ voice.session > 0 =>
         voice.abort \/ voice.error # "ok" \/ (voice.end /\ HeardVoice = said)

VoiceInv == VoiceTypeOK /\ VoiceControl /\ VoiceQueue /\ VoiceHand /\ VoiceLine /\ NumbersTellLoss /\ VoiceDone

\* The parts of the records.
LEMMA VoiceParts ==
  ASSUME VoiceTypeOK
  PROVE /\ voice.active \in BOOLEAN /\ voice.end \in BOOLEAN /\ voice.abort \in BOOLEAN
        /\ voice.error \in VoiceErrors
        /\ voice.queued \in -2..Cap /\ voice.queued \in Int /\ voice.session \in 0..MaxOpens /\ voice.seq \in Nat
        /\ voice.q \in Queues
        /\ worker.end \in BOOLEAN /\ worker.hand \in Chunk /\ worker.num \in Nat /\ worker.tries \in 0..Retries
        /\ worker.pc \in {"idle", "start", "loop", "pop", "slice", "send", "leave", "clear"}
        /\ link.up \in BOOLEAN /\ link.notify \in BOOLEAN /\ link.drops \in 0..MaxDrops
        /\ said \in Nat /\ writer \in Nat /\ Packet \in Nat \ {0} /\ Cap \in Nat /\ MaxSaid \in Nat
        /\ MaxOpens \in Nat /\ Retries \in Nat /\ MaxDrops \in Nat
<1>1. voice \in Voices /\ worker \in Workers /\ link \in VoiceLinks /\ said \in 0..MaxSaid /\ writer \in 0..2
  BY DEF VoiceTypeOK
<1>2. Packet \in Nat \ {0} /\ Cap \in Nat /\ MaxSaid \in Nat /\ MaxOpens \in Nat /\ Retries \in Nat /\ MaxDrops \in Nat
  BY VoiceAssumption
<1>3. voice.queued \in Int
  BY <1>1, <1>2 DEF Voices
<1> QED BY <1>1, <1>2, <1>3 DEF Voices, Workers, VoiceLinks

LEMMA LenNat ==
  ASSUME NEW s \in Chunk
  PROVE Len(s) \in Nat
BY DEF Chunk

\* Updating fields keeps the types.
LEMMA VoiceWith ==
  ASSUME NEW v \in Voices
  PROVE /\ \A b \in BOOLEAN : /\ [v EXCEPT !.active = b] \in Voices /\ [v EXCEPT !.end = b] \in Voices
                              /\ [v EXCEPT !.abort = b] \in Voices
                              /\ \A c \in BOOLEAN : [v EXCEPT !.end = b, !.abort = c] \in Voices
        /\ \A n \in Nat : [v EXCEPT !.seq = n] \in Voices
        /\ \A q \in Queues, n \in -2..Cap : /\ [v EXCEPT !.q = q, !.queued = n] \in Voices
                                             /\ [v EXCEPT !.q = q, !.queued = n, !.active = FALSE] \in Voices
                                             /\ \A k \in Nat : [v EXCEPT !.q = q, !.queued = n, !.seq = k] \in Voices
        /\ \A q \in Queues : [v EXCEPT !.q = q] \in Voices
        /\ \A e \in VoiceErrors :
             /\ [v EXCEPT !.error = e] \in Voices
             /\ [v EXCEPT !.error = e, !.abort = TRUE] \in Voices
             /\ [v EXCEPT !.abort = TRUE, !.error = e] \in Voices
             /\ [v EXCEPT !.end = TRUE, !.abort = TRUE, !.error = e] \in Voices
BY DEF Voices, VoiceErrors

LEMMA PlaceWith ==
  ASSUME NEW w \in Workers, NEW p \in {"idle", "start", "loop", "pop", "slice", "send", "leave", "clear"}
  PROVE /\ [w EXCEPT !.pc = p] \in Workers
        /\ \A b \in BOOLEAN : [w EXCEPT !.pc = p, !.end = b] \in Workers
        /\ \A h \in Chunk : [w EXCEPT !.pc = p, !.hand = h] \in Workers
        /\ \A h \in Chunk : [w EXCEPT !.hand = h, !.pc = p] \in Workers
        /\ \A n \in Nat, t \in 0..Retries : [w EXCEPT !.pc = p, !.num = n, !.tries = t] \in Workers
        /\ \A h \in Chunk, n \in Nat, t \in 0..Retries :
             [w EXCEPT !.pc = p, !.hand = h, !.num = n, !.tries = t] \in Workers
<1>1. [w EXCEPT !.pc = p] \in Workers
  BY DEF Workers
<1>2. \A b \in BOOLEAN : [w EXCEPT !.pc = p, !.end = b] \in Workers
  BY DEF Workers
<1>3. \A h \in Chunk : [w EXCEPT !.pc = p, !.hand = h] \in Workers
  BY DEF Workers
<1>4. \A h \in Chunk : [w EXCEPT !.hand = h, !.pc = p] \in Workers
  BY DEF Workers
<1>5. \A n \in Nat, t \in 0..Retries : [w EXCEPT !.pc = p, !.num = n, !.tries = t] \in Workers
  BY DEF Workers
<1>6. \A h \in Chunk, n \in Nat, t \in 0..Retries :
        [w EXCEPT !.pc = p, !.hand = h, !.num = n, !.tries = t] \in Workers
  BY DEF Workers
<1> QED BY <1>1, <1>2, <1>3, <1>4, <1>5, <1>6

\* The units of a write are numbered on from what was accepted.
LEMMA UnitsRun ==
  ASSUME said \in Nat, NEW n \in Nat \ {0}
  PROVE /\ NewUnits(n) \in Chunk /\ Len(NewUnits(n)) = n /\ NewUnits(n) # <<>>
        /\ NewUnits(n)[1] = said + 1 /\ NewUnits(n)[n] = said + n
        /\ \A i \in 1..n : NewUnits(n)[i] = said + i
<1>1. NewUnits(n) = [i \in 1..n |-> said + i]
  BY DEF NewUnits
<1>2. \A i \in 1..n : said + i \in UnitNumbers
  BY DEF UnitNumbers
<1>3. NewUnits(n) \in Chunk
  BY <1>1, <1>2 DEF Chunk
<1>4. Len(NewUnits(n)) = n
  BY <1>1
<1> QED BY <1>1, <1>3, <1>4

\* What is cut off a sequence of units, and what is left.
LEMMA Cut ==
  ASSUME NEW s \in Chunk, NEW n \in 1..Len(s)
  PROVE /\ SubSeq(s, 1, n) \in Chunk /\ Len(SubSeq(s, 1, n)) = n
        /\ \A i \in 1..n : SubSeq(s, 1, n)[i] = s[i]
        /\ SubSeq(s, n + 1, Len(s)) \in Chunk /\ Len(SubSeq(s, n + 1, Len(s))) = Len(s) - n
        /\ \A i \in 1..(Len(s) - n) : SubSeq(s, n + 1, Len(s))[i] = s[n + i]
<1>1. SubSeq(s, 1, n) \in Seq(UnitNumbers) /\ Len(SubSeq(s, 1, n)) = n /\ \A i \in 1..n : SubSeq(s, 1, n)[i] = s[i]
  BY SubSeqProperties DEF Chunk
<1>2. SubSeq(s, n + 1, Len(s)) \in Seq(UnitNumbers) /\ Len(SubSeq(s, n + 1, Len(s))) = Len(s) - n
  <2>1. Len(s) \in Nat /\ s \in Seq(UnitNumbers)
    BY DEF Chunk
  <2>2. CASE n = Len(s)
    BY <2>1, <2>2, SubSeqProperties
  <2>3. CASE n < Len(s)
    BY <2>1, <2>3, SubSeqProperties
  <2> QED BY <2>1, <2>2, <2>3
<1>3. \A i \in 1..(Len(s) - n) : SubSeq(s, n + 1, Len(s))[i] = s[n + i]
  <2>1. Len(s) \in Nat /\ s \in Seq(UnitNumbers)
    BY DEF Chunk
  <2> QED BY <2>1, SubSeqProperties
<1> QED BY <1>1, <1>2, <1>3 DEF Chunk

\* What the queue is made of; taking its first chunk takes the count at most a write below zero.
LEMMA First ==
  ASSUME VoiceTypeOK, VoiceQueue
  PROVE /\ build = "c3" => voice.q \in Chunk
        /\ build # "c3" => voice.q \in Seq(Chunk)
        /\ build # "c3" /\ voice.q # <<>> =>
             /\ Head(voice.q) = voice.q[1] /\ Head(voice.q) \in Chunk /\ Filled(voice.q[1])
             /\ Len(Head(voice.q)) \in Nat \ {0}
             /\ worker.pc # "start" => -2 <= voice.queued - Len(Head(voice.q))
<1>1. voice.q \in Queues /\ said \in Nat /\ voice.queued \in Int
  BY VoiceParts
<1>2. (build = "c3" => voice.q \in Chunk) /\ (build # "c3" => voice.q \in Seq(Chunk))
  BY <1>1 DEF Queues
<1>3. ASSUME build # "c3", voice.q # <<>>
      PROVE  /\ Head(voice.q) = voice.q[1] /\ Head(voice.q) \in Chunk /\ Filled(voice.q[1])
             /\ Len(Head(voice.q)) \in Nat \ {0}
             /\ worker.pc # "start" => -2 <= voice.queued - Len(Head(voice.q))
  <2> DEFINE h == voice.q[1]
  <2>1. Head(voice.q) = h /\ h \in Chunk /\ 1 \in 1..Len(voice.q)
    BY <1>2, <1>3, Tl
  <2>2. Filled(h) /\ End(h) <= said /\ (worker.pc # "start" => said <= voice.queued + h[1] + 1)
    BY <1>3, <2>1 DEF VoiceQueue, Oldest
  <2>3. h \in Seq(UnitNumbers) /\ Len(h) \in Nat /\ Len(h) # 0
    BY <2>1, <2>2, EmptySeq DEF Chunk, Filled
  <2>4. 1 \in 1..Len(h) /\ Len(h) \in 1..Len(h)
    BY <2>3
  <2>5. h[1] \in Nat /\ h[Len(h)] \in Nat
    BY <2>3, <2>4 DEF UnitNumbers
  <2>6. h[Len(h)] = h[1] + Len(h) - 1
    BY <2>2, <2>4 DEF Filled, Run
  <2>7. \A q \in Int : \A a, b, c, l \in Nat : b = a + l - 1 /\ b <= c /\ c <= q + a + 1 => -2 <= q - l
    OBVIOUS
  <2>8. worker.pc # "start" => -2 <= voice.queued - Len(h)
    BY <1>1, <2>2, <2>3, <2>5, <2>6, <2>7 DEF End
  <2> QED BY <2>1, <2>2, <2>3, <2>8
<1> QED BY <1>2, <1>3

\* A slice is the beginning of the chunk in hand; what is left goes on from it.
LEMMA SliceOf ==
  ASSUME Filled(worker.hand), worker.hand \in Chunk
  PROVE /\ Slice \in Chunk /\ Left \in Chunk
        /\ Filled(Slice) /\ Slice[1] = worker.hand[1]
        /\ Left = <<>> => End(Slice) = End(worker.hand)
        /\ Left # <<>> => Filled(Left) /\ Left[1] = End(Slice) + 1 /\ End(Left) = End(worker.hand)
<1> DEFINE h == worker.hand
           n == IF Len(h) <= Packet THEN Len(h) ELSE Packet
<1>1. h \in Seq(UnitNumbers) /\ Len(h) \in Nat \ {0} /\ Packet \in Nat \ {0}
  BY EmptySeq, VoiceAssumption DEF Chunk, Filled
<1>2. n \in 1..Len(h)
  BY <1>1
<1>3. SubSeq(h, 1, Len(h)) = h
  BY <1>1
<1>4. Slice = SubSeq(h, 1, n)
  BY <1>3 DEF Slice
<1>5. Len(Slice) = n
  BY <1>2, <1>4, Cut
<1>6. Left = SubSeq(h, n + 1, Len(h))
  BY <1>5 DEF Left
<1>7. \A i \in 1..Len(h) : h[i] = h[1] + i - 1 /\ h[i] \in Nat
  BY <1>1 DEF Filled, Run, UnitNumbers
<1> DEFINE s == Slice
           l == Left
<1>8. /\ s \in Chunk /\ Len(s) = n /\ \A i \in 1..n : s[i] = h[i]
      /\ l \in Chunk /\ Len(l) = Len(h) - n /\ \A i \in 1..(Len(h) - n) : l[i] = h[n + i]
  BY <1>2, <1>4, <1>6, Cut
<1>9. s # <<>> /\ (l = <<>> <=> Len(h) = n)
  BY <1>1, <1>2, <1>8, EmptySeq DEF Chunk
<1> HIDE DEF n, s, l
<1>n. n \in Nat \ {0} /\ n <= Len(h) /\ 1 \in 1..n /\ n \in 1..n
  BY <1>1, <1>2
<1>10. Run(s) /\ s[1] = h[1] /\ s[Len(s)] = h[n]
  <2>1. s[1] = h[1] /\ s[Len(s)] = h[n]
    BY <1>8, <1>n
  <2>2. ASSUME NEW i \in 1..n PROVE s[i] = s[1] + i - 1
    <3>1. i \in 1..Len(h)
      BY <1>1, <1>n
    <3> QED BY <1>7, <1>8, <2>1, <3>1
  <2> QED BY <1>8, <2>1, <2>2 DEF Run
<1>11. ASSUME l # <<>> PROVE Run(l) /\ l[1] = h[n] + 1 /\ l[Len(l)] = h[Len(h)]
  <2>1. n < Len(h) /\ Len(l) \in Nat \ {0}
    BY <1>1, <1>2, <1>8, <1>9, <1>11
  <2>2. \A i \in 1..Len(l) : l[i] = h[1] + (n + i) - 1
    BY <1>1, <1>2, <1>7, <1>8, <2>1
  <2>3. h[n] = h[1] + n - 1 /\ h[1] \in Nat /\ n \in Nat
    BY <1>1, <1>2, <1>7
  <2>4. l[1] = h[1] + n
    BY <2>1, <2>2, <2>3
  <2>5. Run(l)
    BY <2>1, <2>2, <2>3, <2>4 DEF Run
  <2>6. l[Len(l)] = h[Len(h)]
    <3>1. Len(l) = Len(h) - n /\ Len(l) \in 1..(Len(h) - n) /\ n + Len(l) = Len(h)
      BY <1>1, <1>8, <1>n, <2>1
    <3> QED BY <1>8, <3>1
  <2>7. \A a, b, m \in Nat : a = b + m - 1 => a + 1 = b + m
    OBVIOUS
  <2>8. h[n] \in Nat
    BY <1>1, <1>2, <1>7
  <2>9. l[1] = h[n] + 1
    BY <2>3, <2>4, <2>7, <2>8
  <2> QED BY <2>5, <2>6, <2>9
<1>12. s[Len(s)] = h[n]
  BY <1>10
<1> QED BY <1>8, <1>9, <1>10, <1>11 DEF Filled, End, s, l

\* No step of the board, the worker or the link breaks a type.
LEMMA VoiceTypes ==
  ASSUME VoiceTypeOK, VoiceControl, VoiceQueue, VoiceHand, VoiceNext
  PROVE VoiceTypeOK'
<1>1. /\ build \in Builds /\ link \in VoiceLinks /\ open \in BOOLEAN /\ voice \in Voices /\ worker \in Workers
      /\ writer \in 0..2 /\ said \in 0..MaxSaid /\ sent \in Seq([num : Nat, units : Chunk]) /\ full \in BOOLEAN
  BY DEF VoiceTypeOK
<1>2. ASSUME /\ build' = build /\ link' \in VoiceLinks /\ open' \in BOOLEAN /\ voice' \in Voices /\ worker' \in Workers
             /\ writer' \in 0..2 /\ said' \in 0..MaxSaid /\ sent' \in Seq([num : Nat, units : Chunk]) /\ full' \in BOOLEAN
      PROVE VoiceTypeOK'
  BY <1>1, <1>2 DEF VoiceTypeOK, Voices, Queues
<1>q. /\ build = "c3" => voice.q \in Chunk
      /\ build # "c3" => voice.q \in Seq(Chunk)
  BY First
<1>e. <<>> \in Queues /\ <<>> \in Chunk /\ 0 \in -2..Cap /\ 0 \in 0..Retries /\ Resting \in Workers
  <2>1. <<>> \in Queues /\ <<>> \in Chunk
    BY DEF Queues, Chunk
  <2> QED BY <2>1, VoiceParts DEF Resting, Workers
<1>s. ASSUME NEW p \in {"idle", "start", "loop", "pop", "slice", "send", "leave", "clear"}
      PROVE [worker EXCEPT !.pc = p] \in Workers
  BY <1>1, PlaceWith
<1>a. ASSUME NEW n \in 1..2, Fits(n), Accept(n), said + n <= MaxSaid
      PROVE voice' \in Voices /\ said' \in 0..MaxSaid /\ sent' = sent /\ full' = full
  <2>0. said \in Nat /\ n \in Nat \ {0}
    BY VoiceParts
  <2>1. NewUnits(n) \in Chunk
    BY <2>0, UnitsRun
  <2>2. (IF build = "c3" THEN voice.q \o NewUnits(n) ELSE Append(voice.q, NewUnits(n))) \in Queues
    <3>1. CASE build = "c3"
      BY <2>1, <3>1, <1>q DEF Queues, Chunk
    <3>2. CASE build # "c3"
      <4>1. Append(voice.q, NewUnits(n)) \in Seq(Chunk)
        BY <2>1, <3>2, <1>q, Ap
      <4> QED BY <3>2, <4>1 DEF Queues
    <3> QED BY <3>1, <3>2
  <2>3. voice.queued + n \in -2..Cap
    BY <1>a, VoiceParts DEF Fits
  <2>4. voice' = [voice EXCEPT !.q = IF build = "c3" THEN voice.q \o NewUnits(n) ELSE Append(voice.q, NewUnits(n)),
                               !.queued = voice.queued + n]
    BY <1>a DEF Accept
  <2>5. voice' \in Voices
    BY <2>2, <2>3, <2>4, <1>1, VoiceWith
  <2>6. said' \in 0..MaxSaid
    BY <1>a, VoiceParts DEF Accept
  <2> QED BY <2>5, <2>6, <1>a DEF Accept
<1>c. ASSUME voice.session < MaxOpens PROVE Started \in Voices
  <2>1. voice.session + 1 \in 0..MaxOpens
    <3>1. voice.session \in 0..MaxOpens /\ MaxOpens \in Nat
      BY VoiceParts
    <3> QED BY <1>c, <3>1
  <2> QED BY <2>1, <1>1, <1>e DEF Started, Voices, VoiceErrors
<1>z. ASSUME NoneSaid PROVE said' \in 0..MaxSaid /\ sent' \in Seq([num : Nat, units : Chunk]) /\ full' \in BOOLEAN
  <2>1. 0 \in 0..MaxSaid
    BY VoiceParts
  <2>2. <<>> \in Seq([num : Nat, units : Chunk])
    OBVIOUS
  <2> QED BY <1>z, <2>1, <2>2 DEF NoneSaid
<1>4. CASE Open
  <2>1. CASE Start
    <3>1. [Started EXCEPT !.q = <<>>] \in Voices
      BY <1>c, <1>e, <2>1, VoiceWith DEF Start, CanStart
    <3>2. [Resting EXCEPT !.pc = "loop"] \in Workers
      BY <1>e, PlaceWith
    <3>3. voice' \in Voices /\ worker' \in Workers
      BY <2>1, <3>1, <3>2 DEF Start
    <3> QED BY <1>1, <1>2, <1>4, <1>z, <2>1, <3>3 DEF Open, Start
  <2>2. CASE StartEmpties
    <3>1. [voice EXCEPT !.q = <<>>] \in Voices
      BY <1>1, <1>e, VoiceWith
    <3>2. [Resting EXCEPT !.pc = "start"] \in Workers
      BY <1>e, PlaceWith
    <3>3. voice' \in Voices /\ worker' \in Workers
      BY <2>2, <3>1, <3>2 DEF StartEmpties
    <3> QED BY <1>1, <1>2, <1>4, <1>z, <2>2, <3>3 DEF Open, StartEmpties
  <2>3. CASE Continue
    BY <1>1, <1>2, <1>4, <2>3 DEF Open, Continue, hist
  <2> QED BY <1>4, <2>1, <2>2, <2>3 DEF Open
<1>24. CASE StartResets
  <2>1. voice.session < MaxOpens
    BY <1>24 DEF StartResets, VoiceControl
  <2>2. voice' \in Voices /\ worker' \in Workers
    BY <1>24, <1>c, <1>s, <2>1 DEF StartResets
  <2> QED BY <1>1, <1>2, <1>24, <2>2 DEF StartResets, hist
<1>25. CASE NoMtuC3
  <2>1. [voice EXCEPT !.error = "size"] \in Voices
    BY <1>1, VoiceWith DEF VoiceErrors
  <2> QED BY <1>1, <1>2, <1>25, <1>s, <2>1 DEF NoMtuC3, VoiceGoto
<1>5. ASSUME NEW n \in 1..2, WriteC3(n) PROVE VoiceTypeOK'
  <2>1. CASE Fits(n)
    BY <1>1, <1>2, <1>a, <1>5, <2>1 DEF WriteC3
  <2>2. CASE ~Fits(n)
    <3>1. [voice EXCEPT !.error = "no_mem", !.abort = TRUE] \in Voices
      BY <1>1, VoiceWith DEF VoiceErrors
    <3> QED BY <1>1, <1>2, <1>5, <2>2, <3>1 DEF WriteC3
  <2> QED BY <2>1, <2>2
<1>6. ASSUME NEW n \in 1..2, WriteBegin(n) PROVE VoiceTypeOK'
  BY <1>1, <1>2, <1>6 DEF WriteBegin, hist
<1>7. CASE WriteEnd
  <2>1. CASE Fits(writer)
    <3>1. writer \in 1..2 /\ said + writer <= MaxSaid
      BY <1>1, <1>7 DEF WriteEnd, VoiceControl
    <3> QED BY <1>1, <1>2, <1>a, <1>7, <2>1, <3>1 DEF WriteEnd
  <2>2. CASE ~Fits(writer)
    BY <1>1, <1>2, <1>7, <2>2, VoiceParts DEF WriteEnd
  <2> QED BY <2>1, <2>2
<1>8. ASSUME NEW c \in BOOLEAN, VoiceEnd(c) PROVE VoiceTypeOK'
  <2>1. [voice EXCEPT !.end = TRUE, !.abort = voice.abort \/ ~c] \in Voices
    BY <1>1, VoiceParts, VoiceWith
  <2>2. [voice EXCEPT !.end = voice.end \/ voice.active] \in Voices
    BY <1>1, VoiceParts, VoiceWith
  <2>3. voice' \in Voices
    BY <2>1, <2>2, <1>8 DEF VoiceEnd
  <2> QED BY <1>1, <1>2, <1>8, <2>3 DEF VoiceEnd
<1>9. CASE LoopC3
  <2>1. ASSUME VoiceGoto("leave"), UNCHANGED voice PROVE VoiceTypeOK'
    BY <1>1, <1>2, <1>9, <1>s, <2>1 DEF LoopC3, VoiceGoto, hist
  <2>2. ASSUME NEW n, n = PacketUnits(voice.queued, voice.end), n > 0, Take(n) PROVE VoiceTypeOK'
    <3>1. voice.q \in Chunk /\ Len(voice.q) = voice.queued
      BY <1>9, <1>q DEF LoopC3, VoiceAt, VoiceQueue
    <3>2. n \in 1..Len(voice.q)
      <4>1. voice.queued \in Nat /\ Packet \in Nat \ {0}
        BY <3>1, VoiceParts, LenNat
      <4>2. n = (IF voice.queued >= Packet THEN Packet ELSE IF voice.end THEN voice.queued ELSE 0) /\ n > 0
        BY <2>2 DEF PacketUnits
      <4> QED BY <3>1, <4>1, <4>2
    <3>3. SubSeq(voice.q, 1, n) \in Chunk /\ SubSeq(voice.q, n + 1, Len(voice.q)) \in Queues
      BY <3>1, <3>2, Cut, <1>9 DEF LoopC3, VoiceAt, Queues
    <3>4. voice.queued - n \in -2..Cap /\ voice.seq + 1 \in Nat
      <4>1. /\ voice.queued \in -2..Cap /\ Cap \in Nat /\ voice.queued \in Nat /\ voice.seq \in Nat
            /\ n \in 1..voice.queued
        BY <3>1, <3>2, VoiceParts, LenNat
      <4>2. \A a, c \in Nat : \A b \in 1..a : a \in -2..c => a - b \in -2..c
        OBVIOUS
      <4> QED BY <4>1, <4>2
    <3>5. [voice EXCEPT !.q = SubSeq(voice.q, n + 1, Len(voice.q)), !.queued = voice.queued - n,
                        !.seq = voice.seq + 1] \in Voices
      BY <1>1, <3>3, <3>4, VoiceWith
    <3>6. [worker EXCEPT !.pc = "send", !.hand = SubSeq(voice.q, 1, n), !.num = voice.seq, !.tries = 0] \in Workers
      BY <1>1, <1>e, <3>3, PlaceWith, VoiceParts
    <3>7. voice' \in Voices /\ worker' \in Workers
      BY <2>2, <3>5, <3>6 DEF Take
    <3> QED BY <1>1, <1>2, <1>9, <3>7 DEF LoopC3, hist
  <2> QED BY <1>9, <2>1, <2>2 DEF LoopC3
<1>t. ASSUME NEW h \in Chunk, sent' = Append(sent, [num |-> worker.num, units |-> h])
      PROVE  sent' \in Seq([num : Nat, units : Chunk])
  BY <1>1, <1>t, VoiceParts, Ap
<1>10. CASE SentC3
  <2>1. sent' \in Seq([num : Nat, units : Chunk])
    BY <1>10, <1>t, VoiceParts DEF SentC3, Submit
  <2> QED BY <1>1, <1>2, <1>10, <1>s, <2>1 DEF SentC3, VoiceGoto
<1>b. ASSUME worker.tries < Retries, worker' = [worker EXCEPT !.tries = worker.tries + 1] PROVE worker' \in Workers
  <2>1. worker.tries + 1 \in 0..Retries
    BY <1>b, VoiceParts
  <2>2. [worker EXCEPT !.tries = worker.tries + 1] \in Workers
    BY <2>1, <1>1 DEF Workers
  <2> QED BY <1>b, <2>2
<1>11. CASE BusyC3
  BY <1>1, <1>2, <1>11, <1>b DEF BusyC3, hist
<1>12. CASE FailC3
  <2>1. /\ [voice EXCEPT !.abort = TRUE] \in Voices
        /\ \A e \in {"timeout", "no_mem", "state"} : [voice EXCEPT !.abort = TRUE, !.error = e] \in Voices
    BY <1>1, VoiceWith DEF VoiceErrors
  <2>2. voice' \in Voices
    BY <1>12, <2>1 DEF FailC3
  <2> QED BY <1>1, <1>2, <1>12, <1>s, <2>2 DEF FailC3, VoiceGoto
<1>13. CASE LeaveC3
  <2>1. [voice EXCEPT !.error = "state"] \in Voices
    BY <1>1, VoiceWith DEF VoiceErrors
  <2> QED BY <1>1, <1>2, <1>13, <1>s, <2>1 DEF LeaveC3, VoiceGoto, hist
<1>14. CASE ClearC3
  <2>1. [voice EXCEPT !.q = <<>>, !.queued = 0, !.active = FALSE] \in Voices
    BY <1>1, <1>e, VoiceWith
  <2> QED BY <1>1, <1>2, <1>14, <1>e, <2>1 DEF ClearC3, hist
<1>15. CASE LoopStd
  <2>1. [worker EXCEPT !.pc = "pop", !.end = voice.end] \in Workers
    BY <1>1, PlaceWith, VoiceParts
  <2> QED BY <1>1, <1>2, <1>15, <1>s, <2>1 DEF LoopStd, hist
<1>16. CASE PopStd
  <2>1. CASE voice.q = <<>>
    <3>1. worker' \in Workers /\ voice' = voice
      BY <1>16, <1>s, <2>1 DEF PopStd, VoiceGoto
    <3> QED BY <1>1, <1>2, <1>16, <3>1 DEF PopStd, hist
  <2>2. CASE voice.q # <<>>
    <3>1. build # "c3"
      BY <1>16 DEF PopStd, VoiceAt
    <3>2. Head(voice.q) \in Chunk /\ Len(Head(voice.q)) \in Nat /\ -2 <= voice.queued - Len(Head(voice.q))
      BY <1>16, <2>2, <3>1, First DEF PopStd, VoiceAt
    <3>3. Tail(voice.q) \in Queues
      BY <2>2, <3>1, <1>q, Tl DEF Queues
    <3>4. voice.queued - Len(Head(voice.q)) \in -2..Cap
      <4>1. voice.queued \in -2..Cap /\ Cap \in Nat /\ voice.queued \in Int
        BY VoiceParts
      <4>2. \A a \in Int : \A b, c \in Nat : -2 <= a - b /\ a \in -2..c => a - b \in -2..c
        OBVIOUS
      <4> QED BY <3>2, <4>1, <4>2
    <3>5. [voice EXCEPT !.q = Tail(voice.q), !.queued = voice.queued - Len(Head(voice.q))] \in Voices
      BY <1>1, <3>3, <3>4, VoiceWith
    <3>6. [worker EXCEPT !.pc = "slice", !.hand = Head(voice.q)] \in Workers
      BY <1>1, <3>2, PlaceWith
    <3>7. voice' \in Voices /\ worker' \in Workers
      BY <1>16, <2>2, <3>5, <3>6 DEF PopStd
    <3> QED BY <1>1, <1>2, <1>16, <3>7 DEF PopStd, hist
  <2> QED BY <2>1, <2>2
<1>17. CASE SliceStd
  <2>1. voice.seq + 1 \in Nat /\ voice.seq \in Nat
    BY VoiceParts
  <2>2. [voice EXCEPT !.seq = voice.seq + 1] \in Voices
    BY <1>1, <2>1, VoiceWith
  <2>3. [worker EXCEPT !.pc = "send", !.num = voice.seq, !.tries = 0] \in Workers
    BY <1>1, <1>e, <2>1, PlaceWith
  <2> QED BY <1>1, <1>2, <1>17, <2>2, <2>3 DEF SliceStd, hist
<1>18. CASE SentStd
  <2>1. Filled(worker.hand) /\ worker.hand \in Chunk
    BY <1>18, VoiceParts DEF SentStd, VoiceAt, VoiceHand
  <2>2. Slice \in Chunk /\ Left \in Chunk
    BY <2>1, SliceOf
  <2>3. [worker EXCEPT !.hand = Left, !.pc = IF Left = <<>> THEN "loop" ELSE "slice"] \in Workers
    BY <1>1, <2>2, PlaceWith
  <2>4. worker' \in Workers
    BY <1>18, <2>3 DEF SentStd
  <2>5. sent' \in Seq([num : Nat, units : Chunk])
    BY <1>18, <1>t, <2>2 DEF SentStd
  <2> QED BY <1>1, <1>2, <1>18, <2>4, <2>5 DEF SentStd
<1>19. CASE BusyStd
  BY <1>1, <1>2, <1>19, <1>b DEF BusyStd, hist
<1>20. CASE FailStd
  <2>1. [voice EXCEPT !.end = TRUE] \in Voices
    BY <1>1, VoiceWith
  <2>2. [worker EXCEPT !.pc = "loop", !.hand = <<>>] \in Workers
    BY <1>1, <1>e, PlaceWith
  <2> QED BY <1>1, <1>2, <1>20, <2>1, <2>2 DEF FailStd
<1>21. CASE LeaveStd
  <2>1. [voice EXCEPT !.active = FALSE] \in Voices
    BY <1>1, VoiceWith
  <2> QED BY <1>1, <1>2, <1>21, <1>e, <2>1 DEF LeaveStd, hist
<1>22. CASE Drop
  <2>1. link' \in VoiceLinks
    BY <1>22, VoiceParts DEF Drop, VoiceLinks
  <2>2. voice' \in Voices
    BY <1>1, <1>22, VoiceWith DEF Drop, VoiceErrors
  <2> QED BY <1>1, <1>2, <1>22, <2>1, <2>2 DEF Drop
<1>23. CASE Connect \/ Subscribe \/ Unsubscribe
  <2>1. link' \in VoiceLinks
    <3>1. [link EXCEPT !.up = TRUE] \in VoiceLinks /\ [link EXCEPT !.notify = TRUE] \in VoiceLinks
      BY <1>1 DEF VoiceLinks
    <3>2. ASSUME link.drops < MaxDrops PROVE [link EXCEPT !.notify = FALSE, !.drops = link.drops + 1] \in VoiceLinks
      <4>1. link.drops \in 0..MaxDrops /\ MaxDrops \in Nat
        BY VoiceParts
      <4>2. link.drops + 1 \in 0..MaxDrops
        BY <3>2, <4>1
      <4> QED BY <1>1, <4>2 DEF VoiceLinks
    <3> QED BY <1>23, <3>1, <3>2 DEF Connect, Subscribe, Unsubscribe
  <2> QED BY <1>1, <1>2, <1>23, <2>1 DEF Connect, Subscribe, Unsubscribe, hist
<1> QED
  BY <1>4, <1>5, <1>6, <1>7, <1>8, <1>9, <1>10, <1>11, <1>12, <1>13, <1>14, <1>15, <1>16, <1>17, <1>18, <1>19, <1>20,
     <1>21, <1>22, <1>23, <1>24, <1>25 DEF VoiceNext, App, Worker, Link

\* Threads, flags and the link.
LEMMA VoiceControlStep ==
  ASSUME VoiceTypeOK, VoiceControl, VoiceNext
  PROVE VoiceControl'
<1>1. voice \in Voices /\ worker \in Workers /\ link \in VoiceLinks /\ writer \in Nat /\ said \in Nat /\ MaxSaid \in Nat
  BY VoiceParts DEF VoiceTypeOK
<1>v. DOMAIN voice = {"active", "end", "abort", "error", "q", "queued", "session", "seq"}
  BY <1>1 DEF Voices
<1>w. DOMAIN worker = {"pc", "end", "hand", "num", "tries"}
  BY <1>1 DEF Workers
<1>k. ASSUME NEW p, VoiceGoto(p) PROVE worker' = [worker EXCEPT !.pc = p] /\ worker'.pc = p
  BY <1>w, <1>k DEF VoiceGoto
<1>4. CASE Open
  <2>1. CASE Start
    <3>1. voice'.active /\ worker'.pc = "loop"
      BY <1>1, <2>1, <1>v DEF Start, Started, Resting
    <3> QED BY <1>1, <1>4, <2>1, <3>1 DEF Open, Start, CanStart, NoneSaid, VoiceControl
  <2>2. CASE StartEmpties
    <3>1. voice'.active = voice.active /\ voice'.session = voice.session /\ worker'.pc = "start"
      BY <1>1, <2>2, <1>v DEF StartEmpties, Resting
    <3>2. /\ build' = build /\ writer' = writer /\ build = "std" /\ ~voice.active /\ voice.session < MaxOpens
          /\ said' = 0 /\ sent' = <<>>
      BY <1>4, <2>2 DEF Open, StartEmpties, CanStart, NoneSaid
    <3>3. writer \in 0..2
      BY DEF VoiceTypeOK
    <3>4. said' + writer' <= 2 /\ (writer > 0 => said' + writer' <= MaxSaid)
      <4>1. \A w, n, m \in Nat : n + w <= m => 0 + w <= m
        OBVIOUS
      <4> QED BY <1>1, <3>2, <3>3, <4>1 DEF VoiceControl
    <3> QED BY <3>1, <3>2, <3>4 DEF VoiceControl
  <2>3. CASE Continue
    BY <1>4, <2>3 DEF Open, Continue, hist, VoiceControl
  <2> QED BY <1>4, <2>1, <2>2, <2>3 DEF Open
<1>24. CASE StartResets
  <2>1. voice'.active /\ worker'.pc = "loop"
    BY <1>24, <1>v, <1>w DEF StartResets, Started
  <2>2. build' = build /\ writer' = writer /\ said' = said /\ link' = link /\ build # "c3"
    BY <1>24 DEF StartResets, hist, VoiceControl
  <2> QED BY <2>1, <2>2 DEF VoiceControl
<1>25. CASE NoMtuC3
  <2>1. voice'.active = voice.active /\ voice'.abort = voice.abort /\ worker'.pc = "leave"
    BY <1>25, <1>v, <1>k DEF NoMtuC3
  <2> QED BY <1>25, <2>1 DEF NoMtuC3, VoiceAt, VoiceControl
<1>5. ASSUME NEW n \in 1..2, WriteC3(n) PROVE VoiceControl'
  <2>1. /\ build' = build /\ link' = link /\ worker' = worker /\ writer' = writer /\ build = "c3"
        /\ voice'.active = voice.active /\ (voice'.abort = voice.abort \/ voice'.abort)
    BY <1>5, <1>v DEF WriteC3, Accept
  <2> QED BY <2>1 DEF VoiceControl
<1>6. ASSUME NEW n \in 1..2, WriteBegin(n) PROVE VoiceControl'
  BY <1>6 DEF WriteBegin, hist, VoiceControl
<1>7. CASE WriteEnd
  <2>1. /\ build' = build /\ link' = link /\ worker' = worker /\ writer' = 0 /\ sent' = sent
        /\ voice'.active = voice.active /\ voice'.abort = voice.abort /\ voice'.session = voice.session
    BY <1>7, <1>v DEF WriteEnd, Accept
  <2>2. said' + writer' <= said + writer
    <3>1. said' = said \/ said' = said + writer
      BY <1>7 DEF WriteEnd, Accept
    <3>2. \A a, b \in Nat : a + 0 <= a + b /\ (a + b) + 0 <= a + b
      OBVIOUS
    <3> QED BY <1>1, <2>1, <3>1, <3>2
  <2>3. worker.pc = "start" => said' + writer' <= 2
    <3>1. \A a, b \in Nat : a <= b /\ b <= 2 => a <= 2
      OBVIOUS
    <3>2. said' + writer' \in Nat /\ said + writer \in Nat
      BY <1>1, <1>7, <2>1 DEF WriteEnd, Accept
    <3> QED BY <2>2, <3>1, <3>2 DEF VoiceControl
  <2> QED BY <2>1, <2>3 DEF VoiceControl
<1>8. ASSUME NEW c \in BOOLEAN, VoiceEnd(c) PROVE VoiceControl'
  <2>1. /\ build' = build /\ link' = link /\ worker' = worker /\ writer' = writer /\ said' = said /\ sent' = sent
        /\ voice'.active = voice.active /\ (voice.abort => voice'.abort) /\ voice'.session = voice.session
    BY <1>8, <1>v DEF VoiceEnd
  <2> QED BY <2>1 DEF VoiceControl
<1>9. CASE LoopC3
  <2>1. /\ build' = build /\ link' = link /\ writer' = writer /\ said' = said /\ build = "c3" /\ worker.pc = "loop"
        /\ voice'.active = voice.active /\ voice'.abort = voice.abort /\ worker'.pc \in {"leave", "send"}
    <3>1. CASE VoiceGoto("leave") /\ UNCHANGED voice
      BY <1>9, <1>k, <3>1 DEF LoopC3, VoiceAt, hist
    <3>2. ASSUME NEW n, Take(n) PROVE voice'.active = voice.active /\ voice'.abort = voice.abort /\ worker'.pc = "send"
      BY <3>2, <1>v, <1>w DEF Take
    <3> QED BY <1>9, <3>1, <3>2 DEF LoopC3, VoiceAt, hist
  <2> QED BY <2>1 DEF VoiceControl
<1>10. CASE SentC3
  BY <1>10, <1>k DEF SentC3, VoiceAt, VoiceControl
<1>11. CASE BusyC3
  BY <1>11, <1>w DEF BusyC3, VoiceAt, hist, VoiceControl
<1>12. CASE FailC3
  <2>1. voice'.active = voice.active /\ voice'.abort
    BY <1>12, <1>v DEF FailC3
  <2>2. worker'.pc = "leave"
    BY <1>12, <1>k DEF FailC3
  <2>3. build' = build /\ link' = link /\ writer' = writer /\ said' = said /\ build = "c3" /\ worker.pc = "send"
    BY <1>12 DEF FailC3, VoiceAt
  <2> QED BY <2>1, <2>2, <2>3 DEF VoiceControl
<1>13. CASE LeaveC3
  <2>1. voice'.active = voice.active /\ voice'.abort = voice.abort
    BY <1>13, <1>v DEF LeaveC3
  <2> QED BY <1>13, <1>k, <2>1 DEF LeaveC3, VoiceAt, hist, VoiceControl
<1>14. CASE ClearC3
  <2>1. voice'.active = FALSE /\ voice'.abort = voice.abort /\ worker'.pc = "idle"
    BY <1>14, <1>v DEF ClearC3, Resting
  <2> QED BY <1>14, <2>1 DEF ClearC3, VoiceAt, hist, VoiceControl
<1>15. CASE LoopStd
  <2>1. worker'.pc \in {"pop", "leave"}
    BY <1>15, <1>w DEF LoopStd
  <2> QED BY <1>15, <2>1 DEF LoopStd, VoiceAt, hist, VoiceControl
<1>16. CASE PopStd
  <2>1. worker'.pc \in {"leave", "loop", "slice"} /\ voice'.active = voice.active
    <3>1. CASE voice.q = <<>>
      BY <1>16, <1>k, <3>1 DEF PopStd
    <3>2. CASE voice.q # <<>>
      BY <1>16, <1>v, <1>w, <3>2 DEF PopStd
    <3> QED BY <3>1, <3>2
  <2> QED BY <1>16, <2>1 DEF PopStd, VoiceAt, hist, VoiceControl
<1>17. CASE SliceStd
  <2>1. worker'.pc = "send" /\ voice'.active = voice.active
    BY <1>17, <1>v, <1>w DEF SliceStd
  <2> QED BY <1>17, <2>1 DEF SliceStd, VoiceAt, hist, VoiceControl
<1>18. CASE SentStd
  <2>1. worker'.pc \in {"loop", "slice"}
    BY <1>18, <1>w DEF SentStd
  <2> QED BY <1>18, <2>1 DEF SentStd, VoiceAt, VoiceControl
<1>19. CASE BusyStd
  BY <1>19, <1>w DEF BusyStd, VoiceAt, hist, VoiceControl
<1>20. CASE FailStd
  <2>1. worker'.pc = "loop" /\ voice'.active = voice.active
    BY <1>20, <1>v, <1>w DEF FailStd
  <2> QED BY <1>20, <2>1 DEF FailStd, VoiceAt, VoiceControl
<1>21. CASE LeaveStd
  <2>1. worker'.pc = "idle" /\ voice'.active = FALSE
    BY <1>21, <1>v DEF LeaveStd, Resting
  <2> QED BY <1>21, <2>1 DEF LeaveStd, VoiceAt, hist, VoiceControl
<1>22. CASE Drop
  <2>1. voice'.active = voice.active /\ (build = "c3" => voice'.abort) /\ voice'.session = voice.session
    BY <1>22, <1>v DEF Drop
  <2> QED BY <1>22, <2>1 DEF Drop, VoiceControl
<1>23. CASE Connect \/ Subscribe \/ Unsubscribe
  <2>1. link'.up \/ link'.up = link.up
    BY <1>1, <1>23 DEF Connect, Subscribe, Unsubscribe, VoiceLinks
  <2> QED BY <1>23, <2>1 DEF Connect, Subscribe, Unsubscribe, hist, VoiceControl
<1> QED
  BY <1>4, <1>5, <1>6, <1>7, <1>8, <1>9, <1>10, <1>11, <1>12, <1>13, <1>14, <1>15, <1>16, <1>17, <1>18, <1>19, <1>20,
     <1>21, <1>22, <1>23, <1>24, <1>25 DEF VoiceNext, App, Worker, Link

\* What a step does to the stream of units.
Kept == build' = build /\ said' = said /\ sent' = sent
SameVoiceQueue == voice'.q = voice.q /\ voice'.queued = voice.queued /\ voice'.session = voice.session
Holding(w) == w.pc \in {"slice", "send"}
Quiet ==
  /\ Kept /\ SameVoiceQueue /\ voice'.seq = voice.seq
  /\ worker'.pc = "start" <=> worker.pc = "start"
  /\ \/ worker'.pc = worker.pc /\ worker'.hand = worker.hand /\ worker'.num = worker.num
     \/ build # "c3" /\ ~Holding(worker) /\ ~Holding(worker') /\ (worker'.hand = worker.hand \/ worker'.hand = <<>>)
     \/ build = "c3" /\ worker'.pc \in {"leave", "clear"}
Restarted ==
  /\ build' = build /\ said' = 0 /\ sent' = <<>>
  /\ voice'.q = <<>> /\ voice'.queued = 0 /\ voice'.seq = 0
  /\ worker'.pc = "loop" /\ worker'.hand = <<>>
Emptied ==
  /\ build # "c3" /\ build' = build /\ said' = 0 /\ sent' = <<>>
  /\ voice'.q = <<>> /\ voice'.seq = voice.seq
  /\ worker'.pc = "start" /\ worker'.hand = <<>>
Reset ==
  /\ worker.pc = "start" /\ Kept /\ voice'.q = voice.q /\ voice'.queued = 0 /\ voice'.seq = 0
  /\ worker'.pc = "loop" /\ worker'.hand = worker.hand
Accepted(n) ==
  /\ build' = build /\ said' = said + n /\ sent' = sent /\ worker' = worker
  /\ voice'.q = IF build = "c3" THEN voice.q \o NewUnits(n) ELSE Append(voice.q, NewUnits(n))
  /\ voice'.queued = voice.queued + n /\ voice'.seq = voice.seq
Taken(n) ==
  /\ build = "c3" /\ worker.pc = "loop" /\ Kept
  /\ voice'.q = SubSeq(voice.q, n + 1, Len(voice.q)) /\ voice'.queued = voice.queued - n /\ voice'.seq = voice.seq + 1
  /\ worker'.pc = "send" /\ worker'.hand = SubSeq(voice.q, 1, n) /\ worker'.num = voice.seq
Cleared ==
  /\ build = "c3" /\ Kept /\ voice'.q = <<>> /\ voice'.queued = 0 /\ voice'.seq = voice.seq
  /\ worker'.pc = "idle"
Popped ==
  /\ build # "c3" /\ worker.pc = "pop" /\ voice.q # <<>> /\ Kept
  /\ voice'.q = Tail(voice.q) /\ voice'.queued = voice.queued - Len(Head(voice.q)) /\ voice'.seq = voice.seq
  /\ worker'.pc = "slice" /\ worker'.hand = Head(voice.q)
Numbered ==
  /\ build # "c3" /\ worker.pc = "slice" /\ Kept /\ SameVoiceQueue /\ voice'.seq = voice.seq + 1
  /\ worker'.pc = "send" /\ worker'.hand = worker.hand /\ worker'.num = voice.seq
Submitted(p, left) ==
  /\ worker.pc = "send" /\ build' = build /\ said' = said /\ SameVoiceQueue /\ voice'.seq = voice.seq
  /\ sent' = Append(sent, [num |-> worker.num, units |-> p])
  /\ build # "c3" => worker'.hand = left
  /\ worker'.pc = IF left = <<>> THEN "loop" ELSE "slice"
GivenUp ==
  /\ build # "c3" /\ worker.pc = "send" /\ Kept /\ SameVoiceQueue /\ voice'.seq = voice.seq
  /\ worker'.pc = "loop" /\ worker'.hand = <<>>

\* Every step does one of these.
LEMMA VoiceMoves ==
  ASSUME VoiceTypeOK, VoiceControl, VoiceQueue, VoiceNext
  PROVE \/ Quiet \/ Restarted \/ Emptied \/ Reset \/ Cleared \/ Popped \/ Numbered \/ GivenUp
        \/ \E n \in 1..2 : Accepted(n)
        \/ \E n \in 1..Len(voice.q) : Taken(n)
        \/ build = "c3" /\ Submitted(worker.hand, <<>>)
        \/ build # "c3" /\ Submitted(Slice, Left)
<1>1. voice \in Voices /\ worker \in Workers /\ writer \in 0..2
  BY DEF VoiceTypeOK
<1>v. DOMAIN voice = {"active", "end", "abort", "error", "q", "queued", "session", "seq"}
  BY <1>1 DEF Voices
<1>w. DOMAIN worker = {"pc", "end", "hand", "num", "tries"}
  BY <1>1 DEF Workers
<1>p. worker.pc \in {"idle", "start", "loop", "pop", "slice", "send", "leave", "clear"}
  BY VoiceParts
<1>k. ASSUME NEW p, VoiceGoto(p)
      PROVE  worker'.pc = p /\ worker'.hand = worker.hand /\ worker'.num = worker.num
  BY <1>w, <1>k DEF VoiceGoto
<1>4. CASE Open
  <2>1. CASE Start
    <3>1. Restarted
      BY <1>4, <2>1, <1>v DEF Open, Start, Started, NoneSaid, Resting, Restarted
    <3> QED BY <3>1
  <2>2. CASE StartEmpties
    <3>1. Emptied
      BY <1>4, <2>2, <1>v DEF Open, StartEmpties, NoneSaid, Resting, Emptied
    <3> QED BY <3>1
  <2>3. CASE Continue
    <3>1. Quiet
      BY <1>4, <2>3 DEF Open, Continue, hist, Quiet, Kept, SameVoiceQueue
    <3> QED BY <3>1
  <2> QED BY <1>4, <2>1, <2>2, <2>3 DEF Open
<1>24. CASE StartResets
  <2>1. Reset
    BY <1>24, <1>v, <1>w DEF StartResets, Started, hist, Reset, Kept
  <2> QED BY <2>1
<1>25. CASE NoMtuC3
  <2>1. voice'.q = voice.q /\ voice'.queued = voice.queued /\ voice'.session = voice.session /\ voice'.seq = voice.seq
    BY <1>25, <1>v DEF NoMtuC3
  <2>2. build = "c3" /\ worker.pc # "start" /\ worker'.pc = "leave" /\ Kept
    BY <1>25, <1>k DEF NoMtuC3, VoiceAt, Kept
  <2>3. Quiet
    BY <2>1, <2>2 DEF Quiet, SameVoiceQueue
  <2> QED BY <2>3
<1>a. ASSUME NEW n \in 1..2, Accept(n), build' = build, worker' = worker PROVE Accepted(n)
  BY <1>a, <1>v DEF Accept, Accepted
<1>5. ASSUME NEW n \in 1..2, WriteC3(n) PROVE Quiet \/ Accepted(n)
  <2>1. CASE Fits(n)
    BY <1>5, <1>a, <2>1 DEF WriteC3
  <2>2. CASE ~Fits(n)
    BY <1>5, <1>v, <2>2 DEF WriteC3, Quiet, Kept, SameVoiceQueue
  <2> QED BY <2>1, <2>2
<1>6. ASSUME NEW n \in 1..2, WriteBegin(n) PROVE Quiet
  BY <1>6 DEF WriteBegin, hist, Quiet, Kept, SameVoiceQueue
<1>7. CASE WriteEnd
  <2>1. CASE Fits(writer)
    <3>1. writer \in 1..2
      BY <1>1, <1>7 DEF WriteEnd
    <3> QED BY <1>7, <1>a, <2>1, <3>1 DEF WriteEnd
  <2>2. CASE ~Fits(writer)
    <3>1. Quiet
      BY <1>7, <1>v, <2>2 DEF WriteEnd, Quiet, Kept, SameVoiceQueue
    <3> QED BY <3>1
  <2> QED BY <2>1, <2>2
<1>8. ASSUME NEW c \in BOOLEAN, VoiceEnd(c) PROVE Quiet
  BY <1>8, <1>v DEF VoiceEnd, Quiet, Kept, SameVoiceQueue
<1>9. CASE LoopC3
  <2>1. CASE VoiceGoto("leave") /\ UNCHANGED voice
    <3>1. Quiet
      BY <1>9, <1>k, <2>1 DEF LoopC3, VoiceAt, hist, Quiet, Kept, SameVoiceQueue
    <3> QED BY <3>1
  <2>2. ASSUME NEW n, n = PacketUnits(voice.queued, voice.end), n > 0, Take(n) PROVE n \in 1..Len(voice.q) /\ Taken(n)
    <3>1. Taken(n)
      BY <1>9, <1>v, <1>w, <2>2 DEF LoopC3, VoiceAt, Take, hist, Taken, Kept
    <3>2. n \in 1..Len(voice.q)
      <4>1. Len(voice.q) = voice.queued /\ voice.queued \in Nat /\ Packet \in Nat \ {0}
        BY <1>9, VoiceParts, First, LenNat DEF LoopC3, VoiceAt, VoiceQueue
      <4>2. n \in {0, voice.queued, Packet} /\ (n = Packet => Packet <= voice.queued \/ n = voice.queued \/ n = 0)
        BY <2>2 DEF PacketUnits
      <4> QED BY <2>2, <4>1, <4>2
    <3> QED BY <3>1, <3>2
  <2> QED BY <1>9, <2>1, <2>2 DEF LoopC3
<1>10. CASE SentC3
  <2>1. Submitted(worker.hand, <<>>) /\ build = "c3"
    BY <1>10, <1>k DEF SentC3, VoiceAt, Submit, Submitted, SameVoiceQueue
  <2> QED BY <2>1
<1>11. CASE BusyC3
  <2>1. Quiet
    BY <1>11, <1>w DEF BusyC3, hist, Quiet, Kept, SameVoiceQueue
  <2> QED BY <2>1
<1>12. CASE FailC3
  <2>1. voice'.q = voice.q /\ voice'.queued = voice.queued /\ voice'.session = voice.session /\ voice'.seq = voice.seq
    BY <1>12, <1>v DEF FailC3
  <2>2. build = "c3" /\ worker.pc # "start" /\ worker'.pc = "leave" /\ Kept
    BY <1>12, <1>k DEF FailC3, VoiceAt, Kept
  <2>3. Quiet
    BY <2>1, <2>2 DEF Quiet, SameVoiceQueue
  <2> QED BY <2>3
<1>13. CASE LeaveC3
  <2>1. voice'.q = voice.q /\ voice'.queued = voice.queued /\ voice'.session = voice.session /\ voice'.seq = voice.seq
    BY <1>13, <1>v DEF LeaveC3
  <2>2. build = "c3" /\ worker.pc # "start" /\ worker'.pc = "clear" /\ Kept
    BY <1>13, <1>k DEF LeaveC3, VoiceAt, hist, Kept
  <2>3. Quiet
    BY <2>1, <2>2 DEF Quiet, SameVoiceQueue
  <2> QED BY <2>3
<1>14. CASE ClearC3
  <2>1. Cleared
    BY <1>14, <1>v DEF ClearC3, VoiceAt, hist, Resting, Cleared, Kept
  <2> QED BY <2>1
<1>15. CASE LoopStd
  <2>1. worker'.pc \in {"pop", "leave"} /\ worker'.hand = worker.hand
    BY <1>15, <1>w DEF LoopStd
  <2>2. Quiet
    BY <1>15, <2>1 DEF LoopStd, VoiceAt, hist, Quiet, Kept, SameVoiceQueue, Holding
  <2> QED BY <2>2
<1>16. CASE PopStd
  <2>1. CASE voice.q = <<>>
    <3>1. worker'.pc \in {"leave", "loop"} /\ worker'.hand = worker.hand /\ voice' = voice
      BY <1>16, <1>k, <2>1 DEF PopStd
    <3>2. Quiet
      BY <1>16, <3>1 DEF PopStd, VoiceAt, hist, Quiet, Kept, SameVoiceQueue, Holding
    <3> QED BY <3>2
  <2>2. CASE voice.q # <<>>
    <3>1. Popped
      BY <1>16, <1>v, <1>w, <2>2 DEF PopStd, VoiceAt, hist, Popped, Kept
    <3> QED BY <3>1
  <2> QED BY <2>1, <2>2
<1>17. CASE SliceStd
  <2>1. Numbered
    BY <1>17, <1>v, <1>w DEF SliceStd, VoiceAt, hist, Numbered, Kept, SameVoiceQueue
  <2> QED BY <2>1
<1>18. CASE SentStd
  <2>1. worker'.hand = Left /\ worker'.pc = IF Left = <<>> THEN "loop" ELSE "slice"
    BY <1>18, <1>w DEF SentStd
  <2>2. Submitted(Slice, Left) /\ build # "c3"
    BY <1>18, <2>1 DEF SentStd, VoiceAt, Submitted, SameVoiceQueue
  <2> QED BY <2>2
<1>19. CASE BusyStd
  <2>1. Quiet
    BY <1>19, <1>w DEF BusyStd, hist, Quiet, Kept, SameVoiceQueue
  <2> QED BY <2>1
<1>20. CASE FailStd
  <2>1. GivenUp
    BY <1>20, <1>v, <1>w DEF FailStd, VoiceAt, GivenUp, Kept, SameVoiceQueue
  <2> QED BY <2>1
<1>21. CASE LeaveStd
  <2>1. worker'.pc = "idle" /\ worker'.hand = <<>>
    BY <1>21 DEF LeaveStd, Resting
  <2>2. SameVoiceQueue /\ voice'.seq = voice.seq
    BY <1>21, <1>v DEF LeaveStd, SameVoiceQueue
  <2>3. Quiet
    BY <1>21, <2>1, <2>2 DEF LeaveStd, VoiceAt, hist, Quiet, Kept, Holding
  <2> QED BY <2>3
<1>22. CASE Drop
  <2>1. SameVoiceQueue /\ voice'.seq = voice.seq
    BY <1>22, <1>v DEF Drop, SameVoiceQueue
  <2>2. Quiet
    BY <1>22, <2>1 DEF Drop, Quiet, Kept
  <2> QED BY <2>2
<1>23. CASE Connect \/ Subscribe \/ Unsubscribe
  <2>1. Quiet
    BY <1>23 DEF Connect, Subscribe, Unsubscribe, hist, Quiet, Kept, SameVoiceQueue
  <2> QED BY <2>1
<1> QED
  BY <1>4, <1>5, <1>6, <1>7, <1>8, <1>9, <1>10, <1>11, <1>12, <1>13, <1>14, <1>15, <1>16, <1>17, <1>18, <1>19, <1>20,
     <1>21, <1>22, <1>23, <1>24, <1>25 DEF VoiceNext, App, Worker, Link

\* In the queue of the ESP32-C3 every unit is known from its place.
LEMMA Placed ==
  ASSUME VoiceTypeOK, VoiceQueue, build = "c3"
  PROVE /\ voice.q \in Chunk /\ Len(voice.q) \in Nat /\ Len(voice.q) = voice.queued /\ Oldest \in Nat
        /\ Oldest + Len(voice.q) = said + 1
        /\ \A i \in 1..Len(voice.q) : voice.q[i] = Oldest + i - 1 /\ voice.q[i] \in Nat
<1>1. voice.q \in Chunk
  BY First
<1>2. voice.q \in Seq(UnitNumbers) /\ Len(voice.q) \in Nat /\ (voice.q # <<>> => Len(voice.q) # 0)
  BY <1>1, EmptySeq DEF Chunk
<1>3. Run(voice.q) /\ Len(voice.q) = voice.queued /\ voice.queued + Oldest = said + 1
  BY DEF VoiceQueue
<1>4. said \in Nat
  BY VoiceParts
<1>5. \A i \in 1..Len(voice.q) : voice.q[i] \in Nat
  BY <1>2 DEF UnitNumbers
<1>6. voice.q # <<>> => Oldest = voice.q[1] /\ Oldest \in Nat
  BY <1>2, <1>5 DEF Oldest
<1>7. voice.q = <<>> => Oldest = said + 1
  BY DEF Oldest
<1>8. Oldest \in Nat
  BY <1>4, <1>6, <1>7
<1>9. ASSUME NEW i \in 1..Len(voice.q) PROVE voice.q[i] = Oldest + i - 1
  <2>1. voice.q # <<>>
    BY <1>2, EmptySeq
  <2> QED BY <1>3, <1>6, <2>1 DEF Run
<1>10. Oldest + Len(voice.q) = said + 1
  BY <1>2, <1>3, <1>8
<1> QED BY <1>1, <1>2, <1>3, <1>5, <1>8, <1>9, <1>10

\* In the queue of the others every chunk is a run, and the oldest is its first unit.
LEMMA ChunkRuns ==
  ASSUME VoiceTypeOK, VoiceQueue, build # "c3"
  PROVE /\ voice.q \in Seq(Chunk) /\ Len(voice.q) \in Nat /\ Oldest \in Nat
        /\ voice.q # <<>> => Len(voice.q) \in 1..Len(voice.q) /\ 1 \in 1..Len(voice.q) /\ Oldest = voice.q[1][1]
        /\ \A i \in 1..Len(voice.q) :
             /\ voice.q[i] \in Chunk /\ Filled(voice.q[i]) /\ voice.q[i][1] \in Nat /\ End(voice.q[i]) \in Nat
             /\ Len(voice.q[i]) \in Nat /\ voice.q[i][1] + Len(voice.q[i]) = End(voice.q[i]) + 1
<1>1. voice.q \in Seq(Chunk) /\ Len(voice.q) \in Nat /\ said \in Nat
  BY First, VoiceParts
<1>2. voice.q # <<>> => Len(voice.q) \in 1..Len(voice.q) /\ 1 \in 1..Len(voice.q)
  BY <1>1, EmptySeq
<1>3. ASSUME NEW i \in 1..Len(voice.q)
      PROVE  /\ voice.q[i] \in Chunk /\ Filled(voice.q[i]) /\ voice.q[i][1] \in Nat /\ End(voice.q[i]) \in Nat
             /\ Len(voice.q[i]) \in Nat /\ voice.q[i][1] + Len(voice.q[i]) = End(voice.q[i]) + 1
  <2> DEFINE c == voice.q[i]
  <2>1. c \in Chunk /\ Filled(c)
    BY <1>1 DEF VoiceQueue
  <2>2. c \in Seq(UnitNumbers) /\ Len(c) \in Nat \ {0}
    BY <2>1, EmptySeq DEF Chunk, Filled
  <2>3. 1 \in 1..Len(c) /\ Len(c) \in 1..Len(c)
    BY <2>2
  <2>4. c[1] \in Nat /\ c[Len(c)] \in Nat
    BY <2>2, <2>3 DEF UnitNumbers
  <2>5. c[Len(c)] = c[1] + Len(c) - 1
    BY <2>1, <2>3 DEF Filled, Run
  <2>6. \A a, b, l \in Nat : b = a + l - 1 => a + l = b + 1
    OBVIOUS
  <2>7. c[1] + Len(c) = c[Len(c)] + 1
    BY <2>2, <2>4, <2>5, <2>6
  <2> QED BY <2>1, <2>2, <2>4, <2>7 DEF End
<1>4. voice.q # <<>> => Oldest = voice.q[1][1]
  BY DEF Oldest
<1>5. voice.q = <<>> => Oldest = said + 1
  BY DEF Oldest
<1>6. Oldest \in Nat
  BY <1>1, <1>2, <1>3, <1>4, <1>5
<1> QED BY <1>1, <1>2, <1>3, <1>4, <1>6

\* Nothing is accepted and nothing taken.
LEMMA QueueSame ==
  ASSUME VoiceQueue, build' = build, said' = said, SameVoiceQueue
  PROVE /\ Oldest' = Oldest
        /\ (worker'.pc = "start" <=> worker.pc = "start") => VoiceQueue'
<1>1. Oldest' = Oldest
  BY DEF Oldest, SameVoiceQueue
<1> QED BY <1>1 DEF VoiceQueue, SameVoiceQueue

\* An empty queue.
LEMMA QueueEmpty ==
  ASSUME said' \in Nat, voice'.q = <<>>, voice'.queued = 0, worker'.pc # "start"
  PROVE VoiceQueue' /\ Oldest' = said' + 1
<1>1. Oldest' = said' + 1
  BY DEF Oldest
<1>2. \A a \in Nat : 0 + (a + 1) <= a + 1 /\ a <= 0 + (a + 1) + 1 /\ 0 + (a + 1) = a + 1
  OBVIOUS
<1>3. 0 + Oldest' <= said' + 1 /\ said' <= 0 + Oldest' + 1 /\ 0 + Oldest' = said' + 1
  BY <1>1, <1>2
<1>4. Len(voice'.q) = 0 /\ Run(voice'.q) /\ 1..Len(voice'.q) = {} /\ 2..Len(voice'.q) = {}
  BY DEF Run
<1>5. /\ voice'.queued + Oldest' = said' + 1
      /\ voice'.queued + Oldest' <= said' + 1
      /\ said' <= voice'.queued + Oldest' + 1
  BY <1>3
<1>6. Len(voice'.q) = voice'.queued
  BY <1>4
<1>7. /\ \A i \in 1..Len(voice'.q) : Filled(voice'.q[i]) /\ End(voice'.q[i]) <= said'
      /\ \A i \in 2..Len(voice'.q) : voice'.q[i][1] = End(voice'.q[i - 1]) + 1
  BY <1>4
<1>8. VoiceQueue'
  BY <1>4, <1>5, <1>6, <1>7 DEF VoiceQueue
<1> QED BY <1>1, <1>8

\* VoiceStart empties the queue, and later resets the count of what was pushed in between.
LEMMA QueueRestarts ==
  ASSUME VoiceTypeOK, VoiceControl, VoiceQueue
  PROVE /\ Emptied => VoiceQueue' /\ Oldest' = 1
        /\ Reset => VoiceQueue' /\ Oldest' = 1 /\ Oldest = 1
<1>1. ASSUME Emptied PROVE VoiceQueue' /\ Oldest' = 1
  <2>1. Oldest' = 1
    BY <1>1 DEF Emptied, Oldest
  <2> QED BY <1>1, <2>1 DEF Emptied, VoiceQueue
<1>2. ASSUME Reset PROVE VoiceQueue' /\ Oldest' = 1 /\ Oldest = 1
  <2>1. /\ build # "c3" /\ build' = build /\ said' = said /\ voice'.q = voice.q /\ voice'.queued = 0
        /\ worker.pc = "start" /\ worker'.pc = "loop"
    BY <1>2 DEF Reset, Kept, VoiceControl
  <2>2. Oldest = 1 /\ Oldest' = 1
    BY <2>1 DEF VoiceQueue, Oldest
  <2>3. 0 + 1 <= said + 1 /\ said <= 0 + 1 + 1
    <3>1. said \in Nat /\ writer \in Nat /\ said + writer <= 2
      BY <2>1, VoiceParts DEF VoiceControl
    <3> QED BY <3>1
  <2> QED BY <2>1, <2>2, <2>3 DEF VoiceQueue
<1> QED BY <1>1, <1>2

\* Units are accepted.
LEMMA QueueGrows ==
  ASSUME VoiceTypeOK, VoiceQueue, NEW n \in 1..2, Accepted(n)
  PROVE VoiceQueue' /\ Oldest' = Oldest
<1>1. /\ said \in Nat /\ said' = said + n /\ voice.queued \in Int /\ n \in Nat \ {0} /\ build' = build
      /\ voice'.queued = voice.queued + n /\ worker' = worker
  BY VoiceParts DEF Accepted
<1> DEFINE u == NewUnits(n)
<1>2. /\ u \in Chunk /\ Len(u) = n /\ u # <<>> /\ u[1] = said + 1 /\ u[n] = said + n
      /\ \A i \in 1..n : u[i] = said + i
  BY <1>1, UnitsRun
<1> HIDE DEF u
<1>3. CASE build = "c3"
  <2> DEFINE q == voice.q
             l == Len(q)
  <2>1. /\ q \in Chunk /\ l \in Nat /\ l = voice.queued /\ Oldest \in Nat /\ Oldest + l = said + 1
        /\ \A i \in 1..l : q[i] = Oldest + i - 1 /\ q[i] \in Nat
    BY <1>3, Placed
  <2>2. voice'.q = q \o u
    BY <1>3 DEF Accepted, u
  <2>3. Len(q \o u) = l + n /\ \A i \in 1..(l + n) : (q \o u)[i] = IF i <= l THEN q[i] ELSE u[i - l]
    BY <1>2, <2>1, ConcatProperties DEF Chunk
  <2> HIDE DEF q, l
  <2>4. ASSUME NEW i \in 1..(l + n) PROVE (q \o u)[i] = Oldest + i - 1
    <3>1. CASE i <= l
      <4>1. i \in 1..l
        BY <2>1, <3>1
      <4> QED BY <2>1, <2>3, <3>1, <4>1
    <3>2. CASE ~(i <= l)
      <4>1. i - l \in 1..n /\ i \in Nat
        BY <1>1, <2>1, <3>2
      <4>2. (q \o u)[i] = said + (i - l)
        BY <1>2, <2>3, <3>2, <4>1
      <4>3. \A a, s, k, j \in Nat : a + k = s + 1 => s + (j - k) = a + j - 1
        OBVIOUS
      <4>4. said + (i - l) = Oldest + i - 1
        <5>1. said \in Nat /\ l \in Nat /\ Oldest \in Nat /\ i \in Nat /\ Oldest + l = said + 1
          BY <1>1, <2>1, <4>1
        <5> QED BY <4>3, <5>1
      <4> QED BY <4>2, <4>4
    <3> QED BY <3>1, <3>2
  <2>5. 1 \in 1..(l + n)
    BY <1>1, <2>1
  <2>6. (q \o u)[1] = Oldest
    <3>1. (q \o u)[1] = Oldest + 1 - 1
      BY <2>4, <2>5
    <3>2. \A a \in Nat : a + 1 - 1 = a
      OBVIOUS
    <3> QED BY <2>1, <3>1, <3>2
  <2>7. q \o u # <<>>
    BY <2>3, <2>5, <1>1, <2>1
  <2>8. Oldest' = Oldest
    BY <1>1, <1>3, <2>2, <2>6, <2>7 DEF Oldest
  <2>9. Run(q \o u)
    BY <2>3, <2>4, <2>6 DEF Run
  <2>10. \A a, b, s, k \in Nat : a + b = s + 1 => (b + k) + a = (s + k) + 1
    OBVIOUS
  <2>11. voice'.queued + Oldest = said' + 1
    <3>1. voice.queued \in Nat /\ said \in Nat /\ n \in Nat /\ voice'.queued = voice.queued + n /\ said' = said + n
      BY <1>1, <2>1
    <3>2. Oldest \in Nat /\ voice.queued + Oldest = said + 1
      BY <1>3, <2>1 DEF VoiceQueue
    <3>3. (voice.queued + n) + Oldest = (said + n) + 1
      BY <2>10, <3>1, <3>2
    <3> QED BY <3>1, <3>3
  <2>12. Len(q \o u) = voice'.queued
    BY <1>1, <2>1, <2>3
  <2> QED BY <1>1, <1>3, <2>2, <2>8, <2>9, <2>11, <2>12 DEF VoiceQueue
<1>4. CASE build # "c3"
  <2> DEFINE q == voice.q
             l == Len(q)
             r == Append(q, u)
  <2>1. /\ q \in Seq(Chunk) /\ l \in Nat /\ Oldest \in Nat
        /\ q # <<>> => l \in 1..l /\ 1 \in 1..l /\ Oldest = q[1][1]
        /\ \A i \in 1..l : Filled(q[i]) /\ End(q[i]) \in Nat
    BY <1>4, ChunkRuns
  <2>2. voice'.q = r
    BY <1>4 DEF Accepted, u
  <2>3. Len(r) = l + 1 /\ r[l + 1] = u /\ \A i \in 1..l : r[i] = q[i]
    BY <1>2, <2>1, Ap
  <2>4. /\ \A i \in 1..l : End(q[i]) <= said
        /\ \A i \in 2..l : q[i][1] = End(q[i - 1]) + 1
        /\ q # <<>> => End(End(q)) = said
    BY <1>4 DEF VoiceQueue
  <2>5. q = <<>> <=> l = 0
    BY <2>1, EmptySeq
  <2>6. q = <<>> => Oldest = said + 1
    BY DEF Oldest
  <2>7. Filled(u) /\ End(u) = said + n
    BY <1>1, <1>2 DEF Filled, Run, End
  <2> HIDE DEF q, l, r
  <2>8. \A i \in 1..(l + 1) : i = l + 1 \/ i \in 1..l
    BY <2>1
  <2>9. ASSUME NEW i \in 1..Len(r) PROVE Filled(r[i]) /\ End(r[i]) <= said + n
    <3>1. CASE i = l + 1
      BY <1>1, <2>3, <2>7, <3>1
    <3>2. CASE i \in 1..l
      BY <1>1, <2>1, <2>3, <2>4, <3>2
    <3> QED BY <2>3, <2>8, <3>1, <3>2
  <2>10. ASSUME NEW i \in 2..Len(r) PROVE r[i][1] = End(r[i - 1]) + 1
    <3>1. CASE i = l + 1
      <4>1. l # 0 /\ i - 1 = l /\ q # <<>> /\ l \in 1..l
        BY <2>1, <2>3, <2>5, <3>1
      <4>2. End(r[i - 1]) = said
        BY <2>3, <2>4, <4>1 DEF End, l
      <4> QED BY <1>2, <2>3, <3>1, <4>2
    <3>2. CASE i # l + 1
      <4>1. i \in 2..l /\ i - 1 \in 1..l /\ i \in 1..l
        BY <2>1, <2>3, <3>2
      <4> QED BY <2>3, <2>4, <4>1
    <3> QED BY <3>1, <3>2
  <2>11. r # <<>> /\ End(End(r)) = said + n
    <3>1. r # <<>>
      BY <2>1, <2>3
    <3> QED BY <2>3, <2>7, <3>1 DEF End
  <2>12. r[1][1] = Oldest
    <3>1. CASE q = <<>>
      BY <1>2, <2>3, <2>5, <2>6, <3>1
    <3>2. CASE q # <<>>
      BY <2>1, <2>3, <3>2
    <3> QED BY <3>1, <3>2
  <2>13. Oldest' = Oldest
    BY <1>1, <1>4, <2>2, <2>11, <2>12 DEF Oldest
  <2>14. \A b \in Int : \A a, m, k \in Nat :
           /\ b + a <= m + 1 => (b + k) + a <= (m + k) + 1
           /\ m <= b + a + 1 => m + k <= (b + k) + a + 1
    OBVIOUS
  <2>15. worker'.pc # "start" =>
           voice'.queued + Oldest' <= said' + 1 /\ said' <= voice'.queued + Oldest' + 1
    <3> SUFFICES ASSUME worker.pc # "start"
                 PROVE  (voice.queued + n) + Oldest <= (said + n) + 1 /\ said + n <= (voice.queued + n) + Oldest + 1
      BY <1>1, <2>13
    <3>1. voice.queued + Oldest <= said + 1 /\ said <= voice.queued + Oldest + 1
      BY <1>4 DEF VoiceQueue
    <3>2. voice.queued \in Int /\ Oldest \in Nat /\ said \in Nat /\ n \in Nat
      BY <1>1, <2>1
    <3> QED BY <2>14, <3>1, <3>2
  <2>16. worker'.pc = "start" => Oldest' = 1
    BY <1>1, <2>13 DEF VoiceQueue
  <2>17. build' # "c3" /\ voice'.q = r /\ said' = said + n
    BY <1>1, <1>4, <2>2
  <2>18. VoiceQueue'
    BY <2>9, <2>10, <2>11, <2>15, <2>16, <2>17 DEF VoiceQueue
  <2> QED BY <2>13, <2>18
<1> QED BY <1>3, <1>4

\* The worker of the ESP32-C3 takes a packet out of the queue.
LEMMA QueueTaken ==
  ASSUME VoiceTypeOK, VoiceQueue, NEW n \in 1..Len(voice.q), Taken(n)
  PROVE /\ VoiceQueue' /\ worker'.hand \in Chunk /\ Filled(worker'.hand)
        /\ worker'.hand[1] = Oldest /\ End(worker'.hand) + 1 = Oldest'
<1> DEFINE q == voice.q
           l == Len(q)
           a == Oldest
           h == SubSeq(q, 1, n)
           t == SubSeq(q, n + 1, l)
<1>1. /\ build = "c3" /\ build' = build /\ said' = said /\ voice'.q = t /\ voice'.queued = voice.queued - n
      /\ worker'.hand = h
  BY DEF Taken, Kept
<1>2. /\ q \in Chunk /\ l \in Nat /\ l = voice.queued /\ a \in Nat /\ a + l = said + 1
      /\ \A i \in 1..l : q[i] = a + i - 1 /\ q[i] \in Nat
  BY <1>1, Placed
<1>3. n \in Nat \ {0} /\ n <= l /\ said \in Nat
  BY <1>2, VoiceParts
<1>4. /\ h \in Chunk /\ Len(h) = n /\ \A i \in 1..n : h[i] = q[i]
      /\ t \in Chunk /\ Len(t) = l - n /\ \A i \in 1..(l - n) : t[i] = q[n + i]
  BY <1>2, Cut
<1>5. t = <<>> <=> l - n = 0
  BY <1>2, <1>3, <1>4, EmptySeq DEF Chunk
<1>6. h # <<>>
  BY <1>3, <1>4
<1> HIDE DEF q, l, a, h, t
<1>7. /\ \A i \in 1..n : h[i] = a + i - 1
      /\ \A i \in 1..(l - n) : t[i] = (a + n) + i - 1
  <2>1. ASSUME NEW i \in 1..n PROVE h[i] = a + i - 1
    <3>1. i \in 1..l
      BY <1>2, <1>3
    <3> QED BY <1>2, <1>4, <3>1
  <2>2. ASSUME NEW i \in 1..(l - n) PROVE t[i] = (a + n) + i - 1
    <3>1. n + i \in 1..l /\ i \in Nat
      BY <1>2, <1>3
    <3>2. t[i] = a + (n + i) - 1
      BY <1>2, <1>4, <3>1
    <3>3. \A x, y, z \in Nat : x + (y + z) - 1 = (x + y) + z - 1
      OBVIOUS
    <3>4. a + (n + i) - 1 = (a + n) + i - 1
      BY <1>2, <1>3, <3>1, <3>3
    <3> QED BY <3>2, <3>4
  <2> QED BY <2>1, <2>2
<1>8. \A x \in Nat : x + 1 - 1 = x
  OBVIOUS
<1>9. h[1] = a
  <2>1. h[1] = a + 1 - 1
    BY <1>3, <1>7
  <2> QED BY <1>2, <1>8, <2>1
<1>10. Run(h) /\ h[n] = a + n - 1
  BY <1>3, <1>4, <1>7, <1>9 DEF Run
<1>11. Oldest' = a + n
  <2>1. CASE t = <<>>
    <3>1. Oldest' = said + 1
      BY <1>1, <2>1 DEF Oldest
    <3>2. l = n
      BY <1>2, <1>3, <1>5, <2>1
    <3> QED BY <1>2, <3>1, <3>2
  <2>2. CASE t # <<>>
    <3>1. 1 \in 1..(l - n)
      BY <1>2, <1>3, <1>5, <2>2
    <3>2. t[1] = (a + n) + 1 - 1 /\ a + n \in Nat
      BY <1>2, <1>3, <1>7, <3>1
    <3>3. Oldest' = t[1]
      BY <1>1, <2>2 DEF Oldest
    <3> QED BY <1>8, <3>2, <3>3
  <2> QED BY <2>1, <2>2
<1>12. Run(t)
  <2>1. ASSUME NEW i \in 1..(l - n) PROVE t[i] = t[1] + i - 1
    <3>1. 1 \in 1..(l - n) /\ i \in Nat
      BY <1>2, <1>3
    <3>2. t[1] = (a + n) + 1 - 1 /\ a + n \in Nat
      BY <1>2, <1>3, <1>7, <3>1
    <3>3. t[1] = a + n
      BY <1>8, <3>2
    <3> QED BY <1>7, <3>3
  <2> QED BY <1>4, <2>1 DEF Run
<1>13. voice'.queued + Oldest' = said' + 1 /\ Len(t) = voice'.queued
  <2>1. \A x, y, z, s \in Nat : x + y = s + 1 /\ z <= y => (y - z) + (x + z) = s + 1
    OBVIOUS
  <2>2. voice'.queued = l - n
    BY <1>1, <1>2
  <2>3. (l - n) + (a + n) = said + 1
    BY <1>2, <1>3, <2>1
  <2> QED BY <1>1, <1>4, <1>11, <2>2, <2>3
<1>14. VoiceQueue'
  BY <1>1, <1>12, <1>13 DEF VoiceQueue, Taken
<1>15. End(h) + 1 = a + n
  <2>1. \A x, y \in Nat : (x + y - 1) + 1 = x + y
    OBVIOUS
  <2> QED BY <1>2, <1>3, <1>4, <1>10, <2>1 DEF End
<1> QED BY <1>1, <1>4, <1>6, <1>9, <1>10, <1>11, <1>14, <1>15 DEF Filled, a

\* The worker of the others takes the oldest chunk.
LEMMA QueuePopped ==
  ASSUME VoiceTypeOK, VoiceQueue, Popped
  PROVE /\ VoiceQueue' /\ worker'.hand \in Chunk /\ Filled(worker'.hand)
        /\ worker'.hand[1] = Oldest /\ End(worker'.hand) + 1 = Oldest'
<1> DEFINE q == voice.q
           l == Len(q)
           c == q[1]
           t == Tail(q)
<1>1. /\ build # "c3" /\ build' = build /\ said' = said /\ q # <<>> /\ voice'.q = t
      /\ voice'.queued = voice.queued - Len(Head(q)) /\ worker'.hand = Head(q)
      /\ worker.pc = "pop" /\ worker'.pc = "slice"
  BY DEF Popped, Kept
<1>2. /\ q \in Seq(Chunk) /\ l \in Nat /\ Oldest \in Nat
      /\ l \in 1..l /\ 1 \in 1..l /\ Oldest = c[1]
      /\ c \in Chunk /\ Filled(c) /\ c[1] \in Nat /\ End(c) \in Nat
      /\ Len(c) \in Nat /\ c[1] + Len(c) = End(c) + 1
  BY <1>1, ChunkRuns
<1>3. Head(q) = c /\ t \in Seq(Chunk) /\ Len(t) = l - 1 /\ \A i \in 1..Len(t) : t[i] = q[i + 1] /\ i + 1 \in 1..l
  BY <1>1, <1>2, Tl
<1>4. /\ \A i \in 1..l : Filled(q[i]) /\ End(q[i]) <= said
      /\ \A i \in 2..l : q[i][1] = End(q[i - 1]) + 1
      /\ End(End(q)) = said
  BY <1>1 DEF VoiceQueue
<1>5. t = <<>> <=> l = 1
  <2>1. t = <<>> <=> Len(t) = 0
    BY <1>3, EmptySeq
  <2> QED BY <1>2, <1>3, <2>1
<1>6. /\ said \in Nat /\ voice.queued \in Int
      /\ voice.queued + Oldest <= said + 1 /\ said <= voice.queued + Oldest + 1
  BY <1>1, VoiceParts DEF VoiceQueue
<1> HIDE DEF q, l, c, t
<1>7. Oldest' = End(c) + 1
  <2>1. CASE t = <<>>
    <3>1. Oldest' = said + 1
      BY <1>1, <2>1 DEF Oldest
    <3>2. End(q) = c
      BY <1>5, <2>1 DEF End, l, c
    <3> QED BY <1>4, <3>1, <3>2
  <2>2. CASE t # <<>>
    <3>1. 1 \in 1..Len(t) /\ 2 \in 2..l /\ 2 - 1 = 1
      BY <1>2, <1>3, <1>5, <2>2
    <3>2. Oldest' = t[1][1]
      BY <1>1, <2>2 DEF Oldest
    <3>3. t[1] = q[2]
      BY <1>3, <3>1
    <3>4. q[2][1] = End(q[2 - 1]) + 1
      BY <1>4, <3>1
    <3> QED BY <3>1, <3>2, <3>3, <3>4 DEF c
  <2> QED BY <2>1, <2>2
<1>8. voice'.queued + Oldest' <= said' + 1 /\ said' <= voice'.queued + Oldest' + 1
  <2>1. \A b \in Int : \A a, k, e \in Nat : a + k = e + 1 => (b - k) + (e + 1) = b + a
    OBVIOUS
  <2>2. (voice.queued - Len(c)) + (End(c) + 1) = voice.queued + Oldest
    BY <1>2, <1>6, <2>1
  <2> QED BY <1>1, <1>3, <1>6, <1>7, <2>2
<1>9. \A i \in 1..Len(t) : Filled(t[i]) /\ End(t[i]) <= said
  BY <1>3, <1>4
<1>10. ASSUME NEW i \in 2..Len(t) PROVE t[i][1] = End(t[i - 1]) + 1
  <2>1. i \in 1..Len(t) /\ i - 1 \in 1..Len(t) /\ i + 1 \in 2..l /\ (i - 1) + 1 = i /\ (i + 1) - 1 = i
    <3>1. Len(t) = l - 1 /\ l \in Nat /\ l # 0
      BY <1>2, <1>3
    <3> QED BY <3>1
  <2>2. t[i] = q[i + 1] /\ t[i - 1] = q[i]
    BY <1>3, <2>1
  <2> QED BY <1>4, <2>1, <2>2
<1>11. t # <<>> => End(End(t)) = said
  <2> SUFFICES ASSUME t # <<>> PROVE End(End(t)) = said
    OBVIOUS
  <2>1. Len(t) \in 1..Len(t) /\ Len(t) + 1 = l
    BY <1>2, <1>3, <1>5
  <2>2. t[Len(t)] = q[l]
    BY <1>3, <2>1
  <2>3. End(t) = End(q)
    BY <2>2 DEF End, l
  <2> QED BY <1>4, <2>3
<1>12. VoiceQueue'
  BY <1>1, <1>8, <1>9, <1>10, <1>11 DEF VoiceQueue
<1> QED BY <1>1, <1>2, <1>3, <1>7, <1>12

\* The queue holds consecutive units, and the worker what comes before.
LEMMA VoiceQueueStep ==
  ASSUME VoiceTypeOK, VoiceControl, VoiceQueue, VoiceHand, VoiceNext
  PROVE /\ VoiceQueue' /\ VoiceHand'
        /\ \A n \in 1..2 : Accepted(n) => Oldest' = Oldest
        /\ SameVoiceQueue /\ build' = build /\ said' = said => Oldest' = Oldest
        /\ Popped \/ (\E n \in 1..Len(voice.q) : Taken(n)) => worker'.hand[1] = Oldest
        /\ Restarted \/ Emptied \/ Reset => Oldest' = 1
<1>s. build' = build /\ said' = said /\ SameVoiceQueue =>
        Oldest' = Oldest /\ ((worker'.pc = "start" <=> worker.pc = "start") => VoiceQueue')
  BY QueueSame
<1>a. ASSUME NEW n \in 1..2, Accepted(n) PROVE VoiceQueue' /\ Oldest' = Oldest /\ VoiceHand'
  <2>1. VoiceQueue' /\ Oldest' = Oldest
    BY <1>a, QueueGrows
  <2> QED BY <1>a, <2>1 DEF Accepted, VoiceHand
<1>t. ASSUME NEW n \in 1..Len(voice.q), Taken(n) PROVE VoiceQueue' /\ VoiceHand' /\ worker'.hand[1] = Oldest
  <2>1. VoiceQueue' /\ Filled(worker'.hand) /\ worker'.hand[1] = Oldest /\ End(worker'.hand) + 1 = Oldest'
    BY <1>t, QueueTaken
  <2> QED BY <1>t, <2>1 DEF Taken, Kept, VoiceHand
<1>p. ASSUME Popped PROVE VoiceQueue' /\ VoiceHand' /\ worker'.hand[1] = Oldest
  <2>1. VoiceQueue' /\ Filled(worker'.hand) /\ worker'.hand[1] = Oldest /\ End(worker'.hand) + 1 = Oldest'
    BY <1>p, QueuePopped
  <2> QED BY <1>p, <2>1 DEF Popped, VoiceHand
<1>r. ASSUME Restarted PROVE VoiceQueue' /\ VoiceHand' /\ Oldest' = 1
  <2>1. VoiceQueue' /\ Oldest' = said' + 1
    BY <1>r, QueueEmpty DEF Restarted
  <2> QED BY <1>r, <2>1 DEF Restarted, VoiceHand
<1>e. ASSUME Emptied \/ Reset PROVE VoiceQueue' /\ VoiceHand' /\ Oldest' = 1
  <2>1. VoiceQueue' /\ Oldest' = 1
    BY <1>e, QueueRestarts
  <2>2. VoiceHand'
    BY <1>e DEF Emptied, Reset, Kept, VoiceHand
  <2> QED BY <2>1, <2>2
<1>1. CASE Quiet
  <2>1. VoiceQueue' /\ Oldest' = Oldest
    BY <1>1, <1>s DEF Quiet, Kept
  <2>2. VoiceHand'
    BY <1>1, <2>1 DEF Quiet, Kept, Holding, VoiceHand
  <2> QED BY <1>a, <1>t, <1>p, <1>r, <1>e, <1>s, <2>1, <2>2
<1>2. CASE Cleared
  <2>1. VoiceQueue'
    BY <1>2, QueueEmpty, VoiceParts DEF Cleared, Kept
  <2>2. VoiceHand'
    BY <1>2 DEF Cleared, Kept, VoiceHand
  <2> QED BY <1>a, <1>t, <1>p, <1>r, <1>e, <1>s, <2>1, <2>2
<1>3. CASE Numbered \/ GivenUp
  <2>1. VoiceQueue' /\ Oldest' = Oldest
    BY <1>3, <1>s DEF Numbered, GivenUp, Kept
  <2>2. VoiceHand'
    BY <1>3, <2>1 DEF Numbered, GivenUp, Kept, VoiceHand
  <2> QED BY <1>a, <1>t, <1>p, <1>r, <1>e, <1>s, <2>1, <2>2
<1>4. CASE build = "c3" /\ Submitted(worker.hand, <<>>)
  <2>1. VoiceQueue' /\ Oldest' = Oldest
    BY <1>4, <1>s DEF Submitted
  <2>2. VoiceHand'
    BY <1>4, <2>1 DEF Submitted, VoiceHand
  <2> QED BY <1>a, <1>t, <1>p, <1>r, <1>e, <1>s, <2>1, <2>2
<1>5. CASE build # "c3" /\ Submitted(Slice, Left)
  <2>1. VoiceQueue' /\ Oldest' = Oldest
    BY <1>5, <1>s DEF Submitted
  <2>2. Filled(worker.hand) /\ worker.hand \in Chunk /\ End(worker.hand) + 1 = Oldest
    BY <1>5, VoiceParts DEF Submitted, VoiceHand
  <2>3. Left # <<>> => Filled(Left) /\ End(Left) = End(worker.hand)
    BY <2>2, SliceOf
  <2>4. worker'.hand = Left /\ worker'.pc = IF Left = <<>> THEN "loop" ELSE "slice"
    BY <1>5 DEF Submitted
  <2>5. VoiceHand'
    <3>1. CASE Left = <<>>
      BY <2>4, <3>1 DEF VoiceHand
    <3>2. CASE Left # <<>>
      BY <2>1, <2>2, <2>3, <2>4, <3>2 DEF VoiceHand
    <3> QED BY <3>1, <3>2
  <2> QED BY <1>a, <1>t, <1>p, <1>r, <1>e, <1>s, <2>1, <2>5
<1> QED BY <1>a, <1>t, <1>p, <1>r, <1>e, <1>s, <1>1, <1>2, <1>3, <1>4, <1>5, VoiceMoves

Packets == [num : Nat, units : Chunk]

\* What the App knows of a session by the packets it was sent.
LEMMA HeardVoiceIs ==
  ASSUME VoiceTypeOK, NumbersTellLoss
  PROVE /\ HeardVoice \in Nat /\ NextNum \in Nat /\ sent \in Seq(Packets) /\ Len(sent) \in Nat
        /\ sent # <<>> => Len(sent) \in 1..Len(sent) /\ End(sent).num \in Nat
<1>1. sent \in Seq(Packets) /\ Len(sent) \in Nat
  BY DEF VoiceTypeOK, Packets
<1>2. sent # <<>> => Len(sent) \in 1..Len(sent)
  BY <1>1, EmptySeq
<1>3. ASSUME sent # <<>> PROVE End(sent).num \in Nat /\ End(End(sent).units) \in Nat
  <2> DEFINE u == End(sent).units
  <2>1. End(sent) \in Packets
    BY <1>1, <1>2, <1>3 DEF End
  <2>2. u \in Seq(UnitNumbers) /\ End(sent).num \in Nat
    BY <2>1 DEF Packets, Chunk
  <2>3. u # <<>>
    BY <1>2, <1>3 DEF NumbersTellLoss, End
  <2>4. Len(u) \in 1..Len(u)
    BY <2>2, <2>3, EmptySeq
  <2> QED BY <2>2, <2>4 DEF End, UnitNumbers
<1> QED BY <1>1, <1>2, <1>3 DEF HeardVoice, NextNum

\* A packet is submitted.
LEMMA HeardMore ==
  ASSUME VoiceTypeOK, NumbersTellLoss, NEW p \in Chunk, worker.num \in Nat,
         sent' = Append(sent, [num |-> worker.num, units |-> p])
  PROVE /\ sent' # <<>> /\ HeardVoice' = End(p) /\ NextNum' = worker.num + 1 /\ Len(sent') = Len(sent) + 1
        /\ sent'[Len(sent) + 1] = [num |-> worker.num, units |-> p]
        /\ \A i \in 1..Len(sent) : sent'[i] = sent[i]
<1>1. [num |-> worker.num, units |-> p] \in Packets /\ sent \in Seq(Packets) /\ Len(sent) \in Nat
  BY HeardVoiceIs DEF Packets
<1>2. /\ Len(sent') = Len(sent) + 1 /\ sent'[Len(sent) + 1] = [num |-> worker.num, units |-> p]
      /\ \A i \in 1..Len(sent) : sent'[i] = sent[i]
  BY <1>1, Ap
<1>3. sent' # <<>>
  BY <1>1, <1>2
<1>4. End(sent') = [num |-> worker.num, units |-> p]
  BY <1>2 DEF End
<1> QED BY <1>2, <1>3, <1>4 DEF HeardVoice, NextNum

\* What is submitted next goes on from what was, unless a number is missing.
LEMMA VoiceLineStep ==
  ASSUME VoiceTypeOK, VoiceControl, VoiceQueue, VoiceHand, VoiceLine, NumbersTellLoss, VoiceNext
  PROVE VoiceLine'
<1>q. /\ \A n \in 1..2 : Accepted(n) => Oldest' = Oldest
      /\ SameVoiceQueue /\ build' = build /\ said' = said => Oldest' = Oldest
      /\ Popped \/ (\E n \in 1..Len(voice.q) : Taken(n)) => worker'.hand[1] = Oldest
      /\ Restarted \/ Emptied \/ Reset => Oldest' = 1
  BY VoiceQueueStep
<1>n. HeardVoice \in Nat /\ NextNum \in Nat /\ voice.seq \in Nat /\ worker.num \in Nat
  BY HeardVoiceIs, VoiceParts
<1>k. Kept => HeardVoice' = HeardVoice /\ NextNum' = NextNum
  BY DEF Kept, HeardVoice, NextNum
<1>h. Holding(worker) => Filled(worker.hand) /\ worker.hand \in Chunk /\ End(worker.hand) + 1 = Oldest
  BY VoiceParts DEF VoiceHand, Holding
<1>1. CASE Quiet
  <2>1. HeardVoice' = HeardVoice /\ NextNum' = NextNum /\ Oldest' = Oldest /\ build' = build /\ voice'.seq = voice.seq
    BY <1>1, <1>k, <1>q DEF Quiet, Kept
  <2>2. CASE worker'.pc = worker.pc /\ worker'.hand = worker.hand /\ worker'.num = worker.num
    BY <2>1, <2>2 DEF VoiceLine, Tight, Pending
  <2>3. CASE build # "c3" /\ ~Holding(worker) /\ ~Holding(worker')
    BY <2>1, <2>3 DEF VoiceLine, Tight, Pending, Holding
  <2>4. CASE build = "c3" /\ worker'.pc \in {"leave", "clear"}
    BY <2>1, <2>4 DEF VoiceLine
  <2> QED BY <1>1, <2>2, <2>3, <2>4 DEF Quiet
<1>2. CASE Restarted
  <2>1. HeardVoice' = 0 /\ NextNum' = 0 /\ Oldest' = 1 /\ voice'.seq = 0 /\ worker'.pc = "loop"
    BY <1>2, <1>q DEF Restarted, HeardVoice, NextNum
  <2> QED BY <2>1 DEF VoiceLine, Tight, Pending
<1>3. ASSUME NEW n \in 1..2, Accepted(n) PROVE VoiceLine'
  <2>1. HeardVoice' = HeardVoice /\ NextNum' = NextNum /\ Oldest' = Oldest /\ build' = build /\ voice'.seq = voice.seq /\ worker' = worker
    BY <1>3, <1>q DEF Accepted, HeardVoice, NextNum
  <2> QED BY <2>1 DEF VoiceLine, Tight, Pending
<1>4. ASSUME NEW n \in 1..Len(voice.q), Taken(n) PROVE VoiceLine'
  <2>1. build = "c3" /\ worker.pc = "loop" /\ worker'.pc = "send" /\ worker'.num = voice.seq /\ voice'.seq = voice.seq + 1
    BY <1>4 DEF Taken
  <2>2. HeardVoice' = HeardVoice /\ NextNum' = NextNum
    BY <1>4, <1>k DEF Taken
  <2>3. NextNum = voice.seq /\ Oldest = HeardVoice + 1
    BY <2>1 DEF VoiceLine, Tight, Pending
  <2>4. Pending' = Oldest
    BY <1>4, <1>q, <2>1 DEF Pending
  <2>5. voice.seq <= voice.seq /\ voice.seq <= voice.seq + 1
    BY <1>n
  <2> QED BY <2>1, <2>2, <2>3, <2>4, <2>5 DEF VoiceLine, Tight
<1>5. CASE Cleared
  <2>1. build' = "c3" /\ worker'.pc = "idle" /\ NextNum' = NextNum /\ voice'.seq = voice.seq
    BY <1>5, <1>k DEF Cleared, Kept
  <2> QED BY <2>1 DEF VoiceLine
<1>6. CASE Popped
  <2>1. build # "c3" /\ build' = build /\ worker.pc = "pop" /\ worker'.pc = "slice" /\ voice'.seq = voice.seq
    BY <1>6 DEF Popped, Kept
  <2>2. HeardVoice' = HeardVoice /\ NextNum' = NextNum
    BY <1>6, <1>k DEF Popped
  <2>3. Pending' = Oldest /\ Pending = Oldest
    BY <1>6, <1>q, <2>1 DEF Pending
  <2> QED BY <2>1, <2>2, <2>3 DEF VoiceLine, Tight
<1>7. CASE Numbered
  <2>1. /\ build # "c3" /\ build' = build /\ worker.pc = "slice" /\ worker'.pc = "send"
        /\ voice'.seq = voice.seq + 1 /\ worker'.num = voice.seq /\ worker'.hand = worker.hand
    BY <1>7 DEF Numbered, Kept
  <2>2. HeardVoice' = HeardVoice /\ NextNum' = NextNum
    BY <1>7, <1>k DEF Numbered
  <2>3. Pending' = Pending
    BY <2>1 DEF Pending
  <2>4. Tight' => Tight
    BY <2>1, <2>2 DEF Tight
  <2>5. NextNum <= voice.seq /\ (Tight => Pending = HeardVoice + 1)
    BY <2>1 DEF VoiceLine
  <2>6. NextNum <= voice.seq + 1
    BY <1>n, <2>5
  <2> QED BY <2>1, <2>2, <2>3, <2>4, <2>5, <2>6 DEF VoiceLine
<1>8. ASSUME NEW p \in Chunk, NEW left, Submitted(p, left),
             left = <<>> => End(p) = End(worker.hand), left # <<>> => left[1] = End(p) + 1,
             build = "c3" => left = <<>>
      PROVE VoiceLine'
  <2>1. /\ worker.pc = "send" /\ build' = build /\ voice'.seq = voice.seq
        /\ worker'.pc = IF left = <<>> THEN "loop" ELSE "slice"
        /\ build # "c3" => worker'.hand = left
    BY <1>8 DEF Submitted
  <2>2. HeardVoice' = End(p) /\ NextNum' = worker.num + 1
    BY <1>8, <1>n, HeardMore DEF Submitted
  <2>3. worker.num + 1 = voice.seq
    BY <2>1 DEF VoiceLine
  <2>4. Pending' = End(p) + 1
    <3>1. Oldest' = Oldest /\ End(worker.hand) + 1 = Oldest
      BY <1>8, <1>h, <1>q, <2>1 DEF Submitted, Holding
    <3>2. CASE left = <<>>
      BY <1>8, <2>1, <3>1, <3>2 DEF Pending
    <3>3. CASE left # <<>>
      BY <1>8, <2>1, <3>3 DEF Pending
    <3> QED BY <3>2, <3>3
  <2>5. NextNum' = voice'.seq /\ NextNum' <= voice'.seq
    BY <1>n, <2>1, <2>2, <2>3
  <2>6. worker'.pc # "send"
    BY <2>1
  <2> QED BY <2>1, <2>2, <2>4, <2>5, <2>6 DEF VoiceLine, Tight
<1>9. CASE build = "c3" /\ Submitted(worker.hand, <<>>)
  BY <1>8, <1>9, <1>h DEF Submitted, Holding
<1>10. CASE build # "c3" /\ Submitted(Slice, Left)
  <2>1. Filled(worker.hand) /\ worker.hand \in Chunk
    BY <1>10, <1>h DEF Submitted, Holding
  <2>2. /\ Slice \in Chunk /\ (Left = <<>> => End(Slice) = End(worker.hand))
        /\ Left # <<>> => Left[1] = End(Slice) + 1
    BY <2>1, SliceOf
  <2> QED BY <1>8, <1>10, <2>2
<1>11. CASE GivenUp
  <2>1. build # "c3" /\ build' = build /\ worker.pc = "send" /\ worker'.pc = "loop" /\ voice'.seq = voice.seq
    BY <1>11 DEF GivenUp, Kept
  <2>2. NextNum' = NextNum
    BY <1>11, <1>k DEF GivenUp
  <2>3. NextNum <= worker.num /\ worker.num + 1 = voice.seq /\ NextNum <= voice.seq
    BY <2>1 DEF VoiceLine
  <2>4. NextNum # voice.seq
    BY <1>n, <2>3
  <2> QED BY <2>1, <2>2, <2>3, <2>4 DEF VoiceLine, Tight
<1>12. CASE Emptied
  <2>1. HeardVoice' = 0 /\ NextNum' = 0 /\ Oldest' = 1 /\ voice'.seq = voice.seq /\ worker'.pc = "start"
    BY <1>12, <1>q DEF Emptied, HeardVoice, NextNum
  <2> QED BY <1>n, <2>1 DEF VoiceLine, Tight, Pending
<1>13. CASE Reset
  <2>1. sent' = <<>> /\ build' = build /\ build # "c3" /\ Oldest' = 1 /\ voice'.seq = 0 /\ worker'.pc = "loop"
    BY <1>13, <1>q DEF Reset, Kept, VoiceControl
  <2>2. HeardVoice' = 0 /\ NextNum' = 0
    BY <2>1 DEF HeardVoice, NextNum
  <2> QED BY <2>1, <2>2 DEF VoiceLine, Tight, Pending
<1> QED BY <1>1, <1>2, <1>3, <1>4, <1>5, <1>6, <1>7, <1>9, <1>10, <1>11, <1>12, <1>13, VoiceMoves

\* A packet that is submitted keeps to the numbers.
LEMMA NumbersGrow ==
  ASSUME VoiceTypeOK, VoiceControl, VoiceQueue, VoiceHand, VoiceLine, NumbersTellLoss,
         NEW p \in Chunk, NEW left, Submitted(p, left), Filled(p), p[1] = worker.hand[1]
  PROVE /\ NumbersTellLoss'
        /\ Tight => p[1] = HeardVoice + 1
<1> DEFINE l == Len(sent)
           s == sent'
           P(r, i) ==
             LET follows == IF i = 1 THEN r[1].num = 0 ELSE r[i].num = r[i - 1].num + 1
             IN  /\ r[i].units # <<>> /\ Run(r[i].units)
                 /\ i > 1 => r[i].num > r[i - 1].num
                 /\ follows => r[i].units[1] = (IF i = 1 THEN 0 ELSE End(r[i - 1].units)) + 1
<1>1. worker.num \in Nat /\ HeardVoice \in Nat /\ NextNum \in Nat /\ l \in Nat /\ sent' = Append(sent, [num |-> worker.num, units |-> p])
  BY HeardVoiceIs, VoiceParts DEF Submitted
<1>2. /\ Len(s) = l + 1 /\ s[l + 1] = [num |-> worker.num, units |-> p] /\ \A i \in 1..l : s[i] = sent[i]
  BY <1>1, HeardMore
<1>3. worker.pc = "send" /\ NextNum <= worker.num /\ (NextNum = worker.num => p[1] = HeardVoice + 1)
  BY DEF Submitted, VoiceLine, Tight, Pending
<1>4. Tight => p[1] = HeardVoice + 1
  BY <1>3 DEF Tight
<1>5. \A i \in 1..l : P(sent, i)
  BY DEF NumbersTellLoss, Last, End
<1>6. sent # <<>> => HeardVoice = End(sent[l].units) /\ NextNum = sent[l].num + 1 /\ l \in 1..l /\ sent[l].num \in Nat
  BY HeardVoiceIs DEF HeardVoice, NextNum, End
<1>7. sent = <<>> => HeardVoice = 0 /\ NextNum = 0 /\ l = 0
  BY DEF HeardVoice, NextNum
<1> HIDE DEF l, s
<1>8. ASSUME NEW i \in 1..l PROVE P(s, i)
  <2>1. i = 1 \/ i - 1 \in 1..l
    BY <1>1
  <2>2. s[i] = sent[i] /\ (i # 1 => s[i - 1] = sent[i - 1])
    BY <1>2, <2>1
  <2>3. P(sent, i)
    BY <1>5
  <2> QED BY <2>2, <2>3
<1>9. P(s, l + 1)
  <2>1. CASE sent = <<>>
    <3>1. l + 1 = 1 /\ s[1] = [num |-> worker.num, units |-> p] /\ HeardVoice = 0 /\ NextNum = 0
      BY <1>2, <1>7, <2>1
    <3>2. worker.num = 0 => p[1] = 0 + 1
      BY <1>3, <3>1
    <3>3. P(s, 1)
      BY <3>1, <3>2 DEF Filled
    <3> QED BY <3>1, <3>3
  <2>2. CASE sent # <<>>
    <3>1. l + 1 # 1 /\ (l + 1) - 1 = l /\ l \in 1..l
      BY <1>1, <1>6, <2>2
    <3>2. s[l] = sent[l] /\ s[l + 1].num = worker.num /\ s[l + 1].units = p
      BY <1>2, <3>1
    <3>3. worker.num > sent[l].num
      BY <1>1, <1>3, <1>6, <2>2
    <3>4. worker.num = sent[l].num + 1 => p[1] = End(sent[l].units) + 1
      BY <1>3, <1>6, <2>2
    <3> QED BY <3>1, <3>2, <3>3, <3>4 DEF Filled
  <2> QED BY <2>1, <2>2
<1>10. \A i \in 1..Len(s) : P(s, i)
  <2>1. \A i \in 1..(l + 1) : i \in 1..l \/ i = l + 1
    BY <1>1
  <2> QED BY <1>2, <1>8, <1>9, <2>1
<1>11. NumbersTellLoss'
  BY <1>10 DEF NumbersTellLoss, Last, End, s
<1> QED BY <1>4, <1>11

\* The App can tell what is missing after every step.
LEMMA NumbersStep ==
  ASSUME VoiceTypeOK, VoiceControl, VoiceQueue, VoiceHand, VoiceLine, NumbersTellLoss, VoiceNext
  PROVE NumbersTellLoss'
<1>1. CASE Kept \/ \E n \in 1..2 : Accepted(n)
  BY <1>1 DEF Kept, Accepted, NumbersTellLoss
<1>2. CASE Restarted \/ Emptied
  BY <1>2 DEF Restarted, Emptied, NumbersTellLoss
<1>h. ASSUME NEW p, NEW left, Submitted(p, left) PROVE Filled(worker.hand) /\ worker.hand \in Chunk
  BY <1>h, VoiceParts DEF Submitted, VoiceHand
<1>3. CASE build = "c3" /\ Submitted(worker.hand, <<>>)
  BY <1>3, <1>h, NumbersGrow
<1>4. CASE build # "c3" /\ Submitted(Slice, Left)
  <2>1. Slice \in Chunk /\ Filled(Slice) /\ Slice[1] = worker.hand[1]
    BY <1>4, <1>h, SliceOf
  <2> QED BY <1>4, <2>1, NumbersGrow
<1> QED BY <1>1, <1>2, <1>3, <1>4, VoiceMoves DEF Quiet, Reset, Cleared, Popped, Numbered, GivenUp, Taken

\* A worker that leaves without an error has submitted everything.
Settled == voice.abort \/ voice.error # "ok" \/ (voice.end /\ HeardVoice = said)

LEMMA VoiceDoneStep ==
  ASSUME VoiceTypeOK, VoiceControl, VoiceQueue, VoiceHand, VoiceLine, NumbersTellLoss, VoiceDone, VoiceNext
  PROVE VoiceDone'
<1>b. build' = build
  BY DEF VoiceNext, App, Worker, Link, Open, StartResets, WriteC3, WriteBegin, WriteEnd, VoiceEnd, LoopC3, NoMtuC3, SentC3, BusyC3,
         FailC3, LeaveC3, ClearC3, LoopStd, PopStd, SliceStd, SentStd, BusyStd, FailStd, LeaveStd,
         Drop, Connect, Subscribe, Unsubscribe
<1> SUFFICES ASSUME build = "c3"
             PROVE  /\ Chained'
                    /\ worker'.pc \notin {"loop", "send"} /\ voice'.session > 0 => Settled'
  BY <1>b DEF VoiceDone, Settled
<1>c. Chained /\ (worker.pc \notin {"loop", "send"} /\ voice.session > 0 => Settled)
  BY DEF VoiceDone, Settled
<1>1. Chained'
  <2>1. CASE Kept \/ \E n \in 1..2 : Accepted(n)
    BY <1>c, <2>1 DEF Kept, Accepted, Chained
  <2>2. CASE Restarted \/ Emptied
    BY <2>2 DEF Restarted, Emptied, Chained
  <2>3. CASE Submitted(worker.hand, <<>>)
    <3> DEFINE l == Len(sent)
               s == sent'
               p == worker.hand
    <3>1. worker.pc = "send" /\ Filled(p) /\ p \in Chunk /\ worker.num \in Nat /\ l \in Nat
      BY <2>3, VoiceParts, HeardVoiceIs DEF Submitted, VoiceHand
    <3>2. p[1] = HeardVoice + 1
      BY <2>3, <3>1, NumbersGrow DEF VoiceLine
    <3>3. Len(s) = l + 1 /\ s[l + 1] = [num |-> worker.num, units |-> p] /\ \A i \in 1..l : s[i] = sent[i]
      BY <2>3, <3>1, HeardMore DEF Submitted
    <3>4. /\ sent = <<>> => HeardVoice = 0 /\ l = 0
          /\ sent # <<>> => HeardVoice = End(sent[l].units) /\ l \in 1..l
      BY HeardVoiceIs DEF HeardVoice, End
    <3>5. \A i \in 1..l : sent[i].units[1] = (IF i = 1 THEN 0 ELSE End(sent[i - 1].units)) + 1
      BY <1>c DEF Chained
    <3> HIDE DEF l, s, p
    <3>6. ASSUME NEW i \in 1..l PROVE s[i].units[1] = (IF i = 1 THEN 0 ELSE End(s[i - 1].units)) + 1
      <4>1. i = 1 \/ i - 1 \in 1..l
        BY <3>1
      <4> QED BY <3>3, <3>5, <4>1
    <3>7. s[l + 1].units[1] = (IF l + 1 = 1 THEN 0 ELSE End(s[(l + 1) - 1].units)) + 1
      <4>1. CASE sent = <<>>
        <5>1. l + 1 = 1
          BY <3>4, <4>1
        <5>2. s[l + 1].units[1] = 0 + 1
          BY <3>2, <3>3, <3>4, <4>1
        <5> QED BY <5>1, <5>2
      <4>2. CASE sent # <<>>
        <5>1. l + 1 # 1 /\ (l + 1) - 1 = l /\ s[l] = sent[l]
          BY <3>1, <3>3, <3>4, <4>2
        <5> QED BY <3>2, <3>3, <3>4, <4>2, <5>1
      <4> QED BY <4>1, <4>2
    <3>8. \A i \in 1..(l + 1) : i \in 1..l \/ i = l + 1
      BY <3>1
    <3> QED BY <3>3, <3>6, <3>7, <3>8 DEF Chained, s
  <2> QED BY <2>1, <2>2, <2>3, VoiceMoves DEF Quiet, Reset, Cleared, Popped, Numbered, GivenUp, Taken
<1>v. DOMAIN voice = {"active", "end", "abort", "error", "q", "queued", "session", "seq"}
  BY DEF VoiceTypeOK, Voices
<1>w. DOMAIN worker = {"pc", "end", "hand", "num", "tries"}
  BY DEF VoiceTypeOK, Workers
<1>g. ASSUME NEW pc, VoiceGoto(pc) PROVE worker'.pc = pc
  BY <1>w, <1>g DEF VoiceGoto
<1>m. ASSUME worker'.pc = worker.pc \/ worker.pc \notin {"loop", "send"}, voice'.session = voice.session,
             said' = said, sent' = sent,
             voice.abort => voice'.abort, voice.end => voice'.end, voice.error # "ok" => voice'.error # "ok",
             worker'.pc \notin {"loop", "send"}, voice'.session > 0
      PROVE  Settled'
  BY <1>c, <1>m DEF Settled, HeardVoice
<1>2. ASSUME worker'.pc \notin {"loop", "send"}, voice'.session > 0 PROVE Settled'
  <2>1. CASE Open
    <3>1. CASE Start
      BY <1>2, <3>1, <1>w DEF Start, Resting
    <3> QED BY <2>1, <3>1 DEF Open, Continue, StartEmpties
  <2>2. ASSUME NEW n \in 1..2, WriteC3(n) PROVE Settled'
    <3>1. CASE Fits(n)
      <4>1. worker' = worker /\ voice'.session = voice.session /\ voice'.abort = voice.abort
        BY <1>v, <2>2, <3>1 DEF WriteC3, Accept
      <4>2. voice.error = "ok" /\ ~voice.end
        BY <2>2 DEF WriteC3, Takes
      <4> QED BY <1>2, <1>c, <4>1, <4>2 DEF Settled
    <3>2. CASE ~Fits(n)
      <4>1. voice'.abort
        BY <1>v, <2>2, <3>2 DEF WriteC3
      <4> QED BY <4>1 DEF Settled
    <3> QED BY <3>1, <3>2
  <2>3. CASE WriteEnd
    BY <2>3 DEF WriteEnd, VoiceControl
  <2>4. ASSUME NEW c \in BOOLEAN, VoiceEnd(c) PROVE Settled'
    <3>1. voice'.session = voice.session /\ (voice.abort => voice'.abort) /\ voice'.end /\ voice'.error = voice.error
      BY <1>v, <2>4 DEF VoiceEnd
    <3> QED BY <1>2, <1>m, <2>4, <3>1 DEF VoiceEnd
  <2>5. CASE LoopC3
    <3>1. voice' = voice /\ worker.pc = "loop" /\ said' = said /\ sent' = sent
      <4>1. ASSUME NEW n, Take(n) PROVE worker'.pc = "send"
        BY <1>w, <4>1 DEF Take
      <4> QED BY <1>2, <2>5, <4>1 DEF LoopC3, VoiceAt, hist
    <3>2. CASE ~link.up \/ voice.abort
      BY <3>1, <3>2 DEF VoiceControl, Settled
    <3>3. CASE PacketUnits(voice.queued, voice.end) = 0 /\ voice.end
      <4>1. voice.queued = 0
        <5>1. voice.queued \in Nat /\ Packet \in Nat \ {0}
          BY VoiceParts, Placed
        <5> QED BY <3>3, <5>1 DEF PacketUnits
      <4>2. Oldest = HeardVoice + 1
        BY <3>1 DEF VoiceLine, Tight, Pending
      <4>3. Oldest \in Nat /\ voice.queued + Oldest = said + 1 /\ said \in Nat /\ HeardVoice \in Nat
        BY Placed, HeardVoiceIs, VoiceParts DEF VoiceQueue
      <4>4. 0 + Oldest = said + 1
        BY <4>1, <4>3
      <4>5. HeardVoice = said
        BY <4>2, <4>3, <4>4
      <4>6. HeardVoice' = said' /\ voice'.end
        BY <3>1, <3>3, <4>5 DEF HeardVoice
      <4> QED BY <4>6 DEF Settled
    <3>4. CASE PacketUnits(voice.queued, voice.end) > 0
      <4>1. ~(PacketUnits(voice.queued, voice.end) = 0)
        BY <3>4
      <4>2. (~link.up \/ voice.abort) \/ Take(PacketUnits(voice.queued, voice.end))
        BY <2>5, <4>1 DEF LoopC3
      <4>3. ASSUME Take(PacketUnits(voice.queued, voice.end)) PROVE worker'.pc = "send"
        BY <1>w, <4>3 DEF Take
      <4> QED BY <1>2, <3>2, <4>2, <4>3
    <3> QED BY <2>5, <3>2, <3>3, <3>4 DEF LoopC3
  <2>6. CASE SentC3
    BY <1>2, <1>g, <2>6 DEF SentC3
  <2>7. CASE BusyC3
    BY <1>2, <1>w, <2>7 DEF BusyC3, VoiceAt
  <2>8. CASE FailC3
    <3>1. voice'.abort
      BY <1>v, <2>8 DEF FailC3
    <3> QED BY <3>1 DEF Settled
  <2>9. CASE LeaveC3
    <3>1. /\ voice'.session = voice.session /\ voice'.abort = voice.abort /\ voice'.end = voice.end
          /\ voice.error # "ok" => voice'.error # "ok"
      BY <1>v, <2>9 DEF LeaveC3
    <3> QED BY <1>2, <1>m, <2>9, <3>1 DEF LeaveC3, VoiceAt, hist
  <2>10. CASE ClearC3
    <3>1. voice'.session = voice.session /\ voice'.abort = voice.abort /\ voice'.end = voice.end /\ voice'.error = voice.error
      BY <1>v, <2>10 DEF ClearC3
    <3> QED BY <1>2, <1>m, <2>10, <3>1 DEF ClearC3, VoiceAt, hist
  <2>11. CASE Drop
    <3>1. voice'.abort
      BY <1>v, <2>11 DEF Drop
    <3> QED BY <3>1 DEF Settled
  <2>12. CASE Connect \/ Subscribe \/ Unsubscribe
    <3>1. voice' = voice /\ worker' = worker /\ said' = said /\ sent' = sent
      BY <2>12 DEF Connect, Subscribe, Unsubscribe, hist
    <3> QED BY <1>2, <1>m, <3>1
  <2>14. CASE NoMtuC3
    <3>1. voice'.error = "size"
      BY <1>v, <2>14 DEF NoMtuC3
    <3> QED BY <3>1 DEF Settled
  <2>13. ~(StartResets \/ LoopStd \/ PopStd \/ SliceStd \/ SentStd \/ BusyStd \/ FailStd \/ LeaveStd \/ \E n \in 1..2 : WriteBegin(n))
    BY DEF StartResets, VoiceControl, LoopStd, PopStd, SliceStd, SentStd, BusyStd, FailStd, LeaveStd, WriteBegin, VoiceAt
  <2> QED
    BY <2>1, <2>2, <2>3, <2>4, <2>5, <2>6, <2>7, <2>8, <2>9, <2>10, <2>11, <2>12, <2>13, <2>14 DEF VoiceNext, App, Worker, Link
<1> QED BY <1>1, <1>2

\* At the start nothing is queued, in hand or submitted.
LEMMA VoiceStarts ==
  ASSUME VoiceInit
  PROVE VoiceInv
<1>1. VoiceTypeOK
  <2>1. <<>> \in Queues /\ <<>> \in Chunk
    BY DEF Queues, Chunk
  <2>2. 0 \in -2..Cap /\ 0 \in 0..Retries /\ 0 \in 0..MaxOpens /\ 0 \in 0..MaxDrops /\ 0 \in 0..MaxSaid
    BY VoiceAssumption
  <2>3. voice \in Voices
    BY <2>1, <2>2 DEF VoiceInit, Voices, VoiceErrors
  <2>4. worker \in Workers /\ link \in VoiceLinks
    BY <2>1, <2>2 DEF VoiceInit, Resting, Workers, VoiceLinks
  <2>5. sent \in Seq([num : Nat, units : Chunk])
    BY DEF VoiceInit
  <2>6. build \in Builds /\ open \in BOOLEAN /\ writer \in 0..2 /\ said \in 0..MaxSaid /\ full \in BOOLEAN
    <3>1. build \in Builds /\ open = FALSE /\ writer = 0 /\ said = 0 /\ full = FALSE
      BY DEF VoiceInit
    <3>2. writer \in 0..2 /\ said \in 0..MaxSaid
      BY <2>2, <3>1
    <3>3. open \in BOOLEAN /\ full \in BOOLEAN
      BY <3>1
    <3> QED BY <3>1, <3>2, <3>3
  <2> QED BY <2>3, <2>4, <2>5, <2>6 DEF VoiceTypeOK
<1>2. /\ voice.q = <<>> /\ voice.queued = 0 /\ voice.seq = 0 /\ voice.session = 0 /\ ~voice.active /\ ~voice.abort
      /\ worker.pc = "idle" /\ worker.hand = <<>> /\ link.up /\ said = 0 /\ sent = <<>> /\ writer = 0
  BY DEF VoiceInit, Resting
<1>3. VoiceControl
  BY <1>2 DEF VoiceControl
<1>4. VoiceQueue /\ Oldest = 1
  BY <1>2 DEF VoiceQueue, Oldest, Run
<1>5. VoiceHand
  BY <1>2 DEF VoiceHand
<1>6. VoiceLine
  BY <1>2, <1>4 DEF VoiceLine, Tight, Pending, HeardVoice, NextNum
<1>7. NumbersTellLoss /\ VoiceDone
  BY <1>2 DEF NumbersTellLoss, VoiceDone, Chained
<1> QED BY <1>1, <1>3, <1>4, <1>5, <1>6, <1>7 DEF VoiceInv

\* VoiceInv is inductive.
LEMMA VoiceInductive ==
  ASSUME VoiceInv, [VoiceNext]_(voiceVars)
  PROVE VoiceInv'
<1>1. CASE VoiceNext
  <2>1. VoiceTypeOK'
    BY <1>1, VoiceTypes DEF VoiceInv
  <2>2. VoiceControl'
    BY <1>1, VoiceControlStep DEF VoiceInv
  <2>3. VoiceQueue' /\ VoiceHand'
    BY <1>1, VoiceQueueStep DEF VoiceInv
  <2>4. VoiceLine'
    BY <1>1, VoiceLineStep DEF VoiceInv
  <2>5. NumbersTellLoss'
    BY <1>1, NumbersStep DEF VoiceInv
  <2>6. VoiceDone'
    BY <1>1, VoiceDoneStep DEF VoiceInv
  <2> QED BY <2>1, <2>2, <2>3, <2>4, <2>5, <2>6 DEF VoiceInv
<1>2. CASE UNCHANGED voiceVars
  <2>1. VoiceTypeOK' /\ NumbersTellLoss'
    BY <1>2 DEF VoiceInv, voiceVars, VoiceTypeOK, Voices, Queues, NumbersTellLoss
  <2>2. VoiceControl' /\ VoiceQueue' /\ VoiceHand'
    BY <1>2 DEF VoiceInv, voiceVars, VoiceControl, VoiceQueue, VoiceHand, Oldest
  <2>3. VoiceLine' /\ VoiceDone'
    BY <1>2 DEF VoiceInv, voiceVars, VoiceLine, VoiceDone, Chained, Tight, Pending, Oldest, HeardVoice, NextNum
  <2> QED BY <2>1, <2>2, <2>3 DEF VoiceInv
<1> QED BY <1>1, <1>2

\* A session that is over without an error was heard whole.
LEMMA DoneIsWhole == VoiceInv => WholeUnlessError
<1> SUFFICES ASSUME VoiceInv, build = "c3", ~voice.active, voice.end, ~voice.abort, voice.error = "ok", voice.session > 0
             PROVE  Whole
  BY DEF WholeUnlessError
<1>1. worker.pc = "idle"
  BY DEF VoiceInv, VoiceControl
<1>2. Chained /\ HeardVoice = said
  BY <1>1 DEF VoiceInv, VoiceDone
<1>3. \A i \in 1..Len(sent) : sent[i].units # <<>> /\ Run(sent[i].units)
  BY DEF VoiceInv, NumbersTellLoss
<1> QED BY <1>2, <1>3 DEF Whole, Last, Chained, HeardVoice, End

\* VoiceInv holds in every state a session reaches.
THEOREM VoiceInvariance == VoiceSpec => []VoiceInv
<1>1. VoiceInit => VoiceInv
  BY VoiceStarts
<1>2. VoiceInv /\ [VoiceNext]_(voiceVars) => VoiceInv'
  BY VoiceInductive
<1> QED BY <1>1, <1>2, PTL DEF VoiceSpec

\* The units in the queue are those from the oldest to the last that was accepted.
LEMMA HeldIs ==
  ASSUME VoiceTypeOK, VoiceQueue, build \in {"c3", "std"}
  PROVE /\ build = "c3" => InQueue = voice.queued /\ InQueue <= Cap
        /\ build # "c3" => InQueue + Oldest = said + 1 /\ InQueue \in Int
<1>1. voice.queued \in -2..Cap /\ voice.queued \in Int /\ Cap \in Nat /\ said \in Nat
  BY VoiceParts
<1>2. CASE build = "c3"
  <2>1. Len(voice.q) = voice.queued /\ (voice.q = <<>> => Len(voice.q) = 0)
    BY <1>2, Placed
  <2>2. InQueue = voice.queued
    BY <1>2, <2>1 DEF InQueue
  <2> QED BY <1>1, <1>2, <2>2
<1>3. CASE build # "c3"
  <2>1. CASE voice.q = <<>>
    BY <1>1, <1>3, <2>1 DEF InQueue, Oldest
  <2>2. CASE voice.q # <<>>
    <3>1. Oldest \in Nat /\ Oldest = voice.q[1][1] /\ End(End(voice.q)) = said
      BY <1>3, <2>2, ChunkRuns DEF VoiceQueue
    <3>2. InQueue = said + 1 - Oldest
      BY <1>3, <2>2, <3>1 DEF InQueue, End, Last
    <3> QED BY <1>1, <1>3, <3>1, <3>2
  <2> QED BY <2>1, <2>2
<1> QED BY <1>2, <1>3

\* In VoiceInv the queue is bounded by its count, and that by the cap.
LEMMA HeldWithin == VoiceInv => QueueWithinCap
<1> SUFFICES ASSUME VoiceInv PROVE QueueWithinCap
  OBVIOUS
<1>1. VoiceTypeOK /\ VoiceControl /\ VoiceQueue /\ build \in {"c3", "std"}
  BY VoiceAssumption DEF VoiceInv, VoiceTypeOK
<1>2. voice.queued \in -2..Cap /\ Cap \in Nat /\ said \in Nat /\ writer \in Nat
  BY <1>1, VoiceParts
<1>3. CASE build = "c3"
  <2>1. InQueue = voice.queued /\ InQueue <= Cap
    BY <1>1, <1>3, HeldIs
  <2>2. InQueue <= Cap + 2
    BY <1>2, <2>1
  <2> QED BY <1>3, <2>1, <2>2 DEF QueueWithinCap
<1>4. CASE build # "c3"
  <2>1. InQueue \in Int /\ InQueue + Oldest = said + 1 /\ Oldest \in Nat
    BY <1>1, <1>4, HeldIs, ChunkRuns
  <2>2. CASE worker.pc = "start"
    <3>1. Oldest = 1 /\ said + writer <= 2
      BY <1>1, <2>2 DEF VoiceQueue, VoiceControl
    <3>2. InQueue <= Cap + 2
      BY <1>2, <2>1, <3>1
    <3> QED BY <1>4, <2>2, <3>2 DEF QueueWithinCap
  <2>3. CASE worker.pc # "start"
    <3>1. voice.queued + Oldest <= said + 1 /\ said <= voice.queued + Oldest + 1
      BY <1>1, <1>4, <2>3 DEF VoiceQueue
    <3>2. voice.queued <= InQueue /\ InQueue <= voice.queued + 2 /\ InQueue <= Cap + 2
      BY <1>2, <2>1, <3>1
    <3> QED BY <1>4, <3>2 DEF QueueWithinCap
  <2> QED BY <2>2, <2>3
<1> QED BY <1>3, <1>4

\* Whatever the sizes of queue and packet: the count never passes the cap, and the queue holds what is counted,
\* or in the variants other than the ESP32-C3 at most one write more, the one that was pushed while VoiceStart
\* had emptied the queue and not yet reset the count (VoiceQueue::Push, VoiceEnqueue, VoiceStart).
THEOREM VoiceTypeCorrect == VoiceSpec => [](VoiceTypeOK /\ QueueWithinCap)
<1>1. VoiceInv => VoiceTypeOK /\ QueueWithinCap
  BY HeldWithin DEF VoiceInv
<1> QED BY <1>1, VoiceInvariance, PTL

\* And whatever was dropped, retried or given up: the numbers of the packets tell the App all that is missing (VoiceTask).
THEOREM LossIsTold == VoiceSpec => []NumbersTellLoss
<1>1. VoiceInv => NumbersTellLoss
  BY DEF VoiceInv
<1> QED BY <1>1, VoiceInvariance, PTL

\* On the ESP32-C3 a session closed as complete that reports no error has submitted all it accepted
\* (VoiceEnqueue, VoiceEnd, VoiceTask).
THEOREM CompleteIsWhole == VoiceSpec => []WholeUnlessError
BY DoneIsWhole, VoiceInvariance, PTL

=============================================================================
