-------------------------- MODULE OtaUpgradeProofs --------------------------
(***************************************************************************)
(* Proofs about OtaUpgrade, for every size of buffer, image and SDU and    *)
(* every number of tasks.  The parts, in order:                            *)
(*   types and control, one owner, and what the flash holds at each stage  *)
(*   of an upgrade (IInv);                                                 *)
(*   the right to send (CreditInv);                                        *)
(*   every step is a step of AtomicInstall or a stutter (StageInv), and a  *)
(*   session has one verdict (VerdictInv);                                 *)
(*   the receive gate keeps the buffer from overflowing (GateInv);         *)
(*   a timeout is the peer's fault (PollInv).                              *)
(***************************************************************************)
EXTENDS OtaUpgrade, SequenceTheorems, TLAPS

LEMMA OtherPart ==
  ASSUME NEW p \in Parts
  PROVE  /\ Other(p) \in Parts /\ Other(p) # p /\ Other(Other(p)) = p
BY DEF Parts, Other

LEMMA ImageType ==
  ASSUME NEW s \in 0..MaxSessions
  PROVE  Image(s) \in Slices
BY OtaAssumption DEF Image, Slices, Units

LEMMA EmptySlices == <<>> \in Slices
BY DEF Slices

LEMMA SlicesClosed ==
  ASSUME NEW a \in Slices, NEW b \in Slices
  PROVE  /\ Len(a) \in Nat
         /\ a \o b \in Slices
         /\ a # <<>> => Head(a) \in Units /\ Tail(a) \in Slices /\ Len(a) > 0
         /\ \A u \in Units : Append(a, u) \in Slices
         /\ \A m \in 1..(Len(a) + 1), n \in 0..Len(a) : SubSeq(a, m, n) \in Slices
<1>1. Len(a) \in Nat /\ a \o b \in Slices
  BY DEF Slices
<1>2. a # <<>> => Head(a) \in Units /\ Tail(a) \in Slices /\ Len(a) > 0
  BY HeadTailProperties DEF Slices
<1>3. \A u \in Units : Append(a, u) \in Slices
  BY DEF Slices
<1>4. ASSUME NEW m \in 1..(Len(a) + 1), NEW n \in 0..Len(a) PROVE SubSeq(a, m, n) \in Slices
  <2>1. \A i \in m..n : a[i] \in Units
    BY <1>4, <1>1 DEF Slices
  <2> QED BY <1>1, <2>1, SubSeqProperties DEF Slices
<1> QED BY <1>1, <1>2, <1>3, <1>4

LEMMA RomClosed ==
  ASSUME NEW r \in Roms, NEW p \in Parts, NEW s \in Slices
  PROVE  [r EXCEPT !.flash[p] = s] \in Roms
BY DEF Roms

LEMMA RomSelects ==
  ASSUME NEW r \in Roms, NEW p \in Parts
  PROVE  [r EXCEPT !.boot = p, !.img[p] = "new"] \in Roms
<1>1. [r EXCEPT !.img[p] = "new"] \in Roms
  BY DEF Roms
<1>2. [[r EXCEPT !.img[p] = "new"] EXCEPT !.boot = p] \in Roms
  BY <1>1 DEF Roms
<1>3. [r EXCEPT !.boot = p, !.img[p] = "new"] = [[r EXCEPT !.img[p] = "new"] EXCEPT !.boot = p]
  BY DEF Roms
<1> QED BY <1>2, <1>3

\* The owner of a session writes a partition that exists, and the session is one of those counted.
LEMMA OwnerFacts ==
  ASSUME IInv, NEW w \in Workers, Owns(w)
  PROVE  /\ app.sid \in Sessions
         /\ wk[w].pc # "toidle" => ota.part = Other(rom.running) /\ ota.part \in Parts
         /\ ota.state # "IDLE"
         /\ \A v \in Workers : Owns(v) => v = w
<1>1. rom.running \in Parts
  BY DEF IInv, TypeOK, Roms
<1> QED BY <1>1, OtherPart DEF IInv, ControlInv, OneOwner, ImageInv

Codes == {0, 1005, 2032, 2033, 2034, 2035, 2036}
Boards == [pc : {"idle", "store"}, view : States]
Links == [link : BOOLEAN, chan : Nat, opened : Nat, credit : Nat, rearm_pending : BOOLEAN]
Apps == [sid : 0..MaxSessions, pushing : 0..MaxSessions, next : Nat \ {0}]
Returns == {"free", "loop", "expire", "notify"}

LEMMA Names ==
  /\ {"IDLE", "RECEIVING", "VERIFYING", "SUCCESS", "FAILED"} = States
  /\ {"free", "notify", "tell", "begin", "loop", "recv", "poll", "expire", "write", "gate",
      "verify", "end", "bootsel", "success", "restart", "cleanup", "toidle", "resume", "claim",
      "rearm", "putback"} = WorkerPcs
BY DEF States, WorkerPcs, Working, Resuming

LEMMA TypeParts ==
  TypeOK <=> /\ ota \in Engines /\ wk \in [Workers -> Tasks]
             /\ host \in [pc : HostPcs, sdu : Slices]
             /\ board \in Boards /\ l2c \in Links /\ rom \in Roms
             /\ app \in Apps
             /\ reports \in [Sessions -> Seq(Nat)]
             /\ faults \in Nat
BY DEF TypeOK, Boards, Links, Apps

\* Updating one field keeps an engine, a board and a link state well typed.
LEMMA EngineWith ==
  ASSUME NEW o \in Engines
  PROVE  /\ \A s \in States : [o EXCEPT !.state = s] \in Engines
         /\ \A c \in Codes : [o EXCEPT !.err = c] \in Engines
         /\ \A n \in Nat : [o EXCEPT !.received = n] \in Engines
         /\ [o EXCEPT !.total = FwSize] \in Engines
         /\ \A p \in Parts : [o EXCEPT !.part = p] \in Engines
         /\ \A b \in BOOLEAN : /\ [o EXCEPT !.abort = b] \in Engines
                               /\ [o EXCEPT !.handle = b] \in Engines
         /\ \A s \in Slices : /\ [o EXCEPT !.sha = s] \in Engines
                              /\ [o EXCEPT !.buf = s] \in Engines
BY DEF Engines, Codes

LEMMA BoardView ==
  ASSUME board \in Boards, NEW s \in States
  PROVE  [board EXCEPT !.view = s] \in Boards
BY DEF Boards

LEMMA BoardWith ==
  ASSUME NEW b \in Boards
  PROVE  \A pc \in {"idle", "store"} : [b EXCEPT !.pc = pc] \in Boards
BY DEF Boards

LEMMA LinkWith ==
  ASSUME NEW l \in Links
  PROVE  /\ \A n \in Nat : /\ [l EXCEPT !.chan = n] \in Links
                           /\ [l EXCEPT !.opened = n] \in Links
                           /\ [l EXCEPT !.credit = n] \in Links
         /\ \A b \in BOOLEAN : /\ [l EXCEPT !.link = b] \in Links
                               /\ [l EXCEPT !.rearm_pending = b] \in Links
BY DEF Links

LEMMA AppWith ==
  ASSUME NEW a \in Apps
  PROVE  /\ \A s \in 0..MaxSessions : /\ [a EXCEPT !.sid = s] \in Apps
                                     /\ [a EXCEPT !.pushing = s] \in Apps
         /\ \A n \in Nat \ {0} : [a EXCEPT !.next = n] \in Apps
BY DEF Apps

LEMMA Initials ==
  Engine0 \in Engines /\ Task0 \in Tasks /\ Board0 \in Boards /\ Host0 \in [pc : HostPcs, sdu : Slices]
<1>1. Engine0 \in Engines
  BY Names, EmptySlices DEF Engine0, Engines
<1>2. Task0 \in Tasks
  BY Names, EmptySlices DEF Task0, Tasks
<1>3. Board0 \in Boards
  BY Names, OtaAssumption DEF Board0, Boards
<1>4. Host0 \in [pc : HostPcs, sdu : Slices]
  BY EmptySlices DEF Host0, HostPcs
<1> QED BY <1>1, <1>2, <1>3, <1>4

\* Updates of one worker's record.
LEMMA TaskGoto ==
  ASSUME wk \in [Workers -> Tasks], NEW w \in Workers, NEW pc \in WorkerPcs, Goto(w, pc)
  PROVE  wk' \in [Workers -> Tasks]
BY DEF Tasks, Goto

LEMMA TaskCall ==
  ASSUME wk \in [Workers -> Tasks], NEW w \in Workers, NEW pc \in Returns, CallResume(w, pc)
  PROVE  wk' \in [Workers -> Tasks]
<1>1. "resume" \in WorkerPcs
  BY Names
<1> QED BY <1>1 DEF Tasks, CallResume, Returns

LEMMA TaskReturns ==
  ASSUME wk \in [Workers -> Tasks], NEW w \in Workers
  PROVE  Returned(w) \in [Workers -> Tasks]
<1>1. wk[w].ret \in WorkerPcs
  BY Names DEF Tasks
<1> QED BY <1>1, ZenonT(40) DEF Tasks, Returned

LEMMA TaskReceives ==
  ASSUME wk \in [Workers -> Tasks], NEW w \in Workers, NEW pc \in WorkerPcs, NEW i \in Nat,
         NEW c \in Slices
  PROVE  [wk EXCEPT ![w].pc = pc, ![w].idle = i, ![w].chunk = c] \in [Workers -> Tasks]
BY ZenonT(40) DEF Tasks

LEMMA TaskWrites ==
  ASSUME wk \in [Workers -> Tasks], NEW w \in Workers, NEW pc \in WorkerPcs, NEW n \in Nat,
         NEW c \in Slices
  PROVE  [wk EXCEPT ![w].pc = pc, ![w].chunk = c, ![w].written = n] \in [Workers -> Tasks]
BY ZenonT(40) DEF Tasks

LEMMA FailWithType ==
  ASSUME TypeOK, NEW w \in Workers, NEW o \in Engines, app.sid \in Sessions,
         NEW code \in Codes, FailWith(w, code, o)
  PROVE  /\ ota' \in Engines /\ wk' \in [Workers -> Tasks] /\ board' \in Boards
         /\ reports' \in [Sessions -> Seq(Nat)]
<1>1. ota' \in Engines
  <2>1. [o EXCEPT !.err = code] \in Engines
    BY EngineWith
  <2> QED BY <2>1, EngineWith, Names DEF FailWith
<1>2. wk' \in [Workers -> Tasks]
  BY TaskGoto, TypeParts, Names DEF FailWith
<1>3. board' \in Boards
  BY TypeParts, BoardView, Names DEF FailWith
<1>4. reports[app.sid] \in Seq(Nat)
  BY TypeParts
<1>5. Append(reports[app.sid], code) \in Seq(Nat)
  BY <1>4 DEF Codes
<1>6. reports' \in [Sessions -> Seq(Nat)]
  BY <1>5, TypeParts DEF FailWith
<1> QED BY <1>1, <1>2, <1>3, <1>6

LEMMA ResetType ==
  ASSUME TypeOK, Reset, faults' \in Nat
  PROVE  TypeOK'
<1>1. l2c' \in Links
  BY TypeParts DEF Reset, ChannelLost, Links
<1>2. rom' \in Roms
  <2>1. rom \in Roms /\ rom.boot \in Parts
    BY TypeParts DEF Roms
  <2>2. Other(rom.boot) \in Parts
    BY <2>1, OtherPart
  <2>3. [rom EXCEPT !.img[rom.boot] = "pending", !.running = rom.boot] \in Roms
    BY <2>1 DEF Roms
  <2>4. [rom EXCEPT !.img[rom.boot] = "aborted", !.boot = Other(rom.boot),
                    !.running = Other(rom.boot)] \in Roms
    BY <2>1, <2>2 DEF Roms
  <2>5. [rom EXCEPT !.running = rom.boot] \in Roms
    BY <2>1 DEF Roms
  <2> QED BY <2>3, <2>4, <2>5 DEF Reset, BootLoader
<1> QED BY <1>1, <1>2, Initials DEF TypeOK, Reset, Boards, Links

\* Every step of a worker task keeps the types.
LEMMA WorkerType ==
  ASSUME IInv, NEW w \in Workers, WorkerStep(w)
  PROVE  TypeOK'
<1>a. TypeOK
  BY DEF IInv
<1>b. /\ ota \in Engines /\ wk \in [Workers -> Tasks] /\ rom \in Roms /\ board \in Boards
      /\ l2c \in Links /\ reports \in [Sessions -> Seq(Nat)] /\ faults \in Nat
  BY <1>a, TypeParts
<1>c. /\ ota.buf \in Slices /\ ota.sha \in Slices /\ wk[w].chunk \in Slices
      /\ wk[w].written \in Nat /\ wk[w].idle \in Nat /\ wk[w].snap \in States /\ ota.state \in States
      /\ wk[w].ret \in Returns /\ l2c.chan \in Nat /\ l2c.credit \in Nat /\ ota.total \in Nat
  BY <1>b, OtaAssumption DEF Engines, Tasks, Links, Returns
<1>d. At(w, "begin") \/ At(w, "write") \/ At(w, "end") \/ At(w, "bootsel")
        => ota.part \in Parts
  BY OwnerFacts DEF Owns, At, Working
<1>e. wk[w].pc \in Working => app.sid \in Sessions
  BY OwnerFacts DEF Owns
<1>f. \A k : Fault(k) => faults' \in Nat
  BY <1>b DEF Fault
<1>1. CASE Begin(w)
  <2>1. ota' \in Engines
    <3>1. [ota EXCEPT !.handle = TRUE] \in Engines
      BY <1>b, EngineWith
    <3> QED BY <1>1, <3>1, EngineWith, EmptySlices DEF Begin
  <2>2. wk' \in [Workers -> Tasks]
    BY <1>1, <1>b, TaskGoto, Names DEF Begin
  <2>3. rom' \in Roms
    BY <1>1, <1>b, <1>d, RomClosed, EmptySlices DEF Begin, Erased
  <2> QED BY <1>1, <1>a, <2>1, <2>2, <2>3 DEF TypeOK, Begin
<1>2. CASE BeginFails(w)
  <2>1. app.sid \in Sessions
    BY <1>2, <1>e DEF BeginFails, At, Working
  <2>2. [ota EXCEPT !.handle = TRUE] \in Engines
    BY <1>b, EngineWith
  <2>3. rom' \in Roms
    BY <1>2, <1>b, <1>d, RomClosed, EmptySlices DEF BeginFails, Erased
  <2>4. faults' \in Nat
    BY <1>2, <1>f DEF BeginFails
  <2>5. 2032 \in Codes /\ 1005 \in Codes
    BY DEF Codes
  <2>6. /\ ota' \in Engines /\ wk' \in [Workers -> Tasks] /\ board' \in Boards
        /\ reports' \in [Sessions -> Seq(Nat)]
    BY <1>2, <1>a, <1>b, <2>1, <2>2, <2>5, FailWithType DEF BeginFails
  <2> QED BY <1>2, <1>a, <2>3, <2>4, <2>6 DEF TypeOK, BeginFails, Boards
<1>3. CASE LoopDone(w)
  <2>1. ota' \in Engines
    BY <1>3, <1>b, EngineWith, Names DEF LoopDone
  <2>2. wk' \in [Workers -> Tasks]
    BY <1>3, <1>b, TaskGoto, Names DEF LoopDone
  <2>3. board' \in Boards
    BY <1>3, <1>b, BoardView, Names DEF LoopDone
  <2> QED BY <1>3, <1>a, <2>1, <2>2, <2>3 DEF TypeOK, LoopDone, Boards
<1>4. CASE LoopAborted(w)
  <2>1. app.sid \in Sessions /\ 2035 \in Codes
    BY <1>4, <1>e DEF LoopAborted, At, Working, Codes
  <2>2. /\ ota' \in Engines /\ wk' \in [Workers -> Tasks] /\ board' \in Boards
        /\ reports' \in [Sessions -> Seq(Nat)]
    BY <1>4, <1>a, <1>b, <2>1, FailWithType DEF LoopAborted
  <2> QED BY <1>4, <1>a, <2>2 DEF TypeOK, LoopAborted, Boards
<1>5. CASE LoopReads(w)
  <2>1. wk' \in [Workers -> Tasks]
    BY <1>5, <1>b, TaskGoto, Names DEF LoopReads
  <2> QED BY <1>5, <1>a, <2>1 DEF TypeOK, LoopReads
<1>6. CASE Receive(w)
  <2> DEFINE got == Least(Least(FlashChunk, ota.total - wk[w].written), Len(ota.buf))
  <2>1. ota.total - wk[w].written \in Nat \ {0}
    BY <1>6, <1>c DEF Receive, At, IInv, ControlInv
  <2>2. Len(ota.buf) \in Nat
    BY <1>c, SlicesClosed
  <2>3. got \in 0..Len(ota.buf)
    BY <2>1, <2>2, OtaAssumption DEF Least
  <2>4. SubSeq(ota.buf, 1, got) \in Slices /\ SubSeq(ota.buf, got + 1, Len(ota.buf)) \in Slices
    <3>1. 1 \in 1..(Len(ota.buf) + 1) /\ got + 1 \in 1..(Len(ota.buf) + 1)
          /\ Len(ota.buf) \in 0..Len(ota.buf)
      BY <2>2, <2>3
    <3> HIDE DEF got
    <3> QED BY <1>c, <2>3, <3>1, SlicesClosed
  <2> HIDE DEF got
  <2>5. /\ wk' = [wk EXCEPT ![w].pc = "write", ![w].idle = 0,
                            ![w].chunk = SubSeq(ota.buf, 1, got)]
        /\ ota' = [ota EXCEPT !.buf = SubSeq(ota.buf, got + 1, Len(ota.buf))]
    BY <1>6 DEF Receive, got
  <2>6. ota' \in Engines
    BY <2>5, <2>4, <1>b, EngineWith
  <2>7. "write" \in WorkerPcs
    BY Names
  <2>8. wk' \in [Workers -> Tasks]
    BY <2>5, <2>4, <2>7, <1>b, TaskReceives
  <2> QED BY <1>6, <1>a, <2>6, <2>8 DEF TypeOK, Receive
<1>7. CASE ReceiveEmpty(w)
  <2>1. "poll" \in WorkerPcs /\ wk[w].idle + 1 \in Nat
    BY Names, <1>c
  <2>2. wk' \in [Workers -> Tasks]
    BY <1>7, <1>b, <2>1 DEF ReceiveEmpty, Tasks
  <2> QED BY <1>7, <1>a, <2>2 DEF TypeOK, ReceiveEmpty
<1>8. CASE PollGate(w)
  <2>1. wk' \in [Workers -> Tasks]
    <3>1. CASE CallResume(w, "expire")
      BY <3>1, <1>b, TaskCall DEF Returns
    <3>2. CASE Goto(w, "expire")
      BY <3>2, <1>b, TaskGoto, Names
    <3> QED BY <1>8, <3>1, <3>2 DEF PollGate
  <2> QED BY <1>8, <1>a, <2>1 DEF TypeOK, PollGate
<1>9. CASE PollAgain(w)
  <2>1. wk' \in [Workers -> Tasks]
    BY <1>9, <1>b, TaskGoto, Names DEF PollAgain
  <2> QED BY <1>9, <1>a, <2>1 DEF TypeOK, PollAgain
<1>10. CASE ReceiveTimeout(w)
  <2>1. app.sid \in Sessions /\ 2033 \in Codes
    BY <1>10, <1>e DEF ReceiveTimeout, At, Working, Codes
  <2>2. /\ ota' \in Engines /\ wk' \in [Workers -> Tasks] /\ board' \in Boards
        /\ reports' \in [Sessions -> Seq(Nat)]
    BY <1>10, <1>a, <1>b, <2>1, FailWithType DEF ReceiveTimeout
  <2> QED BY <1>10, <1>a, <2>2 DEF TypeOK, ReceiveTimeout, Boards
<1>11. CASE WriteChunk(w)
  <2>1. ota' \in Engines
    BY <1>11, <1>b, <1>c, EngineWith, SlicesClosed DEF WriteChunk
  <2>2. rom.flash[ota.part] \in Slices
    BY <1>11, <1>b, <1>d DEF WriteChunk, Roms
  <2>3. rom' \in Roms
    BY <1>11, <1>b, <1>c, <1>d, <2>2, RomClosed, SlicesClosed DEF WriteChunk
  <2>4. "gate" \in WorkerPcs /\ wk[w].written + Len(wk[w].chunk) \in Nat
    BY Names, <1>c, SlicesClosed
  <2>5. wk' \in [Workers -> Tasks]
    BY <1>11, <1>b, <2>4, EmptySlices, TaskWrites DEF WriteChunk
  <2> QED BY <1>11, <1>a, <2>1, <2>3, <2>5 DEF TypeOK, WriteChunk
<1>12. CASE WriteFails(w)
  <2>1. app.sid \in Sessions /\ 1005 \in Codes /\ 2033 \in Codes
    BY <1>12, <1>e DEF WriteFails, At, Working, Codes
  <2>2. [ota EXCEPT !.sha = ota.sha \o wk[w].chunk] \in Engines
    BY <1>b, <1>c, EngineWith, SlicesClosed
  <2>3. /\ ota' \in Engines /\ wk' \in [Workers -> Tasks] /\ board' \in Boards
        /\ reports' \in [Sessions -> Seq(Nat)]
    BY <1>12, <1>a, <2>1, <2>2, FailWithType DEF WriteFails
  <2>4. faults' \in Nat
    BY <1>12, <1>f DEF WriteFails
  <2> QED BY <1>12, <1>a, <2>3, <2>4 DEF TypeOK, WriteFails, Boards
<1>13. CASE LiftGate(w)
  <2>1. wk' \in [Workers -> Tasks]
    <3>1. CASE CallResume(w, "loop")
      BY <3>1, <1>b, TaskCall DEF Returns
    <3>2. CASE Goto(w, "loop")
      BY <3>2, <1>b, TaskGoto, Names
    <3> QED BY <1>13, <3>1, <3>2 DEF LiftGate
  <2>2. board' \in Boards
    BY <1>13, <1>b, <1>c, BoardView DEF LiftGate
  <2> QED BY <1>13, <1>a, <2>1, <2>2 DEF TypeOK, LiftGate, Boards
<1>14. CASE Verify(w)
  <2>1. CASE Goto(w, "end") /\ UNCHANGED <<ota, board, reports, faults>>
    <3>1. wk' \in [Workers -> Tasks]
      BY <2>1, <1>b, TaskGoto, Names
    <3> QED BY <1>14, <1>a, <2>1, <3>1 DEF TypeOK, Verify
  <2>2. ASSUME NEW code \in {1005, 2034}, FailWith(w, code, ota) PROVE TypeOK'
    <3>1. app.sid \in Sessions /\ code \in Codes
      BY <1>14, <1>e DEF Verify, At, Working, Codes
    <3>3. faults' \in Nat
      BY <1>14, <1>a, <1>f DEF Verify, TypeOK
    <3>2. /\ ota' \in Engines /\ wk' \in [Workers -> Tasks] /\ board' \in Boards
          /\ reports' \in [Sessions -> Seq(Nat)]
      BY <2>2, <1>a, <1>b, <3>1, FailWithType
    <3> QED BY <1>14, <1>a, <3>2, <3>3 DEF TypeOK, Verify, Boards
  <2> QED BY <1>14, <2>1, <2>2 DEF Verify
<1>15. CASE EndImage(w)
  <2>1. [ota EXCEPT !.handle = FALSE] \in Engines
    BY <1>b, EngineWith
  <2>2. CASE FailWith(w, 2036, [ota EXCEPT !.handle = FALSE]) /\ Fault("image")
    <3>1. app.sid \in Sessions /\ 2036 \in Codes
      BY <1>15, <1>e DEF EndImage, At, Working, Codes
    <3>2. /\ ota' \in Engines /\ wk' \in [Workers -> Tasks] /\ board' \in Boards
          /\ reports' \in [Sessions -> Seq(Nat)] /\ faults' \in Nat
      BY <2>1, <2>2, <1>a, <1>f, <3>1, FailWithType
    <3> QED BY <1>15, <1>a, <3>2 DEF TypeOK, EndImage, Boards
  <2>3. CASE /\ ota' = [ota EXCEPT !.handle = FALSE]
             /\ Goto(w, "bootsel")
             /\ UNCHANGED <<board, reports, faults>>
    <3>1. wk' \in [Workers -> Tasks]
      BY <2>3, <1>b, TaskGoto, Names
    <3> QED BY <1>15, <1>a, <2>1, <2>3, <3>1 DEF TypeOK, EndImage
  <2> QED BY <1>15, <2>2, <2>3 DEF EndImage
<1>16. CASE SelectBoot(w)
  <2>1. CASE FailWith(w, 2032, ota) /\ Fault("bootsel") /\ UNCHANGED rom
    <3>1. app.sid \in Sessions /\ 2032 \in Codes
      BY <1>16, <1>e DEF SelectBoot, At, Working, Codes
    <3>2. /\ ota' \in Engines /\ wk' \in [Workers -> Tasks] /\ board' \in Boards
          /\ reports' \in [Sessions -> Seq(Nat)] /\ faults' \in Nat
      BY <2>1, <1>a, <1>b, <1>f, <3>1, FailWithType
    <3> QED BY <1>16, <1>a, <2>1, <3>2 DEF TypeOK, SelectBoot, Boards
  <2>2. CASE /\ rom' = [rom EXCEPT !.boot = ota.part, !.img[ota.part] = "new"]
             /\ Goto(w, "success")
             /\ UNCHANGED <<ota, board, reports, faults>>
    <3>1. wk' \in [Workers -> Tasks]
      BY <2>2, <1>b, TaskGoto, Names
    <3>2. rom' \in Roms
      <4>1. ota.part \in Parts
        BY <1>16, <1>d DEF SelectBoot
      <4>2. [rom EXCEPT !.boot = ota.part, !.img[ota.part] = "new"] \in Roms
        BY <1>b, <4>1, RomSelects
      <4> QED BY <2>2, <4>2
    <3> QED BY <1>16, <1>a, <2>2, <3>1, <3>2 DEF TypeOK, SelectBoot
  <2> QED BY <1>16, <2>1, <2>2 DEF SelectBoot
<1>17. CASE Succeed(w)
  <2>1. ota' \in Engines
    BY <1>17, <1>b, EngineWith, Names DEF Succeed
  <2>2. wk' \in [Workers -> Tasks]
    BY <1>17, <1>b, TaskGoto, Names DEF Succeed
  <2>3. board' \in Boards
    BY <1>17, <1>b, BoardView, Names DEF Succeed
  <2>4. app.sid \in Sessions
    BY <1>17, <1>e DEF Succeed, At, Working
  <2>5. Append(reports[app.sid], 0) \in Seq(Nat)
    BY <1>b, <2>4
  <2>6. reports' \in [Sessions -> Seq(Nat)]
    BY <1>17, <1>b, <2>5 DEF Succeed
  <2> QED BY <1>17, <1>a, <2>1, <2>2, <2>3, <2>6 DEF TypeOK, Succeed, Boards
<1>18. CASE Restart(w)
  <2>1. faults' \in Nat
    BY <1>18, <1>b DEF Restart
  <2> QED BY <1>18, <1>a, <2>1, ResetType DEF Restart
<1>19. CASE Cleanup(w)
  <2>1. [Engine0 EXCEPT !.state = ota.state] \in Engines
    BY <1>c, Initials, EngineWith
  <2>2. ota.err \in Codes
    BY <1>b DEF Engines, Codes
  <2>3. ota' \in Engines
    BY <1>19, <2>1, <2>2, EngineWith DEF Cleanup, CleanedUp
  <2>4. wk' \in [Workers -> Tasks]
    BY <1>19, <1>b, TaskGoto, Names DEF Cleanup
  <2> QED BY <1>19, <1>a, <2>3, <2>4 DEF TypeOK, Cleanup
<1>20. CASE ToIdle(w)
  <2>1. ota' \in Engines
    BY <1>20, <1>b, EngineWith, Names DEF ToIdle
  <2>2. wk' \in [Workers -> Tasks]
    BY <1>20, <1>b, TaskCall DEF ToIdle, Returns
  <2> QED BY <1>20, <1>a, <2>1, <2>2 DEF TypeOK, ToIdle
<1>21. CASE NotifySnapshot(w)
  <2>1. "tell" \in WorkerPcs
    BY Names
  <2>2. wk' \in [Workers -> Tasks]
    BY <1>21, <1>b, <1>c, <2>1 DEF NotifySnapshot, Tasks
  <2> QED BY <1>21, <1>a, <2>2 DEF TypeOK, NotifySnapshot
<1>22. CASE NotifyTell(w)
  <2>1. board' \in Boards
    BY <1>22, <1>b, <1>c, BoardView DEF NotifyTell
  <2>2. wk' \in [Workers -> Tasks]
    BY <1>22, <1>b, Initials DEF NotifyTell
  <2> QED BY <1>22, <1>a, <2>1, <2>2 DEF TypeOK, NotifyTell, Boards
<1>23. CASE ResumeCheck(w)
  <2>1. "claim" \in WorkerPcs
    BY Names
  <2>2. wk' \in [Workers -> Tasks]
    <3>1. [wk EXCEPT ![w].pc = "claim", ![w].chan = l2c.chan] \in [Workers -> Tasks]
      BY <1>b, <1>c, <2>1 DEF Tasks
    <3> QED BY <1>23, <1>b, <3>1, TaskReturns DEF ResumeCheck
  <2> QED BY <1>23, <1>a, <2>2 DEF TypeOK, ResumeCheck
<1>24. CASE ResumeClaim(w)
  <2>1. wk' \in [Workers -> Tasks]
    BY <1>24, <1>b, TaskGoto, TaskReturns, Names DEF ResumeClaim
  <2>2. l2c' \in Links
    BY <1>24, <1>b DEF ResumeClaim, Links
  <2> QED BY <1>24, <1>a, <2>1, <2>2 DEF TypeOK, ResumeClaim, Links
<1>25. CASE ResumeRearm(w)
  <2>1. wk' \in [Workers -> Tasks]
    BY <1>25, <1>b, TaskGoto, TaskReturns, Names DEF ResumeRearm
  <2>2. l2c' \in Links
    <3> DEFINE n == IF wk[w].chan = l2c.chan THEN l2c.credit + 1 ELSE l2c.credit
    <3>1. n \in Nat
      BY <1>c
    <3>2. l2c' = [l2c EXCEPT !.credit = n] \/ l2c' = l2c
      BY <1>25 DEF ResumeRearm
    <3> HIDE DEF n
    <3> QED BY <3>1, <3>2, <1>b DEF Links
  <2>3. faults' \in Nat
    BY <1>25, <1>b, <1>f DEF ResumeRearm
  <2> QED BY <1>25, <1>a, <2>1, <2>2, <2>3 DEF TypeOK, ResumeRearm, Links
<1>26. CASE ResumePutBack(w)
  <2>1. wk' \in [Workers -> Tasks]
    BY <1>26, <1>b, TaskReturns DEF ResumePutBack
  <2>2. l2c' \in Links
    BY <1>26, <1>b DEF ResumePutBack, Links
  <2> QED BY <1>26, <1>a, <2>1, <2>2 DEF TypeOK, ResumePutBack, Links
<1> QED BY <1>1, <1>2, <1>3, <1>4, <1>5, <1>6, <1>7, <1>8, <1>9, <1>10, <1>11, <1>12, <1>13,
           <1>14, <1>15, <1>16, <1>17, <1>18, <1>19, <1>20, <1>21, <1>22, <1>23, <1>24, <1>25,
           <1>26 DEF WorkerStep

\* So do the host task, the board task and the environment.
LEMMA OthersType ==
  ASSUME IInv, HostStep \/ BoardAbortStore \/ Environment
  PROVE  TypeOK'
<1>a. TypeOK
  BY DEF IInv
<1> DEFINE Hosts == [pc : HostPcs, sdu : Slices]
<1>b. /\ ota \in Engines /\ wk \in [Workers -> Tasks] /\ rom \in Roms /\ board \in Boards
      /\ l2c \in Links /\ host \in Hosts /\ faults \in Nat
      /\ app \in Apps
  BY <1>a, TypeParts
<1>c. /\ ota.buf \in Slices /\ ota.received \in Nat /\ l2c.credit \in Nat /\ l2c.opened \in Nat
      /\ host.sdu \in Slices /\ app.pushing \in 0..MaxSessions /\ app.next \in Nat \ {0}
      /\ app.sid \in 0..MaxSessions /\ rom.running \in Parts
  BY <1>b DEF Engines, Links, Roms, Apps
<1>f. \A k : Fault(k) => faults' \in Nat
  BY <1>b DEF Fault
<1>g. \A pc \in HostPcs : HostGoto(pc) => host' \in Hosts
  BY <1>b DEF HostGoto
<1>h. \A x \in {"idle", "slice", "send", "count", "hold", "abort"} : x \in HostPcs
  BY DEF HostPcs
<1>k. \A n \in Nat : [l2c EXCEPT !.credit = n] \in Links
  BY <1>b DEF Links
<1>1. CASE AbortStore
  <2>1. ota' \in Engines
    BY <1>1, <1>b, EngineWith DEF AbortStore
  <2> QED BY <1>1, <1>a, <1>g, <1>h, <2>1 DEF TypeOK, AbortStore
<1>2. CASE SliceCheck
  <2>1. [host EXCEPT !.sdu = Tail(host.sdu)] \in Hosts
    BY <1>2, <1>b, <1>c, SlicesClosed DEF SliceCheck
  <2>2. host' \in Hosts
    BY <1>2, <2>1, <1>g, <1>h DEF SliceCheck
  <2> QED BY <1>2, <1>a, <2>2 DEF TypeOK, SliceCheck
<1>3. CASE SliceSend
  <2>1. host.sdu # <<>>
    BY <1>3 DEF SliceSend, IInv, ControlInv
  <2>2. Head(host.sdu) \in Units /\ Tail(host.sdu) \in Slices
    BY <1>c, <2>1, SlicesClosed
  <2>3. Append(ota.buf, Head(host.sdu)) \in Slices
    BY <1>c, <2>2, SlicesClosed
  <2>4. ota' \in Engines
    <3>1. [ota EXCEPT !.buf = Append(ota.buf, Head(host.sdu))] \in Engines
      BY <1>b, <2>3, EngineWith
    <3> QED BY <1>3, <1>b, <3>1 DEF SliceSend
  <2>5. host' \in Hosts
    <3>1. \A pc \in {"count", "slice"}, t \in Slices : [pc |-> pc, sdu |-> t] \in Hosts
      BY <1>h
    <3>2. \E pc \in {"count", "slice"} : host' = [pc |-> pc, sdu |-> Tail(host.sdu)]
      BY <1>3 DEF SliceSend
    <3> QED BY <3>1, <3>2, <2>2
  <2> QED BY <1>3, <1>a, <2>4, <2>5 DEF TypeOK, SliceSend
<1>4. CASE SliceCount
  <2>1. ota' \in Engines
    <3>1. ota.received + 1 \in Nat
      BY <1>c
    <3> QED BY <1>4, <1>b, <3>1, EngineWith DEF SliceCount
  <2> QED BY <1>4, <1>a, <1>g, <1>h, <2>1 DEF TypeOK, SliceCount
<1>5. CASE DataRearm
  <2>1. l2c' \in Links /\ faults' \in Nat
    <3>1. [l2c EXCEPT !.credit = l2c.credit + 1] \in Links
      BY <1>c, <1>k
    <3>2. \/ l2c' = [l2c EXCEPT !.credit = l2c.credit + 1] /\ UNCHANGED faults
          \/ l2c' = l2c /\ Fault("pool_host")
          \/ l2c' = l2c /\ UNCHANGED faults
      BY <1>5 DEF DataRearm
    <3> QED BY <3>1, <3>2, <1>b, <1>f
  <2> QED BY <1>5, <1>a, <1>g, <1>h, <2>1 DEF TypeOK, DataRearm, Links
<1>6. CASE DataHold
  <2>1. l2c' \in Links
    BY <1>6, <1>b DEF DataHold, Links
  <2> QED BY <1>6, <1>a, <1>g, <1>h, <2>1 DEF TypeOK, DataHold, Links
<1>7. CASE BoardAbortStore
  <2>1. ota' \in Engines
    BY <1>7, <1>b, EngineWith DEF BoardAbortStore
  <2>2. board' \in Boards
    <3>1. [board EXCEPT !.pc = "idle"] \in Boards
      BY <1>b, BoardWith
    <3> QED BY <1>7, <3>1 DEF BoardAbortStore
  <2> QED BY <1>7, <1>a, <2>1, <2>2 DEF TypeOK, BoardAbortStore, Boards
<1>8. CASE \E w \in Workers : StartOta(w)
  <2> PICK w \in Workers : StartOta(w)
    BY <1>8
  <2>1. NewSession \in Engines
    <3>1. Other(rom.running) \in Parts
      BY <1>c, OtherPart
    <3>2. /\ ota.handle \in BOOLEAN /\ ota.sha \in Slices
      BY <1>b DEF Engines
    <3>3. "RECEIVING" \in States
      BY Names
    <3> DEFINE e1 == [Engine0 EXCEPT !.state = "RECEIVING"]
               e2 == [e1 EXCEPT !.total = FwSize]
               e3 == [e2 EXCEPT !.part = Other(rom.running)]
               e4 == [e3 EXCEPT !.handle = ota.handle]
               e5 == [e4 EXCEPT !.sha = ota.sha]
    <3>4. NewSession = e5
      BY DEF NewSession
    <3>5. e1 \in Engines
      BY <3>3, Initials, EngineWith
    <3> HIDE DEF e1
    <3>6. e2 \in Engines
      BY <3>5, EngineWith
    <3> HIDE DEF e2
    <3>7. e3 \in Engines
      BY <3>1, <3>6, EngineWith
    <3> HIDE DEF e3
    <3>8. e4 \in Engines
      BY <3>2, <3>7, EngineWith
    <3> HIDE DEF e4
    <3>9. e5 \in Engines
      BY <3>2, <3>8, EngineWith
    <3> QED BY <3>4, <3>9
  <2>2. wk' \in [Workers -> Tasks]
    BY <1>b, TaskGoto, Names DEF StartOta
  <2>3. board' \in Boards
    BY <1>b, BoardView, Names DEF StartOta
  <2>4. app' \in Apps
    <3>1. app.sid + 1 \in 0..MaxSessions
      BY <1>c, OtaAssumption DEF StartOta
    <3> QED BY <1>b, <3>1, AppWith DEF StartOta
  <2> QED BY <1>a, <2>1, <2>2, <2>3, <2>4 DEF TypeOK, StartOta, Boards, Apps
<1>9. CASE StartOtaNoTask
  <2>1. board' \in Boards
    BY <1>9, <1>b, BoardView, Names DEF StartOtaNoTask
  <2>2. faults' \in Nat
    BY <1>9, <1>f DEF StartOtaNoTask
  <2> QED BY <1>9, <1>a, <2>1, <2>2, Initials DEF TypeOK, StartOtaNoTask, Boards
<1>i. AbortFromHost => host' \in Hosts
  BY <1>g, <1>h DEF AbortFromHost
<1>10. CASE AbortOta
  BY <1>10, <1>a, <1>f, <1>i DEF TypeOK, AbortOta
<1>j. ASSUME NEW d \in Slices, DataReceived(d) PROVE host' \in Hosts /\ l2c' \in Links
  <2>1. host' \in Hosts
    <3>1. (IF IsBusy THEN d ELSE <<>>) \in Slices
      BY EmptySlices
    <3> QED BY <1>j, <1>h, <3>1 DEF DataReceived
  <2>2. l2c.credit - 1 \in Nat
    BY <1>j, <1>c DEF DataReceived
  <2>3. l2c' \in Links
    BY <1>j, <1>k, <2>2 DEF DataReceived
  <2> QED BY <2>1, <2>3
<1>11. CASE \E n \in 1..MaxSdu : AppPush(n)
  <2> PICK n \in 1..MaxSdu : AppPush(n)
    BY <1>11
  <2> DEFINE d == [k \in 1..n |-> <<app.pushing, app.next + k - 1>>]
  <2>1. n \in Nat \ {0} /\ app.next + n <= FwSize + 1
    BY OtaAssumption DEF AppPush
  <2>2. \A k \in 1..n : <<app.pushing, app.next + k - 1>> \in Units
    BY <2>1, <1>c, OtaAssumption DEF Units
  <2>3. d \in Slices
    BY <2>1, <2>2 DEF Slices
  <2>4. DataReceived(d)
    BY DEF AppPush
  <2>5. app' \in Apps
    <3>1. app.next + n \in Nat \ {0}
      BY <1>c, <2>1
    <3> QED BY <1>b, <3>1, AppWith DEF AppPush
  <2> HIDE DEF d
  <2> QED BY <1>a, <1>j, <2>3, <2>4, <2>5 DEF TypeOK, AppPush, Links, Apps
<1>12. CASE AppAudio
  <2>1. << <<0, 1>> >> \in Slices
    <3>1. <<0, 1>> \in Units
      BY OtaAssumption DEF Units
    <3> QED BY <3>1 DEF Slices
  <2>2. faults' \in Nat
    BY <1>12, <1>f DEF AppAudio
  <2> QED BY <1>12, <1>a, <1>j, <2>1, <2>2 DEF TypeOK, AppAudio, Links
<1>13. CASE AppSwitch
  <2>1. app' \in Apps
    <3>1. [app EXCEPT !.pushing = app.sid] \in Apps
      BY <1>b, <1>c, AppWith
    <3>2. 1 \in Nat \ {0}
      OBVIOUS
    <3>3. [[app EXCEPT !.pushing = app.sid] EXCEPT !.next = 1] \in Apps
      BY <3>1, <3>2, AppWith
    <3> QED BY <1>13, <3>3 DEF AppSwitch
  <2> QED BY <1>13, <1>a, <2>1 DEF TypeOK, AppSwitch, Apps
<1>14. CASE LinkUp
  <2>1. l2c' \in Links
    BY <1>14, <1>b DEF LinkUp, Links
  <2>2. rom' \in Roms
    BY <1>14, <1>b, <1>c DEF LinkUp, Roms
  <2> QED BY <1>14, <1>a, <2>1, <2>2 DEF TypeOK, LinkUp, Links
<1>15. CASE ChannelUp
  <2>1. l2c' \in Links
    <3> DEFINE n == l2c.opened + 1
    <3>1. /\ n \in Nat
          /\ l2c' = [l2c EXCEPT !.chan = n, !.opened = n, !.credit = 1]
      BY <1>15, <1>c DEF ChannelUp
    <3> HIDE DEF n
    <3>2. [l2c EXCEPT !.chan = n] \in Links
      BY <1>b, <3>1, LinkWith
    <3>3. [[l2c EXCEPT !.chan = n] EXCEPT !.opened = n] \in Links
      BY <3>1, <3>2, LinkWith
    <3>4. [[[l2c EXCEPT !.chan = n] EXCEPT !.opened = n] EXCEPT !.credit = 1] \in Links
      BY <3>3, LinkWith
    <3> QED BY <3>1, <3>4
  <2> QED BY <1>15, <1>a, <2>1 DEF TypeOK, ChannelUp, Links
<1>l. ASSUME NEW b \in BOOLEAN, ChannelLost(b) PROVE l2c' \in Links
  BY <1>l, <1>b DEF ChannelLost, Links
<1>16. CASE ChannelDown
  <2>1. l2c.link \in BOOLEAN
    BY <1>b DEF Links
  <2> QED BY <1>16, <1>a, <1>f, <1>i, <1>l, <2>1 DEF TypeOK, ChannelDown, Links
<1>17. CASE LinkDown
  BY <1>17, <1>a, <1>f, <1>i, <1>l DEF TypeOK, LinkDown, Links
<1>18. CASE BoardAbort
  <2>1. board' \in Boards
    <3>1. [board EXCEPT !.pc = "store"] \in Boards
      BY <1>b, BoardWith
    <3> QED BY <1>18, <3>1 DEF BoardAbort
  <2>2. faults' \in Nat
    BY <1>18, <1>f DEF BoardAbort
  <2> QED BY <1>18, <1>a, <2>1, <2>2 DEF TypeOK, BoardAbort, Boards
<1>19. CASE PowerLoss
  BY <1>19, <1>a, <1>f, ResetType DEF PowerLoss
<1> QED BY <1>1, <1>2, <1>3, <1>4, <1>5, <1>6, <1>7, <1>8, <1>9, <1>10, <1>11, <1>12, <1>13,
           <1>14, <1>15, <1>16, <1>17, <1>18, <1>19 DEF HostStep, Environment

LEMMA InitInv == Init => IInv
<1> SUFFICES ASSUME Init PROVE IInv
  OBVIOUS
<1>a. \A w \in Workers : wk[w].pc = "free" /\ wk[w].ret = "free"
  BY DEF Init, Task0
<1>b. \A w \in Workers : ~Owns(w)
  BY <1>a DEF Owns, Working, Resuming
<1>c. 0 \in 0..MaxSessions /\ Image(0) \in Slices
  BY OtaAssumption, ImageType
<1>1. TypeOK
  <2>1. l2c \in Links
    BY DEF Init, Links
  <2>2. rom \in Roms
    BY <1>c, EmptySlices DEF Init, Roms, Parts
  <2>3. app \in Apps
    BY <1>c DEF Init, Apps
  <2>4. reports \in [Sessions -> Seq(Nat)]
    BY DEF Init
  <2> QED BY <2>1, <2>2, <2>3, <2>4, Initials, TypeParts DEF Init
<1>2. ControlInv
  BY <1>a, <1>b DEF ControlInv, Init, Host0, Resuming
<1>3. OneOwner
  BY <1>b DEF OneOwner, Init, Engine0
<1>4. ImageInv
  <2>1. ~Switched
    BY <1>a DEF Switched
  <2>2. \A w \in Workers : ~Digesting(w)
    BY <1>a DEF Digesting, Resuming
  <2>3. Whole(rom.flash["ota_0"])
    BY <1>c DEF Whole, Init, Parts
  <2>4. rom.running = "ota_0" /\ rom.boot = "ota_0" /\ ~l2c.link
        /\ \A p \in Parts : rom.img[p] = "valid"
    BY DEF Init
  <2>5. Other(rom.running) \in Parts /\ rom.running \in Parts
    BY <2>4, OtherPart DEF Parts
  <2> QED BY <1>a, <1>b, <2>1, <2>2, <2>3, <2>4, <2>5 DEF ImageInv
<1> QED BY <1>1, <1>2, <1>3, <1>4 DEF IInv

\* How a worker's record moves.
LEMMA GotoFacts ==
  ASSUME wk \in [Workers -> Tasks], NEW w \in Workers, NEW pc, Goto(w, pc)
  PROVE  /\ wk'[w].pc = pc /\ wk'[w].written = wk[w].written /\ wk'[w].ret = wk[w].ret
         /\ wk'[w].chunk = wk[w].chunk
         /\ \A v \in Workers \ {w} : wk'[v] = wk[v]
BY DEF Tasks, Goto

LEMMA CallFacts ==
  ASSUME wk \in [Workers -> Tasks], NEW w \in Workers, NEW pc, CallResume(w, pc)
  PROVE  /\ wk'[w].pc = "resume" /\ wk'[w].ret = pc /\ wk'[w].written = wk[w].written
         /\ wk'[w].chunk = wk[w].chunk
         /\ \A v \in Workers \ {w} : wk'[v] = wk[v]
BY DEF Tasks, CallResume

LEMMA ReturnFacts ==
  ASSUME wk \in [Workers -> Tasks], NEW w \in Workers, wk' = Returned(w)
  PROVE  /\ wk'[w].pc = wk[w].ret /\ wk'[w].written = wk[w].written
         /\ wk'[w].chunk = wk[w].chunk
         /\ \A v \in Workers \ {w} : wk'[v] = wk[v]
BY DEF Tasks, Returned

LEMMA FailFacts ==
  ASSUME wk \in [Workers -> Tasks], NEW w \in Workers, NEW o \in Engines, NEW code,
         FailWith(w, code, o)
  PROVE  /\ wk'[w].pc = "cleanup" /\ \A v \in Workers \ {w} : wk'[v] = wk[v]
         /\ ota'.state = "FAILED" /\ ota'.total = o.total /\ ota'.part = o.part /\ ota'.sha = o.sha
<1>1. wk'[w].pc = "cleanup" /\ \A v \in Workers \ {w} : wk'[v] = wk[v]
  BY GotoFacts DEF FailWith
<1>2. ota'.state = "FAILED" /\ ota'.total = o.total /\ ota'.part = o.part /\ ota'.sha = o.sha
  BY DEF FailWith, Engines
<1> QED BY <1>1, <1>2

\* A worker step other than the restart leaves the other tasks alone, ends the session only in
\* ToIdle, and keeps the control invariant of its own task.
LEMMA WorkerMoves ==
  ASSUME IInv, NEW w \in Workers, WorkerStep(w), ~Restart(w)
  PROVE  /\ \A v \in Workers \ {w} : wk'[v] = wk[v]
         /\ app' = app /\ host' = host
         /\ Owns(w)' <=> Owns(w) /\ wk[w].pc # "toidle"
         /\ ota'.state # "IDLE" <=> ota.state # "IDLE" /\ wk[w].pc # "toidle"
         /\ wk'[w].pc \in Resuming => wk'[w].ret # "free"
         /\ wk'[w].pc = "recv" => wk'[w].written < ota'.total
         /\ ~Owns(w) => ota' = ota
<1> DEFINE Others == /\ \A v \in Workers \ {w} : wk'[v] = wk[v]
                     /\ app' = app /\ host' = host
           Own == Owns(w)' <=> Owns(w) /\ wk[w].pc # "toidle"
           Open == ota'.state # "IDLE" <=> ota.state # "IDLE" /\ wk[w].pc # "toidle"
           Flow == /\ wk'[w].pc \in Resuming => wk'[w].ret # "free"
                   /\ wk'[w].pc = "recv" => wk'[w].written < ota'.total
                   /\ ~Owns(w) => ota' = ota
<1>a. ota \in Engines /\ wk \in [Workers -> Tasks]
  BY DEF IInv, TypeOK
<1>b. wk[w].ret \in Returns /\ (wk[w].pc \in Resuming => wk[w].ret # "free")
  BY <1>a DEF IInv, ControlInv, Tasks, Returns
<1>c. Owns(w) => ota.state # "IDLE"
  BY OwnerFacts
<1>1. CASE Begin(w)
  <2>1. Others
    BY <1>1, <1>a, GotoFacts DEF Begin
  <2>2. Own
    BY <1>1, <1>a, <1>b, GotoFacts DEF Begin, Owns, At, Working, Resuming, Returns
  <2>3. Open
    BY <1>1, <1>a, <1>c DEF Begin, Owns, At, Working, Engines
  <2>4. Flow
    BY <1>1, <1>a, <1>b, GotoFacts DEF Begin, Owns, At, Working, Resuming, Returns, Engines
  <2> QED BY <2>1, <2>2, <2>3, <2>4
<1>2. CASE BeginFails(w)
  <2>e. [ota EXCEPT !.handle = TRUE] \in Engines
    BY <1>a, EngineWith
  <2>1. Others
    BY <1>2, <2>e, <1>a, FailFacts DEF BeginFails
  <2>2. Own
    BY <1>2, <2>e, <1>a, <1>b, FailFacts DEF BeginFails, Owns, At, Working, Resuming, Returns
  <2>3. Open
    BY <1>2, <2>e, <1>a, <1>c, FailFacts DEF BeginFails, Owns, At, Working
  <2>4. Flow
    BY <1>2, <2>e, <1>a, <1>b, FailFacts DEF BeginFails, Owns, At, Working, Resuming, Returns
  <2> QED BY <2>1, <2>2, <2>3, <2>4
<1>3. CASE LoopDone(w)
  <2>1. Others
    BY <1>3, <1>a, GotoFacts DEF LoopDone
  <2>2. Own
    BY <1>3, <1>a, <1>b, GotoFacts DEF LoopDone, Owns, At, Working, Resuming, Returns
  <2>3. Open
    BY <1>3, <1>a, <1>c DEF LoopDone, Owns, At, Working, Engines
  <2>4. Flow
    BY <1>3, <1>a, <1>b, GotoFacts DEF LoopDone, Owns, At, Working, Resuming, Returns, Engines
  <2> QED BY <2>1, <2>2, <2>3, <2>4
<1>4. CASE LoopAborted(w)
  <2>1. Others
    BY <1>4, <1>a, FailFacts DEF LoopAborted
  <2>2. Own
    BY <1>4, <1>a, <1>b, FailFacts DEF LoopAborted, Owns, At, Working, Resuming, Returns
  <2>3. Open
    BY <1>4, <1>a, <1>c, FailFacts DEF LoopAborted, Owns, At, Working
  <2>4. Flow
    BY <1>4, <1>a, <1>b, FailFacts DEF LoopAborted, Owns, At, Working, Resuming, Returns
  <2> QED BY <2>1, <2>2, <2>3, <2>4
<1>5. CASE LoopReads(w)
  <2>1. Others
    BY <1>5, <1>a, GotoFacts DEF LoopReads
  <2>2. Own
    BY <1>5, <1>a, <1>b, GotoFacts DEF LoopReads, Owns, At, Working, Resuming, Returns
  <2>3. Open
    BY <1>5, <1>a, <1>c DEF LoopReads, Owns, At, Working
  <2>4. Flow
    BY <1>5, <1>a, <1>b, GotoFacts DEF LoopReads, Owns, At, Working, Resuming, Returns
  <2> QED BY <2>1, <2>2, <2>3, <2>4
<1>6. CASE Receive(w)
  <2>1. Others
    BY <1>6, <1>a DEF Receive, Tasks
  <2>2. Own
    BY <1>6, <1>a, <1>b DEF Receive, Owns, At, Working, Resuming, Returns, Tasks
  <2>3. Open
    BY <1>6, <1>a, <1>c DEF Receive, Owns, At, Working, Engines
  <2>4. Flow
    BY <1>6, <1>a, <1>b DEF Receive, Owns, At, Working, Resuming, Returns, Tasks, Engines
  <2> QED BY <2>1, <2>2, <2>3, <2>4
<1>7. CASE ReceiveEmpty(w)
  <2>1. Others
    BY <1>7, <1>a DEF ReceiveEmpty, Tasks
  <2>2. Own
    BY <1>7, <1>a, <1>b DEF ReceiveEmpty, Owns, At, Working, Resuming, Returns, Tasks
  <2>3. Open
    BY <1>7, <1>a, <1>c DEF ReceiveEmpty, Owns, At, Working, Engines
  <2>4. Flow
    BY <1>7, <1>a, <1>b DEF ReceiveEmpty, Owns, At, Working, Resuming, Returns, Tasks, Engines
  <2> QED BY <2>1, <2>2, <2>3, <2>4
<1>8. CASE PollGate(w)
  <2>1. Others
    BY <1>8, <1>a, GotoFacts, CallFacts DEF PollGate
  <2>2. Own
    BY <1>8, <1>a, <1>b, GotoFacts, CallFacts DEF PollGate, Owns, At, Working, Resuming, Returns
  <2>3. Open
    BY <1>8, <1>a, <1>c DEF PollGate, Owns, At, Working
  <2>4. Flow
    BY <1>8, <1>a, <1>b, GotoFacts, CallFacts DEF PollGate, Owns, At, Working, Resuming, Returns
  <2> QED BY <2>1, <2>2, <2>3, <2>4
<1>9. CASE PollAgain(w)
  <2>1. Others
    BY <1>9, <1>a, GotoFacts DEF PollAgain
  <2>2. Own
    BY <1>9, <1>a, <1>b, GotoFacts DEF PollAgain, Owns, At, Working, Resuming, Returns
  <2>3. Open
    BY <1>9, <1>a, <1>c DEF PollAgain, Owns, At, Working
  <2>4. Flow
    BY <1>9, <1>a, <1>b, GotoFacts DEF PollAgain, Owns, At, Working, Resuming, Returns
  <2> QED BY <2>1, <2>2, <2>3, <2>4
<1>10. CASE ReceiveTimeout(w)
  <2>1. Others
    BY <1>10, <1>a, FailFacts DEF ReceiveTimeout
  <2>2. Own
    BY <1>10, <1>a, <1>b, FailFacts DEF ReceiveTimeout, Owns, At, Working, Resuming, Returns
  <2>3. Open
    BY <1>10, <1>a, <1>c, FailFacts DEF ReceiveTimeout, Owns, At, Working
  <2>4. Flow
    BY <1>10, <1>a, <1>b, FailFacts DEF ReceiveTimeout, Owns, At, Working, Resuming, Returns
  <2> QED BY <2>1, <2>2, <2>3, <2>4
<1>11. CASE WriteChunk(w)
  <2>1. Others
    BY <1>11, <1>a DEF WriteChunk, Tasks
  <2>2. Own
    BY <1>11, <1>a, <1>b DEF WriteChunk, Owns, At, Working, Resuming, Returns, Tasks
  <2>3. Open
    BY <1>11, <1>a, <1>c DEF WriteChunk, Owns, At, Working, Engines
  <2>4. Flow
    BY <1>11, <1>a, <1>b DEF WriteChunk, Owns, At, Working, Resuming, Returns, Tasks, Engines
  <2> QED BY <2>1, <2>2, <2>3, <2>4
<1>12. CASE WriteFails(w)
  <2>e. [ota EXCEPT !.sha = ota.sha \o wk[w].chunk] \in Engines
    <3>1. ota.sha \in Slices /\ wk[w].chunk \in Slices
      BY <1>a DEF Engines, Tasks
    <3> QED BY <1>a, <3>1, EngineWith, SlicesClosed
  <2>1. Others
    BY <1>12, <2>e, <1>a, FailFacts DEF WriteFails
  <2>2. Own
    BY <1>12, <2>e, <1>a, <1>b, FailFacts DEF WriteFails, Owns, At, Working, Resuming, Returns
  <2>3. Open
    BY <1>12, <2>e, <1>a, <1>c, FailFacts DEF WriteFails, Owns, At, Working
  <2>4. Flow
    BY <1>12, <2>e, <1>a, <1>b, FailFacts DEF WriteFails, Owns, At, Working, Resuming, Returns
  <2> QED BY <2>1, <2>2, <2>3, <2>4
<1>13. CASE LiftGate(w)
  <2>1. Others
    BY <1>13, <1>a, GotoFacts, CallFacts DEF LiftGate
  <2>2. Own
    BY <1>13, <1>a, <1>b, GotoFacts, CallFacts DEF LiftGate, Owns, At, Working, Resuming, Returns
  <2>3. Open
    BY <1>13, <1>a, <1>c DEF LiftGate, Owns, At, Working
  <2>4. Flow
    BY <1>13, <1>a, <1>b, GotoFacts, CallFacts DEF LiftGate, Owns, At, Working, Resuming, Returns
  <2> QED BY <2>1, <2>2, <2>3, <2>4
<1>14. CASE Verify(w)
  <2>1. Others
    BY <1>14, <1>a, GotoFacts, FailFacts DEF Verify
  <2>2. Own
    BY <1>14, <1>a, <1>b, GotoFacts, FailFacts DEF Verify, Owns, At, Working, Resuming, Returns
  <2>3. Open
    BY <1>14, <1>a, <1>c, FailFacts DEF Verify, Owns, At, Working
  <2>4. Flow
    BY <1>14, <1>a, <1>b, GotoFacts, FailFacts DEF Verify, Owns, At, Working, Resuming, Returns
  <2> QED BY <2>1, <2>2, <2>3, <2>4
<1>15. CASE EndImage(w)
  <2>e. [ota EXCEPT !.handle = FALSE] \in Engines
    BY <1>a, EngineWith
  <2>1. Others
    BY <1>15, <2>e, <1>a, GotoFacts, FailFacts DEF EndImage
  <2>2. Own
    BY <1>15, <2>e, <1>a, <1>b, GotoFacts, FailFacts DEF EndImage, Owns, At, Working, Resuming, Returns
  <2>3. Open
    BY <1>15, <2>e, <1>a, <1>c, FailFacts DEF EndImage, Owns, At, Working, Engines
  <2>4. Flow
    BY <1>15, <2>e, <1>a, <1>b, GotoFacts, FailFacts DEF EndImage, Owns, At, Working, Resuming, Returns, Engines
  <2> QED BY <2>1, <2>2, <2>3, <2>4
<1>16. CASE SelectBoot(w)
  <2>1. Others
    BY <1>16, <1>a, GotoFacts, FailFacts DEF SelectBoot
  <2>2. Own
    BY <1>16, <1>a, <1>b, GotoFacts, FailFacts DEF SelectBoot, Owns, At, Working, Resuming, Returns
  <2>3. Open
    BY <1>16, <1>a, <1>c, FailFacts DEF SelectBoot, Owns, At, Working
  <2>4. Flow
    BY <1>16, <1>a, <1>b, GotoFacts, FailFacts DEF SelectBoot, Owns, At, Working, Resuming, Returns
  <2> QED BY <2>1, <2>2, <2>3, <2>4
<1>17. CASE Succeed(w)
  <2>1. Others
    BY <1>17, <1>a, GotoFacts DEF Succeed
  <2>2. Own
    BY <1>17, <1>a, <1>b, GotoFacts DEF Succeed, Owns, At, Working, Resuming, Returns
  <2>3. Open
    BY <1>17, <1>a, <1>c DEF Succeed, Owns, At, Working, Engines
  <2>4. Flow
    BY <1>17, <1>a, <1>b, GotoFacts DEF Succeed, Owns, At, Working, Resuming, Returns, Engines
  <2> QED BY <2>1, <2>2, <2>3, <2>4
<1>18. CASE Cleanup(w)
  <2>1. Others
    BY <1>18, <1>a, GotoFacts DEF Cleanup
  <2>2. Own
    BY <1>18, <1>a, <1>b, GotoFacts DEF Cleanup, Owns, At, Working, Resuming, Returns
  <2>3. Open
    BY <1>18, <1>a, <1>c DEF Cleanup, Owns, At, Working, Engines, CleanedUp, Engine0
  <2>4. Flow
    BY <1>18, <1>a, <1>b, GotoFacts DEF Cleanup, Owns, At, Working, Resuming, Returns, Engines, CleanedUp, Engine0
  <2> QED BY <2>1, <2>2, <2>3, <2>4
<1>19. CASE ToIdle(w)
  <2>1. Others
    BY <1>19, <1>a, CallFacts DEF ToIdle
  <2>2. Own
    BY <1>19, <1>a, <1>b, CallFacts DEF ToIdle, Owns, At, Working, Resuming, Returns
  <2>3. Open
    BY <1>19, <1>a, <1>c DEF ToIdle, Owns, At, Working, Engines
  <2>4. Flow
    BY <1>19, <1>a, <1>b, CallFacts DEF ToIdle, Owns, At, Working, Resuming, Returns, Engines
  <2> QED BY <2>1, <2>2, <2>3, <2>4
<1>20. CASE NotifySnapshot(w)
  <2>1. Others
    BY <1>20, <1>a DEF NotifySnapshot, Tasks
  <2>2. Own
    BY <1>20, <1>a, <1>b DEF NotifySnapshot, Owns, At, Working, Resuming, Returns, Tasks
  <2>3. Open
    BY <1>20, <1>a, <1>c DEF NotifySnapshot, Owns, At, Working, Engines
  <2>4. Flow
    BY <1>20, <1>a, <1>b DEF NotifySnapshot, Owns, At, Working, Resuming, Returns, Tasks, Engines
  <2> QED BY <2>1, <2>2, <2>3, <2>4
<1>21. CASE NotifyTell(w)
  <2>1. Others
    BY <1>21, <1>a DEF NotifyTell, Tasks, Task0
  <2>2. Own
    BY <1>21, <1>a, <1>b DEF NotifyTell, Owns, At, Working, Resuming, Returns, Tasks, Task0
  <2>3. Open
    BY <1>21, <1>a, <1>c DEF NotifyTell, Owns, At, Working, Engines
  <2>4. Flow
    BY <1>21, <1>a, <1>b DEF NotifyTell, Owns, At, Working, Resuming, Returns, Tasks, Engines, Task0
  <2> QED BY <2>1, <2>2, <2>3, <2>4
<1>22. CASE ResumeCheck(w)
  <2>1. Others
    BY <1>22, <1>a, ReturnFacts DEF ResumeCheck, Tasks
  <2>2. Own
    BY <1>22, <1>a, <1>b, ReturnFacts DEF ResumeCheck, Owns, At, Working, Resuming, Returns, Tasks
  <2>3. Open
    BY <1>22, <1>a, <1>c DEF ResumeCheck, Owns, At, Working, Engines
  <2>4. Flow
    BY <1>22, <1>a, <1>b, ReturnFacts DEF ResumeCheck, Owns, At, Working, Resuming, Returns, Tasks, Engines
  <2> QED BY <2>1, <2>2, <2>3, <2>4
<1>23. CASE ResumeClaim(w)
  <2>1. Others
    BY <1>23, <1>a, GotoFacts, ReturnFacts DEF ResumeClaim
  <2>2. Own
    BY <1>23, <1>a, <1>b, GotoFacts, ReturnFacts DEF ResumeClaim, Owns, At, Working, Resuming, Returns
  <2>3. Open
    BY <1>23, <1>a, <1>c DEF ResumeClaim, Owns, At, Working
  <2>4. Flow
    BY <1>23, <1>a, <1>b, GotoFacts, ReturnFacts DEF ResumeClaim, Owns, At, Working, Resuming, Returns
  <2> QED BY <2>1, <2>2, <2>3, <2>4
<1>24. CASE ResumeRearm(w)
  <2>1. Others
    BY <1>24, <1>a, GotoFacts, ReturnFacts DEF ResumeRearm
  <2>2. Own
    BY <1>24, <1>a, <1>b, GotoFacts, ReturnFacts DEF ResumeRearm, Owns, At, Working, Resuming, Returns
  <2>3. Open
    BY <1>24, <1>a, <1>c DEF ResumeRearm, Owns, At, Working
  <2>4. Flow
    BY <1>24, <1>a, <1>b, GotoFacts, ReturnFacts DEF ResumeRearm, Owns, At, Working, Resuming, Returns
  <2> QED BY <2>1, <2>2, <2>3, <2>4
<1>25. CASE ResumePutBack(w)
  <2>1. Others
    BY <1>25, <1>a, ReturnFacts DEF ResumePutBack
  <2>2. Own
    BY <1>25, <1>a, <1>b, ReturnFacts DEF ResumePutBack, Owns, At, Working, Resuming, Returns
  <2>3. Open
    BY <1>25, <1>a, <1>c DEF ResumePutBack, Owns, At, Working
  <2>4. Flow
    BY <1>25, <1>a, <1>b, ReturnFacts DEF ResumePutBack, Owns, At, Working, Resuming, Returns
  <2> QED BY <2>1, <2>2, <2>3, <2>4
<1> QED BY <1>1, <1>2, <1>3, <1>4, <1>5, <1>6, <1>7, <1>8, <1>9, <1>10, <1>11, <1>12, <1>13, <1>14, <1>15, <1>16, <1>17, <1>18, <1>19, <1>20, <1>21, <1>22, <1>23, <1>24, <1>25 DEF WorkerStep

\* After a reset nothing is under way.
LEMMA ResetControl ==
  ASSUME Reset
  PROVE  /\ ControlInv' /\ OneOwner'
         /\ \A w \in Workers : wk'[w].pc = "free" /\ ~Owns(w)'
<1>1. \A w \in Workers : wk'[w].pc = "free" /\ wk'[w].ret = "free"
  BY DEF Reset, Task0
<1>2. \A w \in Workers : ~Owns(w)'
  BY <1>1 DEF Owns, Working, Resuming
<1>3. host'.pc = "idle" /\ ota'.state = "IDLE"
  BY DEF Reset, Host0, Engine0
<1> QED BY <1>1, <1>2, <1>3 DEF ControlInv, OneOwner, Resuming

LEMMA WorkerControl ==
  ASSUME IInv, NEW w \in Workers, WorkerStep(w)
  PROVE  ControlInv' /\ OneOwner'
<1>1. CASE Restart(w)
  BY <1>1, ResetControl DEF Restart
<1>2. CASE ~Restart(w)
  <2>m. /\ \A v \in Workers \ {w} : wk'[v] = wk[v]
        /\ app' = app /\ host' = host
        /\ Owns(w)' <=> Owns(w) /\ wk[w].pc # "toidle"
        /\ ota'.state # "IDLE" <=> ota.state # "IDLE" /\ wk[w].pc # "toidle"
        /\ wk'[w].pc \in Resuming => wk'[w].ret # "free"
        /\ wk'[w].pc = "recv" => wk'[w].written < ota'.total
        /\ ~Owns(w) => ota' = ota
    BY <1>2, WorkerMoves
  <2>o. \A v \in Workers \ {w} : Owns(v)' <=> Owns(v)
    BY <2>m DEF Owns
  <2>u. \A u, v \in Workers : Owns(u) /\ Owns(v) => u = v
    BY DEF IInv, OneOwner
  <2>i. ota.state # "IDLE" <=> \E v \in Workers : Owns(v)
    BY DEF IInv, OneOwner
  <2>t. wk[w].pc = "toidle" => Owns(w)
    BY DEF Owns, Working
  <2>1. ControlInv'
    <3>1. host'.pc = "send" => host'.sdu # <<>>
      BY <2>m DEF IInv, ControlInv
    <3>2. ASSUME NEW v \in Workers
          PROVE  /\ wk'[v].pc \in Resuming => wk'[v].ret # "free"
                 /\ wk'[v].pc = "recv" => wk'[v].written < ota'.total
                 /\ Owns(v)' => app'.sid \in Sessions
      <4>1. CASE v = w
        <5>1. Owns(w)' => app.sid \in Sessions
          BY <2>m DEF IInv, ControlInv
        <5> QED BY <4>1, <2>m, <5>1
      <4>2. CASE v # w
        <5>1. /\ wk[v].pc \in Resuming => wk[v].ret # "free"
              /\ wk[v].pc = "recv" => wk[v].written < ota.total
              /\ Owns(v) => app.sid \in Sessions
          BY DEF IInv, ControlInv
        <5>2. wk[v].pc = "recv" => Owns(v)
          BY DEF Owns, Working
        <5>3. wk[v].pc = "recv" => ota' = ota
          BY <4>2, <5>2, <2>m, <2>u
        <5> QED BY <4>2, <5>1, <5>3, <2>m, <2>o
      <4> QED BY <4>1, <4>2
    <3> QED BY <3>1, <3>2 DEF ControlInv
  <2>2. OneOwner'
    <3>1. \A u, v \in Workers : Owns(u)' /\ Owns(v)' => u = v
      BY <2>m, <2>o, <2>u
    <3>2. ota'.state # "IDLE" <=> \E v \in Workers : Owns(v)'
      BY <2>m, <2>o, <2>u, <2>i, <2>t
    <3> QED BY <3>1, <3>2 DEF OneOwner
  <2> QED BY <2>1, <2>2
<1> QED BY <1>1, <1>2

\* The other threads leave the tasks alone, but for a fresh one, a reset, and the reset of the
\* engine by a session that gets no task.
LEMMA OthersControl ==
  ASSUME IInv, HostStep \/ BoardAbortStore \/ Environment
  PROVE  ControlInv' /\ OneOwner'
<1>a. ota \in Engines /\ wk \in [Workers -> Tasks] /\ app.sid \in 0..MaxSessions
      /\ (host.pc = "send" => host.sdu # <<>>)
  BY DEF IInv, TypeOK, ControlInv
<1>s. ASSUME wk' = wk, ota'.state = ota.state, ota'.total = ota.total, app'.sid = app.sid,
             host'.pc = "send" => host'.sdu # <<>>
      PROVE  ControlInv' /\ OneOwner'
  <2>1. \A w \in Workers : Owns(w)' <=> Owns(w)
    BY <1>s DEF Owns
  <2> QED BY <1>s, <2>1 DEF IInv, ControlInv, OneOwner
<1>1. CASE AbortStore \/ BoardAbortStore \/ DataHold
  BY <1>1, <1>a, <1>s DEF AbortStore, BoardAbortStore, DataHold, HostGoto, Engines, IInv, TypeOK
<1>2. CASE SliceCheck
  BY <1>2, <1>a, <1>s DEF SliceCheck, HostGoto, IInv, TypeOK
<1>3. CASE SliceSend \/ SliceCount
  BY <1>3, <1>a, <1>s DEF SliceSend, SliceCount, HostGoto, Engines, IInv, TypeOK
<1>4. CASE DataRearm
  BY <1>4, <1>a, <1>s DEF DataRearm, HostGoto, IInv, TypeOK
<1>5. CASE \E w \in Workers : StartOta(w)
  <2> PICK w \in Workers : StartOta(w)
    BY <1>5
  <2>1. /\ wk'[w].pc = "begin" /\ \A v \in Workers \ {w} : wk'[v] = wk[v]
    BY <1>a, GotoFacts DEF StartOta
  <2>2. app'.sid \in Sessions
    <3>1. app'.sid = app.sid + 1
      BY DEF StartOta, IInv, TypeOK
    <3> QED BY <1>a, <3>1, OtaAssumption DEF StartOta, Sessions
  <2>3. \A v \in Workers : ~Owns(v)
    BY DEF StartOta, CanStart, IInv, OneOwner
  <2>4. \A v \in Workers : Owns(v)' <=> v = w
    BY <2>1, <2>3 DEF Owns, Working
  <2>5. \A v \in Workers : wk[v].pc # "recv"
    BY <2>3 DEF Owns, Working
  <2>6. ota'.state = "RECEIVING" /\ host' = host
    BY DEF StartOta, NewSession, Engine0
  <2>7. ControlInv'
    <3>1. \A v \in Workers : /\ wk'[v].pc \in Resuming => wk'[v].ret # "free"
                             /\ wk'[v].pc # "recv"
      BY <2>1, <2>5 DEF IInv, ControlInv, Resuming
    <3> QED BY <3>1, <2>2, <2>6, <1>a DEF ControlInv
  <2>8. OneOwner'
    BY <2>4, <2>6 DEF OneOwner
  <2> QED BY <2>7, <2>8
<1>6. CASE StartOtaNoTask
  <2>1. \A v \in Workers : ~Owns(v)
    BY <1>6 DEF StartOtaNoTask, CanStart, IInv, OneOwner
  <2>2. wk' = wk /\ host' = host /\ ota'.state = "IDLE"
    BY <1>6 DEF StartOtaNoTask, Engine0
  <2>3. \A v \in Workers : ~Owns(v)'
    BY <2>1, <2>2 DEF Owns
  <2>4. \A v \in Workers : wk[v].pc # "recv"
    BY <2>1 DEF Owns, Working
  <2> QED BY <1>a, <2>2, <2>3, <2>4 DEF IInv, ControlInv, OneOwner
<1>7. CASE AbortOta \/ ChannelDown \/ LinkDown
  <2>1. host'.pc # "send"
    BY <1>7 DEF AbortOta, ChannelDown, LinkDown, AbortFromHost, HostGoto, IInv, TypeOK
  <2> QED BY <1>7, <1>s, <2>1 DEF AbortOta, ChannelDown, LinkDown
<1>8. CASE (\E n \in 1..MaxSdu : AppPush(n)) \/ AppAudio
  <2>1. host'.pc = "slice" /\ wk' = wk /\ ota' = ota /\ app'.sid = app.sid
    BY <1>8 DEF AppPush, AppAudio, DataReceived, IInv, TypeOK
  <2> QED BY <1>s, <2>1
<1>9. CASE AppSwitch \/ LinkUp \/ ChannelUp \/ BoardAbort
  <2>1. wk' = wk /\ ota' = ota /\ app'.sid = app.sid /\ host' = host
    BY <1>9 DEF AppSwitch, LinkUp, ChannelUp, BoardAbort, IInv, TypeOK
  <2> QED BY <1>a, <1>s, <2>1
<1>10. CASE PowerLoss
  BY <1>10, ResetControl DEF PowerLoss
<1> QED BY <1>1, <1>2, <1>3, <1>4, <1>5, <1>6, <1>7, <1>8, <1>9, <1>10 DEF HostStep, Environment

Rebooting == {"success", "restart"}
Accepted == {"end", "bootsel"}

LEMMA DigestingOwns ==
  ASSUME NEW w \in Workers
  PROVE  /\ Digesting(w) => Owns(w)
         /\ wk[w].pc \in Rebooting \cup Accepted => Owns(w)
BY DEF Digesting, Owns, Working, Rebooting, Accepted

\* A step that touches neither flash, boot choice nor digest keeps the image invariant when it
\* lets no task enter a stage it depends on.
LEMMA ImageSame ==
  ASSUME IInv, rom' = rom, l2c'.link => l2c.link, ota'.part = ota.part, ota'.sha = ota.sha,
         app'.sid = app.sid, Switched' <=> Switched,
         \A v \in Workers : /\ Owns(v)' => Owns(v)
                            /\ Owns(v)' /\ wk'[v].pc # "toidle" => wk[v].pc # "toidle"
                            /\ Digesting(v)' => Digesting(v)
                            /\ wk'[v].pc \in Accepted => wk[v].pc \in Accepted
  PROVE  ImageInv'
<1>1. /\ Whole(rom'.flash[rom'.running])
      /\ rom'.img[rom'.running] # "new"
      /\ l2c'.link => rom'.img[rom'.running] # "pending"
  BY DEF IInv, ImageInv
<1>2. ~Switched' => /\ rom'.boot = rom'.running
                    /\ rom'.img[Other(rom'.running)] # "new"
                    /\ rom'.img[rom'.running] = "pending" => Whole(rom'.flash[Other(rom'.running)])
  BY DEF IInv, ImageInv
<1>3. Switched' => /\ rom'.boot = Other(rom'.running)
                   /\ rom'.img[rom'.boot] = "new"
                   /\ rom'.flash[rom'.boot] = Image(app'.sid)
  BY DEF IInv, ImageInv
<1>4. ASSUME NEW v \in Workers
      PROVE  /\ Owns(v)' => rom'.img[rom'.running] # "pending"
             /\ Owns(v)' /\ wk'[v].pc # "toidle" => ota'.part = Other(rom'.running)
             /\ Digesting(v)' => rom'.flash[ota'.part] = ota'.sha
             /\ wk'[v].pc \in Accepted => ota'.sha = Image(app'.sid)
  BY DEF IInv, ImageInv, Accepted
<1> QED BY <1>1, <1>2, <1>3, <1>4 DEF ImageInv, Accepted

\* A step of the session's worker before the switch, that at most rewrites the other partition.
LEMMA ImageStep ==
  ASSUME IInv, NEW w \in Workers, Owns(w), wk[w].pc \notin Rebooting, wk'[w].pc \notin Rebooting,
         rom'.boot = rom.boot, rom'.running = rom.running, rom'.img = rom.img,
         rom'.flash[rom.running] = rom.flash[rom.running],
         l2c'.link = l2c.link, app'.sid = app.sid,
         \A v \in Workers \ {w} : wk'[v] = wk[v],
         Owns(w)' /\ wk'[w].pc # "toidle" => ota'.part = Other(rom.running),
         Digesting(w)' => rom'.flash[ota'.part] = ota'.sha,
         wk'[w].pc \in Accepted => ota'.sha = Image(app.sid)
  PROVE  ImageInv'
<1>1. \A v \in Workers \ {w} : ~Owns(v)
  BY OwnerFacts
<1>2. \A v \in Workers \ {w} : /\ ~Owns(v)' /\ ~Digesting(v)'
                               /\ wk'[v].pc \notin Rebooting \cup Accepted
  <2>1. \A v \in Workers \ {w} : ~Digesting(v) /\ wk[v].pc \notin Rebooting \cup Accepted
    BY <1>1, DigestingOwns
  <2> QED BY <1>1, <2>1 DEF Owns, Digesting
<1>3. ~Switched /\ ~Switched'
  BY <1>1, <1>2, DigestingOwns DEF Switched, Rebooting
<1>4. rom.img[rom.running] # "pending"
  BY DEF IInv, ImageInv
<1>5. /\ Whole(rom'.flash[rom'.running])
      /\ rom'.img[rom'.running] # "new"
      /\ rom'.img[rom'.running] # "pending"
      /\ rom'.boot = rom'.running
      /\ rom'.img[Other(rom'.running)] # "new"
  BY <1>3, <1>4 DEF IInv, ImageInv, Whole
<1>6. ASSUME NEW v \in Workers
      PROVE  /\ Owns(v)' => rom'.img[rom'.running] # "pending"
             /\ Owns(v)' /\ wk'[v].pc # "toidle" => ota'.part = Other(rom'.running)
             /\ Digesting(v)' => rom'.flash[ota'.part] = ota'.sha
             /\ wk'[v].pc \in Accepted => ota'.sha = Image(app'.sid)
  <2>1. CASE v = w
    BY <2>1, <1>5
  <2>2. CASE v # w
    BY <2>2, <1>2
  <2> QED BY <2>1, <2>2
<1> QED BY <1>3, <1>5, <1>6 DEF ImageInv, Accepted

\* What the boot choices do to the flash record.
LEMMA RomSelected ==
  ASSUME NEW r \in Roms, NEW p \in Parts, NEW q \in Parts, p # q
  PROVE  LET n == [r EXCEPT !.boot = p, !.img[p] = "new"] IN
           /\ n.boot = p /\ n.running = r.running /\ n.flash = r.flash
           /\ n.img[p] = "new" /\ n.img[q] = r.img[q]
BY DEF Roms

LEMMA RomTried ==
  ASSUME NEW r \in Roms, NEW p \in Parts, NEW q \in Parts, p # q
  PROVE  LET n == [r EXCEPT !.img[p] = "pending", !.running = p] IN
           /\ n.flash = r.flash /\ n.boot = r.boot /\ n.running = p
           /\ n.img[p] = "pending" /\ n.img[q] = r.img[q]
BY DEF Roms

LEMMA RomRolledBack ==
  ASSUME NEW r \in Roms, NEW p \in Parts, NEW q \in Parts, p # q
  PROVE  LET n == [r EXCEPT !.img[p] = "aborted", !.boot = q, !.running = q] IN
           /\ n.flash = r.flash /\ n.boot = q /\ n.running = q
           /\ n.img[p] = "aborted" /\ n.img[q] = r.img[q]
BY DEF Roms

\* The worker steps that leave flash, boot choice and digest alone.
LEMMA WorkerImageSame ==
  ASSUME IInv, NEW w \in Workers, WorkerStep(w), ~Restart(w), rom' = rom, l2c'.link = l2c.link,
         ota'.part = ota.part, ota'.sha = ota.sha,
         Digesting(w)' => Digesting(w),
         wk'[w].pc \in Accepted => wk[w].pc \in Accepted,
         wk'[w].pc \in Rebooting <=> wk[w].pc \in Rebooting
  PROVE  ImageInv'
<1>1. /\ \A v \in Workers \ {w} : wk'[v] = wk[v]
      /\ app' = app
      /\ Owns(w)' <=> Owns(w) /\ wk[w].pc # "toidle"
  BY WorkerMoves
<1>2. Switched' <=> Switched
  BY <1>1 DEF Switched, Rebooting
<1>3. \A v \in Workers : /\ Owns(v)' => Owns(v)
                         /\ Owns(v)' /\ wk'[v].pc # "toidle" => wk[v].pc # "toidle"
                         /\ Digesting(v)' => Digesting(v)
                         /\ wk'[v].pc \in Accepted => wk[v].pc \in Accepted
  <2>1. ASSUME NEW v \in Workers \ {w}
        PROVE  /\ Owns(v)' <=> Owns(v)
               /\ Digesting(v)' <=> Digesting(v)
               /\ wk'[v].pc = wk[v].pc
    BY <1>1 DEF Owns, Digesting
  <2> QED BY <1>1, <2>1
<1> QED BY <1>1, <1>2, <1>3, ImageSame

LEMMA WorkerImage ==
  ASSUME IInv, NEW w \in Workers, WorkerStep(w), ~Restart(w)
  PROVE  ImageInv'
<1>a. /\ ota \in Engines /\ wk \in [Workers -> Tasks] /\ rom \in Roms /\ l2c \in Links
      /\ wk[w].ret \in Returns /\ rom.running \in Parts
  BY DEF IInv, TypeOK, Links, Roms, Tasks, Returns
<1>m. /\ \A v \in Workers \ {w} : wk'[v] = wk[v]
      /\ app' = app
  BY WorkerMoves
<1>o. Owns(w) => /\ app.sid \in Sessions
                 /\ wk[w].pc # "toidle" => /\ ota.part = Other(rom.running) /\ ota.part \in Parts
                                           /\ ota.part # rom.running
  BY <1>a, OwnerFacts, OtherPart
<1>d. Digesting(w) => rom.flash[ota.part] = ota.sha
  BY DEF IInv, ImageInv
<1>e. \A s \in Slices : [rom EXCEPT !.flash[ota.part] = s].img = rom.img
  BY <1>a DEF Roms
<1>f. ASSUME Owns(w), wk[w].pc # "toidle", NEW s \in Slices,
             rom' = [rom EXCEPT !.flash[ota.part] = s]
      PROVE  /\ rom'.boot = rom.boot /\ rom'.running = rom.running /\ rom'.img = rom.img
             /\ rom'.flash[ota.part] = s /\ rom'.flash[rom.running] = rom.flash[rom.running]
  BY <1>a, <1>f, <1>o DEF Roms
<1>1. CASE Begin(w)
  <2>1. Owns(w) /\ wk[w].pc = "begin" /\ wk'[w].pc = "loop"
    BY <1>1, <1>a, GotoFacts DEF Begin, At, Owns, Working
  <2>2. rom' = [rom EXCEPT !.flash[ota.part] = <<>>] /\ ota'.part = ota.part /\ ota'.sha = <<>>
        /\ l2c' = l2c
    BY <1>1, <1>a DEF Begin, Erased, Engines
  <2>3. /\ rom'.boot = rom.boot /\ rom'.running = rom.running /\ rom'.img = rom.img
        /\ rom'.flash[ota.part] = <<>> /\ rom'.flash[rom.running] = rom.flash[rom.running]
    BY <1>f, <2>1, <2>2, EmptySlices
  <2>4. /\ ota'.part = Other(rom.running)
        /\ wk[w].pc \notin Rebooting /\ wk'[w].pc \notin Rebooting /\ wk'[w].pc \notin Accepted
    BY <1>o, <2>1, <2>2 DEF Rebooting, Accepted
  <2> QED BY <1>m, <2>1, <2>2, <2>3, <2>4, ImageStep
<1>2. CASE BeginFails(w)
  <2>0. [ota EXCEPT !.handle = TRUE] \in Engines
    BY <1>a, EngineWith
  <2>1. Owns(w) /\ wk[w].pc = "begin" /\ wk'[w].pc = "cleanup"
    BY <1>2, <1>a, <2>0, FailFacts DEF BeginFails, At, Owns, Working
  <2>2. ota'.part = ota.part /\ l2c' = l2c
    BY <1>2, <1>a, <2>0, FailFacts DEF BeginFails, Engines
  <2>3. rom' = rom \/ rom' = [rom EXCEPT !.flash[ota.part] = <<>>]
    BY <1>2 DEF BeginFails, Erased
  <2>4. /\ rom'.boot = rom.boot /\ rom'.running = rom.running /\ rom'.img = rom.img
        /\ rom'.flash[rom.running] = rom.flash[rom.running]
    BY <1>f, <2>1, <2>3, EmptySlices
  <2>5. /\ ota'.part = Other(rom.running) /\ ~Digesting(w)'
        /\ wk[w].pc \notin Rebooting /\ wk'[w].pc \notin Rebooting /\ wk'[w].pc \notin Accepted
    BY <1>o, <2>1, <2>2 DEF Rebooting, Accepted, Digesting, Resuming
  <2> QED BY <1>m, <2>1, <2>2, <2>4, <2>5, ImageStep
<1>3. CASE LoopDone(w)
  <2>1. wk[w].pc = "loop" /\ wk'[w].pc = "verify" /\ rom' = rom /\ l2c' = l2c
    BY <1>3, <1>a, GotoFacts DEF LoopDone, At
  <2>2. ota'.part = ota.part /\ ota'.sha = ota.sha
    BY <1>3, <1>a DEF LoopDone, Engines
  <2> QED BY <2>1, <2>2, WorkerImageSame DEF Digesting, Accepted, Rebooting
<1>4. CASE LoopAborted(w)
  <2>1. /\ wk[w].pc = "loop" /\ wk'[w].pc = "cleanup" /\ rom' = rom /\ l2c' = l2c
        /\ ota'.part = ota.part /\ ota'.sha = ota.sha
    BY <1>4, <1>a, FailFacts DEF LoopAborted, At
  <2> QED BY <2>1, WorkerImageSame DEF Digesting, Accepted, Rebooting, Resuming
<1>5. CASE LoopReads(w)
  <2>1. wk[w].pc = "loop" /\ wk'[w].pc = "recv" /\ rom' = rom /\ l2c' = l2c /\ ota' = ota
    BY <1>5, <1>a, GotoFacts DEF LoopReads, At
  <2> QED BY <2>1, WorkerImageSame DEF Digesting, Accepted, Rebooting
<1>6. CASE Receive(w)
  <2>1. wk[w].pc = "recv" /\ wk'[w].pc = "write" /\ rom' = rom /\ l2c' = l2c
    BY <1>6, <1>a DEF Receive, At, Tasks
  <2>2. ota'.part = ota.part /\ ota'.sha = ota.sha
    BY <1>6, <1>a DEF Receive, Engines
  <2> QED BY <2>1, <2>2, WorkerImageSame DEF Digesting, Accepted, Rebooting
<1>7. CASE ReceiveEmpty(w)
  <2>1. wk[w].pc = "recv" /\ wk'[w].pc = "poll" /\ rom' = rom /\ l2c' = l2c /\ ota' = ota
    BY <1>7, <1>a DEF ReceiveEmpty, At, Tasks
  <2> QED BY <2>1, WorkerImageSame DEF Digesting, Accepted, Rebooting
<1>8. CASE PollGate(w)
  <2>1. /\ wk[w].pc = "poll" /\ wk'[w].pc \in {"expire", "resume"}
        /\ rom' = rom /\ l2c' = l2c /\ ota' = ota
    BY <1>8, <1>a, GotoFacts, CallFacts DEF PollGate, At
  <2> QED BY <2>1, WorkerImageSame DEF Digesting, Accepted, Rebooting
<1>9. CASE PollAgain(w)
  <2>1. wk[w].pc = "expire" /\ wk'[w].pc = "loop" /\ rom' = rom /\ l2c' = l2c /\ ota' = ota
    BY <1>9, <1>a, GotoFacts DEF PollAgain, At
  <2> QED BY <2>1, WorkerImageSame DEF Digesting, Accepted, Rebooting
<1>10. CASE ReceiveTimeout(w)
  <2>1. /\ wk[w].pc = "expire" /\ wk'[w].pc = "cleanup" /\ rom' = rom /\ l2c' = l2c
        /\ ota'.part = ota.part /\ ota'.sha = ota.sha
    BY <1>10, <1>a, FailFacts DEF ReceiveTimeout, At
  <2> QED BY <2>1, WorkerImageSame DEF Digesting, Accepted, Rebooting, Resuming
<1>11. CASE WriteChunk(w)
  <2>1. Owns(w) /\ wk[w].pc = "write" /\ wk'[w].pc = "gate" /\ Digesting(w)
    BY <1>11, <1>a DEF WriteChunk, At, Tasks, Owns, Working, Digesting
  <2>2. /\ rom' = [rom EXCEPT !.flash[ota.part] = rom.flash[ota.part] \o wk[w].chunk]
        /\ l2c' = l2c /\ ota' = [ota EXCEPT !.sha = ota.sha \o wk[w].chunk]
    BY <1>11 DEF WriteChunk
  <2>3. ota'.part = ota.part /\ ota'.sha = ota.sha \o wk[w].chunk
    BY <1>a, <2>2 DEF Engines
  <2>4. rom.flash[ota.part] \o wk[w].chunk \in Slices
    <3>1. ota.sha \in Slices /\ wk[w].chunk \in Slices
      BY <1>a DEF Engines, Tasks
    <3> QED BY <1>d, <2>1, <3>1, SlicesClosed
  <2>5. /\ rom'.boot = rom.boot /\ rom'.running = rom.running /\ rom'.img = rom.img
        /\ rom'.flash[ota.part] = rom.flash[ota.part] \o wk[w].chunk
        /\ rom'.flash[rom.running] = rom.flash[rom.running]
    BY <1>f, <2>1, <2>2, <2>4
  <2>6. /\ ota'.part = Other(rom.running) /\ rom'.flash[ota'.part] = ota'.sha
        /\ wk[w].pc \notin Rebooting /\ wk'[w].pc \notin Rebooting /\ wk'[w].pc \notin Accepted
    BY <1>o, <1>d, <2>1, <2>3, <2>5 DEF Rebooting, Accepted
  <2> QED BY <1>m, <2>1, <2>2, <2>5, <2>6, ImageStep
<1>12. CASE WriteFails(w)
  <2>0. [ota EXCEPT !.sha = ota.sha \o wk[w].chunk] \in Engines
    <3>1. ota.sha \in Slices /\ wk[w].chunk \in Slices
      BY <1>a DEF Engines, Tasks
    <3> QED BY <1>a, <3>1, EngineWith, SlicesClosed
  <2>1. Owns(w) /\ wk[w].pc = "write" /\ wk'[w].pc = "cleanup" /\ rom' = rom /\ l2c' = l2c
    BY <1>12, <1>a, <2>0, FailFacts DEF WriteFails, At, Owns, Working
  <2>2. ota'.part = ota.part
    BY <1>12, <1>a, <2>0, FailFacts DEF WriteFails, Engines
  <2>3. /\ ota'.part = Other(rom.running) /\ ~Digesting(w)'
        /\ wk[w].pc \notin Rebooting /\ wk'[w].pc \notin Rebooting /\ wk'[w].pc \notin Accepted
    BY <1>o, <2>1, <2>2 DEF Rebooting, Accepted, Digesting, Resuming
  <2> QED BY <1>m, <2>1, <2>3, ImageStep
<1>13. CASE LiftGate(w)
  <2>1. /\ wk[w].pc = "gate" /\ wk'[w].pc \in {"loop", "resume"}
        /\ rom' = rom /\ l2c' = l2c /\ ota' = ota
    BY <1>13, <1>a, GotoFacts, CallFacts DEF LiftGate, At
  <2> QED BY <2>1, WorkerImageSame DEF Digesting, Accepted, Rebooting
<1>14. CASE Verify(w)
  <2>1. CASE Goto(w, "end") /\ UNCHANGED <<ota, board, reports>> /\ ota.sha = Image(app.sid)
    <3>1. /\ Owns(w) /\ wk[w].pc = "verify" /\ wk'[w].pc = "end" /\ Digesting(w)
          /\ rom' = rom /\ l2c' = l2c /\ ota' = ota
      BY <1>14, <1>a, <2>1, GotoFacts DEF Verify, At, Owns, Working, Digesting
    <3>2. /\ ota'.part = Other(rom.running) /\ rom'.flash[ota'.part] = ota'.sha
          /\ wk[w].pc \notin Rebooting /\ wk'[w].pc \notin Rebooting
      BY <1>o, <1>d, <3>1 DEF Rebooting
    <3> QED BY <1>m, <2>1, <3>1, <3>2, ImageStep
  <2>2. ASSUME NEW code, FailWith(w, code, ota) PROVE ImageInv'
    <3>1. /\ wk[w].pc = "verify" /\ wk'[w].pc = "cleanup" /\ rom' = rom /\ l2c' = l2c
          /\ ota'.part = ota.part /\ ota'.sha = ota.sha
      BY <1>14, <1>a, <2>2, FailFacts DEF Verify, At
    <3> QED BY <3>1, WorkerImageSame DEF Digesting, Accepted, Rebooting, Resuming
  <2> QED BY <1>14, <2>1, <2>2 DEF Verify
<1>15. CASE EndImage(w)
  <2>0. [ota EXCEPT !.handle = FALSE] \in Engines
    BY <1>a, EngineWith
  <2>1. /\ wk[w].pc = "end" /\ wk'[w].pc \in {"bootsel", "cleanup"} /\ rom' = rom /\ l2c' = l2c
    BY <1>15, <1>a, <2>0, GotoFacts, FailFacts DEF EndImage, At
  <2>2. ota'.part = ota.part /\ ota'.sha = ota.sha
    BY <1>15, <1>a, <2>0, FailFacts DEF EndImage, Engines
  <2> QED BY <2>1, <2>2, WorkerImageSame DEF Digesting, Accepted, Rebooting, Resuming
<1>16. CASE SelectBoot(w)
  <2>1. CASE FailWith(w, 2032, ota) /\ UNCHANGED rom
    <3>1. /\ wk[w].pc = "bootsel" /\ wk'[w].pc = "cleanup" /\ rom' = rom /\ l2c' = l2c
          /\ ota'.part = ota.part /\ ota'.sha = ota.sha
      BY <1>16, <1>a, <2>1, FailFacts DEF SelectBoot, At
    <3> QED BY <3>1, WorkerImageSame DEF Digesting, Accepted, Rebooting, Resuming
  <2>2. CASE /\ rom' = [rom EXCEPT !.boot = ota.part, !.img[ota.part] = "new"]
             /\ Goto(w, "success") /\ UNCHANGED ota
    <3>1. /\ Owns(w) /\ wk[w].pc = "bootsel" /\ wk'[w].pc = "success" /\ Digesting(w)
          /\ l2c' = l2c
      BY <1>16, <1>a, <2>2, GotoFacts DEF SelectBoot, At, Owns, Working, Digesting
    <3>2. ota.part = Other(rom.running) /\ ota.part \in Parts /\ ota.part # rom.running
      BY <1>o, <3>1
    <3>3. /\ rom'.boot = ota.part /\ rom'.running = rom.running /\ rom'.flash = rom.flash
          /\ rom'.img[ota.part] = "new" /\ rom'.img[rom.running] = rom.img[rom.running]
      BY <1>a, <2>2, <3>2, RomSelected
    <3>4. rom.flash[ota.part] = Image(app.sid)
      BY <1>d, <3>1 DEF IInv, ImageInv
    <3>5. \A v \in Workers \ {w} : /\ ~Owns(v)' /\ ~Digesting(v)'
                                   /\ wk'[v].pc \notin Rebooting \cup Accepted
      <4>1. \A v \in Workers \ {w} : /\ ~Owns(v) /\ ~Digesting(v)
                                     /\ wk[v].pc \notin Rebooting \cup Accepted
        BY <3>1, OwnerFacts, DigestingOwns
      <4> QED BY <4>1, <1>m DEF Owns, Digesting
    <3>6. Switched'
      BY <3>1 DEF Switched
    <3>7. ~Digesting(w)' /\ wk'[w].pc \notin Accepted /\ rom.img[rom.running] # "pending"
      BY <3>1 DEF Digesting, Accepted, Resuming, IInv, ImageInv
    <3>8. Whole(rom'.flash[rom'.running]) /\ rom'.img[rom'.running] # "new"
      BY <3>3 DEF IInv, ImageInv
    <3>9. ASSUME NEW v \in Workers
          PROVE  /\ Owns(v)' => rom'.img[rom'.running] # "pending"
                 /\ Owns(v)' /\ wk'[v].pc # "toidle" => ota'.part = Other(rom'.running)
                 /\ ~Digesting(v)'
                 /\ wk'[v].pc \notin Accepted
      BY <2>2, <3>2, <3>3, <3>5, <3>7
    <3> QED BY <1>m, <3>2, <3>3, <3>4, <3>6, <3>7, <3>8, <3>9 DEF ImageInv, Accepted
  <2> QED BY <1>16, <2>1, <2>2 DEF SelectBoot
<1>17. CASE Succeed(w)
  <2>1. wk[w].pc = "success" /\ wk'[w].pc = "restart" /\ rom' = rom /\ l2c' = l2c
    BY <1>17, <1>a, GotoFacts DEF Succeed, At
  <2>2. ota'.part = ota.part /\ ota'.sha = ota.sha
    BY <1>17, <1>a DEF Succeed, Engines
  <2> QED BY <2>1, <2>2, WorkerImageSame DEF Digesting, Accepted, Rebooting, Resuming
<1>18. CASE Cleanup(w)
  <2>1. /\ Owns(w) /\ wk[w].pc = "cleanup" /\ wk'[w].pc = "toidle"
        /\ rom' = rom /\ l2c' = l2c
    BY <1>18, <1>a, GotoFacts DEF Cleanup, At, Owns, Working
  <2>2. /\ ~Digesting(w)'
        /\ wk[w].pc \notin Rebooting /\ wk'[w].pc \notin Rebooting /\ wk'[w].pc \notin Accepted
    BY <2>1 DEF Rebooting, Accepted, Digesting, Resuming
  <2> QED BY <1>m, <2>1, <2>2, ImageStep
<1>19. CASE ToIdle(w)
  <2>1. /\ wk[w].pc = "toidle" /\ wk'[w].pc = "resume" /\ wk'[w].ret = "notify"
        /\ rom' = rom /\ l2c' = l2c
    BY <1>19, <1>a, CallFacts DEF ToIdle, At
  <2>2. ota'.part = ota.part /\ ota'.sha = ota.sha
    BY <1>19, <1>a DEF ToIdle, Engines
  <2> QED BY <2>1, <2>2, WorkerImageSame DEF Digesting, Accepted, Rebooting
<1>20. CASE NotifySnapshot(w)
  <2>1. wk[w].pc = "notify" /\ wk'[w].pc = "tell" /\ rom' = rom /\ l2c' = l2c /\ ota' = ota
    BY <1>20, <1>a DEF NotifySnapshot, At, Tasks
  <2> QED BY <2>1, WorkerImageSame DEF Digesting, Accepted, Rebooting, Resuming
<1>21. CASE NotifyTell(w)
  <2>1. wk[w].pc = "tell" /\ wk'[w].pc = "free" /\ rom' = rom /\ l2c' = l2c /\ ota' = ota
    BY <1>21, <1>a DEF NotifyTell, At, Task0
  <2> QED BY <2>1, WorkerImageSame DEF Digesting, Accepted, Rebooting, Resuming
<1>r. ASSUME wk[w].pc \in Resuming, rom' = rom, l2c'.link = l2c.link, ota' = ota,
             \/ wk'[w].pc \in Resuming /\ wk'[w].ret = wk[w].ret
             \/ wk'[w].pc = wk[w].ret
      PROVE  ImageInv'
  <2>1. Digesting(w)' => Digesting(w)
    BY <1>r, <1>a DEF Digesting, Resuming, Returns
  <2>2. /\ wk'[w].pc \in Accepted => wk[w].pc \in Accepted
        /\ wk'[w].pc \in Rebooting <=> wk[w].pc \in Rebooting
    BY <1>r, <1>a DEF Resuming, Returns, Accepted, Rebooting
  <2> QED BY <1>r, <2>1, <2>2, WorkerImageSame
<1>22. CASE ResumeCheck(w)
  <2>1. \/ wk'[w].pc = "claim" /\ wk'[w].ret = wk[w].ret
        \/ wk'[w].pc = wk[w].ret
    BY <1>22, <1>a, ReturnFacts DEF ResumeCheck, Tasks
  <2> QED BY <1>22, <1>r, <2>1 DEF ResumeCheck, At, Resuming
<1>23. CASE ResumeClaim(w)
  <2>1. \/ wk'[w].pc = "rearm" /\ wk'[w].ret = wk[w].ret
        \/ wk'[w].pc = wk[w].ret
    BY <1>23, <1>a, ReturnFacts, GotoFacts DEF ResumeClaim
  <2>2. l2c'.link = l2c.link
    BY <1>23, <1>a DEF ResumeClaim, Links
  <2> QED BY <1>23, <1>r, <2>1, <2>2 DEF ResumeClaim, At, Resuming
<1>24. CASE ResumeRearm(w)
  <2>1. \/ wk'[w].pc = "putback" /\ wk'[w].ret = wk[w].ret
        \/ wk'[w].pc = wk[w].ret
    BY <1>24, <1>a, ReturnFacts, GotoFacts DEF ResumeRearm
  <2>2. l2c'.link = l2c.link
    BY <1>24, <1>a DEF ResumeRearm, Links
  <2> QED BY <1>24, <1>r, <2>1, <2>2 DEF ResumeRearm, At, Resuming
<1>25. CASE ResumePutBack(w)
  <2>1. wk'[w].pc = wk[w].ret
    BY <1>25, <1>a, ReturnFacts DEF ResumePutBack
  <2>2. l2c'.link = l2c.link
    BY <1>25, <1>a DEF ResumePutBack, Links
  <2> QED BY <1>25, <1>r, <2>1, <2>2 DEF ResumePutBack, At, Resuming
<1> QED BY <1>1, <1>2, <1>3, <1>4, <1>5, <1>6, <1>7, <1>8, <1>9, <1>10, <1>11, <1>12, <1>13,
           <1>14, <1>15, <1>16, <1>17, <1>18, <1>19, <1>20, <1>21, <1>22, <1>23, <1>24, <1>25
           DEF WorkerStep

\* The boot loader's choice: a confirmed image as it is, a new one on trial, an image whose
\* trial failed for the partition it would fall back to.
LEMMA ResetImage ==
  ASSUME IInv, Reset
  PROVE  ImageInv'
<1>a. rom \in Roms /\ rom.boot \in Parts /\ rom.running \in Parts
  BY DEF IInv, TypeOK, Roms
<1>b. /\ Other(rom.boot) \in Parts /\ Other(rom.boot) # rom.boot
      /\ Other(Other(rom.boot)) = rom.boot /\ Other(Other(rom.running)) = rom.running
  BY <1>a, OtherPart
<1>c. \A w \in Workers : wk'[w].pc = "free" /\ ~Owns(w)'
  BY ResetControl
<1>d. ~Switched' /\ \A w \in Workers : ~Digesting(w)'
  BY <1>c DEF Switched, Digesting, Resuming
<1>e. ~l2c'.link
  BY DEF Reset, ChannelLost, IInv, TypeOK
<1>1. /\ Whole(rom'.flash[rom'.running])
      /\ rom'.img[rom'.running] # "new"
      /\ rom'.boot = rom'.running
      /\ rom'.img[Other(rom'.running)] # "new"
      /\ rom'.img[rom'.running] = "pending" => Whole(rom'.flash[Other(rom'.running)])
  <2>i. /\ Whole(rom.flash[rom.running]) /\ rom.img[rom.running] # "new"
        /\ ~Switched => /\ rom.boot = rom.running
                        /\ rom.img[Other(rom.running)] # "new"
                        /\ rom.img[rom.running] = "pending" => Whole(rom.flash[Other(rom.running)])
        /\ Switched => /\ rom.boot = Other(rom.running)
                       /\ rom.img[rom.boot] = "new"
                       /\ Whole(rom.flash[rom.boot])
    <3>1. Switched => app.sid \in 0..MaxSessions /\ rom.flash[rom.boot] = Image(app.sid)
      BY DEF IInv, ImageInv, TypeOK
    <3> QED BY <3>1 DEF IInv, ImageInv, Whole
  <2>1. CASE rom.img[rom.boot] = "new"
    <3>1. Switched
      BY <2>1, <2>i
    <3>2. rom' = [rom EXCEPT !.img[rom.boot] = "pending", !.running = rom.boot]
      BY <2>1 DEF Reset, BootLoader
    <3>3. /\ rom'.flash = rom.flash /\ rom'.boot = rom.boot /\ rom'.running = rom.boot
          /\ rom'.img[rom.boot] = "pending" /\ rom'.img[Other(rom.boot)] = rom.img[Other(rom.boot)]
      BY <1>a, <1>b, <3>2, RomTried
    <3> QED BY <1>b, <2>i, <3>1, <3>3
  <2>2. CASE rom.img[rom.boot] = "pending"
    <3>1. ~Switched
      BY <2>2, <2>i
    <3>2. rom' = [rom EXCEPT !.img[rom.boot] = "aborted", !.boot = Other(rom.boot),
                             !.running = Other(rom.boot)]
      BY <2>2 DEF Reset, BootLoader
    <3>3. /\ rom'.flash = rom.flash /\ rom'.boot = Other(rom.boot) /\ rom'.running = Other(rom.boot)
          /\ rom'.img[rom.boot] = "aborted" /\ rom'.img[Other(rom.boot)] = rom.img[Other(rom.boot)]
      BY <1>a, <1>b, <3>2, RomRolledBack
    <3> QED BY <1>b, <2>2, <2>i, <3>1, <3>3
  <2>3. CASE rom.img[rom.boot] \notin {"new", "pending"}
    <3>1. ~Switched
      BY <2>3, <2>i
    <3>2. rom' = [rom EXCEPT !.running = rom.boot]
      BY <2>3 DEF Reset, BootLoader
    <3>3. rom'.flash = rom.flash /\ rom'.boot = rom.boot /\ rom'.running = rom.boot
          /\ rom'.img = rom.img
      BY <1>a, <3>2 DEF Roms
    <3> QED BY <2>3, <2>i, <3>1, <3>3
  <2> QED BY <2>1, <2>2, <2>3
<1> QED BY <1>1, <1>c, <1>d, <1>e DEF ImageInv

LEMMA OthersImage ==
  ASSUME IInv, HostStep \/ BoardAbortStore \/ Environment
  PROVE  ImageInv'
<1>a. /\ ota \in Engines /\ wk \in [Workers -> Tasks] /\ rom \in Roms /\ l2c \in Links
      /\ app \in Apps /\ rom.running \in Parts
  BY DEF IInv, TypeOK, Links, Roms, Apps
<1>s. ASSUME wk' = wk, rom' = rom, ota'.part = ota.part, ota'.sha = ota.sha, app'.sid = app.sid,
             l2c'.link => l2c.link
      PROVE  ImageInv'
  BY <1>s, ImageSame DEF Switched, Owns, Digesting
<1>1. CASE AbortStore \/ BoardAbortStore
  <2>1. ota'.part = ota.part /\ ota'.sha = ota.sha
    BY <1>1, <1>a DEF AbortStore, BoardAbortStore, Engines
  <2> QED BY <1>1, <1>s, <2>1 DEF AbortStore, BoardAbortStore
<1>2. CASE SliceCheck \/ SliceSend \/ SliceCount
  <2>1. ota'.part = ota.part /\ ota'.sha = ota.sha
    BY <1>2, <1>a DEF SliceCheck, SliceSend, SliceCount, Engines
  <2> QED BY <1>2, <1>s, <2>1 DEF SliceCheck, SliceSend, SliceCount
<1>3. CASE DataRearm \/ DataHold
  <2>1. l2c'.link = l2c.link
    BY <1>3, <1>a DEF DataRearm, DataHold, Links
  <2> QED BY <1>3, <1>s, <2>1 DEF DataRearm, DataHold
<1>4. CASE AbortOta \/ BoardAbort
  BY <1>4, <1>s DEF AbortOta, BoardAbort
<1>5. CASE (\E n \in 1..MaxSdu : AppPush(n)) \/ AppAudio
  <2>1. l2c'.link = l2c.link /\ app'.sid = app.sid
    BY <1>5, <1>a DEF AppPush, AppAudio, DataReceived, Links, Apps
  <2>2. wk' = wk /\ rom' = rom /\ ota' = ota
    BY <1>5 DEF AppPush, AppAudio
  <2> QED BY <1>s, <2>1, <2>2
<1>6. CASE AppSwitch
  BY <1>6, <1>a, <1>s DEF AppSwitch, Apps
<1>7. CASE ChannelUp \/ ChannelDown \/ LinkDown
  <2>1. l2c'.link => l2c.link
    BY <1>7, <1>a DEF ChannelUp, ChannelDown, LinkDown, ChannelLost, Links
  <2> QED BY <1>7, <1>s, <2>1 DEF ChannelUp, ChannelDown, LinkDown
<1>8. CASE \E w \in Workers : StartOta(w)
  <2> PICK w \in Workers : StartOta(w)
    BY <1>8
  <2>1. \A v \in Workers : ~Owns(v)
    BY DEF StartOta, CanStart, IInv, OneOwner
  <2>2. wk'[w].pc = "begin" /\ \A v \in Workers \ {w} : wk'[v] = wk[v]
    BY <1>a, GotoFacts DEF StartOta
  <2>3. \A v \in Workers : /\ ~Digesting(v)' /\ wk'[v].pc \notin Rebooting \cup Accepted
    <3>1. \A v \in Workers : ~Digesting(v) /\ wk[v].pc \notin Rebooting \cup Accepted
      BY <2>1, DigestingOwns
    <3>2. \A v \in Workers \ {w} : /\ ~Digesting(v)' /\ wk'[v].pc \notin Rebooting \cup Accepted
      BY <2>2, <3>1 DEF Digesting
    <3>3. ~Digesting(w)' /\ wk'[w].pc \notin Rebooting \cup Accepted
      BY <2>2 DEF Digesting, Rebooting, Accepted, Resuming
    <3> QED BY <3>2, <3>3
  <2>4. ~Switched /\ ~Switched'
    BY <2>1, <2>3, DigestingOwns DEF Switched, Rebooting
  <2>5. ota'.part = Other(rom.running)
    BY DEF StartOta, NewSession, Engine0
  <2>6. rom' = rom /\ l2c' = l2c /\ rom.img[rom.running] # "pending"
    BY DEF StartOta, CanStart, IInv, ImageInv
  <2>7. ASSUME NEW v \in Workers
        PROVE  /\ Owns(v)' => rom'.img[rom'.running] # "pending"
               /\ Owns(v)' /\ wk'[v].pc # "toidle" => ota'.part = Other(rom'.running)
               /\ ~Digesting(v)' /\ wk'[v].pc \notin Accepted
    BY <2>3, <2>5, <2>6
  <2> QED BY <2>4, <2>6, <2>7 DEF IInv, ImageInv, Accepted
<1>9. CASE StartOtaNoTask
  <2>1. \A v \in Workers : ~Owns(v)
    BY <1>9 DEF StartOtaNoTask, CanStart, IInv, OneOwner
  <2>2. wk' = wk /\ rom' = rom /\ l2c' = l2c /\ app' = app
    BY <1>9 DEF StartOtaNoTask
  <2>3. \A v \in Workers : ~Owns(v)' /\ ~Digesting(v)' /\ wk'[v].pc \notin Rebooting \cup Accepted
    <3>1. \A v \in Workers : ~Digesting(v) /\ wk[v].pc \notin Rebooting \cup Accepted
      BY <2>1, DigestingOwns
    <3> QED BY <2>1, <2>2, <3>1 DEF Owns, Digesting
  <2>4. ~Switched /\ ~Switched'
    BY <2>2, <2>3 DEF Switched, Rebooting
  <2> QED BY <2>2, <2>3, <2>4 DEF IInv, ImageInv, Accepted
<1>10. CASE LinkUp
  <2> DEFINE c == IF rom.img[rom.running] = "pending" THEN "valid" ELSE rom.img[rom.running]
  <2>1. rom' = [rom EXCEPT !.img[rom.running] = c]
    BY <1>10 DEF LinkUp
  <2>2. c \notin {"new", "pending"} /\ (c = rom.img[rom.running] \/ rom.img[rom.running] = "pending")
    BY DEF IInv, ImageInv
  <2>3. /\ rom'.flash = rom.flash /\ rom'.boot = rom.boot /\ rom'.running = rom.running
        /\ rom'.img[rom.running] = c
        /\ \A p \in Parts \ {rom.running} : rom'.img[p] = rom.img[p]
    BY <1>a, <2>1 DEF Roms
  <2>4. Other(rom.running) \in Parts \ {rom.running}
    BY <1>a, OtherPart
  <2>5. wk' = wk /\ ota' = ota /\ app' = app
    BY <1>10 DEF LinkUp
  <2>6. /\ Switched' <=> Switched
        /\ \A v \in Workers : (Owns(v)' <=> Owns(v)) /\ (Digesting(v)' <=> Digesting(v))
    BY <2>5 DEF Switched, Owns, Digesting
  <2> HIDE DEF c
  <2>7. /\ Whole(rom'.flash[rom'.running]) /\ rom'.img[rom'.running] \notin {"new", "pending"}
    BY <2>2, <2>3 DEF IInv, ImageInv
  <2>8. /\ ~Switched => rom'.boot = rom'.running /\ rom'.img[Other(rom'.running)] # "new"
        /\ Switched => /\ rom'.boot = Other(rom'.running)
                       /\ rom'.img[rom'.boot] = "new"
                       /\ rom'.flash[rom'.boot] = Image(app'.sid)
    BY <2>3, <2>4, <2>5 DEF IInv, ImageInv
  <2>9. ASSUME NEW v \in Workers
        PROVE  /\ Owns(v)' /\ wk'[v].pc # "toidle" => ota'.part = Other(rom'.running)
               /\ Digesting(v)' => rom'.flash[ota'.part] = ota'.sha
               /\ wk'[v].pc \in {"end", "bootsel"} => ota'.sha = Image(app'.sid)
    BY <2>3, <2>5, <2>6 DEF IInv, ImageInv
  <2> QED BY <2>6, <2>7, <2>8, <2>9 DEF ImageInv
<1>11. CASE PowerLoss
  BY <1>11, ResetImage DEF PowerLoss
<1> QED BY <1>1, <1>2, <1>3, <1>4, <1>5, <1>6, <1>7, <1>8, <1>9, <1>10, <1>11
           DEF HostStep, Environment

LEMMA Stutter == IInv /\ UNCHANGED vars => IInv'
<1> SUFFICES ASSUME IInv, UNCHANGED vars PROVE IInv'
  OBVIOUS
<1>1. /\ ota' = ota /\ wk' = wk /\ host' = host /\ board' = board /\ l2c' = l2c /\ rom' = rom
      /\ app' = app /\ reports' = reports /\ faults' = faults
  BY DEF vars
<1>2. TypeOK'
  BY <1>1 DEF IInv, TypeOK
<1>3. ControlInv' /\ OneOwner'
  BY <1>1 DEF IInv, ControlInv, OneOwner, Owns
<1>4. ImageInv'
  BY <1>1, ImageSame DEF Switched, Owns, Digesting
<1> QED BY <1>2, <1>3, <1>4 DEF IInv

LEMMA NextInv == IInv /\ Next => IInv'
<1> SUFFICES ASSUME IInv, Next PROVE IInv'
  OBVIOUS
<1>1. ASSUME NEW w \in Workers, WorkerStep(w) PROVE IInv'
  <2>1. ImageInv'
    BY <1>1, WorkerImage, ResetImage DEF Restart
  <2> QED BY <1>1, <2>1, WorkerType, WorkerControl DEF IInv
<1>2. CASE HostStep \/ BoardAbortStore \/ Environment
  BY <1>2, OthersType, OthersControl, OthersImage DEF IInv
<1> QED BY <1>1, <1>2 DEF Next

\* The invariant that carries every other one, for any number of tasks, any buffer and image
\* size: types, control (a worker inside ResumeL2capRx knows where to return), one owner of the
\* session, and what the flash holds at each stage of an upgrade (ota_service.cpp).
THEOREM Invariance == Spec => []IInv
<1>1. IInv /\ [Next]_vars => IInv'
  BY NextInv, Stutter
<1> QED BY InitInv, <1>1, PTL DEF Spec

\* Every variable of the upgrade has its type in every reachable state.
THEOREM TypeCorrect == Spec => []TypeOK
<1>1. IInv => TypeOK
  BY DEF IInv
<1> QED BY Invariance, <1>1, PTL

\* At most one worker task touches flash, digest and buffer, and one does exactly while a
\* session is open, however many exit paths of earlier sessions are still running
\* (ota_service.cpp WorkerTask, Start).
THEOREM SingleOwner == Spec => []OneOwner
<1>1. IInv => OneOwner
  BY DEF IInv
<1> QED BY Invariance, <1>1, PTL

\* Whatever is aborted, refused, corrupted on the way or cut off by a power loss, the partition
\* the boot loader starts holds a whole image of one session, and as long as that image is
\* unconfirmed the partition it would fall back to does too (ota_service.cpp RunSession).
THEOREM AlwaysBootable == Spec => []BootableImage
<1>1. IInv => BootableImage
  <2> SUFFICES ASSUME IInv PROVE BootableImage
    OBVIOUS
  <2>1. rom.running \in Parts /\ Other(Other(rom.running)) = rom.running
    BY OtherPart DEF IInv, TypeOK, Roms
  <2>2. CASE Switched
    <3>1. /\ rom.boot = Other(rom.running) /\ rom.flash[rom.boot] = Image(app.sid)
          /\ Whole(rom.flash[rom.running]) /\ app.sid \in 0..MaxSessions
      BY <2>2 DEF IInv, ImageInv, TypeOK
    <3> QED BY <2>1, <3>1 DEF BootableImage, Whole
  <2>3. CASE ~Switched
    BY <2>3 DEF IInv, ImageInv, BootableImage
  <2> QED BY <2>2, <2>3
<1> QED BY Invariance, <1>1, PTL

-----------------------------------------------------------------------------
(* The right to send: CreditAccounted on the first data channel, or on every channel of a
   device whose channel never drops. *)

Claims == {"claim", "rearm", "putback"}
Handling == {"slice", "send", "count", "hold"}
NoChannelFault == Faults \cap {"channel", "link"} = {}
OneChannel == l2c.opened <= 1 \/ NoChannelFault

Owed == l2c.rearm_pending \/ \E w \in Workers : wk[w].pc \in {"rearm", "putback"}

\* A worker inside ResumeL2capRx works on a channel that was opened, and on the open one unless
\* that can have been lost meanwhile; between handlers the credit is there or owed.
Snapshots ==
  /\ l2c.chan <= l2c.opened
  /\ \A w \in Workers : wk[w].pc \in Claims =>
       /\ wk[w].chan \in 1..l2c.opened
       /\ NoChannelFault => wk[w].chan = l2c.chan
Balance ==
  OneChannel /\ l2c.chan # 0 /\ host.pc \notin Handling => l2c.credit > 0 \/ Owed
CreditInv == Snapshots /\ Balance

LEMMA LinkTyped ==
  ASSUME IInv
  PROVE  /\ l2c \in Links /\ l2c.chan \in Nat /\ l2c.opened \in Nat /\ l2c.credit \in Nat
         /\ wk \in [Workers -> Tasks]
         /\ \A w \in Workers : wk[w].ret \in Returns /\ wk[w].chan \in Nat
BY TypeParts DEF IInv, Links, Tasks, Returns

\* A step that leaves the link and the claims alone, and lets no handler end.
LEMMA CreditSame ==
  ASSUME CreditInv, l2c' = l2c, host.pc \in Handling => host'.pc \in Handling,
         \A w \in Workers : \/ wk'[w].pc = wk[w].pc /\ wk'[w].chan = wk[w].chan
                            \/ wk'[w].pc \notin Claims /\ wk[w].pc \notin Claims
  PROVE  CreditInv'
<1>1. \A w \in Workers : wk'[w].pc \in Claims =>
        wk[w].pc \in Claims /\ wk'[w].pc = wk[w].pc /\ wk'[w].chan = wk[w].chan
  OBVIOUS
<1>2. \A w \in Workers : wk[w].pc \in {"rearm", "putback"} => wk'[w].pc = wk[w].pc
  BY DEF Claims
<1>3. Owed => Owed'
  BY <1>2 DEF Owed
<1>4. OneChannel' <=> OneChannel
  BY DEF OneChannel
<1>5. Snapshots'
  BY <1>1 DEF CreditInv, Snapshots
<1>6. Balance'
  BY <1>3, <1>4 DEF CreditInv, Balance
<1> QED BY <1>5, <1>6 DEF CreditInv

\* Outside ResumeL2capRx a worker neither touches the link nor claims.
LEMMA WorkerOutside ==
  ASSUME IInv, NEW w \in Workers, WorkerStep(w), ~Restart(w),
         ~ResumeCheck(w), ~ResumeClaim(w), ~ResumeRearm(w), ~ResumePutBack(w)
  PROVE  l2c' = l2c /\ wk'[w].pc \notin Claims /\ wk[w].pc \notin Claims
<1>a. wk \in [Workers -> Tasks] /\ ota \in Engines
  BY TypeParts DEF IInv
<1>g. \A pc : Goto(w, pc) => wk'[w].pc = pc
  BY <1>a, GotoFacts
<1>c. \A pc : CallResume(w, pc) => wk'[w].pc = "resume"
  BY <1>a, CallFacts
<1>f. \A o, code : FailWith(w, code, o) => wk'[w].pc = "cleanup"
  BY <1>g DEF FailWith
<1>1. CASE Begin(w) \/ LoopDone(w) \/ LoopReads(w) \/ PollAgain(w) \/ Cleanup(w) \/ Succeed(w)
  BY <1>1, <1>g DEF Begin, LoopDone, LoopReads, PollAgain, Cleanup, Succeed, At, Claims
<1>2. CASE BeginFails(w) \/ LoopAborted(w) \/ ReceiveTimeout(w) \/ WriteFails(w)
  BY <1>2, <1>f DEF BeginFails, LoopAborted, ReceiveTimeout, WriteFails, At, Claims
<1>3. CASE Verify(w) \/ EndImage(w) \/ SelectBoot(w)
  BY <1>3, <1>f, <1>g DEF Verify, EndImage, SelectBoot, At, Claims
<1>4. CASE PollGate(w) \/ LiftGate(w) \/ ToIdle(w)
  BY <1>4, <1>c, <1>g DEF PollGate, LiftGate, ToIdle, At, Claims
<1>5. CASE Receive(w) \/ ReceiveEmpty(w) \/ WriteChunk(w) \/ NotifySnapshot(w) \/ NotifyTell(w)
  <2>1. wk'[w].pc \in {"write", "poll", "gate", "tell", "free"}
    <3>1. Receive(w) => wk'[w].pc = "write"
      <4>1. ASSUME NEW c, NEW i, wk' = [wk EXCEPT ![w].pc = "write", ![w].idle = i, ![w].chunk = c]
            PROVE  wk'[w].pc = "write"
        BY <1>a, <4>1 DEF Tasks
      <4> QED BY <4>1 DEF Receive
    <3>2. ReceiveEmpty(w) => wk'[w].pc = "poll"
      BY <1>a DEF ReceiveEmpty, Tasks
    <3>3. WriteChunk(w) => wk'[w].pc = "gate"
      BY <1>a DEF WriteChunk, Tasks
    <3>4. NotifySnapshot(w) => wk'[w].pc = "tell"
      BY <1>a DEF NotifySnapshot, Tasks
    <3>5. NotifyTell(w) => wk'[w].pc = "free"
      BY <1>a DEF NotifyTell, Task0
    <3> QED BY <1>5, <3>1, <3>2, <3>3, <3>4, <3>5
  <2>2. l2c' = l2c /\ wk[w].pc \in {"recv", "write", "notify", "tell"}
    BY <1>5 DEF Receive, ReceiveEmpty, WriteChunk, NotifySnapshot, NotifyTell, At
  <2> QED BY <2>1, <2>2 DEF Claims
<1> QED BY <1>1, <1>2, <1>3, <1>4, <1>5 DEF WorkerStep

LEMMA ReturnedOutside ==
  ASSUME IInv, NEW w \in Workers, wk' = Returned(w)
  PROVE  wk'[w].pc \notin Claims /\ \A v \in Workers \ {w} : wk'[v] = wk[v]
BY LinkTyped, ReturnFacts DEF Returns, Claims

LEMMA ResumeCredit ==
  ASSUME IInv, CreditInv, NEW w \in Workers,
         ResumeCheck(w) \/ ResumeClaim(w) \/ ResumeRearm(w) \/ ResumePutBack(w)
  PROVE  CreditInv'
<1>a. /\ l2c \in Links /\ l2c.chan \in Nat /\ l2c.opened \in Nat /\ l2c.credit \in Nat
      /\ wk \in [Workers -> Tasks] /\ host' = host
  BY LinkTyped DEF ResumeCheck, ResumeClaim, ResumeRearm, ResumePutBack
<1>n. \A n \in Nat : n + 1 \in Nat /\ n + 1 > 0
  OBVIOUS
<1>r. wk' = Returned(w) => wk'[w].pc \notin Claims /\ \A v \in Workers \ {w} : wk'[v] = wk[v]
  BY ReturnedOutside
<1>1. CASE ResumeCheck(w)
  <2>1. l2c' = l2c /\ wk[w].pc = "resume"
    BY <1>1 DEF ResumeCheck, At
  <2>2. CASE l2c.rearm_pending /\ l2c.chan # 0
    <3>1. /\ wk'[w].pc = "claim" /\ wk'[w].chan = l2c.chan
          /\ \A v \in Workers \ {w} : wk'[v] = wk[v]
      BY <1>1, <2>2, <1>a DEF ResumeCheck, Tasks
    <3>2. l2c.chan \in 1..l2c.opened
      BY <2>2, <1>a DEF CreditInv, Snapshots
    <3>3. Snapshots'
      BY <2>1, <3>1, <3>2 DEF CreditInv, Snapshots
    <3>4. Owed'
      BY <2>1, <2>2 DEF Owed
    <3> QED BY <3>3, <3>4 DEF CreditInv, Balance
  <2>3. CASE ~(l2c.rearm_pending /\ l2c.chan # 0)
    <3>1. wk' = Returned(w)
      BY <1>1, <2>3 DEF ResumeCheck
    <3>2. wk[w].pc \notin Claims
      BY <2>1 DEF Claims
    <3> QED BY <1>a, <1>r, <2>1, <3>1, <3>2, CreditSame
  <2> QED BY <2>2, <2>3
<1>2. CASE ResumeClaim(w)
  <2>1. /\ l2c'.chan = l2c.chan /\ l2c'.opened = l2c.opened /\ l2c'.credit = l2c.credit
        /\ wk[w].pc = "claim"
    BY <1>2, <1>a DEF ResumeClaim, At, Links
  <2>2. CASE l2c.rearm_pending
    <3>1. /\ wk'[w].pc = "rearm" /\ wk'[w].chan = wk[w].chan
          /\ \A v \in Workers \ {w} : wk'[v] = wk[v]
      BY <1>2, <2>2, <1>a DEF ResumeClaim, Goto, Tasks
    <3>2. Snapshots'
      BY <2>1, <3>1 DEF CreditInv, Snapshots, Claims
    <3>3. Owed'
      BY <3>1 DEF Owed
    <3> QED BY <3>2, <3>3 DEF CreditInv, Balance
  <2>3. CASE ~l2c.rearm_pending
    <3>1. wk' = Returned(w)
      BY <1>2, <2>3 DEF ResumeClaim
    <3>2. Snapshots'
      BY <1>r, <2>1, <3>1 DEF CreditInv, Snapshots
    <3>3. Owed => Owed'
      BY <1>r, <2>1, <2>3, <3>1 DEF Owed
    <3>4. Balance'
      BY <1>a, <2>1, <3>3 DEF CreditInv, Balance, OneChannel
    <3> QED BY <3>2, <3>4 DEF CreditInv
  <2> QED BY <2>2, <2>3
<1>3. CASE ResumeRearm(w)
  <2>1. /\ l2c'.chan = l2c.chan /\ l2c'.opened = l2c.opened
        /\ l2c'.rearm_pending = l2c.rearm_pending /\ wk[w].pc = "rearm"
    BY <1>3, <1>a DEF ResumeRearm, At, Links
  <2>2. CASE Goto(w, "putback")
    <3>1. /\ wk'[w].pc = "putback" /\ wk'[w].chan = wk[w].chan
          /\ \A v \in Workers \ {w} : wk'[v] = wk[v]
      BY <2>2, <1>a DEF Goto, Tasks
    <3>2. Snapshots'
      BY <2>1, <3>1 DEF CreditInv, Snapshots, Claims
    <3>3. Owed'
      BY <3>1 DEF Owed
    <3> QED BY <3>2, <3>3 DEF CreditInv, Balance
  <2>3. CASE /\ wk' = Returned(w)
             /\ l2c' = [l2c EXCEPT !.credit = IF wk[w].chan = l2c.chan THEN @ + 1 ELSE @]
    <3>1. Snapshots'
      BY <1>r, <2>1, <2>3 DEF CreditInv, Snapshots
    <3>2. ASSUME OneChannel, l2c.chan # 0 PROVE wk[w].chan = l2c.chan
      <4>1. l2c.chan \in 1..l2c.opened /\ wk[w].chan \in 1..l2c.opened
        BY <1>a, <2>1, <3>2 DEF CreditInv, Snapshots, Claims
      <4>2. NoChannelFault => wk[w].chan = l2c.chan
        BY <2>1 DEF CreditInv, Snapshots, Claims
      <4> QED BY <1>a, <3>2, <4>1, <4>2 DEF OneChannel
    <3>3. ASSUME OneChannel, l2c.chan # 0 PROVE l2c'.credit > 0
      <4>1. l2c'.credit = l2c.credit + 1
        BY <1>a, <2>3, <3>2, <3>3 DEF Links
      <4> QED BY <1>a, <1>n, <4>1
    <3>4. OneChannel' <=> OneChannel
      BY <2>1 DEF OneChannel
    <3> QED BY <2>1, <3>1, <3>3, <3>4 DEF CreditInv, Balance
  <2> QED BY <1>3, <2>2, <2>3 DEF ResumeRearm
<1>4. CASE ResumePutBack(w)
  <2>1. /\ l2c'.chan = l2c.chan /\ l2c'.opened = l2c.opened /\ l2c'.rearm_pending
        /\ wk' = Returned(w)
    BY <1>4, <1>a DEF ResumePutBack, Links
  <2>2. Snapshots'
    BY <1>r, <2>1 DEF CreditInv, Snapshots
  <2>3. Owed'
    BY <2>1 DEF Owed
  <2> QED BY <2>2, <2>3 DEF CreditInv, Balance
<1> QED BY <1>1, <1>2, <1>3, <1>4

\* With the channel gone nothing is owed to it; a worker's snapshot of it stays an old channel.
LEMMA LostCredit ==
  ASSUME IInv, CreditInv, NEW linked \in BOOLEAN, ChannelLost(linked),
         \/ \A w \in Workers : wk'[w] = Task0
         \/ wk' = wk /\ ~NoChannelFault
  PROVE  CreditInv'
<1>1. l2c'.chan = 0 /\ l2c'.opened = l2c.opened /\ l2c.opened \in Nat
  BY LinkTyped DEF ChannelLost, Links
<1>2. \A w \in Workers : wk'[w].pc \in Claims => wk' = wk /\ ~NoChannelFault
  BY DEF Task0, Claims
<1>3. Snapshots'
  BY <1>1, <1>2 DEF CreditInv, Snapshots, NoChannelFault
<1> QED BY <1>1, <1>3 DEF CreditInv, Balance

LEMMA HostCredit ==
  ASSUME IInv, CreditInv, "pool_host" \notin Faults, HostStep
  PROVE  CreditInv'
<1>a. /\ l2c \in Links /\ l2c.chan \in Nat /\ l2c.opened \in Nat /\ l2c.credit \in Nat
      /\ wk' = wk /\ host \in [pc : HostPcs, sdu : Slices]
  BY LinkTyped, TypeParts DEF HostStep, AbortStore, SliceCheck, SliceSend, SliceCount, DataRearm,
     DataHold, IInv
<1>n. \A n \in Nat : n + 1 > 0
  OBVIOUS
<1>1. CASE AbortStore \/ SliceCheck \/ SliceSend \/ SliceCount
  <2>1. l2c' = l2c /\ (host.pc \in Handling => host'.pc \in Handling)
    BY <1>1, <1>a DEF AbortStore, SliceCheck, SliceSend, SliceCount, HostGoto, Handling
  <2> QED BY <1>a, <2>1, CreditSame
<1>2. CASE DataHold
  <2>1. l2c'.chan = l2c.chan /\ l2c'.opened = l2c.opened /\ l2c'.rearm_pending
    BY <1>2, <1>a DEF DataHold, Links
  <2>2. Snapshots' /\ Owed'
    BY <1>a, <2>1 DEF CreditInv, Snapshots, Owed
  <2> QED BY <2>2 DEF CreditInv, Balance
<1>3. CASE DataRearm
  <2>1. CASE l2c' = [l2c EXCEPT !.credit = @ + 1]
    <3>1. l2c'.chan = l2c.chan /\ l2c'.opened = l2c.opened /\ l2c'.credit = l2c.credit + 1
      BY <2>1, <1>a DEF Links
    <3>2. l2c'.credit > 0
      BY <1>a, <1>n, <3>1
    <3>3. Snapshots'
      BY <1>a, <3>1 DEF CreditInv, Snapshots
    <3> QED BY <3>2, <3>3 DEF CreditInv, Balance
  <2>2. CASE l2c' = l2c /\ host'.pc = "hold"
    BY <1>a, <2>2, CreditSame DEF Handling
  <2>3. host' = [host EXCEPT !.pc = "hold"] => host'.pc = "hold"
    BY <1>a
  <2> QED BY <1>3, <2>1, <2>2, <2>3 DEF DataRearm, HostGoto, Fault
<1> QED BY <1>1, <1>2, <1>3 DEF HostStep

LEMMA EnvironmentCredit ==
  ASSUME IInv, CreditInv, BoardAbortStore \/ Environment
  PROVE  CreditInv'
<1>a. /\ l2c \in Links /\ l2c.chan \in Nat /\ l2c.opened \in Nat /\ l2c.credit \in Nat
      /\ wk \in [Workers -> Tasks] /\ host \in [pc : HostPcs, sdu : Slices]
  BY LinkTyped, TypeParts DEF IInv
<1>1. CASE BoardAbortStore \/ StartOtaNoTask \/ AppSwitch \/ BoardAbort
  <2>1. wk' = wk /\ l2c' = l2c /\ host' = host
    BY <1>1 DEF BoardAbortStore, StartOtaNoTask, AppSwitch, BoardAbort
  <2> QED BY <2>1, CreditSame
<1>2. CASE \E w \in Workers : StartOta(w)
  <2> PICK w \in Workers : StartOta(w)
    BY <1>2
  <2>1. /\ wk'[w].pc = "begin" /\ wk[w].pc = "free" /\ \A v \in Workers \ {w} : wk'[v] = wk[v]
    BY <1>a, GotoFacts DEF StartOta, At
  <2>2. l2c' = l2c /\ host' = host
    BY DEF StartOta
  <2> QED BY <2>1, <2>2, CreditSame DEF Claims
<1>3. CASE AbortOta
  <2>1. wk' = wk /\ l2c' = l2c /\ host.pc \notin Handling
    BY <1>3 DEF AbortOta, Handling
  <2> QED BY <2>1, CreditSame
<1>4. CASE (\E n \in 1..MaxSdu : AppPush(n)) \/ AppAudio
  <2>1. /\ l2c'.chan = l2c.chan /\ l2c'.opened = l2c.opened /\ wk' = wk /\ host'.pc = "slice"
    BY <1>4, <1>a DEF AppPush, AppAudio, DataReceived, Links
  <2>2. Snapshots'
    BY <2>1 DEF CreditInv, Snapshots
  <2> QED BY <2>1, <2>2 DEF CreditInv, Balance, Handling
<1>5. CASE LinkUp
  <2>1. /\ l2c'.chan = l2c.chan /\ l2c'.opened = l2c.opened /\ l2c'.credit = l2c.credit
        /\ l2c'.rearm_pending = l2c.rearm_pending /\ wk' = wk /\ host' = host
    BY <1>5, <1>a DEF LinkUp, Links
  <2> QED BY <2>1 DEF CreditInv, Snapshots, Balance, OneChannel, Owed
<1>6. CASE ChannelUp
  <2>1. /\ l2c'.chan = l2c.opened + 1 /\ l2c'.opened = l2c.opened + 1 /\ l2c'.credit = 1
        /\ l2c.chan = 0 /\ wk' = wk
    BY <1>6, <1>a DEF ChannelUp, Links
  <2>2. \A w \in Workers : wk[w].pc \in Claims => wk[w].chan \in 1..l2c'.opened /\ ~NoChannelFault
    BY <1>a, <2>1 DEF CreditInv, Snapshots
  <2>3. Snapshots'
    BY <1>a, <2>1, <2>2 DEF Snapshots, NoChannelFault
  <2>4. l2c'.credit > 0
    BY <2>1
  <2> QED BY <2>3, <2>4 DEF CreditInv, Balance
<1>7. CASE ChannelDown \/ LinkDown
  <2>1. wk' = wk /\ ~NoChannelFault
    BY <1>7 DEF ChannelDown, LinkDown, Fault, NoChannelFault
  <2>2. \E linked \in BOOLEAN : ChannelLost(linked)
    BY <1>7, <1>a DEF ChannelDown, LinkDown, Links
  <2> QED BY <2>1, <2>2, LostCredit
<1>8. CASE PowerLoss
  BY <1>8, LostCredit DEF PowerLoss, Reset
<1> QED BY <1>1, <1>2, <1>3, <1>4, <1>5, <1>6, <1>7, <1>8 DEF Environment

LEMMA NextCredit ==
  ASSUME "pool_host" \notin Faults, IInv, CreditInv, [Next]_vars
  PROVE  CreditInv'
<1>1. CASE UNCHANGED vars
  BY <1>1, CreditSame DEF vars
<1>2. ASSUME NEW w \in Workers, WorkerStep(w) PROVE CreditInv'
  <2>1. CASE Restart(w)
    BY <2>1, LostCredit DEF Restart, Reset
  <2>2. CASE ResumeCheck(w) \/ ResumeClaim(w) \/ ResumeRearm(w) \/ ResumePutBack(w)
    BY <2>2, ResumeCredit
  <2>3. CASE ~(Restart(w) \/ ResumeCheck(w) \/ ResumeClaim(w) \/ ResumeRearm(w)
               \/ ResumePutBack(w))
    <3>1. host' = host /\ \A v \in Workers \ {w} : wk'[v] = wk[v]
      BY <1>2, <2>3, WorkerMoves
    <3>2. l2c' = l2c /\ wk'[w].pc \notin Claims /\ wk[w].pc \notin Claims
      BY <1>2, <2>3, WorkerOutside
    <3> QED BY <3>1, <3>2, CreditSame
  <2> QED BY <2>1, <2>2, <2>3
<1> QED BY <1>1, <1>2, HostCredit, EnvironmentCredit DEF Next

\* If re-arming never fails in the host task, which ignores the outcome, the right to send is
\* never lost on the first data channel, whatever is aborted, times out, is written or fails
\* while the gate is shut: the peer has credit, the rearm is owed, or a worker carries it out
\* (transport_ble.cpp ResumeL2capRx, COC_DATA_RECEIVED).  Later channels keep it too when a
\* channel is never lost; one that follows a lost channel need not: a worker that took its
\* snapshot before the loss can claim the flag of the new channel and re-arm the old one.
THEOREM CreditIsKept ==
  ASSUME "pool_host" \notin Faults
  PROVE  Spec => [](l2c.opened <= 1 \/ Faults \cap {"channel", "link"} = {} => CreditAccounted)
<1>1. Init => CreditInv
  BY DEF Init, CreditInv, Snapshots, Balance, Task0, Claims
<1>2. IInv /\ CreditInv /\ [Next]_vars => CreditInv'
  BY NextCredit
<1>3. CreditInv => (l2c.opened <= 1 \/ Faults \cap {"channel", "link"} = {} => CreditAccounted)
  BY DEF CreditInv, Balance, OneChannel, NoChannelFault, CreditAccounted, Owed, Handling
<1> QED BY <1>1, <1>2, <1>3, Invariance, PTL DEF Spec

-----------------------------------------------------------------------------
(* The refinement of AtomicInstall, and one verdict for a session. *)

Session == IF IsBusy /\ rom.boot = rom.running THEN app.sid ELSE 0
Installed == rom.flash[rom.boot]
Previous == IF Trial THEN rom.flash[Other(rom.boot)] ELSE <<>>

\* What each action of the contract says under the refinement mapping.
LEMMA Mapped ==
  /\ Contract!Open <=> /\ Session = 0 /\ app.sid + 1 \in Sessions
                       /\ Session' = app.sid + 1 /\ app'.sid = app.sid + 1
                       /\ Installed' = Installed /\ Previous' = Previous /\ Trial' = Trial
  /\ Contract!Close <=> /\ Session # 0 /\ Session' = 0
                        /\ Installed' = Installed /\ Previous' = Previous /\ Trial' = Trial
                        /\ app'.sid = app.sid
  /\ Contract!Install <=> /\ Session # 0 /\ ~Trial
                          /\ Installed' = Image(Session) /\ Previous' = Installed
                          /\ Trial' = TRUE /\ Session' = 0 /\ app'.sid = app.sid
  /\ Contract!Confirm <=> /\ Trial /\ Trial' = FALSE /\ Previous' = <<>>
                          /\ Installed' = Installed /\ Session' = Session /\ app'.sid = app.sid
  /\ Contract!Rollback <=> /\ Trial
                           /\ Installed' = Previous /\ Previous' = <<>> /\ Trial' = FALSE
                           /\ Session' = Session /\ app'.sid = app.sid
  /\ (UNCHANGED Contract!avars) <=> /\ Installed' = Installed /\ Previous' = Previous /\ Trial' = Trial
                                    /\ Session' = Session /\ app'.sid = app.sid
BY DEF Contract!Open, Contract!Close, Contract!Install, Contract!Confirm, Contract!Rollback,
       Contract!avars, Session, Installed, Previous

AStep == Contract!ANext \/ UNCHANGED Contract!avars

\* The stage of the worker that owns the session, and the state of the session; and the
\* partition that is not running is never on trial.
Collecting(w) ==
  \/ wk[w].pc \in {"begin", "loop", "recv", "poll", "expire", "write", "gate"}
  \/ wk[w].pc \in Resuming /\ wk[w].ret # "notify"
Judging == {"verify", "end", "bootsel"}
StageInv ==
  /\ rom.img[Other(rom.running)] # "pending"
  /\ \A w \in Workers : /\ Collecting(w) => ota.state = "RECEIVING"
                        /\ wk[w].pc \in Judging => ota.state = "VERIFYING"

LEMMA StageOwns ==
  ASSUME NEW w \in Workers
  PROVE  Collecting(w) \/ wk[w].pc \in Judging \cup Rebooting => Owns(w) /\ wk[w].pc # "toidle"
BY DEF Collecting, Judging, Rebooting, Owns, Working, Resuming

\* Types of what a step reads.
LEMMA Typed ==
  ASSUME IInv
  PROVE  /\ ota \in Engines /\ wk \in [Workers -> Tasks] /\ rom \in Roms /\ app \in Apps
         /\ rom.running \in Parts /\ rom.boot \in Parts
         /\ Other(rom.running) \in Parts /\ Other(rom.running) # rom.running
         /\ Other(Other(rom.running)) = rom.running
         /\ app.sid \in 0..MaxSessions
<1>1. /\ ota \in Engines /\ wk \in [Workers -> Tasks] /\ rom \in Roms /\ app \in Apps
  BY TypeParts DEF IInv
<1>2. rom.running \in Parts /\ rom.boot \in Parts /\ app.sid \in 0..MaxSessions
  BY <1>1 DEF Roms, Apps
<1> QED BY <1>1, <1>2, OtherPart

\* A step of a worker other than the restart, seen from the stages.
LEMMA WorkerStage ==
  ASSUME IInv, StageInv, NEW w \in Workers, WorkerStep(w), ~Restart(w)
  PROVE  /\ Collecting(w)' => ota'.state = "RECEIVING"
         /\ wk'[w].pc \in Judging => ota'.state = "VERIFYING"
         /\ ota'.state \in {"RECEIVING", "VERIFYING"} => IsBusy
<1>a. ota \in Engines /\ wk \in [Workers -> Tasks] /\ wk[w].ret \in Returns
  BY Typed DEF Tasks, Returns
<1> DEFINE Goal == /\ Collecting(w)' => ota'.state = "RECEIVING"
                   /\ wk'[w].pc \in Judging => ota'.state = "VERIFYING"
                   /\ ota'.state \in {"RECEIVING", "VERIFYING"} => IsBusy
<1>s. Collecting(w) => ota.state = "RECEIVING"
  BY DEF StageInv
<1>v. wk[w].pc \in Judging => ota.state = "VERIFYING"
  BY DEF StageInv
<1>f. ASSUME NEW o \in Engines, NEW code, FailWith(w, code, o) PROVE Goal
  BY <1>a, <1>f, FailFacts DEF Collecting, Judging, Resuming
<1>1. CASE Begin(w)
  BY <1>1, <1>a, <1>s, GotoFacts DEF Begin, At, Collecting, Judging, Engines, IsBusy
<1>2. CASE BeginFails(w)
  <2>1. [ota EXCEPT !.handle = TRUE] \in Engines
    BY <1>a, EngineWith
  <2> QED BY <1>2, <1>a, <1>f, <2>1 DEF BeginFails
<1>3. CASE LoopDone(w)
  BY <1>3, <1>a, <1>s, GotoFacts DEF LoopDone, At, Collecting, Judging, Resuming, Engines, IsBusy
<1>4. CASE LoopAborted(w) \/ ReceiveTimeout(w)
  BY <1>4, <1>a, <1>f DEF LoopAborted, ReceiveTimeout
<1>5. CASE LoopReads(w) \/ PollAgain(w)
  BY <1>5, <1>s, <1>a, GotoFacts DEF LoopReads, PollAgain, At, Collecting, Judging, IsBusy
<1>6. CASE Receive(w)
  BY <1>6, <1>s, <1>a DEF Receive, At, Collecting, Judging, IsBusy, Tasks, Engines
<1>7. CASE ReceiveEmpty(w)
  BY <1>7, <1>s, <1>a DEF ReceiveEmpty, At, Collecting, Judging, IsBusy, Tasks
<1>8. CASE PollGate(w)
  BY <1>8, <1>s, <1>a, GotoFacts, CallFacts DEF PollGate, At, Collecting, Judging, Resuming, IsBusy
<1>9. CASE WriteChunk(w)
  BY <1>9, <1>s, <1>a DEF WriteChunk, At, Collecting, Judging, IsBusy, Tasks, Engines
<1>10. CASE WriteFails(w)
  <2>1. [ota EXCEPT !.sha = ota.sha \o wk[w].chunk] \in Engines
    <3>1. ota.sha \in Slices /\ wk[w].chunk \in Slices
      BY <1>a DEF Engines, Tasks
    <3>2. ota.sha \o wk[w].chunk \in Slices
      BY <3>1, SlicesClosed
    <3> QED BY <1>a, <3>2, EngineWith
  <2> QED BY <1>10, <2>1, <1>f DEF WriteFails
<1>11. CASE LiftGate(w)
  BY <1>11, <1>s, <1>a, GotoFacts, CallFacts DEF LiftGate, At, Collecting, Judging, Resuming, IsBusy
<1>12. CASE Verify(w)
  BY <1>12, <1>v, <1>a, <1>f, GotoFacts DEF Verify, At, Collecting, Judging, Resuming, IsBusy
<1>13. CASE EndImage(w)
  <2>0. [ota EXCEPT !.handle = FALSE] \in Engines
    BY <1>a, EngineWith
  <2>1. [ota EXCEPT !.handle = FALSE] \in Engines /\ [ota EXCEPT !.handle = FALSE].state = ota.state
    BY <1>a, <2>0 DEF Engines
  <2>2. CASE ota' = [ota EXCEPT !.handle = FALSE] /\ Goto(w, "bootsel")
    BY <1>13, <2>1, <2>2, <1>v, <1>a, GotoFacts DEF EndImage, At, Collecting, Judging, Resuming, IsBusy
  <2>3. CASE FailWith(w, 2036, [ota EXCEPT !.handle = FALSE])
    BY <2>1, <2>3, <1>f
  <2> QED BY <1>13, <2>2, <2>3 DEF EndImage
<1>14. CASE SelectBoot(w)
  <2>1. CASE Goto(w, "success") /\ ota' = ota
    BY <2>1, <1>a, GotoFacts DEF Collecting, Judging, Resuming, IsBusy
  <2>2. CASE FailWith(w, 2032, ota)
    BY <2>2, <1>a, <1>f
  <2> QED BY <1>14, <2>1, <2>2 DEF SelectBoot
<1>15. CASE Succeed(w)
  BY <1>15, <1>a, GotoFacts DEF Succeed, Collecting, Judging, Resuming, Engines
<1>16. CASE Cleanup(w)
  BY <1>16, <1>a, GotoFacts DEF Cleanup, CleanedUp, Engine0, Collecting, Judging, Resuming, IsBusy
<1>17. CASE ToIdle(w)
  BY <1>17, <1>a, CallFacts DEF ToIdle, Collecting, Judging, Resuming, Engines
<1>18. CASE NotifySnapshot(w) \/ NotifyTell(w)
  BY <1>18, <1>a DEF NotifySnapshot, NotifyTell, Task0, Collecting, Judging, Resuming, Tasks, IsBusy
<1>19. CASE ResumeCheck(w) \/ ResumeClaim(w) \/ ResumeRearm(w) \/ ResumePutBack(w)
  <2>1. ota' = ota /\ wk[w].pc \in Resuming
    BY <1>19 DEF ResumeCheck, ResumeClaim, ResumeRearm, ResumePutBack, At, Resuming
  <2>2. \/ wk' = Returned(w)
        \/ wk'[w].pc \in Resuming /\ wk'[w].ret = wk[w].ret
    BY <1>19, <1>a DEF ResumeCheck, ResumeClaim, ResumeRearm, ResumePutBack, Goto, Resuming, Tasks
  <2>3. CASE wk' = Returned(w)
    BY <2>1, <2>3, <1>a, <1>s, ReturnFacts DEF Collecting, Judging, Resuming, IsBusy, Returns
  <2>4. CASE wk'[w].pc \in Resuming /\ wk'[w].ret = wk[w].ret
    BY <2>1, <2>4, <1>s DEF Collecting, Judging, Resuming, IsBusy
  <2> QED BY <2>2, <2>3, <2>4
<1> QED BY <1>1, <1>2, <1>3, <1>4, <1>5, <1>6, <1>7, <1>8, <1>9, <1>10, <1>11, <1>12, <1>13,
           <1>14, <1>15, <1>16, <1>17, <1>18, <1>19 DEF WorkerStep

LEMMA WorkerStageInv ==
  ASSUME IInv, StageInv, NEW w \in Workers, WorkerStep(w), ~Restart(w)
  PROVE  StageInv'
<1>a. /\ rom \in Roms /\ rom.running \in Parts /\ Other(rom.running) \in Parts
      /\ Other(rom.running) # rom.running
  BY Typed
<1>o. Owns(w) /\ wk[w].pc # "toidle" => ota.part = Other(rom.running)
  BY OwnerFacts
<1>1. rom'.running = rom.running /\ rom'.img[Other(rom.running)] # "pending"
  <2>1. CASE rom' = rom
    BY <2>1 DEF StageInv
  <2>2. CASE Begin(w) \/ (BeginFails(w) /\ rom' = Erased) \/ WriteChunk(w)
    BY <2>2, <1>a DEF Begin, WriteChunk, Erased, StageInv, Roms
  <2>3. CASE At(w, "bootsel") /\ rom' = [rom EXCEPT !.boot = ota.part, !.img[ota.part] = "new"]
    <3>1. ota.part = Other(rom.running)
      BY <2>3, <1>o, StageOwns DEF At, Judging
    <3>2. rom'.running = rom.running /\ rom'.img[Other(rom.running)] = "new"
      BY <2>3, <3>1, <1>a, RomSelected
    <3> QED BY <3>2
  <2>4. CASE BeginFails(w) \/ SelectBoot(w)
    BY <2>1, <2>2, <2>3, <2>4 DEF BeginFails, SelectBoot
  <2>5. CASE ~(Begin(w) \/ BeginFails(w) \/ WriteChunk(w) \/ SelectBoot(w))
    <3>1. rom' = rom
      BY <2>5 DEF WorkerStep, LoopDone, LoopAborted, LoopReads, Receive, ReceiveEmpty, PollGate, PollAgain,
         ReceiveTimeout, WriteFails, LiftGate, Verify, EndImage, Succeed, Cleanup, ToIdle, NotifySnapshot,
         NotifyTell, ResumeCheck, ResumeClaim, ResumeRearm, ResumePutBack
    <3> QED BY <2>1, <3>1
  <2> QED BY <2>2, <2>4, <2>5
<1>2. /\ \A v \in Workers \ {w} : wk'[v] = wk[v]
      /\ ~Owns(w) => ota' = ota
  BY WorkerMoves
<1>3. ASSUME NEW v \in Workers
      PROVE  /\ Collecting(v)' => ota'.state = "RECEIVING"
             /\ wk'[v].pc \in Judging => ota'.state = "VERIFYING"
  <2>1. CASE v = w
    BY <2>1, WorkerStage
  <2>2. CASE v # w /\ Owns(w)
    <3>1. ~Owns(v)
      BY <2>2, OwnerFacts
    <3> QED BY <2>2, <3>1, <1>2, StageOwns DEF Collecting
  <2>3. CASE v # w /\ ~Owns(w)
    BY <2>3, <1>2 DEF StageInv, Collecting
  <2> QED BY <2>1, <2>2, <2>3
<1> QED BY <1>1, <1>3 DEF StageInv

LEMMA ResetStage ==
  ASSUME IInv, StageInv, Reset
  PROVE  StageInv'
<1>a. /\ rom \in Roms /\ rom.running \in Parts /\ rom.boot \in Parts
      /\ Other(rom.running) \in Parts /\ Other(rom.running) # rom.running
      /\ Other(Other(rom.running)) = rom.running
  BY Typed
<1>1. \A v \in Workers : ~Collecting(v)' /\ wk'[v].pc \notin Judging
  BY ResetControl DEF Collecting, Judging, Resuming
<1>2. rom'.img[Other(rom'.running)] # "pending"
  <2>1. CASE Switched
    <3>1. rom.boot = Other(rom.running) /\ rom.img[rom.boot] = "new" /\ rom.img[rom.running] # "pending"
      <4>1. PICK w \in Workers : wk[w].pc \in Rebooting
        BY <2>1 DEF Switched, Rebooting
      <4>2. Owns(w)
        BY <4>1, StageOwns
      <4> QED BY <2>1, <4>2 DEF IInv, ImageInv
    <3>2. rom' = [rom EXCEPT !.img[rom.boot] = "pending", !.running = rom.boot]
      BY <3>1 DEF Reset, BootLoader
    <3>3. rom'.running = rom.boot /\ rom'.img[rom.running] = rom.img[rom.running]
      BY <1>a, <3>1, <3>2, RomTried
    <3> QED BY <1>a, <3>1, <3>3
  <2>2. CASE ~Switched /\ rom.img[rom.boot] = "pending"
    <3>1. rom.boot = rom.running
      BY <2>2 DEF IInv, ImageInv
    <3>2. rom' = [rom EXCEPT !.img[rom.boot] = "aborted", !.boot = Other(rom.boot),
                             !.running = Other(rom.boot)]
      BY <2>2 DEF Reset, BootLoader
    <3>3. rom'.running = Other(rom.running) /\ rom'.img[rom.running] = "aborted"
      BY <1>a, <3>1, <3>2, RomRolledBack
    <3> QED BY <1>a, <3>3
  <2>3. CASE ~Switched /\ rom.img[rom.boot] # "pending"
    <3>1. rom.boot = rom.running /\ rom.img[rom.boot] # "new"
      BY <2>3 DEF IInv, ImageInv
    <3>2. rom' = [rom EXCEPT !.running = rom.boot]
      BY <2>3, <3>1 DEF Reset, BootLoader
    <3>3. rom'.running = rom.running /\ rom'.img = rom.img
      BY <1>a, <3>1, <3>2 DEF Roms
    <3> QED BY <3>3 DEF StageInv
  <2> QED BY <2>1, <2>2, <2>3
<1> QED BY <1>1, <1>2 DEF StageInv

LEMMA OthersStage ==
  ASSUME IInv, StageInv, HostStep \/ BoardAbortStore \/ Environment
  PROVE  StageInv'
<1>a. /\ ota \in Engines /\ wk \in [Workers -> Tasks] /\ rom \in Roms /\ rom.running \in Parts
      /\ Other(rom.running) \in Parts /\ Other(rom.running) # rom.running
  BY Typed
<1>s. ASSUME wk' = wk, rom' = rom, ota'.state = ota.state PROVE StageInv'
  BY <1>s DEF StageInv, Collecting
<1>1. CASE AbortStore \/ BoardAbortStore \/ HostStep
  <2>1. ota'.state = ota.state
    BY <1>1, <1>a DEF AbortStore, BoardAbortStore, HostStep, SliceCheck, SliceSend, SliceCount, DataRearm,
       DataHold, Engines
  <2> QED BY <1>1, <1>s, <2>1 DEF AbortStore, BoardAbortStore, HostStep, SliceCheck, SliceSend, SliceCount,
       DataRearm, DataHold
<1>2. CASE AbortOta \/ BoardAbort \/ AppAudio \/ AppSwitch \/ ChannelUp \/ ChannelDown \/ LinkDown
            \/ \E n \in 1..MaxSdu : AppPush(n)
  BY <1>2, <1>s DEF AbortOta, BoardAbort, AppAudio, AppSwitch, ChannelUp, ChannelDown, LinkDown, AppPush
<1>3. CASE \E w \in Workers : StartOta(w)
  <2> PICK w \in Workers : StartOta(w)
    BY <1>3
  <2>1. \A v \in Workers : ~Owns(v)
    BY DEF StartOta, CanStart, IInv, OneOwner
  <2>2. wk'[w].pc = "begin" /\ \A v \in Workers \ {w} : wk'[v] = wk[v]
    BY <1>a, GotoFacts DEF StartOta
  <2>3. rom' = rom /\ ota'.state = "RECEIVING"
    BY DEF StartOta, NewSession, Engine0
  <2>4. \A v \in Workers \ {w} : ~Collecting(v)' /\ wk'[v].pc \notin Judging
    BY <2>1, <2>2, StageOwns DEF Collecting
  <2> QED BY <2>2, <2>3, <2>4 DEF StageInv, Judging
<1>4. CASE StartOtaNoTask
  <2>1. \A v \in Workers : ~Collecting(v) /\ wk[v].pc \notin Judging
    BY <1>4, StageOwns DEF StartOtaNoTask, CanStart, IInv, OneOwner
  <2> QED BY <1>4, <2>1 DEF StartOtaNoTask, StageInv, Collecting
<1>5. CASE LinkUp
  <2>1. rom'.running = rom.running /\ rom'.img[Other(rom.running)] = rom.img[Other(rom.running)]
    BY <1>5, <1>a DEF LinkUp, Roms
  <2> QED BY <1>5, <2>1 DEF LinkUp, StageInv, Collecting
<1>6. CASE PowerLoss
  BY <1>6, ResetStage DEF PowerLoss
<1> QED BY <1>1, <1>2, <1>3, <1>4, <1>5, <1>6 DEF Environment

-----------------------------------------------------------------------------
(* Every step is a step of the contract, or none. *)

LEMMA Boots ==
  ASSUME IInv
  PROVE  /\ Switched => rom.boot = Other(rom.running) /\ Trial /\ Session = 0
         /\ ~Switched => rom.boot = rom.running /\ (Trial <=> rom.img[rom.running] = "pending")
         /\ \A w \in Workers : Owns(w) => rom.img[rom.running] # "pending"
         /\ \A w \in Workers : Owns(w) /\ wk[w].pc \notin Rebooting => ~Switched /\ ~Trial
         /\ ota.state = "IDLE" => ~Switched
<1>1. Switched => rom.boot = Other(rom.running) /\ Trial /\ Session = 0
  <2>1. Switched => rom.boot = Other(rom.running) /\ rom.img[rom.boot] = "new"
    BY DEF IInv, ImageInv
  <2>2. Other(rom.running) # rom.running
    BY Typed
  <2> QED BY <2>1, <2>2 DEF Trial, Session
<1>2. ~Switched => rom.boot = rom.running /\ (Trial <=> rom.img[rom.running] = "pending")
  BY DEF IInv, ImageInv, Trial
<1>3. \A w \in Workers : Owns(w) => rom.img[rom.running] # "pending"
  BY DEF IInv, ImageInv
<1>4. ASSUME NEW w \in Workers, Owns(w), wk[w].pc \notin Rebooting PROVE ~Switched
  <2>1. \A v \in Workers : wk[v].pc \in Rebooting => v = w
    BY <1>4, StageOwns, OwnerFacts
  <2> QED BY <1>4, <2>1 DEF Switched, Rebooting
<1>5. ota.state = "IDLE" => ~Switched
  BY StageOwns DEF Switched, Rebooting, IInv, OneOwner
<1> QED BY <1>1, <1>2, <1>3, <1>4, <1>5

\* The flash is left alone, and no session opens.
LEMMA Quiet ==
  ASSUME IInv, rom' = rom, app'.sid = app.sid, IsBusy' => IsBusy
  PROVE  AStep
<1>1. Installed' = Installed /\ Previous' = Previous /\ Trial' = Trial
  BY DEF Installed, Previous, Trial
<1>2. Session' = Session \/ (Session # 0 /\ Session' = 0)
  BY DEF Session
<1> QED BY <1>1, <1>2, Mapped DEF AStep, Contract!ANext

\* Only the partition that is not running is written, before the switch.
LEMMA Writes ==
  ASSUME IInv, NEW w \in Workers, Owns(w), wk[w].pc \notin Rebooting, wk[w].pc # "toidle",
         NEW x, rom' = [rom EXCEPT !.flash[ota.part] = x], app' = app, IsBusy' => IsBusy
  PROVE  AStep
<1>1. rom.boot = rom.running /\ ~Trial /\ ota.part = Other(rom.running) /\ ota.part # rom.running
  BY Boots, OwnerFacts, Typed
<1>2. /\ rom'.boot = rom.boot /\ rom'.running = rom.running /\ rom'.img = rom.img
      /\ rom'.flash[rom.running] = rom.flash[rom.running]
  BY <1>1, Typed DEF Roms
<1>3. Trial' = Trial
  BY <1>2 DEF Trial
<1>4. Installed' = Installed /\ Previous' = Previous
  BY <1>1, <1>2, <1>3 DEF Installed, Previous
<1>5. Session' = Session \/ (Session # 0 /\ Session' = 0)
  BY <1>2 DEF Session
<1> QED BY <1>3, <1>4, <1>5, Mapped DEF AStep, Contract!ANext

LEMMA ResetInstalls ==
  ASSUME IInv, StageInv, Reset
  PROVE  AStep
<1>a. /\ rom \in Roms /\ rom.running \in Parts /\ rom.boot \in Parts
      /\ Other(rom.running) \in Parts /\ Other(rom.running) # rom.running
      /\ Other(Other(rom.running)) = rom.running
  BY Typed
<1>b. app'.sid = app.sid /\ Session' = 0
  BY DEF Reset, Engine0, Session, IsBusy
<1>1. CASE Switched
  <2>1. rom.boot = Other(rom.running) /\ rom.img[rom.boot] = "new" /\ Trial /\ Session = 0
    BY <1>1, Boots DEF IInv, ImageInv
  <2>2. rom' = [rom EXCEPT !.img[rom.boot] = "pending", !.running = rom.boot]
    BY <2>1 DEF Reset, BootLoader
  <2>3. rom'.flash = rom.flash /\ rom'.boot = rom.boot /\ rom'.img[rom.boot] = "pending"
    BY <1>a, <2>1, <2>2, RomTried
  <2>4. Trial' = Trial /\ Installed' = Installed /\ Previous' = Previous
    BY <2>1, <2>3 DEF Trial, Installed, Previous
  <2> QED BY <1>b, <2>1, <2>4, Mapped DEF AStep
<1>2. CASE ~Switched /\ rom.img[rom.boot] = "pending"
  <2>1. rom.boot = rom.running /\ Trial /\ rom.img[Other(rom.running)] \notin {"new", "pending"}
    BY <1>2, Boots DEF IInv, ImageInv, StageInv
  <2>2. rom' = [rom EXCEPT !.img[rom.boot] = "aborted", !.boot = Other(rom.boot),
                           !.running = Other(rom.boot)]
    BY <1>2 DEF Reset, BootLoader
  <2>3. /\ rom'.flash = rom.flash /\ rom'.boot = Other(rom.running)
        /\ rom'.img[Other(rom.running)] = rom.img[Other(rom.running)]
    BY <1>a, <2>1, <2>2, RomRolledBack
  <2>4. Trial' = FALSE /\ Installed' = Previous /\ Previous' = <<>>
    BY <2>1, <2>3 DEF Trial, Installed, Previous
  <2>5. Session = 0
    <3>1. \A w \in Workers : ~Owns(w)
      BY <1>2, <2>1, Boots
    <3> QED BY <3>1 DEF Session, IsBusy, IInv, OneOwner
  <2> QED BY <1>b, <2>1, <2>4, <2>5, Mapped DEF AStep, Contract!ANext
<1>3. CASE ~Switched /\ rom.img[rom.boot] # "pending"
  <2>1. rom.boot = rom.running /\ rom.img[rom.boot] # "new"
    BY <1>3 DEF IInv, ImageInv
  <2>2. rom' = [rom EXCEPT !.running = rom.boot]
    BY <1>3, <2>1 DEF Reset, BootLoader
  <2>3. rom'.flash = rom.flash /\ rom'.boot = rom.boot /\ rom'.img = rom.img
    BY <1>a, <2>2 DEF Roms
  <2>4. Trial' = Trial /\ Installed' = Installed /\ Previous' = Previous
    BY <2>3 DEF Trial, Installed, Previous
  <2> QED BY <1>b, <2>4, Mapped DEF AStep, Contract!ANext
<1> QED BY <1>1, <1>2, <1>3

LEMMA SelectInstalls ==
  ASSUME IInv, StageInv, NEW w \in Workers, SelectBoot(w), rom' # rom
  PROVE  AStep
<1>a. /\ rom \in Roms /\ rom.running \in Parts /\ Other(rom.running) \in Parts
      /\ Other(rom.running) # rom.running /\ Other(Other(rom.running)) = rom.running
  BY Typed
<1>1. Owns(w) /\ wk[w].pc = "bootsel" /\ wk[w].pc \notin Rebooting /\ wk[w].pc # "toidle"
  BY StageOwns DEF SelectBoot, At, Judging, Rebooting
<1>2. /\ rom.boot = rom.running /\ ~Trial /\ app.sid \in Sessions /\ ota.part = Other(rom.running)
  BY <1>1, Boots, OwnerFacts
<1>3. rom.flash[ota.part] = Image(app.sid)
  BY <1>1 DEF IInv, ImageInv, Digesting
<1>4. Session = app.sid /\ Session # 0
  BY <1>1, <1>2 DEF StageInv, Judging, Session, IsBusy, Sessions
<1>5. rom' = [rom EXCEPT !.boot = ota.part, !.img[ota.part] = "new"] /\ app' = app
  BY DEF SelectBoot
<1>6. /\ rom'.boot = ota.part /\ rom'.running = rom.running /\ rom'.flash = rom.flash
      /\ rom'.img[ota.part] = "new"
  BY <1>a, <1>2, <1>5, RomSelected
<1>7. Trial' = TRUE /\ Installed' = Image(app.sid) /\ Previous' = Installed /\ Session' = 0
  BY <1>a, <1>2, <1>3, <1>6 DEF Trial, Installed, Previous, Session
<1> QED BY <1>2, <1>4, <1>5, <1>7, Mapped DEF AStep, Contract!ANext

LEMMA WorkerInstalls ==
  ASSUME IInv, StageInv, NEW w \in Workers, WorkerStep(w)
  PROVE  AStep
<1>1. CASE Restart(w)
  BY <1>1, ResetInstalls DEF Restart
<1>2. CASE ~Restart(w)
  <2>1. (IsBusy' => IsBusy) /\ app' = app
    BY <1>2, WorkerStage, WorkerMoves DEF IsBusy
  <2>2. CASE rom' = rom
    BY <2>1, <2>2, Quiet
  <2>3. CASE Begin(w) \/ (BeginFails(w) /\ rom' = Erased)
    <3>1. Owns(w) /\ wk[w].pc \notin Rebooting /\ wk[w].pc # "toidle"
      BY <2>3, StageOwns DEF Begin, BeginFails, At, Collecting, Rebooting
    <3>2. rom' = [rom EXCEPT !.flash[ota.part] = <<>>]
      BY <2>3 DEF Begin, Erased
    <3> QED BY <2>1, <3>1, <3>2, Writes
  <2>4. CASE WriteChunk(w)
    <3>1. Owns(w) /\ wk[w].pc \notin Rebooting /\ wk[w].pc # "toidle"
      BY <2>4, StageOwns DEF WriteChunk, At, Collecting, Rebooting
    <3>2. rom' = [rom EXCEPT !.flash[ota.part] = rom.flash[ota.part] \o wk[w].chunk]
      BY <2>4 DEF WriteChunk
    <3> QED BY <2>1, <3>1, <3>2, Writes
  <2>5. CASE SelectBoot(w) /\ rom' # rom
    BY <2>5, SelectInstalls
  <2>6. CASE ~(Begin(w) \/ BeginFails(w) \/ WriteChunk(w) \/ SelectBoot(w))
    <3>1. rom' = rom
      BY <1>2, <2>6 DEF WorkerStep, LoopDone, LoopAborted, LoopReads, Receive, ReceiveEmpty, PollGate,
         PollAgain, ReceiveTimeout, WriteFails, LiftGate, Verify, EndImage, Succeed, Cleanup, ToIdle,
         NotifySnapshot, NotifyTell, ResumeCheck, ResumeClaim, ResumeRearm, ResumePutBack
    <3> QED BY <2>2, <3>1
  <2>7. CASE BeginFails(w)
    BY <2>2, <2>3, <2>7 DEF BeginFails
  <2> QED BY <2>2, <2>3, <2>4, <2>5, <2>6, <2>7
<1> QED BY <1>1, <1>2

LEMMA StartInstalls ==
  ASSUME IInv, StageInv, NEW w \in Workers, StartOta(w)
  PROVE  AStep
<1>1. ~IsBusy /\ rom.boot = rom.running
  BY Boots DEF StartOta, CanStart, IsBusy
<1>2. app'.sid = app.sid + 1 /\ app.sid + 1 \in Sessions
  BY Typed, OtaAssumption DEF StartOta, Apps, Sessions
<1>3. IsBusy' /\ rom' = rom
  BY DEF StartOta, NewSession, Engine0, IsBusy
<1>4. Session = 0 /\ Session' = app.sid + 1
  BY <1>1, <1>2, <1>3 DEF Session
<1>5. Installed' = Installed /\ Previous' = Previous /\ Trial' = Trial
  BY <1>3 DEF Installed, Previous, Trial
<1> QED BY <1>2, <1>4, <1>5, Mapped DEF AStep, Contract!ANext

LEMMA LinkInstalls ==
  ASSUME IInv, StageInv, LinkUp
  PROVE  AStep
<1>a. rom \in Roms /\ rom.running \in Parts /\ rom.boot \in Parts
  BY Typed
<1>1. CASE rom.img[rom.running] = "pending"
  <2>1. ~Switched /\ Trial /\ rom.boot = rom.running
    <3>1. ~Switched
      <4>1. \A w \in Workers : ~Owns(w)
        BY <1>1, Boots
      <4> QED BY <4>1, StageOwns DEF Switched, Rebooting
    <3> QED BY <1>1, <3>1, Boots
  <2>2. /\ rom'.flash = rom.flash /\ rom'.boot = rom.boot /\ rom'.running = rom.running
        /\ rom'.img[rom.running] = "valid"
    BY <1>a, <1>1 DEF LinkUp, Roms
  <2>3. Trial' = FALSE /\ Previous' = <<>> /\ Installed' = Installed
    BY <2>1, <2>2 DEF Trial, Previous, Installed
  <2>4. Session' = Session /\ app' = app
    BY <2>2 DEF LinkUp, Session, IsBusy
  <2> QED BY <2>1, <2>3, <2>4, Mapped DEF AStep, Contract!ANext
<1>2. CASE rom.img[rom.running] # "pending"
  <2>1. rom' = rom
    BY <1>a, <1>2 DEF LinkUp, Roms
  <2> QED BY <2>1, Quiet DEF LinkUp, IsBusy
<1> QED BY <1>1, <1>2

LEMMA OthersInstall ==
  ASSUME IInv, StageInv, HostStep \/ BoardAbortStore \/ Environment
  PROVE  AStep
<1>a. ota \in Engines /\ app \in Apps
  BY Typed
<1>1. CASE AbortStore \/ BoardAbortStore \/ HostStep
  <2>1. ota'.state = ota.state
    BY <1>1, <1>a DEF AbortStore, BoardAbortStore, HostStep, SliceCheck, SliceSend, SliceCount, DataRearm,
       DataHold, Engines
  <2>2. rom' = rom /\ app' = app
    BY <1>1 DEF AbortStore, BoardAbortStore, HostStep, SliceCheck, SliceSend, SliceCount, DataRearm, DataHold
  <2> QED BY <2>1, <2>2, Quiet DEF IsBusy
<1>2. CASE AbortOta \/ BoardAbort \/ ChannelUp \/ ChannelDown \/ LinkDown
  BY <1>2, Quiet DEF AbortOta, BoardAbort, ChannelUp, ChannelDown, LinkDown, IsBusy
<1>3. CASE AppAudio \/ AppSwitch \/ \E n \in 1..MaxSdu : AppPush(n)
  <2>1. app'.sid = app.sid /\ rom' = rom /\ ota' = ota
    BY <1>3, <1>a DEF AppAudio, AppSwitch, AppPush, Apps
  <2> QED BY <2>1, Quiet DEF IsBusy
<1>4. CASE StartOtaNoTask
  BY <1>4, Quiet DEF StartOtaNoTask, Engine0, IsBusy
<1>5. CASE PowerLoss
  BY <1>5, ResetInstalls DEF PowerLoss
<1> QED BY <1>1, <1>2, <1>3, <1>4, <1>5, StartInstalls, LinkInstalls DEF Environment

LEMMA InitInstalls == Init => StageInv /\ Contract!AInit
<1> SUFFICES ASSUME Init PROVE StageInv /\ Contract!AInit
  OBVIOUS
<1>1. \A w \in Workers : wk[w].pc = "free"
  BY DEF Init, Task0
<1>2. rom.boot = "ota_0" /\ rom.running = "ota_0" /\ rom.flash["ota_0"] = Image(0)
      /\ rom.img["ota_0"] = "valid" /\ rom.img["ota_1"] = "valid"
  BY DEF Init, Parts
<1>3. ~IsBusy /\ app.sid = 0
  BY DEF Init, Engine0, IsBusy
<1>4. StageInv
  BY <1>1, <1>2 DEF StageInv, Collecting, Judging, Resuming, Other
<1>5. Contract!AInit
  BY <1>2, <1>3 DEF Contract!AInit, Trial
<1> QED BY <1>4, <1>5

LEMMA NextStage ==
  ASSUME IInv, StageInv, [Next]_vars
  PROVE  StageInv'
<1>1. CASE UNCHANGED vars
  BY <1>1 DEF vars, StageInv, Collecting
<1>2. ASSUME NEW w \in Workers, WorkerStep(w) PROVE StageInv'
  BY <1>2, WorkerStageInv, ResetStage DEF Restart
<1> QED BY <1>1, <1>2, OthersStage DEF Next

\* An upgrade is an atomic install, for any buffer, image size, number of tasks, sessions and
\* faults: whatever worker, host task, App, link and power do, each step either leaves the image
\* that will boot, its fallback and the open session alone, or opens or closes a session,
\* installs the whole image of the open one, confirms it or rolls it back (ota_service.cpp).
THEOREM Implements == Spec => InstallsAtomically
<1>1. IInv /\ StageInv /\ [Next]_vars => StageInv' /\ AStep
  <2> SUFFICES ASSUME IInv, StageInv, [Next]_vars PROVE AStep
    BY NextStage
  <2>1. ASSUME NEW w \in Workers, WorkerStep(w) PROVE AStep
    BY <2>1, WorkerInstalls
  <2>2. CASE HostStep \/ BoardAbortStore \/ Environment
    BY <2>2, OthersInstall
  <2>3. CASE UNCHANGED vars
    <3>1. ota' = ota /\ wk' = wk /\ rom' = rom /\ app' = app
      BY <2>3 DEF vars
    <3> QED BY <3>1, Quiet DEF IsBusy
  <2> QED BY <2>1, <2>2, <2>3 DEF Next
<1>2. AStep => [Contract!ANext]_(Contract!avars)
  BY DEF AStep
<1> QED BY InitInstalls, Invariance, <1>1, <1>2, PTL DEF Spec, InstallsAtomically, Contract!ASpec

-----------------------------------------------------------------------------
(* What was reported of an image that can be started. *)

Sound(p) == \A s \in Sessions :
  rom.flash[p] = Image(s) => /\ s <= app.sid
                             /\ ota.state # "IDLE" => s < app.sid
                             /\ reports[s] \in {<<>>, <<0>>}
Reported == {"restart", "cleanup", "toidle"}
VerdictInv ==
  /\ \A s \in Sessions : Len(reports[s]) <= 1 /\ (s > app.sid => reports[s] = <<>>)
  /\ \A w \in Workers : /\ Owns(w) /\ wk[w].pc \notin Reported => reports[app.sid] = <<>>
                        /\ wk[w].pc = "restart" => reports[app.sid] = <<0>>
  /\ Sound(rom.running)
  /\ rom.img[rom.running] = "pending" => Sound(Other(rom.running))

LEMMA ImagesDiffer ==
  ASSUME NEW s \in 0..MaxSessions, NEW t \in 0..MaxSessions, Image(s) = Image(t)
  PROVE  s = t
<1>1. Image(s)[1] = <<s, 1>> /\ Image(t)[1] = <<t, 1>>
  BY OtaAssumption DEF Image
<1> QED BY <1>1

\* A worker reports at most the verdict of the session it owns, before it leaves it.
Reports(w, code) ==
  /\ Owns(w) /\ wk[w].pc \notin Reported
  /\ reports' = [reports EXCEPT ![app.sid] = Append(@, code)]
  /\ wk'[w].pc \in Reported /\ (wk'[w].pc = "restart" => code = 0)

LEMMA WorkerReports ==
  ASSUME IInv, NEW w \in Workers, WorkerStep(w), ~Restart(w)
  PROVE  \/ \E code \in Codes : Reports(w, code)
         \/ /\ reports' = reports /\ wk'[w].pc # "restart"
            /\ Owns(w)' /\ wk'[w].pc \notin Reported => Owns(w) /\ wk[w].pc \notin Reported
<1>a. ota \in Engines /\ wk \in [Workers -> Tasks] /\ wk[w].ret \in Returns
  BY Typed DEF Tasks, Returns
<1>w. Owns(w)' <=> Owns(w) /\ wk[w].pc # "toidle"
  BY WorkerMoves
<1>f. ASSUME NEW o \in Engines, NEW code \in Codes, FailWith(w, code, o), wk[w].pc \in Working \ Reported
      PROVE  \E c \in Codes : Reports(w, c)
  <2>1. Reports(w, code)
    BY <1>a, <1>f, FailFacts DEF FailWith, Reports, Owns, Reported
  <2> QED BY <2>1
<1>1. CASE BeginFails(w)
  <2>1. [ota EXCEPT !.handle = TRUE] \in Engines
    BY <1>a, EngineWith
  <2> QED BY <1>1, <1>a, <1>f, <2>1 DEF BeginFails, At, Codes, Working, Reported
<1>2. CASE LoopAborted(w) \/ ReceiveTimeout(w)
  BY <1>2, <1>a, <1>f DEF LoopAborted, ReceiveTimeout, At, Codes, Working, Reported
<1>3. CASE WriteFails(w)
  <2>1. ota.sha \in Slices /\ wk[w].chunk \in Slices
    BY <1>a DEF Engines, Tasks
  <2>2. ota.sha \o wk[w].chunk \in Slices
    BY <2>1, SlicesClosed
  <2>3. [ota EXCEPT !.sha = ota.sha \o wk[w].chunk] \in Engines
    BY <1>a, <2>2, EngineWith
  <2> QED BY <1>3, <1>f, <2>3 DEF WriteFails, At, Codes, Working, Reported
<1>4. CASE Verify(w)
  <2>1. ASSUME NEW code \in {1005, 2034}, FailWith(w, code, ota) PROVE \E c \in Codes : Reports(w, c)
    BY <1>4, <2>1, <1>a, <1>f DEF Verify, At, Codes, Working, Reported
  <2>2. CASE Goto(w, "end") /\ reports' = reports
    BY <1>4, <2>2, <1>a, <1>w, GotoFacts DEF Verify, At, Reported
  <2> QED BY <1>4, <2>1, <2>2 DEF Verify
<1>5. CASE EndImage(w)
  <2>1. [ota EXCEPT !.handle = FALSE] \in Engines
    BY <1>a, EngineWith
  <2>2. CASE FailWith(w, 2036, [ota EXCEPT !.handle = FALSE])
    BY <1>5, <2>1, <2>2, <1>f DEF EndImage, At, Codes, Working, Reported
  <2>3. CASE Goto(w, "bootsel") /\ reports' = reports
    BY <1>5, <2>3, <1>a, <1>w, GotoFacts DEF EndImage, At, Reported
  <2> QED BY <1>5, <2>2, <2>3 DEF EndImage
<1>6. CASE SelectBoot(w)
  <2>1. CASE FailWith(w, 2032, ota)
    BY <1>6, <2>1, <1>a, <1>f DEF SelectBoot, At, Codes, Working, Reported
  <2>2. CASE Goto(w, "success") /\ reports' = reports
    BY <1>6, <2>2, <1>a, <1>w, GotoFacts DEF SelectBoot, At, Reported
  <2> QED BY <1>6, <2>1, <2>2 DEF SelectBoot
<1>7. CASE Succeed(w)
  <2>1. Reports(w, 0)
    BY <1>7, <1>a, GotoFacts DEF Succeed, At, Reports, Owns, Working, Reported
  <2> QED BY <2>1 DEF Codes
<1>8. CASE Begin(w) \/ LoopDone(w) \/ LoopReads(w) \/ PollAgain(w) \/ Cleanup(w)
  BY <1>8, <1>a, <1>w, GotoFacts DEF Begin, LoopDone, LoopReads, PollAgain, Cleanup, At, Reported
<1>9. CASE PollGate(w) \/ LiftGate(w) \/ ToIdle(w)
  BY <1>9, <1>a, <1>w, GotoFacts, CallFacts DEF PollGate, LiftGate, ToIdle, At, Reported
<1>10. CASE Receive(w)
  BY <1>10, <1>a, <1>w DEF Receive, At, Reported, Tasks
<1>11. CASE ReceiveEmpty(w) \/ WriteChunk(w)
  BY <1>11, <1>a, <1>w DEF ReceiveEmpty, WriteChunk, At, Reported, Tasks
<1>12. CASE NotifySnapshot(w) \/ NotifyTell(w)
  BY <1>12, <1>a, <1>w DEF NotifySnapshot, NotifyTell, Task0, At, Reported, Tasks
<1>13. CASE ResumeCheck(w) \/ ResumeClaim(w) \/ ResumeRearm(w) \/ ResumePutBack(w)
  <2>1. reports' = reports /\ wk[w].pc \notin Reported
    BY <1>13 DEF ResumeCheck, ResumeClaim, ResumeRearm, ResumePutBack, At, Reported
  <2>2. wk' = Returned(w) \/ wk'[w].pc \in Resuming
    BY <1>13, <1>a DEF ResumeCheck, ResumeClaim, ResumeRearm, ResumePutBack, Goto, Resuming, Tasks
  <2>3. wk'[w].pc # "restart"
    BY <2>2, <1>a, ReturnFacts DEF Resuming, Returns
  <2> QED BY <2>1, <2>3, <1>w
<1> QED BY <1>1, <1>2, <1>3, <1>4, <1>5, <1>6, <1>7, <1>8, <1>9, <1>10, <1>11, <1>12, <1>13
        DEF WorkerStep

\* What a worker step leaves of the partition that is running.
LEMMA WorkerLeaves ==
  ASSUME IInv, StageInv, NEW w \in Workers, WorkerStep(w), ~Restart(w)
  PROVE  /\ rom'.running = rom.running /\ rom'.flash[rom.running] = rom.flash[rom.running]
         /\ rom'.img[rom.running] = rom.img[rom.running]
         /\ ~Owns(w) => rom' = rom
<1>a. rom \in Roms /\ rom.running \in Parts /\ Other(rom.running) # rom.running
  BY Typed
<1>1. CASE rom' = rom
  BY <1>1
<1>2. CASE Begin(w) \/ BeginFails(w) \/ WriteChunk(w) \/ SelectBoot(w)
  <2>1. Owns(w) /\ ota.part = Other(rom.running)
    <3>0. wk[w].pc \in {"begin", "write", "bootsel"}
      BY <1>2 DEF Begin, BeginFails, WriteChunk, SelectBoot, At
    <3>1. Owns(w) /\ wk[w].pc # "toidle"
      BY <3>0 DEF Owns, Working
    <3> QED BY <3>1, OwnerFacts
  <2>2. CASE rom' = Erased
    BY <2>1, <2>2, <1>a DEF Erased, Roms
  <2>3. CASE WriteChunk(w)
    BY <2>1, <2>3, <1>a DEF WriteChunk, Roms
  <2>4. CASE rom' = [rom EXCEPT !.boot = ota.part, !.img[ota.part] = "new"]
    BY <2>1, <2>4, <1>a DEF Roms
  <2> QED BY <1>1, <1>2, <2>1, <2>2, <2>3, <2>4 DEF Begin, BeginFails, SelectBoot
<1>3. CASE ~(Begin(w) \/ BeginFails(w) \/ WriteChunk(w) \/ SelectBoot(w))
  <2>1. rom' = rom
    BY <1>3 DEF WorkerStep, LoopDone, LoopAborted, LoopReads, Receive, ReceiveEmpty, PollGate,
       PollAgain, ReceiveTimeout, WriteFails, LiftGate, Verify, EndImage, Succeed, Cleanup, ToIdle,
       NotifySnapshot, NotifyTell, ResumeCheck, ResumeClaim, ResumeRearm, ResumePutBack
  <2> QED BY <2>1
<1> QED BY <1>2, <1>3

LEMMA WorkerVerdict ==
  ASSUME IInv, StageInv, VerdictInv, NEW w \in Workers, WorkerStep(w), ~Restart(w)
  PROVE  VerdictInv'
<1>a. /\ wk \in [Workers -> Tasks] /\ app.sid \in 0..MaxSessions /\ rom.running \in Parts
      /\ reports \in [Sessions -> Seq(Nat)]
  BY Typed, TypeParts DEF IInv
<1>b. /\ \A v \in Workers \ {w} : wk'[v] = wk[v]
      /\ app' = app
      /\ ota'.state # "IDLE" => ota.state # "IDLE"
  BY WorkerMoves
<1>c. /\ rom'.running = rom.running /\ rom'.flash[rom.running] = rom.flash[rom.running]
      /\ rom'.img[rom.running] = rom.img[rom.running]
      /\ ~Owns(w) => rom' = rom
  BY WorkerLeaves
<1>d. rom.img[rom.running] = "pending" => ~Owns(w)
  BY Boots
<1>1. CASE \E code \in Codes : Reports(w, code)
  <2> PICK code \in Codes : Reports(w, code)
    BY <1>1
  <2>1. /\ Owns(w) /\ app.sid \in Sessions /\ ota.state # "IDLE"
        /\ \A v \in Workers \ {w} : ~Owns(v) /\ wk[v].pc \notin Rebooting
    <3>1. Owns(w)
      BY DEF Reports
    <3> QED BY <3>1, OwnerFacts, StageOwns
  <2>2. reports[app.sid] = <<>>
    BY <2>1 DEF Reports, VerdictInv
  <2>3. /\ reports'[app.sid] = <<code>>
        /\ \A s \in Sessions \ {app.sid} : reports'[s] = reports[s]
    BY <1>a, <2>1, <2>2 DEF Reports
  <2>4. \A s \in Sessions : Len(reports'[s]) <= 1 /\ (s > app'.sid => reports'[s] = <<>>)
    <3>1. Len(reports'[app.sid]) <= 1
      BY <2>3
    <3>2. \A s \in Sessions \ {app.sid} : Len(reports'[s]) <= 1 /\ (s > app'.sid => reports'[s] = <<>>)
      BY <1>b, <2>3 DEF VerdictInv
    <3> QED BY <1>a, <1>b, <3>1, <3>2
  <2>5. \A v \in Workers : /\ Owns(v)' => wk'[v].pc \in Reported
                           /\ wk'[v].pc = "restart" => reports'[app'.sid] = <<0>>
    BY <1>b, <2>1, <2>3 DEF Reports, Owns, Rebooting
  <2>6. Sound(rom.running)'
    BY <1>a, <1>b, <1>c, <2>1, <2>3 DEF VerdictInv, Sound
  <2>7. rom'.img[rom'.running] # "pending"
    BY <1>c, <1>d, <2>1
  <2> QED BY <1>c, <2>4, <2>5, <2>6, <2>7 DEF VerdictInv
<1>2. CASE /\ reports' = reports /\ wk'[w].pc # "restart"
           /\ Owns(w)' /\ wk'[w].pc \notin Reported => Owns(w) /\ wk[w].pc \notin Reported
  <2>1. \A v \in Workers : /\ Owns(v)' /\ wk'[v].pc \notin Reported => reports'[app'.sid] = <<>>
                           /\ wk'[v].pc = "restart" => reports'[app'.sid] = <<0>>
    BY <1>b, <1>2 DEF VerdictInv, Owns
  <2>2. Sound(rom.running)'
    BY <1>b, <1>c, <1>2 DEF VerdictInv, Sound
  <2>3. rom'.img[rom'.running] = "pending" => Sound(Other(rom.running))'
    <3>1. rom'.img[rom'.running] = "pending" => rom' = rom
      BY <1>c, <1>d
    <3> QED BY <1>b, <1>2, <3>1 DEF VerdictInv, Sound
  <2> QED BY <1>b, <1>2, <2>1, <2>2, <2>3 DEF VerdictInv
<1> QED BY <1>1, <1>2, WorkerReports

LEMMA ResetVerdict ==
  ASSUME IInv, StageInv, VerdictInv, Reset
  PROVE  VerdictInv'
<1>a. /\ rom \in Roms /\ rom.running \in Parts /\ rom.boot \in Parts /\ app.sid \in 0..MaxSessions
      /\ Other(rom.running) \in Parts /\ Other(rom.running) # rom.running
      /\ Other(Other(rom.running)) = rom.running
  BY Typed
<1>b. app' = app /\ reports' = reports /\ ota'.state = "IDLE"
  BY DEF Reset, Engine0
<1>c. \A v \in Workers : ~Owns(v)' /\ wk'[v].pc # "restart"
  BY ResetControl
<1>d. ASSUME NEW p \in Parts, rom'.flash[p] = rom.flash[p], Sound(p) PROVE Sound(p)'
  BY <1>b, <1>d DEF Sound
<1>1. Sound(rom.running)' /\ (rom'.img[rom'.running] = "pending" => Sound(Other(rom.running))')
  <2>1. CASE Switched
    <3>1. rom.boot = Other(rom.running) /\ rom.img[rom.boot] = "new" /\ rom.flash[rom.boot] = Image(app.sid)
      BY <2>1 DEF IInv, ImageInv
    <3>2. rom' = [rom EXCEPT !.img[rom.boot] = "pending", !.running = rom.boot]
      BY <3>1 DEF Reset, BootLoader
    <3>3. rom'.running = rom.boot /\ rom'.flash = rom.flash
      BY <1>a, <3>1, <3>2, RomTried
    <3>4. reports[app.sid] \in {<<>>, <<0>>} /\ app.sid \in Sessions
      <4>1. PICK w \in Workers : wk[w].pc \in Rebooting
        BY <2>1 DEF Switched, Rebooting
      <4>2. Owns(w)
        BY <4>1, StageOwns
      <4> QED BY <4>1, <4>2, OwnerFacts DEF VerdictInv, Rebooting, Reported
    <3>5. Sound(rom.running)'
      <4>0. \A s \in Sessions : s \in 0..MaxSessions
        BY OtaAssumption DEF Sessions
      <4>1. \A s \in Sessions : rom.flash[rom.boot] = Image(s) => s = app.sid
        BY <1>a, <3>1, <4>0, ImagesDiffer
      <4> QED BY <1>a, <1>b, <3>3, <3>4, <4>1 DEF Sound
    <3>6. Sound(Other(rom.running))'
      BY <1>a, <1>d, <3>1, <3>3 DEF VerdictInv
    <3> QED BY <3>5, <3>6
  <2>2. CASE ~Switched /\ rom.img[rom.boot] = "pending"
    <3>1. rom.boot = rom.running
      BY <2>2 DEF IInv, ImageInv
    <3>2. rom' = [rom EXCEPT !.img[rom.boot] = "aborted", !.boot = Other(rom.boot),
                             !.running = Other(rom.boot)]
      BY <2>2 DEF Reset, BootLoader
    <3>3. /\ rom'.running = Other(rom.running) /\ rom'.flash = rom.flash
          /\ rom'.img[Other(rom.running)] = rom.img[Other(rom.running)]
      BY <1>a, <3>1, <3>2, RomRolledBack
    <3>4. rom'.img[rom'.running] # "pending"
      BY <3>3 DEF StageInv
    <3>5. Sound(Other(rom.running))
      BY <2>2, <3>1 DEF VerdictInv
    <3>6. Sound(rom.running)'
      BY <1>b, <3>3, <3>5 DEF Sound
    <3> QED BY <3>4, <3>6
  <2>3. CASE ~Switched /\ rom.img[rom.boot] # "pending"
    <3>1. rom.boot = rom.running /\ rom.img[rom.boot] # "new"
      BY <2>3 DEF IInv, ImageInv
    <3>2. rom' = [rom EXCEPT !.running = rom.boot]
      BY <2>3, <3>1 DEF Reset, BootLoader
    <3>3. rom'.running = rom.running /\ rom'.img = rom.img /\ rom'.flash = rom.flash
      BY <1>a, <3>1, <3>2 DEF Roms
    <3>4. Sound(rom.running)'
      BY <1>b, <3>3 DEF Sound, VerdictInv
    <3> QED BY <2>3, <3>1, <3>3, <3>4
  <2> QED BY <2>1, <2>2, <2>3
<1>2. \A s \in Sessions : Len(reports'[s]) <= 1 /\ (s > app'.sid => reports'[s] = <<>>)
  BY <1>b DEF VerdictInv
<1> QED BY <1>1, <1>2, <1>c DEF VerdictInv

LEMMA OthersVerdict ==
  ASSUME IInv, VerdictInv, HostStep \/ BoardAbortStore \/ (Environment /\ ~PowerLoss)
  PROVE  VerdictInv'
<1>a. /\ ota \in Engines /\ wk \in [Workers -> Tasks] /\ rom \in Roms /\ app \in Apps
      /\ rom.running \in Parts /\ Other(rom.running) \in Parts /\ Other(rom.running) # rom.running
      /\ app.sid \in 0..MaxSessions
  BY Typed
<1>s. ASSUME wk' = wk, rom' = rom, reports' = reports, app'.sid = app.sid, ota'.state = ota.state
      PROVE  VerdictInv'
  BY <1>s DEF VerdictInv, Sound, Owns
<1>1. CASE BoardAbortStore \/ HostStep
  <2>1. ota'.state = ota.state
    BY <1>1, <1>a DEF AbortStore, BoardAbortStore, HostStep, SliceCheck, SliceSend, SliceCount, DataRearm,
       DataHold, Engines
  <2>2. rom' = rom /\ app' = app /\ wk' = wk /\ reports' = reports
    BY <1>1 DEF AbortStore, BoardAbortStore, HostStep, SliceCheck, SliceSend, SliceCount, DataRearm, DataHold
  <2> QED BY <1>s, <2>1, <2>2
<1>2. CASE AbortOta \/ BoardAbort \/ ChannelUp \/ ChannelDown \/ LinkDown
  BY <1>2, <1>s DEF AbortOta, BoardAbort, ChannelUp, ChannelDown, LinkDown
<1>3. CASE AppAudio \/ AppSwitch \/ \E n \in 1..MaxSdu : AppPush(n)
  <2>1. app'.sid = app.sid /\ rom' = rom /\ ota' = ota /\ wk' = wk /\ reports' = reports
    BY <1>3, <1>a DEF AppAudio, AppSwitch, AppPush, Apps
  <2> QED BY <1>s, <2>1
<1>4. CASE StartOtaNoTask
  BY <1>4, <1>s DEF StartOtaNoTask, CanStart, Engine0
<1>5. CASE \E w \in Workers : StartOta(w)
  <2> PICK w \in Workers : StartOta(w)
    BY <1>5
  <2>1. \A v \in Workers : ~Owns(v) /\ wk[v].pc # "restart"
    BY StageOwns DEF StartOta, CanStart, IInv, OneOwner, Rebooting
  <2>2. wk'[w].pc = "begin" /\ \A v \in Workers \ {w} : wk'[v] = wk[v]
    BY <1>a, GotoFacts DEF StartOta
  <2>3. /\ app'.sid = app.sid + 1 /\ app.sid + 1 \in Sessions /\ rom' = rom /\ reports' = reports
    BY <1>a, OtaAssumption DEF StartOta, Apps, Sessions
  <2>4. rom.img[rom.running] # "pending"
    BY DEF StartOta, CanStart, IInv, ImageInv
  <2>5. Sound(rom.running)'
    BY <1>a, <2>3 DEF VerdictInv, Sound, Sessions
  <2>6. \A s \in Sessions : Len(reports'[s]) <= 1 /\ (s > app'.sid => reports'[s] = <<>>)
    BY <1>a, <2>3 DEF VerdictInv, Sessions
  <2>7. reports'[app'.sid] = <<>>
    BY <1>a, <2>3 DEF VerdictInv
  <2>8. \A v \in Workers : wk'[v].pc # "restart"
    BY <2>1, <2>2
  <2> QED BY <2>3, <2>4, <2>5, <2>6, <2>7, <2>8 DEF VerdictInv
<1>6. CASE LinkUp
  <2>1. /\ rom'.running = rom.running /\ rom'.flash = rom.flash /\ rom'.img[rom.running] # "pending"
    BY <1>6, <1>a DEF LinkUp, Roms
  <2>2. Sound(rom.running)'
    BY <1>6, <2>1 DEF LinkUp, VerdictInv, Sound
  <2> QED BY <1>6, <2>1, <2>2 DEF LinkUp, VerdictInv, Owns
<1> QED BY <1>1, <1>2, <1>3, <1>4, <1>5, <1>6 DEF Environment

LEMMA InitVerdict == Init => VerdictInv
<1> SUFFICES ASSUME Init PROVE VerdictInv
  OBVIOUS
<1>1. \A w \in Workers : wk[w].pc = "free" /\ ~Owns(w)
  BY DEF Init, Task0, Owns, Working, Resuming
<1>2. rom.running = "ota_0" /\ rom.img[rom.running] = "valid"
  BY DEF Init, Parts
<1>3. Sound(rom.running)
  BY OtaAssumption, ImagesDiffer DEF Init, Sound, Sessions, Parts, Engine0
<1>4. \A s \in Sessions : reports[s] = <<>>
  BY DEF Init
<1> QED BY <1>1, <1>2, <1>3, <1>4 DEF VerdictInv

\* A session pushes at most one verdict to the App, and an image whose session was reported
\* failed is never the one the boot loader starts, through any power loss or rollback
\* (ota_service.cpp FailWith, RunSession).
THEOREM SingleVerdict == Spec => []OneVerdict
<1>1. IInv /\ StageInv /\ VerdictInv /\ [Next]_vars => StageInv' /\ VerdictInv'
  <2> SUFFICES ASSUME IInv, StageInv, VerdictInv, [Next]_vars PROVE StageInv' /\ VerdictInv'
    OBVIOUS
  <2>1. ASSUME NEW w \in Workers, WorkerStep(w) PROVE StageInv' /\ VerdictInv'
    BY <2>1, WorkerStageInv, ResetStage, WorkerVerdict, ResetVerdict DEF Restart
  <2>2. CASE HostStep \/ BoardAbortStore \/ Environment
    BY <2>2, OthersStage, OthersVerdict, ResetVerdict DEF PowerLoss
  <2>3. CASE UNCHANGED vars
    <3>1. ota' = ota /\ wk' = wk /\ rom' = rom /\ app' = app /\ reports' = reports
      BY <2>3 DEF vars
    <3>2. StageInv'
      BY <3>1 DEF StageInv, Collecting
    <3>3. VerdictInv'
      BY <3>1 DEF VerdictInv, Sound, Owns
    <3> QED BY <3>2, <3>3
  <2> QED BY <2>1, <2>2, <2>3 DEF Next
<1>2. IInv /\ VerdictInv => OneVerdict
  <2> SUFFICES ASSUME IInv, VerdictInv, NEW s \in Sessions
               PROVE  /\ Len(reports[s]) <= 1
                      /\ rom.flash[rom.boot] = Image(s) => reports[s] \in {<<>>, <<0>>}
    BY DEF OneVerdict
  <2>1. CASE Switched
    <3>1. rom.flash[rom.boot] = Image(app.sid) /\ app.sid \in 0..MaxSessions
      BY <2>1, Typed DEF IInv, ImageInv
    <3>2. PICK w \in Workers : wk[w].pc \in Rebooting
      BY <2>1 DEF Switched, Rebooting
    <3>3. reports[app.sid] \in {<<>>, <<0>>}
      BY <3>2, StageOwns DEF VerdictInv, Rebooting, Reported
    <3>0. s \in 0..MaxSessions
      BY OtaAssumption DEF Sessions
    <3>4. rom.flash[rom.boot] = Image(s) => s = app.sid
      BY <3>0, <3>1, ImagesDiffer
    <3> QED BY <3>3, <3>4 DEF VerdictInv
  <2>2. CASE ~Switched
    BY <2>2, Boots DEF VerdictInv, Sound
  <2> QED BY <2>1, <2>2
<1> QED BY InitInstalls, InitVerdict, Invariance, <1>1, <1>2, PTL DEF Spec

-----------------------------------------------------------------------------
(***************************************************************************)
(* The receive gate of the first session.  One right to send is about:     *)
(* it is the App's credit, the SDU the data handler works on, the rearm    *)
(* flag, or what a worker carries between claiming the flag and giving the *)
(* credit (OneToken).  The buffer has room for it, and for one SDU more as *)
(* long as a worker is on its way to lift the gate (Room).                 *)
(***************************************************************************)
\* Before the first session everything is at rest; during it no worker of an earlier one is left.
Early ==
  app.sid = 0 => /\ ota.state = "IDLE" /\ host.pc # "hold" /\ ~l2c.rearm_pending
                 /\ \A w \in Workers : wk[w].pc = "free"
First ==
  app.sid <= 1 /\ ota.state = "RECEIVING" =>
    \A w \in Workers : wk[w].pc = "free" \/ Collecting(w)
\* While the gate counts: nobody has aborted the session, so nobody has lifted it for good.
Guarded == app.sid = 1 /\ ota.state = "RECEIVING" /\ ~ota.abort /\ host.pc # "abort"
OneToken ==
  /\ l2c.credit <= 1
  /\ host.pc \in Handling => l2c.credit = 0
  /\ l2c.rearm_pending => l2c.credit = 0 /\ host.pc \notin Handling
  /\ \A w \in Workers : wk[w].pc \in {"rearm", "putback"} =>
       l2c.credit = 0 /\ host.pc \notin Handling /\ ~l2c.rearm_pending
InFlight == IF l2c.credit > 0 THEN MaxSdu ELSE IF host.pc \in Handling THEN Len(host.sdu) ELSE 0
Lifting == {"resume", "claim", "rearm"}
Room ==
  /\ InFlight <= MaxSdu
  /\ Len(ota.buf) + InFlight <= BufCap
  /\ (\E w \in Workers : wk[w].pc \in Lifting) => Len(ota.buf) + InFlight + MaxSdu <= BufCap
GateInv ==
  /\ Early
  /\ First
  /\ app.sid = 0 => OneToken
  /\ Guarded => l2c.chan # 0 /\ OneToken /\ Room

LEMMA GateTypes ==
  ASSUME IInv
  PROVE  /\ ota \in Engines /\ wk \in [Workers -> Tasks] /\ host \in [pc : HostPcs, sdu : Slices]
         /\ l2c \in Links /\ l2c.credit \in Nat /\ app \in Apps /\ app.sid \in Nat
         /\ ota.buf \in Slices /\ Len(ota.buf) \in Nat /\ host.sdu \in Slices
         /\ Len(host.sdu) \in Nat /\ MaxSdu \in Nat \ {0} /\ BufCap \in Nat
         /\ InFlight \in Nat
<1>1. /\ ota \in Engines /\ wk \in [Workers -> Tasks] /\ host \in [pc : HostPcs, sdu : Slices]
      /\ l2c \in Links /\ app \in Apps
  BY TypeParts DEF IInv
<1>2. /\ l2c.credit \in Nat /\ app.sid \in Nat /\ ota.buf \in Slices /\ host.sdu \in Slices
      /\ MaxSdu \in Nat \ {0} /\ BufCap \in Nat
  BY <1>1, OtaAssumption DEF Links, Apps, Engines
<1>3. Len(ota.buf) \in Nat /\ Len(host.sdu) \in Nat
  BY <1>2, SlicesClosed
<1>4. InFlight \in Nat
  BY <1>2, <1>3 DEF InFlight
<1> QED BY <1>1, <1>2, <1>3, <1>4

\* Once a second session has started nothing is claimed.
LEMMA GateLater ==
  ASSUME app'.sid \in Nat, app'.sid > 1
  PROVE  GateInv'
<1>1. app'.sid # 0 /\ app'.sid # 1 /\ ~(app'.sid <= 1)
  OBVIOUS
<1> QED BY <1>1 DEF GateInv, Early, First, Guarded

\* Nor of the first one after it has left RECEIVING.
LEMMA GateOver ==
  ASSUME app'.sid \in Nat, app'.sid # 0, ota'.state # "RECEIVING"
  PROVE  GateInv'
BY DEF GateInv, Early, First, Guarded

\* An open gate leaves room for the SDU that is let in and for one more.
LEMMA OpenGate ==
  ASSUME IInv, GateFloor >= 2 * MaxSdu, BufCap >= 4 * MaxSdu,
         WantsMore, ota.state = "RECEIVING"
  PROVE  Len(ota.buf) + MaxSdu + MaxSdu <= BufCap
<1>1. MaxSdu \in Nat /\ BufCap \in Nat /\ GateFloor \in Nat /\ Len(ota.buf) \in Nat
  BY GateTypes, OtaAssumption
<1>2. BufCap \div 2 \in Nat /\ BufCap \div 2 >= 2 * MaxSdu
  BY <1>1
<1>3. BufCap \div 4 \in Nat
  BY <1>1
<1>4. RxGateMinFree >= 2 * MaxSdu /\ RxGateMinFree \in Nat
  BY <1>1, <1>2, <1>3 DEF RxGateMinFree, Least, Most
<1>5. BufCap - Len(ota.buf) >= RxGateMinFree
  BY DEF WantsMore, SpaceLeft
<1> QED BY <1>1, <1>4, <1>5

\* In the first session the owner is the only task there is.
LEMMA Sole ==
  ASSUME IInv, GateInv, app.sid <= 1, ota.state = "RECEIVING",
         NEW w \in Workers, wk[w].pc # "free"
  PROVE  Collecting(w) /\ \A v \in Workers \ {w} : wk[v].pc = "free"
<1>1. \A v \in Workers : wk[v].pc = "free" \/ Collecting(v)
  BY DEF GateInv, First
<1>2. Collecting(w)
  BY <1>1
<1>3. \A v \in Workers \ {w} : ~Collecting(v)
  BY <1>2, StageOwns, OwnerFacts
<1> QED BY <1>1, <1>2, <1>3

\* What the owner does while it collects, outside ResumeL2capRx: it only takes slices out of the
\* buffer, and lifts the gate only if WantsMore.
LEMMA CollectingMoves ==
  ASSUME IInv, NEW w \in Workers, WorkerStep(w), ~Restart(w), Collecting(w),
         ota.state = "RECEIVING", ota'.state = "RECEIVING",
         ~ResumeCheck(w), ~ResumeClaim(w), ~ResumeRearm(w), ~ResumePutBack(w)
  PROVE  /\ Collecting(w)'
         /\ ota'.abort = ota.abort
         /\ Len(ota'.buf) \in Nat /\ Len(ota'.buf) <= Len(ota.buf)
         /\ wk'[w].pc \in Resuming => WantsMore /\ Len(ota'.buf) = Len(ota.buf)
<1>a. /\ ota \in Engines /\ wk \in [Workers -> Tasks] /\ Len(ota.buf) \in Nat
      /\ ota.buf \in Slices /\ wk[w].written \in Nat /\ ota.total \in Nat
  BY GateTypes, OtaAssumption DEF Tasks, Engines
<1> DEFINE Goal == /\ Collecting(w)'
                   /\ ota'.abort = ota.abort
                   /\ Len(ota'.buf) \in Nat /\ Len(ota'.buf) <= Len(ota.buf)
                   /\ wk'[w].pc \in Resuming => WantsMore /\ Len(ota'.buf) = Len(ota.buf)
<1>f. ASSUME NEW o \in Engines, NEW code, FailWith(w, code, o) PROVE FALSE
  BY <1>a, <1>f, FailFacts
<1>k. ASSUME ota'.abort = ota.abort, ota'.buf = ota.buf, NEW pc, Goto(w, pc),
             pc \in {"loop", "recv", "expire"}
      PROVE  Goal
  BY <1>a, <1>k, GotoFacts DEF Collecting, Resuming
<1>l. ASSUME ota'.abort = ota.abort, ota'.buf = ota.buf, NEW pc, CallResume(w, pc),
             pc \in {"loop", "expire"}, WantsMore
      PROVE  Goal
  BY <1>a, <1>l, CallFacts DEF Collecting, Resuming
<1>1. CASE Begin(w)
  BY <1>1, <1>a, <1>k DEF Begin, Engines
<1>2. CASE BeginFails(w)
  <2>1. [ota EXCEPT !.handle = TRUE] \in Engines
    BY <1>a, EngineWith
  <2> QED BY <1>2, <1>a, <1>f, <2>1 DEF BeginFails
<1>3. CASE LoopAborted(w) \/ ReceiveTimeout(w)
  BY <1>3, <1>a, <1>f DEF LoopAborted, ReceiveTimeout
<1>4. CASE LoopReads(w) \/ PollAgain(w)
  BY <1>4, <1>k DEF LoopReads, PollAgain
<1>5. CASE Receive(w)
  <2> DEFINE got == Least(Least(FlashChunk, ota.total - wk[w].written), Len(ota.buf))
  <2>0. ota' = [ota EXCEPT !.buf = SubSeq(@, got + 1, Len(@))]
        /\ \E c : wk' = [wk EXCEPT ![w].pc = "write", ![w].idle = 0, ![w].chunk = c]
    BY <1>5 DEF Receive
  <2>2. wk[w].written < ota.total
    BY <1>5 DEF IInv, ControlInv, Receive, At
  <2>3. got \in 0..Len(ota.buf)
    BY <1>a, <2>2, OtaAssumption DEF Least
  <2> HIDE DEF got
  <2>1. ota'.abort = ota.abort /\ ota'.buf = SubSeq(ota.buf, got + 1, Len(ota.buf))
    <3>1. ASSUME NEW b, ota' = [ota EXCEPT !.buf = b] PROVE ota'.abort = ota.abort /\ ota'.buf = b
      BY <3>1, <1>a DEF Engines
    <3> QED BY <2>0, <3>1
  <2>w. wk'[w].pc = "write"
    BY <2>0, <1>a DEF Tasks
  <2>4. SubSeq(ota.buf, got + 1, Len(ota.buf)) \in Slices
    <3>1. got + 1 \in 1..(Len(ota.buf) + 1) /\ Len(ota.buf) \in 0..Len(ota.buf)
      BY <1>a, <2>3
    <3> QED BY <1>a, <3>1, SlicesClosed
  <2>5. Len(SubSeq(ota.buf, got + 1, Len(ota.buf))) \in Nat
        /\ Len(SubSeq(ota.buf, got + 1, Len(ota.buf))) <= Len(ota.buf)
    BY <1>a, <2>3, SubSeqProperties DEF Slices
  <2> QED BY <2>1, <2>w, <2>5 DEF Collecting, Resuming
<1>6. CASE ReceiveEmpty(w)
  BY <1>6, <1>a DEF ReceiveEmpty, Collecting, Resuming, Tasks
<1>7. CASE PollGate(w)
  BY <1>7, <1>k, <1>l DEF PollGate
<1>8. CASE WriteChunk(w)
  BY <1>8, <1>a DEF WriteChunk, Collecting, Resuming, Tasks, Engines
<1>9. CASE WriteFails(w)
  <2>1. ota.sha \in Slices /\ wk[w].chunk \in Slices
    BY <1>a DEF Engines, Tasks
  <2>2. [ota EXCEPT !.sha = ota.sha \o wk[w].chunk] \in Engines
    BY <1>a, <2>1, SlicesClosed, EngineWith
  <2> QED BY <1>9, <2>2, <1>f DEF WriteFails
<1>10. CASE LiftGate(w)
  BY <1>10, <1>k, <1>l DEF LiftGate
<1>11. CASE LoopDone(w)
  BY <1>11, <1>a DEF LoopDone, Engines
<1>12. CASE wk[w].pc \notin {"begin", "loop", "recv", "poll", "expire", "write", "gate"}
  <2>1. wk[w].pc \in Resuming
    BY <1>12 DEF Collecting
  <2>2. ~(Begin(w) \/ BeginFails(w) \/ LoopDone(w) \/ LoopAborted(w) \/ LoopReads(w) \/ Receive(w))
    BY <2>1 DEF Begin, BeginFails, LoopDone, LoopAborted, LoopReads, Receive, At, Resuming
  <2>3. ~(ReceiveEmpty(w) \/ PollAgain(w) \/ ReceiveTimeout(w) \/ WriteChunk(w) \/ WriteFails(w))
    <3>1. ~(At(w, "recv") \/ At(w, "expire") \/ At(w, "write"))
      BY <1>12 DEF At
    <3>2. ~ReceiveEmpty(w) /\ ~PollAgain(w)
      BY <3>1 DEF ReceiveEmpty, PollAgain
    <3>3. ~ReceiveTimeout(w) /\ ~WriteFails(w)
      BY <3>1 DEF ReceiveTimeout, WriteFails
    <3>4. ~WriteChunk(w)
      BY <3>1 DEF WriteChunk
    <3> QED BY <3>2, <3>3, <3>4
  <2>5. ~(PollGate(w) \/ LiftGate(w))
    BY <2>1 DEF PollGate, LiftGate, At, Resuming
  <2>4. ~(Verify(w) \/ EndImage(w) \/ SelectBoot(w) \/ Succeed(w) \/ Cleanup(w) \/ ToIdle(w)
          \/ NotifySnapshot(w) \/ NotifyTell(w))
    BY <2>1 DEF Verify, EndImage, SelectBoot, Succeed, Cleanup, ToIdle, NotifySnapshot, NotifyTell,
       At, Resuming
  <2> QED BY <2>2, <2>3, <2>4, <2>5 DEF WorkerStep
<1>13. CASE wk[w].pc \in {"begin", "loop", "recv", "poll", "expire", "write", "gate"}
  <2>1. ~(Verify(w) \/ EndImage(w) \/ SelectBoot(w) \/ Succeed(w) \/ Cleanup(w) \/ ToIdle(w)
          \/ NotifySnapshot(w) \/ NotifyTell(w))
    BY <1>13 DEF Verify, EndImage, SelectBoot, Succeed, Cleanup, ToIdle, NotifySnapshot, NotifyTell, At
  <2> QED BY <2>1, <1>1, <1>2, <1>3, <1>4, <1>5, <1>6, <1>7, <1>8, <1>9, <1>10, <1>11 DEF WorkerStep
<1> QED BY <1>12, <1>13

LEMMA InFlightSame ==
  ASSUME l2c'.credit = l2c.credit, host' = host
  PROVE  InFlight' = InFlight
BY DEF InFlight

\* Steps of a worker outside ResumeL2capRx.
LEMMA WorkerGate ==
  ASSUME IInv, GateInv, GateFloor >= 2 * MaxSdu, BufCap >= 4 * MaxSdu,
         NEW w \in Workers, WorkerStep(w), ~Restart(w),
         ~ResumeCheck(w), ~ResumeClaim(w), ~ResumeRearm(w), ~ResumePutBack(w),
         app.sid <= 1, wk[w].pc # "free", ota.state = "RECEIVING", ota'.state = "RECEIVING"
  PROVE  GateInv'
<1>a. app.sid \in Nat /\ MaxSdu \in Nat /\ BufCap \in Nat /\ Len(ota.buf) \in Nat /\ InFlight \in Nat
  BY GateTypes
<1>1. Collecting(w) /\ \A v \in Workers \ {w} : wk[v].pc = "free"
  BY Sole
<1>2. /\ \A v \in Workers \ {w} : wk'[v] = wk[v]
      /\ app' = app /\ host' = host
  BY WorkerMoves
<1>3. l2c' = l2c /\ wk'[w].pc \notin Claims
  BY WorkerOutside
<1>4. /\ Collecting(w)'
      /\ ota'.abort = ota.abort
      /\ Len(ota'.buf) \in Nat /\ Len(ota'.buf) <= Len(ota.buf)
      /\ wk'[w].pc \in Resuming => WantsMore /\ Len(ota'.buf) = Len(ota.buf)
  BY <1>1, CollectingMoves
<1>5. app.sid = 1
  BY <1>a DEF GateInv, Early
<1>6. First'
  BY <1>1, <1>2, <1>4 DEF First, Collecting
<1>7. Guarded' <=> Guarded
  BY <1>2, <1>4 DEF Guarded
<1>8. ASSUME Guarded PROVE OneToken' /\ Room'
  <2>1. OneToken'
    BY <1>8, <1>1, <1>2, <1>3 DEF GateInv, OneToken, Claims
  <2>2. InFlight' = InFlight /\ InFlight <= MaxSdu /\ Len(ota.buf) + InFlight <= BufCap
    BY <1>8, <1>2, <1>3, InFlightSame DEF GateInv, Room
  <2>3. Len(ota'.buf) + InFlight' <= BufCap /\ InFlight' <= MaxSdu
    BY <1>a, <1>4, <2>2
  <2>4. ASSUME NEW v \in Workers, wk'[v].pc \in Lifting
        PROVE  Len(ota'.buf) + InFlight' + MaxSdu <= BufCap
    <3>1. v = w
      BY <2>4, <1>1, <1>2 DEF Lifting
    <3>2. wk'[w].pc \in Resuming
      BY <3>1, <2>4 DEF Lifting, Resuming
    <3>3. Len(ota.buf) + MaxSdu + MaxSdu <= BufCap /\ Len(ota'.buf) = Len(ota.buf)
      BY <3>2, <1>4, OpenGate
    <3> QED BY <1>a, <2>2, <3>3
  <2> QED BY <2>1, <2>2, <2>3, <2>4 DEF Room
<1> QED BY <1>2, <1>3, <1>5, <1>6, <1>7, <1>8 DEF GateInv, Early

\* Steps of ResumeL2capRx on behalf of the session: the token goes from the flag to the worker
\* and from there to the peer, or back.
LEMMA ResumeGate ==
  ASSUME IInv, GateInv, NEW w \in Workers,
         ResumeCheck(w) \/ ResumeClaim(w) \/ ResumeRearm(w) \/ ResumePutBack(w),
         app.sid <= 1, wk[w].pc # "free", ota.state = "RECEIVING"
  PROVE  GateInv'
<1>a. /\ app.sid \in Nat /\ MaxSdu \in Nat /\ BufCap \in Nat /\ Len(ota.buf) \in Nat /\ InFlight \in Nat
      /\ wk \in [Workers -> Tasks] /\ l2c \in Links /\ l2c.credit \in Nat /\ wk[w].ret \in Returns
  BY GateTypes, LinkTyped
<1>1. Collecting(w) /\ \A v \in Workers \ {w} : wk[v].pc = "free"
  BY Sole
<1>2. ota' = ota /\ app' = app /\ host' = host /\ wk[w].pc \in Resuming
  BY DEF ResumeCheck, ResumeClaim, ResumeRearm, ResumePutBack, At, Resuming
<1>3. wk[w].ret \in {"loop", "expire"}
  BY <1>a, <1>1, <1>2 DEF IInv, ControlInv, Collecting, Returns, Resuming
<1>4. app.sid = 1
  BY <1>a DEF GateInv, Early
<1>5. Guarded' <=> Guarded
  BY <1>2 DEF Guarded
<1>r. ASSUME wk' = Returned(w)
      PROVE  /\ wk'[w].pc \in {"loop", "expire"} /\ \A v \in Workers \ {w} : wk'[v] = wk[v]
             /\ Collecting(w)'
  BY <1>a, <1>3, <1>r, ReturnFacts DEF Collecting
<1>g. ASSUME NEW pc, Goto(w, pc), pc \in {"claim", "rearm", "putback"}
      PROVE  /\ wk'[w].pc = pc /\ \A v \in Workers \ {w} : wk'[v] = wk[v]
             /\ Collecting(w)'
  BY <1>a, <1>3, <1>g, GotoFacts DEF Collecting, Resuming
<1> DEFINE Keeps == /\ \A v \in Workers \ {w} : wk'[v] = wk[v]
                    /\ Collecting(w)'
                    /\ l2c'.chan = l2c.chan
                    /\ Guarded => OneToken' /\ Room'
<1>k. ASSUME Keeps PROVE GateInv'
  <2>1. First'
    BY <1>k, <1>1 DEF First, Collecting
  <2> QED BY <1>k, <2>1, <1>2, <1>4, <1>5 DEF GateInv, Early
<1>6. CASE ResumeCheck(w)
  <2>1. l2c' = l2c /\ wk[w].pc = "resume"
    BY <1>6 DEF ResumeCheck, At
  <2>2. /\ wk'[w].pc \in {"claim", "loop", "expire"} /\ \A v \in Workers \ {w} : wk'[v] = wk[v]
        /\ Collecting(w)'
    <3>1. CASE wk' = Returned(w)
      BY <1>r, <3>1
    <3>2. CASE wk' = [wk EXCEPT ![w].pc = "claim", ![w].chan = l2c.chan]
      <4>1. wk'[w].pc = "claim" /\ wk'[w].ret = wk[w].ret /\ \A v \in Workers \ {w} : wk'[v] = wk[v]
        BY <1>a, <3>2 DEF Tasks
      <4> QED BY <4>1, <1>3 DEF Collecting, Resuming
    <3> QED BY <1>6, <3>1, <3>2 DEF ResumeCheck
  <2>3. ASSUME Guarded PROVE OneToken' /\ Room'
    <3>1. OneToken /\ Room /\ Len(ota.buf) + InFlight + MaxSdu <= BufCap
      BY <2>1, <2>3 DEF GateInv, Room, Lifting
    <3>2. OneToken'
      BY <3>1, <2>1, <2>2, <1>1, <1>2 DEF OneToken
    <3>3. InFlight' = InFlight
      BY <2>1, <1>2, InFlightSame
    <3> QED BY <3>1, <3>2, <3>3, <1>2 DEF Room
  <2> QED BY <2>1, <2>2, <2>3, <1>k
<1>7. CASE ResumeClaim(w)
  <2>1. l2c'.credit = l2c.credit /\ l2c'.chan = l2c.chan /\ ~l2c'.rearm_pending /\ wk[w].pc = "claim"
    BY <1>7, <1>a DEF ResumeClaim, At, Links
  <2>2. /\ wk'[w].pc \in {"rearm", "loop", "expire"} /\ \A v \in Workers \ {w} : wk'[v] = wk[v]
        /\ Collecting(w)' /\ (wk'[w].pc = "rearm" => l2c.rearm_pending)
    BY <1>7, <1>r, <1>g DEF ResumeClaim
  <2>3. ASSUME Guarded PROVE OneToken' /\ Room'
    <3>1. OneToken /\ Room /\ Len(ota.buf) + InFlight + MaxSdu <= BufCap
      BY <2>1, <2>3 DEF GateInv, Room, Lifting
    <3>2. OneToken'
      BY <3>1, <2>1, <2>2, <1>1, <1>2 DEF OneToken
    <3>3. InFlight' = InFlight
      BY <2>1, <1>2, InFlightSame
    <3> QED BY <3>1, <3>2, <3>3, <1>2 DEF Room
  <2> QED BY <2>1, <2>2, <2>3, <1>k
<1>8. CASE ResumeRearm(w)
  <2>1. /\ l2c'.credit \in {l2c.credit, l2c.credit + 1} /\ l2c'.chan = l2c.chan
        /\ l2c'.rearm_pending = l2c.rearm_pending /\ wk[w].pc = "rearm"
    BY <1>8, <1>a DEF ResumeRearm, At, Links
  <2>2. /\ wk'[w].pc \in {"putback", "loop", "expire"} /\ \A v \in Workers \ {w} : wk'[v] = wk[v]
        /\ Collecting(w)' /\ (wk'[w].pc = "putback" => l2c' = l2c)
    BY <1>8, <1>r, <1>g DEF ResumeRearm
  <2>3. ASSUME Guarded PROVE OneToken' /\ Room'
    <3>1. OneToken /\ Room /\ Len(ota.buf) + InFlight + MaxSdu <= BufCap
      BY <2>1, <2>3 DEF GateInv, Room, Lifting
    <3>2. l2c.credit = 0 /\ host.pc \notin Handling /\ ~l2c.rearm_pending
      BY <2>1, <3>1 DEF OneToken
    <3>3. OneToken'
      BY <3>2, <2>1, <2>2, <1>1, <1>2 DEF OneToken
    <3>4. InFlight = 0 /\ InFlight' \in {0, MaxSdu}
      BY <3>2, <2>1, <1>2 DEF InFlight
    <3>5. ~(\E v \in Workers : wk'[v].pc \in Lifting)
      BY <2>2, <1>1 DEF Lifting
    <3>6. InFlight' <= MaxSdu /\ Len(ota.buf) + InFlight' <= BufCap
      BY <1>a, <3>1, <3>4
    <3> QED BY <3>3, <3>5, <3>6, <1>2 DEF Room
  <2> QED BY <2>1, <2>2, <2>3, <1>k
<1>9. CASE ResumePutBack(w)
  <2>1. l2c'.credit = l2c.credit /\ l2c'.chan = l2c.chan /\ wk[w].pc = "putback"
    BY <1>9, <1>a DEF ResumePutBack, At, Links
  <2>2. /\ wk'[w].pc \in {"loop", "expire"} /\ \A v \in Workers \ {w} : wk'[v] = wk[v]
        /\ Collecting(w)'
    BY <1>9, <1>r DEF ResumePutBack
  <2>3. ASSUME Guarded PROVE OneToken' /\ Room'
    <3>1. OneToken /\ Room
      BY <2>3 DEF GateInv
    <3>2. OneToken'
      BY <3>1, <2>1, <2>2, <1>1, <1>2 DEF OneToken
    <3>3. InFlight' = InFlight
      BY <2>1, <1>2, InFlightSame
    <3>4. ~(\E v \in Workers : wk'[v].pc \in Lifting)
      BY <2>2, <1>1 DEF Lifting
    <3> QED BY <3>1, <3>2, <3>3, <3>4, <1>2 DEF Room
  <2> QED BY <2>1, <2>2, <2>3, <1>k
<1> QED BY <1>6, <1>7, <1>8, <1>9

LEMMA ResetGate ==
  ASSUME IInv, GateInv, Reset
  PROVE  GateInv'
<1>a. app'.sid \in Nat /\ app' = app /\ l2c \in Links
  BY GateTypes DEF Reset
<1>1. /\ ota'.state = "IDLE" /\ host'.pc = "idle" /\ \A w \in Workers : wk'[w].pc = "free"
  BY DEF Reset, Engine0, Host0, Task0
<1>2. l2c'.credit = 0 /\ ~l2c'.rearm_pending
  BY <1>a DEF Reset, ChannelLost, Links
<1>3. OneToken'
  BY <1>1, <1>2 DEF OneToken, Handling
<1> QED BY <1>1, <1>2, <1>3 DEF GateInv, Early, First, Guarded

\* No worker enters RECEIVING.
LEMMA Receives ==
  ASSUME IInv, NEW w \in Workers, WorkerStep(w), ~Restart(w), ota'.state = "RECEIVING"
  PROVE  ota.state = "RECEIVING"
<1>a. ota \in Engines /\ wk \in [Workers -> Tasks]
  BY GateTypes
<1>f. ASSUME NEW o \in Engines, NEW code, FailWith(w, code, o) PROVE FALSE
  BY <1>a, <1>f, FailFacts
<1>1. CASE BeginFails(w) \/ EndImage(w)
  <2>1. [ota EXCEPT !.handle = TRUE] \in Engines /\ [ota EXCEPT !.handle = FALSE] \in Engines
    BY <1>a, EngineWith
  <2>2. EndImage(w) => ota' = [ota EXCEPT !.handle = FALSE]
    BY <1>f, <2>1 DEF EndImage
  <2> QED BY <1>1, <1>a, <1>f, <2>1, <2>2 DEF BeginFails, Engines
<1>2. CASE WriteFails(w)
  <2>1. ota.sha \in Slices /\ wk[w].chunk \in Slices
    BY <1>a DEF Engines, Tasks
  <2>2. [ota EXCEPT !.sha = ota.sha \o wk[w].chunk] \in Engines
    BY <1>a, <2>1, SlicesClosed, EngineWith
  <2> QED BY <1>2, <2>2, <1>f DEF WriteFails
<1>3. CASE LoopAborted(w) \/ ReceiveTimeout(w)
  BY <1>3, <1>a, <1>f DEF LoopAborted, ReceiveTimeout
<1>4. CASE LoopDone(w) \/ Succeed(w) \/ ToIdle(w)
  BY <1>4, <1>a DEF LoopDone, Succeed, ToIdle, Engines
<1>5. CASE Begin(w) \/ WriteChunk(w)
  <2>1. CASE Begin(w)
    BY <1>a, <2>1 DEF Begin, Engines
  <2>2. CASE WriteChunk(w)
    <3>1. \E b : ota' = [ota EXCEPT !.sha = b]
      BY <2>2 DEF WriteChunk
    <3> QED BY <1>a, <3>1 DEF Engines
  <2> QED BY <1>5, <2>1, <2>2
<1>6. CASE Receive(w)
  <2>1. \E b : ota' = [ota EXCEPT !.buf = b]
    BY <1>6 DEF Receive
  <2> QED BY <1>a, <2>1 DEF Engines
<1>7. CASE Cleanup(w)
  BY <1>7, <1>a DEF Cleanup, CleanedUp, Engine0
<1>8. CASE Verify(w) \/ SelectBoot(w)
  BY <1>8, <1>a, <1>f DEF Verify, SelectBoot
<1>9. CASE LoopReads(w) \/ ReceiveEmpty(w) \/ PollGate(w) \/ PollAgain(w) \/ LiftGate(w)
  BY <1>9 DEF LoopReads, ReceiveEmpty, PollGate, PollAgain, LiftGate
<1>10. CASE NotifySnapshot(w) \/ NotifyTell(w) \/ ResumeCheck(w) \/ ResumeClaim(w)
            \/ ResumeRearm(w) \/ ResumePutBack(w)
  BY <1>10 DEF NotifySnapshot, NotifyTell, ResumeCheck, ResumeClaim, ResumeRearm, ResumePutBack
<1> QED BY <1>1, <1>2, <1>3, <1>4, <1>5, <1>6, <1>7, <1>8, <1>9, <1>10 DEF WorkerStep

LEMMA WorkersGate ==
  ASSUME IInv, GateInv, GateFloor >= 2 * MaxSdu, BufCap >= 4 * MaxSdu,
         NEW w \in Workers, WorkerStep(w)
  PROVE  GateInv'
<1>1. CASE Restart(w)
  BY <1>1, ResetGate DEF Restart
<1>2. CASE ~Restart(w)
  <2>1. app' = app /\ app.sid \in Nat
    BY <1>2, WorkerMoves, GateTypes
  <2>2. wk[w].pc # "free"
    <3> SUFFICES ASSUME At(w, "free") PROVE FALSE
      BY DEF At
    <3>1. ~(Begin(w) \/ BeginFails(w) \/ LoopDone(w) \/ LoopAborted(w) \/ LoopReads(w) \/ Receive(w))
      BY DEF Begin, BeginFails, LoopDone, LoopAborted, LoopReads, Receive, At
    <3>2. ~(ReceiveEmpty(w) \/ PollGate(w) \/ PollAgain(w))
      BY DEF ReceiveEmpty, PollGate, PollAgain, At
    <3>3. ~(ReceiveTimeout(w) \/ WriteFails(w) \/ LiftGate(w))
      BY DEF ReceiveTimeout, WriteFails, LiftGate, At
    <3>4. ~WriteChunk(w)
      BY DEF WriteChunk, At
    <3>5. ~(Verify(w) \/ EndImage(w) \/ SelectBoot(w) \/ Succeed(w) \/ Cleanup(w) \/ ToIdle(w))
      BY DEF Verify, EndImage, SelectBoot, Succeed, Cleanup, ToIdle, At
    <3>6. ~(NotifySnapshot(w) \/ NotifyTell(w))
      BY DEF NotifySnapshot, NotifyTell, At
    <3>7. ~(ResumeCheck(w) \/ ResumeClaim(w) \/ ResumeRearm(w) \/ ResumePutBack(w))
      BY DEF ResumeCheck, ResumeClaim, ResumeRearm, ResumePutBack, At
    <3> QED BY <1>2, <3>1, <3>2, <3>3, <3>4, <3>5, <3>6, <3>7 DEF WorkerStep
  <2>3. app.sid # 0
    BY <2>2 DEF GateInv, Early
  <2>4. CASE app.sid > 1
    BY <2>1, <2>4, GateLater
  <2>5. CASE ota'.state # "RECEIVING"
    BY <2>1, <2>3, <2>5, GateOver
  <2>6. CASE app.sid <= 1 /\ ota'.state = "RECEIVING"
    <3>1. ota.state = "RECEIVING"
      BY <1>2, <2>2, <2>6, Receives
    <3>2. CASE ResumeCheck(w) \/ ResumeClaim(w) \/ ResumeRearm(w) \/ ResumePutBack(w)
      BY <2>2, <2>6, <3>1, <3>2, ResumeGate
    <3>3. CASE ~(ResumeCheck(w) \/ ResumeClaim(w) \/ ResumeRearm(w) \/ ResumePutBack(w))
      BY <1>2, <2>2, <2>6, <3>1, <3>3, WorkerGate
    <3> QED BY <3>2, <3>3
  <2>7. app.sid > 1 \/ app.sid <= 1
    BY <2>1
  <2> QED BY <2>4, <2>5, <2>6, <2>7
<1> QED BY <1>1, <1>2

\* The host task: an SDU spends the room it was let in for, and the token is passed on.
LEMMA HostGate ==
  ASSUME IInv, GateInv, GateFloor >= 2 * MaxSdu, BufCap >= 4 * MaxSdu, HostStep
  PROVE  GateInv'
<1>a. /\ app.sid \in Nat /\ MaxSdu \in Nat /\ BufCap \in Nat /\ Len(ota.buf) \in Nat /\ InFlight \in Nat
      /\ l2c \in Links /\ l2c.credit \in Nat /\ ota \in Engines /\ ota.buf \in Slices
      /\ host \in [pc : HostPcs, sdu : Slices] /\ host.sdu \in Slices /\ Len(host.sdu) \in Nat
  BY GateTypes
<1>b. wk' = wk /\ app' = app
  BY DEF HostStep, AbortStore, SliceCheck, SliceSend, SliceCount, DataRearm, DataHold
<1> DEFINE Keeps == /\ ota'.state = ota.state
                    /\ app.sid = 0 => host'.pc # "hold" /\ ~l2c'.rearm_pending /\ OneToken'
                    /\ Guarded' => l2c'.chan # 0 /\ OneToken' /\ Room'
<1>k. ASSUME Keeps PROVE GateInv'
  BY <1>k, <1>b DEF GateInv, Early, First, Collecting
<1>1. CASE AbortStore
  <2>1. /\ ota'.state = ota.state /\ ota'.abort /\ l2c' = l2c /\ host'.pc = "idle"
        /\ host.pc \notin Handling
    BY <1>1, <1>a DEF AbortStore, HostGoto, Engines, Handling
  <2>2. OneToken => OneToken'
    BY <2>1, <1>b DEF OneToken, Handling
  <2> QED BY <1>k, <1>a, <2>1, <2>2 DEF GateInv, Early, Guarded
<1>2. CASE SliceCheck \/ SliceSend \/ SliceCount
  <2>1. /\ ota'.state = ota.state /\ ota'.abort = ota.abort /\ l2c' = l2c
        /\ host.pc \in Handling /\ host'.pc \in Handling \ {"hold"} /\ host.pc # "abort"
    BY <1>2, <1>a DEF SliceCheck, SliceSend, SliceCount, HostGoto, Engines, Handling
  <2>2. Len(ota'.buf) \in Nat /\ Len(host'.sdu) \in Nat
        /\ Len(ota'.buf) + Len(host'.sdu) <= Len(ota.buf) + Len(host.sdu)
        /\ Len(host'.sdu) <= Len(host.sdu)
    <3>1. host.sdu # <<>> => Len(Tail(host.sdu)) = Len(host.sdu) - 1 /\ Len(host.sdu) > 0
      BY <1>a, HeadTailProperties DEF Slices
    <3>2. CASE SliceCheck
      <4>1. ota' = ota /\ host'.sdu \in {host.sdu, Tail(host.sdu)} /\ host.sdu # <<>>
        BY <3>2, <1>a DEF SliceCheck, HostGoto
      <4> QED BY <1>a, <3>1, <4>1
    <3>3. CASE SliceSend
      <4>1. host.sdu # <<>> /\ host'.sdu = Tail(host.sdu)
        <5>1. host.pc = "send" /\ \E pc : host' = [pc |-> pc, sdu |-> Tail(host.sdu)]
          BY <3>3 DEF SliceSend
        <5>2. host.sdu # <<>>
          BY <5>1 DEF IInv, ControlInv
        <5> QED BY <5>1, <5>2
      <4>2. \/ ota' = ota
            \/ ota'.buf = Append(ota.buf, Head(host.sdu))
        BY <3>3, <1>a DEF SliceSend, Engines
      <4>3. Len(Append(ota.buf, Head(host.sdu))) = Len(ota.buf) + 1
        BY <1>a DEF Slices
      <4> QED BY <1>a, <3>1, <4>1, <4>2, <4>3
    <3>4. CASE SliceCount
      <4>1. ota'.buf = ota.buf /\ host'.sdu = host.sdu
        BY <3>4, <1>a DEF SliceCount, HostGoto, Engines
      <4> QED BY <1>a, <4>1
    <3> QED BY <1>2, <3>2, <3>3, <3>4
  <2>3. OneToken => OneToken'
    BY <2>1, <1>b DEF OneToken
  <2>4. Guarded' => Guarded
    BY <2>1, <1>b DEF Guarded
  <2>5. ASSUME OneToken, Room PROVE Room'
    <3>1. l2c.credit = 0 /\ l2c'.credit = 0
      BY <2>1, <2>5 DEF OneToken
    <3>2. InFlight = Len(host.sdu) /\ InFlight' = Len(host'.sdu)
      BY <2>1, <3>1 DEF InFlight
    <3>n. \A a, b, c, d, m, k \in Nat :
            d <= b /\ c + d <= a + b =>
              /\ b <= m => d <= m
              /\ a + b <= k => c + d <= k
              /\ a + b + m <= k => c + d + m <= k
      OBVIOUS
    <3>3. /\ InFlight <= MaxSdu => InFlight' <= MaxSdu
          /\ Len(ota.buf) + InFlight <= BufCap => Len(ota'.buf) + InFlight' <= BufCap
          /\ Len(ota.buf) + InFlight + MaxSdu <= BufCap => Len(ota'.buf) + InFlight' + MaxSdu <= BufCap
      <4>1. /\ InFlight \in Nat /\ InFlight' \in Nat /\ MaxSdu \in Nat /\ BufCap \in Nat
            /\ Len(ota.buf) \in Nat /\ Len(ota'.buf) \in Nat
        BY <1>a, <2>2, <3>2
      <4>2. InFlight' <= InFlight /\ Len(ota'.buf) + InFlight' <= Len(ota.buf) + InFlight
        BY <2>2, <3>2
      <4> QED BY <3>n, <4>1, <4>2
    <3> QED BY <1>b, <2>5, <3>3 DEF Room
  <2> QED BY <1>k, <2>1, <2>3, <2>4, <2>5 DEF GateInv, Early
<1>3. CASE DataRearm
  <2>1. ota' = ota /\ host.pc = "slice" /\ host.sdu = <<>> /\ host.pc # "abort"
    BY <1>3 DEF DataRearm
  <2>2. CASE WantsMore
    <3>1. host'.pc = "idle" /\ l2c'.credit \in {l2c.credit, l2c.credit + 1}
          /\ l2c'.chan = l2c.chan /\ l2c'.rearm_pending = l2c.rearm_pending
      BY <1>3, <2>2, <1>a DEF DataRearm, HostGoto, Links
    <3>2. ASSUME OneToken PROVE OneToken' /\ InFlight' \in {0, MaxSdu}
      <4>1. l2c.credit = 0 /\ ~l2c.rearm_pending
            /\ \A w \in Workers : wk[w].pc \notin {"rearm", "putback"}
        BY <2>1, <3>2 DEF OneToken, Handling
      <4>2. l2c'.credit <= 1 /\ host'.pc \notin Handling /\ ~l2c'.rearm_pending
        BY <3>1, <4>1 DEF Handling
      <4> QED BY <4>1, <4>2, <1>b DEF OneToken, InFlight
    <3>3. ASSUME Guarded' PROVE l2c'.chan # 0 /\ OneToken' /\ Room'
      <4>1. Guarded
        BY <2>1, <3>3, <1>b DEF Guarded
      <4>2. l2c'.chan # 0 /\ OneToken' /\ InFlight' \in {0, MaxSdu}
        BY <3>1, <3>2, <4>1 DEF GateInv
      <4>3. Len(ota.buf) + MaxSdu + MaxSdu <= BufCap
        BY <2>2, <4>1, OpenGate DEF Guarded
      <4>4. /\ InFlight' <= MaxSdu /\ Len(ota.buf) + InFlight' <= BufCap
            /\ Len(ota.buf) + InFlight' + MaxSdu <= BufCap
        BY <1>a, <4>2, <4>3
      <4> QED BY <2>1, <4>2, <4>4 DEF Room
    <3> QED BY <1>k, <2>1, <3>1, <3>2, <3>3 DEF GateInv, Early
  <2>3. CASE ~WantsMore
    <3>1. host'.pc = "hold" /\ host'.sdu = host.sdu /\ l2c' = l2c
      BY <1>3, <2>3, <1>a DEF DataRearm, HostGoto
    <3>2. ota.state = "RECEIVING"
      BY <2>3 DEF WantsMore
    <3>3. app.sid # 0
      BY <3>2 DEF GateInv, Early
    <3>4. Guarded' => Guarded
      BY <2>1, <1>b DEF Guarded
    <3>5. OneToken => OneToken'
      BY <2>1, <3>1, <1>b DEF OneToken, Handling
    <3>6. InFlight' = InFlight
      BY <2>1, <3>1 DEF InFlight, Handling
    <3>7. Room => Room'
      BY <2>1, <3>6, <1>b DEF Room
    <3> QED BY <1>k, <2>1, <3>1, <3>3, <3>4, <3>5, <3>7 DEF GateInv
  <2> QED BY <2>2, <2>3
<1>4. CASE DataHold
  <2>1. /\ ota' = ota /\ host.pc = "hold" /\ host'.pc = "idle" /\ l2c'.credit = l2c.credit
        /\ l2c'.chan = l2c.chan
    BY <1>4, <1>a DEF DataHold, HostGoto, Links
  <2>2. app.sid # 0
    BY <2>1 DEF GateInv, Early
  <2>3. Guarded' => Guarded
    BY <2>1, <1>b DEF Guarded
  <2>4. ASSUME OneToken, Room PROVE OneToken' /\ Room'
    <3>1. l2c.credit = 0 /\ \A w \in Workers : wk[w].pc \notin {"rearm", "putback"}
      BY <2>1, <2>4 DEF OneToken, Handling
    <3>2. OneToken'
      BY <2>1, <3>1, <1>b DEF OneToken, Handling
    <3>3. InFlight' = 0
      BY <2>1, <3>1 DEF InFlight, Handling
    <3>4. /\ InFlight' <= MaxSdu /\ Len(ota.buf) + InFlight' <= BufCap
          /\ Len(ota.buf) + InFlight + MaxSdu <= BufCap => Len(ota.buf) + InFlight' + MaxSdu <= BufCap
      BY <1>a, <2>4, <3>3 DEF Room
    <3> QED BY <1>b, <2>1, <2>4, <3>2, <3>4 DEF Room
  <2> QED BY <1>k, <2>1, <2>2, <2>3, <2>4 DEF GateInv
<1> QED BY <1>1, <1>2, <1>3, <1>4 DEF HostStep

\* Steps that touch neither the channel nor the handler, and leave the tasks and the state alone.
LEMMA GateAside ==
  ASSUME GateInv, app'.sid = app.sid, wk' = wk, host' = host, ota'.state = ota.state,
         ota'.abort \/ (ota'.abort = ota.abort /\ ota'.buf = ota.buf),
         l2c'.chan = l2c.chan, l2c'.credit = l2c.credit, l2c'.rearm_pending = l2c.rearm_pending
  PROVE  GateInv'
<1>1. OneToken' <=> OneToken
  BY DEF OneToken
<1>2. Early' /\ First'
  BY DEF GateInv, Early, First, Collecting
<1>3. Guarded' => Guarded /\ ota'.buf = ota.buf
  BY DEF Guarded
<1>4. ota'.buf = ota.buf => (Room' <=> Room)
  BY InFlightSame DEF Room
<1> QED BY <1>1, <1>2, <1>3, <1>4 DEF GateInv

\* An SDU comes in on the peer's one credit.
LEMMA DataGate ==
  ASSUME IInv, GateInv, NEW slices \in Slices, Len(slices) \in 1..MaxSdu, DataReceived(slices),
         app'.sid = app.sid, wk' = wk, ota' = ota
  PROVE  GateInv'
<1>a. /\ app.sid \in Nat /\ MaxSdu \in Nat /\ BufCap \in Nat /\ Len(ota.buf) \in Nat
      /\ l2c \in Links /\ l2c.credit \in Nat
  BY GateTypes
<1>1. /\ l2c.credit > 0 /\ l2c'.credit = l2c.credit - 1 /\ l2c'.chan = l2c.chan
      /\ l2c'.rearm_pending = l2c.rearm_pending /\ host.pc = "idle" /\ host'.pc = "slice"
      /\ host'.sdu \in {slices, <<>>}
  BY <1>a DEF DataReceived, Links
<1>2. ASSUME OneToken PROVE OneToken' /\ l2c'.credit = 0
  <2>1. l2c'.credit = 0
    BY <1>a, <1>1, <1>2 DEF OneToken
  <2>2. ~l2c.rearm_pending /\ \A w \in Workers : wk[w].pc \notin {"rearm", "putback"}
    BY <1>1, <1>2 DEF OneToken
  <2> QED BY <2>1, <2>2, <1>1 DEF OneToken
<1>3. Early' /\ First'
  BY <1>1 DEF GateInv, Early, First, Collecting
<1>4. Guarded' => Guarded
  BY <1>1 DEF Guarded
<1>5. ASSUME OneToken, Room PROVE Room'
  <2>1. InFlight = MaxSdu /\ InFlight' = Len(host'.sdu)
    BY <1>1, <1>2, <1>5 DEF InFlight, Handling
  <2>2. Len(host'.sdu) \in Nat /\ Len(host'.sdu) <= MaxSdu
    <3>1. Len(<<>>) = 0
      OBVIOUS
    <3> QED BY <1>a, <1>1, <3>1
  <2>3. /\ InFlight' <= MaxSdu
        /\ (Len(ota.buf) + InFlight <= BufCap => Len(ota.buf) + InFlight' <= BufCap)
        /\ (Len(ota.buf) + InFlight + MaxSdu <= BufCap => Len(ota.buf) + InFlight' + MaxSdu <= BufCap)
    <3>1. \A a, b, c, k \in Nat : c <= b => /\ (a + b <= k => a + c <= k)
                                           /\ (a + b + b <= k => a + c + b <= k)
      OBVIOUS
    <3>2. InFlight' \in Nat /\ InFlight' <= MaxSdu /\ InFlight = MaxSdu
      BY <2>1, <2>2
    <3> QED BY <1>a, <3>1, <3>2
  <2> QED BY <1>5, <2>3 DEF Room
<1> QED BY <1>1, <1>2, <1>3, <1>4, <1>5 DEF GateInv

\* The channel is lost: in a session that makes the host task store the abort flag next.
LEMMA LostGate ==
  ASSUME IInv, GateInv, NEW linked, ChannelLost(linked), AbortFromHost, host.pc = "idle",
         app' = app, wk' = wk, ota' = ota
  PROVE  GateInv'
<1>a. l2c \in Links /\ host \in [pc : HostPcs, sdu : Slices]
  BY GateTypes
<1>1. l2c'.credit = 0 /\ ~l2c'.rearm_pending
  BY <1>a DEF ChannelLost, Links
<1>2. host'.pc \in {"idle", "abort"} /\ (IsBusy => host'.pc = "abort")
  BY <1>a DEF AbortFromHost, HostGoto
<1>3. OneToken => OneToken'
  BY <1>1, <1>2 DEF OneToken, Handling
<1>4. ~Guarded'
  BY <1>2 DEF Guarded, IsBusy
<1>5. Early' /\ First'
  BY <1>1, <1>2 DEF GateInv, Early, First, Collecting
<1> QED BY <1>3, <1>4, <1>5 DEF GateInv

LEMMA StartGate ==
  ASSUME IInv, GateInv, BufCap >= 4 * MaxSdu, NEW w \in Workers, StartOta(w)
  PROVE  GateInv'
<1>a. /\ app.sid \in Nat /\ MaxSdu \in Nat /\ BufCap \in Nat /\ l2c.credit \in Nat
      /\ wk \in [Workers -> Tasks] /\ app \in Apps
  BY GateTypes
<1>1. /\ app'.sid = app.sid + 1 /\ host' = host /\ l2c' = l2c /\ host.pc = "idle" /\ l2c.chan # 0
      /\ ota' = NewSession
  BY <1>a DEF StartOta, CanStart, Apps
<1>2. ota'.buf = <<>> /\ Len(<<>>) = 0
  BY <1>1 DEF NewSession, Engine0
<1>3. wk'[w].pc = "begin" /\ \A v \in Workers \ {w} : wk'[v] = wk[v]
  BY <1>a, GotoFacts DEF StartOta
<1>4. CASE app.sid = 0
  <2>1. OneToken /\ \A v \in Workers : wk[v].pc = "free"
    BY <1>4 DEF GateInv, Early
  <2>2. First'
    BY <1>3, <2>1 DEF First, Collecting
  <2>3. \A v \in Workers : wk'[v].pc \in {"begin", "free"}
    BY <1>3, <2>1
  <2>4. OneToken'
    BY <1>1, <2>1, <2>3 DEF OneToken
  <2>5. InFlight' \in {0, MaxSdu}
    BY <1>1 DEF InFlight, Handling
  <2>6. InFlight' <= MaxSdu /\ 0 + InFlight' <= BufCap
    <3>1. \A x \in {0, MaxSdu} : x <= MaxSdu /\ 0 + x <= BufCap
      BY <1>a
    <3> QED BY <2>5, <3>1
  <2>7. Room'
    BY <1>2, <2>3, <2>6 DEF Room, Lifting
  <2> QED BY <1>1, <1>4, <1>a, <2>2, <2>4, <2>7 DEF GateInv, Early
<1>5. CASE app.sid # 0
  BY <1>a, <1>1, <1>5, GateLater
<1> QED BY <1>4, <1>5

LEMMA EnvironmentGate ==
  ASSUME IInv, GateInv, BufCap >= 4 * MaxSdu, BoardAbortStore \/ Environment
  PROVE  GateInv'
<1>a. /\ ota \in Engines /\ l2c \in Links /\ l2c.credit \in Nat /\ app \in Apps /\ app.sid \in Nat
      /\ host \in [pc : HostPcs, sdu : Slices] /\ MaxSdu \in Nat \ {0}
  BY GateTypes
<1>1. CASE BoardAbortStore
  <2>1. /\ app' = app /\ wk' = wk /\ host' = host /\ l2c' = l2c /\ ota'.state = ota.state /\ ota'.abort
    BY <1>1, <1>a DEF BoardAbortStore, Engines
  <2> QED BY <2>1, GateAside
<1>2. CASE AppSwitch \/ BoardAbort
  <2>1. /\ app'.sid = app.sid /\ wk' = wk /\ host' = host /\ l2c' = l2c /\ ota' = ota
    BY <1>2, <1>a DEF AppSwitch, BoardAbort, Apps
  <2> QED BY <2>1, GateAside
<1>3. CASE StartOtaNoTask
  <2>1. /\ app' = app /\ wk' = wk /\ host' = host /\ l2c' = l2c /\ ota'.state = "IDLE"
        /\ ota.state = "IDLE"
    BY <1>3 DEF StartOtaNoTask, CanStart, Engine0
  <2>2. OneToken' <=> OneToken
    BY <2>1 DEF OneToken
  <2> QED BY <2>1, <2>2 DEF GateInv, Early, First, Guarded
<1>4. CASE \E w \in Workers : StartOta(w)
  BY <1>4, StartGate
<1>5. CASE AbortOta
  <2>1. /\ app' = app /\ wk' = wk /\ ota' = ota /\ l2c' = l2c /\ host.pc = "idle"
        /\ IF IsBusy THEN host'.pc = "abort" ELSE host' = host
    BY <1>5, <1>a DEF AbortOta, AbortFromHost, HostGoto
  <2>2. CASE ~IsBusy
    BY <2>1, <2>2, GateAside
  <2>3. CASE IsBusy
    <3>1. OneToken => OneToken'
      BY <2>1, <2>3 DEF OneToken, Handling
    <3> QED BY <2>1, <2>3, <3>1 DEF GateInv, Early, First, Guarded, Collecting
  <2> QED BY <2>2, <2>3
<1>6. CASE \E n \in 1..MaxSdu : AppPush(n)
  <2> PICK n \in 1..MaxSdu : AppPush(n)
    BY <1>6
  <2> DEFINE sdu == [k \in 1..n |-> <<app.pushing, app.next + k - 1>>]
  <2>1. sdu \in Slices /\ Len(sdu) = n
    <3>1. app.pushing \in 0..MaxSessions /\ app.next \in Nat \ {0} /\ app.next + n <= FwSize + 1
      BY <1>a DEF AppPush, Apps
    <3>2. \A k \in 1..n : <<app.pushing, app.next + k - 1>> \in Units
      BY <3>1, <1>a, OtaAssumption DEF Units
    <3>3. n \in Nat
      BY <1>a
    <3> QED BY <3>2, <3>3 DEF Slices
  <2>2. DataReceived(sdu) /\ wk' = wk /\ ota' = ota /\ app'.sid = app.sid
    BY <1>a DEF AppPush, Apps
  <2> HIDE DEF sdu
  <2> QED BY <2>1, <2>2, DataGate
<1>7. CASE AppAudio
  <2> DEFINE sdu == << <<0, 1>> >>
  <2>1. sdu \in Slices /\ Len(sdu) \in 1..MaxSdu
    BY <1>a, OtaAssumption DEF Slices, Units
  <2>2. DataReceived(sdu) /\ wk' = wk /\ ota' = ota /\ app' = app
    BY <1>7 DEF AppAudio
  <2> HIDE DEF sdu
  <2> QED BY <2>1, <2>2, DataGate
<1>8. CASE LinkUp
  <2>1. /\ l2c'.chan = l2c.chan /\ l2c'.credit = l2c.credit
        /\ l2c'.rearm_pending = l2c.rearm_pending /\ wk' = wk /\ host' = host /\ app' = app /\ ota' = ota
    BY <1>8, <1>a DEF LinkUp, Links
  <2> QED BY <2>1, GateAside
<1>9. CASE ChannelUp
  <2>1. /\ l2c'.credit = 1 /\ l2c.chan = 0 /\ l2c'.rearm_pending = l2c.rearm_pending
        /\ wk' = wk /\ host' = host /\ app' = app /\ ota' = ota /\ host.pc = "idle"
    BY <1>9, <1>a DEF ChannelUp, Links
  <2>2. ~Guarded'
    BY <2>1 DEF GateInv, Guarded
  <2>3. app.sid = 0 => OneToken'
    BY <2>1 DEF GateInv, Early, OneToken, Handling
  <2> QED BY <2>1, <2>2, <2>3 DEF GateInv, Early, First, Collecting
<1>10. CASE ChannelDown \/ LinkDown
  <2>1. \E linked : ChannelLost(linked)
    BY <1>10 DEF ChannelDown, LinkDown
  <2>2. AbortFromHost /\ host.pc = "idle" /\ app' = app /\ wk' = wk /\ ota' = ota
    BY <1>10 DEF ChannelDown, LinkDown
  <2> QED BY <2>1, <2>2, LostGate
<1>11. CASE PowerLoss
  BY <1>11, ResetGate DEF PowerLoss
<1> QED BY <1>1, <1>2, <1>3, <1>4, <1>5, <1>6, <1>7, <1>8, <1>9, <1>10, <1>11 DEF Environment

LEMMA NextGate ==
  ASSUME IInv, GateInv, GateFloor >= 2 * MaxSdu, BufCap >= 4 * MaxSdu, [Next]_vars
  PROVE  GateInv'
<1>1. CASE UNCHANGED vars
  BY <1>1, GateAside DEF vars
<1> QED BY <1>1, WorkersGate, HostGate, EnvironmentGate DEF Next

\* In the first session after a start the ring buffer never overflows, however the worker, the
\* host task and the App interleave and whatever fails, if the gate's floor is two of the peer's
\* SDUs, as the code has it (ota_service.cpp kGateFloor, 8 KB for kL2capMtu of 4 KB), and the
\* buffer is twice that: when the gate is lifted there is room for the SDU it lets in and for one
\* more, which the peer may be granted before the worker re-arms.  With a second session the
\* gate can be lifted twice.
THEOREM GateHolds ==
  ASSUME GateFloor >= 2 * MaxSdu, BufCap >= 4 * MaxSdu
  PROVE  Spec => [](app.sid <= 1 => NoOverflow)
<1>1. Init => GateInv
  BY DEF Init, GateInv, Early, First, Guarded, OneToken, Engine0, Task0, Host0, Handling
<1>2. IInv /\ GateInv /\ [Next]_vars => GateInv'
  BY NextGate
<1>3. ASSUME IInv, GateInv PROVE app.sid <= 1 => NoOverflow
  <2> SUFFICES ASSUME app.sid <= 1, host.pc = "send", ota.state = "RECEIVING", ~ota.abort
               PROVE  SpaceLeft > 0
    BY DEF NoOverflow
  <2>a. /\ app.sid \in Nat /\ BufCap \in Nat /\ Len(ota.buf) \in Nat /\ Len(host.sdu) \in Nat
        /\ host.sdu \in Slices
    BY <1>3, GateTypes
  <2>1. Guarded
    BY <1>3, <2>a DEF GateInv, Early, Guarded
  <2>2. l2c.credit = 0 /\ Len(ota.buf) + InFlight <= BufCap
    BY <1>3, <2>1 DEF GateInv, OneToken, Room, Handling
  <2>3. InFlight = Len(host.sdu)
    BY <2>2 DEF InFlight, Handling
  <2>4. Len(host.sdu) > 0
    BY <1>3, <2>a, SlicesClosed DEF IInv, ControlInv
  <2>5. \A a, b, k \in Nat : a + b <= k /\ b > 0 => k - a > 0
    OBVIOUS
  <2>6. BufCap - Len(ota.buf) > 0
    BY <2>a, <2>2, <2>3, <2>4, <2>5
  <2> QED BY <2>6 DEF SpaceLeft
<1> QED BY <1>1, <1>2, <1>3, Invariance, PTL DEF Spec

-----------------------------------------------------------------------------
(***************************************************************************)
(* Who is at fault for a timeout.  A worker that has waited in vain is     *)
(* the only one that waits, and either something is on its way to it or    *)
(* each of its empty polls, but the one under way, has cost a fault: an    *)
(* empty pool when the credit was to be given.                             *)
(***************************************************************************)
Polling == {"poll", "resume", "claim", "rearm"}
Bounds ==
  /\ l2c.opened <= MaxChans /\ faults <= MaxFaults
  /\ host.pc = "hold" => host.sdu = <<>>
  /\ \A w \in Workers : wk[w].pc = "free" => wk[w].idle = 0
\* Nothing is coming, and the peer may not send.
Silent == host.pc \notin Handling /\ l2c.chan # 0 /\ l2c.credit = 0 /\ ota.buf = <<>>
Waits(w) == Collecting(w) /\ wk[w].idle > 0
Alone(w) == \A v \in Workers \ {w} : wk[v].pc \notin Resuming
Excused(w) ==
  /\ Alone(w)
  /\ host.pc \in Handling => host.sdu # <<>> \/ ota.buf # <<>>
  /\ Silent => wk[w].idle <= faults + (IF wk[w].pc \in Polling THEN 1 ELSE 0)
PollInv == Bounds /\ \A w \in Workers : Waits(w) => Excused(w)
Reliable == /\ "pool_host" \notin Faults /\ MaxFaults < IdleMax
            /\ MaxChans <= 1 \/ Faults \cap {"channel", "link"} = {}

\* Whatever happens costs at most one fault.
LEMMA Counted ==
  ASSUME Next
  PROVE  faults' = faults \/ \E k : Fault(k)
<1>1. ASSUME NEW w \in Workers, WorkerStep(w) PROVE faults' = faults \/ \E k : Fault(k)
  <2>1. Begin(w) \/ LoopDone(w) \/ LoopAborted(w) \/ LoopReads(w) => faults' = faults
    BY DEF Begin, LoopDone, LoopAborted, LoopReads
  <2>2. Receive(w) \/ ReceiveEmpty(w) \/ PollGate(w) \/ PollAgain(w) => faults' = faults
    BY DEF Receive, ReceiveEmpty, PollGate, PollAgain
  <2>3. ReceiveTimeout(w) \/ LiftGate(w) => faults' = faults
    BY DEF ReceiveTimeout, LiftGate
  <2>9. Verify(w) => faults' = faults \/ \E k : Fault(k)
    BY DEF Verify
  <2>8. WriteChunk(w) => faults' = faults
    BY DEF WriteChunk
  <2>4. Succeed(w) \/ Restart(w) \/ Cleanup(w) \/ ToIdle(w) => faults' = faults
    BY DEF Succeed, Restart, Cleanup, ToIdle
  <2>5. NotifySnapshot(w) \/ NotifyTell(w) \/ ResumeCheck(w) \/ ResumeClaim(w) \/ ResumePutBack(w) => faults' = faults
    BY DEF NotifySnapshot, NotifyTell, ResumeCheck, ResumeClaim, ResumePutBack
  <2>6. BeginFails(w) \/ WriteFails(w) => \E k : Fault(k)
    BY DEF BeginFails, WriteFails
  <2>7. EndImage(w) \/ SelectBoot(w) \/ ResumeRearm(w) => faults' = faults \/ \E k : Fault(k)
    BY DEF EndImage, SelectBoot, ResumeRearm
  <2> QED BY <1>1, <2>1, <2>2, <2>3, <2>4, <2>5, <2>6, <2>7, <2>8, <2>9 DEF WorkerStep
<1>2. HostStep \/ BoardAbortStore => faults' = faults \/ \E k : Fault(k)
  BY DEF HostStep, AbortStore, SliceCheck, SliceSend, SliceCount, DataRearm, DataHold, BoardAbortStore
<1>3. ASSUME Environment PROVE faults' = faults \/ \E k : Fault(k)
  <2>1. (\E w \in Workers : StartOta(w)) \/ AppSwitch \/ LinkUp \/ ChannelUp => faults' = faults
    BY DEF StartOta, AppSwitch, LinkUp, ChannelUp
  <2>2. (\E n \in 1..MaxSdu : AppPush(n)) => faults' = faults
    BY DEF AppPush
  <2>3. StartOtaNoTask \/ AbortOta \/ AppAudio => \E k : Fault(k)
    BY DEF StartOtaNoTask, AbortOta, AppAudio
  <2>4. ChannelDown \/ LinkDown \/ BoardAbort \/ PowerLoss => \E k : Fault(k)
    BY DEF ChannelDown, LinkDown, BoardAbort, PowerLoss
  <2> QED BY <1>3, <2>1, <2>2, <2>3, <2>4 DEF Environment
<1> QED BY <1>1, <1>2, <1>3 DEF Next

LEMMA FaultsGrow ==
  ASSUME faults \in Nat, faults <= MaxFaults, Next
  PROVE  /\ faults' \in Nat /\ faults <= faults' /\ faults' <= MaxFaults
BY Counted, OtaAssumption DEF Fault

LEMMA PollTypes ==
  ASSUME IInv
  PROVE  /\ faults \in Nat /\ \A w \in Workers : wk[w].idle \in Nat /\ wk[w].ret \in Returns
         /\ l2c.opened \in Nat
BY TypeParts DEF IInv, Tasks, Links, Returns

LEMMA TaskIdle ==
  ASSUME wk \in [Workers -> Tasks], NEW w \in Workers
  PROVE  /\ \A pc : Goto(w, pc) => wk'[w].idle = wk[w].idle
         /\ \A pc : CallResume(w, pc) => wk'[w].idle = wk[w].idle
         /\ wk' = Returned(w) => wk'[w].idle = wk[w].idle
BY DEF Tasks, Goto, CallResume, Returned

\* A step of someone else keeps the excuse of a worker that waits.
LEMMA ExcusedSame ==
  ASSUME IInv, NEW w \in Workers, Excused(w),
         wk'[w].pc = wk[w].pc, wk'[w].idle = wk[w].idle, Alone(w)',
         faults' \in Nat, faults <= faults',
         host'.pc \in Handling => host'.sdu # <<>> \/ ota'.buf # <<>>,
         Silent' => Silent
  PROVE  Excused(w)'
<1>1. \A i, f, g, b \in Nat : f <= g /\ i <= f + b => i <= g + b
  OBVIOUS
<1>2. (IF wk[w].pc \in Polling THEN 1 ELSE 0) \in Nat
  OBVIOUS
<1>3. Silent => wk[w].idle <= faults' + (IF wk[w].pc \in Polling THEN 1 ELSE 0)
  BY <1>1, <1>2, PollTypes DEF Excused
<1> QED BY <1>3 DEF Excused

\* Who collects after a step of its own collected before.
LEMMA Collects ==
  ASSUME IInv, StageInv, NEW w \in Workers, WorkerStep(w), ~Restart(w), Collecting(w)'
  PROVE  Collecting(w) /\ ota.state = "RECEIVING" /\ ota'.state = "RECEIVING"
<1>a. wk \in [Workers -> Tasks] /\ ota \in Engines /\ wk[w].ret \in Returns
  BY PollTypes, GateTypes
<1>1. ota'.state = "RECEIVING"
  BY WorkerStage
<1>2. ota.state = "RECEIVING"
  BY <1>1, Receives
<1>3. wk[w].pc \notin Judging
  BY <1>2 DEF StageInv
<1>4. Owns(w) /\ wk[w].pc # "toidle"
  <2>1. Owns(w)'
    BY DEF Collecting, Owns, Working, Resuming
  <2> QED BY <2>1, WorkerMoves
<1>5. wk[w].pc \notin Rebooting \cup {"cleanup"}
  <2> SUFFICES ASSUME wk[w].pc \in Rebooting \cup {"cleanup"} PROVE FALSE
    OBVIOUS
  <2>1. wk'[w].pc \in {"restart", "toidle"}
    <3>1. (Succeed(w) => wk'[w].pc = "restart") /\ (Cleanup(w) => wk'[w].pc = "toidle")
      BY <1>a, GotoFacts DEF Succeed, Cleanup
    <3>2. \A pc \in {"begin", "loop", "recv", "poll", "expire", "write", "gate", "verify", "end",
            "bootsel", "toidle", "notify", "tell", "resume", "claim", "rearm", "putback"} : ~At(w, pc)
      BY DEF At, Rebooting
    <3>3. ~(Begin(w) \/ BeginFails(w) \/ LoopDone(w) \/ LoopAborted(w) \/ LoopReads(w) \/ Receive(w))
      BY <3>2 DEF Begin, BeginFails, LoopDone, LoopAborted, LoopReads, Receive
    <3>4. ~(ReceiveEmpty(w) \/ PollGate(w) \/ PollAgain(w))
      BY <3>2 DEF ReceiveEmpty, PollGate, PollAgain
    <3>5. ~(ReceiveTimeout(w) \/ WriteFails(w) \/ LiftGate(w))
      BY <3>2 DEF ReceiveTimeout, WriteFails, LiftGate
    <3>6. ~WriteChunk(w)
      BY <3>2 DEF WriteChunk
    <3>7. ~(Verify(w) \/ EndImage(w) \/ SelectBoot(w))
      BY <3>2 DEF Verify, EndImage, SelectBoot
    <3>8. ~(ToIdle(w) \/ NotifySnapshot(w) \/ NotifyTell(w))
      BY <3>2 DEF ToIdle, NotifySnapshot, NotifyTell
    <3>9. ~(ResumeCheck(w) \/ ResumeClaim(w) \/ ResumeRearm(w) \/ ResumePutBack(w))
      BY <3>2 DEF ResumeCheck, ResumeClaim, ResumeRearm, ResumePutBack
    <3> QED BY <3>1, <3>3, <3>4, <3>5, <3>6, <3>7, <3>8, <3>9 DEF WorkerStep
  <2> QED BY <2>1 DEF Collecting, Resuming
<1>8. Collecting(w)
  BY <1>3, <1>4, <1>5 DEF Collecting, Owns, Working, Judging, Rebooting
<1> QED BY <1>1, <1>2, <1>8

\* What an empty poll finds: nothing to read, nobody resuming, no handler; and with an empty
\* buffer the gate is open.
LEMMA EmptyWants ==
  ASSUME IInv, ota.buf = <<>>
  PROVE  WantsMore
<1>1. BufCap \in Nat /\ BufCap \div 2 \in Nat /\ BufCap \div 2 <= BufCap /\ BufCap \div 4 \in Nat /\ GateFloor \in Nat
  BY OtaAssumption
<1>2. RxGateMinFree <= BufCap
  BY <1>1 DEF RxGateMinFree, Least, Most
<1>3. SpaceLeft = BufCap
  BY <1>1 DEF SpaceLeft
<1> QED BY <1>2, <1>3 DEF WantsMore

\* Steps of the worker itself, outside ResumeL2capRx.
LEMMA WaitsOn ==
  ASSUME IInv, StageInv, CreditInv, PollInv, NEW w \in Workers, WorkerStep(w), ~Restart(w),
         ~ResumeCheck(w), ~ResumeClaim(w), ~ResumeRearm(w), ~ResumePutBack(w), Waits(w)'
  PROVE  Excused(w)'
<1>a. /\ ota \in Engines /\ wk \in [Workers -> Tasks] /\ wk[w].idle \in Nat /\ faults \in Nat
  BY PollTypes, GateTypes
<1>b. Collecting(w) /\ ota.state = "RECEIVING" /\ ota'.state = "RECEIVING"
  BY Collects DEF Waits
<1>c. faults' \in Nat /\ faults <= faults'
  BY <1>a, FaultsGrow DEF PollInv, Bounds, Next
<1>d. host' = host /\ l2c' = l2c /\ \A v \in Workers \ {w} : wk'[v] = wk[v]
  BY WorkerMoves, WorkerOutside
<1>e. wk'[w].idle > 0
  BY DEF Waits
<1> DEFINE B == IF wk[w].pc \in Polling THEN 1 ELSE 0
           C == IF wk'[w].pc \in Polling THEN 1 ELSE 0
<1>f. ASSUME NEW o \in Engines, NEW code, FailWith(w, code, o) PROVE FALSE
  BY <1>a, <1>b, <1>f, FailFacts
\* Most steps leave buffer and count alone.
<1>k. ASSUME ota'.buf = ota.buf, wk'[w].idle = wk[w].idle, B <= C \/ ota.buf # <<>>
      PROVE  Excused(w)'
  <2>1. Excused(w)
    BY <1>b, <1>e, <1>k DEF PollInv, Waits
  <2>2. Alone(w)'
    BY <2>1, <1>d DEF Excused, Alone
  <2>3. Silent' <=> Silent
    BY <1>d, <1>k DEF Silent
  <2>4. \A i, f, g, b, c \in Nat : f <= g /\ b <= c /\ i <= f + b => i <= g + c
    OBVIOUS
  <2>5. B \in Nat /\ C \in Nat
    OBVIOUS
  <2>6. ASSUME Silent PROVE wk[w].idle <= faults' + C
    <3>1. wk[w].idle <= faults + B
      BY <2>1, <2>6 DEF Excused
    <3>2. B <= C
      BY <1>k, <2>6 DEF Silent
    <3> HIDE DEF B, C
    <3> QED BY <1>a, <1>c, <2>4, <2>5, <3>1, <3>2
  <2> QED BY <2>1, <2>2, <2>3, <2>6, <1>d, <1>k DEF Excused
<1>g. \A pc : Goto(w, pc) => wk'[w].pc = pc /\ wk'[w].idle = wk[w].idle
  BY <1>a, GotoFacts, TaskIdle
<1>h. \A pc : CallResume(w, pc) => wk'[w].pc = "resume" /\ wk'[w].idle = wk[w].idle
  BY <1>a, CallFacts, TaskIdle
<1>1. CASE Begin(w)
  BY <1>1, <1>a, <1>g, <1>k DEF Begin, At, Polling, Engines
<1>2. CASE BeginFails(w)
  <2>1. [ota EXCEPT !.handle = TRUE] \in Engines
    BY <1>a, EngineWith
  <2> QED BY <1>2, <1>a, <1>f, <2>1 DEF BeginFails
<1>3. CASE LoopAborted(w) \/ ReceiveTimeout(w)
  BY <1>3, <1>a, <1>f DEF LoopAborted, ReceiveTimeout
<1>4. CASE LoopReads(w) \/ PollAgain(w)
  BY <1>4, <1>g, <1>k DEF LoopReads, PollAgain, At, Polling
<1>5. CASE Receive(w)
  <2>1. \E c : wk' = [wk EXCEPT ![w].pc = "write", ![w].idle = 0, ![w].chunk = c]
    BY <1>5 DEF Receive
  <2>2. wk'[w].idle = 0
    BY <1>a, <2>1 DEF Tasks
  <2> QED BY <1>e, <2>2
<1>6. CASE ReceiveEmpty(w)
  <2>1. /\ wk'[w].pc = "poll" /\ wk'[w].idle = wk[w].idle + 1 /\ ota' = ota /\ wk[w].pc = "recv"
        /\ ota.buf = <<>> /\ host.pc = "idle" /\ faults' = faults
        /\ \A v \in Workers : wk[v].pc \notin Resuming
    BY <1>6, <1>a DEF ReceiveEmpty, At, Tasks
  <2>2. Alone(w)' /\ host'.pc \notin Handling
    BY <2>1, <1>d DEF Alone, Handling
  <2>3. ASSUME Silent' PROVE wk[w].idle <= faults
    <3>1. CASE wk[w].idle = 0
      BY <1>a, <3>1
    <3>2. CASE wk[w].idle > 0
      <4>1. Excused(w) /\ Silent
        BY <1>b, <1>d, <2>1, <2>3, <3>2 DEF PollInv, Waits, Silent
      <4>2. wk[w].idle <= faults + 0
        BY <2>1, <4>1 DEF Excused, Polling
      <4> QED BY <1>a, <4>2
    <3> QED BY <1>a, <3>1, <3>2
  <2>4. Silent' => wk'[w].idle <= faults' + 1
    BY <1>a, <2>1, <2>3
  <2> QED BY <2>1, <2>2, <2>4 DEF Excused, Polling
<1>7. CASE PollGate(w)
  <2>1. WantsMore \/ ota.buf # <<>>
    BY EmptyWants
  <2>2. ota' = ota /\ wk[w].pc = "poll" /\ IF WantsMore THEN CallResume(w, "expire") ELSE Goto(w, "expire")
    BY <1>7 DEF PollGate, At
  <2> QED BY <2>1, <2>2, <1>g, <1>h, <1>k DEF Polling
<1>8. CASE WriteChunk(w)
  <2>1. wk'[w].pc = "gate" /\ wk'[w].idle = wk[w].idle /\ wk[w].pc = "write" /\ ota'.buf = ota.buf
    BY <1>8, <1>a DEF WriteChunk, At, Tasks, Engines
  <2> QED BY <2>1, <1>k DEF Polling
<1>9. CASE WriteFails(w)
  <2>1. ota.sha \in Slices /\ wk[w].chunk \in Slices
    BY <1>a DEF Engines, Tasks
  <2>2. [ota EXCEPT !.sha = ota.sha \o wk[w].chunk] \in Engines
    BY <1>a, <2>1, SlicesClosed, EngineWith
  <2> QED BY <1>9, <2>2, <1>f DEF WriteFails
<1>10. CASE LiftGate(w)
  BY <1>10, <1>g, <1>h, <1>k DEF LiftGate, At, Polling
<1>11. CASE LoopDone(w)
  BY <1>11, <1>a, <1>b DEF LoopDone, Engines
<1>12. wk[w].pc \notin {"verify", "end", "bootsel", "success", "cleanup", "toidle", "notify", "tell"}
  BY <1>b DEF Collecting, Resuming
<1>13. ~(Verify(w) \/ EndImage(w) \/ SelectBoot(w) \/ Succeed(w) \/ Cleanup(w) \/ ToIdle(w)
          \/ NotifySnapshot(w) \/ NotifyTell(w))
  BY <1>12 DEF Verify, EndImage, SelectBoot, Succeed, Cleanup, ToIdle, NotifySnapshot, NotifyTell, At
<1> QED BY <1>13, <1>1, <1>2, <1>3, <1>4, <1>5, <1>6, <1>7, <1>8, <1>9, <1>10, <1>11 DEF WorkerStep

\* While a worker waits and the peer may not send, the rearm is owed to that worker.
LEMMA OwedToIt ==
  ASSUME IInv, CreditInv, PollInv, Reliable, NEW w \in Workers, Alone(w), Silent,
         wk[w].pc \in {"resume", "claim", "rearm"}
  PROVE  /\ wk[w].pc # "rearm" => l2c.rearm_pending
         /\ wk[w].pc = "rearm" => wk[w].chan = l2c.chan
<1>a. l2c.opened \in Nat /\ l2c.chan \in Nat /\ l2c.credit \in Nat /\ MaxChans \in Nat
  BY PollTypes, LinkTyped, OtaAssumption
<1>1. l2c.opened <= 1 \/ NoChannelFault
  BY <1>a DEF Reliable, NoChannelFault, PollInv, Bounds
<1>2. Owed
  BY <1>a, <1>1 DEF CreditInv, Balance, OneChannel, Silent
<1>3. wk[w].pc # "rearm" => l2c.rearm_pending
  BY <1>2 DEF Owed, Alone, Resuming
<1>4. ASSUME wk[w].pc = "rearm" PROVE wk[w].chan = l2c.chan
  <2>1. wk[w].chan \in 1..l2c.opened /\ l2c.chan <= l2c.opened /\ l2c.chan # 0
        /\ (NoChannelFault => wk[w].chan = l2c.chan)
    BY <1>4 DEF CreditInv, Snapshots, Claims, Silent
  <2> QED BY <1>a, <1>1, <2>1
<1> QED BY <1>3, <1>4

LEMMA WaitsResuming ==
  ASSUME IInv, StageInv, CreditInv, PollInv, Reliable, NEW w \in Workers, WorkerStep(w), ~Restart(w),
         ResumeCheck(w) \/ ResumeClaim(w) \/ ResumeRearm(w) \/ ResumePutBack(w), Waits(w)'
  PROVE  Excused(w)'
<1>a. /\ wk \in [Workers -> Tasks] /\ wk[w].idle \in Nat /\ faults \in Nat /\ wk[w].ret \in Returns
      /\ l2c \in Links /\ l2c.credit \in Nat
  BY PollTypes, GateTypes
<1>b. Collecting(w)
  BY Collects DEF Waits
<1>c. faults' \in Nat /\ faults <= faults'
  BY <1>a, FaultsGrow DEF PollInv, Bounds, Next
<1>d. /\ host' = host /\ ota' = ota /\ \A v \in Workers \ {w} : wk'[v] = wk[v]
  BY WorkerMoves DEF ResumeCheck, ResumeClaim, ResumeRearm, ResumePutBack
<1>e. wk'[w].idle > 0
  BY DEF Waits
<1>g. \A pc : Goto(w, pc) => wk'[w].pc = pc /\ wk'[w].idle = wk[w].idle
  BY <1>a, GotoFacts, TaskIdle
<1>r. wk' = Returned(w) => wk'[w].pc \notin Polling /\ wk'[w].idle = wk[w].idle
  BY <1>a, ReturnFacts, TaskIdle DEF Returns, Polling
<1>i. wk'[w].idle = wk[w].idle
  <2>1. ResumeCheck(w) => wk'[w].idle = wk[w].idle
    BY <1>a, <1>r DEF ResumeCheck, Tasks
  <2> QED BY <1>g, <1>r, <2>1 DEF ResumeClaim, ResumeRearm, ResumePutBack
<1>x. Excused(w)
  BY <1>b, <1>e, <1>i DEF PollInv, Waits
<1>y. Alone(w) /\ Alone(w)'
  BY <1>x, <1>d DEF Excused, Alone
<1>k. ASSUME Silent' => wk[w].idle <= faults' + (IF wk'[w].pc \in Polling THEN 1 ELSE 0)
      PROVE  Excused(w)'
  BY <1>x, <1>y, <1>d, <1>i, <1>k DEF Excused
<1>n. \A i, f, g \in Nat : f <= g /\ i <= f + 1 => i <= g + 1
  OBVIOUS
<1>1. CASE ResumeCheck(w)
  <2>1. l2c' = l2c /\ wk[w].pc = "resume"
    BY <1>1 DEF ResumeCheck, At
  <2>2. ASSUME Silent' PROVE wk[w].idle <= faults' + (IF wk'[w].pc \in Polling THEN 1 ELSE 0)
    <3>1. Silent
      BY <1>d, <2>1, <2>2 DEF Silent
    <3>2. l2c.rearm_pending /\ l2c.chan # 0
      BY <1>y, <2>1, <3>1, OwedToIt DEF Silent
    <3>3. wk'[w].pc = "claim"
      BY <1>1, <1>a, <3>2 DEF ResumeCheck, Tasks
    <3>4. wk[w].idle <= faults + 1
      BY <1>x, <2>1, <3>1 DEF Excused, Polling
    <3> QED BY <1>a, <1>c, <1>n, <3>3, <3>4 DEF Polling
  <2> QED BY <1>k, <2>2
<1>2. CASE ResumeClaim(w)
  <2>1. l2c'.credit = l2c.credit /\ l2c'.chan = l2c.chan /\ wk[w].pc = "claim"
    BY <1>2, <1>a DEF ResumeClaim, At, Links
  <2>2. ASSUME Silent' PROVE wk[w].idle <= faults' + (IF wk'[w].pc \in Polling THEN 1 ELSE 0)
    <3>1. Silent
      BY <1>d, <2>1, <2>2 DEF Silent
    <3>2. l2c.rearm_pending
      BY <1>y, <2>1, <3>1, OwedToIt
    <3>3. wk'[w].pc = "rearm"
      BY <1>2, <1>g, <3>2 DEF ResumeClaim
    <3>4. wk[w].idle <= faults + 1
      BY <1>x, <2>1, <3>1 DEF Excused, Polling
    <3> QED BY <1>a, <1>c, <1>n, <3>3, <3>4 DEF Polling
  <2> QED BY <1>k, <2>2
<1>3. CASE ResumeRearm(w)
  <2>1. l2c'.chan = l2c.chan /\ l2c'.credit \in {l2c.credit, l2c.credit + 1} /\ wk[w].pc = "rearm"
    BY <1>3, <1>a DEF ResumeRearm, At, Links
  <2>2. ASSUME Silent' PROVE wk[w].idle <= faults' + 0
    <3>1. Silent
      BY <1>a, <1>d, <2>1, <2>2 DEF Silent
    <3>2. wk[w].chan = l2c.chan
      BY <1>y, <2>1, <3>1, OwedToIt
    <3>3. l2c'.credit = 0 /\ l2c.credit = 0
      BY <2>2, <3>1 DEF Silent
    <3>4. l2c' # [l2c EXCEPT !.credit = @ + 1]
      BY <1>a, <3>3 DEF Links
    <3>5. Fault("pool_worker")
      BY <1>3, <3>2, <3>4 DEF ResumeRearm
    <3>6. wk[w].idle <= faults + 1
      BY <1>x, <2>1, <3>1 DEF Excused, Polling
    <3> QED BY <1>a, <3>5, <3>6 DEF Fault
  <2>3. ASSUME Silent' PROVE wk[w].idle <= faults' + (IF wk'[w].pc \in Polling THEN 1 ELSE 0)
    BY <1>a, <1>c, <2>2, <2>3
  <2> QED BY <1>k, <2>3
<1>4. CASE ResumePutBack(w)
  <2>1. l2c'.credit = l2c.credit /\ l2c'.chan = l2c.chan /\ wk[w].pc = "putback" /\ faults' = faults
    BY <1>4, <1>a DEF ResumePutBack, At, Links
  <2>2. ASSUME Silent' PROVE wk[w].idle <= faults' + (IF wk'[w].pc \in Polling THEN 1 ELSE 0)
    <3>1. Silent
      BY <1>d, <2>1, <2>2 DEF Silent
    <3>2. wk[w].idle <= faults + 0
      BY <1>x, <2>1, <3>1 DEF Excused, Polling
    <3> QED BY <1>a, <2>1, <3>2
  <2> QED BY <1>k, <2>2
<1> QED BY <1>1, <1>2, <1>3, <1>4

\* Steps of another worker: it is on its way out, and not inside ResumeL2capRx.
LEMMA WaitsOthers ==
  ASSUME IInv, StageInv, PollInv, NEW w \in Workers, NEW v \in Workers, v # w,
         WorkerStep(v), ~Restart(v), Waits(w)'
  PROVE  Excused(w)'
<1>a. /\ wk \in [Workers -> Tasks] /\ faults \in Nat /\ wk[v].pc \in WorkerPcs
  BY PollTypes, GateTypes DEF Tasks
<1>1. /\ \A u \in Workers \ {v} : wk'[u] = wk[u]
      /\ host' = host
  BY WorkerMoves
<1>2. Waits(w) /\ Excused(w)
  BY <1>1 DEF Waits, Collecting, PollInv
<1>3. ~Owns(v) /\ wk[v].pc \notin Resuming
  BY <1>2, StageOwns, OwnerFacts DEF Waits, Excused, Alone
<1>4. wk[v].pc \in {"free", "notify", "tell"}
  BY <1>a, <1>3 DEF WorkerPcs, Owns
<1>5. NotifySnapshot(v) \/ NotifyTell(v)
  <2>1. \A pc \in Working \cup Resuming : ~At(v, pc)
    BY <1>4 DEF At, Working, Resuming
  <2>2. ~(Begin(v) \/ BeginFails(v) \/ LoopDone(v) \/ LoopAborted(v) \/ LoopReads(v) \/ Receive(v))
    BY <2>1 DEF Begin, BeginFails, LoopDone, LoopAborted, LoopReads, Receive, Working
  <2>3. ~(ReceiveEmpty(v) \/ PollGate(v) \/ PollAgain(v))
    BY <2>1 DEF ReceiveEmpty, PollGate, PollAgain, Working
  <2>4. ~(ReceiveTimeout(v) \/ WriteFails(v) \/ LiftGate(v))
    BY <2>1 DEF ReceiveTimeout, WriteFails, LiftGate, Working
  <2>5. ~WriteChunk(v)
    BY <2>1 DEF WriteChunk, Working
  <2>6. ~(Verify(v) \/ EndImage(v) \/ SelectBoot(v) \/ Succeed(v) \/ Cleanup(v) \/ ToIdle(v))
    BY <2>1 DEF Verify, EndImage, SelectBoot, Succeed, Cleanup, ToIdle, Working
  <2>7. ~(ResumeCheck(v) \/ ResumeClaim(v) \/ ResumeRearm(v) \/ ResumePutBack(v))
    BY <2>1 DEF ResumeCheck, ResumeClaim, ResumeRearm, ResumePutBack, Resuming
  <2> QED BY <2>2, <2>3, <2>4, <2>5, <2>6, <2>7 DEF WorkerStep
<1>6. ota' = ota /\ l2c' = l2c /\ faults' = faults /\ wk'[v].pc \in {"tell", "free"}
  BY <1>5, <1>a DEF NotifySnapshot, NotifyTell, Tasks, Task0
<1>7. Alone(w)'
  BY <1>1, <1>2, <1>6 DEF Excused, Alone, Resuming
<1>8. Silent' <=> Silent
  BY <1>1, <1>6 DEF Silent
<1> QED BY <1>1, <1>2, <1>6, <1>7, <1>8 DEF Excused

\* Steps that no worker takes.
LEMMA WaitsAside ==
  ASSUME IInv, PollInv, Next, NEW w \in Workers, Waits(w)', wk' = wk,
         Waits(w) /\ Excused(w) => /\ host'.pc \in Handling => host'.sdu # <<>> \/ ota'.buf # <<>>
                                   /\ Silent' => Silent
  PROVE  Excused(w)'
<1>1. Waits(w) /\ Excused(w)
  BY DEF Waits, Collecting, PollInv
<1>2. Alone(w)'
  BY <1>1 DEF Excused, Alone
<1>3. faults' \in Nat /\ faults <= faults'
  BY PollTypes, FaultsGrow DEF PollInv, Bounds
<1> QED BY <1>1, <1>2, <1>3, ExcusedSame

LEMMA HostWaits ==
  ASSUME IInv, StageInv, PollInv, HostStep, NEW w \in Workers, Waits(w)'
  PROVE  Excused(w)'
<1>a. /\ ota \in Engines /\ ota.buf \in Slices /\ Len(ota.buf) \in Nat /\ BufCap \in Nat \ {0} /\ l2c \in Links
      /\ host \in [pc : HostPcs, sdu : Slices] /\ wk' = wk /\ l2c.credit \in Nat
  BY GateTypes, OtaAssumption
     DEF HostStep, AbortStore, SliceCheck, SliceSend, SliceCount, DataRearm, DataHold
<1> SUFFICES ASSUME Waits(w), Excused(w)
             PROVE  /\ host'.pc \in Handling => host'.sdu # <<>> \/ ota'.buf # <<>>
                    /\ Silent' => Silent
  BY <1>a, WaitsAside DEF Next
<1>s. ota.state = "RECEIVING"
  BY DEF StageInv, Waits
<1>h. host.pc \in Handling => host.sdu # <<>> \/ ota.buf # <<>>
  BY DEF Excused
<1>1. CASE AbortStore
  <2>1. host'.pc = "idle" /\ host.pc = "abort" /\ ota'.buf = ota.buf /\ l2c' = l2c
    BY <1>1, <1>a DEF AbortStore, HostGoto, Engines
  <2> QED BY <2>1 DEF Silent, Handling
<1>2. CASE SliceCheck
  <2>1. host'.pc = "send" /\ host'.sdu = host.sdu /\ host.sdu # <<>>
    BY <1>2, <1>a, <1>s DEF SliceCheck, HostGoto
  <2> QED BY <2>1 DEF Silent, Handling
<1>3. CASE SliceSend
  <2>1. host'.pc \in {"count", "slice"}
    BY <1>3 DEF SliceSend
  <2>2. ota'.buf # <<>>
    <3>1. CASE SpaceLeft > 0
      <4>1. ota'.buf = Append(ota.buf, Head(host.sdu))
        BY <1>3, <1>a, <3>1 DEF SliceSend, Engines
      <4> QED BY <1>a, <4>1 DEF Slices
    <3>2. CASE ~(SpaceLeft > 0)
      <4>1. ota' = ota
        BY <1>3, <3>2 DEF SliceSend
      <4>2. Len(ota.buf) # 0
        BY <1>a, <3>2 DEF SpaceLeft
      <4>3. Len(<<>>) = 0
        OBVIOUS
      <4> QED BY <4>1, <4>2, <4>3
    <3> QED BY <3>1, <3>2
  <2> QED BY <2>1, <2>2 DEF Silent, Handling
<1>4. CASE SliceCount
  <2>1. host'.pc = "slice" /\ host'.sdu = host.sdu /\ ota'.buf = ota.buf /\ host.pc \in Handling
    BY <1>4, <1>a DEF SliceCount, HostGoto, Handling, Engines
  <2> QED BY <2>1, <1>h DEF Silent, Handling
<1>5. CASE DataRearm \/ DataHold
  <2>1. ota' = ota /\ host.pc \in Handling /\ host.sdu = <<>>
    BY <1>5 DEF DataRearm, DataHold, Handling, PollInv, Bounds
  <2> QED BY <2>1, <1>h DEF Silent
<1> QED BY <1>1, <1>2, <1>3, <1>4, <1>5 DEF HostStep

\* An SDU that comes in while a worker waits brings a slice.
LEMMA DataWaits ==
  ASSUME IInv, StageInv, PollInv, Next, NEW slices, slices # <<>>, DataReceived(slices),
         ota' = ota, wk' = wk, NEW w \in Workers, Waits(w)'
  PROVE  Excused(w)'
<1> SUFFICES ASSUME Waits(w), Excused(w)
             PROVE  /\ host'.pc \in Handling => host'.sdu # <<>> \/ ota'.buf # <<>>
                    /\ Silent' => Silent
  BY WaitsAside
<1>1. IsBusy
  BY DEF StageInv, Waits, IsBusy
<1>2. host'.pc = "slice" /\ host'.sdu = slices
  BY <1>1 DEF DataReceived
<1> QED BY <1>2 DEF Silent, Handling

LEMMA EnvironmentWaits ==
  ASSUME IInv, StageInv, PollInv, BoardAbortStore \/ Environment, NEW w \in Workers, Waits(w)'
  PROVE  Excused(w)'
<1>a. /\ ota \in Engines /\ l2c \in Links /\ wk \in [Workers -> Tasks]
      /\ host \in [pc : HostPcs, sdu : Slices] /\ MaxSdu \in Nat \ {0} /\ Next
  BY GateTypes DEF Next
<1>f. \A v \in Workers : Collecting(v) => ota.state = "RECEIVING"
  BY DEF StageInv
<1>1. CASE BoardAbortStore \/ AppSwitch \/ BoardAbort
  <2>1. wk' = wk /\ host' = host /\ l2c' = l2c /\ ota'.buf = ota.buf
    BY <1>1, <1>a DEF BoardAbortStore, AppSwitch, BoardAbort, Engines
  <2> QED BY <1>a, <2>1, WaitsAside DEF Silent, Excused
<1>2. CASE \E v \in Workers : StartOta(v)
  <2> PICK v \in Workers : StartOta(v)
    BY <1>2
  <2>1. ota.state = "IDLE" /\ wk[v].pc = "free" /\ Goto(v, "begin")
    BY DEF StartOta, CanStart, At
  <2>2. wk'[v].idle = wk[v].idle /\ \A u \in Workers \ {v} : wk'[u] = wk[u]
    BY <1>a, <2>1, GotoFacts, TaskIdle
  <2>3. wk[v].idle = 0
    BY <2>1 DEF PollInv, Bounds
  <2>4. w # v
    BY <2>2, <2>3 DEF Waits
  <2>5. Collecting(w)
    BY <2>2, <2>4 DEF Waits, Collecting
  <2> QED BY <1>f, <2>1, <2>5
<1>3. CASE StartOtaNoTask
  <2>1. wk' = wk /\ ota.state = "IDLE"
    BY <1>3 DEF StartOtaNoTask, CanStart
  <2> QED BY <1>f, <2>1 DEF Waits, Collecting
<1>4. CASE AbortOta
  <2>1. wk' = wk /\ ota' = ota /\ l2c' = l2c /\ host.pc = "idle" /\ host'.pc \in {"abort", "idle"}
    BY <1>4, <1>a DEF AbortOta, AbortFromHost, HostGoto
  <2> QED BY <1>a, <2>1, WaitsAside DEF Silent, Handling
<1>5. CASE \E n \in 1..MaxSdu : AppPush(n)
  <2> PICK n \in 1..MaxSdu : AppPush(n)
    BY <1>5
  <2> DEFINE sdu == [k \in 1..n |-> <<app.pushing, app.next + k - 1>>]
  <2>1. sdu # <<>>
    <3>1. 1 \in DOMAIN sdu
      BY <1>a
    <3> QED BY <3>1
  <2>2. DataReceived(sdu) /\ wk' = wk /\ ota' = ota
    BY DEF AppPush
  <2> HIDE DEF sdu
  <2> QED BY <1>a, <2>1, <2>2, DataWaits
<1>6. CASE AppAudio
  <2> DEFINE sdu == << <<0, 1>> >>
  <2>1. sdu # <<>>
    OBVIOUS
  <2>2. DataReceived(sdu) /\ wk' = wk /\ ota' = ota
    BY <1>6 DEF AppAudio
  <2> HIDE DEF sdu
  <2> QED BY <1>a, <2>1, <2>2, DataWaits
<1>7. CASE LinkUp
  <2>1. /\ l2c'.chan = l2c.chan /\ l2c'.credit = l2c.credit /\ wk' = wk /\ host' = host /\ ota' = ota
    BY <1>7, <1>a DEF LinkUp, Links
  <2> QED BY <1>a, <2>1, WaitsAside DEF Silent, Excused
<1>8. CASE ChannelUp
  <2>1. /\ l2c'.credit = 1 /\ wk' = wk /\ host' = host /\ ota' = ota
    BY <1>8, <1>a DEF ChannelUp, Links
  <2> QED BY <1>a, <2>1, WaitsAside DEF Silent, Excused
<1>9. CASE ChannelDown \/ LinkDown
  <2>1. l2c'.chan = 0
    BY <1>9, <1>a DEF ChannelDown, LinkDown, ChannelLost, Links
  <2>2. host'.pc \in {"abort", "idle"} /\ wk' = wk
    BY <1>9, <1>a DEF ChannelDown, LinkDown, AbortFromHost, HostGoto
  <2> QED BY <1>a, <2>1, <2>2, WaitsAside DEF Silent, Handling
<1>10. CASE PowerLoss
  <2>1. wk'[w] = Task0
    BY <1>10 DEF PowerLoss, Reset
  <2> QED BY <2>1 DEF Waits, Task0
<1> QED BY <1>1, <1>2, <1>3, <1>4, <1>5, <1>6, <1>7, <1>8, <1>9, <1>10 DEF Environment

\* A task that ends leaves a fresh slot.
LEMMA Frees ==
  ASSUME IInv, NEW w \in Workers, WorkerStep(w), ~Restart(w), wk'[w].pc = "free"
  PROVE  wk'[w].idle = 0
<1>a. wk \in [Workers -> Tasks] /\ wk[w].ret \in Returns
  BY PollTypes, GateTypes
<1>g. \A pc : Goto(w, pc) => wk'[w].pc = pc
  BY <1>a, GotoFacts
<1>c. \A pc : ~CallResume(w, pc)
  BY <1>a, CallFacts
<1>f. \A o, code : ~FailWith(w, code, o)
  BY <1>g DEF FailWith
<1>r. wk' = Returned(w) => wk[w].ret = "free"
  BY <1>a, ReturnFacts
<1>1. CASE NotifyTell(w)
  BY <1>1, <1>a DEF NotifyTell, Task0
<1>2. ~(Begin(w) \/ LoopDone(w) \/ LoopReads(w) \/ PollAgain(w) \/ Cleanup(w) \/ Succeed(w))
  BY <1>g DEF Begin, LoopDone, LoopReads, PollAgain, Cleanup, Succeed
<1>3. ~(BeginFails(w) \/ LoopAborted(w) \/ ReceiveTimeout(w) \/ WriteFails(w))
  BY <1>f DEF BeginFails, LoopAborted, ReceiveTimeout, WriteFails
<1>4. ~(Verify(w) \/ EndImage(w) \/ SelectBoot(w))
  BY <1>f, <1>g DEF Verify, EndImage, SelectBoot
<1>5. ~(PollGate(w) \/ LiftGate(w) \/ ToIdle(w))
  BY <1>c, <1>g DEF PollGate, LiftGate, ToIdle
<1>6. ~(ResumeCheck(w) \/ ResumeClaim(w) \/ ResumeRearm(w) \/ ResumePutBack(w))
  <2> SUFFICES ASSUME ResumeCheck(w) \/ ResumeClaim(w) \/ ResumeRearm(w) \/ ResumePutBack(w) PROVE FALSE
    OBVIOUS
  <2>1. wk[w].ret # "free"
    BY DEF ResumeCheck, ResumeClaim, ResumeRearm, ResumePutBack, At, Resuming, IInv, ControlInv
  <2>2. ResumeCheck(w) => wk' = Returned(w) \/ wk'[w].pc = "claim"
    BY <1>a DEF ResumeCheck, Tasks
  <2> QED BY <2>1, <2>2, <1>g, <1>r DEF ResumeClaim, ResumeRearm, ResumePutBack
<1>7. ~Receive(w)
  <2>1. \A c, i : wk' = [wk EXCEPT ![w].pc = "write", ![w].idle = i, ![w].chunk = c] => wk'[w].pc = "write"
    BY <1>a DEF Tasks
  <2> QED BY <2>1 DEF Receive
<1>8. ~ReceiveEmpty(w) /\ ~WriteChunk(w)
  <2>1. ReceiveEmpty(w) => wk'[w].pc = "poll"
    BY <1>a DEF ReceiveEmpty, Tasks
  <2>2. WriteChunk(w) => wk'[w].pc = "gate"
    BY <1>a DEF WriteChunk, Tasks
  <2> QED BY <2>1, <2>2
<1>9. ~NotifySnapshot(w)
  BY <1>a DEF NotifySnapshot, Tasks
<1> QED BY <1>1, <1>2, <1>3, <1>4, <1>5, <1>6, <1>7, <1>8, <1>9 DEF WorkerStep

\* The bounds, and what a free task and a handler that holds credit back look like.
LEMMA NextBounds ==
  ASSUME IInv, StageInv, Bounds, Next
  PROVE  Bounds'
<1>a. /\ l2c \in Links /\ wk \in [Workers -> Tasks] /\ host \in [pc : HostPcs, sdu : Slices]
      /\ l2c.opened \in Nat /\ MaxChans \in Nat /\ faults \in Nat
  BY GateTypes, PollTypes, OtaAssumption
<1>1. faults' <= MaxFaults
  BY <1>a, FaultsGrow DEF Bounds
<1>2. CASE HostStep
  <2>1. wk' = wk /\ l2c'.opened = l2c.opened
    BY <1>2, <1>a DEF HostStep, AbortStore, SliceCheck, SliceSend, SliceCount, DataRearm, DataHold, Links
  <2>2. host'.pc = "hold" => host'.sdu = <<>>
    <3>1. AbortStore \/ SliceCheck \/ SliceSend \/ SliceCount \/ DataHold => host'.pc # "hold"
      BY <1>a DEF AbortStore, SliceCheck, SliceSend, SliceCount, DataHold, HostGoto
    <3>2. DataRearm => host'.sdu = <<>>
      BY <1>a DEF DataRearm, HostGoto
    <3> QED BY <1>2, <3>1, <3>2 DEF HostStep
  <2> QED BY <1>1, <2>1, <2>2 DEF Bounds
<1>3. CASE \E w \in Workers : WorkerStep(w)
  <2> PICK w \in Workers : WorkerStep(w)
    BY <1>3
  <2>1. CASE Restart(w)
    <3>1. l2c'.opened = l2c.opened /\ host'.pc = "idle" /\ \A v \in Workers : wk'[v].idle = 0
      BY <2>1, <1>a DEF Restart, Reset, ChannelLost, Host0, Task0, Links
    <3> QED BY <1>1, <3>1 DEF Bounds
  <2>2. CASE ~Restart(w)
    <3>1. host' = host /\ \A v \in Workers \ {w} : wk'[v] = wk[v]
      BY <2>2, WorkerMoves
    <3>2. l2c'.opened = l2c.opened
      <4>1. CASE ResumeCheck(w) \/ ResumeClaim(w) \/ ResumeRearm(w) \/ ResumePutBack(w)
        BY <4>1, <1>a DEF ResumeCheck, ResumeClaim, ResumeRearm, ResumePutBack, Links
      <4> QED BY <2>2, <4>1, WorkerOutside
    <3>3. wk'[w].pc = "free" => wk'[w].idle = 0
      BY <2>2, Frees
    <3> QED BY <1>1, <3>1, <3>2, <3>3 DEF Bounds
  <2> QED BY <2>1, <2>2
<1>4. CASE BoardAbortStore \/ Environment
  <2>1. l2c'.opened <= MaxChans
    <3>1. CASE ChannelUp
      BY <3>1, <1>a DEF ChannelUp, Links
    <3>2. CASE ~ChannelUp
      <4>1. l2c'.opened = l2c.opened
        BY <1>4, <3>2, <1>a DEF Environment, BoardAbortStore, StartOta, StartOtaNoTask, AbortOta, AppPush, AppAudio,
           DataReceived, AppSwitch, LinkUp, ChannelDown, LinkDown, ChannelLost, BoardAbort, PowerLoss, Reset, Links
      <4> QED BY <4>1 DEF Bounds
    <3> QED BY <3>1, <3>2
  <2>2. host'.pc = "hold" => host'.sdu = <<>>
    <3>1. BoardAbortStore \/ (\E v \in Workers : StartOta(v)) \/ StartOtaNoTask \/ AppSwitch \/ LinkUp
          \/ ChannelUp \/ BoardAbort => host' = host
      BY DEF BoardAbortStore, StartOta, StartOtaNoTask, AppSwitch, LinkUp, ChannelUp, BoardAbort
    <3>2. AbortOta \/ ChannelDown \/ LinkDown => host'.pc # "hold"
      BY <1>a DEF AbortOta, ChannelDown, LinkDown, AbortFromHost, HostGoto
    <3>3. (\E n \in 1..MaxSdu : AppPush(n)) \/ AppAudio => host'.pc # "hold"
      <4>1. \A sdu : DataReceived(sdu) => host'.pc # "hold"
        BY DEF DataReceived
      <4> QED BY <4>1 DEF AppPush, AppAudio
    <3>4. PowerLoss => host'.pc # "hold"
      BY DEF PowerLoss, Reset, Host0
    <3>5. host' = host \/ host'.pc # "hold"
      BY <1>4, <3>1, <3>2, <3>3, <3>4 DEF Environment
    <3> QED BY <3>5 DEF Bounds
  <2>3. \A w \in Workers : wk'[w].pc = "free" => wk'[w].idle = 0
    <3>1. CASE \E v \in Workers : StartOta(v)
      <4> PICK v \in Workers : StartOta(v)
        BY <3>1
      <4>1. wk'[v].pc = "begin" /\ \A u \in Workers \ {v} : wk'[u] = wk[u]
        BY <1>a, GotoFacts DEF StartOta
      <4> QED BY <4>1 DEF Bounds
    <3>2. CASE PowerLoss
      BY <3>2 DEF PowerLoss, Reset, Task0
    <3>3. CASE ~PowerLoss /\ ~(\E v \in Workers : StartOta(v))
      <4>1. wk' = wk
        BY <1>4, <3>3 DEF Environment, BoardAbortStore, StartOtaNoTask, AbortOta, AppPush, AppAudio,
           AppSwitch, LinkUp, ChannelUp, ChannelDown, LinkDown, BoardAbort
      <4> QED BY <4>1 DEF Bounds
    <3> QED BY <3>1, <3>2, <3>3
  <2> QED BY <1>1, <2>1, <2>2, <2>3 DEF Bounds
<1> QED BY <1>2, <1>3, <1>4 DEF Next

LEMMA NextPoll ==
  ASSUME IInv, StageInv, CreditInv, PollInv, Reliable, [Next]_vars
  PROVE  PollInv'
<1>1. CASE UNCHANGED vars
  BY <1>1 DEF vars, PollInv, Bounds, Waits, Collecting, Excused, Alone, Silent
<1>2. CASE Next
  <2>1. Bounds'
    BY <1>2, NextBounds DEF PollInv
  <2>2. ASSUME NEW w \in Workers, Waits(w)' PROVE Excused(w)'
    <3>1. ASSUME NEW v \in Workers, WorkerStep(v) PROVE Excused(w)'
      <4>1. CASE Restart(v)
        <5>1. wk'[w] = Task0
          BY <4>1 DEF Restart, Reset
        <5> QED BY <2>2, <5>1 DEF Waits, Task0
      <4>2. CASE ~Restart(v) /\ v # w
        BY <2>2, <3>1, <4>2, WaitsOthers
      <4>3. CASE ~Restart(w) /\ v = w
        BY <2>2, <3>1, <4>3, WaitsOn, WaitsResuming
      <4> QED BY <4>1, <4>2, <4>3
    <3> QED BY <1>2, <2>2, <3>1, HostWaits, EnvironmentWaits DEF Next
  <2> QED BY <2>1, <2>2 DEF PollInv
<1> QED BY <1>1, <1>2

\* An upgrade times out only because of the peer: when the last empty poll runs out the channel
\* is gone, or the peer had credit and sent nothing, or something has just come in.  It holds
\* for any buffer as long as the faults are fewer than the polls of a timeout, re-arming does not
\* fail in the host task, and a channel is not replaced (see CreditIsKept): each poll that ends
\* with the peer still stopped costs one empty mbuf pool (ota_service.cpp RunSession,
\* transport_ble.cpp ResumeL2capRx).
THEOREM TimeoutsAreDeserved ==
  ASSUME "pool_host" \notin Faults, MaxFaults < IdleMax,
         MaxChans <= 1 \/ Faults \cap {"channel", "link"} = {}
  PROVE  Spec => TimeoutIsPeersFault
<1>r. Reliable
  BY DEF Reliable
<1> DEFINE Deserved == (\E w \in Workers : ReceiveTimeout(w)) =>
                         l2c.chan = 0 \/ l2c.credit > 0 \/ host.pc # "idle" \/ ota.buf # <<>>
<1>1. Init => StageInv /\ CreditInv /\ PollInv
  <2>1. Init => CreditInv
    BY DEF Init, CreditInv, Snapshots, Balance, Task0, Claims
  <2>2. Init => PollInv
    BY OtaAssumption DEF Init, PollInv, Bounds, Waits, Host0, Task0
  <2> QED BY <2>1, <2>2, InitInstalls
<1>2. IInv /\ StageInv /\ CreditInv /\ PollInv /\ [Next]_vars => StageInv' /\ CreditInv' /\ PollInv'
  BY <1>r, NextStage, NextCredit, NextPoll
<1>3. IInv /\ StageInv /\ PollInv => Deserved
  <2> SUFFICES ASSUME IInv, PollInv, NEW w \in Workers, ReceiveTimeout(w),
                      l2c.chan # 0, ~(l2c.credit > 0), host.pc = "idle", ota.buf = <<>>
               PROVE  FALSE
    OBVIOUS
  <2>a. l2c.credit \in Nat /\ faults \in Nat /\ wk[w].idle \in Nat /\ IdleMax \in Nat \ {0} /\ MaxFaults \in Nat
    BY GateTypes, PollTypes, OtaAssumption
  <2>1. wk[w].pc = "expire" /\ wk[w].idle >= IdleMax
    BY DEF ReceiveTimeout, At
  <2>2. Waits(w) /\ Silent
    BY <2>a, <2>1 DEF Waits, Collecting, Silent, Handling
  <2>3. wk[w].idle <= faults + 0 /\ faults <= MaxFaults
    BY <2>1, <2>2 DEF PollInv, Bounds, Excused, Polling
  <2> QED BY <2>a, <2>1, <2>3
<1>4. IInv /\ StageInv /\ PollInv => [Deserved]_vars
  BY <1>3
<1> QED BY <1>1, <1>2, <1>4, Invariance, PTL DEF Spec, TimeoutIsPeersFault
=============================================================================
