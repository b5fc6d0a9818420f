-------------------------- MODULE WifiStationProofs --------------------------
(***************************************************************************)
(* Proofs about WifiStation, for any networks, any join window, any limit  *)
(* of failures, any queue and any number of requests.                      *)
(*                                                                         *)
(* NeverStranded is not inductive: nothing in it says why a success that   *)
(* is still in the event queue is not handled for a connection that is     *)
(* already gone, with no trace of the loss left.  The inductive invariant  *)
(* has three parts besides the types:                                      *)
(*   NetsInv     who is tried and who is linked is a network, and a count  *)
(*               of failures that can still grow is below the limit;       *)
(*   PhaseInv    what a phase says of the driver, the portal and the task  *)
(*               in agent_wifi_local_begin: an idle station has no link,   *)
(*               one that is not idle has a driver that is started, and    *)
(*               nothing but the start of local radio use interrupts it;   *)
(*   SuccessInv  while the station wants to connect, a success that waits  *)
(*               in the queue is true, or the loss of it or the start of   *)
(*               the driver waits behind it.                               *)
(***************************************************************************)
EXTENDS WifiStation, SequenceTheorems, TLAPS

-----------------------------------------------------------------------------
(* The inductive invariant *)

Event == [kind : {"start", "assoc", "ip", "gone", "leave", "creds", "setup"}, net : Nets \union {None}]
Stations == [phase : {"idle", "provisioning", "connecting", "connected"}, want : BOOLEAN, ignore : BOOLEAN,
             local : BOOLEAN]
Joins == [left : 0..Window, retry : BOOLEAN, ip : BOOLEAN]
Portals == [portal : BOOLEAN, closing : BOOLEAN, fails : 0..FailLimit,
            page : {"idle", "connecting", "connected", "failed"}]
Drivers == [st : {"off", "idle", "busy", "up", "ip"}, net : Nets \union {None}]

\* Every submission in q names a network.
Named(q) == \A i \in 1..Len(q) : q[i].kind = "creds" => q[i].net \in Nets

\* TypeOK in parts.
Records == sta \in Stations /\ join \in Joins /\ prov \in Portals /\ drv \in Drivers
Others ==
  /\ cred \in Nets \union {None} /\ nvs \in Nets \union {None}
  /\ queue \in Seq(Event)
  /\ api \in {"idle", "drains", "local", "ended"}
  /\ joined \subseteq Nets /\ used \in 0..MaxRequests
Open == (Active => sta.want /\ ~prov.closing) /\ (prov.closing => prov.portal)

\* What is tried and what is linked is a network; a count of failures that can grow is below the limit.
NetsInv ==
  /\ Named(queue)
  /\ sta.want => cred \in Nets
  /\ Linked => drv.net \in Nets
  /\ sta.want /\ prov.portal => prov.fails < FailLimit

PhaseInv ==
  /\ sta.phase = "idle" => ~sta.want /\ ~prov.portal /\ drv.st \in {"off", "idle"}
  /\ sta.phase = "idle" /\ api \in {"idle", "drains", "ended"} => drv.st = "off"
  /\ sta.phase # "idle" => drv.st # "off" /\ api \in {"idle", "drains"}
  /\ sta.phase = "provisioning" => prov.portal
  /\ sta.phase = "connected" => sta.want /\ ~Active
  /\ prov.closing => sta.phase = "connected"

\* A loss or a start of the driver is in q; a leave is.
Sign(q) == \E i \in 1..Len(q) : q[i].kind \in {"start", "gone"}
Left(q) == \E i \in 1..Len(q) : q[i].kind = "leave"

\* Behind every success in q there is a loss or a start of the driver.
Success == {"assoc", "ip"}
Covered(q) ==
  \A i \in 1..Len(q) : q[i].kind \in Success => \E j \in (i + 1)..Len(q) : q[j].kind \in {"start", "gone"}
SuccessInv == sta.want => Linked \/ Covered(queue)

StationInv == Records /\ Others /\ Open /\ NetsInv /\ PhaseInv /\ SuccessInv /\ NeverStranded

LEMMA TypeParts == (TypeOK <=> Records /\ Others /\ Open) /\ (TypeOK' <=> Records' /\ Others' /\ Open')
BY DEF TypeOK, Records, Others, Open, Stations, Joins, Portals, Drivers, Event

LEMMA Limits ==
  /\ Window \in Nat /\ Window > 0 /\ FailLimit \in Nat /\ FailLimit > 0
  /\ MaxQueued \in Nat /\ MaxRequests \in Nat
BY StationAssumption

-----------------------------------------------------------------------------
(* The event queue *)

LEMMA Appended ==
  ASSUME NEW q \in Seq(Event), NEW e \in Event
  PROVE  /\ Append(q, e) \in Seq(Event)
         /\ Named(q) /\ (e.kind = "creds" => e.net \in Nets) => Named(Append(q, e))
         /\ Sign(q) => Sign(Append(q, e))
         /\ Left(q) => Left(Append(q, e))
         /\ Covered(q) /\ e.kind \notin Success => Covered(Append(q, e))
         /\ e.kind \in {"start", "gone"} => Sign(Append(q, e)) /\ Covered(Append(q, e))
         /\ e.kind = "leave" => Left(Append(q, e))
<1> DEFINE a == Append(q, e)
<1>1. /\ a \in Seq(Event) /\ Len(q) \in Nat /\ Len(a) = Len(q) + 1
      /\ a[Len(q) + 1] = e
      /\ \A i \in 1..Len(q) : a[i] = q[i]
  BY AppendProperties
<1> HIDE DEF a
<1>2. /\ \A i \in 1..Len(a) : i \in 1..Len(q) \/ i = Len(q) + 1
      /\ 1..Len(q) \subseteq 1..Len(a) /\ Len(q) + 1 \in 1..Len(a)
      /\ \A i \in 1..Len(q) : (i + 1)..Len(q) \subseteq (i + 1)..Len(a) /\ Len(q) + 1 \in (i + 1)..Len(a)
      /\ \A i \in 1..Len(q) : \A j \in (i + 1)..Len(q) : j \in 1..Len(q)
  BY <1>1
<1>3. Named(q) /\ (e.kind = "creds" => e.net \in Nets) => Named(a)
  BY <1>1 DEF Named
<1>4. (Sign(q) => Sign(a)) /\ (Left(q) => Left(a))
  BY <1>1 DEF Sign, Left
<1>5. (e.kind \in {"start", "gone"} => Sign(a)) /\ (e.kind = "leave" => Left(a))
  BY <1>1 DEF Sign, Left
<1>6. ASSUME Covered(q), e.kind \notin Success PROVE Covered(a)
  <2> SUFFICES ASSUME NEW i \in 1..Len(a), a[i].kind \in Success
               PROVE  \E j \in (i + 1)..Len(a) : a[j].kind \in {"start", "gone"}
    BY DEF Covered
  <2>1. i \in 1..Len(q) /\ a[i] = q[i]
    BY <1>1, <1>6
  <2>2. PICK j \in (i + 1)..Len(q) : q[j].kind \in {"start", "gone"}
    BY <2>1, <1>6 DEF Covered
  <2> QED BY <2>2, <1>1
<1>7. ASSUME e.kind \in {"start", "gone"} PROVE Covered(a)
  <2> SUFFICES ASSUME NEW i \in 1..Len(a), a[i].kind \in Success
               PROVE  \E j \in (i + 1)..Len(a) : a[j].kind \in {"start", "gone"}
    BY DEF Covered
  <2>1. i \in 1..Len(q)
    BY <1>1, <1>7 DEF Success
  <2> QED BY <2>1, <1>1, <1>7
<1> QED BY <1>3, <1>4, <1>5, <1>6, <1>7 DEF a

LEMMA Popped ==
  ASSUME NEW q \in Seq(Event), q # <<>>
  PROVE  /\ Tail(q) \in Seq(Event) /\ Head(q) \in Event
         /\ Named(q) => Named(Tail(q)) /\ (Head(q).kind = "creds" => Head(q).net \in Nets)
         /\ Sign(q) => Sign(Tail(q)) \/ Head(q).kind \in {"start", "gone"}
         /\ Left(q) => Left(Tail(q)) \/ Head(q).kind = "leave"
         /\ Covered(q) => Covered(Tail(q)) /\ (Head(q).kind \in Success => Sign(Tail(q)))
<1> DEFINE t == Tail(q)
<1>1. /\ t \in Seq(Event) /\ Head(q) \in Event /\ Len(q) \in Nat \ {0} /\ Len(t) = Len(q) - 1
      /\ Head(q) = q[1]
      /\ \A i \in 1..Len(t) : t[i] = q[i + 1]
  BY HeadTailProperties, EmptySeq
<1> HIDE DEF t
<1>2. /\ 1 \in 1..Len(q)
      /\ \A i \in 1..Len(t) : i + 1 \in 1..Len(q)
      /\ \A i \in 1..Len(q) : i = 1 \/ (i - 1 \in 1..Len(t) /\ (i - 1) + 1 = i)
      /\ \A i \in 1..Len(t) : \A j \in ((i + 1) + 1)..Len(q) : j - 1 \in (i + 1)..Len(t) /\ j - 1 \in 1..Len(t) /\ (j - 1) + 1 = j
      /\ \A j \in (1 + 1)..Len(q) : j - 1 \in 1..Len(t) /\ (j - 1) + 1 = j
  BY <1>1
<1>3. Named(q) => Named(t) /\ (Head(q).kind = "creds" => Head(q).net \in Nets)
  BY <1>1 DEF Named
<1>4. ASSUME Sign(q) PROVE Sign(t) \/ Head(q).kind \in {"start", "gone"}
  <2>1. PICK i \in 1..Len(q) : q[i].kind \in {"start", "gone"}
    BY <1>4 DEF Sign
  <2>2. CASE i = 1
    BY <2>1, <2>2
  <2>3. CASE i # 1
    <3>1. i - 1 \in 1..Len(t) /\ t[i - 1] = q[i]
      BY <2>3, <1>1
    <3> QED BY <3>1, <2>1 DEF Sign
  <2> QED BY <2>2, <2>3
<1>5. ASSUME Left(q) PROVE Left(t) \/ Head(q).kind = "leave"
  <2>1. PICK i \in 1..Len(q) : q[i].kind = "leave"
    BY <1>5 DEF Left
  <2>2. CASE i = 1
    BY <2>1, <2>2
  <2>3. CASE i # 1
    <3>1. i - 1 \in 1..Len(t) /\ t[i - 1] = q[i]
      BY <2>3, <1>1
    <3> QED BY <3>1, <2>1 DEF Left
  <2> QED BY <2>2, <2>3
<1>6. ASSUME Covered(q) PROVE Covered(t)
  <2> SUFFICES ASSUME NEW i \in 1..Len(t), t[i].kind \in Success
               PROVE  \E j \in (i + 1)..Len(t) : t[j].kind \in {"start", "gone"}
    BY DEF Covered
  <2>1. i + 1 \in 1..Len(q) /\ q[i + 1].kind \in Success
    BY <1>1
  <2>2. PICK j \in ((i + 1) + 1)..Len(q) : q[j].kind \in {"start", "gone"}
    BY <2>1, <1>6 DEF Covered
  <2>3. j - 1 \in (i + 1)..Len(t) /\ t[j - 1] = q[j]
    BY <1>1
  <2> QED BY <2>2, <2>3
<1>7. ASSUME Covered(q), Head(q).kind \in Success PROVE Sign(t)
  <2>1. PICK j \in (1 + 1)..Len(q) : q[j].kind \in {"start", "gone"}
    BY <1>7 DEF Covered
  <2>2. j - 1 \in 1..Len(t) /\ t[j - 1] = q[j]
    BY <1>1
  <2> QED BY <2>1, <2>2 DEF Sign
<1> QED BY <1>3, <1>4, <1>5, <1>6, <1>7 DEF t

\* What esp_wifi_disconnect posts is at most one leave.
LEMMA Disconnected ==
  ASSUME NEW q \in Seq(Event)
  PROVE  /\ q \o LeaveEvents = IF Linked THEN Append(q, Leave) ELSE q
         /\ \A e \in Event : q \o <<e>> = Append(q, e)
         /\ Leave \in Event /\ Gone \in Event
         /\ \A k \in {"start", "assoc", "ip", "creds", "setup"}, n \in Nets \union {None} :
              Ev(k, n) \in Event /\ Ev(k, n).kind = k /\ Ev(k, n).net = n
         /\ Leave.kind = "leave" /\ Gone.kind = "gone" /\ q \o <<>> = q
<1>1. Leave \in Event /\ Gone \in Event /\ Leave.kind = "leave" /\ Gone.kind = "gone"
  BY DEF Leave, Gone, Ev, Event
<1>2. \A k \in {"start", "assoc", "ip", "creds", "setup"}, n \in Nets \union {None} :
        Ev(k, n) \in Event /\ Ev(k, n).kind = k /\ Ev(k, n).net = n
  BY DEF Ev, Event
<1>3. \A e \in Event : q \o <<e>> = Append(q, e)
  BY AppendIsConcat
<1>4. q \o <<>> = q
  BY ConcatEmptySeq
<1> QED BY <1>1, <1>2, <1>4 DEF LeaveEvents

LEMMA Posted ==
  ASSUME NEW q \in Seq(Event), Named(q)
  PROVE  /\ q \o LeaveEvents \in Seq(Event) /\ Named(q \o LeaveEvents)
         /\ q \o <<Ev("start", None)>> = Append(q, Ev("start", None))
         /\ Append(q, Ev("start", None)) \in Seq(Event) /\ Named(Append(q, Ev("start", None)))
         /\ Sign(Append(q, Ev("start", None))) /\ Covered(Append(q, Ev("start", None)))
         /\ Append(q, Gone) \in Seq(Event) /\ Named(Append(q, Gone))
         /\ Sign(Append(q, Gone)) /\ Covered(Append(q, Gone))
<1> DEFINE start == Ev("start", None)
<1>1. /\ start \in Event /\ start.kind = "start" /\ Gone \in Event /\ Gone.kind = "gone"
      /\ Leave \in Event /\ Leave.kind = "leave"
  BY Disconnected
<1>2. q \o LeaveEvents \in Seq(Event) /\ Named(q \o LeaveEvents)
  <2>1. q \o LeaveEvents = IF Linked THEN Append(q, Leave) ELSE q
    BY Disconnected
  <2> QED BY <1>1, <2>1, Appended
<1>3. q \o <<start>> = Append(q, start)
  BY Disconnected
<1> HIDE DEF start
<1>4. Append(q, start) \in Seq(Event) /\ Named(Append(q, start)) /\ Sign(Append(q, start)) /\ Covered(Append(q, start))
  BY <1>1, Appended
<1>5. Append(q, Gone) \in Seq(Event) /\ Named(Append(q, Gone)) /\ Sign(Append(q, Gone)) /\ Covered(Append(q, Gone))
  BY <1>1, Appended
<1> QED BY <1>2, <1>4, <1>5 DEF start

\* What there is to act on, in terms of the queue.
LEMMA Hands ==
  /\ InHand <=> Linked \/ Sign(queue) \/ (Left(queue) /\ ~sta.ignore)
  /\ InHand' <=> Linked' \/ Sign(queue') \/ (Left(queue') /\ ~sta'.ignore)
BY DEF InHand, Queued, Sign, Left

-----------------------------------------------------------------------------
(* The steps *)

LEMMA FixedWindows == Closed \in Joins /\ Closed.left = 0 /\ ~(Closed.left > 0) /\ Begin \in Joins /\ Begin.left > 0
BY Limits DEF Closed, Begin, Joins

LEMMA FailedWindow ==
  ASSUME NEW j \in Joins
  PROVE  Failed(j) \in Joins /\ Failed(j).left = j.left /\ (j.left > 0 => Failed(j).retry) /\ j.left \in Nat
<1>1. j.left \in 0..Window /\ j.left \in Nat
  BY DEF Joins
<1>2. CASE j.left > 0
  BY <1>1 DEF Failed, Joins
<1>3. CASE ~(j.left > 0)
  BY <1>1, <1>3 DEF Failed
<1> QED BY <1>2, <1>3

LEMMA NextWindow ==
  ASSUME NEW j \in Joins, j.left > 0, j.left # 1
  PROVE  LET next == [j EXCEPT !.left = @ - 1, !.retry = FALSE] IN next \in Joins /\ next.left > 0 /\ ~next.retry
<1>1. j.left - 1 \in 0..Window /\ j.left - 1 > 0
  BY Limits DEF Joins
<1> QED BY <1>1 DEF Joins

LEMMA Connected ==
  ASSUME NEW driver \in Drivers, NEW net \in Nets, NEW window \in Joins, driver.st # "off", Connect(driver, net, window)
  PROVE  /\ join' \in Joins /\ join'.left = window.left
         /\ drv' \in Drivers /\ drv'.st \in {"busy", "up", "ip"}
         /\ drv'.net = net \/ (drv' = driver /\ driver.st # "idle")
<1>1. Failed(window) \in Joins /\ Failed(window).left = window.left
  BY FailedWindow
<1>2. CASE driver.st = "idle"
  BY <1>2 DEF Connect, Drivers
<1>3. CASE driver.st # "idle"
  BY <1>1 DEF Connect, Drivers
<1> QED BY <1>2, <1>3

LEMMA PoppedStation ==
  ASSUME StationInv, queue # <<>>, queue' = Tail(queue), UNCHANGED <<sta, join, prov, cred, drv, nvs, api, joined, used>>,
         sta.want => Head(queue).kind \notin {"start", "gone", "leave"}
  PROVE  StationInv'
<1>1. queue \in Seq(Event) /\ Named(queue)
  BY DEF StationInv, Others, NetsInv
<1>2. /\ queue' \in Seq(Event) /\ Named(queue') /\ (Covered(queue) => Covered(queue'))
      /\ sta.want => (Sign(queue) => Sign(queue')) /\ (Left(queue) => Left(queue'))
  BY <1>1, Popped
<1>3. Records' /\ Others' /\ Open' /\ NetsInv' /\ PhaseInv'
  BY <1>2 DEF StationInv, Records, Others, Open, NetsInv, PhaseInv, Active, Linked
<1>4. SuccessInv' /\ NeverStranded'
  BY <1>2, Hands DEF StationInv, Open, PhaseInv, SuccessInv, NeverStranded, Active, Linked
<1> QED BY <1>3, <1>4 DEF StationInv


LEMMA LocalBeginStation ==
  ASSUME StationInv, LocalBegin
  PROVE  StationInv'
<1>1. queue \in Seq(Event)
  BY DEF StationInv, Others
<1>2. queue' = queue
  BY DEF LocalBegin
<1>3. Records'
  <2>1. Records /\ Others /\ Open /\ NetsInv /\ PhaseInv
    BY DEF StationInv
  <2>2. sta' \in Stations
    BY <2>1 DEF Records, Stations, LocalBegin
  <2>3. join' \in Joins
    BY <2>1 DEF Records, LocalBegin
  <2>4. prov' \in Portals
    BY <2>1 DEF Records, LocalBegin
  <2>5. drv' \in Drivers
    BY <2>1 DEF Records, LocalBegin
  <2> QED BY <2>2, <2>3, <2>4, <2>5 DEF Records
<1>4. Others' /\ Open'
  BY Limits DEF StationInv, Others, Open, Active, LocalBegin, Request
<1>5. NetsInv'
  BY DEF StationInv, NetsInv, Linked, LocalBegin
<1>6. PhaseInv'
  BY DEF StationInv, PhaseInv, Active, LocalBegin
<1>7. SuccessInv'
  BY DEF StationInv, SuccessInv, Linked, LocalBegin
<1>8. NeverStranded'
  BY Hands DEF StationInv, NeverStranded, Active, Linked, LocalBegin
<1> QED BY <1>3, <1>4, <1>5, <1>6, <1>7, <1>8 DEF StationInv

LEMMA LocalCancelledStation ==
  ASSUME StationInv, LocalCancelled
  PROVE  StationInv'
<1>1. queue \in Seq(Event)
  BY DEF StationInv, Others
<1>2. queue' = queue
  BY DEF LocalCancelled
<1>3. Records'
  <2>1. Records /\ Others /\ Open /\ NetsInv /\ PhaseInv
    BY DEF StationInv
  <2>2. sta' \in Stations
    BY <2>1 DEF Records, Stations, LocalCancelled
  <2>3. join' \in Joins
    BY <2>1 DEF Records, LocalCancelled
  <2>4. prov' \in Portals
    BY <2>1 DEF Records, LocalCancelled
  <2>5. drv' \in Drivers
    BY <2>1 DEF Records, LocalCancelled
  <2> QED BY <2>2, <2>3, <2>4, <2>5 DEF Records
<1>4. Others' /\ Open'
  BY DEF StationInv, Others, Open, Active, LocalCancelled
<1>5. NetsInv'
  BY DEF StationInv, NetsInv, Linked, LocalCancelled
<1>6. PhaseInv'
  BY DEF StationInv, PhaseInv, Active, LocalCancelled
<1>7. SuccessInv'
  BY DEF StationInv, SuccessInv, Linked, LocalCancelled
<1>8. NeverStranded'
  BY Hands DEF StationInv, NeverStranded, Active, Linked, LocalCancelled
<1> QED BY <1>3, <1>4, <1>5, <1>6, <1>7, <1>8 DEF StationInv

LEMMA LocalEndStation ==
  ASSUME StationInv, LocalEnd
  PROVE  StationInv'
<1>1. queue \in Seq(Event)
  BY DEF StationInv, Others
<1>2. queue' = queue
  BY DEF LocalEnd
<1>3. Records'
  <2>1. Records /\ Others /\ Open /\ NetsInv /\ PhaseInv
    BY DEF StationInv
  <2>2. sta' \in Stations
    BY <2>1 DEF Records, Stations, LocalEnd
  <2>3. join' \in Joins
    BY <2>1 DEF Records, LocalEnd
  <2>4. prov' \in Portals
    BY <2>1 DEF Records, LocalEnd
  <2>5. drv' \in Drivers
    BY DEF Drivers, LocalEnd, Off
  <2> QED BY <2>2, <2>3, <2>4, <2>5 DEF Records
<1>4. Others' /\ Open'
  BY DEF StationInv, Others, Open, Active, LocalEnd
<1>5. NetsInv'
  BY DEF StationInv, NetsInv, Linked, LocalEnd, Off
<1>6. PhaseInv'
  BY DEF StationInv, PhaseInv, LocalEnd, Off
<1>7. SuccessInv'
  BY DEF StationInv, PhaseInv, SuccessInv, LocalEnd
<1>8. NeverStranded'
  BY Hands DEF StationInv, PhaseInv, NeverStranded, Active, Linked, LocalEnd
<1> QED BY <1>3, <1>4, <1>5, <1>6, <1>7, <1>8 DEF StationInv

LEMMA TickPortalStation ==
  ASSUME StationInv, TickPortal
  PROVE  StationInv'
<1>1. queue \in Seq(Event)
  BY DEF StationInv, Others
<1>2. queue' = queue
  BY DEF TickPortal
<1>3. Records'
  <2>1. Records /\ Others /\ Open /\ NetsInv /\ PhaseInv
    BY DEF StationInv
  <2>2. sta' \in Stations
    BY <2>1 DEF Records, TickPortal
  <2>3. join' \in Joins
    BY <2>1 DEF Records, TickPortal
  <2>4. prov' \in Portals
    BY <2>1 DEF Records, Portals, TickPortal
  <2>5. drv' \in Drivers
    BY <2>1 DEF Records, TickPortal
  <2> QED BY <2>2, <2>3, <2>4, <2>5 DEF Records
<1>4. Others' /\ Open'
  BY DEF StationInv, Others, Open, Active, TickPortal
<1>5. NetsInv'
  BY DEF StationInv, NetsInv, Linked, TickPortal
<1>6. PhaseInv'
  BY DEF StationInv, PhaseInv, Active, TickPortal
<1>7. SuccessInv'
  BY DEF StationInv, SuccessInv, Linked, TickPortal
<1>8. NeverStranded'
  BY Hands DEF StationInv, PhaseInv, NeverStranded, Linked, TickPortal
<1> QED BY <1>3, <1>4, <1>5, <1>6, <1>7, <1>8 DEF StationInv

\* The portal is opened and nobody wants to connect.
LEMMA ProvisionStation ==
  ASSUME StationInv, NEW q \in Seq(Event), Named(q), StartProvisioning(q),
         UNCHANGED <<nvs, joined>>, used' \in 0..MaxRequests, api' \in {"idle", "drains"}
  PROVE  StationInv'
<1>1. queue \in Seq(Event)
  BY DEF StationInv, Others
<1>2. queue' \in Seq(Event) /\ Named(queue')
  BY Posted DEF StartProvisioning
<1>3. Records'
  <2>1. Records /\ Others /\ Open /\ NetsInv /\ PhaseInv
    BY DEF StationInv
  <2>2. sta' \in Stations
    BY <2>1 DEF Records, Stations, StartProvisioning
  <2>3. join' \in Joins
    BY Limits DEF Joins, StartProvisioning, Closed, Idle
  <2>4. prov' \in Portals
    BY <2>1, Limits DEF Records, Portals, StartProvisioning
  <2>5. drv' \in Drivers
    BY DEF Drivers, StartProvisioning, Closed, Idle
  <2> QED BY <2>2, <2>3, <2>4, <2>5 DEF Records
<1>4. Others' /\ Open'
  BY <1>2 DEF StationInv, Others, Open, Active, StartProvisioning, Closed, Idle
<1>5. NetsInv'
  BY <1>2 DEF StationInv, NetsInv, Linked, StartProvisioning, Closed, Idle
<1>6. PhaseInv'
  BY DEF StationInv, PhaseInv, StartProvisioning, Closed, Idle
<1>7. SuccessInv'
  BY DEF StationInv, SuccessInv, StartProvisioning
<1>8. NeverStranded'
  BY DEF StationInv, NeverStranded, Active, StartProvisioning, Closed, Idle
<1> QED BY <1>3, <1>4, <1>5, <1>6, <1>7, <1>8 DEF StationInv

\* An idle station starts the driver, whose start is then in the queue.
LEMMA JoinStation ==
  ASSUME StationInv, NEW net \in Nets, StartSta(net), sta.phase = "idle", drv.st = "off",
         UNCHANGED <<nvs, joined>>, used' \in 0..MaxRequests, api' \in {"idle", "drains"}
  PROVE  StationInv'
<1>1. queue \in Seq(Event) /\ Named(queue)
  BY DEF StationInv, Others, NetsInv
<1>2. /\ sta' = [sta EXCEPT !.phase = "connecting", !.want = TRUE] /\ cred' = net
      /\ drv' = Idle /\ join' = Begin /\ queue' = Append(queue, Ev("start", None)) /\ prov' = prov
      /\ ~prov.portal
  BY DEF StartSta, StationInv, PhaseInv
<1>3. queue' \in Seq(Event) /\ Named(queue') /\ Sign(queue') /\ Covered(queue')
  BY <1>1, <1>2, Posted
<1>4. Records'
  BY <1>2, FixedWindows DEF StationInv, Records, Stations, Drivers, Idle
<1>5. Others' /\ Open'
  BY <1>2, <1>3 DEF StationInv, Others, Open
<1>6. NetsInv' /\ PhaseInv' /\ SuccessInv'
  BY <1>2, <1>3 DEF StationInv, NetsInv, PhaseInv, SuccessInv, Linked, Idle
<1>7. NeverStranded'
  BY <1>2, <1>3, Hands, FixedWindows DEF StationInv, NeverStranded, Active
<1> QED BY <1>4, <1>5, <1>6, <1>7 DEF StationInv

LEMMA StopStation ==
  ASSUME StationInv, Stop
  PROVE  StationInv'
<1>1. queue \in Seq(Event)
  BY DEF StationInv, Others
<1>2. queue' \in Seq(Event) /\ Named(queue')
  BY <1>1, Posted DEF Stop, StationInv, NetsInv
<1>3. Records'
  <2>1. Records /\ Others /\ Open /\ NetsInv /\ PhaseInv
    BY DEF StationInv
  <2>2. sta' \in Stations
    BY <2>1 DEF Records, Stations, Stop, GoIdle
  <2>3. join' \in Joins
    BY Limits DEF Joins, Stop, GoIdle, Closed, Off, Request
  <2>4. prov' \in Portals
    BY <2>1 DEF Records, Portals, Stop, GoIdle
  <2>5. drv' \in Drivers
    BY DEF Drivers, Stop, GoIdle, Closed, Off, Request
  <2> QED BY <2>2, <2>3, <2>4, <2>5 DEF Records
<1>4. Others' /\ Open'
  BY <1>2, Limits DEF StationInv, Others, Open, Active, Stop, GoIdle, Closed, Off, Request
<1>5. NetsInv'
  BY <1>2 DEF StationInv, NetsInv, Linked, Stop, GoIdle, Closed, Off, Request
<1>6. PhaseInv'
  BY DEF StationInv, PhaseInv, Stop, GoIdle, Closed, Off, Request
<1>7. SuccessInv'
  BY DEF StationInv, SuccessInv, Stop, GoIdle
<1>8. NeverStranded'
  BY DEF StationInv, NeverStranded, Active, Stop, GoIdle, Closed, Off, Request
<1> QED BY <1>3, <1>4, <1>5, <1>6, <1>7, <1>8 DEF StationInv

LEMMA LocalEnteredStation ==
  ASSUME StationInv, LocalEntered
  PROVE  StationInv'
<1>1. queue \in Seq(Event)
  BY DEF StationInv, Others
<1>2. queue' \in Seq(Event) /\ Named(queue')
  <2> DEFINE q == queue \o LeaveEvents
  <2>1. q \in Seq(Event) /\ Named(q)
    BY <1>1, Posted DEF StationInv, NetsInv
  <2>2. queue' = q \o <<Ev("start", None)>>
    BY DEF LocalEntered
  <2> HIDE DEF q
  <2> QED BY <2>1, <2>2, Posted
<1>3. Records'
  <2>1. Records /\ Others /\ Open /\ NetsInv /\ PhaseInv
    BY DEF StationInv
  <2>2. sta' \in Stations
    BY <2>1 DEF Records, Stations, LocalEntered, GoIdle
  <2>3. join' \in Joins
    BY Limits DEF Joins, LocalEntered, GoIdle, Closed, Idle
  <2>4. prov' \in Portals
    BY <2>1 DEF Records, Portals, LocalEntered, GoIdle
  <2>5. drv' \in Drivers
    BY DEF Drivers, LocalEntered, GoIdle, Closed, Idle
  <2> QED BY <2>2, <2>3, <2>4, <2>5 DEF Records
<1>4. Others' /\ Open'
  BY <1>2 DEF StationInv, Others, Open, Active, LocalEntered, GoIdle, Closed, Idle
<1>5. NetsInv'
  BY <1>2 DEF StationInv, Records, NetsInv, Linked, Stations, Joins, LocalEntered, GoIdle, Closed, Idle
<1>6. PhaseInv'
  BY DEF StationInv, PhaseInv, LocalEntered, GoIdle, Closed, Idle
<1>7. SuccessInv'
  BY DEF StationInv, SuccessInv, LocalEntered, GoIdle
<1>8. NeverStranded'
  BY DEF StationInv, NeverStranded, Active, LocalEntered, GoIdle, Closed, Idle
<1> QED BY <1>3, <1>4, <1>5, <1>6, <1>7, <1>8 DEF StationInv

LEMMA SubmitStation ==
  ASSUME StationInv, NEW net \in Nets, Submit(net)
  PROVE  StationInv'
<1>1. queue \in Seq(Event) /\ Named(queue)
  BY DEF StationInv, Others, NetsInv
<1>2. /\ UNCHANGED <<sta, join, cred, nvs, drv, api, joined>> /\ used' \in 0..MaxRequests
      /\ queue' \in {queue, Append(queue, Ev("creds", net))}
      /\ \E p \in {"connecting", "failed"} : prov' = [prov EXCEPT !.page = p]
  BY Limits DEF Submit, Request, StationInv, Others
<1>3. /\ queue' \in Seq(Event) /\ Named(queue')
      /\ Sign(queue) => Sign(queue')
      /\ Left(queue) => Left(queue')
      /\ Covered(queue) => Covered(queue')
  <2>1. Ev("creds", net) \in Event /\ Ev("creds", net).kind = "creds" /\ Ev("creds", net).net = net
    BY <1>1, Disconnected
  <2> QED BY <1>1, <1>2, <2>1, Appended DEF Success
<1>4. prov' \in Portals /\ prov'.portal = prov.portal /\ prov'.closing = prov.closing /\ prov'.fails = prov.fails
  BY <1>2 DEF StationInv, Records, Portals
<1>5. Records' /\ Others' /\ Open'
  BY <1>2, <1>3, <1>4 DEF StationInv, Records, Others, Open, Active
<1>6. NetsInv' /\ PhaseInv' /\ SuccessInv'
  BY <1>2, <1>3, <1>4 DEF StationInv, NetsInv, PhaseInv, SuccessInv, Linked, Active
<1>7. NeverStranded'
  BY <1>2, <1>3, <1>4, Hands DEF StationInv, NeverStranded, Active, Linked
<1> QED BY <1>5, <1>6, <1>7 DEF StationInv

LEMMA SetupStation ==
  ASSUME StationInv, Setup
  PROVE  StationInv'
<1>1. queue \in Seq(Event)
  BY DEF StationInv, Others
<1>2. /\ queue' \in Seq(Event) /\ Named(queue')
      /\ Sign(queue) => Sign(queue')
      /\ Left(queue) => Left(queue')
      /\ Covered(queue) => Covered(queue')
  BY <1>1, Appended, Disconnected DEF Setup, StationInv, NetsInv, Success
<1>3. Records'
  <2>1. Records /\ Others /\ Open /\ NetsInv /\ PhaseInv
    BY DEF StationInv
  <2>2. sta' \in Stations
    BY <2>1 DEF Records, Setup
  <2>3. join' \in Joins
    BY <2>1 DEF Records, Setup
  <2>4. prov' \in Portals
    BY <2>1 DEF Records, Setup
  <2>5. drv' \in Drivers
    BY <2>1 DEF Records, Setup
  <2> QED BY <2>2, <2>3, <2>4, <2>5 DEF Records
<1>4. Others' /\ Open'
  BY <1>2, Limits DEF StationInv, Others, Open, Active, Setup, Request
<1>5. NetsInv'
  BY <1>2 DEF StationInv, NetsInv, Linked, Setup
<1>6. PhaseInv'
  BY DEF StationInv, PhaseInv, Active, Setup
<1>7. SuccessInv'
  BY <1>2 DEF StationInv, SuccessInv, Linked, Setup
<1>8. NeverStranded'
  BY <1>2, Hands DEF StationInv, NeverStranded, Active, Linked, Setup
<1> QED BY <1>3, <1>4, <1>5, <1>6, <1>7, <1>8 DEF StationInv

LEMMA OnStartStation ==
  ASSUME StationInv, OnStart
  PROVE  StationInv'
<1>1. queue \in Seq(Event) /\ Named(queue) /\ queue # <<>> /\ queue' = Tail(queue) /\ Head(queue).kind = "start"
      /\ UNCHANGED <<sta, prov, cred, nvs, api, joined, used>>
  BY DEF OnStart, First, Pop, StationInv, Others, NetsInv
<1>2. CASE ~sta.want
  <2>1. UNCHANGED <<drv, join>>
    BY <1>2 DEF OnStart
  <2> QED BY <1>1, <1>2, <2>1, PoppedStation
<1>3. CASE sta.want
  <2>1. cred \in Nets /\ drv \in Drivers /\ drv.st # "off" /\ join \in Joins /\ Connect(drv, cred, join)
    BY <1>3 DEF OnStart, StationInv, Records, NetsInv, PhaseInv
  <2>2. /\ join' \in Joins /\ join'.left = join.left
        /\ drv' \in Drivers /\ drv'.st \in {"busy", "up", "ip"}
        /\ drv'.net = cred \/ (drv' = drv /\ drv.st # "idle")
    BY <2>1, Connected
  <2>3. queue' \in Seq(Event) /\ Named(queue')
    BY <1>1, Popped
  <2>4. Records' /\ Others' /\ Open'
    BY <1>1, <2>2, <2>3 DEF StationInv, Records, Others, Open, Active
  <2>5. drv'.net \in Nets
    BY <2>1, <2>2 DEF StationInv, NetsInv, Linked
  <2>6. NetsInv' /\ PhaseInv' /\ SuccessInv'
    BY <1>1, <1>3, <2>2, <2>3, <2>5 DEF StationInv, NetsInv, PhaseInv, SuccessInv, Linked, Active
  <2>7. NeverStranded'
    BY <1>1, <2>2, Hands DEF StationInv, NeverStranded, Active, Linked
  <2> QED BY <2>4, <2>6, <2>7 DEF StationInv
<1> QED BY <1>2, <1>3

LEMMA OnAssociatedStation ==
  ASSUME StationInv, OnAssociated
  PROVE  StationInv'
<1>1. queue \in Seq(Event)
  BY DEF StationInv, Others
<1>2. /\ queue # <<>> /\ queue' = Tail(queue) /\ queue' \in Seq(Event) /\ Named(queue') /\ Head(queue).kind \in {"assoc"}
      /\ Sign(queue) => Sign(queue') \/ Head(queue).kind \in {"start", "gone"}
      /\ Left(queue) => Left(queue') \/ Head(queue).kind = "leave"
      /\ Covered(queue) => Covered(queue') /\ (Head(queue).kind \in Success => Sign(queue'))
  BY <1>1, Popped DEF OnAssociated, First, Pop, StationInv, NetsInv
<1>3. Records'
  <2>1. Records /\ Others /\ Open /\ NetsInv /\ PhaseInv
    BY DEF StationInv
  <2>2. sta' \in Stations
    BY <2>1 DEF Records, Stations, OnAssociated
  <2>3. join' \in Joins
    BY <2>1 DEF Records, Joins, OnAssociated
  <2>4. prov' \in Portals
    BY <2>1 DEF Records, OnAssociated
  <2>5. drv' \in Drivers
    BY <2>1 DEF Records, OnAssociated
  <2> QED BY <2>2, <2>3, <2>4, <2>5 DEF Records
<1>4. Others' /\ Open'
  BY <1>2 DEF StationInv, Records, Others, Open, Active, Stations, Joins, OnAssociated
<1>5. NetsInv'
  BY <1>2 DEF StationInv, NetsInv, Linked, OnAssociated
<1>6. PhaseInv'
  BY DEF StationInv, Records, PhaseInv, Active, Stations, Joins, OnAssociated
<1>7. SuccessInv'
  BY <1>2 DEF StationInv, SuccessInv, Linked, OnAssociated
<1>8. NeverStranded'
  BY <1>2, Hands DEF StationInv, Records, SuccessInv, NeverStranded, Active, Linked, Stations, Joins, OnAssociated,
     Success
<1> QED BY <1>3, <1>4, <1>5, <1>6, <1>7, <1>8 DEF StationInv

LEMMA OnGotIpStation ==
  ASSUME StationInv, OnGotIp
  PROVE  StationInv'
<1>1. queue \in Seq(Event) /\ Named(queue) /\ queue # <<>> /\ queue' = Tail(queue) /\ Head(queue).kind = "ip"
      /\ UNCHANGED <<cred, drv, api, joined, used>>
  BY DEF OnGotIp, First, Pop, StationInv, Others, NetsInv
<1>2. CASE ~(sta.want /\ Active)
  <2>1. UNCHANGED <<sta, join, prov, nvs>>
    BY <1>2 DEF OnGotIp
  <2> QED BY <1>1, <2>1, PoppedStation
<1>3. CASE sta.want /\ Active
  <2>1. /\ sta' = [sta EXCEPT !.phase = "connected"] /\ join' = Closed /\ nvs' \in {nvs, cred}
        /\ prov' \in Portals /\ prov'.portal = prov.portal /\ prov'.fails = 0
        /\ prov'.closing => prov.portal
    <3>1. /\ sta' = [sta EXCEPT !.phase = "connected"] /\ join' = Closed /\ nvs' \in {nvs, cred}
          /\ prov' = [prov EXCEPT !.fails = 0] \/ (sta.phase = "provisioning" /\ prov' = PortalDone)
      BY <1>3 DEF OnGotIp, WindowDone
    <3>2. prov \in Portals /\ 0 \in 0..FailLimit /\ (prov.closing => prov.portal) /\ (sta.phase = "provisioning" => prov.portal)
      BY Limits DEF StationInv, Records, Open, PhaseInv
    <3> QED BY <3>1, <3>2 DEF PortalDone, Portals
  <2>2. sta' \in Stations /\ sta'.phase = "connected" /\ sta'.want
    BY <1>3, <2>1 DEF StationInv, Records, Stations
  <2>3. queue' \in Seq(Event) /\ Named(queue') /\ (Covered(queue) => Covered(queue') /\ Sign(queue'))
    BY <1>1, Popped DEF Success
  <2>4. Records' /\ Others' /\ Open'
    BY <1>1, <2>1, <2>2, <2>3, FixedWindows DEF StationInv, Records, Others, Open, Active
  <2>5. NetsInv' /\ SuccessInv'
    BY <1>1, <2>1, <2>3, Limits DEF StationInv, NetsInv, SuccessInv, Linked
  <2>6. PhaseInv'
    BY <1>1, <1>3, <2>1, FixedWindows DEF StationInv, PhaseInv, Active
  <2>7. NeverStranded'
    BY <1>1, <1>3, <2>2, <2>3, Hands DEF StationInv, SuccessInv, NeverStranded, Linked
  <2> QED BY <2>4, <2>5, <2>6, <2>7 DEF StationInv
<1> QED BY <1>2, <1>3

LEMMA OnStaDisconnectedStation ==
  ASSUME StationInv, OnStaDisconnected
  PROVE  StationInv'
<1>1. queue \in Seq(Event) /\ Named(queue) /\ queue # <<>> /\ queue' = Tail(queue) /\ Head(queue).kind \in {"gone", "leave"}
      /\ UNCHANGED <<cred, nvs, drv, api, joined, used>>
  BY DEF OnStaDisconnected, First, Pop, StationInv, Others, NetsInv
<1>2. /\ queue' \in Seq(Event) /\ Named(queue')
      /\ Covered(queue) => Covered(queue')
      /\ Head(queue).kind = "leave" => (Sign(queue) => Sign(queue'))
  BY <1>1, Popped
<1>3. CASE ~sta.want
  <2>1. UNCHANGED <<sta, join, prov>>
    BY <1>3 DEF OnStaDisconnected
  <2> QED BY <1>1, <1>3, <2>1, PoppedStation
<1>4. CASE sta.want /\ First("leave") /\ sta.ignore
  <2>1. sta' = [sta EXCEPT !.ignore = FALSE] /\ UNCHANGED <<join, prov>> /\ Head(queue).kind = "leave"
    BY <1>4 DEF OnStaDisconnected, First
  <2>2. sta' \in Stations /\ sta'.phase = sta.phase /\ sta'.want = sta.want
    BY <2>1 DEF StationInv, Records, Stations
  <2>3. Records' /\ Others' /\ Open'
    BY <1>1, <2>1, <2>2 DEF StationInv, Records, Others, Open, Active
  <2>4. NetsInv' /\ PhaseInv' /\ SuccessInv'
    BY <1>1, <1>2, <2>1 DEF StationInv, NetsInv, PhaseInv, SuccessInv, Linked, Active
  <2>5. NeverStranded'
    BY <1>1, <1>2, <1>4, <2>1, Hands DEF StationInv, NeverStranded, Active, Linked
  <2> QED BY <2>3, <2>4, <2>5 DEF StationInv
<1>5. CASE sta.want /\ ~(First("leave") /\ sta.ignore)
  <2> DEFINE phase == IF Active THEN sta.phase ELSE IF prov.portal THEN "provisioning" ELSE "connecting"
             fails == prov.fails + (IF phase = "provisioning" THEN 1 ELSE 0)
             over == phase = "provisioning" /\ fails >= FailLimit
  <2>1. /\ sta' = [sta EXCEPT !.phase = phase, !.want = ~over]
        /\ join' = IF over THEN Closed ELSE Failed(LossWindow)
        /\ prov' = [prov EXCEPT !.closing = FALSE, !.fails = fails, !.page = IF over THEN "failed" ELSE @]
    BY <1>5 DEF OnStaDisconnected
  <2>2. /\ phase \in {"provisioning", "connecting", "connected"} /\ (phase = "connected" => Active /\ sta.phase = "connected")
        /\ phase = "provisioning" => prov.portal
    BY <1>5 DEF StationInv, Records, PhaseInv, Stations
  <2>3. fails \in 0..FailLimit /\ (prov.portal /\ ~over => fails < FailLimit) /\ over \in BOOLEAN
    <3>1. prov.fails \in 0..FailLimit /\ (prov.portal => prov.fails < FailLimit)
      BY <1>5 DEF StationInv, Records, NetsInv, Portals
    <3> QED BY <2>2, <3>1, Limits
  <2>4. Failed(LossWindow) \in Joins /\ Failed(LossWindow).left > 0 /\ Failed(LossWindow).retry
    BY FailedWindow, FixedWindows DEF LossWindow, Active, StationInv, Records
  <2>5. over => phase = "provisioning"
    OBVIOUS
  <2>6. sta.phase # "connected" \/ ~Active
    BY DEF StationInv, PhaseInv
  <2> HIDE DEF phase, fails, over
  <2>7. sta' \in Stations /\ sta'.phase = phase /\ sta'.want = ~over
    BY <2>1, <2>2, <2>3 DEF StationInv, Records, Stations
  <2>8. prov' \in Portals /\ prov'.portal = prov.portal /\ ~prov'.closing /\ prov'.fails = fails
    BY <2>1, <2>3 DEF StationInv, Records, Portals
  <2>9. join' \in Joins /\ (over => join'.left = 0) /\ (~over => join'.left > 0 /\ join'.retry)
    BY <2>1, <2>3, <2>4, FixedWindows
  <2>10. Records' /\ Others' /\ Open'
    <3>1. Open'
      <4>1. ~over => sta'.want
        BY <2>7
      <4>2. over => ~(join'.left > 0)
        BY <2>9
      <4> QED BY <2>8, <4>1, <4>2 DEF Open, Active
    <3> QED BY <1>1, <2>7, <2>8, <2>9, <3>1 DEF StationInv, Records, Others
  <2>11. NetsInv' /\ SuccessInv'
    BY <1>1, <1>2, <1>5, <2>3, <2>7, <2>8 DEF StationInv, NetsInv, SuccessInv, Linked
  <2>12. PhaseInv'
    BY <1>1, <1>5, <2>2, <2>5, <2>7, <2>8 DEF StationInv, PhaseInv
  <2>13. NeverStranded'
    BY <2>2, <2>5, <2>6, <2>7, <2>8, <2>9 DEF NeverStranded, Active
  <2> QED BY <2>10, <2>11, <2>12, <2>13 DEF StationInv
<1> QED BY <1>3, <1>4, <1>5

LEMMA AssociateStation ==
  ASSUME StationInv, Associate
  PROVE  StationInv'
<1>1. queue \in Seq(Event)
  BY DEF StationInv, Others
<1>2. queue' \in Seq(Event) /\ Named(queue')
  BY <1>1, Appended, Disconnected, NoneAssumption DEF Associate, Post, StationInv, NetsInv, Linked
<1>3. Records'
  <2>1. Records /\ Others /\ Open /\ NetsInv /\ PhaseInv
    BY DEF StationInv
  <2>2. sta' \in Stations
    BY <2>1 DEF Records, Associate, Undisturbed
  <2>3. join' \in Joins
    BY <2>1 DEF Records, Associate, Undisturbed
  <2>4. prov' \in Portals
    BY <2>1 DEF Records, Associate, Undisturbed
  <2>5. drv' \in Drivers
    BY <2>1 DEF Records, Drivers, Associate, Undisturbed
  <2> QED BY <2>2, <2>3, <2>4, <2>5 DEF Records
<1>4. Others' /\ Open'
  BY <1>2 DEF StationInv, Others, Open, Active, Associate, Undisturbed
<1>5. NetsInv'
  BY <1>2 DEF StationInv, NetsInv, Linked, Associate, Undisturbed
<1>6. PhaseInv'
  BY DEF StationInv, PhaseInv, Active, Associate, Undisturbed
<1>7. SuccessInv'
  BY DEF StationInv, SuccessInv, Linked, Associate, Undisturbed
<1>8. NeverStranded'
  BY Hands DEF StationInv, NeverStranded, Active, Linked, Associate, Undisturbed
<1> QED BY <1>3, <1>4, <1>5, <1>6, <1>7, <1>8 DEF StationInv

LEMMA GetIpStation ==
  ASSUME StationInv, GetIp
  PROVE  StationInv'
<1>1. queue \in Seq(Event)
  BY DEF StationInv, Others
<1>2. queue' \in Seq(Event) /\ Named(queue')
  BY <1>1, Appended, Disconnected, NoneAssumption DEF GetIp, Post, StationInv, NetsInv, Linked
<1>3. Records'
  <2>1. Records /\ Others /\ Open /\ NetsInv /\ PhaseInv
    BY DEF StationInv
  <2>2. sta' \in Stations
    BY <2>1 DEF Records, GetIp, Undisturbed
  <2>3. join' \in Joins
    BY <2>1 DEF Records, GetIp, Undisturbed
  <2>4. prov' \in Portals
    BY <2>1 DEF Records, GetIp, Undisturbed
  <2>5. drv' \in Drivers
    BY <2>1 DEF Records, Drivers, GetIp, Undisturbed
  <2> QED BY <2>2, <2>3, <2>4, <2>5 DEF Records
<1>4. Others' /\ Open'
  BY <1>2 DEF StationInv, Others, Open, NetsInv, Active, Linked, GetIp, Undisturbed
<1>5. NetsInv'
  BY <1>2 DEF StationInv, NetsInv, Linked, GetIp, Undisturbed
<1>6. PhaseInv'
  BY DEF StationInv, PhaseInv, Active, GetIp, Undisturbed
<1>7. SuccessInv'
  BY DEF StationInv, SuccessInv, Linked, GetIp, Undisturbed
<1>8. NeverStranded'
  BY Hands DEF StationInv, NeverStranded, Active, Linked, GetIp, Undisturbed
<1> QED BY <1>3, <1>4, <1>5, <1>6, <1>7, <1>8 DEF StationInv

LEMMA AttemptFailsStation ==
  ASSUME StationInv, AttemptFails
  PROVE  StationInv'
<1>1. queue \in Seq(Event)
  BY DEF StationInv, Others
<1>2. queue' \in Seq(Event) /\ Named(queue') /\ Sign(queue') /\ Covered(queue')
  BY <1>1, Posted DEF AttemptFails, Post, StationInv, NetsInv
<1>3. Records'
  <2>1. Records /\ Others /\ Open /\ NetsInv /\ PhaseInv
    BY DEF StationInv
  <2>2. sta' \in Stations
    BY <2>1 DEF Records, AttemptFails, Undisturbed
  <2>3. join' \in Joins
    BY <2>1 DEF Records, AttemptFails, Undisturbed
  <2>4. prov' \in Portals
    BY <2>1 DEF Records, AttemptFails, Undisturbed
  <2>5. drv' \in Drivers
    BY DEF Drivers, AttemptFails, Undisturbed, Idle
  <2> QED BY <2>2, <2>3, <2>4, <2>5 DEF Records
<1>4. Others' /\ Open'
  BY <1>2 DEF StationInv, Others, Open, Active, AttemptFails, Undisturbed
<1>5. NetsInv'
  BY <1>2 DEF StationInv, NetsInv, Linked, AttemptFails, Undisturbed, Idle
<1>6. PhaseInv'
  BY DEF StationInv, PhaseInv, Active, AttemptFails, Undisturbed, Idle
<1>7. SuccessInv'
  BY <1>2 DEF StationInv, SuccessInv, AttemptFails, Undisturbed
<1>8. NeverStranded'
  BY <1>2, Hands DEF StationInv, NeverStranded, Active, AttemptFails, Undisturbed
<1> QED BY <1>3, <1>4, <1>5, <1>6, <1>7, <1>8 DEF StationInv

LEMMA LoseStation ==
  ASSUME StationInv, Lose
  PROVE  StationInv'
<1>1. queue \in Seq(Event)
  BY DEF StationInv, Others
<1>2. queue' \in Seq(Event) /\ Named(queue') /\ Sign(queue') /\ Covered(queue')
  BY <1>1, Posted DEF Lose, Post, StationInv, NetsInv
<1>3. Records'
  <2>1. Records /\ Others /\ Open /\ NetsInv /\ PhaseInv
    BY DEF StationInv
  <2>2. sta' \in Stations
    BY <2>1 DEF Records, Lose, Undisturbed
  <2>3. join' \in Joins
    BY <2>1 DEF Records, Lose, Undisturbed
  <2>4. prov' \in Portals
    BY <2>1 DEF Records, Lose, Undisturbed
  <2>5. drv' \in Drivers
    BY DEF Drivers, Lose, Undisturbed, Idle
  <2> QED BY <2>2, <2>3, <2>4, <2>5 DEF Records
<1>4. Others' /\ Open'
  BY <1>2 DEF StationInv, Others, Open, Active, Lose, Undisturbed
<1>5. NetsInv'
  BY <1>2 DEF StationInv, NetsInv, Linked, Lose, Undisturbed, Idle
<1>6. PhaseInv'
  BY DEF StationInv, PhaseInv, Active, Lose, Undisturbed, Idle
<1>7. SuccessInv'
  BY <1>2 DEF StationInv, SuccessInv, Lose, Undisturbed
<1>8. NeverStranded'
  BY <1>2, Hands DEF StationInv, NeverStranded, Active, Lose, Undisturbed
<1> QED BY <1>3, <1>4, <1>5, <1>6, <1>7, <1>8 DEF StationInv

LEMMA OnSetupStation ==
  ASSUME StationInv, OnSetup
  PROVE  StationInv'
<1>1. queue \in Seq(Event)
  BY DEF StationInv, Others
<1>2. queue # <<>> /\ Head(queue).kind = "setup"
  BY DEF OnSetup, First
<1>3. CASE sta.local \/ sta.phase = "idle"
  <2>1. queue' = Tail(queue) /\ UNCHANGED <<sta, join, prov, cred, drv, nvs, api, joined, used>>
    BY <1>3 DEF OnSetup, Pop
  <2> QED BY <1>2, <2>1, PoppedStation
<1>4. CASE ~(sta.local \/ sta.phase = "idle")
  <2>1. StartProvisioning(Tail(queue)) /\ api' \in {"idle", "drains"} /\ UNCHANGED <<nvs, joined>> /\ used' \in 0..MaxRequests
    BY <1>4 DEF OnSetup, StationInv, Others, PhaseInv
  <2>2. Tail(queue) \in Seq(Event) /\ Named(Tail(queue))
    BY <1>1, <1>2, Popped DEF StationInv, NetsInv
  <2> QED BY <2>1, <2>2, ProvisionStation
<1> QED BY <1>3, <1>4

LEMMA OnCredentialsStation ==
  ASSUME StationInv, OnCredentials
  PROVE  StationInv'
<1>1. queue \in Seq(Event)
  BY DEF StationInv, Others
<1>2. queue # <<>> /\ Head(queue).kind = "creds"
  BY DEF OnCredentials, First
<1> DEFINE Ignored == sta.local \/ sta.phase = "idle" \/ ~prov.portal
<1>3. CASE Ignored
  <2>1. queue' = Tail(queue) /\ UNCHANGED <<sta, join, prov, cred, drv, nvs, api, joined, used>>
    BY <1>3 DEF OnCredentials, Pop
  <2> QED BY <1>2, <2>1, PoppedStation
<1>4. CASE ~Ignored
  <2>1. /\ Tail(queue) \in Seq(Event) /\ Named(Tail(queue)) /\ Head(queue).net \in Nets
    BY <1>1, <1>2, Popped DEF StationInv, NetsInv
  <2>2. queue' \in Seq(Event) /\ Named(queue')
    BY <1>4, <2>1, Posted DEF OnCredentials
  <2>3. /\ sta' = [sta EXCEPT !.phase = "provisioning", !.want = TRUE, !.ignore = TRUE]
        /\ cred' = Head(queue).net
        /\ prov' = [prov EXCEPT !.closing = FALSE, !.fails = 0, !.page = "connecting"]
        /\ drv' = [st |-> "busy", net |-> Head(queue).net] /\ join' = Begin
        /\ UNCHANGED <<nvs, api, joined, used>> /\ prov.portal /\ sta.phase # "idle"
    BY <1>4 DEF OnCredentials, Connect, Idle
  <2>4. Records' /\ Others' /\ Open'
    <3>1. sta' \in Stations /\ sta'.phase = "provisioning" /\ sta'.want /\ drv' \in Drivers
      BY <2>1, <2>3 DEF StationInv, Records, Stations, Drivers
    <3>2. prov' \in Portals /\ ~prov'.closing
      <4>1. prov \in Portals /\ 0 \in 0..FailLimit
        BY Limits DEF StationInv, Records
      <4> QED BY <2>3, <4>1 DEF Portals
    <3> QED BY <2>1, <2>2, <2>3, <3>1, <3>2, FixedWindows DEF StationInv, Records, Others, Open
  <2>5. NetsInv' /\ PhaseInv' /\ SuccessInv'
    BY <2>1, <2>2, <2>3, Limits DEF StationInv, NetsInv, PhaseInv, SuccessInv, Linked
  <2>6. NeverStranded'
    BY <2>3, Hands DEF StationInv, NeverStranded, Linked
  <2> QED BY <2>4, <2>5, <2>6 DEF StationInv
<1> QED BY <1>3, <1>4

LEMMA StartStation ==
  ASSUME StationInv, Start \/ LocalRejoins
  PROVE  StationInv'
<1>1. /\ sta.phase = "idle" /\ drv.st = "off" /\ api' = "idle" /\ UNCHANGED <<nvs, joined>>
      /\ used' \in 0..MaxRequests
  BY DEF StationInv, Others, PhaseInv, Start, LocalRejoins
<1>2. WifiStart
  BY DEF Start, LocalRejoins
<1>3. CASE nvs = None
  <2>1. StartProvisioning(queue) /\ queue \in Seq(Event) /\ Named(queue)
    BY <1>2, <1>3 DEF WifiStart, StationInv, Others, NetsInv
  <2> QED BY <1>1, <2>1, ProvisionStation
<1>4. CASE nvs # None
  <2>1. nvs \in Nets /\ StartSta(nvs)
    BY <1>2, <1>4 DEF WifiStart, StationInv, Others
  <2> QED BY <1>1, <2>1, JoinStation
<1> QED BY <1>3, <1>4

LEMMA TickJoinStation ==
  ASSUME StationInv, TickJoin
  PROVE  StationInv'
<1>1. queue \in Seq(Event) /\ Named(queue)
  BY DEF StationInv, Others, NetsInv
<1>2. UNCHANGED <<nvs, api, joined, used>> /\ Active /\ sta.want /\ sta.phase # "idle" /\ api \in {"idle", "drains"}
  BY DEF TickJoin, StationInv, Open, PhaseInv
<1>3. CASE Expire
  <2>1. queue' \in Seq(Event) /\ Named(queue')
    BY <1>1, <1>3, Posted DEF Expire
  <2>2. /\ sta' \in Stations /\ sta'.phase = sta.phase /\ ~sta'.want
        /\ prov' \in Portals /\ prov'.portal = prov.portal /\ prov'.closing = prov.closing
        /\ drv' \in Drivers /\ drv'.st = "idle" /\ join' = Closed /\ cred' = cred /\ sta.phase = "provisioning"
    BY <1>3 DEF Expire, Idle, StationInv, Records, Stations, Portals, Drivers
  <2>3. Records' /\ Others' /\ Open'
    BY <1>2, <2>1, <2>2, FixedWindows DEF StationInv, Records, Others, Open, Active
  <2>4. NetsInv' /\ PhaseInv' /\ SuccessInv'
    BY <1>2, <2>1, <2>2 DEF StationInv, NetsInv, PhaseInv, SuccessInv, Linked
  <2>5. NeverStranded'
    BY <2>2, FixedWindows DEF StationInv, PhaseInv, NeverStranded, Active
  <2> QED BY <2>3, <2>4, <2>5 DEF StationInv
<1>4. CASE StartProvisioning(queue)
  <2>1. used' \in 0..MaxRequests
    BY <1>2 DEF StationInv, Others
  <2> QED BY <1>1, <1>2, <1>4, <2>1, ProvisionStation
<1>5. CASE join.left # 1
  <2> DEFINE next == [join EXCEPT !.left = @ - 1, !.retry = FALSE]
  <2>1. /\ UNCHANGED <<sta, prov, cred, queue>>
        /\ IF join.retry /\ sta.want THEN Connect(drv, cred, next) ELSE join' = next /\ UNCHANGED drv
    BY <1>5 DEF TickJoin
  <2>2. next \in Joins /\ next.left > 0 /\ ~next.retry
    BY <1>2, <1>5, NextWindow DEF StationInv, Records, Active
  <2> HIDE DEF next
  <2>3. drv \in Drivers /\ drv.st # "off" /\ cred \in Nets
    BY <1>2 DEF StationInv, Records, NetsInv, PhaseInv
  <2>4. CASE join.retry
    <3>1. /\ join' \in Joins /\ join'.left > 0
          /\ drv' \in Drivers /\ drv'.st \in {"busy", "up", "ip"}
          /\ drv'.net = cred \/ (drv' = drv /\ drv.st # "idle")
      BY <1>2, <2>1, <2>2, <2>3, <2>4, Connected
    <3>2. drv'.net \in Nets
      BY <2>3, <3>1 DEF StationInv, NetsInv, Linked
    <3>3. Records' /\ Others' /\ Open'
      BY <1>2, <2>1, <3>1 DEF StationInv, Records, Others, Open
    <3>4. NetsInv' /\ PhaseInv' /\ SuccessInv'
      BY <1>2, <2>1, <3>1, <3>2 DEF StationInv, NetsInv, PhaseInv, SuccessInv, Linked
    <3>5. NeverStranded'
      BY <3>1, Hands DEF StationInv, NeverStranded, Active, Linked
    <3> QED BY <3>3, <3>4, <3>5 DEF StationInv
  <2>5. CASE ~join.retry
    <3>1. join' = next /\ UNCHANGED drv
      BY <2>1, <2>5
    <3>2. Records' /\ Others' /\ Open'
      BY <1>2, <2>1, <2>2, <3>1 DEF StationInv, Records, Others, Open
    <3>3. NetsInv' /\ PhaseInv' /\ SuccessInv'
      BY <1>2, <2>1, <3>1 DEF StationInv, NetsInv, PhaseInv, SuccessInv, Linked
    <3>4. NeverStranded'
      BY <1>2, <2>1, <2>2, <2>5, <3>1, Hands DEF StationInv, NeverStranded, Active, Linked
    <3> QED BY <3>2, <3>3, <3>4 DEF StationInv
  <2> QED BY <2>4, <2>5
<1> QED BY <1>3, <1>4, <1>5 DEF TickJoin

-----------------------------------------------------------------------------
(* The theorems *)

LEMMA InitStation == Init => StationInv
<1> SUFFICES ASSUME Init PROVE StationInv
  OBVIOUS
<1>1. Records /\ Others /\ Open /\ NetsInv /\ PhaseInv
  BY Limits DEF Init, Records, Others, Open, Stations, Joins, Portals, Drivers, NetsInv, Named, PhaseInv, Closed,
     Active, Linked
<1>2. SuccessInv /\ NeverStranded
  BY DEF Init, SuccessInv, NeverStranded, Closed, Active
<1> QED BY <1>1, <1>2 DEF StationInv

LEMMA Inductive == StationInv /\ [Next]_vars => StationInv'
<1> SUFFICES ASSUME StationInv, [Next]_vars PROVE StationInv'
  OBVIOUS
<1>1. CASE EventLoop
  BY <1>1, OnStartStation, OnAssociatedStation, OnGotIpStation, OnStaDisconnectedStation, OnSetupStation,
     OnCredentialsStation DEF EventLoop
<1>2. CASE TickJoin \/ TickPortal
  BY <1>2, TickJoinStation, TickPortalStation
<1>3. CASE Api
  BY <1>3, StartStation, StopStation, LocalBeginStation, LocalCancelledStation, LocalEnteredStation, LocalEndStation,
     SetupStation, SubmitStation DEF Api
<1>4. CASE Driver
  BY <1>4, AssociateStation, AttemptFailsStation, GetIpStation, LoseStation DEF Driver
<1>5. CASE UNCHANGED vars
  <2>1. Records' /\ Others' /\ Open' /\ NetsInv' /\ PhaseInv'
    BY <1>5 DEF vars, StationInv, Records, Others, Open, NetsInv, PhaseInv, Active, Linked
  <2>2. SuccessInv' /\ NeverStranded'
    BY <1>5, Hands DEF vars, StationInv, SuccessInv, NeverStranded, Active, Linked
  <2> QED BY <2>1, <2>2 DEF StationInv
<1> QED BY <1>1, <1>2, <1>3, <1>4, <1>5 DEF Next

\* Type correctness: with it, a window is open only while the station wants to connect and the portal is not
\* about to close, and the count of failures stays within the limit (transport_wifi.cpp, wifi_join.h).
THEOREM TypeCorrect == Spec => []TypeOK
<1>1. StationInv => TypeOK
  BY TypeParts DEF StationInv
<1> QED BY <1>1, InitStation, Inductive, PTL DEF Spec

\* However driver events, submissions, setups and local radio use overtake each other in the queue: while the
\* station joins, an attempt, its outcome or a retry is pending; while it says it is connected, it is, or is
\* attempting, or the loss waits in the queue; otherwise the portal is up (transport_wifi.cpp).
THEOREM StationIsServed == Spec => []NeverStranded
<1>1. StationInv => NeverStranded
  BY DEF StationInv
<1> QED BY <1>1, InitStation, Inductive, PTL DEF Spec
==============================================================================
