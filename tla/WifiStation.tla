----------------------------- MODULE WifiStation -----------------------------
(***************************************************************************)
(* The WiFi station and its captive portal: transport_wifi.cpp with        *)
(* wifi_join.h and the portal's life in wifi_provision.cpp.                *)
(*                                                                         *)
(* Every handler holds s_wifi_mtx, so each is one step.  Driver events,    *)
(* submitted credentials and requests for setup pass through the queue of  *)
(* the default event loop and are handled in order, later than they were   *)
(* posted; ticks come in between at any place.  The driver is external:    *)
(* an attempt, an association, an address, a loss.                         *)
(*                                                                         *)
(* A join window of 20 s is Window ticks, a retry is due at the next tick, *)
(* the portal closes at some tick after a success.                         *)
(*                                                                         *)
(* Left out: preset credentials, failing driver calls other than a connect *)
(* out of turn, a portal that cannot be started, reported text.            *)
(***************************************************************************)
EXTENDS Naturals, Sequences, SequencesExt

CONSTANTS
  Nets,         \* networks a user may submit
  Window,       \* ticks in a join window
  FailLimit,    \* kProvFailLimit
  MaxQueued,    \* bound: driver events waiting
  MaxRequests   \* bound: submissions, setups, stops and entries to local radio use

ASSUME StationAssumption ==
  /\ {Window, FailLimit} \subseteq Nat \ {0}
  /\ {MaxQueued, MaxRequests} \subseteq Nat

None == "none"
ASSUME NoneAssumption == None \notin Nets

VARIABLES
  sta,     \* s_phase, s_want_connect, s_ignore_leave, s_local_radio
  join,    \* s_join: ticks left (0: not active), a retry is due, waiting_ip_
  prov,    \* portal runs, s_portal_close_at set, s_prov_failures, status on its page
  cred,    \* s_ssid, s_pass: the network being tried
  nvs,     \* the network stored
  drv,     \* driver: off, idle, busy, up (associated), ip; its network
  queue,   \* the default event loop
  api,     \* the task in agent_wifi_local_begin or _end
  joined,  \* networks the station has had an address in
  used

vars == <<sta, join, prov, cred, nvs, drv, queue, api, joined, used>>

Begin == [left |-> Window, retry |-> FALSE, ip |-> FALSE]
Closed == [left |-> 0, retry |-> FALSE, ip |-> FALSE]
Active == join.left > 0
Failed(window) == IF window.left > 0 THEN [window EXCEPT !.retry = TRUE, !.ip = FALSE] ELSE window

Ev(kind, net) == [kind |-> kind, net |-> net]
Leave == Ev("leave", None)  \* STA_DISCONNECTED, WIFI_REASON_ASSOC_LEAVE
Gone == Ev("gone", None)    \* STA_DISCONNECTED, any other reason

Init ==
  /\ sta = [phase |-> "idle", want |-> FALSE, ignore |-> FALSE, local |-> FALSE]
  /\ join = Closed
  /\ prov = [portal |-> FALSE, closing |-> FALSE, fails |-> 0, page |-> "idle"]
  /\ cred = None
  /\ nvs \in Nets \union {None}
  /\ drv = [st |-> "off", net |-> None]
  /\ queue = <<>>
  /\ api = "idle"
  /\ joined = {nvs} \ {None}
  /\ used = 0

Request == used < MaxRequests /\ used' = used + 1

\* esp_wifi_disconnect posts a leave event when there was something to leave.
Linked == drv.st \in {"busy", "up", "ip"}
LeaveEvents == IF Linked THEN <<Leave>> ELSE <<>>
Idle == [st |-> "idle", net |-> None]
Off == [st |-> "off", net |-> None]

\* ConnectStation with the window as it stands; the driver refuses out of turn.
Connect(driver, net, window) ==
  IF driver.st = "idle" THEN drv' = [st |-> "busy", net |-> net] /\ join' = window
  ELSE drv' = driver /\ join' = Failed(window)

-----------------------------------------------------------------------------
(* Entry points *)

StartSta(net) ==
  /\ sta' = [sta EXCEPT !.phase = "connecting", !.want = TRUE]
  /\ cred' = net
  /\ IF drv.st = "off" THEN drv' = Idle /\ join' = Begin /\ queue' = Append(queue, Ev("start", None))
     ELSE Connect(drv, net, Begin) /\ UNCHANGED queue
  /\ UNCHANGED prov

\* events: the queue without the event being handled.
StartProvisioning(events) ==
  /\ sta' = [sta EXCEPT !.phase = "provisioning", !.want = FALSE, !.ignore = IF drv.st = "off" THEN @ ELSE TRUE]
  /\ join' = Closed
  /\ prov' = [portal |-> TRUE, closing |-> FALSE, fails |-> 0, page |-> IF prov.portal THEN prov.page ELSE "idle"]
  /\ drv' = Idle
  /\ queue' = events \o (IF drv.st = "off" THEN <<Ev("start", None)>> ELSE LeaveEvents)
  /\ UNCHANGED cred

WifiStart == IF nvs = None THEN StartProvisioning(queue) ELSE StartSta(nvs)

Start ==
  /\ sta.phase = "idle" /\ api = "idle"
  /\ WifiStart
  /\ UNCHANGED <<nvs, api, joined, used>>

\* What wifi_stop and agent_wifi_local_begin do under the mutex.
GoIdle(local) ==
  /\ sta' = [sta EXCEPT !.phase = "idle", !.want = FALSE, !.local = local]
  /\ join' = Closed
  /\ prov' = [prov EXCEPT !.portal = FALSE, !.closing = FALSE]
  /\ UNCHANGED cred

Stop ==
  /\ sta.phase # "idle" /\ ~sta.local /\ Request
  /\ GoIdle(FALSE)
  /\ drv' = Off
  /\ queue' = queue \o LeaveEvents
  /\ UNCHANGED <<nvs, api, joined>>

LocalBegin ==
  /\ api = "idle" /\ ~sta.local /\ Request
  /\ sta' = [sta EXCEPT !.local = TRUE]
  /\ api' = "drains"
  /\ UNCHANGED <<join, prov, cred, nvs, drv, queue, joined>>

\* The cloud did not become quiet in time.
LocalCancelled ==
  /\ api = "drains"
  /\ sta' = [sta EXCEPT !.local = FALSE]
  /\ api' = "idle"
  /\ UNCHANGED <<join, prov, cred, nvs, drv, queue, joined, used>>

LocalEntered ==
  /\ api = "drains"
  /\ GoIdle(TRUE)
  /\ drv' = Idle
  /\ queue' = queue \o LeaveEvents \o <<Ev("start", None)>>
  /\ api' = "local"
  /\ UNCHANGED <<nvs, joined, used>>

LocalEnd ==
  /\ api = "local"
  /\ drv' = Off
  /\ sta' = [sta EXCEPT !.local = FALSE]
  /\ api' = "ended"
  /\ UNCHANGED <<join, prov, cred, nvs, queue, joined, used>>

LocalRejoins ==
  /\ api = "ended"
  /\ WifiStart
  /\ api' = "idle"
  /\ UNCHANGED <<nvs, joined, used>>

\* ProvisionPost on the portal's own task; OnProvCreds does not wait for room.
Submit(net) ==
  /\ prov.portal /\ Request
  /\ IF Len(queue) < MaxQueued
     THEN prov' = [prov EXCEPT !.page = "connecting"] /\ queue' = Append(queue, Ev("creds", net))
     ELSE prov' = [prov EXCEPT !.page = "failed"] /\ UNCHANGED queue
  /\ UNCHANGED <<sta, join, cred, nvs, drv, api, joined>>

\* agent_link_wifi_setup
Setup ==
  /\ sta.phase # "idle" /\ Len(queue) < MaxQueued /\ Request
  /\ queue' = Append(queue, Ev("setup", None))
  /\ UNCHANGED <<sta, join, prov, cred, nvs, drv, api, joined>>

-----------------------------------------------------------------------------
(* The event loop *)

First(kind) == queue # <<>> /\ Head(queue).kind = kind
Pop == queue' = Tail(queue)

OnStart ==
  /\ First("start") /\ Pop
  /\ IF sta.want THEN Connect(drv, cred, join) ELSE UNCHANGED <<drv, join>>
  /\ UNCHANGED <<sta, prov, cred, nvs, api, joined, used>>

OnAssociated ==
  /\ First("assoc") /\ Pop
  /\ IF sta.want /\ Active
     THEN sta' = [sta EXCEPT !.ignore = FALSE] /\ join' = [join EXCEPT !.ip = TRUE, !.retry = FALSE]
     ELSE UNCHANGED <<sta, join>>
  /\ UNCHANGED <<prov, cred, nvs, drv, api, joined, used>>

\* Mutant: the portal is left to the user once it has done its work.
PortalStays == [prov EXCEPT !.fails = 0, !.page = "connected"]

\* What a successful join makes of the portal that led to it, and of the window.
PortalDone == [prov EXCEPT !.fails = 0, !.page = "connected", !.closing = TRUE]
WindowDone == Closed

OnGotIp ==
  /\ First("ip") /\ Pop
  /\ IF sta.want /\ Active
     THEN /\ join' = WindowDone
          /\ sta' = [sta EXCEPT !.phase = "connected"]
          /\ IF sta.phase = "provisioning" THEN nvs' = cred /\ prov' = PortalDone
             ELSE UNCHANGED nvs /\ prov' = [prov EXCEPT !.fails = 0]
     ELSE UNCHANGED <<sta, join, prov, nvs>>
  /\ UNCHANGED <<cred, drv, api, joined, used>>

\* Mutants: every failure opens a new window; a lost connection opens none.
WindowAnew == Begin
WindowSame == join

\* The window a lost connection opens; a failure within one goes on with it.
LossWindow == IF Active THEN join ELSE Begin

OnStaDisconnected ==
  /\ First("gone") \/ First("leave")
  /\ Pop
  /\ IF ~sta.want THEN UNCHANGED <<sta, join, prov>>
     ELSE IF First("leave") /\ sta.ignore THEN sta' = [sta EXCEPT !.ignore = FALSE] /\ UNCHANGED <<join, prov>>
     ELSE LET phase == IF Active THEN sta.phase ELSE IF prov.portal THEN "provisioning" ELSE "connecting"
              fails == prov.fails + (IF phase = "provisioning" THEN 1 ELSE 0)
              over == phase = "provisioning" /\ fails >= FailLimit
          IN /\ sta' = [sta EXCEPT !.phase = phase, !.want = ~over]
             /\ join' = IF over THEN Closed ELSE Failed(LossWindow)
             /\ prov' = [prov EXCEPT !.closing = FALSE, !.fails = fails, !.page = IF over THEN "failed" ELSE @]
  /\ UNCHANGED <<cred, nvs, drv, api, joined, used>>

\* WifiControl, kWifiSetup
OnSetup ==
  /\ First("setup")
  /\ IF sta.local \/ sta.phase = "idle" THEN Pop /\ UNCHANGED <<sta, join, prov, cred, drv>>
     ELSE StartProvisioning(Tail(queue))
  /\ UNCHANGED <<nvs, api, joined, used>>

\* WifiControl, kWifiCredentials; ApplyProvCreds.
OnCredentials ==
  /\ First("creds")
  /\ IF sta.local \/ sta.phase = "idle" \/ ~prov.portal THEN Pop /\ UNCHANGED <<sta, join, prov, cred, drv>>
     ELSE /\ sta' = [sta EXCEPT !.phase = "provisioning", !.want = TRUE, !.ignore = TRUE]
          /\ cred' = Head(queue).net
          /\ prov' = [prov EXCEPT !.closing = FALSE, !.fails = 0, !.page = "connecting"]
          /\ Connect(Idle, Head(queue).net, Begin)
          /\ queue' = Tail(queue) \o LeaveEvents
  /\ UNCHANGED <<nvs, api, joined, used>>

\* WifiControl, kWifiTick, in a window: it expires, or a retry is taken.
Expire ==
  /\ sta.phase = "provisioning"
  /\ join' = Closed
  /\ sta' = [sta EXCEPT !.want = FALSE, !.ignore = TRUE]
  /\ prov' = [prov EXCEPT !.page = "failed"]
  /\ drv' = Idle
  /\ queue' = queue \o LeaveEvents
  /\ UNCHANGED cred

TickJoin ==
  /\ ~sta.local /\ Active
  /\ IF join.left = 1 THEN Expire \/ (sta.phase # "provisioning" /\ StartProvisioning(queue))
     ELSE /\ IF join.retry /\ sta.want THEN Connect(drv, cred, [join EXCEPT !.left = @ - 1, !.retry = FALSE])
             ELSE join' = [join EXCEPT !.left = @ - 1, !.retry = FALSE] /\ UNCHANGED drv
          /\ UNCHANGED <<sta, prov, cred, queue>>
  /\ UNCHANGED <<nvs, api, joined, used>>

\* kWifiTick, out of a window: the portal has been up for long enough after a success.
TickPortal ==
  /\ ~sta.local /\ ~Active /\ prov.closing
  /\ prov' = [prov EXCEPT !.closing = FALSE, !.portal = FALSE]
  /\ UNCHANGED <<sta, join, cred, nvs, drv, queue, api, joined, used>>

-----------------------------------------------------------------------------
(* The driver *)

Post(event) == queue' = Append(queue, event)
Undisturbed == UNCHANGED <<sta, join, prov, cred, nvs, api, used>>
Room == Len(queue) < MaxQueued

Associate ==
  /\ drv.st = "busy" /\ Room
  /\ drv' = [drv EXCEPT !.st = "up"] /\ Post(Ev("assoc", drv.net))
  /\ Undisturbed /\ UNCHANGED joined

AttemptFails ==
  /\ drv.st = "busy" /\ Room
  /\ drv' = Idle /\ Post(Gone)
  /\ Undisturbed /\ UNCHANGED joined

GetIp ==
  /\ drv.st = "up" /\ Room
  /\ drv' = [drv EXCEPT !.st = "ip"] /\ Post(Ev("ip", drv.net))
  /\ joined' = joined \union {drv.net}
  /\ Undisturbed

Lose ==
  /\ drv.st \in {"up", "ip"} /\ Room
  /\ drv' = Idle /\ Post(Gone)
  /\ Undisturbed /\ UNCHANGED joined

EventLoop == OnStart \/ OnAssociated \/ OnGotIp \/ OnStaDisconnected \/ OnSetup \/ OnCredentials
Api == Start \/ Stop \/ LocalBegin \/ LocalCancelled \/ LocalEntered \/ LocalEnd \/ LocalRejoins \/ Setup
         \/ \E net \in Nets : Submit(net)
Driver == Associate \/ AttemptFails \/ GetIp \/ Lose

Next == EventLoop \/ TickJoin \/ TickPortal \/ Api \/ Driver

\* The event task runs, ticks come, an attempt ends, the cloud session drains or the wait for it ends.
Fairness ==
  /\ WF_vars(EventLoop) /\ WF_vars(TickJoin) /\ WF_vars(TickPortal)
  /\ WF_vars(Associate \/ AttemptFails)
  /\ WF_vars(LocalCancelled \/ LocalEntered) /\ WF_vars(LocalRejoins)

Spec == Init /\ [][Next]_vars /\ Fairness

-----------------------------------------------------------------------------
(* Properties *)

Queued(kinds) == \E i \in 1..Len(queue) : queue[i].kind \in kinds

\* Types; a window is open only while the station wants to connect, and never while the portal is
\* about to close.
TypeOK ==
  /\ sta \in [phase : {"idle", "provisioning", "connecting", "connected"}, want : BOOLEAN, ignore : BOOLEAN,
              local : BOOLEAN]
  /\ join \in [left : 0..Window, retry : BOOLEAN, ip : BOOLEAN]
  /\ prov \in [portal : BOOLEAN, closing : BOOLEAN, fails : 0..FailLimit,
               page : {"idle", "connecting", "connected", "failed"}]
  /\ {cred, nvs} \subseteq Nets \union {None}
  /\ drv \in [st : {"off", "idle", "busy", "up", "ip"}, net : Nets \union {None}]
  /\ queue \in Seq([kind : {"start", "assoc", "ip", "gone", "leave", "creds", "setup"}, net : Nets \union {None}])
  /\ api \in {"idle", "drains", "local", "ended"}
  /\ joined \subseteq Nets /\ used \in 0..MaxRequests
  /\ Active => sta.want /\ ~prov.closing
  /\ prov.closing => prov.portal

\* The driver is at work, or an event that makes the station act on it is in the queue.
InHand == Linked \/ Queued({"start", "gone"}) \/ (Queued({"leave"}) /\ ~sta.ignore)

\* The station is never stranded: while it joins, an attempt, its outcome or a retry is pending; while
\* it says it is connected, it is, or is attempting, or the loss is still in the queue; otherwise the
\* portal is up.
NeverStranded ==
  /\ Active => join.retry \/ InHand
  /\ sta.phase = "connecting" => Active
  /\ sta.phase = "connected" => InHand
  /\ sta.phase = "provisioning" => Active \/ prov.portal

\* What is stored has been joined with an address (OnGotIp's "first successful join").
StoredHasJoined == nvs # None => nvs \in joined

\* A join window ends, by success, by failures or by its 20 s, whatever the access point does.
WindowEnds == Active ~> ~Active

\* A portal whose credentials worked does not stay: the cloud session waits for its end (NetReady).
PortalCloses == []<>~(sta.phase = "connected" /\ prov.portal)
=============================================================================
