------------------------------ MODULE BleLink ------------------------------
(***************************************************************************)
(* The BLE link to the App: who may connect, what the core believes of the *)
(* connection, the I/O manifest and deferred command replies.  GapEvent,   *)
(* GattAccess, the deferred replies, forget and stop of                    *)
(* transports/ble/transport_ble.cpp, and the link state of                 *)
(* core/agent_link.cpp.                                                    *)
(*                                                                         *)
(* Two threads: the NimBLE host task (host) runs every GAP and GATT event, *)
(* and with it the core's callbacks, to the end before the next one; the   *)
(* board's task (brd) calls the public API at any time, also while the     *)
(* host is in the middle of an event.  Connections are numbered.           *)
(*                                                                         *)
(* The check and the send inside Notify fall into one connection, and a    *)
(* peer completes no pairing on a connection that is being terminated.     *)
(***************************************************************************)
EXTENDS Naturals, Sequences, FiniteSets

CONSTANTS
  Peers,        \* phones
  NoPeer,       \* no phone
  Chunks,       \* 0x18 events of one manifest
  MaxPending,   \* deferred replies under way: 8
  MaxConns,     \* bound: connections
  MaxRequests,  \* bound: commands the board claims
  MaxFaults,    \* bound: notifications that fail
  Calls,        \* which API calls the board makes besides replying
  MaxCalls      \* bound: how many

ASSUME LinkAssumption ==
  /\ NoPeer \notin Peers
  /\ Chunks \in Nat \ {0} /\ MaxPending \in Nat /\ MaxConns \in Nat /\ MaxRequests \in Nat
  /\ MaxFaults \in Nat /\ MaxCalls \in Nat
  /\ Calls \subseteq {"changed", "forget", "stop"}

Conns == 1..MaxConns

VARIABLES
  gap,      \* NimBLE: connection number, its peer, up, encrypted with a bond, MTU, being terminated;
            \* roomy: the manifest of the board is short enough for the MTU a connection begins with
  adv,      \* advertising
  bonds,    \* the bond store
  ble,      \* s_connected, s_authorized, s_event_subscribed
  core,     \* s_state, s_link_generation, s_manifest_sent, phase of s_link_status
  host,     \* host task: program counter and the manifest it sends
  brd,      \* board task: program counter, manifest, reply in hand, calls made, what it has undone
  requests, \* commands the board has claimed: connection, generation
  replies,  \* event queue of deferred replies
  app,      \* the App: manifest chunks so far, connections that asked and were answered
  faults

vars == <<gap, adv, bonds, ble, core, host, brd, requests, replies, app, faults>>

NoReply == [conn |-> 0, gen |-> 0]

Init ==
  /\ gap = [id |-> 0, peer |-> NoPeer, up |-> FALSE, secure |-> FALSE, mtu |-> "small", ending |-> FALSE,
            roomy |-> FALSE]
  /\ adv = TRUE
  /\ bonds = {}
  /\ ble = [connected |-> FALSE, authorized |-> FALSE, subscribed |-> FALSE]
  /\ core = [state |-> "disconnected", gen |-> 0, sent |-> FALSE, phase |-> "setup"]
  /\ host = [pc |-> "idle", idx |-> 0]
  /\ brd = [pc |-> "idle", idx |-> 0, reply |-> NoReply, calls |-> 0, stopped |-> FALSE, forgot |-> 0]
  /\ requests = {}
  /\ replies = <<>>
  /\ app = [asm |-> <<>>, answers |-> {}]
  /\ faults = 0

HostAt(pc) == host.pc = pc
HostGoto(pc) == host' = [host EXCEPT !.pc = pc]
BrdAt(pc) == brd.pc = pc
BrdGoto(pc) == brd' = [brd EXCEPT !.pc = pc]

\* Notify reaches the peer.
CanNotify == ble.connected /\ ble.authorized

-----------------------------------------------------------------------------
(* Connecting and securing *)

\* Mutant of KnownOrFirstPeer: anybody may enroll.
AnyPeer(p) == p \in Peers

\* Enrollment is open only while no bonds exist.
KnownOrFirstPeer(p) == bonds = {} \/ p \in bonds

Connect(p) ==
  /\ HostAt("idle") /\ adv /\ ~gap.up /\ gap.id < MaxConns
  /\ \E roomy \in BOOLEAN :
       gap' = [id |-> gap.id + 1, peer |-> p, up |-> TRUE, secure |-> FALSE, mtu |-> "small",
               ending |-> ~KnownOrFirstPeer(p), roomy |-> roomy]
  /\ adv' = FALSE
  /\ ble' = [connected |-> TRUE, authorized |-> FALSE, subscribed |-> FALSE]
  /\ UNCHANGED <<bonds, core, host, brd, requests, replies, app, faults>>

\* NimBLE ends a pairing, or an encryption with the stored keys; the keys are stored, and the
\* ENC_CHANGE event follows.
Secure ==
  /\ HostAt("idle") /\ gap.up /\ ~gap.ending
  /\ gap' = [gap EXCEPT !.secure = TRUE]
  /\ bonds' = IF gap.secure THEN bonds ELSE bonds \cup {gap.peer}
  /\ HostGoto("enc")
  /\ UNCHANGED <<adv, ble, core, brd, requests, replies, app, faults>>

\* ENC_CHANGE with an error, also on a link that is secure already.
SecureFails ==
  /\ HostAt("idle") /\ gap.up /\ ~gap.ending
  /\ gap' = [gap EXCEPT !.ending = TRUE]
  /\ ble' = [ble EXCEPT !.authorized = FALSE]
  /\ UNCHANGED <<adv, bonds, core, host, brd, requests, replies, app, faults>>

EncChange ==
  /\ HostAt("enc")
  /\ ble' = [ble EXCEPT !.authorized = TRUE]
  /\ HostGoto(IF ble.authorized THEN "idle" ELSE "up")
  /\ UNCHANGED <<gap, adv, bonds, core, brd, requests, replies, app, faults>>

\* SetLinkState: the state first, then everything that belonged to the last connection.
StateUp ==
  /\ HostAt("up")
  /\ core' = [core EXCEPT !.state = "ready"]
  /\ HostGoto("upreset")
  /\ UNCHANGED <<gap, adv, bonds, ble, brd, requests, replies, app, faults>>

\* Mutant of ResetLinkState: the flag of the last connection stays.
ResetKeepsManifest == [core EXCEPT !.gen = @ + 1]

ResetLinkState == [core EXCEPT !.gen = @ + 1, !.sent = FALSE]

ResetUp ==
  /\ HostAt("upreset")
  /\ core' = [ResetLinkState EXCEPT !.phase = "connecting"]
  /\ HostGoto("secured")
  /\ UNCHANGED <<gap, adv, bonds, ble, brd, requests, replies, app, faults>>

\* The App may have subscribed before the link was encrypted.
ReadyIfSubscribed ==
  /\ HostAt("secured")
  /\ HostGoto(IF ble.subscribed THEN "ready" ELSE "idle")
  /\ UNCHANGED <<gap, adv, bonds, ble, core, brd, requests, replies, app, faults>>

Subscribe(on) ==
  /\ HostAt("idle") /\ gap.up /\ ~gap.ending
  /\ ble' = [ble EXCEPT !.subscribed = on]
  /\ HostGoto(IF on /\ ble.authorized THEN "ready" ELSE "idle")
  /\ UNCHANGED <<gap, adv, bonds, core, brd, requests, replies, app, faults>>

\* The peer exchanges the MTU, once: any manifest fits into 256 fragments from now on.
Mtu ==
  /\ HostAt("idle") /\ gap.up /\ gap.mtu = "small"
  /\ gap' = [gap EXCEPT !.mtu = "large"]
  /\ HostGoto(IF ble.subscribed /\ ble.authorized THEN "ready" ELSE "idle")
  /\ UNCHANGED <<adv, bonds, ble, core, brd, requests, replies, app, faults>>

\* OnLinkReady: send the manifest unless this connection has it.
LinkReady ==
  /\ HostAt("ready")
  /\ host' = [pc |-> IF core.sent THEN "publish" ELSE "manifest", idx |-> 0]
  /\ UNCHANGED <<gap, adv, bonds, ble, core, brd, requests, replies, app, faults>>

PublishReady ==
  /\ HostAt("publish")
  /\ core' = [core EXCEPT !.phase = "ready"]
  /\ HostGoto("idle")
  /\ UNCHANGED <<gap, adv, bonds, ble, brd, requests, replies, app, faults>>

\* GAP DISCONNECT: whoever ended the connection, or it was lost.
Disconnect ==
  /\ HostAt("idle") /\ gap.up
  /\ gap' = [gap EXCEPT !.up = FALSE, !.secure = FALSE, !.ending = FALSE]
  /\ ble' = [connected |-> FALSE, authorized |-> FALSE, subscribed |-> FALSE]
  /\ app' = [app EXCEPT !.asm = <<>>]
  /\ HostGoto("down")
  /\ UNCHANGED <<adv, bonds, core, brd, requests, replies, faults>>

StateDown ==
  /\ HostAt("down")
  /\ core' = [core EXCEPT !.state = "disconnected"]
  /\ HostGoto("downreset")
  /\ UNCHANGED <<gap, adv, bonds, ble, brd, requests, replies, app, faults>>

ResetDown ==
  /\ HostAt("downreset")
  /\ core' = [ResetLinkState EXCEPT !.phase = "setup"]
  /\ adv' = TRUE
  /\ HostGoto("idle")
  /\ UNCHANGED <<gap, bonds, ble, brd, requests, replies, app, faults>>

-----------------------------------------------------------------------------
(* The manifest: SendManifest, by the host task and by the board's *)

\* 256 fragments of this MTU hold the manifest.
MtuFits == gap.roomy \/ gap.mtu = "large"

\* The MTU is read once, before the first chunk.
Fits(idx) == idx = 0 => ble.connected /\ MtuFits

\* The App adds a chunk to those it has; it starts afresh at chunk 0.
Assembled(chunk) ==
  IF chunk.idx = 0 THEN <<chunk>> ELSE IF app.asm = <<>> THEN <<>> ELSE Append(app.asm, chunk)

\* A chunk reaches an App that has subscribed.
SendChunk(by, idx) ==
  /\ idx < Chunks /\ Fits(idx) /\ CanNotify
  /\ app' = IF ble.subscribed THEN [app EXCEPT !.asm = Assembled([by |-> by, idx |-> idx])] ELSE app

\* The manifest does not fit, the link is gone, or a notification fails: SendManifest gives up.
ChunkFails(idx) ==
  /\ idx < Chunks
  /\ \/ ~(Fits(idx) /\ CanNotify) /\ UNCHANGED faults
     \/ faults < MaxFaults /\ faults' = faults + 1

HostSends == host.pc \in {"manifest", "fetch"}
AfterManifest == IF HostAt("manifest") THEN "publish" ELSE "idle"

HostChunk ==
  /\ HostSends
  /\ SendChunk("host", host.idx)
  /\ host' = [host EXCEPT !.idx = @ + 1]
  /\ UNCHANGED <<gap, adv, bonds, ble, core, brd, requests, replies, faults>>

HostChunkFails ==
  /\ HostSends
  /\ ChunkFails(host.idx)
  /\ HostGoto(AfterManifest)
  /\ UNCHANGED <<gap, adv, bonds, ble, core, brd, requests, replies, app>>

HostSent ==
  /\ HostSends /\ host.idx = Chunks
  /\ core' = [core EXCEPT !.sent = TRUE]
  /\ HostGoto(AfterManifest)
  /\ UNCHANGED <<gap, adv, bonds, ble, brd, requests, replies, app, faults>>

BrdChunk ==
  /\ BrdAt("manifest")
  /\ SendChunk("board", brd.idx)
  /\ brd' = [brd EXCEPT !.idx = @ + 1]
  /\ UNCHANGED <<gap, adv, bonds, ble, core, host, requests, replies, faults>>

BrdChunkFails ==
  /\ BrdAt("manifest")
  /\ ChunkFails(brd.idx)
  /\ BrdGoto("idle")
  /\ UNCHANGED <<gap, adv, bonds, ble, core, host, requests, replies, app>>

BrdSent ==
  /\ BrdAt("manifest") /\ brd.idx = Chunks
  /\ core' = [core EXCEPT !.sent = TRUE]
  /\ BrdGoto("idle")
  /\ UNCHANGED <<gap, adv, bonds, ble, host, requests, replies, app, faults>>

-----------------------------------------------------------------------------
(* Commands and deferred replies *)

\* GattAccess takes writes from an authorized, encrypted and bonded peer.
TakesCommands == HostAt("idle") /\ gap.up /\ gap.secure /\ ble.authorized

\* 0x34 GetIoManifest, from an App that has subscribed.
Fetch ==
  /\ TakesCommands /\ ble.subscribed
  /\ host' = [pc |-> "fetch", idx |-> 0]
  /\ UNCHANGED <<gap, adv, bonds, ble, core, brd, requests, replies, app, faults>>

\* The board claims a command in on_command_request, to reply later.
Claim(id) ==
  /\ TakesCommands
  /\ \A r \in requests : r.id < id
  /\ requests' = requests \cup {[id |-> id, conn |-> gap.id, gen |-> core.gen, open |-> TRUE]}
  /\ UNCHANGED <<gap, adv, bonds, ble, core, host, brd, replies, app, faults>>

\* agent_link_command_reply: still the connection that asked?
ReplyCheck(r) ==
  /\ BrdAt("idle") /\ r.open
  /\ requests' = (requests \ {r}) \cup {[r EXCEPT !.open = FALSE]}
  /\ brd' = IF core.state # "disconnected" /\ r.gen = core.gen
              THEN [brd EXCEPT !.pc = "queue", !.reply = [conn |-> r.conn, gen |-> r.gen]]
              ELSE brd
  /\ UNCHANGED <<gap, adv, bonds, ble, core, host, replies, app, faults>>

\* QueueCommandReply.
QueueReply ==
  /\ BrdAt("queue")
  /\ replies' = IF ble.authorized /\ Len(replies) < MaxPending THEN Append(replies, brd.reply) ELSE replies
  /\ brd' = [brd EXCEPT !.pc = "idle", !.reply = NoReply]
  /\ UNCHANGED <<gap, adv, bonds, ble, core, host, requests, app, faults>>

\* Mutant of MayAnswer: the generation was checked when the reply was queued.
MayAnswerAnyone(r) == ble.authorized

MayAnswer(r) == r.gen = core.gen /\ ble.authorized

\* SendDeferredReply, on the host task; a notification that fails is not repeated.
SendDeferredReply ==
  /\ HostAt("idle") /\ replies # <<>>
  /\ replies' = Tail(replies)
  /\ LET r == Head(replies) IN
       app' = IF MayAnswer(r) /\ CanNotify
                THEN [app EXCEPT !.answers = @ \cup {[asked |-> r.conn, on |-> gap.id]}]
                ELSE app
  /\ UNCHANGED <<gap, adv, bonds, ble, core, host, brd, requests, faults>>

-----------------------------------------------------------------------------
(* API calls of the board *)

Call(c, pc) ==
  /\ BrdAt("idle") /\ c \in Calls /\ brd.calls < MaxCalls
  /\ brd' = [brd EXCEPT !.pc = pc, !.idx = 0, !.calls = @ + 1, !.stopped = @ \/ c = "stop"]

\* agent_link_notify_manifest_changed, after its 0x1A event.
ManifestChanged ==
  /\ Call("changed", "manifest")
  /\ UNCHANGED <<gap, adv, bonds, ble, core, host, requests, replies, app, faults>>

\* agent_link_forget: the bonds, the authorization, the connection.
ForgetBonds ==
  /\ Call("forget", "deauthorize")
  /\ bonds' = {}
  /\ UNCHANGED <<gap, adv, ble, core, host, requests, replies, app, faults>>

ForgetAuthorization ==
  /\ BrdAt("deauthorize")
  /\ ble' = [ble EXCEPT !.authorized = FALSE]
  /\ BrdGoto("terminate")
  /\ UNCHANGED <<gap, adv, bonds, core, host, requests, replies, app, faults>>

ForgetConnection ==
  /\ BrdAt("terminate")
  /\ gap' = IF ble.connected THEN [gap EXCEPT !.ending = gap.up] ELSE gap
  /\ brd' = [brd EXCEPT !.pc = "idle", !.forgot = gap.id]
  /\ UNCHANGED <<adv, bonds, ble, core, host, requests, replies, app, faults>>

\* agent_link_stop: advertising, the transport's flags, the state, the rest.
StopAdvertising ==
  /\ Call("stop", "stopflags")
  /\ adv' = FALSE
  /\ UNCHANGED <<gap, bonds, ble, core, host, requests, replies, app, faults>>

StopFlags ==
  /\ BrdAt("stopflags")
  /\ ble' = [connected |-> FALSE, authorized |-> FALSE, subscribed |-> FALSE]
  /\ BrdGoto("stopstate")
  /\ UNCHANGED <<gap, adv, bonds, core, host, requests, replies, app, faults>>

StopState ==
  /\ BrdAt("stopstate")
  /\ core' = [core EXCEPT !.state = "disconnected"]
  /\ BrdGoto("stopreset")
  /\ UNCHANGED <<gap, adv, bonds, ble, host, requests, replies, app, faults>>

StopReset ==
  /\ BrdAt("stopreset")
  /\ core' = [ResetLinkState EXCEPT !.phase = "idle"]
  /\ BrdGoto("idle")
  /\ UNCHANGED <<gap, adv, bonds, ble, host, requests, replies, app, faults>>

-----------------------------------------------------------------------------

GapStep ==
  \/ (\E p \in Peers : Connect(p)) \/ Secure \/ SecureFails \/ EncChange
  \/ (\E on \in BOOLEAN : Subscribe(on)) \/ Mtu \/ Disconnect
CoreStep ==
  \/ StateUp \/ ResetUp \/ ReadyIfSubscribed \/ LinkReady \/ PublishReady \/ StateDown \/ ResetDown
  \/ HostChunk \/ HostChunkFails \/ HostSent
CommandStep == Fetch \/ (\E id \in 1..MaxRequests : Claim(id)) \/ SendDeferredReply
BoardStep ==
  \/ (\E r \in requests : ReplyCheck(r)) \/ QueueReply
  \/ ManifestChanged \/ BrdChunk \/ BrdChunkFails \/ BrdSent
  \/ ForgetBonds \/ ForgetAuthorization \/ ForgetConnection
  \/ StopAdvertising \/ StopFlags \/ StopState \/ StopReset

Next == GapStep \/ CoreStep \/ CommandStep \/ BoardStep

Spec == Init /\ [][Next]_vars

-----------------------------------------------------------------------------
(* Properties *)

HostPcs == {"idle", "enc", "up", "upreset", "secured", "ready", "manifest", "publish", "fetch",
            "down", "downreset"}
BrdPcs == {"idle", "manifest", "queue", "deauthorize", "terminate", "stopflags", "stopstate", "stopreset"}
Replies == [conn : Nat, gen : Nat]
Requests == [id : 1..MaxRequests, conn : Nat, gen : Nat, open : BOOLEAN]
ChunksHeard == [by : {"host", "board"}, idx : 0..(Chunks - 1)]
Gaps == [id : 0..MaxConns, peer : Peers \cup {NoPeer}, up : BOOLEAN, secure : BOOLEAN,
         mtu : {"small", "large"}, ending : BOOLEAN, roomy : BOOLEAN]
Flags == [connected : BOOLEAN, authorized : BOOLEAN, subscribed : BOOLEAN]
Cores == [state : {"disconnected", "ready"}, gen : Nat, sent : BOOLEAN,
          phase : {"setup", "connecting", "ready", "idle"}]
Hosts == [pc : HostPcs, idx : 0..Chunks]
Brds == [pc : BrdPcs, idx : 0..Chunks, reply : Replies, calls : 0..MaxCalls, stopped : BOOLEAN,
         forgot : 0..MaxConns]
Apps == [asm : Seq(ChunksHeard), answers : SUBSET [asked : Nat, on : Nat]]

\* Every variable has its type, and no more replies are under way than QueueCommandReply admits.
TypeOK ==
  /\ gap \in Gaps /\ (gap.up => gap.peer \in Peers)
  /\ adv \in BOOLEAN /\ bonds \subseteq Peers /\ ble \in Flags
  /\ core \in Cores /\ host \in Hosts /\ brd \in Brds
  /\ requests \subseteq Requests
  /\ replies \in Seq(Replies) /\ Len(replies) <= MaxPending
  /\ app \in Apps
  /\ faults \in 0..MaxFaults

\* The device has one owner: once a phone has a bond no other gets one, until the board forgets it
\* (KnownOrFirstPeer), whatever connects, fails to pair or is cut off when.
OneOwner == [][bonds # {} => bonds' \in {bonds, {}}]_vars

\* A deferred reply reaches the connection that asked, or nobody (agent_link_command_reply,
\* SendDeferredReply): no later connection gets it.
ReplyToAsker == \A a \in app.answers : a.asked = a.on

\* In whatever order the App encrypts, subscribes and exchanges the MTU (if the manifest needs it),
\* once it has done so the core knows that the link is ready and the manifest has been sent, unless a
\* notification failed; and this connection has heard it, unless the board pushed one before the App
\* had subscribed (OnLinkReady, SetLinkState).
AppServed ==
  HostAt("idle") /\ ~brd.stopped /\ ble.authorized /\ ble.subscribed =>
    /\ core.state = "ready" /\ core.phase = "ready"
    /\ MtuFits /\ faults = 0 =>
         core.sent /\ (brd.calls = 0 => Len(app.asm) = Chunks)

\* What the App assembles from chunk 0 on is one manifest, in order (SendManifest).
ManifestIntact ==
  \A i \in DOMAIN app.asm : app.asm[i] = [by |-> app.asm[1].by, idx |-> i - 1]

\* After agent_link_forget the next phone may enroll: no bond is left of the connections before
\* (agent_transport_ble_forget).
ForgetOpensEnrollment == brd.forgot # 0 /\ brd.forgot = gap.id => bonds = {}

=============================================================================
